------------------------- MODULE BooleanQueryProofs -------------------------
(***************************************************************************)
(* Proofs about BooleanQuery for any words and any length of a query.      *)
(*                                                                         *)
(* What a query means, Readings, is a recursive function of parts of it.   *)
(* A statement about all parts is proved for one that is a shortest        *)
(* counterexample: it holds for what is shorter.  Lemmas named             *)
(* ...FromWithin are that step, and ...Holds the statement.                *)
(***************************************************************************)
EXTENDS BooleanQuery, SequenceTheorems, FiniteSetTheorems, WellFoundedInduction, TLAPS

-----------------------------------------------------------------------------
(* Nodes are made of nodes.                                                 *)

LEMMA NodeFacts ==
    ASSUME NEW n \in Nodes
    PROVE  /\ DOMAIN n \subseteq Lines
           /\ \A l \in DOMAIN n : n[l] \in Lines /\ n[l] \subseteq l
<1>1. PICK found \in SUBSET Lines : n \in [found -> Lines]
  BY DEF Nodes
<1> QED BY <1>1 DEF Nodes

LEMMA NodeIntro ==
    ASSUME NEW found \in SUBSET Lines, NEW n \in [found -> Lines],
           \A l \in found : n[l] \subseteq l
    PROVE  n \in Nodes
BY DEF Nodes

LEMMA NullIsNode == Null \in Nodes /\ DOMAIN Null = {}
<1>1. Null \in [{} -> Lines] /\ {} \in SUBSET Lines
  BY DEF Null
<1>2. Null \in Nodes
  BY <1>1, NodeIntro
<1> QED BY <1>2 DEF Null

LEMMA WordNodeIsNode == ASSUME NEW w \in Words PROVE WordNode(w) \in Nodes
<1> DEFINE found == {x \in Lines : w \in x}
<1>1. WordNode(w) \in [found -> Lines] /\ found \in SUBSET Lines
  BY DEF WordNode, Lines
<1>2. \A l \in found : WordNode(w)[l] \subseteq l
  BY DEF WordNode
<1> QED BY <1>1, <1>2, NodeIntro

LEMMA NotNodeIsNode == ASSUME NEW n \in Nodes PROVE NotNode(n) \in Nodes
<1> DEFINE found == Lines \ DOMAIN n
<1>1. NotNode(n) \in [found -> Lines] /\ found \in SUBSET Lines
  BY DEF NotNode, Lines
<1>2. \A l \in found : NotNode(n)[l] \subseteq l
  BY DEF NotNode
<1> QED BY <1>1, <1>2, NodeIntro

LEMMA AndNodeIsNode ==
    ASSUME NEW nodes \in Seq(Nodes) PROVE AndNode(nodes) \in Nodes
<1> DEFINE found == AllMatch(nodes)
           marks(l) == UNION {nodes[i][l] : i \in DOMAIN nodes}
<1>1. found \in SUBSET Lines
  BY DEF AllMatch
<1>2. ASSUME NEW l \in found PROVE marks(l) \subseteq l /\ l \in Lines
  <2>1. ASSUME NEW i \in DOMAIN nodes PROVE nodes[i][l] \subseteq l
    <3>1. nodes[i] \in Nodes /\ l \in DOMAIN nodes[i]
      BY <1>2, <2>1 DEF AllMatch
    <3> QED BY <3>1, NodeFacts
  <2>2. l \in Lines
    BY <1>2 DEF AllMatch
  <2> QED BY <2>1, <2>2
<1>3. \A l \in found : marks(l) \in Lines
  BY <1>2 DEF Lines
<1>4. AndNode(nodes) = [l \in found |-> marks(l)]
  BY DEF AndNode
<1> HIDE DEF found, marks
<1>5. AndNode(nodes) \in [found -> Lines]
  BY <1>3, <1>4
<1>6. \A l \in found : AndNode(nodes)[l] \subseteq l
  BY <1>2, <1>4
<1> QED BY <1>1, <1>5, <1>6, NodeIntro

-----------------------------------------------------------------------------
(* The first child that matches.                                            *)

NatLess == {ss \in Nat \X Nat : ss[1] < ss[2]}

LEMMA FirstMatchIsFirst ==
    ASSUME NEW nodes \in Seq(Nodes), NEW l \in AnyMatch(nodes)
    PROVE  /\ FirstMatch(nodes, l) \in DOMAIN nodes
           /\ l \in DOMAIN nodes[FirstMatch(nodes, l)]
<1> DEFINE S == {i \in DOMAIN nodes : l \in DOMAIN nodes[i]}
<1>1. S \subseteq Nat /\ S # {}
  BY DEF AnyMatch
<1>2. IsWellFoundedOn(NatLess, Nat)
  BY NatLessThanWellFounded DEF OpToRel, NatLess
<1>3. PICK x \in S : \A y \in S : ~ (<<y, x>> \in NatLess)
  BY <1>1, <1>2, WFMin
<1>4. \A y \in S : ~ (y < x)
  BY <1>1, <1>3 DEF NatLess
<1>5. \A j \in 1..(x - 1) : l \notin DOMAIN nodes[j]
  <2> SUFFICES ASSUME NEW j \in 1..(x - 1), l \in DOMAIN nodes[j] PROVE FALSE
    OBVIOUS
  <2>1. x \in 1..Len(nodes) /\ j \in DOMAIN nodes /\ j < x
    OBVIOUS
  <2> QED BY <1>4, <2>1
<1> QED BY <1>5 DEF FirstMatch

LEMMA OrNodeIsNode ==
    ASSUME NEW nodes \in Seq(Nodes) PROVE OrNode(nodes) \in Nodes
<1> DEFINE found == AnyMatch(nodes)
           marks(l) == nodes[FirstMatch(nodes, l)][l]
<1>1. found \in SUBSET Lines
  BY DEF AnyMatch
<1>2. ASSUME NEW l \in found PROVE marks(l) \in Lines /\ marks(l) \subseteq l
  <2>1. FirstMatch(nodes, l) \in DOMAIN nodes /\ l \in DOMAIN nodes[FirstMatch(nodes, l)]
    BY <1>2, FirstMatchIsFirst
  <2>2. nodes[FirstMatch(nodes, l)] \in Nodes
    BY <2>1
  <2> QED BY <2>1, <2>2, NodeFacts
<1>3. OrNode(nodes) = [l \in found |-> marks(l)]
  BY DEF OrNode
<1> HIDE DEF found, marks
<1>4. OrNode(nodes) \in [found -> Lines] /\ \A l \in found : OrNode(nodes)[l] \subseteq l
  BY <1>2, <1>3
<1> QED BY <1>1, <1>4, NodeIntro

-----------------------------------------------------------------------------
(* Nodes without NOT: what they mark is a reason for what they find.        *)

Monotone(n) == \A l \in DOMAIN n, more \in Lines : l \subseteq more => more \in DOMAIN n
Evident(n) == Monotone(n) /\ \A l \in DOMAIN n : n[l] \in DOMAIN n
EvidentNodes == {n \in Nodes : Evident(n)}

LEMMA NullIsEvident == Null \in EvidentNodes
BY NullIsNode DEF EvidentNodes, Evident, Monotone

LEMMA WordNodeIsEvident == ASSUME NEW w \in Words PROVE WordNode(w) \in EvidentNodes
<1>1. DOMAIN WordNode(w) = {x \in Lines : w \in x}
  BY DEF WordNode
<1>2. Monotone(WordNode(w))
  BY <1>1 DEF Monotone
<1>3. \A l \in DOMAIN WordNode(w) : WordNode(w)[l] \in DOMAIN WordNode(w)
  BY <1>1 DEF WordNode, Lines
<1> QED BY <1>2, <1>3, WordNodeIsNode DEF EvidentNodes, Evident

LEMMA ElementsAreNodes ==
    ASSUME NEW nodes \in Seq(EvidentNodes)
    PROVE  /\ nodes \in Seq(Nodes)
           /\ \A i \in DOMAIN nodes : nodes[i] \in Nodes /\ Evident(nodes[i])
<1>1. EvidentNodes \subseteq Nodes
  BY DEF EvidentNodes
<1>2. \A i \in DOMAIN nodes : nodes[i] \in EvidentNodes
  OBVIOUS
<1>3. nodes \in Seq(Nodes)
  BY <1>1, <1>2
<1> QED BY <1>2, <1>3 DEF EvidentNodes

LEMMA AndNodeIsEvident ==
    ASSUME NEW nodes \in Seq(EvidentNodes) PROVE AndNode(nodes) \in EvidentNodes
<1> DEFINE marks(l) == UNION {nodes[i][l] : i \in DOMAIN nodes}
<1>1. /\ nodes \in Seq(Nodes)
      /\ \A i \in DOMAIN nodes : nodes[i] \in Nodes /\ Evident(nodes[i])
  BY ElementsAreNodes
<1>2. AndNode(nodes) = [l \in AllMatch(nodes) |-> marks(l)]
  BY DEF AndNode
<1>3. Monotone(AndNode(nodes))
  <2> SUFFICES ASSUME NEW l \in AllMatch(nodes), NEW more \in Lines, l \subseteq more
               PROVE  more \in AllMatch(nodes)
    BY <1>2 DEF Monotone
  <2>1. ASSUME NEW i \in DOMAIN nodes PROVE more \in DOMAIN nodes[i]
    <3>1. l \in DOMAIN nodes[i]
      BY DEF AllMatch
    <3>2. Monotone(nodes[i])
      BY <1>1 DEF Evident
    <3> QED BY <3>1, <3>2 DEF Monotone
  <2> QED BY <2>1 DEF AllMatch
<1>4. ASSUME NEW l \in AllMatch(nodes) PROVE marks(l) \in AllMatch(nodes)
  <2>1. marks(l) \in Lines
    <3>1. ASSUME NEW i \in DOMAIN nodes PROVE nodes[i][l] \in Lines
      <4>1. nodes[i] \in Nodes /\ l \in DOMAIN nodes[i]
        BY <1>1, <1>4 DEF AllMatch
      <4> QED BY <4>1, NodeFacts
    <3> QED BY <3>1 DEF Lines
  <2>2. ASSUME NEW i \in DOMAIN nodes PROVE marks(l) \in DOMAIN nodes[i]
    <3>1. l \in DOMAIN nodes[i]
      BY <1>4 DEF AllMatch
    <3>2. nodes[i][l] \in DOMAIN nodes[i] /\ Monotone(nodes[i])
      BY <1>1, <3>1 DEF Evident
    <3>3. nodes[i][l] \subseteq marks(l)
      OBVIOUS
    <3> HIDE DEF marks
    <3> QED BY <2>1, <3>2, <3>3 DEF Monotone
  <2> HIDE DEF marks
  <2> QED BY <2>1, <2>2 DEF AllMatch
<1> HIDE DEF marks
<1>5. \A l \in DOMAIN AndNode(nodes) : AndNode(nodes)[l] \in DOMAIN AndNode(nodes)
  BY <1>2, <1>4
<1> QED BY <1>1, <1>3, <1>5, AndNodeIsNode DEF EvidentNodes, Evident

LEMMA OrNodeIsEvident ==
    ASSUME NEW nodes \in Seq(EvidentNodes) PROVE OrNode(nodes) \in EvidentNodes
<1> DEFINE first(l) == FirstMatch(nodes, l)
<1>1. /\ nodes \in Seq(Nodes)
      /\ \A i \in DOMAIN nodes : nodes[i] \in Nodes /\ Evident(nodes[i])
  BY ElementsAreNodes
<1>2. OrNode(nodes) = [l \in AnyMatch(nodes) |-> nodes[first(l)][l]]
  BY DEF OrNode
<1>3. Monotone(OrNode(nodes))
  <2> SUFFICES ASSUME NEW l \in AnyMatch(nodes), NEW more \in Lines, l \subseteq more
               PROVE  more \in AnyMatch(nodes)
    BY <1>2 DEF Monotone
  <2>1. PICK i \in DOMAIN nodes : l \in DOMAIN nodes[i]
    BY DEF AnyMatch
  <2>2. more \in DOMAIN nodes[i]
    BY <1>1, <2>1 DEF Evident, Monotone
  <2> QED BY <2>1, <2>2 DEF AnyMatch
<1>4. ASSUME NEW l \in AnyMatch(nodes) PROVE nodes[first(l)][l] \in AnyMatch(nodes)
  <2>1. first(l) \in DOMAIN nodes /\ l \in DOMAIN nodes[first(l)]
    BY <1>1, <1>4, FirstMatchIsFirst
  <2> HIDE DEF first
  <2>2. nodes[first(l)][l] \in DOMAIN nodes[first(l)] /\ nodes[first(l)] \in Nodes
    BY <1>1, <2>1 DEF Evident
  <2>3. nodes[first(l)][l] \in Lines
    BY <2>1, <2>2, NodeFacts
  <2> QED BY <2>1, <2>2, <2>3 DEF AnyMatch
<1> HIDE DEF first
<1>5. \A l \in DOMAIN OrNode(nodes) : OrNode(nodes)[l] \in DOMAIN OrNode(nodes)
  BY <1>2, <1>4
<1> QED BY <1>1, <1>3, <1>5, OrNodeIsNode DEF EvidentNodes, Evident

-----------------------------------------------------------------------------
(* The parser makes nodes of a set N that words, conjunctions and           *)
(* alternatives stay in, and negations unless there is none.                *)

Closed(N) ==
    /\ Null \in N
    /\ \A w \in Words : WordNode(w) \in N
    /\ \A nodes \in Seq(N) : AndNode(nodes) \in N /\ OrNode(nodes) \in N

LEMMA NodesAreClosed == Closed(Nodes)
BY NullIsNode, WordNodeIsNode, AndNodeIsNode, OrNodeIsNode DEF Closed

LEMMA EvidentNodesAreClosed == Closed(EvidentNodes)
BY NullIsEvident, WordNodeIsEvident, AndNodeIsEvident, OrNodeIsEvident DEF Closed

LEMMA CombinedStays ==
    ASSUME NEW N, Closed(N), NEW C, NEW level \in LevelsOf(N, C)
    PROVE  Combined(level) \in N
<1>1. level.nodes \in Seq(N)
  BY DEF LevelsOf
<1>2. CASE level.nodes = << >>
  BY <1>2 DEF Combined, Closed
<1>3. CASE level.nodes # << >> /\ Len(level.nodes) = 1
  BY <1>1, <1>3 DEF Combined
<1>4. CASE level.nodes # << >> /\ Len(level.nodes) # 1 /\ level.ops = {"OR"}
  <2>1. Len(level.nodes) \in Nat /\ Len(level.nodes) # 0
    BY <1>1, <1>4, EmptySeq
  <2>2. Combined(level) = OrNode(level.nodes)
    <3> DEFINE k == Len(level.nodes)
    <3>1. k > 1
      <4>1. k \in Nat /\ k # 0 /\ k # 1
        BY <1>4, <2>1
      <4> HIDE DEF k
      <4> QED BY <4>1
    <3> QED BY <1>4, <3>1 DEF Combined
  <2> QED BY <1>1, <2>2 DEF Closed
<1>5. CASE level.nodes # << >> /\ Len(level.nodes) # 1 /\ level.ops # {"OR"}
  <2>1. Combined(level) = AndNode(level.nodes)
    BY <1>5 DEF Combined
  <2> QED BY <1>1, <2>1 DEF Closed
<1> QED BY <1>2, <1>3, <1>4, <1>5

LEMMA AddedStays ==
    ASSUME NEW N, NEW C, NEW level \in LevelsOf(N, C), NEW n \in N
    PROVE  Added(level, n) \in LevelsOf(N, C) /\ Added(level, n).caller = level.caller
<1>1. level.nodes \in Seq(N)
  BY DEF LevelsOf
<1>2. Append(level.nodes, n) \in Seq(N)
  BY <1>1
<1> DEFINE nodes == Append(level.nodes, n)
<1>3. Added(level, n) = [level EXCEPT !.nodes = nodes]
  BY DEF Added, LevelsOf
<1> HIDE DEF nodes
<1>4. nodes \in Seq(N)
  BY <1>2 DEF nodes
<1>5. [level EXCEPT !.nodes = nodes] \in LevelsOf(N, C)
  BY <1>4 DEF LevelsOf
<1>6. [level EXCEPT !.nodes = nodes].caller = level.caller
  BY DEF LevelsOf
<1> QED BY <1>3, <1>5, <1>6

LEMMA LevelStays ==
    ASSUME NEW N, NEW C, NEW caller \in C
    PROVE  Level(caller) \in LevelsOf(N, C) /\ Level(caller).caller = caller
BY DEF Level, LevelsOf

LEMMA OperatorStays ==
    ASSUME NEW N, NEW C, NEW level \in LevelsOf(N, C), NEW op \in Operators
    PROVE  LET next == [level EXCEPT !.ops = @ \cup {op}] IN
           next \in LevelsOf(N, C) /\ next.caller = level.caller
BY DEF LevelsOf

(* The sequence without its last element ...                                *)
LEMMA FrontFacts ==
    ASSUME NEW L, NEW s \in Seq(L), s # << >>
    PROVE  LET t == SubSeq(s, 1, Len(s) - 1) IN
           /\ t \in Seq(L) /\ Len(t) = Len(s) - 1 /\ Len(s) \in Nat /\ Len(s) >= 1
           /\ \A i \in 1..(Len(s) - 1) : t[i] = s[i]
<1>1. Len(s) \in Nat /\ Len(s) >= 1
  BY EmptySeq
<1>2. \A i \in 1..(Len(s) - 1) : s[i] \in L
  BY <1>1
<1>3. /\ SubSeq(s, 1, Len(s) - 1) \in Seq(L)
      /\ Len(SubSeq(s, 1, Len(s) - 1)) = Len(s) - 1
  <2>1. Len(s) - 1 \in Int /\ 1 \in Int
    BY <1>1
  <2>2. Len(SubSeq(s, 1, Len(s) - 1)) = IF 1 <= Len(s) - 1 THEN Len(s) - 1 - 1 + 1 ELSE 0
    BY <1>2, <2>1, SubSeqProperties
  <2>3. SubSeq(s, 1, Len(s) - 1) \in Seq(L)
    BY <1>2, <2>1, SubSeqProperties
  <2>4. ASSUME NEW k \in Nat, k >= 1
        PROVE  (IF 1 <= k - 1 THEN k - 1 - 1 + 1 ELSE 0) = k - 1
    BY <2>4
  <2>5. Len(SubSeq(s, 1, Len(s) - 1)) = Len(s) - 1
    BY <1>1, <2>2, <2>4
  <2> QED BY <2>3, <2>5
<1>4. \A i \in 1..(Len(s) - 1) : SubSeq(s, 1, Len(s) - 1)[i] = s[i]
  BY <1>1
<1> QED BY <1>1, <1>3, <1>4

(* ... and with another last element.                                       *)
LEMMA LastReplaced ==
    ASSUME NEW L, NEW s \in Seq(L), s # << >>, NEW x \in L
    PROVE  LET t == Append(SubSeq(s, 1, Len(s) - 1), x) IN
           /\ t \in Seq(L) /\ Len(t) = Len(s) /\ t[Len(s)] = x
           /\ \A i \in 1..(Len(s) - 1) : t[i] = s[i]
<1> DEFINE u == SubSeq(s, 1, Len(s) - 1)
<1>1. /\ u \in Seq(L) /\ Len(u) = Len(s) - 1 /\ Len(s) \in Nat /\ Len(s) >= 1
      /\ \A i \in 1..(Len(s) - 1) : u[i] = s[i]
  BY FrontFacts
<1> HIDE DEF u
<1>2. /\ Append(u, x) \in Seq(L) /\ Len(Append(u, x)) = Len(s)
      /\ Append(u, x)[Len(s)] = x
      /\ \A i \in 1..(Len(s) - 1) : Append(u, x)[i] = u[i]
  BY <1>1, AppendProperties
<1> QED BY <1>1, <1>2 DEF u

(* The callers: the call for the query is the outermost, and only that.     *)
CallersInv == \A i \in DOMAIN levels : levels[i].caller = "query" <=> i = 1

LEMMA StepStays ==
    ASSUME NEW N, Closed(N), NEW C, "(" \in C,
           levels \in Seq(LevelsOf(N, C)), levels # << >>, pattern \in N, CallersInv,
           \/ "NOT" \in C /\ \A n \in N : NotNode(n) \in N
           \/ "NOT" \notin C /\ ~AfterNot,
           Next
    PROVE  levels' \in Seq(LevelsOf(N, C)) /\ levels' # << >> /\ pattern' \in N /\ CallersInv'
<1> DEFINE L == LevelsOf(N, C)
<1> SUFFICES ASSUME TRUE
             PROVE  levels' \in Seq(L) /\ levels' # << >> /\ pattern' \in N /\ CallersInv'
  OBVIOUS
<1>1. levels \in Seq(L) /\ Len(levels) \in Nat /\ Len(levels) >= 1
  OBVIOUS
<1>2. Innermost \in L
  BY <1>1 DEF Innermost
<1> HIDE DEF L
<1>3. ASSUME Fail PROVE levels' \in Seq(L) /\ levels' # << >> /\ pattern' \in N /\ CallersInv'
  BY <1>1, <1>3 DEF Fail, CallersInv
<1>4. ASSUME NEW x \in L, x.caller = Innermost.caller, levels' = Append(Outer, x),
             UNCHANGED pattern
      PROVE  levels' \in Seq(L) /\ levels' # << >> /\ pattern' \in N /\ CallersInv'
  <2>1. /\ levels' \in Seq(L) /\ Len(levels') = Len(levels) /\ levels'[Len(levels)] = x
        /\ \A i \in 1..(Len(levels) - 1) : levels'[i] = levels[i]
    BY <1>1, <1>4, LastReplaced DEF Outer
  <2>2. \A i \in DOMAIN levels' : i \in DOMAIN levels /\ levels'[i].caller = levels[i].caller
    BY <1>1, <1>4, <2>1 DEF Innermost
  <2>3. levels' # << >>
    BY <1>1, <2>1
  <2> QED BY <1>4, <2>1, <2>2, <2>3 DEF CallersInv
<1>5. ASSUME NEW w \in Words, ReadWord(w)
      PROVE  levels' \in Seq(L) /\ levels' # << >> /\ pattern' \in N /\ CallersInv'
  <2> DEFINE n == IF AfterNot THEN NotNode(WordNode(w)) ELSE WordNode(w)
  <2>1. n \in N
    BY DEF Closed
  <2>2. Added(Innermost, n) \in L /\ Added(Innermost, n).caller = Innermost.caller
    BY <1>2, <2>1, AddedStays DEF L
  <2>3. Fail \/ (levels' = Append(Outer, Added(Innermost, n)) /\ UNCHANGED pattern)
    BY <1>5 DEF ReadWord
  <2> HIDE DEF n
  <2> QED BY <1>3, <1>4, <2>2, <2>3
<1>6. ASSUME NEW op \in Operators, ReadOperator(op)
      PROVE  levels' \in Seq(L) /\ levels' # << >> /\ pattern' \in N /\ CallersInv'
  <2> DEFINE x == [Innermost EXCEPT !.ops = @ \cup {op}]
  <2>1. x \in L /\ x.caller = Innermost.caller
    BY <1>2, OperatorStays DEF L
  <2>2. Fail \/ (levels' = Append(Outer, x) /\ UNCHANGED pattern)
    BY <1>6 DEF ReadOperator
  <2> HIDE DEF x
  <2> QED BY <1>3, <1>4, <2>1, <2>2
<1>7. ASSUME ReadNot
      PROVE  levels' \in Seq(L) /\ levels' # << >> /\ pattern' \in N /\ CallersInv'
  BY <1>1, <1>3, <1>7 DEF ReadNot, CallersInv
<1>8. ASSUME ReadOpen
      PROVE  levels' \in Seq(L) /\ levels' # << >> /\ pattern' \in N /\ CallersInv'
  <2> DEFINE x == Level(IF AfterNot THEN "NOT" ELSE "(")
  <2>1. x \in L /\ x.caller \in {"NOT", "("}
    BY LevelStays DEF L
  <2>2. levels' = Append(levels, x) /\ UNCHANGED pattern
    BY <1>8 DEF ReadOpen
  <2> HIDE DEF x
  <2>3. /\ levels' \in Seq(L) /\ Len(levels') = Len(levels) + 1 /\ levels'[Len(levels) + 1] = x
        /\ \A i \in 1..Len(levels) : levels'[i] = levels[i]
    BY <1>1, <2>1, <2>2
  <2>4. x.caller # "query"
    BY <2>1
  <2>5. CallersInv'
    BY <1>1, <2>3, <2>4 DEF CallersInv
  <2> QED BY <2>2, <2>3, <2>5
<1>9. ASSUME ReadClose
      PROVE  levels' \in Seq(L) /\ levels' # << >> /\ pattern' \in N /\ CallersInv'
  <2> DEFINE n == IF Innermost.caller = "NOT" THEN NotNode(Combined(Innermost))
                  ELSE Combined(Innermost)
             x == Added(Outer[Len(Outer)], n)
  <2>1. CASE Fail
    BY <1>3, <2>1
  <2>2. CASE ~Fail
    <3>1. /\ Len(levels) # 1 /\ UNCHANGED pattern
          /\ levels' = Append(SubSeq(Outer, 1, Len(Outer) - 1), x)
      BY <1>9, <2>2 DEF ReadClose
    <3>2. n \in N
      <4>1. Combined(Innermost) \in N
        BY <1>2, CombinedStays DEF L
      <4>2. Innermost.caller \in C
        BY <1>2 DEF L, LevelsOf
      <4> QED BY <4>1, <4>2
    <3>3. /\ Outer \in Seq(L) /\ Len(Outer) = Len(levels) - 1 /\ Outer # << >>
          /\ \A i \in 1..(Len(levels) - 1) : Outer[i] = levels[i]
      <4>1. /\ Outer \in Seq(L) /\ Len(Outer) = Len(levels) - 1
            /\ \A i \in 1..(Len(levels) - 1) : Outer[i] = levels[i]
        BY <1>1, FrontFacts DEF Outer
      <4>2. Len(Outer) # 0
        BY <1>1, <3>1, <4>1
      <4> QED BY <4>1, <4>2
    <3>4. Outer[Len(Outer)] \in L
      BY <3>3
    <3>5. x \in L /\ x.caller = Outer[Len(Outer)].caller
      BY <3>2, <3>4, AddedStays DEF L
    <3> HIDE DEF x
    <3>6. /\ levels' \in Seq(L) /\ Len(levels') = Len(Outer) /\ levels'[Len(Outer)] = x
          /\ \A i \in 1..(Len(Outer) - 1) : levels'[i] = Outer[i]
      BY <3>1, <3>3, <3>5, LastReplaced
    <3>7. \A i \in DOMAIN levels' : i \in DOMAIN levels /\ levels'[i].caller = levels[i].caller
      BY <1>1, <3>3, <3>5, <3>6
    <3>8. levels' # << >>
      BY <1>1, <3>1, <3>3, <3>6
    <3> QED BY <3>1, <3>6, <3>7, <3>8 DEF CallersInv
  <2> QED BY <2>1, <2>2
<1>10. ASSUME End
       PROVE  levels' \in Seq(L) /\ levels' # << >> /\ pattern' \in N /\ CallersInv'
  <2>1. UNCHANGED levels /\ (pattern' = Combined(Innermost) \/ UNCHANGED pattern)
    BY <1>10 DEF End
  <2>2. pattern' \in N
    BY <1>2, <2>1, CombinedStays DEF L
  <2> QED BY <1>1, <2>1, <2>2 DEF CallersInv
<1>11. ASSUME NEW token, ReadRest(token)
       PROVE  levels' \in Seq(L) /\ levels' # << >> /\ pattern' \in N /\ CallersInv'
  BY <1>1, <1>11 DEF ReadRest, CallersInv
<1> QED BY <1>5, <1>6, <1>7, <1>8, <1>9, <1>10, <1>11 DEF Next

-----------------------------------------------------------------------------
(* The theorems.                                                            *)

LEMMA TypeOfNext == TypeOK /\ [Next]_vars => TypeOK'
<1> SUFFICES ASSUME TypeOK, [Next]_vars PROVE TypeOK'
  OBVIOUS
<1>1. CASE Next
  <2>1. "(" \in Callers /\ "NOT" \in Callers
    BY DEF Callers
  <2>2. /\ levels' \in Seq(LevelsOf(Nodes, Callers)) /\ levels' # << >>
        /\ pattern' \in Nodes /\ CallersInv'
    BY <1>1, <2>1, NodesAreClosed, NotNodeIsNode, StepStays DEF TypeOK, CallersInv
  <2>3. /\ read' \in Seq(Words \cup Symbols) /\ Len(read') <= MaxTokens
    <3>1. ASSUME NEW token \in Words \cup Symbols, Read(token)
          PROVE  read' \in Seq(Words \cup Symbols) /\ Len(read') <= MaxTokens
      BY <3>1, QueryAssumption DEF Read, TypeOK
    <3>2. Operators \subseteq Symbols /\ {"NOT", "(", ")"} \subseteq Symbols
      BY DEF Symbols
    <3>3. ASSUME NEW token \in Words \cup Symbols, ReadRest(token)
          PROVE  read' \in Seq(Words \cup Symbols) /\ Len(read') <= MaxTokens
      BY <3>3, QueryAssumption DEF ReadRest, TypeOK
    <3>4. \/ \E token \in Words \cup Symbols : Read(token)
          \/ \E token \in Words \cup Symbols : ReadRest(token)
          \/ UNCHANGED read
      BY <1>1, <3>2 DEF Next, ReadWord, ReadOperator, ReadNot, ReadOpen, ReadClose, End
    <3> QED BY <3>1, <3>3, <3>4 DEF TypeOK
  <2>4. state' \in {"reading", "failed", "accepted", "rejected"}
    BY <1>1 DEF TypeOK, Next, ReadWord, ReadOperator, ReadNot, ReadOpen, ReadClose, End,
                ReadRest, Fail
  <2> QED BY <2>2, <2>3, <2>4 DEF TypeOK, CallersInv
<1>2. CASE UNCHANGED vars
  BY <1>2 DEF TypeOK, vars
<1> QED BY <1>1, <1>2

LEMMA TypeOfInit == Init => TypeOK
<1> SUFFICES ASSUME Init PROVE TypeOK
  OBVIOUS
<1>1. Level("query") \in LevelsOf(Nodes, Callers) /\ Level("query").caller = "query"
  BY LevelStays DEF Callers
<1>2. levels = <<Level("query")>>
  BY DEF Init
<1>3. levels \in Seq(LevelsOf(Nodes, Callers)) /\ levels # << >> /\ CallersInv
  <2> HIDE DEF Level
  <2> QED BY <1>1, <1>2 DEF CallersInv
<1> QED BY <1>3, NullIsNode, QueryAssumption DEF Init, TypeOK, CallersInv

(* Every variable of the parser keeps its type: in particular no words are  *)
(* marked in a line that are not in it.                                     *)
THEOREM TypeCorrect == Spec => []TypeOK
BY TypeOfInit, TypeOfNext, PTL DEF Spec

(* Without a NOT all nodes are evident.                                     *)
WithoutNot == \A i \in DOMAIN read : read[i] # "NOT"

EvidentInv ==
    WithoutNot => /\ levels \in Seq(LevelsOf(EvidentNodes, Callers \ {"NOT"}))
                  /\ pattern \in EvidentNodes

LEMMA EvidentNext == TypeOK /\ EvidentInv /\ [Next]_vars => EvidentInv'
<1> SUFFICES ASSUME TypeOK, EvidentInv, [Next]_vars, WithoutNot'
             PROVE  /\ levels' \in Seq(LevelsOf(EvidentNodes, Callers \ {"NOT"}))
                    /\ pattern' \in EvidentNodes
  BY DEF EvidentInv
<1>1. CASE Next
  <2>1. \A i \in DOMAIN read : i \in DOMAIN read' /\ read'[i] = read[i]
    <3>1. (\E token : Read(token) \/ ReadRest(token)) \/ UNCHANGED read
      BY <1>1 DEF Next, ReadWord, ReadOperator, ReadNot, ReadOpen, ReadClose, End
    <3> QED BY <3>1 DEF Read, ReadRest, TypeOK
  <2>2. WithoutNot
    BY <2>1 DEF WithoutNot
  <2>3. ~AfterNot
    BY <2>2 DEF WithoutNot, AfterNot, TypeOK
  <2>4. "(" \in Callers \ {"NOT"} /\ "NOT" \notin Callers \ {"NOT"}
    BY DEF Callers
  <2>5. levels # << >> /\ CallersInv
    BY DEF TypeOK, CallersInv
  <2> QED BY <1>1, <2>2, <2>3, <2>4, <2>5, EvidentNodesAreClosed, StepStays DEF EvidentInv
<1>2. CASE UNCHANGED vars
  BY <1>2 DEF EvidentInv, WithoutNot, vars
<1> QED BY <1>1, <1>2

LEMMA EvidentInit == Init => EvidentInv
<1> SUFFICES ASSUME Init PROVE EvidentInv
  OBVIOUS
<1>1. Level("query") \in LevelsOf(EvidentNodes, Callers \ {"NOT"})
  BY LevelStays DEF Callers
<1>2. levels = <<Level("query")>>
  BY DEF Init
<1>3. levels \in Seq(LevelsOf(EvidentNodes, Callers \ {"NOT"}))
  BY <1>1, <1>2
<1> QED BY <1>3, NullIsEvident DEF Init, EvidentInv

(* The words marked in a line that a query without NOT finds are a reason   *)
(* to find it: a line with just these words is found, too.                  *)
THEOREM MarkedWordsSufficeHolds == Spec => []MarkedWordsSuffice
<1>1. EvidentInv => MarkedWordsSuffice
  BY DEF EvidentInv, WithoutNot, EvidentNodes, Evident, MarkedWordsSuffice
<1>2. Spec => [](TypeOK /\ EvidentInv)
  BY TypeOfInit, TypeOfNext, EvidentInit, EvidentNext, PTL DEF Spec
<1> QED BY <1>1, <1>2, PTL

-----------------------------------------------------------------------------
(* The meanings of the tokens from i to j, by cases.                        *)

LEMMA PhraseCases ==
    ASSUME NEW q, NEW M, NEW i \in Int, NEW j \in Int, i <= j, NEW x
    PROVE  x \in Phrases(q, M, i, j) <=>
             \/ i = j /\ q[i] \in Words /\ x = {l \in Lines : q[i] \in l}
             \/ i < j /\ q[i] = "(" /\ q[j] = ")" /\ x \in M[<<i + 1, j - 1>>]
<1>1. CASE i = j
  <2>1. Phrases(q, M, i, j) = {{l \in Lines : w \in l} : w \in Words \cap {q[i]}}
    BY <1>1 DEF Phrases
  <2> QED BY <1>1, <2>1
<1>2. CASE i # j
  <2>1. i < j
    BY <1>2
  <2> QED BY <1>2, <2>1 DEF Phrases
<1> QED BY <1>1, <1>2

WholeIs(q, M, i, j, x) ==
    \/ x \in Phrases(q, M, i, j)
    \/ i < j /\ q[i] = "NOT" /\ \E y \in Phrases(q, M, i + 1, j) : x = Lines \ y
    \/ \E k \in i + 1..j - 1 : \E y \in M[<<i, k - 1>>] :
          \/ q[k] = "AND" /\ \E z \in M[<<k + 1, j>>] : x = y \cap z
          \/ q[k] = "OR" /\ \E z \in M[<<k + 1, j>>] : x = y \cup z
          \/ q[k] = "NOT" /\ \E z \in Phrases(q, M, k + 1, j) : x = y \ z

LEMMA WholeCases ==
    ASSUME NEW q, NEW M, NEW i \in Int, NEW j \in Int, i <= j, NEW x
    PROVE  x \in Wholes(q, M, i, j) <=> WholeIs(q, M, i, j, x)
<1> DEFINE parts(k) == IF q[k] = "NOT" THEN Phrases(q, M, k + 1, j) ELSE M[<<k + 1, j>>]
           joints == {k \in i + 1..j - 1 : q[k] \in Operators \cup {"NOT"}}
           A == Phrases(q, M, i, j)
           B == {Lines \ y : y \in IF i < j /\ q[i] = "NOT" THEN parts(i) ELSE {}}
           C == UNION {UNION {{Joined(q[k], y, z) : z \in parts(k)} : y \in M[<<i, k - 1>>]} :
                         k \in joints}
<1>1. Wholes(q, M, i, j) = A \cup B \cup C
  BY DEF Wholes
<1>2. x \in B <=> i < j /\ q[i] = "NOT" /\ \E y \in Phrases(q, M, i + 1, j) : x = Lines \ y
  OBVIOUS
<1>3. x \in C <=> \E k \in joints : \E y \in M[<<i, k - 1>>] : \E z \in parts(k) :
                    x = Joined(q[k], y, z)
  <2> DEFINE F(k, y) == {Joined(q[k], y, z) : z \in parts(k)}
             G(k) == UNION {F(k, y) : y \in M[<<i, k - 1>>]}
  <2>1. C = UNION {G(k) : k \in joints}
    OBVIOUS
  <2> HIDE DEF joints, parts, C
  <2>2. ASSUME NEW k, NEW y PROVE x \in F(k, y) <=> \E z \in parts(k) : x = Joined(q[k], y, z)
    OBVIOUS
  <2> HIDE DEF F
  <2>3. ASSUME NEW k PROVE x \in G(k) <=> \E y \in M[<<i, k - 1>>] : x \in F(k, y)
    OBVIOUS
  <2> HIDE DEF G
  <2>4. x \in C <=> \E k \in joints : x \in G(k)
    BY <2>1
  <2> QED BY <2>2, <2>3, <2>4
<1>4. ASSUME NEW k \in i + 1..j - 1, NEW y
      PROVE  (k \in joints /\ \E z \in parts(k) : x = Joined(q[k], y, z)) <=>
               \/ q[k] = "AND" /\ \E z \in M[<<k + 1, j>>] : x = y \cap z
               \/ q[k] = "OR" /\ \E z \in M[<<k + 1, j>>] : x = y \cup z
               \/ q[k] = "NOT" /\ \E z \in Phrases(q, M, k + 1, j) : x = y \ z
  <2>1. "AND" # "OR" /\ "AND" # "NOT" /\ "OR" # "NOT"
    OBVIOUS
  <2>2. CASE q[k] = "AND"
    BY <2>2 DEF Joined, Operators
  <2>3. CASE q[k] = "OR"
    BY <2>3 DEF Joined, Operators
  <2>4. CASE q[k] = "NOT"
    BY <2>4 DEF Joined, Operators
  <2>5. CASE q[k] \notin {"AND", "OR", "NOT"}
    BY <2>5 DEF Operators
  <2> QED BY <2>2, <2>3, <2>4, <2>5
<1>5. joints \subseteq i + 1..j - 1
  OBVIOUS
<1> HIDE DEF A, B, C, parts, joints
<1>6. x \in C <=> \E k \in i + 1..j - 1 : \E y \in M[<<i, k - 1>>] :
                    k \in joints /\ \E z \in parts(k) : x = Joined(q[k], y, z)
  BY <1>3, <1>5
<1>7. x \in C <=> \E k \in i + 1..j - 1 : \E y \in M[<<i, k - 1>>] :
          \/ q[k] = "AND" /\ \E z \in M[<<k + 1, j>>] : x = y \cap z
          \/ q[k] = "OR" /\ \E z \in M[<<k + 1, j>>] : x = y \cup z
          \/ q[k] = "NOT" /\ \E z \in Phrases(q, M, k + 1, j) : x = y \ z
  BY ONLY <1>4, <1>6
<1> QED BY ONLY <1>1, <1>2, <1>7 DEF WholeIs, A

(* They depend on these tokens and on the meanings of what is shorter.      *)
Agree(q, M, r, N, i, j) ==
    /\ \A k \in i..j : q[k] = r[k]
    /\ \A a, b \in i..j : b - a < j - i => M[<<a, b>>] = N[<<a, b>>]

LEMMA PhrasesLocal ==
    ASSUME NEW q, NEW M, NEW r, NEW N, NEW i \in Int, NEW j \in Int, i <= j,
           Agree(q, M, r, N, i, j)
    PROVE  Phrases(q, M, i, j) = Phrases(r, N, i, j)
<1>1. q[i] = r[i] /\ q[j] = r[j]
  BY DEF Agree
<1>2. i # j => M[<<i + 1, j - 1>>] = N[<<i + 1, j - 1>>]
  <2> SUFFICES ASSUME i # j PROVE M[<<i + 1, j - 1>>] = N[<<i + 1, j - 1>>]
    OBVIOUS
  <2>1. i + 1 \in i..j /\ j - 1 \in i..j /\ (j - 1) - (i + 1) < j - i
    OBVIOUS
  <2> QED BY <2>1 DEF Agree
<1> QED BY <1>1, <1>2 DEF Phrases

LEMMA AgreeWithin ==
    ASSUME NEW q, NEW M, NEW r, NEW N, NEW i \in Int, NEW j \in Int, Agree(q, M, r, N, i, j),
           NEW a \in i..j, NEW b \in i..j
    PROVE  Agree(q, M, r, N, a, b)
<1>1. \A k \in a..b : k \in i..j
  OBVIOUS
<1>2. b - a <= j - i
  OBVIOUS
<1>3. \A c, d \in a..b : d - c < b - a => c \in i..j /\ d \in i..j /\ d - c < j - i
  BY <1>1, <1>2
<1> QED BY <1>1, <1>3 DEF Agree

LEMMA WholesLocal ==
    ASSUME NEW q, NEW M, NEW r, NEW N, NEW i \in Int, NEW j \in Int, i <= j,
           Agree(q, M, r, N, i, j)
    PROVE  Wholes(q, M, i, j) = Wholes(r, N, i, j)
<1>1. Phrases(q, M, i, j) = Phrases(r, N, i, j)
  BY PhrasesLocal
<1>2. ASSUME NEW k \in i..j - 1 PROVE Phrases(q, M, k + 1, j) = Phrases(r, N, k + 1, j)
  <2>1. k + 1 \in i..j /\ j \in i..j /\ k + 1 <= j /\ k + 1 \in Int
    OBVIOUS
  <2> QED BY <2>1, AgreeWithin, PhrasesLocal
<1>3. ASSUME NEW k \in i + 1..j - 1
      PROVE  /\ q[k] = r[k]
             /\ M[<<i, k - 1>>] = N[<<i, k - 1>>] /\ M[<<k + 1, j>>] = N[<<k + 1, j>>]
             /\ Phrases(q, M, k + 1, j) = Phrases(r, N, k + 1, j)
  <2>1. /\ k \in i..j /\ k \in i..j - 1 /\ i \in i..j /\ k - 1 \in i..j /\ k + 1 \in i..j
        /\ j \in i..j /\ k - 1 - i < j - i /\ j - (k + 1) < j - i
    OBVIOUS
  <2>2. M[<<i, k - 1>>] = N[<<i, k - 1>>] /\ M[<<k + 1, j>>] = N[<<k + 1, j>>] /\ q[k] = r[k]
    BY <2>1 DEF Agree
  <2> QED BY <1>2, <2>1, <2>2
<1>4. q[i] = r[i]
  BY DEF Agree
<1>5. i < j => Phrases(q, M, i + 1, j) = Phrases(r, N, i + 1, j)
  <2>1. i < j => i \in i..j - 1
    OBVIOUS
  <2> QED BY <1>2, <2>1
<1>6. ASSUME NEW x PROVE WholeIs(q, M, i, j, x) <=> WholeIs(r, N, i, j, x)
  <2> DEFINE at(p, P, k) == \E y \in P[<<i, k - 1>>] :
                \/ p[k] = "AND" /\ \E z \in P[<<k + 1, j>>] : x = y \cap z
                \/ p[k] = "OR" /\ \E z \in P[<<k + 1, j>>] : x = y \cup z
                \/ p[k] = "NOT" /\ \E z \in Phrases(p, P, k + 1, j) : x = y \ z
             not(p, P) == i < j /\ p[i] = "NOT" /\ \E y \in Phrases(p, P, i + 1, j) : x = Lines \ y
  <2>1. /\ WholeIs(q, M, i, j, x) <=>
            x \in Phrases(q, M, i, j) \/ not(q, M) \/ \E k \in i + 1..j - 1 : at(q, M, k)
        /\ WholeIs(r, N, i, j, x) <=>
            x \in Phrases(r, N, i, j) \/ not(r, N) \/ \E k \in i + 1..j - 1 : at(r, N, k)
    BY ONLY DEF WholeIs
  <2>2. ASSUME NEW k \in i + 1..j - 1 PROVE at(q, M, k) <=> at(r, N, k)
    BY ONLY <1>3
  <2>3. not(q, M) <=> not(r, N)
    BY ONLY <1>4, <1>5
  <2> HIDE DEF at, not
  <2> QED BY ONLY <1>1, <2>1, <2>2, <2>3
<1>7. ASSUME NEW x PROVE x \in Wholes(q, M, i, j) <=> x \in Wholes(r, N, i, j)
  BY <1>6, WholeCases
<1> QED
  <2> DEFINE A == Wholes(q, M, i, j)
             B == Wholes(r, N, i, j)
  <2>1. \A x : x \in A <=> x \in B
    BY <1>7
  <2>2. A = B
    <3> HIDE DEF A, B
    <3> QED BY <2>1
  <2> QED BY <2>2

-----------------------------------------------------------------------------
(* The meanings are what their recursive definition says.                   *)

LEMMA SmallestExists ==
    ASSUME NEW S, S \subseteq Nat, S # {}
    PROVE  \E i \in S : \A j \in S : i <= j
<1>1. IsWellFoundedOn(NatLess, Nat)
  BY NatLessThanWellFounded DEF OpToRel, NatLess
<1>2. PICK x \in S : \A y \in S : ~ (<<y, x>> \in NatLess)
  BY <1>1, WFMin
<1>3. \A y \in S : ~ (y < x)
  BY <1>2 DEF NatLess
<1> QED BY <1>3

Tokens == Words \cup Symbols
Spans(q) == (1..Len(q) + 1) \X (0..Len(q))
Body(q, M, s) == IF s[1] > s[2] THEN {} ELSE Wholes(q, M, s[1], s[2])
Solves(q, M, m) == \A s \in Spans(q) : s[2] - s[1] < m => M[s] = Body(q, M, s)

LEMMA SpanFacts ==
    ASSUME NEW q \in Seq(Tokens), NEW s \in Spans(q)
    PROVE  /\ s[1] \in 1..Len(q) + 1 /\ s[2] \in 0..Len(q) /\ s = <<s[1], s[2]>>
           /\ s[1] \in Int /\ s[2] \in Int /\ Len(q) \in Nat
BY DEF Spans

LEMMA SpanWithin ==
    ASSUME NEW q \in Seq(Tokens), NEW s \in Spans(q), NEW a \in s[1]..s[2], NEW b \in s[1]..s[2]
    PROVE  <<a, b>> \in Spans(q) /\ <<a, b>>[1] = a /\ <<a, b>>[2] = b
<1>1. /\ s[1] \in 1..Len(q) + 1 /\ s[2] \in 0..Len(q) /\ Len(q) \in Nat
      /\ s[1] \in Int /\ s[2] \in Int
  BY SpanFacts
<1>2. a \in 1..Len(q) + 1 /\ b \in 0..Len(q)
  BY <1>1
<1> QED BY <1>2 DEF Spans

LEMMA SolutionGrows ==
    ASSUME NEW q \in Seq(Tokens), NEW m \in Nat, NEW g, Solves(q, g, m)
    PROVE  Solves(q, [s \in Spans(q) |-> Body(q, g, s)], m + 1)
<1> DEFINE h == [s \in Spans(q) |-> Body(q, g, s)]
<1>1. \A s \in Spans(q) : h[s] = Body(q, g, s)
  OBVIOUS
<1> HIDE DEF h
<1>2. ASSUME NEW s \in Spans(q), s[2] - s[1] < m + 1 PROVE Body(q, g, s) = Body(q, h, s)
  <2>1. s[1] \in Int /\ s[2] \in Int
    BY SpanFacts
  <2>2. CASE s[1] > s[2]
    BY <2>2 DEF Body
  <2>3. CASE ~(s[1] > s[2])
    <3>1. ASSUME NEW a \in s[1]..s[2], NEW b \in s[1]..s[2], b - a < s[2] - s[1]
          PROVE  g[<<a, b>>] = h[<<a, b>>]
      <4>1. <<a, b>> \in Spans(q) /\ <<a, b>>[1] = a /\ <<a, b>>[2] = b
        BY SpanWithin
      <4>2. b - a < m
        BY <1>2, <2>1, <3>1
      <4>3. g[<<a, b>>] = Body(q, g, <<a, b>>)
        BY <4>1, <4>2 DEF Solves
      <4> QED BY <1>1, <4>1, <4>3
    <3>2. Agree(q, g, q, h, s[1], s[2])
      BY <3>1 DEF Agree
    <3>3. Wholes(q, g, s[1], s[2]) = Wholes(q, h, s[1], s[2])
      BY <2>1, <2>3, <3>2, WholesLocal
    <3> QED BY <2>3, <3>3 DEF Body
  <2> QED BY <2>2, <2>3
<1>3. Solves(q, h, m + 1)
  BY <1>1, <1>2 DEF Solves
<1> QED BY <1>3 DEF h

LEMMA SolutionExists ==
    ASSUME NEW q \in Seq(Tokens), NEW m \in Nat
    PROVE  \E M : Solves(q, M, m)
<1> DEFINE T == {k \in Nat : ~\E M : Solves(q, M, k)}
<1> SUFFICES ASSUME T # {} PROVE FALSE
  OBVIOUS
<1>1. PICK k \in T : \A l \in T : k <= l
  BY SmallestExists
<1>2. k # 0
  <2>1. Solves(q, [s \in Spans(q) |-> {}], 0)
    <3> SUFFICES ASSUME NEW s \in Spans(q), s[2] - s[1] < 0
                 PROVE  Body(q, [t \in Spans(q) |-> {}], s) = {}
      BY DEF Solves
    <3>1. s[1] > s[2]
      BY SpanFacts
    <3> QED BY <3>1 DEF Body
  <2>2. 0 \notin T
    BY <2>1
  <2> QED BY <2>2
<1>3. k - 1 \in Nat /\ k - 1 \notin T /\ (k - 1) + 1 = k
  BY <1>1, <1>2
<1>4. PICK g : Solves(q, g, k - 1)
  BY <1>3
<1>5. Solves(q, [s \in Spans(q) |-> Body(q, g, s)], k)
  BY <1>3, <1>4, SolutionGrows
<1> QED BY <1>5

LEMMA ReadingsEquation ==
    ASSUME NEW q \in Seq(Tokens)
    PROVE  Readings(q) = [s \in Spans(q) |-> Body(q, Readings(q), s)]
<1>1. PICK g : Solves(q, g, Len(q) + 1)
  BY SolutionExists
<1> DEFINE h == [s \in Spans(q) |-> Body(q, g, s)]
<1>2. Solves(q, h, Len(q) + 1 + 1)
  BY <1>1, SolutionGrows
<1>3. \A s \in Spans(q) : s[2] - s[1] < Len(q) + 1 + 1
  BY SpanFacts
<1>4. \A s \in Spans(q) : h[s] = Body(q, h, s)
  <2> HIDE DEF h
  <2> QED BY <1>2, <1>3 DEF Solves
<1>5. h = [s \in Spans(q) |-> Body(q, h, s)]
  <2>1. h = [s \in Spans(q) |-> h[s]]
    OBVIOUS
  <2> HIDE DEF h
  <2> QED BY <1>4, <2>1
<1> HIDE DEF h
<1>6. \E M : M = [s \in Spans(q) |-> Body(q, M, s)]
  BY <1>5
<1>7. Readings(q) = CHOOSE M : M = [s \in Spans(q) |-> Body(q, M, s)]
  BY DEF Readings, Body, Spans
<1> QED BY <1>6, <1>7

LEMMA ReadingIs ==
    ASSUME NEW q \in Seq(Tokens), NEW i \in 1..Len(q) + 1, NEW j \in 0..Len(q)
    PROVE  /\ i > j => Readings(q)[<<i, j>>] = {}
           /\ i <= j => Readings(q)[<<i, j>>] = Wholes(q, Readings(q), i, j)
<1>1. <<i, j>> \in Spans(q) /\ <<i, j>>[1] = i /\ <<i, j>>[2] = j
  BY DEF Spans
<1>2. Readings(q)[<<i, j>>] = Body(q, Readings(q), <<i, j>>)
  BY <1>1, ReadingsEquation
<1> QED BY <1>1, <1>2 DEF Body

(* More tokens do not change the meanings of the first ones.                *)
LEMMA ReadingsKept ==
    ASSUME NEW q \in Seq(Tokens), NEW r \in Seq(Tokens), Len(q) <= Len(r),
           \A k \in 1..Len(q) : r[k] = q[k],
           NEW i \in 1..Len(q) + 1, NEW j \in 0..Len(q)
    PROVE  Readings(r)[<<i, j>>] = Readings(q)[<<i, j>>]
<1> DEFINE R == Readings(r)
           Q == Readings(q)
           bad(m) == \E a \in 1..Len(q) + 1, b \in 0..Len(q) :
                        a <= b /\ b - a = m /\ R[<<a, b>>] # Q[<<a, b>>]
           T == {m \in Nat : bad(m)}
<1>1. Len(q) \in Nat /\ Len(r) \in Nat
  OBVIOUS
<1>2. CASE T = {}
  <2>1. CASE i > j
    <3>1. i \in 1..Len(r) + 1 /\ j \in 0..Len(r)
      BY <1>1
    <3> QED BY <2>1, <3>1, ReadingIs
  <2>2. CASE i <= j
    <3>1. j - i \in Nat
      BY <2>2
    <3>2. ~bad(j - i)
      BY <1>2, <3>1
    <3> QED BY <2>2, <3>2
  <2> QED BY <1>1, <2>1, <2>2
<1>3. CASE T # {}
  <2>1. PICK m \in T : \A l \in T : m <= l
    <3>1. T \subseteq Nat
      OBVIOUS
    <3> HIDE DEF T
    <3> QED BY <1>3, <3>1, SmallestExists
  <2>2. PICK a \in 1..Len(q) + 1, b \in 0..Len(q) :
          a <= b /\ b - a = m /\ R[<<a, b>>] # Q[<<a, b>>]
    BY <2>1
  <2>3. ASSUME NEW c \in a..b, NEW d \in a..b, d - c < b - a PROVE R[<<c, d>>] = Q[<<c, d>>]
    <3>1. c \in 1..Len(q) + 1 /\ d \in 0..Len(q) /\ c \in 1..Len(r) + 1 /\ d \in 0..Len(r)
      BY <1>1, <2>2
    <3>2. CASE c > d
      BY <3>1, <3>2, ReadingIs
    <3>3. CASE c <= d
      <4>1. d - c \in Nat /\ d - c < m
        BY <2>2, <2>3, <3>1, <3>3
      <4>2. ~bad(d - c)
        <5>1. d - c \notin T
          <6>1. m \in Nat
            OBVIOUS
          <6> HIDE DEF T
          <6> QED BY <2>1, <4>1, <6>1
        <5> HIDE DEF bad
        <5> QED BY <4>1, <5>1
      <4> HIDE DEF R, Q
      <4> QED BY <3>1, <3>3, <4>2
    <3> QED BY <3>1, <3>2, <3>3
  <2>4. /\ a \in 1..Len(q) /\ b \in 1..Len(q) /\ a \in 1..Len(r) + 1 /\ b \in 0..Len(r)
        /\ a \in Int /\ b \in Int
    BY <1>1, <2>2
  <2>5. \A k \in a..b : r[k] = q[k]
    BY <1>1, <2>4
  <2>6. Agree(r, R, q, Q, a, b)
    BY <2>3, <2>5 DEF Agree
  <2>7. Wholes(r, R, a, b) = Wholes(q, Q, a, b)
    BY <2>2, <2>4, <2>6, WholesLocal
  <2>8. R[<<a, b>>] = Wholes(r, R, a, b) /\ Q[<<a, b>>] = Wholes(q, Q, a, b)
    BY <2>2, <2>4, ReadingIs
  <2> QED BY <2>2, <2>7, <2>8
<1> QED BY <1>2, <1>3

-----------------------------------------------------------------------------
(* The depth behind a token.                                                *)

Up(token) == IF token = "(" THEN 1 ELSE IF token = ")" THEN -1 ELSE 0

Count(q, t, n) == Cardinality({k \in 1..n : q[k] = t})

LEMMA CountOf ==
    ASSUME NEW q, NEW t, NEW n \in Nat
    PROVE  /\ Count(q, t, n) \in Nat
           /\ Count(q, t, n + 1) = Count(q, t, n) + (IF q[n + 1] = t THEN 1 ELSE 0)
<1> DEFINE S == {k \in 1..n : q[k] = t}
           U == {k \in 1..n + 1 : q[k] = t}
<1>1. IsFiniteSet(S)
  <2>1. S \subseteq 1..n /\ IsFiniteSet(1..n)
    BY FS_Interval
  <2> QED BY <2>1, FS_Subset
<1>2. Cardinality(S) \in Nat
  BY <1>1, FS_CardinalityType
<1>3. CASE q[n + 1] = t
  <2>1. U = S \cup {n + 1} /\ n + 1 \notin S
    BY <1>3
  <2> HIDE DEF S, U
  <2>2. Cardinality(U) = Cardinality(S) + 1
    BY <1>1, <2>1, FS_AddElement
  <2> QED BY <1>2, <1>3, <2>2 DEF S, U, Count
<1>4. CASE q[n + 1] # t
  <2>1. U = S
    BY <1>4
  <2> HIDE DEF S, U
  <2> QED BY <1>2, <1>4, <2>1 DEF S, U, Count
<1> QED BY <1>3, <1>4

LEMMA DepthFacts ==
    ASSUME NEW q, NEW n \in Nat
    PROVE  /\ Depth(q, n) \in Int
           /\ Depth(q, 0) = 0
           /\ Depth(q, n + 1) = Depth(q, n) + Up(q[n + 1])
<1>1. \A m : Depth(q, m) = Count(q, "(", m) - Count(q, ")", m)
  BY DEF Depth, Count
<1>2. /\ Count(q, "(", n) \in Nat
      /\ Count(q, "(", n + 1) = Count(q, "(", n) + (IF q[n + 1] = "(" THEN 1 ELSE 0)
  BY CountOf
<1>3. /\ Count(q, ")", n) \in Nat
      /\ Count(q, ")", n + 1) = Count(q, ")", n) + (IF q[n + 1] = ")" THEN 1 ELSE 0)
  BY CountOf
<1>4. Depth(q, n) \in Int /\ Depth(q, n + 1) = Depth(q, n) + Up(q[n + 1])
  <2>1. CASE q[n + 1] = "("
    BY <1>1, <1>2, <1>3, <2>1 DEF Up
  <2>2. CASE q[n + 1] = ")"
    BY <1>1, <1>2, <1>3, <2>2 DEF Up
  <2>3. CASE q[n + 1] \notin {"(", ")"}
    BY <1>1, <1>2, <1>3, <2>3 DEF Up
  <2> QED BY <2>1, <2>2, <2>3
<1>5. Depth(q, 0) = 0
  <2>1. {k \in 1..0 : q[k] = "("} = {} /\ {k \in 1..0 : q[k] = ")"} = {}
    OBVIOUS
  <2>2. Cardinality({}) = 0
    BY FS_EmptySet
  <2> QED BY <2>1, <2>2 DEF Depth
<1> QED BY <1>4, <1>5

LEMMA DepthStep ==
    ASSUME NEW q, NEW k \in Nat \ {0}
    PROVE  /\ Depth(q, k) \in Int /\ Depth(q, k - 1) \in Int
           /\ Depth(q, k) = Depth(q, k - 1) + Up(q[k])
<1>1. k - 1 \in Nat /\ k \in Nat /\ (k - 1) + 1 = k
  OBVIOUS
<1>2. Depth(q, (k - 1) + 1) = Depth(q, k - 1) + Up(q[(k - 1) + 1])
  BY <1>1, DepthFacts
<1> QED BY <1>1, <1>2, DepthFacts

LEMMA DepthKept ==
    ASSUME NEW q, NEW r, NEW n \in Nat, \A k \in 1..n : r[k] = q[k]
    PROVE  Depth(r, n) = Depth(q, n)
<1>1. /\ {k \in 1..n : r[k] = "("} = {k \in 1..n : q[k] = "("}
      /\ {k \in 1..n : r[k] = ")"} = {k \in 1..n : q[k] = ")"}
  OBVIOUS
<1> QED BY <1>1 DEF Depth

(* Which tokens change it.                                                  *)
LEMMA UpFacts ==
    /\ Up("(") = 1 /\ Up(")") = -1
    /\ Up("NOT") = 0 /\ \A op \in Operators : Up(op) = 0
    /\ \A w \in Words : Up(w) = 0
    /\ \A w \in Words : w \notin Symbols
<1>1. \A w \in Words : w \notin Symbols
  BY QueryAssumption
<1>2. "(" \in Symbols /\ ")" \in Symbols
  BY DEF Symbols
<1>3. \A w \in Words : w # "(" /\ w # ")"
  BY <1>1, <1>2
<1>4. Up("(") = 1 /\ Up(")") = -1 /\ Up("NOT") = 0 /\ \A op \in Operators : Up(op) = 0
  BY DEF Up, Operators
<1> QED BY <1>1, <1>3, <1>4 DEF Up

-----------------------------------------------------------------------------
(* What means something has balanced parentheses and fitting neighbours.    *)

Fits(q, k) ==
    /\ ~(q[k] \in Words /\ q[k + 1] \in Words)
    /\ q[k] = "NOT" => q[k + 1] \in Words \cup {"("}

Shape(q, i, j) ==
    /\ q[i] \in Words \cup {"(", "NOT"} /\ q[j] \in Words \cup {")"}
    /\ \A k \in i..j - 1 : Fits(q, k)
    /\ Depth(q, j) = Depth(q, i - 1)
    /\ \A k \in i..j : Depth(q, k) >= Depth(q, i - 1)

PhraseShape(q, i, j) ==
    /\ Shape(q, i, j) /\ q[i] \in Words \cup {"("}
    /\ i = j => q[i] \in Words
    /\ i < j => q[j] = ")" /\ \A k \in i..j - 1 : Depth(q, k) > Depth(q, i - 1)

ShapesWithin(q, i, j) ==
    \A a, b \in i..j : a <= b /\ b - a < j - i /\ Readings(q)[<<a, b>>] # {} => Shape(q, a, b)

LEMMA PhraseShapeFromWithin ==
    ASSUME NEW q \in Seq(Tokens), NEW i \in 1..Len(q), NEW j \in 1..Len(q), i <= j,
           ShapesWithin(q, i, j), Phrases(q, Readings(q), i, j) # {}
    PROVE  PhraseShape(q, i, j)
<1>0. i \in Int /\ j \in Int /\ Len(q) \in Nat /\ i \in Nat \ {0} /\ j \in Nat \ {0}
  OBVIOUS
<1>1. PICK x : x \in Phrases(q, Readings(q), i, j)
  OBVIOUS
<1>2. CASE i = j /\ q[i] \in Words
  <2>1. Depth(q, i) = Depth(q, i - 1) /\ Depth(q, i - 1) \in Int
    BY <1>0, <1>2, DepthStep, UpFacts
  <2>2. \A k \in i..j : k = i
    BY <1>2
  <2>3. i..j - 1 = {}
    BY <1>2
  <2> QED BY <1>2, <2>1, <2>2, <2>3 DEF PhraseShape, Shape
<1>3. CASE i < j /\ q[i] = "(" /\ q[j] = ")" /\ x \in Readings(q)[<<i + 1, j - 1>>]
  <2>1. i + 1 <= j - 1
    <3>1. i + 1 \in 1..Len(q) + 1 /\ j - 1 \in 0..Len(q)
      BY <1>0, <1>3
    <3>2. ~(i + 1 > j - 1)
      BY <1>3, <3>1, ReadingIs
    <3> QED BY <1>0, <3>2
  <2>2. Shape(q, i + 1, j - 1)
    <3>1. i + 1 \in i..j /\ j - 1 \in i..j /\ (j - 1) - (i + 1) < j - i
      BY <1>0, <2>1
    <3> QED BY <1>3, <2>1, <3>1 DEF ShapesWithin
  <2>3. /\ Depth(q, i) \in Int /\ Depth(q, i - 1) \in Int /\ Depth(q, i) = Depth(q, i - 1) + 1
        /\ Depth(q, j) \in Int /\ Depth(q, j) = Depth(q, j - 1) - 1
    <3>1. Up(q[i]) = 1 /\ Up(q[j]) = -1
      BY <1>3, UpFacts
    <3>2. /\ Depth(q, i) \in Int /\ Depth(q, i - 1) \in Int
          /\ Depth(q, i) = Depth(q, i - 1) + Up(q[i])
      BY <1>0, DepthStep
    <3>3. /\ Depth(q, j) \in Int /\ Depth(q, j - 1) \in Int
          /\ Depth(q, j) = Depth(q, j - 1) + Up(q[j])
      BY <1>0, DepthStep
    <3> QED BY <3>1, <3>2, <3>3
  <2>4. /\ Depth(q, j - 1) = Depth(q, i)
        /\ \A k \in i + 1..j - 1 : Depth(q, k) >= Depth(q, i)
        /\ \A k \in i + 1..j - 2 : Fits(q, k)
        /\ q[j - 1] \in Words \cup {")"}
    <3>1. i + 1 - 1 = i /\ j - 1 - 1 = j - 2
      BY <1>0
    <3> QED BY <2>2, <3>1 DEF Shape
  <2>5. ASSUME NEW k \in i..j - 1 PROVE Depth(q, k) > Depth(q, i - 1) /\ Depth(q, k) \in Int
    <3>1. k = i \/ k \in i + 1..j - 1
      BY <1>0
    <3>2. k \in Nat
      BY <1>0
    <3>3. Depth(q, k) \in Int
      BY <3>2, DepthFacts
    <3>4. CASE k = i
      BY <2>3, <3>4
    <3>5. CASE k \in i + 1..j - 1
      BY <2>3, <2>4, <3>3, <3>5
    <3> QED BY <3>1, <3>3, <3>4, <3>5
  <2>6. ASSUME NEW k \in i..j PROVE Depth(q, k) >= Depth(q, i - 1)
    <3>1. k = j \/ k \in i..j - 1
      BY <1>0
    <3> QED BY <2>3, <2>4, <2>5, <3>1
  <2>7. ASSUME NEW k \in i..j - 1 PROVE Fits(q, k)
    <3>1. "(" \in Symbols /\ ")" \in Symbols /\ "NOT" \in Symbols /\ "(" # "NOT" /\ ")" # "NOT"
      BY DEF Symbols
    <3>2. k = i \/ k \in i + 1..j - 2 \/ k = j - 1
      BY <1>0
    <3>3. CASE k = i
      BY <1>3, <3>1, <3>3, UpFacts DEF Fits
    <3>4. CASE k = j - 1
      <4>1. q[k + 1] = ")"
        BY <1>0, <1>3, <3>4
      <4> QED BY <2>4, <3>1, <3>4, <4>1, UpFacts DEF Fits
    <3> QED BY <2>4, <3>2, <3>3, <3>4
  <2>8. Depth(q, j) = Depth(q, i - 1)
    BY <2>3, <2>4
  <2> QED BY <1>3, <2>5, <2>6, <2>7, <2>8 DEF PhraseShape, Shape
<1>4. \/ i = j /\ q[i] \in Words
      \/ i < j /\ q[i] = "(" /\ q[j] = ")" /\ x \in Readings(q)[<<i + 1, j - 1>>]
  BY <1>0, <1>1, PhraseCases
<1> QED BY <1>2, <1>3, <1>4

LEMMA ShapesJoin ==
    ASSUME NEW q \in Seq(Tokens), NEW i \in 1..Len(q), NEW j \in 1..Len(q),
           NEW k \in i + 1..j - 1, q[k] \in Operators \cup {"NOT"},
           Shape(q, i, k - 1), Shape(q, k + 1, j),
           q[k] = "NOT" => q[k + 1] \in Words \cup {"("}
    PROVE  Shape(q, i, j) /\ Depth(q, k - 1) = Depth(q, i - 1) /\ Depth(q, k) = Depth(q, i - 1)
<1>1. /\ i \in Int /\ j \in Int /\ k \in Int /\ i <= k - 1 /\ k + 1 <= j /\ k \in Nat \ {0}
      /\ i - 1 \in Nat /\ (k + 1) - 1 = k /\ (k - 1) + 1 = k
  OBVIOUS
<1>2. Depth(q, k - 1) = Depth(q, i - 1) /\ Depth(q, j) = Depth(q, k)
  BY <1>1 DEF Shape
<1>3. Depth(q, k) = Depth(q, k - 1) /\ Depth(q, k - 1) \in Int
  <2>1. Up(q[k]) = 0
    BY UpFacts
  <2>2. Depth(q, k - 1) \in Int /\ Depth(q, k) = Depth(q, k - 1) + Up(q[k])
    BY <1>1, DepthStep
  <2> QED BY <2>1, <2>2
<1>4. ASSUME NEW m \in i..j PROVE Depth(q, m) >= Depth(q, i - 1)
  <2>1. m \in i..k - 1 \/ m = k \/ m \in k + 1..j
    BY <1>1
  <2>2. m \in i..k - 1 => Depth(q, m) >= Depth(q, i - 1)
    BY DEF Shape
  <2>3. m \in k + 1..j => Depth(q, m) >= Depth(q, k)
    BY <1>1 DEF Shape
  <2> QED BY <1>2, <1>3, <2>1, <2>2, <2>3
<1>5. ASSUME NEW m \in i..j - 1 PROVE Fits(q, m)
  <2>1. m \in i..(k - 1) - 1 \/ m = k - 1 \/ m = k \/ m \in k + 1..j - 1
    BY <1>1
  <2>2. q[k] \in Symbols /\ q[k] \notin Words
    BY UpFacts DEF Symbols
  <2>3. CASE m = k
    BY <2>2, <2>3 DEF Fits
  <2>4. CASE m = k - 1
    <3>1. q[k - 1] # "NOT"
      <4>1. q[k - 1] \in Words \cup {")"}
        BY DEF Shape
      <4>2. "NOT" \in Symbols /\ "NOT" # ")"
        BY DEF Symbols
      <4> QED BY <4>1, <4>2, UpFacts
    <3>2. q[m + 1] = q[k]
      BY <1>1, <2>4
    <3> QED BY <2>2, <2>4, <3>1, <3>2 DEF Fits
  <2>5. m \in i..(k - 1) - 1 => Fits(q, m)
    BY DEF Shape
  <2>6. m \in k + 1..j - 1 => Fits(q, m)
    BY DEF Shape
  <2> QED BY <2>1, <2>3, <2>4, <2>5, <2>6
<1>6. q[i] \in Words \cup {"(", "NOT"} /\ q[j] \in Words \cup {")"}
  BY DEF Shape
<1> QED BY <1>2, <1>3, <1>4, <1>5, <1>6 DEF Shape

LEMMA ShapeOfNot ==
    ASSUME NEW q \in Seq(Tokens), NEW i \in 1..Len(q), NEW j \in 1..Len(q), i < j,
           q[i] = "NOT", PhraseShape(q, i + 1, j)
    PROVE  Shape(q, i, j) /\ Depth(q, i) = Depth(q, i - 1)
<1>1. i \in Int /\ j \in Int /\ i \in Nat \ {0} /\ (i + 1) - 1 = i
  OBVIOUS
<1>2. Depth(q, i) = Depth(q, i - 1) /\ Depth(q, i - 1) \in Int
  <2>1. Up(q[i]) = 0
    BY UpFacts
  <2>2. Depth(q, i - 1) \in Int /\ Depth(q, i) = Depth(q, i - 1) + Up(q[i])
    BY <1>1, DepthStep
  <2> QED BY <2>1, <2>2
<1>3. Shape(q, i + 1, j) /\ q[i + 1] \in Words \cup {"("}
  BY DEF PhraseShape
<1>4. Depth(q, j) = Depth(q, i - 1)
  BY <1>1, <1>2, <1>3 DEF Shape
<1>5. ASSUME NEW m \in i..j PROVE Depth(q, m) >= Depth(q, i - 1)
  <2>1. m = i \/ m \in i + 1..j
    BY <1>1
  <2>2. m \in i + 1..j => Depth(q, m) >= Depth(q, i)
    BY <1>1, <1>3 DEF Shape
  <2> QED BY <1>2, <2>1, <2>2
<1>6. ASSUME NEW m \in i..j - 1 PROVE Fits(q, m)
  <2>1. m = i \/ m \in i + 1..j - 1
    BY <1>1
  <2>2. m \in i + 1..j - 1 => Fits(q, m)
    BY <1>3 DEF Shape
  <2>3. CASE m = i
    <3>1. q[i] \notin Words
      BY UpFacts DEF Symbols
    <3> QED BY <1>3, <2>3, <3>1 DEF Fits
  <2> QED BY <2>1, <2>2, <2>3
<1>7. q[j] \in Words \cup {")"}
  BY <1>3 DEF Shape
<1> QED BY <1>2, <1>4, <1>5, <1>6, <1>7 DEF Shape

LEMMA ShapeFromWithin ==
    ASSUME NEW q \in Seq(Tokens), NEW i \in 1..Len(q), NEW j \in 1..Len(q), i <= j,
           ShapesWithin(q, i, j), Readings(q)[<<i, j>>] # {}
    PROVE  Shape(q, i, j)
<1>0. i \in Int /\ j \in Int /\ Len(q) \in Nat /\ i \in 1..Len(q) + 1 /\ j \in 0..Len(q)
  OBVIOUS
<1> DEFINE M == Readings(q)
<1>1. PICK x : x \in M[<<i, j>>]
  OBVIOUS
<1>2. WholeIs(q, M, i, j, x)
  BY <1>0, <1>1, ReadingIs, WholeCases
<1>3. ASSUME NEW a \in i..j, NEW b \in i..j, a <= b
      PROVE  ShapesWithin(q, a, b) /\ a \in 1..Len(q) /\ b \in 1..Len(q)
  <2>1. \A c, d \in a..b : d - c < b - a => c \in i..j /\ d \in i..j /\ d - c < j - i
    BY <1>0
  <2>2. a \in 1..Len(q) /\ b \in 1..Len(q)
    BY <1>0
  <2> QED BY <2>1, <2>2 DEF ShapesWithin
<1>4. CASE x \in Phrases(q, M, i, j)
  BY <1>4, PhraseShapeFromWithin DEF PhraseShape
<1>5. CASE i < j /\ q[i] = "NOT" /\ \E y \in Phrases(q, M, i + 1, j) : x = Lines \ y
  <2>1. i + 1 \in i..j /\ j \in i..j /\ i + 1 <= j
    BY <1>0, <1>5
  <2>2. PhraseShape(q, i + 1, j)
    BY <1>3, <1>5, <2>1, PhraseShapeFromWithin
  <2> QED BY <1>5, <2>2, ShapeOfNot
<1>6. CASE \E k \in i + 1..j - 1 : \E y \in M[<<i, k - 1>>] :
              \/ q[k] = "AND" /\ \E z \in M[<<k + 1, j>>] : x = y \cap z
              \/ q[k] = "OR" /\ \E z \in M[<<k + 1, j>>] : x = y \cup z
              \/ q[k] = "NOT" /\ \E z \in Phrases(q, M, k + 1, j) : x = y \ z
  <2>1. PICK k \in i + 1..j - 1 : /\ M[<<i, k - 1>>] # {}
                                  /\ \/ q[k] \in Operators /\ M[<<k + 1, j>>] # {}
                                     \/ q[k] = "NOT" /\ Phrases(q, M, k + 1, j) # {}
    BY <1>6 DEF Operators
  <2>2. /\ k - 1 \in i..j /\ k + 1 \in i..j /\ i \in i..j /\ j \in i..j /\ i <= k - 1 /\ k + 1 <= j
        /\ (k - 1) - i < j - i /\ j - (k + 1) < j - i
    BY <1>0
  <2>3. Shape(q, i, k - 1)
    BY <2>1, <2>2 DEF ShapesWithin
  <2>4. CASE q[k] \in Operators /\ M[<<k + 1, j>>] # {}
    <3>1. Shape(q, k + 1, j)
      BY <2>2, <2>4 DEF ShapesWithin
    <3>2. q[k] # "NOT"
      BY <2>4 DEF Operators
    <3> QED BY <2>3, <2>4, <3>1, <3>2, ShapesJoin
  <2>5. CASE q[k] = "NOT" /\ Phrases(q, M, k + 1, j) # {}
    <3>1. PhraseShape(q, k + 1, j)
      BY <1>3, <2>2, <2>5, PhraseShapeFromWithin
    <3> QED BY <2>3, <2>5, <3>1, ShapesJoin DEF PhraseShape
  <2> QED BY <2>1, <2>4, <2>5
<1> QED BY <1>2, <1>4, <1>5, <1>6 DEF WholeIs

LEMMA ShapeHolds ==
    ASSUME NEW q \in Seq(Tokens), NEW i \in 1..Len(q), NEW j \in 1..Len(q), i <= j,
           Readings(q)[<<i, j>>] # {}
    PROVE  Shape(q, i, j)
<1> DEFINE bad(m) == \E a, b \in 1..Len(q) :
                        a <= b /\ b - a = m /\ Readings(q)[<<a, b>>] # {} /\ ~Shape(q, a, b)
           T == {m \in Nat : bad(m)}
<1>1. Len(q) \in Nat
  OBVIOUS
<1>2. CASE T = {}
  <2>1. j - i \in Nat
    OBVIOUS
  <2>2. ~bad(j - i)
    BY <1>2, <2>1
  <2> QED BY <2>2
<1>3. CASE T # {}
  <2>1. PICK m \in T : \A l \in T : m <= l
    <3>1. T \subseteq Nat
      OBVIOUS
    <3> HIDE DEF T
    <3> QED BY <1>3, <3>1, SmallestExists
  <2>2. PICK a, b \in 1..Len(q) :
          a <= b /\ b - a = m /\ Readings(q)[<<a, b>>] # {} /\ ~Shape(q, a, b)
    BY <2>1
  <2>3. ASSUME NEW c \in a..b, NEW d \in a..b, c <= d, d - c < b - a, Readings(q)[<<c, d>>] # {}
        PROVE  Shape(q, c, d)
    <3>1. c \in 1..Len(q) /\ d \in 1..Len(q) /\ d - c \in Nat /\ d - c < m
      BY <1>1, <2>2, <2>3
    <3>2. ~bad(d - c)
      <4>1. d - c \notin T
        <5>1. m \in Nat
          OBVIOUS
        <5> HIDE DEF T
        <5> QED BY <2>1, <3>1, <5>1
      <4> HIDE DEF bad
      <4> QED BY <3>1, <4>1
    <3> QED BY <2>3, <3>1, <3>2
  <2>4. ShapesWithin(q, a, b)
    BY <2>3 DEF ShapesWithin
  <2> QED BY <2>2, <2>4, ShapeFromWithin
<1> QED BY <1>2, <1>3

LEMMA PhraseShapeHolds ==
    ASSUME NEW q \in Seq(Tokens), NEW i \in 1..Len(q), NEW j \in 1..Len(q), i <= j,
           Phrases(q, Readings(q), i, j) # {}
    PROVE  PhraseShape(q, i, j)
<1>1. ASSUME NEW a \in i..j, NEW b \in i..j, a <= b, Readings(q)[<<a, b>>] # {}
      PROVE  Shape(q, a, b)
  <2>1. a \in 1..Len(q) /\ b \in 1..Len(q)
    OBVIOUS
  <2> QED BY <1>1, <2>1, ShapeHolds
<1>2. ShapesWithin(q, i, j)
  BY <1>1 DEF ShapesWithin
<1> QED BY <1>2, PhraseShapeFromWithin

-----------------------------------------------------------------------------
(* The operands of one call of parse_expr, by where they begin.             *)

Operands(q, i, j) ==
    {k \in i..j : Depth(q, k - 1) = Depth(q, i - 1) /\ q[k] \in Words \cup {"("}}

Negated(q, k) == k > 1 /\ q[k - 1] = "NOT"

(* An operand that may mean x finds V[k].                                   *)
Valued(q, V, i, j) ==
    \A k \in Operands(q, i, j) : \A f \in k..j : \A x \in Phrases(q, Readings(q), k, f) :
        V[k] = IF Negated(q, k) THEN Lines \ x ELSE x

Has(q, i, j, token) == \E k \in i..j : q[k] = token /\ Depth(q, k) = Depth(q, i - 1)
HasBareNot(q, i, j) == \E k \in i..j : BareNot(q, k) /\ Depth(q, k) = Depth(q, i - 1)

LinesOfAll(V, K) == {l \in Lines : \A k \in K : l \in V[k]}
LinesOfAny(V, K) == {l \in Lines : \E k \in K : l \in V[k]}

(* With one operator, whichever binds closer, x is all operands or any.     *)
IsJoint(q, V, i, j, x) ==
    /\ Operands(q, i, j) # {}
    /\ ~Has(q, i, j, "OR") => x = LinesOfAll(V, Operands(q, i, j))
    /\ ~Has(q, i, j, "AND") /\ ~HasBareNot(q, i, j) => x = LinesOfAny(V, Operands(q, i, j))
    /\ \A k : Operands(q, i, j) = {k} => x = V[k]

LEMMA PhraseOperands ==
    ASSUME NEW q \in Seq(Tokens), NEW i \in 1..Len(q), NEW j \in 1..Len(q), i <= j,
           PhraseShape(q, i, j)
    PROVE  Operands(q, i, j) = {i}
<1>1. i \in Operands(q, i, j)
  BY DEF Operands, PhraseShape
<1>2. ASSUME NEW k \in Operands(q, i, j), k # i PROVE FALSE
  <2>1. k \in i..j /\ Depth(q, k - 1) = Depth(q, i - 1)
    BY DEF Operands
  <2>2. i < j /\ k - 1 \in i..j - 1
    BY <1>2, <2>1
  <2>3. Depth(q, k - 1) > Depth(q, i - 1)
    BY <2>2 DEF PhraseShape
  <2>4. Depth(q, i - 1) \in Int
    <3>1. i \in Nat \ {0}
      OBVIOUS
    <3> QED BY <3>1, DepthStep
  <2> QED BY <2>1, <2>3, <2>4
<1> QED BY <1>1, <1>2

LEMMA OperandsSplit ==
    ASSUME NEW q \in Seq(Tokens), NEW i \in 1..Len(q), NEW j \in 1..Len(q),
           NEW k \in i..j, q[k] \notin Words \cup {"("}, Depth(q, k) = Depth(q, i - 1)
    PROVE  Operands(q, i, j) = Operands(q, i, k - 1) \cup Operands(q, k + 1, j)
<1>1. (k + 1) - 1 = k
  OBVIOUS
<1>2. ASSUME NEW m PROVE m \in i..j <=> m \in i..k - 1 \/ m = k \/ m \in k + 1..j
  OBVIOUS
<1>3. Operands(q, k + 1, j)
        = {m \in k + 1..j : Depth(q, m - 1) = Depth(q, i - 1) /\ q[m] \in Words \cup {"("}}
  BY <1>1 DEF Operands
<1> QED BY <1>2, <1>3 DEF Operands

(* A part of a call.                                                        *)
PartOf(q, a, b, i, j) == a \in i..j /\ b \in i..j /\ Depth(q, a - 1) = Depth(q, i - 1)

LEMMA PartFacts ==
    ASSUME NEW q \in Seq(Tokens), NEW i \in 1..Len(q), NEW j \in 1..Len(q), NEW a, NEW b,
           PartOf(q, a, b, i, j), NEW V
    PROVE  /\ Operands(q, a, b) \subseteq Operands(q, i, j)
           /\ Valued(q, V, i, j) => Valued(q, V, a, b)
           /\ \A t : Has(q, a, b, t) => Has(q, i, j, t)
           /\ HasBareNot(q, a, b) => HasBareNot(q, i, j)
<1>1. a \in i..j /\ b \in i..j /\ Depth(q, a - 1) = Depth(q, i - 1)
  BY DEF PartOf
<1>2. \A k \in a..b : k \in i..j
  BY <1>1
<1>3. Operands(q, a, b) \subseteq Operands(q, i, j)
  BY <1>1, <1>2 DEF Operands
<1>4. Valued(q, V, i, j) => Valued(q, V, a, b)
  <2>1. ASSUME NEW k \in Operands(q, a, b), NEW f \in k..b PROVE f \in k..j
    <3>1. k \in a..b
      BY DEF Operands
    <3> QED BY <1>1, <3>1
  <2> QED BY <1>3, <2>1 DEF Valued
<1>5. \A t : Has(q, a, b, t) => Has(q, i, j, t)
  BY <1>1, <1>2 DEF Has
<1>6. HasBareNot(q, a, b) => HasBareNot(q, i, j)
  BY <1>1, <1>2 DEF HasBareNot
<1> QED BY <1>3, <1>4, <1>5, <1>6

LEMMA PhraseIsJoint ==
    ASSUME NEW q \in Seq(Tokens), NEW i \in 1..Len(q), NEW j \in 1..Len(q), i <= j,
           NEW V, \A k \in 1..Len(q) : V[k] \in SUBSET Lines,
           Valued(q, V, i, j), ~Negated(q, i), NEW x \in Phrases(q, Readings(q), i, j)
    PROVE  IsJoint(q, V, i, j, x)
<1>1. Operands(q, i, j) = {i}
  BY PhraseShapeHolds, PhraseOperands
<1>2. x = V[i]
  <2>1. j \in i..j
    OBVIOUS
  <2> QED BY <1>1, <2>1 DEF Valued
<1>3. V[i] \in SUBSET Lines
  OBVIOUS
<1> QED BY <1>1, <1>2, <1>3 DEF IsJoint, LinesOfAll, LinesOfAny

LEMMA NotIsJoint ==
    ASSUME NEW q \in Seq(Tokens), NEW i \in 1..Len(q), NEW j \in 1..Len(q), i < j,
           NEW V, \A k \in 1..Len(q) : V[k] \in SUBSET Lines, Valued(q, V, i, j),
           q[i] = "NOT", NEW y \in Phrases(q, Readings(q), i + 1, j)
    PROVE  IsJoint(q, V, i, j, Lines \ y)
<1>1. /\ i \in Int /\ j \in Int /\ i + 1 \in 1..Len(q) /\ i + 1 <= j /\ (i + 1) - 1 = i
      /\ i \in i..j /\ i..i - 1 = {} /\ j \in i + 1..j /\ i + 1 > 1
  OBVIOUS
<1>2. PhraseShape(q, i + 1, j)
  BY <1>1, PhraseShapeHolds
<1>3. Depth(q, i) = Depth(q, i - 1)
  BY <1>2, ShapeOfNot
<1>4. Operands(q, i + 1, j) = {i + 1}
  BY <1>1, <1>2, PhraseOperands
<1>5. Operands(q, i, j) = {i + 1}
  <2>1. q[i] \notin Words \cup {"("}
    BY UpFacts DEF Symbols
  <2>2. Operands(q, i, i - 1) = {}
    BY <1>1 DEF Operands
  <2>3. Operands(q, i, j) = Operands(q, i, i - 1) \cup Operands(q, i + 1, j)
    BY <1>1, <1>3, <2>1, OperandsSplit
  <2> QED BY <1>4, <2>2, <2>3
<1>6. V[i + 1] = Lines \ y
  <2>1. Negated(q, i + 1)
    BY <1>1 DEF Negated
  <2> QED BY <1>1, <1>5, <2>1 DEF Valued
<1> QED BY <1>5, <1>6 DEF IsJoint, LinesOfAll, LinesOfAny

(* Two parts with an operator between.                                      *)
LEMMA PartsAreJoint ==
    ASSUME NEW q \in Seq(Tokens), NEW i \in 1..Len(q), NEW j \in 1..Len(q),
           NEW k \in i + 1..j - 1, q[k] \in Operators,
           NEW V, NEW y, NEW z, Shape(q, i, k - 1), Shape(q, k + 1, j),
           IsJoint(q, V, i, k - 1, y), IsJoint(q, V, k + 1, j, z)
    PROVE  IsJoint(q, V, i, j, IF q[k] = "AND" THEN y \cap z ELSE y \cup z)
<1> DEFINE A == Operands(q, i, k - 1)
           B == Operands(q, k + 1, j)
           C == Operands(q, i, j)
<1>1. /\ i \in Int /\ j \in Int /\ k \in i..j /\ (k + 1) - 1 = k
      /\ k - 1 \in i..j /\ k + 1 \in i..j /\ i \in i..j /\ j \in i..j
  OBVIOUS
<1>2. Depth(q, k - 1) = Depth(q, i - 1) /\ Depth(q, k) = Depth(q, i - 1) /\ q[k] # "NOT"
  <2>1. q[k] # "NOT"
    BY DEF Operators
  <2> QED BY <2>1, ShapesJoin
<1>3. C = A \cup B
  <2>1. q[k] \notin Words \cup {"("}
    BY UpFacts DEF Symbols, Operators
  <2> QED BY <1>1, <1>2, <2>1, OperandsSplit
<1>4. PartOf(q, i, k - 1, i, j) /\ PartOf(q, k + 1, j, i, j)
  BY <1>1, <1>2 DEF PartOf
<1>5. Has(q, i, j, q[k])
  BY <1>1, <1>2 DEF Has
<1>6. ASSUME ~Has(q, i, j, "OR")
      PROVE  y = LinesOfAll(V, A) /\ z = LinesOfAll(V, B) /\ q[k] = "AND"
  <2>1. ~Has(q, i, k - 1, "OR") /\ ~Has(q, k + 1, j, "OR")
    BY <1>4, <1>6, PartFacts
  <2> QED BY <1>5, <1>6, <2>1 DEF IsJoint, Operators
<1>7. ASSUME ~Has(q, i, j, "AND"), ~HasBareNot(q, i, j)
      PROVE  y = LinesOfAny(V, A) /\ z = LinesOfAny(V, B) /\ q[k] = "OR"
  <2>1. ~Has(q, i, k - 1, "AND") /\ ~Has(q, k + 1, j, "AND")
    BY <1>4, <1>7, PartFacts
  <2>2. ~HasBareNot(q, i, k - 1) /\ ~HasBareNot(q, k + 1, j)
    BY <1>4, <1>7, PartFacts
  <2> QED BY <1>5, <1>7, <2>1, <2>2 DEF IsJoint, Operators
<1>8. A # {} /\ B # {}
  BY DEF IsJoint
<1>9. A \subseteq i..k - 1 /\ B \subseteq k + 1..j
  BY DEF Operands
<1>10. \A m : C # {m}
  <2> SUFFICES ASSUME NEW m, C = {m} PROVE FALSE
    OBVIOUS
  <2>1. m \in A /\ m \in B
    BY <1>3, <1>8
  <2> QED BY <1>1, <1>9, <2>1
<1> HIDE DEF A, B
<1>11. LinesOfAll(V, A \cup B) = LinesOfAll(V, A) \cap LinesOfAll(V, B)
  BY DEF LinesOfAll
<1>12. LinesOfAny(V, A \cup B) = LinesOfAny(V, A) \cup LinesOfAny(V, B)
  BY DEF LinesOfAny
<1>13. "AND" # "OR" /\ C # {}
  BY <1>3, <1>8
<1> QED BY <1>3, <1>6, <1>7, <1>10, <1>11, <1>12, <1>13 DEF IsJoint

(* ... and a NOT.                                                           *)
LEMMA PartWithoutIsJoint ==
    ASSUME NEW q \in Seq(Tokens), NEW i \in 1..Len(q), NEW j \in 1..Len(q),
           NEW k \in i + 1..j - 1, q[k] = "NOT",
           NEW V, \A m \in 1..Len(q) : V[m] \in SUBSET Lines, Valued(q, V, i, j),
           NEW y, NEW z \in Phrases(q, Readings(q), k + 1, j),
           Shape(q, i, k - 1), IsJoint(q, V, i, k - 1, y)
    PROVE  IsJoint(q, V, i, j, y \ z)
<1> DEFINE A == Operands(q, i, k - 1)
           B == Operands(q, k + 1, j)
           C == Operands(q, i, j)
<1>1. /\ i \in Int /\ j \in Int /\ k \in Int /\ k \in i..j /\ (k + 1) - 1 = k /\ k + 1 > 1 /\ k > 1
      /\ k - 1 \in i..j /\ k + 1 \in i..j /\ i \in i..j /\ j \in i..j
      /\ k + 1 \in 1..Len(q) /\ k + 1 <= j /\ j \in k + 1..j
  OBVIOUS
<1>2. PhraseShape(q, k + 1, j)
  BY <1>1, PhraseShapeHolds
<1>3. Depth(q, k - 1) = Depth(q, i - 1) /\ Depth(q, k) = Depth(q, i - 1)
  BY <1>2, ShapesJoin DEF PhraseShape
<1>4. B = {k + 1}
  BY <1>1, <1>2, PhraseOperands
<1>5. C = A \cup {k + 1}
  <2>1. q[k] \notin Words \cup {"("}
    BY UpFacts DEF Symbols
  <2>2. C = A \cup B
    BY <1>1, <1>3, <2>1, OperandsSplit
  <2> QED BY <1>4, <2>2
<1>6. V[k + 1] = Lines \ z
  <2>1. Negated(q, k + 1)
    BY <1>1 DEF Negated
  <2>2. k + 1 \in C
    BY <1>5
  <2> QED BY <1>1, <2>1, <2>2 DEF Valued
<1>7. HasBareNot(q, i, j)
  <2>1. q[k - 1] \in Words \cup {")"}
    BY DEF Shape
  <2>2. BareNot(q, k)
    BY <1>1, <2>1 DEF BareNot
  <2> QED BY <1>1, <1>3, <2>2 DEF HasBareNot
<1>8. ASSUME ~Has(q, i, j, "OR") PROVE y = LinesOfAll(V, A)
  <2>1. PartOf(q, i, k - 1, i, j)
    BY <1>1 DEF PartOf
  <2>2. ~Has(q, i, k - 1, "OR")
    BY <1>8, <2>1, PartFacts
  <2> QED BY <2>2 DEF IsJoint
<1>9. A # {} /\ A \subseteq i..k - 1
  BY DEF IsJoint, Operands
<1>10. \A m : C # {m}
  <2> SUFFICES ASSUME NEW m, C = {m} PROVE FALSE
    OBVIOUS
  <2>1. m \in A /\ m = k + 1
    <3> HIDE DEF A, C
    <3>1. k + 1 \in C /\ A \subseteq C /\ A # {}
      BY <1>5, <1>9
    <3> QED BY <3>1
  <2> QED BY <1>1, <1>9, <2>1
<1> HIDE DEF A
<1>11. LinesOfAll(V, A \cup {k + 1}) = LinesOfAll(V, A) \ z
  BY <1>6 DEF LinesOfAll
<1> QED BY <1>5, <1>7, <1>8, <1>10, <1>11 DEF IsJoint

JointsWithin(q, V, i, j) ==
    \A a, b \in i..j :
        a <= b /\ b - a < j - i /\ Valued(q, V, a, b) /\ ~Negated(q, a) =>
        \A x \in Readings(q)[<<a, b>>] : IsJoint(q, V, a, b, x)

LEMMA JointFromWithin ==
    ASSUME NEW q \in Seq(Tokens), NEW i \in 1..Len(q), NEW j \in 1..Len(q), i <= j,
           NEW V, \A m \in 1..Len(q) : V[m] \in SUBSET Lines, Valued(q, V, i, j),
           ~Negated(q, i), JointsWithin(q, V, i, j), NEW x \in Readings(q)[<<i, j>>]
    PROVE  IsJoint(q, V, i, j, x)
<1> DEFINE M == Readings(q)
<1>0. i \in Int /\ j \in Int /\ Len(q) \in Nat /\ i \in 1..Len(q) + 1 /\ j \in 0..Len(q)
  OBVIOUS
<1>1. WholeIs(q, M, i, j, x)
  BY <1>0, ReadingIs, WholeCases
<1>2. CASE x \in Phrases(q, M, i, j)
  BY <1>2, PhraseIsJoint
<1>3. CASE i < j /\ q[i] = "NOT" /\ \E y \in Phrases(q, M, i + 1, j) : x = Lines \ y
  BY <1>3, NotIsJoint
<1>4. CASE \E k \in i + 1..j - 1 : \E y \in M[<<i, k - 1>>] :
              \/ q[k] = "AND" /\ \E z \in M[<<k + 1, j>>] : x = y \cap z
              \/ q[k] = "OR" /\ \E z \in M[<<k + 1, j>>] : x = y \cup z
              \/ q[k] = "NOT" /\ \E z \in Phrases(q, M, k + 1, j) : x = y \ z
  <2>0. PICK k \in i + 1..j - 1 : \E y \in M[<<i, k - 1>>] :
              \/ q[k] = "AND" /\ \E z \in M[<<k + 1, j>>] : x = y \cap z
              \/ q[k] = "OR" /\ \E z \in M[<<k + 1, j>>] : x = y \cup z
              \/ q[k] = "NOT" /\ \E z \in Phrases(q, M, k + 1, j) : x = y \ z
    BY <1>4
  <2>1. PICK y \in M[<<i, k - 1>>] :
              \/ q[k] = "AND" /\ \E z \in M[<<k + 1, j>>] : x = y \cap z
              \/ q[k] = "OR" /\ \E z \in M[<<k + 1, j>>] : x = y \cup z
              \/ q[k] = "NOT" /\ \E z \in Phrases(q, M, k + 1, j) : x = y \ z
    BY <2>0
  <2>2. /\ k - 1 \in i..j /\ k + 1 \in i..j /\ i \in i..j /\ j \in i..j /\ i <= k - 1 /\ k + 1 <= j
        /\ (k - 1) - i < j - i /\ j - (k + 1) < j - i /\ (k + 1) - 1 = k
        /\ k - 1 \in 1..Len(q) /\ k + 1 \in 1..Len(q)
    BY <1>0
  <2>3. Shape(q, i, k - 1)
    BY <2>1, <2>2, ShapeHolds
  <2>4. IsJoint(q, V, i, k - 1, y)
    <3>1. PartOf(q, i, k - 1, i, j)
      BY <2>2 DEF PartOf
    <3>2. Valued(q, V, i, k - 1)
      BY <3>1, PartFacts
    <3> QED BY <2>1, <2>2, <3>2 DEF JointsWithin
  <2>5. ASSUME q[k] \in Operators, NEW z \in M[<<k + 1, j>>]
        PROVE  Shape(q, k + 1, j) /\ IsJoint(q, V, k + 1, j, z)
    <3>1. Shape(q, k + 1, j)
      BY <2>2, <2>5, ShapeHolds
    <3>2. q[k] # "NOT"
      BY <2>5 DEF Operators
    <3>3. Depth(q, k) = Depth(q, i - 1)
      BY <2>3, <2>5, <3>1, <3>2, ShapesJoin
    <3>4. PartOf(q, k + 1, j, i, j)
      BY <2>2, <3>3 DEF PartOf
    <3>5. Valued(q, V, k + 1, j)
      BY <3>4, PartFacts
    <3>6. ~Negated(q, k + 1)
      BY <2>2, <3>2 DEF Negated
    <3> QED BY <2>2, <2>5, <3>1, <3>5, <3>6 DEF JointsWithin
  <2>6. CASE q[k] = "AND" /\ \E z \in M[<<k + 1, j>>] : x = y \cap z
    <3>1. q[k] \in Operators
      BY <2>6 DEF Operators
    <3>2. PICK z \in M[<<k + 1, j>>] : x = y \cap z
      BY <2>6
    <3>3. /\ Shape(q, i, k - 1) /\ IsJoint(q, V, i, k - 1, y)
          /\ Shape(q, k + 1, j) /\ IsJoint(q, V, k + 1, j, z)
      BY <2>3, <2>4, <2>5, <3>1, <3>2
    <3>4. IsJoint(q, V, i, j, IF q[k] = "AND" THEN y \cap z ELSE y \cup z)
      BY <3>1, <3>3, PartsAreJoint
    <3> QED BY <2>6, <3>2, <3>4
  <2>7. CASE q[k] = "OR" /\ \E z \in M[<<k + 1, j>>] : x = y \cup z
    <3>1. q[k] \in Operators /\ q[k] # "AND"
      BY <2>7 DEF Operators
    <3>2. PICK z \in M[<<k + 1, j>>] : x = y \cup z
      BY <2>7
    <3>3. /\ Shape(q, i, k - 1) /\ IsJoint(q, V, i, k - 1, y)
          /\ Shape(q, k + 1, j) /\ IsJoint(q, V, k + 1, j, z)
      BY <2>3, <2>4, <2>5, <3>1, <3>2
    <3>4. IsJoint(q, V, i, j, IF q[k] = "AND" THEN y \cap z ELSE y \cup z)
      BY <3>1, <3>3, PartsAreJoint
    <3> QED BY <3>1, <3>2, <3>4
  <2>8. CASE q[k] = "NOT" /\ \E z \in Phrases(q, M, k + 1, j) : x = y \ z
    <3>1. PICK z \in Phrases(q, M, k + 1, j) : x = y \ z
      BY <2>8
    <3>2. IsJoint(q, V, i, j, y \ z)
      BY <2>3, <2>4, <2>8, <3>1, PartWithoutIsJoint
    <3> QED BY <3>1, <3>2
  <2> QED BY <2>1, <2>6, <2>7, <2>8
<1> QED BY <1>1, <1>2, <1>3, <1>4 DEF WholeIs

LEMMA JointHolds ==
    ASSUME NEW q \in Seq(Tokens), NEW i \in 1..Len(q), NEW j \in 1..Len(q), i <= j,
           NEW V, \A m \in 1..Len(q) : V[m] \in SUBSET Lines, Valued(q, V, i, j),
           ~Negated(q, i), NEW x \in Readings(q)[<<i, j>>]
    PROVE  IsJoint(q, V, i, j, x)
<1> DEFINE fine(a, b) == Valued(q, V, a, b) /\ ~Negated(q, a) =>
                         \A y \in Readings(q)[<<a, b>>] : IsJoint(q, V, a, b, y)
           bad(m) == \E a, b \in 1..Len(q) : a <= b /\ b - a = m /\ ~fine(a, b)
           T == {m \in Nat : bad(m)}
<1>1. Len(q) \in Nat
  OBVIOUS
<1>2. CASE T = {}
  <2>1. j - i \in Nat
    OBVIOUS
  <2>2. ~bad(j - i)
    BY <1>2, <2>1
  <2>3. fine(i, j)
    <3> HIDE DEF fine
    <3> QED BY <2>2
  <2> QED BY <2>3
<1>3. CASE T # {}
  <2>1. PICK m \in T : \A l \in T : m <= l
    <3>1. T \subseteq Nat
      OBVIOUS
    <3> HIDE DEF T
    <3> QED BY <1>3, <3>1, SmallestExists
  <2>2. PICK a, b \in 1..Len(q) : a <= b /\ b - a = m /\ ~fine(a, b)
    BY <2>1
  <2>3. ASSUME NEW c \in a..b, NEW d \in a..b, c <= d, d - c < b - a
        PROVE  fine(c, d)
    <3>1. c \in 1..Len(q) /\ d \in 1..Len(q) /\ d - c \in Nat /\ d - c < m
      BY <1>1, <2>2, <2>3
    <3>2. ~bad(d - c)
      <4>1. d - c \notin T
        <5>1. m \in Nat
          OBVIOUS
        <5> HIDE DEF T
        <5> QED BY <2>1, <3>1, <5>1
      <4> HIDE DEF bad
      <4> QED BY <3>1, <4>1
    <3> HIDE DEF fine
    <3> QED BY <2>3, <3>1, <3>2
  <2>4. JointsWithin(q, V, a, b)
    BY <2>3 DEF JointsWithin
  <2>5. fine(a, b)
    BY <2>2, <2>4, JointFromWithin
  <2> QED BY <2>2, <2>5
<1> QED BY <1>2, <1>3

(* A phrase ends where the depth is back.                                   *)
LEMMA PhraseEnds ==
    ASSUME NEW q \in Seq(Tokens), NEW k \in 1..Len(q), NEW f \in 1..Len(q), k <= f,
           Phrases(q, Readings(q), k, f) # {},
           NEW m \in 1..Len(q), k <= m, Depth(q, m) = Depth(q, k - 1)
    PROVE  f <= m
<1>1. PhraseShape(q, k, f)
  BY PhraseShapeHolds
<1>2. ASSUME f > m PROVE FALSE
  <2>1. k < f /\ m \in k..f - 1
    BY <1>2
  <2>2. Depth(q, m) > Depth(q, k - 1)
    BY <1>1, <2>1 DEF PhraseShape
  <2>3. Depth(q, m) \in Int
    <3>1. m \in Nat
      OBVIOUS
    <3> QED BY <3>1, DepthFacts
  <2> QED BY <2>2, <2>3
<1> QED BY <1>2

-----------------------------------------------------------------------------
(* The invariant: what the parser has read of each call of parse_expr.      *)

Denotes(q, k, n) ==
    \A f \in k..Len(q) : \A x \in Phrases(q, Readings(q), k, f) :
        DOMAIN n = IF Negated(q, k) THEN Lines \ x ELSE x

(* The nodes are those of the operands, from b + 1 to e.                    *)
NodesInv(q, b, e, nodes) ==
    \E p \in [DOMAIN nodes -> 1..e] :
        /\ Operands(q, b + 1, e) = {p[m] : m \in DOMAIN nodes}
        /\ \A l, m \in DOMAIN nodes : p[l] = p[m] => l = m
        /\ \A m \in DOMAIN nodes : Denotes(q, p[m], nodes[m])

LevelInv(q, b, e, level) ==
    /\ b <= e /\ Depth(q, e) = Depth(q, b) /\ \A k \in b..e : Depth(q, k) >= Depth(q, b)
    /\ \A op \in Operators : op \in level.ops <=> Has(q, b + 1, e, op)
    /\ ~BareNotWithOr(q) => NodesInv(q, b, e, level.nodes)

(* Call d began behind token b[d].                                          *)
EndOf(q, calls, b, d) == IF d = Len(calls) THEN Len(q) ELSE b[d + 1] - 1

Nested(q, calls, b) ==
    /\ b \in [DOMAIN calls -> 0..Len(q)] /\ b[1] = 0
    /\ \A d \in DOMAIN calls :
          Depth(q, b[d]) = d - 1 /\ LevelInv(q, b[d], EndOf(q, calls, b, d), calls[d])
    /\ \A d \in DOMAIN calls : d > 1 =>
          b[d] >= 1 /\ q[b[d]] = "(" /\ (calls[d].caller = "NOT" <=> Negated(q, b[d]))

Unreadable(q) ==
    \/ \E k \in 1..Len(q) - 1 : ~Fits(q, k)
    \/ \E k \in 1..Len(q) : Depth(q, k) < 0
    \/ MixedAtALevel(q)

MeaningInv ==
    /\ state = "reading" => \E b : Nested(read, levels, b)
    /\ state = "failed" => Unreadable(read)
    /\ AcceptedMeansOneThing /\ MeaningfulIsAccepted

(* What one more token keeps.                                               *)
LEMMA AppendFacts ==
    ASSUME NEW q \in Seq(Tokens), NEW t \in Tokens
    PROVE  LET r == Append(q, t) IN
           /\ r \in Seq(Tokens) /\ Len(r) = Len(q) + 1 /\ Len(q) \in Nat /\ r[Len(q) + 1] = t
           /\ \A k \in 1..Len(q) : r[k] = q[k]
           /\ \A k \in 0..Len(q) : Depth(r, k) = Depth(q, k) /\ Depth(q, k) \in Int
           /\ \A k \in 1..Len(q) + 1 : Negated(r, k) <=> Negated(q, k)
<1> DEFINE r == Append(q, t)
<1>1. /\ r \in Seq(Tokens) /\ Len(r) = Len(q) + 1 /\ Len(q) \in Nat /\ r[Len(q) + 1] = t
      /\ \A k \in 1..Len(q) : r[k] = q[k]
  OBVIOUS
<1> HIDE DEF r
<1>2. ASSUME NEW k \in 0..Len(q) PROVE Depth(r, k) = Depth(q, k) /\ Depth(q, k) \in Int
  <2>1. k \in Nat /\ \A m \in 1..k : r[m] = q[m]
    BY <1>1
  <2> QED BY <2>1, DepthKept, DepthFacts
<1>3. \A k \in 1..Len(q) + 1 : Negated(r, k) <=> Negated(q, k)
  <2> SUFFICES ASSUME NEW k \in 1..Len(q) + 1, k > 1 PROVE r[k - 1] = q[k - 1]
    BY DEF Negated
  <2> QED BY <1>1
<1> QED BY <1>1, <1>2, <1>3 DEF r

LEMMA SameLevelKept ==
    ASSUME NEW q \in Seq(Tokens), NEW t \in Tokens, NEW i \in 1..Len(q), NEW j \in 1..Len(q)
    PROVE  SameLevel(Append(q, t), i, j) <=> SameLevel(q, i, j)
<1>1. \A k \in 0..Len(q) : Depth(Append(q, t), k) = Depth(q, k)
  BY AppendFacts
<1>2. i \in 0..Len(q) /\ j \in 0..Len(q) /\ \A k \in i..j : k \in 0..Len(q)
  OBVIOUS
<1> QED BY <1>1, <1>2 DEF SameLevel

LEMMA TokenPropertiesKept ==
    ASSUME NEW q \in Seq(Tokens), NEW t \in Tokens
    PROVE  /\ BareNotWithOr(q) => BareNotWithOr(Append(q, t))
           /\ MixedAtALevel(q) => MixedAtALevel(Append(q, t))
           /\ Unreadable(q) => Unreadable(Append(q, t))
<1> DEFINE r == Append(q, t)
<1>1. /\ Len(r) = Len(q) + 1 /\ Len(q) \in Nat /\ \A k \in 1..Len(q) : r[k] = q[k]
      /\ \A k \in 0..Len(q) : Depth(r, k) = Depth(q, k)
      /\ DOMAIN q = 1..Len(q) /\ DOMAIN r = 1..Len(q) + 1
  BY AppendFacts
<1>2. \A i, j \in 1..Len(q) : SameLevel(r, i, j) <=> SameLevel(q, i, j)
  BY SameLevelKept
<1> HIDE DEF r
<1>3. ASSUME NEW i \in 1..Len(q), BareNot(q, i) PROVE BareNot(r, i)
  <2>1. i > 1 /\ i - 1 \in 1..Len(q)
    BY <1>1, <1>3 DEF BareNot
  <2> QED BY <1>1, <1>3, <2>1 DEF BareNot
<1>4. BareNotWithOr(q) => BareNotWithOr(r)
  <2> SUFFICES ASSUME NEW i \in 1..Len(q), NEW j \in 1..Len(q), BareNot(q, i), q[j] = "OR",
                      IF i < j THEN SameLevel(q, i, j) ELSE SameLevel(q, j, i)
               PROVE  BareNotWithOr(r)
    BY <1>1 DEF BareNotWithOr
  <2>1. i \in DOMAIN r /\ j \in DOMAIN r
    BY <1>1
  <2>2. BareNot(r, i) /\ r[j] = "OR"
    BY <1>1, <1>3
  <2>3. IF i < j THEN SameLevel(r, i, j) ELSE SameLevel(r, j, i)
    BY <1>2
  <2> QED BY <2>1, <2>2, <2>3 DEF BareNotWithOr
<1>5. MixedAtALevel(q) => MixedAtALevel(r)
  <2> SUFFICES ASSUME NEW i \in 1..Len(q), NEW j \in 1..Len(q), i < j, SameLevel(q, i, j),
                      {q[i], q[j]} = Operators
               PROVE  MixedAtALevel(r)
    BY <1>1 DEF MixedAtALevel
  <2>1. i \in DOMAIN r /\ j \in DOMAIN r
    BY <1>1
  <2>2. {r[i], r[j]} = Operators /\ SameLevel(r, i, j)
    BY <1>1, <1>2
  <2> QED BY <2>1, <2>2 DEF MixedAtALevel
<1>6. ASSUME NEW k \in 1..Len(q) - 1, ~Fits(q, k) PROVE k \in 1..Len(r) - 1 /\ ~Fits(r, k)
  <2>1. k \in 1..Len(q) /\ k + 1 \in 1..Len(q) /\ k \in 1..Len(r) - 1
    BY <1>1
  <2> QED BY <1>1, <1>6, <2>1 DEF Fits
<1>7. ASSUME NEW k \in 1..Len(q), Depth(q, k) < 0 PROVE k \in 1..Len(r) /\ Depth(r, k) < 0
  BY <1>1, <1>7
<1>8. Unreadable(q) => Unreadable(r)
  BY <1>5, <1>6, <1>7 DEF Unreadable
<1> QED BY <1>4, <1>5, <1>8 DEF r

-----------------------------------------------------------------------------
(* What a call of parse_expr returns is what its tokens mean.               *)

LEMMA SameLevelWithin ==
    ASSUME NEW q \in Seq(Tokens), NEW b \in 0..Len(q), NEW e \in 0..Len(q),
           \A k \in b..e : Depth(q, k) >= Depth(q, b),
           NEW i \in b + 1..e, Depth(q, i) = Depth(q, b),
           NEW j \in b + 1..e, Depth(q, j) = Depth(q, b)
    PROVE  SameLevel(q, i, j) /\ i \in DOMAIN q /\ j \in DOMAIN q
<1>1. i \in DOMAIN q /\ j \in DOMAIN q /\ \A k \in i..j : k \in b..e /\ k \in Nat
  OBVIOUS
<1>2. \A k \in i..j : Depth(q, k) \in Int /\ Depth(q, k) >= Depth(q, b)
  BY <1>1, DepthFacts
<1> QED BY <1>1, <1>2 DEF SameLevel

LEMMA BareNotApart ==
    ASSUME NEW q \in Seq(Tokens), NEW b \in 0..Len(q), NEW e \in 0..Len(q),
           \A k \in b..e : Depth(q, k) >= Depth(q, b),
           ~BareNotWithOr(q), Has(q, b + 1, e, "OR")
    PROVE  ~HasBareNot(q, b + 1, e)
<1>1. (b + 1) - 1 = b
  OBVIOUS
<1>2. PICK j \in b + 1..e : q[j] = "OR" /\ Depth(q, j) = Depth(q, b)
  BY <1>1 DEF Has
<1> SUFFICES ASSUME NEW i \in b + 1..e, BareNot(q, i), Depth(q, i) = Depth(q, b) PROVE FALSE
  BY <1>1 DEF HasBareNot
<1>3. SameLevel(q, i, j) /\ SameLevel(q, j, i) /\ i \in DOMAIN q /\ j \in DOMAIN q
  BY <1>2, SameLevelWithin
<1> QED BY <1>2, <1>3 DEF BareNotWithOr

(* V: what the nodes find, by the operands they are of.                     *)
LEMMA NodesValued ==
    ASSUME NEW q \in Seq(Tokens), NEW b \in 0..Len(q), NEW e \in 0..Len(q),
           NEW nodes \in Seq(Nodes), NodesInv(q, b, e, nodes)
    PROVE  \E p, V :
              /\ Operands(q, b + 1, e) = {p[m] : m \in DOMAIN nodes}
              /\ \A l, m \in DOMAIN nodes : p[l] = p[m] => l = m
              /\ \A k \in 1..Len(q) : V[k] \in SUBSET Lines
              /\ \A m \in DOMAIN nodes : V[p[m]] = DOMAIN nodes[m]
              /\ Valued(q, V, b + 1, e)
<1>1. PICK p \in [DOMAIN nodes -> 1..e] :
        /\ Operands(q, b + 1, e) = {p[m] : m \in DOMAIN nodes}
        /\ \A l, m \in DOMAIN nodes : p[l] = p[m] => l = m
        /\ \A m \in DOMAIN nodes : Denotes(q, p[m], nodes[m])
  BY DEF NodesInv
<1> DEFINE V == [k \in 1..Len(q) |->
                    {l \in Lines : \E m \in DOMAIN nodes : p[m] = k /\ l \in DOMAIN nodes[m]}]
<1>2. \A k \in 1..Len(q) : V[k] \in SUBSET Lines
  OBVIOUS
<1>3. ASSUME NEW m \in DOMAIN nodes PROVE V[p[m]] = DOMAIN nodes[m]
  <2>1. p[m] \in 1..Len(q)
    OBVIOUS
  <2>2. DOMAIN nodes[m] \subseteq Lines
    BY NodeFacts
  <2> QED BY <1>1, <2>1, <2>2
<1> HIDE DEF V
<1>4. Valued(q, V, b + 1, e)
  <2> SUFFICES ASSUME NEW k \in Operands(q, b + 1, e), NEW f \in k..e,
                      NEW x \in Phrases(q, Readings(q), k, f)
               PROVE  V[k] = IF Negated(q, k) THEN Lines \ x ELSE x
    BY DEF Valued
  <2>1. PICK m \in DOMAIN nodes : k = p[m]
    BY <1>1
  <2>2. f \in k..Len(q)
    OBVIOUS
  <2> QED BY <1>1, <1>3, <2>1, <2>2 DEF Denotes
<1> QED BY <1>1, <1>2, <1>3, <1>4

LEMMA CombinedMeans ==
    ASSUME NEW q \in Seq(Tokens), NEW b \in 0..Len(q), NEW e \in 0..Len(q),
           NEW C, NEW level \in LevelsOf(Nodes, C), LevelInv(q, b, e, level),
           ~BareNotWithOr(q), ~Mixed(level), ~Negated(q, b + 1),
           NEW x \in Readings(q)[<<b + 1, e>>]
    PROVE  x = DOMAIN Combined(level)
<1> DEFINE nodes == level.nodes
           K == Operands(q, b + 1, e)
<1>1. nodes \in Seq(Nodes) /\ level.ops \in SUBSET Operators
  BY DEF LevelsOf
<1>2. PICK p, V :
        /\ K = {p[m] : m \in DOMAIN nodes}
        /\ \A l, m \in DOMAIN nodes : p[l] = p[m] => l = m
        /\ \A k \in 1..Len(q) : V[k] \in SUBSET Lines
        /\ \A m \in DOMAIN nodes : V[p[m]] = DOMAIN nodes[m]
        /\ Valued(q, V, b + 1, e)
  BY <1>1, NodesValued DEF LevelInv
<1>3. b + 1 \in 1..Len(q) /\ e \in 1..Len(q) /\ b + 1 <= e
  <2>1. b + 1 \in 1..Len(q) + 1
    OBVIOUS
  <2>2. ~(b + 1 > e)
    BY <2>1, ReadingIs
  <2> QED BY <2>2
<1>4. IsJoint(q, V, b + 1, e, x)
  BY <1>2, <1>3, JointHolds
<1>5. /\ K # {}
      /\ ~Has(q, b + 1, e, "OR") => x = LinesOfAll(V, K)
      /\ ~Has(q, b + 1, e, "AND") /\ ~HasBareNot(q, b + 1, e) => x = LinesOfAny(V, K)
      /\ \A k : K = {k} => x = V[k]
  BY <1>4 DEF IsJoint
<1>6. /\ LinesOfAll(V, K) = AllMatch(nodes)
      /\ LinesOfAny(V, K) = AnyMatch(nodes)
  BY <1>2 DEF LinesOfAll, LinesOfAny, AllMatch, AnyMatch
<1>7. \A op \in Operators : op \in level.ops <=> Has(q, b + 1, e, op)
  BY DEF LevelInv
<1>8. Len(nodes) \in Nat /\ DOMAIN nodes = 1..Len(nodes)
  BY <1>1
<1> HIDE DEF K
<1>9. nodes # << >>
  <2> SUFFICES ASSUME nodes = << >> PROVE FALSE
    OBVIOUS
  <2>1. DOMAIN nodes = {}
    OBVIOUS
  <2> QED BY <1>2, <1>5, <2>1
<1>10. Len(nodes) >= 1
  BY <1>1, <1>9, EmptySeq
<1>11. CASE Len(nodes) = 1
  <2>1. Combined(level) = nodes[1]
    BY <1>9, <1>11 DEF Combined
  <2>2. DOMAIN nodes = {1}
    BY <1>8, <1>11
  <2>3. K = {p[1]}
    BY <1>2, <2>2
  <2> QED BY <1>2, <1>5, <2>1, <2>2, <2>3
<1>12. CASE Len(nodes) > 1 /\ level.ops = {"OR"}
  <2>1. Combined(level) = OrNode(nodes)
    BY <1>9, <1>12 DEF Combined
  <2>2. ~Has(q, b + 1, e, "AND") /\ Has(q, b + 1, e, "OR")
    BY <1>7, <1>12 DEF Operators
  <2>3. ~HasBareNot(q, b + 1, e)
    BY <2>2, BareNotApart DEF LevelInv
  <2>4. DOMAIN OrNode(nodes) = AnyMatch(nodes)
    BY DEF OrNode
  <2> QED BY <1>5, <1>6, <2>1, <2>2, <2>3, <2>4
<1>13. CASE Len(nodes) > 1 /\ level.ops # {"OR"}
  <2>1. Combined(level) = AndNode(nodes)
    <3>1. Len(nodes) # 1
      <4> DEFINE k == Len(nodes)
      <4>1. k \in Nat /\ k > 1
        BY <1>8, <1>13
      <4> HIDE DEF k
      <4>2. k # 1
        BY <4>1
      <4> QED BY <4>2 DEF k
    <3> QED BY <1>9, <1>13, <3>1 DEF Combined
  <2>2. "OR" \notin level.ops
    BY <1>1, <1>13 DEF Mixed, Operators
  <2>3. ~Has(q, b + 1, e, "OR")
    BY <1>7, <2>2 DEF Operators
  <2>4. DOMAIN AndNode(nodes) = AllMatch(nodes)
    BY DEF AndNode
  <2> QED BY <1>5, <1>6, <2>1, <2>3, <2>4
<1>14. Len(nodes) = 1 \/ Len(nodes) > 1
  <2> DEFINE k == Len(nodes)
  <2>1. k \in Nat /\ k >= 1
    BY <1>8, <1>10
  <2> HIDE DEF k
  <2>2. k = 1 \/ k > 1
    BY <2>1
  <2> QED BY <2>2 DEF k
<1> QED BY <1>11, <1>12, <1>13, <1>14

-----------------------------------------------------------------------------
(* What has been read of a call stays with more tokens ...                  *)

LEMMA PhrasesKept ==
    ASSUME NEW q \in Seq(Tokens), NEW t \in Tokens, NEW k \in 1..Len(q), NEW f \in k..Len(q)
    PROVE  LET r == Append(q, t) IN Phrases(r, Readings(r), k, f) = Phrases(q, Readings(q), k, f)
<1> DEFINE r == Append(q, t)
<1>1. r \in Seq(Tokens) /\ Len(q) <= Len(r) /\ \A m \in 1..Len(q) : r[m] = q[m]
  BY AppendFacts
<1> HIDE DEF r
<1>2. k \in Int /\ f \in Int /\ k <= f
  OBVIOUS
<1>3. \A m \in k..f : r[m] = q[m]
  BY <1>1
<1>4. ASSUME NEW a \in k..f, NEW b \in k..f PROVE Readings(r)[<<a, b>>] = Readings(q)[<<a, b>>]
  <2>1. a \in 1..Len(q) + 1 /\ b \in 0..Len(q)
    OBVIOUS
  <2> QED BY <1>1, <2>1, ReadingsKept
<1>5. Agree(r, Readings(r), q, Readings(q), k, f)
  BY <1>3, <1>4 DEF Agree
<1>6. Phrases(r, Readings(r), k, f) = Phrases(q, Readings(q), k, f)
  BY <1>2, <1>5, PhrasesLocal
<1> QED BY <1>6 DEF r

LEMMA DenotesKept ==
    ASSUME NEW q \in Seq(Tokens), NEW t \in Tokens, NEW k \in 1..Len(q), NEW e \in k..Len(q),
           Depth(q, e) = Depth(q, k - 1), NEW n, Denotes(q, k, n)
    PROVE  Denotes(Append(q, t), k, n)
<1> DEFINE r == Append(q, t)
<1>1. /\ r \in Seq(Tokens) /\ Len(r) = Len(q) + 1 /\ Len(q) \in Nat
      /\ \A m \in 0..Len(q) : Depth(r, m) = Depth(q, m)
      /\ \A m \in 1..Len(q) + 1 : Negated(r, m) <=> Negated(q, m)
  BY AppendFacts
<1>2. \A f \in k..Len(q) : Phrases(r, Readings(r), k, f) = Phrases(q, Readings(q), k, f)
  BY PhrasesKept
<1> HIDE DEF r
<1>3. Depth(r, e) = Depth(r, k - 1)
  <2>1. e \in 0..Len(q) /\ k - 1 \in 0..Len(q)
    OBVIOUS
  <2> QED BY <1>1, <2>1
<1>4. ASSUME NEW f \in k..Len(r), NEW x \in Phrases(r, Readings(r), k, f)
      PROVE  DOMAIN n = IF Negated(r, k) THEN Lines \ x ELSE x
  <2>1. k \in 1..Len(r) /\ f \in 1..Len(r) /\ e \in 1..Len(r) /\ k <= f /\ k <= e
    BY <1>1
  <2>2. f <= e
    BY <1>1, <1>3, <2>1, PhraseEnds
  <2>3. f \in k..Len(q)
    BY <1>1, <2>1, <2>2
  <2>4. x \in Phrases(q, Readings(q), k, f) /\ (Negated(r, k) <=> Negated(q, k))
    BY <1>1, <1>2, <2>3
  <2> QED BY <2>3, <2>4 DEF Denotes
<1>5. Denotes(r, k, n)
  BY <1>4 DEF Denotes
<1> QED BY <1>5 DEF r

LEMMA LevelKept ==
    ASSUME NEW q \in Seq(Tokens), NEW t \in Tokens, NEW b \in 0..Len(q), NEW e \in 0..Len(q),
           NEW level, LevelInv(q, b, e, level)
    PROVE  LevelInv(Append(q, t), b, e, level)
<1> DEFINE r == Append(q, t)
<1>1. /\ Len(q) \in Nat /\ \A k \in 1..Len(q) : r[k] = q[k]
      /\ \A k \in 0..Len(q) : Depth(r, k) = Depth(q, k)
  BY AppendFacts
<1>2. BareNotWithOr(q) => BareNotWithOr(r)
  BY TokenPropertiesKept
<1>3. /\ (b + 1) - 1 = b
      /\ \A k \in b + 1..e : k \in 1..Len(q) /\ k \in 0..Len(q) /\ k - 1 \in 0..Len(q)
      /\ \A k \in b..e : k \in 0..Len(q)
  BY <1>1
<1>4. /\ b <= e /\ Depth(q, e) = Depth(q, b) /\ \A k \in b..e : Depth(q, k) >= Depth(q, b)
      /\ \A op \in Operators : op \in level.ops <=> Has(q, b + 1, e, op)
      /\ ~BareNotWithOr(q) => NodesInv(q, b, e, level.nodes)
  BY DEF LevelInv
<1>5. \A k \in 1..Len(q) : \A n : k <= e /\ Depth(q, e) = Depth(q, k - 1) /\ Denotes(q, k, n)
        => Denotes(r, k, n)
  <2> SUFFICES ASSUME NEW k \in 1..Len(q), NEW n, k <= e, Depth(q, e) = Depth(q, k - 1),
                      Denotes(q, k, n)
               PROVE  Denotes(r, k, n)
    OBVIOUS
  <2>1. e \in k..Len(q)
    BY <1>1
  <2> QED BY <2>1, DenotesKept
<1> HIDE DEF r
<1>6. Depth(r, e) = Depth(r, b) /\ \A k \in b..e : Depth(r, k) >= Depth(r, b)
  BY <1>1, <1>3, <1>4
<1>7. \A op : Has(r, b + 1, e, op) <=> Has(q, b + 1, e, op)
  BY <1>1, <1>3 DEF Has
<1>8. Operands(r, b + 1, e) = Operands(q, b + 1, e)
  BY <1>1, <1>3 DEF Operands
<1>9. ~BareNotWithOr(r) => NodesInv(r, b, e, level.nodes)
  <2> SUFFICES ASSUME ~BareNotWithOr(r) PROVE NodesInv(r, b, e, level.nodes)
    OBVIOUS
  <2> DEFINE nodes == level.nodes
  <2>1. PICK p \in [DOMAIN nodes -> 1..e] :
          /\ Operands(q, b + 1, e) = {p[m] : m \in DOMAIN nodes}
          /\ \A l, m \in DOMAIN nodes : p[l] = p[m] => l = m
          /\ \A m \in DOMAIN nodes : Denotes(q, p[m], nodes[m])
    BY <1>2, <1>4 DEF NodesInv
  <2>2. ASSUME NEW m \in DOMAIN nodes PROVE Denotes(r, p[m], nodes[m])
    <3>1. p[m] \in Operands(q, b + 1, e)
      BY <2>1
    <3>2. p[m] \in b + 1..e /\ Depth(q, p[m] - 1) = Depth(q, b)
      BY <1>3, <3>1 DEF Operands
    <3>3. p[m] \in 1..Len(q) /\ p[m] <= e
      BY <1>3, <3>2
    <3> QED BY <1>4, <1>5, <2>1, <3>2, <3>3
  <2> QED BY <1>8, <2>1, <2>2 DEF NodesInv
<1>10. LevelInv(r, b, e, level)
  BY <1>4, <1>6, <1>7, <1>9 DEF LevelInv
<1> QED BY <1>10 DEF r

(* ... and grows by what is read behind it.                                 *)
LEMMA CallSplit ==
    ASSUME NEW q, NEW b \in Nat, NEW e \in Nat, NEW f \in Nat, b <= e, e <= f,
           Depth(q, e) = Depth(q, b)
    PROVE  /\ Operands(q, b + 1, f) = Operands(q, b + 1, e) \cup Operands(q, e + 1, f)
           /\ \A op : Has(q, b + 1, f, op) <=> Has(q, b + 1, e, op) \/ Has(q, e + 1, f, op)
<1>1. (b + 1) - 1 = b /\ (e + 1) - 1 = e
  OBVIOUS
<1>2. ASSUME NEW k PROVE k \in b + 1..f <=> k \in b + 1..e \/ k \in e + 1..f
  OBVIOUS
<1> QED BY <1>1, <1>2 DEF Operands, Has

LEMMA LevelGrows ==
    ASSUME NEW q \in Seq(Tokens), NEW b \in 0..Len(q), NEW e \in 0..Len(q), NEW f \in 0..Len(q),
           e <= f, NEW level, LevelInv(q, b, e, level),
           Depth(q, f) = Depth(q, b), \A k \in e + 1..f : Depth(q, k) >= Depth(q, b),
           NEW more, \A op \in Operators : op \in more.ops <=>
                                              op \in level.ops \/ Has(q, e + 1, f, op),
           level.nodes \in Seq(Nodes),
           \/ more.nodes = level.nodes /\ Operands(q, e + 1, f) = {}
           \/ \E c \in e + 1..f, node \in Nodes :
                 /\ more.nodes = Append(level.nodes, node) /\ Operands(q, e + 1, f) = {c}
                 /\ ~BareNotWithOr(q) => Denotes(q, c, node)
    PROVE  LevelInv(q, b, f, more)
<1>1. /\ b <= e /\ Depth(q, e) = Depth(q, b) /\ \A k \in b..e : Depth(q, k) >= Depth(q, b)
      /\ \A op \in Operators : op \in level.ops <=> Has(q, b + 1, e, op)
      /\ ~BareNotWithOr(q) => NodesInv(q, b, e, level.nodes)
  BY DEF LevelInv
<1>2. /\ Operands(q, b + 1, f) = Operands(q, b + 1, e) \cup Operands(q, e + 1, f)
      /\ \A op : Has(q, b + 1, f, op) <=> Has(q, b + 1, e, op) \/ Has(q, e + 1, f, op)
  BY <1>1, CallSplit
<1>3. \A k \in b..f : Depth(q, k) >= Depth(q, b)
  <2>1. \A k \in b..f : k \in b..e \/ k \in e + 1..f
    OBVIOUS
  <2> QED BY <1>1, <2>1
<1>4. ASSUME ~BareNotWithOr(q) PROVE NodesInv(q, b, f, more.nodes)
  <2> DEFINE nodes == level.nodes
             N == Len(nodes)
  <2>1. PICK p \in [DOMAIN nodes -> 1..e] :
          /\ Operands(q, b + 1, e) = {p[m] : m \in DOMAIN nodes}
          /\ \A l, m \in DOMAIN nodes : p[l] = p[m] => l = m
          /\ \A m \in DOMAIN nodes : Denotes(q, p[m], nodes[m])
    BY <1>1, <1>4 DEF NodesInv
  <2>2. N \in Nat /\ DOMAIN nodes = 1..N
    OBVIOUS
  <2>3. \A m \in 1..e : m \in 1..f
    OBVIOUS
  <2>4. CASE more.nodes = nodes /\ Operands(q, e + 1, f) = {}
    <3>1. p \in [DOMAIN nodes -> 1..f] /\ Operands(q, b + 1, f) = {p[m] : m \in DOMAIN nodes}
      BY <1>2, <2>1, <2>3, <2>4
    <3> QED BY <2>1, <2>4, <3>1 DEF NodesInv
  <2>5. ASSUME NEW c \in e + 1..f, NEW node \in Nodes, more.nodes = Append(nodes, node),
               Operands(q, e + 1, f) = {c}, Denotes(q, c, node)
        PROVE  NodesInv(q, b, f, more.nodes)
    <3> DEFINE r == [m \in 1..N + 1 |-> IF m = N + 1 THEN c ELSE p[m]]
    <3>1. /\ DOMAIN more.nodes = 1..N + 1 /\ more.nodes[N + 1] = node
          /\ \A m \in 1..N : more.nodes[m] = nodes[m]
      BY <2>5
    <3>2. /\ \A m \in 1..N + 1 : m = N + 1 \/ (m \in 1..N /\ m # N + 1)
          /\ N + 1 \in 1..N + 1 /\ \A m \in 1..N : m \in 1..N + 1 /\ m # N + 1
      BY <2>2
    <3>3. c \in 1..f /\ \A m \in 1..e : m # c
      OBVIOUS
    <3>4. r[N + 1] = c /\ \A m \in 1..N : r[m] = p[m]
      BY <3>2
    <3>5. r \in [1..N + 1 -> 1..f]
      BY <2>2, <2>3, <3>2, <3>3
    <3> HIDE DEF r, N
    <3>6. Operands(q, b + 1, f) = {r[m] : m \in 1..N + 1}
      <4>1. {r[m] : m \in 1..N + 1} = {p[m] : m \in 1..N} \cup {c}
        BY <3>2, <3>4
      <4> QED BY <1>2, <2>1, <2>2, <2>5, <4>1
    <3>7. \A l, m \in 1..N + 1 : r[l] = r[m] => l = m
      BY <2>1, <2>2, <3>2, <3>3, <3>4
    <3>8. \A m \in 1..N + 1 : Denotes(q, r[m], more.nodes[m])
      BY <2>1, <2>2, <2>5, <3>1, <3>2, <3>4
    <3> QED BY <3>1, <3>5, <3>6, <3>7, <3>8 DEF NodesInv
  <2> QED BY <1>4, <2>4, <2>5
<1>5. \A op \in Operators : op \in more.ops <=> Has(q, b + 1, f, op)
  BY <1>1, <1>2
<1>6. b <= f
  BY <1>1
<1> QED BY <1>3, <1>4, <1>5, <1>6 DEF LevelInv

-----------------------------------------------------------------------------
(* The calls, as one more token is read.                                    *)

LEMMA NestedFacts ==
    ASSUME NEW q \in Seq(Tokens), NEW t \in Tokens, NEW L, NEW calls \in Seq(L), calls # << >>,
           NEW b, Nested(q, calls, b)
    PROVE  LET r == Append(q, t) IN
           /\ Len(calls) \in Nat /\ Len(calls) >= 1 /\ DOMAIN calls = 1..Len(calls)
           /\ \A d \in DOMAIN calls :
                 /\ b[d] \in 0..Len(q) /\ EndOf(q, calls, b, d) \in 0..Len(q)
                 /\ b[d] <= EndOf(q, calls, b, d) /\ Depth(r, b[d]) = d - 1
                 /\ LevelInv(r, b[d], EndOf(q, calls, b, d), calls[d])
           /\ \A d \in DOMAIN calls : d > 1 =>
                 b[d] >= 1 /\ r[b[d]] = "(" /\ (calls[d].caller = "NOT" <=> Negated(r, b[d]))
           /\ Depth(q, Len(q)) = Len(calls) - 1 /\ Depth(r, Len(q)) = Len(calls) - 1
<1> DEFINE r == Append(q, t)
<1>1. /\ Len(q) \in Nat /\ \A k \in 1..Len(q) : r[k] = q[k]
      /\ \A k \in 0..Len(q) : Depth(r, k) = Depth(q, k)
      /\ \A k \in 1..Len(q) + 1 : Negated(r, k) <=> Negated(q, k)
  BY AppendFacts
<1>2. Len(calls) \in Nat /\ Len(calls) >= 1 /\ DOMAIN calls = 1..Len(calls)
  BY EmptySeq
<1>3. /\ b \in [DOMAIN calls -> 0..Len(q)] /\ b[1] = 0
      /\ \A d \in DOMAIN calls :
            Depth(q, b[d]) = d - 1 /\ LevelInv(q, b[d], EndOf(q, calls, b, d), calls[d])
      /\ \A d \in DOMAIN calls : d > 1 =>
            b[d] >= 1 /\ q[b[d]] = "(" /\ (calls[d].caller = "NOT" <=> Negated(q, b[d]))
  BY DEF Nested
<1>4. ASSUME NEW d \in DOMAIN calls
      PROVE  b[d] \in 0..Len(q) /\ EndOf(q, calls, b, d) \in 0..Len(q)
  <2>1. b[d] \in 0..Len(q)
    BY <1>3
  <2>2. CASE d = Len(calls)
    BY <1>1, <2>1, <2>2 DEF EndOf
  <2>3. CASE d # Len(calls)
    <3>1. d + 1 \in DOMAIN calls /\ d + 1 > 1
      BY <1>2, <2>3
    <3>2. b[d + 1] \in 0..Len(q) /\ b[d + 1] >= 1
      BY <1>3, <3>1
    <3>3. b[d + 1] - 1 \in 0..Len(q)
      BY <1>1, <3>2
    <3> QED BY <2>1, <2>3, <3>3 DEF EndOf
  <2> QED BY <2>2, <2>3
<1>5. ASSUME NEW d \in DOMAIN calls
      PROVE  /\ b[d] <= EndOf(q, calls, b, d) /\ Depth(r, b[d]) = d - 1
             /\ LevelInv(r, b[d], EndOf(q, calls, b, d), calls[d])
  <2>1. LevelInv(q, b[d], EndOf(q, calls, b, d), calls[d])
    BY <1>3
  <2>2. LevelInv(r, b[d], EndOf(q, calls, b, d), calls[d])
    BY <1>4, <2>1, LevelKept
  <2>3. b[d] <= EndOf(q, calls, b, d)
    BY <2>1 DEF LevelInv
  <2> QED BY <1>1, <1>3, <1>4, <2>2, <2>3
<1>6. ASSUME NEW d \in DOMAIN calls, d > 1
      PROVE  b[d] >= 1 /\ r[b[d]] = "(" /\ (calls[d].caller = "NOT" <=> Negated(r, b[d]))
  <2>1. b[d] \in 1..Len(q) /\ b[d] \in 1..Len(q) + 1
    BY <1>1, <1>3, <1>4, <1>6
  <2> QED BY <1>1, <1>3, <1>6, <2>1
<1>7. Depth(q, Len(q)) = Len(calls) - 1
  <2>1. Len(calls) \in DOMAIN calls /\ EndOf(q, calls, b, Len(calls)) = Len(q)
    BY <1>2 DEF EndOf
  <2> QED BY <1>3, <2>1 DEF LevelInv
<1>8. Depth(r, Len(q)) = Len(calls) - 1
  <2>1. Len(q) \in 0..Len(q)
    BY <1>1
  <2> QED BY <1>1, <1>7, <2>1
<1> HIDE DEF r
<1> QED BY <1>2, <1>4, <1>5, <1>6, <1>7, <1>8 DEF r

LEMMA LastToken ==
    ASSUME NEW q \in Seq(Tokens), NEW t \in Tokens
    PROVE  LET r == Append(q, t)
               n == Len(q) + 1 IN
           /\ Depth(r, n) = Depth(q, Len(q)) + Up(t)
           /\ Operands(r, n, n) = IF t \in Words \cup {"("} THEN {n} ELSE {}
           /\ Up(t) = 0 => \A op : Has(r, n, n, op) <=> t = op
<1> DEFINE r == Append(q, t)
           n == Len(q) + 1
<1>1. /\ r \in Seq(Tokens) /\ Len(q) \in Nat /\ r[n] = t
      /\ \A k \in 0..Len(q) : Depth(r, k) = Depth(q, k) /\ Depth(q, k) \in Int
  BY AppendFacts
<1>2. n \in Nat \ {0} /\ n - 1 = Len(q) /\ Len(q) \in 0..Len(q) /\ n..n = {n}
  BY <1>1
<1> HIDE DEF r, n
<1>3. Depth(r, n) = Depth(q, Len(q)) + Up(t) /\ Depth(r, n - 1) = Depth(q, Len(q))
  BY <1>1, <1>2, DepthStep
<1>4. Operands(r, n, n) = IF t \in Words \cup {"("} THEN {n} ELSE {}
  BY <1>1, <1>2 DEF Operands
<1>5. Up(t) = 0 => \A op : Has(r, n, n, op) <=> t = op
  BY <1>1, <1>2, <1>3 DEF Has
<1> QED BY <1>3, <1>4, <1>5 DEF r, n

(* A token of the innermost call.                                           *)
LEMMA NestedGrows ==
    ASSUME NEW q \in Seq(Tokens), NEW t \in Tokens, Up(t) = 0,
           NEW C, NEW calls \in Seq(LevelsOf(Nodes, C)), calls # << >>,
           NEW b, Nested(q, calls, b),
           NEW x \in LevelsOf(Nodes, C), x.caller = calls[Len(calls)].caller,
           \A op \in Operators : op \in x.ops <=> op \in calls[Len(calls)].ops \/ t = op,
           \/ x.nodes = calls[Len(calls)].nodes /\ t \notin Words
           \/ \E node \in Nodes :
                 /\ x.nodes = Append(calls[Len(calls)].nodes, node) /\ t \in Words
                 /\ Denotes(Append(q, t), Len(q) + 1, node)
    PROVE  Nested(Append(q, t), Append(SubSeq(calls, 1, Len(calls) - 1), x), b)
<1> DEFINE r == Append(q, t)
           n == Len(q)
           L == Len(calls)
           more == Append(SubSeq(calls, 1, L - 1), x)
<1>1. /\ L \in Nat /\ L >= 1 /\ DOMAIN calls = 1..L
      /\ \A d \in DOMAIN calls :
            /\ b[d] \in 0..n /\ EndOf(q, calls, b, d) \in 0..n
            /\ b[d] <= EndOf(q, calls, b, d) /\ Depth(r, b[d]) = d - 1
            /\ LevelInv(r, b[d], EndOf(q, calls, b, d), calls[d])
      /\ \A d \in DOMAIN calls : d > 1 =>
            b[d] >= 1 /\ r[b[d]] = "(" /\ (calls[d].caller = "NOT" <=> Negated(r, b[d]))
      /\ Depth(q, n) = L - 1 /\ Depth(r, n) = L - 1
  BY NestedFacts
<1>2. /\ r \in Seq(Tokens) /\ Len(r) = n + 1 /\ n \in Nat
  BY AppendFacts
<1>3. /\ more \in Seq(LevelsOf(Nodes, C)) /\ Len(more) = L /\ more[L] = x
      /\ \A d \in 1..(L - 1) : more[d] = calls[d]
  BY LastReplaced
<1>4. /\ Depth(r, n + 1) = L - 1
      /\ Operands(r, n + 1, n + 1) = IF t \in Words \cup {"("} THEN {n + 1} ELSE {}
      /\ \A op : Has(r, n + 1, n + 1, op) <=> t = op
  <2>1. /\ Depth(r, n + 1) = Depth(q, n) + Up(t)
        /\ Operands(r, n + 1, n + 1) = IF t \in Words \cup {"("} THEN {n + 1} ELSE {}
        /\ \A op : Has(r, n + 1, n + 1, op) <=> t = op
    BY LastToken
  <2> HIDE DEF r, n, L
  <2> QED BY <1>1, <2>1
<1>5. /\ b \in [DOMAIN calls -> 0..n] /\ b[1] = 0
  BY DEF Nested
<1>6. t # "("
  BY DEF Up
<1>7. calls[L].nodes \in Seq(Nodes)
  <2>1. calls[L] \in LevelsOf(Nodes, C)
    <3>1. L \in 1..L
      BY <1>1
    <3> QED BY <1>1, <3>1
  <2> HIDE DEF L
  <2> QED BY <2>1 DEF LevelsOf
<1>8. \/ x.nodes = calls[L].nodes /\ t \notin Words
      \/ \E node \in Nodes :
            x.nodes = Append(calls[L].nodes, node) /\ t \in Words /\ Denotes(r, n + 1, node)
  OBVIOUS
<1> HIDE DEF r, n, L, more
<1>9. LevelInv(r, b[L], n + 1, x)
  <2>1. LevelInv(r, b[L], n, calls[L]) /\ b[L] \in 0..n /\ Depth(r, b[L]) = L - 1
    <3>1. L \in DOMAIN calls /\ EndOf(q, calls, b, L) = n
      BY <1>1 DEF EndOf, L, n
    <3> QED BY <1>1, <3>1
  <2>2. /\ b[L] \in 0..Len(r) /\ n \in 0..Len(r) /\ n + 1 \in 0..Len(r) /\ n <= n + 1
        /\ \A k \in n + 1..n + 1 : k = n + 1
        /\ n + 1 \in n + 1..n + 1
    BY <1>2, <2>1
  <2>3. \A k \in n + 1..n + 1 : Depth(r, k) >= Depth(r, b[L])
    BY <1>1, <1>4, <2>1, <2>2
  <2>4. \A op \in Operators : op \in x.ops <=> op \in calls[L].ops \/ Has(r, n + 1, n + 1, op)
    BY <1>4 DEF L
  <2>5. \/ x.nodes = calls[L].nodes /\ Operands(r, n + 1, n + 1) = {}
        \/ \E c \in n + 1..n + 1, node \in Nodes :
              /\ x.nodes = Append(calls[L].nodes, node) /\ Operands(r, n + 1, n + 1) = {c}
              /\ ~BareNotWithOr(r) => Denotes(r, c, node)
    BY <1>4, <1>6, <1>8, <2>2
  <2> QED BY <1>2, <1>4, <1>7, <2>1, <2>2, <2>3, <2>4, <2>5, LevelGrows
<1>10. ASSUME NEW d \in 1..L
       PROVE  Depth(r, b[d]) = d - 1 /\ LevelInv(r, b[d], EndOf(r, more, b, d), more[d])
  <2>1. CASE d = L
    BY <1>1, <1>2, <1>3, <1>9, <2>1 DEF EndOf
  <2>2. CASE d # L
    <3>1. d \in 1..(L - 1)
      BY <1>1, <2>2
    <3>2. EndOf(r, more, b, d) = EndOf(q, calls, b, d)
      BY <1>3, <2>2 DEF EndOf, L
    <3> QED BY <1>1, <1>3, <3>1, <3>2
  <2> QED BY <2>1, <2>2
<1>11. ASSUME NEW d \in 1..L, d > 1
       PROVE  b[d] >= 1 /\ r[b[d]] = "(" /\ (more[d].caller = "NOT" <=> Negated(r, b[d]))
  <2>1. more[d].caller = calls[d].caller
    <3>1. d = L \/ d \in 1..(L - 1)
      BY <1>1
    <3> QED BY <1>3, <3>1 DEF L
  <2> QED BY <1>1, <1>11, <2>1
<1>12. DOMAIN more = 1..L
  BY <1>3
<1>13. b \in [DOMAIN more -> 0..Len(r)]
  <2>1. \A k \in 0..n : k \in 0..Len(r)
    BY <1>2
  <2> QED BY <1>1, <1>5, <1>12, <2>1
<1>14. Nested(r, more, b)
  BY <1>5, <1>10, <1>11, <1>12, <1>13 DEF Nested
<1> QED BY <1>14 DEF r, more, L

LEMMA NewLevel ==
    ASSUME NEW q, NEW e \in Nat, Depth(q, e) \in Int, NEW caller
    PROVE  LevelInv(q, e, e, Level(caller))
<1>1. e + 1..e = {} /\ e..e = {e} /\ e <= e
  OBVIOUS
<1>2. \A op \in Operators : op \in Level(caller).ops <=> Has(q, e + 1, e, op)
  BY <1>1 DEF Level, Has
<1>3. NodesInv(q, e, e, Level(caller).nodes)
  <2>1. Level(caller).nodes = << >> /\ DOMAIN << >> = {}
    BY DEF Level
  <2>2. Operands(q, e + 1, e) = {}
    BY <1>1 DEF Operands
  <2>3. [m \in {} |-> 1] \in [{} -> 1..e]
    OBVIOUS
  <2> QED BY <2>1, <2>2, <2>3 DEF NodesInv
<1> QED BY <1>1, <1>2, <1>3 DEF LevelInv

LEMMA NestedOpens ==
    ASSUME NEW q \in Seq(Tokens), "(" \in Tokens, NEW L, NEW calls \in Seq(L), calls # << >>,
           NEW b, Nested(q, calls, b),
           NEW caller, Level(caller) \in L, caller = "NOT" <=> Negated(Append(q, "("), Len(q) + 1)
    PROVE  \E c : Nested(Append(q, "("), Append(calls, Level(caller)), c)
<1> DEFINE r == Append(q, "(")
           n == Len(q)
           N == Len(calls)
           more == Append(calls, Level(caller))
           c == [d \in 1..N + 1 |-> IF d = N + 1 THEN n + 1 ELSE b[d]]
<1>1. /\ N \in Nat /\ N >= 1 /\ DOMAIN calls = 1..N
      /\ \A d \in DOMAIN calls :
            /\ b[d] \in 0..n /\ EndOf(q, calls, b, d) \in 0..n
            /\ b[d] <= EndOf(q, calls, b, d) /\ Depth(r, b[d]) = d - 1
            /\ LevelInv(r, b[d], EndOf(q, calls, b, d), calls[d])
      /\ \A d \in DOMAIN calls : d > 1 =>
            b[d] >= 1 /\ r[b[d]] = "(" /\ (calls[d].caller = "NOT" <=> Negated(r, b[d]))
      /\ Depth(q, n) = N - 1 /\ Depth(r, n) = N - 1
  BY NestedFacts
<1>2. /\ r \in Seq(Tokens) /\ Len(r) = n + 1 /\ n \in Nat /\ r[n + 1] = "("
  BY AppendFacts
<1>3. /\ Len(more) = N + 1 /\ DOMAIN more = 1..N + 1 /\ more[N + 1] = Level(caller)
      /\ \A d \in 1..N : more[d] = calls[d]
  OBVIOUS
<1>4. Depth(r, n + 1) = N
  <2>1. Depth(r, n + 1) = Depth(q, n) + Up("(")
    BY LastToken
  <2> HIDE DEF r, n, N
  <2> QED BY <1>1, <2>1, UpFacts
<1>5. b[1] = 0
  BY DEF Nested
<1>6. caller = "NOT" <=> Negated(r, n + 1)
  OBVIOUS
<1>7. /\ N + 1 \in 1..N + 1 /\ \A d \in 1..N : d \in 1..N + 1 /\ d # N + 1
      /\ \A d \in 1..N + 1 : d = N + 1 \/ d \in 1..N
  BY <1>1
<1>8. c[N + 1] = n + 1 /\ \A d \in 1..N : c[d] = b[d]
  BY <1>7
<1>9. c \in [1..N + 1 -> 0..Len(r)]
  <2>1. n + 1 \in 0..Len(r) /\ \A k \in 0..n : k \in 0..Len(r)
    BY <1>2
  <2> QED BY <1>1, <1>7, <2>1
<1> HIDE DEF r, n, N, more, c
<1>10. ASSUME NEW d \in 1..N + 1
       PROVE  Depth(r, c[d]) = d - 1 /\ LevelInv(r, c[d], EndOf(r, more, c, d), more[d])
  <2>1. CASE d = N + 1
    <3>1. EndOf(r, more, c, d) = n + 1 /\ c[d] = n + 1 /\ more[d] = Level(caller)
      BY <1>2, <1>3, <1>8, <2>1 DEF EndOf
    <3>2. n + 1 \in Nat /\ Depth(r, n + 1) \in Int /\ d - 1 = N
      BY <1>1, <1>2, <1>4, <2>1
    <3>3. LevelInv(r, n + 1, n + 1, Level(caller))
      BY <3>2, NewLevel
    <3> QED BY <1>4, <3>1, <3>2, <3>3
  <2>2. CASE d # N + 1
    <3>1. d \in 1..N /\ c[d] = b[d] /\ more[d] = calls[d]
      BY <1>3, <1>7, <1>8, <2>2
    <3>2. EndOf(r, more, c, d) = EndOf(q, calls, b, d)
      <4>1. CASE d = N
        BY <1>2, <1>3, <1>8, <2>2, <4>1 DEF EndOf, N, n
      <4>2. CASE d # N
        <5>1. d + 1 \in 1..N
          BY <1>1, <3>1, <4>2
        <5> QED BY <1>3, <1>8, <2>2, <4>2, <5>1 DEF EndOf, N
      <4> QED BY <4>1, <4>2
    <3> QED BY <1>1, <3>1, <3>2
  <2> QED BY <2>1, <2>2
<1>11. ASSUME NEW d \in 1..N + 1, d > 1
       PROVE  c[d] >= 1 /\ r[c[d]] = "(" /\ (more[d].caller = "NOT" <=> Negated(r, c[d]))
  <2>1. CASE d = N + 1
    <3>1. Level(caller).caller = caller /\ n + 1 >= 1
      BY <1>2 DEF Level
    <3> QED BY <1>2, <1>3, <1>6, <1>8, <2>1, <3>1
  <2>2. CASE d # N + 1
    BY <1>1, <1>3, <1>7, <1>8, <1>11, <2>2
  <2> QED BY <2>1, <2>2
<1>12. c[1] = 0
  BY <1>1, <1>5, <1>8
<1>13. Nested(r, more, c)
  BY <1>3, <1>9, <1>10, <1>11, <1>12 DEF Nested
<1> QED BY <1>13 DEF r, more

(* What is in parentheses is one operand of the call around it.             *)
LEMMA ClosedDenotes ==
    ASSUME NEW q \in Seq(Tokens), NEW s \in 1..Len(q), NEW n \in s..Len(q), n + 1 = Len(q),
           q[s] = "(", \A k \in s..n : Depth(q, k) > Depth(q, s - 1),
           NEW C, NEW level \in LevelsOf(Nodes, C), LevelInv(q, s, n, level),
           ~BareNotWithOr(q), ~Mixed(level), level.caller = "NOT" <=> Negated(q, s)
    PROVE  Denotes(q, s, IF level.caller = "NOT" THEN NotNode(Combined(level))
                         ELSE Combined(level))
<1> DEFINE node == IF level.caller = "NOT" THEN NotNode(Combined(level)) ELSE Combined(level)
<1> SUFFICES ASSUME NEW f \in s..Len(q), NEW y \in Phrases(q, Readings(q), s, f)
             PROVE  DOMAIN node = IF Negated(q, s) THEN Lines \ y ELSE y
  BY DEF Denotes
<1>1. s \in Int /\ f \in Int /\ n \in Int /\ s <= f /\ f \in 1..Len(q) /\ n \in 0..Len(q)
      /\ s \in 0..Len(q) /\ s - 1 \in Nat /\ f \in Nat /\ n + 1 = Len(q) /\ (s + 1) - 1 = s
      /\ s + 1 > 1
  OBVIOUS
<1>2. s < f /\ y \in Readings(q)[<<s + 1, f - 1>>]
  <2>1. "(" \notin Words
    BY UpFacts DEF Symbols
  <2>2. \/ s = f /\ q[s] \in Words
        \/ s < f /\ y \in Readings(q)[<<s + 1, f - 1>>]
    BY <1>1, PhraseCases
  <2> QED BY <2>1, <2>2
<1>3. f = n + 1
  <2>1. Depth(q, f) = Depth(q, s - 1) /\ Depth(q, f) \in Int
    BY <1>1, PhraseShapeHolds, DepthFacts DEF PhraseShape, Shape
  <2>2. f \notin s..n
    BY <2>1
  <2> QED BY <1>1, <2>2
<1>4. ~Negated(q, s + 1)
  BY <1>1 DEF Negated
<1>5. y = DOMAIN Combined(level)
  <2>1. y \in Readings(q)[<<s + 1, n>>]
    BY <1>1, <1>2, <1>3
  <2> QED BY <1>1, <1>4, <2>1, CombinedMeans
<1> QED BY <1>5 DEF NotNode

LEMMA NestedCloses ==
    ASSUME NEW q \in Seq(Tokens), ")" \in Tokens, NEW C, NEW calls \in Seq(LevelsOf(Nodes, C)),
           Len(calls) > 1, NEW b, Nested(q, calls, b), ~Mixed(calls[Len(calls)]),
           NEW node \in Nodes,
           node = IF calls[Len(calls)].caller = "NOT" THEN NotNode(Combined(calls[Len(calls)]))
                  ELSE Combined(calls[Len(calls)]),
           NEW more \in Seq(LevelsOf(Nodes, C)), Len(more) = Len(calls) - 1,
           \A d \in 1..Len(calls) - 2 : more[d] = calls[d],
           more[Len(calls) - 1] = Added(calls[Len(calls) - 1], node)
    PROVE  \E c : Nested(Append(q, ")"), more, c)
<1> DEFINE r == Append(q, ")")
           n == Len(q)
           N == Len(calls)
           x == more[N - 1]
           inner == calls[N]
           c == [d \in 1..N - 1 |-> b[d]]
<1>0. calls # << >>
  OBVIOUS
<1>1. /\ N \in Nat /\ DOMAIN calls = 1..N
      /\ \A d \in DOMAIN calls :
            /\ b[d] \in 0..n /\ EndOf(q, calls, b, d) \in 0..n
            /\ b[d] <= EndOf(q, calls, b, d) /\ Depth(r, b[d]) = d - 1
            /\ LevelInv(r, b[d], EndOf(q, calls, b, d), calls[d])
      /\ \A d \in DOMAIN calls : d > 1 =>
            b[d] >= 1 /\ r[b[d]] = "(" /\ (calls[d].caller = "NOT" <=> Negated(r, b[d]))
      /\ Depth(q, n) = N - 1 /\ Depth(r, n) = N - 1
  BY <1>0, NestedFacts
<1>2. /\ r \in Seq(Tokens) /\ Len(r) = n + 1 /\ n \in Nat /\ r[n + 1] = ")"
  BY AppendFacts
<1>3. /\ N - 1 \in 1..N /\ N \in 1..N /\ N > 1 /\ (N - 1) + 1 = N /\ N - 1 # N
      /\ N \in Int /\ \A d \in 1..N - 1 : d \in 1..N /\ (d = N - 1 \/ d \in 1..N - 2)
  BY <1>1
<1>4. Depth(r, n + 1) = N - 2
  <2>1. Depth(r, n + 1) = Depth(q, n) + Up(")")
    BY LastToken
  <2> HIDE DEF r, n, N
  <2> QED BY <1>1, <1>3, <2>1, UpFacts
<1>5. b[1] = 0
  BY DEF Nested
<1>6. /\ calls[N - 1] \in LevelsOf(Nodes, C) /\ inner \in LevelsOf(Nodes, C)
  BY <1>1, <1>3
<1>7. /\ x.nodes = Append(calls[N - 1].nodes, node) /\ x.ops = calls[N - 1].ops
      /\ x.caller = calls[N - 1].caller /\ calls[N - 1].nodes \in Seq(Nodes)
  BY <1>6 DEF Added, LevelsOf
<1>8. /\ DOMAIN more = 1..N - 1 /\ \A d \in 1..N - 2 : more[d] = calls[d]
      /\ Len(more) = N - 1
  BY <1>1
<1>9. ~Mixed(inner) /\ node = IF inner.caller = "NOT" THEN NotNode(Combined(inner))
                              ELSE Combined(inner)
  OBVIOUS
<1> DEFINE s == b[N]
<1>10. /\ s \in 1..n /\ s - 1 \in Nat /\ b[N - 1] \in 0..n /\ EndOf(q, calls, b, N) = n
       /\ EndOf(q, calls, b, N - 1) = s - 1 /\ s - 1 \in 0..n /\ b[N - 1] <= s - 1
  <2>1. EndOf(q, calls, b, N) = n /\ EndOf(q, calls, b, N - 1) = s - 1
    BY <1>3 DEF EndOf
  <2> HIDE DEF n, N, r
  <2> QED BY <1>1, <1>3, <2>1
<1> HIDE DEF r, n, N, x, inner, c, s
<1>11. /\ LevelInv(r, b[N - 1], s - 1, calls[N - 1]) /\ LevelInv(r, s, n, inner)
       /\ Depth(r, b[N - 1]) = N - 2 /\ Depth(r, s) = N - 1 /\ r[s] = "("
       /\ inner.caller = "NOT" <=> Negated(r, s)
  BY <1>1, <1>3, <1>10 DEF s, inner
<1>12. /\ Depth(r, s - 1) = N - 2 /\ \A k \in s..n : Depth(r, k) >= N - 1 /\ Depth(r, k) \in Int
  <2>1. \A k \in s..n : k \in Nat
    BY <1>10
  <2> QED BY <1>11, <2>1, DepthFacts DEF LevelInv
<1>13. ASSUME ~BareNotWithOr(r) PROVE Denotes(r, s, node)
  <2>1. /\ s \in 1..Len(r) /\ n \in s..Len(r) /\ n + 1 = Len(r)
    BY <1>2, <1>10
  <2>2. \A k \in s..n : Depth(r, k) > Depth(r, s - 1)
    BY <1>3, <1>12
  <2>3. Denotes(r, s, IF inner.caller = "NOT" THEN NotNode(Combined(inner)) ELSE Combined(inner))
    BY <1>2, <1>6, <1>9, <1>11, <1>13, <2>1, <2>2, ClosedDenotes
  <2> QED BY <1>9, <2>3
<1>14. \A k \in s..n + 1 : k \in s..n \/ k = n + 1
  BY <1>2, <1>10
<1>15. Operands(r, s, n + 1) = {s}
  <2>1. s \in Operands(r, s, n + 1)
    BY <1>2, <1>10, <1>11 DEF Operands
  <2>2. ASSUME NEW k \in Operands(r, s, n + 1), k # s PROVE FALSE
    <3>1. k \in s..n + 1 /\ Depth(r, k - 1) = N - 2
      BY <1>12 DEF Operands
    <3>2. k - 1 \in s..n
      BY <1>2, <1>10, <2>2, <3>1
    <3> QED BY <1>3, <1>12, <3>1, <3>2
  <2> QED BY <2>1, <2>2
<1>16. \A op \in Operators : ~Has(r, s, n + 1, op)
  <2> SUFFICES ASSUME NEW op \in Operators, NEW k \in s..n + 1, r[k] = op,
                      Depth(r, k) = N - 2
               PROVE  FALSE
    BY <1>12 DEF Has
  <2>1. k = n + 1
    BY <1>3, <1>12, <1>14
  <2> QED BY <1>2, <2>1 DEF Operators
<1>17. LevelInv(r, b[N - 1], n + 1, x)
  <2>1. /\ b[N - 1] \in 0..Len(r) /\ s - 1 \in 0..Len(r) /\ n + 1 \in 0..Len(r)
        /\ s - 1 <= n + 1 /\ (s - 1) + 1 = s /\ s \in s..n + 1
    BY <1>2, <1>10
  <2>2. \A k \in s..n + 1 : Depth(r, k) >= Depth(r, b[N - 1])
    BY <1>3, <1>4, <1>11, <1>12, <1>14
  <2>3. \A op \in Operators : op \in x.ops <=> op \in calls[N - 1].ops \/ Has(r, s, n + 1, op)
    BY <1>7, <1>16
  <2>4. \E d \in s..n + 1, m \in Nodes :
           /\ x.nodes = Append(calls[N - 1].nodes, m) /\ Operands(r, s, n + 1) = {d}
           /\ ~BareNotWithOr(r) => Denotes(r, d, m)
    BY <1>7, <1>13, <1>15, <2>1
  <2> QED BY <1>2, <1>4, <1>7, <1>11, <2>1, <2>2, <2>3, <2>4, LevelGrows
<1>18. \A d \in 1..N - 1 : c[d] = b[d]
  BY DEF c
<1>19. ASSUME NEW d \in 1..N - 1
       PROVE  Depth(r, c[d]) = d - 1 /\ LevelInv(r, c[d], EndOf(r, more, c, d), more[d])
  <2>1. CASE d = N - 1
    <3>1. EndOf(r, more, c, d) = n + 1 /\ more[d] = x /\ c[d] = b[N - 1]
      BY <1>2, <1>8, <1>18, <2>1 DEF EndOf, x
    <3> QED BY <1>1, <1>3, <1>17, <1>18, <2>1, <3>1
  <2>2. CASE d # N - 1
    <3>1. d \in 1..N - 2 /\ d \in 1..N /\ d + 1 \in 1..N - 1 /\ d # N
      BY <1>3, <2>2
    <3>2. EndOf(r, more, c, d) = EndOf(q, calls, b, d)
      BY <1>8, <1>18, <2>2, <3>1 DEF EndOf, N
    <3> QED BY <1>1, <1>8, <1>18, <3>1, <3>2
  <2> QED BY <2>1, <2>2
<1>20. ASSUME NEW d \in 1..N - 1, d > 1
       PROVE  c[d] >= 1 /\ r[c[d]] = "(" /\ (more[d].caller = "NOT" <=> Negated(r, c[d]))
  <2>1. more[d].caller = calls[d].caller
    BY <1>3, <1>7, <1>8 DEF x
  <2> QED BY <1>1, <1>3, <1>18, <1>20, <2>1
<1>21. c \in [1..N - 1 -> 0..Len(r)] /\ c[1] = 0
  <2>1. \A k \in 0..n : k \in 0..Len(r)
    BY <1>2
  <2> QED BY <1>1, <1>3, <1>5, <2>1 DEF c
<1>22. Nested(r, more, c)
  BY <1>8, <1>19, <1>20, <1>21 DEF Nested
<1> QED BY <1>22 DEF r

-----------------------------------------------------------------------------
(* What the parser rejects has no meaning, or operators that differ.        *)

LEMMA NotFitting ==
    ASSUME NEW q \in Seq(Tokens), NEW t \in Tokens, q # << >>,
           \/ q[Len(q)] \in Words /\ t \in Words
           \/ q[Len(q)] = "NOT" /\ t \notin Words \cup {"("}
    PROVE  Unreadable(Append(q, t))
<1> DEFINE r == Append(q, t)
           n == Len(q)
<1>1. Len(r) = n + 1 /\ n \in Nat /\ r[n + 1] = t /\ \A k \in 1..n : r[k] = q[k]
  BY AppendFacts
<1>2. n >= 1
  BY EmptySeq
<1>3. \/ q[n] \in Words /\ t \in Words
      \/ q[n] = "NOT" /\ t \notin Words \cup {"("}
  OBVIOUS
<1> HIDE DEF r, n
<1>4. n \in 1..n /\ n \in 1..Len(r) - 1
  BY <1>1, <1>2
<1>5. ~Fits(r, n)
  BY <1>1, <1>3, <1>4 DEF Fits
<1>6. Unreadable(r)
  BY <1>4, <1>5 DEF Unreadable
<1> QED BY <1>6 DEF r

LEMMA MixedIsMixed ==
    ASSUME NEW q \in Seq(Tokens), NEW b \in 0..Len(q), NEW e \in 0..Len(q),
           NEW level, LevelInv(q, b, e, level), Mixed(level)
    PROVE  MixedAtALevel(q)
<1>1. (b + 1) - 1 = b
  OBVIOUS
<1>2. Has(q, b + 1, e, "AND") /\ Has(q, b + 1, e, "OR")
  BY DEF LevelInv, Mixed, Operators
<1>3. PICK i \in b + 1..e : q[i] = "AND" /\ Depth(q, i) = Depth(q, b)
  BY <1>1, <1>2 DEF Has
<1>4. PICK j \in b + 1..e : q[j] = "OR" /\ Depth(q, j) = Depth(q, b)
  BY <1>1, <1>2 DEF Has
<1>5. SameLevel(q, i, j) /\ SameLevel(q, j, i) /\ i \in DOMAIN q /\ j \in DOMAIN q
  BY <1>3, <1>4, SameLevelWithin DEF LevelInv
<1>6. {q[i], q[j]} = Operators /\ {q[j], q[i]} = Operators
  BY <1>3, <1>4 DEF Operators
<1>7. i < j \/ j < i
  <2>1. i # j
    BY <1>3, <1>4
  <2> QED BY <2>1
<1> QED BY <1>5, <1>6, <1>7 DEF MixedAtALevel

LEMMA UnreadableMeans ==
    ASSUME NEW q \in Seq(Tokens), Readings(q)[<<1, Len(q)>>] # {}
    PROVE  /\ Unreadable(q) => MixedAtALevel(q)
           /\ q # << >> /\ q[Len(q)] # "NOT" /\ Depth(q, Len(q)) = 0
<1> DEFINE n == Len(q)
<1>1. n \in Nat /\ 1 \in 1..n + 1 /\ n \in 0..n
  OBVIOUS
<1>2. n >= 1
  BY <1>1, ReadingIs
<1>3. Shape(q, 1, n)
  <2>1. 1 \in 1..n /\ n \in 1..n /\ 1 <= n
    BY <1>1, <1>2
  <2> QED BY <2>1, ShapeHolds
<1>4. Depth(q, 1 - 1) = 0
  BY DepthFacts
<1>5. /\ \A k \in 1..n - 1 : Fits(q, k)
      /\ \A k \in 1..n : Depth(q, k) >= 0 /\ Depth(q, k) \in Int
      /\ Depth(q, n) = 0 /\ q[n] \in Words \cup {")"}
  <2>1. \A k \in 1..n : k \in Nat
    OBVIOUS
  <2> QED BY <1>3, <1>4, <2>1, DepthFacts DEF Shape
<1>6. q[n] # "NOT"
  BY <1>5, UpFacts DEF Symbols
<1>7. Unreadable(q) => MixedAtALevel(q)
  BY <1>5 DEF Unreadable
<1>8. q # << >>
  BY <1>2
<1> QED BY <1>5, <1>6, <1>7, <1>8

-----------------------------------------------------------------------------
(* The actions.                                                             *)

LEMMA TokenFacts ==
    /\ {"NOT", "(", ")"} \subseteq Tokens /\ Operators \subseteq Tokens /\ Words \subseteq Tokens
    /\ {"NOT", "(", ")"} \cap Words = {} /\ Operators \cap Words = {}
    /\ Operators \cap {"NOT", "(", ")"} = {}
BY UpFacts DEF Tokens, Symbols, Operators

LEMMA ParserFacts ==
    ASSUME TypeOK
    PROVE  /\ read \in Seq(Tokens) /\ levels \in Seq(LevelsOf(Nodes, Callers)) /\ levels # << >>
           /\ Len(levels) \in Nat /\ Len(levels) >= 1
           /\ Innermost \in LevelsOf(Nodes, Callers) /\ Innermost = levels[Len(levels)]
           /\ \A t : Negated(Append(read, t), Len(read) + 1) <=> AfterNot
<1>1. /\ read \in Seq(Tokens) /\ levels \in Seq(LevelsOf(Nodes, Callers)) /\ levels # << >>
  BY DEF TypeOK, Tokens
<1>2. Len(levels) \in Nat /\ Len(levels) >= 1
  BY <1>1, EmptySeq
<1>3. Innermost \in LevelsOf(Nodes, Callers) /\ Innermost = levels[Len(levels)]
  BY <1>1, <1>2 DEF Innermost
<1>4. ASSUME NEW t PROVE Negated(Append(read, t), Len(read) + 1) <=> AfterNot
  <2> DEFINE n == Len(read)
  <2>1. n \in Nat /\ (n + 1) - 1 = n /\ (read # << >> <=> n + 1 > 1)
    BY <1>1, EmptySeq
  <2>2. read # << >> => Append(read, t)[n] = read[n]
    <3> SUFFICES ASSUME read # << >> PROVE Append(read, t)[n] = read[n]
      OBVIOUS
    <3>1. n \in 1..n
      BY <2>1
    <3> QED BY <1>1, <3>1
  <2> HIDE DEF n
  <2>3. Negated(Append(read, t), n + 1) <=> read # << >> /\ Append(read, t)[n] = "NOT"
    BY <2>1 DEF Negated
  <2>4. AfterNot <=> read # << >> /\ read[n] = "NOT"
    BY DEF AfterNot, n
  <2> QED BY <2>2, <2>3, <2>4 DEF n
<1> QED BY <1>1, <1>2, <1>3, <1>4

LEMMA WordDenotes ==
    ASSUME NEW q \in Seq(Tokens), NEW k \in 1..Len(q), k = Len(q), q[k] \in Words
    PROVE  Denotes(q, k, IF Negated(q, k) THEN NotNode(WordNode(q[k])) ELSE WordNode(q[k]))
<1> SUFFICES ASSUME NEW f \in k..Len(q), NEW x \in Phrases(q, Readings(q), k, f)
             PROVE  DOMAIN (IF Negated(q, k) THEN NotNode(WordNode(q[k])) ELSE WordNode(q[k]))
                      = IF Negated(q, k) THEN Lines \ x ELSE x
  BY DEF Denotes
<1>1. k \in Int /\ f = k /\ k <= k
  OBVIOUS
<1>2. x = {l \in Lines : q[k] \in l}
  <2>1. Phrases(q, Readings(q), k, k) = {{l \in Lines : w \in l} : w \in Words \cap {q[k]}}
    BY DEF Phrases
  <2> QED BY <1>1, <2>1
<1>3. DOMAIN WordNode(q[k]) = x
  BY <1>2 DEF WordNode
<1> QED BY <1>3 DEF NotNode

LEMMA NestedNext ==
    ASSUME TypeOK, NEW b, Nested(read, levels, b),
           \/ \E w \in Words : ReadWord(w)
           \/ \E op \in Operators : ReadOperator(op)
           \/ ReadNot \/ ReadOpen \/ ReadClose
    PROVE  \/ state' = "failed" /\ Unreadable(read')
           \/ state' = "reading" /\ \E c : Nested(read', levels', c)
<1>1. /\ read \in Seq(Tokens) /\ levels \in Seq(LevelsOf(Nodes, Callers)) /\ levels # << >>
      /\ Len(levels) \in Nat /\ Len(levels) >= 1
      /\ Innermost \in LevelsOf(Nodes, Callers) /\ Innermost = levels[Len(levels)]
      /\ \A t : Negated(Append(read, t), Len(read) + 1) <=> AfterNot
  BY ParserFacts
<1>2. Innermost.nodes \in Seq(Nodes) /\ Innermost.ops \in SUBSET Operators
  BY <1>1 DEF LevelsOf
<1>3. ASSUME AfterNot, NEW t \in Tokens, t \notin Words \cup {"("}
      PROVE  Unreadable(Append(read, t))
  BY <1>1, <1>3, NotFitting DEF AfterNot
<1>4. ASSUME NEW w \in Words, ReadWord(w)
      PROVE  \/ state' = "failed" /\ Unreadable(read')
             \/ state' = "reading" /\ \E c : Nested(read', levels', c)
  <2> DEFINE node == IF AfterNot THEN NotNode(WordNode(w)) ELSE WordNode(w)
             x == Added(Innermost, node)
             r == Append(read, w)
  <2>1. read' = r /\ w \in Tokens /\ state = "reading"
    BY <1>4, TokenFacts DEF ReadWord, Read
  <2>2. CASE AfterWord /\ Fail
    <3>1. Unreadable(r)
      BY <1>1, <2>1, <2>2, NotFitting DEF AfterWord
    <3> QED BY <2>1, <2>2, <3>1 DEF Fail
  <2>3. CASE ~(AfterWord /\ Fail)
    <3>1. levels' = Append(Outer, x) /\ state' = "reading"
      BY <1>4, <2>1, <2>3 DEF ReadWord
    <3>2. node \in Nodes
      BY WordNodeIsNode, NotNodeIsNode
    <3>3. x \in LevelsOf(Nodes, Callers) /\ x.caller = Innermost.caller
      BY <1>1, <3>2, AddedStays
    <3>4. x.nodes = Append(Innermost.nodes, node) /\ x.ops = Innermost.ops
      BY <1>1 DEF Added, LevelsOf
    <3>5. Denotes(r, Len(read) + 1, node)
      <4>1. /\ r \in Seq(Tokens) /\ Len(r) = Len(read) + 1 /\ Len(read) \in Nat
            /\ r[Len(read) + 1] = w /\ Len(read) + 1 \in 1..Len(r)
        BY <1>1, <2>1, AppendFacts
      <4>2. Negated(r, Len(read) + 1) <=> AfterNot
        BY <1>1
      <4> QED BY <4>1, <4>2, WordDenotes
    <3> HIDE DEF node, x
    <3>6. \A op \in Operators : op \in x.ops <=> op \in Innermost.ops \/ w = op
      BY <3>4, TokenFacts
    <3>7. Nested(r, Append(SubSeq(levels, 1, Len(levels) - 1), x), b)
      BY <1>1, <2>1, <3>2, <3>3, <3>4, <3>5, <3>6, UpFacts, NestedGrows
    <3> QED BY <2>1, <3>1, <3>7 DEF Outer
  <2> QED BY <2>2, <2>3
<1>5. ASSUME NEW op \in Operators, ReadOperator(op)
      PROVE  \/ state' = "failed" /\ Unreadable(read')
             \/ state' = "reading" /\ \E c : Nested(read', levels', c)
  <2> DEFINE x == [Innermost EXCEPT !.ops = @ \cup {op}]
             r == Append(read, op)
  <2>1. read' = r /\ op \in Tokens /\ op \notin Words \cup {"("} /\ state = "reading"
    BY <1>5, TokenFacts DEF ReadOperator, Read
  <2>2. CASE AfterNot /\ Fail
    BY <1>3, <2>1, <2>2 DEF Fail
  <2>3. CASE ~(AfterNot /\ Fail)
    <3>1. levels' = Append(Outer, x) /\ state' = "reading"
      BY <1>5, <2>1, <2>3 DEF ReadOperator
    <3>2. x \in LevelsOf(Nodes, Callers) /\ x.caller = Innermost.caller
      BY <1>1, OperatorStays
    <3>3. x.nodes = Innermost.nodes /\ x.ops = Innermost.ops \cup {op}
      BY <1>1 DEF LevelsOf
    <3> HIDE DEF x
    <3>4. Nested(r, Append(SubSeq(levels, 1, Len(levels) - 1), x), b)
      BY <1>1, <2>1, <3>2, <3>3, UpFacts, NestedGrows
    <3> QED BY <2>1, <3>1, <3>4 DEF Outer
  <2> QED BY <2>2, <2>3
<1>6. ASSUME ReadNot
      PROVE  \/ state' = "failed" /\ Unreadable(read')
             \/ state' = "reading" /\ \E c : Nested(read', levels', c)
  <2> DEFINE r == Append(read, "NOT")
  <2>1. /\ read' = r /\ "NOT" \in Tokens /\ "NOT" \notin Words \cup {"("}
        /\ "NOT" \notin Operators /\ state = "reading"
    BY <1>6, TokenFacts DEF ReadNot, Read
  <2>2. CASE AfterNot /\ Fail
    BY <1>3, <2>1, <2>2 DEF Fail
  <2>3. CASE ~(AfterNot /\ Fail)
    <3>1. levels' = levels /\ state' = "reading"
      BY <1>6, <2>1, <2>3 DEF ReadNot
    <3>2. Append(SubSeq(levels, 1, Len(levels) - 1), Innermost) = levels
      <4> DEFINE s == Append(SubSeq(levels, 1, Len(levels) - 1), Innermost)
      <4>1. /\ s \in Seq(LevelsOf(Nodes, Callers)) /\ Len(s) = Len(levels)
            /\ s[Len(levels)] = Innermost /\ \A i \in 1..(Len(levels) - 1) : s[i] = levels[i]
        BY <1>1, LastReplaced
      <4> HIDE DEF s
      <4>2. \A i \in 1..Len(levels) : s[i] = levels[i]
        <5>1. \A i \in 1..Len(levels) : i = Len(levels) \/ i \in 1..(Len(levels) - 1)
          BY <1>1
        <5> QED BY <1>1, <4>1, <5>1
      <4>3. s = levels
        BY <1>1, <4>1, <4>2, SeqEqual
      <4> QED BY <4>3 DEF s
    <3>3. Nested(r, Append(SubSeq(levels, 1, Len(levels) - 1), Innermost), b)
      BY <1>1, <2>1, UpFacts, NestedGrows
    <3> QED BY <2>1, <3>1, <3>2, <3>3
  <2> QED BY <2>2, <2>3
<1>7. ASSUME ReadOpen
      PROVE  state' = "reading" /\ \E c : Nested(read', levels', c)
  <2> DEFINE caller == IF AfterNot THEN "NOT" ELSE "("
             r == Append(read, "(")
  <2>1. /\ read' = r /\ "(" \in Tokens /\ state' = "reading"
        /\ levels' = Append(levels, Level(caller))
    BY <1>7, TokenFacts DEF ReadOpen, Read
  <2>2. Level(caller) \in LevelsOf(Nodes, Callers)
    BY LevelStays DEF Callers
  <2>3. caller = "NOT" <=> Negated(r, Len(read) + 1)
    BY <1>1
  <2> HIDE DEF caller
  <2>4. \E c : Nested(r, Append(levels, Level(caller)), c)
    BY <1>1, <2>1, <2>2, <2>3, NestedOpens
  <2> QED BY <2>1, <2>4
<1>8. ASSUME ReadClose
      PROVE  \/ state' = "failed" /\ Unreadable(read')
             \/ state' = "reading" /\ \E c : Nested(read', levels', c)
  <2> DEFINE node == IF Innermost.caller = "NOT" THEN NotNode(Combined(Innermost))
                     ELSE Combined(Innermost)
             r == Append(read, ")")
             N == Len(levels)
  <2>1. read' = r /\ ")" \in Tokens /\ ")" \notin Words \cup {"("} /\ state = "reading"
    BY <1>8, TokenFacts DEF ReadClose, Read
  <2>2. CASE (AfterNot \/ Mixed(Innermost) \/ N = 1) /\ Fail
    <3>1. ASSUME Mixed(Innermost) PROVE Unreadable(r)
      <4>1. MixedAtALevel(read)
        <5>1. N \in DOMAIN levels /\ EndOf(read, levels, b, N) = Len(read)
          BY <1>1 DEF EndOf
        <5>2. b[N] \in 0..Len(read) /\ LevelInv(read, b[N], Len(read), Innermost)
          BY <1>1, <5>1 DEF Nested
        <5>3. Len(read) \in 0..Len(read)
          BY <1>1
        <5> QED BY <1>1, <3>1, <5>2, <5>3, MixedIsMixed
      <4> QED BY <1>1, <2>1, <4>1, TokenPropertiesKept DEF Unreadable
    <3>2. ASSUME N = 1 PROVE Unreadable(r)
      <4>1. Depth(read, Len(read)) = 0
        <5>1. Depth(read, Len(read)) = N - 1
          BY <1>1, <2>1, NestedFacts
        <5> HIDE DEF N
        <5> QED BY <3>2, <5>1
      <4>2. Depth(r, Len(read) + 1) = -1
        <5>1. Depth(r, Len(read) + 1) = Depth(read, Len(read)) + Up(")")
          BY <1>1, <2>1, LastToken
        <5> HIDE DEF r
        <5> QED BY <4>1, <5>1, UpFacts
      <4>3. Len(read) + 1 \in 1..Len(r)
        BY <1>1, <2>1, AppendFacts
      <4> QED BY <4>2, <4>3 DEF Unreadable
    <3> QED BY <1>3, <2>1, <2>2, <3>1, <3>2 DEF Fail
  <2>3. CASE ~((AfterNot \/ Mixed(Innermost) \/ N = 1) /\ Fail)
    <3> DEFINE more == Append(SubSeq(Outer, 1, Len(Outer) - 1), Added(Outer[Len(Outer)], node))
    <3>1. ~Mixed(Innermost) /\ N # 1 /\ state' = "reading" /\ levels' = more
      BY <1>8, <2>1, <2>3 DEF ReadClose
    <3>2. node \in Nodes
      <4>1. Combined(Innermost) \in Nodes
        BY <1>1, NodesAreClosed, CombinedStays
      <4> QED BY <4>1, NotNodeIsNode
    <3>3. /\ Outer \in Seq(LevelsOf(Nodes, Callers)) /\ Len(Outer) = N - 1
          /\ \A i \in 1..(N - 1) : Outer[i] = levels[i]
      BY <1>1, FrontFacts DEF Outer
    <3>4. N > 1 /\ N - 1 \in 1..(N - 1) /\ N - 1 # 0 /\ (N - 1) - 1 = N - 2
          /\ \A i \in 1..(N - 2) : i \in 1..(N - 1)
      <4>1. N \in Nat /\ N >= 1 /\ N # 1
        BY <1>1, <3>1
      <4> HIDE DEF N
      <4> QED BY <4>1
    <3>5. Outer # << >> /\ Outer[Len(Outer)] = levels[N - 1]
      BY <3>3, <3>4
    <3>6. Outer[Len(Outer)] \in LevelsOf(Nodes, Callers)
      BY <3>3, <3>4
    <3>7. Added(Outer[Len(Outer)], node) \in LevelsOf(Nodes, Callers)
      BY <3>2, <3>6, AddedStays
    <3>8. /\ more \in Seq(LevelsOf(Nodes, Callers)) /\ Len(more) = Len(Outer)
          /\ more[Len(Outer)] = Added(Outer[Len(Outer)], node)
          /\ \A i \in 1..(Len(Outer) - 1) : more[i] = Outer[i]
      BY <3>3, <3>5, <3>7, LastReplaced
    <3> HIDE DEF more
    <3>9. /\ Len(more) = N - 1 /\ more[N - 1] = Added(levels[N - 1], node)
          /\ \A i \in 1..N - 2 : more[i] = levels[i]
      BY <3>3, <3>4, <3>5, <3>8
    <3>10. \E c : Nested(r, more, c)
      BY <1>1, <2>1, <3>1, <3>2, <3>4, <3>8, <3>9, NestedCloses
    <3> QED BY <2>1, <3>1, <3>10
  <2> QED BY <2>2, <2>3
<1> QED BY <1>4, <1>5, <1>6, <1>7, <1>8

LEMMA EndMeans ==
    ASSUME TypeOK, MeaningInv, End
    PROVE  MeaningInv'
<1> DEFINE n == Len(read)
           N == Len(levels)
<1>1. /\ read \in Seq(Tokens) /\ N \in Nat /\ N >= 1
      /\ Innermost \in LevelsOf(Nodes, Callers) /\ Innermost = levels[N]
      /\ \A t : Negated(Append(read, t), Len(read) + 1) <=> AfterNot
  BY ParserFacts
<1>2. n \in Nat /\ n \in 0..n /\ read' = read
  BY <1>1 DEF End
<1>3. Meanings' = Readings(read)[<<1, n>>]
  BY <1>2 DEF Meanings
<1>4. Readings(read)[<<1, n>>] # {} =>
        /\ Unreadable(read) => MixedAtALevel(read)
        /\ ~AfterNot /\ Depth(read, n) = 0
  BY <1>1, UnreadableMeans DEF AfterNot
<1>5. CASE state = "failed"
  <2>1. state' = "rejected" /\ Unreadable(read)
    BY <1>5 DEF End, MeaningInv
  <2>2. MeaningfulIsAccepted'
    BY <1>2, <1>3, <1>4, <2>1 DEF MeaningfulIsAccepted
  <2> QED BY <2>1, <2>2 DEF MeaningInv, AcceptedMeansOneThing
<1>6. CASE state = "reading"
  <2>1. PICK b : Nested(read, levels, b)
    BY <1>6 DEF MeaningInv
  <2>2. /\ b[N] \in 0..n /\ b[1] = 0 /\ LevelInv(read, b[N], n, Innermost)
        /\ Depth(read, b[N]) = N - 1
    <3>1. N \in DOMAIN levels /\ EndOf(read, levels, b, N) = n
      BY <1>1 DEF EndOf
    <3> QED BY <1>1, <2>1, <3>1 DEF Nested
  <2>3. CASE (AfterNot \/ Mixed(Innermost) \/ N > 1) /\ state' = "rejected"
    <3>1. Mixed(Innermost) => MixedAtALevel(read)
      BY <1>1, <1>2, <2>2, MixedIsMixed
    <3>2. N > 1 => Depth(read, n) # 0
      <4>1. Depth(read, n) = N - 1
        BY <2>2 DEF LevelInv
      <4> HIDE DEF N, n
      <4> QED BY <1>1, <4>1
    <3>3. MeaningfulIsAccepted'
      BY <1>2, <1>3, <1>4, <2>3, <3>1, <3>2 DEF MeaningfulIsAccepted
    <3> QED BY <2>3, <3>3 DEF MeaningInv, AcceptedMeansOneThing
  <2>4. CASE ~((AfterNot \/ Mixed(Innermost) \/ N > 1) /\ state' = "rejected")
    <3>1. /\ ~Mixed(Innermost) /\ ~(N > 1) /\ state' = "accepted"
          /\ pattern' = Combined(Innermost)
      BY <1>6, <2>4 DEF End
    <3>2. N = 1
      BY <1>1, <3>1
    <3>3. 0 \in 0..n /\ LevelInv(read, 0, n, Innermost) /\ 0 + 1 = 1 /\ ~Negated(read, 0 + 1)
      BY <1>2, <2>2, <3>2 DEF Negated
    <3>4. ASSUME ~BareNotWithOr(read), NEW x \in Readings(read)[<<1, n>>]
          PROVE  x = DOMAIN Combined(Innermost)
      <4>1. x \in Readings(read)[<<0 + 1, n>>]
        BY <3>3, <3>4
      <4> QED BY <1>1, <1>2, <3>1, <3>3, <3>4, <4>1, CombinedMeans
    <3>5. AcceptedMeansOneThing'
      BY <1>2, <1>3, <3>1, <3>4 DEF AcceptedMeansOneThing
    <3> QED BY <3>1, <3>5 DEF MeaningInv, MeaningfulIsAccepted
  <2> QED BY <2>3, <2>4
<1> QED BY <1>5, <1>6 DEF End

LEMMA MeaningNext == TypeOK /\ MeaningInv /\ [Next]_vars => MeaningInv'
<1> SUFFICES ASSUME TypeOK, MeaningInv, [Next]_vars PROVE MeaningInv'
  OBVIOUS
<1>1. CASE \/ \E w \in Words : ReadWord(w)
           \/ \E op \in Operators : ReadOperator(op)
           \/ ReadNot \/ ReadOpen \/ ReadClose
  <2>1. state = "reading"
    BY <1>1 DEF ReadWord, ReadOperator, ReadNot, ReadOpen, ReadClose, Read
  <2>2. PICK b : Nested(read, levels, b)
    BY <2>1 DEF MeaningInv
  <2>3. \/ state' = "failed" /\ Unreadable(read')
        \/ state' = "reading" /\ \E c : Nested(read', levels', c)
    BY <1>1, <2>2, NestedNext
  <2> QED BY <2>3 DEF MeaningInv, AcceptedMeansOneThing, MeaningfulIsAccepted
<1>2. CASE End
  BY <1>2, EndMeans
<1>3. ASSUME NEW token \in Words \cup Symbols, ReadRest(token) PROVE MeaningInv'
  <2>1. Unreadable(read) /\ state' = "failed" /\ read' = Append(read, token)
    BY <1>3 DEF ReadRest, MeaningInv
  <2>2. Unreadable(read')
    <3>1. read \in Seq(Tokens) /\ token \in Tokens
      BY ParserFacts DEF Tokens
    <3> QED BY <2>1, <3>1, TokenPropertiesKept
  <2> QED BY <2>1, <2>2 DEF MeaningInv, AcceptedMeansOneThing, MeaningfulIsAccepted
<1>4. CASE UNCHANGED vars
  BY <1>4 DEF vars, MeaningInv, AcceptedMeansOneThing, MeaningfulIsAccepted, Meanings
<1> QED BY <1>1, <1>2, <1>3, <1>4 DEF Next

LEMMA MeaningInit == Init => MeaningInv
<1> SUFFICES ASSUME Init PROVE MeaningInv
  OBVIOUS
<1>1. read = << >> /\ levels = <<Level("query")>> /\ state = "reading"
  BY DEF Init
<1>2. Len(read) = 0 /\ DOMAIN levels = {1} /\ Len(levels) = 1 /\ levels[1] = Level("query")
  BY <1>1
<1>3. Depth(read, 0) = 0
  BY DepthFacts
<1> DEFINE b == [d \in {1} |-> 0]
<1>4. b \in [DOMAIN levels -> 0..Len(read)] /\ b[1] = 0
  BY <1>2
<1>5. \A d \in DOMAIN levels :
         Depth(read, b[d]) = d - 1 /\ LevelInv(read, b[d], EndOf(read, levels, b, d), levels[d])
  <2>1. LevelInv(read, 0, 0, Level("query"))
    BY <1>3, NewLevel
  <2> HIDE DEF b
  <2>2. EndOf(read, levels, b, 1) = 0
    BY <1>2 DEF EndOf
  <2> QED BY <1>2, <1>3, <1>4, <2>1, <2>2
<1> HIDE DEF b
<1>6. Nested(read, levels, b)
  BY <1>2, <1>4, <1>5 DEF Nested
<1> QED BY <1>1, <1>6 DEF MeaningInv, AcceptedMeansOneThing, MeaningfulIsAccepted

(* A query that is accepted means one thing and finds what it means: the    *)
(* parser never chooses which operator binds closer, but for a NOT without  *)
(* operator beside an OR.                                                   *)
THEOREM AcceptedMeansOneThingHolds == Spec => []AcceptedMeansOneThing
<1>1. MeaningInv => AcceptedMeansOneThing
  BY DEF MeaningInv
<1>2. Spec => [](TypeOK /\ MeaningInv)
  BY TypeOfInit, TypeOfNext, MeaningInit, MeaningNext, PTL DEF Spec
<1> QED BY <1>1, <1>2, PTL

(* A query that means something is rejected only for operators that differ  *)
(* at a level.                                                              *)
THEOREM MeaningfulIsAcceptedHolds == Spec => []MeaningfulIsAccepted
<1>1. MeaningInv => MeaningfulIsAccepted
  BY DEF MeaningInv
<1>2. Spec => [](TypeOK /\ MeaningInv)
  BY TypeOfInit, TypeOfNext, MeaningInit, MeaningNext, PTL DEF Spec
<1> QED BY <1>1, <1>2, PTL
==============================================================================
