---------------------------- MODULE BooleanQuery ----------------------------
(***************************************************************************)
(* A boolean query: how boolean_searcher::build_pattern parses it, token   *)
(* by token (src/agent/searchers/boolean_searcher.cpp), and what the tree  *)
(* it makes finds and marks in a line (search_line).                       *)
(*                                                                         *)
(* A line is the set of the query's words that are in it.  A node of the   *)
(* tree is what search_line makes of it: a function from the lines it      *)
(* matches to the words it marks in them.                                  *)
(***************************************************************************)
EXTENDS Integers, Sequences, FiniteSets

CONSTANTS
    Words,       \* the words of a query
    MaxTokens    \* bound on the length of a query

Operators == {"AND", "OR"}
Symbols == Operators \cup {"NOT", "(", ")"}

ASSUME QueryAssumption == Words \cap Symbols = {} /\ MaxTokens \in Nat

VARIABLES
    read,      \* the tokens up to pos; after a failure also those behind
    levels,    \* the calls of parse_expr, the innermost last
    state,     \* "reading", "failed", "accepted" or "rejected"
    pattern    \* pattern_, once accepted

vars == <<read, levels, state, pattern>>

Lines == SUBSET Words

(* nodes and ops as in parse_expr; caller: what the call is for.            *)
Callers == {"query", "(", "NOT"}
Level(caller) == [nodes |-> << >>, ops |-> {}, caller |-> caller]

Null == [l \in {} |-> {}]

Nodes == {n \in UNION {[found -> Lines] : found \in SUBSET Lines} :
             \A l \in DOMAIN n : n[l] \subseteq l}

LevelsOf(nodes, callers) == [nodes: Seq(nodes), ops: SUBSET Operators, caller: callers]

(* Only words that are in a line are marked in it.                          *)
TypeOK ==
    /\ read \in Seq(Words \cup Symbols) /\ Len(read) <= MaxTokens
    /\ levels \in Seq(LevelsOf(Nodes, Callers)) /\ levels # << >>
    /\ \A i \in DOMAIN levels : levels[i].caller = "query" <=> i = 1
    /\ state \in {"reading", "failed", "accepted", "rejected"}
    /\ pattern \in Nodes

Init ==
    /\ read = << >> /\ levels = <<Level("query")>>
    /\ state = "reading" /\ pattern = Null

-----------------------------------------------------------------------------
(* The nodes, as search_line evaluates them.                                *)

WordNode(w) == [l \in {x \in Lines : w \in x} |-> {w}]

(* Mistake: the operand's words are marked.                                 *)
NotNodeMarking(n) == [l \in Lines \ DOMAIN n |-> UNION {n[x] : x \in DOMAIN n}]

NotNode(n) == [l \in Lines \ DOMAIN n |-> {}]

AllMatch(nodes) == {l \in Lines : \A i \in DOMAIN nodes : l \in DOMAIN nodes[i]}
AnyMatch(nodes) == {l \in Lines : \E i \in DOMAIN nodes : l \in DOMAIN nodes[i]}
FirstMatch(nodes, l) ==
    CHOOSE i \in DOMAIN nodes :
        l \in DOMAIN nodes[i] /\ \A j \in 1..(i - 1) : l \notin DOMAIN nodes[j]

(* Mistake: each child starts the list of marked words anew.                *)
AndNodeMarkingLast(nodes) == [l \in AllMatch(nodes) |-> nodes[Len(nodes)][l]]

AndNode(nodes) == [l \in AllMatch(nodes) |-> UNION {nodes[i][l] : i \in DOMAIN nodes}]

(* The children after the first that matches are not evaluated.             *)
OrNode(nodes) == [l \in AnyMatch(nodes) |-> nodes[FirstMatch(nodes, l)][l]]

-----------------------------------------------------------------------------
(* The parser.                                                              *)

Innermost == levels[Len(levels)]
Outer == SubSeq(levels, 1, Len(levels) - 1)

(* An exception: what follows is not looked at.                             *)
Fail == state' = "failed" /\ UNCHANGED <<levels, pattern>>

ReadRest(token) ==
    /\ state = "failed" /\ Len(read) < MaxTokens
    /\ read' = Append(read, token)
    /\ UNCHANGED <<levels, state, pattern>>

Read(token) == state = "reading" /\ Len(read) < MaxTokens /\ read' = Append(read, token)

Added(level, node) == [level EXCEPT !.nodes = Append(@, node)]

(* What parse_expr returns.                                                 *)
Combined(level) ==
    CASE level.nodes = << >> -> Null
      [] Len(level.nodes) = 1 -> level.nodes[1]
      [] Len(level.nodes) > 1 /\ level.ops = {"OR"} -> OrNode(level.nodes)
      [] OTHER -> AndNode(level.nodes)

(* Mistake: the operators are not compared.                                 *)
MixedNever(level) == FALSE

(* Operators that differ are an error, but not beside a single node.        *)
Mixed(level) == Len(level.nodes) > 1 /\ level.ops = Operators

(* A word next to a word is an error of the tokenizer; NOT must be followed *)
(* by a word or an expression.                                              *)
AfterWord == read # << >> /\ read[Len(read)] \in Words
AfterNot == read # << >> /\ read[Len(read)] = "NOT"

ReadWord(w) ==
    /\ Read(w)
    /\ \/ AfterWord /\ Fail
       \/ /\ ~AfterWord
          /\ levels' = Append(Outer, Added(Innermost, IF AfterNot THEN NotNode(WordNode(w))
                                                      ELSE WordNode(w)))
          /\ UNCHANGED <<state, pattern>>

ReadNot ==
    /\ Read("NOT")
    /\ \/ AfterNot /\ Fail
       \/ ~AfterNot /\ UNCHANGED <<levels, state, pattern>>

(* Nothing asks for an operand on either side of an operator.               *)
ReadOperator(op) ==
    /\ Read(op)
    /\ \/ AfterNot /\ Fail
       \/ /\ ~AfterNot
          /\ levels' = Append(Outer, [Innermost EXCEPT !.ops = @ \cup {op}])
          /\ UNCHANGED <<state, pattern>>

(* Mistake: only a word may follow NOT.                                     *)
ReadOpenWithoutNot ==
    /\ Read("(")
    /\ \/ AfterNot /\ Fail
       \/ ~AfterNot /\ levels' = Append(levels, Level("(")) /\ UNCHANGED <<state, pattern>>

ReadOpen ==
    /\ Read("(")
    /\ levels' = Append(levels, Level(IF AfterNot THEN "NOT" ELSE "("))
    /\ UNCHANGED <<state, pattern>>

ReadClose ==
    LET bad == AfterNot \/ Mixed(Innermost) \/ Len(levels) = 1
        node == IF Innermost.caller = "NOT" THEN NotNode(Combined(Innermost))
                ELSE Combined(Innermost)
    IN
    /\ Read(")")
    /\ \/ bad /\ Fail
       \/ /\ ~bad
          /\ levels' = Append(SubSeq(Outer, 1, Len(Outer) - 1), Added(Outer[Len(Outer)], node))
          /\ UNCHANGED <<state, pattern>>

(* The end of the query.                                                    *)
End ==
    LET bad == state = "failed" \/ AfterNot \/ Mixed(Innermost) \/ Len(levels) > 1 IN
    /\ state \in {"reading", "failed"}
    /\ \/ bad /\ state' = "rejected" /\ UNCHANGED pattern
       \/ ~bad /\ state' = "accepted" /\ pattern' = Combined(Innermost)
    /\ UNCHANGED <<read, levels>>

Next ==
    \/ \E w \in Words : ReadWord(w)
    \/ \E op \in Operators : ReadOperator(op)
    \/ ReadNot \/ ReadOpen \/ ReadClose \/ End
    \/ \E token \in Words \cup Symbols : ReadRest(token)

Spec == Init /\ [][Next]_vars

-----------------------------------------------------------------------------
(* Properties.                                                              *)

(* What the tokens from i to j may mean, as sets of lines, by the operators *)
(* alone: a phrase is a word or has parentheses, NOT takes the phrase after *)
(* it away, and which operator binds closer is open.  M has the meanings of *)
(* what is shorter.                                                         *)
Phrases(tokens, M, i, j) ==
    IF i = j THEN {{l \in Lines : w \in l} : w \in Words \cap {tokens[i]}}
    ELSE IF tokens[i] = "(" /\ tokens[j] = ")" THEN M[<<i + 1, j - 1>>]
    ELSE {}

Joined(token, x, y) ==
    CASE token = "AND" -> x \cap y
      [] token = "OR" -> x \cup y
      [] token = "NOT" -> x \ y

Wholes(tokens, M, i, j) ==
    LET parts(k) == IF tokens[k] = "NOT" THEN Phrases(tokens, M, k + 1, j) ELSE M[<<k + 1, j>>]
        joints == {k \in i + 1..j - 1 : tokens[k] \in Operators \cup {"NOT"}}
    IN Phrases(tokens, M, i, j)
       \cup {Lines \ x : x \in IF i < j /\ tokens[i] = "NOT" THEN parts(i) ELSE {}}
       \cup UNION {UNION {{Joined(tokens[k], x, y) : y \in parts(k)} : x \in M[<<i, k - 1>>]} :
                      k \in joints}

Readings(tokens) ==
    LET n == Len(tokens)
        M[s \in (1..n + 1) \X (0..n)] ==
            IF s[1] > s[2] THEN {} ELSE Wholes(tokens, M, s[1], s[2])
    IN M

Meanings == Readings(read)[<<1, Len(read)>>]

Depth(tokens, i) == Cardinality({k \in 1..i : tokens[k] = "("})
                        - Cardinality({k \in 1..i : tokens[k] = ")"})

(* Two tokens are of the same call of parse_expr.                           *)
SameLevel(tokens, i, j) ==
    Depth(tokens, i) = Depth(tokens, j) /\ \A k \in i..j : Depth(tokens, i) <= Depth(tokens, k)

MixedAtALevel(tokens) ==
    \E i, j \in DOMAIN tokens :
        i < j /\ SameLevel(tokens, i, j) /\ {tokens[i], tokens[j]} = Operators

(* ... a NOT without operator, after something, where there is an OR.       *)
BareNot(tokens, i) == i > 1 /\ tokens[i] = "NOT" /\ tokens[i - 1] \in Words \cup {")"}

BareNotWithOr(tokens) ==
    \E i, j \in DOMAIN tokens :
        /\ BareNot(tokens, i) /\ tokens[j] = "OR"
        /\ IF i < j THEN SameLevel(tokens, i, j) ELSE SameLevel(tokens, j, i)

(* An accepted query is not ambiguous, and finds what it says: the parser   *)
(* never chooses which operator binds closer.  Only a NOT without operator  *)
(* beside an OR is taken as one more alternative.                           *)
AcceptedMeansOneThing ==
    state = "accepted" /\ ~BareNotWithOr(read) => Meanings \subseteq {DOMAIN pattern}

(* A query that means something is rejected only for operators that differ  *)
(* at a level, which parentheses can tell apart.                            *)
MeaningfulIsAccepted ==
    state = "rejected" /\ Meanings # {} => MixedAtALevel(read)

(* The words marked in a line that is found are in it and are a reason why  *)
(* it is found: without NOT, a line that has no others is found, too.       *)
MarkedWordsSuffice ==
    state = "accepted" /\ (\A i \in DOMAIN read : read[i] # "NOT") =>
        \A l \in DOMAIN pattern : pattern[l] \in DOMAIN pattern
==============================================================================
