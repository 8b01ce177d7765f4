------------------------- MODULE GatewaySearchProofs -------------------------
(***************************************************************************)
(* Proofs about GatewaySearch for any agents, paths, times and changes:    *)
(* its typing, that lists and searches answer all that the agents that     *)
(* stayed have, and nothing else, and that it implements SearchService.    *)
(***************************************************************************)
EXTENDS GatewaySearch, FiniteSetTheorems, WellFoundedInduction, TLAPS

-----------------------------------------------------------------------------
(* Least and greatest elements.                                             *)

NatLess == {ss \in Nat \X Nat : ss[1] < ss[2]}

LEMMA SmallestExists ==
    ASSUME NEW S, S \subseteq Nat, S # {}
    PROVE  \E i \in S : \A j \in S : i <= j
<1>1. IsWellFoundedOn(NatLess, Nat)
  BY NatLessThanWellFounded DEF OpToRel, NatLess
<1>2. PICK x \in S : \A y \in S : ~ (<<y, x>> \in NatLess)
  BY <1>1, WFMin
<1>3. \A y \in S : ~ (y < x)
  BY <1>2 DEF NatLess
<1> QED BY <1>3

LEMMA LargestExists ==
    ASSUME NEW S, NEW n \in Nat, S \subseteq 0..n, S # {}
    PROVE  \E i \in S : \A j \in S : j <= i
<1> DEFINE T == {n - i : i \in S}
<1>1. T \subseteq Nat /\ T # {}
  <2>1. \A i \in S : n - i \in Nat
    OBVIOUS
  <2> QED BY <2>1
<1>2. PICK t \in T : \A u \in T : t <= u
  BY <1>1, SmallestExists
<1>3. PICK i \in S : t = n - i
  OBVIOUS
<1>4. \A j \in S : n - j \in T
  OBVIOUS
<1>5. \A j \in S : j <= i
  BY <1>2, <1>3, <1>4
<1> QED BY <1>5

(* The times of a file lie between its first and its last.                  *)
LEMMA FileTimes ==
    ASSUME NEW S \in SUBSET Times, S # {}
    PROVE  /\ Least(S) \in S /\ Greatest(S) \in S
           /\ \A t \in S : Least(S) <= t /\ t <= Greatest(S)
<1>1. S \subseteq Nat /\ S \subseteq 0..LastTime /\ LastTime \in Nat
  BY GatewayAssumption
<1>2. \E i \in S : \A j \in S : i <= j
  BY <1>1, SmallestExists
<1>3. \E i \in S : \A j \in S : j <= i
  BY <1>1, LargestExists
<1> QED BY <1>2, <1>3 DEF Least, Greatest

LEMMA BucketBounds ==
    ASSUME NEW t \in Nat
    PROVE  BucketOf(t) \in Nat /\ BucketOf(t) <= t
<1>1. t % IntervalSeconds \in 0..IntervalSeconds - 1 /\ t % IntervalSeconds <= t
  BY GatewayAssumption, SMTT(30)
<1> QED BY <1>1, GatewayAssumption DEF BucketOf

(* The entries of an index are around the times of its file that a search   *)
(* is sure to find.                                                         *)
LEMMA EntryTimes ==
    ASSUME NEW file \in Files
    PROVE  /\ FirstEntry(file) \in 0..LastTime /\ LastEntry(file) \in 0..LastTime
           /\ \A t \in file.times :
                 file.closed \/ t < BucketOf(Greatest(file.times)) =>
                     FirstEntry(file) <= t /\ t <= LastEntry(file)
<1>1. file.times \in SUBSET Times /\ LastTime \in Nat /\ Times \subseteq 1..LastTime
  BY GatewayAssumption DEF Files
<1>2. CASE file.times = {}
  BY <1>1, <1>2 DEF FirstEntry, LastEntry
<1>3. CASE file.times # {}
  <2> DEFINE lo == Least(file.times)
             hi == Greatest(file.times)
  <2>1. lo \in 1..LastTime /\ hi \in 1..LastTime
    BY <1>1, <1>3, FileTimes
  <2>2. \A t \in file.times : lo <= t /\ t <= hi /\ t \in Nat
    <3>1. \A t \in file.times : lo <= t /\ t <= hi
      BY <1>1, <1>3, FileTimes
    <3>2. 1..LastTime \subseteq Nat
      OBVIOUS
    <3>3. \A t \in file.times : t \in Nat
      BY <1>1, <3>2, Zenon
    <3> QED BY <3>1, <3>3
  <2>3. /\ BucketOf(lo) \in Nat /\ BucketOf(lo) <= lo
        /\ BucketOf(hi) \in Nat /\ BucketOf(hi) <= hi
    BY <2>1, BucketBounds
  <2>4. /\ FirstEntry(file) = BucketOf(lo)
        /\ LastEntry(file) = IF file.closed THEN hi ELSE BucketOf(hi)
    BY <1>3 DEF FirstEntry, LastEntry
  <2> HIDE DEF lo, hi
  <2>5. FirstEntry(file) \in 0..LastTime /\ LastEntry(file) \in 0..LastTime
    BY <1>1, <2>1, <2>3, <2>4
  <2>6. ASSUME NEW t \in file.times, file.closed \/ t < BucketOf(hi)
        PROVE  FirstEntry(file) <= t /\ t <= LastEntry(file)
    <3>1. lo \in Nat /\ hi \in Nat
      BY <1>1, <2>1
    <3> QED BY <2>2, <2>3, <2>4, <2>6, <3>1
  <2> QED BY <2>5, <2>6 DEF hi
<1> QED BY <1>2, <1>3

(* More lines are still enough.                                             *)
LEMMA TimesAreFinite ==
    ASSUME NEW T \in SUBSET Times
    PROVE  IsFiniteSet(T) /\ Cardinality(T) \in Nat
<1>1. IsFiniteSet(1..LastTime)
  BY GatewayAssumption, FS_Interval
<1>2. T \in SUBSET (1..LastTime)
  BY GatewayAssumption
<1>3. IsFiniteSet(T)
  BY <1>1, <1>2, FS_Subset
<1> QED BY <1>3, FS_CardinalityType

LEMMA EnoughGrows ==
    ASSUME NEW S, NEW T, S \subseteq T, NEW l, Enough(S, l)
    PROVE  Enough(T, l)
<1> DEFINE before(U) == {t \in TimesIn(U, l.agent, l.path) : t < l.time}
<1>1. before(S) \in SUBSET before(T) /\ before(S) \in SUBSET Times /\ before(T) \in SUBSET Times
  BY DEF TimesIn
<1>2. Cardinality(before(S)) >= MaxResults
  BY DEF Enough
<1> HIDE DEF before
<1>3. /\ IsFiniteSet(before(T)) /\ Cardinality(before(T)) \in Nat
      /\ Cardinality(before(S)) \in Nat
  BY <1>1, TimesAreFinite
<1>4. Cardinality(before(S)) <= Cardinality(before(T))
  BY <1>1, <1>3, FS_Subset
<1>5. Cardinality(before(T)) >= MaxResults
  BY <1>2, <1>3, <1>4, GatewayAssumption
<1> QED BY <1>5 DEF before, Enough

(* The next agent is one of those that are left.                            *)
LEMMA NextIsLeft ==
    ASSUME handler.todo \subseteq Agents, handler.todo # {}
    PROVE  NextAgent \in handler.todo
<1>1. handler.todo \subseteq Nat
  BY GatewayAssumption
<1>2. \E a \in handler.todo : \A b \in handler.todo : a <= b
  BY <1>1, SmallestExists
<1> QED BY <1>2 DEF NextAgent

-----------------------------------------------------------------------------
(* The invariant.                                                           *)

(* While a request is served, seen has every line there is.                 *)
SeenInv == handler.pc # "idle" => \A a \in Agents : LinesOf(a) \subseteq seen

(* What is owed is there, with an agent that answers; by a search, where    *)
(* that is sure to look.                                                    *)
Safe(l) ==
    handler.op # "list" => l \in SureLines(l.agent) /\ Reached(l.time, handler.start_time)
DueInv ==
    \A l \in due : /\ l.agent \in up /\ l \in LinesOf(l.agent)
                   /\ InInterval(l.time) /\ Safe(l)

(* The list has the file of a line, for a search with times around it.      *)
Covers(x, l) == /\ x.agent = l.agent /\ x.path = l.path
                /\ handler.op # "list" => x.start_time <= l.time /\ l.time <= x.end_time
Known(l) == \E x \in handler.indexes : Covers(x, l)

(* An answer has a line, or enough before it.                               *)
Answered(l) == l \in handler.records \/ Enough(handler.records, l)

(* Each line that is owed is still to be asked for, or has been answered.   *)
ProgressInv ==
    /\ handler.pc = "idle" => due = {} /\ ~handler.calling
    /\ handler.pc = "searches" => handler.op = "search"
    /\ handler.pc = "lists" => \A l \in due : l.agent \in handler.todo \/ Known(l)
    /\ handler.pc = "searches" =>
          \A l \in due : (l.agent \in handler.todo /\ Known(l)) \/ Answered(l)
    /\ handler.pc = "done" /\ handler.op = "list" => \A l \in due : Known(l)
    /\ handler.pc = "done" /\ handler.op = "search" => \A l \in due : Answered(l)

IInv == TypeOK /\ SeenInv /\ DueInv /\ SearchIsSound /\ ProgressInv

-----------------------------------------------------------------------------
(* The first states.                                                        *)

LEMMA InitInv == Init => IInv
<1> SUFFICES ASSUME Init PROVE IInv
  OBVIOUS
<1>1. files \in [Agents -> [Paths -> Files \cup {NoFile}]]
  <2>1. FirstFiles \subseteq Files \cup {NoFile}
    BY GatewayAssumption
  <2>2. files \in [Agents -> [Paths -> FirstFiles]]
    BY DEF Init
  <2>3. [Paths -> FirstFiles] \subseteq [Paths -> Files \cup {NoFile}]
    BY <2>1
  <2> QED BY <2>2, <2>3
<1>2. TypeOK
  <2>1. Idle \in Handlers
    BY DEF Idle, Handlers
  <2>2. changes \in 0..MaxChanges
    BY GatewayAssumption DEF Init
  <2> QED BY <1>1, <2>1, <2>2 DEF Init, TypeOK, Idle
<1>3. SeenInv /\ DueInv
  BY DEF Init, Idle, SeenInv, DueInv
<1>4. SearchIsSound
  BY DEF Init, Idle, SearchIsSound
<1>5. ProgressInv
  BY DEF Init, Idle, ProgressInv
<1> QED BY <1>2, <1>3, <1>4, <1>5 DEF IInv

-----------------------------------------------------------------------------
(* What happens to the agents: the handler stays as it is.                  *)

(* What such a step must show: its own types, that seen gains the lines     *)
(* that are new, and that due loses those that are not safe any more.       *)
LEMMA EnvironmentStep ==
    ASSUME IInv, UNCHANGED handler, due' \subseteq due, seen \subseteq seen',
           seen' \subseteq Lines,
           changes' \in 0..MaxChanges, up' \subseteq Agents,
           files' \in [Agents -> [Paths -> Files \cup {NoFile}]],
           SeenInv',
           \A l \in due' : l.agent \in up' /\ l \in LinesOf(l.agent)',
           handler.op # "list" => \A l \in due' : l \in SureLines(l.agent)'
    PROVE  IInv'
<1>1. TypeOK'
  BY DEF IInv, TypeOK
<1>2. DueInv'
  <2> SUFFICES ASSUME NEW l \in due'
               PROVE  /\ l.agent \in up' /\ l \in LinesOf(l.agent)'
                      /\ InInterval(l.time)' /\ Safe(l)'
    BY DEF DueInv
  <2>1. handler' = handler
    OBVIOUS
  <2>2. InInterval(l.time) /\ Safe(l)
    BY DEF IInv, DueInv
  <2>3. InInterval(l.time)'
    BY <2>1, <2>2 DEF InInterval
  <2>4. Safe(l)'
    <3>1. l \in SureLines(l.agent)' \/ handler.op = "list"
      OBVIOUS
    <3> QED BY <2>1, <2>2, <3>1 DEF Safe, Reached, BucketOf
  <2> QED BY <2>3, <2>4
<1>3. SearchIsSound'
  BY DEF IInv, SearchIsSound, InInterval
<1>4. ProgressInv'
  BY DEF IInv, ProgressInv, Known, Covers, Answered, Enough, TimesIn
<1> QED BY <1>1, <1>2, <1>3, <1>4 DEF IInv

LEMMA ChangeCounts == ASSUME TypeOK, Change PROVE changes' \in 0..MaxChanges
BY GatewayAssumption DEF TypeOK, Change

(* The lines of the agents depend on their files only.                      *)
LEMMA SameFiles ==
    ASSUME UNCHANGED files
    PROVE  \A b : LinesOf(b)' = LinesOf(b) /\ SureLines(b)' = SureLines(b)
<1>1. \A b : LinesOf(b)' = LinesOf(b)
  BY DEF LinesOf, Listed
<1> QED BY <1>1 DEF SureLines, BucketOf, Greatest

(* The lines of the agents, one by one.                                     *)
InFile(file, l) == file # NoFile /\ l.time \in file.times
SureIn(file, l) == /\ InFile(file, l) /\ l.path \notin Zipped
                   /\ file.closed \/ l.time < BucketOf(Greatest(file.times))

LEMMA LinesOfFiles ==
    ASSUME NEW b \in Agents, NEW l \in Lines
    PROVE  /\ l \in LinesOf(b) <=> l.agent = b /\ InFile(files[b][l.path], l)
           /\ l \in LinesOf(b)' <=> l.agent = b /\ InFile(files'[b][l.path], l)
           /\ l \in SureLines(b) <=> l.agent = b /\ SureIn(files[b][l.path], l)
           /\ l \in SureLines(b)' <=> l.agent = b /\ SureIn(files'[b][l.path], l)
<1>1. /\ l.path \in Paths /\ l.time \in Times
      /\ l = [agent |-> l.agent, path |-> l.path, time |-> l.time]
  BY DEF Lines
<1>2. l \in LinesOf(b) <=> l.agent = b /\ InFile(files[b][l.path], l)
  BY <1>1 DEF LinesOf, Listed, InFile
<1>3. l \in LinesOf(b)' <=> l.agent = b /\ InFile(files'[b][l.path], l)
  BY <1>1 DEF LinesOf, Listed, InFile
<1>4. ASSUME l.agent = b
      PROVE  l \in SureLines(b) <=> l \in LinesOf(b) /\ SureIn(files[b][l.path], l)
  BY <1>2, <1>4 DEF SureLines, SureIn
<1>5. ASSUME l.agent = b
      PROVE  l \in SureLines(b)' <=> l \in LinesOf(b)' /\ SureIn(files'[b][l.path], l)
  BY <1>3, <1>5 DEF SureLines, SureIn, BucketOf, Greatest
<1>6. l \in SureLines(b) => l \in LinesOf(b)
  BY DEF SureLines
<1>7. l \in SureLines(b)' => l \in LinesOf(b)'
  BY DEF SureLines
<1>8. l \in SureLines(b) <=> l.agent = b /\ SureIn(files[b][l.path], l)
  BY <1>2, <1>4, <1>6 DEF SureIn
<1>9. l \in SureLines(b)' <=> l.agent = b /\ SureIn(files'[b][l.path], l)
  BY <1>3, <1>5, <1>7 DEF SureIn
<1> QED BY <1>2, <1>3, <1>8, <1>9

LEMMA LinesAreLines ==
    /\ \A b \in Agents : SureLines(b) \subseteq LinesOf(b) /\ LinesOf(b) \subseteq Lines
    /\ \A b \in Agents : SureLines(b)' \subseteq LinesOf(b)' /\ LinesOf(b)' \subseteq Lines
<1>1. \A b \in Agents : LinesOf(b) \subseteq Lines /\ LinesOf(b)' \subseteq Lines
  BY DEF LinesOf, Listed, Lines
<1>2. \A b \in Agents : SureLines(b) \subseteq LinesOf(b)
  BY DEF SureLines
<1>3. \A b \in Agents : SureLines(b)' \subseteq LinesOf(b)'
  BY DEF SureLines
<1> QED BY <1>1, <1>2, <1>3

(* What a change of a file does to them.                                    *)
LEMMA FileChanges ==
    ASSUME TypeOK, NEW a \in Agents, NEW p \in Paths, NEW file \in Files \cup {NoFile},
           files' = [files EXCEPT ![a][p] = file]
    PROVE  /\ files' \in [Agents -> [Paths -> Files \cup {NoFile}]]
           /\ \A b \in Agents : \A l \in Lines : b # a \/ l.path # p =>
                 /\ l \in LinesOf(b)' <=> l \in LinesOf(b)
                 /\ l \in SureLines(b)' <=> l \in SureLines(b)
           /\ \A l \in Lines : l.path = p =>
                 /\ l \in LinesOf(a)' <=> l.agent = a /\ InFile(file, l)
                 /\ l \in SureLines(a)' <=> l.agent = a /\ SureIn(file, l)
<1>1. files' \in [Agents -> [Paths -> Files \cup {NoFile}]]
  BY DEF TypeOK
<1>2. /\ files'[a][p] = file
      /\ \A b \in Agents, q \in Paths : b # a \/ q # p => files'[b][q] = files[b][q]
  BY DEF TypeOK
<1>3. \A l \in Lines : l.path \in Paths
  BY DEF Lines
<1>4. ASSUME NEW b \in Agents, NEW l \in Lines, b # a \/ l.path # p
      PROVE  /\ l \in LinesOf(b)' <=> l \in LinesOf(b)
             /\ l \in SureLines(b)' <=> l \in SureLines(b)
  <2>1. files'[b][l.path] = files[b][l.path]
    BY <1>2, <1>3, <1>4
  <2> QED BY <2>1, LinesOfFiles
<1>5. ASSUME NEW l \in Lines, l.path = p
      PROVE  /\ l \in LinesOf(a)' <=> l.agent = a /\ InFile(file, l)
             /\ l \in SureLines(a)' <=> l.agent = a /\ SureIn(file, l)
  BY <1>2, <1>5, LinesOfFiles
<1> QED BY <1>1, <1>4, <1>5

LEMMA FileGrowsLines ==
    ASSUME TypeOK, NEW a \in Agents, NEW p \in Paths, NEW t \in Times, FileGrows(a, p, t)
    PROVE  /\ files' \in [Agents -> [Paths -> Files \cup {NoFile}]]
           /\ LinesOf(a)' = LinesOf(a) \cup {[agent |-> a, path |-> p, time |-> t]}
           /\ \A b \in Agents : b # a => LinesOf(b)' = LinesOf(b)
           /\ \A b \in Agents : b # a => SureLines(b)' = SureLines(b)
           /\ SureLines(a) \subseteq SureLines(a)'
<1> DEFINE new == [agent |-> a, path |-> p, time |-> t]
           file == files[a][p]
           times == IF file = NoFile THEN {} ELSE file.times
           grown == [times |-> times \cup {t}, closed |-> TRUE]
<1>1. file \in Files \cup {NoFile}
  BY DEF TypeOK
<1>2. times \in SUBSET Times
  BY <1>1 DEF Files
<1>3. grown \in Files /\ grown # NoFile
  <2> HIDE DEF times
  <2>1. times \cup {t} \in SUBSET Times
    BY <1>2
  <2>2. grown \in Files
    BY <2>1 DEF Files
  <2> HIDE DEF grown
  <2> QED BY <2>2, GatewayAssumption
<1>4. files' = [files EXCEPT ![a][p] = grown]
  BY DEF FileGrows
<1>5. new \in Lines /\ new.agent = a /\ new.path = p
  BY DEF Lines
<1>6. ASSUME NEW l \in Lines, l.agent = a, l.path = p
      PROVE  /\ InFile(grown, l) <=> InFile(file, l) \/ l = new
             /\ SureIn(file, l) => SureIn(grown, l)
  <2>1. l = new <=> l.time = t
    BY <1>6 DEF Lines
  <2>2. grown.times = times \cup {t} /\ grown.closed
    OBVIOUS
  <2>3. InFile(file, l) <=> l.time \in times
    BY DEF InFile
  <2> HIDE DEF grown, times
  <2> QED BY <1>3, <2>1, <2>2, <2>3 DEF InFile, SureIn
<1> HIDE DEF grown, new
<1>7. ASSUME NEW l \in Lines
      PROVE  /\ l \in LinesOf(a)' <=> l \in LinesOf(a) \/ l = new
             /\ l \in SureLines(a) => l \in SureLines(a)'
  <2>1. CASE l.path = p
    <3>1. /\ l \in LinesOf(a)' <=> l.agent = a /\ InFile(grown, l)
          /\ l \in SureLines(a)' <=> l.agent = a /\ SureIn(grown, l)
      BY <1>3, <1>4, <2>1, FileChanges
    <3>2. /\ l \in LinesOf(a) <=> l.agent = a /\ InFile(file, l)
          /\ l \in SureLines(a) <=> l.agent = a /\ SureIn(file, l)
      BY <2>1, LinesOfFiles
    <3> HIDE DEF file
    <3> QED BY <1>5, <1>6, <2>1, <3>1, <3>2
  <2>2. CASE l.path # p
    BY <1>3, <1>4, <1>5, <2>2, FileChanges
  <2> QED BY <2>1, <2>2
<1>8. LinesOf(a)' = LinesOf(a) \cup {new}
  BY <1>5, <1>7, LinesAreLines
<1>9. SureLines(a) \subseteq SureLines(a)'
  BY <1>7, LinesAreLines
<1>10. ASSUME NEW b \in Agents, b # a, NEW l \in Lines
       PROVE  (l \in LinesOf(b)' <=> l \in LinesOf(b)) /\ (l \in SureLines(b)' <=> l \in SureLines(b))
  BY <1>3, <1>4, <1>10, FileChanges
<1>11. ASSUME NEW b \in Agents, b # a
       PROVE  LinesOf(b)' = LinesOf(b) /\ SureLines(b)' = SureLines(b)
  <2>1. /\ LinesOf(b)' \subseteq Lines /\ LinesOf(b) \subseteq Lines
        /\ SureLines(b)' \subseteq Lines /\ SureLines(b) \subseteq Lines
    BY LinesAreLines
  <2> QED BY <1>10, <1>11, <2>1
<1>12. files' \in [Agents -> [Paths -> Files \cup {NoFile}]]
  BY <1>3, <1>4, FileChanges
<1> QED BY <1>8, <1>9, <1>11, <1>12 DEF new

LEMMA FileGrowsStep ==
    ASSUME IInv, NEW a \in Agents, NEW p \in Paths, NEW t \in Times, FileGrows(a, p, t)
    PROVE  IInv'
<1> DEFINE new == [agent |-> a, path |-> p, time |-> t]
<1>1. TypeOK /\ SeenInv /\ DueInv
  BY DEF IInv
<1>2. /\ UNCHANGED <<handler, up, due>> /\ seen' = seen \cup {new}
      /\ changes' \in 0..MaxChanges
  BY <1>1, ChangeCounts DEF FileGrows, Change
<1>3. files' \in [Agents -> [Paths -> Files \cup {NoFile}]]
  BY <1>1, FileGrowsLines
<1>4. \A b \in Agents : LinesOf(b) \subseteq LinesOf(b)' /\ LinesOf(b)' \subseteq LinesOf(b) \cup {new}
  BY <1>1, FileGrowsLines
<1>5. SeenInv'
  BY <1>1, <1>2, <1>4 DEF SeenInv
<1>6. seen' \subseteq Lines /\ up' \subseteq Agents
  BY <1>1, <1>2 DEF TypeOK, Lines
<1>7. \A l \in due' : l.agent \in up' /\ l.agent \in Agents /\ l \in LinesOf(l.agent)'
  BY <1>1, <1>2, <1>4 DEF DueInv, TypeOK
<1>8. \A b \in Agents : SureLines(b) \subseteq SureLines(b)'
  BY <1>1, FileGrowsLines
<1>9. handler.op # "list" => \A l \in due' : l \in SureLines(l.agent)'
  BY <1>1, <1>2, <1>7, <1>8 DEF DueInv, Safe
<1> QED BY <1>2, <1>3, <1>5, <1>6, <1>7, <1>9, EnvironmentStep

LEMMA FileGoesLines ==
    ASSUME TypeOK, NEW a \in Agents, NEW p \in Paths, FileGoes(a, p)
    PROVE  /\ files' \in [Agents -> [Paths -> Files \cup {NoFile}]]
           /\ LinesOf(a)' = {l \in LinesOf(a) : l.path # p}
           /\ SureLines(a)' = {l \in SureLines(a) : l.path # p}
           /\ \A b \in Agents : b # a => LinesOf(b)' = LinesOf(b) /\ SureLines(b)' = SureLines(b)
<1>1. files' = [files EXCEPT ![a][p] = NoFile] /\ NoFile \in Files \cup {NoFile}
  BY DEF FileGoes
<1>2. files' \in [Agents -> [Paths -> Files \cup {NoFile}]]
  BY <1>1, FileChanges
<1>3. ASSUME NEW b \in Agents, NEW l \in Lines, b # a \/ l.path # p
      PROVE  (l \in LinesOf(b)' <=> l \in LinesOf(b)) /\ (l \in SureLines(b)' <=> l \in SureLines(b))
  BY <1>1, <1>3, FileChanges
<1>4. ASSUME NEW l \in Lines, l.path = p PROVE l \notin LinesOf(a)' /\ l \notin SureLines(a)'
  <2>1. ~InFile(NoFile, l) /\ ~SureIn(NoFile, l)
    BY DEF InFile, SureIn
  <2> QED BY <1>1, <1>4, <2>1, FileChanges
<1>5. /\ \A b \in Agents : LinesOf(b)' \subseteq Lines /\ LinesOf(b) \subseteq Lines
      /\ \A b \in Agents : SureLines(b)' \subseteq Lines /\ SureLines(b) \subseteq Lines
  BY LinesAreLines
<1>6. LinesOf(a)' = {l \in LinesOf(a) : l.path # p}
  BY <1>3, <1>4, <1>5
<1>7. SureLines(a)' = {l \in SureLines(a) : l.path # p}
  BY <1>3, <1>4, <1>5
<1>8. ASSUME NEW b \in Agents, b # a
      PROVE  LinesOf(b)' = LinesOf(b) /\ SureLines(b)' = SureLines(b)
  BY <1>3, <1>5, <1>8
<1> QED BY <1>2, <1>6, <1>7, <1>8

LEMMA FileGoesStep ==
    ASSUME IInv, NEW a \in Agents, NEW p \in Paths, FileGoes(a, p)
    PROVE  IInv'
<1>1. TypeOK /\ SeenInv /\ DueInv
  BY DEF IInv
<1>2. /\ UNCHANGED <<handler, up, seen>>
      /\ due' = {l \in due : l.agent # a \/ l.path # p}
      /\ changes' \in 0..MaxChanges
  BY <1>1, ChangeCounts DEF FileGoes, Change
<1>3. files' \in [Agents -> [Paths -> Files \cup {NoFile}]]
  BY <1>1, FileGoesLines
<1>4. \A b \in Agents : LinesOf(b)' \subseteq LinesOf(b)
  BY <1>1, FileGoesLines
<1>5. SeenInv'
  BY <1>1, <1>2, <1>4 DEF SeenInv
<1>6. seen' \subseteq Lines /\ up' \subseteq Agents /\ due' \subseteq due
  BY <1>1, <1>2 DEF TypeOK
<1>7. ASSUME NEW l \in due' PROVE l.agent \in up' /\ l \in LinesOf(l.agent)'
  <2>1. /\ l.agent \in up /\ l.agent \in Agents /\ l \in LinesOf(l.agent)
        /\ l.agent # a \/ l.path # p
    BY <1>1, <1>2 DEF DueInv, TypeOK
  <2>2. CASE l.agent = a
    BY <1>1, <1>2, <2>1, <2>2, FileGoesLines
  <2>3. CASE l.agent # a
    BY <1>1, <1>2, <2>1, <2>3, FileGoesLines
  <2> QED BY <2>2, <2>3
<1>8. ASSUME handler.op # "list", NEW l \in due' PROVE l \in SureLines(l.agent)'
  <2>1. /\ l \in SureLines(l.agent) /\ l.agent \in Agents
        /\ l.agent # a \/ l.path # p
    BY <1>1, <1>2, <1>8 DEF DueInv, Safe, TypeOK
  <2> QED BY <1>1, <2>1, FileGoesLines
<1> QED BY <1>2, <1>3, <1>5, <1>6, <1>7, <1>8, EnvironmentStep

(* A line without a timestamp takes no line away, but the surety of some.   *)
LEMMA LineFollowsLines ==
    ASSUME TypeOK, NEW a \in Agents, NEW p \in Paths, LineFollows(a, p)
    PROVE  /\ files' \in [Agents -> [Paths -> Files \cup {NoFile}]]
           /\ \A b \in Agents : LinesOf(b)' = LinesOf(b)
           /\ \A b \in Agents : b # a => SureLines(b)' = SureLines(b)
           /\ SureLines(a)' \subseteq SureLines(a)
<1> DEFINE file == files[a][p]
           open == [file EXCEPT !.closed = FALSE]
<1>1. file \in Files /\ file # NoFile /\ file.closed
  BY DEF TypeOK, LineFollows
<1>2. /\ open \in Files /\ open # NoFile
      /\ open.times = file.times /\ ~open.closed
  <2>1. open \in Files /\ open.times = file.times /\ ~open.closed
    BY <1>1 DEF Files
  <2> HIDE DEF open
  <2> QED BY <2>1, GatewayAssumption
<1>3. files' = [files EXCEPT ![a][p] = open]
  BY DEF LineFollows, TypeOK
<1> HIDE DEF open
<1>4. files' \in [Agents -> [Paths -> Files \cup {NoFile}]]
  BY <1>2, <1>3, FileChanges
<1>5. ASSUME NEW b \in Agents, NEW l \in Lines, b # a \/ l.path # p
      PROVE  (l \in LinesOf(b)' <=> l \in LinesOf(b)) /\ (l \in SureLines(b)' <=> l \in SureLines(b))
  BY <1>2, <1>3, <1>5, FileChanges
<1>6. ASSUME NEW l \in Lines, l.path = p
      PROVE  (l \in LinesOf(a)' <=> l \in LinesOf(a)) /\ (l \in SureLines(a)' => l \in SureLines(a))
  <2>1. (InFile(open, l) <=> InFile(file, l)) /\ (SureIn(open, l) => SureIn(file, l))
    BY <1>1, <1>2 DEF InFile, SureIn
  <2>2. /\ l \in LinesOf(a)' <=> l.agent = a /\ InFile(open, l)
        /\ l \in SureLines(a)' <=> l.agent = a /\ SureIn(open, l)
    BY <1>2, <1>3, <1>6, FileChanges
  <2>3. /\ l \in LinesOf(a) <=> l.agent = a /\ InFile(file, l)
        /\ l \in SureLines(a) <=> l.agent = a /\ SureIn(file, l)
    BY <1>6, LinesOfFiles
  <2> HIDE DEF file
  <2> QED BY <2>1, <2>2, <2>3
<1>7. /\ \A b \in Agents : LinesOf(b)' \subseteq Lines /\ LinesOf(b) \subseteq Lines
      /\ \A b \in Agents : SureLines(b)' \subseteq Lines /\ SureLines(b) \subseteq Lines
  BY LinesAreLines
<1>8. ASSUME NEW b \in Agents
      PROVE  LinesOf(b)' = LinesOf(b) /\ SureLines(b)' \subseteq SureLines(b)
  BY <1>5, <1>6, <1>7, <1>8
<1>9. ASSUME NEW b \in Agents, b # a PROVE SureLines(b)' = SureLines(b)
  BY <1>5, <1>7, <1>9
<1> QED BY <1>4, <1>8, <1>9

LEMMA LineFollowsStep ==
    ASSUME IInv, NEW a \in Agents, NEW p \in Paths, LineFollows(a, p)
    PROVE  IInv'
<1>1. TypeOK /\ SeenInv /\ DueInv
  BY DEF IInv
<1>2. /\ UNCHANGED <<handler, up, seen>>
      /\ due' = {l \in due : handler.op = "list" \/ l.agent # a \/ l \in SureLines(a)'}
      /\ changes' \in 0..MaxChanges
  BY <1>1, ChangeCounts DEF LineFollows, Change
<1>3. files' \in [Agents -> [Paths -> Files \cup {NoFile}]]
  BY <1>1, LineFollowsLines
<1>4. /\ \A b \in Agents : LinesOf(b)' = LinesOf(b)
      /\ \A b \in Agents : b # a => SureLines(b)' = SureLines(b)
  BY <1>1, LineFollowsLines
<1>5. SeenInv'
  BY <1>1, <1>2, <1>4 DEF SeenInv
<1>6. seen' \subseteq Lines /\ up' \subseteq Agents /\ due' \subseteq due
  BY <1>1, <1>2 DEF TypeOK
<1>7. \A l \in due' : l.agent \in up' /\ l.agent \in Agents /\ l \in LinesOf(l.agent)'
  BY <1>1, <1>2, <1>4 DEF DueInv, TypeOK
<1>8. ASSUME handler.op # "list", NEW l \in due' PROVE l \in SureLines(l.agent)'
  <2>1. l \in SureLines(l.agent) /\ l.agent \in Agents
    BY <1>1, <1>6, <1>7, <1>8 DEF DueInv, Safe
  <2> QED BY <1>2, <1>4, <1>8, <2>1
<1> QED BY <1>2, <1>3, <1>5, <1>6, <1>7, <1>8, EnvironmentStep

LEMMA AgentFailsStep ==
    ASSUME IInv, NEW a \in Agents, AgentFails(a) PROVE IInv'
<1>1. TypeOK /\ SeenInv /\ DueInv
  BY DEF IInv
<1>2. /\ UNCHANGED <<handler, files, seen>>
      /\ due' = {l \in due : l.agent # a} /\ up' = up \ {a}
      /\ changes' \in 0..MaxChanges
  BY <1>1, ChangeCounts DEF AgentFails, Change
<1>3. \A b : LinesOf(b)' = LinesOf(b) /\ SureLines(b)' = SureLines(b)
  BY <1>2, SameFiles
<1>4. SeenInv'
  BY <1>1, <1>2, <1>3 DEF SeenInv
<1>5. \A l \in due' : l.agent \in up' /\ l \in LinesOf(l.agent)'
  BY <1>1, <1>2, <1>3 DEF DueInv
<1>6. /\ seen' \subseteq Lines /\ up' \subseteq Agents /\ due' \subseteq due
      /\ files' \in [Agents -> [Paths -> Files \cup {NoFile}]]
  BY <1>1, <1>2 DEF TypeOK
<1>7. handler.op # "list" => \A l \in due' : l \in SureLines(l.agent)'
  BY <1>1, <1>2, <1>3 DEF DueInv, Safe
<1> QED BY <1>2, <1>4, <1>5, <1>6, <1>7, EnvironmentStep

LEMMA AgentReturnsStep ==
    ASSUME IInv, NEW a \in Agents, AgentReturns(a) PROVE IInv'
<1>1. TypeOK /\ SeenInv /\ DueInv
  BY DEF IInv
<1>2. /\ UNCHANGED <<handler, files, seen, due>> /\ up' = up \cup {a}
      /\ changes' \in 0..MaxChanges
  BY <1>1, ChangeCounts DEF AgentReturns, Change
<1>3. \A b : LinesOf(b)' = LinesOf(b) /\ SureLines(b)' = SureLines(b)
  BY <1>2, SameFiles
<1>4. SeenInv'
  BY <1>1, <1>2, <1>3 DEF SeenInv
<1>5. \A l \in due' : l.agent \in up' /\ l \in LinesOf(l.agent)'
  BY <1>1, <1>2, <1>3 DEF DueInv
<1>6. /\ seen' \subseteq Lines /\ up' \subseteq Agents
      /\ files' \in [Agents -> [Paths -> Files \cup {NoFile}]]
  BY <1>1, <1>2 DEF TypeOK
<1>7. handler.op # "list" => \A l \in due' : l \in SureLines(l.agent)'
  BY <1>1, <1>2, <1>3 DEF DueInv, Safe
<1> QED BY <1>2, <1>4, <1>5, <1>6, <1>7, EnvironmentStep

-----------------------------------------------------------------------------
(* The handler: files, agents and what was seen stay as they are.           *)

(* What such a step must show: its own types, and that what it adds to the  *)
(* records is sound and what it does to the agents that are left is safe.   *)
LEMMA HandlerStep ==
    ASSUME IInv, handler.pc # "idle", UNCHANGED <<files, up, changes, seen, due>>,
           handler' \in Handlers, handler'.calling => handler'.todo # {},
           handler'.start_time = handler.start_time, handler'.end_time = handler.end_time,
           handler'.op = handler.op,
           \A l \in handler'.records \ handler.records : l \in seen /\ InInterval(l.time),
           ProgressInv'
    PROVE  IInv'
<1>1. TypeOK'
  BY DEF IInv, TypeOK
<1>2. \A b : LinesOf(b)' = LinesOf(b) /\ SureLines(b)' = SureLines(b)
  BY SameFiles
<1>3. \A t : InInterval(t)' = InInterval(t)
  BY DEF InInterval
<1>4. SeenInv'
  BY <1>2 DEF IInv, SeenInv
<1>5. DueInv'
  <2>1. \A l : Safe(l)' = Safe(l)
    BY <1>2 DEF Safe, Reached, BucketOf
  <2> QED BY <1>2, <1>3, <2>1 DEF IInv, DueInv
<1>6. SearchIsSound'
  BY <1>3 DEF IInv, SearchIsSound
<1> QED BY <1>1, <1>4, <1>5, <1>6 DEF IInv

(* The fields that the end of a call leaves alone.                          *)
LEMMA EndedFields ==
    ASSUME handler \in Handlers
    PROVE  /\ Ended(handler) \in Handlers
           /\ Ended(handler).calling = FALSE
           /\ Ended(handler).todo = handler.todo \ {NextAgent}
           /\ Ended(handler).pc = handler.pc /\ Ended(handler).op = handler.op
           /\ Ended(handler).start_time = handler.start_time
           /\ Ended(handler).end_time = handler.end_time
           /\ Ended(handler).indexes = handler.indexes
           /\ Ended(handler).records = handler.records
<1> DEFINE f == [handler EXCEPT !.calling = FALSE]
           rest == handler.todo \ {NextAgent}
<1>1. f \in Handlers
  BY ZenonT(60) DEF Handlers
<1>2. rest \in SUBSET Agents
  BY SMTT(60) DEF Handlers
<1> HIDE DEF rest
<1>3. Ended(handler) = [f EXCEPT !.todo = rest]
  BY SMTT(60) DEF Handlers, Ended, rest
<1>4. /\ f.calling = FALSE /\ f.pc = handler.pc /\ f.op = handler.op
      /\ f.start_time = handler.start_time /\ f.end_time = handler.end_time
      /\ f.indexes = handler.indexes /\ f.records = handler.records
  BY SMTT(60) DEF Handlers
<1> HIDE DEF f
<1>5. [f EXCEPT !.todo = rest] \in Handlers
  BY <1>1, <1>2, ZenonT(60) DEF Handlers
<1>6. /\ Ended(handler).calling = f.calling /\ Ended(handler).todo = rest
      /\ Ended(handler).pc = f.pc /\ Ended(handler).op = f.op
      /\ Ended(handler).start_time = f.start_time /\ Ended(handler).end_time = f.end_time
      /\ Ended(handler).indexes = f.indexes /\ Ended(handler).records = f.records
  BY <1>1, <1>3, SMTT(60) DEF Handlers
<1> QED BY <1>3, <1>4, <1>5, <1>6 DEF rest

(* ... and the start of a call.                                             *)
LEMMA CallingFields ==
    ASSUME NEW h \in Handlers
    PROVE  LET g == [h EXCEPT !.calling = TRUE] IN
           /\ g \in Handlers
           /\ g.todo = h.todo /\ g.pc = h.pc /\ g.op = h.op
           /\ g.start_time = h.start_time /\ g.end_time = h.end_time
           /\ g.indexes = h.indexes /\ g.records = h.records
<1> DEFINE g == [h EXCEPT !.calling = TRUE]
<1>1. g \in Handlers
  BY ZenonT(60) DEF Handlers
<1>2. /\ g.todo = h.todo /\ g.pc = h.pc /\ g.op = h.op
      /\ g.start_time = h.start_time /\ g.end_time = h.end_time
      /\ g.indexes = h.indexes /\ g.records = h.records
  BY SMTT(60) DEF Handlers
<1> QED BY <1>1, <1>2

(* What is known and answered depends on the handler's lists and records.   *)
LEMMA SameAnswer ==
    \A l : /\ handler'.op = handler.op /\ handler'.indexes = handler.indexes =>
                 (Known(l)' <=> Known(l))
           /\ handler'.records = handler.records => (Answered(l)' <=> Answered(l))
<1>1. ASSUME NEW l, handler'.op = handler.op, handler'.indexes = handler.indexes
      PROVE  Known(l)' <=> Known(l)
  BY <1>1 DEF Known, Covers
<1>2. ASSUME NEW l, handler'.records = handler.records
      PROVE  Answered(l)' <=> Answered(l)
  BY <1>2 DEF Answered, Enough, TimesIn
<1> QED BY <1>1, <1>2

LEMMA CallStep == ASSUME IInv, Call PROVE IInv'
<1>1. TypeOK /\ ProgressInv
  BY DEF IInv
<1>2. /\ UNCHANGED <<files, up, changes, seen, due>>
      /\ handler' = [handler EXCEPT !.calling = TRUE]
      /\ handler.pc \in {"lists", "searches"} /\ handler.todo # {}
  BY DEF Call, Handle
<1>3. /\ handler' \in Handlers
      /\ handler'.todo = handler.todo /\ handler'.pc = handler.pc /\ handler'.op = handler.op
      /\ handler'.start_time = handler.start_time /\ handler'.end_time = handler.end_time
      /\ handler'.indexes = handler.indexes /\ handler'.records = handler.records
  BY <1>1, <1>2, CallingFields DEF TypeOK
<1>4. \A l : (Known(l)' <=> Known(l)) /\ (Answered(l)' <=> Answered(l))
  BY <1>3, SameAnswer
<1>5. ProgressInv'
  BY <1>1, <1>2, <1>3, <1>4 DEF ProgressInv
<1> QED BY <1>2, <1>3, <1>5, HandlerStep

(* The list of an agent has each of its lines, for a search those that it   *)
(* is sure to find.                                                         *)
LEMMA AgentListCovers ==
    ASSUME TypeOK, NEW a \in Agents
    PROVE  /\ AgentList(a) \subseteq Indexes
           /\ \A l \in LinesOf(a) : (handler.op # "list" => l \in SureLines(a)) =>
                 \E x \in AgentList(a) : Covers(x, l)
<1> DEFINE entry(p) == [agent |-> a, path |-> p, start_time |-> FirstEntry(files[a][p]),
                        end_time |-> LastEntry(files[a][p])]
<1>1. AgentList(a) = {entry(p) : p \in Listed(a)}
  BY DEF AgentList
<1>2. ASSUME NEW p \in Listed(a) PROVE p \in Paths /\ files[a][p] \in Files
  BY <1>2 DEF TypeOK, Listed
<1>3. AgentList(a) \subseteq Indexes
  <2>1. ASSUME NEW p \in Listed(a) PROVE entry(p) \in Indexes
    BY <1>2, <2>1, EntryTimes DEF Indexes
  <2> QED BY <1>1, <2>1
<1>4. ASSUME NEW l \in LinesOf(a), handler.op # "list" => l \in SureLines(a)
      PROVE  \E x \in AgentList(a) : Covers(x, l)
  <2> DEFINE file == files[a][l.path]
             x == entry(l.path)
  <2>1. l.agent = a /\ l.path \in Listed(a) /\ l.time \in file.times
    BY DEF LinesOf
  <2>2. x \in AgentList(a)
    BY <1>1, <2>1
  <2>3. /\ x.agent = a /\ x.path = l.path
        /\ x.start_time = FirstEntry(file) /\ x.end_time = LastEntry(file)
    OBVIOUS
  <2>4. file \in Files
    BY <1>2, <2>1
  <2>5. l \in SureLines(a) => file.closed \/ l.time < BucketOf(Greatest(file.times))
    BY DEF SureLines
  <2> HIDE DEF file, x
  <2>6. l \in SureLines(a) => FirstEntry(file) <= l.time /\ l.time <= LastEntry(file)
    BY <2>1, <2>4, <2>5, EntryTimes
  <2>7. Covers(x, l)
    BY <1>4, <2>1, <2>3, <2>6 DEF Covers
  <2> QED BY <2>2, <2>7
<1> QED BY <1>3, <1>4

LEMMA AnswerListStep == ASSUME IInv, AnswerList PROVE IInv'
<1> DEFINE a == NextAgent
           h == Ended(handler)
<1>1. TypeOK /\ ProgressInv /\ DueInv
  BY DEF IInv
<1>2. /\ UNCHANGED <<files, up, changes, seen, due>>
      /\ handler' = [h EXCEPT !.indexes = @ \cup AgentList(a)]
      /\ handler.pc = "lists" /\ handler.todo # {}
  BY <1>1 DEF AnswerList, Handle, TypeOK
<1>3. a \in handler.todo /\ a \in Agents
  BY <1>1, <1>2, NextIsLeft DEF TypeOK, Handlers
<1>4. handler \in Handlers
  BY <1>1 DEF TypeOK
<1>5. AgentList(a) \subseteq Indexes
  BY <1>1, <1>3, AgentListCovers
<1>6. /\ handler' \in Handlers /\ handler'.calling = FALSE
      /\ handler'.todo = handler.todo \ {a} /\ handler'.pc = "lists"
      /\ handler'.op = handler.op
      /\ handler'.start_time = handler.start_time /\ handler'.end_time = handler.end_time
      /\ handler'.indexes = handler.indexes \cup AgentList(a)
      /\ handler'.records = handler.records
  <2> HIDE DEF a, h
  <2>1. /\ h \in Handlers /\ h.indexes = handler.indexes /\ h.records = handler.records
        /\ h.calling = FALSE /\ h.todo = handler.todo \ {a} /\ h.pc = handler.pc
        /\ h.op = handler.op
        /\ h.start_time = handler.start_time /\ h.end_time = handler.end_time
    BY <1>4, EndedFields DEF h, a
  <2> QED BY <1>2, <1>5, <2>1, SMTT(60) DEF Handlers
<1>7. \A l \in due' : l.agent \in handler'.todo \/ Known(l)'
  <2> SUFFICES ASSUME NEW l \in due, l.agent \notin handler'.todo
               PROVE  \E x \in handler.indexes \cup AgentList(a) : Covers(x, l)
    BY <1>2, <1>6 DEF Known, Covers
  <2>1. CASE l.agent = a
    <3>1. l \in LinesOf(a) /\ (handler.op # "list" => l \in SureLines(a))
      BY <1>1, <2>1 DEF DueInv, Safe
    <3> QED BY <1>1, <1>3, <3>1, AgentListCovers
  <2>2. CASE l.agent # a
    BY <1>1, <1>2, <1>6, <2>2 DEF ProgressInv, Known
  <2> QED BY <2>1, <2>2
<1>8. ProgressInv'
  BY <1>6, <1>7 DEF ProgressInv
<1> QED BY <1>2, <1>6, <1>8, HandlerStep

(* An answer has the lines of a file that are sure, or enough before them.  *)
LEMMA SearchAnswers ==
    ASSUME NEW a \in Agents, NEW got \in AgentSearch(a)
    PROVE  /\ \A l \in got : l \in LinesOf(a) /\ InInterval(l.time)
           /\ \A l \in SureLines(a) :
                 l.path \in AskedPaths(a) /\ InInterval(l.time)
                 /\ Reached(l.time, handler.start_time) => l \in got \/ Enough(got, l)
           /\ \A p \in Paths : Cardinality(TimesIn(got, a, p)) <= MostResults
<1> DEFINE found == {l \in LinesOf(a) : l.path \in AskedPaths(a) /\ InInterval(l.time)}
<1>1. got \in Answers(a, found)
  BY DEF AgentSearch
<1>2. \A l \in SureLines(a) : l \in LinesOf(a)
  BY DEF SureLines
<1>3. \A l \in found : l \in LinesOf(a) /\ InInterval(l.time)
  OBVIOUS
<1>4. \A l \in SureLines(a) : l.path \in AskedPaths(a) /\ InInterval(l.time) => l \in found
  BY <1>2
<1> HIDE DEF found
<1>5. /\ got \subseteq found
      /\ \A l \in found \ got : Reached(l.time, handler.start_time) /\ l \in SureLines(a) =>
            Enough(got, l)
      /\ \A p \in Paths : Cardinality(TimesIn(got, a, p)) <= MostResults
  BY <1>1 DEF Answers
<1> QED BY <1>3, <1>4, <1>5

LEMMA AnswerSearchStep == ASSUME IInv, AnswerSearch PROVE IInv'
<1> DEFINE a == NextAgent
           h == Ended(handler)
<1>1. TypeOK /\ ProgressInv /\ DueInv /\ SeenInv
  BY DEF IInv
<1>2. /\ UNCHANGED <<files, up, changes, seen, due>>
      /\ handler.pc = "searches" /\ handler.op = "search" /\ handler.todo # {}
  BY <1>1 DEF AnswerSearch, Handle, TypeOK, ProgressInv
<1>3. PICK got \in AgentSearch(a) : handler' = [h EXCEPT !.records = @ \cup got]
  BY DEF AnswerSearch, Handle
<1>4. a \in handler.todo /\ a \in Agents /\ handler \in Handlers
  BY <1>1, <1>2, NextIsLeft DEF TypeOK, Handlers
<1>5. \A l \in got : l \in Lines /\ l \in seen /\ InInterval(l.time)
  BY <1>1, <1>2, <1>4, SearchAnswers, LinesAreLines DEF SeenInv
<1>6. /\ handler' \in Handlers /\ handler'.calling = FALSE
      /\ handler'.todo = handler.todo \ {a} /\ handler'.pc = "searches"
      /\ handler'.op = handler.op
      /\ handler'.start_time = handler.start_time /\ handler'.end_time = handler.end_time
      /\ handler'.indexes = handler.indexes
      /\ handler'.records = handler.records \cup got
  <2> HIDE DEF a, h
  <2>1. /\ h \in Handlers /\ h.indexes = handler.indexes /\ h.records = handler.records
        /\ h.calling = FALSE /\ h.todo = handler.todo \ {a} /\ h.pc = handler.pc
        /\ h.op = handler.op
        /\ h.start_time = handler.start_time /\ h.end_time = handler.end_time
    BY <1>4, EndedFields DEF h, a
  <2> QED BY <1>2, <1>3, <1>5, <2>1, SMTT(60) DEF Handlers
<1>7. \A l \in handler'.records \ handler.records : l \in seen /\ InInterval(l.time)
  BY <1>5, <1>6
<1>8. ASSUME NEW l \in due PROVE (l.agent \in handler'.todo /\ Known(l)') \/ Answered(l)'
  <2>1. CASE Answered(l)
    <3>1. l \in handler'.records \/ Enough(handler'.records, l)
      BY <1>6, <2>1, EnoughGrows DEF Answered
    <3> QED BY <3>1 DEF Answered, Enough, TimesIn
  <2>2. CASE ~Answered(l) /\ l.agent # a
    BY <1>1, <1>2, <1>6, <2>2, SameAnswer DEF ProgressInv
  <2>3. CASE ~Answered(l) /\ l.agent = a
    <3>1. Known(l) /\ l \in SureLines(a) /\ InInterval(l.time)
          /\ Reached(l.time, handler.start_time)
      BY <1>1, <1>2, <2>3 DEF ProgressInv, DueInv, Safe
    <3>2. l.path \in AskedPaths(a)
      BY <2>3, <3>1 DEF Known, Covers, AskedPaths
    <3>3. l \in got \/ Enough(got, l)
      BY <1>4, <3>1, <3>2, SearchAnswers
    <3>4. l \in handler'.records \/ Enough(handler'.records, l)
      BY <1>6, <3>3, EnoughGrows
    <3> QED BY <3>4 DEF Answered, Enough, TimesIn
  <2> QED BY <2>1, <2>2, <2>3
<1>9. ProgressInv'
  BY <1>1, <1>2, <1>6, <1>8 DEF ProgressInv
<1> QED BY <1>2, <1>6, <1>7, <1>9, HandlerStep

(* The next agent does not answer, so that no line of it is owed.           *)
LEMMA CallFailsStep == ASSUME IInv, CallFails PROVE IInv'
<1> DEFINE a == NextAgent
           h == Ended(handler)
<1>1. TypeOK /\ ProgressInv /\ DueInv
  BY DEF IInv
<1>2. /\ UNCHANGED <<files, up, changes, seen, due>>
      /\ handler' = h /\ handler.todo # {} /\ a \notin up
  BY <1>1 DEF CallFails, Handle, TypeOK
<1>3. /\ handler' \in Handlers /\ handler'.calling = FALSE
      /\ handler'.todo = handler.todo \ {a} /\ handler'.pc = handler.pc
      /\ handler'.op = handler.op
      /\ handler'.start_time = handler.start_time /\ handler'.end_time = handler.end_time
      /\ handler'.indexes = handler.indexes /\ handler'.records = handler.records
  BY <1>1, <1>2, EndedFields DEF TypeOK
<1>4. \A l \in due : l.agent # a
  BY <1>1, <1>2 DEF DueInv
<1>5. \A l : (Known(l)' <=> Known(l)) /\ (Answered(l)' <=> Answered(l))
  BY <1>3, SameAnswer
<1> HIDE DEF a
<1>6. ProgressInv'
  BY <1>1, <1>2, <1>3, <1>4, <1>5 DEF ProgressInv
<1>7. handler.pc # "idle"
  BY <1>1 DEF CallFails, ProgressInv
<1> QED BY <1>2, <1>3, <1>6, <1>7, HandlerStep

(* The steps that end a round of calls.                                     *)

(* The handler with its answer's status.                                    *)
DoneWith(h, code) == [h EXCEPT !.pc = "done", !.status = code]

LEMMA DoneFields ==
    ASSUME NEW h \in Handlers, NEW code \in {200, 400, 404, 405, 503}
    PROVE  LET g == DoneWith(h, code) IN
           /\ g \in Handlers /\ g.pc = "done"
           /\ g.todo = h.todo /\ g.op = h.op /\ g.calling = h.calling
           /\ g.start_time = h.start_time /\ g.end_time = h.end_time
           /\ g.indexes = h.indexes /\ g.records = h.records /\ g.status = code
<1> DEFINE g == DoneWith(h, code)
<1>1. g \in Handlers
  <2> DEFINE f == [h EXCEPT !.pc = "done"]
  <2>1. f \in Handlers
    BY SMTT(60) DEF Handlers
  <2>2. g = [f EXCEPT !.status = code]
    BY SMTT(60) DEF Handlers, DoneWith
  <2> HIDE DEF f
  <2>3. [f EXCEPT !.status = code] \in Handlers
    BY <2>1, SMTT(60) DEF Handlers
  <2> QED BY <2>2, <2>3
<1>2. /\ g.pc = "done" /\ g.todo = h.todo /\ g.op = h.op /\ g.calling = h.calling
      /\ g.start_time = h.start_time /\ g.end_time = h.end_time
      /\ g.indexes = h.indexes /\ g.records = h.records /\ g.status = code
  BY SMTT(60) DEF Handlers, DoneWith
<1> QED BY <1>1, <1>2

LEMMA EndListStep == ASSUME IInv, EndList PROVE IInv'
<1>1. TypeOK /\ ProgressInv
  BY DEF IInv
<1>2. handler \in Handlers
  BY <1>1 DEF TypeOK
<1>3. /\ UNCHANGED <<files, up, changes, seen, due>>
      /\ handler.pc = "lists" /\ handler.op = "list" /\ handler.todo = {}
  BY DEF EndList, Handle
<1>4. PICK code \in {200, 404, 503} : handler' = DoneWith(handler, code)
  BY DEF EndList, Handle, DoneWith
<1>5. /\ handler' \in Handlers /\ handler'.pc = "done"
      /\ handler'.todo = handler.todo /\ handler'.op = handler.op
      /\ handler'.calling = handler.calling
      /\ handler'.start_time = handler.start_time /\ handler'.end_time = handler.end_time
      /\ handler'.indexes = handler.indexes /\ handler'.records = handler.records
  BY <1>2, <1>4, DoneFields
<1>6. \A l : Known(l)' <=> Known(l)
  BY <1>5, SameAnswer
<1>7. ProgressInv'
  BY <1>1, <1>3, <1>5, <1>6 DEF ProgressInv
<1>8. handler'.calling => handler'.todo # {}
  BY <1>1, <1>5 DEF TypeOK
<1> QED BY <1>3, <1>5, <1>7, <1>8, HandlerStep

LEMMA EndSearchStep == ASSUME IInv, EndSearch PROVE IInv'
<1>1. TypeOK /\ ProgressInv
  BY DEF IInv
<1>2. handler \in Handlers
  BY <1>1 DEF TypeOK
<1>3. /\ UNCHANGED <<files, up, changes, seen, due>>
      /\ handler.pc = "searches" /\ handler.todo = {}
      /\ handler' = DoneWith(handler, 200)
  BY DEF EndSearch, Handle, DoneWith
<1>4. /\ handler' \in Handlers /\ handler'.pc = "done"
      /\ handler'.todo = handler.todo /\ handler'.op = handler.op
      /\ handler'.calling = handler.calling
      /\ handler'.start_time = handler.start_time /\ handler'.end_time = handler.end_time
      /\ handler'.indexes = handler.indexes /\ handler'.records = handler.records
  BY <1>2, <1>3, DoneFields
<1>5. ProgressInv'
  <2>1. \A l : Answered(l)' <=> Answered(l)
    BY <1>4, SameAnswer
  <2> QED BY <1>1, <1>3, <1>4, <2>1 DEF ProgressInv
<1>6. handler'.calling => handler'.todo # {}
  BY <1>1, <1>4 DEF TypeOK
<1> QED BY <1>3, <1>4, <1>5, <1>6, HandlerStep

(* The handler at the start of the second round.                            *)
Searching(h, K, T) == [h EXCEPT !.pc = "searches", !.indexes = K, !.todo = T]

LEMMA SearchingFields ==
    ASSUME NEW h \in Handlers, NEW K \in SUBSET Indexes, NEW T \in SUBSET Agents
    PROVE  LET g == Searching(h, K, T) IN
           /\ g \in Handlers /\ g.pc = "searches"
           /\ g.todo = T /\ g.op = h.op /\ g.calling = h.calling
           /\ g.start_time = h.start_time /\ g.end_time = h.end_time
           /\ g.indexes = K /\ g.records = h.records
<1> DEFINE g == Searching(h, K, T)
<1>1. g \in Handlers
  <2> DEFINE f == [h EXCEPT !.pc = "searches"]
             e == [f EXCEPT !.indexes = K]
  <2>1. f \in Handlers
    BY SMTT(60) DEF Handlers
  <2>2. g = [e EXCEPT !.todo = T]
    BY SMTT(60) DEF Handlers, Searching
  <2> HIDE DEF f
  <2>3. e \in Handlers
    BY <2>1, SMTT(60) DEF Handlers
  <2> HIDE DEF e
  <2>4. [e EXCEPT !.todo = T] \in Handlers
    BY <2>3, SMTT(60) DEF Handlers
  <2> QED BY <2>2, <2>4
<1>2. /\ g.pc = "searches" /\ g.todo = T /\ g.op = h.op /\ g.calling = h.calling
      /\ g.start_time = h.start_time /\ g.end_time = h.end_time
      /\ g.indexes = K /\ g.records = h.records
  BY SMTT(60) DEF Handlers, Searching
<1> QED BY <1>1, <1>2

(* The handler with the answer of a search without files.                   *)
Emptied(h) == [h EXCEPT !.pc = "done", !.status = 200, !.indexes = {}]

LEMMA EmptyFields ==
    ASSUME NEW h \in Handlers
    PROVE  LET g == Emptied(h) IN
           /\ g \in Handlers /\ g.pc = "done" /\ g.op = h.op /\ g.calling = h.calling
           /\ g.start_time = h.start_time /\ g.end_time = h.end_time
           /\ g.records = h.records /\ g.indexes = {} /\ g.status = 200
<1> DEFINE g == Emptied(h)
<1>1. g \in Handlers
  <2> DEFINE f == [h EXCEPT !.pc = "done"]
             e == [f EXCEPT !.status = 200]
  <2>1. f \in Handlers
    BY SMTT(60) DEF Handlers
  <2>2. g = [e EXCEPT !.indexes = {}]
    BY SMTT(60) DEF Handlers, Emptied
  <2> HIDE DEF f
  <2>3. e \in Handlers
    BY <2>1, SMTT(60) DEF Handlers
  <2> HIDE DEF e
  <2>4. [e EXCEPT !.indexes = {}] \in Handlers
    BY <2>3, SMTT(60) DEF Handlers
  <2> QED BY <2>2, <2>4
<1>2. /\ g.pc = "done" /\ g.op = h.op /\ g.calling = h.calling
      /\ g.start_time = h.start_time /\ g.end_time = h.end_time
      /\ g.records = h.records /\ g.indexes = {} /\ g.status = 200
  BY SMTT(60) DEF Handlers, Emptied
<1> QED BY <1>1, <1>2

(* A file with a line that is owed is not filtered out.                     *)
LEMMA KeptIfOwed ==
    ASSUME TypeOK, DueInv, handler.op = "search",
           NEW l \in due, NEW x \in handler.indexes, Covers(x, l)
    PROVE  ~Outside(x)
<1> Times \subseteq Nat
  BY GatewayAssumption
<1>1. l.time \in Nat
  <2>1. l \in Lines
    BY DEF TypeOK
  <2> QED BY <2>1 DEF Lines
<1>2. x \in Indexes /\ handler.start_time \in Nat /\ handler.end_time \in Nat
  BY SMTT(60) DEF TypeOK, Handlers
<1>3. x.start_time \in Nat /\ x.end_time \in Nat
  BY <1>2, GatewayAssumption DEF Indexes
<1>4. handler.start_time <= l.time /\ l.time <= handler.end_time
  BY DEF DueInv, InInterval
<1> QED BY <1>1, <1>2, <1>3, <1>4 DEF Covers, Outside

LEMMA FilterStep == ASSUME IInv, Filter PROVE IInv'
<1> DEFINE kept == {x \in handler.indexes : ~Outside(x)}
           asked == {x.agent : x \in kept}
<1>1. TypeOK /\ ProgressInv /\ DueInv
  BY DEF IInv
<1>2. handler \in Handlers
  BY <1>1 DEF TypeOK
<1>3. /\ UNCHANGED <<files, up, changes, seen, due>>
      /\ handler.pc = "lists" /\ handler.op = "search" /\ handler.todo = {}
  BY DEF Filter, Handle
<1>4. kept \in SUBSET Indexes
  BY <1>2, SMTT(60) DEF Handlers
<1>5. asked \in SUBSET Agents
  BY <1>4 DEF Indexes
<1>6. ~handler.calling
  BY <1>1, <1>3 DEF TypeOK
<1>7. \A l \in due : \E x \in kept : Covers(x, l)
  <2> SUFFICES ASSUME NEW l \in due PROVE \E x \in kept : Covers(x, l)
    OBVIOUS
  <2>1. PICK x \in handler.indexes : Covers(x, l)
    BY <1>1, <1>3 DEF ProgressInv, Known
  <2> QED BY <1>1, <1>3, <2>1, KeptIfOwed
<1>8. CASE kept = {}
  <2>1. handler' = Emptied(handler)
    BY <1>8 DEF Filter, Handle, Emptied
  <2>2. /\ handler' \in Handlers /\ handler'.pc = "done"
        /\ handler'.calling = handler.calling /\ handler'.op = handler.op
        /\ handler'.start_time = handler.start_time /\ handler'.end_time = handler.end_time
        /\ handler'.records = handler.records
    BY <1>2, <2>1, EmptyFields
  <2>3. due = {}
    BY <1>7, <1>8
  <2>4. ProgressInv'
    BY <1>3, <2>2, <2>3 DEF ProgressInv
  <2> QED BY <1>3, <1>6, <2>2, <2>4, HandlerStep
<1>9. CASE kept # {}
  <2>1. handler' = Searching(handler, kept, asked)
    BY <1>9 DEF Filter, Handle, Searching
  <2>2. /\ handler' \in Handlers /\ handler'.pc = "searches" /\ handler'.todo = asked
        /\ handler'.calling = handler.calling /\ handler'.op = handler.op
        /\ handler'.start_time = handler.start_time /\ handler'.end_time = handler.end_time
        /\ handler'.indexes = kept /\ handler'.records = handler.records
    <3> HIDE DEF kept, asked
    <3> QED BY <1>2, <1>4, <1>5, <2>1, SearchingFields
  <2>3. \A l \in due : l.agent \in asked
    BY <1>7 DEF Covers
  <2>4. \A l \in due : Known(l)'
    <3> HIDE DEF kept
    <3> QED BY <1>7, <2>2 DEF Known, Covers
  <2>5. ProgressInv'
    <3> HIDE DEF kept, asked
    <3> QED BY <1>3, <2>2, <2>3, <2>4 DEF ProgressInv
  <2> QED BY <1>3, <1>6, <2>2, <2>5, HandlerStep
<1> QED BY <1>8, <1>9

-----------------------------------------------------------------------------
(* The start and the end of a request.                                      *)

(* The handler with its request.                                            *)
Asked(op, from, to) == [Idle EXCEPT !.op = op, !.start_time = from, !.end_time = to]

LEMMA AskedFields ==
    ASSUME NEW op \in {"list", "search"}, NEW from \in Nat, NEW to \in Nat
    PROVE  LET h == Asked(op, from, to) IN
           /\ h \in Handlers /\ h.calling = FALSE /\ h.op = op
           /\ h.start_time = from /\ h.end_time = to
           /\ h.indexes = {} /\ h.records = {}
<1> DEFINE f == [Idle EXCEPT !.op = op]
           g == [f EXCEPT !.start_time = from]
           h == [g EXCEPT !.end_time = to]
<1>1. Idle \in Handlers
  BY SMTT(60) DEF Idle, Handlers
<1>2. f \in Handlers
  BY <1>1, SMTT(60) DEF Handlers
<1>3. Asked(op, from, to) = h
  BY <1>1, SMTT(60) DEF Asked, Handlers
<1>4. /\ Asked(op, from, to).calling = FALSE /\ Asked(op, from, to).op = op
      /\ Asked(op, from, to).start_time = from /\ Asked(op, from, to).end_time = to
      /\ Asked(op, from, to).indexes = {} /\ Asked(op, from, to).records = {}
  BY SMTT(60) DEF Asked, Idle
<1> HIDE DEF f
<1>5. g \in Handlers
  BY <1>2, SMTT(60) DEF Handlers
<1> HIDE DEF g
<1>6. h \in Handlers
  BY <1>5, SMTT(60) DEF Handlers
<1> QED BY <1>3, <1>4, <1>6

LEMMA RequestStep ==
    ASSUME IInv, NEW op \in {"list", "search"}, NEW interval \in Intervals,
           NEW active \in SUBSET Agents, Request(op, interval, active)
    PROVE  IInv'
<1> DEFINE lines == IF op = "list" THEN UNION {LinesOf(a) : a \in active \cap up}
                    ELSE {l \in UNION {SureLines(a) : a \in active \cap up} :
                             Reached(l.time, interval[1])}
           h == Asked(op, interval[1], interval[2])
<1>1. TypeOK
  BY DEF IInv
<1>2. interval[1] \in Nat /\ interval[2] \in Nat
  BY GatewayAssumption
<1>3. /\ UNCHANGED <<files, up, changes>>
      /\ due' = {l \in lines : interval[1] <= l.time /\ l.time <= interval[2]}
      /\ seen' = UNION {LinesOf(a) : a \in Agents}
      /\ handler' = IF active = {} THEN [h EXCEPT !.pc = "done", !.status = 503]
                    ELSE [h EXCEPT !.pc = "lists", !.todo = active]
  BY DEF Request, Asked
<1>4. /\ handler' \in Handlers /\ handler'.calling = FALSE /\ handler'.op = op
      /\ handler'.start_time = interval[1] /\ handler'.end_time = interval[2]
      /\ handler'.indexes = {} /\ handler'.records = {}
      /\ active = {} => handler'.pc = "done"
      /\ active # {} => handler'.pc = "lists" /\ handler'.todo = active
  <2>1. /\ h \in Handlers /\ h.calling = FALSE /\ h.op = op
        /\ h.start_time = interval[1] /\ h.end_time = interval[2]
        /\ h.indexes = {} /\ h.records = {}
    BY <1>2, AskedFields, ZenonT(60)
  <2> HIDE DEF h
  <2>2. CASE active = {}
    <3>1. handler' = DoneWith(h, 503)
      BY <1>3, <2>2 DEF DoneWith
    <3>2. /\ handler' \in Handlers /\ handler'.pc = "done"
          /\ handler'.calling = h.calling /\ handler'.op = h.op
          /\ handler'.start_time = h.start_time /\ handler'.end_time = h.end_time
          /\ handler'.indexes = h.indexes /\ handler'.records = h.records
      BY <2>1, <3>1, DoneFields
    <3> QED BY <2>1, <2>2, <3>2
  <2>3. CASE active # {}
    <3>1. handler' = [h EXCEPT !.pc = "lists", !.todo = active]
      BY <1>3, <2>3
    <3>2. handler' \in Handlers
      <4> DEFINE f == [h EXCEPT !.pc = "lists"]
      <4>1. f \in Handlers
        BY <2>1, SMTT(60) DEF Handlers
      <4>2. handler' = [f EXCEPT !.todo = active]
        BY <2>1, <3>1, SMTT(60) DEF Handlers
      <4> HIDE DEF f
      <4>3. [f EXCEPT !.todo = active] \in Handlers
        BY <4>1, ZenonT(60) DEF Handlers
      <4> QED BY <4>2, <4>3
    <3>3. /\ handler'.calling = h.calling /\ handler'.op = h.op
          /\ handler'.start_time = h.start_time /\ handler'.end_time = h.end_time
          /\ handler'.indexes = h.indexes /\ handler'.records = h.records
          /\ handler'.pc = "lists" /\ handler'.todo = active
      BY <2>1, <3>1, SMTT(60) DEF Handlers
    <3> QED BY <2>1, <2>3, <3>2, <3>3
  <2> QED BY <2>2, <2>3
<1> HIDE DEF h
<1>5. /\ \A b : LinesOf(b)' = LinesOf(b) /\ SureLines(b)' = SureLines(b)
      /\ \A b \in Agents : LinesOf(b) \subseteq Lines
  BY <1>3, SameFiles, LinesAreLines
<1>6. \A l \in due' : /\ l.agent \in active /\ l.agent \in up /\ l \in LinesOf(l.agent)
                      /\ interval[1] <= l.time /\ l.time <= interval[2]
                      /\ op # "list" => l \in SureLines(l.agent) /\ Reached(l.time, interval[1])
  <2> SUFFICES ASSUME NEW l \in due'
               PROVE  /\ l.agent \in active /\ l.agent \in up /\ l \in LinesOf(l.agent)
                      /\ interval[1] <= l.time /\ l.time <= interval[2]
                      /\ op # "list" => l \in SureLines(l.agent) /\ Reached(l.time, interval[1])
    OBVIOUS
  <2>1. PICK a \in active \cap up :
           /\ l \in LinesOf(a)
           /\ op # "list" => l \in SureLines(a) /\ Reached(l.time, interval[1])
    <3>1. \A b \in Agents : SureLines(b) \subseteq LinesOf(b)
      BY LinesAreLines
    <3>2. CASE op = "list"
      BY <1>3, <3>2
    <3>3. CASE op # "list"
      BY <1>3, <3>1, <3>3
    <3> QED BY <3>2, <3>3
  <2>2. l.agent = a
    BY <2>1 DEF LinesOf
  <2>3. interval[1] <= l.time /\ l.time <= interval[2]
    BY <1>3
  <2> QED BY <2>1, <2>2, <2>3
<1>7. TypeOK'
  <2>1. due' \subseteq Lines /\ seen' \subseteq Lines
    <3>1. \A l \in due' : l.agent \in Agents /\ l \in LinesOf(l.agent)
      BY <1>6
    <3> QED BY <1>3, <1>5, <3>1
  <2> QED BY <1>1, <1>3, <1>4, <2>1 DEF TypeOK
<1>8. SeenInv'
  BY <1>3, <1>5 DEF SeenInv
<1>9. DueInv'
  <2> SUFFICES ASSUME NEW l \in due'
               PROVE  /\ l.agent \in up' /\ l \in LinesOf(l.agent)'
                      /\ InInterval(l.time)' /\ Safe(l)'
    BY DEF DueInv
  <2>1. l.agent \in up' /\ l \in LinesOf(l.agent)' /\ InInterval(l.time)'
    BY <1>3, <1>4, <1>5, <1>6 DEF InInterval
  <2>2. Safe(l)'
    <3>1. op # "list" => l \in SureLines(l.agent)' /\ Reached(l.time, interval[1])
      BY <1>5, <1>6
    <3> QED BY <1>4, <3>1 DEF Safe, Reached, BucketOf
  <2> QED BY <2>1, <2>2
<1>10. SearchIsSound'
  BY <1>4 DEF SearchIsSound
<1>11. ProgressInv'
  <2>1. CASE active = {}
    BY <1>4, <1>6, <2>1 DEF ProgressInv
  <2>2. CASE active # {}
    BY <1>4, <1>6, <2>2 DEF ProgressInv
  <2> QED BY <2>1, <2>2
<1> QED BY <1>7, <1>8, <1>9, <1>10, <1>11 DEF IInv

LEMMA RefusedFields ==
    ASSUME NEW op \in {"list", "search"}, NEW from \in Nat, NEW to \in Nat,
           NEW code \in {400, 405}
    PROVE  /\ DoneWith(Asked(op, from, to), code) \in Handlers
           /\ DoneWith(Asked(op, from, to), code).pc = "done"
           /\ ~DoneWith(Asked(op, from, to), code).calling
           /\ DoneWith(Asked(op, from, to), code).records = {}
           /\ DoneWith(Asked(op, from, to), code).indexes = {}
           /\ DoneWith(Asked(op, from, to), code).op = op
           /\ DoneWith(Asked(op, from, to), code).start_time = from
           /\ DoneWith(Asked(op, from, to), code).end_time = to
           /\ DoneWith(Asked(op, from, to), code).status = code
<1>1. Asked(op, from, to) \in Handlers
  BY AskedFields
<1>2. /\ Asked(op, from, to).calling = FALSE /\ Asked(op, from, to).op = op
      /\ Asked(op, from, to).start_time = from /\ Asked(op, from, to).end_time = to
      /\ Asked(op, from, to).indexes = {} /\ Asked(op, from, to).records = {}
  BY SMTT(60) DEF Asked, Idle
<1> QED BY <1>1, <1>2, DoneFields

LEMMA RefuseStep ==
    ASSUME IInv, NEW op \in {"list", "search"}, NEW interval \in Intervals,
           NEW code \in {400, 405}, Refuse(op, interval, code)
    PROVE  IInv'
<1>1. TypeOK
  BY DEF IInv
<1>2. interval[1] \in Nat /\ interval[2] \in Nat
  BY GatewayAssumption
<1>3. /\ UNCHANGED <<files, up, changes>> /\ due' = {}
      /\ seen' = UNION {LinesOf(a) : a \in Agents}
      /\ handler' = [Idle EXCEPT !.op = op, !.start_time = interval[1],
                                 !.end_time = interval[2], !.pc = "done", !.status = code]
  BY DEF Refuse
<1>4. PICK from \in Nat, to \in Nat : from = interval[1] /\ to = interval[2]
  BY <1>2
<1>5. handler' = DoneWith(Asked(op, from, to), code)
  BY <1>3, <1>4, SMTT(60) DEF DoneWith, Asked, Idle
<1>6. /\ handler' \in Handlers /\ handler'.pc = "done" /\ ~handler'.calling
      /\ handler'.records = {}
  BY <1>4, <1>5, RefusedFields
<1>7. \A b \in Agents : LinesOf(b)' = LinesOf(b) /\ LinesOf(b) \subseteq Lines
  BY <1>3, SameFiles, LinesAreLines
<1>8. TypeOK'
  <2>1. seen' \subseteq Lines
    BY <1>3, <1>7
  <2> QED BY <1>1, <1>3, <1>6, <2>1 DEF TypeOK
<1>9. SeenInv' /\ DueInv'
  BY <1>3, <1>7 DEF SeenInv, DueInv
<1>10. SearchIsSound' /\ ProgressInv'
  BY <1>3, <1>6 DEF SearchIsSound, ProgressInv
<1> QED BY <1>8, <1>9, <1>10 DEF IInv

LEMMA RespondStep == ASSUME IInv, Respond PROVE IInv'
<1>1. TypeOK
  BY DEF IInv
<1>2. UNCHANGED <<files, up, changes>> /\ handler' = Idle /\ due' = {} /\ seen' = {}
  BY DEF Respond
<1>3. TypeOK'
  <2>1. Idle \in Handlers /\ Idle.calling = FALSE
    BY SMTT(60) DEF Idle, Handlers
  <2> QED BY <1>1, <1>2, <2>1 DEF TypeOK
<1>4. SeenInv' /\ DueInv' /\ SearchIsSound' /\ ProgressInv'
  BY <1>2 DEF Idle, SeenInv, DueInv, SearchIsSound, ProgressInv
<1> QED BY <1>3, <1>4 DEF IInv

LEMMA StutterInv == ASSUME IInv, UNCHANGED vars PROVE IInv'
<1>1. \A b : LinesOf(b)' = LinesOf(b) /\ SureLines(b)' = SureLines(b)
  BY SameFiles DEF vars
<1>2. TypeOK'
  BY DEF IInv, TypeOK, vars
<1>3. SeenInv' /\ DueInv'
  <2>1. \A l : Safe(l)' <=> Safe(l)
    BY <1>1 DEF Safe, Reached, BucketOf, vars
  <2> QED BY <1>1, <2>1 DEF IInv, SeenInv, DueInv, InInterval, vars
<1>4. SearchIsSound' /\ ProgressInv'
  <2>1. handler' = handler /\ due' = due /\ seen' = seen
    BY DEF vars
  <2>2. \A l : (Known(l)' <=> Known(l)) /\ (Answered(l)' <=> Answered(l))
    BY <2>1, SameAnswer
  <2> QED BY <2>1, <2>2 DEF IInv, SearchIsSound, ProgressInv, InInterval
<1> QED BY <1>2, <1>3, <1>4 DEF IInv

-----------------------------------------------------------------------------
(* The theorems.                                                            *)

LEMMA NextInv == IInv /\ [Next]_vars => IInv'
<1> SUFFICES ASSUME IInv, [Next]_vars PROVE IInv'
  OBVIOUS
<1>1. CASE \E op \in {"list", "search"}, interval \in Intervals, active \in SUBSET Agents :
              Request(op, interval, active)
  BY <1>1, RequestStep
<1>5. CASE \E op \in {"list", "search"}, interval \in Intervals, status \in {400, 405} :
              Refuse(op, interval, status)
  BY <1>5, RefuseStep
<1>2. CASE Handler
  BY <1>2, CallStep, AnswerListStep, AnswerSearchStep, CallFailsStep, EndListStep,
     FilterStep, EndSearchStep, RespondStep DEF Handler
<1>3. CASE Environment
  BY <1>3, AgentFailsStep, AgentReturnsStep, FileGoesStep, FileGrowsStep,
     LineFollowsStep DEF Environment
<1>4. CASE UNCHANGED vars
  BY <1>4, StutterInv
<1> QED BY <1>1, <1>2, <1>3, <1>4, <1>5 DEF Next

LEMMA Invariance == Spec => []IInv
<1> QED BY InitInv, NextInv, PTL DEF Spec

(* The variables have their types: in particular a call is in progress only *)
(* while an agent is left to be asked.                                      *)
THEOREM TypeCorrect == Spec => []TypeOK
<1>1. IInv => TypeOK
  BY DEF IInv
<1> QED BY <1>1, Invariance, PTL

(* A search finds every line of its interval that the index of its file led *)
(* to when the request began and ever since, at an active agent that        *)
(* answers throughout, or as many lines of the file before it as were asked *)
(* for.                                                                     *)
THEOREM SearchIsCompleteHolds == Spec => []SearchIsComplete
<1>1. IInv => SearchIsComplete
  BY DEF IInv, ProgressInv, Answered, SearchIsComplete
<1> QED BY <1>1, Invariance, PTL

(* A list names every file of these agents that has an owed line.           *)
THEOREM ListIsCompleteHolds == Spec => []ListIsComplete
<1>1. IInv => ListIsComplete
  BY DEF IInv, ProgressInv, Known, Covers, ListIsComplete
<1> QED BY <1>1, Invariance, PTL

(* A search answers nothing but lines of its interval that an agent had     *)
(* while the request was served.                                            *)
THEOREM SearchIsSoundHolds == Spec => []SearchIsSound
<1>1. IInv => SearchIsSound
  BY DEF IInv
<1> QED BY <1>1, Invariance, PTL

-----------------------------------------------------------------------------
(* GatewaySearch implements SearchService for any agents, paths, times and  *)
(* changes: the handler's steps between the request and the end of its      *)
(* last round do not show, and that last step gives the service's answer.   *)

(* The invariant: there are no records before the second round, none of an  *)
(* agent that is still to be asked, of no file too many, and there is no    *)
(* call after the last.                                                     *)

FewOfEach(S) == \A a \in Agents, p \in Paths : Cardinality(TimesIn(S, a, p)) <= MostResults

RoundsInv == /\ handler.pc = "lists" => handler.records = {}
             /\ handler.pc = "searches" => \A l \in handler.records : l.agent \notin handler.todo
             /\ FewOfEach(handler.records)
             /\ handler.pc = "done" => ~handler.calling

MappedInv == IInv /\ RoundsInv

LEMMA NoneIsFew == FewOfEach({})
<1>1. \A a, p : TimesIn({}, a, p) = {}
  BY DEF TimesIn
<1>2. Cardinality({}) = 0 /\ MostResults \in Nat
  BY FS_EmptySet, GatewayAssumption
<1> QED BY <1>1, <1>2 DEF FewOfEach

(* What a round's answer adds is another agent's.                           *)
LEMMA FewMore ==
    ASSUME NEW a \in Agents, NEW S, NEW got, FewOfEach(S),
           \A l \in S : l.agent # a, \A l \in got : l.agent = a,
           \A p \in Paths : Cardinality(TimesIn(got, a, p)) <= MostResults
    PROVE  FewOfEach(S \cup got)
<1> SUFFICES ASSUME NEW b \in Agents, NEW p \in Paths
             PROVE  Cardinality(TimesIn(S \cup got, b, p)) <= MostResults
  BY DEF FewOfEach
<1>1. CASE b = a
  <2>1. TimesIn(S \cup got, a, p) = TimesIn(got, a, p)
    BY DEF TimesIn
  <2> QED BY <1>1, <2>1
<1>2. CASE b # a
  <2>1. TimesIn(S \cup got, b, p) = TimesIn(S, b, p)
    BY <1>2 DEF TimesIn
  <2> QED BY <2>1 DEF FewOfEach
<1> QED BY <1>1, <1>2

LEMMA SameFew ==
    ASSUME handler'.records = handler.records
    PROVE  FewOfEach(handler.records)' <=> FewOfEach(handler.records)
BY DEF FewOfEach, TimesIn

(* What the steps do to the handler, as the service sees it.                *)
Serving == handler.pc \in {"lists", "searches"}
SameRequest == /\ UNCHANGED <<files, up, due, seen>>
               /\ handler'.op = handler.op
               /\ handler'.start_time = handler.start_time
               /\ handler'.end_time = handler.end_time

-----------------------------------------------------------------------------
(* The steps that do not show.                                              *)

LEMMA SilentStep ==
    ASSUME SameRequest, Serving, Serving'
    PROVE  UNCHANGED Service!vars
<1>1. /\ [a \in Agents |-> LinesOf(a)]' = [a \in Agents |-> LinesOf(a)]
      /\ [a \in Agents |-> SureLines(a)]' = [a \in Agents |-> SureLines(a)]
  BY SameFiles DEF SameRequest
<1>2. Phase' = Phase
  BY DEF Phase, Serving
<1>3. Question' = Question
  BY DEF Question, SameRequest
<1>4. AnswerNow' = AnswerNow
  BY DEF AnswerNow, Serving
<1> QED BY <1>1, <1>2, <1>3, <1>4 DEF Service!vars, SameRequest

(* The service counts the times of lines as the handler's answers are.      *)
LEMMA SameCardinality == ASSUME NEW S PROVE Service!Cardinality(S) = Cardinality(S)
BY Zenon DEF Service!Cardinality, Cardinality

LEMMA SameTimesIn == ASSUME NEW S, NEW a, NEW p PROVE Service!TimesIn(S, a, p) = TimesIn(S, a, p)
BY DEF TimesIn, Service!TimesIn

LEMMA SameEnough == ASSUME NEW S, NEW l PROVE Service!Enough(S, l) <=> Enough(S, l)
<1> DEFINE before == {t \in TimesIn(S, l.agent, l.path) : t < l.time}
           beforeThere == {t \in Service!TimesIn(S, l.agent, l.path) : t < l.time}
<1>1. beforeThere = before
  BY SameTimesIn
<1>2. Service!Cardinality(beforeThere) = Cardinality(before)
  BY <1>1, SameCardinality
<1> QED BY <1>2, Zenon DEF Enough, Service!Enough

(* The end of the last round, as what it must show of the answer.           *)
LEMMA AnswerStep ==
    ASSUME SameRequest, Serving, handler'.pc = "done", handler' \in Handlers,
           handler.op = "search" =>
               /\ handler'.status = 200
               /\ \A l \in due : l \in handler'.records \/ Enough(handler'.records, l)
               /\ FewOfEach(handler'.records)
               /\ \A l \in handler'.records : l \in seen /\ InInterval(l.time),
           handler.op = "list" =>
               /\ handler'.records = {}
               /\ handler'.status = (IF handler'.indexes = {} THEN 404 ELSE 200)
               /\ \A l \in due : \E x \in handler'.indexes : x.agent = l.agent /\ x.path = l.path
    PROVE  Service!Answer
<1>1. /\ [a \in Agents |-> LinesOf(a)]' = [a \in Agents |-> LinesOf(a)]
      /\ [a \in Agents |-> SureLines(a)]' = [a \in Agents |-> SureLines(a)]
  BY SameFiles DEF SameRequest
<1>2. Phase = "waiting" /\ Phase' = "answered"
  BY DEF Phase, Serving
<1>3. Question' = Question
  BY DEF Question, SameRequest
<1>4. /\ handler'.indexes \subseteq Indexes /\ handler'.records \subseteq Lines
      /\ handler'.op \in {"list", "search"} /\ handler'.op = handler.op
  BY SMTT(60) DEF Handlers, SameRequest
<1>5. Named' \subseteq [agent: Agents, path: Paths]
  BY <1>4 DEF Named, Indexes
<1>6. Named' = {} <=> handler'.indexes = {}
  <2>1. ASSUME NEW x \in handler'.indexes PROVE Named' # {}
    <3>1. [agent |-> x.agent, path |-> x.path] \in Named'
      BY <2>1 DEF Named
    <3> QED BY <3>1
  <2>2. handler'.indexes = {} => Named' = {}
    BY DEF Named
  <2> QED BY <2>1, <2>2
<1>7. AnswerNow' = [status |-> handler'.status, lines |-> handler'.records,
                    files |-> IF handler'.op = "list" THEN Named' ELSE {}]
  BY DEF AnswerNow
<1>8. /\ AnswerNow'.status = handler'.status /\ AnswerNow'.lines = handler'.records
      /\ AnswerNow'.files = IF handler'.op = "list" THEN Named' ELSE {}
  BY <1>7
<1>9. AnswerNow' \in Service!Answers
  <2>1. handler'.status \in {200, 404}
    BY <1>4
  <2> QED BY <1>4, <1>5, <1>7, <2>1 DEF Service!Answers, Service!Lines, Lines
<1>10. Question.op = "search" => Service!GoodSearch(AnswerNow')
  <2> SUFFICES ASSUME handler.op = "search" PROVE Service!GoodSearch(AnswerNow')
    BY DEF Question
  <2>1. \A l \in due : l \in AnswerNow'.lines \/ Service!Enough(AnswerNow'.lines, l)
    <3> SUFFICES ASSUME NEW l \in due, l \notin handler'.records
                 PROVE  Service!Enough(handler'.records, l)
      BY <1>8
    <3>1. Enough(handler'.records, l)
      OBVIOUS
    <3> QED BY <3>1, SameEnough
  <2>2. \A a \in Agents, p \in Paths :
           Service!Cardinality(Service!TimesIn(AnswerNow'.lines, a, p)) <= MostResults
    BY <1>8, SameTimesIn, SameCardinality DEF FewOfEach
  <2>3. \A l \in AnswerNow'.lines : l \in seen /\ Service!Within(l, Question)
    BY <1>8 DEF Question, Service!Within, InInterval
  <2>4. AnswerNow'.status = 200 /\ AnswerNow'.files = {}
    BY <1>4, <1>8
  <2>5. ASSUME NEW given, given = AnswerNow' PROVE Service!GoodSearch(given)
    BY <2>1, <2>2, <2>3, <2>4, <2>5, Zenon DEF Service!GoodSearch
  <2> QED BY <2>5
<1>11. Question.op = "list" => Service!GoodList(AnswerNow')
  <2> SUFFICES ASSUME handler.op = "list" PROVE Service!GoodList(AnswerNow')
    BY DEF Question
  <2>1. ASSUME NEW l \in due PROVE [agent |-> l.agent, path |-> l.path] \in Named'
    BY <2>1 DEF Named
  <2>2. {Service!FileOf(l) : l \in due} \subseteq AnswerNow'.files
    BY <1>4, <1>8, <2>1 DEF Service!FileOf
  <2> QED BY <1>4, <1>6, <1>8, <2>2 DEF Service!GoodList
<1> QED BY <1>1, <1>2, <1>3, <1>9, <1>10, <1>11 DEF Service!Answer, SameRequest
-----------------------------------------------------------------------------
(* The steps of the handler.                                                *)

LEMMA CallMaps == ASSUME MappedInv, Call PROVE UNCHANGED Service!vars /\ RoundsInv'
<1>1. handler \in Handlers
  BY DEF MappedInv, IInv, TypeOK
<1>2. /\ UNCHANGED <<files, up, seen, due>> /\ Serving
      /\ handler' = [handler EXCEPT !.calling = TRUE]
  BY DEF Call, Handle, Serving
<1>3. /\ handler'.pc = handler.pc /\ handler'.op = handler.op
      /\ handler'.start_time = handler.start_time /\ handler'.end_time = handler.end_time
      /\ handler'.records = handler.records /\ handler'.todo = handler.todo
  BY <1>1, <1>2, CallingFields
<1>4. SameRequest /\ Serving'
  BY <1>2, <1>3 DEF SameRequest, Serving
<1>5. RoundsInv'
  BY <1>2, <1>3, <1>4, SameFew DEF MappedInv, RoundsInv, Serving
<1> QED BY <1>2, <1>3, <1>4, <1>5, SilentStep

LEMMA AnswerListMaps ==
    ASSUME MappedInv, AnswerList PROVE UNCHANGED Service!vars /\ RoundsInv'
<1> DEFINE h == Ended(handler)
           K == AgentList(NextAgent)
<1>1. handler \in Handlers
  BY DEF MappedInv, IInv, TypeOK
<1>2. /\ UNCHANGED <<files, up, seen, due>> /\ Serving /\ handler.pc = "lists"
      /\ handler' = [h EXCEPT !.indexes = @ \cup K]
  BY DEF AnswerList, Handle, Serving
<1>3. /\ h \in Handlers /\ h.pc = handler.pc /\ h.op = handler.op
      /\ h.start_time = handler.start_time /\ h.end_time = handler.end_time
      /\ h.records = handler.records
  BY <1>1, EndedFields
<1> HIDE DEF h, K
<1>4. /\ handler'.pc = handler.pc /\ handler'.op = handler.op
      /\ handler'.start_time = handler.start_time /\ handler'.end_time = handler.end_time
      /\ handler'.records = handler.records
  BY <1>2, <1>3, SMTT(60) DEF Handlers
<1>5. SameRequest /\ Serving'
  BY <1>2, <1>4 DEF SameRequest, Serving
<1>6. RoundsInv'
  BY <1>2, <1>4, <1>5, SameFew DEF MappedInv, RoundsInv, Serving
<1> QED BY <1>2, <1>4, <1>5, <1>6, SilentStep

LEMMA AnswerSearchMaps ==
    ASSUME MappedInv, AnswerSearch PROVE UNCHANGED Service!vars /\ RoundsInv'
<1> DEFINE h == Ended(handler)
           a == NextAgent
<1>1. handler \in Handlers /\ TypeOK
  BY DEF MappedInv, IInv, TypeOK
<1>2. /\ UNCHANGED <<files, up, seen, due>> /\ Serving /\ handler.pc = "searches"
      /\ handler.todo # {}
  BY <1>1 DEF AnswerSearch, Handle, Serving, TypeOK
<1>3. PICK got \in AgentSearch(a) : handler' = [h EXCEPT !.records = @ \cup got]
  BY DEF AnswerSearch, Handle
<1>4. a \in handler.todo /\ a \in Agents
  BY <1>1, <1>2, NextIsLeft DEF TypeOK, Handlers
<1>5. /\ h \in Handlers /\ h.pc = handler.pc /\ h.op = handler.op
      /\ h.start_time = handler.start_time /\ h.end_time = handler.end_time
      /\ h.records = handler.records /\ h.todo = handler.todo \ {a}
  BY <1>1, EndedFields
<1> HIDE DEF h, a
<1>6. /\ handler'.pc = handler.pc /\ handler'.op = handler.op
      /\ handler'.start_time = handler.start_time /\ handler'.end_time = handler.end_time
      /\ handler'.records = handler.records \cup got /\ handler'.todo = handler.todo \ {a}
  BY <1>3, <1>5, SMTT(60) DEF Handlers
<1>7. SameRequest /\ Serving'
  BY <1>2, <1>6 DEF SameRequest, Serving
<1>8. /\ \A l \in got : l.agent = a
      /\ \A p \in Paths : Cardinality(TimesIn(got, a, p)) <= MostResults
  BY <1>4, SearchAnswers DEF LinesOf
<1>9. \A l \in handler.records : l.agent \notin handler.todo
  BY <1>2 DEF MappedInv, RoundsInv
<1>10. FewOfEach(handler.records \cup got)
  BY <1>4, <1>8, <1>9, FewMore DEF MappedInv, RoundsInv
<1>11. RoundsInv'
  <2>1. FewOfEach(handler.records)'
    BY <1>6, <1>10 DEF FewOfEach, TimesIn
  <2>2. \A l \in handler'.records : l.agent \notin handler'.todo
    BY <1>6, <1>8, <1>9
  <2> QED BY <1>2, <1>6, <2>1, <2>2 DEF RoundsInv
<1> QED BY <1>2, <1>6, <1>7, <1>11, SilentStep

LEMMA CallFailsMaps ==
    ASSUME MappedInv, CallFails PROVE UNCHANGED Service!vars /\ RoundsInv'
<1>1. handler \in Handlers /\ TypeOK /\ ProgressInv
  BY DEF MappedInv, IInv, TypeOK
<1>2. UNCHANGED <<files, up, seen, due>> /\ handler' = Ended(handler) /\ handler.todo # {}
  BY <1>1 DEF CallFails, Handle, TypeOK
<1>3. /\ handler'.pc = handler.pc /\ handler'.op = handler.op
      /\ handler'.start_time = handler.start_time /\ handler'.end_time = handler.end_time
      /\ handler'.records = handler.records /\ handler'.todo \subseteq handler.todo
  BY <1>1, <1>2, EndedFields
<1>4. SameRequest
  BY <1>2, <1>3 DEF SameRequest
<1>5. Serving
  <2>1. handler.calling /\ handler.pc \in {"idle", "lists", "searches", "done"}
    BY <1>1, SMTT(60) DEF CallFails, Handlers
  <2> QED BY <1>1, <2>1 DEF ProgressInv, MappedInv, RoundsInv, Serving
<1>6. RoundsInv'
  BY <1>3, <1>5, SameFew DEF MappedInv, RoundsInv, Serving
<1> QED BY <1>3, <1>4, <1>5, <1>6, SilentStep DEF Serving

LEMMA EndListMaps == ASSUME MappedInv, EndList PROVE Service!Answer /\ RoundsInv'
<1>1. handler \in Handlers /\ ProgressInv
  BY DEF MappedInv, IInv, TypeOK
<1>2. /\ UNCHANGED <<files, up, seen, due>> /\ Serving /\ handler.op = "list"
      /\ handler.pc = "lists"
      /\ handler' = DoneWith(handler, IF handler.indexes = {} THEN 404 ELSE 200)
  BY DEF EndList, Handle, DoneWith, Serving
<1>3. PICK code \in {200, 404} : /\ code = (IF handler.indexes = {} THEN 404 ELSE 200)
                                 /\ handler' = DoneWith(handler, code)
  BY <1>2
<1>4. /\ handler' \in Handlers /\ handler'.pc = "done" /\ handler'.op = handler.op
      /\ handler'.start_time = handler.start_time /\ handler'.end_time = handler.end_time
      /\ handler'.indexes = handler.indexes /\ handler'.records = handler.records
      /\ handler'.status = code
  BY <1>1, <1>3, DoneFields
<1>5. SameRequest
  BY <1>2, <1>4 DEF SameRequest
<1>6. IInv'
  BY EndListStep DEF MappedInv
<1>7. \A l \in due : \E x \in handler'.indexes : x.agent = l.agent /\ x.path = l.path
  BY <1>2, <1>4, <1>6 DEF IInv, ProgressInv, Known, Covers
<1>8. handler'.records = {}
  BY <1>2, <1>4 DEF MappedInv, RoundsInv
<1>9. ~handler'.calling
  <2>1. handler'.todo = {}
    BY <1>1, <1>3, DoneFields DEF EndList
  <2> QED BY <1>6, <2>1 DEF IInv, TypeOK
<1>10. RoundsInv'
  <2>1. FewOfEach(handler.records)'
    BY <1>8, NoneIsFew DEF FewOfEach, TimesIn
  <2> QED BY <1>4, <1>9, <2>1 DEF RoundsInv
<1> QED BY <1>2, <1>3, <1>4, <1>5, <1>7, <1>8, <1>10, AnswerStep

(* Either end of a search: the invariant has what the service wants.        *)
LEMMA SearchEnds ==
    ASSUME SameRequest, Serving, handler.op = "search", IInv',
           handler'.pc = "done", handler'.status = 200, ~handler'.calling,
           FewOfEach(handler.records), handler'.records = handler.records
    PROVE  Service!Answer /\ RoundsInv'
<1>1. handler' \in Handlers
  BY DEF IInv, TypeOK
<1>2. due' = due /\ seen' = seen /\ handler'.op = "search"
  BY DEF SameRequest
<1>3. \A l \in due : l \in handler'.records \/ Enough(handler'.records, l)
  <2>1. \A l \in due : Answered(l)'
    BY <1>2 DEF IInv, ProgressInv
  <2> QED BY <2>1 DEF Answered, Enough, TimesIn
<1>4. \A l \in handler'.records : l \in seen /\ InInterval(l.time)
  BY <1>2 DEF IInv, SearchIsSound, InInterval, SameRequest
<1>5. handler.op # "list"
  OBVIOUS
<1>6. Service!Answer
  BY <1>1, <1>3, <1>4, <1>5, AnswerStep
<1>7. FewOfEach(handler.records)'
  BY SameFew
<1> QED BY <1>6, <1>7 DEF RoundsInv

LEMMA EndSearchMaps == ASSUME MappedInv, EndSearch PROVE Service!Answer /\ RoundsInv'
<1>1. handler \in Handlers /\ ProgressInv
  BY DEF MappedInv, IInv, TypeOK
<1>2. /\ UNCHANGED <<files, up, seen, due>> /\ Serving /\ handler.op = "search"
      /\ handler' = DoneWith(handler, 200) /\ ~handler.calling
  BY <1>1 DEF MappedInv, IInv, TypeOK, EndSearch, Handle, DoneWith, Serving, ProgressInv
<1>3. /\ handler'.pc = "done" /\ handler'.op = handler.op /\ handler'.status = 200
      /\ handler'.calling = handler.calling /\ handler'.records = handler.records
      /\ handler'.start_time = handler.start_time /\ handler'.end_time = handler.end_time
  BY <1>1, <1>2, DoneFields
<1>4. SameRequest
  BY <1>2, <1>3 DEF SameRequest
<1>5. IInv'
  BY EndSearchStep DEF MappedInv
<1>6. FewOfEach(handler.records)
  BY DEF MappedInv, RoundsInv
<1> QED BY <1>2, <1>3, <1>4, <1>5, <1>6, SearchEnds

LEMMA FilterMaps ==
    ASSUME MappedInv, Filter
    PROVE  (UNCHANGED Service!vars \/ Service!Answer) /\ RoundsInv'
<1> DEFINE kept == {x \in handler.indexes : ~Outside(x)}
           agents == {x.agent : x \in kept}
<1>1. handler \in Handlers
  BY DEF MappedInv, IInv, TypeOK
<1>2. /\ UNCHANGED <<files, up, seen, due>> /\ Serving /\ handler.op = "search"
      /\ ~handler.calling /\ handler.pc = "lists"
  BY DEF MappedInv, IInv, TypeOK, Filter, Handle, Serving
<1>3. kept \in SUBSET Indexes
  BY <1>1, SMTT(60) DEF Handlers
<1>4. agents \in SUBSET Agents
  BY <1>3 DEF Indexes
<1>7. handler.records = {} /\ FewOfEach(handler.records)
  BY <1>2 DEF MappedInv, RoundsInv
<1>5. CASE kept = {}
  <2>1. handler' = Emptied(handler)
    BY <1>5 DEF Filter, Handle, Emptied
  <2>2. /\ handler'.pc = "done" /\ handler'.op = handler.op /\ handler'.status = 200
        /\ handler'.calling = handler.calling /\ handler'.records = handler.records
        /\ handler'.start_time = handler.start_time /\ handler'.end_time = handler.end_time
    BY <1>1, <2>1, EmptyFields
  <2>3. SameRequest
    BY <1>2, <2>2 DEF SameRequest
  <2>4. IInv'
    BY FilterStep DEF MappedInv
  <2> QED BY <1>2, <1>7, <2>2, <2>3, <2>4, SearchEnds
<1>6. CASE kept # {}
  <2>1. handler' = Searching(handler, kept, agents)
    BY <1>6 DEF Filter, Handle, Searching
  <2> HIDE DEF kept, agents
  <2>2. /\ handler'.pc = "searches" /\ handler'.op = handler.op
        /\ handler'.records = handler.records
        /\ handler'.start_time = handler.start_time /\ handler'.end_time = handler.end_time
    BY <1>1, <1>3, <1>4, <2>1, SearchingFields
  <2>3. SameRequest /\ Serving'
    BY <1>2, <2>2 DEF SameRequest, Serving
  <2>4. RoundsInv'
    BY <1>7, <2>2, SameFew DEF RoundsInv
  <2> QED BY <1>2, <2>3, <2>4, SilentStep
<1> QED BY <1>5, <1>6

-----------------------------------------------------------------------------
(* The start and the end of a request.                                      *)

LEMMA SameStore ==
    ASSUME UNCHANGED files
    PROVE  UNCHANGED <<[a \in Agents |-> LinesOf(a)], [a \in Agents |-> SureLines(a)]>>
BY SameFiles

LEMMA RequestMaps ==
    ASSUME MappedInv, NEW op \in {"list", "search"}, NEW interval \in Intervals,
           NEW active \in SUBSET Agents, Request(op, interval, active)
    PROVE  Service!Next /\ RoundsInv'
<1> DEFINE h == Asked(op, interval[1], interval[2])
           q == [op |-> op, start_time |-> interval[1], end_time |-> interval[2]]
<1>1. interval[1] \in Nat /\ interval[2] \in Nat
  BY GatewayAssumption
<1>2. /\ UNCHANGED <<files, up, changes>> /\ handler.pc = "idle"
      /\ due' = {l \in IF op = "list" THEN UNION {LinesOf(a) : a \in active \cap up}
                       ELSE {l \in UNION {SureLines(a) : a \in active \cap up} :
                                Reached(l.time, interval[1])} :
                    interval[1] <= l.time /\ l.time <= interval[2]}
      /\ seen' = UNION {LinesOf(a) : a \in Agents}
      /\ handler' = IF active = {} THEN DoneWith(h, 503)
                    ELSE [h EXCEPT !.pc = "lists", !.todo = active]
  BY DEF Request, Asked, DoneWith
<1>3. /\ h \in Handlers /\ h.calling = FALSE /\ h.op = op
      /\ h.start_time = interval[1] /\ h.end_time = interval[2]
      /\ h.indexes = {} /\ h.records = {}
  BY <1>1, AskedFields, ZenonT(60)
<1> HIDE DEF h
<1>4. q = Service!QuestionOf(op, interval)
  BY DEF Service!QuestionOf
<1>5. UNCHANGED <<[a \in Agents |-> LinesOf(a)], [a \in Agents |-> SureLines(a)]>>
  BY <1>2, SameStore
<1>6. UNION {[b \in Agents |-> LinesOf(b)][a] : a \in Agents} = UNION {LinesOf(a) : a \in Agents}
  OBVIOUS
<1>7. Phase = "idle" /\ AnswerNow = Service!NoAnswer
  BY <1>2 DEF Phase, AnswerNow, Service!NoAnswer
<1>8. CASE active = {}
  <2>1. handler' = DoneWith(h, 503)
    BY <1>2, <1>8
  <2>2. /\ handler'.pc = "done" /\ handler'.op = op /\ handler'.calling = h.calling
        /\ handler'.start_time = interval[1] /\ handler'.end_time = interval[2]
        /\ handler'.indexes = {} /\ handler'.records = {} /\ handler'.status = 503
    BY <1>3, <2>1, DoneFields
  <2>3. Phase' = "answered" /\ Question' = q
    BY <2>2 DEF Phase, Question
  <2>4. AnswerNow' = [Service!NoAnswer EXCEPT !.status = 503]
    BY <2>2 DEF AnswerNow, Named, Service!NoAnswer
  <2>5. due' = {}
    BY <1>2, <1>8
  <2>6. Service!Refuse(q, 503)
    BY <1>2, <1>5, <1>6, <1>7, <2>3, <2>4, <2>5 DEF Service!Refuse
  <2>7. RoundsInv'
    <3>1. FewOfEach(handler.records)'
      BY <2>2, NoneIsFew DEF FewOfEach, TimesIn
    <3> QED BY <1>3, <2>2, <3>1 DEF RoundsInv
  <2> QED BY <1>4, <2>6, <2>7 DEF Service!Next
<1>9. CASE active # {}
  <2>1. handler' = [h EXCEPT !.pc = "lists", !.todo = active]
    BY <1>2, <1>9
  <2>2. /\ handler'.pc = "lists" /\ handler'.op = op
        /\ handler'.start_time = interval[1] /\ handler'.end_time = interval[2]
        /\ handler'.records = {}
    BY <1>3, <2>1, SMTT(60) DEF Handlers
  <2>3. Phase' = "waiting" /\ Question' = q /\ AnswerNow' = Service!NoAnswer
    BY <2>2 DEF Phase, Question, AnswerNow, Service!NoAnswer
  <2>4. active \cap up \subseteq Agents
    OBVIOUS
  <2>5. /\ {[b \in Agents |-> LinesOf(b)][a] : a \in active \cap up}
              = {LinesOf(a) : a \in active \cap up}
        /\ {[b \in Agents |-> SureLines(b)][a] : a \in active \cap up}
              = {SureLines(a) : a \in active \cap up}
    BY <2>4
  <2>6. due' = {l \in IF q.op = "list"
                         THEN UNION {[b \in Agents |-> LinesOf(b)][a] : a \in active \cap up}
                       ELSE {l \in UNION {[b \in Agents |-> SureLines(b)][a] :
                                             a \in active \cap up} : Service!Reached(l, q)} :
                 Service!Within(l, q)}
    <3>1. \A l : Service!Reached(l, q) <=> Reached(l.time, interval[1])
      BY DEF Service!Reached, Service!BucketOf, Reached, BucketOf
    <3>2. \A l : Service!Within(l, q) <=> interval[1] <= l.time /\ l.time <= interval[2]
      BY DEF Service!Within
    <3> QED BY <1>2, <2>5, <3>1, <3>2
  <2>7. Service!Ask(q, active)
    BY <1>2, <1>5, <1>6, <1>7, <2>3, <2>6 DEF Service!Ask
  <2>8. RoundsInv'
    <3>1. FewOfEach(handler.records)'
      BY <2>2, NoneIsFew DEF FewOfEach, TimesIn
    <3> QED BY <2>2, <3>1 DEF RoundsInv
  <2> QED BY <1>4, <2>7, <2>8 DEF Service!Next
<1> QED BY <1>8, <1>9

LEMMA RefuseMaps ==
    ASSUME MappedInv, NEW op \in {"list", "search"}, NEW interval \in Intervals,
           NEW code \in {400, 405}, Refuse(op, interval, code)
    PROVE  Service!Next /\ RoundsInv'
<1> DEFINE q == [op |-> op, start_time |-> interval[1], end_time |-> interval[2]]
<1>1. PICK from \in Nat, to \in Nat : from = interval[1] /\ to = interval[2]
  BY GatewayAssumption
<1>2. /\ UNCHANGED <<files, up, changes>> /\ handler.pc = "idle"
      /\ due' = {} /\ seen' = UNION {LinesOf(a) : a \in Agents}
      /\ handler' = [Idle EXCEPT !.op = op, !.start_time = interval[1],
                                 !.end_time = interval[2], !.pc = "done", !.status = code]
  BY DEF Refuse
<1>3. handler' = DoneWith(Asked(op, from, to), code)
  BY <1>1, <1>2, SMTT(60) DEF DoneWith, Asked, Idle
<1>5. /\ handler'.pc = "done" /\ handler'.op = op /\ ~handler'.calling
      /\ handler'.start_time = from /\ handler'.end_time = to
      /\ handler'.indexes = {} /\ handler'.records = {} /\ handler'.status = code
  <2> DEFINE g == DoneWith(Asked(op, from, to), code)
  <2>1. /\ g.pc = "done" /\ g.op = op /\ ~g.calling /\ g.start_time = from
        /\ g.end_time = to /\ g.indexes = {} /\ g.records = {} /\ g.status = code
    BY RefusedFields
  <2> HIDE DEF g
  <2>2. handler' = g
    BY <1>3 DEF g
  <2> QED BY ONLY <2>1, <2>2, Zenon
<1>6. q = Service!QuestionOf(op, interval)
  BY DEF Service!QuestionOf
<1>7. UNCHANGED <<[a \in Agents |-> LinesOf(a)], [a \in Agents |-> SureLines(a)]>>
  BY <1>2, SameStore
<1>8. UNION {[b \in Agents |-> LinesOf(b)][a] : a \in Agents} = UNION {LinesOf(a) : a \in Agents}
  OBVIOUS
<1>9. Phase = "idle" /\ Phase' = "answered" /\ Question' = q
  BY <1>1, <1>2, <1>5 DEF Phase, Question
<1>10. AnswerNow' = [Service!NoAnswer EXCEPT !.status = code]
  BY <1>5 DEF AnswerNow, Named, Service!NoAnswer
<1>11. Service!Refuse(q, code)
  BY <1>2, <1>7, <1>8, <1>9, <1>10 DEF Service!Refuse
<1>12. RoundsInv'
  <2>1. FewOfEach(handler.records)'
    BY <1>5, NoneIsFew DEF FewOfEach, TimesIn
  <2> QED BY <1>5, <2>1 DEF RoundsInv
<1> QED BY <1>6, <1>11, <1>12 DEF Service!Next

LEMMA RespondMaps == ASSUME MappedInv, Respond PROVE Service!Take /\ RoundsInv'
<1>1. /\ UNCHANGED <<files, up>> /\ handler.pc = "done"
      /\ handler' = Idle /\ due' = {} /\ seen' = {}
  BY DEF Respond
<1>2. UNCHANGED <<[a \in Agents |-> LinesOf(a)], [a \in Agents |-> SureLines(a)]>>
  BY <1>1, SameStore
<1>3. Phase = "answered" /\ Phase' = "idle" /\ Question' = Service!NoQuestion
  BY <1>1 DEF Phase, Question, Idle, Service!NoQuestion
<1>4. AnswerNow' = Service!NoAnswer
  BY <1>1 DEF AnswerNow, Idle, Service!NoAnswer
<1>5. RoundsInv'
  <2>1. FewOfEach(handler.records)'
    BY <1>1, NoneIsFew DEF FewOfEach, TimesIn, Idle
  <2> QED BY <1>1, <2>1 DEF RoundsInv, Idle
<1> QED BY <1>1, <1>2, <1>3, <1>4, <1>5 DEF Service!Take

-----------------------------------------------------------------------------
(* What happens to the agents.                                              *)

(* The request and its answer depend on the handler only.                   *)
LEMMA SameHandler ==
    ASSUME UNCHANGED handler
    PROVE  UNCHANGED <<Phase, Question, AnswerNow, RoundsInv>>
BY DEF Phase, Question, AnswerNow, Named, RoundsInv, FewOfEach, TimesIn

LEMMA FileGrowsMaps ==
    ASSUME MappedInv, NEW a \in Agents, NEW p \in Paths, NEW t \in Times, FileGrows(a, p, t)
    PROVE  Service!Next /\ RoundsInv'
<1> DEFINE l == [agent |-> a, path |-> p, time |-> t]
           S == [b \in Agents |-> LinesOf(b)]
           K == [b \in Agents |-> SureLines(b)]
<1>1. /\ LinesOf(a)' = LinesOf(a) \cup {l}
      /\ \A b \in Agents : b # a => LinesOf(b)' = LinesOf(b) /\ SureLines(b)' = SureLines(b)
      /\ SureLines(a) \subseteq SureLines(a)'
  BY FileGrowsLines DEF MappedInv, IInv
<1>2. UNCHANGED <<handler, up, due>> /\ seen' = seen \cup {l}
  BY DEF FileGrows, Change
<1>3. S' = [S EXCEPT ![a] = @ \cup {l}]
  BY <1>1
<1>4. K' = [K EXCEPT ![a] = @ \cup SureLines(a)'] /\ SureLines(a)' \in SUBSET S'[a]
  BY <1>1, LinesAreLines
<1>5. Service!Gain(a, l)
  BY <1>2, <1>3, <1>4, SameHandler DEF Service!Gain
<1>6. l \in Service!Lines /\ l.agent = a
  BY DEF Service!Lines
<1>7. RoundsInv'
  BY <1>2, SameHandler DEF MappedInv
<1> QED BY <1>5, <1>6, <1>7 DEF Service!Next, Service!World

LEMMA LineFollowsMaps ==
    ASSUME MappedInv, NEW a \in Agents, NEW p \in Paths, LineFollows(a, p)
    PROVE  Service!Next /\ RoundsInv'
<1> DEFINE S == [b \in Agents |-> LinesOf(b)]
           K == [b \in Agents |-> SureLines(b)]
<1>1. /\ \A b \in Agents : LinesOf(b)' = LinesOf(b)
      /\ \A b \in Agents : b # a => SureLines(b)' = SureLines(b)
      /\ SureLines(a)' \subseteq SureLines(a)
  BY LineFollowsLines DEF MappedInv, IInv
<1>2. /\ UNCHANGED <<handler, up, seen>>
      /\ due' = {l \in due : handler.op = "list" \/ l.agent # a \/ l \in SureLines(a)'}
  BY DEF LineFollows, Change
<1>3. S' = S
  BY <1>1
<1>4. K' = [K EXCEPT ![a] = SureLines(a)'] /\ SureLines(a)' \in SUBSET K[a]
  BY <1>1
<1>5. due' = {l \in due : Question.op = "list" \/ l.agent # a \/ l \in SureLines(a)'}
  BY <1>2 DEF Question
<1>6. Service!Doubt(a)
  BY <1>2, <1>3, <1>4, <1>5, SameHandler DEF Service!Doubt
<1>7. RoundsInv'
  BY <1>2, SameHandler DEF MappedInv
<1> QED BY <1>6, <1>7 DEF Service!Next, Service!World

LEMMA FileGoesMaps ==
    ASSUME MappedInv, NEW a \in Agents, NEW p \in Paths, FileGoes(a, p)
    PROVE  Service!Next /\ RoundsInv'
<1> DEFINE S == [b \in Agents |-> LinesOf(b)]
           K == [b \in Agents |-> SureLines(b)]
<1>1. /\ LinesOf(a)' = {l \in LinesOf(a) : l.path # p}
      /\ SureLines(a)' = {l \in SureLines(a) : l.path # p}
      /\ \A b \in Agents : b # a => LinesOf(b)' = LinesOf(b) /\ SureLines(b)' = SureLines(b)
  BY FileGoesLines DEF MappedInv, IInv
<1>2. /\ UNCHANGED <<handler, up, seen>>
      /\ due' = {l \in due : l.agent # a \/ l.path # p}
  BY DEF FileGoes, Change
<1>3. /\ S' = [S EXCEPT ![a] = {l \in @ : l.path # p}]
      /\ K' = [K EXCEPT ![a] = {l \in @ : l.path # p}]
  BY <1>1
<1>4. Service!Lose(a, p)
  BY <1>2, <1>3, SameHandler DEF Service!Lose
<1>5. RoundsInv'
  BY <1>2, SameHandler DEF MappedInv
<1> QED BY <1>4, <1>5 DEF Service!Next, Service!World

LEMMA AgentFailsMaps ==
    ASSUME MappedInv, NEW a \in Agents, AgentFails(a)
    PROVE  Service!Next /\ RoundsInv'
<1>1. /\ UNCHANGED <<handler, files, seen>>
      /\ up' = up \ {a} /\ due' = {l \in due : l.agent # a}
  BY DEF AgentFails, Change
<1>2. Service!Fail(a)
  BY <1>1, SameHandler, SameStore DEF Service!Fail
<1>3. RoundsInv'
  BY <1>1, SameHandler DEF MappedInv
<1> QED BY <1>2, <1>3 DEF Service!Next, Service!World

LEMMA AgentReturnsMaps ==
    ASSUME MappedInv, NEW a \in Agents, AgentReturns(a)
    PROVE  Service!Next /\ RoundsInv'
<1>1. UNCHANGED <<handler, files, seen, due>> /\ up' = up \cup {a}
  BY DEF AgentReturns, Change
<1>2. Service!Return(a)
  BY <1>1, SameHandler, SameStore DEF Service!Return
<1>3. RoundsInv'
  BY <1>1, SameHandler DEF MappedInv
<1> QED BY <1>2, <1>3 DEF Service!Next, Service!World

-----------------------------------------------------------------------------
(* The theorem.                                                             *)

LEMMA InitMaps == Init => Service!Init /\ MappedInv
<1> SUFFICES ASSUME Init PROVE Service!Init /\ MappedInv
  OBVIOUS
<1>1. /\ [a \in Agents |-> LinesOf(a)] \in [Agents -> SUBSET Service!Lines]
      /\ [a \in Agents |-> SureLines(a)] \in [Agents -> SUBSET Service!Lines]
      /\ \A a \in Agents : [b \in Agents |-> SureLines(b)][a] \subseteq [b \in Agents |-> LinesOf(b)][a]
  BY LinesAreLines DEF Service!Lines, Lines
<1>2. Phase = "idle" /\ Question = Service!NoQuestion /\ AnswerNow = Service!NoAnswer
  BY DEF Init, Idle, Phase, Question, AnswerNow, Service!NoQuestion, Service!NoAnswer
<1>3. Service!Init
  BY <1>1, <1>2 DEF Init, Service!Init
<1>4. RoundsInv
  BY NoneIsFew DEF Init, Idle, RoundsInv
<1> QED BY <1>3, <1>4, InitInv DEF MappedInv

LEMMA NextMaps == MappedInv /\ [Next]_vars => [Service!Next]_(Service!vars) /\ MappedInv'
<1> SUFFICES ASSUME MappedInv, [Next]_vars
             PROVE  [Service!Next]_(Service!vars) /\ RoundsInv'
  BY NextInv DEF MappedInv
<1>1. CASE \E op \in {"list", "search"}, interval \in Intervals, active \in SUBSET Agents :
              Request(op, interval, active)
  BY <1>1, RequestMaps
<1>2. CASE \E op \in {"list", "search"}, interval \in Intervals, status \in {400, 405} :
              Refuse(op, interval, status)
  BY <1>2, RefuseMaps
<1>3. CASE Handler
  <2>1. CASE Call \/ AnswerList \/ AnswerSearch \/ CallFails
    BY <2>1, CallMaps, AnswerListMaps, AnswerSearchMaps, CallFailsMaps
  <2>2. CASE EndList \/ EndSearch \/ Filter
    BY <2>2, EndListMaps, EndSearchMaps, FilterMaps DEF Service!Next
  <2>3. CASE Respond
    BY <2>3, RespondMaps DEF Service!Next
  <2> QED BY <1>3, <2>1, <2>2, <2>3 DEF Handler
<1>4. CASE Environment
  BY <1>4, AgentFailsMaps, AgentReturnsMaps, FileGoesMaps, FileGrowsMaps,
     LineFollowsMaps DEF Environment
<1>5. CASE UNCHANGED vars
  <2>1. UNCHANGED <<files, up, handler, due, seen>>
    BY <1>5 DEF vars
  <2> QED BY <2>1, SameHandler, SameStore DEF Service!vars, MappedInv
<1> QED BY <1>1, <1>2, <1>3, <1>4, <1>5 DEF Next

(* The handler with its two rounds of calls to agents that fail, return and *)
(* change their files meanwhile is the service that gives its answer in one *)
(* step: of each file all that is owed or as much as was asked for, no more *)
(* than a search's surplus, and nothing that was not there.                 *)
THEOREM ServiceIsImplemented == Spec => IsService
<1>1. Spec => Service!Init /\ [][Service!Next]_(Service!vars)
  BY InitMaps, NextMaps, PTL DEF Spec
<1> QED BY <1>1 DEF IsService, Service!Spec
==============================================================================
