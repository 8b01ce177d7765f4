--------------------------- MODULE TextSearchProofs ---------------------------
(***************************************************************************)
(* Proofs about IndexBuilder and TextSearch for every interval, count      *)
(* threshold, set of lines and queries and files of any length.  Of the    *)
(* index: its typing, that its entries are those of one scan of the file   *)
(* and, of buckets beyond the threshold, further lines, and that it leads  *)
(* a query to every indexed line of its interval but those of such a       *)
(* bucket that it begins in.  Of a search: its typing, that what it        *)
(* answers are matching records of the file, and that it answers what a    *)
(* scan of the indexed lines would.                                        *)
(***************************************************************************)
EXTENDS TextSearch, SequenceTheorems, FiniteSetTheorems, WellFoundedInduction, TLAPS

-----------------------------------------------------------------------------
(* Arithmetic and sequences.                                                *)

NatLess == {ss \in Nat \X Nat : ss[1] < ss[2]}

(* Sets of naturals have least elements, and bounded ones greatest ones.    *)
LEMMA SmallestExists ==
    ASSUME NEW S, S \subseteq Nat, S # {}
    PROVE  \E i \in S : \A j \in S : i <= j
<1>1. IsWellFoundedOn(NatLess, Nat)
  BY NatLessThanWellFounded DEF OpToRel, NatLess
<1>2. PICK x \in S : \A y \in S : ~ (<<y, x>> \in NatLess)
  BY <1>1, WFMin
<1>3. \A y \in S : ~ (y < x)
  BY <1>2 DEF NatLess
<1> QED BY <1>3

LEMMA LargestExists ==
    ASSUME NEW S, NEW n \in Nat, S \subseteq 0..n, S # {}
    PROVE  \E i \in S : \A j \in S : j <= i
<1> DEFINE T == {n - i : i \in S}
<1>1. T \subseteq Nat /\ T # {}
  <2>1. \A i \in S : n - i \in Nat
    OBVIOUS
  <2> QED BY <2>1
<1>2. PICK t \in T : \A u \in T : t <= u
  BY <1>1, SmallestExists
<1>3. PICK i \in S : t = n - i
  OBVIOUS
<1>4. \A j \in S : n - j \in T
  OBVIOUS
<1>5. \A j \in S : j <= i
  BY <1>2, <1>3, <1>4
<1> QED BY <1>5

(* A bucket starts at most an interval before the time.                     *)
LEMMA BucketBounds ==
    ASSUME NEW ts \in Nat
    PROVE  /\ BucketOf(ts) \in Nat
           /\ BucketOf(ts) <= ts
           /\ ts < BucketOf(ts) + IntervalSeconds
           /\ ts >= IntervalSeconds => BucketOf(ts) > 0
<1>1. ts % IntervalSeconds \in 0..IntervalSeconds - 1 /\ ts % IntervalSeconds <= ts
  BY BuilderAssumption, SMTT(30)
<1> QED BY <1>1, BuilderAssumption DEF BucketOf

(* A bucket starts at a multiple of the interval.                           *)
LEMMA BucketMultiple ==
    ASSUME NEW ts \in Nat, NEW I \in Nat, I > 0
    PROVE  \E q \in Nat : ts - (ts % I) = I * q
  BY SMT

(* Multiples less than a unit apart are in order.                           *)
LEMMA MultiplesApart ==
    ASSUME NEW I \in Nat, I > 0, NEW p \in Nat, NEW q \in Nat, I * p < I * q + I
    PROVE  I * p <= I * q
<1>1. CASE p <= q
  <2>1. q - p \in Nat /\ I * (q - p) >= 0
    BY <1>1
  <2>2. I * q = I * p + I * (q - p)
    BY <2>1, <1>1
  <2> QED BY <2>1, <2>2
<1>2. CASE q + 1 <= p
  <2>1. p - (q + 1) \in Nat /\ I * (p - (q + 1)) >= 0
    BY <1>2
  <2>2. I * p = I * q + I + I * (p - (q + 1))
    BY <2>1, <1>2
  <2> QED BY <2>1, <2>2
<1> QED BY <1>1, <1>2

(* A bucket that starts before another ends starts no later than it.        *)
LEMMA BucketsOrdered ==
    ASSUME NEW a \in Nat, NEW b \in Nat,
           BucketOf(a) < BucketOf(b) + IntervalSeconds
    PROVE  BucketOf(a) <= BucketOf(b)
<1>0. IntervalSeconds \in Nat /\ IntervalSeconds > 0
  BY BuilderAssumption
<1>m. ASSUME NEW t \in Nat PROVE \E q \in Nat : BucketOf(t) = IntervalSeconds * q
  BY <1>0, BucketMultiple DEF BucketOf
<1>1. PICK p \in Nat : BucketOf(a) = IntervalSeconds * p
  BY <1>m
<1>2. PICK q \in Nat : BucketOf(b) = IntervalSeconds * q
  BY <1>m
<1>3. IntervalSeconds * p <= IntervalSeconds * q
  BY <1>0, <1>1, <1>2, MultiplesApart
<1> QED BY <1>1, <1>2, <1>3

(* A time whose bucket starts before another bucket ends is before that end. *)
LEMMA BucketsApart ==
    ASSUME NEW a \in Nat, NEW b \in Nat,
           BucketOf(a) < BucketOf(b) + IntervalSeconds
    PROVE  a < BucketOf(b) + IntervalSeconds
<1>1. a < BucketOf(a) + IntervalSeconds /\ BucketOf(a) \in Nat /\ BucketOf(b) \in Nat
  BY BucketBounds
<1>2. BucketOf(a) <= BucketOf(b)
  BY BucketsOrdered
<1> QED BY <1>1, <1>2, BuilderAssumption

(* Buckets are in the order of the times.                                   *)
LEMMA BucketMonotone ==
    ASSUME NEW a \in Nat, NEW b \in Nat, a <= b
    PROVE  BucketOf(a) <= BucketOf(b)
<1>1. /\ BucketOf(a) \in Nat /\ BucketOf(b) \in Nat
      /\ BucketOf(a) <= a /\ b < BucketOf(b) + IntervalSeconds
  BY BucketBounds
<1>2. BucketOf(a) < BucketOf(b) + IntervalSeconds
  BY <1>1, BuilderAssumption
<1> QED BY <1>2, BucketsOrdered

(* A bucket that starts later starts where the other has ended.             *)
LEMMA BucketBehind ==
    ASSUME NEW a \in Nat, NEW b \in Nat, BucketOf(a) < BucketOf(b)
    PROVE  BucketOf(a) + IntervalSeconds <= BucketOf(b) /\ a < BucketOf(b)
<1>1. BucketOf(a) \in Nat /\ BucketOf(b) \in Nat /\ a < BucketOf(a) + IntervalSeconds
  BY BucketBounds
<1>2. ~(BucketOf(b) < BucketOf(a) + IntervalSeconds)
  BY <1>1, BucketsOrdered
<1> QED BY <1>1, <1>2, BuilderAssumption

-----------------------------------------------------------------------------
(* The inductive invariant.                                                 *)

(* The lines of f that can have an entry: Findable of the file.             *)
Line(f, k) == f[k + 1]
Indexable(f, k) == k < Len(f) /\ Line(f, k).ts # 0 /\ ~Line(f, k).long

TimesAreOrdered(f) ==
    \A i, j \in DOMAIN f :
        i < j /\ f[i].ts # 0 /\ f[j].ts # 0 => f[i].ts <= f[j].ts

(* The lines of a bucket among the first n, and that they are more than the *)
(* threshold: Crowded of the file.                                          *)
Crowd(f, bucket, n) == {k \in 0..n - 1 : Indexable(f, k) /\ BucketOf(Line(f, k).ts) = bucket}
CrowdedIn(f, bucket, n) == Cardinality(Crowd(f, bucket, n)) > CountThreshold

(* Entries point at lines.                                                  *)
EntriesPoint(f, out, n) ==
    \A i \in DOMAIN out :
        /\ out[i].offset <= n /\ Indexable(f, out[i].offset)
        /\ out[i].timestamp = BucketOf(Line(f, out[i].offset).ts)

(* They are in order and, but for those of a bucket that was crowded when   *)
(* its line was reached, one for each bucket.                               *)
EntriesAreSpaced(f, out) ==
    \A i, j \in DOMAIN out : i < j =>
        /\ out[i].offset < out[j].offset
        /\ \/ out[i].timestamp + IntervalSeconds <= out[j].timestamp
           \/ CrowdedIn(f, out[j].timestamp, out[j].offset + 1)

(* The lines before the n-th are in the buckets of the entries before them. *)
EntriesCover(f, out, n) ==
    \A k \in 0..n - 1 : Indexable(f, k) =>
        /\ out # << >> => out[1].offset <= k
        /\ \A i \in DOMAIN out :
              \/ Line(f, k).ts < out[i].timestamp + IntervalSeconds
              \/ i + 1 \in DOMAIN out /\ out[i + 1].offset <= k

Scanned(f, out, n) ==
    EntriesPoint(f, out, n) /\ EntriesAreSpaced(f, out) /\ EntriesCover(f, out, n)

AllButLast(s) == SubSeq(s, 1, Len(s) - 1)

(* The k-th line is the last of the first n within the limit, and timed.    *)
ClosesAt(f, n, k) ==
    k \in 0..n - 1 /\ Indexable(f, k) /\ \A j \in k + 1..n - 1 : Line(f, j).long

(* A published index is such a scan of n lines, or one with a closing entry. *)
ClosedIndex(f, idx, n) ==
    /\ Len(idx) > 1
    /\ Scanned(f, AllButLast(idx), n)
    /\ ClosesAt(f, n, Final(idx).offset)
    /\ Final(idx).timestamp = Line(f, Final(idx).offset).ts
    /\ Final(AllButLast(idx)).offset <= Final(idx).offset

OpenIndex(f, idx, n) ==
    /\ Scanned(f, idx, n) /\ Final(idx).offset < n
    /\ \A k \in 0..n - 1 : ~ClosesAt(f, n, k)

GoodIndex(f, idx, n) ==
    n <= Len(f) /\ (idx # << >> => OpenIndex(f, idx, n) \/ ClosedIndex(f, idx, n))

(* The last line looked at is the last one within the limit.                *)
LastLine(f, b) ==
    IF b.last = NoLine THEN b.pos < b.size /\ Indexable(f, b.pos)
    ELSE /\ b.last \in 0..b.pos - 1 /\ ~Line(f, b.last).long
         /\ Final(b.outputs).offset <= b.last
         /\ \A j \in b.last + 1..b.pos - 1 : Line(f, j).long

(* The lines counted since the last entry are of its bucket.                *)
Counted(f, b) ==
    /\ b.since <= Cardinality(Crowd(f, b.bucket, b.pos))
    /\ b.since > 0 => Final(b.outputs).offset < b.pos

(* The loop has scanned the lines before its position.                      *)
GoodLoop(f, b) ==
    b.pc = "scanning" =>
    /\ Scanned(f, b.outputs, b.pos)
    /\ IF b.outputs = << >>
       THEN /\ b.bucket = 0
            /\ b.pos < b.size => \A k \in 0..b.pos - 1 : ~Indexable(f, k)
       ELSE b.bucket = Final(b.outputs).timestamp /\ LastLine(f, b) /\ Counted(f, b)

(* The loop stays in the file.                                              *)
LoopInFile ==
    builder.pc = "scanning" =>
    /\ builder.pos <= builder.size /\ builder.size <= Len(file)
    /\ builder.last # NoLine => builder.last < builder.size

TypeInv == TypeOK /\ LoopInFile

IInv ==
    /\ TypeInv
    /\ TimesAreOrdered(file)
    /\ GoodIndex(file, index, indexed)
    /\ GoodLoop(file, builder)

-----------------------------------------------------------------------------
(* One line more.                                                           *)

LEMMA EntryFacts ==
    ASSUME NEW out \in Seq(TimeIndexes)
    PROVE  \A i \in DOMAIN out : out[i].offset \in Nat /\ out[i].timestamp \in Nat
<1>1. \A i \in DOMAIN out : out[i] \in TimeIndexes
  OBVIOUS
<1>2. \A t \in TimeIndexes : t.offset \in Nat /\ t.timestamp \in Nat
  BY DEF TimeIndexes
<1> QED BY <1>1, <1>2

(* Lines as the model types them.                                           *)
LEMMA LineFacts ==
    ASSUME NEW f \in Seq(Lines), NEW k \in Nat, k < Len(f)
    PROVE  /\ Line(f, k).ts \in Nat
           /\ Line(f, k).ts # 0 => Line(f, k).ts >= IntervalSeconds
<1>1. k + 1 \in 1..Len(f)
  OBVIOUS
<1>2. f[k + 1] \in Lines
  BY <1>1
<1>3. \A l \in Lines : l.ts \in Nat /\ (l.ts # 0 => l.ts >= IntervalSeconds)
  BY LinesAssumption
<1> QED BY <1>2, <1>3 DEF Line

LEMMA LinesAreOrdered ==
    ASSUME NEW f \in Seq(Lines), TimesAreOrdered(f), NEW j \in Nat, NEW k \in Nat,
           j <= k, Indexable(f, j), Indexable(f, k)
    PROVE  Line(f, j).ts <= Line(f, k).ts
<1>1. CASE j = k
  BY <1>1, LineFacts DEF Indexable
<1>2. CASE j < k
  <2>1. j + 1 \in DOMAIN f /\ k + 1 \in DOMAIN f
    BY <1>2 DEF Indexable
  <2> QED BY <1>2, <2>1 DEF TimesAreOrdered, Indexable, Line
<1> QED BY <1>1, <1>2

(* The lines of a bucket can be counted,                                    *)
LEMMA CrowdFacts ==
    ASSUME NEW f, NEW b, NEW n \in Nat
    PROVE  /\ IsFiniteSet(Crowd(f, b, n)) /\ Cardinality(Crowd(f, b, n)) \in Nat
           /\ Crowd(f, b, n) \subseteq 0..n - 1
<1>1. Crowd(f, b, n) \subseteq 0..n - 1
  BY DEF Crowd
<1>2. IsFiniteSet(0..n - 1)
  BY FS_Interval
<1>3. IsFiniteSet(Crowd(f, b, n))
  BY <1>1, <1>2, FS_Subset
<1> QED BY <1>1, <1>3, FS_CardinalityType

(* grow in number with the lines that are looked at,                        *)
LEMMA CrowdGrows ==
    ASSUME NEW f, NEW b, NEW m \in Nat, NEW n \in Nat, m <= n
    PROVE  /\ Cardinality(Crowd(f, b, m)) <= Cardinality(Crowd(f, b, n))
           /\ CrowdedIn(f, b, m) => CrowdedIn(f, b, n)
<1>0. 0..m - 1 \subseteq 0..n - 1
  OBVIOUS
<1>1. Crowd(f, b, m) \subseteq Crowd(f, b, n)
  BY <1>0 DEF Crowd
<1>2. Cardinality(Crowd(f, b, m)) <= Cardinality(Crowd(f, b, n))
  BY <1>1, CrowdFacts, FS_Subset
<1>3. Cardinality(Crowd(f, b, m)) \in Nat /\ Cardinality(Crowd(f, b, n)) \in Nat
      /\ CountThreshold \in Nat
  BY CrowdFacts, BuilderAssumption
<1> QED BY <1>2, <1>3 DEF CrowdedIn

LEMMA CrowdAdds ==
    ASSUME NEW f, NEW n \in Nat, Indexable(f, n)
    PROVE  LET b == BucketOf(Line(f, n).ts)
           IN Cardinality(Crowd(f, b, n + 1)) = Cardinality(Crowd(f, b, n)) + 1
<1> DEFINE b == BucketOf(Line(f, n).ts)
<1>1. \A k \in 0..n + 1 - 1 : k = n \/ k \in 0..n - 1
  OBVIOUS
<1>2. n \in 0..n + 1 - 1 /\ 0..n - 1 \subseteq 0..n + 1 - 1
  OBVIOUS
<1>3. Crowd(f, b, n + 1) = Crowd(f, b, n) \cup {n}
  BY <1>1, <1>2 DEF Crowd
<1>4. n \notin Crowd(f, b, n)
  BY DEF Crowd
<1> HIDE DEF b
<1> QED BY <1>3, <1>4, CrowdFacts, FS_AddElement DEF b

(* and are the same of another file that begins with these lines.           *)
LEMMA CrowdSame ==
    ASSUME NEW f, NEW g, NEW b, NEW n \in Nat,
           \A k \in 0..n - 1 : /\ Line(f, k) = Line(g, k)
                               /\ Indexable(f, k) <=> Indexable(g, k)
    PROVE  /\ Crowd(f, b, n) = Crowd(g, b, n)
           /\ CrowdedIn(f, b, n) <=> CrowdedIn(g, b, n)
<1>1. Crowd(f, b, n) = Crowd(g, b, n)
  BY DEF Crowd
<1> QED BY <1>1 DEF CrowdedIn

(* Later entries have no earlier times.                                     *)
LEMMA EntriesAreOrdered ==
    ASSUME NEW f \in Seq(Lines), TimesAreOrdered(f), NEW out \in Seq(TimeIndexes), NEW n \in Nat,
           Scanned(f, out, n), NEW i \in DOMAIN out, NEW k \in Nat, Indexable(f, k),
           out[i].offset <= k
    PROVE  out[i].timestamp <= BucketOf(Line(f, k).ts)
<1>1. /\ Indexable(f, out[i].offset) /\ out[i].offset \in Nat
      /\ out[i].timestamp = BucketOf(Line(f, out[i].offset).ts)
  BY EntryFacts DEF Scanned, EntriesPoint
<1>2. Line(f, out[i].offset).ts <= Line(f, k).ts
  BY <1>1, LinesAreOrdered
<1>3. Line(f, out[i].offset).ts \in Nat /\ Line(f, k).ts \in Nat
  BY <1>1, LineFacts DEF Indexable
<1> QED BY <1>1, <1>2, <1>3, BucketMonotone

LEMMA TimesOfEntries ==
    ASSUME NEW f \in Seq(Lines), TimesAreOrdered(f), NEW out \in Seq(TimeIndexes), NEW n \in Nat,
           Scanned(f, out, n), NEW i \in DOMAIN out, NEW j \in DOMAIN out, i < j
    PROVE  out[i].timestamp <= out[j].timestamp
<1>1. /\ Indexable(f, out[j].offset) /\ out[j].offset \in Nat
      /\ out[j].timestamp = BucketOf(Line(f, out[j].offset).ts)
  BY EntryFacts DEF Scanned, EntriesPoint
<1>2. out[i].offset < out[j].offset /\ out[i].offset \in Nat
  BY EntryFacts DEF Scanned, EntriesAreSpaced
<1>3. out[i].offset <= out[j].offset
  BY <1>1, <1>2
<1> QED BY <1>1, <1>3, EntriesAreOrdered

(* A line that is no candidate for an entry changes nothing.                *)
LEMMA ScanSkips ==
    ASSUME NEW f \in Seq(Lines), NEW out \in Seq(TimeIndexes), NEW n \in Nat,
           Scanned(f, out, n), ~Indexable(f, n)
    PROVE  Scanned(f, out, n + 1)
<1>1. EntriesPoint(f, out, n + 1)
  BY EntryFacts DEF Scanned, EntriesPoint
<1>2. EntriesCover(f, out, n + 1)
  BY DEF Scanned, EntriesCover
<1> QED BY <1>1, <1>2 DEF Scanned

(* So does a line of the last entry's bucket.                               *)
LEMMA ScanStays ==
    ASSUME NEW f \in Seq(Lines), NEW out \in Seq(TimeIndexes), NEW n \in Nat, Scanned(f, out, n),
           out # << >>, Indexable(f, n),
           BucketOf(Line(f, n).ts) < Final(out).timestamp + IntervalSeconds
    PROVE  Scanned(f, out, n + 1)
<1>1. EntriesPoint(f, out, n + 1)
  BY EntryFacts DEF Scanned, EntriesPoint
<1>2. Len(out) \in DOMAIN out /\ 1 \in DOMAIN out
  OBVIOUS
<1>3. Line(f, n).ts < Final(out).timestamp + IntervalSeconds
  <2>1. /\ Indexable(f, Final(out).offset) /\ Final(out).offset \in Nat
        /\ Final(out).timestamp = BucketOf(Line(f, Final(out).offset).ts)
    BY <1>2, EntryFacts DEF Scanned, EntriesPoint, Final
  <2>2. Line(f, Final(out).offset).ts \in Nat /\ Line(f, n).ts \in Nat
    BY <2>1, LineFacts DEF Indexable
  <2> QED BY <2>1, <2>2, BucketsApart
<1>4. ASSUME NEW k \in 0..n, Indexable(f, k)
      PROVE  /\ out[1].offset <= k
             /\ \A i \in DOMAIN out :
                   \/ Line(f, k).ts < out[i].timestamp + IntervalSeconds
                   \/ i + 1 \in DOMAIN out /\ out[i + 1].offset <= k
  <2>1. CASE k = n
    <3>1. \A i \in DOMAIN out : out[i].offset <= n
      BY DEF Scanned, EntriesPoint
    <3>2. \A i \in DOMAIN out : i = Len(out) \/ i + 1 \in DOMAIN out
      OBVIOUS
    <3> QED BY <1>2, <1>3, <2>1, <3>1, <3>2 DEF Final
  <2>2. CASE k \in 0..n - 1
    BY <1>4, <2>2 DEF Scanned, EntriesCover
  <2> QED BY <2>1, <2>2
<1>5. EntriesCover(f, out, n + 1)
  BY <1>4 DEF EntriesCover
<1> QED BY <1>1, <1>5 DEF Scanned

(* A line of a later bucket, or of one that is crowded with it, gets the    *)
(* next entry.                                                              *)
LEMMA ScanAdds ==
    ASSUME NEW f \in Seq(Lines), TimesAreOrdered(f),
           NEW out \in Seq(TimeIndexes), NEW n \in Nat, Scanned(f, out, n), Indexable(f, n),
           out = << >> => \A k \in 0..n - 1 : ~Indexable(f, k),
           out # << >> => /\ Final(out).offset < n
                          /\ \/ BucketOf(Line(f, n).ts) >= Final(out).timestamp + IntervalSeconds
                             \/ CrowdedIn(f, BucketOf(Line(f, n).ts), n + 1)
    PROVE  Scanned(f, Append(out, [timestamp |-> BucketOf(Line(f, n).ts), offset |-> n]), n + 1)
<1> DEFINE entry == [timestamp |-> BucketOf(Line(f, n).ts), offset |-> n]
           new == Append(out, entry)
           L == Len(out)
<1>1. /\ L \in Nat /\ DOMAIN out = 1..L /\ DOMAIN new = 1..L + 1
      /\ new[L + 1] = entry /\ \A i \in 1..L : new[i] = out[i]
  OBVIOUS
<1>2. entry.offset = n /\ entry.timestamp = BucketOf(Line(f, n).ts)
  OBVIOUS
<1>3. Line(f, n).ts \in Nat /\ BucketOf(Line(f, n).ts) \in Nat
      /\ Line(f, n).ts < BucketOf(Line(f, n).ts) + IntervalSeconds
  BY LineFacts, BucketBounds DEF Indexable
<1>4. \A i \in 1..L : out[i].offset \in Nat /\ out[i].timestamp \in Nat
  BY EntryFacts
<1> HIDE DEF entry, new, L
<1>5. \A i \in 1..L : /\ out[i].offset < n
                       /\ \/ out[i].timestamp + IntervalSeconds <= entry.timestamp
                          \/ CrowdedIn(f, entry.timestamp, n + 1)
  <2> SUFFICES ASSUME NEW i \in 1..L
               PROVE  /\ out[i].offset < n
                      /\ \/ out[i].timestamp + IntervalSeconds <= entry.timestamp
                         \/ CrowdedIn(f, entry.timestamp, n + 1)
    OBVIOUS
  <2>1. out # << >> /\ Final(out) = out[L] /\ L \in 1..L /\ i \in DOMAIN out /\ L \in DOMAIN out
    BY <1>1 DEF Final, L
  <2>2. /\ out[L].offset < n
        /\ \/ out[L].timestamp + IntervalSeconds <= entry.timestamp
           \/ CrowdedIn(f, entry.timestamp, n + 1)
    BY <2>1, <1>2
  <2>3. i = L \/ i < L
    BY <1>1
  <2>4. i < L => out[i].offset < out[L].offset /\ out[i].timestamp <= out[L].timestamp
    BY <2>1, TimesOfEntries DEF Scanned, EntriesAreSpaced
  <2>5. /\ out[i].offset \in Nat /\ out[L].offset \in Nat /\ IntervalSeconds \in Nat
        /\ out[i].timestamp \in Nat /\ out[L].timestamp \in Nat /\ entry.timestamp \in Nat
    BY <2>1, <1>2, <1>3, <1>4, BuilderAssumption
  <2>6. out[i].offset < n
    BY <2>2, <2>3, <2>4, <2>5
  <2>7. out[L].timestamp + IntervalSeconds <= entry.timestamp
            => out[i].timestamp + IntervalSeconds <= entry.timestamp
    <3>1. \A a, b, c, d \in Nat : a <= b /\ b + d <= c => a + d <= c
      OBVIOUS
    <3>2. out[i].timestamp <= out[L].timestamp
      BY <2>3, <2>4, <2>5
    <3> QED BY <2>5, <3>1, <3>2
  <2> QED BY <2>2, <2>6, <2>7
<1>6. EntriesPoint(f, new, n + 1)
  <2>1. \A i \in 1..L : /\ out[i].offset <= n /\ Indexable(f, out[i].offset)
                         /\ out[i].timestamp = BucketOf(Line(f, out[i].offset).ts)
    BY <1>1 DEF Scanned, EntriesPoint
  <2>2. \A i \in 1..L + 1 : i = L + 1 \/ i \in 1..L
    BY <1>1
  <2> QED BY <1>1, <1>2, <1>4, <2>1, <2>2 DEF EntriesPoint
<1>7. EntriesAreSpaced(f, new)
  <2>1. \A i, j \in 1..L : i < j =>
            /\ out[i].offset < out[j].offset
            /\ \/ out[i].timestamp + IntervalSeconds <= out[j].timestamp
               \/ CrowdedIn(f, out[j].timestamp, out[j].offset + 1)
    BY <1>1 DEF Scanned, EntriesAreSpaced
  <2>2. \A i \in 1..L + 1 : i = L + 1 \/ i \in 1..L
    BY <1>1
  <2> QED BY <1>1, <1>2, <1>5, <2>1, <2>2 DEF EntriesAreSpaced
<1>8. ASSUME NEW k \in 0..n, Indexable(f, k)
      PROVE  /\ new[1].offset <= k
             /\ \A i \in DOMAIN new :
                   \/ Line(f, k).ts < new[i].timestamp + IntervalSeconds
                   \/ i + 1 \in DOMAIN new /\ new[i + 1].offset <= k
  <2>1. CASE k = n
    <3>1. \A i \in 1..L + 1 : new[i].offset <= n
      BY <1>1, <1>2, <1>4, <1>5
    <3>2. \A i \in 1..L : i + 1 \in 1..L + 1
      BY <1>1
    <3>3. 1 \in 1..L + 1 /\ \A i \in 1..L + 1 : i = L + 1 \/ i \in 1..L
      BY <1>1
    <3>4. Line(f, k).ts < new[L + 1].timestamp + IntervalSeconds
      BY <1>1, <1>2, <1>3, <2>1
    <3> QED BY <1>1, <2>1, <3>1, <3>2, <3>3, <3>4
  <2>2. CASE k \in 0..n - 1
    <3>1. out # << >> /\ L >= 1
      BY <1>8, <2>2, <1>1 DEF L
    <3>2. /\ out[1].offset <= k
          /\ \A i \in 1..L :
                \/ Line(f, k).ts < out[i].timestamp + IntervalSeconds
                \/ i + 1 \in 1..L /\ out[i + 1].offset <= k
      BY <1>1, <1>8, <2>2, <3>1 DEF Scanned, EntriesCover
    <3>3. Line(f, k).ts <= Line(f, n).ts /\ Line(f, k).ts \in Nat
      BY <1>8, LinesAreOrdered, LineFacts DEF Indexable
    <3>4. Line(f, k).ts < new[L + 1].timestamp + IntervalSeconds
      BY <1>1, <1>2, <1>3, <3>3, BuilderAssumption
    <3>5. 1 \in 1..L /\ \A i \in 1..L + 1 : i = L + 1 \/ i \in 1..L
      BY <1>1, <3>1
    <3>6. \A i \in 1..L : i + 1 \in 1..L => i + 1 \in 1..L + 1
      BY <1>1
    <3> QED BY <1>1, <3>2, <3>4, <3>5, <3>6
  <2> QED BY <2>1, <2>2
<1>9. EntriesCover(f, new, n + 1)
  BY <1>8 DEF EntriesCover
<1> QED BY <1>6, <1>7, <1>9 DEF Scanned, new, entry

-----------------------------------------------------------------------------
(* Resuming.                                                                *)

(* A scan says the same of fewer lines, down to its last entry.             *)
LEMMA ScanShortens ==
    ASSUME NEW f \in Seq(Lines), NEW out \in Seq(TimeIndexes), NEW n \in Nat, NEW m \in Nat,
           Scanned(f, out, n), m <= n, out # << >>, Final(out).offset <= m
    PROVE  Scanned(f, out, m)
<1>1. \A i \in DOMAIN out : out[i].offset <= m
  <2>1. Len(out) \in DOMAIN out /\ \A i \in DOMAIN out : i = Len(out) \/ i < Len(out)
    OBVIOUS
  <2> QED BY <2>1, EntryFacts DEF Scanned, EntriesAreSpaced, Final
<1>2. 0..m - 1 \subseteq 0..n - 1
  OBVIOUS
<1> QED BY <1>1, <1>2 DEF Scanned, EntriesPoint, EntriesCover

LEMMA AllButLastFacts ==
    ASSUME NEW out \in Seq(TimeIndexes), Len(out) > 1
    PROVE  /\ AllButLast(out) \in Seq(TimeIndexes) /\ AllButLast(out) # << >>
           /\ Len(AllButLast(out)) = Len(out) - 1
           /\ DOMAIN AllButLast(out) = 1..Len(out) - 1
           /\ \A i \in 1..Len(out) - 1 : AllButLast(out)[i] = out[i]
           /\ Final(AllButLast(out)) = out[Len(out) - 1]
<1>1. AllButLast(out) \in Seq(TimeIndexes) /\ Len(AllButLast(out)) = Len(out) - 1
      /\ \A i \in 1..Len(out) - 1 : AllButLast(out)[i] = out[i]
  BY DEF AllButLast
<1>2. Len(out) - 1 \in 1..Len(out) - 1
  OBVIOUS
<1> QED BY <1>1, <1>2 DEF Final

(* Without its last entry a scan ends there.                                *)
LEMMA ScanResumes ==
    ASSUME NEW f \in Seq(Lines), NEW out \in Seq(TimeIndexes), NEW n \in Nat,
           Scanned(f, out, n), Len(out) > 1
    PROVE  Scanned(f, AllButLast(out), Final(out).offset)
<1> DEFINE g == AllButLast(out)
           L == Len(out)
           k0 == out[L].offset
<1>1. /\ L \in Nat /\ L > 1 /\ DOMAIN out = 1..L /\ DOMAIN g = 1..L - 1
      /\ \A i \in 1..L - 1 : g[i] = out[i]
      /\ Final(out) = out[L] /\ g # << >>
  BY AllButLastFacts DEF Final
<1>2. k0 \in Nat /\ k0 <= n /\ \A i \in 1..L - 1 : out[i].offset < k0 /\ out[i].offset \in Nat
  <2>1. L \in DOMAIN out /\ \A i \in 1..L - 1 : i \in DOMAIN out /\ i < L
    BY <1>1
  <2> QED BY <2>1, EntryFacts DEF Scanned, EntriesPoint, EntriesAreSpaced
<1> HIDE DEF g, L, k0
<1>3. EntriesPoint(f, g, k0)
  <2>1. \A i \in 1..L - 1 : i \in 1..L
    BY <1>1
  <2> QED BY <1>1, <1>2, <2>1 DEF Scanned, EntriesPoint
<1>4. EntriesAreSpaced(f, g)
  <2>1. \A i \in 1..L - 1 : i \in 1..L
    BY <1>1
  <2> QED BY <1>1, <2>1 DEF Scanned, EntriesAreSpaced
<1>5. ASSUME NEW k \in 0..k0 - 1, Indexable(f, k)
      PROVE  /\ g[1].offset <= k
             /\ \A i \in DOMAIN g :
                   \/ Line(f, k).ts < g[i].timestamp + IntervalSeconds
                   \/ i + 1 \in DOMAIN g /\ g[i + 1].offset <= k
  <2>1. k \in 0..n - 1 /\ out # << >>
    BY <1>1, <1>2
  <2>2. /\ out[1].offset <= k
        /\ \A i \in 1..L :
              \/ Line(f, k).ts < out[i].timestamp + IntervalSeconds
              \/ i + 1 \in 1..L /\ out[i + 1].offset <= k
    BY <1>1, <1>5, <2>1 DEF Scanned, EntriesCover
  <2>3. 1 \in 1..L - 1 /\ g[1] = out[1]
    BY <1>1
  <2>4. ASSUME NEW i \in 1..L - 1, ~(Line(f, k).ts < g[i].timestamp + IntervalSeconds)
        PROVE  i + 1 \in 1..L - 1 /\ g[i + 1].offset <= k
    <3>1. i \in 1..L /\ i + 1 \in 1..L /\ out[i + 1].offset <= k
      BY <1>1, <2>2, <2>4
    <3>2. i + 1 # L
      BY <1>2, <3>1 DEF k0
    <3>3. i + 1 \in 1..L - 1
      BY <1>1, <3>1, <3>2
    <3> QED BY <1>1, <3>1, <3>3
  <2> QED BY <1>1, <2>2, <2>3, <2>4
<1>6. EntriesCover(f, g, k0)
  BY <1>5 DEF EntriesCover
<1> QED BY <1>1, <1>3, <1>4, <1>6 DEF Scanned, g, k0

(* The last entry of the published index is a line the loop can resume at,  *)
(* with the other entries as the scan so far.                               *)
LEMMA IndexResumes ==
    ASSUME NEW f \in Seq(Lines), NEW idx \in Seq(TimeIndexes), NEW n \in Nat,
           GoodIndex(f, idx, n), Len(idx) > 1
    PROVE  /\ Final(idx).offset \in Nat
           /\ Indexable(f, Final(idx).offset)
           /\ Scanned(f, AllButLast(idx), Final(idx).offset)
<1>1. idx # << >> /\ Len(idx) \in DOMAIN idx
  OBVIOUS
<1>2. Final(idx).offset \in Nat
  BY <1>1, EntryFacts DEF Final
<1>3. CASE OpenIndex(f, idx, n)
  <2>1. Scanned(f, AllButLast(idx), Final(idx).offset)
    BY <1>3, ScanResumes DEF OpenIndex
  <2>2. Indexable(f, Final(idx).offset)
    BY <1>1, <1>3 DEF OpenIndex, Scanned, EntriesPoint, Final
  <2> QED BY <1>2, <2>1, <2>2
<1>4. CASE ClosedIndex(f, idx, n)
  <2>1. Indexable(f, Final(idx).offset) /\ Final(idx).offset < n
    BY <1>4 DEF ClosedIndex, ClosesAt
  <2>2. /\ AllButLast(idx) \in Seq(TimeIndexes) /\ AllButLast(idx) # << >>
        /\ Final(AllButLast(idx)).offset <= Final(idx).offset
    BY <1>4, AllButLastFacts DEF ClosedIndex
  <2>3. Scanned(f, AllButLast(idx), Final(idx).offset)
    BY <1>2, <1>4, <2>1, <2>2, ScanShortens DEF ClosedIndex
  <2> QED BY <1>2, <2>1, <2>3
<1> QED BY <1>1, <1>3, <1>4 DEF GoodIndex

-----------------------------------------------------------------------------
(* Typing.                                                                  *)

LEMMA ClosedType ==
    ASSUME TypeInv, builder.pc = "scanning"
    PROVE  Closed \in Seq(TimeIndexes)
<1>1. builder.outputs \in Seq(TimeIndexes)
  BY DEF TypeInv, TypeOK, Builders
<1>2. ASSUME builder.last # NoLine
      PROVE  [timestamp |-> LineAt(builder.last).ts, offset |-> builder.last]
                \in TimeIndexes
  <2>1. builder.last \in Nat /\ builder.last < Len(file) /\ file \in Seq(Lines)
    BY <1>2, BuilderAssumption DEF TypeInv, TypeOK, Builders, LoopInFile, NoLine
  <2>2. Line(file, builder.last).ts \in Nat
    BY <2>1, LineFacts
  <2> QED BY <2>1, <2>2 DEF Line, LineAt, TimeIndexes
<1> QED BY <1>1, <1>2 DEF Closed

(* The updates of the loop's record keep its type.                          *)
LEMMA SkipLongType ==
    ASSUME NEW b \in Builders, NEW p \in 0..MaxLines, NEW k \in Nat
    PROVE  [b EXCEPT !.pos = p, !.skipped = k] \in Builders
  BY DEF Builders

LEMMA SkipUntimedType ==
    ASSUME NEW b \in Builders, NEW p \in 0..MaxLines, NEW k \in Nat, NEW l \in -1..MaxLines
    PROVE  [b EXCEPT !.skipped = k, !.last = l, !.pos = p] \in Builders
  BY DEF Builders

LEMMA IndexTimedType ==
    ASSUME NEW b \in Builders, NEW p \in 0..MaxLines, NEW n \in Nat, NEW l \in -1..MaxLines
    PROVE  /\ [b EXCEPT !.since = n, !.last = l, !.pos = p] \in Builders
           /\ \A o \in Seq(TimeIndexes), k \in Nat :
                 [b EXCEPT !.outputs = o, !.bucket = k, !.since = n, !.last = l, !.pos = p]
                     \in Builders
  BY DEF Builders

LEMMA BeginType ==
    ASSUME NEW n \in 0..MaxLines
    PROVE  /\ Idle \in Builders
           /\ [Idle EXCEPT !.pc = "scanning", !.size = n] \in Builders
           /\ \A p \in 0..MaxLines, o \in Seq(TimeIndexes), k \in Nat :
                 [Idle EXCEPT !.pc = "scanning", !.size = n, !.pos = p, !.outputs = o,
                              !.bucket = k] \in Builders
<1>1. Idle \in Builders
  BY BuilderAssumption DEF Idle, Builders, NoLine
<1> QED BY <1>1 DEF Builders

(* A turn of the loop that advances within the mapping keeps the typing.    *)
LEMMA LoopAdvances ==
    ASSUME TypeInv, Scanning, UNCHANGED <<file, index, indexed>>,
           builder' \in Builders, builder'.pc = builder.pc, builder'.size = builder.size,
           builder'.pos \in {builder.pos + 1, builder.size},
           builder'.last \in {builder.last, builder.pos}
    PROVE  TypeInv'
<1>1. builder.pos \in Nat /\ builder.size \in Nat
  BY DEF TypeInv, TypeOK, Builders
<1>2. TypeOK'
  BY DEF TypeInv, TypeOK
<1>3. LoopInFile'
  BY <1>1 DEF TypeInv, LoopInFile, Scanning
<1> QED BY <1>2, <1>3 DEF TypeInv

LEMMA TypeStep == TypeInv /\ [Next]_vars => TypeInv'
<1> SUFFICES ASSUME TypeInv, [Next]_vars PROVE TypeInv'
  OBVIOUS
<1>0. /\ file \in Seq(Lines) /\ Len(file) \in Nat /\ Len(file) <= MaxLines
      /\ index \in Seq(TimeIndexes) /\ indexed \in 0..MaxLines /\ builder \in Builders
      /\ MaxLines \in Nat
      /\ builder.pc = "scanning" => /\ builder.pos <= builder.size
                                     /\ builder.size <= Len(file)
  BY BuilderAssumption DEF TypeInv, TypeOK, LoopInFile
<1>1. ASSUME NEW l \in Lines, AppendLine(l) PROVE TypeInv'
  <2>1. file' \in Seq(Lines) /\ Len(file') = Len(file) + 1 /\ Len(file) < MaxLines
    BY <1>0, <1>1 DEF AppendLine
  <2>2. UNCHANGED <<index, indexed, builder>>
    BY <1>1 DEF AppendLine
  <2>3. builder.pc = "scanning" => builder.size \in Nat
    BY <1>0 DEF Builders
  <2>4. TypeOK'
    BY <1>0, <2>1, <2>2 DEF TypeOK
  <2>5. LoopInFile'
    BY <1>0, <2>1, <2>2, <2>3 DEF TypeInv, LoopInFile
  <2> QED BY <2>4, <2>5 DEF TypeInv
<1>2. CASE Begin
  <2>1. ASSUME Len(index) > 1, Final(index).offset < Len(file)
        PROVE  /\ Final(index).offset \in 0..MaxLines
               /\ SubSeq(index, 1, Len(index) - 1) \in Seq(TimeIndexes)
               /\ index[Len(index) - 1].timestamp \in Nat
    BY <1>0, <2>1, EntryFacts DEF Final
  <2>2. Len(file) \in 0..MaxLines /\ 0 \in 0..MaxLines
    BY <1>0
  <2>3. CASE Len(index) > 1 /\ Final(index).offset < Len(file)
    <3>1. builder' = [Idle EXCEPT !.pc = "scanning", !.size = Len(file),
                           !.pos = Final(index).offset,
                           !.outputs = SubSeq(index, 1, Len(index) - 1),
                           !.bucket = index[Len(index) - 1].timestamp]
      BY <1>2, <2>3 DEF Begin
    <3>2. builder' \in Builders
      BY <2>1, <2>2, <2>3, <3>1, BeginType
    <3>3. builder'.pos <= Len(file) /\ builder'.size = Len(file) /\ builder'.last = NoLine
      BY <1>0, <2>1, <2>3, <3>1 DEF Idle
    <3> QED BY <1>0, <1>2, <3>2, <3>3 DEF Begin, TypeInv, TypeOK, LoopInFile
  <2>4. CASE ~(Len(index) > 1 /\ Final(index).offset < Len(file))
    <3>1. builder' = [Idle EXCEPT !.pc = "scanning", !.size = Len(file)]
      BY <1>2, <2>4 DEF Begin
    <3>2. builder' \in Builders
      BY <2>2, <3>1, BeginType
    <3>3. builder'.pos <= Len(file) /\ builder'.size = Len(file) /\ builder'.last = NoLine
      BY <1>0, <3>1 DEF Idle
    <3> QED BY <1>0, <1>2, <3>2, <3>3 DEF Begin, TypeInv, TypeOK, LoopInFile
  <2> QED BY <2>3, <2>4
<1>3. CASE SkipLong
  <2>1. builder.pos + 1 \in 0..MaxLines /\ builder.skipped + 1 \in Nat
    BY <1>0, <1>3 DEF SkipLong, Scanning, Builders
  <2>2. builder' = [builder EXCEPT !.pos = builder.pos + 1, !.skipped = builder.skipped + 1]
    BY <1>3 DEF SkipLong
  <2>3. builder' \in Builders
    BY <1>0, <2>1, <2>2, SkipLongType
  <2>4. builder'.pos = builder.pos + 1 /\ builder'.pc = builder.pc
        /\ builder'.size = builder.size /\ builder'.last = builder.last
    BY <1>0, <2>2 DEF Builders
  <2> QED BY <1>3, <2>3, <2>4, LoopAdvances DEF SkipLong
<1>4. CASE SkipUntimed
  <2>1. PICK p \in {builder.pos + 1, builder.size} :
            builder' = [builder EXCEPT !.skipped = builder.skipped + 1,
                                       !.last = builder.pos, !.pos = p]
    BY <1>4 DEF SkipUntimed
  <2>2. p \in 0..MaxLines /\ builder.skipped + 1 \in Nat /\ builder.pos \in -1..MaxLines
    BY <1>0, <1>4 DEF SkipUntimed, Scanning, Builders
  <2>3. builder' \in Builders
    BY <1>0, <2>1, <2>2, SkipUntimedType
  <2>4. builder'.pos = p /\ builder'.pc = builder.pc
        /\ builder'.size = builder.size /\ builder'.last = builder.pos
    BY <1>0, <2>1 DEF Builders
  <2> QED BY <1>4, <2>3, <2>4, LoopAdvances DEF SkipUntimed
<1>5. CASE IndexTimed
  <2>1. /\ builder.pos \in Nat /\ builder.pos + 1 \in 0..MaxLines
        /\ builder.pos \in -1..MaxLines /\ builder.pos < Len(file)
        /\ builder.since + 1 \in Nat
    BY <1>0, <1>5 DEF IndexTimed, Scanning, Builders
  <2> DEFINE bucket == BucketOf(LineAt(builder.pos).ts)
             entry == [timestamp |-> bucket, offset |-> builder.pos]
  <2>2. bucket \in Nat
    BY <1>0, <2>1, LineFacts, BucketBounds DEF LineAt, Line
  <2>3. Append(builder.outputs, entry) \in Seq(TimeIndexes)
    BY <1>0, <2>1, <2>2 DEF TimeIndexes, Builders
  <2>4. \/ builder' = [builder EXCEPT !.outputs = Append(builder.outputs, entry),
                          !.bucket = bucket, !.since = 1, !.last = builder.pos,
                          !.pos = builder.pos + 1]
        \/ builder' = [builder EXCEPT !.since = builder.since + 1,
                          !.last = builder.pos, !.pos = builder.pos + 1]
    BY <1>5 DEF IndexTimed
  <2> HIDE DEF bucket, entry
  <2>5. builder' \in Builders
    <3>1. 1 \in Nat
      OBVIOUS
    <3>2. [builder EXCEPT !.outputs = Append(builder.outputs, entry),
             !.bucket = bucket, !.since = 1, !.last = builder.pos,
             !.pos = builder.pos + 1] \in Builders
      BY <1>0, <2>1, <2>2, <2>3, <3>1, IndexTimedType
    <3>3. [builder EXCEPT !.since = builder.since + 1,
             !.last = builder.pos, !.pos = builder.pos + 1] \in Builders
      BY <1>0, <2>1, IndexTimedType
    <3> QED BY <2>4, <3>2, <3>3
  <2>6. builder'.pos = builder.pos + 1 /\ builder'.pc = builder.pc
        /\ builder'.size = builder.size /\ builder'.last = builder.pos
    BY <1>0, <2>4 DEF Builders
  <2> QED BY <1>5, <2>5, <2>6, LoopAdvances DEF IndexTimed
<1>6. CASE Publish
  <2>1. Closed \in Seq(TimeIndexes)
    BY <1>6, ClosedType DEF Publish
  <2>2. Idle \in Builders /\ Idle.pc # "scanning"
    BY <1>0 DEF Idle, Builders, NoLine
  <2>3. builder.size \in 0..MaxLines
    BY <1>0 DEF Builders
  <2> QED BY <1>0, <1>6, <2>1, <2>2, <2>3 DEF Publish, TypeInv, TypeOK, LoopInFile
<1>7. CASE UNCHANGED vars
  BY <1>7 DEF vars, TypeInv, TypeOK, LoopInFile
<1> QED BY <1>1, <1>2, <1>3, <1>4, <1>5, <1>6, <1>7 DEF Next

(* Every variable keeps its type.                                           *)
THEOREM TypeCorrect == Spec => []TypeOK
<1>1. Init => TypeInv
  <2>1. Idle \in Builders /\ Idle.pc # "scanning"
    BY BuilderAssumption DEF Idle, Builders, NoLine
  <2> QED BY <2>1, BuilderAssumption DEF Init, TypeInv, TypeOK, LoopInFile
<1>2. TypeInv => TypeOK
  BY DEF TypeInv
<1> QED BY <1>1, <1>2, TypeStep, PTL DEF Spec

-----------------------------------------------------------------------------
(* Lines appended behind a scan do not matter to it.                        *)

LEMMA AppendKeepsLines ==
    ASSUME NEW f \in Seq(Lines), NEW l \in Lines, NEW k \in Nat, k < Len(f)
    PROVE  /\ Line(Append(f, l), k) = Line(f, k)
           /\ Indexable(Append(f, l), k) <=> Indexable(f, k)
<1>1. k + 1 \in 1..Len(f) /\ k < Len(Append(f, l))
  OBVIOUS
<1>2. Append(f, l)[k + 1] = f[k + 1]
  BY <1>1
<1> QED BY <1>1, <1>2 DEF Line, Indexable

LEMMA AppendKeepsScan ==
    ASSUME NEW f \in Seq(Lines), NEW l \in Lines, NEW out \in Seq(TimeIndexes),
           NEW n \in Nat, n <= Len(f), Scanned(f, out, n)
    PROVE  Scanned(Append(f, l), out, n)
<1> DEFINE g == Append(f, l)
<1>1. \A k \in Nat : k < Len(f) =>
          Line(g, k) = Line(f, k) /\ (Indexable(g, k) <=> Indexable(f, k))
  BY AppendKeepsLines
<1>2. \A i \in DOMAIN out : out[i].offset \in Nat /\ out[i].offset < Len(f)
  BY EntryFacts DEF Scanned, EntriesPoint, Indexable
<1>3. \A k \in 0..n - 1 : k \in Nat /\ k < Len(f)
  OBVIOUS
<1> HIDE DEF g
<1>4. EntriesPoint(g, out, n)
  BY <1>1, <1>2 DEF Scanned, EntriesPoint
<1>5. EntriesCover(g, out, n)
  BY <1>1, <1>3 DEF Scanned, EntriesCover
<1>6. ASSUME NEW i \in DOMAIN out
      PROVE  CrowdedIn(f, out[i].timestamp, out[i].offset + 1)
                => CrowdedIn(g, out[i].timestamp, out[i].offset + 1)
  <2> DEFINE m == out[i].offset + 1
  <2>1. m \in Nat /\ \A k \in 0..m - 1 : k \in Nat /\ k < Len(f)
    BY <1>2
  <2> HIDE DEF m
  <2>2. \A k \in 0..m - 1 : /\ Line(f, k) = Line(g, k)
                            /\ Indexable(f, k) <=> Indexable(g, k)
    BY <1>1, <2>1
  <2> QED BY <2>1, <2>2, CrowdSame DEF m
<1>7. EntriesAreSpaced(g, out)
  BY <1>6 DEF Scanned, EntriesAreSpaced
<1> QED BY <1>4, <1>5, <1>7 DEF Scanned, g

LEMMA AppendKeepsIndex ==
    ASSUME NEW f \in Seq(Lines), NEW l \in Lines, NEW idx \in Seq(TimeIndexes),
           NEW n \in Nat, GoodIndex(f, idx, n)
    PROVE  GoodIndex(Append(f, l), idx, n)
<1> DEFINE g == Append(f, l)
<1>1. n <= Len(f) /\ n <= Len(g)
  BY DEF GoodIndex
<1>2. \A k \in Nat : k < Len(f) =>
          Line(g, k) = Line(f, k) /\ (Indexable(g, k) <=> Indexable(f, k))
  BY AppendKeepsLines
<1>3. ASSUME NEW k \in 0..n - 1 PROVE ClosesAt(g, n, k) <=> ClosesAt(f, n, k)
  <2>1. k \in Nat /\ k < Len(f) /\ \A j \in k + 1..n - 1 : j \in Nat /\ j < Len(f)
    BY <1>1
  <2> HIDE DEF g
  <2> QED BY <1>2, <2>1 DEF ClosesAt
<1>4. CASE idx # << >> /\ OpenIndex(f, idx, n)
  <2>1. Scanned(g, idx, n)
    BY <1>1, <1>4, AppendKeepsScan DEF OpenIndex
  <2> HIDE DEF g
  <2> QED BY <1>1, <1>3, <1>4, <2>1 DEF GoodIndex, OpenIndex, g
<1>5. CASE idx # << >> /\ ClosedIndex(f, idx, n)
  <2>1. Scanned(g, AllButLast(idx), n)
    BY <1>1, <1>5, AppendKeepsScan, AllButLastFacts DEF ClosedIndex
  <2>2. Final(idx).offset \in 0..n - 1 /\ ClosesAt(f, n, Final(idx).offset)
    BY <1>5 DEF ClosedIndex, ClosesAt
  <2>3. Final(idx).offset \in Nat /\ Final(idx).offset < Len(f)
    BY <1>1, <2>2
  <2>4. Line(g, Final(idx).offset) = Line(f, Final(idx).offset)
    BY <1>2, <2>3
  <2> HIDE DEF g
  <2>5. ClosedIndex(g, idx, n)
    BY <1>3, <1>5, <2>1, <2>2, <2>4 DEF ClosedIndex
  <2> QED BY <1>1, <2>5 DEF GoodIndex, g
<1> QED BY <1>1, <1>4, <1>5 DEF GoodIndex

LEMMA AppendKeepsLoop ==
    ASSUME NEW f \in Seq(Lines), NEW l \in Lines, NEW b \in Builders, GoodLoop(f, b),
           b.pc = "scanning", b.pos <= b.size, b.size <= Len(f)
    PROVE  GoodLoop(Append(f, l), b)
<1> DEFINE g == Append(f, l)
<1>1. b.pos \in Nat /\ b.size \in Nat /\ b.last \in Int /\ b.outputs \in Seq(TimeIndexes)
  BY BuilderAssumption DEF Builders
<1>2. \A k \in Nat : k < Len(f) =>
          Line(g, k) = Line(f, k) /\ (Indexable(g, k) <=> Indexable(f, k))
  BY AppendKeepsLines
<1>3. Scanned(g, b.outputs, b.pos)
  BY <1>1, AppendKeepsScan DEF GoodLoop
<1> HIDE DEF g
<1>6. Crowd(f, b.bucket, b.pos) = Crowd(g, b.bucket, b.pos)
  <2>1. \A k \in 0..b.pos - 1 : k \in Nat /\ k < Len(f)
    BY <1>1
  <2> QED BY <1>1, <1>2, <2>1, CrowdSame
<1>4. CASE b.outputs = << >>
  <2>1. \A k \in 0..b.pos - 1 : k \in Nat /\ k < Len(f)
    BY <1>1
  <2> QED BY <1>2, <1>3, <1>4, <2>1 DEF GoodLoop, g
<1>5. CASE b.outputs # << >>
  <2>1. LastLine(f, b) /\ Counted(f, b)
    BY <1>5 DEF GoodLoop
  <2>0. Counted(g, b)
    BY <1>6, <2>1 DEF Counted
  <2>2. CASE b.last = NoLine
    <3>1. b.pos < Len(f)
      BY <1>1, <2>1, <2>2 DEF LastLine
    <3> QED BY <1>1, <1>2, <1>3, <1>5, <2>0, <2>1, <2>2, <3>1 DEF GoodLoop, LastLine, g
  <2>3. CASE b.last # NoLine
    <3>1. b.last \in Nat /\ b.last < Len(f)
      BY <1>1, <2>1, <2>3 DEF LastLine
    <3>2. \A j \in b.last + 1..b.pos - 1 : j \in Nat /\ j < Len(f)
      BY <1>1, <3>1
    <3>3. LastLine(g, b)
      BY <1>2, <2>1, <2>3, <3>1, <3>2 DEF LastLine
    <3> QED BY <1>3, <1>5, <2>0, <3>3 DEF GoodLoop, g
  <2> QED BY <2>2, <2>3
<1> QED BY <1>4, <1>5

-----------------------------------------------------------------------------
(* The steps of the loop.                                                   *)

LEMMA LoopFacts ==
    ASSUME IInv
    PROVE  /\ file \in Seq(Lines) /\ Len(file) \in Nat /\ Len(file) <= MaxLines
           /\ index \in Seq(TimeIndexes) /\ indexed \in Nat
           /\ builder \in Builders /\ builder.outputs \in Seq(TimeIndexes)
           /\ builder.pos \in Nat /\ builder.size \in Nat /\ builder.since \in Nat
           /\ builder.bucket \in Nat /\ builder.last \in Int
           /\ MaxLines \in Nat
           /\ builder.pc = "scanning" =>
                 builder.pos <= builder.size /\ builder.size <= Len(file)
  BY BuilderAssumption DEF IInv, TypeInv, TypeOK, Builders, LoopInFile

LEMMA BeginKeeps ==
    ASSUME IInv, Begin
    PROVE  GoodLoop(file, builder')
<1>1. CASE Len(index) > 1 /\ Final(index).offset < Len(file)
  <2>1. /\ Final(index).offset \in Nat /\ Indexable(file, Final(index).offset)
        /\ Scanned(file, AllButLast(index), Final(index).offset)
    BY <1>1, LoopFacts, IndexResumes DEF IInv
  <2>2. /\ AllButLast(index) # << >>
        /\ Final(AllButLast(index)) = index[Len(index) - 1]
    BY <1>1, LoopFacts, AllButLastFacts
  <2>3. builder' = [Idle EXCEPT !.pc = "scanning", !.size = Len(file),
                           !.pos = Final(index).offset,
                           !.outputs = SubSeq(index, 1, Len(index) - 1),
                           !.bucket = index[Len(index) - 1].timestamp]
    BY <1>1 DEF Begin
  <2>4. /\ builder'.size = Len(file) /\ builder'.pos = Final(index).offset
        /\ builder'.outputs = AllButLast(index) /\ builder'.since = 0
        /\ builder'.bucket = Final(AllButLast(index)).timestamp /\ builder'.last = NoLine
    BY <2>2, <2>3 DEF Idle, AllButLast
  <2>5. LastLine(file, builder')
    BY <1>1, <2>1, <2>4 DEF LastLine
  <2>6. Counted(file, builder')
    BY <2>1, <2>4, CrowdFacts DEF Counted
  <2> QED BY <2>1, <2>2, <2>4, <2>5, <2>6 DEF GoodLoop
<1>2. CASE ~(Len(index) > 1 /\ Final(index).offset < Len(file))
  <2>1. builder' = [Idle EXCEPT !.pc = "scanning", !.size = Len(file)]
    BY <1>2 DEF Begin
  <2>2. /\ builder'.pos = 0 /\ builder'.outputs = << >>
        /\ builder'.since = 0 /\ builder'.bucket = 0
    BY <2>1 DEF Idle
  <2>3. Scanned(file, << >>, 0)
    BY DEF Scanned, EntriesPoint, EntriesAreSpaced, EntriesCover
  <2> QED BY <2>2, <2>3 DEF GoodLoop
<1> QED BY <1>1, <1>2

(* A line that is not counted does not matter to the count.                 *)
LEMMA CountedGoesOn ==
    ASSUME NEW f, NEW b, NEW c, Counted(f, b), b.pos \in Nat, b.since \in Nat,
           b.outputs \in Seq(TimeIndexes), b.outputs # << >>,
           c.pos = b.pos + 1, c.since = b.since, c.bucket = b.bucket, c.outputs = b.outputs
    PROVE  Counted(f, c)
<1>1. b.since <= Cardinality(Crowd(f, b.bucket, b.pos))
      /\ (b.since > 0 => Final(b.outputs).offset < b.pos)
  BY DEF Counted
<1>2. /\ Cardinality(Crowd(f, b.bucket, b.pos)) <= Cardinality(Crowd(f, b.bucket, b.pos + 1))
      /\ Cardinality(Crowd(f, b.bucket, b.pos)) \in Nat
      /\ Cardinality(Crowd(f, b.bucket, b.pos + 1)) \in Nat
  BY CrowdGrows, CrowdFacts
<1>3. Final(b.outputs).offset \in Nat
  BY EntryFacts DEF Final
<1>4. c.since <= Cardinality(Crowd(f, c.bucket, c.pos))
  BY <1>1, <1>2
<1>5. c.since > 0 => Final(c.outputs).offset < c.pos
  BY <1>1, <1>3
<1> QED BY <1>4, <1>5 DEF Counted

LEMMA SkipLongKeeps ==
    ASSUME IInv, SkipLong
    PROVE  GoodLoop(file, builder')
<1> DEFINE pos == builder.pos
<1>0. pos \in Nat /\ builder.pc = "scanning" /\ pos < builder.size
      /\ builder.outputs \in Seq(TimeIndexes) /\ file \in Seq(Lines)
  BY LoopFacts DEF SkipLong, Scanning
<1>1. GoodLoop(file, builder)
  BY DEF IInv
<1>2. Line(file, pos).long /\ ~Indexable(file, pos)
  BY DEF SkipLong, LineAt, Line, Indexable
<1>3. /\ builder'.pos = pos + 1 /\ builder'.outputs = builder.outputs
      /\ builder'.since = builder.since /\ builder'.bucket = builder.bucket
      /\ builder'.last = builder.last /\ builder'.size = builder.size
  BY LoopFacts DEF SkipLong, Builders
<1>4. Scanned(file, builder.outputs, pos + 1)
  BY <1>0, <1>1, <1>2, ScanSkips DEF GoodLoop
<1>5. builder.outputs # << >> => Counted(file, builder')
  BY <1>0, <1>1, <1>3, LoopFacts, CountedGoesOn DEF GoodLoop
<1>6. CASE builder.outputs = << >>
  <2>1. builder.bucket = 0 /\ \A k \in 0..pos - 1 : ~Indexable(file, k)
    BY <1>0, <1>1, <1>6 DEF GoodLoop
  <2>2. \A k \in 0..builder'.pos - 1 : k = pos \/ k \in 0..pos - 1
    BY <1>0, <1>3
  <2>3. \A k \in 0..builder'.pos - 1 : ~Indexable(file, k)
    BY <1>2, <2>1, <2>2
  <2> QED BY <1>3, <1>4, <1>5, <1>6, <2>1, <2>3 DEF GoodLoop
<1>7. CASE builder.outputs # << >>
  <2>1. builder.bucket = Final(builder.outputs).timestamp /\ LastLine(file, builder)
    BY <1>0, <1>1, <1>7 DEF GoodLoop
  <2>2. builder.last # NoLine
    BY <1>2, <2>1 DEF LastLine
  <2>3. /\ builder.last \in 0..pos /\ ~Line(file, builder.last).long
        /\ Final(builder.outputs).offset <= builder.last
        /\ \A j \in builder.last + 1..pos - 1 : Line(file, j).long
    BY <1>0, <2>1, <2>2 DEF LastLine
  <2>4. \A j \in builder.last + 1..builder'.pos - 1 : Line(file, j).long
    <3>1. \A j \in builder.last + 1..builder'.pos - 1 :
              j = pos \/ j \in builder.last + 1..pos - 1
      BY <1>0, <1>3, <2>3
    <3> QED BY <1>2, <2>3, <3>1
  <2>5. builder.last \in 0..builder'.pos - 1
    BY <1>0, <1>3, <2>3
  <2>6. LastLine(file, builder')
    BY <1>2, <1>3, <2>2, <2>3, <2>4, <2>5 DEF LastLine
  <2> QED BY <1>3, <1>4, <1>5, <1>7, <2>1, <2>6 DEF GoodLoop
<1> QED BY <1>6, <1>7

LEMMA SkipUntimedKeeps ==
    ASSUME IInv, SkipUntimed
    PROVE  GoodLoop(file, builder')
<1> DEFINE pos == builder.pos
<1>0. pos \in Nat /\ builder.pc = "scanning" /\ pos < builder.size
      /\ builder.outputs \in Seq(TimeIndexes) /\ file \in Seq(Lines)
      /\ builder.size \in Nat /\ builder.since \in Nat
  BY LoopFacts DEF SkipUntimed, Scanning
<1>1. GoodLoop(file, builder)
  BY DEF IInv
<1>2. ~Line(file, pos).long /\ ~Indexable(file, pos)
  BY DEF SkipUntimed, LineAt, Line, Indexable, Timed
<1>3. /\ builder'.outputs = builder.outputs
      /\ builder'.since = builder.since /\ builder'.bucket = builder.bucket
      /\ builder'.last = pos /\ builder'.size = builder.size
      /\ \/ builder'.pos = pos + 1
         \/ builder'.pos = builder.size /\ builder.outputs = << >>
  BY LoopFacts DEF SkipUntimed, Builders
<1>4. builder'.pos \in Nat
  BY <1>0, <1>3
<1>5. CASE builder'.pos = pos + 1
  <2>1. Scanned(file, builder.outputs, pos + 1)
    BY <1>0, <1>1, <1>2, ScanSkips DEF GoodLoop
  <2>2. CASE builder.outputs = << >>
    <3>1. builder.bucket = 0 /\ \A k \in 0..pos - 1 : ~Indexable(file, k)
      BY <1>0, <1>1, <2>2 DEF GoodLoop
    <3>2. \A k \in 0..builder'.pos - 1 : k = pos \/ k \in 0..pos - 1
      BY <1>0, <1>5
    <3>3. \A k \in 0..builder'.pos - 1 : ~Indexable(file, k)
      BY <1>2, <3>1, <3>2
    <3> QED BY <1>3, <1>4, <1>5, <2>1, <2>2, <3>1, <3>3 DEF GoodLoop
  <2>3. CASE builder.outputs # << >>
    <3>1. builder.bucket = Final(builder.outputs).timestamp
      BY <1>0, <1>1, <2>3 DEF GoodLoop
    <3>2. Final(builder.outputs).offset <= pos
      BY <1>0, <1>1, <2>3 DEF GoodLoop, Scanned, EntriesPoint, Final
    <3>3. pos \in 0..pos + 1 - 1 /\ pos # NoLine /\ pos + 1..pos + 1 - 1 = {}
      BY <1>0 DEF NoLine
    <3>4. LastLine(file, builder')
      BY <1>2, <1>3, <1>5, <3>2, <3>3 DEF LastLine
    <3>5. Counted(file, builder')
      BY <1>0, <1>1, <1>3, <1>5, <2>3, LoopFacts, CountedGoesOn DEF GoodLoop
    <3> QED BY <1>3, <1>4, <1>5, <2>1, <2>3, <3>1, <3>4, <3>5 DEF GoodLoop
  <2> QED BY <2>2, <2>3
<1>6. CASE builder'.pos = builder.size /\ builder.outputs = << >>
  <2>1. Scanned(file, << >>, builder.size)
    BY <1>0, <1>6, <1>1 DEF Scanned, EntriesPoint, EntriesAreSpaced, EntriesCover
  <2>2. builder.bucket = 0
    BY <1>0, <1>1, <1>6 DEF GoodLoop
  <2> QED BY <1>0, <1>3, <1>4, <1>6, <2>1, <2>2 DEF GoodLoop
<1> QED BY <1>3, <1>5, <1>6

(* A timed line: one of the last entry's bucket gets another entry only     *)
(* when that bucket is crowded with it.                                     *)
LEMMA IndexTimedKeeps ==
    ASSUME IInv, IndexTimed
    PROVE  GoodLoop(file, builder')
<1> DEFINE pos == builder.pos
           out == builder.outputs
           bucket == BucketOf(LineAt(pos).ts)
           entry == [timestamp |-> bucket, offset |-> pos]
<1>0. /\ pos \in Nat /\ builder.pc = "scanning" /\ pos < builder.size /\ pos < MaxLines
      /\ out \in Seq(TimeIndexes) /\ file \in Seq(Lines)
      /\ builder.size \in Nat /\ builder.since \in Nat /\ pos < Len(file)
  BY LoopFacts DEF IndexTimed, Scanning
<1>1. GoodLoop(file, builder) /\ TimesAreOrdered(file)
  BY DEF IInv
<1>2. ~Line(file, pos).long /\ Indexable(file, pos) /\ Line(file, pos) = LineAt(pos)
  BY <1>0 DEF IndexTimed, LineAt, Line, Indexable, Timed
<1>3. bucket \in Nat
  BY <1>0, <1>2, LineFacts, BucketBounds
<1>4. Scanned(file, out, pos)
  BY <1>0, <1>1 DEF GoodLoop
<1>5. out = << >> => builder.bucket = 0 /\ \A k \in 0..pos - 1 : ~Indexable(file, k)
  BY <1>0, <1>1 DEF GoodLoop
<1>6. out # << >> => /\ builder.bucket = Final(out).timestamp
                     /\ builder.bucket \in Nat /\ builder.bucket # 0
                     /\ Final(out).offset <= pos
  <2> SUFFICES ASSUME out # << >>
               PROVE  /\ builder.bucket = Final(out).timestamp
                      /\ builder.bucket \in Nat /\ builder.bucket # 0
                      /\ Final(out).offset <= pos
    OBVIOUS
  <2>1. Len(out) \in DOMAIN out
    BY <1>0
  <2>2. /\ Final(out).timestamp = BucketOf(Line(file, Final(out).offset).ts)
        /\ Indexable(file, Final(out).offset) /\ Final(out).offset <= pos
        /\ Final(out).offset \in Nat
    BY <1>0, <1>4, <2>1, EntryFacts DEF Scanned, EntriesPoint, Final
  <2>3. /\ Line(file, Final(out).offset).ts \in Nat
        /\ Line(file, Final(out).offset).ts >= IntervalSeconds
    BY <1>0, <2>2, LineFacts DEF Indexable
  <2>4. BucketOf(Line(file, Final(out).offset).ts) \in Nat \ {0}
    BY <2>3, BucketBounds
  <2> QED BY <1>0, <1>1, <2>2, <2>4 DEF GoodLoop
<1>7. out # << >> => /\ builder.since <= Cardinality(Crowd(file, builder.bucket, pos))
                     /\ builder.since > 0 => Final(out).offset < pos
  BY <1>0, <1>1 DEF GoodLoop, Counted
<1>12. /\ Cardinality(Crowd(file, bucket, pos)) \in Nat
       /\ Cardinality(Crowd(file, bucket, pos + 1)) = Cardinality(Crowd(file, bucket, pos)) + 1
  BY <1>0, <1>2, CrowdFacts, CrowdAdds
<1>13. out # << >> /\ bucket < builder.bucket + IntervalSeconds => bucket = builder.bucket
  <2> SUFFICES ASSUME out # << >>, bucket < builder.bucket + IntervalSeconds
               PROVE  bucket = builder.bucket
    OBVIOUS
  <2> DEFINE k == Final(out).offset
  <2>1. Len(out) \in DOMAIN out /\ Final(out) = out[Len(out)]
    BY <1>0 DEF Final
  <2>2. Indexable(file, k) /\ k \in Nat /\ builder.bucket = BucketOf(Line(file, k).ts)
    BY <1>0, <1>4, <1>6, <2>1, EntryFacts DEF Scanned, EntriesPoint
  <2>3. Final(out).timestamp <= bucket
    BY <1>0, <1>1, <1>2, <1>4, <1>6, <2>1, EntriesAreOrdered
  <2>4. Line(file, k).ts \in Nat /\ Line(file, pos).ts \in Nat
    BY <1>0, <2>2, LineFacts DEF Indexable
  <2>5. bucket <= builder.bucket
    BY <1>2, <2>2, <2>4, BucketsOrdered
  <2> QED BY <1>3, <1>6, <2>3, <2>5
<1>8. pos \in 0..pos + 1 - 1 /\ pos # NoLine /\ pos + 1..pos + 1 - 1 = {}
  BY <1>0 DEF NoLine
<1>9. builder' = IF NewEntry(bucket)
                 THEN [builder EXCEPT !.outputs = Append(@, entry), !.bucket = bucket,
                                      !.since = 1, !.last = pos, !.pos = @ + 1]
                 ELSE [builder EXCEPT !.since = @ + 1, !.last = pos, !.pos = @ + 1]
  BY DEF IndexTimed
<1> HIDE DEF bucket, entry
<1>10. CASE NewEntry(bucket)
  <2>1. /\ builder'.outputs = Append(out, entry) /\ builder'.bucket = bucket
        /\ builder'.since = 1 /\ builder'.last = pos /\ builder'.pos = pos + 1
    BY <1>9, <1>10, LoopFacts DEF Builders
  <2>2. out # << >> => /\ Final(out).offset < pos
                       /\ \/ bucket >= Final(out).timestamp + IntervalSeconds
                          \/ CrowdedIn(file, bucket, pos + 1)
    <3> SUFFICES ASSUME out # << >>
                 PROVE  /\ Final(out).offset < pos
                        /\ \/ bucket >= Final(out).timestamp + IntervalSeconds
                           \/ CrowdedIn(file, bucket, pos + 1)
      OBVIOUS
    <3>1. CASE bucket >= builder.bucket + IntervalSeconds
      <4>1. Len(out) \in DOMAIN out /\ Final(out).offset \in Nat
        BY <1>0, EntryFacts DEF Final
      <4>2. Final(out).timestamp = BucketOf(Line(file, Final(out).offset).ts)
        BY <1>4, <4>1 DEF Scanned, EntriesPoint, Final
      <4>3. Final(out).offset # pos
        <5>1. Final(out).offset = pos => builder.bucket = bucket
          BY <1>2, <1>6, <4>2 DEF bucket
        <5> QED BY <1>3, <1>6, <3>1, <5>1, BuilderAssumption
      <4> QED BY <1>0, <1>6, <3>1, <4>1, <4>3
    <3>2. CASE builder.since >= CountThreshold /\ bucket < builder.bucket + IntervalSeconds
      <4>1. bucket = builder.bucket /\ builder.since > 0
        BY <1>0, <1>13, <3>2, BuilderAssumption
      <4>2. CrowdedIn(file, bucket, pos + 1)
        BY <1>0, <1>7, <1>12, <3>2, <4>1, BuilderAssumption DEF CrowdedIn
      <4> QED BY <1>7, <4>1, <4>2
    <3> QED BY <1>3, <1>6, <1>10, <3>1, <3>2, BuilderAssumption DEF NewEntry
  <2>3. Scanned(file, Append(out, entry), pos + 1)
    BY <1>0, <1>1, <1>2, <1>4, <1>5, <2>2, ScanAdds DEF bucket, entry
  <2>4. Append(out, entry) # << >> /\ Final(Append(out, entry)) = entry
    BY <1>0 DEF Final
  <2>5. entry.timestamp = bucket /\ entry.offset = pos
    BY DEF entry
  <2>6. LastLine(file, builder')
    BY <1>0, <1>2, <1>8, <2>1, <2>4, <2>5 DEF LastLine
  <2>7. Counted(file, builder')
    BY <1>0, <1>12, <2>1, <2>4, <2>5 DEF Counted
  <2> QED BY <2>1, <2>3, <2>4, <2>5, <2>6, <2>7 DEF GoodLoop
<1>11. CASE ~NewEntry(bucket)
  <2>1. /\ builder'.outputs = out /\ builder'.bucket = builder.bucket
        /\ builder'.since = builder.since + 1 /\ builder'.last = pos
        /\ builder'.pos = pos + 1
    BY <1>9, <1>11, LoopFacts DEF Builders
  <2>2. out # << >>
    BY <1>5, <1>11 DEF NewEntry
  <2>3. bucket < Final(out).timestamp + IntervalSeconds
    BY <1>3, <1>6, <1>11, <2>2, BuilderAssumption DEF NewEntry
  <2>4. Scanned(file, out, pos + 1)
    BY <1>0, <1>2, <1>4, <2>2, <2>3, ScanStays DEF bucket
  <2>5. LastLine(file, builder')
    BY <1>2, <1>6, <1>8, <2>1, <2>2 DEF LastLine
  <2>6. Counted(file, builder')
    <3>1. bucket = builder.bucket
      BY <1>6, <1>13, <2>2, <2>3
    <3>2. Final(out).offset \in Nat
      BY <1>0, <2>2, EntryFacts DEF Final
    <3>3. Final(out).offset < pos + 1
      BY <1>0, <1>6, <2>2, <3>2
    <3> QED BY <1>0, <1>7, <1>12, <2>1, <2>2, <3>1, <3>3 DEF Counted
  <2> QED BY <1>6, <2>1, <2>2, <2>4, <2>5, <2>6 DEF GoodLoop
<1> QED BY <1>10, <1>11

LEMMA PublishKeeps ==
    ASSUME IInv, Publish
    PROVE  GoodIndex(file, Closed, builder.size)
<1> DEFINE out == builder.outputs
           n == builder.size
           last == builder.last
<1>0. /\ builder.pc = "scanning" /\ builder.pos = n /\ n \in Nat /\ n <= Len(file)
      /\ out \in Seq(TimeIndexes) /\ file \in Seq(Lines)
  BY LoopFacts DEF Publish
<1>1. GoodLoop(file, builder)
  BY DEF IInv
<1>2. CASE out = << >>
  BY <1>0, <1>2 DEF Closed, GoodIndex
<1>3. CASE out # << >>
  <2>1. Scanned(file, out, n) /\ LastLine(file, builder)
    BY <1>0, <1>1, <1>3 DEF GoodLoop
  <2>2. /\ last # NoLine /\ last \in 0..n - 1 /\ ~Line(file, last).long
        /\ Final(out).offset <= last
        /\ \A j \in last + 1..n - 1 : Line(file, j).long
    BY <1>0, <2>1 DEF LastLine
  <2>3. CASE Timed(last)
    <3> DEFINE entry == [timestamp |-> LineAt(last).ts, offset |-> last]
    <3>1. Closed = Append(out, entry)
      BY <1>3, <2>2, <2>3 DEF Closed
    <3>2. Indexable(file, last)
      BY <1>0, <2>2, <2>3 DEF Indexable, Timed, LineAt, Line
    <3>3. ClosesAt(file, n, last)
      BY <2>2, <3>2 DEF ClosesAt
    <3>4. Line(file, last).ts \in Nat /\ last \in Nat /\ Line(file, last) = LineAt(last)
      BY <1>0, <2>2, LineFacts DEF Line, LineAt
    <3>5. entry \in TimeIndexes
      BY <3>4 DEF TimeIndexes
    <3>6. Final(Append(out, entry)) = entry /\ Len(Append(out, entry)) = Len(out) + 1
          /\ AllButLast(Append(out, entry)) = out /\ Len(out) > 0
      BY <1>0, <1>3, <3>5 DEF Final, AllButLast
    <3>7. ClosedIndex(file, Append(out, entry), n)
      BY <2>1, <2>2, <3>3, <3>4, <3>6 DEF ClosedIndex
    <3> QED BY <1>0, <3>1, <3>7 DEF GoodIndex
  <2>4. CASE ~Timed(last)
    <3>1. Closed = out
      BY <2>4 DEF Closed
    <3>2. ASSUME NEW k \in 0..n - 1, ClosesAt(file, n, k) PROVE FALSE
      <4>1. k # last
        BY <2>4, <3>2 DEF ClosesAt, Indexable, Timed, Line, LineAt
      <4>2. k < last \/ k \in last + 1..n - 1
        BY <1>0, <2>2, <4>1
      <4>3. k < last => last \in k + 1..n - 1
        BY <1>0, <2>2
      <4> QED BY <2>2, <3>2, <4>2, <4>3 DEF ClosesAt, Indexable
    <3>3. Final(out).offset < n
      <4>1. Final(out).offset \in Nat
        BY <1>0, <1>3, EntryFacts DEF Final
      <4> QED BY <1>0, <2>2, <4>1
    <3> QED BY <1>0, <2>1, <3>1, <3>2, <3>3 DEF GoodIndex, OpenIndex
  <2> QED BY <2>3, <2>4
<1> QED BY <1>2, <1>3

LEMMA AppendKeepsOrder ==
    ASSUME NEW f \in Seq(Lines), NEW l \in Lines, TimesAreOrdered(f),
           l.ts # 0 => \A k \in 1..Len(f) : f[k].ts <= l.ts
    PROVE  TimesAreOrdered(Append(f, l))
<1>1. \A k \in DOMAIN Append(f, l) : k = Len(f) + 1 \/ k \in 1..Len(f)
  OBVIOUS
<1>2. Append(f, l)[Len(f) + 1] = l /\ \A k \in 1..Len(f) : Append(f, l)[k] = f[k]
  OBVIOUS
<1>3. DOMAIN f = 1..Len(f) /\ Len(f) \in Nat
  OBVIOUS
<1> QED BY <1>1, <1>2, <1>3 DEF TimesAreOrdered

LEMMA InvStep ==
    ASSUME IInv, [Next]_vars
    PROVE  IInv'
<1>1. TypeInv'
  BY TypeStep DEF IInv
<1>2. ASSUME NEW l \in Lines, AppendLine(l) PROVE IInv'
  <2>1. file' = Append(file, l) /\ UNCHANGED <<index, indexed, builder>>
    BY <1>2 DEF AppendLine
  <2>2. TimesAreOrdered(Append(file, l))
    BY <1>2, LoopFacts, AppendKeepsOrder DEF AppendLine, IInv
  <2>3. GoodIndex(Append(file, l), index, indexed)
    BY LoopFacts, AppendKeepsIndex DEF IInv
  <2>4. GoodLoop(Append(file, l), builder)
    <3>1. CASE builder.pc = "scanning"
      BY <3>1, LoopFacts, AppendKeepsLoop DEF IInv
    <3>2. CASE builder.pc # "scanning"
      BY <3>2 DEF GoodLoop
    <3> QED BY <3>1, <3>2
  <2> QED BY <1>1, <2>1, <2>2, <2>3, <2>4 DEF IInv
<1>3. CASE Begin
  BY <1>1, <1>3, BeginKeeps DEF Begin, IInv
<1>4. CASE SkipLong
  BY <1>1, <1>4, SkipLongKeeps DEF SkipLong, IInv
<1>5. CASE SkipUntimed
  BY <1>1, <1>5, SkipUntimedKeeps DEF SkipUntimed, IInv
<1>6. CASE IndexTimed
  BY <1>1, <1>6, IndexTimedKeeps DEF IndexTimed, IInv
<1>7. CASE Publish
  <2>1. GoodLoop(file, Idle)
    BY DEF GoodLoop, Idle
  <2>2. GoodIndex(file, index', indexed')
    BY <1>7, PublishKeeps DEF Publish
  <2> QED BY <1>1, <1>7, <2>1, <2>2 DEF Publish, IInv
<1>8. CASE UNCHANGED vars
  BY <1>1, <1>8 DEF vars, IInv
<1> QED BY <1>2, <1>3, <1>4, <1>5, <1>6, <1>7, <1>8 DEF Next

-----------------------------------------------------------------------------
(* Queries.                                                                 *)

(* A line between two neighbouring entries is in the range that             *)
(* find_index_pos selects for any interval that meets their segment.        *)
LEMMA SegmentIsSearched ==
    ASSUME NEW idx \in Seq(TimeIndexes), NEW i \in 1..Len(idx) - 1,
           \A a, b \in DOMAIN idx : a < b => idx[a].offset <= idx[b].offset,
           NEW k \in Nat, idx[i].offset <= k, k <= idx[i + 1].offset,
           NEW s \in Nat, NEW e \in Nat, idx[i].timestamp <= e, s <= idx[i + 1].timestamp
    PROVE  InSearchedRange(idx, k, s, e)
<1> DEFINE S == CoveringSegments(idx, s, e)
<1>0. \A j \in DOMAIN idx : idx[j].offset \in Nat /\ idx[j].timestamp \in Nat
  BY EntryFacts
<1>1. i \in DOMAIN idx /\ i + 1 \in DOMAIN idx
  OBVIOUS
<1>2. i \in S
  BY <1>0, <1>1 DEF CoveringSegments, TimestampCovers
<1>3. S \subseteq 1..Len(idx) - 1 /\ S \subseteq Nat /\ S \subseteq 0..Len(idx)
  BY DEF CoveringSegments
<1> DEFINE first == CHOOSE a \in S : \A b \in S : a <= b
           final == CHOOSE a \in S : \A b \in S : b <= a
<1>4. first \in S /\ first <= i
  <2>1. \E a \in S : \A b \in S : a <= b
    BY <1>2, <1>3, SmallestExists
  <2> QED BY <1>2, <2>1
<1>5. final \in S /\ i <= final
  <2>1. \E a \in S : \A b \in S : b <= a
    BY <1>2, <1>3, LargestExists, Len(idx) \in Nat
  <2> QED BY <1>2, <2>1
<1> HIDE DEF S, first, final
<1>6. idx[first].offset <= k
  <2>1. first \in DOMAIN idx /\ (first = i \/ first < i)
    BY <1>1, <1>3, <1>4
  <2>2. idx[first].offset <= idx[i].offset
    BY <1>0, <1>1, <2>1
  <2> QED BY <1>0, <1>1, <2>1, <2>2
<1>7. k <= idx[final + 1].offset
  <2>0. final \in 1..Len(idx) - 1
    BY <1>3, <1>5
  <2>1. final + 1 \in DOMAIN idx /\ (final = i \/ i + 1 < final + 1)
    BY <1>1, <1>5, <2>0
  <2>2. idx[i + 1].offset <= idx[final + 1].offset
    BY <1>0, <1>1, <2>1
  <2> QED BY <1>0, <1>1, <2>1, <2>2
<1> QED BY <1>2, <1>6, <1>7
        DEF InSearchedRange, IndexFound, IndexStartPos, IndexEndPos, S, first, final

(* A line is no later than an entry, or of its bucket when that is crowded. *)
Precedes(f, k, bucket, n) ==
    \/ Line(f, k).ts <= bucket
    \/ BucketOf(Line(f, k).ts) = bucket /\ CrowdedIn(f, bucket, n)

(* A query that meets such a line, and is led to the first one of its       *)
(* bucket, begins no later than the entry.                                  *)
Leads(f, s, bucket, n) == s <= bucket \/ ~CrowdedIn(f, bucket, n)

LEMMA PrecedesMeets ==
    ASSUME NEW f, NEW k, NEW bucket \in Nat, NEW n \in Nat, NEW s \in Nat,
           Line(f, k).ts \in Nat, s <= Line(f, k).ts, Precedes(f, k, bucket, n),
           Leads(f, s, BucketOf(Line(f, k).ts), n)
    PROVE  s <= bucket
<1>1. CASE Line(f, k).ts <= bucket
  BY <1>1
<1>2. CASE BucketOf(Line(f, k).ts) = bucket /\ CrowdedIn(f, bucket, n)
  BY <1>2 DEF Leads
<1> QED BY <1>1, <1>2 DEF Precedes

(* Only the bucket that a query begins in can keep it from being led to a   *)
(* first line.                                                              *)
LEMMA LeadsFromStart ==
    ASSUME NEW f, NEW s \in Nat, NEW ts \in Nat, s <= ts, NEW n, Leads(f, s, BucketOf(s), n)
    PROVE  Leads(f, s, BucketOf(ts), n)
<1>1. BucketOf(s) <= BucketOf(ts) /\ BucketOf(s) \in Nat /\ BucketOf(ts) \in Nat
  BY BucketMonotone, BucketBounds
<1>2. CASE BucketOf(s) = BucketOf(ts)
  BY <1>2
<1>3. CASE BucketOf(s) < BucketOf(ts)
  <2>1. s < BucketOf(ts)
    BY <1>3, BucketBehind
  <2> QED BY <1>1, <2>1 DEF Leads
<1> QED BY <1>1, <1>2, <1>3

(* An indexed line is on the same side of an entry in place and in time,    *)
(* but for further lines of a crowded bucket.                               *)
LEMMA EntriesOrderLines ==
    ASSUME NEW f \in Seq(Lines), TimesAreOrdered(f), NEW out \in Seq(TimeIndexes),
           NEW n \in Nat, Scanned(f, out, n), NEW k \in 0..n - 1, Indexable(f, k),
           NEW i \in DOMAIN out
    PROVE  /\ out[1].offset <= k
           /\ out[i].offset <= k => out[i].timestamp <= Line(f, k).ts
           /\ k < out[i].offset => Precedes(f, k, out[i].timestamp, out[i].offset + 1)
<1>0. out # << >> /\ 1 \in DOMAIN out /\ i \in Nat /\ k \in Nat
  OBVIOUS
<1>1. \A j \in DOMAIN out : out[j].offset \in Nat /\ out[j].timestamp \in Nat
  BY EntryFacts
<1>2. Line(f, k).ts \in Nat
  BY <1>0, LineFacts DEF Indexable
<1>3. out[1].offset <= k
  BY <1>0 DEF Scanned, EntriesCover
<1>4. ASSUME out[i].offset <= k PROVE out[i].timestamp <= Line(f, k).ts
  <2>1. /\ Indexable(f, out[i].offset) /\ out[i].offset \in Nat
        /\ out[i].timestamp = BucketOf(Line(f, out[i].offset).ts)
    BY <1>1 DEF Scanned, EntriesPoint
  <2>2. Line(f, out[i].offset).ts <= Line(f, k).ts
    BY <1>0, <1>4, <2>1, LinesAreOrdered
  <2>3. Line(f, out[i].offset).ts \in Nat
    BY <2>1, LineFacts DEF Indexable
  <2>4. out[i].timestamp <= Line(f, out[i].offset).ts
    BY <2>1, <2>3, BucketBounds
  <2> QED BY <1>1, <1>2, <2>2, <2>3, <2>4
<1>5. ASSUME k < out[i].offset PROVE Precedes(f, k, out[i].timestamp, out[i].offset + 1)
  <2>1. i # 1
    BY <1>0, <1>1, <1>3, <1>5
  <2>2. i - 1 \in DOMAIN out /\ i - 1 < i /\ i - 1 + 1 = i
    BY <2>1
  <2>3. \/ Line(f, k).ts < out[i - 1].timestamp + IntervalSeconds
        \/ out[i].offset <= k
    BY <2>2 DEF Scanned, EntriesCover
  <2>4. \/ out[i - 1].timestamp + IntervalSeconds <= out[i].timestamp
        \/ CrowdedIn(f, out[i].timestamp, out[i].offset + 1)
    BY <2>2 DEF Scanned, EntriesAreSpaced
  <2>5. Line(f, k).ts < out[i - 1].timestamp + IntervalSeconds
    BY <1>0, <1>1, <1>5, <2>3
  <2>6. out[i - 1].timestamp \in Nat /\ out[i].timestamp \in Nat /\ IntervalSeconds \in Nat
    BY <1>1, <2>2, BuilderAssumption
  <2>7. CASE out[i - 1].timestamp + IntervalSeconds <= out[i].timestamp
    BY <1>2, <2>5, <2>6, <2>7 DEF Precedes
  <2>8. CASE CrowdedIn(f, out[i].timestamp, out[i].offset + 1)
    <3> DEFINE m == out[i].offset
    <3>1. /\ Indexable(f, m) /\ m \in Nat /\ out[i].timestamp = BucketOf(Line(f, m).ts)
      BY <1>1 DEF Scanned, EntriesPoint
    <3>2. Line(f, m).ts \in Nat
      BY <3>1, LineFacts DEF Indexable
    <3>3. k <= m
      BY <1>0, <1>5, <3>1
    <3> HIDE DEF m
    <3>4. Line(f, k).ts <= Line(f, m).ts
      BY <1>0, <3>1, <3>3, LinesAreOrdered
    <3>5. BucketOf(Line(f, k).ts) <= out[i].timestamp
      BY <1>2, <3>1, <3>2, <3>4, BucketMonotone
    <3>6. BucketOf(Line(f, k).ts) < out[i].timestamp => Line(f, k).ts <= out[i].timestamp
      <4>1. BucketOf(Line(f, k).ts) < out[i].timestamp => Line(f, k).ts < out[i].timestamp
        BY <1>2, <3>1, <3>2, BucketBehind
      <4> QED BY <1>2, <2>6, <4>1
    <3>7. BucketOf(Line(f, k).ts) \in Nat
      BY <1>2, BucketBounds
    <3> QED BY <2>6, <2>8, <3>5, <3>6, <3>7 DEF Precedes
  <2> QED BY <2>4, <2>7, <2>8
<1> QED BY <1>3, <1>4, <1>5

LEMMA PrecedesLater ==
    ASSUME NEW f, NEW k, NEW bucket, NEW m \in Nat, NEW n \in Nat, m <= n,
           Precedes(f, k, bucket, m + 1)
    PROVE  Precedes(f, k, bucket, n + 1)
<1>1. CrowdedIn(f, bucket, m + 1) => CrowdedIn(f, bucket, n + 1)
  BY CrowdGrows
<1> QED BY <1>1 DEF Precedes

(* In a good index such a segment exists for every line it covers.          *)
LEMMA LineHasSegment ==
    ASSUME NEW f \in Seq(Lines), TimesAreOrdered(f), NEW idx \in Seq(TimeIndexes),
           NEW n \in Nat, idx # << >>, n <= Len(f),
           OpenIndex(f, idx, n) \/ ClosedIndex(f, idx, n),
           NEW k \in 0..Final(idx).offset, Indexable(f, k),
           k < Final(idx).offset \/ ClosedIndex(f, idx, n)
    PROVE  /\ \A a, b \in DOMAIN idx : a < b => idx[a].offset <= idx[b].offset
           /\ \E i \in 1..Len(idx) - 1 :
                 /\ idx[i].offset <= k /\ k <= idx[i + 1].offset
                 /\ idx[i].timestamp <= Line(f, k).ts
                 /\ Precedes(f, k, idx[i + 1].timestamp, Final(idx).offset + 1)
<1> DEFINE L == Len(idx)
           S == {j \in 2..L : k < idx[j].offset \/ j = L}
<1>0. /\ L \in Nat /\ DOMAIN idx = 1..L /\ L >= 1 /\ Final(idx) = idx[L]
      /\ \A j \in 1..L : idx[j].offset \in Nat /\ idx[j].timestamp \in Nat
  BY EntryFacts DEF Final
<1>1. Line(f, k).ts \in Nat /\ k \in Nat
  BY <1>0, LineFacts DEF Indexable
<1> HIDE DEF L
<1>2. CASE OpenIndex(f, idx, n) /\ k < Final(idx).offset
  <2>1. Scanned(f, idx, n) /\ k \in 0..n - 1
    BY <1>0, <1>2 DEF OpenIndex, Scanned, EntriesPoint
  <2>2. \A a, b \in DOMAIN idx : a < b => idx[a].offset <= idx[b].offset
    BY <1>0, <2>1 DEF Scanned, EntriesAreSpaced
  <2>3. /\ idx[1].offset <= k
        /\ \A j \in 1..L : /\ idx[j].offset <= k => idx[j].timestamp <= Line(f, k).ts
                           /\ k < idx[j].offset =>
                                 Precedes(f, k, idx[j].timestamp, idx[j].offset + 1)
    BY <1>0, <2>1, EntriesOrderLines
  <2>4. L \in S /\ S \subseteq Nat /\ S # {}
    BY <1>0, <1>2, <2>3
  <2>5. PICK j \in S : \A m \in S : j <= m
    BY <2>4, SmallestExists
  <2>6. /\ j - 1 \in 1..L - 1 /\ j - 1 \in 1..L /\ j \in 1..L /\ j - 1 + 1 = j
        /\ k < idx[j].offset \/ j = L
        /\ j = 2 \/ (j - 1 \in 2..L /\ ~(k < idx[j - 1].offset))
    <3>1. j \in 2..L /\ (k < idx[j].offset \/ j = L)
      BY <2>5
    <3>2. j - 1 \notin S
      BY <2>4, <2>5
    <3>3. j = 2 \/ j - 1 \in 2..L
      BY <1>0, <3>1
    <3> QED BY <1>0, <3>1, <3>2, <3>3
  <2> HIDE DEF S
  <2>7. k < idx[j].offset /\ idx[j - 1].offset <= k
    <3>1. k < idx[j].offset
      BY <1>0, <1>2, <2>6
    <3>2. CASE j = 2
      <4>1. j - 1 = 1
        BY <3>2
      <4> QED BY <2>3, <3>1, <4>1
    <3>3. CASE j # 2
      <4>1. idx[j - 1].offset \in Nat /\ ~(k < idx[j - 1].offset) /\ k \in Int
        BY <1>0, <2>6, <3>3
      <4> QED BY <3>1, <4>1
    <3> QED BY <3>1, <3>2, <3>3
  <2>8. /\ idx[j - 1].timestamp <= Line(f, k).ts
        /\ Precedes(f, k, idx[j].timestamp, idx[j].offset + 1)
    BY <1>0, <1>1, <2>3, <2>6, <2>7
  <2>10. idx[j].offset <= idx[L].offset
    <3>1. j = L \/ j < L
      BY <1>0, <2>6
    <3>2. L \in 1..L
      BY <1>0
    <3> QED BY <1>0, <2>2, <2>6, <3>1, <3>2
  <2>11. Precedes(f, k, idx[j].timestamp, Final(idx).offset + 1)
    <3>1. L \in 1..L
      BY <1>0
    <3>2. idx[j].offset \in Nat /\ idx[L].offset \in Nat /\ Final(idx) = idx[L]
      BY <1>0, <2>6, <3>1
    <3> QED BY <2>8, <2>10, <3>2, PrecedesLater
  <2>9. /\ idx[j - 1].offset <= k /\ k <= idx[j - 1 + 1].offset
        /\ idx[j - 1].timestamp <= Line(f, k).ts
        /\ Precedes(f, k, idx[j - 1 + 1].timestamp, Final(idx).offset + 1)
    BY <1>0, <1>1, <2>6, <2>7, <2>8, <2>11
  <2> QED BY <1>0, <2>2, <2>6, <2>9 DEF L
<1>3. CASE ClosedIndex(f, idx, n)
  <2> DEFINE body == AllButLast(idx)
  <2>0. /\ L > 1 /\ body \in Seq(TimeIndexes) /\ DOMAIN body = 1..L - 1
        /\ \A j \in 1..L - 1 : body[j] = idx[j]
        /\ Final(body) = idx[L - 1]
    BY <1>3, AllButLastFacts DEF ClosedIndex, L
  <2>1. Scanned(f, body, n) /\ idx[L - 1].offset <= idx[L].offset
        /\ idx[L].offset \in 0..n - 1 /\ Indexable(f, idx[L].offset)
        /\ idx[L].timestamp = Line(f, idx[L].offset).ts
    BY <1>0, <1>3, <2>0 DEF ClosedIndex, ClosesAt
  <2> HIDE DEF body
  <2>2. k \in 0..n - 1 /\ k <= idx[L].offset /\ k \in Nat
    BY <1>0, <2>1
  <2>3. \A a, b \in 1..L : a < b => idx[a].offset <= idx[b].offset
    <3>1. \A a, b \in 1..L - 1 : a < b => idx[a].offset <= idx[b].offset
      <4> SUFFICES ASSUME NEW a \in 1..L - 1, NEW b \in 1..L - 1, a < b
                   PROVE  idx[a].offset <= idx[b].offset
        OBVIOUS
      <4>1. body[a].offset < body[b].offset
        BY <2>0, <2>1 DEF Scanned, EntriesAreSpaced
      <4>2. idx[a].offset \in Nat /\ idx[b].offset \in Nat
        BY <1>0
      <4>3. body[a] = idx[a] /\ body[b] = idx[b]
        BY <2>0
      <4>4. idx[a].offset < idx[b].offset
        BY ONLY <4>1, <4>3
      <4> QED BY ONLY <4>2, <4>4
    <3>2. L - 1 \in 1..L - 1
      BY <1>0, <2>0
    <3>3. \A a \in 1..L - 1 : idx[a].offset <= idx[L].offset
      <4> SUFFICES ASSUME NEW a \in 1..L - 1 PROVE idx[a].offset <= idx[L].offset
        OBVIOUS
      <4>1. a = L - 1 \/ a < L - 1
        BY <1>0
      <4>2. idx[a].offset <= idx[L - 1].offset
        BY <1>0, <3>1, <3>2, <4>1
      <4> QED BY <1>0, <2>1, <3>2, <4>2
    <3> QED BY <1>0, <3>1, <3>3
  <2>4. /\ idx[1].offset <= k
        /\ \A j \in 1..L - 1 : /\ idx[j].offset <= k => idx[j].timestamp <= Line(f, k).ts
                               /\ k < idx[j].offset =>
                                     Precedes(f, k, idx[j].timestamp, idx[j].offset + 1)
    <3>1. 1 \in 1..L - 1
      BY <1>0, <2>0
    <3> QED BY <2>0, <2>1, <2>2, <3>1, EntriesOrderLines
  <2>5. Line(f, k).ts <= idx[L].timestamp
    BY <1>0, <2>1, <2>2, LinesAreOrdered
  <2>6. L \in S /\ S \subseteq Nat /\ S # {}
    <3>1. L \in 2..L
      BY <1>0, <2>0
    <3>2. S \subseteq Nat
      OBVIOUS
    <3> QED BY ONLY <3>1, <3>2
  <2>7. PICK j \in S : \A m \in S : j <= m
    BY <2>6, SmallestExists
  <2>8. /\ j - 1 \in 1..L - 1 /\ j - 1 \in 1..L /\ j \in 1..L /\ j - 1 + 1 = j
        /\ k < idx[j].offset \/ j = L
        /\ j = 2 \/ (j - 1 \in 2..L /\ ~(k < idx[j - 1].offset))
    <3>1. j \in 2..L /\ (k < idx[j].offset \/ j = L)
      BY <2>7
    <3>2. j - 1 \notin S
      BY <2>6, <2>7
    <3>3. j = 2 \/ j - 1 \in 2..L
      BY <1>0, <3>1
    <3> QED BY <1>0, <3>1, <3>2, <3>3
  <2> HIDE DEF S
  <2>9. k <= idx[j].offset /\ idx[j - 1].offset <= k
    <3>1. k <= idx[j].offset
      BY <1>0, <2>2, <2>8
    <3>2. CASE j = 2
      <4>1. j - 1 = 1
        BY <3>2
      <4> QED BY <2>4, <3>1, <4>1
    <3>3. CASE j # 2
      BY <1>0, <2>2, <2>8, <3>3
    <3> QED BY <3>1, <3>2, <3>3
  <2>10. Precedes(f, k, idx[j].timestamp, Final(idx).offset + 1)
    <3>1. CASE j = L
      BY <2>5, <3>1 DEF Precedes
    <3>2. CASE j \in 1..L - 1 /\ k < idx[j].offset
      <4>1. Precedes(f, k, idx[j].timestamp, idx[j].offset + 1)
        BY <2>4, <3>2
      <4>2. idx[j].offset <= idx[L].offset
        BY <1>0, <2>3, <2>8, <3>2
      <4>3. idx[j].offset \in Nat /\ idx[L].offset \in Nat /\ Final(idx) = idx[L]
        BY <1>0, <2>1, <2>8
      <4> QED BY <4>1, <4>2, <4>3, PrecedesLater
    <3> QED BY <1>0, <2>8, <3>1, <3>2
  <2>11. idx[j - 1].timestamp <= Line(f, k).ts
    BY <1>0, <1>1, <2>4, <2>8, <2>9
  <2> QED BY <1>0, <2>3, <2>8, <2>9, <2>10, <2>11 DEF L
<1> QED BY <1>2, <1>3

LEMMA InvInit == Init => IInv
<1> SUFFICES ASSUME Init PROVE IInv
  OBVIOUS
<1>1. TypeInv
  <2>1. Idle \in Builders /\ Idle.pc # "scanning"
    BY BuilderAssumption DEF Idle, Builders, NoLine
  <2> QED BY <2>1, BuilderAssumption DEF Init, TypeInv, TypeOK, LoopInFile
<1>2. TimesAreOrdered(file) /\ GoodIndex(file, index, indexed)
  BY DEF Init, TimesAreOrdered, GoodIndex
<1>3. GoodLoop(file, builder)
  BY DEF Init, GoodLoop, Idle
<1> QED BY <1>1, <1>2, <1>3 DEF IInv

LEMMA InvariantHolds == Spec => []IInv
<1>1. IInv /\ [Next]_vars => IInv'
  BY InvStep
<1> QED BY <1>1, InvInit, PTL DEF Spec

(* The words of the properties and those of the invariant.                  *)
LEMMA WordsOfIndex ==
    ASSUME IInv
    PROVE  /\ file \in Seq(Lines) /\ index \in Seq(TimeIndexes) /\ indexed \in Nat
           /\ indexed <= Len(file) /\ TimesAreOrdered(file)
           /\ \A k : Findable(k) <=> Indexable(file, k)
           /\ \A k : Line(file, k) = LineAt(k)
           /\ \A b, n : Crowded(b, n) <=> CrowdedIn(file, b, n)
           /\ \A s, b, n : LeadsToFirst(s, b, n) <=> Leads(file, s, b, n)
           /\ \A k \in 0..indexed - 1 : Closes(k) <=> ClosesAt(file, indexed, k)
           /\ index # << >> =>
                 \/ OpenIndex(file, index, indexed) /\ ~IndexIsClosed
                 \/ ClosedIndex(file, index, indexed) /\ IndexIsClosed
<1>1. /\ file \in Seq(Lines) /\ index \in Seq(TimeIndexes) /\ indexed \in Nat
      /\ indexed <= Len(file) /\ TimesAreOrdered(file)
      /\ index # << >> => OpenIndex(file, index, indexed) \/ ClosedIndex(file, index, indexed)
  BY LoopFacts DEF IInv, GoodIndex
<1>2. \A k : Findable(k) <=> Indexable(file, k)
  BY DEF Findable, Timed, Indexable, Line, LineAt
<1>3. \A k : Line(file, k) = LineAt(k)
  BY DEF Line, LineAt
<1>4. ASSUME NEW k \in 0..indexed - 1 PROVE Closes(k) <=> ClosesAt(file, indexed, k)
  <2>1. k < indexed
    BY <1>1
  <2> QED BY <1>2, <1>3, <2>1 DEF Closes, ClosesAt
<1>5. OpenIndex(file, index, indexed) => ~IndexIsClosed
  BY <1>4 DEF OpenIndex, IndexIsClosed
<1>6. ClosedIndex(file, index, indexed) => IndexIsClosed
  <2>1. ClosedIndex(file, index, indexed) => Final(index).offset \in 0..indexed - 1
    BY DEF ClosedIndex, ClosesAt
  <2> QED BY <1>4, <2>1 DEF ClosedIndex, IndexIsClosed
<1>7. \A b, n : Crowded(b, n) <=> CrowdedIn(file, b, n)
  <2>1. \A b, n : BucketLines(b, n) = Crowd(file, b, n)
    BY <1>2, <1>3 DEF BucketLines, Crowd
  <2> QED BY <2>1 DEF Crowded, CrowdedIn
<1>8. \A s, b, n : LeadsToFirst(s, b, n) <=> Leads(file, s, b, n)
  BY <1>7 DEF LeadsToFirst, Leads
<1> QED BY <1>1, <1>2, <1>3, <1>4, <1>5, <1>6, <1>7, <1>8

(* find_index_pos leads every query to every indexed line of its interval,  *)
(* for all intervals, thresholds, lines and files, but for lines of a       *)
(* crowded bucket that the query begins in (update_file_index_txt_mmap).    *)
THEOREM QueriesFindIndexedHolds == Spec => []QueriesFindIndexed
<1>1. IInv => QueriesFindIndexed
  <2> SUFFICES ASSUME IInv, index # << >>, NEW k \in 0..Final(index).offset,
                      Findable(k), k < Final(index).offset \/ IndexIsClosed,
                      NEW s \in 1..LineAt(k).ts, NEW e \in LineAt(k).ts..LineAt(k).ts + 1,
                      LeadsToFirst(s, BucketOf(LineAt(k).ts), indexed)
               PROVE  InSearchedRange(index, k, s, e)
    BY DEF QueriesFindIndexed
  <2>1. /\ file \in Seq(Lines) /\ index \in Seq(TimeIndexes) /\ indexed \in Nat
        /\ indexed <= Len(file) /\ TimesAreOrdered(file)
        /\ OpenIndex(file, index, indexed) \/ ClosedIndex(file, index, indexed)
    BY WordsOfIndex
  <2>2. Indexable(file, k) /\ Line(file, k) = LineAt(k)
    BY WordsOfIndex
  <2>3. k < Final(index).offset \/ ClosedIndex(file, index, indexed)
    BY WordsOfIndex
  <2>4. k \in Nat /\ LineAt(k).ts \in Nat
    BY <2>1, <2>2, LineFacts DEF Indexable
  <2>5. \A a, b \in DOMAIN index : a < b => index[a].offset <= index[b].offset
    BY <2>1, <2>2, <2>3, LineHasSegment
  <2> DEFINE n == Final(index).offset + 1
  <2>6. PICK i \in 1..Len(index) - 1 :
            /\ index[i].offset <= k /\ k <= index[i + 1].offset
            /\ index[i].timestamp <= LineAt(k).ts
            /\ Precedes(file, k, index[i + 1].timestamp, n)
    BY <2>1, <2>2, <2>3, LineHasSegment
  <2>7. s \in Nat /\ e \in Nat /\ s <= LineAt(k).ts /\ LineAt(k).ts <= e
    BY <2>4
  <2>8. n \in Nat /\ n <= indexed
    <3>1. Final(index).offset \in Nat
      BY <2>1, EntryFacts DEF Final
    <3>2. Final(index).offset < indexed
      BY <2>1 DEF OpenIndex, ClosedIndex, ClosesAt
    <3> QED BY <2>1, <3>1, <3>2
  <2>9. i \in DOMAIN index /\ i + 1 \in DOMAIN index
    BY <2>1
  <2>10. index[i].timestamp \in Nat /\ index[i + 1].timestamp \in Nat
    BY <2>1, <2>9, EntryFacts
  <2> HIDE DEF n
  <2>11. Leads(file, s, BucketOf(Line(file, k).ts), n)
    <3>1. Leads(file, s, BucketOf(Line(file, k).ts), indexed)
      BY <2>2, WordsOfIndex
    <3> QED BY <2>1, <2>8, <3>1, CrowdGrows DEF Leads
  <2>12. s <= index[i + 1].timestamp
    BY <2>2, <2>4, <2>6, <2>7, <2>8, <2>10, <2>11, PrecedesMeets
  <2>13. index[i].timestamp <= e
    BY <2>4, <2>6, <2>7, <2>10
  <2> QED BY <2>1, <2>4, <2>5, <2>6, <2>7, <2>12, <2>13, SegmentIsSearched
<1> QED BY <1>1, InvariantHolds, PTL

-----------------------------------------------------------------------------
(* The canonical index.                                                     *)

FirstOf(f, k) ==
    /\ Indexable(f, k)
    /\ \A j \in 0..k - 1 : Indexable(f, j) => BucketOf(Line(f, j).ts) < BucketOf(Line(f, k).ts)

EntryOf(f, k) == [timestamp |-> BucketOf(Line(f, k).ts), offset |-> k]

(* Every entry is that of the first line of a bucket, or of a crowded one   *)
(* ...                                                                      *)
LEMMA EntryIsFirst ==
    ASSUME NEW f \in Seq(Lines), NEW out \in Seq(TimeIndexes), NEW n \in Nat, n <= Len(f),
           Scanned(f, out, n), NEW i \in DOMAIN out, out[i].offset < n
    PROVE  /\ out[i].offset \in 0..n - 1 /\ Indexable(f, out[i].offset)
           /\ \/ FirstOf(f, out[i].offset)
              \/ CrowdedIn(f, BucketOf(Line(f, out[i].offset).ts), out[i].offset + 1)
           /\ out[i] = EntryOf(f, out[i].offset)
<1> DEFINE k == out[i].offset
<1>1. /\ \A m \in DOMAIN out : out[m].offset \in Nat /\ out[m].timestamp \in Nat
      /\ i \in Nat /\ i >= 1 /\ out # << >> /\ out[i] \in TimeIndexes
  BY EntryFacts
<1>2. k \in 0..n - 1
  BY <1>1
<1>3. Indexable(f, k) /\ out[i].timestamp = BucketOf(Line(f, k).ts)
  BY DEF Scanned, EntriesPoint
<1>4. out[i] = EntryOf(f, k)
  BY <1>1, <1>3 DEF EntryOf, TimeIndexes
<1>5. ASSUME ~CrowdedIn(f, BucketOf(Line(f, k).ts), k + 1), NEW j \in 0..k - 1, Indexable(f, j)
      PROVE  BucketOf(Line(f, j).ts) < BucketOf(Line(f, k).ts)
  <2>1. j \in 0..n - 1 /\ j \in Nat /\ j < k /\ j < Len(f)
    BY <1>2
  <2>2. /\ out[1].offset <= j
        /\ \A m \in DOMAIN out :
              \/ Line(f, j).ts < out[m].timestamp + IntervalSeconds
              \/ m + 1 \in DOMAIN out /\ out[m + 1].offset <= j
    BY <1>1, <1>5, <2>1 DEF Scanned, EntriesCover
  <2>3. i # 1
    <3>1. ~(k <= j)
      BY <1>2, <2>1
    <3> QED BY <2>2, <3>1
  <2>4. i - 1 \in DOMAIN out /\ i - 1 + 1 = i /\ i - 1 < i
    BY <1>1, <2>3
  <2>5. Line(f, j).ts < out[i - 1].timestamp + IntervalSeconds
    <3>1. ~(k <= j)
      BY <1>2, <2>1
    <3> QED BY <2>2, <2>4, <3>1
  <2>6. out[i - 1].timestamp + IntervalSeconds <= out[i].timestamp
    BY <1>3, <1>5, <2>4 DEF Scanned, EntriesAreSpaced
  <2>7. Line(f, j).ts \in Nat
    BY <2>1, LineFacts
  <2>8. BucketOf(Line(f, j).ts) \in Nat /\ BucketOf(Line(f, j).ts) <= Line(f, j).ts
    BY <2>7, BucketBounds
  <2> HIDE DEF k
  <2> QED BY <1>1, <1>3, <2>4, <2>5, <2>6, <2>7, <2>8, BuilderAssumption
<1> QED BY <1>2, <1>3, <1>4, <1>5 DEF FirstOf

(* ... and the first line of every bucket has one.                          *)
LEMMA FirstHasEntry ==
    ASSUME NEW f \in Seq(Lines), NEW out \in Seq(TimeIndexes), NEW n \in Nat, n <= Len(f),
           Scanned(f, out, n), out # << >>, NEW k \in 0..n - 1, FirstOf(f, k)
    PROVE  \E i \in DOMAIN out : out[i] = EntryOf(f, k)
<1> DEFINE S == {i \in DOMAIN out : out[i].offset <= k}
<1>1. /\ \A m \in DOMAIN out : out[m].offset \in Nat /\ out[m].timestamp \in Nat
      /\ 1 \in DOMAIN out /\ k \in Nat /\ Len(out) \in Nat /\ DOMAIN out = 1..Len(out)
      /\ \A m \in DOMAIN out : out[m] \in TimeIndexes
  BY EntryFacts
<1>2. Indexable(f, k)
  BY DEF FirstOf
<1>3. /\ out[1].offset <= k
      /\ \A m \in DOMAIN out :
            \/ Line(f, k).ts < out[m].timestamp + IntervalSeconds
            \/ m + 1 \in DOMAIN out /\ out[m + 1].offset <= k
  BY <1>2 DEF Scanned, EntriesCover
<1>4. S \subseteq 0..Len(out) /\ S # {}
  BY <1>1, <1>3
<1>5. PICK i \in S : \A j \in S : j <= i
  BY <1>1, <1>4, LargestExists
<1>6. i \in DOMAIN out /\ out[i].offset <= k /\ i \in Nat
  BY <1>1
<1>7. ~(i + 1 \in DOMAIN out /\ out[i + 1].offset <= k)
  <2>1. i + 1 \in S => i + 1 <= i
    BY <1>5
  <2> QED BY <1>6, <2>1
<1> HIDE DEF S
<1>8. Line(f, k).ts < out[i].timestamp + IntervalSeconds
  BY <1>3, <1>6, <1>7
<1>9. Indexable(f, out[i].offset) /\ out[i].timestamp = BucketOf(Line(f, out[i].offset).ts)
  BY <1>6 DEF Scanned, EntriesPoint
<1>10. Line(f, k).ts \in Nat /\ Line(f, out[i].offset).ts \in Nat
  BY <1>1, <1>2, <1>6, <1>9, LineFacts DEF Indexable
<1>11. BucketOf(Line(f, k).ts) <= BucketOf(Line(f, out[i].offset).ts)
  <2>1. /\ BucketOf(Line(f, k).ts) \in Nat /\ BucketOf(Line(f, k).ts) <= Line(f, k).ts
        /\ BucketOf(Line(f, out[i].offset).ts) \in Nat
    BY <1>10, BucketBounds
  <2>2. BucketOf(Line(f, k).ts) < BucketOf(Line(f, out[i].offset).ts) + IntervalSeconds
    BY <1>8, <1>9, <1>10, <2>1, BuilderAssumption
  <2> QED BY <1>10, <2>2, BucketsOrdered
<1>12. out[i].offset = k
  <2>1. ASSUME out[i].offset < k PROVE FALSE
    <3>1. out[i].offset \in 0..k - 1
      BY <1>1, <1>6, <2>1
    <3>2. BucketOf(Line(f, out[i].offset).ts) < BucketOf(Line(f, k).ts)
      BY <1>9, <3>1 DEF FirstOf
    <3>3. BucketOf(Line(f, k).ts) \in Nat /\ BucketOf(Line(f, out[i].offset).ts) \in Nat
      BY <1>10, BucketBounds
    <3> QED BY <1>11, <3>2, <3>3
  <2> QED BY <1>1, <1>6, <2>1
<1>13. out[i] = EntryOf(f, k)
  BY <1>1, <1>6, <1>9, <1>12 DEF EntryOf, TimeIndexes
<1> QED BY <1>6, <1>13

LEMMA CanonicalFollows == IInv => IndexIsCanonical
<1> SUFFICES ASSUME IInv, index # << >> PROVE IndexIsCanonical
  BY DEF IndexIsCanonical
<1> DEFINE body == IF IndexIsClosed THEN SubSeq(index, 1, Len(index) - 1) ELSE index
<1>1. /\ file \in Seq(Lines) /\ index \in Seq(TimeIndexes) /\ indexed \in Nat
      /\ indexed <= Len(file)
      /\ \/ OpenIndex(file, index, indexed) /\ ~IndexIsClosed
         \/ ClosedIndex(file, index, indexed) /\ IndexIsClosed
  BY WordsOfIndex
<1>2. /\ body \in Seq(TimeIndexes) /\ body # << >> /\ Scanned(file, body, indexed)
      /\ Final(body).offset < indexed
  <2>1. CASE OpenIndex(file, index, indexed) /\ ~IndexIsClosed
    BY <1>1, <2>1 DEF OpenIndex
  <2>2. CASE ClosedIndex(file, index, indexed) /\ IndexIsClosed
    <3>1. /\ body = AllButLast(index) /\ AllButLast(index) \in Seq(TimeIndexes)
          /\ AllButLast(index) # << >>
          /\ Scanned(file, AllButLast(index), indexed)
      BY <1>1, <2>2, AllButLastFacts DEF ClosedIndex, AllButLast
    <3>2. Final(AllButLast(index)).offset < indexed
      <4>1. /\ Final(AllButLast(index)).offset <= Final(index).offset
            /\ Final(index).offset \in 0..indexed - 1
        BY <2>2 DEF ClosedIndex, ClosesAt
      <4>2. Final(AllButLast(index)).offset \in Nat
        <5>1. Len(AllButLast(index)) \in DOMAIN AllButLast(index)
          BY <3>1
        <5> QED BY <3>1, <5>1, EntryFacts DEF Final
      <4> QED BY <1>1, <4>1, <4>2
    <3> QED BY <3>1, <3>2
  <2> QED BY <1>1, <2>1, <2>2
<1> HIDE DEF body
<1>3. /\ \A i \in DOMAIN body : body[i].offset \in Nat /\ body[i].offset < indexed
      /\ \A i, j \in DOMAIN body : i < j => body[i].offset < body[j].offset
  <2>1. \A i, j \in DOMAIN body : i < j => body[i].offset < body[j].offset
    BY <1>2 DEF Scanned, EntriesAreSpaced
  <2>2. Len(body) \in DOMAIN body /\ \A i \in DOMAIN body : i = Len(body) \/ i < Len(body)
    BY <1>2
  <2>3. \A i \in DOMAIN body : body[i].offset \in Nat
    BY <1>2, EntryFacts
  <2>4. ASSUME NEW i \in DOMAIN body PROVE body[i].offset < indexed
    <3>1. body[Len(body)].offset < indexed
      BY <1>2 DEF Final
    <3>2. i = Len(body) \/ body[i].offset < body[Len(body)].offset
      BY <2>1, <2>2
    <3>3. body[i].offset \in Nat /\ body[Len(body)].offset \in Nat
      BY <2>2, <2>3
    <3> QED BY <1>1, <3>1, <3>2, <3>3
  <2> QED BY <2>1, <2>3, <2>4
<1>4. \A k \in 0..indexed - 1 :
          /\ IsBucketFirst(k) <=> FirstOf(file, k)
          /\ [timestamp |-> BucketOf(LineAt(k).ts), offset |-> k] = EntryOf(file, k)
  BY WordsOfIndex DEF IsBucketFirst, FirstOf, EntryOf
<1>5. ASSUME NEW k \in 0..indexed - 1, IsBucketFirst(k)
      PROVE  \E i \in DOMAIN body : body[i] = [timestamp |-> BucketOf(LineAt(k).ts), offset |-> k]
  BY <1>1, <1>2, <1>4, <1>5, FirstHasEntry
<1>7. ASSUME NEW i \in DOMAIN body
      PROVE  LET k == body[i].offset IN
             /\ k < indexed /\ Findable(k)
             /\ body[i] = [timestamp |-> BucketOf(LineAt(k).ts), offset |-> k]
             /\ IsBucketFirst(k) \/ Crowded(BucketOf(LineAt(k).ts), k + 1)
  <2> DEFINE k == body[i].offset
  <2>1. /\ k \in 0..indexed - 1 /\ Indexable(file, k)
        /\ FirstOf(file, k) \/ CrowdedIn(file, BucketOf(Line(file, k).ts), k + 1)
        /\ body[i] = EntryOf(file, k) /\ k < indexed
    BY <1>1, <1>2, <1>3, EntryIsFirst
  <2> HIDE DEF k
  <2>2. Findable(k) /\ LineAt(k) = Line(file, k)
        /\ (Crowded(BucketOf(LineAt(k).ts), k + 1)
              <=> CrowdedIn(file, BucketOf(Line(file, k).ts), k + 1))
    BY <2>1, WordsOfIndex
  <2> QED BY <1>4, <2>1, <2>2 DEF k
<1>6. ASSUME NEW k \in 0..indexed - 1, Closes(k)
      PROVE  Final(index) = [timestamp |-> LineAt(k).ts, offset |-> k]
  <2>1. ClosesAt(file, indexed, k) /\ LineAt(k) = Line(file, k)
    BY <1>6, WordsOfIndex
  <2>2. ClosedIndex(file, index, indexed)
    BY <1>1, <2>1 DEF OpenIndex
  <2> DEFINE m == Final(index).offset
  <2>3. /\ ClosesAt(file, indexed, m) /\ Final(index).timestamp = Line(file, m).ts
        /\ m \in 0..indexed - 1
    BY <2>2 DEF ClosedIndex, ClosesAt
  <2>4. Final(index) \in TimeIndexes
    BY <1>1, <2>2 DEF Final, ClosedIndex
  <2> HIDE DEF m
  <2>5. k = m
    <3>1. ~(k < m)
      <4>1. k < m => m \in k + 1..indexed - 1
        BY <2>3
      <4> QED BY <2>1, <2>3, <4>1 DEF ClosesAt, Indexable
    <3>2. ~(m < k)
      <4>1. m < k => k \in m + 1..indexed - 1
        BY <2>3
      <4> QED BY <2>1, <2>3, <4>1 DEF ClosesAt, Indexable
    <3> QED BY <2>3, <3>1, <3>2
  <2> QED BY <2>1, <2>3, <2>4, <2>5 DEF TimeIndexes, m
<1> QED BY <1>3, <1>5, <1>6, <1>7 DEF IndexIsCanonical, body

(* However often a growing file was indexed, its index has the first line   *)
(* of every bucket and the closing line, in order, and nothing else but     *)
(* further lines of buckets beyond the threshold, for every threshold       *)
(* (update_file_index_txt_mmap).                                            *)
THEOREM IndexIsCanonicalHolds == Spec => []IndexIsCanonical
BY InvariantHolds, CanonicalFollows, PTL

-----------------------------------------------------------------------------
(* Recursive functions on the first naturals.                               *)

Solvable(n, S, x, step) ==
    \E g \in [0..n -> S] : g[0] = x /\ \A k \in 1..n : g[k] = step[<<k, g[k - 1]>>]

LEMMA RecursionExists ==
    ASSUME NEW n \in Nat, NEW S, NEW x \in S, NEW step \in [(1..n) \X S -> S]
    PROVE  Solvable(n, S, x, step)
<1> DEFINE Solves(g, m) == g[0] = x /\ \A k \in 1..m : g[k] = step[<<k, g[k - 1]>>]
           T == {m \in 0..n : ~Solvable(m, S, x, step)}
<1>1. SUFFICES ASSUME T # {} PROVE FALSE
  <2>1. ASSUME T = {} PROVE Solvable(n, S, x, step)
    <3>1. n \in 0..n /\ n \notin T
      BY <2>1
    <3> QED BY <3>1
  <2> QED BY <2>1
<1>2. PICK m \in T : \A l \in T : m <= l
  <2>1. T \subseteq Nat
    OBVIOUS
  <2> QED BY <1>1, <2>1, SmallestExists
<1>3. m \in 0..n /\ ~Solvable(m, S, x, step)
  OBVIOUS
<1>4. m # 0
  <2>1. [k \in 0..0 |-> x] \in [0..0 -> S] /\ Solves([k \in 0..0 |-> x], 0)
    OBVIOUS
  <2> QED BY <1>3, <2>1 DEF Solvable
<1>5. PICK g \in [0..m - 1 -> S] : Solves(g, m - 1)
  <2>1. Solvable(m - 1, S, x, step)
    <3>1. m - 1 \in 0..n /\ m - 1 \notin T
      BY <1>2, <1>3, <1>4
    <3> QED BY <3>1
  <2> QED BY <2>1 DEF Solvable
<1> DEFINE h == [k \in 0..m |-> IF k = m THEN step[<<m, g[m - 1]>>] ELSE g[k]]
<1>6. h \in [0..m -> S]
  <2>1. m \in 1..n /\ m - 1 \in 0..m - 1 /\ \A k \in 0..m : k = m \/ k \in 0..m - 1
    <3>1. m \in Nat /\ m \in 1..n
      BY <1>3, <1>4
    <3> QED BY <3>1
  <2>2. g[m - 1] \in S /\ step[<<m, g[m - 1]>>] \in S
    BY <2>1
  <2> QED BY <2>1, <2>2
<1>7. Solves(h, m)
  <2>1. h[0] = x
    BY <1>3, <1>4, <1>5
  <2>2. ASSUME NEW k \in 1..m PROVE h[k] = step[<<k, h[k - 1]>>]
    <3>1. k - 1 \in 0..m - 1 /\ h[k - 1] = g[k - 1]
      BY <1>3
    <3>2. CASE k = m
      <4>1. h[m] = step[<<m, g[m - 1]>>]
        BY <1>3
      <4> QED BY <3>1, <3>2, <4>1
    <3>3. CASE k # m
      <4>1. k \in 1..m - 1 /\ h[k] = g[k]
        BY <1>3, <3>3
      <4> QED BY <1>5, <3>1, <4>1
    <3> QED BY <3>2, <3>3
  <2> QED BY <2>1, <2>2
<1> QED BY <1>3, <1>6, <1>7 DEF Solvable

(* Two solutions agree.                                                     *)
Agree(n, g, h) == \A k \in 0..n : g[k] = h[k]

LEMMA RecursionAgrees ==
    ASSUME NEW n \in Nat, NEW g, NEW h, g[0] = h[0],
           \A k \in 1..n : g[k - 1] = h[k - 1] => g[k] = h[k]
    PROVE  Agree(n, g, h)
<1> DEFINE T == {k \in 0..n : g[k] # h[k]}
<1> SUFFICES ASSUME T # {} PROVE FALSE
  BY DEF Agree
<1>1. PICK k \in T : \A l \in T : k <= l
  <2>1. T \subseteq Nat
    OBVIOUS
  <2> QED BY <2>1, SmallestExists
<1>2. k \in 1..n /\ k - 1 \in 0..n /\ k - 1 \notin T
  BY <1>1
<1>3. g[k - 1] = h[k - 1]
  BY <1>2
<1> QED BY <1>2, <1>3

-----------------------------------------------------------------------------
(* exec_searchers.                                                          *)

Hit(f, record) == \E i \in DOMAIN record : Line(f, record[i]).hit

(* What is taken of the first records, one function value for each number.  *)
Taken(f, matched, records) ==
    LET taken[n \in 0..Len(records)] ==
            IF n = 0 THEN matched
            ELSE LET before == taken[n - 1] IN
                 IF (n > 1 /\ Len(before) >= MaxResults) \/ ~Hit(f, records[n]) THEN before
                 ELSE Append(before, records[n])
    IN taken

Exec(f, matched, records) == Taken(f, matched, records)[Len(records)]

LEMMA ExecIsExecSearchers ==
    \A matched, records : ExecSearchers(matched, records) = Exec(file, matched, records)
BY DEF ExecSearchers, Exec, Taken, Matches, Hit, LineAt, Line

(* The next of what is taken.                                               *)
TakeNext(f, n, before, record) ==
    IF (n > 1 /\ Len(before) >= MaxResults) \/ ~Hit(f, record) THEN before
    ELSE Append(before, record)

TakesInTurn(t, R, f, matched, records) ==
    /\ t \in [0..Len(records) -> Seq(R)] /\ t[0] = matched
    /\ \A n \in 1..Len(records) : t[n] = TakeNext(f, n, t[n - 1], records[n])

LEMMA TakenIsRecursive ==
    ASSUME NEW R, NEW f, NEW matched \in Seq(R), NEW records \in Seq(R)
    PROVE  TakesInTurn(Taken(f, matched, records), R, f, matched, records)
<1> DEFINE N == Len(records)
           step == [p \in (1..N) \X Seq(R) |-> TakeNext(f, p[1], p[2], records[p[1]])]
<1>1. N \in Nat /\ \A n \in 1..N : records[n] \in R
  OBVIOUS
<1>2. ASSUME NEW n \in 1..N, NEW s \in Seq(R) PROVE TakeNext(f, n, s, records[n]) \in Seq(R)
  BY <1>1, <1>2 DEF TakeNext
<1>3. step \in [(1..N) \X Seq(R) -> Seq(R)]
  BY <1>2
<1>4. \A n \in 1..N, s \in Seq(R) : step[<<n, s>>] = TakeNext(f, n, s, records[n])
  OBVIOUS
<1> HIDE DEF step, N
<1>5. PICK g \in [0..N -> Seq(R)] :
        g[0] = matched /\ \A k \in 1..N : g[k] = step[<<k, g[k - 1]>>]
  <2> DEFINE Q == Seq(R)
  <2>1. matched \in Q /\ step \in [(1..N) \X Q -> Q]
    BY <1>3
  <2> HIDE DEF Q
  <2>2. Solvable(N, Q, matched, step)
    BY <1>1, <2>1, RecursionExists
  <2> QED BY <2>2 DEF Q, Solvable
<1> DEFINE Body(t) == [n \in 0..N |-> IF n = 0 THEN matched
                                      ELSE TakeNext(f, n, t[n - 1], records[n])]
<1>6. g = Body(g)
  <2>1. ASSUME NEW n \in 0..N PROVE g[n] = Body(g)[n]
    <3>1. CASE n = 0
      BY <1>5, <3>1
    <3>2. CASE n # 0
      <4>1. n \in 1..N /\ n - 1 \in 0..N
        BY <1>1, <3>2
      <4> QED BY <1>4, <1>5, <3>2, <4>1
    <3> QED BY <3>1, <3>2
  <2> QED BY <2>1
<1>7. Taken(f, matched, records) = CHOOSE t : t = Body(t)
  BY DEF Taken, TakeNext, N
<1>8. Taken(f, matched, records) = Body(Taken(f, matched, records))
  BY <1>6, <1>7
<1>10. \A n \in 1..N : g[n] = TakeNext(f, n, g[n - 1], records[n])
  <2> SUFFICES ASSUME NEW n \in 1..N
               PROVE  g[n] = TakeNext(f, n, g[n - 1], records[n])
    OBVIOUS
  <2>1. g[n - 1] \in Seq(R) /\ g[n] = step[<<n, g[n - 1]>>]
    BY <1>1, <1>5
  <2> QED BY <1>4, <2>1
<1>9. Taken(f, matched, records) = g
  <2> DEFINE t == Taken(f, matched, records)
  <2>1. \A k \in 0..N : t[k] = Body(t)[k] /\ g[k] = Body(g)[k]
    BY <1>6, <1>8
  <2> HIDE DEF t
  <2>2. t[0] = matched /\ \A k \in 1..N : t[k] = TakeNext(f, k, t[k - 1], records[k])
    BY <1>1, <2>1
  <2>3. \A k \in 1..N : g[k - 1] = t[k - 1] => g[k] = t[k]
    BY <1>10, <2>2
  <2>4. \A k \in 0..N : g[k] = t[k]
    <3>1. N \in Nat /\ g[0] = t[0]
      BY <1>1, <1>5, <2>2
    <3>2. Agree(N, g, t)
      BY ONLY <2>3, <3>1, RecursionAgrees
    <3> QED BY <3>2 DEF Agree
  <2>5. t = [k \in 0..N |-> t[k]]
    BY <1>8 DEF t
  <2> QED BY <2>4, <2>5 DEF t
<1> QED BY <1>5, <1>9, <1>10 DEF N, TakesInTurn

LEMMA ExecType ==
    ASSUME NEW R, NEW f, NEW matched \in Seq(R), NEW records \in Seq(R)
    PROVE  Exec(f, matched, records) \in Seq(R)
<1>1. Len(records) \in 0..Len(records)
  OBVIOUS
<1>2. TakesInTurn(Taken(f, matched, records), R, f, matched, records)
  BY TakenIsRecursive
<1> QED BY <1>1, <1>2 DEF Exec, TakesInTurn

LEMMA ExecNone ==
    ASSUME NEW R, NEW f, NEW matched \in Seq(R)
    PROVE  Exec(f, matched, << >>) = matched
<1>1. << >> \in Seq(R) /\ Len(<< >>) = 0
  OBVIOUS
<1>2. TakesInTurn(Taken(f, matched, << >>), R, f, matched, << >>)
  BY <1>1, TakenIsRecursive
<1> QED BY <1>1, <1>2 DEF Exec, TakesInTurn

LEMMA ExecOne ==
    ASSUME NEW R, NEW f, NEW matched \in Seq(R), NEW records \in Seq(R), NEW record \in R
    PROVE  Exec(f, matched, Append(records, record))
              = TakeNext(f, Len(records) + 1, Exec(f, matched, records), record)
<1> DEFINE more == Append(records, record)
           t == Taken(f, matched, records)
           u == Taken(f, matched, more)
           N == Len(records)
<1>1. /\ more \in Seq(R) /\ N \in Nat /\ Len(more) = N + 1 /\ more[N + 1] = record
      /\ \A k \in 1..N : more[k] = records[k]
  OBVIOUS
<1>2. t[0] = matched /\ \A n \in 1..N : t[n] = TakeNext(f, n, t[n - 1], records[n])
  <2>1. TakesInTurn(t, R, f, matched, records)
    BY TakenIsRecursive
  <2> QED BY <2>1 DEF TakesInTurn
<1>3. u[0] = matched /\ \A n \in 1..Len(more) : u[n] = TakeNext(f, n, u[n - 1], more[n])
  <2> HIDE DEF more
  <2>1. TakesInTurn(u, R, f, matched, more)
    BY <1>1, TakenIsRecursive
  <2> QED BY <2>1 DEF TakesInTurn
<1>4. Exec(f, matched, records) = t[N] /\ Exec(f, matched, more) = u[Len(more)]
  BY DEF Exec
<1> HIDE DEF more, t, u, N
<1>5. t[N] = u[N]
  <2>1. t[0] = u[0] /\ \A k \in 1..N : t[k - 1] = u[k - 1] => t[k] = u[k]
    BY <1>1, <1>2, <1>3
  <2>2. Agree(N, t, u)
    BY ONLY <1>1, <2>1, RecursionAgrees
  <2> QED BY <1>1, <2>2 DEF Agree
<1> DEFINE n == N + 1
<1>6. n \in 1..Len(more) /\ n = Len(more) /\ n - 1 = N /\ more[n] = record
  BY <1>1
<1> HIDE DEF n
<1>7. u[n] = TakeNext(f, n, u[n - 1], more[n])
  BY <1>3, <1>6
<1>8. u[Len(more)] = TakeNext(f, n, t[N], record)
  BY <1>5, <1>6, <1>7
<1> QED BY <1>4, <1>8 DEF more, N, n

(* Only whether the records match matters.                                  *)
LEMMA ExecSame ==
    ASSUME NEW R, NEW f, NEW g, NEW matched \in Seq(R), NEW records \in Seq(R),
           \A n \in DOMAIN records : Hit(f, records[n]) <=> Hit(g, records[n])
    PROVE  Exec(f, matched, records) = Exec(g, matched, records)
<1> DEFINE t == Taken(f, matched, records)
           u == Taken(g, matched, records)
           N == Len(records)
<1>1. N \in Nat
  OBVIOUS
<1>2. t[0] = matched /\ \A n \in 1..N : t[n] = TakeNext(f, n, t[n - 1], records[n])
  <2>1. TakesInTurn(t, R, f, matched, records)
    BY TakenIsRecursive
  <2> QED BY <2>1 DEF TakesInTurn
<1>3. u[0] = matched /\ \A n \in 1..N : u[n] = TakeNext(g, n, u[n - 1], records[n])
  <2>1. TakesInTurn(u, R, g, matched, records)
    BY TakenIsRecursive
  <2> QED BY <2>1 DEF TakesInTurn
<1>4. \A n \in 1..N : Hit(f, records[n]) <=> Hit(g, records[n])
  OBVIOUS
<1>5. Exec(f, matched, records) = t[N] /\ Exec(g, matched, records) = u[N]
  BY DEF Exec
<1> HIDE DEF t, u, N
<1>6. t[0] = u[0] /\ \A k \in 1..N : t[k - 1] = u[k - 1] => t[k] = u[k]
  BY <1>2, <1>3, <1>4 DEF TakeNext
<1>7. Agree(N, t, u)
  BY ONLY <1>1, <1>6, RecursionAgrees
<1> QED BY <1>1, <1>5, <1>7 DEF Agree

-----------------------------------------------------------------------------
(* The first of the results.                                                *)

LEMMA UptoFacts ==
    ASSUME NEW R, NEW s \in Seq(R), NEW m \in Nat
    PROVE  /\ Upto(s, m) \in Seq(R)
           /\ Len(Upto(s, m)) = IF Len(s) <= m THEN Len(s) ELSE m
           /\ \A i \in 1..Len(Upto(s, m)) : i \in 1..Len(s) /\ i <= m /\ Upto(s, m)[i] = s[i]
<1>1. CASE Len(s) <= m
  <2>1. Upto(s, m) = SubSeq(s, 1, Len(s))
    BY <1>1 DEF Upto
  <2>2. SubSeq(s, 1, Len(s)) = s
    OBVIOUS
  <2> QED BY <1>1, <2>1, <2>2
<1>2. CASE ~(Len(s) <= m)
  <2>1. Upto(s, m) = SubSeq(s, 1, m) /\ m < Len(s)
    BY <1>2 DEF Upto
  <2>2. /\ SubSeq(s, 1, m) \in Seq(R) /\ Len(SubSeq(s, 1, m)) = m
        /\ \A i \in 1..m : SubSeq(s, 1, m)[i] = s[i]
    BY <2>1
  <2> QED BY <1>2, <2>1, <2>2
<1> QED BY <1>1, <1>2

(* Enough results are not changed by more.                                  *)
LEMMA UptoFull ==
    ASSUME NEW R, NEW s \in Seq(R), NEW m \in Nat, Len(s) >= m, NEW x \in R
    PROVE  Upto(Append(s, x), m) = Upto(s, m)
<1> DEFINE t == Append(s, x)
<1>1. t \in Seq(R) /\ Len(t) = Len(s) + 1 /\ \A i \in 1..Len(s) : t[i] = s[i]
  OBVIOUS
<1> HIDE DEF t
<1>2. /\ Upto(t, m) \in Seq(R) /\ Len(Upto(t, m)) = m
      /\ \A i \in 1..m : Upto(t, m)[i] = t[i]
  BY <1>1, UptoFacts
<1>3. /\ Upto(s, m) \in Seq(R) /\ Len(Upto(s, m)) = m
      /\ \A i \in 1..m : i \in 1..Len(s) /\ Upto(s, m)[i] = s[i]
  BY UptoFacts
<1>4. \A i \in 1..m : Upto(t, m)[i] = Upto(s, m)[i]
  BY <1>1, <1>2, <1>3
<1> QED BY <1>2, <1>3, <1>4, SeqEqual DEF t

LEMMA UptoLength ==
    ASSUME NEW R, NEW s \in Seq(R), NEW t \in Seq(R), NEW m \in Nat, Upto(s, m) = Upto(t, m)
    PROVE  Len(s) >= m <=> Len(t) >= m
BY UptoFacts

(* Results that agree so far agree with one more.                           *)
LEMMA UptoNext ==
    ASSUME NEW R, NEW s \in Seq(R), NEW t \in Seq(R), NEW m \in Nat, Upto(s, m) = Upto(t, m),
           NEW x \in R
    PROVE  Upto(Append(s, x), m) = Upto(Append(t, x), m)
<1>1. CASE Len(s) >= m
  <2>1. Len(t) >= m
    BY <1>1, UptoLength
  <2> QED BY <1>1, <2>1, UptoFull
<1>2. CASE ~(Len(s) >= m)
  <2>1. ~(Len(t) >= m)
    BY <1>2, UptoLength
  <2>2. ASSUME NEW r \in Seq(R), ~(Len(r) >= m) PROVE Upto(r, m) = r
    <3>1. Len(r) <= m /\ SubSeq(r, 1, Len(r)) = r
      BY <2>2
    <3> QED BY <3>1 DEF Upto
  <2>3. s = t
    BY <1>2, <2>1, <2>2
  <2> QED BY <2>3
<1> QED BY <1>1, <1>2

(* One more record: it is taken if it matches, up to the limit.             *)
WithRecord(f, before, record) == IF Hit(f, record) THEN Append(before, record) ELSE before

LEMMA ExecFollows ==
    ASSUME NEW R, NEW f, NEW matched \in Seq(R), NEW records \in Seq(R), NEW record \in R,
           NEW s \in Seq(R), Upto(Exec(f, matched, records), MaxResults) = Upto(s, MaxResults)
    PROVE  Upto(Exec(f, matched, Append(records, record)), MaxResults)
              = Upto(WithRecord(f, s, record), MaxResults)
<1> DEFINE E == Exec(f, matched, records)
           m == MaxResults
<1>1. E \in Seq(R) /\ m \in Nat
  BY ExecType, SearchAssumption
<1>2. Exec(f, matched, Append(records, record)) = TakeNext(f, Len(records) + 1, E, record)
  BY ExecOne
<1>3. Upto(Append(E, record), m) = Upto(Append(s, record), m)
  <2> HIDE DEF E, m
  <2>1. Upto(E, m) = Upto(s, m)
    BY DEF E, m
  <2> QED BY <1>1, <2>1, UptoNext
<1>4. Len(E) >= m => Upto(Append(E, record), m) = Upto(E, m)
  <2> HIDE DEF E, m
  <2> QED BY <1>1, UptoFull
<1> HIDE DEF E, m
<1>5. Upto(TakeNext(f, Len(records) + 1, E, record), m) = Upto(WithRecord(f, E, record), m)
  <2>1. CASE ~Hit(f, record)
    BY <2>1 DEF TakeNext, WithRecord
  <2>2. CASE Hit(f, record) /\ Len(E) >= m
    BY <1>4, <2>2 DEF TakeNext, WithRecord, m
  <2>3. CASE Hit(f, record) /\ ~(Len(E) >= m)
    BY <2>3 DEF TakeNext, WithRecord, m
  <2> QED BY <2>1, <2>2, <2>3
<1>6. Upto(WithRecord(f, E, record), m) = Upto(WithRecord(f, s, record), m)
  <2>1. CASE Hit(f, record)
    BY <1>3, <2>1 DEF WithRecord
  <2>2. CASE ~Hit(f, record)
    BY <2>2 DEF WithRecord, E, m
  <2> QED BY <2>1, <2>2
<1> QED BY <1>2, <1>5, <1>6 DEF m

-----------------------------------------------------------------------------
(* The records of the file, as a scan finds them one header after another.  *)

Untimed(f, a, b) == \A i \in a..b : Line(f, i).ts = 0

InInterval(f, k, s, e) == Line(f, k).ts # 0 /\ Line(f, k).ts \in s..e

EndOf(f, k, n) ==
    CHOOSE j \in k + 1..n : Untimed(f, k + 1, j - 1) /\ (j = n \/ Line(f, j).ts # 0)

(* The offsets of a record that begins at h, up to p.                       *)
Span(h, p) == [i \in 1..p - h |-> h + i - 1]

RecordOf(f, k, n) == Span(k, EndOf(f, k, n))

Found(f, n, s, e) ==
    LET found[k \in 0..n] ==
            IF k = 0 THEN << >>
            ELSE LET before == found[k - 1]
                     record == RecordOf(f, k - 1, n)
                 IN IF InInterval(f, k - 1, s, e) /\ Hit(f, record)
                    THEN Append(before, record) ELSE before
    IN found

LEMMA ScanIsFound ==
    \A n, s, e : ScanRecords(n, s, e) = Found(file, n, s, e)[n]
BY DEF ScanRecords, Found, RecordAt, RecordOf, Span, EndOf, Untimed, InInterval, Timed,
       Matches, Hit, LineAt, Line

FullRecords == Records \ {<< >>}

LEMMA SpanFacts ==
    ASSUME NEW h \in Nat, NEW p \in Nat, h < p
    PROVE  /\ Span(h, p) \in Seq(h..p - 1) /\ Len(Span(h, p)) = p - h /\ Span(h, p) # << >>
           /\ \A i \in 1..p - h : Span(h, p)[i] = h + i - 1
<1>1. p - h \in Nat /\ \A i \in 1..p - h : h + i - 1 \in h..p - 1
  OBVIOUS
<1>2. Span(h, p) \in [1..p - h -> h..p - 1]
  BY <1>1 DEF Span
<1>3. \A i \in 1..p - h : Span(h, p)[i] = h + i - 1
  BY DEF Span
<1> QED BY <1>1, <1>2, <1>3

LEMMA SpanType ==
    ASSUME NEW h \in Nat, NEW p \in 0..MaxLines + 1, h < p
    PROVE  Span(h, p) \in FullRecords
<1>1. p - h \in Nat /\ \A i \in 1..p - h : h + i - 1 \in 0..MaxLines
  BY BuilderAssumption
<1>2. Span(h, p) \in [1..p - h -> 0..MaxLines]
  BY <1>1 DEF Span
<1>3. Span(h, p) # << >>
  BY SpanFacts, BuilderAssumption
<1>4. Span(h, p) \in Seq(0..MaxLines)
  <2>1. ASSUME NEW m \in Nat, NEW S, NEW r \in [1..m -> S] PROVE r \in Seq(S)
    OBVIOUS
  <2> QED BY ONLY <1>1, <1>2, <2>1
<1> QED BY <1>3, <1>4 DEF FullRecords, Records

(* A record ends before the next header, or where the lines end.            *)
IsEnd(f, k, n, j) == Untimed(f, k + 1, j - 1) /\ (j = n \/ Line(f, j).ts # 0)

LEMMA EndIs ==
    ASSUME NEW f, NEW n \in Nat, NEW k \in 0..n - 1, NEW j \in k + 1..n, IsEnd(f, k, n, j)
    PROVE  EndOf(f, k, n) = j
<1>1. ASSUME NEW a \in k + 1..n, NEW b \in k + 1..n, IsEnd(f, k, n, a), IsEnd(f, k, n, b),
             a < b
      PROVE  FALSE
  <2>1. a \in k + 1..b - 1 /\ a # n
    BY <1>1
  <2> QED BY <1>1, <2>1 DEF IsEnd, Untimed
<1>2. ASSUME NEW i \in k + 1..n, IsEnd(f, k, n, i) PROVE i = j
  <2>1. ~(i < j) /\ ~(j < i)
    BY <1>1, <1>2
  <2> QED BY <2>1
<1>3. EndOf(f, k, n) = CHOOSE i \in k + 1..n : IsEnd(f, k, n, i)
  BY DEF EndOf, IsEnd
<1> QED BY <1>2, <1>3

LEMMA EndExists ==
    ASSUME NEW f, NEW n \in Nat, NEW k \in 0..n - 1
    PROVE  EndOf(f, k, n) \in k + 1..n /\ IsEnd(f, k, n, EndOf(f, k, n))
<1> DEFINE S == {j \in k + 1..n : j = n \/ Line(f, j).ts # 0}
<1>1. n \in S /\ S \subseteq Nat
  OBVIOUS
<1>2. PICK j \in S : \A i \in S : j <= i
  BY <1>1, SmallestExists
<1>3. Untimed(f, k + 1, j - 1)
  <2> SUFFICES ASSUME NEW i \in k + 1..j - 1 PROVE Line(f, i).ts = 0
    BY DEF Untimed
  <2>1. i \in k + 1..n /\ ~(j <= i)
    BY <1>1
  <2>2. i \notin S
    BY <1>2, <2>1
  <2> QED BY <2>1, <2>2
<1>4. j \in k + 1..n /\ IsEnd(f, k, n, j)
  BY <1>3 DEF IsEnd
<1> QED BY <1>4, EndIs

LEMMA RecordFacts ==
    ASSUME NEW f, NEW n \in 0..MaxLines, NEW k \in 0..n - 1
    PROVE  /\ RecordOf(f, k, n) \in FullRecords
           /\ \A i \in DOMAIN RecordOf(f, k, n) : RecordOf(f, k, n)[i] \in 0..n - 1
<1>1. n \in Nat /\ k \in Nat
  BY BuilderAssumption
<1>2. EndOf(f, k, n) \in k + 1..n
  BY <1>1, EndExists
<1> DEFINE j == EndOf(f, k, n)
<1> HIDE DEF j
<1>3. j \in Nat /\ k < j /\ j \in 0..MaxLines + 1 /\ j <= n
  BY <1>1, <1>2, BuilderAssumption DEF j
<1>4. Span(k, j) \in FullRecords
  BY <1>1, <1>3, SpanType
<1>5. Span(k, j) \in Seq(k..j - 1)
  BY <1>1, <1>3, SpanFacts
<1>6. k..j - 1 \subseteq 0..n - 1
  BY <1>1, <1>3
<1>7. \A i \in DOMAIN Span(k, j) : Span(k, j)[i] \in 0..n - 1
  <2>1. ASSUME NEW S, NEW r \in Seq(S) PROVE \A i \in DOMAIN r : r[i] \in S
    OBVIOUS
  <2>2. \A i \in DOMAIN Span(k, j) : Span(k, j)[i] \in k..j - 1
    BY ONLY <1>5, <2>1
  <2> QED BY ONLY <1>6, <2>2
<1> QED BY <1>4, <1>7 DEF RecordOf, j

(* The first lines make the records.                                        *)
SameLines(f, g, n) == \A k \in 0..n - 1 : Line(f, k) = Line(g, k)

LEMMA SameRecords ==
    ASSUME NEW f, NEW g, NEW n \in Nat, SameLines(f, g, n), NEW k \in 0..n - 1
    PROVE  RecordOf(f, k, n) = RecordOf(g, k, n)
<1>1. EndOf(f, k, n) \in k + 1..n /\ IsEnd(f, k, n, EndOf(f, k, n))
  BY EndExists
<1> DEFINE j == EndOf(f, k, n)
<1>2. IsEnd(g, k, n, j)
  <2> HIDE DEF j
  <2>1. j \in k + 1..n /\ IsEnd(f, k, n, j)
    BY <1>1 DEF j
  <2>2. Untimed(g, k + 1, j - 1)
    <3>1. \A i \in k + 1..j - 1 : i \in 0..n - 1
      BY <2>1
    <3> QED BY <2>1, <3>1 DEF IsEnd, Untimed, SameLines
  <2>3. j = n \/ Line(g, j).ts # 0
    <3>1. j = n \/ j \in 0..n - 1
      BY <2>1
    <3> QED BY <2>1, <3>1 DEF IsEnd, SameLines
  <2> QED BY <2>2, <2>3 DEF IsEnd
<1>3. EndOf(g, k, n) = j
  BY <1>1, <1>2, EndIs
<1> QED BY <1>3 DEF RecordOf

(* Whether a record of these lines matches depends on them alone.           *)
LEMMA SameHits ==
    ASSUME NEW f, NEW g, NEW n \in Nat, SameLines(f, g, n), NEW r,
           \A i \in DOMAIN r : r[i] \in 0..n - 1
    PROVE  Hit(f, r) <=> Hit(g, r)
BY DEF Hit, SameLines

-----------------------------------------------------------------------------
(* What is found.                                                           *)

FindNext(f, n, s, e, k, before) ==
    IF InInterval(f, k, s, e) /\ Hit(f, RecordOf(f, k, n))
    THEN Append(before, RecordOf(f, k, n)) ELSE before

FindsInTurn(t, f, n, s, e) ==
    /\ t \in [0..n -> Seq(FullRecords)] /\ t[0] = << >>
    /\ \A k \in 1..n : t[k] = FindNext(f, n, s, e, k - 1, t[k - 1])

LEMMA FoundIsRecursive ==
    ASSUME NEW f, NEW n \in 0..MaxLines, NEW s, NEW e
    PROVE  FindsInTurn(Found(f, n, s, e), f, n, s, e)
<1> DEFINE Q == Seq(FullRecords)
           step == [p \in (1..n) \X Q |-> FindNext(f, n, s, e, p[1] - 1, p[2])]
           Body(t) == [k \in 0..n |-> IF k = 0 THEN << >>
                                      ELSE FindNext(f, n, s, e, k - 1, t[k - 1])]
<1>0. n \in Nat /\ << >> \in Q
  BY BuilderAssumption
<1>1. ASSUME NEW k \in 1..n, NEW before \in Q PROVE FindNext(f, n, s, e, k - 1, before) \in Q
  <2>1. k - 1 \in 0..n - 1
    BY <1>0
  <2>2. RecordOf(f, k - 1, n) \in FullRecords
    BY <2>1, RecordFacts
  <2> QED BY <2>2 DEF FindNext
<1> HIDE DEF Q
<1>2. step \in [(1..n) \X Q -> Q]
  BY <1>1
<1>3. \A k \in 1..n, before \in Q : step[<<k, before>>] = FindNext(f, n, s, e, k - 1, before)
  OBVIOUS
<1> HIDE DEF step
<1>4. Solvable(n, Q, << >>, step)
  BY <1>0, <1>2, RecursionExists
<1>5. PICK g \in [0..n -> Q] : g[0] = << >> /\ \A k \in 1..n : g[k] = step[<<k, g[k - 1]>>]
  BY <1>4 DEF Solvable
<1>6. ASSUME NEW k \in 1..n PROVE g[k] = FindNext(f, n, s, e, k - 1, g[k - 1])
  <2>1. g[k - 1] \in Q /\ g[k] = step[<<k, g[k - 1]>>]
    BY <1>0, <1>5
  <2> QED BY <1>3, <2>1
<1>7. g = Body(g)
  <2>1. ASSUME NEW k \in 0..n PROVE g[k] = Body(g)[k]
    <3>1. CASE k = 0
      BY <1>5, <3>1
    <3>2. CASE k # 0
      <4>1. k \in 1..n
        BY <1>0, <3>2
      <4> QED BY <1>6, <3>2, <4>1
    <3> QED BY <3>1, <3>2
  <2> QED BY <2>1
<1>8. Found(f, n, s, e) = CHOOSE t : t = Body(t)
  BY DEF Found, FindNext
<1> DEFINE t == Found(f, n, s, e)
<1>9. t = Body(t)
  BY <1>7, <1>8
<1>10. \A k \in 0..n : t[k] = Body(t)[k]
  BY <1>9
<1>11. t = [k \in 0..n |-> t[k]]
  BY <1>9
<1> HIDE DEF t
<1>12. t[0] = << >> /\ \A k \in 1..n : t[k] = FindNext(f, n, s, e, k - 1, t[k - 1])
  BY <1>0, <1>10
<1>13. Agree(n, g, t)
  <2>1. g[0] = t[0]
    BY <1>5, <1>12
  <2>2. \A k \in 1..n : g[k - 1] = t[k - 1] => g[k] = t[k]
    BY <1>6, <1>12
  <2> QED BY ONLY <1>0, <2>1, <2>2, RecursionAgrees
<1>14. t = g
  BY <1>11, <1>13 DEF Agree
<1> QED BY <1>5, <1>6, <1>14 DEF FindsInTurn, t, Q

LEMMA FoundFacts ==
    ASSUME NEW f, NEW n \in 0..MaxLines, NEW s, NEW e
    PROVE  /\ \A k \in 0..n : Found(f, n, s, e)[k] \in Seq(FullRecords)
           /\ Found(f, n, s, e)[0] = << >>
           /\ \A k \in 0..n - 1 :
                 Found(f, n, s, e)[k + 1] = FindNext(f, n, s, e, k, Found(f, n, s, e)[k])
<1> DEFINE t == Found(f, n, s, e)
<1>1. FindsInTurn(t, f, n, s, e)
  BY FoundIsRecursive
<1>2. n \in Nat
  BY BuilderAssumption
<1> HIDE DEF t
<1>3. ASSUME NEW k \in 0..n - 1 PROVE t[k + 1] = FindNext(f, n, s, e, k, t[k])
  <2> DEFINE j == k + 1
  <2>1. j \in 1..n /\ j - 1 = k
    BY <1>2
  <2> HIDE DEF j
  <2>2. t[j] = FindNext(f, n, s, e, k, t[k])
    BY <1>1, <2>1 DEF FindsInTurn
  <2> QED BY <2>2 DEF j
<1>4. t[0] = << >> /\ \A k \in 0..n : t[k] \in Seq(FullRecords)
  BY <1>1 DEF FindsInTurn
<1> QED BY <1>3, <1>4 DEF t

(* The lines that are scanned determine what is found.                      *)
LEMMA FoundSame ==
    ASSUME NEW f, NEW g, NEW n \in 0..MaxLines, NEW s, NEW e, SameLines(f, g, n),
           NEW k \in 0..n
    PROVE  Found(f, n, s, e)[k] = Found(g, n, s, e)[k]
<1> DEFINE t == Found(f, n, s, e)
           u == Found(g, n, s, e)
<1>0. n \in Nat
  BY BuilderAssumption
<1>1. FindsInTurn(t, f, n, s, e) /\ FindsInTurn(u, g, n, s, e)
  BY FoundIsRecursive
<1> HIDE DEF t, u
<1>2. ASSUME NEW i \in 0..n - 1, NEW before
      PROVE  FindNext(f, n, s, e, i, before) = FindNext(g, n, s, e, i, before)
  <2>1. RecordOf(f, i, n) = RecordOf(g, i, n)
    BY <1>0, SameRecords
  <2>2. Hit(f, RecordOf(f, i, n)) <=> Hit(g, RecordOf(f, i, n))
    <3>1. \A j \in DOMAIN RecordOf(f, i, n) : RecordOf(f, i, n)[j] \in 0..n - 1
      BY RecordFacts
    <3> QED BY <1>0, <3>1, SameHits
  <2>3. InInterval(f, i, s, e) <=> InInterval(g, i, s, e)
    BY DEF InInterval, SameLines
  <2> QED BY <2>1, <2>2, <2>3 DEF FindNext
<1>3. ASSUME NEW i \in 1..n, t[i - 1] = u[i - 1] PROVE t[i] = u[i]
  <2>1. i - 1 \in 0..n - 1
    BY <1>0
  <2>2. /\ t[i] = FindNext(f, n, s, e, i - 1, t[i - 1])
        /\ u[i] = FindNext(g, n, s, e, i - 1, u[i - 1])
    BY <1>1 DEF FindsInTurn
  <2>3. FindNext(f, n, s, e, i - 1, t[i - 1]) = FindNext(g, n, s, e, i - 1, t[i - 1])
    BY <1>2, <2>1
  <2> QED BY <1>3, <2>2, <2>3
<1>4. t[0] = u[0]
  BY <1>1 DEF FindsInTurn
<1>5. Agree(n, t, u)
  BY ONLY <1>0, <1>3, <1>4, RecursionAgrees
<1> QED BY <1>5 DEF Agree, t, u

(* Nothing is found where no header is in the interval.                     *)
NoHeader(f, a, b, s, e) == \A k \in a..b - 1 : ~InInterval(f, k, s, e)

LEMMA FoundStays ==
    ASSUME NEW f, NEW n \in 0..MaxLines, NEW s, NEW e, NEW a \in 0..n, NEW b \in a..n,
           NoHeader(f, a, b, s, e)
    PROVE  Found(f, n, s, e)[b] = Found(f, n, s, e)[a]
<1> DEFINE t == Found(f, n, s, e)
           g == [j \in 0..b - a |-> t[a]]
           h == [j \in 0..b - a |-> t[a + j]]
<1>0. n \in Nat /\ a \in Nat /\ b \in Nat /\ b - a \in Nat
  BY BuilderAssumption
<1>1. \A k \in 0..n - 1 : t[k + 1] = FindNext(f, n, s, e, k, t[k])
  BY FoundFacts
<1> HIDE DEF t
<1>2. ASSUME NEW j \in 1..b - a PROVE h[j] = h[j - 1]
  <2> DEFINE k == a + j - 1
  <2>1. k \in 0..n - 1 /\ k \in a..b - 1 /\ k + 1 = a + j /\ k = a + (j - 1)
        /\ j \in 0..b - a /\ j - 1 \in 0..b - a
    BY <1>0
  <2> HIDE DEF k
  <2>2. t[k + 1] = t[k]
    BY <1>1, <2>1 DEF FindNext, NoHeader
  <2>3. h[j] = t[a + j] /\ h[j - 1] = t[a + (j - 1)]
    BY <2>1
  <2> QED BY <2>1, <2>2, <2>3
<1>3. /\ \A j \in 0..b - a : g[j] = t[a]
      /\ h[0] = t[a] /\ h[b - a] = t[b]
  <2>1. 0 \in 0..b - a /\ b - a \in 0..b - a /\ a + 0 = a /\ a + (b - a) = b
    BY <1>0
  <2> QED BY <2>1
<1> DEFINE m == b - a
<1>4. m \in Nat /\ m \in 0..m
  BY <1>0
<1>5. g[0] = h[0]
  BY <1>3, <1>4
<1>6. \A j \in 1..m : j - 1 \in 0..m /\ j \in 0..m
  BY <1>4
<1> HIDE DEF g, h, m
<1>7. \A j \in 1..m : g[j - 1] = h[j - 1] => g[j] = h[j]
  BY <1>2, <1>3, <1>6 DEF m
<1>8. Agree(m, g, h)
  BY ONLY <1>4, <1>5, <1>7, RecursionAgrees
<1>9. g[m] = h[m]
  BY <1>4, <1>8 DEF Agree
<1> QED BY <1>3, <1>4, <1>9 DEF m, t

(* Enough results are the same however many lines more are scanned.         *)
LEMMA FoundFull ==
    ASSUME NEW f, NEW n \in 0..MaxLines, NEW s, NEW e, NEW a \in 0..n, NEW b \in a..n,
           Len(Found(f, n, s, e)[a]) >= MaxResults
    PROVE  Upto(Found(f, n, s, e)[b], MaxResults) = Upto(Found(f, n, s, e)[a], MaxResults)
<1> DEFINE t == Found(f, n, s, e)
           U(x) == Upto(x, MaxResults)
           g == [j \in 0..b - a |-> U(t[a])]
           h == [j \in 0..b - a |-> U(t[a + j])]
<1>0. n \in Nat /\ a \in Nat /\ b \in Nat /\ b - a \in Nat /\ MaxResults \in Nat
  BY BuilderAssumption, SearchAssumption
<1>1. /\ \A k \in 0..n : t[k] \in Seq(FullRecords)
      /\ \A k \in 0..n - 1 : t[k + 1] = FindNext(f, n, s, e, k, t[k])
  <2>1. \A k \in 0..n : t[k] \in Seq(FullRecords)
    BY FoundFacts
  <2>2. \A k \in 0..n - 1 : t[k + 1] = FindNext(f, n, s, e, k, t[k])
    BY FoundFacts
  <2> QED BY <2>1, <2>2
<1>11. Len(t[a]) >= MaxResults
  OBVIOUS
<1> HIDE DEF t
<1>12. \A x, y \in Seq(FullRecords) :
         /\ U(x) = U(y) /\ Len(x) >= MaxResults => Len(y) >= MaxResults
         /\ Len(x) >= MaxResults => \A r \in FullRecords : U(Append(x, r)) = U(x)
  BY <1>0, UptoLength, UptoFull
<1> HIDE DEF U
<1>2. ASSUME NEW j \in 1..b - a, h[j - 1] = U(t[a]) PROVE h[j] = U(t[a])
  <2> DEFINE k == a + j - 1
  <2>1. k \in 0..n - 1 /\ k \in 0..n /\ k + 1 = a + j /\ k = a + (j - 1)
        /\ j \in 0..b - a /\ j - 1 \in 0..b - a
    BY <1>0
  <2> HIDE DEF k
  <2>2. U(t[k]) = U(t[a])
    BY <1>2, <2>1
  <2>3. Len(t[k]) >= MaxResults
    BY <1>0, <1>1, <1>11, <1>12, <2>1, <2>2
  <2>4. U(t[k + 1]) = U(t[k])
    <3>1. RecordOf(f, k, n) \in FullRecords /\ t[k] \in Seq(FullRecords)
      BY <1>1, <2>1, RecordFacts
    <3>2. U(Append(t[k], RecordOf(f, k, n))) = U(t[k])
      BY <1>12, <2>3, <3>1
    <3>3. t[k + 1] = FindNext(f, n, s, e, k, t[k])
      BY <1>1, <2>1
    <3> QED BY <3>2, <3>3 DEF FindNext
  <2> QED BY <2>1, <2>2, <2>4
<1>3. /\ \A j \in 0..b - a : g[j] = U(t[a])
      /\ h[0] = U(t[a]) /\ h[b - a] = U(t[b])
  <2>1. 0 \in 0..b - a /\ b - a \in 0..b - a /\ a + 0 = a /\ a + (b - a) = b
    BY <1>0
  <2> QED BY <2>1
<1> DEFINE m == b - a
<1>4. m \in Nat /\ m \in 0..m
  BY <1>0
<1>5. g[0] = h[0]
  BY <1>3, <1>4
<1>6. \A j \in 1..m : j - 1 \in 0..m /\ j \in 0..m
  BY <1>4
<1> HIDE DEF g, h, m
<1>7. \A j \in 1..m : g[j - 1] = h[j - 1] => g[j] = h[j]
  BY <1>2, <1>3, <1>6 DEF m
<1>8. Agree(m, g, h)
  BY ONLY <1>4, <1>5, <1>7, RecursionAgrees
<1>9. g[m] = h[m]
  BY <1>4, <1>8 DEF Agree
<1> QED BY <1>3, <1>4, <1>9 DEF m, t, U

-----------------------------------------------------------------------------
(* The inductive invariant.                                                 *)

Contexts ==
    [pc: {"idle", "reading", "flushing", "done"}, start_time: Nat, end_time: Nat,
     pos: 0..MaxLines, end_pos: 0..MaxLines, tmp_line: Records, log_lines: Seq(FullRecords),
     matched_lines: Seq(FullRecords), covered: Nat]

(* The pending record begins in the interval; its other lines have no time. *)
PendingIsRecord(f, s, e, p, T) ==
    T # << >> =>
    LET h == p - Len(T) IN
    h \in 0..p - 1 /\ InInterval(f, h, s, e) /\ T = Span(h, p) /\ Untimed(f, h + 1, p - 1)

InFile(f, r) == \A j \in DOMAIN r : r[j] < Len(f)

IsRecord(f, r, s, e) ==
    /\ InFile(f, r)
    /\ InInterval(f, r[1], s, e)
    /\ \A j \in 2..Len(r) : r[j] = r[j - 1] + 1 /\ Line(f, r[j]).ts = 0

AreRecords(f, answer, s, e) ==
    \A i \in DOMAIN Upto(answer, MaxResults) :
        IsRecord(f, answer[i], s, e) /\ Hit(f, answer[i])

(* T is the pending record at line p, L are those to be searched, M those   *)
(* that were found.                                                         *)
Answering(f, s, e, p, T, L, M) ==
    /\ PendingIsRecord(f, s, e, p, T)
    /\ \A i \in DOMAIN L : InFile(f, L[i])
    /\ AreRecords(f, M, s, e) /\ AreRecords(f, Exec(f, M, L), s, e)

ContextInv(f, c) ==
    /\ c \in Contexts
    /\ c.pos <= Len(f) /\ c.covered <= Len(f)
    /\ Len(c.log_lines) <= MaxBatch /\ (c.pc = "reading" => Len(c.log_lines) < MaxBatch)
    /\ c.pc = "idle" => c = NoSearch
    /\ Answering(f, c.start_time, c.end_time, c.pos, c.tmp_line, c.log_lines, c.matched_lines)

OffsetsBelow(f, out) == \A i \in DOMAIN out : out[i].offset < Len(f)

TextInv ==
    /\ TypeInv /\ TimesAreOrdered(file)
    /\ OffsetsBelow(file, index) /\ OffsetsBelow(file, builder.outputs)
    /\ ContextInv(file, ctx)

(* What is found up to the k-th line of n has been taken.                   *)
TakenUpto(f, n, s, e, M, L, k) ==
    Upto(Exec(f, M, L), MaxResults) = Upto(Found(f, n, s, e)[k], MaxResults)

(* The line at the end position q is the last one of the indexed lines, or  *)
(* the first one behind the interval.                                       *)
EndsRight(f, n, e, p, q) ==
    /\ p <= q /\ q < n /\ Line(f, q).ts # 0
    /\ q = n - 1 \/ Line(f, q).ts > e

FollowsScan(f, c) ==
    /\ c.pc = "reading" =>
          /\ EndsRight(f, c.covered, c.end_time, c.pos, c.end_pos)
          /\ TakenUpto(f, c.covered, c.start_time, c.end_time, c.matched_lines, c.log_lines,
                       c.pos - Len(c.tmp_line))
    /\ c.pc = "flushing" =>
          TakenUpto(f, c.covered, c.start_time, c.end_time, c.matched_lines,
                    c.log_lines \o Pending(c), c.covered)
    /\ c.pc = "done" =>
          TakenUpto(f, c.covered, c.start_time, c.end_time, c.matched_lines, << >>, c.covered)

HeadersAreShort(f, n) == \A k \in 0..n - 1 : Line(f, k).ts # 0 => ~Line(f, k).long

(* The index of the first n lines has every header, and a query from s is   *)
(* led to the first one of its bucket.                                      *)
IsCovered(f, s, n) == HeadersAreShort(f, n) /\ Leads(f, s, BucketOf(s), n)

ScanInv ==
    /\ IInv /\ TextInv
    /\ ctx.covered > 0 /\ IsCovered(file, ctx.start_time, ctx.covered)
          => FollowsScan(file, ctx)

LEMMA RecordType ==
    ASSUME NEW r \in FullRecords
    PROVE  /\ r # << >> /\ Len(r) \in Nat /\ Len(r) >= 1 /\ DOMAIN r = 1..Len(r)
           /\ \A j \in DOMAIN r : r[j] \in 0..MaxLines
<1>1. r \in Seq(0..MaxLines) /\ r # << >>
  BY DEF FullRecords, Records
<1>2. Len(r) \in Nat /\ DOMAIN r = 1..Len(r) /\ \A j \in DOMAIN r : r[j] \in 0..MaxLines
  <2>1. ASSUME NEW S, NEW q \in Seq(S)
        PROVE  Len(q) \in Nat /\ DOMAIN q = 1..Len(q) /\ \A j \in DOMAIN q : q[j] \in S
    OBVIOUS
  <2> QED BY ONLY <1>1, <2>1
<1>3. Len(r) # 0
  BY <1>1, EmptySeq
<1> QED BY <1>1, <1>2, <1>3

-----------------------------------------------------------------------------
(* The file grows.                                                          *)

Grows(f, g) == Len(f) \in Nat /\ Len(g) \in Nat /\ Len(f) <= Len(g) /\ SameLines(f, g, Len(f))

LEMMA AppendGrows ==
    ASSUME NEW f \in Seq(Lines), NEW l \in Lines
    PROVE  Grows(f, Append(f, l))
<1>1. Len(Append(f, l)) = Len(f) + 1 /\ Len(f) \in Nat
  OBVIOUS
<1>2. ASSUME NEW k \in 0..Len(f) - 1 PROVE Append(f, l)[k + 1] = f[k + 1]
  <2>1. k + 1 \in 1..Len(f)
    BY <1>1
  <2> QED BY <2>1
<1> QED BY <1>1, <1>2 DEF Grows, SameLines, Line

LEMMA GrownRecord ==
    ASSUME NEW f, NEW g, Grows(f, g), NEW r \in FullRecords, InFile(f, r), NEW s, NEW e
    PROVE  /\ InFile(g, r)
           /\ Hit(f, r) <=> Hit(g, r)
           /\ IsRecord(f, r, s, e) => IsRecord(g, r, s, e)
<1>1. /\ Len(f) \in Nat /\ Len(g) \in Nat /\ Len(f) <= Len(g) /\ SameLines(f, g, Len(f))
  BY DEF Grows
<1>2. ASSUME NEW j \in DOMAIN r
      PROVE  r[j] \in 0..Len(f) - 1 /\ r[j] < Len(g) /\ Line(f, r[j]) = Line(g, r[j])
  <2>1. r[j] \in 0..Len(f) - 1
    BY <1>1, RecordType, BuilderAssumption DEF InFile
  <2> QED BY <1>1, <2>1 DEF SameLines
<1>3. InFile(g, r)
  BY <1>2 DEF InFile
<1>4. Hit(f, r) <=> Hit(g, r)
  BY <1>1, <1>2, SameHits
<1>5. IsRecord(f, r, s, e) => IsRecord(g, r, s, e)
  <2>1. 1 \in DOMAIN r /\ \A j \in 2..Len(r) : j \in DOMAIN r
    BY RecordType
  <2>2. InInterval(f, r[1], s, e) => InInterval(g, r[1], s, e)
    BY <1>2, <2>1 DEF InInterval
  <2> QED BY <1>2, <1>3, <2>1, <2>2 DEF IsRecord
<1> QED BY <1>3, <1>4, <1>5

LEMMA GrownAnswer ==
    ASSUME NEW f, NEW g, Grows(f, g), NEW answer \in Seq(FullRecords), NEW s, NEW e,
           AreRecords(f, answer, s, e)
    PROVE  AreRecords(g, answer, s, e)
<1> SUFFICES ASSUME NEW i \in DOMAIN Upto(answer, MaxResults)
             PROVE  IsRecord(g, answer[i], s, e) /\ Hit(g, answer[i])
  BY DEF AreRecords
<1>1. IsRecord(f, answer[i], s, e) /\ Hit(f, answer[i])
  BY DEF AreRecords
<1>2. answer[i] \in FullRecords
  <2>1. i \in 1..Len(answer)
    BY UptoFacts, SearchAssumption
  <2> QED BY <2>1
<1>3. InFile(f, answer[i])
  BY <1>1 DEF IsRecord
<1> QED BY <1>1, <1>2, <1>3, GrownRecord

LEMMA GrownExec ==
    ASSUME NEW f, NEW g, Grows(f, g), NEW matched \in Seq(FullRecords),
           NEW records \in Seq(FullRecords), \A i \in DOMAIN records : InFile(f, records[i])
    PROVE  Exec(f, matched, records) = Exec(g, matched, records)
<1>1. \A i \in DOMAIN records : Hit(f, records[i]) <=> Hit(g, records[i])
  <2> SUFFICES ASSUME NEW i \in DOMAIN records PROVE Hit(f, records[i]) <=> Hit(g, records[i])
    OBVIOUS
  <2>1. records[i] \in FullRecords /\ InFile(f, records[i])
    OBVIOUS
  <2> QED BY <2>1, GrownRecord
<1> QED BY <1>1, ExecSame

LEMMA GrownPending ==
    ASSUME NEW f, NEW g, Grows(f, g), NEW s, NEW e, NEW p \in Nat, p <= Len(f), NEW T,
           PendingIsRecord(f, s, e, p, T)
    PROVE  PendingIsRecord(g, s, e, p, T)
<1>1. /\ Len(f) \in Nat /\ Len(g) \in Nat /\ Len(f) <= Len(g) /\ SameLines(f, g, Len(f))
  BY DEF Grows
<1>2. SUFFICES ASSUME T # << >> PROVE PendingIsRecord(g, s, e, p, T)
  BY DEF PendingIsRecord
<1> DEFINE h == p - Len(T)
<1> HIDE DEF h
<1>3. h \in 0..p - 1 /\ InInterval(f, h, s, e) /\ T = Span(h, p) /\ Untimed(f, h + 1, p - 1)
  BY <1>2 DEF PendingIsRecord, h
<1>4. \A k \in h..p - 1 : Line(f, k) = Line(g, k)
  BY <1>1, <1>3 DEF SameLines
<1>5. h \in h..p - 1 /\ \A k \in h + 1..p - 1 : k \in h..p - 1
  BY <1>3
<1>6. InInterval(g, h, s, e) /\ Untimed(g, h + 1, p - 1)
  BY <1>3, <1>4, <1>5 DEF InInterval, Untimed
<1> QED BY <1>3, <1>6 DEF PendingIsRecord, h

LEMMA GrownAnswering ==
    ASSUME NEW f, NEW g, Grows(f, g), NEW s, NEW e, NEW p \in Nat, p <= Len(f), NEW T,
           NEW L \in Seq(FullRecords), NEW M \in Seq(FullRecords), Answering(f, s, e, p, T, L, M)
    PROVE  Answering(g, s, e, p, T, L, M)
<1>1. /\ AreRecords(f, M, s, e) /\ AreRecords(f, Exec(f, M, L), s, e)
      /\ \A i \in DOMAIN L : InFile(f, L[i])
  BY DEF Answering
<1>2. PendingIsRecord(g, s, e, p, T)
  BY GrownPending DEF Answering
<1>3. Exec(f, M, L) \in Seq(FullRecords) /\ Exec(f, M, L) = Exec(g, M, L)
  BY <1>1, ExecType, GrownExec
<1>4. AreRecords(g, M, s, e) /\ AreRecords(g, Exec(g, M, L), s, e)
  BY <1>1, <1>3, GrownAnswer
<1>5. \A i \in DOMAIN L : InFile(g, L[i])
  <2> SUFFICES ASSUME NEW i \in DOMAIN L PROVE InFile(g, L[i])
    OBVIOUS
  <2>1. L[i] \in FullRecords /\ InFile(f, L[i])
    BY <1>1
  <2> QED BY <2>1, GrownRecord
<1> QED BY <1>2, <1>4, <1>5 DEF Answering

LEMMA GrownContext ==
    ASSUME NEW f, NEW g, Grows(f, g), NEW c, ContextInv(f, c)
    PROVE  ContextInv(g, c)
<1>1. Len(f) \in Nat /\ Len(g) \in Nat /\ Len(f) <= Len(g)
  BY DEF Grows
<1>2. c \in Contexts /\ c.pos <= Len(f) /\ c.covered <= Len(f)
  BY DEF ContextInv
<1>3. /\ c.matched_lines \in Seq(FullRecords) /\ c.log_lines \in Seq(FullRecords)
      /\ c.pos \in Nat /\ c.covered \in Nat
  BY <1>2, BuilderAssumption DEF Contexts
<1>4. Answering(g, c.start_time, c.end_time, c.pos, c.tmp_line, c.log_lines, c.matched_lines)
  BY <1>2, <1>3, GrownAnswering DEF ContextInv
<1>5. c.pos <= Len(g) /\ c.covered <= Len(g)
  BY <1>1, <1>2, <1>3
<1> QED BY <1>4, <1>5 DEF ContextInv

-----------------------------------------------------------------------------
(* The offsets of an index are in the file.                                 *)

LEMMA OffsetsStep ==
    ASSUME TypeInv, OffsetsBelow(file, index), OffsetsBelow(file, builder.outputs), [Next]_vars
    PROVE  OffsetsBelow(file', index') /\ OffsetsBelow(file', builder'.outputs)
<1>0. /\ file \in Seq(Lines) /\ index \in Seq(TimeIndexes) /\ builder \in Builders
      /\ builder.outputs \in Seq(TimeIndexes)
      /\ builder.pos \in Nat /\ builder.size \in Nat
      /\ builder.last # NoLine => builder.last \in Nat
  BY BuilderAssumption DEF TypeInv, TypeOK, Builders, NoLine
<1>7. \A x, y, z \in Nat : x < y /\ y <= z => x < z
  OBVIOUS
<1>8. builder.pc = "scanning" =>
        /\ Len(file) \in Nat /\ builder.size <= Len(file)
        /\ builder.last # NoLine => builder.last < builder.size
  <2>1. Len(file) \in Nat
    BY <1>0
  <2> QED BY <2>1 DEF TypeInv, LoopInFile
<1>9. Idle.outputs = << >> /\ OffsetsBelow(file, << >>)
  BY DEF Idle, OffsetsBelow
<1>1. ASSUME NEW l \in Lines, AppendLine(l)
      PROVE  OffsetsBelow(file', index') /\ OffsetsBelow(file', builder'.outputs)
  <2>1. Len(file') = Len(file) + 1 /\ index' = index /\ builder' = builder
    BY <1>0, <1>1 DEF AppendLine
  <2>2. Len(file) \in Nat
    BY <1>0
  <2>3. ASSUME NEW out \in Seq(TimeIndexes), OffsetsBelow(file, out)
        PROVE  OffsetsBelow(file', out)
    BY <2>1, <2>2, <2>3, EntryFacts DEF OffsetsBelow
  <2> QED BY <1>0, <2>1, <2>3
<1>2. CASE Begin
  <2>1. /\ file' = file /\ index' = index
        /\ \/ Len(index) > 1 /\ builder'.outputs = SubSeq(index, 1, Len(index) - 1)
           \/ builder'.outputs = << >>
    BY <1>2 DEF Begin, Idle
  <2>2. ASSUME Len(index) > 1 PROVE OffsetsBelow(file, SubSeq(index, 1, Len(index) - 1))
    <3> DEFINE out == SubSeq(index, 1, Len(index) - 1)
    <3>1. /\ DOMAIN out = 1..Len(index) - 1
          /\ \A i \in 1..Len(index) - 1 : out[i] = index[i] /\ i \in DOMAIN index
      BY <1>0, <2>2
    <3> HIDE DEF out
    <3>2. OffsetsBelow(file, out)
      BY <3>1 DEF OffsetsBelow
    <3> QED BY <3>2 DEF out
  <2> QED BY <1>9, <2>1, <2>2
<1>3. CASE SkipLong \/ SkipUntimed
  <2>1. file' = file /\ index' = index /\ builder'.outputs = builder.outputs
    BY <1>0, <1>3 DEF SkipLong, SkipUntimed, Builders
  <2> QED BY <2>1
<1>4. CASE IndexTimed
  <2> DEFINE entry == [timestamp |-> BucketOf(LineAt(builder.pos).ts), offset |-> builder.pos]
  <2>1. /\ file' = file /\ index' = index
        /\ \/ builder'.outputs = Append(builder.outputs, entry)
           \/ builder'.outputs = builder.outputs
    BY <1>0, <1>4 DEF IndexTimed, Builders
  <2>2. entry.offset = builder.pos /\ builder.pos < Len(file)
    <3>1. builder.pc = "scanning" /\ builder.pos < builder.size /\ Len(file) \in Nat
      BY <1>0, <1>4 DEF IndexTimed, Scanning
    <3>2. builder.pos \in Nat /\ builder.size \in Nat
      BY <1>0
    <3>3. builder.pos < Len(file)
      BY ONLY <1>7, <1>8, <3>1, <3>2
    <3> QED BY <3>3
  <2> HIDE DEF entry
  <2>3. OffsetsBelow(file, Append(builder.outputs, entry))
    BY <1>0, <2>2 DEF OffsetsBelow
  <2> QED BY <2>1, <2>3
<1>5. CASE Publish
  <2> DEFINE entry == [timestamp |-> LineAt(builder.last).ts, offset |-> builder.last]
  <2>1. file' = file /\ index' = Closed /\ builder' = Idle
    BY <1>5 DEF Publish
  <2>2. \/ Closed = builder.outputs
        \/ Closed = Append(builder.outputs, entry) /\ builder.last # NoLine
    BY DEF Closed
  <2>3. entry.offset = builder.last
    OBVIOUS
  <2>4. builder.last # NoLine => builder.last < Len(file)
    <3>1. builder.pc = "scanning"
      BY <1>5 DEF Publish
    <3>2. builder.size \in Nat /\ (builder.last # NoLine => builder.last \in Nat)
      BY <1>0
    <3> QED BY ONLY <1>7, <1>8, <3>1, <3>2
  <2> HIDE DEF entry
  <2>5. builder.last # NoLine => OffsetsBelow(file, Append(builder.outputs, entry))
    BY <1>0, <2>3, <2>4 DEF OffsetsBelow
  <2> QED BY <1>9, <2>1, <2>2, <2>5
<1>6. CASE UNCHANGED vars
  BY <1>6 DEF vars
<1> QED BY <1>1, <1>2, <1>3, <1>4, <1>5, <1>6 DEF Next

-----------------------------------------------------------------------------
(* find_index_pos.                                                          *)

(* The range goes from the first segment that meets the interval to the     *)
(* entry behind the last one.                                               *)
Ranges(idx, s, e, i, j) ==
    /\ i \in CoveringSegments(idx, s, e) /\ j \in CoveringSegments(idx, s, e)
    /\ \A k \in CoveringSegments(idx, s, e) : i <= k /\ k <= j
    /\ IndexStartPos(idx, s, e) = idx[i].offset
    /\ IndexEndPos(idx, s, e) = idx[j + 1].offset

LEMMA RangeExists ==
    ASSUME NEW idx \in Seq(TimeIndexes), NEW s, NEW e, IndexFound(idx, s, e)
    PROVE  \E i, j \in 1..Len(idx) - 1 : Ranges(idx, s, e, i, j)
<1> DEFINE S == CoveringSegments(idx, s, e)
           first == CHOOSE a \in S : \A b \in S : a <= b
           final == CHOOSE a \in S : \A b \in S : b <= a
<1>1. S # {} /\ S \subseteq 1..Len(idx) - 1
  BY DEF IndexFound, CoveringSegments
<1>2. S \subseteq Nat /\ S \subseteq 0..Len(idx) /\ Len(idx) \in Nat
  BY <1>1
<1>3. IndexStartPos(idx, s, e) = idx[first].offset
      /\ IndexEndPos(idx, s, e) = idx[final + 1].offset
  BY DEF IndexStartPos, IndexEndPos
<1> HIDE DEF S
<1>4. first \in S /\ \A b \in S : first <= b
  <2>1. \E a \in S : \A b \in S : a <= b
    BY <1>1, <1>2, SmallestExists
  <2> QED BY <2>1
<1>5. final \in S /\ \A b \in S : b <= final
  <2>1. \E a \in S : \A b \in S : b <= a
    BY <1>1, <1>2, LargestExists
  <2> QED BY <2>1
<1> HIDE DEF first, final
<1>6. Ranges(idx, s, e, first, final)
  BY <1>3, <1>4, <1>5 DEF Ranges, S
<1> QED BY <1>1, <1>4, <1>5, <1>6

(* The entries of an index with a closing entry are in order.               *)
LEMMA ClosedFacts ==
    ASSUME NEW f \in Seq(Lines), TimesAreOrdered(f), NEW idx \in Seq(TimeIndexes),
           NEW n \in Nat, n <= Len(f), ClosedIndex(f, idx, n)
    PROVE  /\ Final(idx).offset \in 0..n - 1 /\ Len(idx) > 1
           /\ \A a, b \in DOMAIN idx : a < b => /\ idx[a].offset <= idx[b].offset
                                               /\ idx[a].timestamp <= idx[b].timestamp
           /\ \A a \in DOMAIN idx : /\ Indexable(f, idx[a].offset)
                                     /\ idx[a].timestamp <= Line(f, idx[a].offset).ts
<1> DEFINE L == Len(idx)
           body == AllButLast(idx)
<1>0. /\ L \in Nat /\ DOMAIN idx = 1..L /\ L > 1 /\ Final(idx) = idx[L]
      /\ \A j \in 1..L : idx[j].offset \in Nat /\ idx[j].timestamp \in Nat
  BY EntryFacts DEF Final, ClosedIndex
<1>1. /\ body \in Seq(TimeIndexes) /\ DOMAIN body = 1..L - 1
      /\ \A j \in 1..L - 1 : body[j] = idx[j]
      /\ Final(body) = idx[L - 1]
  BY <1>0, AllButLastFacts
<1>2. /\ Scanned(f, body, n) /\ idx[L - 1].offset <= idx[L].offset
      /\ idx[L].offset \in 0..n - 1 /\ Indexable(f, idx[L].offset)
      /\ idx[L].timestamp = Line(f, idx[L].offset).ts
  BY <1>0, <1>1 DEF ClosedIndex, ClosesAt
<1> HIDE DEF body, L
<1>3. ASSUME NEW a \in 1..L - 1
      PROVE  /\ Indexable(f, idx[a].offset) /\ Line(f, idx[a].offset).ts \in Nat
             /\ idx[a].timestamp <= Line(f, idx[a].offset).ts
  <2>1. Indexable(f, idx[a].offset) /\ idx[a].timestamp = BucketOf(Line(f, idx[a].offset).ts)
    BY <1>1, <1>2 DEF Scanned, EntriesPoint
  <2>2. a \in 1..L
    BY <1>0
  <2>3. Line(f, idx[a].offset).ts \in Nat
    BY <1>0, <2>1, <2>2, LineFacts DEF Indexable
  <2> QED BY <2>1, <2>3, BucketBounds
<1>4. ASSUME NEW a \in 1..L - 1, NEW b \in 1..L - 1, a < b
      PROVE  idx[a].offset <= idx[b].offset /\ idx[a].timestamp <= idx[b].timestamp
  <2>1. body[a].offset < body[b].offset
    BY <1>1, <1>4, <1>2 DEF Scanned, EntriesAreSpaced
  <2>2. body[a].timestamp <= body[b].timestamp
    BY <1>1, <1>4, <1>2, TimesOfEntries
  <2>3. body[a] = idx[a] /\ body[b] = idx[b] /\ a \in 1..L /\ b \in 1..L
    BY <1>0, <1>1
  <2>4. idx[a].offset \in Nat /\ idx[b].offset \in Nat
    BY <1>0, <2>3
  <2>5. \A x, y \in Nat : x < y => x <= y
    OBVIOUS
  <2> QED BY ONLY <2>1, <2>2, <2>3, <2>4, <2>5
<1>5. ASSUME NEW a \in 1..L - 1
      PROVE  idx[a].offset <= idx[L].offset /\ idx[a].timestamp <= idx[L].timestamp
  <2>1. L - 1 \in 1..L - 1 /\ a \in 1..L /\ L \in 1..L /\ L - 1 \in 1..L
        /\ (a = L - 1 \/ a < L - 1)
    BY <1>0
  <2>2. idx[a].offset <= idx[L - 1].offset
    <3>1. CASE a = L - 1
      BY <1>0, <2>1, <3>1
    <3>2. CASE a < L - 1
      BY <1>4, <2>1, <3>2
    <3> QED BY <2>1, <3>1, <3>2
  <2>3. idx[a].offset \in Nat /\ idx[L - 1].offset \in Nat /\ idx[L].offset \in Nat
        /\ idx[a].timestamp \in Nat /\ idx[L].timestamp \in Nat
    BY <1>0, <2>1
  <2>4. idx[a].offset <= idx[L].offset
    BY <1>2, <2>2, <2>3
  <2>5. Line(f, idx[a].offset).ts <= idx[L].timestamp
    BY <1>2, <1>3, <2>3, <2>4, LinesAreOrdered
  <2> QED BY <1>3, <2>3, <2>4, <2>5
<1>6. Line(f, idx[L].offset).ts \in Nat
  BY <1>0, <1>2
<1>7. ASSUME NEW a \in 1..L, NEW b \in 1..L, a < b
      PROVE  idx[a].offset <= idx[b].offset /\ idx[a].timestamp <= idx[b].timestamp
  <2>1. a \in 1..L - 1 /\ (b = L \/ b \in 1..L - 1)
    BY <1>0, <1>7
  <2> QED BY <1>4, <1>5, <1>7, <2>1
<1>8. ASSUME NEW a \in 1..L
      PROVE  Indexable(f, idx[a].offset) /\ idx[a].timestamp <= Line(f, idx[a].offset).ts
  <2>1. a = L \/ a \in 1..L - 1
    BY <1>0
  <2> QED BY <1>2, <1>3, <1>6, <2>1
<1> QED BY <1>0, <1>2, <1>7, <1>8 DEF L

(* A header of the interval is in a segment that meets the interval.        *)
LEMMA HeaderHasSegment ==
    ASSUME NEW f \in Seq(Lines), TimesAreOrdered(f), NEW idx \in Seq(TimeIndexes),
           NEW n \in Nat, n <= Len(f), ClosedIndex(f, idx, n), NEW s \in Nat, NEW e \in Nat,
           IsCovered(f, s, Final(idx).offset + 1),
           NEW k \in 0..Final(idx).offset, InInterval(f, k, s, e)
    PROVE  \E i \in CoveringSegments(idx, s, e) : i \in 1..Len(idx) - 1 /\ idx[i].offset <= k
<1>1. Final(idx).offset \in 0..n - 1 /\ Len(idx) > 1
  BY ClosedFacts
<1>2. k \in Nat /\ k < Len(f) /\ k \in 0..Final(idx).offset + 1 - 1
  BY <1>1
<1>3. Indexable(f, k) /\ Line(f, k).ts \in s..e
  <2> DEFINE m == Final(idx).offset + 1
  <2>1. k \in 0..m - 1 /\ HeadersAreShort(f, m)
    BY <1>1, <1>2 DEF IsCovered
  <2> HIDE DEF m
  <2> QED BY <1>2, <2>1 DEF InInterval, HeadersAreShort, Indexable
<1>4. idx # << >>
  BY <1>1
<1> DEFINE m == Final(idx).offset + 1
<1>5. PICK i \in 1..Len(idx) - 1 :
        /\ idx[i].offset <= k /\ k <= idx[i + 1].offset
        /\ idx[i].timestamp <= Line(f, k).ts
        /\ Precedes(f, k, idx[i + 1].timestamp, m)
  BY <1>3, <1>4, LineHasSegment
<1>6. /\ idx[i].timestamp \in Nat /\ idx[i + 1].timestamp \in Nat
      /\ Line(f, k).ts \in Nat /\ s <= Line(f, k).ts /\ Line(f, k).ts <= e
  <2>1. i \in DOMAIN idx /\ i + 1 \in DOMAIN idx
    BY <1>1
  <2>2. idx[i].timestamp \in Nat /\ idx[i + 1].timestamp \in Nat
    BY <2>1, EntryFacts
  <2>3. Line(f, k).ts \in Nat
    BY <1>2, LineFacts
  <2> QED BY <1>3, <2>2, <2>3
<1>9. m \in Nat /\ Leads(f, s, BucketOf(s), m)
  BY <1>1 DEF IsCovered
<1> HIDE DEF m
<1>10. Leads(f, s, BucketOf(Line(f, k).ts), m)
  BY <1>6, <1>9, LeadsFromStart
<1>11. s <= idx[i + 1].timestamp
  BY <1>5, <1>6, <1>9, <1>10, PrecedesMeets
<1>7. idx[i].timestamp <= e /\ idx[i + 1].timestamp >= s
  <2>1. \A x, y, z \in Nat : x <= y /\ y <= z => x <= z
    OBVIOUS
  <2>2. idx[i].timestamp <= Line(f, k).ts
    BY <1>5
  <2>3. idx[i].timestamp <= e
    BY ONLY <1>6, <2>1, <2>2, e \in Nat
  <2>4. \A x, y \in Nat : x <= y => y >= x
    OBVIOUS
  <2> QED BY ONLY <1>6, <1>11, <2>3, <2>4, s \in Nat
<1>8. i \in CoveringSegments(idx, s, e)
  BY <1>7 DEF CoveringSegments, TimestampCovers
<1> QED BY <1>5, <1>8

(* The range that find_index_pos selects leaves no header of the interval   *)
(* out, and ends at the closing entry or behind the interval.               *)
RangeIsRight(f, idx, s, e) ==
    /\ ~IndexFound(idx, s, e) => \A k \in 0..Final(idx).offset : ~InInterval(f, k, s, e)
    /\ IndexFound(idx, s, e) =>
          /\ IndexStartPos(idx, s, e) \in Nat /\ IndexEndPos(idx, s, e) \in Nat
          /\ IndexStartPos(idx, s, e) <= IndexEndPos(idx, s, e)
          /\ IndexEndPos(idx, s, e) <= Final(idx).offset
          /\ Line(f, IndexEndPos(idx, s, e)).ts # 0
          /\ \/ IndexEndPos(idx, s, e) = Final(idx).offset
             \/ Line(f, IndexEndPos(idx, s, e)).ts > e
          /\ \A k \in 0..IndexStartPos(idx, s, e) - 1 : ~InInterval(f, k, s, e)

LEMMA ClosedIndexLeads ==
    ASSUME NEW f \in Seq(Lines), TimesAreOrdered(f), NEW idx \in Seq(TimeIndexes),
           NEW n \in Nat, n <= Len(f), ClosedIndex(f, idx, n), NEW s \in Nat, NEW e \in Nat,
           IsCovered(f, s, Final(idx).offset + 1)
    PROVE  RangeIsRight(f, idx, s, e)
<1> DEFINE S == CoveringSegments(idx, s, e)
           L == Len(idx)
<1>1. /\ Final(idx).offset \in 0..n - 1 /\ L > 1 /\ L \in Nat /\ DOMAIN idx = 1..L
      /\ Final(idx) = idx[L]
  BY ClosedFacts DEF Final
<1>2. \A a, b \in 1..L : a < b => /\ idx[a].offset <= idx[b].offset
                                /\ idx[a].timestamp <= idx[b].timestamp
  BY <1>1, ClosedFacts
<1>3. \A a \in 1..L : /\ Indexable(f, idx[a].offset)
                      /\ idx[a].timestamp <= Line(f, idx[a].offset).ts
  BY <1>1, ClosedFacts
<1>4. \A a \in 1..L : idx[a].offset \in Nat /\ idx[a].timestamp \in Nat
  BY <1>1, EntryFacts
<1>5. ASSUME NEW k \in 0..Final(idx).offset, InInterval(f, k, s, e)
      PROVE  \E i \in S : i \in 1..L - 1 /\ idx[i].offset <= k
  BY <1>5, HeaderHasSegment
<1>6. ASSUME ~IndexFound(idx, s, e), NEW k \in 0..Final(idx).offset
      PROVE  ~InInterval(f, k, s, e)
  BY <1>5, <1>6 DEF IndexFound
<1>7. ASSUME IndexFound(idx, s, e)
      PROVE  /\ IndexStartPos(idx, s, e) \in Nat /\ IndexEndPos(idx, s, e) \in Nat
             /\ IndexStartPos(idx, s, e) <= IndexEndPos(idx, s, e)
             /\ IndexEndPos(idx, s, e) <= Final(idx).offset
             /\ Line(f, IndexEndPos(idx, s, e)).ts # 0
             /\ \/ IndexEndPos(idx, s, e) = Final(idx).offset
                \/ Line(f, IndexEndPos(idx, s, e)).ts > e
             /\ \A k \in 0..IndexStartPos(idx, s, e) - 1 : ~InInterval(f, k, s, e)
  <2>1. PICK i \in 1..L - 1, j \in 1..L - 1 : Ranges(idx, s, e, i, j)
    BY <1>7, RangeExists
  <2>2. /\ i \in S /\ j \in S /\ \A k \in S : i <= k /\ k <= j
        /\ IndexStartPos(idx, s, e) = idx[i].offset /\ IndexEndPos(idx, s, e) = idx[j + 1].offset
    BY <2>1 DEF Ranges
  <2>3. i <= j
    BY <2>2
  <2> DEFINE m == j + 1
  <2>4. i \in 1..L /\ j \in 1..L /\ m \in 1..L /\ i < m /\ L \in 1..L /\ (m = L \/ m < L)
    <3>1. L \in Nat /\ L > 1 /\ i \in 1..L - 1 /\ j \in 1..L - 1
      BY <1>1
    <3> HIDE DEF L
    <3> QED BY <2>3, <3>1
  <2>5. idx[j + 1] = idx[m] /\ (m = L \/ (m \in 1..L - 1 /\ m \notin S))
    <3>1. m \in S => m <= j
      BY <2>2
    <3>2. m = j + 1 /\ j \in Nat /\ L \in Nat
      BY <1>1
    <3>3. idx[j + 1] = idx[m]
      BY <3>2
    <3> HIDE DEF m, S, L
    <3> QED BY <2>4, <3>1, <3>2, <3>3
  <2> HIDE DEF m
  <2>6. /\ idx[i].offset \in Nat /\ idx[m].offset \in Nat /\ idx[i].offset <= idx[m].offset
        /\ idx[m].offset <= idx[L].offset
    BY <1>2, <1>4, <2>4
  <2>7. Line(f, idx[m].offset).ts # 0 /\ Line(f, idx[m].offset).ts \in Nat
    BY <1>3, <2>4, <2>6, LineFacts DEF Indexable
  <2>8. m = L \/ Line(f, idx[m].offset).ts > e
    <3>1. SUFFICES ASSUME m # L PROVE Line(f, idx[m].offset).ts > e
      OBVIOUS
    <3>2. m \in 1..L - 1 /\ m \notin S /\ m + 1 \in 1..L /\ m < m + 1
      BY <1>1, <2>5, <3>1
    <3>3. ~(idx[m].timestamp <= e /\ idx[m + 1].timestamp >= s)
      BY <3>2 DEF CoveringSegments, TimestampCovers
    <3>4. idx[m].timestamp >= s
      BY <2>2, <2>5 DEF CoveringSegments, TimestampCovers
    <3>5. idx[m].timestamp \in Nat /\ idx[m + 1].timestamp \in Nat
          /\ idx[m].timestamp <= idx[m + 1].timestamp
      BY <1>2, <1>4, <2>4, <3>2
    <3>6. ~(idx[m].timestamp <= e)
      BY <3>3, <3>4, <3>5
    <3> QED BY <1>3, <2>4, <2>7, <3>5, <3>6
  <2>9. ASSUME NEW k \in 0..idx[i].offset - 1 PROVE ~InInterval(f, k, s, e)
    <3>1. SUFFICES ASSUME InInterval(f, k, s, e) PROVE FALSE
      OBVIOUS
    <3>2. k \in 0..Final(idx).offset /\ k < idx[i].offset
      <4>1. /\ Final(idx).offset = idx[L].offset /\ idx[L].offset \in Nat
            /\ idx[i].offset \in Nat /\ idx[i].offset <= idx[L].offset
        <5>1. i < L /\ i \in 1..L /\ L \in 1..L
          BY <1>1, <2>4
        <5>2. Final(idx).offset = idx[L].offset
          BY <1>1
        <5> HIDE DEF L
        <5> QED BY <1>2, <1>4, <5>1, <5>2
      <4> QED BY ONLY <4>1, k \in 0..idx[i].offset - 1
    <3>3. PICK a \in S : a \in 1..L - 1 /\ idx[a].offset <= k
      BY <1>5, <3>1, <3>2
    <3>4. i <= a /\ a \in 1..L
      BY <1>1, <2>2, <3>3
    <3>5. idx[i].offset <= idx[a].offset /\ idx[a].offset \in Nat
      <4>1. CASE i = a
        BY <1>4, <2>4, <4>1
      <4>2. CASE i < a
        BY <1>2, <1>4, <2>4, <3>4, <4>2
      <4> QED BY <2>4, <3>4, <4>1, <4>2
    <3> QED BY <2>6, <3>2, <3>3, <3>5
  <2> QED BY <1>1, <2>2, <2>5, <2>6, <2>7, <2>8, <2>9
<1> QED BY <1>6, <1>7 DEF RangeIsRight

-----------------------------------------------------------------------------
(* A line is parsed.                                                        *)

Pend(T) == IF T = << >> THEN << >> ELSE << T >>

NewLog(f, s, p, T, L) ==
    IF Line(f, p).ts = 0 \/ Line(f, p).ts < s THEN L ELSE L \o Pend(T)

NewTemp(f, s, e, p, T) ==
    IF Line(f, p).ts = 0 THEN IF T = << >> THEN T ELSE Append(T, p)
    ELSE IF Line(f, p).ts < s THEN T
    ELSE IF Line(f, p).ts > e THEN << >> ELSE << p >>

(* The pending record, if there is one, is the next to be searched.         *)
LEMMA PendAppends ==
    ASSUME NEW R, NEW T, NEW L \in Seq(R)
    PROVE  /\ T = << >> => L \o Pend(T) = L
           /\ T # << >> => L \o Pend(T) = Append(L, T)
<1>1. L \o << >> = L
  BY ConcatProperties, EmptySeq
<1>2. ASSUME NEW x PROVE L \o << x >> = Append(L, x)
  OBVIOUS
<1> QED BY <1>1, <1>2 DEF Pend

LEMMA SpanGrows ==
    ASSUME NEW h \in Nat, NEW p \in Nat, h < p
    PROVE  Append(Span(h, p), p) = Span(h, p + 1)
<1> DEFINE a == Append(Span(h, p), p)
           b == Span(h, p + 1)
           n == p - h
<1>1. /\ Span(h, p) \in Seq(h..p - 1) /\ Len(Span(h, p)) = n /\ n \in Nat
      /\ \A i \in 1..n : Span(h, p)[i] = h + i - 1
  BY SpanFacts
<1>2. /\ b \in Seq(h..p + 1 - 1) /\ Len(b) = n + 1
      /\ \A i \in 1..n + 1 : b[i] = h + i - 1
  <2>1. p + 1 \in Nat /\ h < p + 1 /\ p + 1 - h = n + 1
    OBVIOUS
  <2> QED BY <2>1, SpanFacts
<1> DEFINE r == Span(h, p)
<1> HIDE DEF r
<1>3. r \in Seq(h..p - 1) /\ Len(r) = n
  BY <1>1 DEF r
<1>4. a = Append(r, p)
  BY DEF r
<1> HIDE DEF a, b, n
<1>5. /\ a \in Seq(Nat) /\ Len(a) = n + 1 /\ a[n + 1] = p
      /\ \A i \in 1..n : a[i] = r[i]
  <2>1. h..p - 1 \subseteq Nat
    OBVIOUS
  <2>2. ASSUME NEW S, NEW q \in Seq(S), NEW x, NEW U, S \subseteq U, x \in U
        PROVE  /\ Append(q, x) \in Seq(U) /\ Len(Append(q, x)) = Len(q) + 1
               /\ Append(q, x)[Len(q) + 1] = x /\ \A i \in 1..Len(q) : Append(q, x)[i] = q[i]
    BY <2>2
  <2> QED BY <1>3, <1>4, <2>1, <2>2
<1>6. \A i \in 1..n + 1 : a[i] = b[i]
  <2> SUFFICES ASSUME NEW i \in 1..n + 1 PROVE a[i] = b[i]
    OBVIOUS
  <2>1. n \in Nat /\ p = h + (n + 1) - 1 /\ (i = n + 1 \/ i \in 1..n)
    BY <1>1 DEF n
  <2> QED BY <1>1, <1>2, <1>5, <2>1 DEF r
<1>7. a = b
  <2>1. ASSUME NEW S, NEW U, NEW x \in Seq(S), NEW y \in Seq(U), Len(x) = Len(y),
               \A i \in 1..Len(x) : x[i] = y[i]
        PROVE  x = y
    BY <2>1
  <2>2. Len(a) = Len(b) /\ \A i \in 1..Len(a) : a[i] = b[i]
    BY <1>2, <1>5, <1>6
  <2> QED BY ONLY <1>2, <1>5, <2>1, <2>2
<1> QED BY <1>7 DEF a, b

LEMMA PendingFacts ==
    ASSUME NEW f, Len(f) \in Nat, NEW s, NEW e, NEW p \in 0..MaxLines, p <= Len(f),
           NEW T \in Records, T # << >>, PendingIsRecord(f, s, e, p, T)
    PROVE  /\ T \in FullRecords /\ IsRecord(f, T, s, e)
           /\ \E h \in 0..p - 1 : /\ h = p - Len(T) /\ T = Span(h, p)
                                 /\ InInterval(f, h, s, e) /\ Untimed(f, h + 1, p - 1)
<1> DEFINE h == p - Len(T)
<1>1. /\ h \in 0..p - 1 /\ T = Span(h, p) /\ InInterval(f, h, s, e)
      /\ Untimed(f, h + 1, p - 1)
  BY DEF PendingIsRecord
<1>2. p \in Nat /\ MaxLines \in Nat /\ p <= MaxLines
  BY BuilderAssumption
<1>3. T \in FullRecords
  BY DEF FullRecords
<1> DEFINE n == p - h
<1>9. \E i \in 0..p - 1 : /\ i = p - Len(T) /\ T = Span(i, p)
                          /\ InInterval(f, i, s, e) /\ Untimed(f, i + 1, p - 1)
  BY <1>1
<1> HIDE DEF h
<1>4. /\ Len(T) = n /\ n \in Nat /\ n >= 1 /\ DOMAIN T = 1..n
      /\ \A i \in 1..n : T[i] = h + i - 1
  <2>1. h \in Nat /\ h < p
    BY <1>1, <1>2
  <2>2. Len(T) = n /\ \A i \in 1..n : T[i] = h + i - 1
    BY <1>1, <1>2, <2>1, SpanFacts
  <2>3. n \in Nat /\ n >= 1
    BY <1>2, <2>1
  <2>4. DOMAIN T = 1..Len(T)
    BY <1>3, RecordType
  <2> QED BY <2>2, <2>3, <2>4
<1>5. InFile(f, T)
  <2>1. \A i \in 1..n : h + i - 1 < Len(f)
    BY <1>1, <1>2
  <2> QED BY <1>4, <2>1 DEF InFile
<1>6. T[1] = h
  <2>1. 1 \in 1..n /\ h + 1 - 1 = h
    BY <1>1, <1>4
  <2> QED BY <1>4, <2>1
<1>7. ASSUME NEW j \in 2..Len(T) PROVE T[j] = T[j - 1] + 1 /\ Line(f, T[j]).ts = 0
  <2>1. j \in 1..n /\ j - 1 \in 1..n /\ h + j - 1 = h + (j - 1) - 1 + 1
        /\ h + j - 1 \in h + 1..p - 1
    BY <1>1, <1>2, <1>4
  <2>2. T[j] = h + j - 1 /\ T[j - 1] = h + (j - 1) - 1
    BY <1>4, <2>1
  <2> QED BY <1>1, <2>1, <2>2 DEF Untimed
<1>8. IsRecord(f, T, s, e)
  BY <1>1, <1>5, <1>6, <1>7 DEF IsRecord
<1> QED BY <1>3, <1>8, <1>9

LEMMA TimedOrder ==
    ASSUME NEW f \in Seq(Lines), TimesAreOrdered(f), NEW j \in Nat, NEW k \in Nat,
           j < k, k < Len(f), Line(f, j).ts # 0, Line(f, k).ts # 0
    PROVE  Line(f, j).ts <= Line(f, k).ts
<1>1. j + 1 \in DOMAIN f /\ k + 1 \in DOMAIN f /\ j + 1 < k + 1
  OBVIOUS
<1> QED BY <1>1 DEF TimesAreOrdered, Line

(* A line before the interval finds no record pending.                      *)
LEMMA EarlyLine ==
    ASSUME NEW f \in Seq(Lines), TimesAreOrdered(f), NEW s \in Nat, NEW e \in Nat,
           NEW p \in 0..MaxLines, p < Len(f), NEW T \in Records, PendingIsRecord(f, s, e, p, T),
           Line(f, p).ts # 0, Line(f, p).ts < s
    PROVE  T = << >>
<1> SUFFICES ASSUME T # << >> PROVE FALSE
  OBVIOUS
<1>1. Len(f) \in Nat /\ p \in Nat /\ p <= Len(f)
  BY BuilderAssumption
<1>2. PICK h \in 0..p - 1 : InInterval(f, h, s, e)
  BY <1>1, PendingFacts
<1>3. h \in Nat /\ h < p /\ h < Len(f)
  BY <1>1
<1>4. Line(f, h).ts <= Line(f, p).ts /\ Line(f, h).ts \in s..e
  BY <1>1, <1>2, <1>3, TimedOrder DEF InInterval
<1>5. Line(f, p).ts \in Nat
  BY <1>1, LineFacts
<1> QED BY <1>4, <1>5

LEMMA ParsePending ==
    ASSUME NEW f \in Seq(Lines), TimesAreOrdered(f), NEW s \in Nat, NEW e \in Nat,
           NEW p \in 0..MaxLines, p < Len(f), NEW T \in Records, PendingIsRecord(f, s, e, p, T)
    PROVE  PendingIsRecord(f, s, e, p + 1, NewTemp(f, s, e, p, T))
<1> DEFINE N == NewTemp(f, s, e, p, T)
<1>1. Len(f) \in Nat /\ p \in Nat /\ p <= Len(f) /\ Line(f, p).ts \in Nat
  BY BuilderAssumption, LineFacts
<1>2. CASE N = << >>
  BY <1>2 DEF PendingIsRecord
<1>3. CASE Line(f, p).ts = 0 /\ T # << >>
  <2>1. PICK h \in 0..p - 1 : /\ h = p - Len(T) /\ T = Span(h, p)
                               /\ InInterval(f, h, s, e) /\ Untimed(f, h + 1, p - 1)
    BY <1>1, <1>3, PendingFacts
  <2>2. h \in Nat /\ h < p /\ h < p + 1 /\ p + 1 \in Nat
    BY <1>1
  <2>3. N = Span(h, p + 1)
    <3>1. N = Append(T, p)
      BY <1>3 DEF NewTemp
    <3>2. Append(Span(h, p), p) = Span(h, p + 1)
      BY <1>1, <2>2, SpanGrows
    <3> HIDE DEF N
    <3> QED BY <2>1, <3>1, <3>2
  <2>4. Len(Span(h, p + 1)) = p + 1 - h
    BY <2>2, SpanFacts
  <2>5. p + 1 - Len(N) = h
    BY <1>1, <2>2, <2>3, <2>4
  <2>6. Untimed(f, h + 1, p + 1 - 1)
    <3>1. \A i \in h + 1..p + 1 - 1 : i = p \/ i \in h + 1..p - 1
      BY <1>1, <2>2
    <3> QED BY <1>3, <2>1, <3>1 DEF Untimed
  <2>7. h \in 0..p + 1 - 1
    BY <1>1
  <2> HIDE DEF N
  <2> QED BY <2>1, <2>3, <2>5, <2>6, <2>7 DEF PendingIsRecord, N
<1>4. CASE Line(f, p).ts # 0 /\ N = << p >>
  <2>1. ~(Line(f, p).ts < s) /\ ~(Line(f, p).ts > e)
    <3>1. ASSUME Line(f, p).ts < s PROVE FALSE
      BY <1>4, <3>1, EarlyLine DEF NewTemp
    <3> QED BY <1>4, <3>1 DEF NewTemp
  <2>2. InInterval(f, p, s, e)
    BY <1>1, <1>4, <2>1 DEF InInterval
  <2>3. Len(N) = 1 /\ p + 1 - Len(N) = p
    BY <1>1, <1>4
  <2>4. N = Span(p, p + 1)
    <3>1. p + 1 - p = 1 /\ p + 1 - 1 = p
      BY <1>1
    <3>2. Span(p, p + 1) = [i \in 1..1 |-> p + i - 1]
      BY <3>1 DEF Span
    <3>3. \A i \in 1..1 : p + i - 1 = p
      BY <1>1
    <3> QED BY <1>4, <3>2, <3>3
  <2>5. Untimed(f, p + 1, p + 1 - 1) /\ p \in 0..p + 1 - 1
    BY <1>1 DEF Untimed
  <2> HIDE DEF N
  <2> QED BY <2>2, <2>3, <2>4, <2>5 DEF PendingIsRecord, N
<1>5. \/ N = << >>
      \/ Line(f, p).ts = 0 /\ T # << >>
      \/ Line(f, p).ts # 0 /\ N = << p >>
  <2>1. Line(f, p).ts # 0 /\ Line(f, p).ts < s => T = << >>
    BY EarlyLine
  <2> QED BY <2>1 DEF NewTemp
<1> QED BY <1>2, <1>3, <1>4, <1>5

LEMMA ParseTypes ==
    ASSUME NEW f, NEW s, NEW e, NEW p \in 0..MaxLines, NEW T \in Records,
           NEW L \in Seq(FullRecords)
    PROVE  /\ NewTemp(f, s, e, p, T) \in Records
           /\ NewLog(f, s, p, T, L) \in Seq(FullRecords)
           /\ Len(NewLog(f, s, p, T, L)) <= Len(L) + 1
<1>1. NewTemp(f, s, e, p, T) \in Records
  <2>1. << >> \in Records /\ Append(T, p) \in Records /\ << p >> \in Records
    BY DEF Records
  <2> QED BY <2>1 DEF NewTemp
<1>2. L \o Pend(T) \in Seq(FullRecords) /\ Len(L \o Pend(T)) <= Len(L) + 1
  <2>1. CASE T = << >>
    <3>1. L \o Pend(T) = L /\ Len(L) \in Nat
      BY <2>1, PendAppends
    <3> QED BY <3>1
  <2>2. CASE T # << >>
    <3>1. T \in FullRecords
      BY <2>2 DEF FullRecords
    <3>2. L \o Pend(T) = Append(L, T)
      BY <2>2, PendAppends
    <3> QED BY <3>1, <3>2
  <2> QED BY <2>1, <2>2
<1> QED BY <1>1, <1>2 DEF NewLog

(* Equal results up to the limit are records alike.                         *)
LEMMA AlikeAreRecords ==
    ASSUME NEW f, NEW s, NEW e, NEW A \in Seq(FullRecords), NEW B \in Seq(FullRecords),
           Upto(A, MaxResults) = Upto(B, MaxResults), AreRecords(f, A, s, e)
    PROVE  AreRecords(f, B, s, e)
<1>1. MaxResults \in Nat
  BY SearchAssumption
<1>2. \A i \in DOMAIN Upto(A, MaxResults) : Upto(A, MaxResults)[i] = A[i]
  BY <1>1, UptoFacts
<1>3. \A i \in DOMAIN Upto(B, MaxResults) : Upto(B, MaxResults)[i] = B[i]
  BY <1>1, UptoFacts
<1> QED BY <1>2, <1>3 DEF AreRecords

LEMMA MoreRecords ==
    ASSUME NEW f, NEW s, NEW e, NEW A \in Seq(FullRecords), AreRecords(f, A, s, e),
           NEW r \in FullRecords, IsRecord(f, r, s, e)
    PROVE  AreRecords(f, WithRecord(f, A, r), s, e)
<1>1. SUFFICES ASSUME Hit(f, r) PROVE AreRecords(f, Append(A, r), s, e)
  BY DEF WithRecord
<1> DEFINE B == Append(A, r)
<1>2. /\ B \in Seq(FullRecords) /\ Len(B) = Len(A) + 1 /\ B[Len(B)] = r /\ Len(A) \in Nat
      /\ \A i \in 1..Len(A) : B[i] = A[i]
  OBVIOUS
<1> HIDE DEF B
<1> SUFFICES ASSUME NEW i \in DOMAIN Upto(B, MaxResults)
             PROVE  IsRecord(f, B[i], s, e) /\ Hit(f, B[i])
  BY DEF AreRecords, B
<1>3. MaxResults \in Nat
  BY SearchAssumption
<1>4. i \in 1..Len(B) /\ i <= MaxResults
  BY <1>2, <1>3, UptoFacts
<1>5. CASE i = Len(B)
  BY <1>1, <1>2, <1>5
<1>6. CASE i # Len(B)
  <2>1. i \in 1..Len(A) /\ B[i] = A[i]
    BY <1>2, <1>4, <1>6
  <2>2. i \in DOMAIN Upto(A, MaxResults)
    <3>1. Upto(A, MaxResults) \in Seq(FullRecords)
          /\ Len(Upto(A, MaxResults)) = IF Len(A) <= MaxResults THEN Len(A) ELSE MaxResults
      BY <1>3, UptoFacts
    <3>2. i \in 1..Len(Upto(A, MaxResults))
      BY <1>2, <1>3, <1>4, <2>1, <3>1
    <3> QED BY <3>1, <3>2
  <2> QED BY <2>1, <2>2 DEF AreRecords
<1> QED BY <1>5, <1>6

(* A pending record that is searched is one of the answer if it matches.    *)
LEMMA PendAnswering ==
    ASSUME NEW f, Len(f) \in Nat, NEW s, NEW e, NEW p \in 0..MaxLines, p <= Len(f),
           NEW T \in Records, NEW L \in Seq(FullRecords), NEW M \in Seq(FullRecords),
           Answering(f, s, e, p, T, L, M)
    PROVE  /\ AreRecords(f, Exec(f, M, L \o Pend(T)), s, e)
           /\ \A i \in DOMAIN (L \o Pend(T)) : InFile(f, (L \o Pend(T))[i])
<1>1. /\ PendingIsRecord(f, s, e, p, T) /\ \A i \in DOMAIN L : InFile(f, L[i])
      /\ AreRecords(f, Exec(f, M, L), s, e)
  BY DEF Answering
<1>2. CASE T = << >>
  <2>1. L \o Pend(T) = L
    BY <1>2, PendAppends
  <2> QED BY <1>1, <2>1
<1>3. CASE T # << >>
  <2>1. L \o Pend(T) = Append(L, T)
    BY <1>3, PendAppends
  <2>2. T \in FullRecords /\ IsRecord(f, T, s, e)
    BY <1>1, <1>3, PendingFacts
  <2>3. \A i \in DOMAIN Append(L, T) : InFile(f, Append(L, T)[i])
    <3>1. \A i \in DOMAIN Append(L, T) :
             \/ Append(L, T)[i] = T
             \/ i \in DOMAIN L /\ Append(L, T)[i] = L[i]
      OBVIOUS
    <3> QED BY <1>1, <2>2, <3>1 DEF IsRecord
  <2> DEFINE E == Exec(f, M, L)
             F == Exec(f, M, Append(L, T))
             W == WithRecord(f, E, T)
  <2>4. E \in Seq(FullRecords)
    BY ExecType
  <2>5. F \in Seq(FullRecords)
    <3>1. Append(L, T) \in Seq(FullRecords)
      BY <2>2
    <3> QED BY <3>1, ExecType
  <2>6. W \in Seq(FullRecords)
    BY <2>2, <2>4 DEF WithRecord
  <2>7. Upto(F, MaxResults) = Upto(W, MaxResults)
    BY <2>2, <2>4, ExecFollows
  <2>8. AreRecords(f, W, s, e)
    BY <1>1, <2>2, <2>4, MoreRecords
  <2> HIDE DEF F, W
  <2>9. AreRecords(f, F, s, e)
    BY <2>5, <2>6, <2>7, <2>8, AlikeAreRecords
  <2> QED BY <2>1, <2>3, <2>9 DEF F
<1> QED BY <1>2, <1>3

LEMMA ParseAnswering ==
    ASSUME NEW f \in Seq(Lines), TimesAreOrdered(f), NEW s \in Nat, NEW e \in Nat,
           NEW p \in 0..MaxLines, p < Len(f), NEW T \in Records,
           NEW L \in Seq(FullRecords), NEW M \in Seq(FullRecords),
           Answering(f, s, e, p, T, L, M)
    PROVE  Answering(f, s, e, p + 1, NewTemp(f, s, e, p, T), NewLog(f, s, p, T, L), M)
<1>1. Len(f) \in Nat /\ p <= Len(f)
  BY BuilderAssumption
<1>2. PendingIsRecord(f, s, e, p + 1, NewTemp(f, s, e, p, T))
  BY ParsePending DEF Answering
<1>3. /\ AreRecords(f, Exec(f, M, L \o Pend(T)), s, e)
      /\ \A i \in DOMAIN (L \o Pend(T)) : InFile(f, (L \o Pend(T))[i])
  BY <1>1, PendAnswering
<1>4. \/ NewLog(f, s, p, T, L) = L
      \/ NewLog(f, s, p, T, L) = L \o Pend(T)
  BY DEF NewLog
<1> QED BY <1>2, <1>3, <1>4 DEF Answering

-----------------------------------------------------------------------------
(* What is found is taken.                                                  *)

(* The pending record is the one that a scan finds at its header.           *)
LEMMA PendFollows ==
    ASSUME NEW f, Len(f) \in Nat, NEW n \in 0..MaxLines, n <= Len(f), NEW s, NEW e,
           NEW p \in 0..n, p = n \/ Line(f, p).ts # 0,
           NEW T \in Records, PendingIsRecord(f, s, e, p, T),
           NEW L \in Seq(FullRecords), NEW M \in Seq(FullRecords),
           TakenUpto(f, n, s, e, M, L, p - Len(T))
    PROVE  TakenUpto(f, n, s, e, M, L \o Pend(T), p)
<1>0. n \in Nat /\ p \in Nat /\ p \in 0..MaxLines /\ p <= Len(f)
  BY BuilderAssumption
<1>1. CASE T = << >>
  <2>1. L \o Pend(T) = L
    BY <1>1, PendAppends
  <2>2. p - Len(T) = p
    BY <1>0, <1>1
  <2> QED BY <2>1, <2>2
<1>2. CASE T # << >>
  <2>1. L \o Pend(T) = Append(L, T)
    BY <1>2, PendAppends
  <2>2. T \in FullRecords
    BY <1>2 DEF FullRecords
  <2>3. PICK h \in 0..p - 1 : /\ h = p - Len(T) /\ T = Span(h, p)
                               /\ InInterval(f, h, s, e) /\ Untimed(f, h + 1, p - 1)
    BY <1>0, <1>2, PendingFacts
  <2>4. h \in Nat /\ h \in 0..n - 1 /\ h \in 0..n /\ h + 1 \in 0..n /\ p \in h + 1..n
    BY <1>0
  <2>5. RecordOf(f, h, n) = T
    <3>1. IsEnd(f, h, n, p)
      BY <2>3 DEF IsEnd
    <3>2. EndOf(f, h, n) = p
      BY <1>0, <2>4, <3>1, EndIs
    <3> QED BY <2>3, <3>2 DEF RecordOf
  <2> DEFINE F == Found(f, n, s, e)
  <2>6. F[h + 1] = WithRecord(f, F[h], T)
    <3>1. F[h + 1] = FindNext(f, n, s, e, h, F[h])
      BY <2>4, FoundFacts
    <3> HIDE DEF F
    <3> QED BY <2>3, <2>5, <3>1 DEF FindNext, WithRecord
  <2>7. F[p] = F[h + 1]
    <3>1. NoHeader(f, h + 1, p, s, e)
      BY <2>3 DEF Untimed, InInterval, NoHeader
    <3> DEFINE a == h + 1
    <3>2. a \in 0..n /\ p \in a..n /\ NoHeader(f, a, p, s, e)
      BY <2>4, <3>1
    <3> HIDE DEF a
    <3>3. F[p] = F[a]
      <4>1. Found(f, n, s, e)[p] = Found(f, n, s, e)[a]
        BY ONLY <3>2, n \in 0..MaxLines, FoundStays
      <4> QED BY <4>1
    <3> QED BY <3>3 DEF a
  <2>8. F[h] \in Seq(FullRecords)
    BY <2>4, FoundFacts
  <2>9. Upto(Exec(f, M, L), MaxResults) = Upto(F[h], MaxResults)
    BY <2>3 DEF TakenUpto
  <2> HIDE DEF F
  <2>10. Upto(Exec(f, M, Append(L, T)), MaxResults) = Upto(WithRecord(f, F[h], T), MaxResults)
    BY <2>2, <2>8, <2>9, ExecFollows
  <2> QED BY <2>1, <2>6, <2>7, <2>10 DEF TakenUpto, F
<1> QED BY <1>1, <1>2

LEMMA ParseFollows ==
    ASSUME NEW f \in Seq(Lines), TimesAreOrdered(f), NEW s \in Nat, NEW e \in Nat,
           NEW n \in 0..MaxLines, n <= Len(f), NEW p \in 0..n - 1, NEW T \in Records,
           PendingIsRecord(f, s, e, p, T),
           NEW L \in Seq(FullRecords), NEW M \in Seq(FullRecords),
           TakenUpto(f, n, s, e, M, L, p - Len(T))
    PROVE  TakenUpto(f, n, s, e, M, NewLog(f, s, p, T, L), p + 1 - Len(NewTemp(f, s, e, p, T)))
<1>0. /\ Len(f) \in Nat /\ n \in Nat /\ p \in Nat /\ p \in 0..MaxLines /\ p < Len(f)
      /\ Line(f, p).ts \in Nat /\ p \in 0..n /\ p + 1 \in 0..n
  <2>1. Len(f) \in Nat /\ n \in Nat /\ p \in Nat /\ p \in 0..MaxLines /\ p < Len(f)
        /\ p \in 0..n /\ p + 1 \in 0..n
    BY BuilderAssumption
  <2> QED BY <2>1, LineFacts
<1> DEFINE F == Found(f, n, s, e)
           ts == Line(f, p).ts
           N == NewTemp(f, s, e, p, T)
           K == NewLog(f, s, p, T, L)
<1>1. ASSUME ~InInterval(f, p, s, e) PROVE F[p + 1] = F[p]
  <2>1. F[p + 1] = FindNext(f, n, s, e, p, F[p])
    BY FoundFacts
  <2> HIDE DEF F
  <2> QED BY <1>1, <2>1 DEF FindNext
<1>2. CASE ts = 0 /\ T # << >>
  <2>1. N = Append(T, p) /\ K = L
    BY <1>2 DEF NewTemp, NewLog
  <2>2. Len(Append(T, p)) = Len(T) + 1 /\ Len(T) \in Nat
    BY DEF Records
  <2>3. p + 1 - Len(N) = p - Len(T)
    BY <1>0, <2>1, <2>2
  <2> QED BY <2>1, <2>3
<1>3. CASE (ts = 0 \/ ts < s) /\ T = << >>
  <2>1. N = << >> /\ K = L /\ ~InInterval(f, p, s, e)
    BY <1>0, <1>3 DEF NewTemp, NewLog, InInterval
  <2>2. p + 1 - Len(N) = p + 1 /\ p - Len(T) = p
    BY <1>0, <1>3, <2>1
  <2>3. F[p + 1] = F[p]
    BY <1>1, <2>1
  <2> HIDE DEF F, N, K
  <2> QED BY <2>1, <2>2, <2>3 DEF TakenUpto, F, N, K
<1>4. CASE ts # 0 /\ ~(ts < s)
  <2>1. K = L \o Pend(T)
    BY <1>4 DEF NewLog
  <2>2. TakenUpto(f, n, s, e, M, K, p)
    BY <1>0, <1>4, <2>1, PendFollows
  <2>3. CASE ts > e
    <3>1. N = << >> /\ ~InInterval(f, p, s, e)
      BY <1>0, <1>4, <2>3 DEF NewTemp, InInterval
    <3>2. p + 1 - Len(N) = p + 1 /\ F[p + 1] = F[p]
      BY <1>0, <1>1, <3>1
    <3> HIDE DEF F, N, K
    <3> QED BY <2>2, <3>2 DEF TakenUpto, F, N, K
  <2>4. CASE ~(ts > e)
    <3>1. N = << p >>
      BY <1>4, <2>4 DEF NewTemp
    <3>2. p + 1 - Len(N) = p
      BY <1>0, <3>1
    <3> QED BY <2>2, <3>2
  <2> QED BY <2>3, <2>4
<1>5. ts # 0 /\ ts < s => T = << >>
  BY <1>0, EarlyLine
<1> QED BY <1>2, <1>3, <1>4, <1>5

(* The line at the end position completes what is found.                    *)
LEMMA EndFollows ==
    ASSUME NEW f \in Seq(Lines), TimesAreOrdered(f), NEW s \in Nat, NEW e \in Nat,
           NEW n \in 0..MaxLines, n <= Len(f), NEW p \in 0..n - 1, NEW T \in Records,
           PendingIsRecord(f, s, e, p, T), Line(f, p).ts # 0, p = n - 1 \/ Line(f, p).ts > e,
           NEW L \in Seq(FullRecords), NEW M \in Seq(FullRecords),
           TakenUpto(f, n, s, e, M, L, p - Len(T))
    PROVE  TakenUpto(f, n, s, e, M, NewLog(f, s, p, T, L) \o Pend(NewTemp(f, s, e, p, T)), n)
<1>0. /\ Len(f) \in Nat /\ n \in Nat /\ p \in Nat /\ p \in 0..MaxLines /\ p < Len(f)
      /\ p <= Len(f) /\ p + 1 \in 0..n /\ n \in 0..n /\ n \in p + 1..n
  BY BuilderAssumption
<1> DEFINE N == NewTemp(f, s, e, p, T)
           K == NewLog(f, s, p, T, L)
<1>1. N \in Records /\ K \in Seq(FullRecords)
  BY <1>0, ParseTypes
<1>2. PendingIsRecord(f, s, e, p + 1, N)
  BY <1>0, ParsePending
<1>3. TakenUpto(f, n, s, e, M, K, p + 1 - Len(N))
  BY ParseFollows
<1>4. CASE p = n - 1
  <2>1. p + 1 = n
    BY <1>0, <1>4
  <2> HIDE DEF N, K
  <2>2. PendingIsRecord(f, s, e, n, N) /\ TakenUpto(f, n, s, e, M, K, n - Len(N))
    BY <1>2, <1>3, <2>1
  <2>3. TakenUpto(f, n, s, e, M, K \o Pend(N), n)
    BY <1>0, <1>1, <2>2, PendFollows
  <2> QED BY <2>3 DEF N, K
<1>5. CASE Line(f, p).ts > e
  <2>1. N = << >>
    <3>1. Line(f, p).ts < s => T = << >>
      BY <1>0, EarlyLine
    <3> QED BY <1>5, <3>1 DEF NewTemp
  <2>2. K \o Pend(N) = K
    BY <1>1, <2>1, PendAppends
  <2>3. ASSUME NEW k \in p + 1..n - 1 PROVE ~InInterval(f, k, s, e)
    <3>1. SUFFICES ASSUME InInterval(f, k, s, e) PROVE FALSE
      OBVIOUS
    <3>2. k \in Nat /\ p < k /\ k < Len(f)
      BY <1>0
    <3>3. Line(f, p).ts <= Line(f, k).ts /\ Line(f, k).ts \in s..e
      BY <1>0, <3>1, <3>2, TimedOrder DEF InInterval
    <3>4. Line(f, p).ts \in Nat
      BY <1>0, LineFacts
    <3> QED BY <1>5, <3>3, <3>4
  <2>4. Found(f, n, s, e)[n] = Found(f, n, s, e)[p + 1]
    <3> DEFINE a == p + 1
    <3>1. NoHeader(f, a, n, s, e) /\ a \in 0..n /\ n \in a..n
      BY <1>0, <2>3 DEF NoHeader
    <3> HIDE DEF a
    <3>2. Found(f, n, s, e)[n] = Found(f, n, s, e)[a]
      BY <3>1, FoundStays
    <3> QED BY <3>2 DEF a
  <2>5. p + 1 - Len(N) = p + 1
    BY <1>0, <2>1
  <2> QED BY <1>3, <2>2, <2>4, <2>5 DEF TakenUpto
<1> QED BY <1>4, <1>5

(* So does having found enough, whatever record is pending.                 *)
LEMMA EnoughFollows ==
    ASSUME NEW f, NEW s, NEW e, NEW n \in 0..MaxLines, NEW k \in 0..n, NEW T \in Records,
           NEW M \in Seq(FullRecords), Len(M) >= MaxResults,
           TakenUpto(f, n, s, e, M, << >>, k)
    PROVE  TakenUpto(f, n, s, e, M, << >> \o Pend(T), n)
<1> DEFINE F == Found(f, n, s, e)
<1>0. << >> \in Seq(FullRecords) /\ MaxResults \in Nat /\ n \in Nat
  BY BuilderAssumption, SearchAssumption
<1>1. Exec(f, M, << >>) = M
  BY ExecNone
<1>2. F[k] \in Seq(FullRecords) /\ n \in k..n
  <2>1. F[k] \in Seq(FullRecords)
    BY FoundFacts
  <2> QED BY <1>0, <2>1
<1>3. Upto(M, MaxResults) = Upto(F[k], MaxResults)
  BY <1>1 DEF TakenUpto
<1>4. Len(F[k]) >= MaxResults
  <2> HIDE DEF F
  <2> QED BY <1>0, <1>2, <1>3, UptoLength
<1>5. Upto(F[n], MaxResults) = Upto(F[k], MaxResults)
  BY <1>2, <1>4, FoundFull
<1>6. CASE T = << >>
  <2>1. << >> \o Pend(T) = << >>
    BY <1>0, <1>6, PendAppends
  <2> QED BY <1>1, <1>3, <1>5, <2>1 DEF TakenUpto
<1>7. CASE T # << >>
  <2>1. << >> \o Pend(T) = Append(<< >>, T) /\ T \in FullRecords
    BY <1>0, <1>7, PendAppends DEF FullRecords
  <2>2. Upto(Exec(f, M, << >>), MaxResults) = Upto(M, MaxResults)
    BY <1>1
  <2>3. Upto(Exec(f, M, Append(<< >>, T)), MaxResults) = Upto(WithRecord(f, M, T), MaxResults)
    BY <1>0, <2>1, <2>2, ExecFollows
  <2>4. Upto(Append(M, T), MaxResults) = Upto(M, MaxResults)
    BY <1>0, <2>1, UptoFull
  <2>5. Upto(WithRecord(f, M, T), MaxResults) = Upto(M, MaxResults)
    BY <2>4 DEF WithRecord
  <2> QED BY <1>3, <1>5, <2>1, <2>3, <2>5 DEF TakenUpto
<1> QED BY <1>6, <1>7

-----------------------------------------------------------------------------
(* The steps of a search.                                                   *)

LEMMA EmptyAnswering ==
    ASSUME NEW f, NEW s, NEW e, NEW p \in Nat
    PROVE  Answering(f, s, e, p, << >>, << >>, << >>)
<1>1. << >> \in Seq(FullRecords) /\ Len(<< >>) = 0
  OBVIOUS
<1>2. Exec(f, << >>, << >>) = << >>
  BY <1>1, ExecNone
<1>3. AreRecords(f, << >>, s, e)
  <2>1. \A i \in 1..Len(Upto(<< >>, MaxResults)) : i \in 1..Len(<< >>)
    BY <1>1, UptoFacts, SearchAssumption
  <2>2. DOMAIN Upto(<< >>, MaxResults) = 1..Len(Upto(<< >>, MaxResults))
    BY <1>1, UptoFacts, SearchAssumption
  <2> QED BY <1>1, <2>1, <2>2 DEF AreRecords
<1> QED BY <1>2, <1>3 DEF Answering, PendingIsRecord

LEMMA ContextTypes ==
    ASSUME NEW f, NEW c, ContextInv(f, c)
    PROVE  /\ c \in Contexts /\ c.start_time \in Nat /\ c.end_time \in Nat
           /\ c.pos \in 0..MaxLines /\ c.end_pos \in 0..MaxLines /\ c.tmp_line \in Records
           /\ c.log_lines \in Seq(FullRecords) /\ c.matched_lines \in Seq(FullRecords)
           /\ c.covered \in Nat /\ c.pos <= Len(f) /\ c.covered <= Len(f)
BY DEF ContextInv, Contexts

(* A record with the fields of c.                                           *)
SameFields(c, d) == d = [x \in DOMAIN c |-> d[x]]

(* What a step of the loop leaves alone, and its pending record.            *)
Parsed(f, c, d) ==
    /\ d.start_time = c.start_time /\ d.end_time = c.end_time
    /\ d.end_pos = c.end_pos /\ d.covered = c.covered
    /\ d.tmp_line = NewTemp(f, c.start_time, c.end_time, c.pos, c.tmp_line)

NextLog(f, c) == NewLog(f, c.start_time, c.pos, c.tmp_line, c.log_lines)

LEMMA ParsedFields ==
    ASSUME NEW c \in Contexts
    PROVE  /\ SameFields(c, ParseLine(c)) /\ Parsed(file, c, ParseLine(c))
           /\ ParseLine(c).pc = c.pc /\ ParseLine(c).pos = c.pos
           /\ ParseLine(c).matched_lines = c.matched_lines
           /\ ParseLine(c).log_lines = NextLog(file, c)
<1>1. CASE LineAt(c.pos).ts = 0
  BY <1>1 DEF ParseLine, Contexts, NewLog, NewTemp, NextLog, Line, LineAt, Parsed, SameFields
<1>2. CASE LineAt(c.pos).ts # 0 /\ LineAt(c.pos).ts < c.start_time
  BY <1>2 DEF ParseLine, Contexts, NewLog, NewTemp, NextLog, Line, LineAt, Parsed, SameFields
<1>3. CASE LineAt(c.pos).ts # 0 /\ ~(LineAt(c.pos).ts < c.start_time)
  BY <1>3 DEF ParseLine, Contexts, NewLog, NewTemp, NextLog, Line, LineAt, Parsed, SameFields,
              Pending, Pend
<1> QED BY <1>1, <1>2, <1>3

(* One turn of the loop: it ends behind the end position, or the records    *)
(* are kept, or they are searched.                                          *)
Read(f, c, d) ==
    /\ Parsed(f, c, d) /\ d.pos = c.pos + 1
    /\ \/ /\ d.pc = "flushing" /\ c.pos + 1 > c.end_pos
          /\ d.log_lines = NextLog(f, c) /\ d.matched_lines = c.matched_lines
       \/ /\ d.pc = "reading" /\ ~(c.pos + 1 > c.end_pos) /\ Len(NextLog(f, c)) < MaxBatch
          /\ d.log_lines = NextLog(f, c) /\ d.matched_lines = c.matched_lines
       \/ /\ d.pc = "reading" \/ (d.pc = "flushing" /\ Len(d.matched_lines) >= MaxResults)
          /\ ~(c.pos + 1 > c.end_pos) /\ d.log_lines = << >>
          /\ d.matched_lines = Exec(f, c.matched_lines, NextLog(f, c))

LEMMA ReadEffect ==
    ASSUME ctx \in Contexts, ReadLine
    PROVE  /\ ctx.pc = "reading" /\ ctx.pos < Len(file) /\ UNCHANGED vars
           /\ SameFields(ctx, ctx') /\ Read(file, ctx, ctx')
<1> DEFINE d == ParseLine(ctx)
           parsed == [d EXCEPT !.pos = @ + 1]
           batch == [parsed EXCEPT !.matched_lines = ExecSearchers(@, parsed.log_lines),
                                   !.log_lines = << >>]
           some == [parsed EXCEPT !.pc = "flushing"]
           enough == [batch EXCEPT !.pc = "flushing"]
<1>1. ctx.pc = "reading" /\ ctx.pos < Len(file) /\ UNCHANGED vars
  BY DEF ReadLine
<1>2. /\ ctx' = IF parsed.pos > ctx.end_pos THEN some
                ELSE IF Len(parsed.log_lines) < MaxBatch THEN parsed
                ELSE IF Len(batch.matched_lines) >= MaxResults THEN enough ELSE batch
  BY DEF ReadLine
<1>3. /\ SameFields(ctx, d) /\ Parsed(file, ctx, d) /\ d.pc = ctx.pc /\ d.pos = ctx.pos
      /\ d.matched_lines = ctx.matched_lines /\ d.log_lines = NextLog(file, ctx)
  BY ParsedFields
<1>4. DOMAIN ctx = {"pc", "start_time", "end_time", "pos", "end_pos", "tmp_line", "log_lines",
                    "matched_lines", "covered"}
  BY DEF Contexts
<1> HIDE DEF d
<1>5. /\ SameFields(ctx, parsed) /\ Parsed(file, ctx, parsed) /\ parsed.pc = "reading"
      /\ parsed.pos = ctx.pos + 1 /\ parsed.matched_lines = ctx.matched_lines
      /\ parsed.log_lines = NextLog(file, ctx)
  BY <1>1, <1>3, <1>4 DEF SameFields, Parsed
<1> HIDE DEF parsed
<1>6. /\ SameFields(ctx, some) /\ Parsed(file, ctx, some) /\ some.pc = "flushing"
      /\ some.pos = ctx.pos + 1 /\ some.matched_lines = ctx.matched_lines
      /\ some.log_lines = NextLog(file, ctx)
  BY <1>4, <1>5 DEF SameFields, Parsed
<1>7. ExecSearchers(ctx.matched_lines, NextLog(file, ctx))
         = Exec(file, ctx.matched_lines, NextLog(file, ctx))
  BY ExecIsExecSearchers
<1>8. /\ SameFields(ctx, batch) /\ Parsed(file, ctx, batch) /\ batch.pc = "reading"
      /\ batch.pos = ctx.pos + 1 /\ batch.log_lines = << >>
      /\ batch.matched_lines = Exec(file, ctx.matched_lines, NextLog(file, ctx))
  BY <1>4, <1>5, <1>7 DEF SameFields, Parsed
<1> HIDE DEF batch
<1>9. /\ SameFields(ctx, enough) /\ Parsed(file, ctx, enough) /\ enough.pc = "flushing"
      /\ enough.pos = ctx.pos + 1 /\ enough.log_lines = << >>
      /\ enough.matched_lines = batch.matched_lines
  BY <1>4, <1>8 DEF SameFields, Parsed
<1> HIDE DEF some, enough
<1>10. CASE parsed.pos > ctx.end_pos
  BY <1>1, <1>2, <1>5, <1>6, <1>10 DEF Read
<1>11. CASE ~(parsed.pos > ctx.end_pos) /\ Len(parsed.log_lines) < MaxBatch
  BY <1>1, <1>2, <1>5, <1>11 DEF Read
<1>12. CASE /\ ~(parsed.pos > ctx.end_pos) /\ ~(Len(parsed.log_lines) < MaxBatch)
            /\ Len(batch.matched_lines) >= MaxResults
  BY <1>1, <1>2, <1>5, <1>8, <1>9, <1>12 DEF Read
<1>13. CASE /\ ~(parsed.pos > ctx.end_pos) /\ ~(Len(parsed.log_lines) < MaxBatch)
            /\ ~(Len(batch.matched_lines) >= MaxResults)
  BY <1>1, <1>2, <1>5, <1>8, <1>13 DEF Read
<1> QED BY <1>10, <1>11, <1>12, <1>13

LEMMA ContextFrom ==
    ASSUME NEW d, SameFields(NoSearch, d), d.pc \in {"idle", "reading", "flushing", "done"},
           d.start_time \in Nat, d.end_time \in Nat, d.pos \in 0..MaxLines,
           d.end_pos \in 0..MaxLines, d.tmp_line \in Records,
           d.log_lines \in Seq(FullRecords), d.matched_lines \in Seq(FullRecords),
           d.covered \in Nat
    PROVE  d \in Contexts
BY DEF Contexts, SameFields, NoSearch

LEMMA ContextFields ==
    ASSUME NEW c \in Contexts, NEW d, SameFields(c, d)
    PROVE  SameFields(NoSearch, d)
BY DEF Contexts, SameFields, NoSearch

LEMMA ReadKeeps ==
    ASSUME NEW f \in Seq(Lines), Len(f) <= MaxLines, TimesAreOrdered(f), NEW c,
           ContextInv(f, c), c.pc = "reading", c.pos < Len(f), NEW d, SameFields(c, d),
           Read(f, c, d)
    PROVE  ContextInv(f, d)
<1>0. /\ c \in Contexts /\ c.start_time \in Nat /\ c.end_time \in Nat
      /\ c.pos \in 0..MaxLines /\ c.end_pos \in 0..MaxLines /\ c.tmp_line \in Records
      /\ c.log_lines \in Seq(FullRecords) /\ c.matched_lines \in Seq(FullRecords)
      /\ c.covered \in Nat /\ c.pos <= Len(f) /\ c.covered <= Len(f)
  BY ContextTypes
<1> DEFINE T == NewTemp(f, c.start_time, c.end_time, c.pos, c.tmp_line)
           L == NextLog(f, c)
           M == c.matched_lines
           E == Exec(f, M, L)
           s == c.start_time
           e == c.end_time
           p == c.pos + 1
<1>1. /\ Answering(f, c.start_time, c.end_time, c.pos, c.tmp_line, c.log_lines, c.matched_lines)
      /\ Len(c.log_lines) < MaxBatch
  BY DEF ContextInv
<1>2. Answering(f, s, e, p, T, L, M)
  BY <1>0, <1>1, ParseAnswering DEF NextLog
<1>3. T \in Records /\ L \in Seq(FullRecords) /\ Len(L) <= Len(c.log_lines) + 1
  <2>1. Len(f) \in Nat /\ c.pos <= Len(f)
    BY <1>0
  <2> QED BY <1>0, <1>1, <2>1, ParseTypes DEF Answering, NextLog
<1>4. Len(L) <= MaxBatch
  <2>1. Len(L) \in Nat /\ Len(c.log_lines) \in Nat /\ MaxBatch \in Nat
    BY <1>0, <1>3, SearchAssumption
  <2> QED BY <1>1, <1>3, <2>1
<1>5. E \in Seq(FullRecords) /\ << >> \in Seq(FullRecords) /\ M \in Seq(FullRecords)
  BY <1>0, <1>3, ExecType
<1>6. Answering(f, s, e, p, T, << >>, E)
  <2>1. AreRecords(f, E, s, e) /\ PendingIsRecord(f, s, e, p, T)
    BY <1>2 DEF Answering
  <2>2. Exec(f, E, << >>) = E
    BY <1>5, ExecNone
  <2> HIDE DEF E
  <2> QED BY <2>1, <2>2 DEF Answering
<1>7. p \in 0..MaxLines /\ p <= Len(f)
  <2>1. Len(f) \in Nat /\ c.pos \in Nat /\ MaxLines \in Nat
    BY <1>0, BuilderAssumption
  <2> QED BY <2>1
<1>8. /\ d.start_time = s /\ d.end_time = e /\ d.end_pos = c.end_pos
      /\ d.covered = c.covered /\ d.tmp_line = T /\ d.pos = p
      /\ d.pc = "reading" \/ d.pc = "flushing"
      /\ \/ d.log_lines = L /\ d.matched_lines = M /\ (d.pc = "reading" => Len(L) < MaxBatch)
         \/ d.log_lines = << >> /\ d.matched_lines = E
  BY DEF Read, Parsed
<1>9. SameFields(NoSearch, d)
  BY <1>0, ContextFields
<1> HIDE DEF T, L, M, E, s, e, p
<1>10. /\ Answering(f, s, e, p, T, d.log_lines, d.matched_lines)
       /\ d.log_lines \in Seq(FullRecords) /\ d.matched_lines \in Seq(FullRecords)
       /\ Len(d.log_lines) <= MaxBatch /\ (d.pc = "reading" => Len(d.log_lines) < MaxBatch)
  <2>1. CASE /\ d.log_lines = L /\ d.matched_lines = M
             /\ d.pc = "reading" => Len(L) < MaxBatch
    BY <1>2, <1>3, <1>4, <1>5, <2>1
  <2>2. CASE d.log_lines = << >> /\ d.matched_lines = E
    <3>1. Len(d.log_lines) = 0
      BY <2>2
    <3> QED BY <1>5, <1>6, <2>2, <3>1, SearchAssumption
  <2> QED BY <1>8, <2>1, <2>2
<1>11. d \in Contexts
  <2>1. s \in Nat /\ e \in Nat
    BY <1>0 DEF s, e
  <2> QED BY <1>0, <1>3, <1>7, <1>8, <1>9, <1>10, <2>1, ContextFrom
<1>12. d.pc # "idle"
  BY <1>8
<1> QED BY <1>0, <1>7, <1>8, <1>10, <1>11, <1>12 DEF ContextInv

(* A search starts.                                                         *)
Started(q, c) ==
    /\ c.start_time = q[1] /\ c.end_time = q[2]
    /\ c.tmp_line = << >> /\ c.log_lines = << >> /\ c.matched_lines = << >>
    /\ \/ c.covered = 0 /\ ~(index # << >> /\ IndexIsClosed)
       \/ c.covered = Final(index).offset + 1 /\ index # << >> /\ IndexIsClosed
    /\ \/ /\ c.pc = "reading" /\ index # << >> /\ IndexFound(index, q[1], q[2])
          /\ c.pos = IndexStartPos(index, q[1], q[2])
          /\ c.end_pos = IndexEndPos(index, q[1], q[2])
       \/ /\ c.pc = "done" /\ ~(index # << >> /\ IndexFound(index, q[1], q[2]))
          /\ c.pos = 0 /\ c.end_pos = 0

LEMMA StartEffect ==
    ASSUME NEW q, StartSearch(q)
    PROVE  ctx.pc = "idle" /\ UNCHANGED vars /\ SameFields(NoSearch, ctx') /\ Started(q, ctx')
<1> DEFINE g == IF index # << >> /\ IndexIsClosed THEN Final(index).offset + 1 ELSE 0
           c == [NoSearch EXCEPT !.start_time = q[1], !.end_time = q[2], !.covered = g]
<1>1. /\ SameFields(NoSearch, c) /\ c.start_time = q[1] /\ c.end_time = q[2] /\ c.covered = g
      /\ c.tmp_line = << >> /\ c.log_lines = << >> /\ c.matched_lines = << >>
      /\ c.pos = 0 /\ c.end_pos = 0
  BY DEF NoSearch, SameFields
<1>2. /\ ctx.pc = "idle" /\ UNCHANGED vars
      /\ ctx' = IF index # << >> /\ IndexFound(index, q[1], q[2])
                THEN [c EXCEPT !.pc = "reading", !.pos = IndexStartPos(index, q[1], q[2]),
                               !.end_pos = IndexEndPos(index, q[1], q[2])]
                ELSE [c EXCEPT !.pc = "done"]
  BY DEF StartSearch
<1>3. DOMAIN NoSearch = {"pc", "start_time", "end_time", "pos", "end_pos", "tmp_line",
                         "log_lines", "matched_lines", "covered"}
  BY DEF NoSearch
<1> HIDE DEF c
<1>4. \/ c.covered = 0 /\ ~(index # << >> /\ IndexIsClosed)
      \/ c.covered = Final(index).offset + 1 /\ index # << >> /\ IndexIsClosed
  BY <1>1
<1>5. CASE index # << >> /\ IndexFound(index, q[1], q[2])
  BY <1>1, <1>2, <1>3, <1>4, <1>5 DEF SameFields, Started
<1>6. CASE ~(index # << >> /\ IndexFound(index, q[1], q[2]))
  BY <1>1, <1>2, <1>3, <1>4, <1>6 DEF SameFields, Started
<1> QED BY <1>5, <1>6

LEMMA StartKeeps ==
    ASSUME TypeInv, OffsetsBelow(file, index), NEW q \in Queries, StartSearch(q)
    PROVE  ContextInv(file, ctx')
<1> DEFINE c == ctx'
<1>1. SameFields(NoSearch, c) /\ Started(q, c)
  BY StartEffect
<1>2. q[1] \in Nat /\ q[2] \in Nat
  BY SearchAssumption
<1>3. /\ file \in Seq(Lines) /\ Len(file) \in Nat /\ Len(file) <= MaxLines
      /\ index \in Seq(TimeIndexes) /\ MaxLines \in Nat /\ MaxBatch \in Nat \ {0}
  BY BuilderAssumption, SearchAssumption DEF TypeInv, TypeOK
<1>4. \A i \in DOMAIN index : index[i].offset \in Nat /\ index[i].offset < Len(file)
  BY <1>3, EntryFacts DEF OffsetsBelow
<1> HIDE DEF c
<1>5. index # << >> => Final(index).offset \in Nat /\ Final(index).offset < Len(file)
  <2>1. index # << >> => Len(index) \in DOMAIN index
    BY <1>3
  <2> QED BY <1>4, <2>1 DEF Final
<1>6. IndexFound(index, q[1], q[2]) =>
         /\ IndexStartPos(index, q[1], q[2]) \in Nat
         /\ IndexStartPos(index, q[1], q[2]) < Len(file)
         /\ IndexEndPos(index, q[1], q[2]) \in Nat
         /\ IndexEndPos(index, q[1], q[2]) < Len(file)
  <2>1. SUFFICES ASSUME IndexFound(index, q[1], q[2])
                 PROVE  /\ IndexStartPos(index, q[1], q[2]) \in Nat
                        /\ IndexStartPos(index, q[1], q[2]) < Len(file)
                        /\ IndexEndPos(index, q[1], q[2]) \in Nat
                        /\ IndexEndPos(index, q[1], q[2]) < Len(file)
    OBVIOUS
  <2>2. PICK i \in 1..Len(index) - 1, j \in 1..Len(index) - 1 : Ranges(index, q[1], q[2], i, j)
    BY <1>3, <2>1, RangeExists
  <2>3. i \in DOMAIN index /\ j + 1 \in DOMAIN index
    BY <1>3
  <2> QED BY <1>4, <2>2, <2>3 DEF Ranges
<1>7. c.covered \in Nat /\ c.covered <= Len(file)
  <2>1. c.covered = 0 \/ (c.covered = Final(index).offset + 1 /\ index # << >>)
    BY <1>1 DEF Started
  <2> QED BY <1>3, <1>5, <2>1
<1>8. /\ c.pos \in Nat /\ c.pos <= Len(file) /\ c.end_pos \in Nat /\ c.end_pos <= Len(file)
  <2>1. \/ c.pos = 0 /\ c.end_pos = 0
        \/ /\ IndexFound(index, q[1], q[2])
           /\ c.pos = IndexStartPos(index, q[1], q[2])
           /\ c.end_pos = IndexEndPos(index, q[1], q[2])
    BY <1>1 DEF Started
  <2> QED BY <1>3, <1>6, <2>1
<1>9. c.pos \in 0..MaxLines /\ c.end_pos \in 0..MaxLines
  BY <1>3, <1>8
<1>10. /\ c.start_time \in Nat /\ c.end_time \in Nat /\ c.tmp_line = << >>
       /\ c.log_lines = << >> /\ c.matched_lines = << >>
       /\ c.pc = "reading" \/ c.pc = "done"
  BY <1>1, <1>2 DEF Started
<1>11. c \in Contexts
  <2>1. << >> \in Records /\ << >> \in Seq(FullRecords)
    BY DEF Records
  <2> QED BY <1>1, <1>7, <1>9, <1>10, <2>1, ContextFrom
<1>12. Answering(file, c.start_time, c.end_time, c.pos, c.tmp_line, c.log_lines, c.matched_lines)
  BY <1>8, <1>10, EmptyAnswering
<1>13. Len(c.log_lines) <= MaxBatch /\ Len(c.log_lines) < MaxBatch /\ c.pc # "idle"
  BY <1>3, <1>10
<1>14. ContextInv(file, c)
  BY <1>7, <1>8, <1>11, <1>12, <1>13 DEF ContextInv
<1> QED BY <1>14 DEF c

(* The end of a search.                                                     *)
Rest(c) == c.log_lines \o Pend(c.tmp_line)

Flushed(f, c, d) ==
    /\ d.pc = "done" /\ d.tmp_line = << >> /\ d.log_lines = << >>
    /\ d.matched_lines = Exec(f, c.matched_lines, Rest(c))
    /\ d.start_time = c.start_time /\ d.end_time = c.end_time /\ d.pos = c.pos
    /\ d.end_pos = c.end_pos /\ d.covered = c.covered

LEMMA FlushEffect ==
    ASSUME ctx \in Contexts, FlushSearch
    PROVE  /\ ctx.pc = "flushing" /\ UNCHANGED vars
           /\ SameFields(ctx, ctx') /\ Flushed(file, ctx, ctx')
<1> DEFINE M == IF Rest(ctx) = << >> THEN ctx.matched_lines
                ELSE ExecSearchers(ctx.matched_lines, Rest(ctx))
<1>1. M = Exec(file, ctx.matched_lines, Rest(ctx))
  <2>1. ctx.matched_lines \in Seq(FullRecords)
    BY DEF Contexts
  <2>2. Exec(file, ctx.matched_lines, << >>) = ctx.matched_lines
    BY <2>1, ExecNone
  <2>3. ExecSearchers(ctx.matched_lines, Rest(ctx)) = Exec(file, ctx.matched_lines, Rest(ctx))
    BY ExecIsExecSearchers
  <2> QED BY <2>2, <2>3
<1>2. /\ ctx.pc = "flushing" /\ UNCHANGED vars
      /\ ctx' = [ctx EXCEPT !.pc = "done", !.tmp_line = << >>, !.log_lines = << >>,
                            !.matched_lines = M]
  <2>1. Rest(ctx) = ctx.log_lines \o Pending(ctx)
    BY DEF Rest, Pend, Pending
  <2> QED BY <2>1 DEF FlushSearch
<1>3. DOMAIN ctx = {"pc", "start_time", "end_time", "pos", "end_pos", "tmp_line", "log_lines",
                    "matched_lines", "covered"}
  BY DEF Contexts
<1> HIDE DEF M
<1> QED BY <1>1, <1>2, <1>3 DEF SameFields, Flushed

LEMMA FlushKeeps ==
    ASSUME NEW f \in Seq(Lines), Len(f) <= MaxLines, NEW c, ContextInv(f, c),
           NEW d, SameFields(c, d), Flushed(f, c, d)
    PROVE  ContextInv(f, d)
<1>0. /\ c \in Contexts /\ c.start_time \in Nat /\ c.end_time \in Nat
      /\ c.pos \in 0..MaxLines /\ c.end_pos \in 0..MaxLines /\ c.tmp_line \in Records
      /\ c.log_lines \in Seq(FullRecords) /\ c.matched_lines \in Seq(FullRecords)
      /\ c.covered \in Nat /\ c.pos <= Len(f) /\ c.covered <= Len(f)
  BY ContextTypes
<1> DEFINE E == Exec(f, c.matched_lines, Rest(c))
<1>1. Answering(f, c.start_time, c.end_time, c.pos, c.tmp_line, c.log_lines, c.matched_lines)
  BY DEF ContextInv
<1>2. AreRecords(f, E, c.start_time, c.end_time)
  <2>1. Len(f) \in Nat
    OBVIOUS
  <2> QED BY <1>0, <1>1, <2>1, PendAnswering DEF Rest
<1>3. E \in Seq(FullRecords) /\ << >> \in Seq(FullRecords) /\ << >> \in Records
  <2>1. Rest(c) \in Seq(FullRecords)
    <3>1. c.tmp_line # << >> => c.tmp_line \in FullRecords
      BY <1>0 DEF FullRecords
    <3>2. Pend(c.tmp_line) \in Seq(FullRecords)
      BY <3>1 DEF Pend
    <3> QED BY <1>0, <3>2 DEF Rest
  <2> QED BY <1>0, <2>1, ExecType DEF Records
<1>4. /\ d.pc = "done" /\ d.tmp_line = << >> /\ d.log_lines = << >> /\ d.matched_lines = E
      /\ d.start_time = c.start_time /\ d.end_time = c.end_time /\ d.pos = c.pos
      /\ d.end_pos = c.end_pos /\ d.covered = c.covered
  BY DEF Flushed
<1> HIDE DEF E
<1>5. Answering(f, d.start_time, d.end_time, d.pos, d.tmp_line, d.log_lines, d.matched_lines)
  <2>1. Exec(f, E, << >>) = E
    BY <1>3, ExecNone
  <2> QED BY <1>2, <1>4, <2>1 DEF Answering, PendingIsRecord
<1>6. d \in Contexts
  BY <1>0, <1>3, <1>4, ContextFields, ContextFrom
<1>7. Len(d.log_lines) <= MaxBatch /\ d.pc # "idle" /\ d.pc # "reading"
  <2>1. Len(d.log_lines) = 0 /\ MaxBatch \in Nat
    BY <1>4, SearchAssumption
  <2> QED BY <1>4, <2>1
<1>8. d.pos <= Len(f) /\ d.covered <= Len(f)
  BY <1>0, <1>4
<1> QED BY <1>5, <1>6, <1>7, <1>8 DEF ContextInv

LEMMA NoSearchKeeps ==
    ASSUME NEW f, Len(f) \in Nat
    PROVE  ContextInv(f, NoSearch)
<1>1. NoSearch \in Contexts
  <2>1. << >> \in Records /\ << >> \in Seq(FullRecords) /\ 0 \in 0..MaxLines
    BY BuilderAssumption DEF Records
  <2> QED BY <2>1 DEF Contexts, NoSearch
<1>2. Answering(f, 0, 0, 0, << >>, << >>, << >>)
  BY EmptyAnswering
<1>3. /\ NoSearch.pc = "idle" /\ NoSearch.pos = 0 /\ NoSearch.covered = 0
      /\ NoSearch.start_time = 0 /\ NoSearch.end_time = 0 /\ NoSearch.tmp_line = << >>
      /\ NoSearch.log_lines = << >> /\ NoSearch.matched_lines = << >>
  BY DEF NoSearch
<1> HIDE DEF NoSearch
<1>4. /\ Len(NoSearch.log_lines) <= MaxBatch /\ NoSearch.pc # "reading"
      /\ NoSearch.pos <= Len(f) /\ NoSearch.covered <= Len(f)
  <2>1. Len(NoSearch.log_lines) = 0 /\ MaxBatch \in Nat
    BY <1>3, SearchAssumption
  <2> QED BY <1>3, <2>1
<1> QED BY <1>1, <1>2, <1>3, <1>4 DEF ContextInv

-----------------------------------------------------------------------------
(* The invariant of every step.                                             *)

LEMMA TextInit == SearchInit => TextInv
<1> SUFFICES ASSUME SearchInit PROVE TextInv
  OBVIOUS
<1>1. Init /\ ctx = NoSearch
  BY DEF SearchInit
<1>2. TypeInv /\ TimesAreOrdered(file)
  BY <1>1, InvInit DEF IInv
<1>3. OffsetsBelow(file, index) /\ OffsetsBelow(file, builder.outputs)
  BY <1>1 DEF Init, Idle, OffsetsBelow
<1>4. ContextInv(file, ctx)
  <2>1. Len(file) \in Nat
    BY <1>1 DEF Init
  <2> QED BY <1>1, <2>1, NoSearchKeeps
<1> QED BY <1>2, <1>3, <1>4 DEF TextInv

(* Only a line that is appended changes the file.                           *)
LEMMA FileSteps ==
    ASSUME TypeInv, [Next]_vars
    PROVE  \/ file' = file
           \/ \E l \in Lines : /\ file' = Append(file, l)
                               /\ l.ts # 0 => \A k \in 1..Len(file) : file[k].ts <= l.ts
BY DEF Next, vars, AppendLine, Begin, SkipLong, SkipUntimed, IndexTimed, Publish

LEMMA FileGrows ==
    ASSUME TypeInv, TimesAreOrdered(file), [Next]_vars
    PROVE  Grows(file, file') /\ TimesAreOrdered(file')
<1>1. file \in Seq(Lines)
  BY DEF TypeInv, TypeOK
<1>2. CASE file' = file
  BY <1>1, <1>2 DEF Grows, SameLines
<1>3. ASSUME NEW l \in Lines, file' = Append(file, l),
             l.ts # 0 => \A k \in 1..Len(file) : file[k].ts <= l.ts
      PROVE  Grows(file, file') /\ TimesAreOrdered(file')
  BY <1>1, <1>3, AppendGrows, AppendKeepsOrder
<1> QED BY <1>2, <1>3, FileSteps

LEMMA TextStep == TextInv /\ [SearchNext]_searchVars => TextInv'
<1> SUFFICES ASSUME TextInv, [SearchNext]_searchVars PROVE TextInv'
  OBVIOUS
<1>0. /\ TypeInv /\ TimesAreOrdered(file) /\ OffsetsBelow(file, index)
      /\ OffsetsBelow(file, builder.outputs) /\ ContextInv(file, ctx)
      /\ file \in Seq(Lines) /\ Len(file) \in Nat /\ Len(file) <= MaxLines
      /\ ctx \in Contexts
  <2>1. ctx \in Contexts
    BY DEF TextInv, ContextInv
  <2> QED BY <2>1 DEF TextInv, TypeInv, TypeOK
<1>1. ASSUME [Next]_vars, ctx' = ctx PROVE TextInv'
  <2>1. TypeInv'
    BY <1>0, <1>1, TypeStep
  <2>2. OffsetsBelow(file', index') /\ OffsetsBelow(file', builder'.outputs)
    BY <1>0, <1>1, OffsetsStep
  <2>3. Grows(file, file') /\ TimesAreOrdered(file')
    BY <1>0, <1>1, FileGrows
  <2>4. ContextInv(file', ctx)
    BY <1>0, <2>3, GrownContext
  <2> QED BY <1>1, <2>1, <2>2, <2>3, <2>4 DEF TextInv
<1>2. ASSUME UNCHANGED vars, ContextInv(file, ctx') PROVE TextInv'
  <2>1. TypeInv'
    BY <1>0, <1>2, TypeStep
  <2>2. file' = file /\ index' = index /\ builder' = builder
    BY <1>2 DEF vars
  <2> QED BY <1>0, <1>2, <2>1, <2>2 DEF TextInv
<1>3. ASSUME NEW q \in Queries, StartSearch(q) PROVE TextInv'
  <2>1. ContextInv(file, ctx')
    BY <1>0, <1>3, StartKeeps
  <2> QED BY <1>2, <1>3, <2>1, StartEffect
<1>4. CASE ReadLine
  <2>1. /\ ctx.pc = "reading" /\ ctx.pos < Len(file) /\ UNCHANGED vars
        /\ SameFields(ctx, ctx') /\ Read(file, ctx, ctx')
    BY <1>0, <1>4, ReadEffect
  <2>2. ContextInv(file, ctx')
    BY <1>0, <2>1, ReadKeeps
  <2> QED BY <1>2, <2>1, <2>2
<1>5. CASE FlushSearch
  <2>1. UNCHANGED vars /\ SameFields(ctx, ctx') /\ Flushed(file, ctx, ctx')
    BY <1>0, <1>5, FlushEffect
  <2>2. ContextInv(file, ctx')
    BY <1>0, <2>1, FlushKeeps
  <2> QED BY <1>2, <2>1, <2>2
<1>6. CASE Respond
  <2>1. ctx' = NoSearch /\ UNCHANGED vars
    BY <1>6 DEF Respond
  <2>2. ContextInv(file, ctx')
    BY <1>0, <2>1, NoSearchKeeps
  <2> QED BY <1>2, <2>1, <2>2
<1>7. CASE Next /\ UNCHANGED ctx
  BY <1>1, <1>7
<1>8. CASE UNCHANGED searchVars
  BY <1>1, <1>8 DEF searchVars, vars
<1> QED BY <1>3, <1>4, <1>5, <1>6, <1>7, <1>8 DEF SearchNext

LEMMA TextInvariant == SearchSpec => []TextInv
BY TextInit, TextStep, PTL DEF SearchSpec

LEMMA ContextIsTyped ==
    ASSUME ctx \in Contexts, Len(ctx.log_lines) <= MaxBatch
    PROVE  SearchTypeOK
<1>1. /\ ctx.pc \in {"idle", "reading", "flushing", "done"} /\ ctx.pos \in 0..MaxLines
      /\ ctx.end_pos \in 0..MaxLines /\ ctx.tmp_line \in Records
      /\ ctx.log_lines \in Seq(FullRecords) /\ ctx.matched_lines \in Seq(FullRecords)
  BY DEF Contexts
<1>2. Len(ctx.log_lines) <= MaxBatch + 1
  <2>1. Len(ctx.log_lines) \in Nat /\ MaxBatch \in Nat
    BY <1>1, SearchAssumption
  <2> QED BY <2>1
<1>3. \A i \in DOMAIN ctx.matched_lines : ctx.matched_lines[i] \in Records \ {<< >>}
  BY <1>1 DEF FullRecords
<1> QED BY <1>1, <1>2, <1>3 DEF SearchTypeOK

LEMMA RecordsAnswer ==
    ASSUME AreRecords(file, ctx.matched_lines, ctx.start_time, ctx.end_time)
    PROVE  AnswersAreRecords
<1> SUFFICES ASSUME NEW i \in DOMAIN Upto(ctx.matched_lines, MaxResults)
             PROVE  LET r == ctx.matched_lines[i] IN
                    /\ Timed(r[1]) /\ LineAt(r[1]).ts \in ctx.start_time..ctx.end_time
                    /\ Matches(r)
                    /\ \A j \in 2..Len(r) : r[j] = r[j - 1] + 1 /\ ~Timed(r[j])
  BY DEF AnswersAreRecords
<1> DEFINE r == ctx.matched_lines[i]
<1>1. IsRecord(file, r, ctx.start_time, ctx.end_time) /\ Hit(file, r)
  BY DEF AreRecords
<1> HIDE DEF r
<1>2. /\ Timed(r[1]) /\ LineAt(r[1]).ts \in ctx.start_time..ctx.end_time
      /\ Matches(r)
      /\ \A j \in 2..Len(r) : r[j] = r[j - 1] + 1 /\ ~Timed(r[j])
  BY <1>1 DEF IsRecord, InInterval, Hit, Matches, Timed, LineAt, Line
<1> QED BY <1>2 DEF r

(* The state of a search keeps its type: its position stays in the file and *)
(* no batch grows beyond its limit.                                         *)
THEOREM SearchTypeCorrect == SearchSpec => []SearchTypeOK
<1>1. TextInv => SearchTypeOK
  BY ContextIsTyped DEF TextInv, ContextInv
<1> QED BY <1>1, TextInvariant, PTL

(* Whatever the index, the lines and the limits, and however the file and   *)
(* the index change during a search, its answer is made of matching records *)
(* of the interval, each a header and lines that follow it.                 *)
THEOREM AnswersAreRecordsHolds == SearchSpec => []AnswersAreRecords
<1>1. TextInv => AnswersAreRecords
  BY RecordsAnswer DEF TextInv, ContextInv, Answering
<1> QED BY <1>1, TextInvariant, PTL

-----------------------------------------------------------------------------
(* A search by an index that its last line closes follows a scan.           *)

LEMMA GrownTaken ==
    ASSUME NEW f, NEW g, Grows(f, g), NEW n \in 0..MaxLines, n <= Len(f), NEW s, NEW e,
           NEW M \in Seq(FullRecords), NEW L \in Seq(FullRecords),
           \A i \in DOMAIN L : InFile(f, L[i]), NEW k \in 0..n, TakenUpto(f, n, s, e, M, L, k)
    PROVE  TakenUpto(g, n, s, e, M, L, k)
<1>1. SameLines(f, g, n)
  <2>1. n \in Nat /\ Len(f) \in Nat
    BY BuilderAssumption DEF Grows
  <2> QED BY <2>1 DEF Grows, SameLines
<1>2. Found(f, n, s, e)[k] = Found(g, n, s, e)[k]
  BY <1>1, FoundSame
<1>3. Exec(f, M, L) = Exec(g, M, L)
  BY GrownExec
<1> QED BY <1>2, <1>3 DEF TakenUpto

(* The first line of the pending record.                                    *)
LEMMA PendingStarts ==
    ASSUME NEW f, NEW s, NEW e, NEW p \in Nat, NEW T, PendingIsRecord(f, s, e, p, T)
    PROVE  p - Len(T) \in 0..p
<1>1. CASE T = << >>
  <2>1. Len(T) = 0
    BY <1>1
  <2> QED BY <2>1
<1>2. CASE T # << >>
  <2> DEFINE h == p - Len(T)
  <2>1. h \in 0..p - 1
    BY <1>2 DEF PendingIsRecord
  <2> HIDE DEF h
  <2>2. h \in 0..p
    BY <2>1
  <2> QED BY <2>2 DEF h
<1> QED BY <1>1, <1>2

LEMMA RestRecords ==
    ASSUME NEW f, Len(f) \in Nat, NEW c, ContextInv(f, c)
    PROVE  /\ Rest(c) \in Seq(FullRecords) /\ \A i \in DOMAIN Rest(c) : InFile(f, Rest(c)[i])
           /\ Rest(c) = c.log_lines \o Pending(c)
<1>1. /\ c.pos \in 0..MaxLines /\ c.tmp_line \in Records /\ c.pos <= Len(f)
      /\ c.log_lines \in Seq(FullRecords) /\ c.matched_lines \in Seq(FullRecords)
  BY ContextTypes
<1>2. Answering(f, c.start_time, c.end_time, c.pos, c.tmp_line, c.log_lines, c.matched_lines)
  BY DEF ContextInv
<1>3. \A i \in DOMAIN (c.log_lines \o Pend(c.tmp_line)) :
         InFile(f, (c.log_lines \o Pend(c.tmp_line))[i])
  BY <1>1, <1>2, PendAnswering
<1>4. Rest(c) \in Seq(FullRecords)
  <2>1. c.tmp_line # << >> => c.tmp_line \in FullRecords
    BY <1>1 DEF FullRecords
  <2>2. Pend(c.tmp_line) \in Seq(FullRecords)
    BY <2>1 DEF Pend
  <2> QED BY <1>1, <2>2 DEF Rest
<1>5. Rest(c) = c.log_lines \o Pending(c)
  BY DEF Rest, Pend, Pending
<1> QED BY <1>3, <1>4, <1>5 DEF Rest

LEMMA GrownFollows ==
    ASSUME NEW f, Len(f) <= MaxLines, NEW g, Grows(f, g), NEW c, ContextInv(f, c),
           FollowsScan(f, c)
    PROVE  FollowsScan(g, c)
<1>0. /\ c \in Contexts /\ c.pos \in 0..MaxLines /\ c.end_pos \in 0..MaxLines
      /\ c.log_lines \in Seq(FullRecords) /\ c.matched_lines \in Seq(FullRecords)
      /\ c.covered \in Nat /\ c.covered <= Len(f)
  BY ContextTypes
<1> DEFINE n == c.covered
           s == c.start_time
           e == c.end_time
           M == c.matched_lines
           L == c.log_lines
           p == c.pos
           q == c.end_pos
           T == c.tmp_line
<1>1. /\ Len(f) \in Nat /\ Len(g) \in Nat /\ Len(f) <= Len(g) /\ SameLines(f, g, Len(f))
      /\ MaxLines \in Nat /\ n \in 0..MaxLines /\ p \in Nat /\ q \in Nat
  BY <1>0, BuilderAssumption DEF Grows
<1>2. Answering(f, s, e, p, T, L, M)
  BY DEF ContextInv
<1>3. ASSUME c.pc = "reading"
      PROVE  EndsRight(g, n, e, p, q) /\ TakenUpto(g, n, s, e, M, L, p - Len(T))
  <2>1. EndsRight(f, n, e, p, q) /\ TakenUpto(f, n, s, e, M, L, p - Len(T))
    BY <1>3 DEF FollowsScan
  <2> HIDE DEF n, s, e, M, L, p, q, T
  <2>2. p <= q /\ q < n
    BY <2>1 DEF EndsRight
  <2>3. n \in Nat /\ n <= Len(f)
    BY <1>0 DEF n
  <2>4. q \in 0..Len(f) - 1
    BY ONLY <1>1, <2>2, <2>3
  <2>5. EndsRight(g, n, e, p, q)
    BY <1>1, <2>1, <2>4 DEF EndsRight, SameLines
  <2>6. PendingIsRecord(f, s, e, p, T) /\ \A i \in DOMAIN L : InFile(f, L[i])
    BY <1>2 DEF Answering
  <2> DEFINE k == p - Len(T)
  <2>7. k \in 0..p
    BY <1>1, <2>6, PendingStarts
  <2> HIDE DEF k
  <2>8. k \in 0..n
    BY ONLY <1>1, <2>2, <2>3, <2>7
  <2>9. TakenUpto(f, n, s, e, M, L, k)
    BY <2>1 DEF k
  <2>10. L \in Seq(FullRecords) /\ M \in Seq(FullRecords)
    BY <1>0 DEF L, M
  <2>11. TakenUpto(g, n, s, e, M, L, k)
    BY <1>1, <2>3, <2>6, <2>8, <2>9, <2>10, GrownTaken
  <2> QED BY <2>5, <2>11 DEF k
<1>4. n \in 0..n
  BY <1>0
<1>5. ASSUME c.pc = "flushing" PROVE TakenUpto(g, n, s, e, M, L \o Pending(c), n)
  <2>1. TakenUpto(f, n, s, e, M, Rest(c), n)
    BY <1>1, <1>5, RestRecords DEF FollowsScan
  <2>2. Rest(c) \in Seq(FullRecords) /\ \A i \in DOMAIN Rest(c) : InFile(f, Rest(c)[i])
    BY <1>1, RestRecords
  <2>3. TakenUpto(g, n, s, e, M, Rest(c), n)
    BY <1>0, <1>1, <1>4, <2>1, <2>2, GrownTaken
  <2> QED BY <1>1, <2>3, RestRecords
<1>6. ASSUME c.pc = "done" PROVE TakenUpto(g, n, s, e, M, << >>, n)
  <2>1. TakenUpto(f, n, s, e, M, << >>, n)
    BY <1>6 DEF FollowsScan
  <2>2. << >> \in Seq(FullRecords) /\ \A i \in DOMAIN << >> : InFile(f, << >>[i])
    OBVIOUS
  <2> QED BY <1>0, <1>1, <1>4, <2>1, <2>2, GrownTaken
<1> QED BY <1>3, <1>5, <1>6 DEF FollowsScan

(* A search that starts has missed nothing.                                 *)
LEMMA StartFollows ==
    ASSUME IInv, NEW q \in Queries, NEW c, Started(q, c), c.covered > 0,
           IsCovered(file, c.start_time, c.covered)
    PROVE  FollowsScan(file, c)
<1> DEFINE s == q[1]
           e == q[2]
           n == Final(index).offset + 1
           F == Found(file, n, s, e)
<1>1. index # << >> /\ IndexIsClosed /\ c.covered = n
  BY DEF Started
<1>2. s \in Nat /\ e \in Nat /\ MaxLines \in Nat /\ << >> \in Seq(FullRecords)
  BY SearchAssumption, BuilderAssumption
<1>3. /\ file \in Seq(Lines) /\ index \in Seq(TimeIndexes) /\ indexed \in Nat
      /\ indexed <= Len(file) /\ TimesAreOrdered(file)
      /\ ClosedIndex(file, index, indexed)
  BY <1>1, WordsOfIndex
<1>4. RangeIsRight(file, index, s, e) /\ Final(index).offset \in 0..indexed - 1
  <2>1. IsCovered(file, s, Final(index).offset + 1)
    BY <1>1 DEF Started
  <2>2. RangeIsRight(file, index, s, e)
    BY <1>2, <1>3, <2>1, ClosedIndexLeads
  <2> QED BY <1>3, <2>2, ClosedFacts
<1>5. n \in 0..MaxLines /\ n <= Len(file) /\ Final(index).offset \in Nat
  <2>1. Len(file) \in Nat /\ Len(file) <= MaxLines
    BY DEF IInv, TypeInv, TypeOK
  <2> QED BY <1>2, <1>3, <1>4, <2>1
<1>6. Exec(file, << >>, << >>) = << >>
  BY <1>2, ExecNone
<1>7. ASSUME NEW k \in 0..n, NoHeader(file, 0, k, s, e)
      PROVE  TakenUpto(file, n, s, e, << >>, << >>, k)
  <2>1. 0 \in 0..n /\ k \in 0..n
    BY <1>5
  <2> HIDE DEF n, s, e
  <2>2. Found(file, n, s, e)[k] = Found(file, n, s, e)[0]
    BY <1>5, <1>7, <2>1, FoundStays
  <2>3. Found(file, n, s, e)[0] = << >>
    BY <1>5, FoundFacts
  <2> QED BY <1>6, <2>2, <2>3 DEF TakenUpto
<1>8. /\ c.start_time = s /\ c.end_time = e
      /\ c.tmp_line = << >> /\ c.log_lines = << >> /\ c.matched_lines = << >>
  BY DEF Started
<1>9. CASE /\ c.pc = "reading" /\ IndexFound(index, s, e)
           /\ c.pos = IndexStartPos(index, s, e) /\ c.end_pos = IndexEndPos(index, s, e)
  <2> DEFINE p == IndexStartPos(index, s, e)
             r == IndexEndPos(index, s, e)
  <2>1. /\ p \in Nat /\ r \in Nat /\ p <= r /\ r <= Final(index).offset
        /\ Line(file, r).ts # 0 /\ (r = Final(index).offset \/ Line(file, r).ts > e)
        /\ \A k \in 0..p - 1 : ~InInterval(file, k, s, e)
    BY <1>4, <1>9 DEF RangeIsRight
  <2>2. NoHeader(file, 0, p, s, e)
    BY <2>1 DEF NoHeader
  <2> HIDE DEF p, r
  <2>3. EndsRight(file, n, e, p, r) /\ p \in 0..n /\ p - 0 = p
    <3>1. r < n /\ (r = Final(index).offset => r = n - 1) /\ p \in 0..n /\ p - 0 = p
      BY <1>5, <2>1
    <3> HIDE DEF n
    <3> QED BY <2>1, <3>1 DEF EndsRight
  <2>4. TakenUpto(file, n, s, e, << >>, << >>, p)
    BY <1>7, <2>2, <2>3
  <2>5. Len(c.tmp_line) = 0 /\ c.pos = p /\ c.end_pos = r
    BY <1>8, <1>9 DEF p, r
  <2>6. c.pos - Len(c.tmp_line) = p
    BY <2>3, <2>5
  <2> HIDE DEF n, s, e
  <2> QED BY <1>1, <1>8, <1>9, <2>3, <2>4, <2>5, <2>6 DEF FollowsScan
<1>10. CASE c.pc = "done" /\ ~IndexFound(index, s, e)
  <2>1. NoHeader(file, 0, n, s, e)
    <3>1. n - 1 = Final(index).offset
      BY <1>5
    <3> QED BY <1>4, <1>10, <3>1 DEF RangeIsRight, NoHeader
  <2>2. n \in 0..n
    BY <1>5
  <2>3. TakenUpto(file, n, s, e, << >>, << >>, n)
    BY <1>7, <2>1, <2>2
  <2> HIDE DEF n, s, e
  <2> QED BY <1>1, <1>8, <1>10, <2>3 DEF FollowsScan
<1> QED BY <1>1, <1>9, <1>10 DEF Started

(* A turn of the loop keeps up with the scan.                               *)
LEMMA ReadFollows ==
    ASSUME NEW f \in Seq(Lines), Len(f) <= MaxLines, TimesAreOrdered(f), NEW c,
           ContextInv(f, c), c.pc = "reading", NEW d, Read(f, c, d), FollowsScan(f, c)
    PROVE  FollowsScan(f, d)
<1>0. /\ c.start_time \in Nat /\ c.end_time \in Nat
      /\ c.pos \in 0..MaxLines /\ c.end_pos \in 0..MaxLines /\ c.tmp_line \in Records
      /\ c.log_lines \in Seq(FullRecords) /\ c.matched_lines \in Seq(FullRecords)
      /\ c.covered \in Nat /\ c.pos <= Len(f) /\ c.covered <= Len(f)
  BY ContextTypes
<1> DEFINE n == c.covered
           s == c.start_time
           e == c.end_time
           M == c.matched_lines
           p == c.pos
           q == c.end_pos
           T == c.tmp_line
           N == NewTemp(f, s, e, p, T)
           K == NextLog(f, c)
           E == Exec(f, M, K)
<1>1. /\ Len(f) \in Nat /\ MaxLines \in Nat /\ n \in Nat /\ n \in 0..MaxLines /\ n <= Len(f)
      /\ p \in Nat /\ q \in Nat /\ p \in 0..MaxLines
  BY <1>0, BuilderAssumption
<1>2. EndsRight(f, n, e, p, q) /\ TakenUpto(f, n, s, e, M, c.log_lines, p - Len(T))
  BY DEF FollowsScan
<1>3. PendingIsRecord(f, s, e, p, T)
  BY DEF ContextInv, Answering
<1>4. p <= q /\ q < n /\ Line(f, q).ts # 0 /\ (q = n - 1 \/ Line(f, q).ts > e)
  <2> HIDE DEF n, e, p, q
  <2> QED BY <1>2 DEF EndsRight
<1>5. p \in 0..n - 1 /\ p < Len(f) /\ p + 1 \in Nat
  <2> HIDE DEF n, p, q
  <2> QED BY <1>1, <1>4
<1>6. TakenUpto(f, n, s, e, M, K, p + 1 - Len(N))
  BY <1>0, <1>1, <1>2, <1>3, <1>5, ParseFollows DEF NextLog
<1>7. N \in Records /\ K \in Seq(FullRecords) /\ PendingIsRecord(f, s, e, p + 1, N)
  <2>1. PendingIsRecord(f, s, e, p + 1, N)
    BY <1>0, <1>1, <1>3, <1>5, ParsePending
  <2> QED BY <1>0, <1>1, <1>3, <2>1, ParseTypes DEF NextLog
<1>8. E \in Seq(FullRecords) /\ Exec(f, E, << >>) = E
  <2>1. E \in Seq(FullRecords)
    BY <1>0, <1>7, ExecType
  <2> HIDE DEF E
  <2> QED BY <2>1, ExecNone
<1>9. /\ d.start_time = s /\ d.end_time = e /\ d.end_pos = q /\ d.covered = n
      /\ d.tmp_line = N /\ d.pos = p + 1 /\ (d.pc = "reading" \/ d.pc = "flushing")
  BY DEF Read, Parsed
<1>10. \/ d.pc = "flushing" /\ p + 1 > q /\ d.log_lines = K /\ d.matched_lines = M
       \/ d.pc = "reading" /\ ~(p + 1 > q) /\ d.log_lines = K /\ d.matched_lines = M
       \/ /\ d.pc = "reading" \/ (d.pc = "flushing" /\ Len(d.matched_lines) >= MaxResults)
          /\ ~(p + 1 > q) /\ d.log_lines = << >> /\ d.matched_lines = E
  BY DEF Read
<1>11. Pending(d) = Pend(N)
  BY <1>9 DEF Pending, Pend
<1>12. p + 1 > q => TakenUpto(f, n, s, e, M, K \o Pend(N), n)
  <2>1. SUFFICES ASSUME p + 1 > q PROVE TakenUpto(f, n, s, e, M, K \o Pend(N), n)
    OBVIOUS
  <2>2. p = q
    <3> HIDE DEF p, q
    <3> QED BY <1>1, <1>4, <2>1
  <2>3. Line(f, p).ts # 0 /\ (p = n - 1 \/ Line(f, p).ts > e)
    <3> HIDE DEF n, e, p, q
    <3> QED BY <1>4, <2>2
  <2> QED BY <1>0, <1>1, <1>2, <1>3, <1>5, <2>3, EndFollows DEF NextLog
<1>13. E \in Seq(FullRecords) /\ TakenUpto(f, n, s, e, E, << >>, p + 1 - Len(N))
  <2> HIDE DEF n, s, e, M, K, E, p, N
  <2> QED BY <1>6, <1>8 DEF TakenUpto, E
<1>14. Len(E) >= MaxResults => TakenUpto(f, n, s, e, E, << >> \o Pend(N), n)
  <2> DEFINE k == p + 1 - Len(N)
             m == p + 1
  <2>1. k \in 0..m
    <3>1. m \in Nat /\ PendingIsRecord(f, s, e, m, N)
      BY <1>5, <1>7
    <3>2. Len(N) \in Nat
      BY <1>7 DEF Records
    <3> HIDE DEF N, p
    <3>3. k = m - Len(N)
      BY <1>1, <3>2
    <3> HIDE DEF m, k, s, e
    <3> QED BY <3>1, <3>3, PendingStarts
  <2>2. k \in 0..n
    <3>1. m \in 0..n
      <4> HIDE DEF n, p
      <4> QED BY <1>1, <1>5
    <3> HIDE DEF k, n, m
    <3> QED BY <1>1, <2>1, <3>1
  <2> HIDE DEF k, n, s, e, E, N
  <2>3. TakenUpto(f, n, s, e, E, << >>, k)
    BY <1>13 DEF k
  <2> QED BY <1>1, <1>7, <1>8, <2>2, <2>3, EnoughFollows
<1> HIDE DEF n, s, e, M, p, q, T, N, K, E
<1>15. ~(p + 1 > q) => EndsRight(f, n, e, p + 1, q)
  <2>1. ~(p + 1 > q) => p + 1 <= q
    BY <1>1
  <2> QED BY <1>4, <2>1 DEF EndsRight
<1> DEFINE m == p + 1
           k == p + 1 - Len(N)
<1>20. d.pos = m /\ d.pos - Len(d.tmp_line) = k /\ TakenUpto(f, n, s, e, E, << >>, k)
       /\ TakenUpto(f, n, s, e, M, K, k) /\ (~(m > q) => EndsRight(f, n, e, m, q))
  <2>1. d.pos - Len(d.tmp_line) = k
    <3>1. Len(N) \in Nat
      BY <1>7 DEF Records
    <3> QED BY <1>1, <1>9, <3>1
  <2> QED BY <1>6, <1>9, <1>13, <1>15, <2>1
<1> HIDE DEF k, m
<1>16. CASE d.pc = "flushing" /\ p + 1 > q /\ d.log_lines = K /\ d.matched_lines = M
  BY <1>9, <1>11, <1>12, <1>16 DEF FollowsScan
<1>17. CASE d.pc = "reading" /\ ~(p + 1 > q) /\ d.log_lines = K /\ d.matched_lines = M
  <2>1. ~(m > q)
    BY <1>17 DEF m
  <2> QED BY <1>9, <1>17, <1>20, <2>1 DEF FollowsScan
<1>18. CASE d.pc = "reading" /\ ~(p + 1 > q) /\ d.log_lines = << >> /\ d.matched_lines = E
  <2>1. ~(m > q)
    BY <1>18 DEF m
  <2> QED BY <1>9, <1>18, <1>20, <2>1 DEF FollowsScan
<1>19. CASE /\ d.pc = "flushing" /\ Len(d.matched_lines) >= MaxResults
            /\ ~(p + 1 > q) /\ d.log_lines = << >> /\ d.matched_lines = E
  BY <1>9, <1>11, <1>14, <1>19 DEF FollowsScan
<1> QED BY <1>10, <1>16, <1>17, <1>18, <1>19

LEMMA FlushFollows ==
    ASSUME NEW f, Len(f) \in Nat, NEW c, ContextInv(f, c), c.pc = "flushing", NEW d,
           Flushed(f, c, d), FollowsScan(f, c)
    PROVE  FollowsScan(f, d)
<1> DEFINE E == Exec(f, c.matched_lines, Rest(c))
<1>1. Rest(c) \in Seq(FullRecords) /\ Rest(c) = c.log_lines \o Pending(c)
  BY RestRecords
<1>2. c.matched_lines \in Seq(FullRecords)
  BY ContextTypes
<1>3. E \in Seq(FullRecords)
  BY <1>1, <1>2, ExecType
<1>4. Exec(f, E, << >>) = E
  <2> HIDE DEF E
  <2> QED BY <1>3, ExecNone
<1>5. TakenUpto(f, c.covered, c.start_time, c.end_time, c.matched_lines, Rest(c), c.covered)
  BY <1>1 DEF FollowsScan
<1>6. /\ d.pc = "done" /\ d.matched_lines = E
      /\ d.start_time = c.start_time /\ d.end_time = c.end_time /\ d.covered = c.covered
  BY DEF Flushed
<1>7. TakenUpto(f, c.covered, c.start_time, c.end_time, E, << >>, c.covered)
  <2>1. Upto(E, MaxResults) = Upto(Found(f, c.covered, c.start_time, c.end_time)[c.covered],
                                   MaxResults)
    BY <1>5 DEF TakenUpto
  <2> HIDE DEF E
  <2> QED BY <1>4, <2>1 DEF TakenUpto
<1> HIDE DEF E
<1> QED BY <1>6, <1>7 DEF FollowsScan

LEMMA ScanStep ==
    ASSUME ScanInv, [SearchNext]_searchVars
    PROVE  ScanInv'
<1>0. /\ IInv /\ TextInv /\ TypeInv /\ TimesAreOrdered(file) /\ ContextInv(file, ctx)
      /\ file \in Seq(Lines) /\ Len(file) \in Nat /\ Len(file) <= MaxLines
      /\ ctx \in Contexts /\ ctx.covered \in Nat /\ ctx.covered <= Len(file)
  <2>1. IInv /\ TextInv
    BY DEF ScanInv
  <2>2. ContextInv(file, ctx) /\ TypeInv /\ TimesAreOrdered(file)
    BY <2>1 DEF TextInv
  <2>3. file \in Seq(Lines) /\ Len(file) <= MaxLines
    BY <2>2 DEF TypeInv, TypeOK
  <2>4. ctx \in Contexts /\ ctx.covered \in Nat /\ ctx.covered <= Len(file)
    BY <2>2, ContextTypes
  <2> QED BY <2>1, <2>2, <2>3, <2>4
<1>1. TextInv'
  BY <1>0, TextStep
<1>2. IInv'
  <2>1. [Next]_vars
    BY StartEffect, ReadEffect, FlushEffect, <1>0
       DEF SearchNext, searchVars, vars, Respond
  <2> QED BY <1>0, <2>1, InvStep
<1>3. ASSUME [Next]_vars, ctx' = ctx, ctx.covered > 0,
             IsCovered(file', ctx.start_time, ctx.covered)
      PROVE  FollowsScan(file', ctx)
  <2>1. Grows(file, file')
    BY <1>0, <1>3, FileGrows
  <2>2. \A k \in 0..ctx.covered - 1 : /\ Line(file, k) = Line(file', k)
                                      /\ Indexable(file, k) <=> Indexable(file', k)
    BY <1>0, <2>1 DEF Grows, SameLines, Indexable
  <2>3. IsCovered(file, ctx.start_time, ctx.covered)
    <3>1. HeadersAreShort(file, ctx.covered)
      BY <1>3, <2>2 DEF IsCovered, HeadersAreShort
    <3>2. Leads(file, ctx.start_time, BucketOf(ctx.start_time), ctx.covered)
      BY <1>0, <1>3, <2>2, CrowdSame DEF IsCovered, Leads
    <3> QED BY <3>1, <3>2 DEF IsCovered
  <2>4. FollowsScan(file, ctx)
    BY <1>3, <2>3 DEF ScanInv
  <2> QED BY <1>0, <2>1, <2>4, GrownFollows
<1>4. ASSUME ctx'.covered > 0, IsCovered(file', ctx'.start_time, ctx'.covered)
      PROVE  FollowsScan(file', ctx')
  <2>1. ASSUME NEW q \in Queries, StartSearch(q) PROVE FollowsScan(file', ctx')
    <3>1. UNCHANGED vars /\ Started(q, ctx')
      BY <2>1, StartEffect
    <3>2. file' = file
      BY <3>1 DEF vars
    <3> QED BY <1>0, <1>4, <3>1, <3>2, StartFollows
  <2>2. CASE ReadLine
    <3>1. ctx.pc = "reading" /\ UNCHANGED vars /\ Read(file, ctx, ctx')
      BY <1>0, <2>2, ReadEffect
    <3>2. /\ file' = file /\ ctx'.covered = ctx.covered
          /\ ctx'.start_time = ctx.start_time
      BY <3>1 DEF vars, Read, Parsed
    <3>3. FollowsScan(file, ctx)
      BY <1>4, <3>2 DEF ScanInv
    <3> QED BY <1>0, <3>1, <3>2, <3>3, ReadFollows
  <2>3. CASE FlushSearch
    <3>1. ctx.pc = "flushing" /\ UNCHANGED vars /\ Flushed(file, ctx, ctx')
      BY <1>0, <2>3, FlushEffect
    <3>2. /\ file' = file /\ ctx'.covered = ctx.covered
          /\ ctx'.start_time = ctx.start_time
      BY <3>1 DEF vars, Flushed
    <3>3. FollowsScan(file, ctx)
      BY <1>4, <3>2 DEF ScanInv
    <3> QED BY <1>0, <3>1, <3>2, <3>3, FlushFollows
  <2>4. CASE Respond
    <3>1. ctx'.covered = 0
      BY <2>4 DEF Respond, NoSearch
    <3> QED BY <1>4, <3>1
  <2>5. CASE Next /\ UNCHANGED ctx
    BY <1>3, <1>4, <2>5
  <2>6. CASE UNCHANGED searchVars
    BY <1>3, <1>4, <2>6 DEF searchVars, vars
  <2> QED BY <2>1, <2>2, <2>3, <2>4, <2>5, <2>6 DEF SearchNext
<1> QED BY <1>1, <1>2, <1>4 DEF ScanInv

LEMMA ScanInvariant == SearchSpec => []ScanInv
<1>1. SearchInit => ScanInv
  <2> SUFFICES ASSUME SearchInit PROVE ScanInv
    OBVIOUS
  <2>1. IInv /\ TextInv
    BY InvInit, TextInit DEF SearchInit
  <2>2. ctx.covered = 0
    BY DEF SearchInit, NoSearch
  <2> QED BY <2>1, <2>2 DEF ScanInv
<1>2. ScanInv /\ [SearchNext]_searchVars => ScanInv'
  BY ScanStep
<1> QED BY <1>1, <1>2, PTL DEF SearchSpec

(* Where no header of the indexed lines is too long for the index, a search *)
(* by an index that its last line closes answers what a scan of those lines *)
(* would, up to the limit on the results, unless it begins within a bucket  *)
(* beyond the threshold: for all intervals, thresholds, batches, lines and  *)
(* files (find_index_pos and search_file_txt).                              *)
THEOREM SearchIsScanHolds ==
    SearchSpec => [](HeadersAreShort(file, ctx.covered) => SearchIsScan)
<1>1. ScanInv => (HeadersAreShort(file, ctx.covered) => SearchIsScan)
  <2> SUFFICES ASSUME ScanInv, HeadersAreShort(file, ctx.covered), ctx.pc = "done",
                      ctx.covered > 0,
                      LeadsToFirst(ctx.start_time, BucketOf(ctx.start_time), ctx.covered)
               PROVE  Upto(ctx.matched_lines, MaxResults)
                         = Upto(ScanRecords(ctx.covered, ctx.start_time, ctx.end_time),
                                MaxResults)
    BY DEF SearchIsScan
  <2>0. IsCovered(file, ctx.start_time, ctx.covered)
    BY WordsOfIndex DEF ScanInv, IsCovered
  <2>1. TakenUpto(file, ctx.covered, ctx.start_time, ctx.end_time, ctx.matched_lines, << >>,
                  ctx.covered)
    BY <2>0 DEF ScanInv, FollowsScan
  <2>2. ctx.matched_lines \in Seq(FullRecords)
    <3>1. ContextInv(file, ctx)
      BY DEF ScanInv, TextInv
    <3> QED BY <3>1, ContextTypes
  <2>3. Exec(file, ctx.matched_lines, << >>) = ctx.matched_lines
    BY <2>2, ExecNone
  <2>4. ScanRecords(ctx.covered, ctx.start_time, ctx.end_time)
           = Found(file, ctx.covered, ctx.start_time, ctx.end_time)[ctx.covered]
    BY ScanIsFound
  <2> QED BY <2>1, <2>3, <2>4 DEF TakenUpto
<1> QED BY <1>1, ScanInvariant, PTL
================================================================================
