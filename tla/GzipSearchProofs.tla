--------------------------- MODULE GzipSearchProofs ---------------------------
(***************************************************************************)
(* Proofs about GzipSearch for every interval, every set of queries, files *)
(* of any length and chunks that end anywhere: the typing of its scan and  *)
(* its search, that an answer has matching records of the file, that the   *)
(* index has the first line of each bucket where it is in the stream, and  *)
(* that an answer has the first of the records a scan of the file would    *)
(* answer, unless it begins within a bucket beyond the count threshold.    *)
(***************************************************************************)
EXTENDS GzipSearch, TextSearchProofs, FiniteSetTheorems

-----------------------------------------------------------------------------
(* The invariant, of any file.                                              *)

LongBefore(f, k) == {j \in 0..k - 1 : Line(f, j).long}

(* Where line k begins in the stream.                                       *)
Position(f, k) == 2 * k + (LongSize - 2) * Cardinality(LongBefore(f, k))

NoLong(f, n) == \A k \in 0..n - 1 : ~Line(f, k).long

(* An index of line numbers, with the positions of these lines.             *)
Placed(f, out) ==
    [i \in 1..Len(out) |-> [timestamp |-> out[i].timestamp, offset |-> Position(f, out[i].offset)]]

Scans == [pc: {"reading", "indexed"}, total: Nat, from: Nat, outputs: Seq(TimeIndexes),
          bucket: Nat, since: Nat, skipped: Nat, last: -1..MaxLines, stuck: BOOLEAN]

(* The loop is at line n, which has no timestamp, and ends there again.     *)
GaveUp(f, n, s) ==
    n < Len(f) /\ s.outputs = << >> /\ Line(f, n).ts = 0 /\ s.skipped >= MaxSkipped

LastTimed(f, n, k) ==
    k \in 0..n - 1 /\ Line(f, k).ts # 0 /\ \A j \in k + 1..n - 1 : Line(f, j).ts = 0

OffsetsUnder(out, n) == \A i \in DOMAIN out : out[i].offset < n

(* The first n lines were scanned as those of a text file are.              *)
ScannedTo(f, n, s, out) ==
    /\ s.outputs = Placed(f, out) /\ Scanned(f, out, n) /\ OffsetsUnder(out, n)
    /\ out = << >> => s.bucket = 0 /\ \A k \in 0..n - 1 : ~Indexable(f, k)
    /\ out # << >> => /\ s.bucket = Final(out).timestamp /\ LastTimed(f, n, s.last)
                      /\ s.since + 1 <= Cardinality(Crowd(f, s.bucket, n))

Progress(f, n, s) == \E out \in Seq(TimeIndexes) : ScannedTo(f, n, s, out)

(* The entries are at positions of lines, whatever their number.            *)
Located(f, n, s) ==
    /\ \A i \in DOMAIN s.outputs : \E k \in 0..n - 1 : s.outputs[i].offset = Position(f, k)
    /\ s.outputs # << >> => s.last \in 0..n - 1

Reading(f, n, s) ==
    /\ s.from = Position(f, n) /\ NoLong(f, n) /\ Located(f, n, s)
    /\ \/ GaveUp(f, n, s)
       \/ Progress(f, n, s) /\ (n = Len(f) \/ s.total < Position(f, n + 1))

(* The index of the first n lines, which are all or end at a long one.      *)
IndexOf(f, idx, n, out) ==
    /\ NoLong(f, n) /\ Scanned(f, out, n) /\ OffsetsUnder(out, n) /\ out # << >>
    /\ \/ n < Len(f) /\ Line(f, n).long /\ idx = Placed(f, out)
       \/ n = Len(f) /\ \E k \in 0..n - 1 :
             /\ LastTimed(f, n, k)
             /\ idx = Append(Placed(f, out), [timestamp |-> Line(f, k).ts,
                                              offset |-> Position(f, k)])

IsIndex(f, idx) ==
    idx # << >> => \E n \in 1..Len(f), out \in Seq(TimeIndexes) : IndexOf(f, idx, n, out)

ScanOK(f, s) ==
    /\ s \in Scans /\ s.total <= Position(f, Len(f)) /\ s.from <= s.total
    /\ s.pc = "reading" => \E n \in 0..Len(f) : Reading(f, n, s)
    /\ s.pc = "indexed" => Located(f, Len(f), s) /\ IsIndex(f, s.outputs)

Streams == [pc: {"none", "skipping", "reading"}, total: Nat, from: Nat, start: Nat, end: Nat,
            lines: Seq(0..MaxLines)]

(* A search that begins at s is led to the first line of its bucket.        *)
Sees(f, s) == Leads(f, s, BucketOf(s), Len(f))

(* There are enough results.                                                *)
Full(f, c) ==
    /\ Len(c.matched_lines) >= MaxResults
    /\ AreRecords(f, c.matched_lines, c.start_time, c.end_time)
    /\ Sees(f, c.start_time) =>
          TakenUpto(f, Len(f), c.start_time, c.end_time, c.matched_lines, << >>, Len(f))

(* The lines before p were parsed.                                          *)
CaughtUp(f, c, p) ==
    /\ Answering(f, c.start_time, c.end_time, p, c.tmp_line, c.log_lines, c.matched_lines)
    /\ Sees(f, c.start_time) =>
          TakenUpto(f, Len(f), c.start_time, c.end_time, c.matched_lines, c.log_lines,
                    p - Len(c.tmp_line))

AtLine(f, c, p) == Full(f, c) \/ CaughtUp(f, c, p)

FirstOfScan(f, M, s, e) ==
    LET got == Upto(M, MaxResults)
        all == Found(f, Len(f), s, e)[Len(f)]
    IN /\ Len(got) <= Len(all)
       /\ \A i \in DOMAIN got : i < Len(got) => got[i] = all[i]
       /\ got # << >> => IsPrefix(Last(got), all[Len(got)])

StreamOK(f, st) ==
    /\ st \in Streams /\ st.total <= Position(f, Len(f))
    /\ st.pc = "skipping" => \E a \in 0..Len(f) : st.start = Position(f, a)
    /\ st.pc = "reading" => /\ st.start <= st.from /\ st.from <= st.total
                            /\ \E b \in 0..Len(f) : st.from = Position(f, b)

(* The search between the chunks and in the lines of one.                   *)
Follows(f, c, st) ==
    /\ c.pc = "idle" => c.matched_lines = << >>
    /\ c.pc = "reading" => st.pc # "none"
    /\ c.pc = "reading" /\ st.pc = "skipping" =>
          /\ st.lines = << >> /\ c.matched_lines = << >>
          /\ \E a \in 0..Len(f) : st.start = Position(f, a) /\ CaughtUp(f, c, a)
    /\ c.pc = "reading" /\ st.pc = "reading" =>
          \E b \in 0..Len(f), p \in 0..Len(f) :
              p <= b /\ st.from = Position(f, b) /\ st.lines = Span(p, b) /\ AtLine(f, c, p)
    /\ c.pc = "flushing" => \E p \in 0..Len(f) : AtLine(f, c, p)
    /\ c.pc = "done" => /\ AreRecords(f, c.matched_lines, c.start_time, c.end_time)
                        /\ Sees(f, c.start_time) =>
                              FirstOfScan(f, c.matched_lines, c.start_time, c.end_time)

ContextOK(c) ==
    /\ c \in Contexts /\ c.covered = 0
    /\ Len(c.log_lines) <= MaxBatch /\ (c.pc = "reading" => Len(c.log_lines) < MaxBatch)

PackedInv ==
    /\ file \in Seq(Lines) /\ Len(file) <= MaxLines /\ TimesAreOrdered(file)
    /\ index = << >> /\ indexed = 0 /\ builder = Idle
    /\ ScanOK(file, scan)
    /\ ContextOK(ctx) /\ StreamOK(file, stream) /\ Follows(file, ctx, stream)

GzipInv ==
    /\ packed \in BOOLEAN
    /\ packed => PackedInv
    /\ ~packed => TextInv /\ scan = Unscanned /\ stream = NoStream

-----------------------------------------------------------------------------
(* Positions.                                                               *)

(* The first naturals of which each is in a set when the one before is.     *)
LEMMA CountsUpto ==
    ASSUME NEW n \in Nat, NEW G, 0 \in G, \A k \in 0..n - 1 : k \in G => k + 1 \in G
    PROVE  0..n \subseteq G
<1> DEFINE T == (0..n) \ G
<1> SUFFICES ASSUME T # {} PROVE FALSE
  OBVIOUS
<1>1. PICK k \in T : \A l \in T : k <= l
  <2>1. T \subseteq Nat
    OBVIOUS
  <2> QED BY <2>1, SmallestExists
<1>2. k # 0 /\ k - 1 \in 0..n - 1 /\ k - 1 \notin T /\ k - 1 \in 0..n /\ (k - 1) + 1 = k
  BY <1>1
<1> DEFINE j == k - 1
<1>3. j \in 0..n - 1 /\ j \in G /\ j + 1 = k
  BY <1>2
<1> HIDE DEF j
<1>4. j + 1 \in G
  BY <1>3
<1> QED BY <1>3, <1>4

LEMMA SizeFacts ==
    BufferSize \in Nat /\ BufferSize >= 1 /\ MaxCarry \in Nat /\ MaxCarry > BufferSize
    /\ LongSize \in Nat /\ LongSize > MaxCarry /\ LongSize >= 3
  BY GzipAssumption

LEMMA LongBeforeFacts ==
    ASSUME NEW f, NEW k \in Nat
    PROVE  /\ IsFiniteSet(LongBefore(f, k)) /\ Cardinality(LongBefore(f, k)) \in Nat
           /\ LongBefore(f, k + 1)
                 = IF Line(f, k).long THEN LongBefore(f, k) \cup {k} ELSE LongBefore(f, k)
           /\ k \notin LongBefore(f, k)
<1>1. IsFiniteSet(0..k - 1)
  BY FS_Interval
<1>2. LongBefore(f, k) \in SUBSET (0..k - 1)
  BY DEF LongBefore
<1>3. IsFiniteSet(LongBefore(f, k))
  BY <1>1, <1>2, FS_Subset
<1>4. Cardinality(LongBefore(f, k)) \in Nat
  BY <1>3, FS_CardinalityType
<1>5. \A j : j \in 0..(k + 1) - 1 <=> j \in 0..k - 1 \/ j = k
  OBVIOUS
<1>6. LongBefore(f, k + 1)
          = IF Line(f, k).long THEN LongBefore(f, k) \cup {k} ELSE LongBefore(f, k)
  BY <1>5 DEF LongBefore
<1>7. k \notin LongBefore(f, k)
  BY <1>2
<1> QED BY <1>3, <1>4, <1>6, <1>7

(* A line has two units, one beyond the limit more than may be carried.     *)
LEMMA PositionStep ==
    ASSUME NEW f, NEW k \in Nat
    PROVE  /\ Position(f, k) \in Nat
           /\ Position(f, k + 1) = Position(f, k) + (IF Line(f, k).long THEN LongSize ELSE 2)
<1> DEFINE c == Cardinality(LongBefore(f, k))
           d == Cardinality(LongBefore(f, k + 1))
<1>1. c \in Nat /\ d = IF Line(f, k).long THEN c + 1 ELSE c
  <2>1. /\ IsFiniteSet(LongBefore(f, k)) /\ c \in Nat /\ k \notin LongBefore(f, k)
        /\ LongBefore(f, k + 1)
              = IF Line(f, k).long THEN LongBefore(f, k) \cup {k} ELSE LongBefore(f, k)
    BY LongBeforeFacts
  <2>2. Cardinality(LongBefore(f, k) \cup {k}) = c + 1
    BY <2>1, FS_AddElement
  <2> QED BY <2>1, <2>2
<1>2. Position(f, k) = 2 * k + (LongSize - 2) * c
      /\ Position(f, k + 1) = 2 * (k + 1) + (LongSize - 2) * d
  BY DEF Position
<1> HIDE DEF c, d
<1>3. LongSize - 2 \in Nat
  BY SizeFacts
<1>4. ASSUME NEW x \in Nat PROVE x * c \in Nat /\ x * (c + 1) = x * c + x
  BY <1>1, <1>4
<1>5. (LongSize - 2) * c \in Nat
      /\ (LongSize - 2) * (c + 1) = (LongSize - 2) * c + (LongSize - 2)
  BY <1>3, <1>4
<1> DEFINE w == (LongSize - 2) * c
<1>6. w \in Nat /\ (LongSize - 2) * (c + 1) = w + (LongSize - 2)
      /\ Position(f, k) = 2 * k + w
  BY <1>2, <1>5
<1> HIDE DEF w
<1>7. Position(f, k) \in Nat
  BY <1>6
<1>8. CASE Line(f, k).long
  <2>1. Position(f, k + 1) = 2 * (k + 1) + (w + (LongSize - 2))
    BY <1>1, <1>2, <1>6, <1>8
  <2>2. Position(f, k + 1) = Position(f, k) + LongSize
    BY <1>6, <2>1, SizeFacts
  <2> QED BY <1>7, <1>8, <2>2
<1>9. CASE ~Line(f, k).long
  <2>1. Position(f, k + 1) = 2 * (k + 1) + w
    BY <1>1, <1>2, <1>9 DEF w
  <2>2. Position(f, k + 1) = Position(f, k) + 2
    BY <1>6, <2>1
  <2> QED BY <1>7, <1>9, <2>2
<1> QED BY <1>8, <1>9

LEMMA PositionZero ==
    ASSUME NEW f
    PROVE  Position(f, 0) = 0
<1>1. LongBefore(f, 0) = {}
  BY DEF LongBefore
<1>2. Cardinality(LongBefore(f, 0)) = 0
  BY <1>1, FS_EmptySet
<1> QED BY <1>2, SizeFacts DEF Position

LEMMA PositionGrows ==
    ASSUME NEW f, NEW a \in Nat, NEW b \in Nat, a <= b
    PROVE  Position(f, a) + 2 * (b - a) <= Position(f, b)
<1> DEFINE n == b - a
           G == {i \in 0..n : Position(f, a) + 2 * i <= Position(f, a + i)}
<1>1. n \in Nat
  OBVIOUS
<1>2. 0 \in G
  <2>1. Position(f, a) \in Nat
    BY PositionStep
  <2> QED BY <2>1
<1>3. ASSUME NEW i \in 0..n - 1, i \in G PROVE i + 1 \in G
  <2> DEFINE k == a + i
  <2>1. k \in Nat /\ a + (i + 1) = k + 1
    BY <1>1
  <2>2. Position(f, a) + 2 * i <= Position(f, k)
    BY <1>3
  <2> HIDE DEF k
  <2>3. Position(f, k) \in Nat /\ Position(f, a) \in Nat
        /\ (Position(f, k + 1) = Position(f, k) + LongSize
            \/ Position(f, k + 1) = Position(f, k) + 2)
    BY <2>1, PositionStep
  <2>4. Position(f, k) + 2 <= Position(f, k + 1)
    BY <2>3, SizeFacts
  <2>5. Position(f, a) + 2 * (i + 1) <= Position(f, k + 1)
    <3>1. Position(f, k + 1) \in Nat
      BY <2>1, PositionStep
    <3> QED BY <1>1, <2>2, <2>3, <2>4, <3>1
  <2> QED BY <1>1, <2>1, <2>5
<1> HIDE DEF G
<1>4. n \in G
  <2>1. 0..n \subseteq G
    BY <1>1, <1>2, <1>3, CountsUpto
  <2> QED BY <1>1, <2>1
<1>5. Position(f, a) + 2 * n <= Position(f, a + n)
  BY <1>4 DEF G
<1> QED BY <1>5

LEMMA PositionOrder ==
    ASSUME NEW f, NEW a \in Nat, NEW b \in Nat
    PROVE  /\ Position(f, a) \in Nat /\ Position(f, b) \in Nat
           /\ a <= b <=> Position(f, a) <= Position(f, b)
           /\ a < b => Position(f, a) + 2 <= Position(f, b)
           /\ Position(f, a) = Position(f, b) => a = b
<1>1. Position(f, a) \in Nat /\ Position(f, b) \in Nat
  BY PositionStep
<1>2. a <= b => Position(f, a) + 2 * (b - a) <= Position(f, b)
  BY PositionGrows
<1>3. b <= a => Position(f, b) + 2 * (a - b) <= Position(f, a)
  BY PositionGrows
<1> QED BY <1>1, <1>2, <1>3

-----------------------------------------------------------------------------
(* Sets in ascending order, and the lines of a chunk.                       *)

Increasing(q, m) == \A i, j \in 1..m : i < j => q[i] < q[j]
Reaches(q, m, S) == \A x \in S : \E i \in 1..m : q[i] = x

LEMMA IncreasingInjects ==
    ASSUME NEW S, S \subseteq Nat, NEW m \in Nat, NEW q \in [1..m -> S], Increasing(q, m)
    PROVE  q \in Injection(1..m, S)
<1>1. ASSUME NEW a \in 1..m, NEW b \in 1..m, q[a] = q[b] PROVE a = b
  <2>1. q[a] \in Nat /\ q[b] \in Nat
    OBVIOUS
  <2>2. ~(a < b) /\ ~(b < a)
    BY <1>1, <2>1 DEF Increasing
  <2> QED BY <2>2
<1> QED BY <1>1 DEF Injection, IsInjective

LEMMA AscendingIsUnique ==
    ASSUME NEW S, S \subseteq Nat, NEW m \in Nat, NEW q \in [1..m -> S], NEW h \in [1..m -> S],
           Increasing(q, m), Increasing(h, m), Reaches(q, m, S), Reaches(h, m, S)
    PROVE  q = h
<1> DEFINE T == {i \in 1..m : q[i] # h[i]}
<1>1. SUFFICES ASSUME T # {} PROVE FALSE
  <2>1. ASSUME T = {} PROVE \A i \in 1..m : q[i] = h[i]
    BY <2>1
  <2>2. ASSUME \A i \in 1..m : q[i] = h[i] PROVE q = h
    BY <2>2
  <2> QED BY <2>1, <2>2
<1>2. PICK i \in T : \A j \in T : i <= j
  <2>1. T \subseteq Nat
    OBVIOUS
  <2> QED BY <1>1, <2>1, SmallestExists
<1>3. i \in 1..m /\ q[i] \in S /\ h[i] \in S /\ q[i] # h[i] /\ q[i] \in Nat /\ h[i] \in Nat
  OBVIOUS
<1>4. \A j \in 1..m : j < i => q[j] = h[j]
  BY <1>2, <1>3
<1>5. CASE q[i] < h[i]
  <2>1. PICK j \in 1..m : h[j] = q[i]
    BY <1>3 DEF Reaches
  <2>2. ~(j < i)
    BY <1>3, <1>4, <2>1 DEF Increasing
  <2>3. ~(i < j)
    BY <1>3, <1>5, <2>1 DEF Increasing
  <2> QED BY <1>3, <2>1, <2>2, <2>3
<1>6. CASE h[i] < q[i]
  <2>1. PICK j \in 1..m : q[j] = h[i]
    BY <1>3 DEF Reaches
  <2>2. ~(j < i)
    BY <1>3, <1>4, <2>1 DEF Increasing
  <2>3. ~(i < j)
    BY <1>3, <1>6, <2>1 DEF Increasing
  <2> QED BY <1>3, <2>1, <2>2, <2>3
<1> QED BY <1>3, <1>5, <1>6

LEMMA AscendingIs ==
    ASSUME NEW S, S \subseteq Nat, NEW m \in Nat, NEW q \in [1..m -> S],
           Increasing(q, m), Reaches(q, m, S)
    PROVE  Cardinality(S) = m /\ Ascending(S) = q
<1>1. q \in Injection(1..m, S)
  BY IncreasingInjects
<1>2. q \in Surjection(1..m, S)
  BY DEF Surjection, Reaches
<1>3. IsFiniteSet(1..m) /\ Cardinality(1..m) = m
  <2>1. Cardinality(1..m) = IF 1 > m THEN 0 ELSE m - 1 + 1
    BY FS_Interval
  <2> QED BY <2>1, FS_Interval
<1>4. IsFiniteSet(S) /\ Cardinality(S) = m
  <2>1. ExistsBijection(1..m, S)
    BY <1>1, <1>2 DEF ExistsBijection, Bijection
  <2> QED BY <1>3, <2>1, FS_Bijection
<1> DEFINE Orders(h) == \A i, j \in DOMAIN h : i < j => h[i] < h[j]
<1>5. ASSUME NEW h \in [1..m -> S], Orders(h) PROVE h = q
  <2>1. Increasing(h, m)
    BY <1>5 DEF Increasing
  <2>2. h \in Injection(1..m, S)
    BY <2>1, IncreasingInjects
  <2>3. h \in Surjection(1..m, S)
    BY <1>3, <1>4, <2>2, FS_Injection
  <2>4. Reaches(h, m, S)
    BY <2>3 DEF Surjection, Reaches
  <2> QED BY <2>1, <2>4, AscendingIsUnique
<1>6. Orders(q)
  BY DEF Increasing
<1>7. Ascending(S) = CHOOSE h \in [1..m -> S] : Orders(h)
  BY <1>4 DEF Ascending
<1> HIDE DEF Orders
<1> QED BY <1>4, <1>5, <1>6, <1>7

LEMMA AscendingInterval ==
    ASSUME NEW a \in Nat, NEW b \in Nat, a <= b
    PROVE  Cardinality(a..b - 1) = b - a /\ Ascending(a..b - 1) = Span(a, b)
<1> DEFINE S == a..b - 1
           m == b - a
<1>1. m \in Nat /\ S \subseteq Nat
  OBVIOUS
<1>2. Span(a, b) \in [1..m -> S]
  BY DEF Span
<1>3. Increasing(Span(a, b), m)
  BY DEF Span, Increasing
<1>4. ASSUME NEW x \in S PROVE \E i \in 1..m : Span(a, b)[i] = x
  <2>1. x - a + 1 \in 1..m
    OBVIOUS
  <2>2. Span(a, b)[x - a + 1] = x
    BY <2>1 DEF Span
  <2> QED BY <2>1, <2>2
<1>5. Reaches(Span(a, b), m, S)
  BY <1>4 DEF Reaches
<1> HIDE DEF S, m
<1>6. Cardinality(S) = m /\ Ascending(S) = Span(a, b)
  BY <1>1, <1>2, <1>3, <1>5, AscendingIs
<1> QED BY <1>6 DEF S, m

(* A chunk to a position has the lines up to line b.                        *)
Cut(f, a, b, to) ==
    b \in a..Len(f) /\ Position(f, b) <= to /\ (b = Len(f) \/ to < Position(f, b + 1))

LEMMA CutExists ==
    ASSUME NEW f, Len(f) \in Nat, NEW a \in 0..Len(f), NEW to \in Nat, Position(f, a) <= to
    PROVE  \E b \in 0..Len(f) : Cut(f, a, b, to)
<1> DEFINE S == {k \in 0..Len(f) : a <= k /\ Position(f, k) <= to}
<1>1. S \subseteq 0..Len(f) /\ S # {}
  <2>1. a \in S
    OBVIOUS
  <2> QED BY <2>1
<1>2. PICK b \in S : \A j \in S : j <= b
  BY <1>1, LargestExists
<1>3. b \in 0..Len(f) /\ a <= b /\ Position(f, b) <= to
  OBVIOUS
<1>4. b = Len(f) \/ to < Position(f, b + 1)
  <2> SUFFICES ASSUME b # Len(f), ~(to < Position(f, b + 1)) PROVE FALSE
    OBVIOUS
  <2>1. b + 1 \in 0..Len(f) /\ Position(f, b + 1) \in Nat
    <3>1. b + 1 \in 0..Len(f) /\ b + 1 \in Nat
      BY <1>3
    <3> QED BY <3>1, PositionStep
  <2>2. b + 1 \in S
    BY <1>3, <2>1
  <2> QED BY <1>2, <1>3, <2>2
<1>5. b \in a..Len(f)
  BY <1>3
<1> QED BY <1>3, <1>4, <1>5 DEF Cut

LEMMA StartIsPosition ==
    \A k : Start(k) = Position(file, k)
  BY DEF Start, Position, LongBefore, Line, LineAt

LEMMA CutLines ==
    ASSUME Len(file) \in Nat, NEW a \in 0..Len(file), NEW to \in Nat, NEW b, Cut(file, a, b, to)
    PROVE  LinesBetween(Position(file, a), to) = Span(a, b)
<1> DEFINE P(k) == Position(file, k)
<1>1. b \in a..Len(file) /\ P(b) <= to /\ (b = Len(file) \/ to < P(b + 1))
  BY DEF Cut
<1>2. ASSUME NEW k \in 0..Len(file) - 1
      PROVE  P(a) <= P(k) /\ P(k + 1) <= to <=> k \in a..b - 1
  <2> DEFINE j == k + 1
             d == b + 1
  <2>1. j \in Nat /\ k \in Nat /\ a \in Nat /\ b \in Nat /\ d \in Nat
    BY <1>1
  <2>2. /\ P(a) <= P(k) <=> a <= k
        /\ P(j) <= P(b) <=> j <= b
        /\ P(d) <= P(j) <=> d <= j
        /\ P(b) \in Nat /\ P(d) \in Nat /\ P(j) \in Nat
    BY <2>1, PositionOrder
  <2>3. j <= Len(file) /\ (d <= j \/ j <= b)
    BY <1>1
  <2>4. b = Len(file) \/ to < P(d)
    BY <1>1
  <2>5. P(j) <= to <=> j <= b
    <3> HIDE DEF P, j, d
    <3>1. ASSUME j <= b PROVE P(j) <= to
      BY <1>1, <2>2, <3>1
    <3>2. ASSUME P(j) <= to PROVE j <= b
      BY <1>1, <2>1, <2>2, <2>3, <2>4, <3>2
    <3> QED BY <3>1, <3>2
  <2> QED BY <1>1, <2>2, <2>5
<1>3. {k \in 0..Len(file) - 1 : P(a) <= Start(k) /\ Start(k + 1) <= to} = a..b - 1
  <2>1. a..b - 1 \subseteq 0..Len(file) - 1
    BY <1>1
  <2>2. \A k : Start(k) = P(k)
    BY StartIsPosition
  <2> HIDE DEF P
  <2> QED BY <1>2, <2>1, <2>2
<1>4. LinesBetween(P(a), to) = Ascending(a..b - 1)
  <2> HIDE DEF P
  <2> QED BY <1>3 DEF LinesBetween
<1>5. Ascending(a..b - 1) = Span(a, b)
  BY <1>1, AscendingInterval
<1> QED BY <1>4, <1>5

LEMMA SpanLength ==
    ASSUME NEW a \in Nat, NEW b \in Nat, a <= b
    PROVE  /\ Span(a, b) \in Seq(a..b - 1) /\ Len(Span(a, b)) = b - a
           /\ \A i \in 1..b - a : Span(a, b)[i] = a + i - 1
           /\ Span(a, b) = << >> <=> a = b
<1>1. CASE a < b
  BY <1>1, SpanFacts
<1>2. CASE a = b
  <2>1. Span(a, b) = << >>
    BY <1>2 DEF Span
  <2> QED BY <1>2, <2>1
<1> QED BY <1>1, <1>2

LEMMA CutRest ==
    ASSUME Len(file) \in Nat, NEW a \in 0..Len(file), NEW to \in Nat, NEW b, Cut(file, a, b, to)
    PROVE  RestFrom(Position(file, a), to) = Position(file, b)
<1>1. LinesBetween(Position(file, a), to) = Span(a, b)
  BY CutLines
<1>2. b \in Nat /\ a \in Nat /\ a <= b
  BY DEF Cut
<1>3. CASE a = b
  <2>1. Span(a, b) = << >>
    BY <1>2, <1>3, SpanLength
  <2> QED BY <1>1, <1>3, <2>1 DEF RestFrom
<1>4. CASE a # b
  <2>1. /\ Span(a, b) # << >> /\ Len(Span(a, b)) = b - a /\ b - a \in 1..b - a
        /\ Span(a, b)[b - a] = a + (b - a) - 1
    BY <1>2, <1>4, SpanLength
  <2>2. Last(Span(a, b)) + 1 = b
    BY <1>2, <2>1 DEF Last
  <2>3. RestFrom(Position(file, a), to) = Start(b)
    BY <1>1, <2>1, <2>2 DEF RestFrom
  <2> QED BY <2>3, StartIsPosition
<1> QED BY <1>3, <1>4

-----------------------------------------------------------------------------
(* A line of the scan.                                                      *)

(* What the loop over the lines knows of the index stays.                   *)
SameEntries(s, d) ==
    d.outputs = s.outputs /\ d.bucket = s.bucket /\ d.since = s.since /\ d.last = s.last

StartsEntry(s, ts) ==
    \/ s.bucket = 0
    \/ BucketOf(ts) >= s.bucket + IntervalSeconds
    \/ s.since + 1 >= CountThreshold

Entry(ts, offset) == [timestamp |-> BucketOf(ts), offset |-> offset]

LineEffect(f, k, offset, s, d) ==
    \/ s.stuck /\ d = s
    \/ /\ ~s.stuck /\ d.stuck /\ Line(f, k).ts = 0 /\ s.outputs = << >>
       /\ s.skipped >= MaxSkipped /\ d.skipped = s.skipped + 1
       /\ d.from = Position(f, k) /\ SameEntries(s, d)
    \/ /\ ~s.stuck /\ ~d.stuck /\ Line(f, k).ts = 0
       /\ ~(s.skipped >= MaxSkipped /\ s.outputs = << >>) /\ d.skipped = s.skipped + 1
       /\ d.from = s.from /\ SameEntries(s, d)
    \/ /\ ~s.stuck /\ ~d.stuck /\ Line(f, k).ts # 0 /\ StartsEntry(s, Line(f, k).ts)
       /\ d.skipped = s.skipped /\ d.from = s.from
       /\ d.outputs = Append(s.outputs, Entry(Line(f, k).ts, offset))
       /\ d.bucket = BucketOf(Line(f, k).ts) /\ d.since = 0 /\ d.last = k
    \/ /\ ~s.stuck /\ ~d.stuck /\ Line(f, k).ts # 0 /\ ~StartsEntry(s, Line(f, k).ts)
       /\ d.skipped = s.skipped /\ d.from = s.from
       /\ d.outputs = s.outputs /\ d.bucket = s.bucket
       /\ d.since = s.since + 1 /\ d.last = k

LEMMA ScanTypes ==
    ASSUME NEW s \in Scans, NEW j \in Nat, NEW p \in Nat, NEW k \in -1..MaxLines
    PROVE  /\ [s EXCEPT !.skipped = j] \in Scans
           /\ [s EXCEPT !.skipped = j, !.stuck = TRUE, !.from = p] \in Scans
           /\ [s EXCEPT !.last = k, !.since = j] \in Scans
           /\ [s EXCEPT !.from = p, !.stuck = FALSE] \in Scans
           /\ [s EXCEPT !.total = p] \in Scans
           /\ [s EXCEPT !.pc = "indexed"] \in Scans
<1>1. [s EXCEPT !.skipped = j] \in Scans
  BY DEF Scans
<1>2. [s EXCEPT !.skipped = j, !.stuck = TRUE, !.from = p] \in Scans
  BY DEF Scans
<1>3. [s EXCEPT !.last = k, !.since = j] \in Scans
  BY DEF Scans
<1>4. [s EXCEPT !.from = p, !.stuck = FALSE] \in Scans
  BY DEF Scans
<1>5. [s EXCEPT !.total = p] \in Scans
  BY DEF Scans
<1>6. [s EXCEPT !.pc = "indexed"] \in Scans
  BY DEF Scans
<1> QED BY <1>1, <1>2, <1>3, <1>4, <1>5, <1>6

LEMMA IndexLineEffect ==
    ASSUME file \in Seq(Lines), Len(file) <= MaxLines, NEW s \in Scans, NEW k \in 0..Len(file) - 1,
           NEW offset \in Nat
    PROVE  /\ IndexLine(s, k, offset) \in Scans
           /\ LineEffect(file, k, offset, s, IndexLine(s, k, offset))
<1> DEFINE d == IndexLine(s, k, offset)
           ts == Line(file, k).ts
           timed == [s EXCEPT !.last = k, !.since = @ + 1]
<1>1. ts \in Nat /\ BucketOf(ts) \in Nat
  <2>1. k \in Nat /\ k < Len(file)
    OBVIOUS
  <2>2. ts \in Nat
    BY <2>1, LineFacts
  <2> QED BY <2>2, BucketBounds
<1>2. LineAt(k).ts = ts /\ (Timed(k) <=> ts # 0) /\ Start(k) = Position(file, k)
  BY StartIsPosition DEF Timed, LineAt, Line
<1>3. Position(file, k) \in Nat
  BY PositionStep
<1>4. k \in -1..MaxLines /\ MaxLines \in Nat /\ MaxSkipped \in Nat
  BY BuilderAssumption
<1>5. /\ s.skipped \in Nat /\ s.since \in Nat /\ s.outputs \in Seq(TimeIndexes)
      /\ s.bucket \in Nat /\ s.from \in Nat /\ s.stuck \in BOOLEAN /\ s.last \in -1..MaxLines
      /\ s.pc \in {"reading", "indexed"} /\ s.total \in Nat
  BY DEF Scans
<1>6. StartsEntry(s, ts) <=> \/ s.bucket = 0
                             \/ BucketOf(ts) >= s.bucket + IntervalSeconds
                             \/ timed.since >= CountThreshold
  BY DEF StartsEntry, Scans
<1>7. s.skipped + 1 > MaxSkipped <=> s.skipped >= MaxSkipped
  BY <1>4, <1>5
<1>8. d = IF s.stuck THEN s
          ELSE IF ts = 0
          THEN IF s.skipped >= MaxSkipped /\ s.outputs = << >>
               THEN [s EXCEPT !.skipped = @ + 1, !.stuck = TRUE, !.from = Position(file, k)]
               ELSE [s EXCEPT !.skipped = @ + 1]
          ELSE IF StartsEntry(s, ts)
          THEN [timed EXCEPT !.outputs = Append(@, Entry(ts, offset)), !.bucket = BucketOf(ts),
                             !.since = 0]
          ELSE timed
  BY <1>2, <1>6, <1>7 DEF IndexLine, Entry
<1> HIDE DEF d, ts
<1>9. CASE s.stuck
  <2>1. d = s
    BY <1>8, <1>9
  <2> QED BY <1>9, <2>1 DEF LineEffect, d
<1>10. CASE ~s.stuck /\ ts = 0 /\ s.skipped >= MaxSkipped /\ s.outputs = << >>
  <2>1. d = [s EXCEPT !.skipped = @ + 1, !.stuck = TRUE, !.from = Position(file, k)]
    BY <1>8, <1>10
  <2>2. d \in Scans
    <3>1. s.skipped + 1 \in Nat /\ Position(file, k) \in Nat
      BY <1>3, <1>5
    <3>2. [s EXCEPT !.skipped = s.skipped + 1, !.stuck = TRUE, !.from = Position(file, k)]
              \in Scans
      BY <1>4, <3>1, ScanTypes
    <3> QED BY <2>1, <3>2
  <2>3. /\ d.stuck /\ d.skipped = s.skipped + 1 /\ d.from = Position(file, k)
        /\ SameEntries(s, d)
    BY <2>1 DEF Scans, SameEntries
  <2> QED BY <1>10, <2>2, <2>3 DEF LineEffect, d, ts
<1>11. CASE ~s.stuck /\ ts = 0 /\ ~(s.skipped >= MaxSkipped /\ s.outputs = << >>)
  <2>1. d = [s EXCEPT !.skipped = @ + 1]
    BY <1>8, <1>11
  <2>2. d \in Scans
    <3>1. s.skipped + 1 \in Nat
      BY <1>5
    <3>2. [s EXCEPT !.skipped = s.skipped + 1] \in Scans
      BY <1>4, <3>1, ScanTypes
    <3> QED BY <2>1, <3>2
  <2>3. d.stuck = s.stuck /\ d.skipped = s.skipped + 1 /\ d.from = s.from /\ SameEntries(s, d)
    BY <2>1 DEF Scans, SameEntries
  <2> QED BY <1>11, <2>2, <2>3 DEF LineEffect, d, ts
<1>12. CASE ~s.stuck /\ ts # 0 /\ StartsEntry(s, ts)
  <2> DEFINE o == Append(s.outputs, Entry(ts, offset))
  <2>1. d = [timed EXCEPT !.outputs = Append(@, Entry(ts, offset)), !.bucket = BucketOf(ts),
                          !.since = 0]
    BY <1>8, <1>12
  <2>2. d = [s EXCEPT !.last = k, !.since = 0, !.outputs = o, !.bucket = BucketOf(ts)]
    BY <2>1 DEF Scans
  <2>3. o \in Seq(TimeIndexes)
    <3>1. Entry(ts, offset) \in TimeIndexes
      BY <1>1 DEF Entry, TimeIndexes
    <3> QED BY <1>5, <3>1
  <2> HIDE DEF o
  <2>4. d \in Scans
    BY <1>1, <1>4, <1>5, <2>2, <2>3 DEF Scans
  <2>5. /\ d.stuck = s.stuck /\ d.skipped = s.skipped /\ d.from = s.from /\ d.outputs = o
        /\ d.bucket = BucketOf(ts) /\ d.since = 0 /\ d.last = k
    BY <2>2 DEF Scans
  <2> QED BY <1>12, <2>4, <2>5 DEF LineEffect, d, ts, o
<1>13. CASE ~s.stuck /\ ts # 0 /\ ~StartsEntry(s, ts)
  <2>1. d = [s EXCEPT !.last = k, !.since = @ + 1]
    BY <1>8, <1>13
  <2>2. d \in Scans
    <3>1. s.since + 1 \in Nat
      BY <1>5
    <3>2. [s EXCEPT !.last = k, !.since = s.since + 1] \in Scans
      BY <1>4, <3>1, ScanTypes
    <3> QED BY <2>1, <3>2
  <2>3. /\ d.stuck = s.stuck /\ d.skipped = s.skipped /\ d.from = s.from
        /\ d.outputs = s.outputs /\ d.bucket = s.bucket /\ d.since = s.since + 1 /\ d.last = k
    BY <2>1 DEF Scans
  <2> QED BY <1>13, <2>2, <2>3 DEF LineEffect, d, ts
<1> QED BY <1>9, <1>10, <1>11, <1>12, <1>13

LEMMA IndexLineKeepsPc ==
    ASSUME NEW s \in Scans, NEW k, NEW offset
    PROVE  IndexLine(s, k, offset).pc = s.pc
<1>1. CASE s.stuck
  BY <1>1 DEF IndexLine
<1>2. CASE ~s.stuck /\ ~Timed(k)
  BY <1>2 DEF IndexLine, Scans
<1>3. CASE ~s.stuck /\ Timed(k)
  BY <1>3 DEF IndexLine, Scans
<1> QED BY <1>1, <1>2, <1>3

(* The lines of a chunk, one after the other.                               *)
ChunkStart(f, b, s) == [s EXCEPT !.from = Position(f, b), !.stuck = FALSE]

ScansInTurn(t, f, a, b, s) ==
    /\ t \in [0..b - a -> Scans] /\ t[0] = ChunkStart(f, b, s)
    /\ \A i \in 1..b - a :
          /\ LineEffect(f, a + i - 1, Position(f, a + i - 1), t[i - 1], t[i])
          /\ t[i].pc = t[i - 1].pc

ChunkGives(t, a, b, s, n) == IndexChunk(s, n) = [t[b - a] EXCEPT !.total = s.total + n]

LEMMA IndexChunkInTurn ==
    ASSUME file \in Seq(Lines), Len(file) <= MaxLines, NEW s \in Scans, NEW a \in 0..Len(file),
           s.from = Position(file, a), NEW n \in Nat, Position(file, a) <= s.total,
           NEW b, Cut(file, a, b, s.total + n)
    PROVE  \E t : ScansInTurn(t, file, a, b, s) /\ ChunkGives(t, a, b, s, n)
<1> DEFINE N == b - a
           to == s.total + n
           first == ChunkStart(file, b, s)
           Next1(i, x) == IndexLine(x, a + i - 1, Position(file, a + i - 1))
           step == [p \in (1..N) \X Scans |-> Next1(p[1], p[2])]
<1>1. /\ Len(file) \in Nat /\ s.total \in Nat /\ to \in Nat /\ b \in 0..Len(file) /\ a \in Nat
      /\ a <= b /\ N \in Nat /\ b \in Nat
  BY DEF Scans, Cut
<1>2. ASSUME NEW i \in 1..N, NEW x \in Scans
      PROVE  /\ Next1(i, x) \in Scans /\ Next1(i, x).pc = x.pc
             /\ LineEffect(file, a + i - 1, Position(file, a + i - 1), x, Next1(i, x))
  <2> DEFINE k == a + i - 1
  <2>1. k \in 0..Len(file) - 1 /\ k \in Nat
    BY <1>1
  <2> HIDE DEF k
  <2>2. Position(file, k) \in Nat
    BY <2>1, PositionStep
  <2>3. /\ IndexLine(x, k, Position(file, k)) \in Scans
        /\ LineEffect(file, k, Position(file, k), x, IndexLine(x, k, Position(file, k)))
    BY <2>1, <2>2, IndexLineEffect
  <2>4. IndexLine(x, k, Position(file, k)).pc = x.pc
    BY IndexLineKeepsPc
  <2> QED BY <2>3, <2>4 DEF k
<1>3. first \in Scans
  <2>1. Position(file, b) \in Nat
    BY <1>1, PositionStep
  <2>2. NoLine \in -1..MaxLines
    BY BuilderAssumption DEF NoLine
  <2> QED BY <1>1, <2>1, <2>2, ScanTypes DEF ChunkStart
<1>4. step \in [(1..N) \X Scans -> Scans]
  BY <1>2
<1>5. \A i \in 1..N, x \in Scans : step[<<i, x>>] = Next1(i, x)
  OBVIOUS
<1>6. /\ LinesBetween(s.from, to) = Span(a, b) /\ RestFrom(s.from, to) = Position(file, b)
      /\ Len(Span(a, b)) = N /\ \A i \in 1..N : Span(a, b)[i] = a + i - 1
  <2>1. Cut(file, a, b, to)
    OBVIOUS
  <2>2. LinesBetween(Position(file, a), to) = Span(a, b)
        /\ RestFrom(Position(file, a), to) = Position(file, b)
    <3> HIDE DEF to
    <3> QED BY <1>1, <2>1, CutLines, CutRest
  <2>3. Len(Span(a, b)) = N /\ \A i \in 1..N : Span(a, b)[i] = a + i - 1
    BY <1>1, SpanLength
  <2> QED BY <2>2, <2>3
<1>7. \A i \in 1..N : s.total - (s.total - s.from) + (Start(a + i - 1) - s.from)
                          = Position(file, a + i - 1)
  <2> SUFFICES ASSUME NEW i \in 1..N
               PROVE  s.total - (s.total - s.from) + (Start(a + i - 1) - s.from)
                          = Position(file, a + i - 1)
    OBVIOUS
  <2>1. a + i - 1 \in Nat /\ s.from \in Nat
    BY <1>1 DEF Scans
  <2>2. Position(file, a + i - 1) \in Nat
    BY <2>1, PositionStep
  <2> QED BY <1>1, <2>1, <2>2, StartIsPosition
<1> HIDE DEF step, N, first, Next1, to
<1>8. PICK g \in [0..N -> Scans] : g[0] = first /\ \A k \in 1..N : g[k] = step[<<k, g[k - 1]>>]
  <2>1. Solvable(N, Scans, first, step)
    BY <1>1, <1>3, <1>4, RecursionExists
  <2> QED BY <2>1 DEF Solvable
<1> DEFINE Body(t) == [i \in 0..N |-> IF i = 0 THEN first ELSE Next1(i, t[i - 1])]
<1>9. \A i \in 1..N : i - 1 \in 0..N /\ g[i - 1] \in Scans /\ g[i] = Next1(i, g[i - 1])
  <2> SUFFICES ASSUME NEW i \in 1..N
               PROVE  i - 1 \in 0..N /\ g[i - 1] \in Scans /\ g[i] = Next1(i, g[i - 1])
    OBVIOUS
  <2>1. i - 1 \in 0..N
    BY <1>1
  <2> QED BY <1>5, <1>8, <2>1
<1>10. g = Body(g)
  <2>1. ASSUME NEW i \in 0..N PROVE g[i] = Body(g)[i]
    <3>1. CASE i = 0
      BY <1>8, <3>1
    <3>2. CASE i # 0
      <4>1. i \in 1..N
        BY <1>1, <3>2
      <4> QED BY <1>9, <3>2, <4>1
    <3> QED BY <3>1, <3>2
  <2> QED BY <2>1
<1> DEFINE after == CHOOSE t : t = Body(t)
<1>11. after = Body(after)
  BY <1>10
<1>12. \A i \in 0..N : after[i] = g[i]
  <2>1. after[0] = g[0] /\ \A i \in 1..N : after[i] = Next1(i, after[i - 1])
    <3> HIDE DEF after
    <3>1. \A i \in 0..N : after[i] = Body(after)[i]
      BY <1>11
    <3> QED BY <1>1, <1>8, <3>1
  <2> HIDE DEF after
  <2>2. \A i \in 1..N : g[i - 1] = after[i - 1] => g[i] = after[i]
    BY <1>9, <2>1
  <2>3. Agree(N, g, after)
    <3>1. N \in Nat /\ g[0] = after[0]
      BY <1>1, <2>1
    <3> QED BY ONLY <2>2, <3>1, RecursionAgrees
  <2> QED BY <2>3 DEF Agree
<1>13. IndexChunk(s, n) = [after[N] EXCEPT !.total = to]
  <2> DEFINE lines == LinesBetween(s.from, to)
             Code(t) == [i \in 0..Len(lines) |->
                            IF i = 0 THEN [s EXCEPT !.from = RestFrom(@, to), !.stuck = FALSE]
                            ELSE IndexLine(t[i - 1], lines[i],
                                           s.total - (s.total - s.from)
                                               + (Start(lines[i]) - s.from))]
  <2>1. [s EXCEPT !.from = RestFrom(@, to), !.stuck = FALSE] = first
    BY <1>6 DEF first, ChunkStart
  <2>2. ASSUME NEW t PROVE Code(t) = Body(t)
    <3>1. Len(lines) = N /\ \A i \in 1..N : lines[i] = a + i - 1
      BY <1>6
    <3>2. ASSUME NEW i \in 1..N
          PROVE  IndexLine(t[i - 1], lines[i],
                           s.total - (s.total - s.from) + (Start(lines[i]) - s.from))
                     = Next1(i, t[i - 1])
      BY <1>7, <3>1 DEF Next1
    <3>3. \A i \in 0..N : i = 0 \/ i \in 1..N
      BY <1>1
    <3> HIDE DEF lines
    <3> QED BY <2>1, <3>1, <3>2, <3>3
  <2>3. IndexChunk(s, n) = [(CHOOSE t : t = Code(t))[Len(lines)] EXCEPT !.total = to]
    BY DEF IndexChunk, to
  <2>4. Len(lines) = N
    BY <1>6
  <2>5. (CHOOSE t : t = Code(t)) = after
    <3>1. \A t : (t = Code(t)) <=> (t = Body(t))
      BY <2>2
    <3> HIDE DEF Code, Body
    <3> QED BY <3>1
  <2> QED BY <2>3, <2>4, <2>5
<1>14. ScansInTurn(g, file, a, b, s)
  <2>1. \A i \in 1..N : /\ LineEffect(file, a + i - 1, Position(file, a + i - 1), g[i - 1], g[i])
                        /\ g[i].pc = g[i - 1].pc
    BY <1>2, <1>9
  <2> QED BY <1>8, <2>1 DEF ScansInTurn, first, N
<1>15. ChunkGives(g, a, b, s, n)
  <2>1. N \in 0..N
    BY <1>1
  <2>2. IndexChunk(s, n) = [g[N] EXCEPT !.total = to]
    BY <1>12, <1>13, <2>1
  <2> QED BY <2>2 DEF ChunkGives, N, to
<1> QED BY <1>14, <1>15

-----------------------------------------------------------------------------
(* The scan between the lines of a chunk.                                   *)

LEMMA PlacedFacts ==
    ASSUME NEW f, NEW out \in Seq(TimeIndexes)
    PROVE  /\ Placed(f, out) \in Seq(TimeIndexes) /\ Len(Placed(f, out)) = Len(out)
           /\ Placed(f, out) = << >> <=> out = << >>
           /\ \A i \in DOMAIN out : /\ Placed(f, out)[i].timestamp = out[i].timestamp
                                    /\ Placed(f, out)[i].offset = Position(f, out[i].offset)
<1>1. ASSUME NEW i \in 1..Len(out)
      PROVE  [timestamp |-> out[i].timestamp, offset |-> Position(f, out[i].offset)]
                 \in TimeIndexes
  <2>1. out[i].offset \in Nat /\ out[i].timestamp \in Nat
    BY EntryFacts
  <2>2. Position(f, out[i].offset) \in Nat
    BY <2>1, PositionStep
  <2> QED BY <2>1, <2>2 DEF TimeIndexes
<1>2. Placed(f, out) \in [1..Len(out) -> TimeIndexes]
  BY <1>1 DEF Placed
<1>3. Placed(f, out) \in Seq(TimeIndexes) /\ Len(Placed(f, out)) = Len(out)
  BY <1>2
<1>4. Placed(f, out) = << >> <=> out = << >>
  BY <1>3, EmptySeq
<1>5. \A i \in DOMAIN out : /\ Placed(f, out)[i].timestamp = out[i].timestamp
                            /\ Placed(f, out)[i].offset = Position(f, out[i].offset)
  BY DEF Placed
<1> QED BY <1>3, <1>4, <1>5

LEMMA PlacedAppend ==
    ASSUME NEW f, NEW out \in Seq(TimeIndexes), NEW t \in Nat, NEW k \in Nat
    PROVE  Placed(f, Append(out, [timestamp |-> t, offset |-> k]))
               = Append(Placed(f, out), [timestamp |-> t, offset |-> Position(f, k)])
<1> DEFINE e == [timestamp |-> t, offset |-> k]
           g == [timestamp |-> t, offset |-> Position(f, k)]
           A == Placed(f, Append(out, e))
           B == Append(Placed(f, out), g)
<1>1. e \in TimeIndexes
  BY DEF TimeIndexes
<1>2. g \in TimeIndexes
  BY PositionStep DEF TimeIndexes
<1>3. Append(out, e) \in Seq(TimeIndexes) /\ Len(Append(out, e)) = Len(out) + 1
      /\ Append(out, e)[Len(out) + 1] = e
      /\ \A i \in 1..Len(out) : Append(out, e)[i] = out[i]
  BY <1>1
<1>4. Placed(f, out) \in Seq(TimeIndexes) /\ Len(Placed(f, out)) = Len(out)
  BY PlacedFacts
<1>5. B \in Seq(TimeIndexes) /\ Len(B) = Len(out) + 1 /\ B[Len(out) + 1] = g
      /\ \A i \in 1..Len(out) : B[i] = Placed(f, out)[i]
  BY <1>2, <1>4
<1>6. A \in Seq(TimeIndexes) /\ Len(A) = Len(out) + 1
  BY <1>3, PlacedFacts
<1>7. ASSUME NEW i \in 1..Len(out) + 1 PROVE A[i] = B[i]
  <2>1. A[i] = [timestamp |-> Append(out, e)[i].timestamp,
                offset |-> Position(f, Append(out, e)[i].offset)]
    BY <1>3 DEF Placed
  <2>2. CASE i = Len(out) + 1
    BY <1>3, <1>5, <2>1, <2>2
  <2>3. CASE i # Len(out) + 1
    <3>1. i \in 1..Len(out)
      BY <2>3
    <3>2. Placed(f, out)[i] = [timestamp |-> out[i].timestamp,
                               offset |-> Position(f, out[i].offset)]
      BY <3>1 DEF Placed
    <3> HIDE DEF A, B
    <3> QED BY <1>3, <1>5, <2>1, <3>1, <3>2
  <2> QED BY <2>2, <2>3
<1> HIDE DEF A, B
<1>8. A = B
  BY <1>5, <1>6, <1>7, SeqEqual
<1> QED BY <1>8 DEF A, B, e, g

(* After n lines of the file, in a chunk up to line b.                      *)
InChunk(f, b, n, s) ==
    /\ Located(f, n, s)
    /\ s.stuck => \E k \in 0..n : s.from = Position(f, k) /\ GaveUp(f, k, s)
    /\ ~s.stuck => /\ s.from = Position(f, b)
                   /\ GaveUp(f, n, s) \/ Progress(f, n, s)

LEMMA LocatedLine ==
    ASSUME NEW f, NEW n \in Nat, NEW offset, NEW s \in Scans, NEW d \in Scans,
           offset = Position(f, n), Located(f, n, s), LineEffect(f, n, offset, s, d)
    PROVE  Located(f, n + 1, d)
<1>1. 0..n - 1 \subseteq 0..(n + 1) - 1 /\ n \in 0..(n + 1) - 1
  OBVIOUS
<1>2. s.outputs \in Seq(TimeIndexes)
  BY DEF Scans
<1>3. CASE d.outputs = s.outputs /\ (d.last = s.last \/ d.last = n)
  BY <1>1, <1>3 DEF Located
<1>4. CASE d.outputs = Append(s.outputs, Entry(Line(f, n).ts, offset)) /\ d.last = n
  <2> DEFINE e == Entry(Line(f, n).ts, offset)
  <2>1. e.offset = Position(f, n)
    BY DEF Entry
  <2> HIDE DEF e
  <2>2. ASSUME NEW i \in DOMAIN Append(s.outputs, e)
        PROVE  Append(s.outputs, e)[i] = e \/ (i \in DOMAIN s.outputs
                   /\ Append(s.outputs, e)[i] = s.outputs[i])
    BY <1>2
  <2>3. d.outputs = Append(s.outputs, e)
    BY <1>4 DEF e
  <2>4. ASSUME NEW i \in DOMAIN d.outputs
        PROVE  \E k \in 0..(n + 1) - 1 : d.outputs[i].offset = Position(f, k)
    BY <1>1, <2>1, <2>2, <2>3 DEF Located
  <2> QED BY <1>1, <1>4, <2>4 DEF Located
<1> QED BY <1>3, <1>4 DEF LineEffect, SameEntries

LEMMA EntriesAreLate ==
    ASSUME NEW f \in Seq(Lines), NEW out \in Seq(TimeIndexes), NEW n, Scanned(f, out, n),
           out # << >>
    PROVE  Final(out).timestamp \in Nat /\ Final(out).timestamp > 0
<1> DEFINE i == Len(out)
           k == out[i].offset
<1>1. i \in DOMAIN out /\ k \in Nat
  <2>1. i \in DOMAIN out
    BY EmptySeq
  <2> QED BY <2>1, EntryFacts
<1>2. Indexable(f, k) /\ out[i].timestamp = BucketOf(Line(f, k).ts)
  BY <1>1 DEF Scanned, EntriesPoint
<1>3. k < Len(f) /\ Line(f, k).ts # 0
  BY <1>2 DEF Indexable
<1> HIDE DEF k
<1>4. Line(f, k).ts \in Nat /\ Line(f, k).ts >= IntervalSeconds
  BY <1>1, <1>3, LineFacts
<1>5. BucketOf(Line(f, k).ts) \in Nat /\ BucketOf(Line(f, k).ts) > 0
  BY <1>4, BucketBounds
<1> QED BY <1>2, <1>5 DEF Final

LEMMA SkippedLine ==
    ASSUME NEW f \in Seq(Lines), NEW n \in Nat, n < Len(f), Line(f, n).ts = 0,
           NEW s \in Scans, NEW d \in Scans, SameEntries(s, d), Progress(f, n, s)
    PROVE  Progress(f, n + 1, d)
<1>1. PICK out \in Seq(TimeIndexes) : ScannedTo(f, n, s, out)
  BY DEF Progress
<1>2. ~Indexable(f, n)
  BY DEF Indexable
<1>3. Scanned(f, out, n + 1)
  BY <1>1, <1>2, ScanSkips DEF ScannedTo
<1>4. OffsetsUnder(out, n + 1)
  <2>1. \A i \in DOMAIN out : out[i].offset \in Nat
    BY EntryFacts
  <2> QED BY <1>1, <2>1 DEF ScannedTo, OffsetsUnder
<1>5. \A k \in 0..(n + 1) - 1 : k \in 0..n - 1 \/ k = n
  OBVIOUS
<1>6. ASSUME out = << >> PROVE d.bucket = 0 /\ \A k \in 0..(n + 1) - 1 : ~Indexable(f, k)
  BY <1>1, <1>2, <1>5, <1>6 DEF ScannedTo, SameEntries
<1>7. ASSUME out # << >>
      PROVE  /\ d.bucket = Final(out).timestamp /\ LastTimed(f, n + 1, d.last)
             /\ d.since + 1 <= Cardinality(Crowd(f, d.bucket, n + 1))
  <2>1. /\ s.bucket = Final(out).timestamp /\ LastTimed(f, n, s.last)
        /\ s.since + 1 <= Cardinality(Crowd(f, s.bucket, n))
    BY <1>1, <1>7 DEF ScannedTo
  <2>2. s.since + 1 <= Cardinality(Crowd(f, s.bucket, n + 1))
    <3>1. s.since \in Nat /\ n + 1 \in Nat /\ n <= n + 1
      BY DEF Scans
    <3>2. /\ Cardinality(Crowd(f, s.bucket, n)) \in Nat
          /\ Cardinality(Crowd(f, s.bucket, n + 1)) \in Nat
      BY <3>1, CrowdFacts
    <3>3. Cardinality(Crowd(f, s.bucket, n)) <= Cardinality(Crowd(f, s.bucket, n + 1))
      BY <3>1, CrowdGrows
    <3> QED BY <2>1, <3>1, <3>2, <3>3
  <2>3. \A k \in s.last + 1..(n + 1) - 1 : k \in s.last + 1..n - 1 \/ k = n
    BY <2>1 DEF LastTimed
  <2>4. LastTimed(f, n + 1, s.last)
    <3>1. s.last \in 0..(n + 1) - 1
      BY <2>1 DEF LastTimed
    <3> QED BY <2>1, <2>3, <3>1 DEF LastTimed
  <2> QED BY <2>1, <2>2, <2>4 DEF SameEntries
<1>8. d.outputs = Placed(f, out)
  BY <1>1 DEF ScannedTo, SameEntries
<1>9. ScannedTo(f, n + 1, d, out)
  BY <1>3, <1>4, <1>6, <1>7, <1>8 DEF ScannedTo
<1> QED BY <1>9 DEF Progress

LEMMA LastIsTimed ==
    ASSUME NEW f, NEW n \in Nat, Line(f, n).ts # 0
    PROVE  LastTimed(f, n + 1, n)
  BY DEF LastTimed

(* A line before the next bucket is in that of the last entry.              *)
LEMMA SameBucket ==
    ASSUME NEW f \in Seq(Lines), TimesAreOrdered(f), NEW n \in Nat, Indexable(f, n),
           NEW out \in Seq(TimeIndexes), out # << >>, Scanned(f, out, n),
           Final(out).offset < n,
           BucketOf(Line(f, n).ts) < Final(out).timestamp + IntervalSeconds
    PROVE  BucketOf(Line(f, n).ts) = Final(out).timestamp
<1> DEFINE k == Final(out).offset
           t == Final(out).timestamp
           b == BucketOf(Line(f, n).ts)
<1>1. Len(out) \in DOMAIN out /\ Final(out) = out[Len(out)]
  BY DEF Final
<1>2. /\ Indexable(f, k) /\ k \in Nat /\ t \in Nat /\ t = BucketOf(Line(f, k).ts)
  BY <1>1, EntryFacts DEF Scanned, EntriesPoint
<1>3. t <= b
  <2>1. out[Len(out)].offset <= n
    BY <1>1, <1>2
  <2> QED BY <1>1, <2>1, EntriesAreOrdered
<1>4. Line(f, k).ts \in Nat /\ Line(f, n).ts \in Nat
  BY <1>2, LineFacts DEF Indexable
<1>5. b <= t
  BY <1>2, <1>4, BucketsOrdered
<1>6. b \in Nat
  BY <1>4, BucketBounds
<1> QED BY <1>2, <1>3, <1>5, <1>6

LEMMA CountedLine ==
    ASSUME NEW f \in Seq(Lines), TimesAreOrdered(f), NEW n \in Nat, n < Len(f),
           Line(f, n).ts # 0, ~Line(f, n).long,
           NEW s \in Scans, NEW d \in Scans, Progress(f, n, s), ~StartsEntry(s, Line(f, n).ts),
           d.outputs = s.outputs, d.bucket = s.bucket, d.since = s.since + 1, d.last = n
    PROVE  Progress(f, n + 1, d)
<1>1. PICK out \in Seq(TimeIndexes) : ScannedTo(f, n, s, out)
  BY DEF Progress
<1>2. s.bucket \in Nat /\ s.since \in Nat /\ Line(f, n).ts \in Nat
  BY LineFacts DEF Scans
<1>3. out # << >> /\ s.bucket = Final(out).timestamp
  BY <1>1 DEF ScannedTo, StartsEntry
<1>4. BucketOf(Line(f, n).ts) < Final(out).timestamp + IntervalSeconds
  <2>1. BucketOf(Line(f, n).ts) \in Nat /\ IntervalSeconds \in Nat
    BY <1>2, BucketBounds, BuilderAssumption
  <2>2. ~(BucketOf(Line(f, n).ts) >= s.bucket + IntervalSeconds)
    BY DEF StartsEntry
  <2> QED BY <1>2, <1>3, <2>1, <2>2
<1>5. Indexable(f, n)
  BY DEF Indexable
<1>6. Scanned(f, out, n + 1)
  BY <1>1, <1>3, <1>4, <1>5, ScanStays DEF ScannedTo
<1>7. OffsetsUnder(out, n + 1)
  <2>1. \A i \in DOMAIN out : out[i].offset \in Nat
    BY EntryFacts
  <2> QED BY <1>1, <2>1 DEF ScannedTo, OffsetsUnder
<1>8. d.since + 1 <= Cardinality(Crowd(f, d.bucket, n + 1))
  <2>1. Scanned(f, out, n) /\ Final(out).offset < n
    <3>1. Len(out) \in DOMAIN out
      BY <1>3
    <3> QED BY <1>1, <3>1 DEF ScannedTo, OffsetsUnder, Final
  <2>2. BucketOf(Line(f, n).ts) = s.bucket
    BY <1>3, <1>4, <1>5, <2>1, SameBucket
  <2>3. /\ Cardinality(Crowd(f, s.bucket, n)) \in Nat
        /\ Cardinality(Crowd(f, s.bucket, n + 1)) = Cardinality(Crowd(f, s.bucket, n)) + 1
    BY <1>5, <2>2, CrowdFacts, CrowdAdds
  <2>4. s.since + 1 <= Cardinality(Crowd(f, s.bucket, n))
    BY <1>1, <1>3 DEF ScannedTo
  <2> QED BY <1>2, <2>3, <2>4
<1>9. LastTimed(f, n + 1, n)
  BY LastIsTimed
<1>10. ScannedTo(f, n + 1, d, out)
  BY <1>1, <1>3, <1>6, <1>7, <1>8, <1>9 DEF ScannedTo
<1> QED BY <1>10 DEF Progress

LEMMA EntryLine ==
    ASSUME NEW f \in Seq(Lines), TimesAreOrdered(f), NEW n \in Nat, n < Len(f),
           Line(f, n).ts # 0, ~Line(f, n).long,
           NEW s \in Scans, NEW d \in Scans, Progress(f, n, s), StartsEntry(s, Line(f, n).ts),
           d.outputs = Append(s.outputs, Entry(Line(f, n).ts, Position(f, n))),
           d.bucket = BucketOf(Line(f, n).ts), d.since = 0, d.last = n
    PROVE  Progress(f, n + 1, d)
<1>1. PICK out \in Seq(TimeIndexes) : ScannedTo(f, n, s, out)
  BY DEF Progress
<1> DEFINE t == BucketOf(Line(f, n).ts)
           new == Append(out, [timestamp |-> t, offset |-> n])
<1>2. s.since \in Nat /\ t \in Nat /\ Indexable(f, n)
  BY LineFacts, BucketBounds DEF Scans, Indexable
<1>11. /\ Cardinality(Crowd(f, t, n)) \in Nat
       /\ Cardinality(Crowd(f, t, n + 1)) = Cardinality(Crowd(f, t, n)) + 1
  BY <1>2, CrowdFacts, CrowdAdds
<1>3. ASSUME out # << >>
      PROVE  /\ Final(out).offset < n
             /\ t >= Final(out).timestamp + IntervalSeconds \/ CrowdedIn(f, t, n + 1)
  <2>1. /\ s.bucket = Final(out).timestamp /\ s.bucket \in Nat /\ s.bucket # 0
        /\ s.since + 1 <= Cardinality(Crowd(f, s.bucket, n))
    <3>1. Final(out).timestamp \in Nat /\ Final(out).timestamp > 0
      BY <1>1, <1>3, EntriesAreLate DEF ScannedTo
    <3> QED BY <1>1, <1>3, <3>1 DEF ScannedTo
  <2>2. Scanned(f, out, n) /\ Final(out).offset < n
    <3>1. Len(out) \in DOMAIN out
      BY <1>3
    <3> QED BY <1>1, <3>1 DEF ScannedTo, OffsetsUnder, Final
  <2>3. CountThreshold \in Nat /\ IntervalSeconds \in Nat
    BY BuilderAssumption
  <2>4. CASE t < s.bucket + IntervalSeconds
    <3>1. t = s.bucket
      BY <1>2, <1>3, <2>1, <2>2, <2>4, SameBucket
    <3>2. s.since + 1 >= CountThreshold
      BY <1>2, <2>1, <2>3, <2>4 DEF StartsEntry
    <3>3. s.since + 1 <= Cardinality(Crowd(f, t, n))
      BY <2>1, <3>1
    <3> HIDE DEF t
    <3>4. Cardinality(Crowd(f, t, n + 1)) > CountThreshold
      BY <1>2, <1>11, <2>3, <3>2, <3>3
    <3> QED BY <2>2, <3>4 DEF CrowdedIn
  <2>5. CASE t >= s.bucket + IntervalSeconds
    BY <2>1, <2>2, <2>5
  <2> QED BY <1>2, <2>1, <2>3, <2>4, <2>5
<1>4. ASSUME out = << >> PROVE \A k \in 0..n - 1 : ~Indexable(f, k)
  BY <1>1, <1>4 DEF ScannedTo
<1>5. Scanned(f, new, n + 1)
  <2>1. Scanned(f, out, n)
    BY <1>1 DEF ScannedTo
  <2> QED BY <1>2, <1>3, <1>4, <2>1, ScanAdds
<1>6. new \in Seq(TimeIndexes) /\ new # << >> /\ Final(new) = [timestamp |-> t, offset |-> n]
  <2>1. [timestamp |-> t, offset |-> n] \in TimeIndexes
    BY <1>2 DEF TimeIndexes
  <2>2. new \in Seq(TimeIndexes) /\ Len(new) = Len(out) + 1
        /\ new[Len(out) + 1] = [timestamp |-> t, offset |-> n]
    BY <2>1
  <2> QED BY <2>2, EmptySeq DEF Final
<1>7. OffsetsUnder(new, n + 1)
  <2>1. \A i \in DOMAIN out : out[i].offset \in Nat /\ out[i].offset < n
    BY <1>1, EntryFacts DEF ScannedTo, OffsetsUnder
  <2>2. \A i \in DOMAIN new : \/ new[i] = [timestamp |-> t, offset |-> n]
                              \/ i \in DOMAIN out /\ new[i] = out[i]
    BY <1>2 DEF TimeIndexes
  <2> HIDE DEF new
  <2>3. ASSUME NEW i \in DOMAIN new PROVE new[i].offset < n + 1
    BY <2>1, <2>2
  <2> QED BY <2>3 DEF OffsetsUnder
<1>8. d.outputs = Placed(f, new)
  <2>1. s.outputs = Placed(f, out)
    BY <1>1 DEF ScannedTo
  <2>2. Placed(f, new) = Append(Placed(f, out), [timestamp |-> t, offset |-> Position(f, n)])
    BY <1>2, PlacedAppend
  <2> QED BY <2>1, <2>2 DEF Entry
<1>9. LastTimed(f, n + 1, n)
  BY LastIsTimed
<1>12. d.since + 1 <= Cardinality(Crowd(f, t, n + 1))
  BY <1>11
<1> HIDE DEF new
<1>10. ScannedTo(f, n + 1, d, new)
  BY <1>2, <1>5, <1>6, <1>7, <1>8, <1>9, <1>12 DEF ScannedTo
<1> QED BY <1>6, <1>10 DEF Progress

(* A line keeps what is known of the scan.                                  *)
LEMMA LineKeeps ==
    ASSUME NEW f \in Seq(Lines), Len(f) <= MaxLines, TimesAreOrdered(f), NEW b \in 0..Len(f),
           NEW n \in 0..b - 1, NoLong(f, b), NEW s \in Scans, NEW d \in Scans,
           InChunk(f, b, n, s), LineEffect(f, n, Position(f, n), s, d)
    PROVE  InChunk(f, b, n + 1, d)
<1>1. n \in Nat /\ n < Len(f) /\ ~Line(f, n).long
  BY DEF NoLong
<1>2. Located(f, n + 1, d)
  <2>1. Located(f, n, s)
    BY DEF InChunk
  <2> QED BY <1>1, <2>1, LocatedLine
<1>3. CASE s.stuck /\ d = s
  <2>1. \A k \in 0..n : k \in 0..n + 1
    OBVIOUS
  <2> QED BY <1>2, <1>3, <2>1 DEF InChunk
<1>4. CASE /\ ~s.stuck /\ d.stuck /\ Line(f, n).ts = 0 /\ s.outputs = << >>
           /\ s.skipped >= MaxSkipped /\ d.skipped = s.skipped + 1
           /\ d.from = Position(f, n) /\ SameEntries(s, d)
  <2>1. s.skipped \in Nat /\ MaxSkipped \in Nat
    BY BuilderAssumption DEF Scans
  <2>2. d.skipped >= MaxSkipped
    BY <1>4, <2>1
  <2>3. GaveUp(f, n, d)
    BY <1>1, <1>4, <2>2 DEF GaveUp, SameEntries
  <2>4. n \in 0..n + 1
    BY <1>1
  <2> QED BY <1>2, <1>4, <2>3, <2>4 DEF InChunk
<1>5. ASSUME ~s.stuck, ~d.stuck, d.from = s.from,
             ASSUME Progress(f, n, s) PROVE Progress(f, n + 1, d),
             ~GaveUp(f, n, s)
      PROVE  InChunk(f, b, n + 1, d)
  BY <1>2, <1>5 DEF InChunk
<1>6. CASE /\ ~s.stuck /\ ~d.stuck /\ Line(f, n).ts = 0
           /\ ~(s.skipped >= MaxSkipped /\ s.outputs = << >>) /\ d.skipped = s.skipped + 1
           /\ d.from = s.from /\ SameEntries(s, d)
  <2>1. ASSUME Progress(f, n, s) PROVE Progress(f, n + 1, d)
    BY <1>1, <1>6, <2>1, SkippedLine
  <2>2. ~GaveUp(f, n, s)
    BY <1>6 DEF GaveUp
  <2> QED BY <1>5, <1>6, <2>1, <2>2
<1>7. CASE /\ ~s.stuck /\ ~d.stuck /\ Line(f, n).ts # 0 /\ StartsEntry(s, Line(f, n).ts)
           /\ d.skipped = s.skipped /\ d.from = s.from
           /\ d.outputs = Append(s.outputs, Entry(Line(f, n).ts, Position(f, n)))
           /\ d.bucket = BucketOf(Line(f, n).ts) /\ d.since = 0 /\ d.last = n
  <2>1. ASSUME Progress(f, n, s) PROVE Progress(f, n + 1, d)
    BY <1>1, <1>7, <2>1, EntryLine
  <2>2. ~GaveUp(f, n, s)
    BY <1>7 DEF GaveUp
  <2> QED BY <1>5, <1>7, <2>1, <2>2
<1>8. CASE /\ ~s.stuck /\ ~d.stuck /\ Line(f, n).ts # 0 /\ ~StartsEntry(s, Line(f, n).ts)
           /\ d.skipped = s.skipped /\ d.from = s.from
           /\ d.outputs = s.outputs /\ d.bucket = s.bucket
           /\ d.since = s.since + 1 /\ d.last = n
  <2>1. ASSUME Progress(f, n, s) PROVE Progress(f, n + 1, d)
    BY <1>1, <1>8, <2>1, CountedLine
  <2>2. ~GaveUp(f, n, s)
    BY <1>8 DEF GaveUp
  <2> QED BY <1>5, <1>8, <2>1, <2>2
<1> QED BY <1>3, <1>4, <1>6, <1>7, <1>8 DEF LineEffect

-----------------------------------------------------------------------------
(* The steps of the scan.                                                   *)

LEMMA SameScan ==
    ASSUME NEW f, NEW n, NEW s, NEW d, SameEntries(s, d)
    PROVE  /\ Progress(f, n, s) => Progress(f, n, d)
           /\ Located(f, n, s) => Located(f, n, d)
           /\ d.skipped = s.skipped /\ GaveUp(f, n, s) => GaveUp(f, n, d)
<1>1. \A out : ScannedTo(f, n, s, out) => ScannedTo(f, n, d, out)
  BY DEF ScannedTo, SameEntries
<1> QED BY <1>1 DEF Progress, Located, GaveUp, SameEntries

(* A line beyond the limit is not in a chunk that can be carried.           *)
LEMMA ChunkIsShort ==
    ASSUME NEW f, Len(f) \in Nat, NEW a \in 0..Len(f), NoLong(f, a), NEW to \in Nat,
           NEW b, Cut(f, a, b, to), to - Position(f, a) <= MaxCarry
    PROVE  NoLong(f, b)
<1>1. b \in 0..Len(f) /\ Position(f, b) <= to
  BY DEF Cut
<1>2. SUFFICES ASSUME NEW k \in 0..b - 1, Line(f, k).long PROVE FALSE
  BY DEF NoLong
<1> DEFINE j == k + 1
<1>3. k \in Nat /\ j \in Nat /\ a \in Nat /\ b \in Nat /\ j <= b
  BY <1>1
<1>4. a <= k
  <2>1. ~(k \in 0..a - 1)
    BY <1>2 DEF NoLong
  <2> QED BY <1>3, <2>1
<1>5. Position(f, j) = Position(f, k) + LongSize
  BY <1>2, <1>3, PositionStep
<1> HIDE DEF j
<1>6. /\ Position(f, a) \in Nat /\ Position(f, k) \in Nat /\ Position(f, b) \in Nat
      /\ Position(f, a) <= Position(f, k) /\ Position(f, j) <= Position(f, b)
  BY <1>3, <1>4, PositionOrder
<1>7. to - Position(f, a) >= LongSize
  BY ONLY <1>1, <1>5, <1>6, to \in Nat, SizeFacts
<1> QED BY <1>6, <1>7, SizeFacts

LEMMA ChunkKeeps ==
    ASSUME file \in Seq(Lines), Len(file) <= MaxLines, TimesAreOrdered(file),
           NEW s, ScanOK(file, s), s.pc = "reading", NEW n \in Nat,
           s.total + n <= Position(file, Len(file)), s.total + n - s.from <= MaxCarry
    PROVE  ScanOK(file, IndexChunk(s, n))
<1> DEFINE to == s.total + n
<1>1. PICK a \in 0..Len(file) : Reading(file, a, s)
  BY DEF ScanOK
<1>2. /\ s \in Scans /\ s.total \in Nat /\ to \in Nat /\ Len(file) \in Nat /\ a \in Nat
      /\ s.from = Position(file, a) /\ Position(file, a) <= s.total /\ Position(file, a) \in Nat
  <2>1. Position(file, a) \in Nat
    BY PositionStep
  <2> QED BY <1>1, <2>1 DEF ScanOK, Reading, Scans
<1>3. PICK b \in 0..Len(file) : Cut(file, a, b, to)
  <2>1. Position(file, a) <= to
    BY <1>2
  <2> HIDE DEF to
  <2> QED BY <1>2, <2>1, CutExists
<1>4. a <= b /\ Position(file, b) <= to /\ (b = Len(file) \/ to < Position(file, b + 1))
  BY <1>3 DEF Cut
<1>5. NoLong(file, b)
  <2>1. to - Position(file, a) <= MaxCarry /\ NoLong(file, a)
    BY <1>1, <1>2 DEF Reading
  <2> HIDE DEF to
  <2> QED BY <1>2, <1>3, <2>1, ChunkIsShort
<1>6. PICK t : ScansInTurn(t, file, a, b, s) /\ ChunkGives(t, a, b, s, n)
  BY <1>2, <1>3, IndexChunkInTurn
<1> DEFINE N == b - a
           r == IndexChunk(s, n)
<1>7. N \in Nat /\ t \in [0..N -> Scans] /\ t[0] = ChunkStart(file, b, s)
      /\ \A i \in 1..N : /\ LineEffect(file, a + i - 1, Position(file, a + i - 1), t[i - 1], t[i])
                         /\ t[i].pc = t[i - 1].pc
  BY <1>2, <1>4, <1>6 DEF ScansInTurn
<1>8. InChunk(file, b, a, t[0]) /\ t[0].pc = "reading"
  <2> DEFINE d == ChunkStart(file, b, s)
  <2>1. /\ SameEntries(s, d) /\ d.skipped = s.skipped /\ ~d.stuck /\ d.from = Position(file, b)
        /\ d.pc = s.pc
    BY <1>2 DEF ChunkStart, SameEntries, Scans
  <2> HIDE DEF d
  <2>2. Located(file, a, d) /\ (GaveUp(file, a, d) \/ Progress(file, a, d))
    BY <1>1, <2>1, SameScan DEF Reading
  <2>3. InChunk(file, b, a, d)
    BY <2>1, <2>2 DEF InChunk
  <2> QED BY <1>7, <2>1, <2>3 DEF d
<1> DEFINE G == {i \in 0..N : InChunk(file, b, a + i, t[i]) /\ t[i].pc = "reading"}
<1>9. N \in G
  <2>1. 0 \in G
    <3>1. a + 0 = a /\ 0 \in 0..N
      BY <1>2, <1>7
    <3> QED BY <1>8, <3>1
  <2>2. ASSUME NEW i \in 0..N - 1, i \in G PROVE i + 1 \in G
    <3> DEFINE k == a + i
    <3>1. /\ k \in 0..b - 1 /\ i + 1 \in 1..N /\ i + 1 \in 0..N /\ a + (i + 1) - 1 = k
          /\ (i + 1) - 1 = i /\ a + (i + 1) = k + 1 /\ i \in 0..N
      BY <1>2, <1>4, <1>7
    <3>2. InChunk(file, b, k, t[i]) /\ t[i].pc = "reading"
      BY <2>2
    <3>3. LineEffect(file, k, Position(file, k), t[i], t[i + 1]) /\ t[i + 1].pc = t[i].pc
      <4> HIDE DEF k, N
      <4> QED BY <1>7, <3>1
    <3>4. t[i] \in Scans /\ t[i + 1] \in Scans
      BY <1>7, <3>1
    <3> HIDE DEF k
    <3>5. InChunk(file, b, k + 1, t[i + 1])
      BY <1>5, <3>1, <3>2, <3>3, <3>4, LineKeeps
    <3> QED BY <3>1, <3>2, <3>3, <3>5
  <2> HIDE DEF G
  <2>3. 0..N \subseteq G
    BY <1>7, <2>1, <2>2, CountsUpto
  <2> QED BY <1>7, <2>3
<1> DEFINE x == t[N]
<1>10. InChunk(file, b, b, x) /\ x.pc = "reading" /\ x \in Scans /\ r = [x EXCEPT !.total = to]
  <2>1. a + N = b /\ N \in 0..N
    BY <1>2, <1>4, <1>7
  <2>2. t[N] \in Scans
    BY <1>7, <2>1
  <2>3. InChunk(file, b, a + N, t[N]) /\ t[N].pc = "reading"
    BY <1>9
  <2>4. IndexChunk(s, n) = [t[b - a] EXCEPT !.total = s.total + n]
    BY <1>6 DEF ChunkGives
  <2> QED BY <2>1, <2>2, <2>3, <2>4
<1> HIDE DEF x, N, G, r
<1>11. r \in Scans
  <2>1. NoLine \in -1..MaxLines
    BY BuilderAssumption DEF NoLine
  <2> HIDE DEF to
  <2> QED BY <1>2, <1>10, <2>1, ScanTypes
<1>12. /\ r.total = to /\ r.from = x.from /\ r.stuck = x.stuck /\ r.pc = "reading"
       /\ SameEntries(x, r) /\ r.skipped = x.skipped
  BY <1>10 DEF Scans, SameEntries
<1>13. r.total <= Position(file, Len(file))
  BY <1>12
<1>14. CASE x.stuck
  <2>1. PICK k \in 0..b : x.from = Position(file, k) /\ GaveUp(file, k, x)
    BY <1>10, <1>14 DEF InChunk
  <2>2. k \in 0..Len(file) /\ k \in Nat /\ b \in Nat /\ k <= b
    BY <1>2
  <2>3. Position(file, k) <= to
    <3>1. Position(file, k) <= Position(file, b) /\ Position(file, k) \in Nat
          /\ Position(file, b) \in Nat
      BY <2>2, PositionOrder
    <3> HIDE DEF to
    <3> QED BY <1>2, <1>4, <3>1
  <2>4. GaveUp(file, k, r) /\ Located(file, k, r)
    <3>1. GaveUp(file, k, r)
      BY <1>12, <2>1, SameScan
    <3>2. r.outputs = << >> /\ DOMAIN r.outputs = {}
      BY <3>1 DEF GaveUp
    <3> QED BY <3>1, <3>2 DEF Located
  <2>5. NoLong(file, k)
    BY <1>5, <2>2 DEF NoLong
  <2>6. Reading(file, k, r)
    BY <1>12, <2>1, <2>4, <2>5 DEF Reading
  <2> QED BY <1>11, <1>12, <1>13, <2>1, <2>2, <2>3, <2>6 DEF ScanOK, r
<1>15. CASE ~x.stuck
  <2>1. x.from = Position(file, b) /\ Located(file, b, x)
        /\ (GaveUp(file, b, x) \/ Progress(file, b, x))
    BY <1>10, <1>15 DEF InChunk
  <2>2. Located(file, b, r) /\ (GaveUp(file, b, r) \/ Progress(file, b, r))
    BY <1>12, <2>1, SameScan
  <2>3. Reading(file, b, r)
    BY <1>4, <1>5, <1>12, <2>1, <2>2 DEF Reading
  <2> QED BY <1>4, <1>11, <1>12, <1>13, <2>1, <2>3 DEF ScanOK, r
<1> QED BY <1>14, <1>15

LEMMA LocatedGrows ==
    ASSUME NEW f, NEW n \in Nat, NEW m \in Nat, n <= m, NEW s, Located(f, n, s)
    PROVE  Located(f, m, s)
<1>1. 0..n - 1 \subseteq 0..m - 1
  OBVIOUS
<1> QED BY <1>1 DEF Located

LEMMA ProgressHasLine ==
    ASSUME NEW f, NEW n, NEW s, NEW out, ScannedTo(f, n, s, out), out # << >>
    PROVE  s.last \in 0..n - 1 /\ LastTimed(f, n, s.last)
  BY DEF ScannedTo, LastTimed

LEMMA OverflowKeeps ==
    ASSUME NEW f \in Seq(Lines), NEW s, ScanOK(f, s), s.pc = "reading", NEW n \in 0..BufferSize,
           s.total + n <= Position(f, Len(f)), s.total + n - s.from > MaxCarry
    PROVE  ScanOK(f, [s EXCEPT !.pc = "indexed"])
<1> DEFINE d == [s EXCEPT !.pc = "indexed"]
<1>1. PICK a \in 0..Len(f) : Reading(f, a, s)
  BY DEF ScanOK
<1>2. /\ s \in Scans /\ s.total \in Nat /\ Len(f) \in Nat /\ a \in Nat /\ n \in Nat
      /\ n <= BufferSize /\ s.from = Position(f, a) /\ Position(f, a) \in Nat
  <2>1. Position(f, a) \in Nat
    BY PositionStep
  <2> QED BY <1>1, <2>1, SizeFacts DEF ScanOK, Reading, Scans
<1>3. d \in Scans
  <2>1. NoLine \in -1..MaxLines
    BY BuilderAssumption DEF NoLine
  <2> QED BY <1>2, <2>1, ScanTypes
<1>4. /\ d.pc = "indexed" /\ d.total = s.total /\ d.from = s.from /\ SameEntries(s, d)
  BY <1>2 DEF Scans, SameEntries
<1> HIDE DEF d
<1>5. Located(f, Len(f), d)
  <2>1. Located(f, a, d)
    BY <1>1, <1>4, SameScan DEF Reading
  <2> QED BY <1>2, <2>1, LocatedGrows
<1>6. ASSUME d.outputs # << >>
      PROVE  \E k \in 1..Len(f), out \in Seq(TimeIndexes) : IndexOf(f, d.outputs, k, out)
  <2>1. s.outputs = d.outputs /\ s.outputs # << >>
    BY <1>4, <1>6 DEF SameEntries
  <2>2. Progress(f, a, s) /\ (a = Len(f) \/ s.total < Position(f, a + 1))
    BY <1>1, <1>6, <2>1 DEF Reading, GaveUp
  <2>3. PICK out \in Seq(TimeIndexes) : ScannedTo(f, a, s, out)
    BY <2>2 DEF Progress
  <2>4. out # << >> /\ s.outputs = Placed(f, out)
    BY <2>1, <2>3, PlacedFacts DEF ScannedTo
  <2>5. a >= 1
    BY <1>2, <2>3, <2>4, ProgressHasLine
  <2>6. a # Len(f)
    BY <1>2, SizeFacts
  <2>7. Line(f, a).long
    <3>1. ASSUME ~Line(f, a).long PROVE FALSE
      <4>1. Position(f, a + 1) = Position(f, a) + 2
        BY <1>2, <3>1, PositionStep
      <4>2. s.total < Position(f, a) + 2
        BY <2>2, <2>6, <4>1
      <4> QED BY <1>2, <4>2, SizeFacts
    <3> QED BY <3>1
  <2>8. IndexOf(f, d.outputs, a, out)
    BY <1>1, <1>2, <2>1, <2>3, <2>4, <2>6, <2>7 DEF IndexOf, ScannedTo, Reading
  <2> QED BY <1>2, <2>5, <2>8
<1> QED BY <1>3, <1>4, <1>5, <1>6 DEF ScanOK, IsIndex, d

(* The index with the entry of the last timed line.                         *)
EndOutputs(f, s) ==
    IF s.outputs = << >> THEN s.outputs
    ELSE Append(s.outputs, [timestamp |-> Line(f, s.last).ts, offset |-> Position(f, s.last)])

LEMMA EndKeeps ==
    ASSUME NEW f \in Seq(Lines), NEW s, ScanOK(f, s), s.pc = "reading",
           s.total = Position(f, Len(f))
    PROVE  ScanOK(f, [s EXCEPT !.pc = "indexed", !.outputs = EndOutputs(f, s)])
<1> DEFINE o == EndOutputs(f, s)
           d == [s EXCEPT !.pc = "indexed", !.outputs = o]
           e == [timestamp |-> Line(f, s.last).ts, offset |-> Position(f, s.last)]
<1>1. PICK a \in 0..Len(f) : Reading(f, a, s)
  BY DEF ScanOK
<1>2. /\ s \in Scans /\ s.total \in Nat /\ Len(f) \in Nat /\ a \in Nat
      /\ s.outputs \in Seq(TimeIndexes) /\ Located(f, a, s)
  BY <1>1 DEF ScanOK, Reading, Scans
<1>3. ASSUME s.outputs # << >>
      PROVE  s.last \in 0..Len(f) - 1 /\ e \in TimeIndexes /\ o = Append(s.outputs, e)
  <2>1. s.last \in 0..Len(f) - 1 /\ s.last \in Nat /\ s.last < Len(f)
    BY <1>2, <1>3 DEF Located
  <2>2. Line(f, s.last).ts \in Nat
    BY <2>1, LineFacts
  <2>3. Position(f, s.last) \in Nat
    BY <2>1, PositionStep
  <2> QED BY <1>3, <2>1, <2>2, <2>3 DEF TimeIndexes, EndOutputs
<1>4. o \in Seq(TimeIndexes)
  <2>1. ASSUME s.outputs = << >> PROVE o = s.outputs
    BY <2>1 DEF EndOutputs
  <2>2. ASSUME s.outputs # << >> PROVE Append(s.outputs, e) \in Seq(TimeIndexes)
    <3>1. e \in TimeIndexes
      BY <1>3, <2>2
    <3> HIDE DEF e
    <3> QED BY <1>2, <3>1
  <2>3. s.outputs # << >> => o = Append(s.outputs, e)
    BY <1>3
  <2> HIDE DEF o, e
  <2> QED BY <1>2, <2>1, <2>2, <2>3
<1> HIDE DEF o
<1>5. d \in Scans
  BY <1>2, <1>4 DEF Scans
<1>6. /\ d.pc = "indexed" /\ d.total = s.total /\ d.from = s.from /\ d.outputs = o
      /\ d.last = s.last
  BY <1>2 DEF Scans
<1> HIDE DEF d
<1>7. Located(f, Len(f), d)
  <2>1. Located(f, Len(f), s)
    BY <1>2, LocatedGrows
  <2>2. CASE s.outputs = << >>
    <3>1. d.outputs = << >> /\ DOMAIN d.outputs = {}
      BY <1>6, <2>2 DEF o, EndOutputs
    <3> QED BY <3>1 DEF Located
  <2>3. CASE s.outputs # << >>
    <3>1. d.outputs = Append(s.outputs, e) /\ e.offset = Position(f, s.last)
          /\ s.last \in 0..Len(f) - 1 /\ d.last = s.last
      BY <1>3, <1>6, <2>3
    <3> HIDE DEF e
    <3>2. ASSUME NEW i \in DOMAIN Append(s.outputs, e)
          PROVE  Append(s.outputs, e)[i] = e \/ (i \in DOMAIN s.outputs
                     /\ Append(s.outputs, e)[i] = s.outputs[i])
      BY <1>2
    <3>3. ASSUME NEW i \in DOMAIN d.outputs
          PROVE  \E k \in 0..Len(f) - 1 : d.outputs[i].offset = Position(f, k)
      BY <2>1, <3>1, <3>2 DEF Located
    <3> QED BY <3>1, <3>3 DEF Located
  <2> QED BY <2>2, <2>3
<1>8. ASSUME d.outputs # << >>
      PROVE  \E k \in 1..Len(f), out \in Seq(TimeIndexes) : IndexOf(f, d.outputs, k, out)
  <2>1. s.outputs # << >>
    BY <1>6, <1>8 DEF o, EndOutputs
  <2>2. Progress(f, a, s) /\ (a = Len(f) \/ s.total < Position(f, a + 1))
    BY <1>1, <1>8, <2>1 DEF Reading, GaveUp
  <2>3. PICK out \in Seq(TimeIndexes) : ScannedTo(f, a, s, out)
    BY <2>2 DEF Progress
  <2>4. out # << >> /\ s.outputs = Placed(f, out)
    BY <2>1, <2>3, PlacedFacts DEF ScannedTo
  <2>5. a >= 1 /\ s.last \in 0..a - 1 /\ LastTimed(f, a, s.last)
    BY <1>2, <2>3, <2>4, ProgressHasLine
  <2>6. a = Len(f)
    <3>1. ASSUME a # Len(f) PROVE FALSE
      <4> DEFINE j == a + 1
      <4>1. j \in Nat /\ j <= Len(f)
        BY <1>2, <3>1
      <4>2. s.total < Position(f, j)
        BY <2>2, <3>1
      <4> HIDE DEF j
      <4>3. Position(f, j) <= Position(f, Len(f)) /\ Position(f, j) \in Nat
        BY <1>2, <4>1, PositionOrder
      <4> QED BY <1>2, <4>2, <4>3
    <3> QED BY <3>1
  <2>7. d.outputs = Append(Placed(f, out), e)
    BY <1>3, <1>6, <2>1, <2>4
  <2>8. IndexOf(f, d.outputs, a, out)
    BY <1>1, <2>3, <2>4, <2>5, <2>6, <2>7 DEF IndexOf, ScannedTo, Reading
  <2> QED BY <1>2, <2>5, <2>8
<1>9. s.total <= Position(f, Len(f)) /\ s.from <= s.total
  BY DEF ScanOK
<1> QED BY <1>5, <1>6, <1>7, <1>8, <1>9 DEF ScanOK, IsIndex, d, o

LEMMA UnscannedOK ==
    ASSUME NEW f \in Seq(Lines)
    PROVE  ScanOK(f, Unscanned)
<1>1. Unscanned \in Scans
  BY BuilderAssumption, EmptySeq DEF Unscanned, Scans, NoLine
<1>2. Position(f, 0) = 0 /\ Len(f) \in Nat /\ Position(f, Len(f)) \in Nat
      /\ Position(f, 0 + 1) \in Nat
  <2>1. 0 + 1 \in Nat /\ Len(f) \in Nat
    OBVIOUS
  <2> QED BY <2>1, PositionStep, PositionZero
<1>3. /\ Unscanned.outputs = << >> /\ Unscanned.total = 0 /\ Unscanned.from = 0
      /\ Unscanned.pc = "reading" /\ Unscanned.bucket = 0
  BY DEF Unscanned
<1>4. NoLong(f, 0) /\ Located(f, 0, Unscanned)
  BY <1>3 DEF NoLong, Located
<1>5. ScannedTo(f, 0, Unscanned, << >>)
  <2>1. Placed(f, << >>) = << >>
    BY EmptySeq, PlacedFacts
  <2>2. Scanned(f, << >>, 0) /\ OffsetsUnder(<< >>, 0)
    BY DEF Scanned, EntriesPoint, EntriesAreSpaced, EntriesCover, OffsetsUnder
  <2> QED BY <1>3, <2>1, <2>2 DEF ScannedTo
<1>6. Progress(f, 0, Unscanned)
  BY <1>5, EmptySeq DEF Progress
<1>7. 0 = Len(f) \/ Unscanned.total < Position(f, 0 + 1)
  <2>1. Position(f, 0 + 1) = 0 + (IF Line(f, 0).long THEN LongSize ELSE 2)
    <3>1. Position(f, 0 + 1) = Position(f, 0) + (IF Line(f, 0).long THEN LongSize ELSE 2)
      BY PositionStep
    <3> QED BY <1>2, <3>1
  <2>2. Position(f, 0 + 1) > 0
    BY <2>1, SizeFacts
  <2> QED BY <1>3, <2>2
<1>8. Reading(f, 0, Unscanned)
  BY <1>2, <1>3, <1>4, <1>6, <1>7 DEF Reading
<1> QED BY <1>1, <1>2, <1>3, <1>8 DEF ScanOK

-----------------------------------------------------------------------------
(* The index that a scan leaves.                                            *)

LEMMA SeenLines ==
    ASSUME Len(file) \in Nat, NEW n \in 1..Len(file), NoLong(file, n),
           n = Len(file) \/ Line(file, n).long
    PROVE  Seen = 0..n - 1 /\ (Seen = 0..Len(file) - 1 <=> n = Len(file))
<1>1. ASSUME NEW k \in 0..Len(file) - 1
      PROVE  (\A j \in 0..k : ~LineAt(j).long) <=> k \in 0..n - 1
  <2>1. \A j : LineAt(j) = Line(file, j)
    BY DEF LineAt, Line
  <2>2. ASSUME k \in 0..n - 1, NEW j \in 0..k PROVE ~LineAt(j).long
    <3>1. j \in 0..n - 1
      BY <2>2
    <3> QED BY <2>1, <3>1 DEF NoLong
  <2>3. ASSUME k \notin 0..n - 1 PROVE \E j \in 0..k : LineAt(j).long
    <3>1. n \in 0..k /\ n # Len(file)
      BY <2>3
    <3> QED BY <2>1, <3>1
  <2> QED BY <2>2, <2>3
<1>2. 0..n - 1 \subseteq 0..Len(file) - 1
  OBVIOUS
<1>3. Seen = 0..n - 1
  BY <1>1, <1>2 DEF Seen
<1>4. ASSUME 0..n - 1 = 0..Len(file) - 1 PROVE n = Len(file)
  <2>1. Len(file) - 1 \in 0..n - 1
    BY <1>4
  <2> QED BY <2>1
<1> QED BY <1>3, <1>4

LEMMA WordsOfFile ==
    ASSUME Len(file) \in Nat
    PROVE  /\ \A k : Findable(k) <=> Indexable(file, k)
           /\ \A k : IsBucketFirst(k) <=> FirstOf(file, k)
           /\ \A b, n : Crowded(b, n) <=> CrowdedIn(file, b, n)
           /\ \A s, b, n : LeadsToFirst(s, b, n) <=> Leads(file, s, b, n)
<1>1. \A k : Findable(k) <=> Indexable(file, k)
  BY DEF Findable, Timed, Indexable, Line, LineAt
<1>2. \A k : Line(file, k) = LineAt(k)
  BY DEF Line, LineAt
<1>3. \A k : IsBucketFirst(k) <=> FirstOf(file, k)
  BY <1>1, <1>2 DEF IsBucketFirst, FirstOf
<1>4. \A b, n : BucketLines(b, n) = Crowd(file, b, n)
  BY <1>1, <1>2 DEF BucketLines, Crowd
<1>5. \A b, n : Crowded(b, n) <=> CrowdedIn(file, b, n)
  BY <1>4 DEF Crowded, CrowdedIn
<1>6. \A s, b, n : LeadsToFirst(s, b, n) <=> Leads(file, s, b, n)
  BY <1>5 DEF LeadsToFirst, Leads
<1> QED BY <1>1, <1>3, <1>5, <1>6

LEMMA LastTimedIsChosen ==
    ASSUME NEW n \in Nat, Seen = 0..n - 1, NEW l, LastTimed(file, n, l)
    PROVE  (CHOOSE k \in Seen : Timed(k) /\ \A j \in Seen : j > k => ~Timed(j)) = l
<1> DEFINE P(k) == Timed(k) /\ \A j \in Seen : j > k => ~Timed(j)
<1>1. \A k : Timed(k) <=> Line(file, k).ts # 0
  BY DEF Timed, LineAt, Line
<1>2. l \in Seen /\ P(l)
  BY <1>1 DEF LastTimed
<1>3. ASSUME NEW k \in Seen, P(k) PROVE k = l
  <2>1. k \in Nat /\ l \in Nat
    BY <1>2
  <2>2. ~(l > k) /\ ~(k > l)
    BY <1>2, <1>3
  <2> QED BY <2>1, <2>2
<1>4. \A k \in Seen : P(k) <=> k = l
  BY <1>2, <1>3
<1> HIDE DEF P
<1>5. (CHOOSE k \in Seen : P(k)) = l
  BY <1>2, <1>4
<1> QED BY <1>5 DEF P

(* Its entries are placed at the first lines of buckets, or of crowded ones *)
(* ...                                                                      *)
LEMMA PlacedEntry ==
    ASSUME file \in Seq(Lines), NEW n \in Nat, n <= Len(file), Seen = 0..n - 1,
           NEW out \in Seq(TimeIndexes), Scanned(file, out, n), OffsetsUnder(out, n),
           NEW i \in DOMAIN Placed(file, out)
    PROVE  \E k \in Seen : /\ Findable(k)
                           /\ Placed(file, out)[i]
                                = [timestamp |-> BucketOf(LineAt(k).ts), offset |-> Start(k)]
                           /\ IsBucketFirst(k) \/ Crowded(BucketOf(LineAt(k).ts), k + 1)
<1> DEFINE k == out[i].offset
<1>1. i \in DOMAIN out /\ Placed(file, out)[i] = [timestamp |-> out[i].timestamp,
                                                  offset |-> Position(file, k)]
  BY DEF Placed
<1>2. /\ k \in 0..n - 1 /\ Indexable(file, k)
      /\ FirstOf(file, k) \/ CrowdedIn(file, BucketOf(Line(file, k).ts), k + 1)
      /\ out[i] = EntryOf(file, k)
  BY <1>1, EntryIsFirst DEF OffsetsUnder
<1>3. out[i].timestamp = BucketOf(LineAt(k).ts)
  BY <1>2 DEF EntryOf, LineAt, Line
<1>4. Line(file, k) = LineAt(k) /\ Start(k) = Position(file, k)
  BY StartIsPosition DEF Line, LineAt
<1>5. Len(file) \in Nat
  OBVIOUS
<1> HIDE DEF k
<1> QED BY <1>1, <1>2, <1>3, <1>4, <1>5, WordsOfFile

(* ... with none of the first lines left out, in the order of the stream.   *)
LEMMA PlacedFirst ==
    ASSUME file \in Seq(Lines), NEW n \in Nat, n <= Len(file),
           NEW out \in Seq(TimeIndexes), out # << >>, Scanned(file, out, n),
           NEW k \in 0..n - 1, IsBucketFirst(k)
    PROVE  \E i \in DOMAIN Placed(file, out) :
              Placed(file, out)[i] = [timestamp |-> BucketOf(LineAt(k).ts), offset |-> Start(k)]
<1>1. Len(file) \in Nat
  OBVIOUS
<1>2. PICK i \in DOMAIN out : out[i] = EntryOf(file, k)
  BY <1>1, FirstHasEntry, WordsOfFile
<1>3. i \in 1..Len(out) /\ out[i].timestamp = BucketOf(Line(file, k).ts) /\ out[i].offset = k
  BY <1>2 DEF EntryOf
<1>4. Placed(file, out)[i] = [timestamp |-> out[i].timestamp, offset |-> Position(file, k)]
      /\ i \in DOMAIN Placed(file, out)
  BY <1>3 DEF Placed
<1>5. Line(file, k) = LineAt(k) /\ Start(k) = Position(file, k)
  BY StartIsPosition DEF Line, LineAt
<1> QED BY <1>3, <1>4, <1>5

LEMMA PlacedIncreases ==
    ASSUME NEW f \in Seq(Lines), NEW n \in Nat, NEW out \in Seq(TimeIndexes), Scanned(f, out, n)
    PROVE  \A i, j \in DOMAIN Placed(f, out) :
              i < j => Placed(f, out)[i].offset < Placed(f, out)[j].offset
<1> SUFFICES ASSUME NEW i \in DOMAIN Placed(f, out), NEW j \in DOMAIN Placed(f, out), i < j
             PROVE  Placed(f, out)[i].offset < Placed(f, out)[j].offset
  OBVIOUS
<1> DEFINE a == out[i].offset
           b == out[j].offset
<1>1. /\ i \in DOMAIN out /\ j \in DOMAIN out
      /\ Placed(f, out)[i].offset = Position(f, a) /\ Placed(f, out)[j].offset = Position(f, b)
  BY DEF Placed
<1>2. a \in Nat /\ b \in Nat /\ a < b
  BY <1>1, EntryFacts DEF Scanned, EntriesAreSpaced
<1> HIDE DEF a, b
<1>3. /\ Position(f, a) + 2 <= Position(f, b)
      /\ Position(f, a) \in Nat /\ Position(f, b) \in Nat
  BY <1>2, PositionOrder
<1> QED BY <1>1, <1>3

LEMMA CanonicalIndex ==
    ASSUME PackedInv
    PROVE  GzipIndexIsCanonical
<1>1. SUFFICES ASSUME packed, scan.pc = "indexed", scan.outputs # << >>
      PROVE  GzipIndexIsCanonical
  BY DEF GzipIndexIsCanonical
<1>2. file \in Seq(Lines) /\ Len(file) \in Nat /\ ScanOK(file, scan)
  BY DEF PackedInv
<1>3. PICK n \in 1..Len(file), out \in Seq(TimeIndexes) : IndexOf(file, scan.outputs, n, out)
  BY <1>1, <1>2 DEF ScanOK, IsIndex
<1>4. /\ n \in Nat /\ n <= Len(file) /\ NoLong(file, n) /\ Scanned(file, out, n)
      /\ OffsetsUnder(out, n) /\ out # << >> /\ (n = Len(file) \/ Line(file, n).long)
  BY <1>2, <1>3 DEF IndexOf
<1>5. Seen = 0..n - 1 /\ (Seen = 0..Len(file) - 1 <=> n = Len(file))
  BY <1>2, <1>4, SeenLines
<1> DEFINE whole == Seen = 0..Len(file) - 1
           body == IF whole THEN Front(scan.outputs) ELSE scan.outputs
           end == CHOOSE k \in Seen : Timed(k) /\ \A j \in Seen : j > k => ~Timed(j)
           final == [timestamp |-> LineAt(end).ts, offset |-> Start(end)]
<1>6. body = Placed(file, out) /\ (whole => Final(scan.outputs) = final)
  <2>1. CASE n = Len(file)
    <3>1. PICK l \in 0..n - 1 :
            /\ LastTimed(file, n, l)
            /\ scan.outputs = Append(Placed(file, out), [timestamp |-> Line(file, l).ts,
                                                         offset |-> Position(file, l)])
      BY <1>3, <2>1 DEF IndexOf
    <3>2. end = l
      BY <1>4, <1>5, <3>1, LastTimedIsChosen
    <3>3. LineAt(l).ts = Line(file, l).ts /\ Start(l) = Position(file, l)
      BY StartIsPosition DEF LineAt, Line
    <3>4. Line(file, l).ts \in Nat /\ Position(file, l) \in Nat
      BY <1>2, <1>4, LineFacts, PositionStep
    <3> HIDE DEF end
    <3>5. scan.outputs = Append(Placed(file, out), final) /\ final \in TimeIndexes
      BY <3>1, <3>2, <3>3, <3>4 DEF TimeIndexes
    <3>6. Placed(file, out) \in Seq(TimeIndexes)
      BY PlacedFacts
    <3> HIDE DEF final
    <3>7. /\ Front(Append(Placed(file, out), final)) = Placed(file, out)
          /\ Final(Append(Placed(file, out), final)) = final
      <4> DEFINE P == Placed(file, out)
      <4>1. P \in Seq(TimeIndexes) /\ final \in TimeIndexes
        BY <3>5, <3>6
      <4> HIDE DEF P
      <4>2. Len(Append(P, final)) = Len(P) + 1 /\ Append(P, final)[Len(P) + 1] = final
        BY <4>1
      <4>3. SubSeq(Append(P, final), 1, Len(Append(P, final)) - 1) = P
        BY <4>1
      <4> QED BY <4>2, <4>3 DEF P, Front, Final
    <3> QED BY <1>5, <2>1, <3>5, <3>7
  <2>2. CASE n # Len(file)
    <3>1. scan.outputs = Placed(file, out)
      BY <1>3, <2>2 DEF IndexOf
    <3> QED BY <1>5, <2>2, <3>1
  <2> QED BY <2>1, <2>2
<1> HIDE DEF body, end, final
<1>7. ASSUME NEW k \in Seen, IsBucketFirst(k)
      PROVE  \E i \in DOMAIN body :
                body[i] = [timestamp |-> BucketOf(LineAt(k).ts), offset |-> Start(k)]
  BY <1>2, <1>4, <1>5, <1>6, <1>7, PlacedFirst
<1>8. ASSUME NEW i \in DOMAIN body
      PROVE  \E k \in Seen :
                /\ Findable(k)
                /\ body[i] = [timestamp |-> BucketOf(LineAt(k).ts), offset |-> Start(k)]
                /\ IsBucketFirst(k) \/ Crowded(BucketOf(LineAt(k).ts), k + 1)
  BY <1>2, <1>4, <1>5, <1>6, PlacedEntry
<1>9. \A i, j \in DOMAIN body : i < j => body[i].offset < body[j].offset
  BY <1>2, <1>4, <1>6, PlacedIncreases
<1>10. whole => Final(scan.outputs) = final
  BY <1>6
<1> QED BY <1>7, <1>8, <1>9, <1>10 DEF GzipIndexIsCanonical, body, final, end

-----------------------------------------------------------------------------
(* Where a search begins.                                                   *)

LEMMA IndexEntries ==
    ASSUME NEW f, NEW idx, NEW n, NEW out \in Seq(TimeIndexes), IndexOf(f, idx, n, out)
    PROVE  /\ Len(idx) \in Nat /\ Len(idx) - 1 <= Len(out)
           /\ \A i \in 1..Len(out) : /\ idx[i].timestamp = out[i].timestamp
                                     /\ idx[i].offset = Position(f, out[i].offset)
<1> DEFINE P == Placed(f, out)
<1>1. /\ P \in Seq(TimeIndexes) /\ Len(P) = Len(out)
      /\ \A i \in 1..Len(out) : /\ P[i].timestamp = out[i].timestamp
                                /\ P[i].offset = Position(f, out[i].offset)
  BY PlacedFacts
<1>2. idx = P \/ \E e : idx = Append(P, e)
  BY DEF IndexOf
<1> HIDE DEF P
<1>3. ASSUME NEW e, idx = Append(P, e)
      PROVE  Len(idx) = Len(out) + 1 /\ \A i \in 1..Len(out) : idx[i] = P[i]
  BY <1>1, <1>3
<1>4. CASE idx = P
  BY <1>1, <1>4
<1>5. CASE \E e : idx = Append(P, e)
  <2>1. Len(idx) = Len(out) + 1 /\ \A i \in 1..Len(out) : idx[i] = P[i]
    BY <1>3, <1>5
  <2> QED BY <1>1, <2>1
<1> QED BY <1>2, <1>4, <1>5

LEMMA FirstSegmentLeads ==
    ASSUME NEW f \in Seq(Lines), TimesAreOrdered(f), NEW idx, NEW n \in 1..Len(f),
           NEW out \in Seq(TimeIndexes), IndexOf(f, idx, n, out), NEW s \in Nat, NEW e \in Nat,
           Sees(f, s), NEW i \in CoveringSegments(idx, s, e),
           \A j \in CoveringSegments(idx, s, e) : i <= j
    PROVE  \E a \in 0..Len(f) : idx[i].offset = Position(f, a) /\ NoHeader(f, 0, a, s, e)
<1> DEFINE a == out[i].offset
<1>1. /\ Len(idx) \in Nat /\ Len(idx) - 1 <= Len(out)
      /\ \A j \in 1..Len(out) : /\ idx[j].timestamp = out[j].timestamp
                                /\ idx[j].offset = Position(f, out[j].offset)
  BY IndexEntries
<1>2. i \in 1..Len(idx) - 1 /\ i \in 1..Len(out)
  BY <1>1 DEF CoveringSegments
<1>3. /\ NoLong(f, n) /\ Scanned(f, out, n) /\ n \in Nat /\ Len(f) \in Nat
      /\ \A j \in 1..Len(out) : /\ out[j].offset \in Nat /\ out[j].offset < n
                                /\ out[j].timestamp \in Nat
  BY EntryFacts DEF IndexOf, OffsetsUnder
<1>4. a \in 0..Len(f) /\ a < n
  BY <1>2, <1>3
<1>5. ASSUME NEW k \in 0..a - 1, InInterval(f, k, s, e) PROVE FALSE
  <2>1. k \in 0..n - 1 /\ k \in Nat /\ k < out[i].offset
    BY <1>4
  <2>2. Indexable(f, k) /\ Line(f, k).ts \in Nat /\ s <= Line(f, k).ts /\ Line(f, k).ts <= e
    <3>1. k < Len(f) /\ ~Line(f, k).long
      BY <1>3, <2>1 DEF NoLong
    <3>2. Line(f, k).ts \in Nat
      BY <2>1, <3>1, LineFacts
    <3> QED BY <1>5, <3>1, <3>2 DEF InInterval, Indexable
  <2> DEFINE S == {j \in 1..Len(out) : out[j].offset <= k}
  <2>3. 1 \in S
    <3>1. 1 \in DOMAIN out
      BY <1>2
    <3>2. out[1].offset <= k
      BY <1>3, <2>1, <2>2, <3>1, EntriesOrderLines
    <3> QED BY <3>1, <3>2
  <2>4. PICK j \in S : \A l \in S : l <= j
    <3>1. S \subseteq 0..Len(out) /\ S # {} /\ Len(out) \in Nat
      BY <2>3
    <3> HIDE DEF S
    <3> QED BY <3>1, LargestExists
  <2>5. j \in 1..Len(out) /\ out[j].offset <= k
    OBVIOUS
  <2>6. j < i
    <3>1. ASSUME ~(j < i) PROVE FALSE
      <4>1. i = j \/ i < j
        BY <1>2, <2>5, <3>1
      <4>2. out[i].offset <= out[j].offset
        BY <1>2, <1>3, <2>5, <4>1 DEF Scanned, EntriesAreSpaced
      <4>3. out[i].offset \in Nat /\ out[j].offset \in Nat
        BY <1>2, <1>3, <2>5
      <4> QED BY <2>1, <2>5, <4>2, <4>3
    <3> QED BY <3>1
  <2> DEFINE m == j + 1
  <2>7. m \in 1..Len(out) /\ ~(out[m].offset <= k)
    <3>1. m \in 1..Len(out) /\ ~(m <= j)
      BY <1>2, <2>5, <2>6
    <3> HIDE DEF m
    <3> QED BY <2>4, <3>1
  <2>8. out[j].timestamp <= Line(f, k).ts /\ s <= out[m].timestamp
    <3> HIDE DEF m
    <3>1. k < out[m].offset /\ out[m].offset \in Nat /\ out[m].timestamp \in Nat
          /\ out[m].offset < n
      BY <1>3, <2>1, <2>7
    <3>2. /\ out[j].timestamp <= Line(f, k).ts
          /\ Precedes(f, k, out[m].timestamp, out[m].offset + 1)
      BY <1>3, <2>1, <2>2, <2>5, <2>7, <3>1, EntriesOrderLines
    <3> DEFINE z == Len(f) - 1
    <3>3. z \in Nat /\ out[m].offset <= z /\ z + 1 = Len(f) /\ z + 1 \in Nat
      BY <1>3, <3>1
    <3> HIDE DEF z
    <3>4. Precedes(f, k, out[m].timestamp, z + 1)
      BY <3>1, <3>2, <3>3, PrecedesLater
    <3>5. Leads(f, s, BucketOf(Line(f, k).ts), z + 1)
      BY <2>2, <3>3, LeadsFromStart DEF Sees
    <3>6. s <= out[m].timestamp
      BY <2>2, <3>1, <3>3, <3>4, <3>5, PrecedesMeets
    <3> QED BY <3>2, <3>6
  <2>9. j \in CoveringSegments(idx, s, e)
    <3>1. idx[j].timestamp <= e /\ idx[m].timestamp >= s
      <4> HIDE DEF m
      <4>1. idx[j].timestamp = out[j].timestamp /\ idx[m].timestamp = out[m].timestamp
        BY <1>1, <2>5, <2>7
      <4>2. out[j].timestamp \in Nat /\ out[m].timestamp \in Nat
        BY <1>3, <2>5, <2>7
      <4> QED BY <2>2, <2>8, <4>1, <4>2
    <3>2. j \in 1..Len(idx) - 1
      BY <1>2, <2>5, <2>6
    <3> QED BY <3>1, <3>2 DEF CoveringSegments, TimestampCovers
  <2> QED BY <1>2, <2>5, <2>6, <2>9
<1>6. NoHeader(f, 0, a, s, e)
  BY <1>5 DEF NoHeader
<1>7. idx[i].offset = Position(f, a)
  BY <1>1, <1>2
<1> QED BY <1>4, <1>6, <1>7

StartsAt(f, start, s, e) ==
    \E a \in 0..Len(f) : start = Position(f, a) /\ (Sees(f, s) => NoHeader(f, 0, a, s, e))

LEMMA StartLeads ==
    ASSUME NEW f \in Seq(Lines), TimesAreOrdered(f), NEW s, ScanOK(f, s), s.pc = "indexed",
           s.outputs # << >>, NEW x \in Nat, NEW y \in Nat, IndexFound(s.outputs, x, y)
    PROVE  /\ StartsAt(f, IndexStartPos(s.outputs, x, y), x, y)
           /\ IndexEndPos(s.outputs, x, y) \in Nat
<1> DEFINE idx == s.outputs
<1>1. idx \in Seq(TimeIndexes) /\ Located(f, Len(f), s)
  BY DEF ScanOK, Scans
<1>2. PICK i \in 1..Len(idx) - 1, j \in 1..Len(idx) - 1 : Ranges(idx, x, y, i, j)
  BY <1>1, RangeExists
<1>3. /\ i \in CoveringSegments(idx, x, y) /\ \A k \in CoveringSegments(idx, x, y) : i <= k
      /\ IndexStartPos(idx, x, y) = idx[i].offset /\ IndexEndPos(idx, x, y) = idx[j + 1].offset
  BY <1>2 DEF Ranges
<1>4. idx[j + 1].offset \in Nat
  <2>1. j + 1 \in DOMAIN idx
    BY <1>1
  <2> QED BY <1>1, <2>1, EntryFacts
<1>5. CASE Sees(f, x)
  <2>1. PICK n \in 1..Len(f), out \in Seq(TimeIndexes) : IndexOf(f, idx, n, out)
    BY <1>5 DEF ScanOK, IsIndex
  <2>2. \E a \in 0..Len(f) : idx[i].offset = Position(f, a) /\ NoHeader(f, 0, a, x, y)
    <3> HIDE DEF idx
    <3> QED BY <1>3, <1>5, <2>1, FirstSegmentLeads
  <2> QED BY <1>3, <1>4, <2>2 DEF StartsAt
<1>6. CASE ~Sees(f, x)
  <2>1. i \in DOMAIN idx
    BY <1>1
  <2>2. PICK a \in 0..Len(f) - 1 : idx[i].offset = Position(f, a)
    BY <1>1, <2>1 DEF Located
  <2>3. a \in 0..Len(f)
    OBVIOUS
  <2> QED BY <1>3, <1>4, <1>6, <2>2, <2>3 DEF StartsAt
<1> QED BY <1>5, <1>6

LEMMA NothingParsed ==
    ASSUME NEW f, Len(f) \in 0..MaxLines, NEW c, c.tmp_line = << >>, c.log_lines = << >>,
           c.matched_lines = << >>, NEW a \in 0..Len(f),
           Sees(f, c.start_time) => NoHeader(f, 0, a, c.start_time, c.end_time)
    PROVE  CaughtUp(f, c, a)
<1> DEFINE s == c.start_time
           e == c.end_time
<1>1. Answering(f, s, e, a, << >>, << >>, << >>)
  BY EmptyAnswering
<1>2. ASSUME Sees(f, s) PROVE TakenUpto(f, Len(f), s, e, << >>, << >>, a)
  <2> HIDE DEF s, e
  <2>1. NoHeader(f, 0, a, c.start_time, c.end_time)
    BY <1>2 DEF s
  <2>2. Found(f, Len(f), s, e)[0] = << >>
    BY FoundFacts
  <2>3. Found(f, Len(f), s, e)[a] = Found(f, Len(f), s, e)[0]
    <3> DEFINE n == Len(f)
    <3>1. n \in 0..MaxLines /\ n \in Nat /\ 0 \in 0..n /\ a \in 0..n /\ NoHeader(f, 0, a, s, e)
      BY <2>1, BuilderAssumption DEF s, e
    <3> HIDE DEF n
    <3>2. Found(f, n, s, e)[a] = Found(f, n, s, e)[0]
      BY ONLY <3>1, FoundStays
    <3> QED BY <3>2 DEF n
  <2>4. Exec(f, << >>, << >>) = << >>
    <3>1. << >> \in Seq(FullRecords)
      BY EmptySeq
    <3> QED BY <3>1, ExecNone
  <2> QED BY <2>2, <2>3, <2>4 DEF TakenUpto
<1>3. a - Len(<< >>) = a
  OBVIOUS
<1> QED BY <1>1, <1>2, <1>3 DEF CaughtUp

-----------------------------------------------------------------------------
(* The steps of a search.                                                   *)

LEMMA ReadsFacts ==
    ASSUME Len(file) \in Nat, NEW t \in Nat, t <= Position(file, Len(file)), NEW n \in Reads(t)
    PROVE  /\ n \in Nat /\ n >= 1 /\ n <= BufferSize /\ t + n \in Nat
           /\ t + n <= Position(file, Len(file)) /\ n \in 0..BufferSize
<1> DEFINE P == Position(file, Len(file))
<1>1. P \in Nat /\ StreamSize = P
  BY PositionStep, StartIsPosition DEF StreamSize
<1> HIDE DEF P
<1>2. n \in 1..IF P - t < BufferSize THEN P - t ELSE BufferSize
  BY <1>1 DEF Reads
<1>3. t + n <= P
  BY <1>1, <1>2, SizeFacts DEF P
<1> QED BY <1>1, <1>2, <1>3, SizeFacts DEF P

(* Two contexts that differ in the place of the loop only.                  *)
SameSearch(c, d) ==
    /\ d.start_time = c.start_time /\ d.end_time = c.end_time /\ d.tmp_line = c.tmp_line
    /\ d.log_lines = c.log_lines /\ d.matched_lines = c.matched_lines /\ d.covered = c.covered

LEMMA SameAtLine ==
    ASSUME NEW f, NEW c, NEW d, SameSearch(c, d), NEW p
    PROVE  (CaughtUp(f, c, p) => CaughtUp(f, d, p)) /\ (AtLine(f, c, p) => AtLine(f, d, p))
  BY DEF SameSearch, CaughtUp, AtLine, Full

LEMMA ContextChange ==
    ASSUME NEW c, ContextOK(c), NEW x \in {"flushing", "done"}
    PROVE  /\ ContextOK([c EXCEPT !.pc = x]) /\ SameSearch(c, [c EXCEPT !.pc = x])
           /\ [c EXCEPT !.pc = x].pc = x
<1> DEFINE d == [c EXCEPT !.pc = x]
<1>1. c \in Contexts
  BY DEF ContextOK
<1>2. d.pc = x /\ SameSearch(c, d)
  BY <1>1 DEF Contexts, SameSearch
<1>3. d \in Contexts
  BY <1>1 DEF Contexts
<1> HIDE DEF d
<1>4. ContextOK(d)
  <2>1. d.pc # "reading"
    BY <1>2
  <2> QED BY <1>2, <1>3, <2>1 DEF ContextOK, SameSearch
<1> QED BY <1>2, <1>4 DEF d

(* The search begins at the first segment, or ends without a result.        *)
BeginsAt(q, c, st, d, dst) ==
    /\ SameFields(NoSearch, d) /\ d.start_time = q[1] /\ d.end_time = q[2]
    /\ d.pos = 0 /\ d.end_pos = 0 /\ d.covered = 0
    /\ d.tmp_line = << >> /\ d.log_lines = << >> /\ d.matched_lines = << >>
    /\ \/ d.pc = "done" /\ dst = st
       \/ /\ d.pc = "reading" /\ scan.outputs # << >> /\ IndexFound(scan.outputs, q[1], q[2])
          /\ dst = [pc |-> IF dst.start = 0 THEN "reading" ELSE "skipping", total |-> 0,
                    from |-> 0, start |-> dst.start, end |-> dst.end, lines |-> << >>]
          /\ dst.start = IndexStartPos(scan.outputs, q[1], q[2])
          /\ dst.end = IndexEndPos(scan.outputs, q[1], q[2])

LEMMA GzipStartEffect ==
    ASSUME NEW q, GzipStart(q)
    PROVE  scan.pc = "indexed" /\ UNCHANGED vars /\ BeginsAt(q, ctx, stream, ctx', stream')
<1> DEFINE c == [NoSearch EXCEPT !.start_time = q[1], !.end_time = q[2]]
           start == IndexStartPos(scan.outputs, q[1], q[2])
           stop == IndexEndPos(scan.outputs, q[1], q[2])
           found == scan.outputs # << >> /\ IndexFound(scan.outputs, q[1], q[2])
<1>1. scan.pc = "indexed" /\ UNCHANGED vars
  BY DEF GzipStart
<1>2. CASE found
  <2>1. ctx' = [c EXCEPT !.pc = "reading"]
    BY <1>2 DEF GzipStart
  <2>2. stream' = [NoStream EXCEPT !.start = start,
                     !.pc = IF start = 0 THEN "reading" ELSE "skipping", !.end = stop]
    BY <1>2 DEF GzipStart
  <2> HIDE DEF start, stop, found
  <2>3. stream' = [pc |-> IF start = 0 THEN "reading" ELSE "skipping", total |-> 0,
                   from |-> 0, start |-> start, end |-> stop, lines |-> << >>]
    BY <2>2 DEF NoStream
  <2>4. stream'.start = start /\ stream'.end = stop
    BY <2>3
  <2>5. /\ SameFields(NoSearch, ctx') /\ ctx'.start_time = q[1] /\ ctx'.end_time = q[2]
        /\ ctx'.pos = 0 /\ ctx'.end_pos = 0 /\ ctx'.covered = 0
        /\ ctx'.tmp_line = << >> /\ ctx'.log_lines = << >> /\ ctx'.matched_lines = << >>
        /\ ctx'.pc = "reading"
    BY <2>1 DEF NoSearch, SameFields
  <2> QED BY <1>1, <1>2, <2>3, <2>4, <2>5 DEF BeginsAt, start, stop, found
<1>3. CASE ~found
  <2>1. ctx' = [c EXCEPT !.pc = "done"] /\ stream' = stream
    BY <1>3 DEF GzipStart
  <2>2. /\ SameFields(NoSearch, ctx') /\ ctx'.start_time = q[1] /\ ctx'.end_time = q[2]
        /\ ctx'.pos = 0 /\ ctx'.end_pos = 0 /\ ctx'.covered = 0
        /\ ctx'.tmp_line = << >> /\ ctx'.log_lines = << >> /\ ctx'.matched_lines = << >>
        /\ ctx'.pc = "done"
    BY <2>1 DEF NoSearch, SameFields
  <2> QED BY <1>1, <2>1, <2>2 DEF BeginsAt
<1> QED BY <1>2, <1>3

LEMMA NoAnswer ==
    ASSUME NEW f, Len(f) \in 0..MaxLines, NEW s, NEW e
    PROVE  AreRecords(f, << >>, s, e) /\ FirstOfScan(f, << >>, s, e)
<1>1. << >> \in Seq(FullRecords) /\ MaxResults \in Nat
  BY EmptySeq, SearchAssumption
<1>2. Len(Upto(<< >>, MaxResults)) = 0 /\ Upto(<< >>, MaxResults) \in Seq(FullRecords)
  <2>1. Len(Upto(<< >>, MaxResults))
            = IF Len(<< >>) <= MaxResults THEN Len(<< >>) ELSE MaxResults
    BY <1>1, UptoFacts
  <2>2. Upto(<< >>, MaxResults) \in Seq(FullRecords)
    BY <1>1, UptoFacts
  <2>3. Len(<< >>) <= MaxResults
    BY <1>1
  <2> QED BY <2>1, <2>2, <2>3
<1>3. Upto(<< >>, MaxResults) = << >>
  BY <1>2, EmptySeq
<1>4. AreRecords(f, << >>, s, e)
  BY <1>3 DEF AreRecords
<1>5. Found(f, Len(f), s, e)[Len(f)] \in Seq(FullRecords)
  <2> DEFINE n == Len(f)
  <2>1. n \in 0..MaxLines /\ n \in 0..n
    BY BuilderAssumption
  <2> HIDE DEF n
  <2>2. Found(f, n, s, e)[n] \in Seq(FullRecords)
    BY <2>1, FoundFacts
  <2> QED BY <2>2 DEF n
<1>6. FirstOfScan(f, << >>, s, e)
  <2>1. Len(Found(f, Len(f), s, e)[Len(f)]) \in Nat
    BY <1>5
  <2> QED BY <1>3, <2>1 DEF FirstOfScan
<1> QED BY <1>4, <1>6

LEMMA FileLength ==
    ASSUME PackedInv
    PROVE  /\ file \in Seq(Lines) /\ Len(file) \in 0..MaxLines /\ Len(file) \in Nat
           /\ Len(file) <= MaxLines /\ TimesAreOrdered(file)
  BY BuilderAssumption DEF PackedInv

LEMMA NoStreamOK ==
    ASSUME NEW f, Len(f) \in Nat
    PROVE  StreamOK(f, NoStream)
<1>1. NoStream \in Streams
  BY EmptySeq DEF NoStream, Streams
<1>2. Position(f, Len(f)) \in Nat
  BY PositionStep
<1>3. NoStream.pc = "none" /\ NoStream.total = 0
  BY DEF NoStream
<1> QED BY <1>1, <1>2, <1>3 DEF StreamOK

LEMMA GzipStartKeeps ==
    ASSUME PackedInv, NEW q \in Queries, GzipStart(q)
    PROVE  ContextOK(ctx') /\ StreamOK(file, stream') /\ Follows(file, ctx', stream')
<1> DEFINE d == ctx'
           st == stream'
<1>1. scan.pc = "indexed" /\ BeginsAt(q, ctx, stream, d, st)
  BY GzipStartEffect
<1>2. q[1] \in Nat /\ q[2] \in Nat
  BY SearchAssumption
<1>3. /\ SameFields(NoSearch, d) /\ d.start_time = q[1] /\ d.end_time = q[2]
      /\ d.pos = 0 /\ d.end_pos = 0 /\ d.covered = 0
      /\ d.tmp_line = << >> /\ d.log_lines = << >> /\ d.matched_lines = << >>
      /\ d.pc \in {"reading", "done"}
  BY <1>1 DEF BeginsAt
<1> HIDE DEF d, st
<1>4. ContextOK(d)
  <2>1. 0 \in 0..MaxLines /\ << >> \in Records /\ << >> \in Seq(FullRecords)
    BY BuilderAssumption, EmptySeq DEF Records
  <2>2. d \in Contexts
    <3>1. /\ d.pc \in {"idle", "reading", "flushing", "done"} /\ d.start_time \in Nat
          /\ d.end_time \in Nat /\ d.pos \in 0..MaxLines /\ d.end_pos \in 0..MaxLines
          /\ d.tmp_line \in Records /\ d.log_lines \in Seq(FullRecords)
          /\ d.matched_lines \in Seq(FullRecords) /\ d.covered \in Nat
      BY <1>2, <1>3, <2>1
    <3>2. SameFields(NoSearch, d)
      BY <1>3
    <3> QED BY ONLY <3>1, <3>2, ContextFrom
  <2>3. Len(d.log_lines) = 0 /\ MaxBatch \in Nat /\ MaxBatch > 0
    BY <1>3, SearchAssumption
  <2> QED BY <1>3, <2>2, <2>3 DEF ContextOK
<1>5. CASE d.pc = "done"
  <2>1. st = stream
    BY <1>1, <1>5 DEF BeginsAt
  <2>2. StreamOK(file, st)
    BY <2>1 DEF PackedInv
  <2>3. AreRecords(file, << >>, q[1], q[2]) /\ FirstOfScan(file, << >>, q[1], q[2])
    BY FileLength, NoAnswer
  <2>4. Follows(file, d, st)
    BY <1>3, <1>5, <2>3 DEF Follows
  <2> QED BY <1>4, <2>2, <2>4 DEF d, st
<1>6. CASE d.pc = "reading"
  <2> DEFINE start == IndexStartPos(scan.outputs, q[1], q[2])
             stop == IndexEndPos(scan.outputs, q[1], q[2])
  <2>1. /\ scan.outputs # << >> /\ IndexFound(scan.outputs, q[1], q[2])
        /\ st = [pc |-> IF st.start = 0 THEN "reading" ELSE "skipping", total |-> 0,
                 from |-> 0, start |-> st.start, end |-> st.end, lines |-> << >>]
        /\ st.start = start /\ st.end = stop
    BY <1>1, <1>6 DEF BeginsAt
  <2>2. StartsAt(file, start, q[1], q[2]) /\ stop \in Nat
    BY <1>1, <1>2, <2>1, FileLength, StartLeads DEF PackedInv
  <2> HIDE DEF start, stop
  <2>3. PICK a \in 0..Len(file) : /\ start = Position(file, a)
                                  /\ Sees(file, q[1]) => NoHeader(file, 0, a, q[1], q[2])
    BY <2>2 DEF StartsAt
  <2>4. CaughtUp(file, d, a)
    BY <1>3, <2>3, FileLength, NothingParsed
  <2>5. a \in Nat /\ start \in Nat /\ 0 <= Position(file, Len(file)) /\ Position(file, 0) = 0
        /\ Len(file) \in Nat /\ 0 \in 0..Len(file)
    <3>1. a \in Nat /\ Len(file) \in Nat
      BY FileLength
    <3>2. Position(file, a) \in Nat /\ Position(file, Len(file)) \in Nat
      BY <3>1, PositionStep
    <3> QED BY <2>3, <3>1, <3>2, PositionZero
  <2>6. /\ st.pc = (IF start = 0 THEN "reading" ELSE "skipping") /\ st.total = 0 /\ st.from = 0
        /\ st.start = start /\ st.end = stop /\ st.lines = << >>
    BY <2>1
  <2>7. st \in Streams
    <3>1. << >> \in Seq(0..MaxLines)
      BY EmptySeq
    <3>2. [pc |-> IF start = 0 THEN "reading" ELSE "skipping", total |-> 0,
           from |-> 0, start |-> start, end |-> stop, lines |-> << >>] \in Streams
      BY <2>2, <2>5, <3>1 DEF Streams
    <3> QED BY <2>1, <3>2
  <2>8. CASE start = 0
    <3>1. a = 0
      BY <2>3, <2>5, <2>8, PositionOrder
    <3>2. Span(0, 0) = << >>
      BY SpanLength
    <3>3. AtLine(file, d, 0) /\ 0 <= 0
      BY <2>4, <3>1 DEF AtLine
    <3>4. Follows(file, d, st)
      BY <1>6, <2>5, <2>6, <2>8, <3>2, <3>3 DEF Follows
    <3>5. StreamOK(file, st)
      BY <2>5, <2>6, <2>7, <2>8 DEF StreamOK
    <3> QED BY <1>4, <3>4, <3>5 DEF d, st
  <2>9. CASE start # 0
    <3>1. Follows(file, d, st)
      BY <1>3, <1>6, <2>3, <2>4, <2>6, <2>9 DEF Follows
    <3>2. StreamOK(file, st)
      BY <2>3, <2>5, <2>6, <2>7, <2>9 DEF StreamOK
    <3> QED BY <1>4, <3>1, <3>2 DEF d, st
  <2> QED BY <2>8, <2>9
<1> QED BY <1>3, <1>5, <1>6

LEMMA SkippedStream ==
    ASSUME NEW n \in Nat, stream \in Streams
    PROVE  /\ Skipped(n) \in Streams /\ Skipped(n).total = stream.total + n
           /\ Skipped(n).from = stream.start /\ Skipped(n).start = stream.start
           /\ Skipped(n).lines = stream.lines
           /\ \/ Skipped(n).pc = "reading" /\ stream.total + n >= stream.start
              \/ Skipped(n).pc = "skipping" /\ ~(stream.total + n >= stream.start)
<1> DEFINE to == stream.total + n
           pc == IF to >= stream.start THEN "reading" ELSE "skipping"
           d == [stream EXCEPT !.total = to, !.pc = pc, !.from = stream.start]
<1>1. Skipped(n) = d
  BY DEF Skipped
<1>2. to \in Nat /\ pc \in {"skipping", "reading"} /\ stream.start \in Nat
  BY DEF Streams
<1>3. \/ pc = "reading" /\ to >= stream.start
      \/ pc = "skipping" /\ ~(to >= stream.start)
  OBVIOUS
<1> HIDE DEF to, pc
<1>4. d \in Streams
  BY <1>2 DEF Streams
<1>5. /\ d.total = to /\ d.from = stream.start /\ d.start = stream.start
      /\ d.lines = stream.lines /\ d.pc = pc
  BY DEF Streams
<1> HIDE DEF d
<1> QED BY <1>1, <1>3, <1>4, <1>5 DEF to

LEMMA SkipKeeps ==
    ASSUME PackedInv, SkipChunk
    PROVE  ContextOK(ctx') /\ StreamOK(file, stream') /\ Follows(file, ctx', stream')
<1>1. ctx.pc = "reading" /\ stream.pc = "skipping"
  BY DEF SkipChunk
<1>2. ContextOK(ctx) /\ StreamOK(file, stream) /\ Follows(file, ctx, stream)
  BY DEF PackedInv
<1>3. stream.lines = << >> /\ ctx.matched_lines = << >>
  BY <1>1, <1>2 DEF Follows
<1>4. PICK a \in 0..Len(file) : stream.start = Position(file, a) /\ CaughtUp(file, ctx, a)
  BY <1>1, <1>2 DEF Follows
<1>5. PICK n \in Reads(stream.total) :
        IF n < BufferSize /\ n < stream.start - stream.total THEN Fail
        ELSE stream' = Skipped(n) /\ UNCHANGED ctx
  BY DEF SkipChunk
<1>6. stream \in Streams /\ stream.total \in Nat /\ stream.total <= Position(file, Len(file))
  BY <1>2 DEF StreamOK, Streams
<1>7. n \in Nat /\ stream.total + n \in Nat /\ stream.total + n <= Position(file, Len(file))
  BY <1>6, FileLength, ReadsFacts
<1>8. CASE Fail
  <2>1. ctx' = [ctx EXCEPT !.pc = "done"] /\ stream' = stream
    BY <1>8 DEF Fail
  <2>2. ContextOK(ctx') /\ SameSearch(ctx, ctx') /\ ctx'.pc = "done"
    BY <1>2, <2>1, ContextChange
  <2>3. ctx'.matched_lines = << >>
    BY <1>3, <2>2 DEF SameSearch
  <2>4. /\ AreRecords(file, << >>, ctx'.start_time, ctx'.end_time)
        /\ FirstOfScan(file, << >>, ctx'.start_time, ctx'.end_time)
    BY FileLength, NoAnswer
  <2>5. Follows(file, ctx', stream')
    BY <2>2, <2>3, <2>4 DEF Follows
  <2> QED BY <1>2, <2>1, <2>2, <2>5
<1>9. CASE stream' = Skipped(n) /\ ctx' = ctx
  <2> DEFINE st == stream'
  <2>1. /\ st \in Streams /\ st.total = stream.total + n
        /\ st.from = stream.start /\ st.start = stream.start /\ st.lines = << >>
        /\ \/ st.pc = "reading" /\ stream.total + n >= stream.start
           \/ st.pc = "skipping" /\ ~(stream.total + n >= stream.start)
    BY <1>3, <1>6, <1>7, <1>9, SkippedStream
  <2> HIDE DEF st
  <2>2. a \in Nat /\ stream.start \in Nat
    BY <1>6, FileLength DEF Streams
  <2>3. StreamOK(file, st)
    BY <1>4, <1>7, <2>1, <2>2 DEF StreamOK
  <2>4. Follows(file, ctx, st)
    <3>1. Span(a, a) = << >> /\ a <= a /\ AtLine(file, ctx, a)
      BY <1>4, <2>2, SpanLength DEF AtLine
    <3>2. CASE st.pc = "reading"
      BY <1>1, <1>4, <2>1, <3>1, <3>2 DEF Follows
    <3>3. CASE st.pc = "skipping"
      BY <1>1, <1>3, <1>4, <2>1, <3>3 DEF Follows
    <3> QED BY <2>1, <3>2, <3>3
  <2> QED BY <1>2, <1>9, <2>3, <2>4 DEF st
<1> QED BY <1>5, <1>8, <1>9

LEMMA SpanInFile ==
    ASSUME NEW a \in Nat, NEW b \in Nat, a <= b, b <= MaxLines
    PROVE  Span(a, b) \in Seq(0..MaxLines)
<1>1. CASE a < b
  <2>1. b \in 0..MaxLines + 1
    BY BuilderAssumption
  <2> QED BY <1>1, <2>1, SpanType DEF FullRecords, Records
<1>2. CASE a = b
  BY <1>2, SpanLength, EmptySeq
<1> QED BY <1>1, <1>2

LEMMA SpanTail ==
    ASSUME NEW a \in Nat, NEW b \in Nat, a < b
    PROVE  Head(Span(a, b)) = a /\ Tail(Span(a, b)) = Span(a + 1, b)
<1> DEFINE S == Span(a, b)
           T == Span(a + 1, b)
<1>1. /\ S \in Seq(a..b - 1) /\ Len(S) = b - a /\ S # << >>
      /\ \A i \in 1..b - a : S[i] = a + i - 1
  BY SpanFacts
<1>2. /\ T \in Seq(a + 1..b - 1) /\ Len(T) = b - (a + 1)
      /\ \A i \in 1..b - (a + 1) : T[i] = a + 1 + i - 1
  BY SpanLength
<1> HIDE DEF S, T
<1>3. Head(S) = a
  BY <1>1
<1>4. /\ Tail(S) \in Seq(a..b - 1) /\ Len(Tail(S)) = b - (a + 1)
      /\ \A i \in 1..b - (a + 1) : Tail(S)[i] = S[i + 1]
  BY <1>1
<1>5. \A i \in 1..b - (a + 1) : Tail(S)[i] = T[i]
  BY <1>1, <1>2, <1>4
<1>6. Tail(S) \in Seq(Nat) /\ T \in Seq(Nat)
  <2>1. ASSUME NEW c \in Nat, NEW d \in Int, NEW U \in Seq(c..d) PROVE U \in Seq(Nat)
    OBVIOUS
  <2> QED BY <1>2, <1>4, <2>1
<1>7. Tail(S) = T
  BY <1>2, <1>4, <1>5, <1>6, SeqEqual
<1> QED BY <1>3, <1>7 DEF S, T

ReadUpto(c, d, st, u, to) ==
    IF to - st.from > MaxCarry
    THEN d = [c EXCEPT !.pc = "flushing"] /\ u = st
    ELSE /\ u = [st EXCEPT !.total = to, !.lines = LinesBetween(st.from, to),
                           !.from = RestFrom(st.from, to)]
         /\ d = c

LEMMA ReadChunkEffect ==
    ASSUME ReadChunk
    PROVE  \E n \in Reads(stream.total) : ReadUpto(ctx, ctx', stream, stream', stream.total + n)
<1>1. PICK n \in Reads(stream.total) :
        LET to == stream.total + n IN
        IF to - stream.from > MaxCarry
        THEN ctx' = [ctx EXCEPT !.pc = "flushing"] /\ UNCHANGED stream
        ELSE /\ stream' = [stream EXCEPT !.total = to,
                             !.lines = LinesBetween(stream.from, to),
                             !.from = RestFrom(stream.from, to)]
             /\ UNCHANGED ctx
  BY DEF ReadChunk
<1>2. ReadUpto(ctx, ctx', stream, stream', stream.total + n)
  BY <1>1 DEF ReadUpto
<1> QED BY <1>2

LEMMA ReadChunkKeeps ==
    ASSUME PackedInv, ReadChunk
    PROVE  ContextOK(ctx') /\ StreamOK(file, stream') /\ Follows(file, ctx', stream')
<1>1. ctx.pc = "reading" /\ stream.pc = "reading" /\ stream.lines = << >>
  BY DEF ReadChunk
<1>2. ContextOK(ctx) /\ StreamOK(file, stream) /\ Follows(file, ctx, stream)
  BY DEF PackedInv
<1>3. PICK b \in 0..Len(file), p \in 0..Len(file) :
        /\ p <= b /\ stream.from = Position(file, b) /\ stream.lines = Span(p, b)
        /\ AtLine(file, ctx, p)
  BY <1>1, <1>2 DEF Follows
<1>4. b \in Nat /\ Len(file) \in Nat /\ p = b /\ AtLine(file, ctx, b)
  <2>1. b \in Nat /\ p \in Nat /\ Len(file) \in Nat
    BY FileLength
  <2> QED BY <1>1, <1>3, <2>1, SpanLength
<1>5. PICK n \in Reads(stream.total) : ReadUpto(ctx, ctx', stream, stream', stream.total + n)
  BY ReadChunkEffect
<1>6. stream \in Streams /\ stream.total \in Nat /\ stream.total <= Position(file, Len(file))
      /\ stream.start <= stream.from /\ stream.from <= stream.total /\ stream.start \in Nat
  BY <1>1, <1>2 DEF StreamOK, Streams
<1> DEFINE to == stream.total + n
<1>7. n \in Nat /\ to \in Nat /\ to <= Position(file, Len(file))
  BY <1>6, FileLength, ReadsFacts
<1>8. CASE ctx' = [ctx EXCEPT !.pc = "flushing"] /\ stream' = stream
  <2>1. ContextOK(ctx') /\ SameSearch(ctx, ctx') /\ ctx'.pc = "flushing"
    BY <1>2, <1>8, ContextChange
  <2>2. AtLine(file, ctx', b)
    BY <1>4, <2>1, SameAtLine
  <2>3. Follows(file, ctx', stream')
    BY <2>1, <2>2 DEF Follows
  <2> QED BY <1>2, <1>8, <2>1, <2>3
<1>9. CASE /\ stream' = [stream EXCEPT !.total = to, !.lines = LinesBetween(stream.from, to),
                                       !.from = RestFrom(stream.from, to)]
           /\ ctx' = ctx
  <2>0. Position(file, b) <= to /\ Position(file, b) \in Nat
    <3>1. Position(file, b) \in Nat
      BY <1>4, PositionStep
    <3> QED BY <1>3, <1>6, <1>7, <3>1
  <2> HIDE DEF to
  <2>1. PICK m \in 0..Len(file) : Cut(file, b, m, to)
    BY <1>4, <1>7, <2>0, CutExists
  <2>2. b <= m /\ Position(file, m) <= to /\ m \in Nat /\ m <= MaxLines
    <3>1. Len(file) <= MaxLines /\ MaxLines \in Nat
      BY FileLength, BuilderAssumption
    <3>2. b <= m /\ Position(file, m) <= to
      BY <2>1 DEF Cut
    <3>3. m \in Nat /\ m <= Len(file)
      BY <1>4
    <3> QED BY <1>4, <3>1, <3>2, <3>3
  <2>3. LinesBetween(stream.from, to) = Span(b, m) /\ RestFrom(stream.from, to) = Position(file, m)
    BY <1>3, <1>4, <1>7, <2>1, CutLines, CutRest
  <2>4. Position(file, m) \in Nat /\ Position(file, b) <= Position(file, m)
    BY <1>4, <2>2, PositionOrder
  <2>5. Span(b, m) \in Seq(0..MaxLines)
    BY <1>4, <2>2, SpanInFile
  <2> DEFINE st == stream'
  <2>6. /\ st \in Streams /\ st.total = to /\ st.lines = Span(b, m)
        /\ st.from = Position(file, m) /\ st.pc = "reading" /\ st.start = stream.start
    <3> DEFINE pm == Position(file, m)
               ll == Span(b, m)
    <3>1. st = [stream EXCEPT !.total = to, !.lines = ll, !.from = pm]
      BY <1>9, <2>3
    <3>2. to \in Nat /\ pm \in Nat /\ ll \in Seq(0..MaxLines)
      BY <1>7, <2>4, <2>5
    <3> HIDE DEF pm, ll, st
    <3>3. /\ st \in Streams /\ st.total = to /\ st.lines = ll
          /\ st.from = pm /\ st.pc = stream.pc /\ st.start = stream.start
      BY <1>6, <3>1, <3>2 DEF Streams
    <3> QED BY <1>1, <3>3 DEF pm, ll
  <2> HIDE DEF st
  <2>7. StreamOK(file, st)
    <3>1. st.start <= st.from /\ st.from <= st.total
      BY <1>3, <1>6, <2>0, <2>2, <2>4, <2>6
    <3> QED BY <1>7, <2>1, <2>6, <3>1 DEF StreamOK
  <2>8. Follows(file, ctx, st)
    BY <1>1, <1>3, <1>4, <2>1, <2>2, <2>6 DEF Follows
  <2> QED BY <1>2, <1>9, <2>7, <2>8 DEF st
<1> QED BY <1>5, <1>8, <1>9 DEF ReadUpto

(* Enough results are the same whatever else is searched.                   *)
LEMMA ExecFull ==
    ASSUME NEW R, NEW f, NEW matched \in Seq(R), NEW records \in Seq(R),
           Len(matched) >= MaxResults
    PROVE  /\ Upto(Exec(f, matched, records), MaxResults) = Upto(matched, MaxResults)
           /\ Len(Exec(f, matched, records)) >= MaxResults
<1> DEFINE t == Taken(f, matched, records)
           N == Len(records)
           U(x) == Upto(x, MaxResults)
           g == [k \in 0..N |-> U(matched)]
           h == [k \in 0..N |-> U(t[k])]
<1>1. N \in Nat /\ MaxResults \in Nat /\ \A n \in 1..N : records[n] \in R
  BY SearchAssumption
<1>2. /\ t[0] = matched /\ \A n \in 0..N : t[n] \in Seq(R)
      /\ \A n \in 1..N : t[n] = TakeNext(f, n, t[n - 1], records[n])
  <2>1. TakesInTurn(t, R, f, matched, records)
    BY TakenIsRecursive
  <2> QED BY <2>1 DEF TakesInTurn
<1>3. Exec(f, matched, records) = t[N]
  BY DEF Exec
<1>4. \A x, y \in Seq(R) :
        /\ U(x) = U(y) /\ Len(x) >= MaxResults => Len(y) >= MaxResults
        /\ Len(x) >= MaxResults => \A r \in R : U(Append(x, r)) = U(x)
  BY <1>1, UptoLength, UptoFull
<1>5. /\ \A k \in 0..N : g[k] = U(matched) /\ h[k] = U(t[k])
      /\ \A k \in 1..N : k - 1 \in 0..N /\ k \in 0..N
  BY <1>1
<1> HIDE DEF t, N, U, g, h
<1>6. ASSUME NEW k \in 1..N, g[k - 1] = h[k - 1] PROVE g[k] = h[k]
  <2>1. U(t[k - 1]) = U(matched) /\ t[k - 1] \in Seq(R)
    BY <1>2, <1>5, <1>6
  <2>2. Len(t[k - 1]) >= MaxResults
    BY <1>4, <2>1
  <2>3. U(t[k]) = U(t[k - 1])
    <3>1. U(Append(t[k - 1], records[k])) = U(t[k - 1])
      BY <1>1, <1>4, <2>1, <2>2
    <3> QED BY <1>2, <3>1 DEF TakeNext
  <2> QED BY <1>5, <2>1, <2>3
<1>7. g[0] = h[0] /\ N \in 0..N
  BY <1>1, <1>2, <1>5
<1>8. Agree(N, g, h)
  BY ONLY <1>1, <1>6, <1>7, RecursionAgrees
<1>9. U(t[N]) = U(matched)
  BY <1>5, <1>7, <1>8 DEF Agree
<1>10. Len(t[N]) >= MaxResults
  BY <1>2, <1>4, <1>7, <1>9
<1> QED BY <1>3, <1>9, <1>10 DEF U

(* With enough results, they are those of a scan of the whole file.         *)
LEMMA CaughtUpFull ==
    ASSUME NEW f, Len(f) \in 0..MaxLines, NEW c, c.tmp_line \in Records,
           c.log_lines \in Seq(FullRecords), c.matched_lines \in Seq(FullRecords),
           NEW p \in 0..Len(f), CaughtUp(f, c, p), Len(c.matched_lines) >= MaxResults
    PROVE  Full(f, c)
<1> DEFINE n == Len(f)
           s == c.start_time
           e == c.end_time
           T == c.tmp_line
           L == c.log_lines
           M == c.matched_lines
           k == p - Len(T)
<1>1. Answering(f, s, e, p, T, L, M)
  BY DEF CaughtUp
<1>2. n \in Nat /\ n \in 0..MaxLines /\ MaxResults \in Nat /\ n \in 0..n
  BY BuilderAssumption, SearchAssumption
<1>3. k \in 0..n /\ k \in Nat
  <2>1. T = << >> => Len(T) = 0
    OBVIOUS
  <2>2. T # << >> => k \in 0..p - 1
    BY <1>1 DEF Answering, PendingIsRecord
  <2> HIDE DEF T
  <2> QED BY <1>2, <2>1, <2>2
<1>4. ASSUME Sees(f, s) PROVE TakenUpto(f, n, s, e, M, << >>, n)
  <2>1. TakenUpto(f, n, s, e, M, L, k)
    BY <1>4 DEF CaughtUp
  <2> HIDE DEF n, s, e, L, M, k
  <2>2. L \in Seq(FullRecords) /\ M \in Seq(FullRecords) /\ Len(M) >= MaxResults
    BY DEF L, M
  <2>3. Upto(Exec(f, M, L), MaxResults) = Upto(M, MaxResults)
    BY <2>2, ExecFull
  <2>4. Upto(M, MaxResults) = Upto(Found(f, n, s, e)[k], MaxResults)
    BY <2>1, <2>3 DEF TakenUpto
  <2>5. Found(f, n, s, e)[k] \in Seq(FullRecords)
    BY <1>2, <1>3, FoundFacts
  <2>6. Len(Found(f, n, s, e)[k]) >= MaxResults
    BY <1>2, <2>2, <2>4, <2>5, UptoLength
  <2>7. n \in k..n
    BY <1>2, <1>3
  <2>8. Upto(Found(f, n, s, e)[n], MaxResults) = Upto(Found(f, n, s, e)[k], MaxResults)
    BY <1>2, <1>3, <2>6, <2>7, FoundFull
  <2>9. Exec(f, M, << >>) = M
    BY <2>2, ExecNone
  <2> QED BY <2>4, <2>8, <2>9 DEF TakenUpto
<1>5. AreRecords(f, M, s, e)
  BY <1>1 DEF Answering
<1> QED BY <1>4, <1>5 DEF Full

LEMMA FullStays ==
    ASSUME NEW f, NEW c, NEW d, c.matched_lines \in Seq(FullRecords),
           NEW L \in Seq(FullRecords), Full(f, c),
           d.start_time = c.start_time, d.end_time = c.end_time,
           d.matched_lines = Exec(f, c.matched_lines, L)
    PROVE  Full(f, d)
<1> DEFINE M == c.matched_lines
           E == Exec(f, M, L)
           s == c.start_time
           e == c.end_time
<1>1. E \in Seq(FullRecords) /\ M \in Seq(FullRecords) /\ Len(M) >= MaxResults
  BY ExecType DEF Full
<1>2. Upto(E, MaxResults) = Upto(M, MaxResults) /\ Len(E) >= MaxResults
  BY <1>1, ExecFull
<1>3. Exec(f, M, << >>) = M
  BY <1>1, ExecNone
<1> HIDE DEF E
<1>4. Exec(f, E, << >>) = E
  BY <1>1, ExecNone
<1>5. AreRecords(f, E, s, e)
  <2>1. AreRecords(f, M, s, e)
    BY DEF Full
  <2> QED BY <1>1, <1>2, <2>1, AlikeAreRecords
<1>6. ASSUME Sees(f, s) PROVE TakenUpto(f, Len(f), s, e, E, << >>, Len(f))
  <2>1. TakenUpto(f, Len(f), s, e, M, << >>, Len(f))
    BY <1>6 DEF Full
  <2> QED BY <1>2, <1>3, <1>4, <2>1 DEF TakenUpto
<1>7. d.matched_lines = E /\ d.start_time = s /\ d.end_time = e
  BY DEF E
<1> QED BY <1>2, <1>5, <1>6, <1>7 DEF Full

(* A search after line k of a chunk.                                        *)
LineParsed(f, c, k, d) ==
    LET K == NewLog(f, c.start_time, k, c.tmp_line, c.log_lines) IN
    /\ d.start_time = c.start_time /\ d.end_time = c.end_time /\ d.covered = c.covered
    /\ d.end_pos = c.end_pos /\ d.pos = k /\ d.pc = c.pc
    /\ d.tmp_line = NewTemp(f, c.start_time, c.end_time, k, c.tmp_line)
    /\ \/ Len(K) < MaxBatch /\ d.log_lines = K /\ d.matched_lines = c.matched_lines
       \/ /\ ~(Len(K) < MaxBatch) /\ d.log_lines = << >>
          /\ d.matched_lines = Exec(f, c.matched_lines, K)

LEMMA LineIsParsed ==
    ASSUME ctx \in Contexts, ParseChunkLine, Head(stream.lines) \in 0..MaxLines
    PROVE  SameFields(NoSearch, ctx') /\ LineParsed(file, ctx, Head(stream.lines), ctx')
<1> DEFINE k == Head(stream.lines)
           c == [ctx EXCEPT !.pos = k]
           d == ParseLine(c)
           searched == [d EXCEPT !.matched_lines = ExecSearchers(@, d.log_lines),
                                 !.log_lines = << >>]
<1>1. ctx' = IF Len(d.log_lines) < MaxBatch THEN d ELSE searched
  BY DEF ParseChunkLine
<1> HIDE DEF k
<1>2. /\ c \in Contexts /\ c.pos = k /\ c.pc = ctx.pc /\ c.start_time = ctx.start_time
      /\ c.end_time = ctx.end_time /\ c.end_pos = ctx.end_pos /\ c.covered = ctx.covered
      /\ c.tmp_line = ctx.tmp_line /\ c.log_lines = ctx.log_lines
      /\ c.matched_lines = ctx.matched_lines
  BY DEF Contexts, k
<1> HIDE DEF c
<1>3. /\ SameFields(c, d) /\ Parsed(file, c, d) /\ d.pc = c.pc /\ d.pos = c.pos
      /\ d.matched_lines = c.matched_lines /\ d.log_lines = NextLog(file, c)
  BY <1>2, ParsedFields
<1> DEFINE K == NewLog(file, ctx.start_time, k, ctx.tmp_line, ctx.log_lines)
           E == Exec(file, ctx.matched_lines, K)
<1>4. NextLog(file, c) = K
  BY <1>2 DEF NextLog
<1>5. SameFields(NoSearch, d)
  BY <1>2, <1>3, ContextFields
<1> HIDE DEF d
<1>6. /\ d.pc = ctx.pc /\ d.pos = k /\ d.start_time = ctx.start_time
      /\ d.end_time = ctx.end_time /\ d.end_pos = ctx.end_pos /\ d.covered = ctx.covered
      /\ d.tmp_line = NewTemp(file, ctx.start_time, ctx.end_time, k, ctx.tmp_line)
      /\ d.matched_lines = ctx.matched_lines /\ d.log_lines = K
  BY <1>2, <1>3, <1>4 DEF Parsed
<1>7. ExecSearchers(ctx.matched_lines, K) = E
  BY ExecIsExecSearchers
<1> HIDE DEF K, E
<1>8. /\ SameFields(NoSearch, searched)
      /\ searched.pc = d.pc /\ searched.pos = d.pos /\ searched.start_time = d.start_time
      /\ searched.end_time = d.end_time /\ searched.end_pos = d.end_pos
      /\ searched.covered = d.covered /\ searched.tmp_line = d.tmp_line
      /\ searched.matched_lines = E /\ searched.log_lines = << >>
  <2>1. searched = [d EXCEPT !.matched_lines = E, !.log_lines = << >>]
    BY <1>6, <1>7
  <2> HIDE DEF searched
  <2> QED BY <1>5, <2>1 DEF SameFields, NoSearch
<1> HIDE DEF searched
<1>9. CASE Len(K) < MaxBatch
  <2>1. ctx' = d
    BY <1>1, <1>6, <1>9
  <2> QED BY <1>5, <1>6, <1>9, <2>1 DEF LineParsed, K, k
<1>10. CASE ~(Len(K) < MaxBatch)
  <2>1. ctx' = searched
    BY <1>1, <1>6, <1>10
  <2> QED BY <1>6, <1>8, <1>10, <2>1 DEF LineParsed, K, E, k
<1> QED BY <1>9, <1>10

LEMMA LineTypes ==
    ASSUME NEW f, NEW c, ContextOK(c), c.pc = "reading", NEW k \in 0..MaxLines, NEW d,
           SameFields(NoSearch, d), LineParsed(f, c, k, d)
    PROVE  ContextOK(d) /\ d.pc = "reading"
<1> DEFINE K == NewLog(f, c.start_time, k, c.tmp_line, c.log_lines)
           E == Exec(f, c.matched_lines, K)
<1>1. /\ c.start_time \in Nat /\ c.end_time \in Nat /\ c.end_pos \in 0..MaxLines
      /\ c.covered = 0 /\ c.tmp_line \in Records /\ c.log_lines \in Seq(FullRecords)
      /\ c.matched_lines \in Seq(FullRecords) /\ Len(c.log_lines) < MaxBatch
  BY DEF ContextOK, Contexts
<1>2. /\ NewTemp(f, c.start_time, c.end_time, k, c.tmp_line) \in Records
      /\ K \in Seq(FullRecords)
  BY <1>1, ParseTypes
<1>3. E \in Seq(FullRecords) /\ << >> \in Seq(FullRecords)
  BY <1>1, <1>2, ExecType, EmptySeq
<1>4. /\ d.start_time = c.start_time /\ d.end_time = c.end_time /\ d.covered = c.covered
      /\ d.end_pos = c.end_pos /\ d.pos = k /\ d.pc = c.pc
      /\ d.tmp_line = NewTemp(f, c.start_time, c.end_time, k, c.tmp_line)
      /\ \/ Len(K) < MaxBatch /\ d.log_lines = K /\ d.matched_lines = c.matched_lines
         \/ d.log_lines = << >> /\ d.matched_lines = E
  BY DEF LineParsed
<1> HIDE DEF K, E
<1>5. /\ d.log_lines \in Seq(FullRecords) /\ d.matched_lines \in Seq(FullRecords)
      /\ Len(d.log_lines) < MaxBatch
  <2>1. MaxBatch \in Nat /\ MaxBatch > 0 /\ Len(<< >>) = 0
    BY SearchAssumption
  <2> QED BY <1>1, <1>2, <1>3, <1>4, <2>1
<1>6. d \in Contexts
  <2>1. /\ d.pc \in {"idle", "reading", "flushing", "done"} /\ d.start_time \in Nat
        /\ d.end_time \in Nat /\ d.pos \in 0..MaxLines /\ d.end_pos \in 0..MaxLines
        /\ d.tmp_line \in Records /\ d.log_lines \in Seq(FullRecords)
        /\ d.matched_lines \in Seq(FullRecords) /\ d.covered \in Nat
    BY <1>1, <1>2, <1>4, <1>5
  <2>2. SameFields(NoSearch, d)
    OBVIOUS
  <2> QED BY ONLY <2>1, <2>2, ContextFrom
<1>7. Len(d.log_lines) \in Nat /\ MaxBatch \in Nat
  BY <1>5, SearchAssumption
<1> QED BY <1>1, <1>4, <1>5, <1>6, <1>7 DEF ContextOK

(* A line of the file is parsed, and its chunk left when there are enough.  *)
LEMMA LineAtLine ==
    ASSUME NEW f \in Seq(Lines), Len(f) <= MaxLines, TimesAreOrdered(f), NEW c, c \in Contexts,
           NEW p \in 0..Len(f) - 1, AtLine(f, c, p), NEW d, LineParsed(f, c, p, d)
    PROVE  AtLine(f, d, p + 1) /\ (Len(d.matched_lines) >= MaxResults => Full(f, d))
<1> DEFINE s == c.start_time
           e == c.end_time
           T == c.tmp_line
           L == c.log_lines
           M == c.matched_lines
           N == NewTemp(f, s, e, p, T)
           K == NewLog(f, s, p, T, L)
           E == Exec(f, M, K)
           n == Len(f)
           q == p + 1
<1>1. /\ s \in Nat /\ e \in Nat /\ T \in Records /\ L \in Seq(FullRecords)
      /\ M \in Seq(FullRecords)
  BY DEF Contexts
<1>2. /\ n \in Nat /\ n \in 0..MaxLines /\ p \in 0..MaxLines /\ p < n /\ p \in Nat
      /\ q \in 0..n /\ n <= Len(f)
  BY BuilderAssumption
<1>3. N \in Records /\ K \in Seq(FullRecords)
  BY <1>1, <1>2, ParseTypes
<1>4. E \in Seq(FullRecords) /\ << >> \in Seq(FullRecords)
  BY <1>1, <1>3, ExecType, EmptySeq
<1>5. /\ d.start_time = s /\ d.end_time = e /\ d.tmp_line = N
      /\ \/ d.log_lines = K /\ d.matched_lines = M
         \/ d.log_lines = << >> /\ d.matched_lines = E
  BY DEF LineParsed
<1>6. CASE Full(f, c)
  <2>1. Exec(f, M, << >>) = M
    BY <1>1, ExecNone
  <2>2. \E J \in Seq(FullRecords) : d.matched_lines = Exec(f, M, J)
    BY <1>3, <1>4, <1>5, <2>1
  <2>3. Full(f, d)
    BY <1>1, <1>5, <1>6, <2>2, FullStays
  <2> QED BY <2>3 DEF AtLine
<1>7. CASE CaughtUp(f, c, p)
  <2>1. Answering(f, s, e, p, T, L, M)
    BY <1>7 DEF CaughtUp
  <2>2. Answering(f, s, e, p + 1, N, K, M)
    BY <1>1, <1>2, <2>1, ParseAnswering
  <2>3. ASSUME Sees(f, s) PROVE TakenUpto(f, n, s, e, M, K, p + 1 - Len(N))
    <3>1. TakenUpto(f, n, s, e, M, L, p - Len(T)) /\ PendingIsRecord(f, s, e, p, T)
      BY <1>7, <2>1, <2>3 DEF CaughtUp, Answering
    <3>2. p \in 0..n - 1
      OBVIOUS
    <3> HIDE DEF s, e, T, L, M, n
    <3> QED BY <1>1, <1>2, <3>1, <3>2, ParseFollows
  <2>4. Exec(f, E, << >>) = E
    BY <1>4, ExecNone
  <2> HIDE DEF s, e, T, L, M, N, K, n
  <2>5. Answering(f, s, e, p + 1, N, << >>, E)
    <3> HIDE DEF E
    <3>1. AreRecords(f, E, s, e) /\ PendingIsRecord(f, s, e, p + 1, N)
      BY <2>2 DEF Answering, E
    <3> QED BY <2>4, <3>1 DEF Answering
  <2>6. Sees(f, s) => TakenUpto(f, n, s, e, E, << >>, p + 1 - Len(N))
    BY <2>3, <2>4 DEF TakenUpto
  <2>7. CaughtUp(f, d, p + 1)
    BY <1>5, <2>2, <2>3, <2>5, <2>6 DEF CaughtUp, n
  <2>8. d.tmp_line \in Records /\ d.log_lines \in Seq(FullRecords)
        /\ d.matched_lines \in Seq(FullRecords)
    BY <1>1, <1>3, <1>4, <1>5
  <2>9. Len(d.matched_lines) >= MaxResults => Full(f, d)
    <3>1. CaughtUp(f, d, q) /\ Len(f) \in 0..MaxLines /\ q \in 0..Len(f)
      BY <1>2, <2>7 DEF n
    <3> HIDE DEF q
    <3> QED BY <2>8, <3>1, CaughtUpFull
  <2> QED BY <2>7, <2>9 DEF AtLine
<1> QED BY <1>6, <1>7 DEF AtLine

LEMMA ParseChunkKeeps ==
    ASSUME PackedInv, ParseChunkLine
    PROVE  ContextOK(ctx') /\ StreamOK(file, stream') /\ Follows(file, ctx', stream')
<1> DEFINE d == ctx'
           st == stream'
<1>1. ctx.pc = "reading" /\ stream.pc = "reading" /\ stream.lines # << >>
  BY DEF ParseChunkLine
<1>2. ContextOK(ctx) /\ StreamOK(file, stream) /\ Follows(file, ctx, stream)
  BY DEF PackedInv
<1>3. PICK b \in 0..Len(file), p \in 0..Len(file) :
        /\ p <= b /\ stream.from = Position(file, b) /\ stream.lines = Span(p, b)
        /\ AtLine(file, ctx, p)
  BY <1>1, <1>2 DEF Follows
<1>4. /\ file \in Seq(Lines) /\ Len(file) \in Nat /\ Len(file) <= MaxLines
      /\ TimesAreOrdered(file) /\ MaxLines \in Nat
  BY FileLength, BuilderAssumption
<1>5. b \in Nat /\ p \in Nat /\ p < b /\ b <= MaxLines /\ p \in 0..MaxLines
      /\ p \in 0..Len(file) - 1 /\ p + 1 \in 0..Len(file) /\ p + 1 <= b /\ p + 1 \in Nat
  <2>1. b \in Nat /\ p \in Nat
    BY <1>4
  <2>2. p # b
    BY <1>1, <1>3, <2>1, SpanLength
  <2> QED BY <1>3, <1>4, <2>1, <2>2
<1>6. Head(stream.lines) = p /\ Tail(stream.lines) = Span(p + 1, b)
  BY <1>3, <1>5, SpanTail
<1>7. ctx \in Contexts
  BY <1>2 DEF ContextOK
<1>8. SameFields(NoSearch, d) /\ LineParsed(file, ctx, p, d)
  BY <1>5, <1>6, <1>7, LineIsParsed
<1>9. \/ /\ st = [stream EXCEPT !.lines = << >>] /\ Len(d.matched_lines) >= MaxResults
      \/ st = [stream EXCEPT !.lines = Tail(stream.lines)]
  BY DEF ParseChunkLine
<1> HIDE DEF d, st
<1>10. ContextOK(d) /\ d.pc = "reading"
  BY <1>1, <1>2, <1>5, <1>8, LineTypes
<1>11. AtLine(file, d, p + 1) /\ (Len(d.matched_lines) >= MaxResults => Full(file, d))
  BY <1>3, <1>4, <1>5, <1>7, <1>8, LineAtLine
<1>12. ASSUME NEW l \in 0..Len(file), l <= b, AtLine(file, d, l),
              st = [stream EXCEPT !.lines = Span(l, b)]
       PROVE  StreamOK(file, st) /\ Follows(file, d, st)
  <2>1. stream \in Streams
    BY <1>2 DEF StreamOK
  <2>2. Span(l, b) \in Seq(0..MaxLines)
    <3>1. l \in Nat
      BY <1>4
    <3> QED BY <1>5, <1>12, <3>1, SpanInFile
  <2> DEFINE ll == Span(l, b)
  <2> HIDE DEF ll
  <2>3. /\ st \in Streams /\ st.pc = stream.pc /\ st.total = stream.total
        /\ st.from = stream.from /\ st.start = stream.start /\ st.lines = ll
    <3>1. ll \in Seq(0..MaxLines) /\ st = [stream EXCEPT !.lines = ll]
      BY <1>12, <2>2 DEF ll
    <3> QED BY <2>1, <3>1 DEF Streams
  <2>4. StreamOK(file, st)
    BY <1>2, <2>3 DEF StreamOK
  <2>5. Follows(file, d, st)
    BY <1>1, <1>3, <1>10, <1>12, <2>3 DEF Follows, ll
  <2> QED BY <2>4, <2>5
<1>13. CASE st = [stream EXCEPT !.lines = << >>] /\ Len(d.matched_lines) >= MaxResults
  <2>1. Span(b, b) = << >>
    BY <1>5, SpanLength
  <2>2. AtLine(file, d, b) /\ b <= b
    BY <1>5, <1>11, <1>13 DEF AtLine
  <2> QED BY <1>10, <1>12, <1>13, <2>1, <2>2 DEF d, st
<1>14. CASE st = [stream EXCEPT !.lines = Tail(stream.lines)]
  <2> DEFINE l == p + 1
  <2>1. l \in 0..Len(file) /\ l <= b /\ AtLine(file, d, l)
        /\ st = [stream EXCEPT !.lines = Span(l, b)]
    BY <1>5, <1>6, <1>11, <1>14
  <2> HIDE DEF l
  <2> QED BY <1>10, <1>12, <2>1 DEF d, st
<1> QED BY <1>9, <1>13, <1>14

LEMMA ReadEndKeeps ==
    ASSUME PackedInv, ReadEnd
    PROVE  ContextOK(ctx') /\ StreamOK(file, stream') /\ Follows(file, ctx', stream')
<1>1. ctx.pc = "reading" /\ stream.pc = "reading" /\ stream' = stream
      /\ ctx' = [ctx EXCEPT !.pc = "flushing"]
  BY DEF ReadEnd
<1>2. ContextOK(ctx) /\ StreamOK(file, stream) /\ Follows(file, ctx, stream)
  BY DEF PackedInv
<1>3. PICK b \in 0..Len(file), p \in 0..Len(file) : AtLine(file, ctx, p)
  BY <1>1, <1>2 DEF Follows
<1>4. ContextOK(ctx') /\ SameSearch(ctx, ctx') /\ ctx'.pc = "flushing"
  BY <1>1, <1>2, ContextChange
<1>5. AtLine(file, ctx', p)
  BY <1>3, <1>4, SameAtLine
<1>6. Follows(file, ctx', stream')
  BY <1>4, <1>5 DEF Follows
<1> QED BY <1>1, <1>2, <1>4, <1>6

-----------------------------------------------------------------------------
(* The answer is the beginning of a scan's.                                 *)

Begins(A, B) == Len(A) <= Len(B) /\ \A i \in 1..Len(A) : A[i] = B[i]

(* All but the last, which begins the one of a scan.                        *)
NearlyBegins(A, B) ==
    /\ Len(A) <= Len(B) /\ \A i \in 1..Len(A) : i < Len(A) => A[i] = B[i]
    /\ Len(A) > 0 => IsPrefix(A[Len(A)], B[Len(A)])

LEMMA FoundBegins ==
    ASSUME NEW f, NEW n \in 0..MaxLines, NEW s, NEW e, NEW a \in 0..n
    PROVE  Begins(Found(f, n, s, e)[a], Found(f, n, s, e)[n])
<1> DEFINE t == Found(f, n, s, e)
           m == n - a
           G == {j \in 0..m : Begins(t[a], t[a + j])}
<1>1. n \in Nat /\ a \in Nat /\ m \in Nat /\ a + m = n /\ a + 0 = a
  BY BuilderAssumption
<1>2. /\ \A k \in 0..n : t[k] \in Seq(FullRecords)
      /\ \A k \in 0..n - 1 : t[k + 1] = FindNext(f, n, s, e, k, t[k])
  <2>1. \A k \in 0..n : t[k] \in Seq(FullRecords)
    BY FoundFacts
  <2>2. \A k \in 0..n - 1 : t[k + 1] = FindNext(f, n, s, e, k, t[k])
    BY FoundFacts
  <2> QED BY <2>1, <2>2
<1> HIDE DEF t
<1>3. 0 \in G
  <2>1. Begins(t[a], t[a])
    BY <1>2 DEF Begins
  <2> QED BY <1>1, <2>1
<1>4. ASSUME NEW j \in 0..m - 1, j \in G PROVE j + 1 \in G
  <2> DEFINE k == a + j
  <2>1. k \in 0..n - 1 /\ k \in 0..n /\ a + (j + 1) = k + 1 /\ j + 1 \in 0..m
    BY <1>1
  <2>2. Begins(t[a], t[k])
    BY <1>4
  <2> HIDE DEF k
  <2>3. t[k + 1] = t[k] \/ \E r \in FullRecords : t[k + 1] = Append(t[k], r)
    <3>1. RecordOf(f, k, n) \in FullRecords
      BY <2>1, RecordFacts
    <3>2. t[k + 1] = FindNext(f, n, s, e, k, t[k])
      BY <1>2, <2>1
    <3> QED BY <3>1, <3>2 DEF FindNext
  <2>4. t[a] \in Seq(FullRecords) /\ t[k] \in Seq(FullRecords)
    BY <1>2, <2>1
  <2>5. ASSUME NEW A \in Seq(FullRecords), NEW B \in Seq(FullRecords), Begins(A, B),
               NEW r \in FullRecords
        PROVE  Begins(A, Append(B, r))
    <3>1. /\ Len(Append(B, r)) = Len(B) + 1 /\ Len(A) \in Nat /\ Len(B) \in Nat
          /\ \A i \in 1..Len(B) : Append(B, r)[i] = B[i]
      OBVIOUS
    <3> QED BY <2>5, <3>1 DEF Begins
  <2>6. Begins(t[a], t[k + 1])
    BY <2>2, <2>3, <2>4, <2>5
  <2> QED BY <2>1, <2>6
<1>5. 0..m \subseteq G
  <2> HIDE DEF G, m
  <2> QED BY <1>1, <1>3, <1>4, CountsUpto
<1>6. m \in G
  BY <1>1, <1>5
<1> QED BY <1>1, <1>6 DEF t

LEMMA SpanPrefix ==
    ASSUME NEW h \in Nat, NEW p \in Nat, NEW q \in Nat, h < p, p <= q
    PROVE  IsPrefix(Span(h, p), Span(h, q))
<1> DEFINE A == Span(h, p)
           B == Span(h, q)
           m == p - h
<1>1. /\ A \in Seq(h..p - 1) /\ Len(A) = m /\ \A i \in 1..m : A[i] = h + i - 1
      /\ B \in Seq(h..q - 1) /\ Len(B) = q - h /\ \A i \in 1..q - h : B[i] = h + i - 1
  <2>1. h < q
    OBVIOUS
  <2> QED BY <2>1, SpanFacts
<1>2. m \in Nat /\ m >= 1 /\ m <= q - h /\ q - h \in Nat
  OBVIOUS
<1>3. A \in Seq(Nat) /\ B \in Seq(Nat)
  <2>1. ASSUME NEW c \in Nat, NEW d \in Int, NEW U \in Seq(c..d) PROVE U \in Seq(Nat)
    OBVIOUS
  <2> QED BY <1>1, <2>1
<1> HIDE DEF A, B, m
<1>4. ASSUME NEW U \in Seq(Nat), m <= Len(U)
      PROVE  /\ SubSeq(U, 1, m) \in Seq(Nat) /\ Len(SubSeq(U, 1, m)) = m
             /\ \A i \in 1..m : SubSeq(U, 1, m)[i] = U[i]
  BY ONLY <1>2, <1>4
<1>5. /\ SubSeq(A, 1, m) \in Seq(Nat) /\ Len(SubSeq(A, 1, m)) = m
      /\ SubSeq(B, 1, m) \in Seq(Nat) /\ Len(SubSeq(B, 1, m)) = m
      /\ \A i \in 1..m : SubSeq(A, 1, m)[i] = A[i]
      /\ \A i \in 1..m : SubSeq(B, 1, m)[i] = B[i]
  <2>1. m <= Len(A) /\ m <= Len(B)
    BY <1>1, <1>2
  <2> QED BY <1>3, <1>4, <2>1
<1>6. \A i \in 1..m : A[i] = B[i]
  BY <1>1, <1>2
<1>7. SubSeq(A, 1, m) = SubSeq(B, 1, m)
  BY <1>5, <1>6, SeqEqual
<1> QED BY <1>1, <1>2, <1>7 DEF IsPrefix, A, B

LEMMA SamePrefix ==
    ASSUME NEW r \in FullRecords
    PROVE  IsPrefix(r, r)
<1>1. Len(r) \in Nat
  BY RecordType
<1> QED BY <1>1 DEF IsPrefix

LEMMA FirstFrom ==
    ASSUME NEW f, Len(f) \in 0..MaxLines, NEW s, NEW e, NEW M,
           NEW A \in Seq(FullRecords), Upto(M, MaxResults) = Upto(A, MaxResults),
           NearlyBegins(A, Found(f, Len(f), s, e)[Len(f)])
    PROVE  FirstOfScan(f, M, s, e)
<1> DEFINE got == Upto(A, MaxResults)
           B == Found(f, Len(f), s, e)[Len(f)]
<1>1. MaxResults \in Nat
  BY SearchAssumption
<1>2. got \in Seq(FullRecords)
  BY <1>1, UptoFacts
<1>3. \A i \in 1..Len(got) : i \in 1..Len(A) /\ got[i] = A[i]
  BY <1>1, UptoFacts
<1>4. Len(got) <= Len(A)
  <2>1. Len(got) = IF Len(A) <= MaxResults THEN Len(A) ELSE MaxResults
    BY <1>1, UptoFacts
  <2> QED BY <1>1, <2>1
<1>5. NearlyBegins(A, B)
  OBVIOUS
<1>6. B \in Seq(FullRecords)
  <2> DEFINE n == Len(f)
  <2>1. n \in 0..MaxLines /\ n \in 0..n
    BY BuilderAssumption
  <2> HIDE DEF n
  <2>2. Found(f, n, s, e)[n] \in Seq(FullRecords)
    BY <2>1, FoundFacts
  <2> QED BY <2>2 DEF n
<1> HIDE DEF got, B
<1>7. Len(got) \in Nat /\ Len(A) \in Nat /\ Len(B) \in Nat /\ Len(A) <= Len(B)
      /\ DOMAIN got = 1..Len(got)
  BY <1>2, <1>5, <1>6 DEF NearlyBegins
<1>8. \A i \in DOMAIN got : i < Len(got) => got[i] = B[i]
  <2> SUFFICES ASSUME NEW i \in DOMAIN got, i < Len(got) PROVE got[i] = B[i]
    OBVIOUS
  <2>1. i \in 1..Len(A) /\ i < Len(A) /\ got[i] = A[i]
    BY <1>3, <1>4, <1>7
  <2> QED BY <1>5, <2>1 DEF NearlyBegins
<1>9. got # << >> => IsPrefix(Last(got), B[Len(got)])
  <2> SUFFICES ASSUME got # << >> PROVE IsPrefix(Last(got), B[Len(got)])
    OBVIOUS
  <2> DEFINE k == Len(got)
  <2>1. k \in 1..Len(got) /\ k \in 1..Len(A) /\ Last(got) = A[k]
    <3>1. Len(got) # 0
      BY <1>2, EmptySeq
    <3>2. k \in 1..Len(got)
      BY <1>7, <3>1
    <3> QED BY <1>3, <3>2 DEF Last
  <2> HIDE DEF k
  <2>2. CASE k = Len(A)
    BY <1>5, <1>7, <2>1, <2>2 DEF NearlyBegins, k
  <2>3. CASE k # Len(A)
    <3>1. A[k] = B[k]
      BY <1>5, <1>7, <2>1, <2>3 DEF NearlyBegins
    <3>2. IsPrefix(A[k], A[k])
      BY <2>1, SamePrefix
    <3> QED BY <2>1, <3>1, <3>2 DEF k
  <2> QED BY <2>2, <2>3
<1>10. Len(got) <= Len(B)
  BY <1>4, <1>7
<1> QED BY <1>8, <1>9, <1>10 DEF FirstOfScan, got, B

LEMMA BeginsNearly ==
    ASSUME NEW A \in Seq(FullRecords), NEW B, Begins(A, B)
    PROVE  NearlyBegins(A, B)
<1>1. Len(A) > 0 => IsPrefix(A[Len(A)], B[Len(A)])
  <2> SUFFICES ASSUME Len(A) > 0 PROVE IsPrefix(A[Len(A)], B[Len(A)])
    OBVIOUS
  <2>1. Len(A) \in 1..Len(A) /\ A[Len(A)] \in FullRecords
    OBVIOUS
  <2>2. IsPrefix(A[Len(A)], A[Len(A)])
    BY <2>1, SamePrefix
  <2> QED BY <2>1, <2>2 DEF Begins
<1> QED BY <1>1 DEF Begins, NearlyBegins

(* The pending record of line p begins the one that a scan finds.           *)
LEMMA PendingBegins ==
    ASSUME NEW f, NEW n \in 0..MaxLines, NEW s, NEW e, NEW h \in 0..n - 1, NEW p \in h + 1..n,
           InInterval(f, h, s, e), Untimed(f, h + 1, p - 1)
    PROVE  NearlyBegins(WithRecord(f, Found(f, n, s, e)[h], Span(h, p)), Found(f, n, s, e)[n])
<1> DEFINE T == Span(h, p)
           q == EndOf(f, h, n)
           R == Span(h, q)
           k == h + 1
           A == Found(f, n, s, e)[h]
           C == Found(f, n, s, e)[k]
           B == Found(f, n, s, e)[n]
<1>1. n \in Nat /\ h \in Nat /\ p \in Nat /\ h < p /\ h \in 0..n /\ k \in 0..n
      /\ p \in 0..MaxLines + 1
  BY BuilderAssumption
<1>2. q \in h + 1..n /\ IsEnd(f, h, n, q)
  BY <1>1, EndExists
<1>3. A \in Seq(FullRecords)
  <2>1. \A i \in 0..n : Found(f, n, s, e)[i] \in Seq(FullRecords)
    BY FoundFacts
  <2> QED BY <1>1, <2>1
<1>4. C = FindNext(f, n, s, e, h, A)
  BY FoundFacts
<1>5. Begins(A, B) /\ Begins(C, B)
  <2>1. Begins(A, B)
    BY <1>1, FoundBegins
  <2> HIDE DEF k
  <2>2. Begins(C, B)
    BY <1>1, FoundBegins
  <2> QED BY <2>1, <2>2
<1>6. T \in FullRecords
  BY <1>1, SpanType
<1> HIDE DEF q
<1>7. q \in Nat /\ p <= q
  <2>1. ASSUME q < p PROVE FALSE
    <3>1. q \in h + 1..p - 1 /\ q # n
      BY <1>1, <1>2, <2>1
    <3>2. Line(f, q).ts # 0
      BY <1>2, <3>1 DEF IsEnd
    <3> QED BY <3>1, <3>2 DEF Untimed
  <2> QED BY <1>1, <1>2, <2>1
<1>8. IsPrefix(T, R)
  BY <1>1, <1>7, SpanPrefix
<1>9. C = IF Hit(f, R) THEN Append(A, R) ELSE A
  BY <1>4 DEF FindNext, RecordOf, q
<1> HIDE DEF A, B, C, k
<1>10. CASE ~Hit(f, T)
  <2>1. WithRecord(f, A, T) = A
    BY <1>10 DEF WithRecord
  <2>2. NearlyBegins(A, B)
    BY <1>3, <1>5, BeginsNearly
  <2> QED BY <2>1, <2>2 DEF A, B
<1>11. CASE Hit(f, T)
  <2>1. Hit(f, R)
    <3>1. PICK i \in DOMAIN T : Line(f, T[i]).hit
      BY <1>11 DEF Hit
    <3>2. i \in 1..p - h /\ i \in 1..q - h
      <4>1. DOMAIN T = 1..p - h
        BY DEF Span
      <4> QED BY <1>1, <1>7, <4>1
    <3>3. T[i] = R[i] /\ i \in DOMAIN R
      BY <3>2 DEF Span
    <3> QED BY <3>1, <3>3 DEF Hit
  <2>2. WithRecord(f, A, T) = Append(A, T) /\ C = Append(A, R)
    BY <1>9, <1>11, <2>1 DEF WithRecord
  <2> HIDE DEF T, R
  <2>3. Begins(Append(A, R), B)
    BY <1>5, <2>2
  <2> DEFINE m == Len(A) + 1
  <2>4. m \in Nat /\ Len(A) = m - 1 /\ Len(Append(A, R)) = m /\ Append(A, R)[m] = R
        /\ \A i \in 1..m - 1 : Append(A, R)[i] = A[i]
    BY <1>3
  <2>5. Len(Append(A, T)) = m /\ Append(A, T)[m] = T
        /\ \A i \in 1..m - 1 : Append(A, T)[i] = A[i]
    BY <1>3
  <2> DEFINE X == Append(A, T)
             Y == Append(A, R)
  <2> HIDE DEF m, X, Y
  <2>6. /\ Len(X) = m /\ X[m] = T /\ \A i \in 1..m - 1 : X[i] = A[i]
        /\ Len(Y) = m /\ Y[m] = R /\ \A i \in 1..m - 1 : Y[i] = A[i]
        /\ m \in Nat /\ m <= Len(B) /\ \A i \in 1..m : Y[i] = B[i]
    BY <2>3, <2>4, <2>5 DEF X, Y, Begins
  <2>7. \A i \in 1..m : i < m => X[i] = B[i]
    <3>1. \A i \in 1..m : i < m => i \in 1..m - 1
      BY <2>6
    <3> QED BY <2>6, <3>1
  <2>8. m > 0 => IsPrefix(X[m], B[m])
    <3>1. m > 0 => m \in 1..m
      BY <2>6
    <3> QED BY <1>8, <2>6, <3>1
  <2>9. NearlyBegins(X, B)
    BY <2>6, <2>7, <2>8 DEF NearlyBegins
  <2> QED BY <2>2, <2>9 DEF A, B, X, T
<1> QED BY <1>10, <1>11

(* What is left is searched: an answer is final.                            *)
LEMMA FlushAnswer ==
    ASSUME NEW f \in Seq(Lines), Len(f) <= MaxLines, NEW c, c \in Contexts,
           NEW p \in 0..Len(f), AtLine(f, c, p), NEW d, Flushed(f, c, d)
    PROVE  /\ AreRecords(f, d.matched_lines, d.start_time, d.end_time)
           /\ Sees(f, d.start_time) =>
                 FirstOfScan(f, d.matched_lines, d.start_time, d.end_time)
<1> DEFINE s == c.start_time
           e == c.end_time
           T == c.tmp_line
           L == c.log_lines
           M == c.matched_lines
           E == Exec(f, M, Rest(c))
           n == Len(f)
<1>1. /\ T \in Records /\ L \in Seq(FullRecords) /\ M \in Seq(FullRecords)
  BY DEF Contexts
<1>2. /\ n \in Nat /\ n \in 0..MaxLines /\ p \in Nat /\ p \in 0..MaxLines /\ p <= n
      /\ n \in 0..n
  BY BuilderAssumption
<1>3. Rest(c) \in Seq(FullRecords) /\ Rest(c) = L \o Pend(T)
  <2>1. Pend(T) \in Seq(FullRecords)
    <3>1. T # << >> => T \in FullRecords
      BY <1>1 DEF FullRecords
    <3> HIDE DEF T
    <3> QED BY <3>1 DEF Pend
  <2> QED BY <1>1, <2>1 DEF Rest
<1>4. d.start_time = s /\ d.end_time = e /\ d.matched_lines = E
  BY DEF Flushed
<1>5. CASE Full(f, c)
  <2>1. Full(f, d)
    BY <1>1, <1>3, <1>4, <1>5, FullStays
  <2>2. AreRecords(f, d.matched_lines, d.start_time, d.end_time)
    BY <2>1 DEF Full
  <2>3. ASSUME Sees(f, s) PROVE FirstOfScan(f, E, s, e)
    <3>1. TakenUpto(f, n, s, e, E, << >>, n)
      BY <1>4, <2>1, <2>3 DEF Full
    <3>2. E \in Seq(FullRecords)
      BY <1>1, <1>3, ExecType
    <3> HIDE DEF E, s, e
    <3>3. Exec(f, E, << >>) = E
      BY <3>2, ExecNone
    <3> DEFINE B == Found(f, n, s, e)[n]
    <3>4. B \in Seq(FullRecords) /\ Begins(B, B)
      <4> HIDE DEF n
      <4>1. \A i \in 0..n : Found(f, n, s, e)[i] \in Seq(FullRecords)
        BY <1>2, FoundFacts
      <4> QED BY <1>2, <4>1, FoundBegins
    <3>5. Upto(E, MaxResults) = Upto(B, MaxResults)
      BY <3>1, <3>3 DEF TakenUpto
    <3> HIDE DEF B
    <3>6. NearlyBegins(B, B)
      BY <3>4, BeginsNearly
    <3> QED BY <1>2, <3>4, <3>5, <3>6, FirstFrom DEF B
  <2> QED BY <1>4, <2>2, <2>3
<1>6. CASE CaughtUp(f, c, p)
  <2>1. Answering(f, s, e, p, T, L, M)
    BY <1>6 DEF CaughtUp
  <2>2. AreRecords(f, E, s, e)
    <3>1. AreRecords(f, Exec(f, M, L \o Pend(T)), s, e)
      BY <1>1, <1>2, <2>1, PendAnswering
    <3> QED BY <1>3, <3>1
  <2>3. ASSUME Sees(f, s) PROVE FirstOfScan(f, E, s, e)
    <3>1. TakenUpto(f, n, s, e, M, L, p - Len(T))
      BY <1>6, <2>3 DEF CaughtUp
    <3> HIDE DEF s, e, L, M, E, T
    <3>2. CASE T = << >>
      <4>1. Rest(c) = L /\ p - Len(T) = p
        BY <1>1, <1>2, <1>3, <3>2, PendAppends
      <4> DEFINE A == Found(f, n, s, e)[p]
      <4>2. Upto(E, MaxResults) = Upto(A, MaxResults)
        BY <3>1, <4>1 DEF E, TakenUpto
      <4>3. A \in Seq(FullRecords) /\ Begins(A, Found(f, n, s, e)[n])
        <5> HIDE DEF n
        <5>1. \A i \in 0..n : Found(f, n, s, e)[i] \in Seq(FullRecords)
          BY <1>2, FoundFacts
        <5>2. p \in 0..n
          BY <1>2
        <5> QED BY <1>2, <5>1, <5>2, FoundBegins
      <4> HIDE DEF A
      <4>4. NearlyBegins(A, Found(f, n, s, e)[n])
        BY <4>3, BeginsNearly
      <4> QED BY <1>2, <4>2, <4>3, <4>4, FirstFrom
    <3>3. CASE T # << >>
      <4>1. T \in FullRecords /\ Rest(c) = Append(L, T)
        BY <1>1, <1>3, <3>3, PendAppends DEF FullRecords
      <4>2. PICK h \in 0..p - 1 : /\ h = p - Len(T) /\ T = Span(h, p)
                                  /\ InInterval(f, h, s, e) /\ Untimed(f, h + 1, p - 1)
        <5>1. PendingIsRecord(f, s, e, p, T)
          BY <2>1 DEF Answering
        <5> QED BY <1>1, <1>2, <3>3, <5>1, PendingFacts
      <4>3. h \in 0..n - 1 /\ p \in h + 1..n /\ h \in 0..n
        BY <1>2
      <4> DEFINE A == Found(f, n, s, e)[h]
                 W == WithRecord(f, A, T)
      <4>4. A \in Seq(FullRecords)
        <5> HIDE DEF n
        <5>1. \A i \in 0..n : Found(f, n, s, e)[i] \in Seq(FullRecords)
          BY <1>2, FoundFacts
        <5> QED BY <4>3, <5>1
      <4>5. Upto(Exec(f, M, L), MaxResults) = Upto(A, MaxResults)
        BY <3>1, <4>2 DEF TakenUpto
      <4>6. NearlyBegins(W, Found(f, n, s, e)[n])
        <5> HIDE DEF n
        <5>1. NearlyBegins(WithRecord(f, Found(f, n, s, e)[h], Span(h, p)),
                           Found(f, n, s, e)[n])
          BY <1>2, <4>2, <4>3, PendingBegins
        <5> QED BY <4>2, <5>1
      <4> HIDE DEF A
      <4>7. Upto(E, MaxResults) = Upto(W, MaxResults)
        <5>1. L \in Seq(FullRecords) /\ M \in Seq(FullRecords)
          BY <1>1 DEF L, M
        <5>2. Upto(Exec(f, M, Append(L, T)), MaxResults) = Upto(WithRecord(f, A, T), MaxResults)
          BY <4>1, <4>4, <4>5, <5>1, ExecFollows
        <5> QED BY <4>1, <5>2 DEF E
      <4>8. W \in Seq(FullRecords)
        BY <4>1, <4>4 DEF WithRecord
      <4> HIDE DEF W
      <4> QED BY <1>2, <4>6, <4>7, <4>8, FirstFrom
    <3> QED BY <3>2, <3>3
  <2> QED BY <1>4, <2>2, <2>3
<1> QED BY <1>5, <1>6 DEF AtLine

LEMMA GzipFlushKeeps ==
    ASSUME PackedInv, FlushSearch
    PROVE  ContextOK(ctx') /\ Follows(file, ctx', stream)
<1>1. ContextOK(ctx) /\ Follows(file, ctx, stream) /\ ctx \in Contexts
  BY DEF PackedInv, ContextOK
<1>2. ctx.pc = "flushing" /\ SameFields(ctx, ctx') /\ Flushed(file, ctx, ctx')
  BY <1>1, FlushEffect
<1>3. PICK p \in 0..Len(file) : AtLine(file, ctx, p)
  BY <1>1, <1>2 DEF Follows
<1> DEFINE d == ctx'
<1>4. /\ AreRecords(file, d.matched_lines, d.start_time, d.end_time)
      /\ Sees(file, d.start_time) =>
            FirstOfScan(file, d.matched_lines, d.start_time, d.end_time)
  BY <1>1, <1>2, <1>3, FileLength, FlushAnswer
<1>5. /\ d.pc = "done" /\ d.tmp_line = << >> /\ d.log_lines = << >>
      /\ d.matched_lines = Exec(file, ctx.matched_lines, Rest(ctx))
      /\ d.start_time = ctx.start_time /\ d.end_time = ctx.end_time /\ d.pos = ctx.pos
      /\ d.end_pos = ctx.end_pos /\ d.covered = ctx.covered
  BY <1>2 DEF Flushed
<1> HIDE DEF d
<1>6. Follows(file, d, stream)
  BY <1>4, <1>5 DEF Follows
<1>7. d \in Contexts
  <2>1. /\ ctx.start_time \in Nat /\ ctx.end_time \in Nat /\ ctx.pos \in 0..MaxLines
        /\ ctx.end_pos \in 0..MaxLines /\ ctx.covered \in Nat /\ ctx.tmp_line \in Records
        /\ ctx.log_lines \in Seq(FullRecords) /\ ctx.matched_lines \in Seq(FullRecords)
    BY <1>1 DEF Contexts
  <2>2. Rest(ctx) \in Seq(FullRecords)
    <3>1. ctx.tmp_line # << >> => ctx.tmp_line \in FullRecords
      BY <2>1 DEF FullRecords
    <3>2. Pend(ctx.tmp_line) \in Seq(FullRecords)
      BY <3>1 DEF Pend
    <3> QED BY <2>1, <3>2 DEF Rest
  <2>3. Exec(file, ctx.matched_lines, Rest(ctx)) \in Seq(FullRecords)
    BY <2>1, <2>2, ExecType
  <2>4. << >> \in Records /\ << >> \in Seq(FullRecords)
    BY EmptySeq DEF Records
  <2>5. /\ d.pc \in {"idle", "reading", "flushing", "done"} /\ d.start_time \in Nat
        /\ d.end_time \in Nat /\ d.pos \in 0..MaxLines /\ d.end_pos \in 0..MaxLines
        /\ d.tmp_line \in Records /\ d.log_lines \in Seq(FullRecords)
        /\ d.matched_lines \in Seq(FullRecords) /\ d.covered \in Nat
    BY <1>5, <2>1, <2>3, <2>4
  <2>6. SameFields(NoSearch, d)
    BY <1>1, <1>2, ContextFields DEF d
  <2> QED BY ONLY <2>5, <2>6, ContextFrom
<1>8. ContextOK(d)
  <2>1. ctx.covered = 0 /\ Len(d.log_lines) = 0 /\ MaxBatch \in Nat
    BY <1>1, <1>5, SearchAssumption DEF ContextOK
  <2> QED BY <1>5, <1>7, <2>1 DEF ContextOK
<1> QED BY <1>6, <1>8 DEF d

LEMMA IdleContext ==
    ContextOK(NoSearch) /\ NoSearch.pc = "idle" /\ NoSearch.matched_lines = << >>
<1>1. NoSearch \in Contexts
  <2>1. << >> \in Records /\ << >> \in Seq(FullRecords) /\ 0 \in 0..MaxLines
    BY BuilderAssumption, EmptySeq DEF Records
  <2> QED BY <2>1 DEF Contexts, NoSearch
<1>2. /\ NoSearch.pc = "idle" /\ NoSearch.covered = 0 /\ NoSearch.log_lines = << >>
      /\ NoSearch.matched_lines = << >>
  BY DEF NoSearch
<1>3. Len(NoSearch.log_lines) = 0 /\ MaxBatch \in Nat
  BY <1>2, SearchAssumption
<1> QED BY <1>1, <1>2, <1>3 DEF ContextOK

-----------------------------------------------------------------------------
(* The invariant of every step.                                             *)

LEMMA PackedInit ==
    ASSUME GzipInit, packed
    PROVE  PackedInv
<1>1. /\ file \in UNION {[1..n -> Lines] : n \in 0..MaxLines} /\ InOrder(file)
      /\ index = << >> /\ indexed = 0 /\ builder = Idle /\ ctx = NoSearch
      /\ scan = Unscanned /\ stream = NoStream
  BY DEF GzipInit
<1>2. PICK n \in 0..MaxLines : file \in [1..n -> Lines]
  BY <1>1
<1>3. n \in Nat /\ n <= MaxLines
  BY BuilderAssumption
<1>4. file \in Seq(Lines) /\ Len(file) = n
  <2>1. ASSUME NEW S, NEW m \in Nat, NEW q \in [1..m -> S] PROVE q \in Seq(S) /\ Len(q) = m
    OBVIOUS
  <2> QED BY ONLY <1>2, <1>3, <2>1
<1>5. TimesAreOrdered(file)
  BY <1>1 DEF InOrder, TimesAreOrdered
<1>6. ScanOK(file, scan)
  BY <1>1, <1>4, UnscannedOK
<1>7. StreamOK(file, stream)
  BY <1>1, <1>3, <1>4, NoStreamOK
<1>8. ContextOK(NoSearch) /\ NoSearch.pc = "idle" /\ NoSearch.matched_lines = << >>
  BY IdleContext
<1>9. Follows(file, ctx, stream)
  BY <1>1, <1>8 DEF Follows
<1> QED BY <1>1, <1>3, <1>4, <1>5, <1>6, <1>7, <1>8, <1>9 DEF PackedInv

LEMMA UnpackedInit ==
    ASSUME GzipInit, ~packed
    PROVE  TextInv
<1>1. SearchInit
  BY DEF GzipInit, SearchInit, Init
<1> QED BY <1>1, TextInit

(* The scan does not touch the search.                                      *)
LEMMA ScanChunkKeeps ==
    ASSUME PackedInv, ScanChunk \/ ScanEnd
    PROVE  ScanOK(file, scan')
<1>1. ScanOK(file, scan) /\ scan \in Scans
  BY DEF PackedInv, ScanOK
<1>2. scan.pc = "reading" /\ scan.total \in Nat /\ scan.total <= Position(file, Len(file))
  BY <1>1 DEF ScanChunk, ScanEnd, ScanOK, Scans
<1>3. /\ file \in Seq(Lines) /\ Len(file) \in Nat /\ Len(file) <= MaxLines
      /\ TimesAreOrdered(file)
  BY FileLength
<1>4. CASE ScanChunk
  <2>1. PICK n \in Reads(scan.total) :
          scan' = IF scan.total + n - scan.from > MaxCarry
                  THEN [scan EXCEPT !.pc = "indexed"] ELSE IndexChunk(scan, n)
    BY <1>4 DEF ScanChunk
  <2>2. /\ n \in Nat /\ n \in 0..BufferSize
        /\ scan.total + n <= Position(file, Len(file))
    BY <1>2, <1>3, ReadsFacts
  <2>3. CASE scan.total + n - scan.from > MaxCarry
    <3>1. scan' = [scan EXCEPT !.pc = "indexed"]
      BY <2>1, <2>3
    <3>2. ScanOK(file, [scan EXCEPT !.pc = "indexed"])
      BY <1>1, <1>2, <1>3, <2>2, <2>3, OverflowKeeps
    <3> QED BY <3>1, <3>2
  <2>4. CASE ~(scan.total + n - scan.from > MaxCarry)
    <3>1. scan' = IndexChunk(scan, n)
      BY <2>1, <2>4
    <3>2. scan.total + n - scan.from <= MaxCarry
      <4>1. scan.from \in Nat /\ MaxCarry \in Nat
        BY <1>1, SizeFacts DEF Scans
      <4> QED BY <1>2, <2>2, <2>4, <4>1
    <3>3. ScanOK(file, IndexChunk(scan, n))
      BY <1>1, <1>2, <1>3, <2>2, <3>2, ChunkKeeps
    <3> QED BY <3>1, <3>3
  <2> QED BY <2>3, <2>4
<1>5. CASE ScanEnd
  <2>1. scan.total = Position(file, Len(file))
    BY <1>5, StartIsPosition DEF ScanEnd, StreamSize
  <2>2. scan' = [scan EXCEPT !.pc = "indexed", !.outputs = EndOutputs(file, scan)]
    BY <1>5, StartIsPosition DEF ScanEnd, EndOutputs, Line, LineAt
  <2>3. ScanOK(file, [scan EXCEPT !.pc = "indexed", !.outputs = EndOutputs(file, scan)])
    BY <1>1, <1>2, <1>3, <2>1, EndKeeps
  <2> QED BY <2>2, <2>3
<1> QED BY <1>4, <1>5

LEMMA PackedStep ==
    ASSUME PackedInv, packed, [GzipNext]_gzipVars
    PROVE  PackedInv' /\ packed'
<1>1. ASSUME UNCHANGED <<file, index, indexed, builder>>, packed' = packed,
             ScanOK(file, scan'), ContextOK(ctx'), StreamOK(file, stream'),
             Follows(file, ctx', stream')
      PROVE  PackedInv' /\ packed'
  BY <1>1 DEF PackedInv
<1>2. ScanOK(file, scan) /\ ContextOK(ctx) /\ StreamOK(file, stream)
      /\ Follows(file, ctx, stream)
  BY DEF PackedInv
<1>3. CASE ScanChunk \/ ScanEnd
  <2>1. ScanOK(file, scan')
    BY <1>3, ScanChunkKeeps
  <2>2. UNCHANGED <<file, index, indexed, builder, ctx, packed, stream>>
    BY <1>3 DEF ScanChunk, ScanEnd, searchVars
  <2> QED BY <1>1, <1>2, <2>1, <2>2
<1>4. ASSUME NEW q \in Queries, GzipStart(q) PROVE PackedInv' /\ packed'
  <2>1. ContextOK(ctx') /\ StreamOK(file, stream') /\ Follows(file, ctx', stream')
    BY <1>4, GzipStartKeeps
  <2>2. UNCHANGED <<file, index, indexed, builder, packed, scan>>
    BY <1>4 DEF GzipStart, vars
  <2> QED BY <1>1, <1>2, <2>1, <2>2
<1>5. CASE SkipChunk
  <2>1. ContextOK(ctx') /\ StreamOK(file, stream') /\ Follows(file, ctx', stream')
    BY <1>5, SkipKeeps
  <2>2. UNCHANGED <<file, index, indexed, builder, packed, scan>>
    BY <1>5 DEF SkipChunk, vars
  <2> QED BY <1>1, <1>2, <2>1, <2>2
<1>6. CASE ReadChunk
  <2>1. ContextOK(ctx') /\ StreamOK(file, stream') /\ Follows(file, ctx', stream')
    BY <1>6, ReadChunkKeeps
  <2>2. UNCHANGED <<file, index, indexed, builder, packed, scan>>
    BY <1>6 DEF ReadChunk, vars
  <2> QED BY <1>1, <1>2, <2>1, <2>2
<1>7. CASE ParseChunkLine
  <2>1. ContextOK(ctx') /\ StreamOK(file, stream') /\ Follows(file, ctx', stream')
    BY <1>7, ParseChunkKeeps
  <2>2. UNCHANGED <<file, index, indexed, builder, packed, scan>>
    BY <1>7 DEF ParseChunkLine, vars
  <2> QED BY <1>1, <1>2, <2>1, <2>2
<1>8. CASE ReadEnd
  <2>1. ContextOK(ctx') /\ StreamOK(file, stream') /\ Follows(file, ctx', stream')
    BY <1>8, ReadEndKeeps
  <2>2. UNCHANGED <<file, index, indexed, builder, packed, scan>>
    BY <1>8 DEF ReadEnd, vars
  <2> QED BY <1>1, <1>2, <2>1, <2>2
<1>9. CASE FlushSearch /\ UNCHANGED <<packed, scan, stream>>
  <2>1. ContextOK(ctx') /\ Follows(file, ctx', stream)
    BY <1>9, GzipFlushKeeps
  <2>2. UNCHANGED <<file, index, indexed, builder>>
    BY <1>9 DEF FlushSearch, vars
  <2> QED BY <1>1, <1>2, <1>9, <2>1, <2>2
<1>10. CASE GzipRespond
  <2>1. ctx' = NoSearch /\ stream' = NoStream
        /\ UNCHANGED <<file, index, indexed, builder, packed, scan>>
    BY <1>10 DEF GzipRespond, Respond, vars
  <2>2. ContextOK(NoSearch) /\ NoSearch.pc = "idle" /\ NoSearch.matched_lines = << >>
    BY IdleContext
  <2>3. StreamOK(file, NoStream)
    BY FileLength, NoStreamOK
  <2>4. Follows(file, ctx', stream')
    BY <2>1, <2>2 DEF Follows
  <2> QED BY <1>1, <1>2, <2>1, <2>2, <2>3, <2>4
<1>11. CASE UNCHANGED gzipVars
  <2>1. UNCHANGED <<file, index, indexed, builder, ctx, packed, scan, stream>>
    BY <1>11 DEF gzipVars, searchVars
  <2> QED BY <1>1, <1>2, <2>1
<1> QED BY <1>3, <1>4, <1>5, <1>6, <1>7, <1>8, <1>9, <1>10, <1>11 DEF GzipNext

LEMMA GzipInvInit == GzipInit => GzipInv
<1> SUFFICES ASSUME GzipInit PROVE GzipInv
  OBVIOUS
<1>1. packed \in BOOLEAN /\ scan = Unscanned /\ stream = NoStream
  BY DEF GzipInit
<1>2. packed => PackedInv
  BY PackedInit
<1>3. ~packed => TextInv
  BY UnpackedInit
<1> QED BY <1>1, <1>2, <1>3 DEF GzipInv

LEMMA GzipStep == GzipInv /\ [GzipNext]_gzipVars => GzipInv'
<1> SUFFICES ASSUME GzipInv, [GzipNext]_gzipVars PROVE GzipInv'
  OBVIOUS
<1>1. packed \in BOOLEAN
  BY DEF GzipInv
<1>2. CASE packed
  <2>1. PackedInv' /\ packed'
    BY <1>2, PackedStep DEF GzipInv
  <2>2. packed' = packed
    BY <1>2 DEF GzipNext, gzipVars, ScanChunk, ScanEnd, GzipStart, SkipChunk, ReadChunk,
                ParseChunkLine, ReadEnd, GzipRespond
  <2> QED BY <1>1, <2>1, <2>2 DEF GzipInv
<1>3. CASE ~packed
  <2>1. [SearchNext]_searchVars /\ UNCHANGED <<packed, scan, stream>>
    BY <1>3 DEF GzipNext, gzipVars
  <2>2. TextInv /\ scan = Unscanned /\ stream = NoStream
    BY <1>3 DEF GzipInv
  <2>3. TextInv'
    BY <2>1, <2>2, TextStep
  <2>4. ~packed' /\ packed' \in BOOLEAN /\ scan' = Unscanned /\ stream' = NoStream
    BY <1>1, <1>3, <2>1, <2>2
  <2> QED BY <2>3, <2>4 DEF GzipInv
<1> QED BY <1>2, <1>3

LEMMA GzipInvariant == GzipSpec => []GzipInv
BY GzipInvInit, GzipStep, PTL DEF GzipSpec

(* In every state the results so far are records.                           *)
LEMMA GzipAnswers ==
    ASSUME GzipInv
    PROVE  AreRecords(file, ctx.matched_lines, ctx.start_time, ctx.end_time)
<1>1. CASE ~packed
  BY <1>1 DEF GzipInv, TextInv, ContextInv, Answering
<1>2. CASE packed
  <2>1. Follows(file, ctx, stream) /\ ContextOK(ctx)
    BY <1>2 DEF GzipInv, PackedInv
  <2>2. \A p : AtLine(file, ctx, p) =>
                  AreRecords(file, ctx.matched_lines, ctx.start_time, ctx.end_time)
    BY DEF AtLine, Full, CaughtUp, Answering
  <2>3. CASE ctx.pc \in {"reading", "flushing"} /\ \E p : AtLine(file, ctx, p)
    BY <2>2, <2>3
  <2>4. CASE ctx.pc = "done"
    BY <2>1, <2>4 DEF Follows
  <2>5. CASE ctx.pc = "idle"
    <3>1. ctx.matched_lines = << >>
      BY <2>1, <2>5 DEF Follows
    <3> QED BY <3>1, FileLength, <1>2, NoAnswer DEF GzipInv
  <2>6. CASE ctx.pc = "flushing"
    BY <2>1, <2>3, <2>6 DEF Follows
  <2>7. CASE ctx.pc = "reading"
    <3>1. CASE stream.pc = "skipping"
      BY <2>1, <2>3, <2>7, <3>1 DEF Follows, AtLine
    <3>2. CASE stream.pc = "reading"
      BY <2>1, <2>3, <2>7, <3>2 DEF Follows
    <3>3. stream.pc \in {"none", "skipping", "reading"}
      BY <1>2 DEF GzipInv, PackedInv, StreamOK, Streams
    <3> QED BY <2>1, <2>7, <3>1, <3>2, <3>3 DEF Follows
  <2>8. ctx.pc \in {"idle", "reading", "flushing", "done"}
    BY <2>1 DEF ContextOK, Contexts
  <2> QED BY <2>4, <2>5, <2>6, <2>7, <2>8
<1> QED BY <1>1, <1>2 DEF GzipInv

-----------------------------------------------------------------------------
(* The theorems.                                                            *)

(* The scan and the search of a gzip file keep their types: neither goes    *)
(* beyond the end of the inflated stream, what is carried over lies before  *)
(* what was read, and a search never goes back behind its start position.   *)
THEOREM GzipTypeCorrect == GzipSpec => []GzipTypeOK
<1>1. GzipInv => GzipTypeOK
  <2> SUFFICES ASSUME GzipInv PROVE GzipTypeOK
    OBVIOUS
  <2>1. packed \in BOOLEAN
    BY DEF GzipInv
  <2>2. file \in Seq(Lines) /\ ScanOK(file, scan) /\ StreamOK(file, stream)
    <3>1. CASE packed
      BY <3>1 DEF GzipInv, PackedInv
    <3>2. CASE ~packed
      <4>1. file \in Seq(Lines) /\ scan = Unscanned /\ stream = NoStream
        BY <3>2 DEF GzipInv, TextInv, TypeInv, TypeOK
      <4>2. Len(file) \in Nat
        BY <4>1
      <4> QED BY <4>1, <4>2, UnscannedOK, NoStreamOK
    <3> QED BY <2>1, <3>1, <3>2
  <2>3. StreamSize = Position(file, Len(file)) /\ StreamSize \in Nat
    <3>1. Len(file) \in Nat
      BY <2>2
    <3> QED BY <3>1, StartIsPosition, PositionStep DEF StreamSize
  <2>4. /\ scan.pc \in {"reading", "indexed"} /\ scan.outputs \in Seq(TimeIndexes)
        /\ scan.total \in Nat /\ scan.from \in Nat
        /\ stream.pc \in {"none", "skipping", "reading"} /\ stream.total \in Nat
        /\ stream.from \in Nat /\ stream.start \in Nat
    BY <2>2 DEF ScanOK, Scans, StreamOK, Streams
  <2>5. /\ scan.total <= StreamSize /\ scan.from <= scan.total
        /\ stream.total <= StreamSize
        /\ stream.pc = "reading" => stream.start <= stream.from /\ stream.from <= stream.total
    BY <2>2, <2>3 DEF ScanOK, StreamOK
  <2>6. /\ scan.total \in 0..StreamSize /\ scan.from \in 0..scan.total
        /\ stream.total \in 0..StreamSize
        /\ stream.pc = "reading" => stream.from \in stream.start..stream.total
    BY <2>3, <2>4, <2>5
  <2> QED BY <2>1, <2>4, <2>6 DEF GzipTypeOK
<1> QED BY <1>1, GzipInvariant, PTL

(* So does the search of a file of either kind: no batch of records grows   *)
(* beyond its limit.                                                        *)
THEOREM AnySearchTypeCorrect == GzipSpec => []SearchTypeOK
<1>1. GzipInv => SearchTypeOK
  <2> SUFFICES ASSUME GzipInv PROVE SearchTypeOK
    OBVIOUS
  <2>1. ctx \in Contexts /\ Len(ctx.log_lines) <= MaxBatch
    BY DEF GzipInv, PackedInv, ContextOK, TextInv, ContextInv
  <2> QED BY <2>1, ContextIsTyped
<1> QED BY <1>1, GzipInvariant, PTL

(* A search of a file of either kind answers with matching records of the   *)
(* interval, wherever the chunks of the inflated stream end, whatever is    *)
(* carried over and wherever the index makes the search begin.              *)
THEOREM AnyAnswersAreRecordsHolds == GzipSpec => []AnswersAreRecords
<1>1. GzipInv => AnswersAreRecords
  <2> SUFFICES ASSUME GzipInv PROVE AnswersAreRecords
    OBVIOUS
  <2>1. AreRecords(file, ctx.matched_lines, ctx.start_time, ctx.end_time)
    BY GzipAnswers
  <2> QED BY <2>1, RecordsAnswer
<1> QED BY <1>1, GzipInvariant, PTL

(* The index of a gzip file has the first line of each bucket at its        *)
(* position in the stream, nothing else but further lines of buckets beyond *)
(* the threshold, and the last timed line when the end was reached, for     *)
(* every sequence of chunk sizes and every threshold                        *)
(* (update_file_index_igzip).                                               *)
THEOREM GzipIndexIsCanonicalHolds == GzipSpec => []GzipIndexIsCanonical
<1>1. GzipInv => GzipIndexIsCanonical
  <2>1. CASE packed
    BY <2>1, CanonicalIndex DEF GzipInv
  <2>2. CASE ~packed
    BY <2>2 DEF GzipIndexIsCanonical
  <2> QED BY <2>1, <2>2
<1> QED BY <1>1, GzipInvariant, PTL

(* A search of a gzip file that does not begin within a bucket beyond the   *)
(* threshold answers the first of the records that a scan of the whole file *)
(* would, up to its limit: none in between is missed, wherever the chunks   *)
(* end, and only the last may miss lines that continue it                   *)
(* (search_file_igzip).                                                     *)
THEOREM GzipAnswersAreFirstHolds == GzipSpec => []GzipAnswersAreFirst
<1>1. GzipInv => GzipAnswersAreFirst
  <2> SUFFICES ASSUME GzipInv, packed, ctx.pc = "done",
                      LeadsToFirst(ctx.start_time, BucketOf(ctx.start_time), Len(file))
               PROVE  GzipAnswersAreFirst
    BY DEF GzipAnswersAreFirst
  <2>1. Sees(file, ctx.start_time)
    BY FileLength, WordsOfFile DEF Sees, GzipInv
  <2>2. FirstOfScan(file, ctx.matched_lines, ctx.start_time, ctx.end_time)
    BY <2>1 DEF GzipInv, PackedInv, Follows
  <2>3. ScanRecords(Len(file), ctx.start_time, ctx.end_time)
           = Found(file, Len(file), ctx.start_time, ctx.end_time)[Len(file)]
    BY ScanIsFound
  <2> QED BY <2>2, <2>3 DEF FirstOfScan, GzipAnswersAreFirst
<1> QED BY <1>1, GzipInvariant, PTL
==============================================================================
