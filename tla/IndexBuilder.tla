----------------------------- MODULE IndexBuilder -----------------------------
(***************************************************************************)
(* The index of a text file while the file grows: the scan loop of         *)
(* FileIndexer::update_file_index_txt_mmap (src/agent/indexer.cpp), one    *)
(* line per step, against a program that appends to the log.  The loop     *)
(* works on a mapping as long as the file was when it started, resumes at  *)
(* the last entry of the previous index, and its result replaces that      *)
(* index at the end.  A last line without its newline is not seen by the   *)
(* loop: a line is in the file here once it is complete.                   *)
(***************************************************************************)
EXTENDS TimeIndex, FiniteSets

CONSTANTS
    Lines,           \* the lines that can be appended: their timestamp (0: none),
                     \* whether they are too long, whether a query's text is in them
    IntervalSeconds, \* index_interval_seconds_
    CountThreshold,  \* index_count_threshold_
    MaxSkipped,      \* 5000: untimed lines before the loop gives up
    MaxLines         \* bound on the length of the file

ASSUME LinesAssumption ==
    /\ Lines \subseteq [ts: Nat, long: BOOLEAN, hit: BOOLEAN]
    /\ \A l \in Lines : l.ts # 0 => l.ts >= IntervalSeconds
ASSUME BuilderAssumption ==
    /\ IntervalSeconds \in Nat \ {0} /\ CountThreshold \in Nat \ {0}
    /\ MaxSkipped \in Nat /\ MaxLines \in Nat

VARIABLES
    file,     \* the lines of the log
    index,    \* time_indexes of the file's FileIndex
    indexed,  \* length of the mapping the index was built from
    builder   \* the scan thread: where its loop is

vars == <<file, index, indexed, builder>>

NoLine == -1

Idle == [pc |-> "idle", size |-> 0, pos |-> 0, outputs |-> << >>, bucket |-> 0,
         since |-> 0, skipped |-> 0, last |-> NoLine]

Builders == [pc: {"idle", "scanning"}, size: 0..MaxLines, pos: 0..MaxLines,
             outputs: Seq(TimeIndexes), bucket: Nat, since: Nat, skipped: Nat,
             last: -1..MaxLines]

TypeOK ==
    /\ file \in Seq(Lines) /\ Len(file) <= MaxLines
    /\ index \in Seq(TimeIndexes)
    /\ indexed \in 0..MaxLines
    /\ builder \in Builders

Init == file = << >> /\ index = << >> /\ indexed = 0 /\ builder = Idle

(* The line at an offset.                                                   *)
LineAt(offset) == file[offset + 1]
Timed(offset) == LineAt(offset).ts # 0

BucketOf(ts) == ts - (ts % IntervalSeconds)

-----------------------------------------------------------------------------
(* The logging program appends a line; its clock does not go back.          *)
AppendLine(l) ==
    /\ Len(file) < MaxLines
    /\ l.ts # 0 => \A k \in 1..Len(file) : file[k].ts <= l.ts
    /\ file' = Append(file, l)
    /\ UNCHANGED <<index, indexed, builder>>

(* Mistake: the old closing entry is kept although the loop resumes there.  *)
BeginKeepingLast ==
    /\ builder.pc = "idle"
    /\ indexed # Len(file)
    /\ builder' = IF Len(index) > 1
         THEN [Idle EXCEPT !.pc = "scanning", !.size = Len(file),
                           !.pos = Final(index).offset, !.outputs = index,
                           !.bucket = Final(index).timestamp]
         ELSE [Idle EXCEPT !.pc = "scanning", !.size = Len(file)]
    /\ UNCHANGED <<file, index, indexed>>

(* The file has changed: it is mapped, and the loop starts at the last      *)
(* entry of an index of at least two, else at the beginning.                *)
Begin ==
    /\ builder.pc = "idle"
    /\ indexed # Len(file)
    /\ builder' =
         IF Len(index) > 1 /\ Final(index).offset < Len(file)
         THEN [Idle EXCEPT !.pc = "scanning", !.size = Len(file),
                           !.pos = Final(index).offset,
                           !.outputs = SubSeq(index, 1, Len(index) - 1),
                           !.bucket = index[Len(index) - 1].timestamp]
         ELSE [Idle EXCEPT !.pc = "scanning", !.size = Len(file)]
    /\ UNCHANGED <<file, index, indexed>>

Scanning == builder.pc = "scanning" /\ builder.pos < builder.size

(* A line beyond the size limit is given up.                                *)
SkipLong ==
    /\ Scanning
    /\ LineAt(builder.pos).long
    /\ builder' = [builder EXCEPT !.pos = @ + 1, !.skipped = @ + 1]
    /\ UNCHANGED <<file, index, indexed>>

(* A line without a timestamp: skipped, and too many of them before the     *)
(* first entry end the loop.                                                *)
SkipUntimed ==
    /\ Scanning
    /\ ~LineAt(builder.pos).long
    /\ ~Timed(builder.pos)
    /\ LET giveUp == builder.skipped + 1 > MaxSkipped /\ builder.outputs = << >>
       IN builder' = [builder EXCEPT !.skipped = @ + 1, !.last = builder.pos,
                                     !.pos = IF giveUp THEN builder.size ELSE @ + 1]
    /\ UNCHANGED <<file, index, indexed>>

(* A timed line gets an entry if it starts a bucket or a long run ended.    *)
NewEntry(bucket) ==
    \/ builder.bucket = 0
    \/ bucket >= builder.bucket + IntervalSeconds
    \/ builder.since >= CountThreshold

IndexTimed ==
    /\ Scanning
    /\ ~LineAt(builder.pos).long
    /\ Timed(builder.pos)
    /\ LET bucket == BucketOf(LineAt(builder.pos).ts)
           entry == [timestamp |-> bucket, offset |-> builder.pos]
       IN builder' =
            IF NewEntry(bucket)
            THEN [builder EXCEPT !.outputs = Append(@, entry), !.bucket = bucket,
                                 !.since = 1, !.last = builder.pos, !.pos = @ + 1]
            ELSE [builder EXCEPT !.since = @ + 1, !.last = builder.pos, !.pos = @ + 1]
    /\ UNCHANGED <<file, index, indexed>>

(* Mistake: the closing entry has the start of its bucket.                  *)
ClosedByBucket ==
    IF builder.outputs # << >> /\ builder.last # NoLine /\ Timed(builder.last)
    THEN Append(builder.outputs, [timestamp |-> BucketOf(LineAt(builder.last).ts),
                                  offset |-> builder.last])
    ELSE builder.outputs

(* Mistake: the closing entry points to the line before.                    *)
ClosedTooEarly ==
    IF builder.outputs # << >> /\ builder.last # NoLine /\ Timed(builder.last)
    THEN Append(builder.outputs, [timestamp |-> LineAt(builder.last).ts,
                                  offset |-> builder.last - 1])
    ELSE builder.outputs

(* The last line looked at, if timed, closes the index with its own time.   *)
Closed ==
    IF builder.outputs # << >> /\ builder.last # NoLine /\ Timed(builder.last)
    THEN Append(builder.outputs, [timestamp |-> LineAt(builder.last).ts,
                                  offset |-> builder.last])
    ELSE builder.outputs

(* The end of the loop; update_file_index swaps the result in.              *)
Publish ==
    /\ builder.pc = "scanning"
    /\ builder.pos >= builder.size
    /\ index' = Closed
    /\ indexed' = builder.size
    /\ builder' = Idle
    /\ UNCHANGED file

Next ==
    \/ \E l \in Lines : AppendLine(l)
    \/ Begin \/ SkipLong \/ SkipUntimed \/ IndexTimed \/ Publish

Spec == Init /\ [][Next]_vars

-----------------------------------------------------------------------------
(* Properties.                                                              *)

(* The lines a search should be able to find: timed ones within the limit.  *)
Findable(offset) == offset < Len(file) /\ Timed(offset) /\ ~LineAt(offset).long

(* The last line of the mapping within the size limit closes the index if   *)
(* it is timed.                                                             *)
Closes(k) ==
    /\ k < indexed /\ Findable(k)
    /\ \A j \in k + 1..indexed - 1 : LineAt(j).long
IndexIsClosed == \E k \in 0..indexed - 1 : Closes(k)

(* A bucket that has more than index_count_threshold_ lines among the first *)
(* n: IndexTimed may repeat its entry, with the time of the bucket.         *)
BucketLines(bucket, n) == {k \in 0..n - 1 : Findable(k) /\ BucketOf(LineAt(k).ts) = bucket}
Crowded(bucket, n) == Cardinality(BucketLines(bucket, n)) > CountThreshold

(* Of several entries of a bucket, a query that begins within the bucket is *)
(* led to the last one, and one that begins no later to the first.          *)
LeadsToFirst(start_time, bucket, n) == start_time <= bucket \/ ~Crowded(bucket, n)

(* For each query interval, find_index_pos selects a range that contains    *)
(* every line of the interval that lies before the index's last entry, and  *)
(* that of the last entry when it closes the index, although buckets are    *)
(* coarse, entries are repeated and the index was extended many times.  A   *)
(* line of a crowded bucket is only claimed of intervals that begin no      *)
(* later than the bucket.                                                   *)
QueriesFindIndexed ==
    index # << >> =>
    \A k \in 0..Final(index).offset :
        Findable(k) /\ (k < Final(index).offset \/ IndexIsClosed) =>
            \A s \in 1..LineAt(k).ts, e \in LineAt(k).ts..LineAt(k).ts + 1 :
                LeadsToFirst(s, BucketOf(LineAt(k).ts), indexed) =>
                    InSearchedRange(index, k, s, e)

(* However often the index was extended, it has an entry for the first line *)
(* of every bucket, in the order of the file, the closing line, and nothing *)
(* else but further lines of buckets that were crowded by then: what one    *)
(* scan of the whole mapping gives where no bucket is crowded.  (A scan     *)
(* that gave up before the first timed line gives nothing.)                 *)
IsBucketFirst(k) ==
    /\ Findable(k)
    /\ \A j \in 0..k - 1 : Findable(j) =>
          BucketOf(LineAt(j).ts) < BucketOf(LineAt(k).ts)

IndexIsCanonical ==
    index # << >> =>
    LET body == IF IndexIsClosed THEN SubSeq(index, 1, Len(index) - 1) ELSE index
        entryOf(k) == [timestamp |-> BucketOf(LineAt(k).ts), offset |-> k]
    IN /\ \A k \in 0..indexed - 1 : IsBucketFirst(k) =>
             \E i \in DOMAIN body : body[i] = entryOf(k)
       /\ \A i \in DOMAIN body :
             LET k == body[i].offset IN
             /\ k < indexed /\ Findable(k) /\ body[i] = entryOf(k)
             /\ IsBucketFirst(k) \/ Crowded(BucketOf(LineAt(k).ts), k + 1)
       /\ \A i, j \in DOMAIN body : i < j => body[i].offset < body[j].offset
       /\ \A k \in 0..indexed - 1 : Closes(k) =>
             Final(index) = [timestamp |-> LineAt(k).ts, offset |-> k]

(* What the search page says of a simple search, "Finds all lines": once    *)
(* the whole file is indexed, every line of it can be found.                *)
AllLinesAreFound ==
    indexed = Len(file) =>
    \A k \in 0..Len(file) - 1 : Findable(k) =>
        InSearchedRange(index, k, LineAt(k).ts, LineAt(k).ts)
==============================================================================
