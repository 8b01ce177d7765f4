------------------------------ MODULE GzipSearch ------------------------------
(***************************************************************************)
(* Log files of both kinds: text files (TextSearch), and gzip files, which *)
(* are inflated from their beginning in chunks that end anywhere           *)
(* (update_file_index_igzip of src/agent/indexer.cpp, get_lines_gzip and   *)
(* search_file_igzip of src/agent/searcher.cpp).  A gzip file does not     *)
(* change.  What a chunk leaves of a line is carried over to the next one. *)
(*                                                                         *)
(* Positions in the inflated stream are counted in units: a line has two,  *)
(* so that a chunk may end in the middle of it, one beyond the size limit  *)
(* has more than may be carried.                                           *)
(***************************************************************************)
EXTENDS TextSearch

CONSTANTS
    BufferSize,   \* units a read may return: BUF_SIZE
    MaxCarry,     \* MAX_LINE_SIZE
    LongSize      \* units of a line beyond the limit

ASSUME GzipAssumption ==
    BufferSize \in Nat \ {0} /\ MaxCarry \in Nat /\ MaxCarry > BufferSize
    /\ LongSize \in Nat /\ LongSize > MaxCarry

VARIABLES
    packed,   \* the file is a gzip file
    scan,     \* the scan thread in update_file_index_igzip, with its result
    stream    \* where search_file_igzip is in the inflated stream

gzipVars == <<searchVars, packed, scan, stream>>

-----------------------------------------------------------------------------
(* The stream.                                                              *)

Start(k) == 2 * k + (LongSize - 2) * Cardinality({j \in 0..k - 1 : LineAt(j).long})
StreamSize == Start(Len(file))

(* igzread: some of what is left, less than a buffer when the compressed    *)
(* input it has read runs out.                                              *)
Reads(total) == 1..IF StreamSize - total < BufferSize THEN StreamSize - total ELSE BufferSize

(* The members of a set of numbers, in order.                               *)
Ascending(S) ==
    CHOOSE q \in [1..Cardinality(S) -> S] : \A i, j \in DOMAIN q : i < j => q[i] < q[j]

(* The carried text is the part of the stream between two positions; its    *)
(* complete lines, in order, and where the rest begins.                     *)
LinesBetween(from, to) ==
    Ascending({k \in 0..Len(file) - 1 : from <= Start(k) /\ Start(k + 1) <= to})

(* Mistake: the rest is not carried over.                                   *)
RestDropped(from, to) == to

RestFrom(from, to) ==
    LET lines == LinesBetween(from, to)
    IN IF lines = << >> THEN from ELSE Start(Last(lines) + 1)

Unscanned == [pc |-> "reading", total |-> 0, from |-> 0, outputs |-> << >>,
              bucket |-> 0, since |-> 0, skipped |-> 0, last |-> NoLine, stuck |-> FALSE]

NoStream == [pc |-> "none", total |-> 0, from |-> 0, start |-> 0, end |-> 0, lines |-> << >>]

GzipTypeOK ==
    /\ packed \in BOOLEAN
    /\ scan.pc \in {"reading", "indexed"}
    /\ scan.total \in 0..StreamSize /\ scan.from \in 0..scan.total
    /\ scan.outputs \in Seq(TimeIndexes)
    /\ stream.pc \in {"none", "skipping", "reading"}
    /\ stream.total \in 0..StreamSize
    /\ stream.pc = "reading" => stream.from \in stream.start..stream.total

InOrder(log) == \A i, j \in DOMAIN log : i < j /\ log[i].ts # 0 /\ log[j].ts # 0
                                           => log[i].ts <= log[j].ts

GzipInit ==
    /\ packed \in BOOLEAN
    /\ file \in IF packed THEN {log \in UNION {[1..n -> Lines] : n \in 0..MaxLines} : InOrder(log)}
                ELSE {<< >>}
    /\ index = << >> /\ indexed = 0 /\ builder = Idle /\ ctx = NoSearch
    /\ scan = Unscanned /\ stream = NoStream

-----------------------------------------------------------------------------
(* The index.                                                               *)

(* A complete line of the carried text that begins at position offset.      *)
(* Beyond the number of untimed lines before the first entry, the loop over *)
(* the lines ends, and with the same line each time it is entered again.    *)
IndexLine(s, k, offset) ==
    LET bucket == BucketOf(LineAt(k).ts)
        entry == [timestamp |-> bucket, offset |-> offset]
        timed == [s EXCEPT !.last = k, !.since = @ + 1]
    IN IF s.stuck THEN s
       ELSE IF ~Timed(k)
       THEN IF s.skipped + 1 > MaxSkipped /\ s.outputs = << >>
            THEN [s EXCEPT !.skipped = @ + 1, !.stuck = TRUE, !.from = Start(k)]
            ELSE [s EXCEPT !.skipped = @ + 1]
       ELSE IF \/ s.bucket = 0
               \/ bucket >= s.bucket + IntervalSeconds
               \/ timed.since >= CountThreshold
       THEN [timed EXCEPT !.outputs = Append(@, entry), !.bucket = bucket, !.since = 0]
       ELSE timed

(* Mistake: what was carried over is not counted in the offsets.            *)
IndexChunkWithoutCarry(s, n) ==
    LET to == s.total + n
        lines == LinesBetween(s.from, to)
        after[i \in 0..Len(lines)] ==
            IF i = 0 THEN [s EXCEPT !.from = RestFrom(@, to), !.stuck = FALSE]
            ELSE IndexLine(after[i - 1], lines[i], s.total + (Start(lines[i]) - s.from))
    IN [after[Len(lines)] EXCEPT !.total = to]

(* The offset of a line is that of the chunk, less what was carried over,   *)
(* and its place in the carried text.                                       *)
IndexChunk(s, n) ==
    LET to == s.total + n
        carried == s.total - s.from
        lines == LinesBetween(s.from, to)
        after[i \in 0..Len(lines)] ==
            IF i = 0 THEN [s EXCEPT !.from = RestFrom(@, to), !.stuck = FALSE]
            ELSE IndexLine(after[i - 1], lines[i],
                           s.total - carried + (Start(lines[i]) - s.from))
    IN [after[Len(lines)] EXCEPT !.total = to]

(* A chunk is read; a line beyond the limit ends the index where it is.     *)
ScanChunk ==
    /\ scan.pc = "reading"
    /\ \E n \in Reads(scan.total) :
          scan' = IF scan.total + n - scan.from > MaxCarry
                  THEN [scan EXCEPT !.pc = "indexed"] ELSE IndexChunk(scan, n)
    /\ UNCHANGED <<searchVars, packed, stream>>

(* The end of the stream: the last timed line closes the index.             *)
ScanEnd ==
    /\ scan.pc = "reading" /\ scan.total = StreamSize
    /\ scan' = [scan EXCEPT !.pc = "indexed",
                  !.outputs = IF @ = << >> THEN @
                              ELSE Append(@, [timestamp |-> LineAt(scan.last).ts,
                                              offset |-> Start(scan.last)])]
    /\ UNCHANGED <<searchVars, packed, stream>>

-----------------------------------------------------------------------------
(* The search.                                                              *)

GzipStart(q) ==
    LET c == [NoSearch EXCEPT !.start_time = q[1], !.end_time = q[2]]
        start == IndexStartPos(scan.outputs, q[1], q[2])
    IN
    /\ scan.pc = "indexed" /\ ctx.pc = "idle"
    /\ IF scan.outputs # << >> /\ IndexFound(scan.outputs, q[1], q[2])
       THEN /\ ctx' = [c EXCEPT !.pc = "reading"]
            /\ stream' = [NoStream EXCEPT !.start = start,
                            !.pc = IF start = 0 THEN "reading" ELSE "skipping",
                            !.end = IndexEndPos(scan.outputs, q[1], q[2])]
       ELSE ctx' = [c EXCEPT !.pc = "done"] /\ UNCHANGED stream
    /\ UNCHANGED <<vars, packed, scan>>

Fail == ctx' = [ctx EXCEPT !.pc = "done"] /\ UNCHANGED stream

(* Mistake: all of the chunk is carried over.                               *)
SkippedToChunk(n) ==
    LET to == stream.total + n IN
    [stream EXCEPT !.total = to,
                   !.pc = IF to >= stream.start THEN "reading" ELSE "skipping",
                   !.from = stream.total]

(* What a chunk has beyond the start position is carried over.              *)
Skipped(n) ==
    LET to == stream.total + n IN
    [stream EXCEPT !.total = to,
                   !.pc = IF to >= stream.start THEN "reading" ELSE "skipping",
                   !.from = stream.start]

(* The position is reached by inflating; a chunk that ends short of it and  *)
(* of a buffer is taken for the end of the file.                            *)
SkipChunk ==
    /\ ctx.pc = "reading" /\ stream.pc = "skipping"
    /\ \E n \in Reads(stream.total) :
          IF n < BufferSize /\ n < stream.start - stream.total THEN Fail
          ELSE stream' = Skipped(n) /\ UNCHANGED ctx
    /\ UNCHANGED <<vars, packed, scan>>

(* A chunk is read and cut into lines; with a line beyond the limit the     *)
(* reading ends.                                                            *)
ReadChunk ==
    /\ ctx.pc = "reading" /\ stream.pc = "reading"
    /\ stream.lines = << >> /\ stream.total < stream.end
    /\ \E n \in Reads(stream.total) :
          LET to == stream.total + n IN
          IF to - stream.from > MaxCarry
          THEN ctx' = [ctx EXCEPT !.pc = "flushing"] /\ UNCHANGED stream
          ELSE /\ stream' = [stream EXCEPT !.total = to,
                               !.lines = LinesBetween(stream.from, to),
                               !.from = RestFrom(stream.from, to)]
               /\ UNCHANGED ctx
    /\ UNCHANGED <<vars, packed, scan>>

(* A line of the chunk is parsed; when there are enough results the others  *)
(* of the chunk are left out, but the reading goes on.                      *)
ParseChunkLine ==
    LET parsed == ParseLine([ctx EXCEPT !.pos = Head(stream.lines)])
        batch == IF Len(parsed.log_lines) < MaxBatch THEN parsed
                 ELSE [parsed EXCEPT !.matched_lines = ExecSearchers(@, parsed.log_lines),
                                     !.log_lines = << >>]
    IN
    /\ ctx.pc = "reading" /\ stream.pc = "reading" /\ stream.lines # << >>
    /\ ctx' = batch
    /\ stream' = [stream EXCEPT !.lines =
                    IF Len(batch.matched_lines) >= MaxResults THEN << >> ELSE Tail(@)]
    /\ UNCHANGED <<vars, packed, scan>>

(* The end position is reached; what is carried then is not looked at.      *)
ReadEnd ==
    /\ ctx.pc = "reading" /\ stream.pc = "reading"
    /\ stream.lines = << >> /\ stream.total >= stream.end
    /\ ctx' = [ctx EXCEPT !.pc = "flushing"]
    /\ UNCHANGED <<vars, packed, scan, stream>>

GzipRespond == Respond /\ stream' = NoStream /\ UNCHANGED <<packed, scan>>

GzipNext ==
    \/ /\ ~packed
       /\ SearchNext /\ UNCHANGED <<packed, scan, stream>>
    \/ /\ packed
       /\ \/ ScanChunk \/ ScanEnd
          \/ \E q \in Queries : GzipStart(q)
          \/ SkipChunk \/ ReadChunk \/ ParseChunkLine \/ ReadEnd
          \/ FlushSearch /\ UNCHANGED <<packed, scan, stream>>
          \/ GzipRespond

GzipSpec == GzipInit /\ [][GzipNext]_gzipVars

-----------------------------------------------------------------------------
(* Properties.                                                              *)

(* Lines before the first one beyond the limit.                             *)
Seen == {k \in 0..Len(file) - 1 : \A j \in 0..k : ~LineAt(j).long}

(* Wherever the chunks end, the index has the first line of each bucket at  *)
(* its position in the stream, in order, nothing else but further lines of  *)
(* buckets that were crowded by then and, if the end was reached, the last  *)
(* timed line.  (It is empty if too many lines had no timestamp.)           *)
GzipIndexIsCanonical ==
    packed /\ scan.pc = "indexed" /\ scan.outputs # << >> =>
    LET whole == Seen = 0..Len(file) - 1
        body == IF whole THEN Front(scan.outputs) ELSE scan.outputs
        entryOf(k) == [timestamp |-> BucketOf(LineAt(k).ts), offset |-> Start(k)]
        end == CHOOSE k \in Seen : Timed(k) /\ \A j \in Seen : j > k => ~Timed(j)
    IN /\ \A k \in Seen : IsBucketFirst(k) => \E i \in DOMAIN body : body[i] = entryOf(k)
       /\ \A i \in DOMAIN body : \E k \in Seen :
             /\ Findable(k) /\ body[i] = entryOf(k)
             /\ IsBucketFirst(k) \/ Crowded(BucketOf(LineAt(k).ts), k + 1)
       /\ \A i, j \in DOMAIN body : i < j => body[i].offset < body[j].offset
       /\ whole => Final(scan.outputs) =
             [timestamp |-> LineAt(end).ts, offset |-> Start(end)]

(* A search of a gzip file that does not begin within a crowded bucket      *)
(* answers, up to its limit, the first of the records a scan would answer:  *)
(* none is missed in between, whatever the cuts, and at most the last one   *)
(* misses lines that continue it.                                           *)
GzipAnswersAreFirst ==
    /\ packed /\ ctx.pc = "done"
    /\ LeadsToFirst(ctx.start_time, BucketOf(ctx.start_time), Len(file))
    => LET got == Upto(ctx.matched_lines, MaxResults)
           all == ScanRecords(Len(file), ctx.start_time, ctx.end_time)
       IN /\ Len(got) <= Len(all)
          /\ \A i \in DOMAIN got : i < Len(got) => got[i] = all[i]
          /\ got # << >> => IsPrefix(Last(got), all[Len(got)])

(* What the search page says, "Finds all lines", of a file without lines    *)
(* beyond the limit.                                                        *)
GzipFindsAll ==
    packed /\ ctx.pc = "done" /\ Len(file) > 0 /\ (\A k \in DOMAIN file : ~file[k].long) =>
        Upto(ctx.matched_lines, MaxResults)
            = Upto(ScanRecords(Len(file), ctx.start_time, ctx.end_time), MaxResults)
==============================================================================
