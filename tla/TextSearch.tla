------------------------------ MODULE TextSearch ------------------------------
(***************************************************************************)
(* A search of one text file (src/agent/searcher.cpp: find_index_pos,      *)
(* search_file_txt, parse_line, exec_searchers), one line per step, while  *)
(* the log grows and is indexed again.  A log record is its header line    *)
(* and the lines without a timestamp that follow it: here the sequence of  *)
(* their offsets.  A query matches a record if its text is in one of the   *)
(* lines.                                                                  *)
(***************************************************************************)
EXTENDS IndexBuilder, SequencesExt

CONSTANTS
    Queries,      \* the query intervals: <<start_time, end_time>>
    MaxResults,   \* max_results of the request
    MaxBatch      \* MAX_BATCH_MATCHES: records parsed before they are searched

ASSUME SearchAssumption ==
    Queries \subseteq Nat \X Nat /\ MaxResults \in Nat /\ MaxBatch \in Nat \ {0}

VARIABLE ctx   \* the SearchContext and the position of the loop

searchVars == <<file, index, indexed, builder, ctx>>

NoSearch == [pc |-> "idle", start_time |-> 0, end_time |-> 0, pos |-> 0, end_pos |-> 0,
             tmp_line |-> << >>, log_lines |-> << >>, matched_lines |-> << >>,
             covered |-> 0]

Records == Seq(0..MaxLines)

SearchTypeOK ==
    /\ ctx.pc \in {"idle", "reading", "flushing", "done"}
    /\ ctx.pos \in 0..MaxLines /\ ctx.end_pos \in 0..MaxLines
    /\ ctx.tmp_line \in Records
    /\ Len(ctx.log_lines) <= MaxBatch + 1
    /\ \A i \in DOMAIN ctx.matched_lines : ctx.matched_lines[i] \in Records \ {<< >>}

SearchInit == Init /\ ctx = NoSearch

Matches(record) == \E i \in DOMAIN record : LineAt(record[i]).hit

(* exec_searchers: matching records are taken until there are enough; the   *)
(* count is only looked at after a record.                                  *)
ExecSearchers(matched, records) ==
    LET taken[n \in 0..Len(records)] ==
            IF n = 0 THEN matched
            ELSE LET before == taken[n - 1] IN
                 IF (n > 1 /\ Len(before) >= MaxResults) \/ ~Matches(records[n]) THEN before
                 ELSE Append(before, records[n])
    IN taken[Len(records)]

Pending(c) == IF c.tmp_line = << >> THEN << >> ELSE << c.tmp_line >>

(* Mistake: a header after the interval does not complete the last record.  *)
ParseLineDroppingLast(c) ==
    LET ts == LineAt(c.pos).ts IN
    IF ts = 0 THEN [c EXCEPT !.tmp_line = IF @ = << >> THEN @ ELSE Append(@, c.pos)]
    ELSE IF ts < c.start_time THEN c
    ELSE IF ts > c.end_time THEN [c EXCEPT !.tmp_line = << >>]
    ELSE [c EXCEPT !.log_lines = @ \o Pending(c), !.tmp_line = << c.pos >>]

(* Mistake: a header before the interval begins a record, too.              *)
ParseLineTakingEarly(c) ==
    LET ts == LineAt(c.pos).ts IN
    IF ts = 0 THEN [c EXCEPT !.tmp_line = IF @ = << >> THEN @ ELSE Append(@, c.pos)]
    ELSE [c EXCEPT !.log_lines = @ \o Pending(c),
                   !.tmp_line = IF ts > c.end_time THEN << >> ELSE << c.pos >>]

(* parse_line: a line without a timestamp continues the pending record; one *)
(* in the interval or after it completes it; one in it starts the next.     *)
ParseLine(c) ==
    LET ts == LineAt(c.pos).ts IN
    IF ts = 0 THEN [c EXCEPT !.tmp_line = IF @ = << >> THEN @ ELSE Append(@, c.pos)]
    ELSE IF ts < c.start_time THEN c
    ELSE [c EXCEPT !.log_lines = @ \o Pending(c),
                   !.tmp_line = IF ts > c.end_time THEN << >> ELSE << c.pos >>]

-----------------------------------------------------------------------------
(* find_index_pos on the index of the moment; a request whose interval no   *)
(* segment covers ends without a result.                                    *)
StartSearch(q) ==
    LET c == [NoSearch EXCEPT !.start_time = q[1], !.end_time = q[2],
                 !.covered = IF index # << >> /\ IndexIsClosed THEN Final(index).offset + 1 ELSE 0]
    IN
    /\ ctx.pc = "idle"
    /\ ctx' = IF index # << >> /\ IndexFound(index, q[1], q[2])
              THEN [c EXCEPT !.pc = "reading",
                             !.pos = IndexStartPos(index, q[1], q[2]),
                             !.end_pos = IndexEndPos(index, q[1], q[2])]
              ELSE [c EXCEPT !.pc = "done"]
    /\ UNCHANGED vars

(* Mistake: the line at the end position is not read any more.              *)
ReadLineStoppingAtEnd ==
    LET parsed == [ParseLine(ctx) EXCEPT !.pos = @ + 1]
        batch == [parsed EXCEPT
                    !.matched_lines = ExecSearchers(@, parsed.log_lines),
                    !.log_lines = << >>]
    IN
    /\ ctx.pc = "reading"
    /\ ctx.pos < Len(file)
    /\ ctx' = IF parsed.pos >= ctx.end_pos THEN [parsed EXCEPT !.pc = "flushing"]
              ELSE IF Len(parsed.log_lines) < MaxBatch THEN parsed
              ELSE IF Len(batch.matched_lines) >= MaxResults
              THEN [batch EXCEPT !.pc = "flushing"] ELSE batch
    /\ UNCHANGED vars

(* Mistake: the records of a batch stay after they were searched.           *)
ReadLineKeepingBatch ==
    LET parsed == [ParseLine(ctx) EXCEPT !.pos = @ + 1]
        batch == [parsed EXCEPT
                    !.matched_lines = ExecSearchers(@, parsed.log_lines)]
    IN
    /\ ctx.pc = "reading"
    /\ ctx.pos < Len(file)
    /\ ctx' = IF parsed.pos > ctx.end_pos THEN [parsed EXCEPT !.pc = "flushing"]
              ELSE IF Len(parsed.log_lines) < MaxBatch THEN parsed
              ELSE IF Len(batch.matched_lines) >= MaxResults
              THEN [batch EXCEPT !.pc = "flushing"] ELSE batch
    /\ UNCHANGED vars

(* One turn of the loop: a line is parsed; the loop ends behind the line at *)
(* the end position, or when a full batch has given enough results.         *)
ReadLine ==
    LET parsed == [ParseLine(ctx) EXCEPT !.pos = @ + 1]
        batch == [parsed EXCEPT
                    !.matched_lines = ExecSearchers(@, parsed.log_lines),
                    !.log_lines = << >>]
    IN
    /\ ctx.pc = "reading"
    /\ ctx.pos < Len(file)
    /\ ctx' = IF parsed.pos > ctx.end_pos THEN [parsed EXCEPT !.pc = "flushing"]
              ELSE IF Len(parsed.log_lines) < MaxBatch THEN parsed
              ELSE IF Len(batch.matched_lines) >= MaxResults
              THEN [batch EXCEPT !.pc = "flushing"] ELSE batch
    /\ UNCHANGED vars

(* After the loop: the pending record joins the others, which are searched. *)
FlushSearch ==
    LET rest == ctx.log_lines \o Pending(ctx) IN
    /\ ctx.pc = "flushing"
    /\ ctx' = [ctx EXCEPT !.pc = "done", !.tmp_line = << >>, !.log_lines = << >>,
                  !.matched_lines = IF rest = << >> THEN @ ELSE ExecSearchers(@, rest)]
    /\ UNCHANGED vars

Respond == ctx.pc = "done" /\ ctx' = NoSearch /\ UNCHANGED vars

SearchNext ==
    \/ Next /\ UNCHANGED ctx
    \/ \E q \in Queries : StartSearch(q)
    \/ ReadLine \/ FlushSearch \/ Respond

SearchSpec == SearchInit /\ [][SearchNext]_searchVars

-----------------------------------------------------------------------------
(* Properties.                                                              *)

(* The records of the first n lines that begin in the interval and match,   *)
(* as a scan of the whole file would find them.                             *)
RecordAt(k, n) ==
    LET end == CHOOSE j \in k + 1..n : /\ \A i \in k + 1..j - 1 : ~Timed(i)
                                       /\ j = n \/ Timed(j)
    IN [i \in 1..end - k |-> k + i - 1]

ScanRecords(n, s, e) ==
    LET found[k \in 0..n] ==
            IF k = 0 THEN << >>
            ELSE LET before == found[k - 1]
                     record == RecordAt(k - 1, n)
                 IN IF Timed(k - 1) /\ LineAt(k - 1).ts \in s..e /\ Matches(record)
                    THEN Append(before, record) ELSE before
    IN found[n]

Upto(s, n) == SubSeq(s, 1, IF Len(s) <= n THEN Len(s) ELSE n)

(* With an index that its last line closes, a search by index answers what  *)
(* a scan of the indexed lines would, up to the limit on the results,       *)
(* although it starts and stops in the middle of the file and the file and  *)
(* the index go on changing; unless it begins within a crowded bucket.      *)
SearchIsScan ==
    /\ ctx.pc = "done" /\ ctx.covered > 0
    /\ LeadsToFirst(ctx.start_time, BucketOf(ctx.start_time), ctx.covered)
    => Upto(ctx.matched_lines, MaxResults)
           = Upto(ScanRecords(ctx.covered, ctx.start_time, ctx.end_time), MaxResults)

(* Whatever the index, every record of an answer, up to the limit on the    *)
(* results, begins in the interval, matches, and is made of a header and    *)
(* the lines that follow it.                                                *)
AnswersAreRecords ==
    \A i \in DOMAIN Upto(ctx.matched_lines, MaxResults) :
        LET r == ctx.matched_lines[i] IN
        /\ Timed(r[1]) /\ LineAt(r[1]).ts \in ctx.start_time..ctx.end_time
        /\ Matches(r)
        /\ \A j \in 2..Len(r) : r[j] = r[j - 1] + 1 /\ ~Timed(r[j])

==============================================================================
