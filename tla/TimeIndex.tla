------------------------------ MODULE TimeIndex ------------------------------
(***************************************************************************)
(* The time index of one log file and its use by a search                  *)
(* (src/agent/indexer.hpp, LogSearcher::find_index_pos).                   *)
(*                                                                         *)
(* A file is a sequence of lines; the byte offset of a line is abstracted  *)
(* to the number of lines before it.  A line has the timestamp that        *)
(* get_timestamp_from_log_line finds in it, 0 if it finds none, and may be *)
(* longer than the index builder's limit.                                  *)
(***************************************************************************)
EXTENDS Integers, Sequences

TimeIndexes == [timestamp: Nat, offset: Nat]

Final(s) == s[Len(s)]

(* timestamp_covers: two closed intervals meet.                             *)
TimestampCovers(idx_start, idx_end, start_time, end_time) ==
    idx_start <= end_time /\ idx_end >= start_time

(* The segments between neighbouring entries that meet the query interval.  *)
CoveringSegments(index, start_time, end_time) ==
    {i \in 1..Len(index) - 1 :
        TimestampCovers(index[i].timestamp, index[i + 1].timestamp,
                        start_time, end_time)}

(* find_index_pos succeeds, and the offsets it finds: from the first such   *)
(* segment's entry to the entry after the last one.                         *)
IndexFound(index, start_time, end_time) ==
    CoveringSegments(index, start_time, end_time) # {}

IndexStartPos(index, start_time, end_time) ==
    LET S == CoveringSegments(index, start_time, end_time)
    IN index[CHOOSE i \in S : \A j \in S : i <= j].offset

IndexEndPos(index, start_time, end_time) ==
    LET S == CoveringSegments(index, start_time, end_time)
    IN index[(CHOOSE i \in S : \A j \in S : j <= i) + 1].offset

(* The line at an offset is read by a search of the interval.               *)
InSearchedRange(index, offset, start_time, end_time) ==
    /\ IndexFound(index, start_time, end_time)
    /\ IndexStartPos(index, start_time, end_time) <= offset
    /\ offset <= IndexEndPos(index, start_time, end_time)
==============================================================================
