---------------------------- MODULE MCIndexBuilder ----------------------------
(* An instance of IndexBuilder for TLC: a log of timed and untimed lines.   *)
EXTENDS IndexBuilder

LineOf(ts) == [ts |-> ts, long |-> FALSE, hit |-> FALSE]
TailLines == {LineOf(2), LineOf(0)}
==============================================================================
