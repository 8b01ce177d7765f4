------------------------------ MODULE MCSearch ------------------------------
(* Instances of GzipSearch and TextSearch for TLC.                          *)
EXTENDS GzipSearch

LineOf(ts, hit) == [ts |-> ts, long |-> FALSE, hit |-> hit]
RecordLines == {LineOf(2, FALSE), LineOf(3, TRUE), LineOf(5, TRUE), LineOf(0, TRUE),
                [ts |-> 0, long |-> TRUE, hit |-> FALSE]}
Intervals == {<<2, 2>>, <<3, 4>>, <<1, 9>>}
==============================================================================
