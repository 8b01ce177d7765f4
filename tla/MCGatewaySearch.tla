--------------------------- MODULE MCGatewaySearch ---------------------------
(* An instance of GatewaySearch for TLC.  Buckets of two seconds: an index  *)
(* that is open at time 3 ends at 2, before the second interval.            *)
EXTENDS GatewaySearch
MCFirstFiles == {NoFile, [times |-> {2, 3}, closed |-> TRUE]}
MCIntervals == {<<2, 4>>, <<3, 3>>}
==============================================================================
