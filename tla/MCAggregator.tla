---------------------------- MODULE MCAggregator ----------------------------
(* Three metrics in two buckets: a counter and, around it, a gauge.        *)
EXTENDS Aggregator
CONSTANTS f1, f2
MCNameOf == [r \in Reports |-> "a"]
MCTypeOf == [r \in Reports |-> IF r = 2 THEN "c" ELSE "g"]
=============================================================================
