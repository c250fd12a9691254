------------------------- MODULE MCServiceFrontier -------------------------
(***************************************************************************)
(* Instances of ServiceFrontier for TLC.                                   *)
(***************************************************************************)
EXTENDS ServiceFrontier

\* Creation times with a tie, as two events within one second produce.
LateTie == [r \in Runs |-> IF r = 1 THEN 1 ELSE 2]

DistinctTimes == [r \in Runs |-> r]
=============================================================================
