--------------------------- MODULE MCScheduledScan ---------------------------
(***************************************************************************)
(* Instances of ScheduledScan: a budget of about ten requests, not 500.    *)
(***************************************************************************)
EXTENDS ScheduledScan

UnevenGets == [p \in PRs |-> IF p \in Retained THEN 9 ELSE 3]
RetainedFetches == [p \in PRs |-> IF p \in Retained THEN 2 ELSE 0]
\* Two candidates whose metadata do not fit into one scan together, and an original that
\* does not fit behind them.
StarvingGets == [p \in PRs |-> IF p \in Retained THEN 3 ELSE 1]
StarvingFetches == [p \in PRs |-> IF p \in Retained THEN 0 ELSE 4]
=============================================================================
