------------------------ MODULE MCEligibilityService ------------------------
(***************************************************************************)
(* Instances of EligibilityService for TLC.                                *)
(***************************************************************************)
EXTENDS EligibilityService

\* A pull request is handed off as it was opened, and rerun after its first push.
HandedOffAtFirst == {<<p, 0>> : p \in PRs}
=============================================================================
