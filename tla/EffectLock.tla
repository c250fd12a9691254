----------------------------- MODULE EffectLock -----------------------------
(***************************************************************************)
(* What the effect frontier of the service amounts to, seen from outside:  *)
(* a lock with numbered holders over a set of budgets.  At most one actor  *)
(* holds it, only the holder spends, each budget is spent once, and once a *)
(* newer actor has spent something an older one spends nothing.            *)
(*                                                                         *)
(* No module of the code has this lock.  ServiceFrontier shows that what   *)
(* the runs read from each other's artifacts implements it, and            *)
(* EligibilityService that the ledgers and reservations of a run do, with  *)
(* one budget for the three ways to request a CI run again.                *)
(***************************************************************************)
EXTENDS Integers

CONSTANTS Actors, Budgets

VARIABLES
    holders,    \* the actors that hold the lock
    spent       \* what has been spent, as pairs (actor, budget)

vars == <<holders, spent>>

Init == holders = {} /\ spent = {}

Enter(a) == holders = {} /\ holders' = {a} /\ UNCHANGED spent

\* An actor leaves when it is done, when it dies, and when it finds its claim refuted.
Leave(a) == a \in holders /\ holders' = holders \ {a} /\ UNCHANGED spent

Spend(a, b) ==
    /\ a \in holders
    /\ \A p \in spent : p[1] <= a /\ p[2] # b
    /\ spent' = spent \cup {<<a, b>>}
    /\ UNCHANGED holders

Next == \E a \in Actors : Enter(a) \/ Leave(a) \/ \E b \in Budgets : Spend(a, b)

Spec == Init /\ [][Next]_vars
=============================================================================
