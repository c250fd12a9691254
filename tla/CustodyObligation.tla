-------------------------- MODULE CustodyObligation --------------------------
(***************************************************************************)
(* What custody promises about a run, whoever dies: an obligation is       *)
(* written down before the first resource is made and cancelled when none  *)
(* is left.  Resources are made from the bottom up while making is open,   *)
(* and unmade from the top down once it is barred; the bar never lifts.    *)
(* What somebody else has taken over is not touched, and after a change    *)
(* of the written obligation nothing is unmade.                            *)
(*                                                                         *)
(* No process of the code holds this state.  OwnerCustody shows that owner *)
(* and guard, neither of whom knows all of it, keep to it together.        *)
(***************************************************************************)
CONSTANT Base   \* for each resource, those it builds on

Resources == DOMAIN Base

VARIABLES
    record,   \* the obligation is written down
    intact,   \* and nobody has changed it
    made,     \* the resources the run has made that exist
    taken,    \* those that somebody else replaced
    barred    \* nothing can be made any more

vars == <<record, intact, made, taken, barred>>

Init == /\ record = FALSE /\ intact = TRUE
        /\ made = {} /\ taken = {}
        /\ barred = FALSE

Undertake == /\ ~record /\ ~barred
             /\ record' = TRUE
             /\ UNCHANGED <<intact, made, taken, barred>>

\* Who makes the resource may be the last who could, and be gone with that.
Make(x) == /\ record /\ ~barred
           /\ x \notin taken /\ Base[x] \subseteq made
           /\ made' = made \cup {x}
           /\ barred' \in BOOLEAN
           /\ UNCHANGED <<record, intact, taken>>

Bar == /\ ~barred
       /\ barred' = TRUE
       /\ UNCHANGED <<record, intact, made, taken>>

Unmake(x) == /\ record /\ intact /\ barred
             /\ x \in made /\ \A y \in made : x \notin Base[y]
             /\ made' = made \ {x}
             /\ UNCHANGED <<record, intact, taken, barred>>

Discharge == /\ record /\ barred
             /\ made = {}
             /\ record' = FALSE
             /\ UNCHANGED <<intact, made, taken, barred>>

\* What others do: change the record, or put something of their own in a resource's place.
Change == /\ record
          /\ intact' = FALSE
          /\ UNCHANGED <<record, made, taken, barred>>

Take(x) == /\ x \in made
           /\ made' = made \ {x}
           /\ taken' = taken \cup {x}
           /\ UNCHANGED <<record, intact, barred>>

Next == \/ Undertake \/ Bar \/ Discharge \/ Change
        \/ \E x \in Resources : Make(x) \/ Unmake(x) \/ Take(x)

Spec == Init /\ [][Next]_vars
=============================================================================
