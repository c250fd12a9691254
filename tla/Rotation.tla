------------------------------ MODULE Rotation ------------------------------
(***************************************************************************)
(* What a cursor promises to those who wait: a token goes round among the  *)
(* numbers and passes over nobody who has been there since the round began *)
(* and has not been served in it.  So the token only comes nearer to one   *)
(* who stays, however a round ends, and reaches it before anybody twice.   *)
(*                                                                         *)
(* No module of the code has this state.  ScheduledScan shows that the     *)
(* hourly scan keeps to it, with the pull requests that its budget does    *)
(* not reach and those that come, go and come back while it looks.         *)
(***************************************************************************)
EXTENDS Integers

CONSTANTS
    Size,       \* members have the numbers 1 to Size
    Exempt      \* members the token may pass over

Members == 1 .. Size

VARIABLES
    token,      \* the number the token is at
    present,    \* the members that are there
    steady,     \* those who have been there since the round began
    served      \* those who were served in this round

vars == <<token, present, steady, served>>

\* How far the token has to go to a member; to itself it is a whole round.
Distance(m) == IF m > token THEN m - token ELSE m + Size - token

Init == token = 0 /\ present = Members /\ steady = {} /\ served = {}

Begin ==
    /\ steady' = present /\ served' = {}
    /\ UNCHANGED <<token, present>>

ComeOrGo(m) ==
    /\ present' \in {present \cup {m}, present \ {m}}
    /\ steady' = steady \ {m}
    /\ UNCHANGED <<token, served>>

Serve(m) ==
    /\ served' = served \cup {m}
    /\ UNCHANGED <<token, present, steady>>

Pass(m) ==
    /\ \A n \in steady \ Exempt : Distance(n) <= Distance(m) => n \in served
    /\ token' = m
    /\ UNCHANGED <<present, steady, served>>

Next == Begin \/ \E m \in Members : ComeOrGo(m) \/ Serve(m) \/ Pass(m)

Spec == Init /\ [][Next]_vars
=============================================================================
