----------------------------- MODULE ClosedRead -----------------------------
(***************************************************************************)
(* What it means to read something that changes in many requests as if in  *)
(* one: the answer is what the world would have answered at one moment     *)
(* between the question and the answer, or an excuse that says nothing.    *)
(* There is one answer for each question, and it stands until the next.    *)
(*                                                                         *)
(* No module of the code reads at one moment.  CandidateResolution shows   *)
(* that reading the parts, proving that they belong together and reading   *)
(* them again amounts to it.                                               *)
(***************************************************************************)
CONSTANTS
    Answers,    \* what the world may answer
    Excuses     \* why there is no answer

VARIABLES
    now,        \* what the world would answer at this moment
    busy,       \* a question has been asked
    seen,       \* what the world would have answered at some moment since then
    answer      \* the answer to the last question

vars == <<now, busy, seen, answer>>

Init == now \subseteq Answers /\ busy = FALSE /\ seen = {} /\ answer = "none"

\* The world changes, or what it is asked about gets clearer, with every step.
Goes == now' \subseteq Answers

Ask ==
    /\ ~busy
    /\ busy' = TRUE
    /\ seen' = {}
    /\ answer' = "none"
    /\ Goes

\* A moment passes, noticed or not.
Moment ==
    /\ seen' = seen \/ (busy /\ seen' = seen \cup now')
    /\ UNCHANGED <<busy, answer>>
    /\ Goes

Answer ==
    /\ busy
    /\ busy' = FALSE
    /\ answer' \in seen \cup Excuses
    /\ UNCHANGED seen
    /\ Goes

Next == Ask \/ Moment \/ Answer

Spec == Init /\ [][Next]_vars
=============================================================================
