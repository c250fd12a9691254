---------------------- MODULE EligibilityServiceProofs ----------------------
(***************************************************************************)
(* Proofs about EligibilityService, for any pull requests, handoffs,       *)
(* bounds and faults.                                                      *)
(***************************************************************************)
EXTENDS EligibilityService, FiniteSetTheorems, TLAPS

USE PRsAssumption, BoundsAssumption, HandoffAssumption, FaultsAssumption DEF RunIds

-----------------------------------------------------------------------------
(* Candidates, and what an action leaves alone.                              *)

LEMMA CandidateFields ==
    ASSUME NEW c \in Candidate
    PROVE  /\ c.original \in Originals /\ c.base \in 0 .. MaxBase
           /\ c = [original |-> c.original, base |-> c.base]
BY DEF Candidate

LEMMA CandidateMade ==
    ASSUME NEW o \in Originals, NEW b \in 0 .. MaxBase
    PROVE  [original |-> o, base |-> b] \in Candidate
BY DEF Candidate

LEMMA CandidatesDiffer ==
    ASSUME NEW c \in Candidate, NEW d \in Candidate, c.original = d.original, c.base = d.base
    PROVE  c = d
BY CandidateFields

LEMMA OriginalFields ==
    ASSUME NEW o \in Originals
    PROVE  o[1] \in PRs /\ o[2] \in 0 .. MaxPush /\ o = <<o[1], o[2]>>
BY DEF Originals

LEMMA OriginalMade ==
    ASSUME NEW p \in PRs, NEW n \in 0 .. MaxPush
    PROVE  <<p, n>> \in Originals /\ <<p, n>>[1] = p /\ <<p, n>>[2] = n
BY DEF Originals

LEMMA TestedIsCandidate ==
    ASSUME TypeOK, NEW o \in Originals
    PROVE  /\ Tested(o) \in Candidate
           /\ Tested(o).original = o /\ Tested(o).base = ci[o].base
<1>1. ci[o].base \in 0 .. MaxBase
  BY DEF TypeOK, CiRun
<1> QED
  BY <1>1, CandidateMade DEF Tested

LEMMA NoReportsType == NoReports \in Reports
BY DEF NoReports, Reports, Verdicts

LEMMA GenesisType == Genesis \in Payload
BY NoReportsType DEF Genesis, Payload, Phases

-----------------------------------------------------------------------------
\* The invariant holds before the first run (service).
THEOREM InitIInv == Init => IInv
<1> SUFFICES ASSUME Init PROVE IInv
  OBVIOUS
<1> USE DEF Init
<1>1. TypeOK
  <2>1. Candidate # {}
    <3>1. PICK p \in PRs : TRUE
      OBVIOUS
    <3>2. <<p, 0>> \in Originals /\ 0 \in 0 .. MaxBase
      BY <3>1, OriginalMade
    <3> QED
      BY <3>2, CandidateMade
  <2>2. cand \in Candidate
    BY <2>1
  <2>3. ci \in [Originals -> CiRun]
    BY DEF CiRun, NewCi, NoCi
  <2>4. recoveries \in [Originals -> Phases] /\ previous \in Payload
    BY GenesisType DEF Genesis, Phases
  <2>5. published \in [1 .. MaxRuns -> Reports] /\ reports \in Reports
    BY NoReportsType
  <2>6. status \in [Candidate -> [verdict : Verdicts, run : 0 .. MaxRuns]]
    BY DEF Verdicts
  <2>7. /\ source \in [PRs -> 0 .. MaxPush] /\ merged \in [PRs -> 0 .. MaxBase]
        /\ target \in 0 .. MaxBase /\ seen \in 0 .. MaxBase /\ run \in 0 .. MaxRuns
    OBVIOUS
  <2> QED
    BY <2>2, <2>3, <2>4, <2>5, <2>6, <2>7 DEF TypeOK, Steps, Verdicts
<1>2. Bounded /\ Known /\ Restarted
  BY DEF Bounded, Known, Restarted, InHand, Genesis, NewCi, NoCi, Originals
<1>3. Charged /\ Accounted /\ Unspent /\ Licensed /\ Graphs /\ Backing /\ Watched
  BY DEF Charged, Accounted, Unspent, Licensed, Graphs, Backing, Watched, Steps
<1>4. Recorded /\ Fresh
  BY DEF Recorded, Fresh, InHand, Genesis
<1>5. OneRequestPerOriginal /\ PassedOnEvidence
  BY DEF OneRequestPerOriginal, PassedOnEvidence, NewCi, NoCi
<1> QED
  BY <1>1, <1>2, <1>3, <1>4, <1>5 DEF IInv

-----------------------------------------------------------------------------
(* Types.                                                                    *)

LEMMA CiStateType ==
    ASSUME TypeOK, NEW o \in Originals,
           NEW s \in {"none", "queued", "waiting", "failed", "passed"}
    PROVE  [ci EXCEPT ![o].state = s] \in [Originals -> CiRun]
<1>1. ci[o] \in CiRun /\ ci \in [Originals -> CiRun]
  BY DEF TypeOK
<1>2. [ci[o] EXCEPT !.state = s] \in CiRun
  BY <1>1 DEF CiRun
<1> QED
  BY <1>1, <1>2

LEMMA RestartType ==
    ASSUME TypeOK, Restarted, NEW delivered \in BOOLEAN, RerunFailedJobs(delivered)
    PROVE  ci' \in [Originals -> CiRun]
<1>1. cand.original \in Originals
  BY CandidateFields DEF TypeOK
<1>2. ci[cand.original] \in CiRun /\ ci \in [Originals -> CiRun]
  BY <1>1 DEF TypeOK
<1>3. ci[cand.original].attempt + 1 \in 0 .. 3
  BY <1>1, <1>2 DEF Restarted, CiRun
<1>4. [ci[cand.original] EXCEPT !.state = "queued", !.attempt = @ + 1] \in CiRun
  BY <1>2, <1>3 DEF CiRun
<1>5. CASE delivered
  BY <1>1, <1>2, <1>4, <1>5 DEF RerunFailedJobs
<1>6. CASE ~delivered
  BY <1>2, <1>6 DEF RerunFailedJobs
<1> QED
  BY <1>5, <1>6

StatusType == [Candidate -> [verdict : Verdicts, run : 0 .. MaxRuns]]

LEMMA ReportStatusType ==
    ASSUME TypeOK, NEW c \in Candidate,
           NEW receipt \in [verdict : Verdicts, run : 0 .. MaxRuns], ReportStatus(c, receipt)
    PROVE  status' \in StatusType /\ reports' \in Reports
<1>1. receipt.verdict \in Verdicts
  OBVIOUS
<1> DEFINE R == [verdict : Verdicts, run : 0 .. MaxRuns]
<1>2. receipt \in R /\ status \in [Candidate -> R] /\ reports \in [Candidate -> Verdicts]
  BY DEF TypeOK, Reports
<1>3. status' = [status EXCEPT ![c] = receipt] /\ reports' = [reports EXCEPT ![c] = receipt.verdict]
  BY DEF ReportStatus
<1> HIDE DEF R
<1>4. status' \in [Candidate -> R] /\ reports' \in [Candidate -> Verdicts]
  BY <1>1, <1>2, <1>3
<1> QED
  BY <1>4 DEF R, StatusType, Reports

LEMMA StatusFailsType ==
    ASSUME TypeOK, NEW c \in Candidate,
           NEW receipt \in [verdict : Verdicts, run : 0 .. MaxRuns], StatusFails(c, receipt)
    PROVE  status' \in StatusType
<1> DEFINE R == [verdict : Verdicts, run : 0 .. MaxRuns]
<1>1. receipt \in R /\ status \in [Candidate -> R]
  BY DEF TypeOK
<1>2. status' \in {status, [status EXCEPT ![c] = receipt]}
  BY DEF StatusFails
<1> HIDE DEF R
<1>3. status' \in [Candidate -> R]
  BY <1>1, <1>2
<1> QED
  BY <1>3 DEF R, StatusType

LEMMA LiveIsCandidate ==
    ASSUME TypeOK, NEW p \in PRs
    PROVE  /\ Live(p) \in Candidate /\ Live(p).base = target
           /\ Live(p).original = <<p, source[p]>> /\ <<p, source[p]>> \in Originals
<1>1. source[p] \in 0 .. MaxPush /\ target \in 0 .. MaxBase
  BY DEF TypeOK
<1> QED
  BY <1>1, OriginalMade, CandidateMade DEF Live

\* Every step of the service, the waiters and GitHub keeps the types.
THEOREM TypeNext ==
    ASSUME TypeOK, Bounded, Restarted, [Next]_vars
    PROVE  TypeOK'
<1> USE DEF github, memory, evidence, history, Fail, FailRetained, Refused, Moves, Steps,
            Phases
<1>1. CASE Advance
  BY <1>1 DEF Advance, TypeOK
<1>2. CASE \E p \in PRs : Push(p)
  <2> SUFFICES ASSUME NEW p \in PRs, Push(p) PROVE TypeOK'
    BY <1>2
  <2>1. ci' \in [Originals -> CiRun]
    <3>1. NewCi(target) \in CiRun
      BY DEF TypeOK, NewCi, CiRun
    <3> QED
      BY <3>1 DEF Push, TypeOK
  <2> QED
    BY <2>1 DEF Push, TypeOK
<1>3. CASE \E p \in PRs : Recompute(p)
  BY <1>3 DEF Recompute, TypeOK
<1>4. CASE \E o \in Originals : Ripen(o) \/ WaiterStart(o) \/ WaiterEnd(o)
  <2> SUFFICES ASSUME NEW o \in Originals, Ripen(o) \/ WaiterStart(o) \/ WaiterEnd(o)
               PROVE  TypeOK'
    BY <1>4
  <2>1. CASE Ripen(o)
    BY <2>1 DEF Ripen, TypeOK
  <2>2. CASE WaiterStart(o) \/ WaiterEnd(o)
    <3>1. PICK s \in {"none", "queued", "waiting", "failed", "passed"} :
            ci' = [ci EXCEPT ![o].state = s]
      BY <2>2 DEF WaiterStart, WaiterEnd
    <3>2. ci' \in [Originals -> CiRun]
      BY <3>1, CiStateType
    <3> QED
      BY <2>2, <3>2 DEF WaiterStart, WaiterEnd, TypeOK
  <2> QED
    BY <2>1, <2>2
<1>5. CASE \E c \in Candidate : Evaluate(c)
  BY <1>5 DEF Evaluate, TypeOK, Verdicts
<1>6. CASE Drop \/ EvaluateFails
  BY <1>6 DEF Drop, EvaluateFails, TypeOK
<1>7. CASE Publish \/ PublishFails
  <2>1. Attributed(cand, verdict) \in [verdict : Verdicts, run : 0 .. MaxRuns]
    BY DEF Attributed, TypeOK, Payload
  <2>2. CASE Publish
    <3>1. status' \in StatusType /\ reports' \in Reports
      BY <2>1, <2>2, ReportStatusType DEF Publish, TypeOK
    <3> QED
      BY <2>2, <3>1 DEF Publish, TypeOK, AfterRetry, StatusType
  <2>3. CASE PublishFails
    <3>1. status' \in StatusType
      BY <2>1, <2>3, StatusFailsType DEF PublishFails, TypeOK
    <3> QED
      BY <2>3, <3>1 DEF PublishFails, TypeOK, StatusType
  <2> QED
    BY <1>7, <2>2, <2>3
<1>8. CASE Retry
  BY <1>8 DEF Retry, AfterRetry, TypeOK
<1>9. CASE Rerun
  <2>1. ci' \in [Originals -> CiRun]
    BY <1>9, RestartType DEF Rerun, Deliveries
  <2>2. [original |-> cand.original, kind |-> "rerun", run |-> run]
          \in [original : Originals, kind : Kinds, run : RunIds]
    BY <1>9, CandidateFields DEF Rerun, TypeOK, Bounded, Kinds
  <2> QED
    BY <1>9, <2>1, <2>2 DEF Rerun, TypeOK
<1>10. CASE RecoverNothing \/ RecoverRefused
  BY <1>10, CandidateFields DEF RecoverNothing, RecoverRefused, TypeOK
<1>11. CASE HistoricalReport \/ HistoricalFails
  <2>1. Historical \in Candidate /\ cand.original \in Originals
    BY TestedIsCandidate, CandidateFields DEF Historical, TypeOK
  <2>2. HistoricalReceipt \in [verdict : Verdicts, run : 0 .. MaxRuns]
    BY DEF HistoricalReceipt, TypeOK, Payload, Verdicts
  <2>3. CASE HistoricalReport
    <3>1. status' \in StatusType /\ reports' \in Reports
      BY <2>1, <2>2, <2>3, ReportStatusType DEF HistoricalReport
    <3> QED
      BY <2>3, <3>1 DEF HistoricalReport, TypeOK, StatusType
  <2>4. CASE HistoricalFails
    <3>1. status' \in StatusType
      BY <2>1, <2>2, <2>4, StatusFailsType DEF HistoricalFails
    <3> QED
      BY <2>1, <2>4, <3>1 DEF HistoricalFails, TypeOK, StatusType
  <2> QED
    BY <1>11, <2>3, <2>4
<1>12. CASE Reserve \/ Consume
  BY <1>12, CandidateFields DEF Reserve, Consume, TypeOK
<1>13. CASE Request
  <2>1. PICK outcome \in Outcomes :
          /\ IF cand.original \in Handoff THEN UNCHANGED ci ELSE RerunFailedJobs(outcome.delivered)
          /\ recoveries' = [recoveries EXCEPT ![cand.original] = outcome.phase]
    BY <1>13 DEF Request
  <2>2. outcome.delivered \in BOOLEAN /\ outcome.phase \in {"attempted", "uncertain", "suspended"}
    <3>1. CASE outcome = [delivered |-> TRUE, phase |-> "attempted"]
      BY <3>1
    <3>2. CASE outcome \in [delivered : BOOLEAN, phase : {"uncertain", "suspended"}]
      BY <3>2
    <3> QED
      BY <2>1, <3>1, <3>2 DEF Outcomes
  <2>3. ci' \in [Originals -> CiRun]
    BY <2>1, <2>2, RestartType DEF TypeOK
  <2>4. recoveries' \in [Originals -> Phases]
    BY <2>1, <2>2, CandidateFields DEF TypeOK
  <2>5. [original |-> cand.original,
         kind |-> IF Phase = "retained" THEN "retained" ELSE "recovery", run |-> run]
          \in [original : Originals, kind : Kinds, run : RunIds]
    BY <1>13, CandidateFields DEF Request, TypeOK, Bounded, Kinds
  <2> QED
    BY <1>13, <2>3, <2>4, <2>5 DEF Request, TypeOK
<1>14. CASE \E p \in PRs : RetainedObserve(p)
  <2> SUFFICES ASSUME NEW p \in PRs, RetainedObserve(p) PROVE TypeOK'
    BY <1>14
  <2>1. [original |-> <<p, source[p]>>, base |-> merged[p]] \in Candidate
    BY OriginalMade, CandidateMade DEF TypeOK
  <2> QED
    BY <2>1 DEF RetainedObserve, TypeOK
<1>15. CASE RetainedProve \/ RetainedProof \/ RetainedOriginal
  BY <1>15, CandidateFields DEF RetainedProve, RetainedProof, RetainedOriginal, TypeOK
<1>16. CASE RetainedReport \/ RetainedFails
  <2>1. cand.original \in Originals
    BY CandidateFields DEF TypeOK
  <2>2. HistoricalReceipt \in [verdict : Verdicts, run : 0 .. MaxRuns]
    BY DEF HistoricalReceipt, TypeOK, Payload, Verdicts
  <2>3. CASE RetainedReport
    <3>1. status' \in StatusType /\ reports' \in Reports
      BY <2>2, <2>3, ReportStatusType DEF RetainedReport, TypeOK
    <3> QED
      BY <2>1, <2>3, <3>1 DEF RetainedReport, TypeOK, StatusType
  <2>4. CASE RetainedFails
    <3>1. status' \in StatusType
      BY <2>2, <2>4, StatusFailsType DEF RetainedFails, TypeOK, StatusType
    <3> QED
      BY <2>1, <2>4, <3>1 DEF RetainedFails, TypeOK, StatusType
  <2> QED
    BY <1>16, <2>3, <2>4
<1>17. CASE Finish
  BY <1>17 DEF Finish, TypeOK, Payload
<1>18. CASE Crash
  BY <1>18 DEF Crash, TypeOK
<1>19. CASE \E selected \in Selections : Begin(selected)
  <2> SUFFICES ASSUME NEW selected \in Selections, Begin(selected) PROVE TypeOK'
    BY <1>19
  <2>1. selected \subseteq PRs
    BY DEF Selections
  <2>2. todo' \subseteq Candidate /\ kept' \subseteq PRs
    BY <2>1, LiveIsCandidate DEF Begin
  <2>3. reports' \in Reports /\ reruns' \subseteq Candidate /\ recoveries' \in [Originals -> Phases]
    BY NoReportsType DEF Begin, TypeOK, Payload
  <2> QED
    BY <2>2, <2>3 DEF Begin, TypeOK
<1>20. CASE UNCHANGED vars
  BY <1>20 DEF vars, TypeOK
<1> QED
  BY <1>1, <1>2, <1>3, <1>4, <1>5, <1>6, <1>7, <1>8, <1>9, <1>10, <1>11, <1>12, <1>13, <1>14,
     <1>15, <1>16, <1>17, <1>18, <1>19, <1>20 DEF Next, World, Step
-----------------------------------------------------------------------------
(* The kinds of steps, and what each leaves alone.                           *)

\* Steps of the turn of the candidate in hand that neither take it up nor request anything.
Turn ==
    \/ Drop \/ EvaluateFails \/ Publish \/ PublishFails \/ Retry
    \/ RecoverNothing \/ RecoverRefused \/ HistoricalReport \/ HistoricalFails
    \/ Reserve \/ Consume
    \/ RetainedProve \/ RetainedReport \/ RetainedFails \/ RetainedProof \/ RetainedOriginal

LEMMA Kindwise ==
    ASSUME [Next]_vars
    PROVE  \/ World \/ Turn \/ Rerun \/ Request \/ Finish \/ Crash
           \/ \E c \in Candidate : Evaluate(c)
           \/ \E p \in PRs : RetainedObserve(p)
           \/ \E selected \in Selections : Begin(selected)
           \/ UNCHANGED vars
BY DEF Next, Step, Turn

LEMMA WorldFrame ==
    ASSUME World
    PROVE  /\ UNCHANGED <<status, run, at, todo, kept, cand, verdict, seen, reports, reruns>>
           /\ UNCHANGED <<recoveries, previous, published, fenced, requests>>
BY DEF World, Advance, Push, Recompute, Ripen, WaiterStart, WaiterEnd, memory, evidence, history

LEMMA StutterFrame ==
    ASSUME UNCHANGED vars
    PROVE  /\ UNCHANGED <<source, target, merged, ripe, ci, status, run, at, todo, kept, cand>>
           /\ UNCHANGED <<verdict, seen, reports, reruns, recoveries, previous, published, fenced>>
           /\ UNCHANGED <<requests, unmoved>>
BY DEF vars, github, memory, evidence, history

LEMMA TurnFrame ==
    ASSUME Turn
    PROVE  /\ UNCHANGED <<source, target, merged, ripe, ci, run, cand, verdict, seen, reruns>>
           /\ UNCHANGED <<previous, published, fenced, requests, unmoved>>
           /\ InHand /\ at' # "idle"
           /\ todo' \subseteq todo /\ kept' \subseteq kept
<1> USE DEF github, memory, evidence, history, Fail, FailRetained, InHand
<1>1. CASE Drop \/ EvaluateFails \/ Publish \/ PublishFails \/ Retry
  BY <1>1 DEF Drop, EvaluateFails, Publish, PublishFails, Retry, AfterRetry
<1>2. CASE RecoverNothing \/ RecoverRefused \/ HistoricalReport \/ HistoricalFails
  BY <1>2 DEF RecoverNothing, RecoverRefused, HistoricalReport, HistoricalFails, GraphProved
<1>3. CASE Reserve \/ Consume
  BY <1>3 DEF Reserve, Consume
<1>4. CASE RetainedProve \/ RetainedReport \/ RetainedFails \/ RetainedProof \/ RetainedOriginal
  BY <1>4 DEF RetainedProve, RetainedReport, RetainedFails, RetainedProof, RetainedOriginal
<1> QED
  BY <1>1, <1>2, <1>3, <1>4 DEF Turn

\* Where a turn may go on to; it ends in the loop everywhere.
LEMMA TurnGoesOn ==
    ASSUME Turn, at' # "loop"
    PROVE  \/ at' = "retry" /\ Publish
           \/ at' = "rerun" /\ Retry /\ RetryReady
           \/ at' = "recover" /\ (Publish \/ Retry)
           \/ at' = "reserve" /\ HistoricalReport
           \/ at' = "consume" /\ Reserve
           \/ at' = "request" /\ (Consume \/ RetainedOriginal)
           \/ at' = "proved" /\ RetainedProve /\ RetainedProved
           \/ at' = "proof" /\ RetainedReport /\ RetainedReady
           \/ at' = "original" /\ RetainedProof /\ BindingLive
<1> USE DEF Fail, FailRetained
<1>1. CASE Drop \/ EvaluateFails \/ Publish \/ PublishFails \/ Retry
  BY <1>1 DEF Drop, EvaluateFails, Publish, PublishFails, Retry, AfterRetry
<1>2. CASE RecoverNothing \/ RecoverRefused \/ HistoricalReport \/ HistoricalFails
  BY <1>2 DEF RecoverNothing, RecoverRefused, HistoricalReport, HistoricalFails
<1>3. CASE Reserve \/ Consume
  BY <1>3 DEF Reserve, Consume
<1>4. CASE RetainedProve \/ RetainedReport \/ RetainedFails \/ RetainedProof \/ RetainedOriginal
  BY <1>4 DEF RetainedProve, RetainedReport, RetainedFails, RetainedProof, RetainedOriginal,
              StillRetained
<1> QED
  BY <1>1, <1>2, <1>3, <1>4 DEF Turn

RequestOf(kind) == [original |-> cand.original, kind |-> kind, run |-> run]

LEMMA RerunFrame ==
    ASSUME Rerun
    PROVE  /\ UNCHANGED <<source, target, merged, ripe, status, run, kept, cand, verdict, seen>>
           /\ UNCHANGED <<reports, recoveries, previous, published, fenced, unmoved>>
           /\ at = "rerun" /\ at' = "loop" /\ todo' \subseteq todo
           /\ reruns' = reruns \cup {cand}
           /\ requests' = requests \cup {RequestOf("rerun")}
           /\ \E delivered \in BOOLEAN : RerunFailedJobs(delivered)
BY DEF Rerun, evidence, Fail, Deliveries, RequestOf

Spent == {"attempted", "uncertain", "suspended"}

LEMMA RequestFrame ==
    ASSUME Request
    PROVE  /\ UNCHANGED <<source, target, merged, ripe, status, run, kept, cand, verdict, seen>>
           /\ UNCHANGED <<reports, reruns, todo, previous, published, fenced, unmoved>>
           /\ at = "request" /\ at' = "loop"
           /\ requests' = requests \cup
                {RequestOf(IF Phase = "retained" THEN "retained" ELSE "recovery")}
           /\ \/ UNCHANGED ci /\ cand.original \in Handoff
              \/ cand.original \notin Handoff /\ \E delivered \in BOOLEAN : RerunFailedJobs(delivered)
           /\ \E phase \in Spent : recoveries' = [recoveries EXCEPT ![cand.original] = phase]
<1>1. PICK outcome \in Outcomes :
        /\ IF cand.original \in Handoff THEN UNCHANGED ci ELSE RerunFailedJobs(outcome.delivered)
        /\ recoveries' = [recoveries EXCEPT ![cand.original] = outcome.phase]
  BY DEF Request
<1>2. outcome.delivered \in BOOLEAN /\ outcome.phase \in Spent
  <2>1. CASE outcome = [delivered |-> TRUE, phase |-> "attempted"]
    BY <2>1 DEF Spent
  <2>2. CASE outcome \in [delivered : BOOLEAN, phase : {"uncertain", "suspended"}]
    BY <2>2 DEF Spent
  <2> QED
    BY <1>1, <2>1, <2>2 DEF Outcomes
<1> QED
  BY <1>1, <1>2 DEF Request, evidence, RequestOf

\* What a turn does to reservations: to that of the candidate in hand only, to none when
\* the turn goes on, and a spent one stays spent.
LEMMA TurnReserves ==
    ASSUME TypeOK, Unspent, Turn
    PROVE  /\ \A o \in Originals : o # cand.original => recoveries'[o] = recoveries[o]
           /\ \A o \in Originals : recoveries[o] \in Spent => recoveries'[o] \in Spent
           /\ at' # "loop" => recoveries' = recoveries
<1>0. cand.original \in Originals /\ recoveries \in [Originals -> Phases]
  BY CandidateFields DEF TypeOK
<1> USE <1>0 DEF Refused, Spent, Fail, FailRetained
<1>1. CASE Drop \/ EvaluateFails \/ Publish \/ PublishFails \/ Retry \/ RecoverNothing
  BY <1>1 DEF Drop, EvaluateFails, Publish, PublishFails, Retry, RecoverNothing, memory
<1>2. CASE RecoverRefused \/ HistoricalReport \/ HistoricalFails
  BY <1>2 DEF RecoverRefused, HistoricalReport, HistoricalFails
<1>3. CASE Reserve
  BY <1>3 DEF Reserve, Phase
<1>4. CASE Consume \/ RetainedProve \/ RetainedFails \/ RetainedProof \/ RetainedOriginal
  BY <1>4 DEF Consume, RetainedProve, RetainedFails, RetainedProof, RetainedOriginal
<1>5. CASE RetainedReport
  <2>1. Phase \in {"none", "prepared", "retained"} /\ Phase # "prepared"
    BY <1>5 DEF RetainedReport, Unspent, Steps
  <2>2. recoveries' = [recoveries EXCEPT ![cand.original] = "retained"]
    BY <1>5 DEF RetainedReport
  <2>3. CASE at' = "loop"
    BY <2>1, <2>2, <2>3 DEF Phase
  <2>4. CASE at' # "loop"
    <3>1. Phase = "retained"
      BY <1>5, <2>4 DEF RetainedReport, RetainedReady
    <3>2. recoveries' = recoveries
      BY <2>2, <3>1 DEF Phase
    <3> QED
      BY <3>2
  <2> QED
    BY <2>3, <2>4
<1> QED
  BY <1>1, <1>2, <1>3, <1>4, <1>5 DEF Turn

-----------------------------------------------------------------------------
(* CI runs keep their base, and time its direction.                          *)

\* What a restart does to the CI run of the candidate in hand.
LEMMA RestartEffect ==
    ASSUME TypeOK, NEW delivered \in BOOLEAN, RerunFailedJobs(delivered), NEW o \in Originals
    PROVE  \/ ci'[o] = ci[o]
           \/ /\ o = cand.original
              /\ ci'[o].base = ci[o].base /\ ci'[o].attempt = ci[o].attempt + 1
              /\ ci'[o].state = "queued"
<1>1. ci[o] \in CiRun /\ ci \in [Originals -> CiRun] /\ cand.original \in Originals
  BY CandidateFields DEF TypeOK
<1>2. CASE delivered /\ o = cand.original
  <2>1. ci'[o] = [ci[o] EXCEPT !.state = "queued", !.attempt = @ + 1]
    BY <1>1, <1>2 DEF RerunFailedJobs
  <2> QED
    BY <1>1, <1>2, <2>1 DEF CiRun
<1>3. CASE ~(delivered /\ o = cand.original)
  BY <1>1, <1>3 DEF RerunFailedJobs
<1> QED
  BY <1>2, <1>3

LEMMA CiStep ==
    ASSUME TypeOK, Bounded, Known, [Next]_vars, NEW o \in Originals
    PROVE  \/ ci'[o] = ci[o]
           \/ /\ Pushed(o) /\ ci'[o].base = ci[o].base /\ ci'[o].attempt = ci[o].attempt
              /\ ci[o].state \in {"queued", "waiting"} /\ World
              /\ ci'[o].state = "passed" => Receipt(Tested(o)) = "pass"
              /\ ci'[o].state # "queued"
           \/ /\ Pushed(o) /\ ci'[o].base = ci[o].base /\ ci'[o].attempt = ci[o].attempt + 1
              /\ ci'[o].state = "queued" /\ o = cand.original /\ (Rerun \/ Request)
              /\ Request => cand.original \notin Handoff
           \/ /\ ~Pushed(o) /\ ci'[o] = NewCi(target) /\ ci[o] = NoCi
              /\ source'[o[1]] = o[2] /\ World
<1>0. /\ ci \in [Originals -> CiRun] /\ ci[o] \in CiRun /\ cand.original \in Originals
      /\ source \in [PRs -> 0 .. MaxPush] /\ target \in 0 .. MaxBase
  BY CandidateFields DEF TypeOK
<1>1. CASE Turn \/ Finish \/ Crash \/ UNCHANGED vars
  BY <1>1, TurnFrame, StutterFrame DEF Finish, Crash, github
<1>2. CASE \/ \E c \in Candidate : Evaluate(c)
           \/ \E p \in PRs : RetainedObserve(p)
           \/ \E selected \in Selections : Begin(selected)
  BY <1>2 DEF Evaluate, RetainedObserve, Begin, github
<1>3. CASE Rerun \/ Request
  <2>1. Pushed(cand.original)
    BY <1>3 DEF Known, InHand, Rerun, Request
  <2>2. \/ UNCHANGED ci
        \/ /\ Request => cand.original \notin Handoff
           /\ \E delivered \in BOOLEAN : RerunFailedJobs(delivered)
    BY <1>3, RerunFrame, RequestFrame DEF Request, Rerun
  <2>3. CASE UNCHANGED ci
    BY <2>3
  <2>4. CASE /\ Request => cand.original \notin Handoff
             /\ \E delivered \in BOOLEAN : RerunFailedJobs(delivered)
    BY <1>3, <2>1, <2>4, RestartEffect
  <2> QED
    BY <2>2, <2>3, <2>4
<1>4. CASE World
  <2>1. CASE Advance \/ (\E p \in PRs : Recompute(p)) \/ (\E n \in Originals : Ripen(n))
    BY <2>1 DEF Advance, Recompute, Ripen
  <2>2. CASE \E n \in Originals : WaiterStart(n) \/ WaiterEnd(n)
    <3>1. PICK n \in Originals : WaiterStart(n) \/ WaiterEnd(n)
      BY <2>2
    <3>2. PICK s \in {"waiting", "passed", "failed"} :
            /\ ci' = [ci EXCEPT ![n].state = s]
            /\ s = "passed" => Receipt(Tested(n)) = "pass"
      BY <3>1 DEF WaiterStart, WaiterEnd
    <3>3. CASE o = n
      <4>1. ci'[o] = [ci[o] EXCEPT !.state = s]
        BY <1>0, <3>2, <3>3
      <4>2. ci[o].state \in {"queued", "waiting"}
        BY <3>1, <3>3 DEF WaiterStart, WaiterEnd
      <4>3. Pushed(o)
        <5>1. o[1] \in PRs /\ o[2] \in 0 .. MaxPush
          BY OriginalFields
        <5>2. ~(o[2] > source[o[1]])
          BY <4>2 DEF Bounded, NoCi
        <5> QED
          BY <1>0, <5>1, <5>2 DEF Pushed
      <4>4. /\ ci'[o].base = ci[o].base /\ ci'[o].attempt = ci[o].attempt
            /\ ci'[o].state = s
        BY <1>0, <4>1 DEF CiRun
      <4> QED
        BY <1>4, <3>2, <3>3, <4>2, <4>3, <4>4
    <3>4. CASE o # n
      BY <1>0, <3>2, <3>4
    <3> QED
      BY <3>3, <3>4
  <2>3. CASE \E p \in PRs : Push(p)
    <3>1. PICK p \in PRs : Push(p)
      BY <2>3
    <3>2. <<p, source[p] + 1>> \in Originals
      BY <1>0, <3>1, OriginalMade DEF Push
    <3>3. CASE o = <<p, source[p] + 1>>
      <4>1. o[1] = p /\ o[2] = source[p] + 1
        BY <3>3
      <4>2. ~Pushed(o) /\ ci[o] = NoCi
        BY <1>0, <4>1 DEF Pushed, Bounded
      <4>3. ci'[o] = NewCi(target) /\ source'[o[1]] = o[2]
        BY <1>0, <3>1, <3>2, <3>3, <4>1 DEF Push
      <4> QED
        BY <1>4, <4>2, <4>3
    <3>4. CASE o # <<p, source[p] + 1>>
      BY <1>0, <3>1, <3>2, <3>4 DEF Push
    <3> QED
      BY <3>3, <3>4
  <2> QED
    BY <1>4, <2>1, <2>2, <2>3 DEF World
<1> QED
  BY <1>1, <1>2, <1>3, <1>4, Kindwise

LEMMA Growth ==
    ASSUME TypeOK, [Next]_vars
    PROVE  /\ target <= target' /\ \A p \in PRs : source[p] <= source'[p]
           /\ requests \subseteq requests'
           /\ \A o \in Originals : Pushed(o) => Pushed(o)'
<1>0. source \in [PRs -> 0 .. MaxPush] /\ target \in 0 .. MaxBase
  BY DEF TypeOK
<1>1. /\ target <= target' /\ \A p \in PRs : source[p] <= source'[p]
      /\ requests \subseteq requests' /\ source' \in [PRs -> Int]
  <2>1. CASE World
    <3>1. requests' = requests
      BY <2>1, WorldFrame
    <3>2. CASE \E p \in PRs : Push(p)
      BY <1>0, <3>1, <3>2 DEF Push
    <3>3. CASE ~\E p \in PRs : Push(p)
      BY <1>0, <2>1, <3>1, <3>3 DEF World, Advance, Recompute, Ripen, WaiterStart, WaiterEnd
    <3> QED
      BY <3>2, <3>3
  <2>2. CASE Turn \/ Rerun \/ Request \/ UNCHANGED vars
    BY <1>0, <2>2, TurnFrame, RerunFrame, RequestFrame, StutterFrame
  <2>3. CASE Finish \/ Crash
    BY <1>0, <2>3 DEF Finish, Crash, github, history
  <2>4. CASE \/ \E c \in Candidate : Evaluate(c)
             \/ \E p \in PRs : RetainedObserve(p)
             \/ \E selected \in Selections : Begin(selected)
    BY <1>0, <2>4 DEF Evaluate, RetainedObserve, Begin, github, history
  <2> QED
    BY <2>1, <2>2, <2>3, <2>4, Kindwise
<1>2. ASSUME NEW o \in Originals, Pushed(o) PROVE Pushed(o)'
  BY <1>0, <1>1, <1>2, OriginalFields DEF Pushed
<1> QED
  BY <1>1, <1>2

\* The CI run of an original that exists keeps its base.
LEMMA BaseKept ==
    ASSUME TypeOK, Bounded, Known, [Next]_vars, NEW o \in Originals, Pushed(o)
    PROVE  ci'[o].base = ci[o].base /\ Pushed(o)'
BY CiStep, Growth

-----------------------------------------------------------------------------
(* Taking up a candidate, and the beginning and the end of a run.            *)

Taking == (\E c \in Candidate : Evaluate(c)) \/ (\E p \in PRs : RetainedObserve(p))

LEMMA TakingFrame ==
    ASSUME Taking
    PROVE  /\ UNCHANGED <<source, target, merged, ripe, ci, status, run, reports, reruns>>
           /\ UNCHANGED <<recoveries, previous, published, fenced, requests>>
           /\ at = "loop" /\ at' \in {"loop", "publish", "observed"}
           /\ todo' \subseteq todo /\ kept' \subseteq kept
           /\ at' = "observed" => \E p \in PRs : RetainedObserve(p)
BY DEF Taking, Evaluate, RetainedObserve, github, evidence, history

LEMMA FinishFrame ==
    ASSUME Finish
    PROVE  /\ UNCHANGED <<source, target, merged, ripe, ci, status, run, todo, kept, reports>>
           /\ UNCHANGED <<reruns, recoveries, fenced, requests, cand, unmoved>>
           /\ at = "loop" /\ at' = "idle"
           /\ previous' = [run |-> run, reports |-> reports, reruns |-> reruns,
                           recoveries |-> recoveries]
           /\ published' = [published EXCEPT ![run] = reports]
BY DEF Finish, github, memory, history

LEMMA CrashFrame ==
    ASSUME Crash
    PROVE  /\ UNCHANGED <<source, target, merged, ripe, ci, status, run, todo, kept, reports>>
           /\ UNCHANGED <<reruns, recoveries, previous, published, requests, cand, unmoved>>
           /\ at # "idle" /\ at' = "idle" /\ fenced'
BY DEF Crash, github, memory, history

LEMMA BeginFrame ==
    ASSUME NEW selected \in Selections, Begin(selected)
    PROVE  /\ UNCHANGED <<source, target, merged, ripe, ci, status, cand, unmoved>>
           /\ UNCHANGED <<previous, published, fenced, requests>>
           /\ at = "idle" /\ at' = "loop" /\ run' = run + 1
           /\ reruns' = previous.reruns /\ recoveries' = previous.recoveries
           /\ todo' = {Live(p) : p \in {p \in selected : merged[p] = target}}
           /\ kept' = {p \in selected : IsRetained(p)}
BY DEF Begin, github, evidence, history

-----------------------------------------------------------------------------
(* The invariant, conjunct by conjunct.                                      *)

LEMMA MergedStep ==
    ASSUME TypeOK, Bounded, [Next]_vars, NEW p \in PRs
    PROVE  merged'[p] <= target' /\ merged[p] <= merged'[p]
<1>0. merged \in [PRs -> 0 .. MaxBase] /\ target \in 0 .. MaxBase /\ merged[p] <= target
  BY DEF TypeOK, Bounded
<1>1. CASE World
  <2>1. CASE Advance
    BY <1>0, <2>1 DEF Advance
  <2>2. CASE \E q \in PRs : Push(q) \/ Recompute(q)
    BY <1>0, <2>2 DEF Push, Recompute
  <2>3. CASE \E o \in Originals : Ripen(o) \/ WaiterStart(o) \/ WaiterEnd(o)
    BY <1>0, <2>3 DEF Ripen, WaiterStart, WaiterEnd
  <2> QED
    BY <1>1, <2>1, <2>2, <2>3 DEF World
<1>2. CASE Turn \/ Rerun \/ Request \/ UNCHANGED vars
  BY <1>0, <1>2, TurnFrame, RerunFrame, RequestFrame, StutterFrame
<1>3. CASE Taking \/ Finish \/ Crash \/ \E selected \in Selections : Begin(selected)
  BY <1>0, <1>3, TakingFrame, FinishFrame, CrashFrame, BeginFrame
<1> QED
  BY <1>1, <1>2, <1>3, Kindwise DEF Taking

LEMMA BoundedNext ==
    ASSUME IInv, [Next]_vars, TypeOK'
    PROVE  Bounded'
<1>0. TypeOK /\ Bounded /\ Known
  BY DEF IInv
<1>1. \A p \in PRs : merged'[p] <= target'
  BY <1>0, MergedStep
<1>2. ASSUME NEW o \in Originals
      PROVE  ci'[o].base <= target' /\ (o[2] > source'[o[1]] => ci'[o] = NoCi)
  <2>0. /\ o[1] \in PRs /\ o[2] \in Int /\ source[o[1]] \in Int /\ source'[o[1]] \in Int
        /\ source[o[1]] <= source'[o[1]]
    <3>1. o[1] \in PRs /\ o[2] \in 0 .. MaxPush
      BY OriginalFields
    <3>2. source \in [PRs -> 0 .. MaxPush] /\ source' \in [PRs -> 0 .. MaxPush]
      BY <1>0 DEF TypeOK
    <3>3. source[o[1]] <= source'[o[1]]
      BY <1>0, <3>1, Growth
    <3> QED
      BY <3>1, <3>2, <3>3
  <2>1. /\ ci[o].base \in Int /\ ci[o].base <= target /\ target \in Int /\ target' \in Int
        /\ target <= target'
    <3>1. ci[o] \in CiRun /\ target \in 0 .. MaxBase /\ target' \in 0 .. MaxBase
      BY <1>0 DEF TypeOK
    <3>2. target <= target' /\ ci[o].base <= target
      BY <1>0, Growth DEF Bounded
    <3> QED
      BY <3>1, <3>2 DEF CiRun
  <2>2. CASE ci'[o] = ci[o]
    BY <1>0, <2>0, <2>1, <2>2 DEF Bounded
  <2>3. CASE Pushed(o) /\ ci'[o].base = ci[o].base
    BY <2>0, <2>1, <2>3 DEF Pushed
  <2>4. CASE ci'[o] = NewCi(target) /\ source'[o[1]] = o[2]
    BY <2>0, <2>1, <2>4 DEF NewCi
  <2> QED
    BY <1>0, <2>2, <2>3, <2>4, CiStep
<1>3. at' # "idle" => run' > 0
  <2>1. CASE World \/ Turn \/ Taking \/ UNCHANGED vars
    BY <1>0, <2>1, WorldFrame, TurnFrame, TakingFrame, StutterFrame DEF Bounded, InHand
  <2>2. CASE Rerun \/ Request \/ Finish \/ Crash
    BY <1>0, <2>2, RerunFrame, RequestFrame, FinishFrame, CrashFrame DEF Bounded
  <2>3. CASE \E selected \in Selections : Begin(selected)
    BY <1>0, <2>3, BeginFrame DEF TypeOK
  <2> QED
    BY <2>1, <2>2, <2>3, Kindwise DEF Taking
<1> QED
  BY <1>1, <1>2, <1>3 DEF Bounded

LEMMA KnownNext ==
    ASSUME IInv, [Next]_vars, TypeOK'
    PROVE  Known'
<1>t. TypeOK /\ Bounded /\ Known /\ Unspent
  BY DEF IInv
<1>0. /\ \A o \in Originals : Pushed(o) => Pushed(o)' /\ ci'[o].base = ci[o].base
      /\ target \in Int /\ target' \in Int /\ target <= target'
  <2>1. target \in 0 .. MaxBase /\ target' \in 0 .. MaxBase
    BY <1>t DEF TypeOK
  <2>2. target <= target'
    BY <1>t, Growth
  <2>3. \A o \in Originals : Pushed(o) => Pushed(o)' /\ ci'[o].base = ci[o].base
    BY <1>t, BaseKept
  <2> QED
    BY <2>1, <2>2, <2>3
<1>1. \A q \in requests' : Pushed(q.original)'
  <2>1. \A q \in requests : q.original \in Originals /\ Pushed(q.original)
    BY <1>t DEF TypeOK, Known
  <2>2. CASE requests' = requests
    BY <1>0, <2>1, <2>2
  <2>3. CASE Rerun \/ Request
    <3>1. cand.original \in Originals /\ Pushed(cand.original)
      BY <1>t, <2>3, RerunFrame, RequestFrame, CandidateFields DEF Known, InHand, TypeOK
    <3>2. \A q \in requests' : q \in requests \/ q.original = cand.original
      BY <2>3, RerunFrame, RequestFrame DEF RequestOf
    <3> QED
      BY <1>0, <2>1, <3>1, <3>2
  <2> QED
    BY <2>2, <2>3, Kindwise, WorldFrame, TurnFrame, TakingFrame, FinishFrame, CrashFrame,
       BeginFrame, StutterFrame DEF Taking
<1>2. \A c \in todo' : Pushed(c.original)' /\ c.base <= target'
  <2>1. \A c \in todo : c.original \in Originals /\ Pushed(c.original) /\ c.base \in Int /\ c.base <= target
    BY <1>t, CandidateFields DEF TypeOK, Known
  <2>2. CASE todo' \subseteq todo
    BY <1>0, <2>1, <2>2
  <2>3. CASE \E selected \in Selections : Begin(selected)
    <3>1. PICK selected \in Selections : Begin(selected)
      BY <2>3
    <3>2. ASSUME NEW c \in todo' PROVE Pushed(c.original)' /\ c.base <= target'
      <4>1. PICK p \in PRs : c = Live(p)
        BY <3>1, BeginFrame DEF Selections
      <4>2. c.original = <<p, source[p]>> /\ c.base = target /\ source' = source /\ target' = target
        BY <3>1, <4>1, BeginFrame DEF Live
      <4> QED
        <5>1. p \in PRs /\ source[p] \in Int /\ c.original[1] = p /\ c.original[2] = source[p]
          BY <1>t, <4>1, <4>2 DEF TypeOK
        <5> QED
          BY <1>0, <4>2, <5>1 DEF Pushed
    <3> QED
      BY <3>2
  <2> QED
    BY <2>2, <2>3, Kindwise, WorldFrame, TurnFrame, RerunFrame, RequestFrame, TakingFrame,
       FinishFrame, CrashFrame, StutterFrame DEF Taking
<1>3. \A c \in reruns' \cup previous'.reruns :
        Pushed(c.original)' /\ c.base = ci'[c.original].base
  <2>1. \A c \in reruns \cup previous.reruns :
          c.original \in Originals /\ Pushed(c.original) /\ c.base = ci[c.original].base
    BY <1>t, CandidateFields DEF TypeOK, Known, Payload
  <2>2. CASE reruns' \cup previous'.reruns \subseteq reruns \cup previous.reruns
    BY <1>0, <2>1, <2>2
  <2>3. CASE Rerun
    <3>1. /\ cand.original \in Originals /\ Pushed(cand.original)
          /\ cand.base = ci[cand.original].base
      BY <1>t, <2>3, RerunFrame, CandidateFields DEF Known, InHand, Unspent, Original, TypeOK
    <3>2. \A c \in reruns' \cup previous'.reruns : c \in reruns \cup previous.reruns \/ c = cand
      BY <2>3, RerunFrame
    <3> QED
      BY <1>0, <2>1, <3>1, <3>2
  <2> QED
    BY <2>2, <2>3, Kindwise, WorldFrame, TurnFrame, RequestFrame, TakingFrame, FinishFrame,
       CrashFrame, BeginFrame, StutterFrame DEF Taking
<1>4. InHand' => Pushed(cand.original)' /\ cand'.base <= target'
  <2>1. CASE InHand /\ cand' = cand
    <3>1. /\ cand.original \in Originals /\ cand.base \in Int
          /\ Pushed(cand.original) /\ cand.base <= target
      BY <1>t, <2>1, CandidateFields DEF Known, TypeOK
    <3> QED
      BY <1>0, <2>1, <3>1
  <2>2. CASE \E c \in Candidate : Evaluate(c)
    <3>1. PICK c \in Candidate : c \in todo /\ cand' = c
      BY <2>2 DEF Evaluate
    <3>2. c.original \in Originals /\ c.base \in Int /\ Pushed(c.original) /\ c.base <= target
      BY <1>t, <3>1, CandidateFields DEF Known
    <3> QED
      BY <1>0, <3>1, <3>2
  <2>3. CASE (\E p \in PRs : RetainedObserve(p)) /\ InHand'
    <3>1. PICK p \in PRs : RetainedObserve(p)
      BY <2>3
    <3>2. cand' = [original |-> <<p, source[p]>>, base |-> merged[p]]
      BY <2>3, <3>1 DEF RetainedObserve, InHand
    <3>3. <<p, source[p]>> \in Originals /\ Pushed(<<p, source[p]>>) /\ merged[p] <= target
      <4>1. source[p] \in 0 .. MaxPush
        BY <1>t DEF TypeOK
      <4>2. /\ <<p, source[p]>> \in Originals
            /\ <<p, source[p]>>[1] = p /\ <<p, source[p]>>[2] = source[p]
        BY <4>1, OriginalMade
      <4> QED
        BY <1>t, <4>1, <4>2 DEF Bounded, Pushed
    <3>4. merged[p] \in Int
      BY <1>t DEF TypeOK
    <3>5. cand'.original = <<p, source[p]>> /\ cand'.base = merged[p]
      BY <3>2
    <3> QED
      BY <1>0, <3>3, <3>4, <3>5
  <2>4. CASE World \/ UNCHANGED vars
    BY <2>1, <2>4, WorldFrame, StutterFrame DEF InHand
  <2>5. CASE Turn
    BY <2>1, <2>5, TurnFrame
  <2>6. CASE Rerun \/ Request \/ Finish \/ Crash \/ \E selected \in Selections : Begin(selected)
    BY <2>6, RerunFrame, RequestFrame, FinishFrame, CrashFrame, BeginFrame DEF InHand
  <2>7. CASE ~InHand'
    BY <2>7
  <2> QED
    BY <2>2, <2>3, <2>4, <2>5, <2>6, <2>7, Kindwise
<1> QED
  BY <1>1, <1>2, <1>3, <1>4 DEF Known, InHand

\* A request is made for the candidate in hand, which nobody has made one for before.
LEMMA FirstRequest ==
    ASSUME IInv, Rerun \/ Request
    PROVE  /\ cand.original \in Originals /\ Pushed(cand.original)
           /\ \A q \in requests : q.original # cand.original
           /\ Request => Phase \notin Spent /\ ci[cand.original].base < target
<1>a. TypeOK /\ Known /\ Accounted /\ Unspent /\ Graphs
  BY DEF IInv
<1>1. cand.original \in Originals /\ Pushed(cand.original)
  BY <1>a, CandidateFields DEF TypeOK, Known, InHand, Rerun, Request
<1>2. CASE Rerun
  BY <1>a, <1>1, <1>2 DEF Rerun, Request, Unspent
<1>3. CASE Request
  <2>1. /\ at = "request" /\ ~fenced
        /\ \A c \in reruns : c.original # cand.original
        /\ Phase \in {"none", "prepared", "retained"}
    BY <1>a, <1>3 DEF Request, Unspent, Steps
  <2>2. ASSUME NEW q \in requests, q.original = cand.original PROVE FALSE
    <3>1. SpentIn(reruns, recoveries, q)
      BY <1>a, <2>1 DEF Accounted
    <3> QED
      BY <2>1, <2>2, <3>1 DEF SpentIn, Phase
  <2>3. ci[cand.original].base < target
    BY <1>a, <2>1, <1>1, TestedIsCandidate DEF Graphs, Historical
  <2> QED
    BY <1>1, <2>1, <2>2, <2>3 DEF Spent
<1> QED
  BY <1>1, <1>2, <1>3

\* Only these two request anything.
LEMMA RequestStep ==
    ASSUME [Next]_vars
    PROVE  \/ requests' = requests
           \/ /\ Rerun \/ Request
              /\ \E kind \in Kinds :
                   /\ requests' = requests \cup {RequestOf(kind)}
                   /\ kind = "rerun" <=> Rerun
<1>1. CASE Rerun
  <2>1. requests' = requests \cup {RequestOf("rerun")} /\ "rerun" \in Kinds
    BY <1>1, RerunFrame DEF Kinds
  <2> QED
    BY <1>1, <2>1
<1>2. CASE Request
  <2> DEFINE kind == IF Phase = "retained" THEN "retained" ELSE "recovery"
  <2>1. requests' = requests \cup {RequestOf(kind)} /\ kind \in Kinds /\ kind # "rerun"
    BY <1>2, RequestFrame DEF Kinds
  <2>2. ~Rerun
    BY <1>2 DEF Request, Rerun
  <2> QED
    BY <1>2, <2>1, <2>2
<1>3. CASE Taking \/ World \/ Turn \/ Finish \/ Crash \/ UNCHANGED vars
           \/ \E selected \in Selections : Begin(selected)
  BY <1>3, WorldFrame, TurnFrame, TakingFrame, FinishFrame, CrashFrame, BeginFrame, StutterFrame
<1> QED
  BY <1>1, <1>2, <1>3, Kindwise DEF Taking

LEMMA OneRequestNext ==
    ASSUME IInv, [Next]_vars
    PROVE  OneRequestPerOriginal'
<1>1. OneRequestPerOriginal
  BY DEF IInv
<1>2. CASE requests' = requests
  BY <1>1, <1>2 DEF OneRequestPerOriginal
<1>3. CASE Rerun \/ Request
  <2>1. PICK kind \in Kinds : requests' = requests \cup {RequestOf(kind)} \/ requests' = requests
    BY <1>3, RequestStep DEF Kinds
  <2>2. RequestOf(kind).original = cand.original
    BY DEF RequestOf
  <2> QED
    BY <1>1, <1>3, <2>1, <2>2, FirstRequest DEF OneRequestPerOriginal
<1> QED
  BY <1>2, <1>3, RequestStep

LEMMA RestartedNext ==
    ASSUME IInv, [Next]_vars
    PROVE  Restarted'
<1>a. TypeOK /\ Bounded /\ Known /\ Restarted
  BY DEF IInv
<1>1. SUFFICES ASSUME NEW o \in Originals
               PROVE  /\ ci'[o].attempt <= 2
                      /\ ci'[o].attempt = 2 => \E q \in requests' : q.original = o
  BY DEF Restarted
<1>2. /\ ci[o].attempt \in Int /\ ci[o].attempt <= 2 /\ requests \subseteq requests'
      /\ ci[o].attempt = 2 => \E q \in requests : q.original = o
  BY <1>a, Growth DEF TypeOK, CiRun, Restarted
<1>3. CASE ci'[o].attempt = ci[o].attempt
  BY <1>2, <1>3
<1>4. CASE ci'[o].attempt = ci[o].attempt + 1 /\ o = cand.original /\ (Rerun \/ Request)
  <2>1. \A q \in requests : q.original # o
    BY <1>4, FirstRequest
  <2>2. \E q \in requests' : q.original = o
    <3>1. \A kind \in Kinds : RequestOf(kind).original = cand.original
      BY DEF RequestOf
    <3>2. \E kind \in Kinds : RequestOf(kind) \in requests'
      BY <1>4, RerunFrame, RequestFrame DEF Kinds
    <3> QED
      BY <1>4, <3>1, <3>2
  <2> QED
    BY <1>2, <1>4, <2>1, <2>2
<1>5. CASE ci'[o] = NewCi(target)
  BY <1>5 DEF NewCi
<1> QED
  BY <1>a, <1>3, <1>4, <1>5, CiStep

LEMMA ChargedNext ==
    ASSUME IInv, [Next]_vars, TypeOK'
    PROVE  Charged'
<1>a. TypeOK /\ Bounded /\ Known /\ Charged
  BY DEF IInv
<1>1. SUFFICES ASSUME NEW q \in requests', q.kind # "rerun"
               PROVE  ci'[q.original].base < target'
  BY DEF Charged
<1>2. /\ target \in Int /\ target' \in Int /\ target <= target'
      /\ \A o \in Originals : ci[o].base \in Int
      /\ \A o \in Originals : Pushed(o) => ci'[o].base = ci[o].base
  <2>1. target \in 0 .. MaxBase /\ target' \in 0 .. MaxBase /\ ci \in [Originals -> CiRun]
    BY <1>a DEF TypeOK
  <2>2. target <= target' /\ \A o \in Originals : Pushed(o) => ci'[o].base = ci[o].base
    BY <1>a, Growth, BaseKept
  <2> QED
    BY <2>1, <2>2 DEF CiRun
<1>3. CASE q \in requests
  <2>1. q.original \in Originals /\ Pushed(q.original) /\ ci[q.original].base < target
    BY <1>a, <1>1, <1>3 DEF TypeOK, Known, Charged
  <2> QED
    BY <1>2, <2>1
<1>4. CASE q \notin requests
  <2>1. Request /\ q.original = cand.original
    BY <1>1, <1>4, RequestStep DEF RequestOf
  <2>2. q.original \in Originals /\ Pushed(q.original) /\ ci[q.original].base < target
    BY <2>1, FirstRequest
  <2> QED
    BY <1>2, <2>2
<1> QED
  BY <1>3, <1>4

LEMMA AccountedNext ==
    ASSUME IInv, [Next]_vars
    PROVE  Accounted'
<1>a. TypeOK /\ Known /\ Accounted /\ Unspent
  BY DEF IInv
<1>b. /\ recoveries \in [Originals -> Phases]
      /\ \A q \in requests : q.original \in Originals
  BY <1>a DEF TypeOK
<1>1. CASE World \/ UNCHANGED vars
  BY <1>a, <1>1, WorldFrame, StutterFrame DEF Accounted, SpentIn
<1>2. CASE Taking
  BY <1>a, <1>2, TakingFrame DEF Accounted, SpentIn
<1>3. CASE Turn
  <2>1. /\ at # "idle" /\ at' # "idle" /\ reruns' = reruns /\ requests' = requests
        /\ fenced' = fenced
    BY <1>3, TurnFrame DEF InHand
  <2>2. \A q \in requests : SpentIn(reruns, recoveries, q) => SpentIn(reruns, recoveries, q)'
    BY <1>a, <1>b, <1>3, <2>1, TurnReserves DEF SpentIn, Spent
  <2> QED
    BY <1>a, <2>1, <2>2 DEF Accounted
<1>4. CASE Rerun
  <2>1. /\ at # "idle" /\ at' # "idle" /\ reruns' = reruns \cup {cand} /\ fenced' = fenced
        /\ recoveries' = recoveries /\ requests' = requests \cup {RequestOf("rerun")}
    BY <1>4, RerunFrame
  <2>2. \A q \in requests : SpentIn(reruns, recoveries, q) => SpentIn(reruns, recoveries, q)'
    BY <2>1 DEF SpentIn
  <2>3. SpentIn(reruns', recoveries', RequestOf("rerun"))
    BY <2>1 DEF SpentIn, RequestOf
  <2> QED
    BY <1>a, <2>1, <2>2, <2>3 DEF Accounted, SpentIn
<1>5. CASE Request
  <2> DEFINE kind == IF Phase = "retained" THEN "retained" ELSE "recovery"
  <2>1. /\ at # "idle" /\ at' # "idle" /\ reruns' = reruns /\ fenced' = fenced
        /\ requests' = requests \cup {RequestOf(kind)}
    BY <1>5, RequestFrame
  <2>2. PICK phase \in Spent : recoveries' = [recoveries EXCEPT ![cand.original] = phase]
    BY <1>5, RequestFrame
  <2>3. cand.original \in Originals
    BY <1>5, FirstRequest
  <2>4. \A q \in requests : SpentIn(reruns, recoveries, q) => SpentIn(reruns, recoveries, q)'
    BY <1>b, <2>1, <2>2, <2>3 DEF SpentIn, Spent
  <2>5. SpentIn(reruns', recoveries', RequestOf(kind))
    BY <1>b, <2>2, <2>3 DEF SpentIn, RequestOf, Spent
  <2> QED
    BY <1>a, <2>1, <2>4, <2>5 DEF Accounted, SpentIn
<1>6. CASE Finish
  <2>1. /\ at # "idle" /\ at' = "idle" /\ fenced' = fenced /\ requests' = requests
        /\ previous'.reruns = reruns /\ previous'.recoveries = recoveries
    BY <1>6, FinishFrame
  <2> QED
    BY <1>a, <2>1 DEF Accounted, SpentIn
<1>7. CASE Crash
  BY <1>7, CrashFrame DEF Accounted
<1>8. CASE \E selected \in Selections : Begin(selected)
  BY <1>a, <1>8, BeginFrame DEF Accounted, SpentIn
<1> QED
  BY <1>1, <1>2, <1>3, <1>4, <1>5, <1>6, <1>7, <1>8, Kindwise DEF Taking

LEMMA RecordedNext ==
    ASSUME IInv, [Next]_vars
    PROVE  Recorded'
<1>a. TypeOK /\ Bounded /\ Recorded
  BY DEF IInv
<1>b. /\ run \in 0 .. MaxRuns /\ previous.run \in 0 .. MaxRuns
      /\ published \in [RunIds -> Reports]
  BY <1>a DEF TypeOK, Payload
<1>1. CASE World \/ Turn \/ Rerun \/ Request \/ UNCHANGED vars \/ Taking
  <2>1. /\ run' = run /\ previous' = previous /\ published' = published
        /\ at = "idle" <=> at' = "idle"
    BY <1>1, WorldFrame, TurnFrame, RerunFrame, RequestFrame, StutterFrame, TakingFrame DEF InHand
  <2> QED
    BY <1>a, <2>1 DEF Recorded
<1>2. CASE Crash
  BY <1>a, <1>2, CrashFrame DEF Recorded
<1>3. CASE Finish
  <2>1. run \in RunIds
    BY <1>a, <1>b, <1>3, FinishFrame DEF Bounded
  <2>2. /\ run' = run /\ at' = "idle" /\ published' = [published EXCEPT ![run] = reports]
        /\ previous'.run = run /\ previous'.reports = reports
    BY <1>3, FinishFrame
  <2> QED
    BY <1>a, <1>b, <2>1, <2>2 DEF Recorded
<1>4. CASE \E selected \in Selections : Begin(selected)
  BY <1>a, <1>b, <1>4, BeginFrame DEF Recorded
<1> QED
  BY <1>1, <1>2, <1>3, <1>4, Kindwise DEF Taking

LEMMA PassedOnEvidenceNext ==
    ASSUME IInv, [Next]_vars
    PROVE  PassedOnEvidence'
<1>a. TypeOK /\ Bounded /\ Known /\ Recorded /\ PassedOnEvidence
  BY DEF IInv
<1>b. published \in [RunIds -> Reports]
  BY <1>a DEF TypeOK
<1>1. ASSUME NEW o \in Originals, ci'[o].state = "passed"
      PROVE  /\ ci'[o].base = ci[o].base
             /\ \E r \in RunIds : published[r][Tested(o)] = "pass"
  <2>1. CASE ci'[o] = ci[o]
    BY <1>a, <1>1, <2>1 DEF PassedOnEvidence
  <2>2. CASE ci'[o].base = ci[o].base /\ Receipt(Tested(o)) = "pass"
    <3>1. Tested(o) \in Candidate
      BY <1>a, TestedIsCandidate
    <3>2. status[Tested(o)].run \in 0 .. MaxRuns
      BY <1>a, <3>1 DEF TypeOK
    <3> QED
      BY <2>2, <3>2 DEF Receipt
  <2>3. ci'[o] # NewCi(target)
    BY <1>1 DEF NewCi
  <2> QED
    BY <1>a, <1>1, <2>1, <2>2, <2>3, CiStep
<1>2. ASSUME NEW r \in RunIds, NEW c \in Candidate, published[r][c] = "pass"
      PROVE  published'[r][c] = "pass"
  <2>1. CASE published' = published
    BY <1>2, <2>1
  <2>2. CASE Finish
    <3>1. published' = [published EXCEPT ![run] = reports] /\ at = "loop"
      BY <2>2, FinishFrame
    <3>2. r # run
      BY <1>a, <1>2, <3>1 DEF Recorded, NoReports
    <3> QED
      BY <1>b, <1>2, <3>1, <3>2
  <2> QED
    BY <2>1, <2>2, Kindwise, WorldFrame, TurnFrame, RerunFrame, RequestFrame, StutterFrame,
       TakingFrame, CrashFrame, BeginFrame DEF Taking
<1>3. SUFFICES ASSUME NEW o \in Originals, ci'[o].state = "passed"
               PROVE  \E r \in RunIds : published'[r][Tested(o)'] = "pass"
  BY DEF PassedOnEvidence
<1>4. Tested(o)' = Tested(o) /\ Tested(o) \in Candidate
  BY <1>a, <1>1, <1>3, TestedIsCandidate DEF Tested
<1> QED
  BY <1>1, <1>2, <1>3, <1>4

\* What a step of the world or of a turn leaves of the candidate in hand.
LEMMA HandKept ==
    ASSUME IInv, [Next]_vars, World \/ Turn \/ UNCHANGED vars, InHand
    PROVE  /\ cand' = cand /\ cand.original \in Originals /\ Pushed(cand.original)
           /\ Historical' = Historical /\ Historical \in Candidate
           /\ Historical.original = cand.original
           /\ Historical.base = ci[cand.original].base
           /\ requests' = requests /\ reruns' = reruns /\ fenced' = fenced
<1>a. TypeOK /\ Bounded /\ Known
  BY DEF IInv
<1>1. cand.original \in Originals /\ Pushed(cand.original)
  BY <1>a, CandidateFields DEF TypeOK, Known
<1>2. cand' = cand /\ requests' = requests /\ reruns' = reruns /\ fenced' = fenced
  BY WorldFrame, TurnFrame, StutterFrame
<1>3. ci'[cand.original].base = ci[cand.original].base
  BY <1>a, <1>1, BaseKept
<1> QED
  BY <1>a, <1>1, <1>2, <1>3, TestedIsCandidate DEF Historical, Tested

LEMMA UnspentNext ==
    ASSUME IInv, [Next]_vars, TypeOK'
    PROVE  Unspent'
<1>a. TypeOK /\ Bounded /\ Known /\ Unspent /\ Charged /\ Accounted /\ Backing
  BY DEF IInv
<1>1. CASE World \/ UNCHANGED vars
  <2>1. /\ at' = at /\ fenced' = fenced /\ cand' = cand /\ reruns' = reruns
        /\ recoveries' = recoveries /\ requests' = requests
    BY <1>1, WorldFrame, StutterFrame
  <2>2. target \in Int /\ target' \in Int /\ target <= target' /\ cand.base \in Int
    <3>1. target \in 0 .. MaxBase /\ target' \in 0 .. MaxBase /\ cand.base \in 0 .. MaxBase
      BY <1>a, CandidateFields DEF TypeOK
    <3> QED
      BY <1>a, <3>1, Growth
  <2>3. at = "rerun" => Original'.base = Original.base
    BY <1>1, HandKept, <1>a, BaseKept DEF InHand, Original
  <2> QED
    BY <1>a, <2>1, <2>2, <2>3 DEF Unspent, Phase
<1>2. CASE Turn /\ at' # "loop"
  <2>1. /\ UNCHANGED <<cand, reruns, fenced, requests, ci, target, source>> /\ InHand
        /\ recoveries' = recoveries
    BY <1>a, <1>2, TurnFrame, TurnReserves
  <2>2. cand.base \in Int /\ target \in Int /\ cand.base <= target /\ cand \in Candidate
        /\ cand.original \in Originals
    <3>1. target \in 0 .. MaxBase /\ cand.base \in 0 .. MaxBase /\ cand \in Candidate
      BY <1>a, CandidateFields DEF TypeOK
    <3> QED
      BY <1>a, <2>1, <3>1, CandidateFields DEF Known
  <2>3. CASE at' = "retry" /\ Publish
    BY <2>1, <2>3 DEF Publish, CanEffect, AfterRetry, Unspent
  <2>4. CASE at' = "rerun" /\ Retry /\ RetryReady
    <3>1. ~fenced /\ cand \notin reruns /\ Original.base = cand.base /\ cand.base = target
      BY <1>a, <2>4 DEF Retry, RetryReady, StillCurrent, Live, Unspent, Steps
    <3>2. ASSUME NEW q \in requests, q.original = cand.original PROVE FALSE
      <4>1. q.kind = "rerun"
        BY <1>a, <2>2, <3>1, <3>2 DEF Charged, Original
      <4>2. PICK c \in reruns : c.original = cand.original
        BY <1>a, <2>4, <3>1, <3>2, <4>1 DEF Accounted, SpentIn, Retry
      <4>3. c \in Candidate /\ c.base = ci[cand.original].base
        BY <1>a, <4>2 DEF TypeOK, Known
      <4>4. c = cand
        BY <2>2, <3>1, <4>2, <4>3, CandidatesDiffer DEF Original
      <4> QED
        BY <3>1, <4>2, <4>4
    <3> QED
      BY <2>1, <2>2, <2>4, <3>1, <3>2 DEF Unspent, Original
  <2>5. CASE at' = "recover"
    BY <2>5 DEF Unspent
  <2>6. CASE at' = "reserve" /\ HistoricalReport
    BY <2>1, <2>6 DEF HistoricalReport, GraphProved, BudgetOpen, CanPrepare, Unspent, Phase
  <2>7. CASE at' = "consume" /\ Reserve
    BY <1>a, <2>1, <2>7 DEF Reserve, Unspent, Steps, Phase
  <2>8. CASE at' = "request" /\ (Consume \/ RetainedOriginal)
    BY <1>a, <2>1, <2>8 DEF Consume, RetainedOriginal, Unspent, Steps, Phase
  <2>9. CASE at' = "proved" /\ RetainedProve /\ RetainedProved
    BY <1>a, <2>1, <2>9 DEF RetainedProve, RetainedProved, Unspent, Steps, Phase
  <2>10. CASE at' = "proof" /\ RetainedReport /\ RetainedReady
    BY <1>a, <2>1, <2>10 DEF RetainedReport, RetainedReady, Unspent, Steps, Phase
  <2>11. CASE at' = "original" /\ RetainedProof
    BY <1>a, <2>1, <2>11 DEF RetainedProof, Unspent, Steps, Phase
  <2> QED
    BY <1>2, <2>3, <2>4, <2>5, <2>6, <2>7, <2>8, <2>9, <2>10, <2>11, TurnGoesOn
<1>3. CASE at' \in {"idle", "loop", "publish"}
  BY <1>3 DEF Unspent
<1>4. CASE (\E p \in PRs : RetainedObserve(p)) /\ at' = "observed"
  <2>1. PICK p \in PRs : RetainedObserve(p)
    BY <1>4
  <2>2. /\ RetainedOpen(p) /\ cand'.original = <<p, source[p]>>
    BY <1>4, <2>1 DEF RetainedObserve
  <2>3. reruns' = reruns /\ recoveries' = recoveries /\ fenced' = fenced
    BY <1>4, TakingFrame DEF Taking
  <2> QED
    BY <1>4, <2>2, <2>3 DEF Unspent, RetainedOpen, CanPrepare, Phase
<1>5. CASE Taking
  BY <1>3, <1>4, <1>5, TakingFrame
<1>6. CASE Rerun \/ Request \/ Finish \/ Crash \/ \E selected \in Selections : Begin(selected)
  BY <1>3, <1>6, RerunFrame, RequestFrame, FinishFrame, CrashFrame, BeginFrame
<1> QED
  BY <1>1, <1>2, <1>3, <1>5, <1>6, Kindwise DEF Taking

\* Effects are licensed by what the run found when it began (service_context, can_effect).
LEMMA LicensedNext ==
    ASSUME IInv, [Next]_vars
    PROVE  Licensed'
<1> DEFINE Acting == {"retry", "rerun", "consume", "proof", "original", "request"}
<1>a. TypeOK /\ Licensed
  BY DEF IInv
<1>b. run \in Nat /\ \A q \in requests : q.run \in Nat
  BY <1>a DEF TypeOK
<1>1. \A q \in requests' : q.run <= run'
  <2>1. run' \in {run, run + 1}
    BY WorldFrame, TurnFrame, RerunFrame, RequestFrame, StutterFrame, TakingFrame, FinishFrame,
       CrashFrame, BeginFrame, Kindwise DEF Taking
  <2>2. \A q \in requests' : q \in requests \/ q.run = run
    BY RequestStep DEF RequestOf
  <2> QED
    BY <1>a, <1>b, <2>1, <2>2 DEF Licensed
<1>2. ASSUME at' \in Acting PROVE previous'.run # 0
  <2>1. CASE World \/ UNCHANGED vars
    BY <1>a, <1>2, <2>1, WorldFrame, StutterFrame DEF Licensed
  <2>2. CASE Turn
    <3>1. previous' = previous /\ (at \in Acting => previous.run # 0)
      BY <1>a, <2>2, TurnFrame DEF Licensed
    <3>2. CASE at \in Acting
      BY <3>1, <3>2
    <3>3. CASE Publish \/ Reserve
      BY <1>2, <3>1, <3>3 DEF Publish, Reserve, AfterRetry, CanEffect
    <3>4. CASE RetainedReport
      BY <1>2, <3>1, <3>4 DEF RetainedReport, RetainedReady, CanEffect
    <3> QED
      BY <1>2, <2>2, <3>2, <3>3, <3>4, TurnGoesOn, TurnFrame
         DEF Retry, Consume, RetainedProof, RetainedOriginal
  <2>3. CASE Taking \/ Rerun \/ Request \/ Finish \/ Crash
             \/ \E selected \in Selections : Begin(selected)
    BY <1>2, <2>3, TakingFrame, RerunFrame, RequestFrame, FinishFrame, CrashFrame, BeginFrame
  <2> QED
    BY <2>1, <2>2, <2>3, Kindwise DEF Taking
<1> QED
  BY <1>1, <1>2 DEF Licensed

LEMMA GraphsNext ==
    ASSUME IInv, [Next]_vars, TypeOK'
    PROVE  Graphs'
<1>a. TypeOK /\ Bounded /\ Known /\ Unspent /\ Graphs
  BY DEF IInv
<1>b. target \in Int /\ target' \in Int /\ target <= target'
  <2>1. target \in 0 .. MaxBase /\ target' \in 0 .. MaxBase
    BY <1>a DEF TypeOK
  <2> QED
    BY <1>a, <2>1, Growth
<1>1. CASE (World \/ UNCHANGED vars) /\ InHand
  <2>1. at' = at
    BY <1>1, WorldFrame, StutterFrame
  <2>2. cand' = cand /\ Historical' = Historical /\ Historical.base \in Int
    BY <1>1, HandKept, CandidateFields
  <2> QED
    BY <1>a, <1>b, <2>1, <2>2 DEF Graphs
<1>2. CASE Turn /\ at' # "loop"
  <2>1. /\ UNCHANGED <<cand, ci, target, source, merged>> /\ InHand
    BY <1>2, TurnFrame
  <2>2. /\ Historical' = Historical /\ Historical.base \in Int
        /\ Historical.base = ci[cand.original].base /\ cand.original \in Originals
    BY <1>2, <2>1, HandKept, CandidateFields
  <2>3. Historical.base <= target
    BY <1>a, <2>2 DEF Bounded
  <2>4. CASE at' \in {"retry", "rerun", "recover"}
    BY <2>4 DEF Graphs
  <2>5. CASE at' = "reserve" /\ HistoricalReport
    BY <2>1, <2>2, <2>5 DEF HistoricalReport, GraphProved, Graphs
  <2>6. CASE at' = "consume" /\ Reserve
    <3>1. Historical.base # cand.base /\ cand.base = target
      BY <1>a, <2>6 DEF Graphs, Reserve, StillCurrent, Live
    <3> QED
      BY <1>b, <2>1, <2>2, <2>3, <2>6, <3>1 DEF Graphs
  <2>7. CASE at' = "request" /\ (Consume \/ RetainedOriginal)
    BY <1>a, <2>1, <2>2, <2>7 DEF Consume, RetainedOriginal, Graphs
  <2>8. CASE at' = "proved" /\ RetainedProve /\ RetainedProved
    BY <2>1, <2>2, <2>8 DEF RetainedProved, Graphs
  <2>9. CASE at' = "proof" /\ RetainedReport /\ RetainedReady
    <3>1. Historical = cand /\ cand.base = merged[cand.original[1]]
          /\ merged[cand.original[1]] # target
      BY <1>a, <2>9 DEF RetainedReport, BindingLive, Graphs
    <3> QED
      BY <1>b, <2>1, <2>2, <2>3, <2>9, <3>1 DEF Graphs
  <2>10. CASE at' = "original" /\ RetainedProof
    BY <1>a, <2>1, <2>2, <2>10 DEF RetainedProof, Graphs
  <2> QED
    BY <1>2, <2>4, <2>5, <2>6, <2>7, <2>8, <2>9, <2>10, TurnGoesOn
<1>3. CASE at' \in {"idle", "loop", "publish", "observed"}
  BY <1>3 DEF Graphs
<1>4. CASE (World \/ UNCHANGED vars) /\ ~InHand
  BY <1>3, <1>4, WorldFrame, StutterFrame DEF InHand
<1>5. CASE Taking \/ Rerun \/ Request \/ Finish \/ Crash \/ \E selected \in Selections : Begin(selected)
  BY <1>3, <1>5, TakingFrame, RerunFrame, RequestFrame, FinishFrame, CrashFrame, BeginFrame
<1> QED
  BY <1>1, <1>2, <1>3, <1>4, <1>5, Kindwise DEF Taking

\* A status that names the previous run, which reported the same, is a receipt.
LEMMA PreviousIsReceipt ==
    ASSUME TypeOK, Recorded, NEW c \in Candidate, previous.run # 0,
           status[c] = [verdict |-> "pass", run |-> previous.run], previous.reports[c] = "pass"
    PROVE  Receipt(c) = "pass"
BY DEF Receipt, Recorded

LEMMA BackingNext ==
    ASSUME IInv, [Next]_vars
    PROVE  Backing'
<1>a. TypeOK /\ Bounded /\ Known /\ Recorded /\ Backing /\ Graphs
  BY DEF IInv
<1>1. CASE (World \/ UNCHANGED vars) /\ InHand
  <2>1. /\ at' = at /\ status' = status /\ published' = published /\ previous' = previous
        /\ run' = run /\ reports' = reports
    BY <1>1, WorldFrame, StutterFrame
  <2>2. cand' = cand /\ Historical' = Historical
    BY <1>1, HandKept
  <2> QED
    BY <1>a, <2>1, <2>2 DEF Backing, Receipt
<1>2. CASE Turn /\ at' # "loop"
  <2>1. /\ UNCHANGED <<cand, ci, run, previous, published>> /\ InHand
    BY <1>2, TurnFrame
  <2>2. /\ Historical' = Historical /\ Historical \in Candidate /\ cand \in Candidate
        /\ cand.original \in Originals /\ Historical.original = cand.original
        /\ Historical.base = ci[cand.original].base
    BY <1>a, <1>2, <2>1, HandKept DEF TypeOK
  <2>3. status \in [Candidate -> [verdict : Verdicts, run : 0 .. MaxRuns]] /\ reports \in Reports
    BY <1>a DEF TypeOK
  <2>s. status' \in StatusType /\ TypeOK' /\ Recorded'
    BY <1>a, TypeNext, RecordedNext DEF TypeOK, StatusType, IInv
  <2>4. CASE at' = "retry" /\ Publish
    <3>1. ReadyReceipt /\ CanEffect
      BY <2>4 DEF Publish, AfterRetry
    <3>2. status' = [status EXCEPT ![cand] = [verdict |-> "pass", run |-> previous.run]]
      BY <2>4, <3>1 DEF Publish, ReportStatus, Attributed, ReadyReceipt
    <3>3. status'[cand] = [verdict |-> "pass", run |-> previous.run]
      BY <2>2, <2>3, <3>2
    <3>4. previous.run # 0 /\ previous.reports[cand] = "pass"
      BY <3>1 DEF ReadyReceipt, CanEffect
    <3>5. published[previous.run] = previous.reports
      BY <1>a, <3>4 DEF Recorded
    <3>6. Receipt(cand)' = "pass"
      BY <2>1, <3>3, <3>4, <3>5 DEF Receipt
    <3> QED
      BY <2>1, <2>4, <3>6 DEF Backing
  <2>5. CASE at' = "rerun" /\ Retry /\ RetryReady
    <3>1. Historical.base = cand.base
      BY <2>2, <2>5 DEF RetryReady, Original
    <3>2. Historical = cand
      BY <2>2, <3>1, CandidatesDiffer
    <3>3. Receipt(cand) = "pass" /\ status' = status
      BY <1>a, <2>5 DEF Backing, Retry, github
    <3>4. Receipt(Historical)' = Receipt(Historical)
      BY <2>1, <2>2, <3>3 DEF Receipt
    <3> QED
      BY <2>5, <3>2, <3>3, <3>4 DEF Backing
  <2>6. CASE at' = "recover"
    BY <2>6 DEF Backing
  <2>7. CASE at' = "reserve" /\ HistoricalReport
    <3>1. /\ status' = [status EXCEPT ![Historical] = HistoricalReceipt]
          /\ reports' = [reports EXCEPT ![Historical] = HistoricalReceipt.verdict]
      BY <2>7 DEF HistoricalReport, ReportStatus
    <3>2. status'[Historical] = HistoricalReceipt /\ reports'[Historical] = HistoricalReceipt.verdict
      BY <2>2, <2>3, <3>1 DEF Reports
    <3>3. HistoricalReceipt = [verdict |-> HistoricalReceipt.verdict,
            run |-> IF previous.reports[Historical] = "pass" THEN previous.run ELSE run]
      BY DEF HistoricalReceipt
    <3> QED
      BY <2>1, <2>2, <2>7, <3>2, <3>3 DEF Backing
  <2>8. CASE at' = "consume" /\ Reserve
    <3>1. RecoveryReady /\ CanEffect /\ at = "reserve" /\ status' = status
      BY <2>8 DEF Reserve, github
    <3>2. \A c \in {cand, Historical} : previous.reports[c] # "none"
      BY <3>1 DEF RecoveryReady, Acceptable
    <3>3. CASE cand.original \notin Handoff
      <4>1. reports[Historical] = "pass" /\ previous.reports[Historical] = "pass"
        BY <3>1, <3>3 DEF RecoveryReady, Acceptable
      <4>2. status[Historical] = [verdict |-> "pass", run |-> previous.run]
        BY <1>a, <3>1, <4>1 DEF Backing
      <4>3. Receipt(Historical) = "pass"
        BY <1>a, <2>2, <3>1, <4>1, <4>2, PreviousIsReceipt DEF CanEffect
      <4>4. Receipt(Historical)' = Receipt(Historical)
        BY <2>1, <2>2, <3>1 DEF Receipt
      <4> QED
        BY <2>1, <2>2, <2>8, <3>2, <4>3, <4>4 DEF Backing
    <3>4. CASE cand.original \in Handoff
      BY <2>1, <2>2, <2>8, <3>2, <3>4 DEF Backing
    <3> QED
      BY <3>3, <3>4
  <2>9. CASE \/ at' = "request" /\ (Consume \/ RetainedOriginal)
             \/ at' = "original" /\ RetainedProof
    <3>1. at \in {"consume", "original", "proof"} /\ status' = status
      BY <2>9 DEF Consume, RetainedOriginal, RetainedProof, github
    <3>2. Receipt(Historical)' = Receipt(Historical)
      BY <2>1, <2>2, <3>1 DEF Receipt
    <3> QED
      BY <1>a, <2>1, <2>2, <2>9, <3>1, <3>2 DEF Backing
  <2>10. CASE at' = "proved" /\ RetainedProve
    BY <2>10 DEF Backing
  <2>11. CASE at' = "proof" /\ RetainedReport /\ RetainedReady
    <3>1. /\ at = "proved" /\ cand.original \in ripe /\ previous.reports[cand] = "pass"
          /\ previous.run # 0 /\ Historical = cand
      BY <1>a, <2>11 DEF RetainedReport, RetainedReady, CanEffect, Graphs
    <3>2. status' = [status EXCEPT ![cand] = [verdict |-> "pass", run |-> previous.run]]
      BY <2>11, <3>1 DEF RetainedReport, ReportStatus, HistoricalReceipt
    <3>3. status'[cand] = [verdict |-> "pass", run |-> previous.run]
      BY <2>2, <2>3, <3>2
    <3>4. published[previous.run] = previous.reports
      BY <1>a, <3>1 DEF Recorded
    <3>5. Receipt(Historical)' = "pass"
      BY <2>1, <2>2, <3>1, <3>3, <3>4 DEF Receipt
    <3> QED
      BY <2>1, <2>2, <2>11, <3>1, <3>5 DEF Backing
  <2> QED
    BY <1>2, <2>4, <2>5, <2>6, <2>7, <2>8, <2>9, <2>10, <2>11, TurnGoesOn
<1>3. CASE at' \in {"idle", "loop", "publish", "observed"}
  BY <1>3 DEF Backing
<1>4. CASE (World \/ UNCHANGED vars) /\ ~InHand
  BY <1>3, <1>4, WorldFrame, StutterFrame DEF InHand
<1>5. CASE Taking \/ Rerun \/ Request \/ Finish \/ Crash \/ \E selected \in Selections : Begin(selected)
  BY <1>3, <1>5, TakingFrame, RerunFrame, RequestFrame, FinishFrame, CrashFrame, BeginFrame
<1> QED
  BY <1>1, <1>2, <1>3, <1>4, <1>5, Kindwise DEF Taking

LEMMA WatchedNext ==
    ASSUME IInv, [Next]_vars, TypeOK'
    PROVE  Watched'
<1>a. TypeOK /\ Bounded /\ Known /\ Watched /\ Unspent
  BY DEF IInv
<1> DEFINE p == cand.original[1]
<1>b. /\ p \in PRs /\ cand.original[2] \in Int /\ cand.base \in Int /\ seen \in Int
      /\ \A q \in PRs : source[q] \in Int /\ merged[q] \in Int /\ merged[q] <= target
      /\ \A q \in PRs : source'[q] \in Int /\ merged'[q] \in Int
      /\ target \in Int /\ target' \in Int
  <2>1. cand.original \in Originals /\ cand.base \in 0 .. MaxBase
    BY <1>a, CandidateFields DEF TypeOK
  <2>2. p \in PRs /\ cand.original[2] \in 0 .. MaxPush
    BY <2>1, OriginalFields
  <2>3. /\ source \in [PRs -> 0 .. MaxPush] /\ merged \in [PRs -> 0 .. MaxBase]
        /\ target \in 0 .. MaxBase /\ seen \in 0 .. MaxBase
    BY <1>a DEF TypeOK
  <2>4. /\ source' \in [PRs -> 0 .. MaxPush] /\ merged' \in [PRs -> 0 .. MaxBase]
        /\ target' \in 0 .. MaxBase
    BY DEF TypeOK
  <2>5. \A q \in PRs : merged[q] <= target
    BY <1>a DEF Bounded
  <2> QED
    BY <2>1, <2>2, <2>3, <2>4, <2>5
<1>1. CASE World \/ UNCHANGED vars
  <2>1. /\ at' = at /\ cand' = cand /\ seen' = seen /\ recoveries' = recoveries
    BY <1>1, WorldFrame, StutterFrame
  <2>2. target <= target' /\ source[p] <= source'[p] /\ merged[p] <= merged'[p]
    BY <1>a, <1>b, Growth, MergedStep
  <2>3. CASE at \in {"observed", "proved", "proof"}
    <3>1. /\ seen <= target /\ cand.base <= merged[p]
          /\ unmoved \/ source[p] > cand.original[2] \/ merged[p] > cand.base \/ target > seen
      BY <1>a, <2>3 DEF Watched
    <3>2. unmoved' = unmoved \/ target' > target \/ source'[p] > source[p] \/ merged'[p] > merged[p]
      <4>1. CASE Advance
        BY <1>b, <4>1 DEF Advance
      <4>2. CASE \E q \in PRs : Push(q)
        <5>1. PICK q \in PRs : Push(q)
          BY <4>2
        <5>2. CASE q = p
          BY <1>a, <1>b, <5>1, <5>2 DEF Push, TypeOK
        <5>3. CASE q # p
          BY <1>a, <5>1, <5>3 DEF Push, Moves, Proving, TypeOK
        <5> QED
          BY <5>2, <5>3
      <4>3. CASE \E q \in PRs : Recompute(q)
        <5>1. PICK q \in PRs : Recompute(q)
          BY <4>3
        <5>2. CASE q = p
          BY <1>a, <1>b, <5>1, <5>2 DEF Recompute, TypeOK
        <5>3. CASE q # p
          BY <1>a, <5>1, <5>3 DEF Recompute, Moves, Proving, TypeOK
        <5> QED
          BY <5>2, <5>3
      <4>4. CASE \/ \E o \in Originals : Ripen(o) \/ WaiterStart(o) \/ WaiterEnd(o)
                 \/ UNCHANGED vars
        BY <4>4, StutterFrame DEF Ripen, WaiterStart, WaiterEnd, history
      <4> QED
        BY <1>1, <4>1, <4>2, <4>3, <4>4 DEF World
    <3>3. /\ seen <= target' /\ cand.base <= merged'[p]
          /\ unmoved' \/ source'[p] > cand.original[2] \/ merged'[p] > cand.base \/ target' > seen
      <4>1. /\ source[p] \in Int /\ source'[p] \in Int /\ merged[p] \in Int /\ merged'[p] \in Int
            /\ cand.original[2] \in Int /\ cand.base \in Int /\ seen \in Int
            /\ target \in Int /\ target' \in Int
        BY <1>b
      <4>2. CASE unmoved' = unmoved /\ unmoved
        BY <2>2, <3>1, <4>1, <4>2
      <4>3. CASE unmoved' = unmoved /\ ~unmoved
        BY <2>2, <3>1, <4>1, <4>3
      <4>4. CASE target' > target \/ source'[p] > source[p] \/ merged'[p] > merged[p]
        <5>1. cand.original[2] <= source[p]
          BY <1>a, <2>3 DEF Known, InHand, Pushed
        <5> QED
          BY <2>2, <3>1, <4>1, <4>4, <5>1
      <4> QED
        BY <1>a, <3>2, <4>2, <4>3, <4>4 DEF TypeOK
    <3> QED
      BY <2>1, <2>3, <3>3 DEF Watched
  <2>4. CASE at \notin {"observed", "proved", "proof"}
    <3>1. unmoved' = unmoved
      <4>1. \A q \in PRs : ~Proving(q)
        BY <2>4 DEF Proving
      <4>2. CASE Advance
        BY <1>a, <1>b, <4>1, <4>2 DEF Advance, Moves, TypeOK
      <4>3. CASE \E q \in PRs : Push(q) \/ Recompute(q)
        BY <1>a, <4>1, <4>3 DEF Push, Recompute, Moves, TypeOK
      <4>4. CASE \/ \E o \in Originals : Ripen(o) \/ WaiterStart(o) \/ WaiterEnd(o)
                 \/ UNCHANGED vars
        BY <4>4, StutterFrame DEF Ripen, WaiterStart, WaiterEnd, history
      <4> QED
        BY <1>1, <4>2, <4>3, <4>4 DEF World
    <3> QED
      BY <1>a, <2>1, <2>4, <3>1 DEF Watched, Phase
  <2> QED
    BY <2>3, <2>4
<1>2. CASE Turn /\ at' # "loop"
  <2>1. /\ UNCHANGED <<cand, source, target, merged, seen, unmoved>> /\ recoveries' = recoveries
    BY <1>a, <1>2, TurnFrame, TurnReserves
  <2>2. CASE at' \in {"retry", "rerun", "recover", "reserve", "consume"}
    BY <2>2 DEF Watched
  <2>3. CASE at' = "request" /\ Consume
    BY <1>a, <2>1, <2>3 DEF Consume, Unspent, Watched, Phase
  <2>4. CASE at' = "request" /\ RetainedOriginal
    BY <1>a, <2>1, <2>4 DEF RetainedOriginal, Watched
  <2>5. CASE \/ at' = "proved" /\ RetainedProve
             \/ at' = "proof" /\ RetainedReport
    BY <1>a, <2>1, <2>5 DEF RetainedProve, RetainedReport, Watched
  <2>6. CASE at' = "original" /\ RetainedProof /\ BindingLive
    <3>1. at = "proof" /\ seen = target
      BY <2>6 DEF RetainedProof, BindingLive
    <3>2. cand.original = <<p, source[p]>> /\ cand.base = merged[p]
      BY <2>6 DEF BindingLive
    <3>3. cand.original[2] = source[p]
      BY <3>2
    <3>4. unmoved
      BY <1>a, <1>b, <3>1, <3>2, <3>3 DEF Watched
    <3> QED
      BY <2>1, <2>6, <3>4 DEF Watched
  <2> QED
    BY <1>2, <2>2, <2>3, <2>4, <2>5, <2>6, TurnGoesOn
<1>3. CASE at' \in {"idle", "loop", "publish"}
  BY <1>3 DEF Watched
<1>4. CASE (\E q \in PRs : RetainedObserve(q)) /\ at' = "observed"
  <2>1. PICK q \in PRs : RetainedObserve(q)
    BY <1>4
  <2>2. /\ cand' = [original |-> <<q, source[q]>>, base |-> merged[q]]
        /\ seen' = target /\ unmoved' /\ UNCHANGED <<source, target, merged>>
    BY <1>4, <2>1 DEF RetainedObserve, github
  <2>3. cand'.original[1] = q /\ cand'.base = merged[q]
    BY <2>2
  <2> QED
    BY <1>4, <1>b, <2>2, <2>3 DEF Watched
<1>5. CASE Taking
  BY <1>3, <1>4, <1>5, TakingFrame
<1>6. CASE Rerun \/ Request \/ Finish \/ Crash \/ \E selected \in Selections : Begin(selected)
  BY <1>3, <1>6, RerunFrame, RequestFrame, FinishFrame, CrashFrame, BeginFrame
<1> QED
  BY <1>1, <1>2, <1>3, <1>5, <1>6, Kindwise DEF Taking

LEMMA FreshNext ==
    ASSUME IInv, [Next]_vars
    PROVE  Fresh'
<1>a. TypeOK /\ Unspent /\ Fresh
  BY DEF IInv
<1>b. /\ recoveries \in [Originals -> Phases] /\ cand \in Candidate
      /\ cand.original \in Originals
  BY <1>a, CandidateFields DEF TypeOK
<1>1. CASE World \/ UNCHANGED vars
  <2>1. /\ at' = at /\ todo' = todo /\ kept' = kept /\ cand' = cand
        /\ recoveries' = recoveries /\ previous' = previous
    BY <1>1, WorldFrame, StutterFrame
  <2> QED
    BY <1>a, <2>1 DEF Fresh, Ahead, InHand, Phase
<1>2. CASE at' = "idle"
  BY <1>2 DEF Fresh, InHand
<1>3. CASE Turn \/ Rerun \/ Request
  <2>1. /\ at # "idle" /\ InHand /\ todo' \subseteq todo /\ kept' \subseteq kept /\ previous' = previous
        /\ cand' = cand \/ at' = "loop"
    BY <1>3, TurnFrame, RerunFrame, RequestFrame DEF InHand
  <2>2. \A o \in Originals : o # cand.original => recoveries'[o] = recoveries[o]
    <3>1. CASE Turn
      BY <1>a, <3>1, TurnReserves
    <3>2. CASE Rerun
      BY <3>2, RerunFrame
    <3>3. CASE Request
      <4>1. PICK phase \in Spent : recoveries' = [recoveries EXCEPT ![cand.original] = phase]
        BY <3>3, RequestFrame
      <4> QED
        BY <1>b, <4>1
    <3> QED
      BY <1>3, <3>1, <3>2, <3>3
  <2>3. at' # "loop" => recoveries' = recoveries /\ cand' = cand
    BY <1>a, <1>3, TurnReserves, TurnFrame, RerunFrame, RequestFrame
  <2>4. Ahead' \subseteq Ahead
    BY <2>1 DEF Ahead
  <2>5. \A o \in Originals : recoveries'[o] # previous'.recoveries[o] => o[1] \notin Ahead'
    BY <1>a, <2>1, <2>2, <2>4 DEF Fresh
  <2>6. /\ \A c, d \in todo' : c.original[1] = d.original[1] => c = d
        /\ \A c \in todo' : c.original[1] \notin kept'
    BY <1>a, <2>1 DEF Fresh
  <2>7. InHand' => cand'.original[1] \notin Ahead' /\ Phase' = previous'.recoveries[cand'.original]
    BY <1>a, <2>1, <2>3, <2>4 DEF Fresh, InHand, Phase
  <2> QED
    BY <2>5, <2>6, <2>7 DEF Fresh
<1>4. CASE \E c \in Candidate : Evaluate(c)
  <2>1. PICK c \in Candidate : Evaluate(c)
    BY <1>4
  <2>2. /\ at = "loop" /\ c \in todo /\ todo' = todo \ {c} /\ cand' = c /\ kept' = kept
        /\ recoveries' = recoveries /\ previous' = previous
    BY <2>1 DEF Evaluate, evidence
  <2>3. Ahead' \subseteq Ahead /\ c.original[1] \in Ahead /\ c.original \in Originals
    BY <2>2, CandidateFields DEF Ahead
  <2>4. c.original[1] \notin Ahead'
    BY <1>a, <2>2 DEF Fresh, Ahead
  <2>5. recoveries[c.original] = previous.recoveries[c.original]
    BY <1>a, <2>2, <2>3 DEF Fresh
  <2> QED
    BY <1>a, <2>2, <2>3, <2>4, <2>5 DEF Fresh, InHand, Phase
<1>5. CASE \E p \in PRs : RetainedObserve(p)
  <2>1. PICK p \in PRs : RetainedObserve(p)
    BY <1>5
  <2>2. /\ at = "loop" /\ todo = {} /\ todo' = {} /\ p \in kept /\ kept' = kept \ {p}
        /\ recoveries' = recoveries /\ previous' = previous
        /\ \/ at' = "loop"
           \/ at' = "observed" /\ cand' = [original |-> <<p, source[p]>>, base |-> merged[p]]
    BY <2>1 DEF RetainedObserve, evidence
  <2>3. Ahead' \subseteq Ahead /\ p \in Ahead /\ p \notin Ahead' /\ <<p, source[p]>> \in Originals
    BY <1>a, <2>2, OriginalMade DEF Ahead, TypeOK
  <2>4. recoveries[<<p, source[p]>>] = previous.recoveries[<<p, source[p]>>]
    BY <1>a, <2>2, <2>3 DEF Fresh
  <2>5. InHand' => cand'.original[1] = p /\ cand'.original = <<p, source[p]>>
    BY <2>2 DEF InHand
  <2> QED
    BY <1>a, <2>2, <2>3, <2>4, <2>5 DEF Fresh, Phase
<1>6. CASE \E selected \in Selections : Begin(selected)
  <2>1. PICK selected \in Selections : Begin(selected)
    BY <1>6
  <2>2. /\ at' = "loop" /\ recoveries' = previous'.recoveries
        /\ todo' = {Live(p) : p \in {p \in selected : merged[p] = target}}
        /\ kept' = {p \in selected : IsRetained(p)}
    BY <2>1, BeginFrame
  <2>3. \A p \in PRs : Live(p).original[1] = p
    BY DEF Live
  <2>4. ASSUME NEW c \in todo'
        PROVE  \E p \in PRs : c = Live(p) /\ c.original[1] = p /\ merged[p] = target
    <3>1. PICK p \in PRs : c = Live(p) /\ merged[p] = target
      BY <2>2 DEF Selections
    <3> QED
      BY <2>3, <3>1
  <2>5. \A p \in kept' : merged[p] # target
    BY <2>2 DEF IsRetained
  <2> QED
    BY <2>2, <2>4, <2>5 DEF Fresh, InHand
<1> QED
  BY <1>1, <1>2, <1>3, <1>4, <1>5, <1>6, Kindwise, FinishFrame, CrashFrame

-----------------------------------------------------------------------------
(* The theorems.                                                             *)

\* Every step of the service, the waiters and GitHub keeps the invariant.
THEOREM NextIInv ==
    ASSUME IInv, [Next]_vars
    PROVE  IInv'
<1>1. TypeOK'
  BY TypeNext DEF IInv
<1> QED
  BY <1>1, BoundedNext, KnownNext, RestartedNext, ChargedNext, AccountedNext, UnspentNext,
     LicensedNext, GraphsNext, BackingNext, RecordedNext, WatchedNext, FreshNext, OneRequestNext,
     PassedOnEvidenceNext DEF IInv

\* The invariant of the service holds in every reachable state, whatever the pull requests,
\* the number of runs, pushes and base moves, and the faults.
THEOREM Invariance == Spec => []IInv
BY InitIInv, NextIInv, PTL DEF Spec

\* Every variable of the service keeps its type; in particular no CI run is restarted beyond
\* its second attempt.
THEOREM TypeCorrect == Spec => []TypeOK
<1>1. IInv => TypeOK
  BY DEF IInv
<1> QED
  BY <1>1, Invariance, PTL

\* No CI run is requested twice, by whichever of the three ways to restart it (rerun_ready,
\* recover_run and recover_retained share one budget).
THEOREM OneRequest == Spec => []OneRequestPerOriginal
<1>1. IInv => OneRequestPerOriginal
  BY DEF IInv
<1> QED
  BY <1>1, Invariance, PTL

\* A waiter passes only on the evidence of a completed run about its own merge and base
\* (candidate_receipt).
THEOREM PassesAreEvident == Spec => []PassedOnEvidence
<1>1. IInv => PassedOnEvidence
  BY DEF IInv
<1> QED
  BY <1>1, Invariance, PTL

\* Between runs each request is on record or the budget is suspended (service, its payload).
THEOREM RequestsAreRecorded == Spec => []RecordedOrSuspended
<1>1. IInv => RecordedOrSuspended
  BY DEF IInv, Accounted, SpentIn, RecordedOrSuspended
<1> QED
  BY <1>1, Invariance, PTL

\* A recovery is requested only when a completed run has prepared it and reported on both
\* graphs (recover_run, recover_retained, consume).
THEOREM RecoveriesWerePrepared == Spec => PreparedByCompletedRun
<1> DEFINE Prepared ==
      \A q \in requests' \ requests : q.kind # "rerun" =>
         /\ previous.recoveries[q.original] =
              (IF q.kind = "recovery" THEN "prepared" ELSE "retained")
         /\ \A c \in {cand, Tested(q.original)} : previous.reports[c] # "none"
<1>1. ASSUME IInv, [Next]_vars PROVE [Prepared]_vars
  <2>1. SUFFICES ASSUME NEW q \in requests' \ requests, q.kind # "rerun"
                 PROVE  /\ previous.recoveries[q.original] =
                             (IF q.kind = "recovery" THEN "prepared" ELSE "retained")
                        /\ \A c \in {cand, Tested(q.original)} : previous.reports[c] # "none"
    OBVIOUS
  <2>2. Request /\ at = "request"
    BY <1>1, <2>1, RequestStep DEF RequestOf, Request
  <2>3. q = RequestOf(IF Phase = "retained" THEN "retained" ELSE "recovery")
    BY <2>1, <2>2, RequestFrame
  <2>4. q.original = cand.original /\ q.kind = IF Phase = "retained" THEN "retained" ELSE "recovery"
    BY <2>3 DEF RequestOf
  <2>5. Phase \in {"prepared", "retained"} /\ Phase = previous.recoveries[cand.original]
    BY <1>1, <2>2 DEF IInv, Unspent, Fresh, InHand, Steps
  <2>6. \A c \in {cand, Historical} : previous.reports[c] # "none"
    BY <1>1, <2>2 DEF IInv, Backing
  <2> QED
    BY <2>4, <2>5, <2>6 DEF Historical
<1> QED
  BY <1>1, Invariance, PTL DEF Spec, PreparedByCompletedRun

\* When CI jobs are restarted, the receipt of the merge they test is already visible
\* (report_status, its attribution to the previous run).
THEOREM ReceiptsAreVisible == Spec => ReceiptVisibleAtRerun
<1> DEFINE Visible ==
      \A o \in Originals : ci[o].state = "failed" /\ ci'[o].state = "queued" =>
         requests' = requests \/ Receipt(Tested(o)) = "pass"
<1>1. ASSUME IInv, [Next]_vars PROVE [Visible]_vars
  <2>1. SUFFICES ASSUME NEW o \in Originals, ci[o].state = "failed", ci'[o].state = "queued"
                 PROVE  Receipt(Tested(o)) = "pass"
    OBVIOUS
  <2>2. /\ o = cand.original /\ (Rerun \/ Request)
        /\ Request => cand.original \notin Handoff
    BY <1>1, <2>1, CiStep DEF IInv, NoCi
  <2>3. Receipt(Historical) = "pass"
    BY <1>1, <2>2 DEF IInv, Backing, Rerun, Request
  <2> QED
    BY <2>2, <2>3 DEF Historical
<1> QED
  BY <1>1, Invariance, PTL DEF Spec, ReceiptVisibleAtRerun

\* A retained original is rerun only when neither its pull request nor the target has moved
\* between the first and the last look at them (recover_retained, consume).
THEOREM RetainedAreStill == Spec => RetainedStoodStill
<1> DEFINE Still == \A q \in requests' \ requests : q.kind = "retained" => unmoved
<1>1. ASSUME IInv, [Next]_vars PROVE [Still]_vars
  <2>1. SUFFICES ASSUME NEW q \in requests' \ requests, q.kind = "retained" PROVE unmoved
    OBVIOUS
  <2>2. Request /\ at = "request"
    BY <1>1, <2>1, RequestStep DEF RequestOf, Request
  <2>3. q = RequestOf(IF Phase = "retained" THEN "retained" ELSE "recovery")
    BY <2>1, <2>2, RequestFrame
  <2>4. Phase = "retained"
    BY <2>1, <2>3 DEF RequestOf
  <2> QED
    BY <1>1, <2>2, <2>4 DEF IInv, Watched
<1> QED
  BY <1>1, Invariance, PTL DEF Spec, RetainedStoodStill
-----------------------------------------------------------------------------
(* The runs implement EffectLock.                                            *)

Holders == IF at # "idle" /\ CanEffect THEN {run} ELSE {}
SpentBudgets == {<<q.run, q.original>> : q \in requests}

\* A request is made by the holder, of a budget nobody has spent (rerun_ready, consume).
LEMMA RequestSpends ==
    ASSUME IInv, Rerun \/ Request
    PROVE  /\ Holders = {run} /\ Holders' = Holders
           /\ run \in RunIds /\ cand.original \in Originals
           /\ SpentBudgets' = SpentBudgets \cup {<<run, cand.original>>}
           /\ \A x \in SpentBudgets : x[1] <= run /\ x[2] # cand.original
<1>a. TypeOK /\ Bounded /\ Unspent /\ Licensed
  BY DEF IInv
<1>1. at \in {"rerun", "request"} /\ at' = "loop" /\ UNCHANGED <<run, fenced, previous>>
  BY RerunFrame, RequestFrame
<1>2. CanEffect /\ CanEffect'
  BY <1>a, <1>1 DEF CanEffect, Unspent, Licensed, Steps
<1>3. run \in RunIds
  BY <1>a, <1>1 DEF TypeOK, Bounded
<1>4. PICK kind : requests' = requests \cup {RequestOf(kind)}
  BY RerunFrame, RequestFrame
<1>5. RequestOf(kind).run = run /\ RequestOf(kind).original = cand.original
  BY DEF RequestOf
<1>6. SpentBudgets' = SpentBudgets \cup {<<run, cand.original>>}
  BY <1>4, <1>5 DEF SpentBudgets
<1>7. \A q \in requests : q.run <= run /\ q.original # cand.original
  BY <1>a, FirstRequest DEF Licensed
<1>8. ASSUME NEW x \in SpentBudgets PROVE x[1] <= run /\ x[2] # cand.original
  <2>1. PICK q \in requests : x = <<q.run, q.original>>
    BY DEF SpentBudgets
  <2> QED
    BY <1>7, <2>1
<1> QED
  BY <1>1, <1>2, <1>3, <1>6, <1>8, FirstRequest DEF Holders

\* Every other step leaves the lock alone, takes it or gives it up.
LEMMA HoldersStep ==
    ASSUME IInv, [Next]_vars, ~Rerun, ~Request
    PROVE  /\ SpentBudgets' = SpentBudgets
           /\ \/ Holders' = Holders
              \/ \E r \in RunIds : Holders = {} /\ Holders' = {r}
              \/ \E r \in RunIds : Holders = {r} /\ Holders' = {}
<1>a. TypeOK /\ Bounded
  BY DEF IInv
<1>1. SpentBudgets' = SpentBudgets
  BY RequestStep DEF SpentBudgets
<1>2. CASE World \/ Turn \/ Taking \/ UNCHANGED vars
  <2>1. UNCHANGED <<run, fenced, previous>> /\ (at' = "idle" <=> at = "idle")
    BY <1>2, WorldFrame, TurnFrame, TakingFrame, StutterFrame DEF InHand
  <2> QED
    BY <1>1, <2>1 DEF Holders, CanEffect
<1>3. CASE Finish \/ Crash
  <2>1. at # "idle" /\ at' = "idle" /\ run \in RunIds
    BY <1>a, <1>3, FinishFrame, CrashFrame DEF TypeOK, Bounded
  <2> QED
    BY <1>1, <2>1 DEF Holders
<1>4. CASE \E selected \in Selections : Begin(selected)
  <2>1. at = "idle" /\ run' \in RunIds
    BY <1>a, <1>4 DEF Begin, TypeOK
  <2> QED
    BY <1>1, <2>1 DEF Holders
<1> QED
  BY <1>2, <1>3, <1>4, Kindwise DEF Taking

\* The service spends like a lock's holder: no request before an earlier run has completed,
\* none of a run after a crash, each CI run once and in the order of the runs, over the
\* normal retry, the older-base recovery and the retained originals.
THEOREM ServiceIsALock == Spec => ImplementsLock
<1>1. Init => Lock!Init
  BY DEF Init, Lock!Init
<1>2. ASSUME IInv, [Next]_vars PROVE [Lock!Next]_Lock!vars
  <2> USE DEF Lock!Next, Lock!vars, Lock!Enter, Lock!Leave, Lock!Spend
  <2>1. CASE Rerun \/ Request
    BY <1>2, <2>1, RequestSpends DEF Holders, SpentBudgets
  <2>2. CASE ~Rerun /\ ~Request
    BY <1>2, <2>2, HoldersStep DEF Holders, SpentBudgets
  <2> QED
    BY <2>1, <2>2
<1> QED
  BY <1>1, <1>2, Invariance, PTL DEF Spec, ImplementsLock, Lock!Spec

-----------------------------------------------------------------------------
(* Every run comes to its end.                                               *)

\* What is left of the turn of the candidate in hand.
Rank == CASE at = "publish"  -> 6
          [] at \in {"retry", "observed"}  -> 5
          [] at \in {"recover", "proved"}  -> 4
          [] at \in {"reserve", "proof"}   -> 3
          [] at \in {"consume", "original"} -> 2
          [] at \in {"rerun", "request"}   -> 1
          [] OTHER -> 0

\* What a run has still to do, in steps at most: turns, and the upload.
Left == IF at = "idle" THEN 0 ELSE 7 * (Cardinality(todo) + Cardinality(kept)) + Rank + 1

LEMMA CandidatesAreFinite ==
    ASSUME IsFiniteSet(PRs)
    PROVE  IsFiniteSet(Candidate)
<1>0. IsFiniteSet(0 .. MaxPush) /\ IsFiniteSet(0 .. MaxBase) BY FS_Interval
<1>1. IsFiniteSet(Originals) BY <1>0, FS_Product DEF Originals
<1> DEFINE Pairs == Originals \X (0 .. MaxBase)
           f == [t \in Pairs |-> [original |-> t[1], base |-> t[2]]]
<1>2. IsFiniteSet(Pairs) BY <1>0, <1>1, FS_Product
<1>3. f \in Surjection(Pairs, Candidate)
  <2>1. ASSUME NEW t \in Pairs PROVE f[t] \in Candidate
    <3>1. t[1] \in Originals /\ t[2] \in 0 .. MaxBase OBVIOUS
    <3> QED BY <3>1, CandidateMade
  <2>2. ASSUME NEW c \in Candidate PROVE \E t \in Pairs : f[t] = c
    <3>1. <<c.original, c.base>> \in Pairs /\ f[<<c.original, c.base>>] = c
      BY CandidateFields
    <3> QED BY <3>1
  <2>3. f \in [Pairs -> Candidate] BY <2>1
  <2> QED BY <2>2, <2>3 DEF Surjection
<1> QED BY <1>2, <1>3, FS_Surjection

\* What a run still has to look at is finite, in a state and after a step.
LEMMA WorkIsFinite ==
    ASSUME IsFiniteSet(PRs), NEW S, S \subseteq Candidate, NEW K, K \subseteq PRs
    PROVE  /\ IsFiniteSet(S) /\ IsFiniteSet(K)
           /\ Cardinality(S) \in Nat /\ Cardinality(K) \in Nat
<1>1. IsFiniteSet(S) /\ IsFiniteSet(K) BY CandidatesAreFinite, FS_Subset
<1> QED BY <1>1, FS_CardinalityType

LEMMA LeftType ==
    ASSUME IsFiniteSet(PRs), TypeOK
    PROVE  /\ Left \in Nat
           /\ Cardinality(todo) \in Nat /\ Cardinality(kept) \in Nat
<1>1. Cardinality(todo) \in Nat /\ Cardinality(kept) \in Nat
  BY WorkIsFinite DEF TypeOK
<1>2. Rank \in Nat BY DEF Rank
<1>3. \A i, j, k \in Nat : 7 * (i + j) + k + 1 \in Nat OBVIOUS
<1> QED BY <1>1, <1>2, <1>3 DEF Left

\* A step advances the turn in hand, begins one of those that are left, or is the upload.
LEMMA StepAdvances ==
    ASSUME TypeOK, Step
    PROVE  \/ at # "idle" /\ at' = "idle"
           \/ /\ at # "idle" /\ at' # "idle"
              /\ todo' \subseteq todo /\ kept' \subseteq kept
              /\ Rank \in 0 .. 6 /\ Rank' \in 0 .. 6
              /\ \/ Rank' < Rank
                 \/ \E c \in todo : todo' = todo \ {c}
                 \/ \E p \in kept : kept' = kept \ {p}
<1> DEFINE Goal == \/ at # "idle" /\ at' = "idle"
                   \/ /\ at # "idle" /\ at' # "idle"
                      /\ todo' \subseteq todo /\ kept' \subseteq kept
                      /\ \/ Rank' < Rank
                         \/ \E c \in todo : todo' = todo \ {c}
                         \/ \E p \in kept : kept' = kept \ {p}
<1>1. Rank \in 0 .. 6 /\ Rank' \in 0 .. 6 BY DEF Rank
<1> USE DEF Rank, Fail, FailRetained, AfterRetry, memory
<1>2. ASSUME NEW c \in Candidate, Evaluate(c) PROVE Goal BY <1>2 DEF Evaluate
<1>3. ASSUME NEW p \in PRs, RetainedObserve(p) PROVE Goal BY <1>3 DEF RetainedObserve
<1>4. CASE Drop \/ EvaluateFails BY <1>4 DEF Drop, EvaluateFails
<1>5. CASE Publish \/ PublishFails BY <1>5 DEF Publish, PublishFails
<1>6. CASE Retry \/ Rerun BY <1>6 DEF Retry, Rerun
<1>7. CASE RecoverNothing \/ RecoverRefused BY <1>7 DEF RecoverNothing, RecoverRefused
<1>8. CASE HistoricalReport \/ HistoricalFails
  BY <1>8 DEF HistoricalReport, HistoricalFails, GraphProved
<1>9. CASE Reserve \/ Consume \/ Request BY <1>9 DEF Reserve, Consume, Request
<1>10. CASE RetainedProve \/ RetainedReport \/ RetainedFails
  BY <1>10 DEF RetainedProve, RetainedReport, RetainedFails
<1>11. CASE RetainedProof \/ RetainedOriginal BY <1>11 DEF RetainedProof, RetainedOriginal
<1>12. CASE Finish BY <1>12 DEF Finish
<1> QED
  BY <1>1, <1>2, <1>3, <1>4, <1>5, <1>6, <1>7, <1>8, <1>9, <1>10, <1>11, <1>12 DEF Step

LEMMA StepsLessen ==
    ASSUME IsFiniteSet(PRs), IInv, Step
    PROVE  Left' < Left
<1>1. TypeOK /\ TypeOK' BY TypeNext DEF IInv, Next
<1>2. /\ IsFiniteSet(todo) /\ IsFiniteSet(kept)
      /\ Cardinality(todo) \in Nat /\ Cardinality(kept) \in Nat
      /\ Cardinality(todo') \in Nat /\ Cardinality(kept') \in Nat
  <2>1. /\ todo \subseteq Candidate /\ kept \subseteq PRs
        /\ todo' \subseteq Candidate /\ kept' \subseteq PRs
    BY <1>1 DEF TypeOK
  <2> QED BY <2>1, WorkIsFinite
<1>3. CASE at # "idle" /\ at' = "idle"
  BY <1>2, <1>3 DEF Left, Rank
<1>4. CASE ~(at # "idle" /\ at' = "idle")
  <2>1. /\ at # "idle" /\ at' # "idle"
        /\ todo' \subseteq todo /\ kept' \subseteq kept
        /\ Rank \in 0 .. 6 /\ Rank' \in 0 .. 6
        /\ \/ Rank' < Rank
           \/ \E c \in todo : todo' = todo \ {c}
           \/ \E p \in kept : kept' = kept \ {p}
    BY <1>1, <1>4, StepAdvances
  <2>2. Cardinality(todo') <= Cardinality(todo) /\ Cardinality(kept') <= Cardinality(kept)
    BY <1>2, <2>1, FS_Subset
  <2>3. CASE Rank' < Rank
    BY <1>2, <2>1, <2>2, <2>3 DEF Left
  <2>4. ASSUME NEW c \in todo, todo' = todo \ {c} PROVE Left' < Left
    <3>1. Cardinality(todo') = Cardinality(todo) - 1
      BY <1>2, <2>4, FS_RemoveElement
    <3> QED BY <1>2, <2>1, <2>2, <3>1 DEF Left
  <2>5. ASSUME NEW p \in kept, kept' = kept \ {p} PROVE Left' < Left
    <3>1. Cardinality(kept') = Cardinality(kept) - 1
      BY <1>2, <2>5, FS_RemoveElement
    <3> QED BY <1>2, <2>1, <2>2, <3>1 DEF Left
  <2> QED BY <2>1, <2>3, <2>4, <2>5
<1> QED BY <1>3, <1>4

\* The loops over candidates and retained originals end: each step of a run leaves less to
\* do, a natural number, whatever fails and is refused, and no push, base move or waiter adds
\* to it (service, recover_run, recover_retained).
THEOREM RunsEnd ==
    ASSUME IsFiniteSet(PRs)
    PROVE  Spec => /\ [](Left \in Nat)
                   /\ [][/\ Step => Left' < Left
                         /\ World => Left' = Left]_vars
<1>1. IInv => Left \in Nat BY LeftType DEF IInv
<1>2. IInv /\ [Next]_vars => [(Step => Left' < Left) /\ (World => Left' = Left)]_vars
  <2>1. World => Left' = Left
    BY DEF World, Advance, Push, Recompute, Ripen, WaiterStart, WaiterEnd, Left, Rank, memory
  <2> QED BY <2>1, StepsLessen
<1> QED BY <1>1, <1>2, Invariance, PTL DEF Spec

=============================================================================
