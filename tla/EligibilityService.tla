------------------------- MODULE EligibilityService -------------------------
(***************************************************************************)
(* What one run of the dependency eligibility service does with the        *)
(* candidates it looks at (eligibility.py, service, rerun_ready,           *)
(* report_status, wait_for_candidate; recovery.py, recover_run,            *)
(* recover_retained, consume),                                             *)
(* while pull requests are pushed to, the target branch moves, dependency  *)
(* ages expire, and the waiters in the candidates' own CI runs poll for    *)
(* the service's verdict.                                                  *)
(*                                                                         *)
(* Service runs follow one another, as the concurrency group of their      *)
(* workflow has it; ServiceFrontier is about runs that overlap all the     *)
(* same, and shows that a run is entitled to effects only when the runs    *)
(* before it left complete evidence.  Here that is the variable fenced.    *)
(*                                                                         *)
(* A candidate is a pull request's source revision merged into a base; its *)
(* merge commit is identified with that pair.  Each source has one CI run, *)
(* on the merge into the base of its time: the "original" run, whose hint  *)
(* artifact names that base.                                               *)
(***************************************************************************)
EXTENDS Integers, FiniteSets

CONSTANTS
    PRs,        \* open pull requests
    Handoff,    \* originals whose base crosses a change of authority or workflow
    MaxRuns,    \* bound of the model: service runs
    MaxBase,    \* bound of the model: movements of the target branch
    MaxPush,    \* bound of the model: pushes to a pull request
    Faults      \* "crash" of a run, failing "post" and "get" requests or refused proofs,
                \* test merges that stay "stale" when the target moves

ASSUME PRsAssumption == PRs # {}
ASSUME BoundsAssumption == MaxRuns \in Nat \ {0} /\ MaxBase \in Nat /\ MaxPush \in Nat
ASSUME HandoffAssumption == Handoff \subseteq PRs \X (0 .. MaxPush)
ASSUME FaultsAssumption == Faults \subseteq {"crash", "post", "get", "stale"}

RunIds == 1 .. MaxRuns
Originals == PRs \X (0 .. MaxPush)
Candidate == [original : Originals, base : 0 .. MaxBase]
Verdicts == {"none", "waiting", "pass"}
\* "retained" is a prepared reservation of the kind retained-original.
Phases == {"none", "prepared", "retained", "attempted", "uncertain", "suspended"}
Reports == [Candidate -> Verdicts]

\* The state artifact of a completed run; run 0 stands for no earlier run.
Payload == [run : 0 .. MaxRuns, reports : Reports,
            reruns : SUBSET Candidate, recoveries : [Originals -> Phases]]

NoReports == [c \in Candidate |-> "none"]
Genesis == [run |-> 0, reports |-> NoReports, reruns |-> {},
            recoveries |-> [o \in Originals |-> "none"]]

VARIABLES
    source,     \* source[p]: number of the source revision of pull request p
    target,     \* revision of the target branch
    merged,     \* merged[p]: the base of the test merge GitHub shows for pull request p
    ripe,       \* originals whose dependencies are all old enough
    ci,         \* the CI run of each original: its base, attempt and state
    status,     \* newest eligibility status of each candidate: verdict and run named
    run,        \* number of the current or latest service run
    at,         \* where that run is in its loop
    todo,       \* candidates it has resolved and not evaluated
    kept,       \* pull requests with a retained original, which it takes up after those
    cand,       \* the candidate in hand
    verdict,    \* its evaluation
    seen,       \* the target observed with a retained original
    reports,    \* reports of this run
    reruns,     \* ledger of normal retries, by candidate
    recoveries, \* reservations for older-base recoveries, by original
    previous,   \* payload of the newest completed run
    published,  \* reports in the artifacts of the completed runs
    fenced,     \* the effect budget is suspended for good
    requests,   \* history: reruns and label handoffs requested
    unmoved     \* history: the retained original in hand has not moved since it was observed

github == <<source, target, merged, ripe, ci, status>>
memory == <<todo, kept, cand, verdict, seen, reports, reruns, recoveries>>
evidence == <<previous, published, fenced>>
history == <<requests, unmoved>>
vars == <<github, run, at, memory, evidence, history>>

CiRun == [base : 0 .. MaxBase, attempt : 0 .. 3,
          state : {"none", "queued", "waiting", "failed", "passed"}]
Kinds == {"rerun", "recovery", "retained"}
Steps == {"idle", "loop", "publish", "retry", "rerun", "recover",
          "reserve", "consume", "request",
          "observed", "proved", "proof", "original"}

TypeOK ==
    /\ source \in [PRs -> 0 .. MaxPush]
    /\ target \in 0 .. MaxBase
    /\ merged \in [PRs -> 0 .. MaxBase]
    /\ ripe \subseteq Originals
    /\ ci \in [Originals -> CiRun]
    /\ status \in [Candidate -> [verdict : Verdicts, run : 0 .. MaxRuns]]
    /\ run \in 0 .. MaxRuns
    /\ at \in Steps
    /\ todo \subseteq Candidate
    /\ kept \subseteq PRs
    /\ cand \in Candidate
    /\ verdict \in Verdicts
    /\ seen \in 0 .. MaxBase
    /\ reports \in Reports
    /\ reruns \subseteq Candidate
    /\ recoveries \in [Originals -> Phases]
    /\ previous \in Payload
    /\ published \in [RunIds -> Reports]
    /\ fenced \in BOOLEAN
    /\ requests \subseteq [original : Originals, kind : Kinds, run : RunIds]
    /\ unmoved \in BOOLEAN

NoCi == [base |-> 0, attempt |-> 0, state |-> "none"]
NewCi(base) == [base |-> base, attempt |-> 1, state |-> "queued"]

Live(p) == [original |-> <<p, source[p]>>, base |-> target]

Init ==
    /\ source = [p \in PRs |-> 0]
    /\ target = 0
    /\ merged = [p \in PRs |-> 0]
    /\ ripe = {}
    /\ ci = [o \in Originals |-> IF o[2] = 0 THEN NewCi(0) ELSE NoCi]
    /\ status = [c \in Candidate |-> [verdict |-> "none", run |-> 0]]
    /\ run = 0
    /\ at = "idle"
    /\ todo = {} /\ kept = {}
    /\ cand = CHOOSE c \in Candidate : TRUE
    /\ verdict = "none"
    /\ seen = 0
    /\ reports = NoReports
    /\ reruns = {}
    /\ recoveries = Genesis.recoveries
    /\ previous = Genesis
    /\ published = [r \in RunIds |-> NoReports]
    /\ fenced = FALSE
    /\ requests = {}
    /\ unmoved = FALSE

-----------------------------------------------------------------------------
(* The world around the service.                                             *)

\* The pull request in hand is p, with a retained original that is being proved.
Proving(p) == cand.original[1] = p /\ at \in {"observed", "proved", "proof"}

Moves(p) == unmoved' = (unmoved /\ ~Proving(p))

\* A push, by a person or by Renovate after a handoff, starts a CI run on the new merge.
Push(p) ==
    /\ source[p] < MaxPush
    /\ source' = [source EXCEPT ![p] = @ + 1]
    /\ merged' = [merged EXCEPT ![p] = target]
    /\ ci' = [ci EXCEPT ![<<p, source[p] + 1>>] = NewCi(target)]
    /\ Moves(p)
    /\ UNCHANGED <<target, ripe, status, run, at, memory, evidence, requests>>

\* The target branch moves; the test merges follow at once or when somebody asks for them.
Advance ==
    /\ target < MaxBase
    /\ target' = target + 1
    /\ \/ merged' = [p \in PRs |-> target + 1]
       \/ "stale" \in Faults /\ UNCHANGED merged
    /\ Moves(cand.original[1])
    /\ UNCHANGED <<source, ripe, ci, status, run, at, memory, evidence, requests>>

Recompute(p) ==
    /\ merged[p] # target
    /\ merged' = [merged EXCEPT ![p] = target]
    /\ Moves(p)
    /\ UNCHANGED <<source, target, ripe, ci, status, run, at, memory, evidence, requests>>

\* The 72 hours of the youngest dependency of an original have passed.
Ripen(o) ==
    /\ o \notin ripe
    /\ ripe' = ripe \cup {o}
    /\ UNCHANGED <<source, target, merged, ci, status, run, at, memory, evidence, history>>

\* Slip: the status is believed without the artifact of the run it names.
ReceiptByStatus(c) == status[c].verdict

\* candidate_receipt: the newest status counts if the run it names is completed and its
\* artifact reports the same verdict for this merge and base.
Receipt(c) ==
    IF status[c].run # 0 /\ published[status[c].run][c] = status[c].verdict
    THEN status[c].verdict ELSE "none"

\* The merge a CI run tests is fixed when the run is created; a rerun tests it again.
Tested(o) == [original |-> o, base |-> ci[o].base]

WaiterStart(o) ==
    /\ ci[o].state = "queued"
    /\ ci' = [ci EXCEPT ![o].state = "waiting"]
    /\ UNCHANGED <<source, target, merged, ripe, status, run, at, memory, evidence, history>>

\* wait_for_candidate returns a report, or "waiting" when its time is over; the job passes
\* only on a passing report.
WaiterEnd(o) ==
    /\ ci[o].state = "waiting"
    /\ ci' = [ci EXCEPT ![o].state = IF Receipt(Tested(o)) = "pass" THEN "passed" ELSE "failed"]
    /\ UNCHANGED <<source, target, merged, ripe, status, run, at, memory, evidence, history>>

-----------------------------------------------------------------------------
(* The service.                                                              *)

CanPrepare == ~fenced
CanEffect == ~fenced /\ previous.run # 0

\* probe_retained: the test merge has an older base, and is the one that CI has tested.
IsRetained(p) == merged[p] # target /\ merged[p] = ci[<<p, source[p]>>].base

\* A callback of one pull request's CI run, or the schedule, which looks at all of them.
Selections == {{p} : p \in PRs} \cup {PRs}

Begin(selected) ==
    /\ at = "idle"
    /\ run < MaxRuns
    /\ run' = run + 1
    /\ at' = "loop"
    /\ todo' = {Live(p) : p \in {p \in selected : merged[p] = target}}
    /\ kept' = {p \in selected : IsRetained(p)}
    /\ reports' = NoReports
    /\ reruns' = previous.reruns
    /\ recoveries' = previous.recoveries
    /\ UNCHANGED <<github, cand, verdict, seen, evidence, history>>

Evaluate(c) ==
    /\ at = "loop"
    /\ c \in todo
    /\ todo' = todo \ {c}
    /\ cand' = c
    /\ verdict' = IF c.original \in ripe THEN "pass" ELSE "waiting"
    /\ at' = "publish"
    /\ UNCHANGED <<github, run, kept, seen, reports, reruns, recoveries, evidence, history>>

\* pr_candidate takes only a test merge into the target as it is.
StillCurrent == cand = Live(cand.original[1]) /\ merged[cand.original[1]] = target

\* The candidate moved on while it was evaluated: it is left to a later run.
Drop ==
    /\ at = "publish"
    /\ ~StillCurrent
    /\ at' = "loop"
    /\ UNCHANGED <<github, run, memory, evidence, history>>

\* An error ends the candidate's turn, and with the request budget spent the whole loop.
Fail == at' = "loop" /\ todo' \in {todo, {}}

\* Reading the dependencies or the registries fails.
EvaluateFails ==
    /\ at = "publish"
    /\ "get" \in Faults
    /\ Fail
    /\ UNCHANGED <<github, run, kept, cand, verdict, seen, reports, reruns, recoveries,
                   evidence, history>>

\* Slip: a verdict is always attributed to the run that gives it.
AttributedToThisRun(c, v) == [verdict |-> v, run |-> run]

\* A waiter can use a status as soon as the run it names is completed, so a pass that the
\* previous run already gave is attributed to that run.
Attributed(c, v) ==
    [verdict |-> v,
     run |-> IF v = "pass" /\ previous.reports[c] = "pass" THEN previous.run ELSE run]

ReportStatus(c, receipt) ==
    /\ status' = [status EXCEPT ![c] = receipt]
    /\ reports' = [reports EXCEPT ![c] = receipt.verdict]

\* The POST of the status fails; GitHub may have it all the same.
StatusFails(c, receipt) ==
    /\ "post" \in Faults
    /\ status' \in {status, [status EXCEPT ![c] = receipt]}

\* Slip: the retry does not wait for a completed run that passed the candidate.
ReadyAtOnce == verdict = "pass"

ReadyReceipt == verdict = "pass" /\ previous.reports[cand] = "pass"

\* `if candidate.head in ledger: continue`, else the older-base recovery is tried.
AfterRetry == IF cand \in reruns THEN "loop" ELSE "recover"

Publish ==
    /\ at = "publish"
    /\ StillCurrent
    /\ ReportStatus(cand, Attributed(cand, verdict))
    /\ at' = IF ReadyReceipt /\ CanEffect THEN "retry" ELSE AfterRetry
    /\ UNCHANGED <<source, target, merged, ripe, ci, run, todo, kept, cand, verdict, seen, reruns,
                   recoveries, evidence, history>>

PublishFails ==
    /\ at = "publish"
    /\ StillCurrent
    /\ StatusFails(cand, Attributed(cand, verdict))
    /\ Fail
    /\ UNCHANGED <<source, target, merged, ripe, ci, run, kept, cand, verdict, seen, reports,
                   reruns, recoveries, evidence, history>>

Original == ci[cand.original]

\* Slip: the ledger of retries is not consulted.
RetryReadyAgain == Original.base = cand.base /\ Original.state = "failed" /\ StillCurrent

\* The guards of rerun_ready up to its last look at the pull request.
RetryReady ==
    /\ cand \notin reruns
    /\ Original.base = cand.base
    /\ Original.state = "failed"
    /\ StillCurrent

Retry ==
    /\ at = "retry"
    /\ \/ RetryReady /\ at' = "rerun" /\ UNCHANGED todo
       \/ ~RetryReady /\ at' = AfterRetry /\ UNCHANGED todo
       \/ "get" \in Faults /\ Fail
    /\ UNCHANGED <<github, run, kept, cand, verdict, seen, reports, reruns, recoveries,
                   evidence, history>>

\* A POST restarts the failed jobs; if it fails, it may or may not have done so.
RerunFailedJobs(delivered) ==
    ci' = IF delivered
          THEN [ci EXCEPT ![cand.original].state = "queued", ![cand.original].attempt = @ + 1]
          ELSE ci

Deliveries == IF "post" \in Faults THEN BOOLEAN ELSE {TRUE}

Rerun ==
    /\ at = "rerun"
    /\ reruns' = reruns \cup {cand}
    /\ \E delivered \in Deliveries : RerunFailedJobs(delivered)
    /\ IF "post" \in Faults THEN Fail ELSE at' = "loop" /\ UNCHANGED todo
    /\ requests' = requests \cup {[original |-> cand.original, kind |-> "rerun", run |-> run]}
    /\ UNCHANGED <<source, target, merged, ripe, status, run, kept, cand, verdict, seen, reports,
                   recoveries, unmoved, evidence>>

-----------------------------------------------------------------------------
(* recover_run: an original whose base is older than the target's.           *)

Phase == recoveries[cand.original]

\* Slip: the normal retry is not charged to the recovery.
BudgetOpenAfterRetry == CanPrepare /\ Phase \in {"none", "prepared", "retained"}

\* The budget of this original is open: not suspended, not taken by a normal retry, and
\* not past "prepared".  (The ledger of this run is the previous one, extended in place.)
BudgetOpen ==
    /\ CanPrepare
    /\ \A c \in reruns : c.original # cand.original
    /\ Phase \in {"none", "prepared", "retained"}

\* original_run: the first attempt has completed and failed.
FirstAttemptFailed == Original.attempt = 1 /\ Original.state = "failed"

Historical == Tested(cand.original)

Refused ==
    recoveries' = [recoveries EXCEPT ![cand.original] = IF @ = "none" THEN @ ELSE "suspended"]

\* Nothing to recover: no budget, or the hint shows the candidate's own base.
RecoverNothing ==
    /\ at = "recover"
    /\ ~BudgetOpen \/ (FirstAttemptFailed /\ Historical.base = cand.base)
    /\ at' = "loop"
    /\ UNCHANGED <<github, run, memory, evidence, history>>

\* A proof refuses: an existing reservation is suspended, unless it was not looked up yet.
RecoverRefused ==
    /\ at = "recover"
    /\ BudgetOpen
    /\ \/ ~FirstAttemptFailed /\ Refused
       \/ "get" \in Faults /\ (Refused \/ UNCHANGED recoveries)
    /\ at' = "loop"
    /\ UNCHANGED <<github, run, todo, kept, cand, verdict, seen, reports, reruns, evidence,
                   history>>

\* A historical candidate is attributed to the previous run whenever that run passed it.
HistoricalReceipt ==
    [verdict |-> IF cand.original \in ripe THEN "pass" ELSE "waiting",
     run |-> IF previous.reports[Historical] = "pass" THEN previous.run ELSE run]

GraphProved ==
    /\ at = "recover"
    /\ BudgetOpen
    /\ FirstAttemptFailed
    /\ Historical.base # cand.base

\* The graph is proved; the historical candidate is evaluated and reported.
HistoricalReport ==
    /\ GraphProved
    /\ ReportStatus(Historical, HistoricalReceipt)
    /\ at' = "reserve"
    /\ UNCHANGED <<source, target, merged, ripe, ci, run, todo, kept, cand, verdict, seen, reruns,
                   recoveries, evidence, history>>

HistoricalFails ==
    /\ GraphProved
    /\ StatusFails(Historical, HistoricalReceipt)
    /\ Refused
    /\ at' = "loop"
    /\ UNCHANGED <<source, target, merged, ripe, ci, run, todo, kept, cand, verdict, seen,
                   reports, reruns,
                   evidence, history>>

\* Slip: the reports of the completed run are not asked for.
ReadyOnThisRun == \A c \in {cand, Historical} : reports[c] # "none"

\* A retained graph needs passing reports on both graphs, now and in the previous run; a
\* handoff, which approves neither graph, is content with waiting ones.
Acceptable == IF cand.original \in Handoff THEN {"pass", "waiting"} ELSE {"pass"}

RecoveryReady ==
    \A c \in {cand, Historical} : reports[c] \in Acceptable /\ previous.reports[c] \in Acceptable

Reserve ==
    /\ at = "reserve"
    /\ IF ~StillCurrent \/ Phase = "retained"
       THEN Refused /\ at' = "loop"
       ELSE \/ /\ Phase = "none"
               /\ recoveries' = [recoveries EXCEPT ![cand.original] = "prepared"]
               /\ at' = "loop"
            \/ /\ Phase = "prepared"
               /\ at' = IF RecoveryReady /\ CanEffect THEN "consume" ELSE "loop"
               /\ UNCHANGED recoveries
    /\ UNCHANGED <<github, run, todo, kept, cand, verdict, seen, reports, reruns, evidence,
                   history>>

\* The proofs immediately before the request, once more.
Consume ==
    /\ at = "consume"
    /\ \/ FirstAttemptFailed /\ StillCurrent /\ at' = "request" /\ UNCHANGED recoveries
       \/ /\ ~(FirstAttemptFailed /\ StillCurrent) \/ "get" \in Faults
          /\ Refused
          /\ at' = "loop"
    /\ UNCHANGED <<github, run, todo, kept, cand, verdict, seen, reports, reruns, evidence,
                   history>>

\* Slip: a request that failed leaves the reservation as it was.
OutcomesRetried ==
    {[delivered |-> TRUE, phase |-> "attempted"]} \cup
    IF "post" \in Faults THEN [delivered : BOOLEAN, phase : {Phase}] ELSE {}

\* A POST that fails is looked into, and when that fails too the budget is suspended.
Outcomes ==
    {[delivered |-> TRUE, phase |-> "attempted"]} \cup
    IF "post" \in Faults THEN [delivered : BOOLEAN, phase : {"uncertain", "suspended"}] ELSE {}

\* "attempted" before the POST, "uncertain" when it fails: never repeated.  A label asks
\* Renovate for a new source; a retained graph and a retained original are rerun.
Request ==
    /\ at = "request"
    /\ \E outcome \in Outcomes :
         /\ IF cand.original \in Handoff THEN UNCHANGED ci ELSE RerunFailedJobs(outcome.delivered)
         /\ recoveries' = [recoveries EXCEPT ![cand.original] = outcome.phase]
    /\ requests' = requests \cup
         {[original |-> cand.original,
           kind |-> IF Phase = "retained" THEN "retained" ELSE "recovery", run |-> run]}
    /\ at' = "loop"
    /\ UNCHANGED <<source, target, merged, ripe, status, run, todo, kept, cand, verdict, seen,
                   reports, reruns, unmoved, evidence>>

-----------------------------------------------------------------------------
(* recover_retained: an original whose own merge is still shown by GitHub,   *)
(* though the target branch has moved on.                                    *)

\* An error ends its turn, and with the request budget spent the whole loop.
FailRetained == at' = "loop" /\ kept' \in {kept, {}}

RetainedOpen(p) ==
    /\ CanPrepare
    /\ \A c \in reruns : c.original # <<p, source[p]>>
    /\ recoveries[<<p, source[p]>>] \in {"none", "prepared", "retained"}

\* What retained_pr reads, at one moment of its double reads: nothing of it comes back.
RetainedObserve(p) ==
    /\ at = "loop" /\ todo = {}
    /\ p \in kept
    /\ kept' = kept \ {p}
    /\ IF merged[p] # target /\ RetainedOpen(p)
       THEN /\ cand' = [original |-> <<p, source[p]>>, base |-> merged[p]]
            /\ seen' = target
            /\ at' = "observed"
            /\ unmoved' = TRUE
       ELSE UNCHANGED <<cand, seen, at, unmoved>>
    /\ UNCHANGED <<github, run, todo, verdict, reports, reruns, recoveries, evidence, requests>>

\* retained_pr again: the same test merge, into the same target.
BindingLive ==
    LET p == cand.original[1]
    IN  /\ cand = [original |-> <<p, source[p]>>, base |-> merged[p]]
        /\ seen = target /\ merged[p] # target

\* retained_proof, which admits no change of authority, original_run, candidate_hint and
\* the bindings of a reservation.
RetainedProved ==
    /\ BindingLive
    /\ cand.original \notin Handoff
    /\ FirstAttemptFailed
    /\ Historical = cand /\ Phase # "prepared"

\* A run that goes on or passed needs nothing.
RetainedProve ==
    /\ at = "observed"
    /\ \/ Original.state # "failed" /\ at' = "loop" /\ UNCHANGED <<kept, recoveries>>
       \/ RetainedProved /\ at' = "proved" /\ UNCHANGED <<kept, recoveries>>
       \/ /\ Original.state = "failed"
          /\ ~RetainedProved \/ "get" \in Faults
          /\ Refused /\ FailRetained
    /\ UNCHANGED <<github, run, todo, cand, verdict, seen, reports, reruns, evidence, history>>

RetainedReady ==
    /\ Phase = "retained" /\ CanEffect
    /\ cand.original \in ripe /\ previous.reports[cand] = "pass"

\* The original is evaluated, found unmoved and reported; its reservation is made or used.
RetainedReport ==
    /\ at = "proved"
    /\ BindingLive
    /\ ReportStatus(cand, HistoricalReceipt)
    /\ recoveries' = [recoveries EXCEPT ![cand.original] = "retained"]
    /\ at' = IF RetainedReady THEN "proof" ELSE "loop"
    /\ UNCHANGED <<source, target, merged, ripe, ci, run, todo, kept, cand, verdict, seen, reruns,
                   evidence, history>>

RetainedFails ==
    /\ at = "proved"
    /\ \/ (~BindingLive \/ "get" \in Faults) /\ UNCHANGED status
       \/ BindingLive /\ StatusFails(cand, HistoricalReceipt)
    /\ Refused /\ FailRetained
    /\ UNCHANGED <<source, target, merged, ripe, ci, run, todo, cand, verdict, seen, reports,
                   reruns, evidence, history>>

\* Slip: before the request, only the CI run is looked at once more.
StillRetainedUnread == TRUE

StillRetained == BindingLive

\* consume proves the closed source and the binding once more, ...
RetainedProof ==
    /\ at = "proof"
    /\ \/ StillRetained /\ at' = "original" /\ UNCHANGED <<kept, recoveries>>
       \/ /\ ~StillRetained \/ "get" \in Faults
          /\ Refused /\ FailRetained
    /\ UNCHANGED <<github, run, todo, cand, verdict, seen, reports, reruns, evidence, history>>

\* ... then the original run, and that this run may still act.
RetainedOriginal ==
    /\ at = "original"
    /\ \/ FirstAttemptFailed /\ at' = "request" /\ UNCHANGED <<kept, recoveries>>
       \/ /\ ~FirstAttemptFailed \/ "get" \in Faults
          /\ Refused /\ FailRetained
    /\ UNCHANGED <<github, run, todo, cand, verdict, seen, reports, reruns, evidence, history>>

-----------------------------------------------------------------------------
\* The payload is written and the artifact uploaded.
Finish ==
    /\ at = "loop"
    /\ todo = {} /\ kept = {}
    /\ previous' = [run |-> run, reports |-> reports, reruns |-> reruns, recoveries |-> recoveries]
    /\ published' = [published EXCEPT ![run] = reports]
    /\ at' = "idle"
    /\ UNCHANGED <<github, run, memory, fenced, history>>

\* The run ends without its artifact: later runs find failed history and are fenced.
Crash ==
    /\ "crash" \in Faults
    /\ at # "idle"
    /\ at' = "idle"
    /\ fenced' = TRUE
    /\ UNCHANGED <<github, run, memory, previous, published, history>>

World ==
    \/ Advance
    \/ \E p \in PRs : Push(p) \/ Recompute(p)
    \/ \E o \in Originals : Ripen(o) \/ WaiterStart(o) \/ WaiterEnd(o)

Step ==
    \/ \E c \in Candidate : Evaluate(c)
    \/ Drop \/ EvaluateFails \/ Publish \/ PublishFails \/ Retry \/ Rerun
    \/ RecoverNothing \/ RecoverRefused \/ HistoricalReport \/ HistoricalFails
    \/ Reserve \/ Consume \/ Request
    \/ \E p \in PRs : RetainedObserve(p)
    \/ RetainedProve \/ RetainedReport \/ RetainedFails \/ RetainedProof \/ RetainedOriginal
    \/ Finish

Next ==
    \/ World \/ Step \/ Crash
    \/ \E selected \in Selections : Begin(selected)

Spec == Init /\ [][Next]_vars

\* The schedule comes round every hour, a started service and a started waiter go on.
FairSpec ==
    /\ Spec
    /\ WF_vars(Begin(PRs)) /\ WF_vars(Step)
    /\ \A o \in Originals : WF_vars(WaiterStart(o)) /\ WF_vars(WaiterEnd(o))

-----------------------------------------------------------------------------
(* Properties.                                                               *)

\* "One logical effect": no CI run is requested twice, neither by the normal retry, nor by
\* the recovery, nor by one after the other, over pushes, base moves and crashes.
OneRequestPerOriginal ==
    \A p, q \in requests : p.original = q.original => p = q

\* Between runs every request is either recorded in the newest artifact or the budget is
\* suspended: a crash after a POST is never mistaken for an unspent budget.
RecordedOrSuspended ==
    at = "idle" => \A q \in requests :
        \/ fenced
        \/ q.kind = "rerun" /\ \E c \in previous.reruns : c.original = q.original
        \/ /\ q.kind # "rerun"
          /\ previous.recoveries[q.original] \in {"attempted", "uncertain", "suspended"}

\* "A completed trusted artifact first persists separate reports and a prepared
\* reservation": a recovery request follows a completed run that prepared it and reported
\* on both graphs.
PreparedByCompletedRun ==
    [][\A q \in requests' \ requests : q.kind # "rerun" =>
         /\ previous.recoveries[q.original] =
              (IF q.kind = "recovery" THEN "prepared" ELSE "retained")
         /\ \A c \in {cand, Tested(q.original)} : previous.reports[c] # "none"]_vars

\* When the service restarts CI jobs, the receipt their waiter needs is visible: the status of the
\* merge it tests names a completed run that passed it.
ReceiptVisibleAtRerun ==
    [][\A o \in Originals : ci[o].state = "failed" /\ ci'[o].state = "queued" =>
         requests' = requests \/ Receipt(Tested(o)) = "pass"]_vars

\* A waiter passes only on the evidence of a completed run about exactly its merge and base.
PassedOnEvidence ==
    \A o \in Originals : ci[o].state = "passed" =>
        \E r \in RunIds : published[r][Tested(o)] = "pass"

\* "Recheck only O/P and retry its existing waiter": when a retained original is rerun, its
\* pull request and the target stood still from the first look at them to the last proof.
RetainedStoodStill ==
    [][\A q \in requests' \ requests : q.kind = "retained" => unmoved]_vars

\* What holds between the steps, and makes the properties above inductive.

\* Test merges and CI runs are of revisions the target has had.
Bounded ==
    /\ \A p \in PRs : merged[p] <= target
    /\ \A o \in Originals : ci[o].base <= target /\ (o[2] > source[o[1]] => ci[o] = NoCi)
    /\ at # "idle" => run > 0

Pushed(o) == o[2] <= source[o[1]]
InHand == at \notin {"idle", "loop"}

\* The service knows originals that exist, and retried each on the base CI tested.
Known ==
    /\ \A q \in requests : Pushed(q.original)
    /\ \A c \in todo : Pushed(c.original) /\ c.base <= target
    /\ \A c \in reruns \cup previous.reruns : Pushed(c.original) /\ c.base = ci[c.original].base
    /\ InHand => Pushed(cand.original) /\ cand.base <= target

\* A CI run has been restarted once at most, and then by a request.
Restarted ==
    \A o \in Originals :
        /\ ci[o].attempt <= 2
        /\ ci[o].attempt = 2 => \E q \in requests : q.original = o

\* Only the normal retry restarts a CI run on the target as it is.
Charged == \A q \in requests : q.kind # "rerun" => ci[q.original].base < target

SpentIn(retries, phases, q) ==
    IF q.kind = "rerun" THEN \E c \in retries : c.original = q.original
    ELSE phases[q.original] \in {"attempted", "uncertain", "suspended"}

Accounted ==
    \A q \in requests :
        fenced \/ IF at = "idle" THEN SpentIn(previous.reruns, previous.recoveries, q)
                  ELSE SpentIn(reruns, recoveries, q)

\* The budget of the original in hand is unspent on the way to its request.
Unspent ==
    /\ at \in Steps \ {"idle", "loop", "publish", "recover"} => ~fenced
    /\ at = "rerun" => cand \notin reruns /\ Original.base = cand.base /\ cand.base <= target
                       /\ \A q \in requests : q.original # cand.original
    /\ at \in Steps \ {"idle", "loop", "publish", "retry", "rerun", "recover"} =>
         /\ \A c \in reruns : c.original # cand.original
         /\ Phase \in {"none", "prepared", "retained"}
    /\ at = "consume" => Phase = "prepared"
    /\ at = "proved" => Phase # "prepared"
    /\ at \in {"proof", "original"} => Phase = "retained"
    /\ at = "request" => Phase # "none"

\* What leads to a request rests on a run that has completed; no run to come has requested.
Licensed ==
    /\ at \in {"retry", "rerun", "consume", "proof", "original", "request"} => previous.run # 0
    /\ \A q \in requests : q.run <= run

\* Two graphs, or one whose base the target has left.
Graphs ==
    /\ at \in {"reserve", "consume"} => Historical.base # cand.base
    /\ at \in {"proved", "proof", "original"} => Historical = cand
    /\ at \in {"consume", "proof", "original", "request"} => Historical.base < target

Backing ==
    /\ at = "retry" => Receipt(cand) = "pass"
    /\ at = "rerun" => Receipt(Historical) = "pass"
    /\ at = "reserve" => status[Historical] =
         [verdict |-> reports[Historical],
          run |-> IF previous.reports[Historical] = "pass" THEN previous.run ELSE run]
    /\ at \in {"consume", "proof", "original", "request"} =>
         /\ \A c \in {cand, Historical} : previous.reports[c] # "none"
         /\ cand.original \notin Handoff => Receipt(Historical) = "pass"

Recorded ==
    /\ \A r \in RunIds : r > run \/ (r = run /\ at # "idle") => published[r] = NoReports
    /\ previous.run <= run
    /\ previous.run # 0 => published[previous.run] = previous.reports

\* What moved since a retained original was observed shows in the next look at it.
Watched ==
    /\ at \in {"observed", "proved", "proof"} =>
         /\ seen <= target /\ cand.base <= merged[cand.original[1]]
         /\ \/ unmoved
            \/ source[cand.original[1]] > cand.original[2]
            \/ merged[cand.original[1]] > cand.base
            \/ target > seen
    /\ at = "original" \/ (at = "request" /\ Phase = "retained") => unmoved

\* Pull requests whose turn is still to come.
Ahead == {c.original[1] : c \in todo} \cup kept

\* Each has one turn in a run, so that its reservation is the one the last run left.
Fresh ==
    /\ at # "idle" =>
         /\ \A o \in Originals : recoveries[o] # previous.recoveries[o] => o[1] \notin Ahead
         /\ \A c, d \in todo : c.original[1] = d.original[1] => c = d
         /\ \A c \in todo : c.original[1] \notin kept
    /\ InHand => cand.original[1] \notin Ahead /\ Phase = previous.recoveries[cand.original]

IInv ==
    /\ TypeOK /\ Bounded /\ Known /\ Restarted /\ Charged /\ Accounted /\ Unspent /\ Licensed
    /\ Graphs /\ Backing /\ Recorded /\ Watched /\ Fresh /\ OneRequestPerOriginal /\ PassedOnEvidence

\* The runs, seen through their requests, implement the lock of EffectLock too: a run that
\* completed nothing before it spends nothing, a run ends or dies before the next acts, and
\* every CI run is one budget, whichever of the three ways takes it (CanEffect in
\* service_context, rerun_ready, consume).
Lock == INSTANCE EffectLock WITH
    Actors <- RunIds, Budgets <- Originals,
    holders <- IF at # "idle" /\ CanEffect THEN {run} ELSE {},
    spent <- {<<q.run, q.original>> : q \in requests}

ImplementsLock == Lock!Spec

\* Once source and target rest, a ripe pull request passes CI within three more runs: its CI
\* run waits for the receipt, or has failed once and is retried, or recovered when its base
\* has been left behind.
Resting(p) == source[p] = MaxPush /\ target = MaxBase

Recoverable(o) == ci[o].base = target \/ (ci[o].state = "failed" /\ ci[o].attempt = 1)

RipePasses ==
    \A p \in PRs :
        (/\ Resting(p) /\ run + 3 <= MaxRuns
         /\ <<p, source[p]>> \in ripe /\ Recoverable(<<p, source[p]>>))
        ~> ci[<<p, source[p]>>].state = "passed"

\* "A restarted waiter must see a completed artifact BEFORE it starts" (eligibility.py:2248).
RestartedWaiterSeesReceipt ==
    [][\A o \in Originals :
         ci[o].attempt > 1 /\ ci[o].state = "queued" /\ ci'[o].state = "waiting" =>
            Receipt(Tested(o)) # "none"]_vars
=============================================================================
