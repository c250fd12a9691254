-------------------------- MODULE ServiceFrontier --------------------------
(***************************************************************************)
(* The effect frontier of the dependency eligibility service               *)
(* (automation/src/boxferry_ci/recovery.py, service_context and            *)
(* require_effect; eligibility.py, previous_state and service).            *)
(*                                                                         *)
(* Every workflow run of the service decides, from GitHub's run history    *)
(* and from the state artifacts of completed runs only, whether it may     *)
(* spend an effect budget (a retry of a CI run, a label handoff).  There   *)
(* is no lock and no database: the runs' artifacts are the only memory,    *)
(* a run can die between a request and its upload, and the concurrency     *)
(* group that normally serialises runs is GitHub's and is not assumed.     *)
(*                                                                         *)
(* A run is identified by its id; ids grow in the order of creation, and   *)
(* Created gives the server's creation times, which have a resolution of   *)
(* one second, so that several runs may share one.  All runs modelled here *)
(* execute the same implementation C; service_context ignores the others.  *)
(***************************************************************************)
EXTENDS Integers, FiniteSets

CONSTANTS
    NRuns,      \* service runs that can be created
    Created,    \* Created[r]: creation time of run r, as the server records it
    Floor,      \* the committer date of C, before which no run may act
    Keys,       \* the effect budgets: a candidate head or an original CI run
    MaxHistory, \* runs one history listing may hold (100 in the code)
    MaxReruns,  \* bound of the model: service runs that somebody reruns
    Faults      \* which faults of the environment can happen

Runs == 1 .. NRuns

FaultKinds == {"crash", "cancel", "skip", "rerun", "lost", "read", "lag"}

ASSUME RunsAssumption == NRuns \in Nat \ {0}
ASSUME FloorAssumption == Floor \in Nat
ASSUME CreatedAssumption == Created \in [Runs -> Nat]
ASSUME CreatedMonotone == \A r, s \in Runs : r < s => Created[r] <= Created[s]
ASSUME BoundsAssumption == MaxHistory \in Nat \ {0} /\ MaxReruns \in Nat
ASSUME FaultsAssumption == Faults \subseteq FaultKinds

\* What the artifact of a completed run says: its spent budgets and its frontier.
Payload == [id : 0 .. NRuns, ledger : SUBSET Keys, authority : BOOLEAN,
            fence : BOOLEAN, pred : 0 .. NRuns]

\* No earlier state: previous_state returned None.
NoState == [id |-> 0, ledger |-> {}, authority |-> FALSE, fence |-> FALSE, pred |-> 0]

VARIABLES
    status,     \* status[r] of the workflow run, with the conclusion once completed
    attempt,    \* run_attempt
    payload,    \* payload[r]: content of the state artifact of r
    live,       \* live[r]: the artifact is unique, not expired and readable
    pc,         \* where the process of run r is
    prior,      \* the state previous_state restored
    cands,      \* checkpoint candidates found so far
    todo,       \* runs of the history window not fetched yet
    queued,     \* runs fetched as queued whose jobs are not read yet
    pend,       \* some other run has started and has no closure yet
    fence,      \* the effect budget is suspended
    gathered,   \* union of the budgets in the evidence read so far
    ledger,     \* the spent budgets this run works with and will persist
    authority,  \* this run may become a checkpoint
    checkpoint, \* the checkpoint this run builds on, 0 for none
    posts       \* history: the effects requested, as pairs (run, budget)

github == <<status, attempt, payload, live>>
reader == <<prior, cands, todo, queued, pend, gathered>>
context == <<fence, ledger, authority, checkpoint>>
vars == <<github, pc, reader, context, posts>>

Completed == {"success", "failure", "cancelled", "skipped"}
Statuses == {"absent", "queued", "in_progress"} \cup Completed
Steps == {"idle", "restore", "anchor", "list", "read", "act", "armed"}

TypeOK ==
    /\ status \in [Runs -> Statuses]
    /\ attempt \in [Runs -> {1, 2}]
    /\ payload \in [Runs -> Payload]
    /\ live \in [Runs -> BOOLEAN]
    /\ pc \in [Runs -> Steps]
    /\ prior \in [Runs -> Payload]
    /\ cands \in [Runs -> SUBSET Runs]
    /\ todo \in [Runs -> SUBSET Runs]
    /\ queued \in [Runs -> SUBSET Runs]
    /\ pend \in [Runs -> BOOLEAN]
    /\ fence \in [Runs -> BOOLEAN]
    /\ gathered \in [Runs -> SUBSET Keys]
    /\ ledger \in [Runs -> SUBSET Keys]
    /\ authority \in [Runs -> BOOLEAN]
    /\ checkpoint \in [Runs -> 0 .. NRuns]
    /\ posts \subseteq Runs \X Keys

Init ==
    /\ status = [r \in Runs |-> "absent"]
    /\ attempt = [r \in Runs |-> 1]
    /\ payload = [r \in Runs |-> NoState]
    /\ live = [r \in Runs |-> FALSE]
    /\ pc = [r \in Runs |-> "idle"]
    /\ prior = [r \in Runs |-> NoState]
    /\ cands = [r \in Runs |-> {}]
    /\ todo = [r \in Runs |-> {}]
    /\ queued = [r \in Runs |-> {}]
    /\ pend = [r \in Runs |-> FALSE]
    /\ fence = [r \in Runs |-> FALSE]
    /\ gathered = [r \in Runs |-> {}]
    /\ ledger = [r \in Runs |-> {}]
    /\ authority = [r \in Runs |-> FALSE]
    /\ checkpoint = [r \in Runs |-> 0]
    /\ posts = {}

-----------------------------------------------------------------------------
(* GitHub's side: runs are created in the order of their ids, wait, start,   *)
(* and may be skipped, cancelled, killed, or rerun by a person.              *)

Create(r) ==
    /\ status[r] = "absent"
    /\ \A s \in Runs : s < r => status[s] # "absent"
    /\ status' = [status EXCEPT ![r] = "queued"]
    /\ UNCHANGED <<attempt, payload, live, pc, reader, context, posts>>

\* A process starts and ends with an empty memory: what it knows it reads in between.
Fresh(r, step) ==
    /\ pc' = [pc EXCEPT ![r] = step]
    /\ prior' = [prior EXCEPT ![r] = NoState]
    /\ cands' = [cands EXCEPT ![r] = {}]
    /\ todo' = [todo EXCEPT ![r] = {}]
    /\ queued' = [queued EXCEPT ![r] = {}]
    /\ pend' = [pend EXCEPT ![r] = FALSE]
    /\ gathered' = [gathered EXCEPT ![r] = {}]
    /\ fence' = [fence EXCEPT ![r] = FALSE]
    /\ ledger' = [ledger EXCEPT ![r] = {}]
    /\ authority' = [authority EXCEPT ![r] = FALSE]
    /\ checkpoint' = [checkpoint EXCEPT ![r] = 0]

Start(r) ==
    /\ status[r] = "queued"
    /\ status' = [status EXCEPT ![r] = "in_progress"]
    /\ Fresh(r, "restore")
    /\ UNCHANGED <<attempt, payload, live, posts>>

\* The guard of the calling workflow was false: no job was dispatched.
Skip(r) ==
    /\ "skip" \in Faults
    /\ status[r] = "queued"
    /\ status' = [status EXCEPT ![r] = "skipped"]
    /\ UNCHANGED <<attempt, payload, live, pc, reader, context, posts>>

\* A waiting run is cancelled, for instance by a newer one in its concurrency group.
Cancel(r) ==
    /\ "cancel" \in Faults
    /\ status[r] = "queued"
    /\ status' = [status EXCEPT ![r] = "cancelled"]
    /\ UNCHANGED <<attempt, payload, live, pc, reader, context, posts>>

\* The process dies (error, timeout, lost runner) before its artifact is uploaded.
Crash(r) ==
    /\ "crash" \in Faults
    /\ status[r] = "in_progress"
    /\ status' = [status EXCEPT ![r] = "failure"]
    /\ Fresh(r, "idle")
    /\ UNCHANGED <<attempt, payload, live, posts>>

\* Somebody reruns a finished service run.  Attempts above 2 are treated as 2 is.
Rerun(r) ==
    /\ "rerun" \in Faults
    /\ status[r] \in Completed
    /\ attempt[r] = 1
    /\ Cardinality({s \in Runs : attempt[s] # 1}) < MaxReruns
    /\ status' = [status EXCEPT ![r] = "in_progress"]
    /\ attempt' = [attempt EXCEPT ![r] = 2]
    /\ Fresh(r, "restore")
    /\ UNCHANGED <<payload, live, posts>>

\* Artifacts are kept for 30 days.
Expire(r) ==
    /\ "lost" \in Faults
    /\ live[r]
    /\ live' = [live EXCEPT ![r] = FALSE]
    /\ UNCHANGED <<status, attempt, payload, pc, reader, context, posts>>

-----------------------------------------------------------------------------
(* previous_state and service_context, one read at a time.                   *)

\* trusted_run and run_artifact: a completed successful run with a live artifact.
Readable(s) == status[s] = "success" /\ live[s]

\* The greatest in creation time is the greatest in id (CreatedMonotone).
Newest(s, S) == s \in S /\ \A t \in S : t <= s

\* previous_state: the newest readable state; a run whose read fails is passed over.
Restore(r) ==
    /\ pc[r] = "restore"
    /\ \E failed \in IF "read" \in Faults THEN SUBSET Runs ELSE {{}} :
         LET found == {s \in Runs \ failed : Readable(s)}
         IN \/ found = {} /\ prior' = [prior EXCEPT ![r] = NoState]
            \/ \E s \in found : Newest(s, found) /\ prior' = [prior EXCEPT ![r] = payload[s]]
    /\ pc' = [pc EXCEPT ![r] = "anchor"]
    /\ UNCHANGED <<github, cands, todo, queued, pend, gathered, context, posts>>

AnchorId(r) == IF prior[r].authority THEN prior[r].id ELSE prior[r].pred

\* checkpoint_payload accepts run s.
Attested(s) == Readable(s) /\ Created[s] >= Floor

\* The restored state names the checkpoint that bounds the history to read.
Anchor(r) ==
    /\ pc[r] = "anchor"
    /\ LET a == AnchorId(r)
       IN IF a = 0
          THEN UNCHANGED <<cands, gathered, fence>>
          ELSE /\ Attested(a) /\ payload[a].authority
               /\ cands' = [cands EXCEPT ![r] = {a}]
               /\ gathered' = [gathered EXCEPT ![r] = payload[a].ledger]
               /\ fence' = [fence EXCEPT ![r] = payload[a].fence]
    /\ pc' = [pc EXCEPT ![r] = "list"]
    /\ UNCHANGED <<github, prior, todo, queued, pend, ledger, authority, checkpoint, posts>>

\* history_runs: every run created at or after the anchor, or else the floor.
Window(r) ==
    {s \in Runs : /\ status[s] # "absent"
                  /\ Created[s] >= Floor
                  /\ \A a \in cands[r] : Created[s] >= Created[a]}

List(r) ==
    /\ pc[r] = "list"
    /\ Cardinality(Window(r)) <= MaxHistory
    /\ todo' = [todo EXCEPT ![r] = Window(r) \ {r}]
    /\ pc' = [pc EXCEPT ![r] = "read"]
    /\ UNCHANGED <<github, prior, cands, queued, pend, gathered, context, posts>>

\* A run of the window seen as queued, which it may no longer be when GitHub's answer lags
\* behind: its jobs are read in a later request.
SeeQueued(r, s) ==
    /\ status[s] = "queued" \/ "lag" \in Faults
    /\ queued' = [queued EXCEPT ![r] = @ \cup {s}]
    /\ UNCHANGED <<cands, pend, fence, gathered>>

\* Slip: a failed run is passed over like a skipped one.
SeeOpaqueUnlessFailed(r, s) ==
    /\ attempt[s] # 1 \/ status[s] \in {"failure", "cancelled"}
    /\ fence' = [fence EXCEPT ![r] = @ \/ attempt[s] # 1]
    /\ UNCHANGED <<cands, queued, pend, gathered>>

\* A later attempt, or an end without evidence: an effect may have been spent unseen.
SeeOpaque(r, s) ==
    /\ \/ attempt[s] # 1
       \/ status[s] \in {"failure", "cancelled"}
       \/ status[s] = "success" /\ (~Attested(s) \/ "read" \in Faults)
    /\ fence' = [fence EXCEPT ![r] = TRUE]
    /\ UNCHANGED <<cands, queued, pend, gathered>>

\* Slip: a run in progress is left out of account.
SeeRunningIgnored(r, s) ==
    /\ attempt[s] = 1
    /\ status[s] = "in_progress"
    /\ UNCHANGED <<cands, queued, pend, fence, gathered>>

SeeRunning(r, s) ==
    /\ attempt[s] = 1
    /\ status[s] = "in_progress"
    /\ pend' = [pend EXCEPT ![r] = TRUE]
    /\ UNCHANGED <<cands, queued, fence, gathered>>

\* skipped_service proves that nothing was dispatched.
SeeSkipped(r, s) ==
    /\ attempt[s] = 1
    /\ status[s] = "skipped"
    /\ UNCHANGED <<cands, queued, pend, fence, gathered>>

\* Slip: only the newest checkpoint is kept, the budgets of the others are not merged.
SeeEvidenceUnmerged(r, s) ==
    /\ attempt[s] = 1
    /\ Attested(s)
    /\ fence' = [fence EXCEPT ![r] = @ \/ payload[s].fence]
    /\ cands' = [cands EXCEPT ![r] = IF payload[s].authority THEN @ \cup {s} ELSE @]
    /\ UNCHANGED <<queued, pend, gathered>>

SeeEvidence(r, s) ==
    /\ attempt[s] = 1
    /\ Attested(s)
    /\ gathered' = [gathered EXCEPT ![r] = @ \cup payload[s].ledger]
    /\ fence' = [fence EXCEPT ![r] = @ \/ payload[s].fence]
    /\ cands' = [cands EXCEPT ![r] = IF payload[s].authority THEN @ \cup {s} ELSE @]
    /\ UNCHANGED <<queued, pend>>

\* One run of the window is fetched and classified.
Observe(r, s) ==
    /\ pc[r] = "read"
    /\ s \in todo[r]
    /\ todo' = [todo EXCEPT ![r] = @ \ {s}]
    /\ \/ SeeQueued(r, s)
       \/ SeeOpaque(r, s)
       \/ SeeRunning(r, s)
       \/ SeeSkipped(r, s)
       \/ SeeEvidence(r, s)
    /\ UNCHANGED <<github, pc, prior, ledger, authority, checkpoint, posts>>

\* Slip: the run's status is trusted, its jobs are not read.
ReadJobsUnchecked(r, s) ==
    /\ pc[r] = "read"
    /\ s \in queued[r]
    /\ queued' = [queued EXCEPT ![r] = @ \ {s}]
    /\ UNCHANGED <<github, pc, prior, cands, todo, pend, gathered, context, posts>>

\* unstarted_service reads the jobs of a run that was fetched as queued.
ReadJobs(r, s) ==
    /\ pc[r] = "read"
    /\ s \in queued[r]
    /\ queued' = [queued EXCEPT ![r] = @ \ {s}]
    /\ pend' = [pend EXCEPT ![r] = @ \/ status[s] # "queued"]
    /\ UNCHANGED <<github, pc, prior, cands, todo, gathered, context, posts>>

\* Slip: any order of checkpoints is accepted.
OrderedAnyhow(r) == TRUE

\* No known checkpoint is newer than this run.
Ordered(r) == \A c \in cands[r] : Created[c] <= Created[r] /\ c < r

\* Slip: a first checkpoint has to build on a checkpoint.
MayLeadAfterAnother(r) == Created[r] >= Floor /\ Ordered(r) /\ ~pend[r] /\ cands[r] # {}

MayLead(r) == Created[r] >= Floor /\ Ordered(r) /\ ~pend[r]

\* merge_budgets: the restored state counts where there is no checkpoint to select.
Merged(r) == gathered[r] \cup (IF cands[r] = {} THEN prior[r].ledger ELSE {})

\* Slip: a later attempt decides as the first one does.
DecideAsFirst(r) ==
    /\ pc[r] = "read"
    /\ todo[r] = {} /\ queued[r] = {}
    /\ authority' = [authority EXCEPT ![r] = MayLead(r)]
    /\ fence' = [fence EXCEPT ![r] = @ \/ prior[r].fence]
    /\ \/ cands[r] = {} /\ UNCHANGED checkpoint
       \/ \E c \in cands[r] : /\ Newest(c, cands[r])
                              /\ checkpoint' = [checkpoint EXCEPT ![r] = c]
    /\ ledger' = [ledger EXCEPT ![r] = Merged(r)]
    /\ pc' = [pc EXCEPT ![r] = "act"]
    /\ UNCHANGED <<github, reader, posts>>

\* The history is read completely: choose the checkpoint, merge the budgets.
Decide(r) ==
    /\ pc[r] = "read"
    /\ todo[r] = {} /\ queued[r] = {}
    /\ authority' = [authority EXCEPT ![r] = MayLead(r)]
    /\ fence' = [fence EXCEPT ![r] = @ \/ prior[r].fence \/ attempt[r] # 1]
    /\ \/ cands[r] = {} /\ UNCHANGED checkpoint
       \/ \E c \in cands[r] : /\ Newest(c, cands[r])
                              /\ checkpoint' = [checkpoint EXCEPT ![r] = c]
    /\ ledger' = [ledger EXCEPT ![r] = Merged(r)]
    /\ pc' = [pc EXCEPT ![r] = "act"]
    /\ UNCHANGED <<github, reader, posts>>

\* The restored state names a checkpoint that can no longer be attested.
AnchorLost(r) ==
    /\ pc[r] = "anchor"
    /\ AnchorId(r) # 0
    /\ ~(Attested(AnchorId(r)) /\ payload[AnchorId(r)].authority)

HistoryFull(r) == pc[r] = "list" /\ Cardinality(Window(r)) > MaxHistory

ReadError(r) == "read" \in Faults /\ pc[r] \in {"anchor", "list", "read"}

\* A refusal or a failed request inside service_context: the budget is suspended, and
\* only the restored state is carried on.  Without the floor there is no authority.
Abort(r) ==
    /\ AnchorLost(r) \/ HistoryFull(r) \/ ReadError(r)
    /\ fence' = [fence EXCEPT ![r] = TRUE]
    /\ \E known \in IF pc[r] = "anchor" THEN BOOLEAN ELSE {TRUE} :
         authority' = [authority EXCEPT ![r] = known /\ MayLead(r)]
    /\ ledger' = [ledger EXCEPT ![r] = prior[r].ledger]
    /\ todo' = [todo EXCEPT ![r] = {}]
    /\ queued' = [queued EXCEPT ![r] = {}]
    /\ pc' = [pc EXCEPT ![r] = "act"]
    /\ UNCHANGED <<github, prior, cands, pend, gathered, checkpoint, posts>>

-----------------------------------------------------------------------------
(* The rest of the service: effects, then the artifact.                      *)

CanPrepare(r) ==
    /\ status[r] = "in_progress" /\ pc[r] \in {"act", "armed"}
    /\ authority[r] /\ ~fence[r] /\ attempt[r] = 1

CanEffect(r) == CanPrepare(r) /\ checkpoint[r] # 0

\* The fresh reads of require_effect about the checkpoint.
CheckpointStands(r) ==
    /\ status[checkpoint[r]] = "success"
    /\ attempt[checkpoint[r]] = 1
    /\ Created[checkpoint[r]] <= Created[r]
    /\ checkpoint[r] < r

RequireEffect(r) ==
    /\ pc[r] = "act"
    /\ CanEffect(r)
    /\ IF CheckpointStands(r)
       THEN pc' = [pc EXCEPT ![r] = "armed"] /\ UNCHANGED fence
       ELSE fence' = [fence EXCEPT ![r] = TRUE] /\ UNCHANGED pc
    /\ UNCHANGED <<github, reader, ledger, authority, checkpoint, posts>>

\* rerun_ready and consume: the budget is spent in memory before the request is
\* sent, and stays spent when the request fails: it may have taken effect.
Effect(r, k) ==
    /\ pc[r] = "armed"
    /\ k \notin ledger[r]
    /\ ledger' = [ledger EXCEPT ![r] = @ \cup {k}]
    /\ posts' = posts \cup {<<r, k>>}
    /\ pc' = [pc EXCEPT ![r] = "act"]
    /\ UNCHANGED <<github, reader, fence, authority, checkpoint>>

\* A later guard of rerun_ready or consume returned or refused before the request.
Decline(r) ==
    /\ pc[r] = "armed"
    /\ pc' = [pc EXCEPT ![r] = "act"]
    /\ UNCHANGED <<github, reader, context, posts>>

\* The payload is written and uploaded.  A second attempt may leave two artifacts of
\* one name, which no reader accepts.
Complete(r) ==
    /\ pc[r] = "act"
    /\ status' = [status EXCEPT ![r] = "success"]
    /\ payload' = [payload EXCEPT ![r] =
                     [id |-> r, ledger |-> ledger[r], authority |-> authority[r],
                      fence |-> fence[r], pred |-> checkpoint[r]]]
    /\ \E unique \in IF attempt[r] = 1 THEN {TRUE} ELSE BOOLEAN :
         live' = [live EXCEPT ![r] = unique]
    /\ Fresh(r, "idle")
    /\ UNCHANGED <<attempt, posts>>

-----------------------------------------------------------------------------
Fault(r) == Skip(r) \/ Cancel(r) \/ Crash(r) \/ Rerun(r) \/ Expire(r)

Read(r) ==
    \/ Restore(r) \/ Anchor(r) \/ List(r) \/ Decide(r) \/ Abort(r)
    \/ \E s \in Runs : Observe(r, s) \/ ReadJobs(r, s)

Act(r) ==
    \/ RequireEffect(r) \/ Decline(r) \/ Complete(r)
    \/ \E k \in Keys : Effect(r, k)

Next == \E r \in Runs : Create(r) \/ Start(r) \/ Fault(r) \/ Read(r) \/ Act(r)

Spec == Init /\ [][Next]_vars

\* Runs serialised in the order of creation, as the concurrency group of the shared
\* workflow normally has it.
InTurn(r) == Start(r) /\ \A s \in Runs : s < r => status[s] \in Completed

SerialNext ==
    \E r \in Runs : Create(r) \/ InTurn(r) \/ Fault(r) \/ Read(r) \/ Act(r)

\* The scheduler starts the run whose turn it is, a started process goes on, and its loop
\* over the candidates is finite, so that it ends up uploading.
SerialSpec ==
    /\ Init /\ [][SerialNext]_vars
    /\ \A r \in Runs : /\ WF_vars(Create(r)) /\ WF_vars(InTurn(r)) /\ WF_vars(Read(r))
                       /\ SF_vars(Complete(r))

-----------------------------------------------------------------------------
(* What the frontier promises.                                               *)

\* No effect budget is requested twice, whichever runs request it and whatever became
\* of them in between (rerun_ready, consume: "one logical effect").
AtMostOneEffect == \A p, q \in posts : p[2] = q[2] => p = q

\* No two processes are entitled to effects at one time, although nothing serialises them.
EffectExclusion == \A r, s \in Runs : CanEffect(r) /\ CanEffect(s) => r = s

\* A completed first attempt that is a checkpoint without a fence.
CleanCheckpoint(a) ==
    status[a] = "success" /\ attempt[a] = 1 /\ payload[a].authority /\ ~payload[a].fence

\* A clean checkpoint accounts for every request of the runs up to it: the history
\* before it need never be read again (service_context takes it as lower end).
CheckpointCovers ==
    \A a \in Runs : CleanCheckpoint(a) =>
        \A p \in posts : p[1] <= a => p[2] \in payload[a].ledger

\* "Older queued actors cannot act or mint clean authority" (ADR 0095): once a newer
\* clean checkpoint exists, an older run requests nothing and becomes no clean checkpoint.
OlderActorsRefused ==
    [][\A a, r \in Runs : r < a /\ CleanCheckpoint(a) =>
          /\ \A k \in Keys : <<r, k>> \notin posts' \ posts
          /\ ~CleanCheckpoint(r) => ~CleanCheckpoint(r)']_vars

\* A run that requested an effect and ended without evidence suspends every later
\* request ("failed service history ... suspend the budget", ADR 0095).
LostEvidenceSuspends ==
    [][posts' # posts =>
         \A p \in posts : attempt[p[1]] = 1 => status[p[1]] # "failure"]_vars

\* A run that was rerun, ended without evidence or lost its artifact.
Troubled ==
    \E t \in Runs :
        \/ attempt[t] # 1
        \/ status[t] \in {"failure", "cancelled"}
        \/ status[t] = "success" /\ ~live[t]

\* The history has outgrown one listing.
Overgrown == Cardinality({t \in Runs : status[t] # "absent"}) > MaxHistory

\* Under that schedule a run that does not die is entitled to effects once an earlier one has
\* completed: the frontier suspends itself only after trouble or when one listing cannot
\* hold the history (service_context, can_effect).
Entitled ==
    \A r, s \in Runs :
        (s < r /\ status[s] = "success" /\ status[r] = "in_progress")
        ~> (CanEffect(r) \/ status[r] = "failure"
              \/ ((fence[r] \/ pend[r]) /\ (Troubled \/ Overgrown)))

\* The runs entitled to effects and the requests behave like a lock whose holder spends
\* budgets: service_context and require_effect implement mutual exclusion, at-most-once
\* and order among the runs, without a lock.
Lock == INSTANCE EffectLock WITH
    Actors <- Runs, Budgets <- Keys,
    holders <- {r \in Runs : CanEffect(r)}, spent <- posts

ImplementsLock == Lock!Spec

-----------------------------------------------------------------------------
(* The inductive invariant behind these promises.                            *)

\* Whoever reads a after now, being older than a, loses its claim.
Barrier(a) ==
    \/ attempt[a] = 2
    \/ status[a] = "success" /\ payload[a].authority /\ ~payload[a].fence

\* A run that can no longer end without evidence unnoticed.
Closed(s) == attempt[s] = 2 \/ status[s] = "success"

\* Run r has listed its history and nothing it has read or is bound to read denies its claim.
Eligible(r) ==
    /\ pc[r] \in {"read", "act", "armed"}
    /\ attempt[r] = 1 /\ Created[r] >= Floor
    /\ ~pend[r] /\ ~fence[r]
    /\ \A c \in cands[r] : c <= r
    /\ \A a \in todo[r] : a > r => ~Barrier(a)
    /\ \A a \in queued[r] : status[a] = "queued"

\* A process exists exactly while its run is in progress, and only started runs are rerun.
ProcessInv ==
    \A r \in Runs :
        /\ pc[r] # "idle" <=> status[r] = "in_progress"
        /\ attempt[r] = 2 => status[r] \in {"in_progress", "success", "failure"}
        /\ \A s \in todo[r] \cup queued[r] : status[s] # "absent"

\* A process past its reading has read everything, and its claim is what it read.
ReaderInv ==
    \A r \in Runs :
        /\ pc[r] \in {"restore", "anchor"} => cands[r] = {}
        /\ pc[r] # "read" => todo[r] = {} /\ queued[r] = {}
        /\ pc[r] \in {"act", "armed"} =>
             /\ authority[r] => ~pend[r] /\ Ordered(r) /\ Created[r] >= Floor
             /\ attempt[r] = 2 => fence[r]
             /\ ~fence[r] => gathered[r] \subseteq ledger[r]
        /\ pc[r] = "armed" =>
             authority[r] /\ ~fence[r] /\ attempt[r] = 1 /\ checkpoint[r] # 0

\* Requests are sent by started runs only and survive in the ledger or the artifact.
PostInv ==
    \A p \in posts :
        /\ status[p[1]] \in {"in_progress", "success", "failure"}
        /\ Created[p[1]] >= Floor
        /\ attempt[p[1]] = 1 /\ status[p[1]] = "in_progress" =>
             pc[p[1]] \in {"act", "armed"} /\ authority[p[1]] /\ p[2] \in ledger[p[1]]
        /\ attempt[p[1]] = 1 /\ status[p[1]] = "success" =>
             payload[p[1]].authority /\ p[2] \in payload[p[1]].ledger

ArtifactInv ==
    \A a \in Runs : status[a] = "success" =>
        /\ payload[a].authority => Created[a] >= Floor
        /\ attempt[a] = 2 => payload[a].fence

\* No run older than a clean checkpoint keeps a claim or may still lose its evidence.
CheckpointInv ==
    \A a \in Runs : CleanCheckpoint(a) =>
        /\ \A s \in Runs : s < a => ~Eligible(s)
        /\ \A p \in posts : p[1] <= a => Closed(p[1])

\* The anchor of a run about to list its history still has those guarantees.
AnchorInv ==
    \A r \in Runs : pc[r] = "list" /\ ~fence[r] => \A a \in cands[r] :
        /\ Barrier(a) /\ status[a] # "absent" /\ Created[a] >= Floor
        /\ \A s \in Runs : s < a => ~Eligible(s)
        /\ \A p \in posts : p[1] <= a => p[2] \in gathered[r] /\ Closed(p[1])

\* Of two runs with a claim, one still has to read the other.
MutualInv ==
    \A r, s \in Runs : Eligible(r) /\ Eligible(s) /\ r # s => s \in todo[r] \/ r \in todo[s]

\* A run with a claim knows every request of the others, from a run with evidence, or still
\* has to read that run.
CoverInv ==
    \A r \in Runs : Eligible(r) =>
        \A p \in posts : p[1] # r =>
            (p[2] \in gathered[r] /\ Closed(p[1])) \/ p[1] \in todo[r]

\* A run with a claim still has to read every newer run that has requested something.
OrderInv ==
    \A r \in Runs : Eligible(r) => \A p \in posts : p[1] <= r \/ p[1] \in todo[r]

IInv ==
    /\ TypeOK /\ ProcessInv /\ ReaderInv /\ PostInv /\ ArtifactInv
    /\ CheckpointInv /\ CheckpointCovers /\ AnchorInv /\ MutualInv /\ CoverInv /\ OrderInv
    /\ AtMostOneEffect
=============================================================================
