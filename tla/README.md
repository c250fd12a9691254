# Boxferry: a verification development

This directory holds TLA+ models of the parts of Boxferry where order, failure
and concurrency matter, the TLC configurations that check them on small
instances, and TLAPS proofs of what matters most. File names without a
directory below refer to `automation/src/boxferry_ci/`.

## 1. Inventory

Boxferry is a Rust tool that converts container declarations (Compose, Podman,
Quadlet) into one another. Beside it lives a large Python automation which
guards the repositories it is developed in, and a conformance harness that runs
real containers. The Rust tool is sequential: it reads, converts in memory, and
writes. The automation is where the system is hard: many short-lived processes
act on one GitHub repository, remember nothing but the artifacts they managed to
upload, and must not act twice. In the harness two processes that may each be
killed share the custody of a container.

| Component | State it keeps | Operations | What makes it correct |
|---|---|---|---|
| Effect frontier (`recovery.py` `service_context`, `require_effect`; `eligibility.py` `previous_state`) | run history at GitHub; per run one artifact with budgets, authority, fence, predecessor | restore, read history, decide, re-check before each effect, upload | one effect per budget, no two entitled runs, no authority for an older run, lost evidence suspends |
| Eligibility service (`eligibility.py` `service`; `recovery.py` `recover_run`, `consume`) | reports, ledger of retries, reservations, commit statuses | evaluate, publish, retry the CI run, prepare and consume an older-base recovery | retry and recovery share one budget per CI run; a recovery is prepared by a completed run; a restarted waiter can read its receipt |
| Eligibility waiter (`wait_for_candidate`) | none | poll for the newest status and its artifact | passes only on a completed run's verdict about its own merge and base |
| Hourly scan (`service` with event `schedule`) | `scan_cursor` | select, resolve, evaluate, retained originals, store cursor | no candidate is passed over, none starves |
| Candidate resolution (`pr_candidate`, `queue_candidate`) | none | identity, target, commit, ancestry, identity again | the tuple returned existed at one moment |
| Retained-original recovery (`recover_retained`) | reservations of a third kind | prove the stale graph, report, consume | shares the budget of the others; the original stands still between the first and the last look at it |
| Dependency age policy (`dependencies.py`, `operational.py`) | `first_seen` ledger | compare locks, ask registries, hold 72 hours, merge ledgers | nothing younger than the hold reaches the target; no hold starts over |
| Owner custody (`scripts/lib/docker-application-contract.py`, `docker-paperless-volume-custody.py`, `scripts/verify-docker-paperless-custody.py`) | private directory with the custody record, a socket, engine resources | seal, spawn a guard, run commands, lease checks, close, recover, clean up | what exists is covered by the record; tear-down in order, never of something foreign or after tampering; the guard ends |
| Validation gate, policy, planner | job results | plan jobs, judge results | no job the plan requires may be missing |
| Queue tree, admission | published tree verdicts | compare trees, admit | a verdict is reused for the same tree only |
| Runner | process group | start, bound time and output, stop | every child ends |
| Release, distribution, bootstrap | registry and release state | publish in steps, resume | no step twice, no partial release taken for a whole one |
| Test reporting | worker process | collect, bound, publish | a failing report never fails the tests |
| Maintenance scripts (zero-age delta, dev containers, tools, baselines) | files | rewrite files from reviewed inputs | content rules, sequential |
| `boxferry` CLI, engine, model, importers, exporters (`crates/`) | in memory | import, convert, plan output, write | all output is planned before a file is made; nothing is overwritten; every loss is reported |
| Conformance harness, capture proxy | test only | | |

How they interact: the CI workflow of a candidate starts a waiter. GitHub
starts the eligibility service when such a CI run completes, on pull request
events, and every hour. The service reads the artifact of its newest completed
predecessor and the history of its own runs, evaluates the candidates with the
age policy, posts a commit status that names a service run, and uploads its own
artifact at the end. The waiter reads the status, follows it to the run and
accepts the run's artifact. A candidate that passes after its waiter gave up
gets its CI jobs rerun, once. A candidate whose CI ran on an older base gets,
once, a recovery: a rerun of the CI that tests the older merge, or a label that
asks Renovate for a new source revision. A pull request that GitHub still merges
into an older base than the target's is a retained original: the service may
rerun its CI on that older merge after a proof.

In the harness an owner process seals a custody record and starts a guard before
it creates volume, security profile and container. Over a socket it asks the
guard for lease checks and for the closure. Either may be killed; the guard
cleans up when the owner dies, a cutoff passes or the run is cancelled, the
owner when it can prove that the guard is dead.

What is hard here: processes die between a request and the upload that records
it; requests that fail may have taken effect; runs overlap when somebody reruns
one; GitHub's answers lag; artifacts expire; pull requests and the target move
between two reads; one budget of requests is shared by all candidates.
`PROJECT.json` lists these hazards line by line with the properties aimed at
them.

## 2. Modules

**`ServiceFrontier`** models any number of overlapping service runs. A run
is created, queued, started, possibly skipped, cancelled, killed or rerun; once
started it restores the newest readable state (`Restore`), fetches the
checkpoint that state names (`Anchor`), lists the history (`List`), fetches and
classifies one run after the other (`Observe`, `ReadJobs`), and decides
(`Decide`, or `Abort` after any refusal). It then acts: `RequireEffect` looks
at the checkpoint once more, `Effect` spends a budget and sends the request,
`Complete` uploads. Everything a run knows is in variables indexed by the run,
everything at GitHub in `status`, `attempt`, `payload`, `live`; `posts` is a
history variable. `Keys` are budgets: a candidate head for the normal
retry, an original run for the recovery.

**`EffectLock`** is the abstract specification: actors hold a lock, a holder
may spend a budget nobody spent, and an actor that was overtaken never spends.
`ServiceFrontier!Lock` is the refinement mapping: holders are the runs for
which `can_effect` is true. `EligibilityService!Lock` maps its single run at a time
to the same lock: the acting run holds it, and every CI run is one budget,
whichever of the three ways takes it.

**`ServiceFrontierProofs`** holds the theorems about `ServiceFrontier`.

**`EligibilityService`** models one service run after another, in detail,
with the world around: pushes, base moves, test merges that GitHub has not
recomputed, dependencies that become old enough, and the waiter in each CI run.
Its actions are the steps of the loop in `service`: `Evaluate`, `Drop` or
`Publish` (with the receipt rule), `Retry` and `Rerun`, then `recover_run` from
`RecoverNothing` to `Request`, and after the candidates the retained originals:
they are observed, proved, looked at again, and requested through the
`retained-original` branch of `consume`. What the frontier decides is the variable
`fenced` here: a crash suspends all budgets, which `ServiceFrontier` shows to be
what happens. `requests` and `unmoved` are history variables.

**`EligibilityServiceProofs`** holds the theorems about it.

**`ScheduledScan`** models the hourly scan with numbers: selection by cursor,
the counter of requests, the soft limit of registry requests (450) and the hard
limit of GitHub requests (500), the two loops and the cursor they leave.
`steady`, `selected`, `taken` and `full` are history variables.
**`ScheduledScanProofs`** holds the theorems about it.

**`Rotation`** is the abstract specification of the scan: a token goes round and
passes over nobody who has been there since the round began and was not served in
it. `ScheduledScan!Turns` is the refinement mapping: the cursor is the token, the
open pull requests are present, `steady` are those that stayed open since the scan
listed them, `taken` those it has dealt with; retained originals are exempt, as the
cursor does not remember them. Window, budgets and the ways in which a scan breaks
off belong to the implementation.

**`CandidateResolution`** models `pr_candidate`, `queue_candidate` and
`_current_queue_candidate` request by request. The world side (pushes forward
and back, closing, recomputed merges, target movements, a merge queue that is
filled, rebuilt, merged and emptied, rules that change) may act between any two
requests. `at` is the request that comes next; `base`, `first` and `nodes` are
what the code keeps of its reads; `moments` is a history variable: what has been
true of the candidate at one moment since its commits were proved. Requests that
only look at commits (`Ancestors`, `Select`, `Tree`) read nothing that can change.
**`CandidateResolutionProofs`** holds the theorems about it.

**`ClosedRead`** is the abstract specification of a resolution: what is answered was
true at one moment between the question and the answer, or it is an excuse that says
nothing. `CandidateResolution!Reading` is the refinement mapping: a question is open
while `at` is not "idle", what was true since the proof is `moments`, the answer is
`outcome`, and "pending", "closed" and "refused" are the excuses.

**`DependencyAge`** models `check_dependencies` and `check_operational` over many
runs: each takes the one instant it judges by (`Start`) and then the artifacts it can
read (`Restore`): `merge_budgets` takes the earliest observation of all, or the newest
artifact stands alone when the history was refused, which an artifact uploaded with a
later instant in between also causes (`Readable`). It judges the candidates one by one
(`Judge`) and uploads a ledger that `validate_state` accepts or ends without one
(`Upload`). A merged ledger may exceed the bound, as `merge_budgets` has none:
`Refuse` then fails the candidate and drops every observation (`Emptied`).
`Images` are the pins of images and the runner labels; a label is recorded without a
request, and one that is not covered is an artifact whose verification always fails.
`Unheld` are those of them that `check_operational` continues past: pins for which it
expects a native date (`docker.io`) and OCI pins without a reviewed fallback.
Passes let candidates merge; artifacts expire; runs crash and overlap. `first` is a
history variable. **`DependencyAgeProofs`** holds the theorems about it.

**`OwnerCustody`** models owner, guard, the native command that runs in the
owner's session, the socket between them, the private directory and what exists
in the engine. `owner.pc` and `guard.pc` name the call that comes next. The
clean-up, `cleanup_owner_custody`, is one set of actions with the cleaner as its
parameter (`Identify` to `Erase`, `Refuse`), as guard and owner run the same code.
After readiness the owner runs `apparmor verify` (`VerifyLabel`); only then does the
profile's receipt say "verified", and a clean-up that gets another receipt is refused at
`Unload`: the profile may be gone by then, volume and record are left.
The faults (`kill owner`, `kill guard`, `cancel`, `tamper`, `refuse`, `lost ack`,
`replace`) each happen once at most, at any step, and `MaxFaults` bounds how many of
them happen in one behaviour; a process that escaped its capture is found or not. **`OwnerCustodyProofs`** holds the theorems about
custody and order, **`OwnerCustodyOutcomes`** those about what a run leaves behind and why.

**`CustodyObligation`** is the abstract specification of custody: an obligation is
written down before the first resource is made; resources are made from the bottom
up while making is open and unmade from the top down once it is barred, for good;
the obligation is discharged when none is left. What somebody else replaced is not
touched, and nothing is unmade after the record was changed. `OwnerCustody!Duty` is
the refinement mapping: `made` is what the engine has of ours, `barred` is `Settled`,
that no command runs and the owner starts none.

The modules `MCServiceFrontier`, `MCEligibilityService`, `MCScheduledScan` and
`MCDependencyAge` define the functions that a configuration assigns to constants. A few operators
under a comment starting with "Slip:" are variants of the definition that
follows them, each a mistake one could make in that code; no specification uses
them. They serve to see that each property can fail.

## 3. Runs and what they show

| Run | Instance | Shows |
|---|---|---|
| `frontier` | 3 runs, two created in the same second, 2 budgets, crash, cancel, skip, failing reads, lagging answers, lost artifacts | a budget is spent once, mutual exclusion of entitled runs, checkpoints cover all requests, older actors are refused, lost evidence suspends, the inductive invariant, and the refinement to `EffectLock` |
| `frontier_live` | 4 runs in turn, a history listing that holds 3, crashes, one rerun | a run that does not die becomes entitled once an earlier one has completed, or a rerun, a failed run or the overflow suspends it; the inductive invariant, history overflow included |
| `service_budget` | 1 pull request, handed off as opened and rerun after its push, 3 runs, 1 push, 1 base move, test merges that stay stale, crashes, failing reads and requests | one request per CI run in three ways, waiters pass on evidence, requests are recorded or budgets suspended, preparation by a completed run, the receipt is visible when the rerun is requested, a retained original stood still, and the inductive invariant |
| `service_live` | 1 pull request, 5 runs, 1 push, 1 base move, no faults | a pull request that comes to rest ripe with three runs left passes, on the current base by retry, on an older one by recovery |
| `service_pair` | 2 pull requests, 4 runs, no faults | **violated**: see findings |
| `scan_rotation` | 4 pull requests, one retained, window 3, limits 10 and 11, uneven costs, crashes, failing reads, uncomputed merges, closing | the cursor passes over nothing that was not dealt with and comes nearer to each that waits, the refinement to `Rotation`, the inductive invariant; when disturbances end, each is evaluated with complete metadata again and again |
| `scan_starved` | 3 pull requests, one retained, no faults | **violated**: see findings |
| `resolve_all` | 2 pull requests, 3 changes, 2 target movements, 2 source revisions, 2 merge groups, failing requests, computed merges at any time | what is bound existed at one moment, "only the target moved" is said only where it was so, the refinement to `ClosedRead`, the inductive invariant; a world at rest is resolved |
| `custody_faults` | 1 lease check, at most three of the seven faults, each once | custody and order of the tear-down, nothing tampered or foreign removed, sequences agree, residuals are explained, the guard ends, an owner left alone after the profile was verified recovers everything, the inductive invariants (`OutcomeInv` contains `IInv`), and the refinement to `CustodyObligation` |
| `custody_recovery` | 1 lease check, only the guard is killed | **violated**: see findings |
| `age_hold` | 3 runs, hold 1, a ledger with room for one, 3 moments, failing fetches, crashes, refused histories, expired artifacts, one pin that is passed over | nothing that the policy judges merges before its hold; no hold starts over, except where a merged ledger beyond its bound is dropped together with the failure of a candidate; what is uploaded can be read; the inductive invariant |
| `age_pins` | 2 runs, no faults, a pin that is passed over | **violated**: see findings |

Why these bounds suffice. In the frontier, three runs are the smallest number
with a checkpoint, an actor that builds on it and an overlapping one; the proofs
cover every number. `frontier_live` has four runs and a listing that holds three, so
that the history overflows while a run reads it; `frontier` does not reach the
overflow, and reruns that overlap another run are left to the proofs, as adding them
exceeds what a run can explore. In the service, three runs are a first one that gives
a verdict, a second that acts and a third that sees its outcome, any of which
may crash instead; the proofs cover every number. `service_live` has two more, so
that pushes and base moves may come before, between and after those three, and
`service_pair` one more for the other pull request; one push and one base move make
every stale pair of source and base. In the scan, a window smaller than
the number of pull requests and a budget smaller than the window's cost make
both kinds of rotation happen; the retained original's cost is such that
its loop is exhausted in some scans and not in others. In candidate resolution,
three changes are enough to enqueue a pull request, build its group, and change
something during the reads, and a pull request alone can be pushed away and back
while its target moves; the proofs cover every number. In custody, one lease check has a request before and
after it, and a lost acknowledgement at each; every pair and triple of faults is
included, as each may happen once and three together; the proofs cover all of them
at once. In the age policy, two candidates that share
one entry, one entry that needs the ledger, one that is dated by its registry
and an image compete for a ledger with room for one, so that two artifacts merge into a
ledger beyond its bound; three runs give two that overlap and one that builds on both.
The target revision is bounded but never returns, as that of a protected branch.
The type invariants are conjuncts of the inductive invariants (`IInv`, in custody
`OutcomeInv`), so that each is checked by the run that checks those.
Deadlock checking is off in the frontier, the service, the age policy and
custody, whose bounded runs come to an end; scan and resolution never stop.

### Fairness

`frontier_live` assumes that GitHub starts the run whose turn it is (weak), that
a started process goes on reading (weak), and strongly that it uploads:
its loop over candidates is finite, but in the model may go round through
`Decline`, so weak fairness of the upload would say nothing. `service_live`
assumes the hourly schedule, a process that goes on, and waiters that start and
end. `scan_rotation` assumes the schedule and a process that goes on, and its
property holds of the behaviours whose disturbances (crashes, requests that fail
though the budget suffices) end. `resolve_all` assumes that the reader goes on
(weak) and that the schedule takes up every pull request again and again (strongly,
as others are taken up between). `custody_faults` assumes that the guard, as long
as it lives, goes on: each of its calls has a deadline at which the callee is
killed. Nothing is assumed of the owner. Each is what a workflow with a schedule
and a bounded job (10 minutes), or a process of an operating system, gives.
No fairness is assumed for faults, pushes, or base moves.

`Entitled` lets a budget be suspended only with a visible reason: some run was rerun, ended
without evidence or lost its artifact (`Troubled`), or more runs exist than one listing
holds (`Overgrown`). Failing reads and lagging answers are not among the faults of its run, as
they suspend without a trace, and so does a queued run that the calling
workflow's guard skips between two reads, which counts as pending for that reader.
These are the conservative choices ADR 0095 asks for: losing an
automatic retry is accepted, repeating one is not.

## 4. What is proved

`ServiceFrontierProofs` proves, for every number of runs, every assignment
of creation times that grows with the ids, every set of budgets and every
combination of faults:

- `TypeCorrect`, `Invariance`: the type invariant and `IInv`;
- `EffectsAreUnique`, `EffectsExclude`, `CheckpointsCover`: the three state
  properties of the runs above;
- `OlderRunsAreRefused`, `LostEvidence`: two properties of steps;
- `FrontierIsALock`: every behaviour of `Spec` is one of `EffectLock`;
- `DecisionsEntitle`, `ReadingsEnd`: the halves of `Entitled` that need no fairness.

The assumptions are those the module names: finite or not, `Keys` may be
anything; `Created` is monotone in the run id, since GitHub hands out ids and
creation times together; nothing is assumed about overlap.

The argument for the frontier. None of the promises is inductive: a reader's right to act is
spread over what it has read, what it still has to read, and what others may do
before it reads it. `IInv` makes that explicit with `Eligible(r)`: r has listed
its history, and nothing it has read, or is bound to read, denies its claim.

- `MutualInv` is the core of mutual exclusion, as in a bakery without tickets: of
  two eligible runs, one still has the other in `todo`, and finds it in
  progress. A run sets itself in progress before it lists, so two runs that both
  finished reading cannot have missed one another.
- `CoverInv` and `OrderInv`: an eligible run knows every request of the others or
  still has to read the run that made it, whatever its age.
- `CheckpointInv` and `AnchorInv`: behind a clean checkpoint, nothing older can
  be eligible any more and no evidence can get lost unnoticed, so history before
  it need not be read. `Barrier` is the part of that which survives a rerun
  of the checkpoint's run.
- `PostInv`, `ReaderInv`, `ProcessInv`, `ArtifactInv` tie requests to ledgers,
  artifacts and program steps.

Every action is one step of the preservation proof, with the conjuncts it can
disturb under it; the step lemmas are named after the conjunct. The action
properties follow from `IInv` in the state before, and the refinement
from the type of step each action is for the lock.

Safety alone would also be kept by a frontier that suspends everything. `DecisionsEntitle`
says that this one does not: where nothing goes wrong (`Undisturbed`: no faults, a history
that fits one listing, runs created after the commit of C) and runs take turns
(`SerialSpec`), no run in progress ever has its budget fenced, and each that has decided
after an earlier success may act until it uploads. Its invariant, `SerialInv`, is that
completed runs leave clean checkpoints (`Settled`) and that the one in progress meets
nothing that speaks against it (`Unopposed`): what it restored names a checkpoint, which
is attested, and everything else it reads is queued or succeeded. `ReadingsEnd` holds of
`Spec` with all faults: `Unread` counts the kinds of reads to come and two requests for each
run of the window not fetched yet; runs created later are not in the window.

`CandidateResolutionProofs` proves, for every set of pull requests and every bound
and set of faults, `TypeCorrect`, `Invariance` (its own `IInv`),
`CandidatesWereLive` (`BoundWasLive`), `MovedTargetsOnly`
(`OnlyTargetMoved`), `ReadsOnce` (`ReadsAtOneMoment`), `ResolutionsEnd` and
`QuietBinds`. `IInv` has three parts besides the type and the two promises:

- `WorldInv`: entries of the queue show open pull requests with their present
  sources, and no merge is on a revision the target has not had yet.
- `ReaderInv`: what the checks so far have established about `base`, `first` and
  the selection, such as `base <= target` for ever after it was read.
- `MomentInv`: when the read before the last agrees, either the candidate stood
  as a whole at that moment, or the target had left the base by then.

The last read then decides between the two: a target that is still the base
never was anywhere else, because it only grows. This is why the code must read
the target after the identity, and it is what a target branch that could be
forced back would break. The types of the reads depend on `ReaderInv` (only the
resolution of a pull request reads one by `job.pr`), so that `TypeCorrect`
follows from `Invariance`.

`ReadsOnce` maps each step to one of `ClosedRead`: the request that ends a resolution
is `Answer`, whose answer is in `moments` by `BoundWasLive` and `OnlyTargetMoved`, and
every other request or change of the world is a `Moment`. `ResolutionsEnd` and
`QuietBinds` are the two halves of `QuietResolves` that need no fairness. Each request
lowers `Left`, the kinds of requests still to come times one more than the number of
entries there can be, plus the identities in `todo`; that number has to exist, so
the set of pull requests is assumed finite, and no change of the world enters into
it. `QuietBinds` says that the double reads are not too strict: from any moment at
which a pull request has its merge, and for as long as neither it nor the target
moves and no request fails, whatever a resolution of it has read is still so
(`Agreeing`), and it can end in no other way than with the candidate.

`EligibilityServiceProofs` proves, for every set of pull requests, every number of
runs, pushes and base moves, and every combination of faults, `TypeCorrect`,
`Invariance`, `OneRequest`, `PassesAreEvident`, `RequestsAreRecorded`,
`RecoveriesWerePrepared`, `ReceiptsAreVisible`, `RetainedAreStill`,
`ServiceIsALock` (`ImplementsLock`, which no run checks) and `RunsEnd`. The parts of
its `IInv` and what they are for:

- One request per CI run needs three things at once: a request on record is found by
  whoever looks (`Accounted`), whoever is on the way to a request has looked
  (`Unspent`), and a ledger keyed by candidate speaks about the original because
  the normal retry is only ever made on the base that CI tested (`Known`), and a
  recovery only on an older one (`Charged`).
- Receipts: `Recorded` ties artifacts to runs, `Backing` says at each step
  which report of a completed run the step stands on. `Graphs` keeps the merge that
  CI tested and the one in hand apart, or equal for a retained original.
- `Watched`: whatever moved since a retained original was observed shows in
  source, merge or target, so that the next look refuses it.
- `Fresh`: each pull request has one turn in a run, so the reservation it
  finds is what the previous, completed run prepared.
- `Licensed`: a step towards a request is taken only by a run that may act, and such a
  run has a completed one before it. The refinement to the lock needs it: a request is
  then `Spend` by the holder, of a budget that `OneRequestPerOriginal` shows to be
  unspent, and no request is of a later run than the one that acts.

`RunsEnd` says that the two loops of `service` end: `Left` counts seven for each
candidate and retained original still to come and what is left of the turn of the one
in hand, each step of the run lowers it whatever is refused or fails, and pushes,
base moves and waiters leave it alone. It assumes a finite set of pull requests.

`ScheduledScanProofs` proves, for every number of pull requests, window, limits,
costs and faults, `TypeCorrect`, `Invariance`, `NothingPassedOver`, `ScansTakeTurns`
(`ImplementsRotation`), `NobodyOvertaken` (`NoneOvertaken`) and `ScansEnd`. `Roomy` says
that the resolution of everything selected is paid for. It rests on a counting
lemma, that a scan selects no more than its window, and on `ResolvingAssumption`,
the relation of the code's constants. `Covered` then accounts for the selected
candidates: as long as the budget lasts each is dealt with or still ahead, and
once it is exhausted the cursor can only be where it was or at the last evaluation,
before which everything was dealt with, as ranks are distinct (`RankDiffers`).

`NothingPassedOver` is about those a scan selected; fair turns are about all that
stayed open. `Contiguous` closes the gap: whoever was open when the scan began
and still is, but was not selected, comes after everything selected. `Anchored` says that
the cursor to be stored is one of the selected, or the one the scan started from, which
does not move before. Ranks are counted from that cursor, so that they are the
distances of `Rotation`. Together they show that the step that stores the cursor is `Pass`,
and `NobodyOvertaken` follows by arithmetic:
the distance to each that stays open and waits only falls, so that its turn comes after
finitely many moves of the cursor. That the cursor does move is
`EvaluatedInTurn`, which needs fairness and is model-checked; that each scan reaches its end
in finitely many steps is `ScansEnd`.

`DependencyAgeProofs` proves, for every hold, capacity, set of artifacts and number of
runs, `Invariance` (`IInv`), `TypeCorrect` (with the bound of what is uploaded),
`HoldRespected` (`AgedOnMain`) and `HoldsContinue` (`ObservationsKept`). `AgedOnMain` speaks of
what the policy judges: the pins in `Unheld` and the packages of exempt first-party
updates are outside it, and `ThirdPartyAged`, which leaves out only the latter, is
violated (`age_pins`). The invariant
relates each ledger to the history variable `first`: no run has an observation earlier
than the first verification, and a pass that stands says that the hold was over at the
run's instant, which the clock has passed. `HoldsContinue` is about what a run
takes over and hands on. It rests on a lemma about the merge (an observation of the merge
is one of the artifacts', and none of theirs is earlier; a single artifact is taken
whole), and on one about a run under way: no step moves an observation it has, except
that a ledger that exceeds the capacity is emptied as a whole in the step that
fails a candidate (`Dropped`). That every hold then starts over is what the code does, and the
property says that it happens in no other way and never without the failure.

`OwnerCustodyProofs` proves, for every number of lease checks and every set of faults,
`TypeCorrect`, `CustodyCovers`, `TeardownOrdered`, `TamperedKept` and `ForeignKept`. Its
`IInv` says who may still create and who may already remove: before the guard exists
nothing does (`NothingYet`, `Sealed`), only the owner's program starts commands
(`CommandIsOwners`), a guard tears down when the command is dead and the owner
cannot start another (`CleansQuietly`, `ClosureWasAsked`), the owner only when the
guard is dead, and each place of the clean-up implies what is already gone (`Stage`).
`Counted` and `LeaseHeld` are there for the types and for the lease.

`OwnerCustodyOutcomes` proves, on top of it, `OutcomeInvariance` (`OutcomeInv`),
`SequencesAgreed`, `ResidualsAreExplained`, `RecoveryRetained`
(`RecoveryAfterVerify`), `ObligationKept` (`KeepsObligation`) and `OrphanEnds`. `OutcomeInv`
adds to `IInv` what the actors know of one another:

- `Aligned`, with `Confirmed`: the guard counts a grant first and the owner when the
  confirmation was accepted; the place of the guard and the state of the connection
  say which of the two has happened.
- `Employed`, `Built` and `Stacked`: the place of the owner's program says what exists
  in the engine, as long as nobody has begun to clean up.
- `Bound`, `Located`: a binding is sealed for a written identity, and a clean-up at a place
  finds the engine as that place expects it, unless somebody replaced the
  container. That a guard which has not started has no binding either is part of it:
  without this conjunct the invariant is not inductive.
- `Readied`, `Attested`: what follows readiness finds a sealed binding, and a profile is
  verified only for a bound container, until everything has been removed.
- `Justified`: every refusal of a guard has one of the named reasons, and the reason stays.
  One of them, `Unattested`, is a clean-up that came before the profile was
  verified. This is the argument of `ResidualsAreExplained`; a clean-up of the owner that gives
  up can only be refused for the same reasons, and with a verified profile and its binding
  (`Attested`) none of them is left but the faults, which gives `RecoveryRetained`.

For the refinement, `Settled` is shown never to end, a cleaner to work only where it holds
(`CleansQuietly`), each command to find what it builds on (`Stacked`), and each
removal that nothing is left on top (`Stage`). Every other step leaves record and
resources alone and can only raise the bar.

`OrphanEnds` is the half of `OwnerLossEnds` that needs no fairness: once the owner is
dead, each step of the guard lowers `GuardLeft`, at most 13, and no fault, no clock and no
command raises it. The guard neither waits for another request nor begins a second
clean-up, and a refused clean-up leads through `owner_stop_work` once more at most.

The assumptions are the named ones of each module: bounds are natural numbers, faults
come from the listed kinds, and in `ScheduledScan` the window's resolution
fits the budget (500 requests, 20 candidates). `ResolutionsEnd` and `RunsEnd` also
assume that there are finitely many pull requests.

Only model-checked: the liveness properties (`Entitled`, `RipePasses`,
`EvaluatedInTurn`, `QuietResolves`, `OwnerLossEnds`), since the prover has no rule for
fairness. `DecisionsEntitle`, `ReadingsEnd`, `ResolutionsEnd`, `QuietBinds`, `RunsEnd`, `ScansEnd`,
`NobodyOvertaken` and `OrphanEnds` prove what those rest on apart from it: that enough steps come to an end, and
to which. Every invariant, every action property and every refinement of the
passing runs (`EffectLock`, `CustodyObligation`, `Rotation`, `ClosedRead`) has a
theorem.

## 5. Findings

1. *A restarted waiter may find no receipt* (`service_pair`,
   `eligibility.py:2250`). The receipt of a pass is attributed to the previous
   run only if that very run reported on the head. When a callback for another
   pull request completes between the rerun request and the start of the
   restarted waiter, the next status names the run still in progress. The retry
   is spent by then.
2. *Registry budget and cursor* (`scan_starved`, `eligibility.py:2226`). A
   candidate whose registry requests were refused for want of budget counts as
   evaluated for the cursor. Two pull requests that exceed the soft limit
   together leave the cursor where it was, and the second one's report is a
   failure after every scan. The same happens when the second look at the
   candidate (`still_current`) is what no longer fits: nothing is reported.
3. *Retained originals come last* (`scan_starved`, `eligibility.py:2292`).
   When the candidates use up the budget, retained originals get no turn and
   the cursor does not remember them. The behaviour that violates `EachInTurn` shows
   both: two candidates that exceed the limit together, and the original behind them.
4. *The owner's recovery has conditions* (`custody_recovery`,
   `docker-application-contract.py:1364`). The comment at
   `verify-docker-paperless-custody.py:548` promises that an owner whose guard
   has died retains its recovery. Its clean-up is refused until `apparmor verify`
   has run, after readiness: the receipt of the profile must say "verified" (1361-1364),
   so that volume and record stay. Between the creation of the container and
   readiness it is refused even earlier: `recover` passes the identity it has read, and
   1339-1341 then asks for `owner-bound.json`, which only readiness writes, so that the
   container stays as well. A guard in that situation passes no identity and removes
   the container, but meets the same receipt. Nothing is removed wrongly, and the record says what is
   left. From the verification on the recovery is complete (`RecoveryAfterVerify`).
5. *Pins without a hold* (`age_pins`, `operational.py:883`).
   `docs/dependency-policy.md:63` says that pull requests and merge queues enforce 72 hours
   for third-party versions, and ADR 0094 that all newly introduced OCI identities
   retain them. `check_operational` continues past pins of `docker.io`, for which it
   expects a native date, and past pins of registries without a reviewed fallback, which
   it reports as a coverage gap; both merge at once. Renovate, configured with three
   days, may delay the updates it proposes itself; the check of pull requests and merge queues
   enforces nothing for these pins. The tests state this behaviour
   (`automation/tests/test_operational.py:606`), so that code and test
   agree with one another and not with the documents.

Related to 2: a pull request that exceeds the budget alone and comes
first in the window sends the cursor back to where the scan started.
In `recovery.py`, `native_handoff` tests a phase through an alias of the
reservation it has just changed; the test is vacuous and harmless.

## 6. Abstractions and what is not modelled

- All runs execute one implementation revision C. `service_context` ignores runs
  of other revisions, and a new C starts from the floor of its commit time.
- Run ids grow with creation; attempts above 2 behave as 2 does.
- `Restore` reads runs and artifacts at one moment. What it returns is used
  for budgets only when the history could not be read, and then nothing
  is requested.
- "lag" lets GitHub answer "queued" about any run: that is what `unstarted_service`
  guards against. With exact answers its second read is redundant.
- `EligibilityService` identifies a merge with its pair of source and base; a test merge
  may stay on an older base for as long as GitHub likes ("stale"). The double reads of
  `retained_pr` are one moment, title and branch of its fingerprint change with a push,
  the service run that a callback names is its own listing, and a pull request is never
  created after the run that looks at it.
- Whether the recovery of an original reruns its CI or asks for a label handoff depends
  on what lies between two bases; with one base move it is a constant of the original.
- Proofs about repository content (graph shape, workflow catalogues, branch
  protection, labels) are a refusal that may happen at any time ("get").
- `EligibilityService` sees registry metadata, integrity and publication times as one
  event, `Ripen`; `DependencyAge` is about them. There, a candidate is judged in one step,
  since a run reads nothing of another meanwhile; an inventory that cannot be parsed
  counts as a candidate whose snapshots cannot be read; a ledger entry is dated or not.
  Which artifacts a run merges is the subject of `ServiceFrontier`.
- `OwnerCustody`: a client command that was killed does nothing more in the engine; "tamper"
  is any change of the sealed record or a source; "refuse" is any wrong answer or
  unverifiable termination. There is one container identity. The client's timeout shows as a
  lost acknowledgement. The owner's private record is erased last and its
  directory with it in one step. Counts of bytes and calls and the file of the expiry
  observation are left out; of the receipt of the security profile only what decides the
  clean-up is kept, whether it says "verified".
- `CandidateResolution`: authors and titles are part of the source revision, merges
  recomputed from the same parents are one, and the sources of two pull requests
  never make the same tree. A source that already contains a newer target is not
  told apart from one that does not. The rules of the branch are one fact. Entries
  show the group or the source; the search among entries that show a test merge
  (`eligibility.py:1287`) is not modelled, and would refuse every other entry.
- Polling of the waiter is one step. The deadline of a run (480 s) and its count
  of requests are one budget in `ScheduledScan`.

### Not modelled

`PROJECT.json` lists every component. What has no module, and why:

- *Contents and parsing.* The rest of `docker-application-contract.py` (reports,
  catalogues, admission of runs), `podman-revalidation.py`, `migration-readiness.py`, the
  zero-age delta, dev containers, tool and API baselines: each reads
  files, compares them with rules and ends. There is no state between runs and
  no order to get wrong; what could be wrong is the content of a rule, and a model of
  it would repeat the rule. The same holds of importers, exporters and the fixtures.
- *Validation gate and planner, queue tree and admission.* Each is one pass over job
  results, or over trees fetched at fixed revisions, that ends in a verdict; nothing of it
  is kept between two passes, and every refusal is final for that run.
- *Runner and test reporting.* Process groups with a deadline: the same pattern as
  the guard's commands, with one process and nothing shared. `Release`, `distribution` and
  `bootstrap` publish in steps and resume; this is the component that would gain most from
  a further module.
- *The Rust tool.* It is sequential and plans its output in memory before it
  creates a file; the conversion rules are data mappings.
- Within modelled components: the search among queue entries that show a test merge
  (`eligibility.py:1287`), the retries inside `label_unused`, the exceptions of
  `rerun_ready` for upgrades of the service itself, and parsing of operational
  inventories.

## 7. Plan

In order of importance:

1. `Release`: publication in steps with crashes and resumption.
2. `CandidateResolution`: the search among entries that show a test merge, which calls
   the resolution of pull requests inside that of the queue.
3. `Runner`: timeouts and process groups; `QueueTree`: reuse of verdicts.
4. `OutputWriter` for the Rust tool: planned output against a file system that others
   write to.
