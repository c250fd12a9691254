---------------------------- MODULE DependencyAge ----------------------------
(***************************************************************************)
(* The age policy (dependencies.py check_dependencies, operational.py      *)
(* check_operational) over many service runs: what the registry dates is   *)
(* held for 72 hours after publication, everything else for 72 hours after *)
(* a trusted run first verified and recorded it.  That record lives in the *)
(* artifacts of service runs, which expire, overlap and are merged         *)
(* (eligibility.py previous_state, recovery.py merge_budgets).  Some pins  *)
(* of images the policy passes over: those it expects a native date for,   *)
(* and those of registries without a reviewed fallback.                    *)
(*                                                                         *)
(* Which runs' artifacts a run merges is the subject of ServiceFrontier;   *)
(* here it merges all that it can read, or, when its history is refused,   *)
(* takes the newest one alone.  An artifact dated after the run's own      *)
(* instant is not accepted.                                                *)
(***************************************************************************)
EXTENDS Naturals, FiniteSets

CONSTANTS
  Packages,   \* lock entries, each fetched from its registry
  Images,     \* pinned images and runner labels, verified when they are first seen
  Unheld,     \* those of them that the policy passes over
  Published,  \* the publication time the registry states, 0 if the code reads none
  Candidates, Intro,   \* pull requests and what each adds
  Exempt,     \* candidates that are isolated first-party updates
  Invalid,    \* candidates whose snapshots cannot be read
  Hold, Capacity, NRuns, MaxTime,
  Faults

Artifacts == Packages \cup Images
Runs      == 1 .. NRuns
Times     == 0 .. MaxTime
Statuses  == {"pass", "waiting", "failure"}

ASSUME ArtifactsAssumption ==
  /\ IsFiniteSet(Packages) /\ IsFiniteSet(Images) /\ Packages \cap Images = {}
  /\ Unheld \subseteq Images
  /\ Published \in [Artifacts -> Nat] /\ \A a \in Images : Published[a] = 0
ASSUME CandidatesAssumption ==
  /\ Intro \in [Candidates -> SUBSET Artifacts]
  /\ Exempt \subseteq Candidates /\ Invalid \subseteq Candidates
ASSUME BoundsAssumption ==
  Hold \in Nat \ {0} /\ Capacity \in Nat \ {0} /\ NRuns \in Nat /\ MaxTime \in Nat \ {0}
ASSUME FaultsAssumption == Faults \subseteq {"crash", "fetch", "lost", "refuse"}

VARIABLES
  clock,
  main,     \* what the target branch contains
  pc, now,  \* per run: where it is ("done": its artifact can be read), the one instant it judges by
  ledger,   \* per run: artifact -> first seen, 0 if not seen
  report,   \* per run and candidate: the verdict and the target it is about
  first     \* history: the instant of the first run that verified it, 0 if none did

vars == <<clock, main, pc, now, ledger, report, first>>

Ledgers  == [Artifacts -> Times]
NoReport == [status |-> "none", base |-> {}]
Seen(l)  == {a \in Artifacts : l[a] # 0}
Size(l)  == Cardinality(Seen(l))

\* The runs whose uploaded artifact can be read.
kept == {r \in Runs : pc[r] = "done"}

Init ==
  /\ clock = 1
  /\ main = {}
  /\ pc = [r \in Runs |-> "none"]
  /\ now = [r \in Runs |-> 0]
  /\ ledger = [r \in Runs |-> [a \in Artifacts |-> 0]]
  /\ report = [r \in Runs |-> [c \in Candidates |-> NoReport]]
  /\ first = [a \in Artifacts |-> 0]

(***************************************************************************)
(* Restoring the ledger.                                                   *)
(***************************************************************************)
\* Slip: only what every one of them has observed is kept.
MergedCommon(runs) ==
  [a \in Artifacts |->
     LET times == {ledger[s][a] : s \in runs} IN
       IF times = {} \/ 0 \in times THEN 0 ELSE CHOOSE t \in times : \A u \in times : t <= u]

\* merge_budgets: of every artifact the earliest observation.
Merged(runs) ==
  [a \in Artifacts |->
     LET times == {ledger[s][a] : s \in runs} \ {0} IN
       IF times = {} THEN 0 ELSE CHOOSE t \in times : \A u \in times : t <= u]

\* validate_state: a run may upload between this run's first look at the clock and its
\* reading, and what is observed after that instant is refused.
Readable(r) == {s \in kept : now[s] <= now[r]}

\* The runs whose artifacts are merged: all, or the newest when the history is refused.
Histories(r) ==
  {Readable(r)} \cup
    (IF "refuse" \in Faults \/ Readable(r) # kept
       THEN {{s} : s \in {s \in Readable(r) : \A u \in Readable(r) : u <= s}} ELSE {})

\* The one instant is taken before anything is read.
Start(r) ==
  /\ pc[r] = "none" /\ \A s \in Runs : s < r => pc[s] # "none"
  /\ pc' = [pc EXCEPT ![r] = "dated"]
  /\ now' = [now EXCEPT ![r] = clock]
  /\ UNCHANGED <<clock, main, ledger, report, first>>

Restore(r) ==
  /\ pc[r] = "dated"
  /\ pc' = [pc EXCEPT ![r] = "ready"]
  /\ \E runs \in Histories(r) : ledger' = [ledger EXCEPT ![r] = Merged(runs)]
  /\ UNCHANGED <<clock, main, now, report, first>>

(***************************************************************************)
(* Judging a candidate.  A run reads nothing of another while it does: one *)
(* step is one evaluation, whose requests fail for the artifacts of down.  *)
(***************************************************************************)
\* check_operational leaves out what it passes over before any other question.
Introduced(c) == (Intro[c] \ main) \ Unheld
Waived(c, a)  == a \in Packages /\ c \in Exempt

\* Slip: what could not be fetched is recorded as well.
UnseenUnfetched(r, c, down) ==
  {a \in Introduced(c) : Published[a] = 0 /\ ~Waived(c, a) /\ ledger[r][a] = 0}

\* What is verified, has no date of its own and is not in the ledger.
Unseen(r, c, down) ==
  {a \in Introduced(c) \ down : Published[a] = 0 /\ ~Waived(c, a) /\ ledger[r][a] = 0}

\* As many of them as the ledger has room for, packages before images.
Recorded(r, c, down, new) ==
  LET unseen == Unseen(r, c, down)
      room   == Capacity - Size(ledger[r])
  IN  /\ Cardinality(new) <= room
      /\ new # unseen => Cardinality(new) = room
      /\ new \cap Images # {} => unseen \cap Packages \subseteq new

\* Packages and unseen images are asked for; an image without room is not.
Verified(r, c, down, new) ==
  {a \in Introduced(c) \ down : a \in Packages \/ a \in new}

Evidence(r, a, new) == IF Published[a] # 0 THEN Published[a]
                       ELSE IF a \in new THEN now[r] ELSE ledger[r][a]

Fails(r, c, down, new) ==
  \/ Introduced(c) \cap down # {}
  \/ \E a \in Introduced(c) : Published[a] > now[r]
  \/ new # Unseen(r, c, down)

Waits(r, c, new) ==
  \E a \in Introduced(c) : ~Waived(c, a) /\ now[r] < Evidence(r, a, new) + Hold

\* A state beyond its bound, and snapshots that cannot be read, fail before any request.
Refused(r, c) == Size(ledger[r]) > Capacity \/ c \in Invalid

\* A state beyond its bound is not taken over by the report.
Emptied(r) == IF Size(ledger[r]) > Capacity THEN [a \in Artifacts |-> 0] ELSE ledger[r]

Refuse(r, c) ==
  /\ Refused(r, c)
  /\ report' = [report EXCEPT ![r][c] = [status |-> "failure", base |-> main]]
  /\ ledger' = [ledger EXCEPT ![r] = Emptied(r)]
  /\ UNCHANGED first

Evaluate(r, c, down, new) ==
  /\ ~Refused(r, c)
  /\ Recorded(r, c, down, new)
  /\ LET status == IF Fails(r, c, down, new) THEN "failure"
                   ELSE IF Waits(r, c, new) THEN "waiting" ELSE "pass"
     IN  report' = [report EXCEPT ![r][c] = [status |-> status, base |-> main]]
  /\ ledger' = [ledger EXCEPT ![r] = [a \in Artifacts |-> IF a \in new THEN now[r] ELSE ledger[r][a]]]
  /\ first' = [a \in Artifacts |->
                 IF a \in Verified(r, c, down, new) /\ (first[a] = 0 \/ now[r] < first[a])
                   THEN now[r] ELSE first[a]]

\* An image that is in the ledger is not asked for again.
Unreachable(r, c) ==
  IF "fetch" \in Faults
    THEN SUBSET {a \in Introduced(c) : a \in Packages \/ ledger[r][a] = 0} ELSE {{}}

Judge(r, c) ==
  /\ pc[r] = "ready" /\ report[r][c] = NoReport
  /\ \/ Refuse(r, c)
     \/ \E down \in Unreachable(r, c) :
          \E new \in SUBSET Unseen(r, c, down) : Evaluate(r, c, down, new)
  /\ UNCHANGED <<clock, main, pc, now>>

\* What is left of a run that ended without an artifact, or whose artifact is gone.
Forget(r) ==
  /\ pc' = [pc EXCEPT ![r] = "gone"]
  /\ now' = [now EXCEPT ![r] = 0]
  /\ ledger' = [ledger EXCEPT ![r] = [a \in Artifacts |-> 0]]
  /\ report' = [report EXCEPT ![r] = [c \in Candidates |-> NoReport]]

\* Slip: the state is uploaded whatever its size.
FitsAlways(r) == TRUE

Fits(r) == Size(ledger[r]) <= Capacity

\* validate_state judges the payload before it is written: a run may end without one.
Upload(r) ==
  /\ pc[r] = "ready"
  /\ IF Fits(r)
       THEN pc' = [pc EXCEPT ![r] = "done"] /\ UNCHANGED <<now, ledger, report>>
       ELSE Forget(r)
  /\ UNCHANGED <<clock, main, first>>

(***************************************************************************)
(* The world.                                                              *)
(***************************************************************************)
\* A pass of a completed run, about this candidate on this target, lets it merge.
Merge(r, c) ==
  /\ r \in kept /\ report[r][c] = [status |-> "pass", base |-> main]
  /\ main' = main \cup Intro[c]
  /\ UNCHANGED <<clock, pc, now, ledger, report, first>>

Crash(r) ==
  /\ "crash" \in Faults /\ pc[r] \in {"dated", "ready"}
  /\ Forget(r)
  /\ UNCHANGED <<clock, main, first>>

\* An artifact expires.
Lose(r) ==
  /\ "lost" \in Faults /\ r \in kept
  /\ Forget(r)
  /\ UNCHANGED <<clock, main, first>>

Tick ==
  /\ clock < MaxTime
  /\ clock' = clock + 1
  /\ UNCHANGED <<main, pc, now, ledger, report, first>>

Next ==
  \/ Tick
  \/ \E r \in Runs :
       \/ Start(r) \/ Restore(r) \/ Upload(r) \/ Crash(r) \/ Lose(r)
       \/ \E c \in Candidates :
            Judge(r, c) \/ Merge(r, c)

Spec == Init /\ [][Next]_vars

(***************************************************************************)
(* Properties.                                                             *)
(***************************************************************************)
\* Types; what is uploaded is within the bound that the next run demands of it.
TypeOK ==
  /\ clock \in Times
  /\ main \subseteq Artifacts
  /\ pc \in [Runs -> {"none", "dated", "ready", "done", "gone"}]
  /\ now \in [Runs -> Times]
  /\ ledger \in [Runs -> Ledgers]
  /\ report \in [Runs -> [Candidates -> [status : Statuses \cup {"none"}, base : SUBSET Artifacts]]]
  /\ first \in Ledgers
  /\ \A r \in kept : Size(ledger[r]) <= Capacity

\* Waiving a hold is for the packages of an isolated first-party update, never for an image.
Waivable == UNION {Intro[c] \cap Packages : c \in Exempt}

Held(a, t) == IF Published[a] # 0 THEN Published[a] + Hold <= t
                                  ELSE first[a] # 0 /\ first[a] + Hold <= t

Aged(a, t) == a \in Waivable \cup Unheld \/ Held(a, t)

\* Nothing that the policy judges reaches the target branch before its hold is over, counted
\* from its publication or from the first time a run verified it, whatever is lost, merged,
\* or judged at once by runs with different clocks (check_dependencies, check_operational).
AgedOnMain == \A a \in main : Aged(a, clock)

\* "PRs and merge queues enforce 72 hours for third-party versions"
\* (docs/dependency-policy.md:63), the pins the policy passes over included.
ThirdPartyAged == \A a \in main \ Waivable : Held(a, clock)

\* Every run judges by an instant that has come.
Clocked == \A r \in Runs :
  now[r] <= clock /\ (pc[r] \in {"dated", "ready", "done"} => 1 <= now[r])

\* No ledger, merged or not, has an observation before the first verification.
Witnessed == \A r \in Runs, a \in Artifacts :
  ledger[r][a] # 0 => first[a] # 0 /\ first[a] <= ledger[r][a]

\* A verdict "pass" is about artifacts whose hold was over when the run started.
Passed == \A r \in Runs, c \in Candidates : report[r][c].status = "pass" =>
  \A a \in Intro[c] \ report[r][c].base : Aged(a, now[r])

\* A run that has not started has no report.
Blank == \A r \in Runs, c \in Candidates : pc[r] = "none" => report[r][c] = NoReport

\* No ledger and no verdict runs ahead of what was verified when: the inductive invariant
\* behind AgedOnMain (previous_state, check_dependencies, the waiter).
IInv == /\ TypeOK
        /\ clock >= 1
        /\ Clocked
        /\ Witnessed
        /\ Passed
        /\ Blank
        /\ AgedOnMain

\* The ledger of r has what that of s had, and no observation later.
Keeps(r, s) ==
  \A a \in Seen(ledger[s]) : ledger'[r][a] # 0 /\ ledger'[r][a] <= ledger[s][a]

\* Observations of all artifacts r accepts, or exactly those of the newest one.
Restored(r) ==
  \/ \A s \in Readable(r) : Keeps(r, s)
  \/ \E s \in Readable(r) : ledger'[r] = ledger[s] /\ \A u \in Readable(r) : u <= s

\* A ledger beyond its bound is dropped as a whole, with the failure of a candidate.
Dropped(r) ==
  /\ Size(ledger[r]) > Capacity /\ Seen(ledger'[r]) = {}
  /\ \E c \in Candidates : report[r][c] = NoReport /\ report'[r][c].status = "failure"

\* A hold starts over in the open or not at all.  A run starts from the earliest observation
\* of all artifacts it accepts, or from all of the newest one, and hands on all it has, no
\* observation later than it was, whatever its evaluations run into ("Union only
\* conservative observations", merge_budgets).  The exception is a merged ledger beyond its
\* bound: every observation is dropped then, and a candidate fails with it
\* (check_dependencies).
ObservationsKept ==
  [][\A r \in Runs :
       /\ pc[r] = "dated" /\ pc'[r] = "ready" => Restored(r)
       /\ pc[r] = "ready" /\ pc'[r] # "gone" => Keeps(r, r) \/ Dropped(r)]_vars
=============================================================================
