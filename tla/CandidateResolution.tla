------------------------- MODULE CandidateResolution -------------------------
(***************************************************************************)
(* How the eligibility service turns a callback or a pull request number   *)
(* into a candidate (eligibility.py, pr_candidate, queue_candidate and     *)
(* _current_queue_candidate), one request at a time, while people push,    *)
(* close and enqueue pull requests, GitHub recomputes merges and rebuilds  *)
(* the merge queue, and the target branch moves.                           *)
(*                                                                         *)
(* No request returns the candidate as a whole.  The code reads its parts, *)
(* proves that the commits fit together, and reads the parts again.        *)
(*                                                                         *)
(* The target branch is protected and only grows: its revisions are        *)
(* numbers.  A source revision is a number too, an ancestor of the greater *)
(* ones, and people may also push an older one.  Commits never change.     *)
(***************************************************************************)
EXTENDS Integers, FiniteSets

CONSTANTS
    PRs,        \* pull requests to the target branch
    MaxTarget,  \* bound of the model: movements of the target branch
    MaxSource,  \* bound of the model: source revisions of a pull request
    MaxGroup,   \* bound of the model: merge groups built
    MaxChanges, \* bound of the model: changes people and GitHub make, and failing requests
    Faults      \* "get": a request may fail

ASSUME BoundsAssumption ==
    MaxTarget \in Nat /\ MaxSource \in Nat /\ MaxGroup \in Nat /\ MaxChanges \in Nat
ASSUME FaultsAssumption == Faults \subseteq {"get"}

Targets == 0 .. MaxTarget
Sources == 0 .. MaxSource
Groups == 1 .. MaxGroup

\* GitHub's test merge of a pull request, by its two parents.
Merge == [source : Sources, base : Targets]

\* A pull request as GET pulls/{number} shows it; "null" is mergeability being computed.
Pull == [open : BOOLEAN, source : Sources, mergeable : {"true", "false", "null"}, merge : Merge]

\* An entry of the merge queue; head 0 shows the source itself in place of a merge group.
Entry == [pr : PRs, source : Sources, base : Targets, head : 0 .. MaxGroup]

\* The commit of a merge group: the source of one pull request on a base.
Group == [pr : PRs, source : Sources, base : Targets]

Jobs == [kind : {"pull"}, pr : PRs] \cup [kind : {"queue"}, head : Groups]

VARIABLES
    target,     \* the target branch
    pull,       \* the pull requests
    queue,      \* the merge queue
    rules,      \* the branch requires a queue with one entry at a time
    group,      \* commits of the merge groups built so far
    groups,     \* their number
    changes,    \* changes made and requests failed so far
    at,         \* the request that comes next
    job,        \* what is to be resolved
    base,       \* the target revision read first
    first,      \* the pull request read first
    nodes,      \* the queue read first
    todo,       \* entries whose pull request is still to be read in this round
    final,      \* what the last read is about to confirm
    outcome,    \* "bound" to a candidate, or why there is none
    moments     \* history: what has been true at one moment since the proof of the commits

world == <<target, pull, queue, rules, group, groups, changes>>
reads == <<job, base, first, nodes>>
vars == <<world, at, reads, todo, final, outcome, moments>>

First == {"pull", "target", "ancestors", "rules", "entries", "branch", "select", "identities"}
Second == {"again", "confirm", "identities2", "rules2", "entries2", "branch3",
           "identities3", "entries3"}
Outcomes == {"none", "bound", "moved", "pending", "closed", "refused"}

TypeOK ==
    /\ target \in Targets
    /\ pull \in [PRs -> Pull]
    /\ queue \subseteq Entry
    /\ rules \in BOOLEAN
    /\ group \in [Groups -> Group]
    /\ groups \in 0 .. MaxGroup
    /\ changes \in 0 .. MaxChanges
    /\ at \in {"idle"} \cup First \cup Second
    /\ job \in Jobs
    /\ base \in Targets
    /\ first \in Pull
    /\ nodes \subseteq Entry
    /\ todo \subseteq Entry
    /\ final \in Outcomes
    /\ outcome \in Outcomes
    /\ moments \subseteq {"bound", "moved"}

Init ==
    /\ target = 0
    /\ pull = [p \in PRs |-> [open |-> TRUE, source |-> 0, mergeable |-> "true",
                              merge |-> [source |-> 0, base |-> 0]]]
    /\ queue = {}
    /\ rules = TRUE
    /\ group \in [Groups -> [pr : PRs, source : {0}, base : {0}]]
    /\ groups = 0
    /\ changes = 0
    /\ at = "idle"
    /\ job \in Jobs
    /\ base = 0
    /\ first \in {pull[p] : p \in PRs}
    /\ nodes = {} /\ todo = {}
    /\ final = "none" /\ outcome = "none"
    /\ moments = {}

-----------------------------------------------------------------------------
(* What the reads so far select.                                             *)

\* The entries of the first snapshot that were built on the base that was read.
Built == {e \in nodes : e.base = base}
Exact == {e \in Built : e.head = job.head}

\* The entry of the tested group, or else those that show their source only.
Selected == IF Exact # {} THEN Exact ELSE {e \in Built : e.head = 0}

\* verify_queue_tree: the tested commit has the tree of this source merged into the base.
Matches(e) == [pr |-> e.pr, source |-> e.source, base |-> base] = group[job.head]

Chosen == {e \in Selected : Matches(e)}

\* The candidate stands at this moment, wherever the target is.
Stands ==
    IF job.kind = "pull"
    THEN LET p == pull[job.pr]
         IN /\ p.open /\ p.source = first.source /\ p.merge = first.merge
            /\ first.merge = [source |-> first.source, base |-> base]
    ELSE \E e \in Chosen : e \in queue /\ pull[e.pr].open /\ pull[e.pr].source = e.source

Now == IF ~Stands THEN {} ELSE IF target = base THEN {"bound"} ELSE {"moved"}

\* Moments count from the end of the proof, when the second reads begin.
Watch == moments' = IF at' \in Second THEN moments \cup Now' ELSE moments

-----------------------------------------------------------------------------
(* People and GitHub.                                                        *)

Change == changes < MaxChanges /\ changes' = changes + 1

Without(p) == {e \in queue : e.pr # p}

\* A push, forward or back to an older revision, takes the pull request out of the queue
\* and makes GitHub compute the merge anew; until then the old merge is shown.
Push(p, s) ==
    /\ Change
    /\ pull[p].open /\ pull[p].source # s
    /\ pull' = [pull EXCEPT ![p].source = s, ![p].mergeable = "null"]
    /\ queue' = Without(p)
    /\ UNCHANGED <<target, rules, group, groups>>

Close(p) ==
    /\ Change
    /\ pull' = [pull EXCEPT ![p].open = ~@]
    /\ queue' = Without(p)
    /\ UNCHANGED <<target, rules, group, groups>>

\* GitHub computes the merge anew, at a push or at any other time, never at once.
Invalidate(p) ==
    /\ Change
    /\ pull[p].mergeable # "null"
    /\ pull' = [pull EXCEPT ![p].mergeable = "null"]
    /\ UNCHANGED <<target, queue, rules, group, groups>>

Recompute(p) ==
    /\ pull[p].mergeable = "null"
    /\ \/ pull' = [pull EXCEPT ![p].mergeable = "true",
                               ![p].merge = [source |-> pull[p].source, base |-> target]]
       \/ pull' = [pull EXCEPT ![p].mergeable = "false"]
    /\ UNCHANGED <<target, queue, rules, group, groups, changes>>

\* The target moves; merges and merge groups on the older base stay for a while.
Advance ==
    /\ Change
    /\ target < MaxTarget
    /\ target' = target + 1
    /\ UNCHANGED <<pull, queue, rules, group, groups>>

Protect ==
    /\ Change
    /\ rules' = ~rules
    /\ UNCHANGED <<target, pull, queue, group, groups>>

Enqueue(p) ==
    /\ Change
    /\ pull[p].open /\ Without(p) = queue
    /\ queue' = queue \cup {[pr |-> p, source |-> pull[p].source, base |-> target, head |-> 0]}
    /\ UNCHANGED <<target, pull, rules, group, groups>>

Leave(e) ==
    /\ Change
    /\ e \in queue
    /\ queue' = queue \ {e}
    /\ UNCHANGED <<target, pull, rules, group, groups>>

\* A merge group is built on the target; the entry shows it, or still its source.
Build(e) ==
    /\ Change
    /\ e \in queue
    /\ groups < MaxGroup
    /\ groups' = groups + 1
    /\ group' = [group EXCEPT ![groups + 1] = [pr |-> e.pr, source |-> e.source, base |-> target]]
    /\ \E head \in {0, groups + 1} :
         queue' = (queue \ {e}) \cup {[e EXCEPT !.base = target, !.head = head]}
    /\ UNCHANGED <<target, pull, rules>>

\* The tested group of an entry becomes the target.
MergeGroup(e) ==
    /\ Change
    /\ e \in queue
    /\ target < MaxTarget
    /\ \E g \in 1 .. groups : group[g] = [pr |-> e.pr, source |-> e.source, base |-> target]
    /\ target' = target + 1
    /\ pull' = [pull EXCEPT ![e.pr].open = FALSE]
    /\ queue' = Without(e.pr)
    /\ UNCHANGED <<rules, group, groups>>

World ==
    /\ \/ Advance \/ Protect
       \/ \E p \in PRs : \/ Close(p) \/ Invalidate(p) \/ Recompute(p) \/ Enqueue(p)
                         \/ \E s \in Sources : Push(p, s)
       \/ \E e \in queue : Leave(e) \/ Build(e) \/ MergeGroup(e)
    /\ UNCHANGED <<at, reads, todo, final, outcome>>
    /\ Watch

-----------------------------------------------------------------------------
(* The requests.                                                             *)

Begin(j) ==
    /\ at = "idle"
    /\ j.kind = "queue" => j.head <= groups
    /\ job' = j
    /\ at' = IF j.kind = "pull" THEN "pull" ELSE "rules"
    /\ outcome' = "none" /\ final' = "none"
    /\ todo' = {} /\ moments' = {}
    /\ UNCHANGED <<world, base, first, nodes>>

Goto(step) == at' = step /\ UNCHANGED <<final, outcome>>
End(result) == at' = "idle" /\ outcome' = result /\ UNCHANGED final
Confirm(result) == at' = "confirm" /\ final' = result /\ UNCHANGED outcome

\* pr_identity of an unready pull request; a conflicted one is refused.
Unready(p) == IF ~p.open THEN "closed" ELSE "pending"
IsUnready(p) == ~p.open \/ p.mergeable = "null"

ReadPull ==
    /\ at = "pull"
    /\ LET p == pull[job.pr]
       IN \/ IsUnready(p) /\ End(Unready(p)) /\ UNCHANGED first
          \/ p.open /\ p.mergeable = "false" /\ End("refused") /\ UNCHANGED first
          \/ p.open /\ p.mergeable = "true" /\ Goto("target") /\ first' = p
    /\ UNCHANGED <<world, job, base, nodes, todo>>

ReadTarget ==
    /\ at \in {"target", "branch"}
    /\ base' = target
    /\ Goto(IF at = "target" THEN "ancestors" ELSE "select")
    /\ UNCHANGED <<world, job, first, nodes, todo>>

\* Slip: the comparison is asked for the wrong way round, and a merge is no ancestor of
\* its parents.
AncestorsSwapped ==
    /\ at = "ancestors"
    /\ End("refused")
    /\ UNCHANGED <<world, reads, todo>>

\* require_ancestor, of the target and of the source: facts about commits.
Ancestors ==
    /\ at = "ancestors"
    /\ IF base <= first.merge.base /\ first.source <= first.merge.source
       THEN Goto("again") ELSE End("refused")
    /\ UNCHANGED <<world, reads, todo>>

SameIdentity(p) == p.source = first.source /\ p.merge = first.merge

\* The pull request once more: the same, or the same and unready by now.
ReadAgain ==
    /\ at = "again"
    /\ LET p == pull[job.pr]
       IN \/ SameIdentity(p) /\ IsUnready(p) /\ Confirm(Unready(p))
          \/ SameIdentity(p) /\ p.open /\ p.mergeable = "true" /\ Confirm("bound")
          \/ /\ ~SameIdentity(p) \/ (p.open /\ p.mergeable = "false")
             /\ End("refused")
    /\ UNCHANGED <<world, reads, todo>>

\* Slip: the target is not read again.
ConfirmUnread ==
    /\ at = "confirm"
    /\ End(final)
    /\ UNCHANGED <<world, reads, todo>>

\* The target once more.
ReadConfirm ==
    /\ at = "confirm"
    /\ End(IF target = base THEN final ELSE "refused")
    /\ UNCHANGED <<world, reads, todo>>

ReadRules ==
    /\ at = "rules"
    /\ IF rules THEN Goto("entries") ELSE End("refused")
    /\ UNCHANGED <<world, reads, todo>>

ReadEntries ==
    /\ at = "entries"
    /\ nodes' = queue
    /\ Goto("branch")
    /\ UNCHANGED <<world, job, base, first, todo>>

\* The tested commit has to contain the base, and entries on that base to be in the queue.
Select ==
    /\ at = "select"
    /\ IF base <= group[job.head].base /\ Selected # {}
       THEN Goto("identities") /\ todo' = Selected
       ELSE End("refused") /\ UNCHANGED todo
    /\ UNCHANGED <<world, reads>>

\* A source of several is allowed to conflict with the target.
ReadIdentity(e) ==
    /\ at = "identities"
    /\ e \in todo
    /\ LET p == pull[e.pr]
       IN \/ IsUnready(p) /\ p.source = e.source /\ Confirm(Unready(p)) /\ UNCHANGED todo
          \/ /\ ~IsUnready(p) /\ p.source = e.source
             /\ p.mergeable = "true" \/ Cardinality(Selected) > 1
             /\ Goto(at) /\ todo' = todo \ {e}
          \/ /\ \/ p.source # e.source
                \/ p.open /\ p.mergeable = "false" /\ Cardinality(Selected) <= 1
             /\ End("refused") /\ UNCHANGED todo
    /\ UNCHANGED <<world, reads>>

\* The trees are fetched and compared: exactly one source gives the tested commit.
Tree ==
    /\ at = "identities" /\ todo = {}
    /\ IF Cardinality(Chosen) = 1
       THEN Goto("identities2") /\ todo' = Selected
       ELSE End("refused") /\ UNCHANGED todo
    /\ UNCHANGED <<world, reads>>

\* The identities once more, after the proof and again after a movement of the target.
ReadIdentityAgain(e) ==
    /\ at \in {"identities2", "identities3"}
    /\ e \in todo
    /\ LET p == pull[e.pr]
       IN \/ IsUnready(p) /\ End(Unready(p)) /\ UNCHANGED todo
          \/ /\ ~IsUnready(p) /\ p.source = e.source
             /\ p.mergeable = "true" \/ e \notin Chosen
             /\ Goto(at) /\ todo' = todo \ {e}
          \/ /\ ~IsUnready(p)
             /\ p.source # e.source \/ (p.mergeable = "false" /\ e \in Chosen)
             /\ End("refused") /\ UNCHANGED todo
    /\ UNCHANGED <<world, reads>>

\* The target once more: a movement is noted, and the other reads go on.
ReadBranchAgain ==
    /\ at = "identities2" /\ todo = {}
    /\ at' = "rules2"
    /\ final' = IF target = base THEN "bound" ELSE "moved"
    /\ UNCHANGED <<world, reads, todo, outcome>>

ReadRulesAgain ==
    /\ at = "rules2" \/ (at = "identities3" /\ todo = {})
    /\ IF rules THEN Goto(IF at = "rules2" THEN "entries2" ELSE "entries3") ELSE End("refused")
    /\ UNCHANGED <<world, reads, todo>>

\* Slip: the composition of the queue is not compared.
EntriesUnread ==
    /\ at \in {"entries2", "entries3"}
    /\ IF at = "entries2" THEN Goto("branch3") ELSE End("moved")
    /\ UNCHANGED <<world, reads, todo>>

ReadEntriesAgain ==
    /\ at \in {"entries2", "entries3"}
    /\ \/ queue # nodes /\ End("refused")
       \/ queue = nodes /\ at = "entries2" /\ Goto("branch3")
       \/ queue = nodes /\ at = "entries3" /\ End("moved")
    /\ UNCHANGED <<world, reads, todo>>

\* Slip: that the target has moved is taken for granted to be all that has changed.
MovedAtOnce ==
    /\ at = "branch3"
    /\ End(IF final = "bound" /\ target = base THEN "bound" ELSE "moved")
    /\ UNCHANGED <<world, reads, todo>>

\* The target for the last time: without any movement the candidate is bound.
ReadBranchLast ==
    /\ at = "branch3"
    /\ IF final = "bound" /\ target = base
       THEN End("bound") /\ UNCHANGED todo
       ELSE Goto("identities3") /\ todo' = Selected
    /\ UNCHANGED <<world, reads>>

\* A request fails, or the time for the proof is over.
Fails ==
    /\ "get" \in Faults
    /\ at # "idle"
    /\ End("refused")
    /\ Change
    /\ UNCHANGED <<target, pull, queue, rules, group, groups, reads, todo>>

Read ==
    /\ \/ ReadPull \/ ReadTarget \/ Ancestors \/ ReadAgain \/ ReadConfirm
       \/ ReadRules \/ ReadEntries \/ Select \/ Tree \/ ReadBranchAgain
       \/ ReadRulesAgain \/ ReadEntriesAgain \/ ReadBranchLast \/ Fails
       \/ \E e \in todo : ReadIdentity(e) \/ ReadIdentityAgain(e)
    /\ Watch

Next == World \/ Read \/ \E j \in Jobs : Begin(j)

Spec == Init /\ [][Next]_vars

\* The reader goes on, and the schedule takes up every open pull request in turn.
FairSpec ==
    /\ Spec
    /\ WF_vars(Read)
    /\ \A p \in PRs : SF_vars(Begin([kind |-> "pull", pr |-> p]))

-----------------------------------------------------------------------------
(* Properties.                                                               *)

\* "Bind the live synthetic merge to current target/source refs before and after": what is
\* returned existed as a whole at one moment after its commits were proved, although each
\* part was read by a request of its own (pr_candidate, _current_queue_candidate).
BoundWasLive == outcome = "bound" => "bound" \in moments

\* "A target observation never bypasses the other closed-read checks": where only the
\* target is said to have moved, there was such a moment (QueueTargetMoved).
OnlyTargetMoved == outcome = "moved" => "moved" \in moments

\* When the world comes to rest with a computed merge, the pull request is resolved:
\* the double reads never refuse for good.
Mergeable(p) ==
    /\ pull[p].open /\ pull[p].mergeable = "true"
    /\ pull[p].merge = [source |-> pull[p].source, base |-> target]

QuietResolves ==
    \A p \in PRs : <>[]Mergeable(p) => []<>(outcome = "bound" /\ job = [kind |-> "pull", pr |-> p])

-----------------------------------------------------------------------------
(* The inductive invariant behind the safety properties.                     *)

\* GitHub's side: entries show open pull requests as they are.
EntriesLive == \A e \in queue : pull[e.pr].open /\ pull[e.pr].source = e.source

\* Merges are on revisions that the target had, and a merge that is not being computed
\* is of the present source.
MergesBehind ==
    \A p \in PRs : /\ pull[p].merge.base <= target
                   /\ pull[p].mergeable = "true" => pull[p].merge.source = pull[p].source

WorldInv == EntriesLive /\ MergesBehind

QueueSteps == {"rules", "entries", "branch", "select", "identities", "identities2", "rules2",
               "entries2", "branch3", "identities3", "entries3"}
PullSteps == {"pull", "target", "ancestors", "again"}

\* What the reads so far have established.
ReaderInv ==
    /\ at \in PullSteps => job.kind = "pull"
    /\ at \in QueueSteps => job.kind = "queue" /\ job.head <= groups
    /\ at \in Second \cup {"ancestors", "select", "identities"} => base <= target
    /\ at \in {"target", "ancestors", "again"} =>
         first.mergeable = "true" /\ first.merge.source = first.source
    /\ at = "again" => base <= first.merge.base
    /\ at \in QueueSteps \cap Second => Chosen # {}
    /\ at \in {"identities3", "entries3"} => base < target
    /\ at \in {"rules2", "entries2", "branch3"} /\ final # "bound" => base < target

\* Once the last but one read agrees, the moment has come or the target has moved for good.
MomentInv ==
    /\ at \in Second => Now \subseteq moments
    /\ at = "branch3" => "bound" \in moments \/ base < target
    /\ at = "confirm" =>
         \/ final \in {"pending", "closed"}
         \/ final = "bound" /\ ("bound" \in moments \/ base < target)

IInv == TypeOK /\ WorldInv /\ ReaderInv /\ MomentInv /\ BoundWasLive /\ OnlyTargetMoved

\* All the requests of one resolution amount to one look at GitHub: the answer is true of a
\* moment between the proof and the answer, or is one of the refusals, and nothing but the
\* next resolution changes it (pr_candidate, queue_candidate, _current_queue_candidate).
Reading == INSTANCE ClosedRead WITH
    Answers <- {"bound", "moved"}, Excuses <- {"pending", "closed", "refused"},
    now <- Now, busy <- at # "idle", seen <- moments, answer <- outcome

ReadsAtOneMoment == Reading!Spec
=============================================================================
