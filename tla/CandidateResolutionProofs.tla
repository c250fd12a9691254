---------------------- MODULE CandidateResolutionProofs ----------------------
(***************************************************************************)
(* Proofs about CandidateResolution, for every set of pull requests and    *)
(* every bound of the model: its type invariant, its inductive invariant   *)
(* IInv, that what is returned existed at one moment, that every           *)
(* resolution ends, and that a pull request left in peace is not refused.  *)
(***************************************************************************)
EXTENDS CandidateResolution, FiniteSetTheorems, TLAPS

USE BoundsAssumption

-----------------------------------------------------------------------------
(* Types.                                                                    *)

\* A change by people or by GitHub keeps the types.
LEMMA WorldType == TypeOK /\ World => TypeOK'
<1> SUFFICES ASSUME TypeOK, World PROVE TypeOK' OBVIOUS
<1> USE DEF TypeOK
<1>1. moments' \subseteq {"bound", "moved"} BY DEF World, Watch, Now
<1> DEFINE Types == /\ target \in Targets /\ pull \in [PRs -> Pull] /\ queue \subseteq Entry
                    /\ rules \in BOOLEAN /\ group \in [Groups -> Group]
                    /\ groups \in 0 .. MaxGroup /\ changes \in 0 .. MaxChanges
<1>2. Types'
  <2> USE DEF Change, Targets
  <2>1. CASE Advance BY <2>1 DEF Advance
  <2>2. CASE Protect BY <2>2 DEF Protect
  <2>3. ASSUME NEW p \in PRs, Close(p) PROVE Types'
    <3>1. pull' \in [PRs -> Pull] BY <2>3 DEF Close, Pull
    <3> QED BY <2>3, <3>1 DEF Close, Without
  <2>4. ASSUME NEW p \in PRs, Invalidate(p) PROVE Types'
    BY <2>4 DEF Invalidate, Pull
  <2>5. ASSUME NEW p \in PRs, Recompute(p) PROVE Types'
    <3>1. [source |-> pull[p].source, base |-> target] \in Merge BY DEF Pull, Merge
    <3>2. pull' \in [PRs -> Pull] BY <2>5, <3>1 DEF Recompute, Pull
    <3> QED BY <2>5, <3>2 DEF Recompute
  <2>6. ASSUME NEW p \in PRs, Enqueue(p) PROVE Types'
    <3>1. pull[p].source \in Sources BY <2>6 DEF Pull
    <3>2. [pr |-> p, source |-> pull[p].source, base |-> target, head |-> 0] \in Entry
      BY <3>1 DEF Entry
    <3> QED BY <2>6, <3>2 DEF Enqueue
  <2>7. ASSUME NEW p \in PRs, NEW s \in Sources, Push(p, s) PROVE Types'
    <3>1. pull' \in [PRs -> Pull] BY <2>7 DEF Push, Pull
    <3> QED BY <2>7, <3>1 DEF Push, Without
  <2>8. ASSUME NEW e \in queue, Leave(e) PROVE Types'
    BY <2>8 DEF Leave
  <2>9. ASSUME NEW e \in queue, Build(e) PROVE Types'
    <3>1. e \in Entry OBVIOUS
    <3>2. /\ [pr |-> e.pr, source |-> e.source, base |-> target] \in Group
          /\ \A h \in {0, groups + 1} : [e EXCEPT !.base = target, !.head = h] \in Entry
      <4>1. groups + 1 \in 0 .. MaxGroup BY <2>9 DEF Build
      <4>2. e.pr \in PRs /\ e.source \in Sources BY <3>1 DEF Entry
      <4>3. [pr |-> e.pr, source |-> e.source, base |-> target] \in Group
        BY <4>2 DEF Group
      <4>4. ASSUME NEW h \in {0, groups + 1}
            PROVE  [e EXCEPT !.base = target, !.head = h] \in Entry
        <5>1. h \in 0 .. MaxGroup BY <4>1
        <5> QED BY <3>1, <5>1 DEF Entry
      <4> QED BY <4>3, <4>4
    <3>3. group' \in [Groups -> Group] BY <2>9, <3>2 DEF Build
    <3>4. queue' \subseteq Entry BY <2>9, <3>2 DEF Build
    <3> QED BY <2>9, <3>3, <3>4 DEF Build
  <2>10. ASSUME NEW e \in queue, MergeGroup(e) PROVE Types'
    <3>1. e.pr \in PRs BY DEF Entry
    <3>2. pull' \in [PRs -> Pull] BY <2>10, <3>1 DEF MergeGroup, Pull
    <3> QED BY <2>10, <3>2 DEF MergeGroup, Without
  <2> QED
    BY <2>1, <2>2, <2>3, <2>4, <2>5, <2>6, <2>7, <2>8, <2>9, <2>10 DEF World
<1> QED BY <1>1, <1>2 DEF World, reads

\* So does a request; which pull request is read is a matter of what is resolved.
LEMMA ReadType == TypeOK /\ ReaderInv /\ Read => TypeOK'
<1> SUFFICES ASSUME TypeOK, ReaderInv, Read PROVE TypeOK' OBVIOUS
<1> USE DEF TypeOK, world, reads, Goto, End, Confirm, First, Second, Outcomes, Unready
<1>1. moments' \subseteq {"bound", "moved"} BY DEF Read, Watch, Now
<1>2. Selected \subseteq Entry BY DEF Selected, Exact, Built
<1>3. CASE ReadPull
  <2>1. job.pr \in PRs BY <1>3 DEF ReadPull, ReaderInv, PullSteps, Jobs
  <2>2. first' = first \/ first' = pull[job.pr] BY <1>3 DEF ReadPull
  <2>3. CASE first' = first BY <1>1, <1>3, <2>3 DEF ReadPull
  <2>4. CASE first' # first
    <3>1. first' \in Pull BY <2>1, <2>2, <2>4
    <3> QED BY <1>1, <1>3, <3>1 DEF ReadPull
  <2> QED BY <2>3, <2>4
<1>4. CASE ReadTarget BY <1>1, <1>4 DEF ReadTarget
<1>5. CASE Ancestors BY <1>1, <1>5 DEF Ancestors
<1>6. CASE ReadAgain BY <1>1, <1>6 DEF ReadAgain
<1>7. CASE ReadConfirm BY <1>1, <1>7 DEF ReadConfirm
<1>8. CASE ReadRules BY <1>1, <1>8 DEF ReadRules
<1>9. CASE ReadEntries BY <1>1, <1>9 DEF ReadEntries
<1>10. CASE Select BY <1>1, <1>2, <1>10 DEF Select
<1>11. CASE Tree BY <1>1, <1>2, <1>11 DEF Tree
<1>12. CASE ReadBranchAgain BY <1>1, <1>12 DEF ReadBranchAgain
<1>13. CASE ReadRulesAgain BY <1>1, <1>13 DEF ReadRulesAgain
<1>14. CASE ReadEntriesAgain BY <1>1, <1>14 DEF ReadEntriesAgain
<1>15. CASE ReadBranchLast BY <1>1, <1>2, <1>15 DEF ReadBranchLast
<1>16. CASE Fails
  <2>1. changes' \in 0 .. MaxChanges BY <1>16, BoundsAssumption DEF Fails, Change
  <2> QED BY <1>1, <1>16, <2>1 DEF Fails
<1>17. ASSUME NEW e \in todo, ReadIdentity(e) PROVE TypeOK'
  BY <1>1, <1>17 DEF ReadIdentity
<1>18. ASSUME NEW e \in todo, ReadIdentityAgain(e) PROVE TypeOK'
  BY <1>1, <1>18 DEF ReadIdentityAgain
<1> QED
  BY <1>3, <1>4, <1>5, <1>6, <1>7, <1>8, <1>9, <1>10, <1>11, <1>12, <1>13, <1>14, <1>15,
     <1>16, <1>17, <1>18 DEF Read

LEMMA TypeStep == TypeOK /\ ReaderInv /\ [Next]_vars => TypeOK'
<1> SUFFICES ASSUME TypeOK, ReaderInv, [Next]_vars PROVE TypeOK' OBVIOUS
<1>1. ASSUME NEW j \in Jobs, Begin(j) PROVE TypeOK'
  BY <1>1 DEF TypeOK, Begin, world, First, Outcomes
<1>2. CASE UNCHANGED vars BY <1>2 DEF TypeOK, vars, world, reads
<1> QED BY <1>1, <1>2, WorldType, ReadType DEF Next

LEMMA TypeInit == Init => TypeOK
<1> SUFFICES ASSUME Init PROVE TypeOK OBVIOUS
<1>1. pull \in [PRs -> Pull] BY DEF Init, Pull, Merge, Sources, Targets
<1>2. first \in Pull BY <1>1 DEF Init
<1>3. group \in [Groups -> Group] BY DEF Init, Group, Sources, Targets
<1> QED BY <1>1, <1>2, <1>3 DEF Init, TypeOK, Targets, Outcomes

-----------------------------------------------------------------------------
(* GitHub's side.                                                            *)

\* The target only grows, and commits stay as they were made.
LEMMA WorldGrows ==
    ASSUME TypeOK, World
    PROVE  /\ target <= target' /\ groups <= groups'
           /\ \A g \in 1 .. groups : group'[g] = group[g]
<1> USE DEF TypeOK, Targets
<1>1. CASE Advance \/ Protect BY <1>1 DEF Advance, Protect
<1>2. ASSUME NEW p \in PRs,
             Close(p) \/ Invalidate(p) \/ Recompute(p) \/ Enqueue(p)
               \/ \E s \in Sources : Push(p, s)
      PROVE  UNCHANGED <<target, group, groups>>
  BY <1>2 DEF Close, Invalidate, Recompute, Enqueue, Push
<1>3. ASSUME NEW e \in queue, Leave(e) \/ MergeGroup(e)
      PROVE  target <= target' /\ UNCHANGED <<group, groups>>
  BY <1>3 DEF Leave, MergeGroup
<1>4. ASSUME NEW e \in queue, Build(e)
      PROVE  /\ target' = target /\ groups <= groups'
             /\ \A g \in 1 .. groups : group'[g] = group[g]
  BY <1>4 DEF Build, Groups
<1> QED BY <1>1, <1>2, <1>3, <1>4 DEF World

\* Pushes, closings and merges take the entries of the pull request away.
LEMMA EntriesKept == TypeOK /\ EntriesLive /\ World => EntriesLive'
<1> SUFFICES ASSUME TypeOK, EntriesLive, World PROVE EntriesLive' OBVIOUS
<1> USE DEF TypeOK, EntriesLive
<1>1. \A e \in queue : e.pr \in PRs BY DEF Entry
<1>2. CASE Advance \/ Protect BY <1>2 DEF Advance, Protect
<1>3. ASSUME NEW p \in PRs, Close(p) PROVE EntriesLive'
  BY <1>1, <1>3 DEF Close, Without
<1>4. ASSUME NEW p \in PRs, Invalidate(p) \/ Recompute(p) PROVE EntriesLive'
  <2>1. \A q \in PRs : pull'[q].open = pull[q].open /\ pull'[q].source = pull[q].source
    BY <1>4 DEF Invalidate, Recompute, Pull
  <2> QED BY <1>1, <1>4, <2>1 DEF Invalidate, Recompute
<1>5. ASSUME NEW p \in PRs, Enqueue(p) PROVE EntriesLive'
  BY <1>5 DEF Enqueue
<1>6. ASSUME NEW p \in PRs, NEW s \in Sources, Push(p, s) PROVE EntriesLive'
  BY <1>1, <1>6 DEF Push, Without
<1>7. ASSUME NEW e \in queue, Leave(e) PROVE EntriesLive'
  BY <1>7 DEF Leave
<1>8. ASSUME NEW e \in queue, Build(e) PROVE EntriesLive'
  <2>1. PICK h \in {0, groups + 1} :
          queue' = (queue \ {e}) \cup {[e EXCEPT !.base = target, !.head = h]}
    BY <1>8 DEF Build
  <2>2. LET d == [e EXCEPT !.base = target, !.head = h] IN d.pr = e.pr /\ d.source = e.source
    BY DEF Entry
  <2>3. \A d \in queue' : \E c \in queue : d.pr = c.pr /\ d.source = c.source BY <2>1, <2>2
  <2> QED BY <1>8, <2>3 DEF Build
<1>9. ASSUME NEW e \in queue, MergeGroup(e) PROVE EntriesLive'
  BY <1>1, <1>9 DEF MergeGroup, Without
<1> QED BY <1>2, <1>3, <1>4, <1>5, <1>6, <1>7, <1>8, <1>9 DEF World

\* A merge is computed on the target of the moment, which only grows.
LEMMA MergesKept == TypeOK /\ MergesBehind /\ World => MergesBehind'
<1> SUFFICES ASSUME TypeOK, MergesBehind, World PROVE MergesBehind' OBVIOUS
<1> USE DEF MergesBehind
<1>1. /\ target \in Nat /\ target' \in Nat
      /\ \A p \in PRs : pull[p].merge.base \in Nat
  <2>1. TypeOK' BY WorldType
  <2> QED BY <2>1 DEF TypeOK, Targets, Pull, Merge
<1>2. target <= target' BY WorldGrows
<1>3. \A p \in PRs : pull[p].merge.base <= target' BY <1>1, <1>2
<1>4. ASSUME \A p \in PRs : /\ pull'[p].merge = pull[p].merge
                            /\ \/ pull'[p].mergeable \in {"false", "null"}
                               \/ /\ pull'[p].mergeable = pull[p].mergeable
                                  /\ pull'[p].source = pull[p].source
      PROVE  MergesBehind'
  BY <1>3, <1>4
<1>5. CASE Advance \/ Protect BY <1>4, <1>5 DEF Advance, Protect
<1>6. ASSUME NEW p \in PRs, Close(p) \/ Invalidate(p) PROVE MergesBehind'
  BY <1>4, <1>6 DEF Close, Invalidate, TypeOK, Pull
<1>6a. ASSUME NEW p \in PRs, NEW s \in Sources, Push(p, s) PROVE MergesBehind'
  <2>1. pull' = [pull EXCEPT ![p].source = s, ![p].mergeable = "null"] BY <1>6a DEF Push
  <2>2. /\ \A q \in PRs \ {p} : pull'[q] = pull[q]
        /\ pull'[p].mergeable = "null" /\ pull'[p].merge = pull[p].merge
    BY <2>1 DEF TypeOK, Pull
  <2> QED BY <1>4, <2>2
<1>7. ASSUME NEW p \in PRs, Recompute(p) PROVE MergesBehind'
  <2>1. CASE pull' = [pull EXCEPT ![p].mergeable = "false"]
    BY <1>4, <2>1 DEF TypeOK, Pull
  <2>2. CASE pull' = [pull EXCEPT ![p].mergeable = "true",
                                  ![p].merge = [source |-> pull[p].source, base |-> target]]
    <3>1. /\ \A q \in PRs \ {p} : pull'[q] = pull[q]
          /\ pull'[p].source = pull[p].source
          /\ pull'[p].merge = [source |-> pull[p].source, base |-> target]
      BY <2>2 DEF TypeOK, Pull
    <3>2. target' = target BY <1>7 DEF Recompute
    <3>3. ASSUME NEW q \in PRs, q # p
          PROVE  /\ pull'[q].merge.base <= target'
                 /\ pull'[q].mergeable = "true" => pull'[q].merge.source = pull'[q].source
      BY <1>3, <3>1, <3>3
    <3>4. pull'[p].merge.base <= target' /\ pull'[p].merge.source = pull'[p].source
      BY <1>1, <3>1, <3>2
    <3> QED BY <3>3, <3>4
  <2> QED BY <1>7, <2>1, <2>2 DEF Recompute
<1>8. ASSUME NEW p \in PRs, Enqueue(p) PROVE MergesBehind'
  BY <1>8 DEF Enqueue
<1>9. ASSUME NEW e \in queue, Leave(e) \/ Build(e) PROVE MergesBehind'
  BY <1>9 DEF Leave, Build
<1>10. ASSUME NEW e \in queue, MergeGroup(e) PROVE MergesBehind'
  BY <1>4, <1>10 DEF MergeGroup, TypeOK, Pull
<1> QED BY <1>5, <1>6, <1>7, <1>8, <1>9, <1>10, <1>6a DEF World

-----------------------------------------------------------------------------
(* The reader.                                                               *)

\* A queue step has a group in hand, and commits stay as they are: so does the selection.
LEMMA ChosenKept ==
    ASSUME TypeOK, ReaderInv, World, at \in QueueSteps
    PROVE  Chosen' = Chosen
<1>1. job.head \in 1 .. groups BY DEF ReaderInv, TypeOK, Jobs, Groups
<1>2. group'[job.head] = group[job.head] /\ UNCHANGED reads
  BY <1>1, WorldGrows DEF World, reads
<1> QED BY <1>2 DEF Chosen, Selected, Exact, Built, Matches, reads

\* A change of the world takes nothing away from what the reads have established.
LEMMA ReaderKept == TypeOK /\ ReaderInv /\ World => ReaderInv'
<1> SUFFICES ASSUME TypeOK, ReaderInv, World PROVE ReaderInv' OBVIOUS
<1>1. UNCHANGED <<at, job, base, first, nodes, final>> BY DEF World, reads
<1>2. target <= target' /\ groups <= groups' BY WorldGrows
<1>3. /\ target \in Nat /\ target' \in Nat /\ base \in Nat
      /\ groups \in Nat /\ groups' \in Nat
  BY WorldType DEF TypeOK, Targets
<1>4. at \in QueueSteps => job.head \in Nat BY DEF ReaderInv, TypeOK, Jobs, Groups
<1>5. at \in QueueSteps => Chosen' = Chosen BY ChosenKept
<1> QED BY <1>1, <1>2, <1>3, <1>4, <1>5 DEF ReaderInv, QueueSteps

\* Each request adds to it what the code has checked.
LEMMA ReaderStep == TypeOK /\ WorldInv /\ ReaderInv /\ Read => ReaderInv'
<1> SUFFICES ASSUME TypeOK, WorldInv, ReaderInv, Read PROVE ReaderInv' OBVIOUS
<1> USE DEF world, Goto, End, Confirm, First, Second, QueueSteps, PullSteps
<1>1. target \in Nat /\ base \in Nat BY DEF TypeOK, Targets
<1>2. UNCHANGED <<group, reads>> => Chosen' = Chosen
  BY DEF Chosen, Selected, Exact, Built, Matches, reads
<1>3. CASE ReadPull
  <2>1. job.pr \in PRs BY <1>3 DEF ReadPull, ReaderInv, TypeOK, Jobs
  <2>2. \/ first' = pull[job.pr] /\ first'.mergeable = "true"
        \/ at' = "idle"
    BY <1>3 DEF ReadPull
  <2>3. at' = "idle" \/ first'.merge.source = first'.source
    BY <2>1, <2>2 DEF WorldInv, MergesBehind
  <2> QED BY <1>3, <2>2, <2>3 DEF ReadPull, ReaderInv
<1>4. CASE ReadTarget BY <1>1, <1>4 DEF ReadTarget, ReaderInv
<1>5. CASE Ancestors BY <1>1, <1>5 DEF Ancestors, ReaderInv, reads
<1>6. CASE ReadAgain BY <1>1, <1>6 DEF ReadAgain, ReaderInv, reads
<1>7. CASE ReadConfirm BY <1>7 DEF ReadConfirm, ReaderInv, reads
<1>8. CASE ReadRules BY <1>8 DEF ReadRules, ReaderInv, reads
<1>9. CASE ReadEntries BY <1>9 DEF ReadEntries, ReaderInv
<1>10. CASE Select BY <1>10 DEF Select, ReaderInv, reads
<1>11. CASE Tree
  <2>1. Cardinality(Chosen) = 1 => Chosen # {} BY FS_EmptySet
  <2> QED BY <1>2, <1>11, <2>1 DEF Tree, ReaderInv, reads
<1>12. CASE ReadBranchAgain BY <1>1, <1>2, <1>12 DEF ReadBranchAgain, ReaderInv, reads
<1>13. CASE ReadRulesAgain BY <1>2, <1>13 DEF ReadRulesAgain, ReaderInv, reads
<1>14. CASE ReadEntriesAgain BY <1>2, <1>14 DEF ReadEntriesAgain, ReaderInv, reads
<1>15. CASE ReadBranchLast BY <1>1, <1>2, <1>15 DEF ReadBranchLast, ReaderInv, reads
<1>16. CASE Fails BY <1>16 DEF Fails, ReaderInv, reads
<1>17. ASSUME NEW e \in todo, ReadIdentity(e) PROVE ReaderInv'
  BY <1>1, <1>17 DEF ReadIdentity, ReaderInv, reads
<1>18. ASSUME NEW e \in todo, ReadIdentityAgain(e) PROVE ReaderInv'
  BY <1>2, <1>18 DEF ReadIdentityAgain, ReaderInv, reads
<1> QED
  BY <1>3, <1>4, <1>5, <1>6, <1>7, <1>8, <1>9, <1>10, <1>11, <1>12, <1>13, <1>14, <1>15,
     <1>16, <1>17, <1>18 DEF Read

-----------------------------------------------------------------------------
(* The moments.                                                              *)

\* What is true now has been noted, once the commits are proved.
LEMMA NowNoted ==
    ASSUME MomentInv, at \in Second, Stands
    PROVE  IF target = base THEN "bound" \in moments ELSE "moved" \in moments
BY DEF MomentInv, Now

\* Entries found as at first are those of open pull requests with their present sources.
LEMMA QueueStands ==
    ASSUME TypeOK, WorldInv, job.kind = "queue", Chosen # {}, queue = nodes
    PROVE  Stands
<1>1. PICK e \in Chosen : TRUE OBVIOUS
<1>2. e \in queue BY <1>1 DEF Chosen, Selected, Exact, Built
<1> QED BY <1>1, <1>2 DEF Stands, WorldInv, EntriesLive

\* A pull request found as at first stands, unless the target has left the base by now:
\* its merge contains the base and is on a revision that the target had.
LEMMA PullStands ==
    ASSUME TypeOK, WorldInv, ReaderInv, at = "again",
           pull[job.pr].open, SameIdentity(pull[job.pr])
    PROVE  Stands \/ base < target
<1>1. job.kind = "pull" /\ job.pr \in PRs BY DEF ReaderInv, PullSteps, TypeOK, Jobs
<1>2. pull[job.pr].source = first.source /\ pull[job.pr].merge = first.merge
  BY DEF SameIdentity
<1>3. first.merge \in Merge /\ base \in Nat /\ target \in Nat /\ first.merge.base \in Nat
  BY DEF TypeOK, Pull, Merge, Targets
<1>4. /\ first.merge.source = first.source /\ base <= first.merge.base
      /\ base <= target
  BY DEF ReaderInv, Second
<1>5. first.merge.base <= target BY <1>1, <1>2 DEF WorldInv, MergesBehind
<1>6. CASE target = base
  <2>1. first.merge.base = base BY <1>3, <1>4, <1>5, <1>6
  <2>2. first.merge = [source |-> first.source, base |-> base] BY <1>3, <1>4, <2>1 DEF Merge
  <2> QED BY <1>1, <1>2, <2>2 DEF Stands
<1>7. CASE target # base BY <1>3, <1>4, <1>7
<1> QED BY <1>6, <1>7

\* Changes are watched, and a target that has left the base does not come back.
LEMMA MomentKept == TypeOK /\ ReaderInv /\ MomentInv /\ World => MomentInv'
<1> SUFFICES ASSUME TypeOK, ReaderInv, MomentInv, World PROVE MomentInv' OBVIOUS
<1>1. UNCHANGED <<at, job, base, final>> BY DEF World, reads
<1>2. at \in Second => moments' = moments \cup Now' BY <1>1 DEF World, Watch
<1>3. /\ target \in Nat /\ target' \in Nat /\ base \in Nat /\ target <= target'
  BY WorldType, WorldGrows DEF TypeOK, Targets
<1> QED BY <1>1, <1>2, <1>3 DEF MomentInv, Second

\* The read before the last one: it agrees, so that the moment has come.
LEMMA MomentStep == TypeOK /\ WorldInv /\ ReaderInv /\ MomentInv /\ Read => MomentInv'
<1> SUFFICES ASSUME TypeOK, WorldInv, ReaderInv, MomentInv, Read PROVE MomentInv' OBVIOUS
<1> DEFINE Ready == "bound" \in moments \/ base < target
<1>1. /\ at' \in Second => Now' \subseteq moments'
      /\ moments \subseteq moments'
  BY DEF Read, Watch
<1>2. UNCHANGED <<target, base>> => (Ready => Ready') BY <1>1
<1>3. target \in Nat /\ base \in Nat BY DEF TypeOK, Targets
<1>4. at' = "branch3" => Ready'
  <2>1. SUFFICES ASSUME at' = "branch3" PROVE Ready' OBVIOUS
  <2>2. ReadEntriesAgain /\ at = "entries2" /\ queue = nodes
    BY <2>1 DEF Read, ReadPull, ReadTarget, Ancestors, ReadAgain, ReadConfirm, ReadRules,
                ReadEntries, Select, Tree, ReadBranchAgain, ReadRulesAgain, ReadEntriesAgain,
                ReadBranchLast, Fails, ReadIdentity, ReadIdentityAgain, Goto, End, Confirm
  <2>3. job.kind = "queue" /\ Chosen # {} /\ base <= target
    BY <2>2 DEF ReaderInv, QueueSteps, Second
  <2>4. Stands BY <2>2, <2>3, QueueStands
  <2>5. Ready BY <1>3, <2>2, <2>3, <2>4, NowNoted DEF Second
  <2> QED BY <1>2, <2>2, <2>5 DEF ReadEntriesAgain, world, reads
<1>5. at' = "confirm" => \/ final' \in {"pending", "closed"}
                         \/ final' = "bound" /\ Ready'
  <2>1. SUFFICES ASSUME at' = "confirm"
                 PROVE  \/ final' \in {"pending", "closed"}
                        \/ final' = "bound" /\ Ready'
    OBVIOUS
  <2>2. \/ ReadAgain
        \/ \E e \in todo : ReadIdentity(e)
    BY <2>1 DEF Read, ReadPull, ReadTarget, Ancestors, ReadAgain, ReadConfirm, ReadRules,
                ReadEntries, Select, Tree, ReadBranchAgain, ReadRulesAgain, ReadEntriesAgain,
                ReadBranchLast, Fails, ReadIdentity, ReadIdentityAgain, Goto, End, Confirm
  <2>3. CASE ReadAgain
    <3>1. CASE final' = "bound"
      <4>1. /\ at = "again" /\ SameIdentity(pull[job.pr]) /\ pull[job.pr].open
            /\ UNCHANGED <<target, base>>
        BY <2>1, <2>3, <3>1 DEF ReadAgain, Confirm, End, Unready, world, reads
      <4>2. Stands \/ base < target BY <4>1, PullStands
      <4>3. base <= target BY <4>1 DEF ReaderInv, Second
      <4>4. Ready BY <1>3, <4>1, <4>2, <4>3, NowNoted DEF Second
      <4> QED BY <1>2, <3>1, <4>1, <4>4
    <3>2. CASE final' # "bound"
      BY <2>1, <2>3, <3>2 DEF ReadAgain, Confirm, End, Unready
    <3> QED BY <3>1, <3>2
  <2>4. CASE \E e \in todo : ReadIdentity(e)
    BY <2>1, <2>4 DEF ReadIdentity, Confirm, Goto, End, Unready
  <2> QED BY <2>2, <2>3, <2>4
<1> QED BY <1>1, <1>4, <1>5 DEF MomentInv

\* What ends a resolution well had its moment.
LEMMA OutcomeStep ==
    ASSUME TypeOK, WorldInv, ReaderInv, MomentInv, BoundWasLive, OnlyTargetMoved, Read
    PROVE  BoundWasLive' /\ OnlyTargetMoved'
<1> USE DEF BoundWasLive, OnlyTargetMoved
<1>1. moments \subseteq moments' BY DEF Read, Watch
<1>2. target \in Nat /\ base \in Nat BY DEF TypeOK, Targets
<1>3. CASE ReadConfirm
  BY <1>1, <1>2, <1>3 DEF ReadConfirm, End, MomentInv
<1>4. CASE ReadBranchLast
  BY <1>1, <1>2, <1>4 DEF ReadBranchLast, End, Goto, MomentInv
<1>5. CASE ReadEntriesAgain
  <2>1. CASE outcome' = "moved" /\ at = "entries3" /\ queue = nodes
    <3>1. job.kind = "queue" /\ Chosen # {} /\ base < target
      BY <2>1 DEF ReaderInv, QueueSteps, Second
    <3>2. Stands BY <2>1, <3>1, QueueStands
    <3>3. "moved" \in moments BY <1>2, <2>1, <3>1, <3>2, NowNoted DEF Second
    <3> QED BY <1>1, <2>1, <3>3
  <2>2. CASE ~(outcome' = "moved" /\ at = "entries3" /\ queue = nodes)
    <3>1. outcome' = outcome \/ outcome' = "refused"
      BY <1>5, <2>2 DEF ReadEntriesAgain, Goto, End
    <3> QED BY <1>1, <3>1
  <2> QED BY <2>1, <2>2
<1>6. CASE outcome' = outcome \/ outcome' \in {"refused", "pending", "closed"}
  BY <1>1, <1>6
<1> QED
  BY <1>3, <1>4, <1>5, <1>6 DEF Read, ReadPull, ReadTarget, Ancestors, ReadAgain, ReadRules,
     ReadEntries, Select, Tree, ReadBranchAgain, ReadRulesAgain, Fails, ReadIdentity,
     ReadIdentityAgain, Goto, End, Confirm, Unready

-----------------------------------------------------------------------------
(* The theorems.                                                             *)

LEMMA InvInit == Init => IInv
<1> SUFFICES ASSUME Init PROVE IInv OBVIOUS
<1>1. TypeOK BY TypeInit
<1>2. WorldInv BY DEF Init, WorldInv, EntriesLive, MergesBehind
<1>3. ReaderInv /\ MomentInv /\ BoundWasLive /\ OnlyTargetMoved
  BY DEF Init, ReaderInv, MomentInv, BoundWasLive, OnlyTargetMoved, PullSteps, QueueSteps, Second
<1> QED BY <1>1, <1>2, <1>3 DEF IInv

\* IInv is inductive.
LEMMA InvStep == IInv /\ [Next]_vars => IInv'
<1> SUFFICES ASSUME IInv, [Next]_vars PROVE IInv' OBVIOUS
<1> USE DEF IInv
<1>1. TypeOK' BY TypeStep
<1>2. CASE World
  <2>1. WorldInv' BY <1>2, EntriesKept, MergesKept DEF WorldInv
  <2>2. moments \subseteq moments' /\ outcome' = outcome BY <1>2 DEF World, Watch
  <2>3. BoundWasLive' /\ OnlyTargetMoved' BY <2>2 DEF BoundWasLive, OnlyTargetMoved
  <2> QED BY <1>1, <1>2, <2>1, <2>3, ReaderKept, MomentKept
<1>3. CASE Read
  <2>1. UNCHANGED <<target, pull, queue, group>>
    BY <1>3 DEF Read, ReadPull, ReadTarget, Ancestors, ReadAgain, ReadConfirm, ReadRules,
                ReadEntries, Select, Tree, ReadBranchAgain, ReadRulesAgain, ReadEntriesAgain,
                ReadBranchLast, Fails, ReadIdentity, ReadIdentityAgain, world
  <2>2. WorldInv' BY <2>1 DEF WorldInv, EntriesLive, MergesBehind
  <2> QED BY <1>1, <1>3, <2>2, ReaderStep, MomentStep, OutcomeStep
<1>4. ASSUME NEW j \in Jobs, Begin(j) PROVE IInv'
  <2>1. WorldInv' BY <1>4 DEF Begin, world, WorldInv, EntriesLive, MergesBehind
  <2>2. j.kind \in {"pull", "queue"} BY DEF Jobs
  <2>3. ReaderInv' BY <1>4, <2>2 DEF Begin, world, ReaderInv, PullSteps, QueueSteps, Second
  <2>4. MomentInv' BY <1>4 DEF Begin, MomentInv, Second
  <2>5. BoundWasLive' /\ OnlyTargetMoved' BY <1>4 DEF Begin, BoundWasLive, OnlyTargetMoved
  <2> QED BY <1>1, <2>1, <2>3, <2>4, <2>5
<1>5. CASE UNCHANGED vars
  BY <1>1, <1>5 DEF vars, world, reads, WorldInv, EntriesLive, MergesBehind, ReaderInv, MomentInv,
     Now, Stands, Chosen, Selected, Exact, Built, Matches, BoundWasLive, OnlyTargetMoved
<1> QED BY <1>2, <1>3, <1>4, <1>5 DEF Next

\* The inductive invariant holds in every behaviour.
THEOREM Invariance == Spec => []IInv
BY InvInit, InvStep, PTL DEF Spec

\* Every variable keeps its type: each request is made for what its resolution is about.
THEOREM TypeCorrect == Spec => []TypeOK
<1>1. IInv => TypeOK BY DEF IInv
<1> QED BY <1>1, Invariance, PTL

\* A candidate that is returned existed as a whole at one moment after its proof, for any
\* number of pull requests, of changes and of failures (pr_candidate, queue_candidate).
THEOREM CandidatesWereLive == Spec => []BoundWasLive
<1>1. IInv => BoundWasLive BY DEF IInv
<1> QED BY <1>1, Invariance, PTL

\* QueueTargetMoved is raised only where, at one moment, nothing but the target had changed.
THEOREM MovedTargetsOnly == Spec => []OnlyTargetMoved
<1>1. IInv => OnlyTargetMoved BY DEF IInv
<1> QED BY <1>1, Invariance, PTL

-----------------------------------------------------------------------------
(* Many requests amount to one look.                                         *)

LEMMA NowAnswers == Now \subseteq {"bound", "moved"}
BY DEF Now

\* A request of a resolution that goes on leaves its answer open.
LEMMA ReadGoesOn ==
    ASSUME Read, at' # "idle"
    PROVE  at # "idle" /\ outcome' = outcome
BY DEF Read, ReadPull, ReadTarget, Ancestors, ReadAgain, ReadConfirm, ReadRules, ReadEntries,
   Select, Tree, ReadBranchAgain, ReadRulesAgain, ReadEntriesAgain, ReadBranchLast, Fails,
   ReadIdentity, ReadIdentityAgain, Goto, End, Confirm

\* One that ends it answers: what is about to be confirmed is an answer by then.
LEMMA ReadEnds ==
    ASSUME MomentInv, Read, at' = "idle"
    PROVE  at # "idle" /\ outcome' \in {"bound", "moved", "pending", "closed", "refused"}
<1>1. CASE ReadConfirm BY <1>1 DEF ReadConfirm, End, MomentInv
<1>2. CASE ~ReadConfirm
  BY <1>2 DEF Read, ReadPull, ReadTarget, Ancestors, ReadAgain, ReadRules, ReadEntries,
     Select, Tree, ReadBranchAgain, ReadRulesAgain, ReadEntriesAgain, ReadBranchLast, Fails,
     ReadIdentity, ReadIdentityAgain, Goto, End, Confirm, Unready
<1> QED BY <1>1, <1>2

LEMMA ReadingInit == Init => Reading!Init
BY NowAnswers DEF Init, Reading!Init

\* Changes of the world and requests that go on are moments, the last request answers.
LEMMA ReadingStep == IInv /\ [Next]_vars => [Reading!Next]_(Reading!vars)
<1> SUFFICES ASSUME IInv, [Next]_vars PROVE [Reading!Next]_(Reading!vars) OBVIOUS
<1>1. Reading!Goes BY NowAnswers DEF Reading!Goes, Now
<1>2. CASE World
  <2>1. UNCHANGED <<at, outcome>> BY <1>2 DEF World
  <2>2. moments' = moments \/ (at # "idle" /\ moments' = moments \cup Now')
    BY <1>2, <2>1 DEF World, Watch, Second
  <2>3. Reading!Moment BY <1>1, <2>1, <2>2 DEF Reading!Moment
  <2> QED BY <2>3 DEF Reading!Next
<1>3. CASE Read /\ at' # "idle"
  <2>1. at # "idle" /\ outcome' = outcome BY <1>3, ReadGoesOn
  <2>2. moments' = moments \/ moments' = moments \cup Now' BY <1>3 DEF Read, Watch
  <2>3. Reading!Moment BY <1>1, <1>3, <2>1, <2>2 DEF Reading!Moment
  <2> QED BY <2>3 DEF Reading!Next
<1>4. CASE Read /\ at' = "idle"
  <2>1. /\ at # "idle"
        /\ outcome' \in {"bound", "moved", "pending", "closed", "refused"}
    BY <1>4, ReadEnds DEF IInv
  <2>2. moments' = moments BY <1>4 DEF Read, Watch, Second
  <2>3. BoundWasLive' /\ OnlyTargetMoved' BY InvStep DEF IInv
  <2>4. outcome' \in moments \cup {"pending", "closed", "refused"}
    BY <2>1, <2>2, <2>3 DEF BoundWasLive, OnlyTargetMoved
  <2>5. Reading!Answer BY <1>1, <1>4, <2>1, <2>2, <2>4 DEF Reading!Answer
  <2> QED BY <2>5 DEF Reading!Next
<1>5. ASSUME NEW j \in Jobs, Begin(j) PROVE Reading!Ask
  <2>1. /\ at = "idle" /\ at' # "idle"
        /\ moments' = {} /\ outcome' = "none"
    BY <1>5 DEF Begin
  <2> QED BY <1>1, <2>1 DEF Reading!Ask
<1>6. CASE UNCHANGED vars
  <2>1. Now' = Now
    BY <1>6 DEF vars, world, reads, Now, Stands, Chosen, Selected, Exact, Built, Matches
  <2> QED BY <1>6, <2>1 DEF vars, Reading!vars
<1> QED BY <1>2, <1>3, <1>4, <1>5, <1>6 DEF Next, Reading!Next

\* All the requests of one resolution amount to one look at GitHub, for any number of pull
\* requests, of changes between two requests and of failures: the reader implements the read
\* of one moment, and its answer stands until the next resolution (pr_candidate,
\* queue_candidate).
THEOREM ReadsOnce == Spec => ReadsAtOneMoment
BY Invariance, ReadingInit, ReadingStep, PTL DEF Spec, ReadsAtOneMoment, Reading!Spec

-----------------------------------------------------------------------------
(* Every resolution comes to its end.                                        *)

\* How many kinds of requests may still follow, in the order the code makes them.
Stage == CASE at = "idle" -> 0
           [] at \in {"confirm", "entries3"} -> 1
           [] at \in {"again", "identities3"} -> 2
           [] at \in {"ancestors", "branch3"} -> 3
           [] at \in {"target", "entries2"} -> 4
           [] at \in {"pull", "rules2"} -> 5
           [] at = "identities2" -> 6
           [] at = "identities" -> 7
           [] at = "select" -> 8
           [] at = "branch" -> 9
           [] at = "entries" -> 10
           [] OTHER -> 11

\* What a resolution has still to ask: the identities of one kind are as many as the entries.
Left == Stage * (Cardinality(Entry) + 1) + Cardinality(todo)

LEMMA EntriesAreFinite ==
    ASSUME IsFiniteSet(PRs)
    PROVE  IsFiniteSet(Entry)
<1>1. IsFiniteSet(Sources) /\ IsFiniteSet(Targets) /\ IsFiniteSet(0 .. MaxGroup)
  BY FS_Interval DEF Sources, Targets
<1> DEFINE Tuples == (PRs \X Sources) \X (Targets \X (0 .. MaxGroup))
           entry(t) == [pr |-> t[1][1], source |-> t[1][2], base |-> t[2][1], head |-> t[2][2]]
<1>2. IsFiniteSet(Tuples)
  <2>1. IsFiniteSet(PRs \X Sources) /\ IsFiniteSet(Targets \X (0 .. MaxGroup))
    BY <1>1, FS_Product
  <2> QED BY <2>1, FS_Product
<1> DEFINE f == [t \in Tuples |-> entry(t)]
<1>3. ASSUME NEW t \in Tuples PROVE f[t] \in Entry
  <2>1. t[1][1] \in PRs /\ t[1][2] \in Sources /\ t[2][1] \in Targets /\ t[2][2] \in 0 .. MaxGroup
    OBVIOUS
  <2> QED BY <2>1 DEF Entry
<1>4. ASSUME NEW e \in Entry PROVE \E t \in Tuples : f[t] = e
  <2>1. <<<<e.pr, e.source>>, <<e.base, e.head>>>> \in Tuples BY DEF Entry
  <2>2. e = f[<<<<e.pr, e.source>>, <<e.base, e.head>>>>] BY <2>1 DEF Entry
  <2> QED BY <2>1, <2>2
<1>5. f \in Surjection(Tuples, Entry)
  <2>1. f \in [Tuples -> Entry] BY <1>3
  <2> QED BY <2>1, <1>4 DEF Surjection
<1> QED BY <1>2, <1>5, FS_Surjection

\* A request either is the last of its kind or deals with one more entry.
LEMMA StageFalls ==
    ASSUME TypeOK, Read
    PROVE  /\ Stage \in 0 .. 11 /\ Stage' \in 0 .. 11
           /\ \/ Stage' < Stage
              \/ Stage' = Stage /\ \E e \in todo : todo' = todo \ {e}
<1> USE DEF Goto, End, Confirm, Stage
<1>1. Stage \in 0 .. 11 /\ Stage' \in 0 .. 11 OBVIOUS
<1>2. CASE ReadPull BY <1>2 DEF ReadPull
<1>3. CASE ReadTarget BY <1>3 DEF ReadTarget
<1>4. CASE Ancestors BY <1>4 DEF Ancestors
<1>5. CASE ReadAgain BY <1>5 DEF ReadAgain
<1>6. CASE ReadConfirm BY <1>6 DEF ReadConfirm
<1>7. CASE ReadRules BY <1>7 DEF ReadRules
<1>8. CASE ReadEntries BY <1>8 DEF ReadEntries
<1>9. CASE Select BY <1>9 DEF Select
<1>10. CASE Tree BY <1>10 DEF Tree
<1>11. CASE ReadBranchAgain BY <1>11 DEF ReadBranchAgain
<1>12. CASE ReadRulesAgain BY <1>12 DEF ReadRulesAgain
<1>13. CASE ReadEntriesAgain BY <1>13 DEF ReadEntriesAgain
<1>14. CASE ReadBranchLast BY <1>14 DEF ReadBranchLast
<1>15. CASE Fails
  <2>1. at \in First \cup Second BY <1>15 DEF Fails, TypeOK
  <2> QED BY <1>15, <2>1 DEF Fails, First, Second
<1>16. ASSUME NEW e \in todo, ReadIdentity(e)
       PROVE  Stage' < Stage \/ (Stage' = Stage /\ todo' = todo \ {e})
  BY <1>16 DEF ReadIdentity
<1>17. ASSUME NEW e \in todo, ReadIdentityAgain(e)
       PROVE  Stage' < Stage \/ (Stage' = Stage /\ todo' = todo \ {e})
  BY <1>17 DEF ReadIdentityAgain
<1> QED
  BY <1>1, <1>2, <1>3, <1>4, <1>5, <1>6, <1>7, <1>8, <1>9, <1>10, <1>11, <1>12, <1>13, <1>14,
     <1>15, <1>16, <1>17 DEF Read

\* A stage weighs more than all the entries of the next.
LEMMA Lexicographic ==
    ASSUME NEW n \in Nat, NEW i \in 0 .. 11, NEW j \in 0 .. 11, NEW k \in 0 .. n, NEW l \in Nat,
           j < i
    PROVE  j * (n + 1) + k < i * (n + 1) + l
<1>1. i * (n + 1) >= (j + 1) * (n + 1)
  <2>1. i - j - 1 \in Nat OBVIOUS
  <2>2. (i - j - 1) * (n + 1) \in Nat BY <2>1
  <2>3. i * (n + 1) = (j + 1) * (n + 1) + (i - j - 1) * (n + 1) OBVIOUS
  <2> QED BY <2>2, <2>3
<1>2. (j + 1) * (n + 1) = j * (n + 1) + n + 1 OBVIOUS
<1>3. i * (n + 1) \in Nat /\ j * (n + 1) \in Nat OBVIOUS
<1> QED BY <1>1, <1>2, <1>3

LEMMA LeftType ==
    ASSUME IsFiniteSet(PRs), TypeOK
    PROVE  /\ Cardinality(Entry) \in Nat /\ IsFiniteSet(todo)
           /\ Cardinality(todo) \in 0 .. Cardinality(Entry)
           /\ Left \in Nat
<1>1. IsFiniteSet(Entry) BY EntriesAreFinite
<1>2. Cardinality(Entry) \in Nat BY <1>1, FS_CardinalityType
<1>3. /\ IsFiniteSet(todo) /\ Cardinality(todo) \in Nat
      /\ Cardinality(todo) <= Cardinality(Entry)
  BY <1>1, FS_Subset, FS_CardinalityType DEF TypeOK
<1>4. Stage \in Nat BY DEF Stage
<1>5. Stage * (Cardinality(Entry) + 1) \in Nat BY <1>2, <1>4
<1> QED BY <1>1, <1>2, <1>3, <1>5 DEF Left

LEMMA RequestsLessen ==
    ASSUME IsFiniteSet(PRs), IInv, Read
    PROVE  Left' < Left
<1>1. TypeOK /\ TypeOK' BY TypeStep DEF IInv, Next
<1>2. /\ Cardinality(Entry) \in Nat /\ IsFiniteSet(todo)
      /\ Cardinality(todo) \in 0 .. Cardinality(Entry)
      /\ Cardinality(todo') \in 0 .. Cardinality(Entry)
  <2>1. todo' \subseteq Entry BY <1>1 DEF TypeOK
  <2>2. IsFiniteSet(Entry) BY EntriesAreFinite
  <2>3. Cardinality(todo') \in 0 .. Cardinality(Entry)
    BY <2>1, <2>2, FS_Subset, FS_CardinalityType
  <2> QED BY <1>1, <2>3, LeftType
<1>3. Stage \in 0 .. 11 /\ Stage' \in 0 .. 11 BY <1>1, StageFalls
<1>4. CASE Stage' < Stage
  BY <1>2, <1>3, <1>4, Lexicographic DEF Left
<1>5. ASSUME NEW e \in todo, Stage' = Stage, todo' = todo \ {e} PROVE Left' < Left
  <2>1. Cardinality(todo') = Cardinality(todo) - 1 BY <1>2, <1>5, FS_RemoveElement
  <2>2. Stage * (Cardinality(Entry) + 1) \in Nat BY <1>2, <1>3
  <2> QED BY <1>2, <1>5, <2>1, <2>2 DEF Left
<1> QED BY <1>1, <1>4, <1>5, StageFalls

\* No resolution reads for ever: with every request fewer may follow, a natural number that
\* no change of the world raises, not even a target that moves during the last reads
\* (pr_candidate, _current_queue_candidate).
THEOREM ResolutionsEnd ==
    ASSUME IsFiniteSet(PRs)
    PROVE  Spec => /\ [](Left \in Nat)
                   /\ [][/\ Read => Left' < Left
                         /\ World => Left' = Left]_vars
<1>1. IInv => Left \in Nat BY LeftType DEF IInv
<1>2. IInv /\ [Next]_vars => [(Read => Left' < Left) /\ (World => Left' = Left)]_vars
  <2>1. World => Left' = Left BY DEF World, Left, Stage
  <2> QED BY <2>1, RequestsLessen
<1> QED BY <1>1, <1>2, Invariance, PTL DEF Spec

-----------------------------------------------------------------------------
(* A pull request at rest is not refused.                                    *)

Resolves(p) == [kind |-> "pull", pr |-> p]

\* Neither the pull request nor the target moves, and no request fails.
Quiet(p) ==
    /\ Mergeable(p)'
    /\ UNCHANGED <<pull[p], target>>
    /\ ~Fails

\* Whatever a resolution of a pull request at rest has read is as it was.
Agreeing(p) ==
    /\ Mergeable(p)
    /\ job = Resolves(p) /\ at # "idle" =>
         /\ at \in PullSteps \cup {"confirm"}
         /\ at # "pull" => first = pull[p]
         /\ at \in {"ancestors", "again", "confirm"} => base = target
         /\ at = "confirm" => final = "bound"

LEMMA AgreeingStep ==
    ASSUME NEW p \in PRs, TypeOK, Agreeing(p), [Next]_vars, [Quiet(p)]_vars
    PROVE  /\ Agreeing(p)'
           /\ job = Resolves(p) /\ at # "idle" /\ at' = "idle" => outcome' = "bound"
<1> DEFINE Goal == /\ Agreeing(p)'
                   /\ job = Resolves(p) /\ at # "idle" /\ at' = "idle" => outcome' = "bound"
<1> USE DEF Agreeing
<1>1. CASE UNCHANGED vars
  BY <1>1 DEF vars, world, reads, Mergeable
<1>2. SUFFICES ASSUME Quiet(p), Next PROVE Goal BY <1>1
<1>3. Mergeable(p)' /\ pull'[p] = pull[p] /\ target' = target /\ ~Fails BY <1>2 DEF Quiet
<1>4. CASE World BY <1>3, <1>4 DEF World, reads
<1>5. ASSUME NEW j \in Jobs, Begin(j) PROVE Goal
  <2>1. j = Resolves(p) => at' = "pull" BY <1>5 DEF Begin, Resolves
  <2> QED BY <1>3, <1>5, <2>1 DEF Begin, PullSteps
<1>6. CASE Read /\ job # Resolves(p)
  <2>1. job' = job
    BY <1>6 DEF Read, ReadPull, ReadTarget, Ancestors, ReadAgain, ReadConfirm, ReadRules,
                ReadEntries, Select, Tree, ReadBranchAgain, ReadRulesAgain, ReadEntriesAgain,
                ReadBranchLast, Fails, ReadIdentity, ReadIdentityAgain, reads
  <2> QED BY <1>3, <1>6, <2>1
<1>7. CASE Read /\ job = Resolves(p)
  <2> USE DEF Goto, End, Confirm, world, reads, PullSteps
  <2>1. at \in {"pull", "target", "ancestors", "again", "confirm"}
    BY <1>7 DEF Read, ReadPull, ReadTarget, Ancestors, ReadAgain, ReadConfirm, ReadRules,
                ReadEntries, Select, Tree, ReadBranchAgain, ReadRulesAgain, ReadEntriesAgain,
                ReadBranchLast, Fails, ReadIdentity, ReadIdentityAgain
  <2>2. \/ ReadPull \/ ReadTarget \/ Ancestors \/ ReadAgain \/ ReadConfirm
    BY <1>3, <1>7, <2>1 DEF Read, ReadRules, ReadEntries, Select, Tree, ReadBranchAgain,
       ReadRulesAgain, ReadEntriesAgain, ReadBranchLast, ReadIdentity, ReadIdentityAgain
  <2>3. job.pr = p BY <1>7 DEF Resolves
  <2>4. /\ pull[p].open /\ pull[p].mergeable = "true"
        /\ pull[p].merge = [source |-> pull[p].source, base |-> target]
        /\ pull[p].source \in Nat /\ target \in Nat
    BY DEF Mergeable, TypeOK, Pull, Sources, Targets
  <2>5. CASE ReadPull
    <3>1. at' = "target" /\ first' = pull[p] /\ job' = job
      BY <2>3, <2>4, <2>5 DEF ReadPull, IsUnready
    <3> QED BY <1>3, <1>7, <3>1
  <2>6. CASE ReadTarget
    <3>1. /\ at = "target" /\ at' = "ancestors" /\ base' = target
          /\ first' = first /\ job' = job
      BY <2>1, <2>6 DEF ReadTarget
    <3> QED BY <1>3, <1>7, <3>1
  <2>7. CASE Ancestors
    <3>1. base <= first.merge.base /\ first.source <= first.merge.source
      BY <1>7, <2>4, <2>7 DEF Ancestors
    <3> QED BY <1>3, <1>7, <2>7, <3>1 DEF Ancestors
  <2>8. CASE ReadAgain
    <3>1. SameIdentity(pull[job.pr]) /\ ~IsUnready(pull[job.pr])
      BY <1>7, <2>3, <2>4, <2>8 DEF ReadAgain, SameIdentity, IsUnready
    <3>2. Confirm("bound") /\ UNCHANGED reads
      BY <2>3, <2>4, <2>8, <3>1 DEF ReadAgain
    <3> QED BY <1>3, <1>7, <2>8, <3>2 DEF ReadAgain
  <2>9. CASE ReadConfirm BY <1>3, <1>7, <2>9 DEF ReadConfirm
  <2> QED BY <2>2, <2>5, <2>6, <2>7, <2>8, <2>9
<1> QED BY <1>2, <1>4, <1>5, <1>6, <1>7 DEF Next

\* The double reads refuse nobody who stands still: from any moment at which a pull request
\* has its merge and stops moving, each resolution of it that begins ends with the candidate,
\* whatever the others and the queue do, unless a request fails (pr_candidate).
THEOREM QuietBinds ==
    ASSUME NEW p \in PRs
    PROVE  Spec => [](at = "idle" /\ Mergeable(p) /\ [][Quiet(p)]_vars =>
                        [][job = Resolves(p) /\ at # "idle" /\ at' = "idle" =>
                              outcome' = "bound"]_vars)
<1>1. at = "idle" /\ Mergeable(p) => Agreeing(p) BY DEF Agreeing
<1>2. IInv => TypeOK BY DEF IInv
<1>3. TypeOK /\ Agreeing(p) /\ [Next]_vars /\ [Quiet(p)]_vars => Agreeing(p)'
  BY AgreeingStep
<1>4. TypeOK /\ Agreeing(p) /\ [Next]_vars /\ [Quiet(p)]_vars =>
        [job = Resolves(p) /\ at # "idle" /\ at' = "idle" => outcome' = "bound"]_vars
  BY AgreeingStep
<1> QED BY <1>1, <1>2, <1>3, <1>4, Invariance, PTL DEF Spec
=============================================================================
