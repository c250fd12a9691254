----------------------- MODULE ServiceFrontierProofs -----------------------
(***************************************************************************)
(* Proofs about ServiceFrontier: its type invariant, its inductive         *)
(* invariant IInv and what follows from it, for every number of runs, all  *)
(* creation times that grow with the run ids, and every set of budgets and *)
(* of faults; that a frontier without faults does not suspend itself; and  *)
(* that every run's reading of the history ends.                           *)
(***************************************************************************)
EXTENDS ServiceFrontier, FiniteSetTheorems, TLAPS

USE DEF Runs

\* The state of a service that found no earlier one is a payload record.
LEMMA NoStateType == NoState \in Payload
BY RunsAssumption DEF NoState, Payload

\* What a run uploads is such a record.
LEMMA UploadType ==
    ASSUME NEW r \in Runs, TypeOK
    PROVE  [id |-> r, ledger |-> ledger[r], authority |-> authority[r],
            fence |-> fence[r], pred |-> checkpoint[r]] \in Payload
BY RunsAssumption DEF TypeOK, Payload

\* The types of the fields of a payload record.
LEMMA PayloadFields ==
    ASSUME NEW p \in Payload
    PROVE  /\ p.id \in 0 .. NRuns /\ p.pred \in 0 .. NRuns
           /\ p.ledger \in SUBSET Keys
           /\ p.authority \in BOOLEAN /\ p.fence \in BOOLEAN
BY DEF Payload

\* The types of the fields of the records that the runs have uploaded and restored.
LEMMA StoredFields ==
    ASSUME TypeOK, NEW r \in Runs
    PROVE  /\ payload[r].ledger \in SUBSET Keys /\ prior[r].ledger \in SUBSET Keys
           /\ payload[r].authority \in BOOLEAN /\ payload[r].fence \in BOOLEAN
           /\ prior[r].fence \in BOOLEAN
           /\ AnchorId(r) \in 0 .. NRuns
<1>1. payload[r] \in Payload /\ prior[r] \in Payload BY DEF TypeOK
<1> QED BY <1>1, PayloadFields DEF AnchorId

\* A step keeps every variable in its type.
LEMMA TypeStep == TypeOK /\ [Next]_vars => TypeOK'
<1> SUFFICES ASSUME TypeOK, [Next]_vars PROVE TypeOK' OBVIOUS
<1> USE RunsAssumption, NoStateType, UploadType DEF TypeOK, Statuses, Completed, Steps
<1>1. ASSUME NEW r \in Runs, Create(r) PROVE TypeOK'
  BY <1>1 DEF Create, reader, context
<1>2. ASSUME NEW r \in Runs, Start(r) PROVE TypeOK'
  BY <1>2 DEF Start, Fresh
<1>3. ASSUME NEW r \in Runs, Fault(r) PROVE TypeOK'
  <2>1. CASE Skip(r) BY <2>1 DEF Skip, reader, context
  <2>2. CASE Cancel(r) BY <2>2 DEF Cancel, reader, context
  <2>3. CASE Crash(r) BY <2>3 DEF Crash, Fresh
  <2>4. CASE Rerun(r) BY <2>4 DEF Rerun, Fresh
  <2>5. CASE Expire(r) BY <2>5 DEF Expire, reader, context
  <2> QED BY <1>3, <2>1, <2>2, <2>3, <2>4, <2>5 DEF Fault
<1>4. ASSUME NEW r \in Runs, Read(r) PROVE TypeOK'
  <2>1. CASE Restore(r)
    <3>1. \/ prior' = [prior EXCEPT ![r] = NoState]
          \/ \E s \in Runs : prior' = [prior EXCEPT ![r] = payload[s]]
      BY <2>1, Zenon DEF Restore
    <3>2. prior' \in [Runs -> Payload] BY <3>1
    <3> QED BY <2>1, <3>2 DEF Restore, github, context
  <2>2. CASE Anchor(r)
    <3>1. AnchorId(r) \in 0 .. NRuns BY StoredFields
    <3>2. CASE AnchorId(r) = 0 BY <2>2, <3>2 DEF Anchor, github
    <3>3. CASE AnchorId(r) # 0
      <4>1. AnchorId(r) \in Runs BY <3>1, <3>3, RunsAssumption
      <4>2. /\ payload[AnchorId(r)].ledger \in SUBSET Keys
            /\ payload[AnchorId(r)].fence \in BOOLEAN
        BY <4>1, StoredFields
      <4>3. /\ cands' = [cands EXCEPT ![r] = {AnchorId(r)}]
            /\ gathered' = [gathered EXCEPT ![r] = payload[AnchorId(r)].ledger]
            /\ fence' = [fence EXCEPT ![r] = payload[AnchorId(r)].fence]
        BY <2>2, <3>3 DEF Anchor
      <4>4. /\ cands' \in [Runs -> SUBSET Runs]
            /\ gathered' \in [Runs -> SUBSET Keys]
            /\ fence' \in [Runs -> BOOLEAN]
        BY <4>1, <4>2, <4>3
      <4> QED BY <2>2, <4>4 DEF Anchor, github
    <3> QED BY <3>2, <3>3
  <2>3. CASE List(r) BY <2>3 DEF List, Window, github, context
  <2>4. CASE Decide(r)
    <3>1. authority' \in [Runs -> BOOLEAN] BY <2>4 DEF Decide, MayLead
    <3>2. fence' \in [Runs -> BOOLEAN] BY <2>4, StoredFields DEF Decide
    <3>3. ledger' \in [Runs -> SUBSET Keys] BY <2>4, StoredFields DEF Decide, Merged
    <3>4. checkpoint' \in [Runs -> 0 .. NRuns]
      <4>1. \/ UNCHANGED checkpoint
            \/ \E c \in cands[r] : checkpoint' = [checkpoint EXCEPT ![r] = c]
        BY <2>4 DEF Decide
      <4>2. cands[r] \subseteq 0 .. NRuns OBVIOUS
      <4> QED BY <4>1, <4>2
    <3> QED BY <2>4, <3>1, <3>2, <3>3, <3>4 DEF Decide, github, reader
  <2>5. CASE Abort(r)
    <3>1. authority' \in [Runs -> BOOLEAN] BY <2>5 DEF Abort, MayLead
    <3>2. ledger' \in [Runs -> SUBSET Keys] BY <2>5, StoredFields DEF Abort
    <3> QED BY <2>5, <3>1, <3>2 DEF Abort, github
  <2>6. ASSUME NEW s \in Runs, Observe(r, s) PROVE TypeOK'
    <3>1. /\ cands' \in [Runs -> SUBSET Runs] /\ queued' \in [Runs -> SUBSET Runs]
          /\ pend' \in [Runs -> BOOLEAN] /\ fence' \in [Runs -> BOOLEAN]
          /\ gathered' \in [Runs -> SUBSET Keys]
      <4>1. CASE SeeQueued(r, s) BY <4>1 DEF SeeQueued
      <4>2. CASE SeeOpaque(r, s) BY <4>2 DEF SeeOpaque
      <4>3. CASE SeeRunning(r, s) BY <4>3 DEF SeeRunning
      <4>4. CASE SeeSkipped(r, s) BY <4>4 DEF SeeSkipped
      <4>5. CASE SeeEvidence(r, s) BY <4>5, StoredFields DEF SeeEvidence
      <4> QED BY <2>6, <4>1, <4>2, <4>3, <4>4, <4>5 DEF Observe
    <3> QED BY <2>6, <3>1 DEF Observe, github
  <2>7. ASSUME NEW s \in Runs, ReadJobs(r, s) PROVE TypeOK'
    BY <2>7 DEF ReadJobs, github, context
  <2> QED BY <1>4, <2>1, <2>2, <2>3, <2>4, <2>5, <2>6, <2>7 DEF Read
<1>5. ASSUME NEW r \in Runs, Act(r) PROVE TypeOK'
  <2>1. CASE RequireEffect(r) BY <2>1 DEF RequireEffect, github, reader
  <2>2. CASE Decline(r) BY <2>2 DEF Decline, github, reader, context
  <2>3. CASE Complete(r)
    <3>1. payload' \in [Runs -> Payload] BY <2>3, UploadType DEF Complete
    <3>2. live' \in [Runs -> BOOLEAN] BY <2>3 DEF Complete
    <3>3. status' \in [Runs -> Statuses] BY <2>3 DEF Complete
    <3> QED BY <2>3, <3>1, <3>2, <3>3 DEF Complete, Fresh
  <2>4. ASSUME NEW k \in Keys, Effect(r, k) PROVE TypeOK'
    BY <2>4 DEF Effect, github, reader
  <2> QED BY <1>5, <2>1, <2>2, <2>3, <2>4 DEF Act
<1>6. CASE UNCHANGED vars BY <1>6 DEF vars, github, reader, context
<1> QED BY <1>1, <1>2, <1>3, <1>4, <1>5, <1>6 DEF Next

\* The type invariant holds in every behaviour.
THEOREM TypeCorrect == Spec => []TypeOK
<1>1. Init => TypeOK
  BY RunsAssumption, NoStateType DEF Init, TypeOK, Statuses, Completed, Steps
<1>2. TypeOK /\ [Next]_vars => TypeOK' BY TypeStep
<1> QED BY <1>1, <1>2, PTL DEF Spec

-----------------------------------------------------------------------------
(* Each step keeps the rest of IInv.  The lemmas first say which claims the  *)
(* step can create (Eligible' => Eligible but for List), then take the       *)
(* invariants one at a time.                                                 *)

\* The steps of a waiting run: only its status changes, and it never was a barrier.
LEMMA WaitingStep ==
    ASSUME IInv, TypeOK', NEW r \in Runs, Create(r) \/ Skip(r) \/ Cancel(r)
    PROVE  IInv'
<1> USE DEF IInv, TypeOK
<1>1. /\ UNCHANGED <<attempt, payload, pc, reader, context, posts>>
      /\ status[r] \in {"absent", "queued"}
      /\ status'[r] \in {"queued", "skipped", "cancelled"}
      /\ status[r] = "absent" => status'[r] = "queued"
      /\ status[r] = "queued" => status'[r] # "queued"
      /\ \A x \in Runs : x # r => status'[x] = status[x]
  BY DEF Create, Skip, Cancel
<1>2. /\ UNCHANGED <<attempt, payload, pc, posts>>
      /\ UNCHANGED <<prior, cands, todo, queued, pend, gathered>>
      /\ UNCHANGED <<fence, ledger, authority, checkpoint>>
  BY <1>1 DEF reader, context
<1>3. attempt[r] = 1 BY <1>1 DEF ProcessInv
<1>4. \A x \in Runs : Barrier(x)' <=> Barrier(x)
  BY <1>1, <1>2, <1>3 DEF Barrier
<1>5. \A x \in Runs : Eligible(x)' => Eligible(x)
  BY <1>1, <1>2, <1>4 DEF Eligible, ProcessInv
<1>6. ProcessInv' BY <1>1, <1>2, <1>3 DEF ProcessInv
<1>7. ReaderInv' BY <1>1, <1>2 DEF ReaderInv, Ordered
<1>8. PostInv' BY <1>1, <1>2 DEF PostInv
<1>9. ArtifactInv' BY <1>1, <1>2 DEF ArtifactInv
<1>10. CheckpointInv' /\ CheckpointCovers'
  BY <1>1, <1>2, <1>5 DEF CheckpointInv, CheckpointCovers, CleanCheckpoint, Closed
<1>11. AnchorInv' BY <1>1, <1>2, <1>4, <1>5 DEF AnchorInv, Closed
<1>12. MutualInv' BY <1>2, <1>5 DEF MutualInv
<1>13. CoverInv' /\ OrderInv'
  <2>1. \A x \in Runs : Closed(x) => Closed(x)' BY <1>1, <1>2 DEF Closed
  <2> QED BY <1>2, <1>5, <2>1 DEF CoverInv, OrderInv
<1>14. AtMostOneEffect' BY <1>2 DEF AtMostOneEffect
<1> QED BY <1>6, <1>7, <1>8, <1>9, <1>10, <1>11, <1>12, <1>13, <1>14

\* What Fresh does to the process of r and leaves to the others.
LEMMA FreshStep ==
    ASSUME TypeOK, TypeOK', NEW r \in Runs, NEW step \in {"restore", "idle"}, Fresh(r, step)
    PROVE  /\ pc'[r] = step /\ cands'[r] = {} /\ todo'[r] = {} /\ queued'[r] = {} /\ ~fence'[r]
           /\ \A x \in Runs : x # r =>
                /\ pc'[x] = pc[x] /\ cands'[x] = cands[x] /\ todo'[x] = todo[x]
                /\ queued'[x] = queued[x] /\ pend'[x] = pend[x] /\ fence'[x] = fence[x]
                /\ gathered'[x] = gathered[x] /\ ledger'[x] = ledger[x]
                /\ authority'[x] = authority[x] /\ checkpoint'[x] = checkpoint[x]
BY DEF Fresh, TypeOK

\* A process starts, dies or is started again: it knows nothing, and claims nothing.
LEMMA ProcessStep ==
    ASSUME IInv, TypeOK', NEW r \in Runs, Start(r) \/ Crash(r) \/ Rerun(r)
    PROVE  IInv'
<1> USE DEF IInv, TypeOK
<1>1. PICK step \in {"restore", "idle"} : Fresh(r, step)
  BY DEF Start, Crash, Rerun
<1>2. /\ UNCHANGED <<payload, posts>>
      /\ \A x \in Runs : x # r => status'[x] = status[x] /\ attempt'[x] = attempt[x]
      /\ status'[r] \in {"in_progress", "failure"} /\ status[r] # "absent"
      /\ status'[r] = "in_progress" <=> step = "restore"
      /\ attempt'[r] # attempt[r] => attempt'[r] = 2 /\ status'[r] = "in_progress"
      /\ attempt'[r] = 1 /\ status'[r] = "in_progress" => status[r] = "queued"
      /\ status[r] = "queued" => attempt'[r] = attempt[r] /\ status'[r] = "in_progress"
      /\ status[r] = "success" => attempt'[r] = 2
  <2>1. step = "restore" <=> pc'[r] = "restore" BY <1>1, FreshStep
  <2>2. CASE Start(r) BY <2>1, <2>2 DEF Start, Fresh
  <2>3. CASE Crash(r) BY <2>1, <2>3 DEF Crash, Fresh
  <2>4. CASE Rerun(r) BY <2>1, <2>4 DEF Rerun, Fresh, Completed
  <2> QED BY <2>2, <2>3, <2>4
<1>3. /\ pc'[r] = step /\ cands'[r] = {} /\ todo'[r] = {} /\ queued'[r] = {} /\ ~fence'[r]
      /\ \A x \in Runs : x # r =>
           /\ pc'[x] = pc[x] /\ cands'[x] = cands[x] /\ todo'[x] = todo[x]
           /\ queued'[x] = queued[x] /\ pend'[x] = pend[x] /\ fence'[x] = fence[x]
           /\ gathered'[x] = gathered[x] /\ ledger'[x] = ledger[x]
           /\ authority'[x] = authority[x] /\ checkpoint'[x] = checkpoint[x]
  BY <1>1, FreshStep
<1>4. \A x \in Runs : (Barrier(x) => Barrier(x)') /\ (Closed(x) => Closed(x)')
  BY <1>2 DEF Barrier, Closed
<1>5. \A x \in Runs : Eligible(x)' => x # r /\ Eligible(x)
  <2>1. ASSUME NEW x \in Runs, Eligible(x)' PROVE x # r /\ Eligible(x)
    <3>1. x # r BY <1>3, <2>1 DEF Eligible
    <3>2. \A a \in queued[x] : status[a] = "queued"
      BY <1>2, <1>3, <2>1, <3>1 DEF Eligible
    <3> QED BY <1>2, <1>3, <1>4, <2>1, <3>1, <3>2 DEF Eligible
  <2> QED BY <2>1
<1>6. ProcessInv' BY <1>2, <1>3 DEF ProcessInv
<1>7. ReaderInv' BY <1>2, <1>3 DEF ReaderInv, Ordered
<1>8. PostInv' BY <1>2, <1>3 DEF PostInv
<1>9. ArtifactInv' BY <1>2 DEF ArtifactInv
<1>10. CheckpointInv' /\ CheckpointCovers'
  <2>1. \A a \in Runs : CleanCheckpoint(a)' => CleanCheckpoint(a) BY <1>2 DEF CleanCheckpoint
  <2>2. CheckpointInv' BY <1>2, <1>4, <1>5, <2>1 DEF CheckpointInv
  <2>3. CheckpointCovers' BY <1>2, <2>1 DEF CheckpointCovers
  <2> QED BY <2>2, <2>3
<1>11. AnchorInv'
  <2> SUFFICES ASSUME NEW x \in Runs, pc'[x] = "list", ~fence'[x], NEW a \in cands'[x]
               PROVE  /\ Barrier(a)' /\ status'[a] # "absent" /\ Created[a] >= Floor
                      /\ \A s \in Runs : s < a => ~Eligible(s)'
                      /\ \A q \in posts' : q[1] <= a => q[2] \in gathered'[x] /\ Closed(q[1])'
    BY DEF AnchorInv
  <2>1. x # r BY <1>3
  <2>2. pc[x] = "list" /\ ~fence[x] /\ a \in cands[x] /\ gathered'[x] = gathered[x] BY <1>3, <2>1
  <2> QED BY <1>2, <1>4, <1>5, <2>2 DEF AnchorInv
<1>12. MutualInv' BY <1>3, <1>5 DEF MutualInv
<1>13. CoverInv' /\ OrderInv' BY <1>2, <1>3, <1>4, <1>5 DEF CoverInv, OrderInv
<1>14. AtMostOneEffect' BY <1>2 DEF AtMostOneEffect
<1> QED BY <1>6, <1>7, <1>8, <1>9, <1>10, <1>11, <1>12, <1>13, <1>14

\* Expiry and the restored state are not part of any claim.
LEMMA QuietStep ==
    ASSUME IInv, TypeOK', NEW r \in Runs, Expire(r) \/ Restore(r)
    PROVE  IInv'
<1> USE DEF IInv, TypeOK
<1>1. /\ UNCHANGED <<status, attempt, payload, cands, todo, queued, pend, gathered, posts>>
      /\ UNCHANGED <<fence, ledger, authority, checkpoint>>
      /\ \A x \in Runs : x # r => pc'[x] = pc[x]
      /\ pc'[r] = pc[r] \/ (pc[r] = "restore" /\ pc'[r] = "anchor")
  <2>1. CASE Expire(r) BY <2>1 DEF Expire, reader, context
  <2>2. CASE Restore(r) BY <2>2 DEF Restore, github, context
  <2> QED BY <2>1, <2>2
<1>2. \A x \in Runs : (Eligible(x)' <=> Eligible(x)) /\ (Barrier(x)' <=> Barrier(x))
  BY <1>1 DEF Eligible, Barrier
<1>3. ProcessInv' BY <1>1 DEF ProcessInv
<1>4. ReaderInv' BY <1>1 DEF ReaderInv, Ordered
<1>5. PostInv' BY <1>1 DEF PostInv
<1>6. ArtifactInv' BY <1>1 DEF ArtifactInv
<1>7. CheckpointInv' /\ CheckpointCovers'
  BY <1>1, <1>2 DEF CheckpointInv, CheckpointCovers, CleanCheckpoint, Closed
<1>8. AnchorInv' BY <1>1, <1>2 DEF AnchorInv, Closed
<1>9. MutualInv' BY <1>1, <1>2 DEF MutualInv
<1>10. CoverInv' /\ OrderInv' BY <1>1, <1>2 DEF CoverInv, OrderInv, Closed
<1>11. AtMostOneEffect' BY <1>1 DEF AtMostOneEffect
<1> QED BY <1>3, <1>4, <1>5, <1>6, <1>7, <1>8, <1>9, <1>10, <1>11

\* The anchor a run starts its history from is a clean checkpoint or brings a fence.
LEMMA AnchorStep ==
    ASSUME IInv, TypeOK', NEW r \in Runs, Anchor(r)
    PROVE  IInv'
<1> USE DEF IInv, TypeOK
<1>1. /\ UNCHANGED <<status, attempt, payload, todo, queued, pend, posts>>
      /\ UNCHANGED <<ledger, authority, checkpoint>>
      /\ pc[r] = "anchor" /\ pc'[r] = "list"
      /\ \A x \in Runs : x # r =>
           pc'[x] = pc[x] /\ cands'[x] = cands[x] /\ gathered'[x] = gathered[x] /\ fence'[x] = fence[x]
  BY DEF Anchor, github
<1>2. \A a \in cands'[r] : ~fence'[r] =>
        CleanCheckpoint(a) /\ Created[a] >= Floor /\ gathered'[r] = payload[a].ledger
  <2>1. CASE AnchorId(r) = 0
    BY <2>1 DEF Anchor, ReaderInv
  <2>2. CASE AnchorId(r) # 0
    BY <2>2 DEF Anchor, Attested, Readable, CleanCheckpoint, ArtifactInv
  <2> QED BY <2>1, <2>2
<1>3. \A x \in Runs : Barrier(x)' <=> Barrier(x) BY <1>1 DEF Barrier
<1>4. \A x \in Runs : Eligible(x)' <=> Eligible(x)
  BY <1>1, <1>3 DEF Eligible
<1>5. ProcessInv' BY <1>1 DEF ProcessInv
<1>6. ReaderInv' BY <1>1 DEF ReaderInv, Ordered
<1>7. PostInv' BY <1>1 DEF PostInv
<1>8. ArtifactInv' BY <1>1 DEF ArtifactInv
<1>9. CheckpointInv' /\ CheckpointCovers'
  BY <1>1, <1>4 DEF CheckpointInv, CheckpointCovers, CleanCheckpoint, Closed
<1>10. AnchorInv'
  <2> SUFFICES ASSUME NEW x \in Runs, pc'[x] = "list", ~fence'[x], NEW a \in cands'[x]
               PROVE  /\ Barrier(a)' /\ status'[a] # "absent" /\ Created[a] >= Floor
                      /\ \A s \in Runs : s < a => ~Eligible(s)'
                      /\ \A q \in posts' : q[1] <= a => q[2] \in gathered'[x] /\ Closed(q[1])'
    BY DEF AnchorInv, Closed
  <2>1. CASE x # r BY <1>1, <1>3, <1>4, <2>1 DEF AnchorInv, Closed
  <2>2. CASE x = r
    <3>1. CleanCheckpoint(a) /\ Created[a] >= Floor /\ gathered'[r] = payload[a].ledger
      BY <1>2, <2>2
    <3>2. Barrier(a)' /\ status'[a] # "absent"
      BY <1>1, <3>1 DEF CleanCheckpoint, Barrier
    <3>3. \A s \in Runs : s < a => ~Eligible(s)'
      BY <1>4, <2>2, <3>1 DEF CheckpointInv, Closed
    <3>4. \A q \in posts' : q[1] <= a => q[2] \in gathered'[x] /\ Closed(q[1])'
      BY <1>1, <2>2, <3>1 DEF CheckpointCovers, CheckpointInv, Closed
    <3> QED BY <3>1, <3>2, <3>3, <3>4
  <2> QED BY <2>1, <2>2
<1>11. MutualInv' BY <1>1, <1>4 DEF MutualInv
<1>12. CoverInv' /\ OrderInv' BY <1>1, <1>4 DEF CoverInv, OrderInv, Closed, Eligible
<1>13. AtMostOneEffect' BY <1>1 DEF AtMostOneEffect
<1> QED BY <1>5, <1>6, <1>7, <1>8, <1>9, <1>10, <1>11, <1>12, <1>13

\* A run lists its history.  Whoever it does not list is older than its anchor, and
\* whoever keeps a claim against it still has to read it.
LEMMA ListStep ==
    ASSUME IInv, TypeOK', NEW r \in Runs, List(r)
    PROVE  IInv'
<1> USE DEF IInv, TypeOK
<1>1. /\ UNCHANGED <<status, attempt, payload, cands, queued, pend, gathered, posts>>
      /\ UNCHANGED <<fence, ledger, authority, checkpoint>>
      /\ pc[r] = "list" /\ pc'[r] = "read" /\ todo'[r] = Window(r) \ {r}
      /\ \A x \in Runs : x # r => pc'[x] = pc[x] /\ todo'[x] = todo[x]
  BY DEF List, github, context
<1>2. \A x \in Runs : Barrier(x)' <=> Barrier(x) BY <1>1 DEF Barrier
<1>3. \A x \in Runs : x # r => (Eligible(x)' <=> Eligible(x))
  BY <1>1, <1>2 DEF Eligible
<1>4. ASSUME Eligible(r)'
      PROVE  /\ ~fence[r] /\ Created[r] >= Floor
             /\ \A c \in cands[r] : c <= r
             /\ \A a \in todo'[r] : a > r => ~Barrier(a)
  BY <1>1, <1>2, <1>4 DEF Eligible
<1>5. ASSUME NEW s \in Runs, s # r, status[s] # "absent", Created[s] >= Floor, s \notin todo'[r]
      PROVE  \E a \in cands[r] : s < a
  <2>1. PICK a \in cands[r] : ~(Created[s] >= Created[a]) BY <1>1, <1>5 DEF Window
  <2>2. Created[s] \in Nat /\ Created[a] \in Nat BY CreatedAssumption
  <2>3. ~(a <= s)
    <3>1. CASE a = s BY <2>1, <2>2, <3>1
    <3>2. CASE a < s BY <2>1, <2>2, <3>2, CreatedMonotone
    <3> QED BY <3>1, <3>2, RunsAssumption
  <2> QED BY <2>3, RunsAssumption
<1>6. \A a \in Runs : (status[a] # "absent" /\ Created[a] >= Floor /\ Barrier(a) /\ r < a)
        => ~Eligible(r)'
  <2> SUFFICES ASSUME NEW a \in Runs, status[a] # "absent", Created[a] >= Floor, Barrier(a),
                      r < a, Eligible(r)'
               PROVE  FALSE
    OBVIOUS
  <2>1. CASE a \in todo'[r] BY <1>4, <2>1
  <2>2. CASE a \notin todo'[r]
    <3>1. PICK c \in cands[r] : a < c BY <1>5, <2>2, RunsAssumption
    <3> QED BY <1>4, <3>1, RunsAssumption
  <2> QED BY <2>1, <2>2
<1>7. ProcessInv'
  <2>1. \A s \in todo'[r] : status[s] # "absent" BY <1>1 DEF Window
  <2> QED BY <1>1, <2>1 DEF ProcessInv
<1>8. ReaderInv' BY <1>1 DEF ReaderInv, Ordered
<1>9. PostInv' BY <1>1 DEF PostInv
<1>10. ArtifactInv' BY <1>1 DEF ArtifactInv
<1>11. CheckpointInv' /\ CheckpointCovers'
  <2>1. \A a \in Runs : CleanCheckpoint(a)' <=> CleanCheckpoint(a)
    BY <1>1 DEF CleanCheckpoint
  <2>2. CheckpointCovers' BY <1>1, <2>1 DEF CheckpointCovers
  <2>3. \A a \in Runs : CleanCheckpoint(a) /\ r < a => ~Eligible(r)'
    BY <1>6 DEF CleanCheckpoint, Barrier, ArtifactInv
  <2>4. \A a, s \in Runs : CleanCheckpoint(a) /\ s < a => ~Eligible(s)'
    BY <1>3, <2>3 DEF CheckpointInv
  <2> QED BY <1>1, <2>1, <2>2, <2>4 DEF CheckpointInv, Closed
<1>12. AnchorInv'
  <2> SUFFICES ASSUME NEW x \in Runs, pc'[x] = "list", ~fence'[x], NEW a \in cands'[x]
               PROVE  /\ Barrier(a)' /\ status'[a] # "absent" /\ Created[a] >= Floor
                      /\ \A s \in Runs : s < a => ~Eligible(s)'
                      /\ \A q \in posts' : q[1] <= a => q[2] \in gathered'[x] /\ Closed(q[1])'
    BY DEF AnchorInv
  <2>1. x # r /\ pc[x] = "list" /\ ~fence[x] /\ a \in cands[x] BY <1>1
  <2>2. /\ Barrier(a) /\ status[a] # "absent" /\ Created[a] >= Floor
        /\ \A s \in Runs : s < a => ~Eligible(s)
        /\ \A q \in posts : q[1] <= a => q[2] \in gathered[x] /\ Closed(q[1])
    BY <2>1 DEF AnchorInv
  <2>3. \A s \in Runs : s < a => ~Eligible(s)' BY <1>3, <1>6, <2>2
  <2> QED BY <1>1, <1>2, <2>2, <2>3 DEF Closed
<1>13. MutualInv'
  <2>1. ASSUME NEW s \in Runs, s # r, Eligible(s), Eligible(r)' PROVE s \in todo'[r]
    <3>1. status[s] = "in_progress" /\ Created[s] >= Floor
      BY <2>1 DEF Eligible, ProcessInv
    <3>2. ASSUME s \notin todo'[r] PROVE FALSE
      <4>1. PICK a \in cands[r] : s < a BY <1>5, <2>1, <3>1, <3>2
      <4> QED BY <1>1, <1>4, <2>1, <4>1 DEF AnchorInv, Closed
    <3> QED BY <3>2
  <2> QED BY <1>1, <1>3, <2>1 DEF MutualInv
<1>14. CoverInv' /\ OrderInv'
  <2>1. ASSUME NEW p \in posts, p[1] # r, Eligible(r)', p[1] \notin todo'[r]
        PROVE  p[2] \in gathered[r] /\ Closed(p[1])
    <3>1. p[1] \in Runs /\ status[p[1]] # "absent" /\ Created[p[1]] >= Floor
      BY DEF PostInv
    <3>2. PICK a \in cands[r] : p[1] < a BY <1>5, <2>1, <3>1
    <3> QED BY <1>1, <1>4, <2>1, <3>1, <3>2, RunsAssumption DEF AnchorInv, Closed
  <2>2. ASSUME NEW p \in posts, Eligible(r)', ~(p[1] <= r), p[1] \notin todo'[r]
        PROVE  FALSE
    <3>1. p[1] \in Runs /\ status[p[1]] # "absent" /\ Created[p[1]] >= Floor
      BY DEF PostInv
    <3>2. p[1] # r BY <2>2, RunsAssumption
    <3>3. PICK a \in cands[r] : p[1] < a BY <1>5, <2>2, <3>1, <3>2
    <3> QED BY <1>4, <2>2, <3>1, <3>3, RunsAssumption
  <2> QED BY <1>1, <1>3, <2>1, <2>2 DEF CoverInv, OrderInv, Closed
<1>15. AtMostOneEffect' BY <1>1 DEF AtMostOneEffect
<1> QED BY <1>7, <1>8, <1>9, <1>10, <1>11, <1>12, <1>13, <1>14, <1>15

\* A run of the window is classified: what it could cost the reader is kept in another form.
LEMMA ObserveStep ==
    ASSUME IInv, TypeOK', NEW r \in Runs, NEW s \in Runs, Observe(r, s)
    PROVE  IInv'
<1> USE DEF IInv, TypeOK
<1>1. /\ UNCHANGED <<status, attempt, payload, pc, ledger, authority, checkpoint, posts>>
      /\ pc[r] = "read" /\ s \in todo[r] /\ todo'[r] = todo[r] \ {s}
      /\ \A x \in Runs : x # r => todo'[x] = todo[x]
  BY DEF Observe, github
<1>2. /\ \A x \in Runs : x # r =>
           /\ cands'[x] = cands[x] /\ queued'[x] = queued[x] /\ pend'[x] = pend[x]
           /\ fence'[x] = fence[x] /\ gathered'[x] = gathered[x]
      /\ cands[r] \subseteq cands'[r] /\ queued[r] \subseteq queued'[r]
      /\ queued'[r] \subseteq queued[r] \cup {s}
      /\ pend[r] => pend'[r]
      /\ fence[r] => fence'[r]
      /\ gathered[r] \subseteq gathered'[r]
      /\ ~pend'[r] /\ ~fence'[r] /\ (\A a \in queued'[r] : status[a] = "queued") =>
           /\ attempt[s] = 1 /\ status[s] \in {"queued", "skipped", "success"}
           /\ status[s] = "success" => payload[s].ledger \subseteq gathered'[r]
           /\ status[s] = "success" /\ payload[s].authority => s \in cands'[r]
  <2>1. CASE SeeQueued(r, s) BY <1>1, <2>1 DEF SeeQueued, ProcessInv
  <2>2. CASE SeeOpaque(r, s) BY <1>1, <2>2 DEF SeeOpaque
  <2>3. CASE SeeRunning(r, s) BY <1>1, <2>3 DEF SeeRunning
  <2>4. CASE SeeSkipped(r, s) BY <1>1, <2>4 DEF SeeSkipped
  <2>5. CASE SeeEvidence(r, s) BY <1>1, <2>5, StoredFields DEF SeeEvidence, Attested, Readable
  <2> QED BY <2>1, <2>2, <2>3, <2>4, <2>5 DEF Observe
<1>3. \A x \in Runs : Barrier(x)' <=> Barrier(x) BY <1>1 DEF Barrier
<1>4. \A x \in Runs : x # r => (Eligible(x)' <=> Eligible(x))
  BY <1>1, <1>2, <1>3 DEF Eligible
<1>5. Eligible(r)' => Eligible(r)
  <2> SUFFICES ASSUME Eligible(r)' PROVE Eligible(r) OBVIOUS
  <2>1. ~pend'[r] /\ ~fence'[r] /\ \A a \in queued'[r] : status[a] = "queued"
    BY <1>1 DEF Eligible
  <2>2. \A c \in cands[r] : c <= r BY <1>2 DEF Eligible
  <2>3. \A a \in queued[r] : status[a] = "queued" BY <1>1, <1>2 DEF Eligible
  <2>4. ASSUME NEW a \in todo[r], a > r PROVE ~Barrier(a)
    <3>1. CASE a # s BY <1>1, <1>3, <2>4, <3>1 DEF Eligible
    <3>2. CASE a = s
      <4>1. ~(s \in cands'[r]) BY <2>4, <3>2, RunsAssumption DEF Eligible
      <4> QED BY <1>2, <2>1, <3>2, <4>1 DEF Barrier
    <3> QED BY <3>1, <3>2
  <2> QED BY <1>1, <1>2, <2>1, <2>2, <2>3, <2>4 DEF Eligible
<1>6. ProcessInv'
  <2>1. \A x \in Runs : \A a \in todo'[x] \cup queued'[x] : a \in todo[x] \cup queued[x]
    BY <1>1, <1>2
  <2> QED BY <1>1, <2>1 DEF ProcessInv
<1>7. ReaderInv' BY <1>1, <1>2 DEF ReaderInv, Ordered
<1>8. PostInv' BY <1>1 DEF PostInv
<1>9. ArtifactInv' BY <1>1 DEF ArtifactInv
<1>10. CheckpointInv' /\ CheckpointCovers'
  BY <1>1, <1>4, <1>5 DEF CheckpointInv, CheckpointCovers, CleanCheckpoint, Closed
<1>11. AnchorInv' BY <1>1, <1>2, <1>3, <1>4, <1>5 DEF AnchorInv, Closed
<1>12. MutualInv'
  <2>1. Eligible(r)' => status[s] # "in_progress"
    BY <1>1, <1>2 DEF Eligible
  <2>2. \A x \in Runs : Eligible(x) => status[x] = "in_progress"
    BY DEF Eligible, ProcessInv
  <2> QED BY <1>1, <1>4, <1>5, <2>1, <2>2 DEF MutualInv
<1>13. CoverInv' /\ OrderInv'
  <2>1. ASSUME Eligible(r)', NEW p \in posts
        PROVE  /\ p[1] # r => (p[2] \in gathered'[r] /\ Closed(p[1])') \/ p[1] \in todo'[r]
               /\ p[1] <= r \/ p[1] \in todo'[r]
    <3>1. CASE p[1] # s BY <1>1, <1>2, <1>5, <2>1, <3>1 DEF CoverInv, OrderInv, Closed
    <3>2. CASE p[1] = s
      <4>1. ~pend'[r] /\ ~fence'[r] /\ \A a \in queued'[r] : status[a] = "queued"
        BY <1>1, <2>1 DEF Eligible
      <4>2. attempt[s] = 1 /\ status[s] = "success" BY <1>2, <3>2, <4>1 DEF PostInv
      <4>3. payload[s].authority /\ p[2] \in payload[s].ledger BY <3>2, <4>2 DEF PostInv
      <4>4. s \in cands'[r] /\ p[2] \in gathered'[r] BY <1>2, <4>1, <4>2, <4>3
      <4>5. Closed(p[1])' BY <1>1, <3>2, <4>2 DEF Closed
      <4> QED BY <2>1, <3>2, <4>4, <4>5 DEF Eligible
    <3> QED BY <3>1, <3>2
  <2> QED BY <1>1, <1>2, <1>4, <2>1 DEF CoverInv, OrderInv, Closed
<1>14. AtMostOneEffect' BY <1>1 DEF AtMostOneEffect
<1> QED BY <1>6, <1>7, <1>8, <1>9, <1>10, <1>11, <1>12, <1>13, <1>14

\* A run seen as queued that has left the queue when its jobs are read is pending.
LEMMA ReadJobsStep ==
    ASSUME IInv, TypeOK', NEW r \in Runs, NEW s \in Runs, ReadJobs(r, s)
    PROVE  IInv'
<1> USE DEF IInv, TypeOK
<1>1. /\ UNCHANGED <<status, attempt, payload, pc, cands, todo, gathered, posts>>
      /\ UNCHANGED <<fence, ledger, authority, checkpoint>>
      /\ pc[r] = "read" /\ queued'[r] = queued[r] \ {s}
      /\ ~pend'[r] => ~pend[r] /\ status[s] = "queued"
      /\ \A x \in Runs : x # r => queued'[x] = queued[x] /\ pend'[x] = pend[x]
  BY DEF ReadJobs, github, context
<1>2. \A x \in Runs : Barrier(x)' <=> Barrier(x) BY <1>1 DEF Barrier
<1>3. \A x \in Runs : Eligible(x)' => Eligible(x)
  <2>1. \A x \in Runs : x # r => (Eligible(x)' => Eligible(x)) BY <1>1, <1>2 DEF Eligible
  <2>2. Eligible(r)' => Eligible(r) BY <1>1, <1>2 DEF Eligible
  <2> QED BY <2>1, <2>2
<1>4. ProcessInv' BY <1>1 DEF ProcessInv
<1>5. ReaderInv' BY <1>1 DEF ReaderInv, Ordered
<1>6. PostInv' BY <1>1 DEF PostInv
<1>7. ArtifactInv' BY <1>1 DEF ArtifactInv
<1>8. CheckpointInv' /\ CheckpointCovers'
  BY <1>1, <1>3 DEF CheckpointInv, CheckpointCovers, CleanCheckpoint, Closed
<1>9. AnchorInv' BY <1>1, <1>2, <1>3 DEF AnchorInv, Closed
<1>10. MutualInv' BY <1>1, <1>3 DEF MutualInv
<1>11. CoverInv' /\ OrderInv' BY <1>1, <1>3 DEF CoverInv, OrderInv, Closed
<1>12. AtMostOneEffect' BY <1>1 DEF AtMostOneEffect
<1> QED BY <1>4, <1>5, <1>6, <1>7, <1>8, <1>9, <1>10, <1>11, <1>12

\* The history is read, or given up with a fence: the claim is now what was found.
LEMMA SettleStep ==
    ASSUME IInv, TypeOK', NEW r \in Runs, Decide(r) \/ Abort(r)
    PROVE  IInv'
<1> USE DEF IInv, TypeOK
<1>1. /\ UNCHANGED <<status, attempt, payload, cands, pend, gathered, posts>>
      /\ pc[r] \in {"anchor", "list", "read"} /\ pc'[r] = "act"
      /\ todo'[r] = {} /\ queued'[r] = {}
      /\ authority'[r] => ~pend[r] /\ Ordered(r) /\ Created[r] >= Floor
      /\ attempt[r] = 2 => fence'[r]
      /\ ~fence'[r] =>
           /\ ~fence[r] /\ pc[r] = "read" /\ todo[r] = {} /\ queued[r] = {}
           /\ gathered[r] \subseteq ledger'[r]
      /\ \A x \in Runs : x # r =>
           /\ pc'[x] = pc[x] /\ todo'[x] = todo[x] /\ queued'[x] = queued[x]
           /\ fence'[x] = fence[x] /\ ledger'[x] = ledger[x] /\ authority'[x] = authority[x]
           /\ checkpoint'[x] = checkpoint[x]
  <2>1. CASE Decide(r)
    <3>1. /\ authority'[r] = MayLead(r)
          /\ \A x \in Runs : x # r => authority'[x] = authority[x]
      BY <2>1 DEF Decide
    <3>2. gathered[r] \subseteq ledger'[r]
      BY <2>1 DEF Decide, Merged
    <3>3. /\ UNCHANGED <<status, attempt, payload, cands, pend, gathered, posts>>
          /\ pc[r] = "read" /\ pc'[r] = "act"
          /\ todo[r] = {} /\ queued[r] = {} /\ UNCHANGED <<todo, queued>>
          /\ \A x \in Runs : x # r =>
               pc'[x] = pc[x] /\ fence'[x] = fence[x] /\ ledger'[x] = ledger[x]
      BY <2>1 DEF Decide, github, reader
    <3>4. (attempt[r] = 2 => fence'[r]) /\ (~fence'[r] => ~fence[r])
      <4>1. fence'[r] = (fence[r] \/ prior[r].fence \/ attempt[r] # 1)
        BY <2>1 DEF Decide
      <4> QED BY <4>1
    <3>5. \A x \in Runs : x # r => checkpoint'[x] = checkpoint[x]
      BY <2>1 DEF Decide
    <3>6. MayLead(r) => ~pend[r] /\ Ordered(r) /\ Created[r] >= Floor
      BY DEF MayLead
    <3> QED BY <3>1, <3>2, <3>3, <3>4, <3>5, <3>6
  <2>2. CASE Abort(r)
    <3>1. /\ authority'[r] => MayLead(r)
          /\ \A x \in Runs : x # r => authority'[x] = authority[x]
      <4>1. \E known \in BOOLEAN : authority' = [authority EXCEPT ![r] = known /\ MayLead(r)]
        BY <2>2, Zenon DEF Abort
      <4>2. PICK known \in BOOLEAN : authority' = [authority EXCEPT ![r] = known /\ MayLead(r)]
        BY <4>1
      <4>3. authority'[r] = (known /\ MayLead(r)) BY <4>2
      <4> QED BY <4>2, <4>3
    <3>2. pc[r] \in {"anchor", "list", "read"}
      BY <2>2 DEF Abort, AnchorLost, HistoryFull, ReadError
    <3> QED BY <2>2, <3>1, <3>2 DEF Abort, MayLead, github
  <2> QED BY <2>1, <2>2
<1>2. \A x \in Runs : Barrier(x)' <=> Barrier(x) BY <1>1 DEF Barrier
<1>3. \A x \in Runs : Eligible(x)' => Eligible(x)
  <2>1. \A x \in Runs : x # r => (Eligible(x)' => Eligible(x)) BY <1>1, <1>2 DEF Eligible
  <2>2. Eligible(r)' => Eligible(r) BY <1>1, <1>2 DEF Eligible
  <2> QED BY <2>1, <2>2
<1>4. Eligible(r)' => todo[r] = todo'[r] BY <1>1 DEF Eligible
<1>5. ProcessInv' BY <1>1 DEF ProcessInv
<1>6. ReaderInv' BY <1>1 DEF ReaderInv, Ordered
<1>7. PostInv'
  <2> SUFFICES ASSUME NEW p \in posts, attempt[p[1]] = 1, status[p[1]] = "in_progress"
               PROVE  /\ pc'[p[1]] \in {"act", "armed"} /\ authority'[p[1]]
                      /\ p[2] \in ledger'[p[1]]
    BY <1>1 DEF PostInv
  <2>1. p[1] # r BY <1>1 DEF PostInv
  <2> QED BY <1>1, <2>1 DEF PostInv
<1>8. ArtifactInv' BY <1>1 DEF ArtifactInv
<1>9. CheckpointInv' /\ CheckpointCovers'
  BY <1>1, <1>3 DEF CheckpointInv, CheckpointCovers, CleanCheckpoint, Closed
<1>10. AnchorInv' BY <1>1, <1>2, <1>3 DEF AnchorInv, Closed
<1>11. MutualInv' BY <1>1, <1>3, <1>4 DEF MutualInv
<1>12. CoverInv' /\ OrderInv' BY <1>1, <1>3, <1>4 DEF CoverInv, OrderInv, Closed
<1>13. AtMostOneEffect' BY <1>1 DEF AtMostOneEffect
<1> QED BY <1>5, <1>6, <1>7, <1>8, <1>9, <1>10, <1>11, <1>12, <1>13

\* A process entitled to effects holds a claim and has nothing left to read.
LEMMA EntitledIsEligible ==
    ASSUME IInv, NEW r \in Runs, pc[r] \in {"act", "armed"},
           authority[r], ~fence[r], attempt[r] = 1
    PROVE  Eligible(r) /\ todo[r] = {} /\ gathered[r] \subseteq ledger[r]
BY RunsAssumption DEF IInv, TypeOK, ReaderInv, Ordered, Eligible

\* Being armed, and declining, add nothing to a claim; a changed checkpoint ends it.
LEMMA ArmStep ==
    ASSUME IInv, TypeOK', NEW r \in Runs, RequireEffect(r) \/ Decline(r)
    PROVE  IInv'
<1> USE DEF IInv, TypeOK
<1>1. /\ UNCHANGED <<status, attempt, payload, cands, todo, queued, pend, gathered, posts>>
      /\ UNCHANGED <<ledger, authority, checkpoint>>
      /\ pc[r] \in {"act", "armed"} /\ pc'[r] \in {"act", "armed"}
      /\ fence[r] => fence'[r]
      /\ pc'[r] = "armed" =>
           authority[r] /\ ~fence'[r] /\ attempt[r] = 1 /\ checkpoint[r] # 0
      /\ \A x \in Runs : x # r => pc'[x] = pc[x] /\ fence'[x] = fence[x]
  <2>1. CASE RequireEffect(r)
    BY <2>1 DEF RequireEffect, CanEffect, CanPrepare, github, reader
  <2>2. CASE Decline(r) BY <2>2 DEF Decline, github, reader, context
  <2> QED BY <2>1, <2>2
<1>2. \A x \in Runs : Barrier(x)' <=> Barrier(x) BY <1>1 DEF Barrier
<1>3. \A x \in Runs : Eligible(x)' => Eligible(x) BY <1>1, <1>2 DEF Eligible
<1>4. ProcessInv' BY <1>1 DEF ProcessInv
<1>5. ReaderInv' BY <1>1 DEF ReaderInv, Ordered
<1>6. PostInv' BY <1>1 DEF PostInv
<1>7. ArtifactInv' BY <1>1 DEF ArtifactInv
<1>8. CheckpointInv' /\ CheckpointCovers'
  BY <1>1, <1>3 DEF CheckpointInv, CheckpointCovers, CleanCheckpoint, Closed
<1>9. AnchorInv' BY <1>1, <1>2, <1>3 DEF AnchorInv, Closed
<1>10. MutualInv' BY <1>1, <1>3 DEF MutualInv
<1>11. CoverInv' /\ OrderInv' BY <1>1, <1>3 DEF CoverInv, OrderInv, Closed
<1>12. AtMostOneEffect' BY <1>1 DEF AtMostOneEffect
<1> QED BY <1>4, <1>5, <1>6, <1>7, <1>8, <1>9, <1>10, <1>11, <1>12

\* A request is sent by the holder of the only settled claim, which knows all earlier ones.
LEMMA EffectStep ==
    ASSUME IInv, TypeOK', NEW r \in Runs, NEW k \in Keys, Effect(r, k)
    PROVE  IInv'
<1> USE DEF IInv, TypeOK
<1>1. /\ UNCHANGED <<status, attempt, payload, cands, todo, queued, pend, gathered>>
      /\ UNCHANGED <<fence, authority, checkpoint>>
      /\ pc[r] = "armed" /\ pc'[r] = "act"
      /\ k \notin ledger[r] /\ ledger'[r] = ledger[r] \cup {k}
      /\ posts' = posts \cup {<<r, k>>}
      /\ \A x \in Runs : x # r => pc'[x] = pc[x] /\ ledger'[x] = ledger[x]
  BY DEF Effect, github, reader
<1>2. /\ authority[r] /\ ~fence[r] /\ attempt[r] = 1 /\ status[r] = "in_progress"
      /\ Eligible(r) /\ todo[r] = {} /\ gathered[r] \subseteq ledger[r]
  BY <1>1, EntitledIsEligible DEF ReaderInv, ProcessInv
<1>3. \A x \in Runs : Barrier(x)' <=> Barrier(x) BY <1>1 DEF Barrier
<1>4. \A x \in Runs : Eligible(x)' <=> Eligible(x) BY <1>1, <1>3 DEF Eligible
<1>5. ProcessInv' BY <1>1 DEF ProcessInv
<1>6. ReaderInv' BY <1>1 DEF ReaderInv, Ordered
<1>7. PostInv'
  <2>1. \A p \in posts' : p \in posts \/ (p[1] = r /\ p[2] = k) BY <1>1
  <2> QED BY <1>1, <1>2, <2>1 DEF PostInv, Eligible
<1>8. ArtifactInv' BY <1>1 DEF ArtifactInv
<1>9. CheckpointInv' /\ CheckpointCovers'
  <2>1. \A a \in Runs : CleanCheckpoint(a)' <=> CleanCheckpoint(a)
    BY <1>1 DEF CleanCheckpoint
  <2>2. \A a \in Runs : CleanCheckpoint(a) => ~(r <= a)
    BY <1>2, RunsAssumption DEF CheckpointInv, CleanCheckpoint
  <2>3. \A p \in posts' : p \in posts \/ p[1] = r BY <1>1
  <2>4. \A a \in Runs : CleanCheckpoint(a)' =>
          \A p \in posts' : p[1] <= a => p \in posts
    BY <2>1, <2>2, <2>3
  <2>5. CheckpointCovers' BY <1>1, <2>1, <2>4 DEF CheckpointCovers
  <2>6. \A x \in Runs : Closed(x)' <=> Closed(x) BY <1>1 DEF Closed
  <2>7. CheckpointInv' BY <1>4, <2>1, <2>4, <2>6 DEF CheckpointInv
  <2> QED BY <2>5, <2>7
<1>10. AnchorInv'
  <2> SUFFICES ASSUME NEW x \in Runs, pc'[x] = "list", ~fence'[x], NEW a \in cands'[x]
               PROVE  /\ Barrier(a)' /\ status'[a] # "absent" /\ Created[a] >= Floor
                      /\ \A s \in Runs : s < a => ~Eligible(s)'
                      /\ \A q \in posts' : q[1] <= a => q[2] \in gathered'[x] /\ Closed(q[1])'
    BY DEF AnchorInv, Closed
  <2>1. x # r /\ pc[x] = "list" BY <1>1
  <2>2. Barrier(a) /\ \A s \in Runs : s < a => ~Eligible(s)
    BY <1>1, <2>1 DEF AnchorInv, Closed
  <2>3. ~(r <= a) BY <1>2, <2>2, RunsAssumption DEF Barrier
  <2>4. \A q \in posts' : q \in posts \/ q[1] = r BY <1>1
  <2> QED BY <1>1, <1>3, <1>4, <2>1, <2>3, <2>4 DEF AnchorInv, Closed
<1>11. MutualInv' BY <1>1, <1>4 DEF MutualInv
<1>12. CoverInv' /\ OrderInv'
  <2>1. \A x \in Runs : Eligible(x) /\ x # r => r \in todo[x]
    BY <1>2 DEF MutualInv
  <2>2. \A p \in posts' : p \in posts \/ p[1] = r BY <1>1
  <2> QED BY <1>1, <1>4, <2>1, <2>2, RunsAssumption DEF CoverInv, OrderInv, Closed
<1>13. AtMostOneEffect'
  <2>1. ASSUME NEW p \in posts PROVE p[2] # k
    <3>1. CASE p[1] = r BY <1>1, <1>2, <3>1 DEF PostInv
    <3>2. CASE p[1] # r BY <1>1, <1>2, <3>2 DEF CoverInv, Closed
    <3> QED BY <3>1, <3>2
  <2> QED BY <1>1, <2>1 DEF AtMostOneEffect
<1> QED BY <1>5, <1>6, <1>7, <1>8, <1>9, <1>10, <1>11, <1>12, <1>13

\* A run becomes a checkpoint.  Every older process with a claim still has to read it, and
\* its ledger holds every request so far.
LEMMA CompleteStep ==
    ASSUME IInv, TypeOK', NEW r \in Runs, Complete(r)
    PROVE  IInv'
<1> USE DEF IInv, TypeOK
<1>1. Fresh(r, "idle") BY DEF Complete
<1>2. /\ pc'[r] = "idle" /\ cands'[r] = {} /\ todo'[r] = {} /\ queued'[r] = {} /\ ~fence'[r]
      /\ \A x \in Runs : x # r =>
           /\ pc'[x] = pc[x] /\ cands'[x] = cands[x] /\ todo'[x] = todo[x]
           /\ queued'[x] = queued[x] /\ pend'[x] = pend[x] /\ fence'[x] = fence[x]
           /\ gathered'[x] = gathered[x] /\ ledger'[x] = ledger[x]
           /\ authority'[x] = authority[x] /\ checkpoint'[x] = checkpoint[x]
  BY <1>1, FreshStep
<1>3. /\ UNCHANGED <<attempt, posts>>
      /\ pc[r] = "act" /\ status[r] = "in_progress" /\ status'[r] = "success"
      /\ payload'[r].authority = authority[r] /\ payload'[r].fence = fence[r]
      /\ payload'[r].ledger = ledger[r]
      /\ \A x \in Runs : x # r => status'[x] = status[x] /\ payload'[x] = payload[x]
  <2>1. payload'[r] = [id |-> r, ledger |-> ledger[r], authority |-> authority[r],
                       fence |-> fence[r], pred |-> checkpoint[r]]
    BY DEF Complete
  <2> QED BY <2>1 DEF Complete, ProcessInv
<1>4. \A x \in Runs : Barrier(x) => Barrier(x)' BY <1>3 DEF Barrier
<1>5. \A x \in Runs : Eligible(x)' => x # r /\ Eligible(x)
  <2>1. ASSUME NEW x \in Runs, Eligible(x)' PROVE x # r /\ Eligible(x)
    <3>1. x # r BY <1>2, <2>1 DEF Eligible
    <3>2. \A a \in queued[x] : status[a] = "queued"
      BY <1>2, <1>3, <2>1, <3>1 DEF Eligible
    <3> QED BY <1>2, <1>3, <1>4, <2>1, <3>1, <3>2 DEF Eligible
  <2> QED BY <2>1
<1>6. ASSUME CleanCheckpoint(r)'
      PROVE  Eligible(r) /\ todo[r] = {} /\ gathered[r] \subseteq ledger[r] /\ attempt[r] = 1
  <2>1. authority[r] /\ ~fence[r] /\ attempt[r] = 1 BY <1>3, <1>6 DEF CleanCheckpoint
  <2> QED BY <1>3, <2>1, EntitledIsEligible
<1>7. ProcessInv' BY <1>2, <1>3 DEF ProcessInv
<1>8. ReaderInv' BY <1>2, <1>3 DEF ReaderInv, Ordered
<1>9. PostInv' BY <1>2, <1>3 DEF PostInv
<1>10. ArtifactInv' BY <1>3 DEF ArtifactInv, ReaderInv
<1>11. CheckpointInv'
  <2>1. ASSUME NEW a \in Runs, NEW s \in Runs, CleanCheckpoint(a)', s < a, Eligible(s)'
        PROVE  FALSE
    <3>1. s # r /\ Eligible(s) BY <1>5, <2>1
    <3>2. CASE a # r BY <1>3, <2>1, <3>1, <3>2 DEF CheckpointInv, CleanCheckpoint
    <3>3. CASE a = r
      <4>1. r \in todo[s] BY <1>6, <2>1, <3>1, <3>3 DEF MutualInv
      <4>2. Barrier(r)' BY <2>1, <3>3 DEF CleanCheckpoint, Barrier
      <4> QED BY <1>2, <2>1, <3>1, <3>3, <4>1, <4>2, RunsAssumption DEF Eligible
    <3> QED BY <3>2, <3>3
  <2>2. ASSUME NEW a \in Runs, CleanCheckpoint(a)', NEW p \in posts, p[1] <= a
        PROVE  Closed(p[1])'
    <3>1. Closed(p[1]) => Closed(p[1])' BY <1>3 DEF Closed
    <3>2. CASE a # r BY <1>3, <2>2, <3>1, <3>2 DEF CheckpointInv, CleanCheckpoint
    <3>3. CASE a = r /\ p[1] = r BY <1>3, <3>3 DEF Closed
    <3>4. CASE a = r /\ p[1] # r BY <1>6, <2>2, <3>1, <3>4 DEF CoverInv
    <3> QED BY <3>2, <3>3, <3>4
  <2> QED BY <1>3, <2>1, <2>2 DEF CheckpointInv
<1>12. CheckpointCovers'
  <2> SUFFICES ASSUME NEW a \in Runs, CleanCheckpoint(a)', NEW p \in posts, p[1] <= a
               PROVE  p[2] \in payload'[a].ledger
    BY <1>3 DEF CheckpointCovers
  <2>1. CASE a # r BY <1>3, <2>1 DEF CheckpointCovers, CleanCheckpoint
  <2>2. CASE a = r /\ p[1] = r BY <1>3, <1>6, <2>2 DEF PostInv
  <2>3. CASE a = r /\ p[1] # r BY <1>3, <1>6, <2>3 DEF CoverInv, Closed
  <2> QED BY <2>1, <2>2, <2>3
<1>13. AnchorInv' BY <1>2, <1>3, <1>4, <1>5 DEF AnchorInv, Closed
<1>14. MutualInv' BY <1>2, <1>5 DEF MutualInv
<1>15. CoverInv' /\ OrderInv' BY <1>2, <1>3, <1>5 DEF CoverInv, OrderInv, Closed
<1>16. AtMostOneEffect' BY <1>3 DEF AtMostOneEffect
<1> QED BY <1>7, <1>8, <1>9, <1>10, <1>11, <1>12, <1>13, <1>14, <1>15, <1>16

\* IInv is inductive.
LEMMA InvStep == IInv /\ [Next]_vars => IInv'
<1> SUFFICES ASSUME IInv, [Next]_vars PROVE IInv' OBVIOUS
<1>1. TypeOK' BY TypeStep DEF IInv
<1>2. ASSUME NEW r \in Runs, Create(r) \/ Start(r) \/ Fault(r) PROVE IInv'
  BY <1>1, <1>2, WaitingStep, ProcessStep, QuietStep DEF Fault
<1>3. ASSUME NEW r \in Runs, Read(r) PROVE IInv'
  BY <1>1, <1>3, QuietStep, AnchorStep, ListStep, ObserveStep, ReadJobsStep, SettleStep DEF Read
<1>4. ASSUME NEW r \in Runs, Act(r) PROVE IInv'
  BY <1>1, <1>4, ArmStep, EffectStep, CompleteStep DEF Act
<1>5. CASE UNCHANGED vars
  BY <1>5 DEF vars, github, reader, context, IInv, TypeOK, ProcessInv, ReaderInv, Ordered,
     PostInv, ArtifactInv, CheckpointInv, CheckpointCovers, CleanCheckpoint, AnchorInv,
     Barrier, Eligible, MutualInv, CoverInv, OrderInv, Closed, AtMostOneEffect
<1> QED BY <1>2, <1>3, <1>4, <1>5 DEF Next

\* IInv holds before the first run.
LEMMA InitInv == Init => IInv
<1> SUFFICES ASSUME Init PROVE IInv OBVIOUS
<1>1. TypeOK
  BY RunsAssumption, NoStateType DEF Init, TypeOK, Statuses, Completed, Steps
<1>2. \A r \in Runs :
        /\ status[r] = "absent" /\ attempt[r] = 1 /\ pc[r] = "idle"
        /\ cands[r] = {} /\ todo[r] = {} /\ queued[r] = {}
  BY DEF Init
<1>3. posts = {} BY DEF Init
<1>4. ProcessInv /\ ReaderInv BY <1>2 DEF ProcessInv, ReaderInv
<1>5. PostInv /\ ArtifactInv /\ CheckpointCovers /\ AtMostOneEffect
  BY <1>2, <1>3 DEF PostInv, ArtifactInv, CheckpointCovers, CleanCheckpoint, AtMostOneEffect
<1>6. CheckpointInv /\ AnchorInv /\ MutualInv /\ CoverInv /\ OrderInv
  BY <1>2 DEF CheckpointInv, CleanCheckpoint, AnchorInv, MutualInv, CoverInv, OrderInv, Closed, Eligible
<1> QED BY <1>1, <1>4, <1>5, <1>6 DEF IInv

\* The inductive invariant holds in every history of the service's runs: the claims of the
\* processes exclude each other, clean checkpoints end the claims of older runs, and both
\* know every request.
THEOREM Invariance == Spec => []IInv
BY InitInv, InvStep, PTL DEF Spec

\* No effect budget is requested twice, in any history of the service's runs.
THEOREM EffectsAreUnique == Spec => []AtMostOneEffect
<1>1. IInv => AtMostOneEffect BY DEF IInv
<1> QED BY <1>1, Invariance, PTL

\* Clean checkpoints account for every request of the runs up to them.
THEOREM CheckpointsCover == Spec => []CheckpointCovers
<1>1. IInv => CheckpointCovers BY DEF IInv
<1> QED BY <1>1, Invariance, PTL

\* IInv excludes two entitled processes.
LEMMA Exclusion == IInv => EffectExclusion
<1> SUFFICES ASSUME IInv, NEW r \in Runs, NEW s \in Runs, CanEffect(r), CanEffect(s), r # s
             PROVE  FALSE
  BY DEF EffectExclusion
<1>1. Eligible(r) /\ todo[r] = {} BY EntitledIsEligible DEF CanEffect, CanPrepare
<1>2. Eligible(s) /\ todo[s] = {} BY EntitledIsEligible DEF CanEffect, CanPrepare
<1> QED BY <1>1, <1>2 DEF IInv, MutualInv

\* Two processes are never entitled to effects at one time, with no lock between them.
THEOREM EffectsExclude == Spec => []EffectExclusion
BY Exclusion, Invariance, PTL

-----------------------------------------------------------------------------
(* Action properties: what no step does.                                     *)

\* A new clean checkpoint, and a new request, come from a process with a claim.
LEMMA ClaimBehindStep ==
    ASSUME IInv, NEW r \in Runs, Next,
           (CleanCheckpoint(r)' /\ ~CleanCheckpoint(r)) \/ (\E k \in Keys : Effect(r, k))
    PROVE  Eligible(r)
<1> USE DEF IInv, TypeOK
<1>1. CASE \E k \in Keys : Effect(r, k)
  <2>1. pc[r] = "armed" BY <1>1 DEF Effect
  <2> QED BY <2>1, EntitledIsEligible DEF ReaderInv
<1>2. CASE CleanCheckpoint(r)' /\ ~CleanCheckpoint(r)
  <2>1. ~(/\ status'[r] = status[r] /\ attempt'[r] = attempt[r] /\ payload'[r] = payload[r])
    BY <1>2 DEF CleanCheckpoint
  <2>2. status'[r] = "success" /\ attempt'[r] = 1 BY <1>2 DEF CleanCheckpoint
  <2>3. PICK x \in Runs : Create(x) \/ Start(x) \/ Fault(x) \/ Read(x) \/ Act(x) BY DEF Next
  <2>4. CASE Complete(x)
    <3>1. x = r BY <2>1, <2>4 DEF Complete
    <3>2. payload'[r] = [id |-> r, ledger |-> ledger[r], authority |-> authority[r],
                         fence |-> fence[r], pred |-> checkpoint[r]]
      BY <2>4, <3>1 DEF Complete
    <3>3. /\ authority[r] /\ ~fence[r] /\ attempt[r] = 1 /\ pc[r] = "act"
      BY <1>2, <2>4, <3>1, <3>2 DEF Complete, CleanCheckpoint
    <3> QED BY <3>3, EntitledIsEligible
  <2>5. CASE Create(x) \/ Start(x)
    BY <2>1, <2>2, <2>5 DEF Create, Start
  <2>6. CASE Fault(x)
    BY <2>1, <2>2, <2>6 DEF Fault, Skip, Cancel, Crash, Rerun, Expire
  <2>7. CASE Read(x)
    BY <2>1, <2>7 DEF Read, Restore, Anchor, List, Decide, Abort, Observe, ReadJobs, github
  <2>8. CASE RequireEffect(x) \/ Decline(x) \/ \E k \in Keys : Effect(x, k)
    BY <2>1, <2>8 DEF RequireEffect, Decline, Effect, github
  <2> QED BY <2>3, <2>4, <2>5, <2>6, <2>7, <2>8 DEF Act
<1> QED BY <1>1, <1>2

\* Only Effect adds requests.
LEMMA PostsStep ==
    ASSUME Next, posts' # posts
    PROVE  \E r \in Runs, k \in Keys : Effect(r, k)
<1>1. PICK r \in Runs : Create(r) \/ Start(r) \/ Fault(r) \/ Read(r) \/ Act(r) BY DEF Next
<1>2. CASE Create(r) \/ Start(r) BY <1>2 DEF Create, Start
<1>3. CASE Fault(r) BY <1>3 DEF Fault, Skip, Cancel, Crash, Rerun, Expire
<1>4. CASE Read(r) BY <1>4 DEF Read, Restore, Anchor, List, Decide, Abort, Observe, ReadJobs
<1>5. CASE RequireEffect(r) \/ Decline(r) \/ Complete(r)
  BY <1>5 DEF RequireEffect, Decline, Complete
<1> QED BY <1>1, <1>2, <1>3, <1>4, <1>5 DEF Act

\* Once a newer clean checkpoint exists, an older run requests nothing and becomes no clean
\* checkpoint, whatever it had read before.
THEOREM OlderRunsAreRefused == Spec => OlderActorsRefused
<1>1. ASSUME IInv, [Next]_vars, NEW a \in Runs, NEW r \in Runs, r < a, CleanCheckpoint(a)
      PROVE  /\ \A k \in Keys : <<r, k>> \notin posts' \ posts
             /\ ~CleanCheckpoint(r) => ~CleanCheckpoint(r)'
  <2>1. ~Eligible(r) BY <1>1 DEF IInv, CheckpointInv
  <2>2. CASE UNCHANGED vars BY <2>2 DEF vars, github, CleanCheckpoint
  <2>3. CASE Next
    <3>1. ASSUME NEW k \in Keys, <<r, k>> \in posts' \ posts PROVE FALSE
      <4>1. PICK x \in Runs, j \in Keys : Effect(x, j) BY <2>3, <3>1, PostsStep
      <4>2. posts' = posts \cup {<<x, j>>} BY <4>1 DEF Effect
      <4>3. x = r BY <3>1, <4>2
      <4> QED BY <1>1, <2>1, <2>3, <4>1, <4>3, ClaimBehindStep
    <3>2. ~CleanCheckpoint(r) => ~CleanCheckpoint(r)' BY <1>1, <2>1, <2>3, ClaimBehindStep
    <3> QED BY <3>1, <3>2
  <2> QED BY <1>1, <2>2, <2>3
<1>2. IInv /\ [Next]_vars =>
        [\A a, r \in Runs : r < a /\ CleanCheckpoint(a) =>
            /\ \A k \in Keys : <<r, k>> \notin posts' \ posts
            /\ ~CleanCheckpoint(r) => ~CleanCheckpoint(r)']_vars
  BY <1>1
<1> QED BY <1>2, Invariance, PTL DEF Spec, OlderActorsRefused

\* A run that requested an effect and died before its upload suspends every later request.
THEOREM LostEvidence == Spec => LostEvidenceSuspends
<1>1. ASSUME IInv, [Next]_vars, posts' # posts, NEW p \in posts, attempt[p[1]] = 1
      PROVE  status[p[1]] # "failure"
  <2> USE <1>1 DEF IInv, TypeOK
  <2>1. Next BY DEF vars
  <2>2. PICK r \in Runs, k \in Keys : Effect(r, k) BY <2>1, PostsStep
  <2>3. pc[r] = "armed" BY <2>2 DEF Effect
  <2>4. status[r] = "in_progress" /\ Eligible(r) /\ todo[r] = {}
    BY <2>3, EntitledIsEligible DEF ReaderInv, ProcessInv
  <2>5. CASE p[1] = r BY <2>4, <2>5
  <2>6. CASE p[1] # r BY <2>4, <2>6 DEF CoverInv, Closed
  <2> QED BY <2>5, <2>6
<1>2. IInv /\ [Next]_vars =>
        [posts' # posts => \A p \in posts : attempt[p[1]] = 1 => status[p[1]] # "failure"]_vars
  BY <1>1
<1> QED BY <1>2, Invariance, PTL DEF Spec, LostEvidenceSuspends

-----------------------------------------------------------------------------
(* The frontier implements EffectLock.                                       *)

\* The processes entitled to effects.
Holders == {r \in Runs : CanEffect(r)}

\* The steps outside a process's decision change no entitlement, or end one.
LEMMA HoldersKept ==
    ASSUME IInv, NEW r \in Runs,
           \/ Create(r) \/ Start(r) \/ Fault(r)
           \/ Restore(r) \/ Anchor(r) \/ List(r) \/ Abort(r)
           \/ (\E s \in Runs : Observe(r, s) \/ ReadJobs(r, s))
           \/ Act(r)
    PROVE  Holders' = Holders \/ (r \in Holders /\ Holders' = Holders \ {r})
<1> USE DEF IInv, TypeOK, CanEffect, CanPrepare, Holders
<1>1. \A x \in Runs : x # r => (CanEffect(x)' <=> CanEffect(x))
  <2>1. CASE Create(r) BY <2>1 DEF Create, context
  <2>2. CASE Start(r) BY <2>2 DEF Start, Fresh
  <2>3. CASE Fault(r)
    <3>1. CASE Skip(r) \/ Cancel(r) \/ Expire(r) BY <3>1 DEF Skip, Cancel, Expire, context
    <3>2. CASE Crash(r) BY <3>2 DEF Crash, Fresh
    <3>3. CASE Rerun(r) BY <3>3 DEF Rerun, Fresh
    <3> QED BY <2>3, <3>1, <3>2, <3>3 DEF Fault
  <2>4. CASE Restore(r) \/ Anchor(r) \/ List(r)
    BY <2>4 DEF Restore, Anchor, List, github, context
  <2>5. CASE Abort(r)
    <3>1. PICK known \in BOOLEAN : authority' = [authority EXCEPT ![r] = known /\ MayLead(r)]
      BY <2>5, Zenon DEF Abort
    <3> QED BY <2>5, <3>1 DEF Abort, github
  <2>6. ASSUME NEW s \in Runs, Observe(r, s)
        PROVE  \A x \in Runs : x # r => (CanEffect(x)' <=> CanEffect(x))
    <3>1. \A x \in Runs : x # r => fence'[x] = fence[x]
      BY <2>6 DEF Observe, SeeQueued, SeeOpaque, SeeRunning, SeeSkipped, SeeEvidence
    <3> QED BY <2>6, <3>1 DEF Observe, github
  <2>7. ASSUME NEW s \in Runs, ReadJobs(r, s)
        PROVE  \A x \in Runs : x # r => (CanEffect(x)' <=> CanEffect(x))
    BY <2>7 DEF ReadJobs, github, context
  <2>8. CASE RequireEffect(r) \/ Decline(r)
    BY <2>8 DEF RequireEffect, Decline, github, context
  <2>9. CASE Complete(r)
    <3>1. Fresh(r, "idle") BY <2>9 DEF Complete
    <3> QED BY <2>9, <3>1 DEF Complete, Fresh
  <2>10. ASSUME NEW k \in Keys, Effect(r, k)
         PROVE  \A x \in Runs : x # r => (CanEffect(x)' <=> CanEffect(x))
    BY <2>10 DEF Effect, github
  <2> QED BY <2>1, <2>2, <2>3, <2>4, <2>5, <2>6, <2>7, <2>8, <2>9, <2>10
     DEF Act
<1>2. CanEffect(r)' => CanEffect(r)
  <2>1. CASE Create(r) BY <2>1 DEF Create, context
  <2>2. CASE Start(r) BY <2>2 DEF Start, Fresh
  <2>3. CASE Fault(r)
    BY <2>3 DEF Fault, Skip, Cancel, Crash, Rerun, Expire, Fresh, context
  <2>4. CASE Restore(r) \/ Anchor(r) \/ List(r)
    BY <2>4 DEF Restore, Anchor, List, github, context
  <2>5. CASE Abort(r) BY <2>5 DEF Abort
  <2>6. ASSUME NEW s \in Runs, Observe(r, s) PROVE CanEffect(r)' => CanEffect(r)
    BY <2>6 DEF Observe
  <2>7. ASSUME NEW s \in Runs, ReadJobs(r, s) PROVE CanEffect(r)' => CanEffect(r)
    BY <2>7 DEF ReadJobs
  <2>8. CASE RequireEffect(r) \/ Decline(r)
    BY <2>8 DEF RequireEffect, Decline, github, context
  <2>9. CASE Complete(r)
    <3>1. Fresh(r, "idle") BY <2>9 DEF Complete
    <3> QED BY <2>9, <3>1 DEF Complete, Fresh
  <2>10. ASSUME NEW k \in Keys, Effect(r, k) PROVE CanEffect(r)' => CanEffect(r)
    BY <2>10 DEF Effect, github
  <2> QED BY <2>1, <2>2, <2>3, <2>4, <2>5, <2>6, <2>7, <2>8, <2>9, <2>10
     DEF Act
<1> QED BY <1>1, <1>2

\* Deciding can entitle the process that decides, and no other.
LEMMA HoldersDecided ==
    ASSUME IInv, NEW r \in Runs, Decide(r)
    PROVE  Holders' = Holders \/ Holders' = Holders \cup {r}
<1> USE DEF IInv, TypeOK, CanEffect, CanPrepare, Holders
<1>1. ~CanEffect(r) BY DEF Decide
<1>2. \A x \in Runs : x # r => (CanEffect(x)' <=> CanEffect(x))
  <2>1. \A x \in Runs : x # r => checkpoint'[x] = checkpoint[x] BY DEF Decide
  <2>2. \A x \in Runs : x # r =>
          authority'[x] = authority[x] /\ fence'[x] = fence[x] /\ pc'[x] = pc[x]
    BY DEF Decide
  <2>3. UNCHANGED <<status, attempt>> BY DEF Decide, github
  <2> QED BY <2>1, <2>2, <2>3
<1> QED BY <1>1, <1>2

\* A request is an entitled process spending a fresh budget, and no newer run has spent.
LEMMA EffectSpends ==
    ASSUME IInv, NEW r \in Runs, NEW k \in Keys, Effect(r, k)
    PROVE  /\ r \in Holders /\ Holders' = Holders
           /\ \A p \in posts : p[1] <= r /\ p[2] # k
           /\ posts' = posts \cup {<<r, k>>}
<1> USE DEF IInv, TypeOK, CanEffect, CanPrepare, Holders
<1>1. /\ UNCHANGED <<status, attempt, fence, authority, checkpoint>>
      /\ pc[r] = "armed" /\ pc' = [pc EXCEPT ![r] = "act"]
      /\ k \notin ledger[r] /\ posts' = posts \cup {<<r, k>>}
  BY DEF Effect, github
<1>2. authority[r] /\ ~fence[r] /\ attempt[r] = 1 /\ checkpoint[r] # 0 /\ status[r] = "in_progress"
  BY <1>1 DEF ReaderInv, ProcessInv
<1>3. r \in Holders BY <1>1, <1>2
<1>4. Holders' = Holders BY <1>1, <1>2
<1>5. Eligible(r) /\ todo[r] = {} /\ gathered[r] \subseteq ledger[r]
  BY <1>1, <1>2, EntitledIsEligible
<1>6. ASSUME NEW p \in posts PROVE p[1] <= r /\ p[2] # k
  <2>1. p[1] <= r BY <1>5 DEF OrderInv
  <2>2. ASSUME p[1] = r PROVE p[2] # k BY <1>1, <1>2, <2>2 DEF PostInv
  <2>3. ASSUME p[1] # r PROVE p[2] # k BY <1>1, <1>5, <2>3 DEF CoverInv, Closed
  <2> QED BY <2>1, <2>2, <2>3
<1> QED BY <1>1, <1>3, <1>4, <1>6

\* The runs and their requests implement the lock of EffectLock, for every history: mutual
\* exclusion, one request per budget, and no request of an older run after one of a newer.
THEOREM FrontierIsALock == Spec => ImplementsLock
<1>1. Init => Lock!Init
  BY DEF Init, Lock!Init, CanEffect, CanPrepare
<1>2. IInv' => EffectExclusion' BY Exclusion, PTL
<1>3. ASSUME IInv, IInv', [Next]_vars PROVE [Lock!Next]_Lock!vars
  <2> USE DEF Lock!Next, Lock!vars, Lock!Enter, Lock!Leave, Lock!Spend
  <2>1. CASE UNCHANGED vars
    BY <2>1 DEF vars, github, context, CanEffect, CanPrepare
  <2>2. CASE Next
    <3>1. PICK r \in Runs : Create(r) \/ Start(r) \/ Fault(r) \/ Read(r) \/ Act(r)
      BY <2>2 DEF Next
    <3>2. CASE posts' # posts
      <4>1. PICK x \in Runs, k \in Keys : Effect(x, k) BY <2>2, <3>2, PostsStep
      <4> QED BY <1>3, <4>1, EffectSpends DEF Holders
    <3>3. CASE posts' = posts /\ Decide(r)
      <4>1. Holders' = Holders \/ Holders' = Holders \cup {r} BY <1>3, <3>3, HoldersDecided
      <4>2. \A x, y \in Holders' : x = y
        BY <1>3, <1>2 DEF EffectExclusion, Holders
      <4>3. Holders' = Holders \/ (Holders = {} /\ Holders' = {r}) BY <4>1, <4>2 DEF Holders
      <4> QED BY <3>3, <4>3 DEF Holders
    <3>4. CASE posts' = posts /\ ~Decide(r)
      <4>1. Holders' = Holders \/ (r \in Holders /\ Holders' = Holders \ {r})
        BY <1>3, <3>1, <3>4, HoldersKept DEF Read
      <4> QED BY <3>4, <4>1 DEF Holders
    <3> QED BY <3>2, <3>3, <3>4
  <2> QED BY <1>3, <2>1, <2>2
<1> QED BY <1>1, <1>3, Invariance, PTL DEF Spec, ImplementsLock, Lock!Spec

-----------------------------------------------------------------------------
(* The frontier does not suspend itself.                                     *)

\* Nothing goes wrong, the history is listed whole, and C is older than its runs.
Undisturbed ==
    /\ Faults = {} /\ NRuns <= MaxHistory
    /\ \A r \in Runs : Created[r] >= Floor

\* Runs start when all before have succeeded, and leave a clean checkpoint behind.
Settled ==
    \A r \in Runs :
        /\ attempt[r] = 1
        /\ status[r] \in {"absent", "queued", "in_progress", "success"}
        /\ status[r] \in {"in_progress", "success"} =>
             \A s \in Runs : s < r => status[s] = "success"
        /\ status[r] = "success" =>
             /\ live[r] /\ payload[r].id = r
             /\ payload[r].authority /\ ~payload[r].fence

\* The run whose turn it is reads nothing that speaks against it, and builds on another
\* unless it is the first.
Unopposed(r) ==
    /\ ~fence[r] /\ ~pend[r] /\ r \notin todo[r]
    /\ \A s \in queued[r] : status[s] = "queued"
    /\ checkpoint[r] < r /\ \A c \in cands[r] : c < r
    /\ pc[r] # "restore" => \/ r = 1 /\ prior[r] = NoState
                            \/ \E s \in Runs : s < r /\ prior[r] = payload[s]
    /\ pc[r] \in {"list", "read"} => r = 1 \/ cands[r] # {}
    /\ pc[r] \in {"act", "armed"} => authority[r] /\ (r = 1 \/ checkpoint[r] # 0)

SerialInv == Settled /\ \A r \in Runs : status[r] = "in_progress" => Unopposed(r)

LEMMA SerialInit == Init => SerialInv
BY DEF Init, SerialInv, Settled

\* In turn, one run at a time is in progress.
LEMMA OneInProgress ==
    ASSUME Settled, NEW r \in Runs, NEW s \in Runs,
           status[r] = "in_progress", status[s] = "in_progress"
    PROVE  r = s
BY DEF Settled

\* While a run reads, GitHub's side stands still for it.
LEMMA SameSide ==
    ASSUME IInv, SerialInv, UNCHANGED github, NEW r \in Runs, status[r] = "in_progress",
           \A x \in Runs : x # r => /\ fence'[x] = fence[x] /\ pend'[x] = pend[x],
           Unopposed(r)'
    PROVE  SerialInv'
<1>1. Settled' BY DEF SerialInv, Settled, github
<1>2. \A x \in Runs : status'[x] = "in_progress" => x = r
  BY OneInProgress DEF SerialInv, github
<1> QED BY <1>1, <1>2 DEF SerialInv

\* A new run waits, and nobody has seen it before.
LEMMA SerialCreate ==
    ASSUME IInv, SerialInv, NEW x \in Runs, Create(x)
    PROVE  SerialInv'
<1> USE DEF IInv, TypeOK
<1>1. /\ status[x] = "absent" /\ status' = [status EXCEPT ![x] = "queued"]
      /\ UNCHANGED <<attempt, payload, live, pc, prior, cands, todo, queued, pend, fence,
                     authority, checkpoint>>
  BY DEF Create, reader, context
<1>2. Settled'
  <2>1. \A r \in Runs : status'[r] \in {"in_progress", "success"} =>
          status[r] = status'[r] /\ r # x
    BY <1>1
  <2>2. \A r, s \in Runs : status'[r] \in {"in_progress", "success"} /\ s < r =>
          status[s] = "success" /\ s # x
    BY <1>1, <2>1 DEF SerialInv, Settled
  <2> QED BY <1>1, <2>1, <2>2 DEF SerialInv, Settled
<1>3. ASSUME NEW r \in Runs, status'[r] = "in_progress" PROVE Unopposed(r)'
  <2>1. Unopposed(r) /\ status[r] = "in_progress" BY <1>1, <1>3 DEF SerialInv
  <2>2. \A s \in queued'[r] : status'[s] = "queued" BY <1>1, <2>1 DEF Unopposed
  <2> QED BY <1>1, <2>1, <2>2 DEF Unopposed
<1> QED BY <1>2, <1>3 DEF SerialInv

\* The run whose turn it is starts with an empty memory.
LEMMA SerialStart ==
    ASSUME IInv, SerialInv, NEW x \in Runs, InTurn(x)
    PROVE  SerialInv'
<1> USE DEF IInv, TypeOK
<1>1. /\ status[x] = "queued" /\ status' = [status EXCEPT ![x] = "in_progress"]
      /\ UNCHANGED <<attempt, payload, live>> /\ Fresh(x, "restore")
  BY DEF InTurn, Start
<1>2. \A s \in Runs : s < x => status[s] = "success"
  BY DEF InTurn, Completed, SerialInv, Settled
<1>3. \A r \in Runs : status[r] # "in_progress"
  <2>1. \A r \in Runs : r < x => status[r] # "in_progress" BY <1>2
  <2>2. \A r \in Runs : x < r => status[r] # "in_progress"
    BY <1>1 DEF SerialInv, Settled
  <2> QED BY <1>1, <2>1, <2>2
<1>4. Settled'
  <2>1. \A r, s \in Runs : status[r] = "success" /\ s < r => status[s] = "success" /\ s # x
    BY <1>1 DEF SerialInv, Settled
  <2> QED BY <1>1, <1>2, <1>3, <2>1 DEF SerialInv, Settled
<1>5. Unopposed(x)' BY <1>1 DEF Fresh, Unopposed
<1> QED BY <1>1, <1>3, <1>4, <1>5 DEF SerialInv

\* What a run has restored names a checkpoint unless it is the first.
LEMMA RestoredNames ==
    ASSUME IInv, SerialInv, NEW r \in Runs, status[r] = "in_progress", pc[r] # "restore",
           Undisturbed
    PROVE  /\ ~prior[r].fence
           /\ \/ r = 1 /\ AnchorId(r) = 0
              \/ /\ AnchorId(r) \in Runs /\ AnchorId(r) < r /\ Attested(AnchorId(r))
                 /\ payload[AnchorId(r)].authority /\ ~payload[AnchorId(r)].fence
<1>1. CASE r = 1 /\ prior[r] = NoState BY <1>1 DEF NoState, AnchorId
<1>2. ASSUME NEW s \in Runs, s < r, prior[r] = payload[s]
      PROVE  /\ ~prior[r].fence /\ AnchorId(r) = s
             /\ Attested(s) /\ payload[s].authority /\ ~payload[s].fence
  BY <1>2 DEF SerialInv, Settled, AnchorId, Attested, Readable, Undisturbed
<1> QED BY <1>1, <1>2 DEF SerialInv, Unopposed

\* No history is too long to list.
LEMMA HistoryFits ==
    ASSUME NEW r \in Runs, Undisturbed
    PROVE  ~(Cardinality(Window(r)) > MaxHistory)
<1>1. IsFiniteSet(Runs) /\ Cardinality(Runs) = NRuns BY RunsAssumption, FS_Interval
<1>2. Window(r) \subseteq Runs BY DEF Window
<1>3. Cardinality(Window(r)) <= NRuns /\ Cardinality(Window(r)) \in Nat
  BY <1>1, <1>2, FS_Subset, FS_CardinalityType
<1> QED BY <1>3, RunsAssumption, BoundsAssumption DEF Undisturbed

LEMMA SerialRead ==
    ASSUME IInv, SerialInv, Undisturbed, NEW r \in Runs, Read(r)
    PROVE  SerialInv'
<1> USE DEF IInv, TypeOK
<1>1. pc[r] # "idle" /\ UNCHANGED github
  BY DEF Read, Restore, Anchor, List, Decide, Abort, Observe, ReadJobs, AnchorLost, HistoryFull,
         ReadError
<1>2. status[r] = "in_progress" BY <1>1 DEF ProcessInv
<1>3. Unopposed(r) BY <1>2 DEF SerialInv
<1>4. \A x \in Runs : x # r => fence'[x] = fence[x] /\ pend'[x] = pend[x]
  <2>1. CASE Restore(r) \/ List(r) BY <2>1 DEF Restore, List, context
  <2>2. CASE Anchor(r) BY <2>2 DEF Anchor
  <2>3. CASE Decide(r) \/ Abort(r) BY <2>3 DEF Decide, Abort, reader
  <2>4. ASSUME NEW s \in Runs, Observe(r, s)
        PROVE  \A x \in Runs : x # r => fence'[x] = fence[x] /\ pend'[x] = pend[x]
    BY <2>4 DEF Observe, SeeQueued, SeeOpaque, SeeRunning, SeeSkipped, SeeEvidence
  <2>5. ASSUME NEW s \in Runs, ReadJobs(r, s)
        PROVE  \A x \in Runs : x # r => fence'[x] = fence[x] /\ pend'[x] = pend[x]
    BY <2>5 DEF ReadJobs, context
  <2> QED BY <2>1, <2>2, <2>3, <2>4, <2>5 DEF Read
<1>5. status' = status /\ payload' = payload BY <1>1 DEF github
<1>6. Unopposed(r)'
  <2>1. CASE Restore(r)
    <3>1. PICK failed \in {{}} :
            LET found == {s \in Runs \ failed : Readable(s)}
            IN \/ found = {} /\ prior' = [prior EXCEPT ![r] = NoState]
               \/ \E s \in found : Newest(s, found) /\ prior' = [prior EXCEPT ![r] = payload[s]]
      BY <2>1 DEF Restore, Undisturbed
    <3> DEFINE found == {s \in Runs : Readable(s)}
    <3>2. \/ found = {} /\ prior' = [prior EXCEPT ![r] = NoState]
          \/ \E s \in found : prior' = [prior EXCEPT ![r] = payload[s]]
      BY <3>1, Zenon
    <3>3. \A s \in Runs : Readable(s) <=> s < r
      BY <1>2 DEF SerialInv, Settled, Readable
    <3>4. CASE found = {} /\ prior' = [prior EXCEPT ![r] = NoState]
      <4>1. 1 \in Runs BY RunsAssumption
      <4>2. ~Readable(1) BY <3>4, <4>1
      <4>3. ~(1 < r) BY <3>3, <4>1, <4>2
      <4>4. r = 1 /\ prior'[r] = NoState BY <3>4, <4>3
      <4> QED BY <1>3, <1>5, <2>1, <4>4 DEF Restore, Unopposed, context
    <3>5. ASSUME NEW s \in found, prior' = [prior EXCEPT ![r] = payload[s]]
          PROVE  Unopposed(r)'
      <4>1. s \in Runs /\ s < r /\ prior'[r] = payload[s] BY <3>3, <3>5
      <4> QED BY <1>3, <1>5, <2>1, <4>1 DEF Restore, Unopposed, context
    <3> QED BY <3>2, <3>4, <3>5
  <2>2. CASE Anchor(r)
    <3>1. pc[r] = "anchor" /\ pc' = [pc EXCEPT ![r] = "list"]
          /\ UNCHANGED <<prior, todo, queued, pend, checkpoint, authority>>
      BY <2>2 DEF Anchor
    <3>2. CASE AnchorId(r) = 0
      <4>1. r = 1
        <5>1. r = 1 \/ AnchorId(r) \in Runs BY <1>2, <3>1, RestoredNames
        <5> QED BY <3>2, <5>1
      <4>2. UNCHANGED <<cands, fence>> BY <2>2, <3>2 DEF Anchor
      <4> QED BY <1>3, <1>5, <3>1, <4>1, <4>2 DEF Unopposed
    <3>3. CASE AnchorId(r) # 0
      <4>1. AnchorId(r) < r /\ ~payload[AnchorId(r)].fence
        BY <1>2, <3>1, <3>3, RestoredNames
      <4>2. /\ cands' = [cands EXCEPT ![r] = {AnchorId(r)}]
            /\ fence' = [fence EXCEPT ![r] = payload[AnchorId(r)].fence]
        BY <2>2, <3>3 DEF Anchor
      <4>3. cands'[r] = {AnchorId(r)} /\ ~fence'[r] BY <4>1, <4>2
      <4> QED BY <1>3, <1>5, <3>1, <4>1, <4>3 DEF Unopposed
    <3> QED BY <3>2, <3>3
  <2>3. CASE List(r)
    BY <1>3, <1>5, <2>3 DEF List, Unopposed, context
  <2>4. CASE Decide(r)
    <3>1. MayLead(r)
      BY <1>3, CreatedMonotone DEF MayLead, Ordered, Unopposed, Undisturbed
    <3>2. authority'[r] BY <2>4, <3>1 DEF Decide
    <3>3. ~fence'[r]
      BY <1>2, <1>3, <2>4, RestoredNames DEF Decide, Unopposed, SerialInv, Settled
    <3>4. checkpoint'[r] < r /\ (r = 1 \/ checkpoint'[r] # 0)
      <4>1. cands[r] # {} =>
              \E c \in cands[r] : checkpoint' = [checkpoint EXCEPT ![r] = c]
        BY <2>4 DEF Decide
      <4>2. CASE cands[r] = {}
        <5>1. UNCHANGED checkpoint BY <2>4, <4>2 DEF Decide
        <5>2. r = 1 BY <1>3, <2>4, <4>2 DEF Decide, Unopposed
        <5> QED BY <1>3, <5>1, <5>2 DEF Unopposed
      <4>3. CASE cands[r] # {}
        <5>1. PICK c \in cands[r] : checkpoint' = [checkpoint EXCEPT ![r] = c] BY <4>1, <4>3
        <5>2. c \in Runs /\ c < r BY <1>3 DEF Unopposed
        <5> QED BY <5>1, <5>2
      <4> QED BY <4>2, <4>3
    <3> QED BY <1>3, <1>5, <2>4, <3>2, <3>3, <3>4 DEF Decide, Unopposed, reader
  <2>5. CASE Abort(r)
    <3>1. ~AnchorLost(r) BY <1>2, RestoredNames DEF AnchorLost
    <3>2. ~HistoryFull(r) BY HistoryFits DEF HistoryFull
    <3>3. ~ReadError(r) BY DEF ReadError, Undisturbed
    <3> QED BY <2>5, <3>1, <3>2, <3>3 DEF Abort
  <2>6. ASSUME NEW s \in Runs, Observe(r, s) PROVE Unopposed(r)'
    <3>1. s # r /\ pc[r] = "read" /\ UNCHANGED <<pc, prior, authority, checkpoint>>
          /\ todo' = [todo EXCEPT ![r] = @ \ {s}]
      BY <1>3, <2>6 DEF Observe, Unopposed
    <3>2. attempt[s] = 1 /\ status[s] \in {"absent", "queued", "success"}
      BY <1>2, <3>1, OneInProgress DEF SerialInv, Settled
    <3>3. status[s] = "success" => s < r /\ Attested(s) /\ ~payload[s].fence
      BY <1>2, <3>1 DEF SerialInv, Settled, Attested, Readable, Undisturbed
    <3>4. CASE SeeQueued(r, s)
      BY <1>3, <1>5, <3>1, <3>4 DEF SeeQueued, Unopposed, Undisturbed
    <3>5. ~SeeOpaque(r, s) BY <3>2, <3>3 DEF SeeOpaque, Undisturbed
    <3>6. ~SeeRunning(r, s) /\ ~SeeSkipped(r, s) BY <3>2 DEF SeeRunning, SeeSkipped
    <3>7. CASE SeeEvidence(r, s)
      <4>1. s < r /\ ~payload[s].fence BY <3>3, <3>7 DEF SeeEvidence, Attested, Readable
      <4>2. cands[r] \subseteq cands'[r] /\ cands'[r] \subseteq cands[r] \cup {s}
        BY <3>7 DEF SeeEvidence
      <4>3. ~fence'[r] /\ UNCHANGED <<queued, pend>>
        BY <1>3, <3>7, <4>1 DEF SeeEvidence, Unopposed
      <4> QED BY <1>3, <1>5, <3>1, <4>1, <4>2, <4>3 DEF Unopposed
    <3> QED BY <2>6, <3>4, <3>5, <3>6, <3>7 DEF Observe
  <2>7. ASSUME NEW s \in Runs, ReadJobs(r, s) PROVE Unopposed(r)'
    BY <1>3, <1>5, <2>7 DEF ReadJobs, Unopposed, context
  <2> QED BY <2>1, <2>2, <2>3, <2>4, <2>5, <2>6, <2>7 DEF Read
<1> QED BY <1>1, <1>2, <1>4, <1>6, SameSide

LEMMA SerialAct ==
    ASSUME IInv, SerialInv, Undisturbed, NEW r \in Runs, Act(r)
    PROVE  SerialInv'
<1> USE DEF IInv, TypeOK
<1>1. pc[r] \in {"act", "armed"} BY DEF Act, RequireEffect, Decline, Complete, Effect
<1>2. status[r] = "in_progress" BY <1>1 DEF ProcessInv
<1>3. Unopposed(r) BY <1>2 DEF SerialInv
<1>4. CASE RequireEffect(r)
  <2>1. CheckpointStands(r)
    <3>1. checkpoint[r] \in Runs /\ checkpoint[r] < r
      BY <1>3, <1>4 DEF RequireEffect, CanEffect, Unopposed
    <3> QED BY <1>2, <3>1, CreatedMonotone DEF CheckpointStands, SerialInv, Settled
  <2>2. UNCHANGED <<github, reader, fence, authority, checkpoint>>
        /\ pc' = [pc EXCEPT ![r] = "armed"]
    BY <1>4, <2>1 DEF RequireEffect
  <2>3. Unopposed(r)' BY <1>1, <1>3, <2>2 DEF Unopposed, reader, github
  <2> QED BY <1>2, <2>2, <2>3, SameSide DEF reader
<1>5. ASSUME Decline(r) \/ \E k \in Keys : Effect(r, k) PROVE SerialInv'
  <2>1. /\ UNCHANGED <<github, reader, fence, authority, checkpoint>>
        /\ pc' = [pc EXCEPT ![r] = "act"]
    BY <1>5 DEF Decline, Effect, context
  <2>2. Unopposed(r)' BY <1>1, <1>3, <2>1 DEF Unopposed, reader, github
  <2> QED BY <1>2, <2>1, <2>2, SameSide DEF reader
<1>6. CASE Complete(r)
  <2>1. /\ status' = [status EXCEPT ![r] = "success"] /\ UNCHANGED attempt
        /\ payload' = [payload EXCEPT ![r] =
                        [id |-> r, ledger |-> ledger[r], authority |-> authority[r],
                         fence |-> fence[r], pred |-> checkpoint[r]]]
    BY <1>6 DEF Complete
  <2>2. live' = [live EXCEPT ![r] = TRUE]
    BY <1>2, <1>6 DEF Complete, SerialInv, Settled
  <2>3. payload'[r].id = r /\ payload'[r].authority /\ ~payload'[r].fence
    BY <1>1, <1>3, <2>1 DEF Unopposed
  <2>4. \A x \in Runs : status'[x] # "in_progress"
    BY <1>2, <2>1, OneInProgress DEF SerialInv
  <2>5. Settled' BY <1>2, <2>1, <2>2, <2>3, <2>4 DEF SerialInv, Settled
  <2> QED BY <2>4, <2>5 DEF SerialInv
<1> QED BY <1>4, <1>5, <1>6 DEF Act

LEMMA SerialStep ==
    ASSUME Undisturbed
    PROVE  IInv /\ SerialInv /\ [SerialNext]_vars => SerialInv'
<1> SUFFICES ASSUME IInv, SerialInv, [SerialNext]_vars PROVE SerialInv' OBVIOUS
<1>1. ASSUME NEW r \in Runs, Fault(r) PROVE FALSE
  BY <1>1 DEF Undisturbed, Fault, Skip, Cancel, Crash, Rerun, Expire
<1>2. CASE UNCHANGED vars
  BY <1>2 DEF vars, github, reader, context, SerialInv, Settled, Unopposed
<1> QED BY <1>1, <1>2, SerialCreate, SerialStart, SerialRead, SerialAct DEF SerialNext

LEMMA SerialNextIsNext == SerialNext => Next
BY DEF SerialNext, Next, InTurn

\* Without a fault the frontier never suspends itself: of runs that take turns, each but the
\* first is entitled to effects from its decision to its upload, and no read, no recheck of
\* the checkpoint and no order of reads fences a budget (service_context, require_effect).
THEOREM DecisionsEntitle ==
    ASSUME Undisturbed
    PROVE  SerialSpec =>
             /\ [](\A r \in Runs : status[r] = "in_progress" => ~fence[r])
             /\ [](\A r, s \in Runs :
                     s < r /\ status[s] = "success" /\ pc[r] \in {"act", "armed"} => CanEffect(r))
<1>1. IInv /\ SerialInv =>
        /\ \A r \in Runs : status[r] = "in_progress" => ~fence[r]
        /\ \A r, s \in Runs :
             s < r /\ status[s] = "success" /\ pc[r] \in {"act", "armed"} => CanEffect(r)
  <2> SUFFICES ASSUME IInv, SerialInv, NEW r \in Runs
               PROVE  /\ status[r] = "in_progress" => ~fence[r]
                      /\ \A s \in Runs :
                           s < r /\ status[s] = "success" /\ pc[r] \in {"act", "armed"}
                             => CanEffect(r)
    OBVIOUS
  <2>1. status[r] = "in_progress" => Unopposed(r) BY DEF SerialInv
  <2>2. pc[r] \in {"act", "armed"} => status[r] = "in_progress" BY DEF IInv, ProcessInv
  <2>3. attempt[r] = 1 BY DEF SerialInv, Settled
  <2> QED BY <2>1, <2>2, <2>3 DEF Unopposed, CanEffect, CanPrepare
<1> QED BY <1>1, SerialInit, SerialStep, SerialNextIsNext, Invariance, PTL DEF SerialSpec, Spec

-----------------------------------------------------------------------------
(* Every reading of the history comes to its end.                            *)

\* The kinds of reads a process has still to make.
Phase(r) == CASE pc[r] = "restore" -> 4
              [] pc[r] = "anchor"  -> 3
              [] pc[r] = "list"    -> 2
              [] pc[r] = "read"    -> 1
              [] OTHER -> 0

\* What it has still to read: each run of the window takes two requests at most.
Unread(r) == Phase(r) * (2 * NRuns + 1) + 2 * Cardinality(todo[r]) + Cardinality(queued[r])

\* The sets of runs have a size.
LEMMA RunSets ==
    ASSUME NEW S \in SUBSET Runs
    PROVE  IsFiniteSet(S) /\ Cardinality(S) \in 0 .. NRuns
<1>1. IsFiniteSet(Runs) /\ Cardinality(Runs) = NRuns BY RunsAssumption, FS_Interval
<1>2. IsFiniteSet(S) /\ Cardinality(S) <= NRuns BY <1>1, FS_Subset
<1>3. Cardinality(S) \in Nat BY <1>2, FS_CardinalityType
<1> QED BY <1>2, <1>3, RunsAssumption

LEMMA UnreadType ==
    ASSUME TypeOK, NEW r \in Runs
    PROVE  Unread(r) \in Nat
<1>1. Phase(r) \in 0 .. 4 BY DEF Phase
<1>2. Cardinality(todo[r]) \in Nat /\ Cardinality(queued[r]) \in Nat
  <2>1. todo[r] \in SUBSET Runs /\ queued[r] \in SUBSET Runs BY DEF TypeOK
  <2> QED BY <2>1, RunSets, RunsAssumption
<1>3. Phase(r) * (2 * NRuns + 1) \in Nat
  BY <1>1, RunsAssumption
<1> QED BY <1>2, <1>3 DEF Unread

LEMMA OneLess ==
    ASSUME NEW Q \in SUBSET Runs, NEW s \in Q
    PROVE  Cardinality(Q \ {s}) = Cardinality(Q) - 1
<1>1. IsFiniteSet(Q) BY RunSets
<1> QED BY <1>1, FS_RemoveElement

\* A run fetched takes its place among those that are done or whose jobs are to be read.
LEMMA FetchLessens ==
    ASSUME NEW S \in SUBSET Runs, NEW Q \in SUBSET Runs, NEW s \in S,
           NEW R \in {Q, Q \cup {s}}
    PROVE  2 * Cardinality(S \ {s}) + Cardinality(R) < 2 * Cardinality(S) + Cardinality(Q)
<1>1. IsFiniteSet(S) /\ IsFiniteSet(Q) BY RunSets
<1>2. Cardinality(S \ {s}) = Cardinality(S) - 1 BY OneLess
<1>3. Cardinality(Q \cup {s}) <= Cardinality(Q) + 1
  <2>1. CASE s \in Q
    <3>1. Q \cup {s} = Q BY <2>1
    <3>2. Cardinality(Q) \in Nat BY <1>1, FS_CardinalityType
    <3> QED BY <3>1, <3>2
  <2>2. CASE s \notin Q
    <3>1. Cardinality(Q \cup {s}) = Cardinality(Q) + 1 BY <1>1, <2>2, FS_AddElement
    <3>2. Cardinality(Q) \in Nat BY <1>1, FS_CardinalityType
    <3> QED BY <3>1, <3>2
  <2> QED BY <2>1, <2>2
<1>4. Cardinality(S) \in Nat /\ Cardinality(Q) \in Nat /\ Cardinality(R) \in Nat
  <2>1. IsFiniteSet(R) BY <1>1, FS_AddElement
  <2> QED BY <1>1, <2>1, FS_CardinalityType
<1>5. Cardinality(R) <= Cardinality(Q) + 1
  <2>1. R = Q \/ R = Q \cup {s} OBVIOUS
  <2> QED BY <1>3, <1>4, <2>1
<1> QED BY <1>2, <1>4, <1>5

LEMMA ReadLessens ==
    ASSUME IInv, NEW r \in Runs, Read(r)
    PROVE  Unread(r)' < Unread(r)
<1> USE RunsAssumption DEF IInv, TypeOK
<1>0. /\ Cardinality(todo[r]) \in 0 .. NRuns /\ Cardinality(queued[r]) \in 0 .. NRuns
      /\ Cardinality({}) = 0
  BY RunSets, FS_EmptySet
<1>1. CASE Restore(r) \/ Anchor(r)
  <2>1. UNCHANGED <<todo, queued>> BY <1>1 DEF Restore, Anchor
  <2>2. \/ pc[r] = "restore" /\ pc'[r] = "anchor"
        \/ pc[r] = "anchor" /\ pc'[r] = "list"
    BY <1>1 DEF Restore, Anchor
  <2> QED BY <1>0, <2>1, <2>2 DEF Unread, Phase
<1>2. CASE List(r)
  <2>1. todo[r] = {} /\ queued[r] = {} BY <1>2 DEF List, ReaderInv
  <2>2. pc[r] = "list" /\ pc'[r] = "read" /\ queued' = queued BY <1>2 DEF List
  <2>3. todo'[r] \in SUBSET Runs BY <1>2 DEF List, Window
  <2>4. Cardinality(todo'[r]) \in 0 .. NRuns BY <2>3, RunSets
  <2>5. Unread(r) = 2 * (2 * NRuns + 1) BY <1>0, <2>1, <2>2 DEF Unread, Phase
  <2>6. Unread(r)' = (2 * NRuns + 1) + 2 * Cardinality(todo'[r])
    <3>1. Phase(r)' = 1 BY <2>2 DEF Phase
    <3>2. Cardinality(queued'[r]) = 0 BY <1>0, <2>1, <2>2
    <3> QED BY <2>4, <3>1, <3>2 DEF Unread
  <2> QED BY <2>4, <2>5, <2>6
<1>3. CASE Decide(r) \/ Abort(r)
  <2>1. pc[r] \in {"anchor", "list", "read"} /\ pc'[r] = "act"
    BY <1>3 DEF Decide, Abort, AnchorLost, HistoryFull, ReadError
  <2>2. todo'[r] = {} /\ queued'[r] = {} BY <1>3 DEF Decide, Abort, reader
  <2> QED BY <1>0, <2>1, <2>2 DEF Unread, Phase
<1>4. ASSUME NEW s \in Runs, Observe(r, s) PROVE Unread(r)' < Unread(r)
  <2>1. pc' = pc /\ s \in todo[r] /\ todo'[r] = todo[r] \ {s} BY <1>4 DEF Observe
  <2>2. queued'[r] \in {queued[r], queued[r] \cup {s}}
    BY <1>4 DEF Observe, SeeQueued, SeeOpaque, SeeRunning, SeeSkipped, SeeEvidence
  <2>3. 2 * Cardinality(todo'[r]) + Cardinality(queued'[r])
          < 2 * Cardinality(todo[r]) + Cardinality(queued[r])
    BY <2>1, <2>2, FetchLessens
  <2>4. Cardinality(todo'[r]) \in Nat /\ Cardinality(queued'[r]) \in Nat
    <3>1. todo'[r] \in SUBSET Runs /\ queued'[r] \in SUBSET Runs BY <2>1, <2>2
    <3> QED BY <3>1, RunSets
  <2>5. Phase(r)' = Phase(r) /\ Phase(r) \in 0 .. 4 BY <2>1 DEF Phase
  <2>6. Phase(r) * (2 * NRuns + 1) \in Nat BY <2>5
  <2>7. Unread(r)' = Phase(r) * (2 * NRuns + 1) + 2 * Cardinality(todo'[r])
                      + Cardinality(queued'[r])
    BY <2>5 DEF Unread
  <2> QED BY <1>0, <2>3, <2>4, <2>6, <2>7 DEF Unread
<1>5. ASSUME NEW s \in Runs, ReadJobs(r, s) PROVE Unread(r)' < Unread(r)
  <2>1. pc' = pc /\ todo' = todo /\ s \in queued[r] /\ queued'[r] = queued[r] \ {s}
    BY <1>5 DEF ReadJobs
  <2>2. Cardinality(queued'[r]) = Cardinality(queued[r]) - 1
    <3>1. queued[r] \in SUBSET Runs OBVIOUS
    <3>2. Cardinality(queued[r] \ {s}) = Cardinality(queued[r]) - 1 BY <2>1, <3>1, OneLess
    <3> QED BY <2>1, <3>2
  <2>3. Phase(r)' = Phase(r) /\ Phase(r) \in 0 .. 4 BY <2>1 DEF Phase
  <2> QED BY <1>0, <2>1, <2>2, <2>3 DEF Unread
<1> QED BY <1>1, <1>2, <1>3, <1>4, <1>5 DEF Read

\* What a process has still to read is its own: the steps of the others and its own later
\* ones do not add to it.
LEMMA OthersReadNothing ==
    ASSUME IInv, NEW r \in Runs, [Next]_vars, ~Read(r), ~Start(r), ~Rerun(r)
    PROVE  Unread(r)' <= Unread(r)
<1> USE RunsAssumption DEF IInv, TypeOK
<1>0. Unread(r) \in Nat BY UnreadType
<1>1. CASE pc'[r] = pc[r] /\ todo'[r] = todo[r] /\ queued'[r] = queued[r]
  BY <1>0, <1>1 DEF Unread, Phase
<1>2. CASE pc'[r] \in {"idle", "act", "armed"} /\ todo'[r] = {} /\ queued'[r] = {}
  <2>1. Unread(r)' = 0 BY <1>2, FS_EmptySet DEF Unread, Phase
  <2> QED BY <1>0, <2>1
<1>3. ASSUME NEW x \in Runs, x # r, Read(x)
      PROVE  pc'[r] = pc[r] /\ todo'[r] = todo[r] /\ queued'[r] = queued[r]
  <2>1. CASE Restore(x) \/ Anchor(x) \/ List(x) \/ Decide(x) \/ Abort(x)
    BY <1>3, <2>1 DEF Restore, Anchor, List, Decide, Abort, reader
  <2>2. ASSUME NEW s \in Runs, Observe(x, s) \/ ReadJobs(x, s)
        PROVE  pc'[r] = pc[r] /\ todo'[r] = todo[r] /\ queued'[r] = queued[r]
    BY <1>3, <2>2 DEF Observe, ReadJobs, SeeQueued, SeeOpaque, SeeRunning, SeeSkipped,
                      SeeEvidence
  <2> QED BY <1>3, <2>1, <2>2 DEF Read
<1>4. ASSUME NEW x \in Runs, x # r, ~Read(x),
             Create(x) \/ Start(x) \/ Fault(x) \/ Act(x)
      PROVE  pc'[r] = pc[r] /\ todo'[r] = todo[r] /\ queued'[r] = queued[r]
  BY <1>4 DEF Create, Start, Fault, Skip, Cancel, Crash, Rerun, Expire, Fresh, Act,
              RequireEffect, Decline, Complete, Effect, reader
<1>5. ASSUME Create(r) \/ Skip(r) \/ Cancel(r) \/ Expire(r)
      PROVE  pc'[r] = pc[r] /\ todo'[r] = todo[r] /\ queued'[r] = queued[r]
  BY <1>5 DEF Create, Skip, Cancel, Expire, reader
<1>6. ASSUME Crash(r)
      PROVE  pc'[r] = "idle" /\ todo'[r] = {} /\ queued'[r] = {}
  BY <1>6 DEF Crash, Fresh
<1>7. ASSUME Act(r)
      PROVE  pc'[r] \in {"idle", "act", "armed"} /\ todo'[r] = {} /\ queued'[r] = {}
  <2>1. pc[r] \in {"act", "armed"} /\ todo[r] = {} /\ queued[r] = {}
    BY <1>7 DEF Act, RequireEffect, Decline, Complete, Effect, ReaderInv
  <2> QED BY <1>7, <2>1 DEF Act, RequireEffect, Decline, Complete, Effect, Fresh, reader
<1>8. CASE UNCHANGED vars BY <1>1, <1>8 DEF vars, reader
<1> QED BY <1>1, <1>2, <1>3, <1>4, <1>5, <1>6, <1>7, <1>8 DEF Next, Fault

\* No service run reads for ever: each of its reads leaves fewer to come, a natural number
\* that neither the other runs nor any fault raises, however many runs are created meanwhile;
\* only a new start of its own begins anew (previous_state, service_context).
THEOREM ReadingsEnd ==
    Spec => \A r \in Runs :
              /\ [](Unread(r) \in Nat)
              /\ [][/\ Read(r) => Unread(r)' < Unread(r)
                    /\ ~Read(r) /\ ~Start(r) /\ ~Rerun(r) => Unread(r)' <= Unread(r)]_vars
<1> SUFFICES ASSUME NEW r \in Runs
             PROVE  Spec =>
                      /\ [](Unread(r) \in Nat)
                      /\ [][/\ Read(r) => Unread(r)' < Unread(r)
                            /\ ~Read(r) /\ ~Start(r) /\ ~Rerun(r) =>
                                 Unread(r)' <= Unread(r)]_vars
  OBVIOUS
<1>1. IInv => Unread(r) \in Nat BY UnreadType DEF IInv
<1>2. IInv /\ [Next]_vars =>
        [/\ Read(r) => Unread(r)' < Unread(r)
         /\ ~Read(r) /\ ~Start(r) /\ ~Rerun(r) => Unread(r)' <= Unread(r)]_vars
  BY ReadLessens, OthersReadNothing
<1> QED BY <1>1, <1>2, Invariance, PTL DEF Spec
=============================================================================
