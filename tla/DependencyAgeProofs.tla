------------------------- MODULE DependencyAgeProofs -------------------------
(***************************************************************************)
(* Proofs about DependencyAge, for every inventory, every set of           *)
(* candidates and every number of runs: nothing that the policy judges     *)
(* reaches the target branch before its hold is over, and a hold starts    *)
(* over only with a failure.                                               *)
(***************************************************************************)
EXTENDS DependencyAge, WellFoundedInduction, TLAPS

\* A non-empty set of instants has an earliest one.
LEMMA Earliest ==
  ASSUME NEW T \in SUBSET Nat, T # {}
  PROVE  \E x \in T : \A y \in T : x <= y
<1> DEFINE before == OpToRel(<, Nat)
<1>1. PICK x \in T : \A y \in T : ~ (<<y, x>> \in before)
  BY NatLessThanWellFounded, WFMin
<1>2. \A y \in T : ~ (<<y, x>> \in before) => x <= y
  BY DEF OpToRel
<1> QED
  BY <1>1, <1>2

\* A merged observation is one of the observations merged (merge_budgets).
LEMMA MergedIsObserved ==
  ASSUME TypeOK, NEW runs \in SUBSET Runs, NEW a \in Artifacts, Merged(runs)[a] # 0
  PROVE  \E s \in runs : ledger[s][a] = Merged(runs)[a]
<1> DEFINE times == {ledger[s][a] : s \in runs} \ {0}
<1>1. Merged(runs)[a] = IF times = {} THEN 0 ELSE CHOOSE t \in times : \A u \in times : t <= u
  BY DEF Merged
<1>2. times \in SUBSET Nat
  BY BoundsAssumption DEF TypeOK, Ledgers, Times
<1>3. times # {}
  BY <1>1
<1>4. \E t \in times : \A u \in times : t <= u
  <2> HIDE DEF times
  <2> QED BY <1>2, <1>3, Earliest
<1>5. Merged(runs)[a] \in times
  <2> HIDE DEF times
  <2> QED BY <1>1, <1>3, <1>4
<1> QED
  BY <1>5

\* Merging keeps the type of a ledger (merge_budgets).
LEMMA MergedTyped ==
  ASSUME TypeOK, NEW runs \in SUBSET Runs
  PROVE  Merged(runs) \in Ledgers
<1>1. ASSUME NEW a \in Artifacts PROVE Merged(runs)[a] \in Times
  <2>1. CASE Merged(runs)[a] = 0
    BY <2>1, BoundsAssumption DEF Times
  <2>2. CASE Merged(runs)[a] # 0
    <3>1. PICK s \in runs : ledger[s][a] = Merged(runs)[a]
      BY <2>2, MergedIsObserved
    <3> QED BY <3>1 DEF TypeOK, Ledgers
  <2> QED BY <2>1, <2>2
<1>2. Merged(runs) = [a \in Artifacts |-> Merged(runs)[a]]
  BY DEF Merged
<1> QED
  BY <1>1, <1>2 DEF Ledgers

-----------------------------------------------------------------------------

\* The inductive invariant holds before the first run.
LEMMA InitIInv == Init => IInv
<1> SUFFICES ASSUME Init PROVE IInv
  OBVIOUS
<1>1. TypeOK
  BY BoundsAssumption DEF Init, TypeOK, Times, Ledgers, Runs, NoReport, Statuses, kept
<1> QED
  BY <1>1 DEF Init, IInv, Clocked, Witnessed, Passed, Blank, AgedOnMain, NoReport

\* A run starts by looking at the clock.
LEMMA StartIInv == ASSUME IInv, NEW r \in Runs, Start(r) PROVE IInv'
<1> USE DEF IInv
<1>1. TypeOK'
  <2>1. \A s \in kept' : Size(ledger[s])' <= Capacity
    BY DEF TypeOK, Start, kept, Size, Seen
  <2> QED BY <2>1 DEF TypeOK, Start
<1>2. Clocked'
  BY DEF Clocked, Start, TypeOK, Times
<1>3. Passed'
  <2> SUFFICES ASSUME NEW s \in Runs, NEW c \in Candidates, report'[s][c].status = "pass",
                      NEW a \in Intro[c] \ report'[s][c].base
               PROVE  Aged(a, now[s])'
    BY DEF Passed
  <2>1. s # r
    BY DEF Start, Blank, NoReport
  <2>2. now'[s] = now[s]
    BY <2>1 DEF Start, TypeOK
  <2> QED BY <2>1, <2>2 DEF Passed, Aged, Held, Start
<1>4. Witnessed' /\ Blank' /\ AgedOnMain' /\ clock' >= 1
  BY DEF Witnessed, Blank, AgedOnMain, Aged, Held, Start, TypeOK
<1> QED
  BY <1>1, <1>2, <1>3, <1>4

\* A run restores its ledger: what is merged has only what other runs observed
\* (merge_budgets).
LEMMA RestoreIInv == ASSUME IInv, NEW r \in Runs, Restore(r) PROVE IInv'
<1> USE DEF IInv
<1>1. PICK runs \in Histories(r) : ledger' = [ledger EXCEPT ![r] = Merged(runs)]
  BY DEF Restore
<1>2. runs \in SUBSET Runs
  BY <1>1 DEF Histories, Readable, kept
<1>3. Merged(runs) \in Ledgers
  BY <1>2, MergedTyped
<1>4. TypeOK'
  <2>1. ledger' \in [Runs -> Ledgers]
    BY <1>1, <1>3 DEF TypeOK
  <2>2. \A s \in kept' : Size(ledger[s])' <= Capacity
    BY <1>1 DEF TypeOK, Restore, kept, Size, Seen
  <2> QED BY <2>1, <2>2 DEF TypeOK, Restore
<1>5. Clocked'
  BY DEF Clocked, Restore, TypeOK, Times
<1>6. Witnessed'
  <2> SUFFICES ASSUME NEW s \in Runs, NEW a \in Artifacts, ledger'[s][a] # 0
               PROVE  first'[a] # 0 /\ first'[a] <= ledger'[s][a]
    BY DEF Witnessed
  <2>1. CASE s = r
    <3>1. PICK u \in runs : ledger[u][a] = ledger'[s][a]
      BY <1>1, <1>2, <2>1, MergedIsObserved DEF TypeOK
    <3> QED BY <3>1, <1>2 DEF Witnessed, Restore
  <2>2. CASE s # r
    BY <2>2, <1>1 DEF Witnessed, Restore, TypeOK
  <2> QED BY <2>1, <2>2
<1>7. Passed'
  BY DEF Passed, Aged, Held, Restore
<1>8. Blank' /\ AgedOnMain'
  BY DEF Blank, AgedOnMain, Aged, Held, Restore, TypeOK
<1>9. clock' >= 1
  BY DEF Restore
<1> QED
  BY <1>4, <1>5, <1>6, <1>7, <1>8, <1>9

\* A refused evaluation loses no hold: its candidate fails (check_dependencies).
LEMMA RefuseIInv ==
  ASSUME IInv, NEW r \in Runs, NEW c \in Candidates, Judge(r, c), Refuse(r, c)
  PROVE  IInv'
<1> USE DEF IInv
<1>1. Emptied(r) \in Ledgers /\ \A a \in Artifacts : Emptied(r)[a] # 0 => Emptied(r)[a] = ledger[r][a]
  BY BoundsAssumption DEF Emptied, TypeOK, Ledgers, Times
<1>2. TypeOK'
  <2>1. ledger' \in [Runs -> Ledgers]
    BY <1>1 DEF Refuse, TypeOK
  <2>2. report' \in [Runs -> [Candidates -> [status : Statuses \cup {"none"}, base : SUBSET Artifacts]]]
    BY DEF Refuse, TypeOK, Statuses
  <2>3. \A s \in kept' : Size(ledger[s])' <= Capacity
    BY DEF TypeOK, Judge, Refuse, kept, Size, Seen
  <2> QED BY <2>1, <2>2, <2>3 DEF TypeOK, Judge, Refuse
<1>3. Witnessed'
  BY <1>1 DEF Witnessed, Refuse, TypeOK
<1>4. Passed'
  BY DEF Passed, Refuse, Judge, Aged, Held, TypeOK
<1>5. Clocked' /\ Blank' /\ AgedOnMain' /\ clock' >= 1
  BY DEF Clocked, Blank, AgedOnMain, Aged, Held, Judge, Refuse, TypeOK
<1> QED
  BY <1>2, <1>3, <1>4, <1>5

\* The first verification of an artifact is never moved to a later instant.
LEMMA FirstNotLater ==
  ASSUME IInv, NEW r \in Runs, NEW c \in Candidates, NEW down, NEW new,
         pc[r] = "ready", Evaluate(r, c, down, new)
  PROVE  /\ first' \in Ledgers
         /\ \A a \in Artifacts : first[a] # 0 => first'[a] # 0 /\ first'[a] <= first[a]
         /\ \A a \in Artifacts : a \in Verified(r, c, down, new) =>
              first'[a] # 0 /\ first'[a] <= now[r]
  BY BoundsAssumption DEF IInv, Evaluate, TypeOK, Ledgers, Times, Clocked

\* What was old enough stays so: later verifications leave an earlier one.
LEMMA AgedStays ==
  ASSUME TypeOK, first' \in Ledgers, NEW a, NEW t \in Nat, Aged(a, t),
         \A b \in Artifacts : first[b] # 0 => first'[b] # 0 /\ first'[b] <= first[b],
         NEW t2 \in Nat, t <= t2, a \in Artifacts
  PROVE  Aged(a, t2)'
  BY BoundsAssumption, ArtifactsAssumption DEF TypeOK, Ledgers, Times, Aged, Held, Waivable

\* An evaluation passes only what is old enough, and records only what it verified.
LEMMA EvaluateIInv ==
  ASSUME IInv, NEW r \in Runs, NEW c \in Candidates, NEW down \in Unreachable(r, c),
         NEW new \in SUBSET Unseen(r, c, down), Judge(r, c), Evaluate(r, c, down, new)
  PROVE  IInv'
<1> USE DEF IInv
<1>1. /\ pc[r] = "ready" /\ now[r] \in Nat /\ now[r] >= 1 /\ now[r] <= clock
      /\ UNCHANGED <<clock, main, pc, now>>
  BY BoundsAssumption DEF Judge, Clocked, TypeOK, Times
<1>2. /\ first' \in Ledgers
      /\ \A a \in Artifacts : first[a] # 0 => first'[a] # 0 /\ first'[a] <= first[a]
      /\ \A a \in Artifacts : a \in Verified(r, c, down, new) =>
           first'[a] # 0 /\ first'[a] <= now[r]
  BY <1>1, FirstNotLater
<1>3. Introduced(c) \subseteq Artifacts /\ Introduced(c) \subseteq Intro[c]
  BY CandidatesAssumption DEF Introduced
<1>5. new \subseteq Verified(r, c, down, new)
  BY <1>3 DEF Unseen, Verified
<1>6. TypeOK'
  <2>1. ledger' \in [Runs -> Ledgers]
    BY <1>1 DEF Evaluate, TypeOK, Ledgers
  <2>2. report' \in [Runs -> [Candidates -> [status : Statuses \cup {"none"}, base : SUBSET Artifacts]]]
    BY DEF Evaluate, TypeOK, Statuses
  <2>3. \A s \in kept' : Size(ledger[s])' <= Capacity
    BY <1>1 DEF TypeOK, Evaluate, kept, Size, Seen
  <2> QED BY <1>1, <1>2, <2>1, <2>2, <2>3 DEF TypeOK
<1>7. Witnessed'
  <2> SUFFICES ASSUME NEW s \in Runs, NEW a \in Artifacts, ledger'[s][a] # 0
               PROVE  first'[a] # 0 /\ first'[a] <= ledger'[s][a]
    BY DEF Witnessed
  <2>1. CASE s = r /\ a \in new
    BY <1>2, <1>5, <2>1 DEF Evaluate, TypeOK
  <2>2. CASE ~(s = r /\ a \in new)
    <3>1. ledger'[s][a] = ledger[s][a]
      BY <2>2 DEF Evaluate, TypeOK
    <3>2. first[a] # 0 /\ first[a] <= ledger[s][a]
      BY <3>1 DEF Witnessed
    <3> QED
      BY <1>2, <3>1, <3>2, BoundsAssumption DEF TypeOK, Ledgers, Times
  <2> QED BY <2>1, <2>2
<1>8. Passed'
  <2> SUFFICES ASSUME NEW s \in Runs, NEW d \in Candidates, report'[s][d].status = "pass",
                      NEW a \in Intro[d] \ report'[s][d].base
               PROVE  Aged(a, now[s])'
    BY DEF Passed
  <2>1. a \in Artifacts /\ now'[s] = now[s] /\ now[s] \in Nat
    BY <1>1, CandidatesAssumption, BoundsAssumption DEF TypeOK, Times
  <2>2. CASE s = r /\ d = c
    <3>1. ~Fails(r, c, down, new) /\ ~Waits(r, c, new) /\ report'[r][c].base = main
      BY <2>2 DEF Evaluate, TypeOK
    <3>7. CASE a \in Unheld
      BY <3>7 DEF Aged
    <3> SUFFICES ASSUME a \notin Unheld PROVE Aged(a, now[s])'
      BY <3>7
    <3>2. a \in Introduced(c)
      BY <2>2, <3>1 DEF Introduced
    <3>3. a \notin down /\ new = Unseen(r, c, down)
      BY <3>1, <3>2 DEF Fails
    <3>4. CASE Waived(c, a)
      BY <2>2, <3>4 DEF Waived, Aged, Held, Waivable
    <3>5. CASE ~Waived(c, a) /\ Published[a] # 0
      <4>1. ~(now[r] < Published[a] + Hold)
        BY <3>1, <3>2, <3>5 DEF Waits, Evidence
      <4> QED
        BY <2>1, <2>2, <3>5, <4>1, ArtifactsAssumption, BoundsAssumption DEF Aged, Held
    <3>6. CASE ~Waived(c, a) /\ Published[a] = 0
      <4>1. a \notin new
        BY <1>1, <3>1, <3>2, <3>6, BoundsAssumption DEF Waits, Evidence
      <4>2. ledger[r][a] # 0
        BY <3>2, <3>3, <3>6, <4>1 DEF Unseen
      <4>3. ~(now[r] < ledger[r][a] + Hold)
        BY <3>1, <3>2, <3>6, <4>1 DEF Waits, Evidence
      <4>4. first[a] # 0 /\ first[a] <= ledger[r][a]
        BY <2>1, <4>2 DEF Witnessed
      <4>5. first'[a] # 0 /\ first'[a] + Hold <= now[r]
        BY <1>1, <1>2, <2>1, <4>3, <4>4, BoundsAssumption DEF TypeOK, Ledgers, Times
      <4> QED BY <2>1, <2>2, <3>6, <4>5 DEF Aged, Held
    <3> QED BY <3>4, <3>5, <3>6
  <2>3. CASE ~(s = r /\ d = c)
    <3>1. report'[s][d] = report[s][d]
      BY <2>3 DEF Evaluate, TypeOK
    <3>2. Aged(a, now[s])
      BY <3>1 DEF Passed
    <3> QED BY <1>2, <2>1, <3>2, AgedStays DEF Aged, Held
  <2> QED BY <2>2, <2>3
<1>9. AgedOnMain'
  <2> SUFFICES ASSUME NEW a \in main PROVE Aged(a, clock)'
    BY <1>1 DEF AgedOnMain
  <2>1. a \in Artifacts /\ clock \in Nat /\ Aged(a, clock)
    BY BoundsAssumption DEF TypeOK, Times, AgedOnMain
  <2> QED BY <1>1, <1>2, <2>1, AgedStays DEF Aged, Held
<1>10. Clocked' /\ Blank' /\ clock' >= 1
  BY <1>1 DEF Clocked, Blank, Evaluate, TypeOK
<1> QED
  BY <1>6, <1>7, <1>8, <1>9, <1>10

\* A run that ends leaves no verdict and no observation behind.
LEMMA ForgetIInv ==
  ASSUME IInv, NEW r \in Runs, Forget(r), UNCHANGED <<clock, main, first>>
  PROVE  IInv'
<1> USE DEF IInv
<1>1. TypeOK'
  <2>1. ledger' \in [Runs -> Ledgers] /\ now' \in [Runs -> Times]
    BY BoundsAssumption DEF Forget, TypeOK, Ledgers, Times
  <2>2. report' \in [Runs -> [Candidates -> [status : Statuses \cup {"none"}, base : SUBSET Artifacts]]]
    BY DEF Forget, TypeOK, NoReport
  <2>3. \A s \in kept' : Size(ledger[s])' <= Capacity
    BY DEF TypeOK, Forget, kept, Size, Seen
  <2>4. pc' \in [Runs -> {"none", "dated", "ready", "done", "gone"}]
    BY DEF Forget, TypeOK
  <2> QED BY <2>1, <2>2, <2>3, <2>4 DEF TypeOK
<1>2. Clocked' /\ Witnessed'
  BY BoundsAssumption DEF Forget, Clocked, Witnessed, TypeOK, Times
<1>3. Passed'
  BY DEF Forget, Passed, Aged, Held, NoReport, TypeOK
<1>4. Blank' /\ AgedOnMain' /\ clock' >= 1
  BY DEF Forget, Blank, AgedOnMain, Aged, Held, TypeOK
<1> QED
  BY <1>1, <1>2, <1>3, <1>4

\* What merges has a verdict of a run whose instant has come (the waiter).
LEMMA MergeIInv ==
  ASSUME IInv, NEW r \in Runs, NEW c \in Candidates, Merge(r, c)
  PROVE  IInv'
<1> USE DEF IInv
<1>1. TypeOK'
  BY CandidatesAssumption DEF TypeOK, Merge, kept, Size, Seen
<1>2. AgedOnMain'
  <2> SUFFICES ASSUME NEW a \in main \cup Intro[c] PROVE Aged(a, clock)'
    BY DEF AgedOnMain, Merge
  <2>1. CASE a \in main
    BY <2>1 DEF AgedOnMain, Merge, Aged, Held
  <2>2. CASE a \notin main
    <3>0. report[r][c].status = "pass" /\ a \in Intro[c] \ report[r][c].base
      BY <2>2 DEF Merge
    <3>1. Aged(a, now[r]) /\ now[r] <= clock /\ now[r] \in Nat /\ clock \in Nat
      <4>1. Aged(a, now[r])
        BY <3>0 DEF Passed
      <4> QED
        BY <4>1, BoundsAssumption DEF Clocked, TypeOK, Times
    <3>2. a \in Artifacts
      BY CandidatesAssumption DEF TypeOK
    <3>3. first' = first /\ clock' = clock /\ first \in Ledgers
      BY DEF Merge, TypeOK
    <3>4. \A b \in Artifacts : first[b] # 0 => first'[b] # 0 /\ first'[b] <= first[b]
      BY <3>3, BoundsAssumption DEF Ledgers, Times
    <3> QED
      BY <3>1, <3>2, <3>3, <3>4, AgedStays DEF Aged, Held
  <2> QED BY <2>1, <2>2
<1>3. Clocked' /\ Witnessed' /\ Passed' /\ Blank' /\ clock' >= 1
  BY DEF Merge, Clocked, Witnessed, Passed, Blank, Aged, Held, TypeOK
<1> QED
  BY <1>1, <1>2, <1>3

\* Time passes: what was old enough stays so.
LEMMA TickIInv == ASSUME IInv, Tick PROVE IInv'
<1> USE DEF IInv
<1>1. clock \in Nat /\ clock' = clock + 1 /\ clock' \in Times
  BY BoundsAssumption DEF Tick, TypeOK, Times
<1>2. TypeOK'
  BY <1>1 DEF Tick, TypeOK, kept, Size, Seen
<1>3. AgedOnMain'
  <2> SUFFICES ASSUME NEW a \in main PROVE Aged(a, clock)'
    BY DEF Tick, AgedOnMain
  <2>1. Aged(a, clock) /\ a \in Artifacts
    BY DEF AgedOnMain, TypeOK
  <2> QED
    BY <1>1, <2>1, AgedStays DEF Tick, TypeOK, Ledgers, Times
<1>4. Clocked' /\ Witnessed' /\ Passed' /\ Blank' /\ clock' >= 1
  BY <1>1, BoundsAssumption DEF Tick, Clocked, Witnessed, Passed, Blank, Aged, Held, TypeOK, Times
<1> QED
  BY <1>2, <1>3, <1>4

\* An upload keeps the state, or the run ends without an artifact.
LEMMA UploadIInv == ASSUME IInv, NEW r \in Runs, Upload(r) PROVE IInv'
<1> USE DEF IInv
<1>1. CASE Fits(r)
  <2>1. /\ pc[r] = "ready" /\ pc' = [pc EXCEPT ![r] = "done"]
        /\ UNCHANGED <<clock, main, now, ledger, report, first>>
    BY <1>1 DEF Upload
  <2>2. TypeOK'
    BY <1>1, <2>1 DEF TypeOK, kept, Size, Seen, Fits
  <2> QED
    BY <2>1, <2>2 DEF Clocked, Witnessed, Passed, Blank, AgedOnMain, Aged, Held, TypeOK
<1>2. CASE ~Fits(r)
  BY <1>2, ForgetIInv DEF Upload
<1> QED
  BY <1>1, <1>2

\* The inductive invariant holds in every reachable state.
THEOREM Invariance == Spec => []IInv
<1>1. IInv /\ [Next]_vars => IInv'
  <2> SUFFICES ASSUME IInv, [Next]_vars PROVE IInv'
    OBVIOUS
  <2>1. CASE Tick
    BY <2>1, TickIInv
  <2>2. ASSUME NEW r \in Runs, Start(r) \/ Restore(r) \/ Upload(r) \/ Crash(r) \/ Lose(r)
       PROVE IInv'
    BY <2>2, StartIInv, RestoreIInv, UploadIInv, ForgetIInv DEF Crash, Lose
  <2>3. ASSUME NEW r \in Runs, NEW c \in Candidates, Judge(r, c) PROVE IInv'
    <3>1. CASE Refuse(r, c)
      BY <2>3, <3>1, RefuseIInv
    <3>2. CASE ~Refuse(r, c)
      <4>1. PICK down \in Unreachable(r, c) : \E new \in SUBSET Unseen(r, c, down) :
              Evaluate(r, c, down, new)
        BY <2>3, <3>2 DEF Judge
      <4> QED BY <2>3, <4>1, EvaluateIInv
    <3> QED BY <3>1, <3>2
  <2>4. ASSUME NEW r \in Runs, NEW c \in Candidates, Merge(r, c) PROVE IInv'
    BY <2>4, MergeIInv
  <2>5. CASE UNCHANGED vars
    BY <2>5 DEF IInv, TypeOK, Clocked, Witnessed, Passed, Blank, AgedOnMain, Aged, Held,
                vars, kept, Size, Seen
  <2> QED BY <2>1, <2>2, <2>3, <2>4, <2>5 DEF Next
<1> QED
  BY InitIInv, <1>1, PTL DEF Spec

\* Every reachable state is well typed, and what is uploaded can be read by the next run.
THEOREM TypeCorrect == Spec => []TypeOK
<1>1. IInv => TypeOK
  BY DEF IInv
<1> QED
  BY Invariance, <1>1, PTL

\* Nothing that the policy judges reaches the target branch before its hold is over, whatever
\* is lost, merged or judged at once (check_dependencies, check_operational).
THEOREM HoldRespected == Spec => []AgedOnMain
<1>1. IInv => AgedOnMain
  BY DEF IInv
<1> QED
  BY Invariance, <1>1, PTL

(***************************************************************************)
(* What becomes of an observation.                                         *)
(***************************************************************************)
\* Merging keeps every observation, and none becomes later (merge_budgets).
LEMMA MergedIsEarliest ==
  ASSUME TypeOK, NEW runs \in SUBSET Runs, NEW s \in runs, NEW a \in Seen(ledger[s])
  PROVE  Merged(runs)[a] # 0 /\ Merged(runs)[a] <= ledger[s][a]
<1> DEFINE times == {ledger[u][a] : u \in runs} \ {0}
<1>1. a \in Artifacts /\ ledger[s][a] \in times
  BY DEF Seen
<1>2. Merged(runs)[a] = IF times = {} THEN 0 ELSE CHOOSE t \in times : \A u \in times : t <= u
  BY <1>1 DEF Merged
<1>3. times \in SUBSET Nat /\ 0 \notin times
  BY <1>1, BoundsAssumption DEF TypeOK, Ledgers, Times
<1>4. \E t \in times : \A u \in times : t <= u
  <2> HIDE DEF times
  <2> QED BY <1>1, <1>3, Earliest
<1> HIDE DEF times
<1>5. Merged(runs)[a] \in times /\ \A u \in times : Merged(runs)[a] <= u
  BY <1>1, <1>2, <1>4
<1> QED
  BY <1>1, <1>3, <1>5

\* Merging one artifact alone is to take it over (merge_budgets).
LEMMA MergedAlone ==
  ASSUME TypeOK, NEW s \in Runs
  PROVE  Merged({s}) = ledger[s]
<1>1. ASSUME NEW a \in Artifacts PROVE Merged({s})[a] = ledger[s][a]
  <2>1. CASE ledger[s][a] = 0
    BY <2>1, <1>1 DEF Merged
  <2>2. CASE ledger[s][a] # 0
    <3>1. Merged({s})[a] # 0
      BY <1>1, <2>2, MergedIsEarliest DEF Seen
    <3> QED
      BY <1>1, <3>1, MergedIsObserved
  <2> QED BY <2>1, <2>2
<1>2. ledger[s] \in [Artifacts -> Times] /\ Merged({s}) \in [Artifacts -> Times]
  BY MergedTyped DEF TypeOK, Ledgers
<1> QED
  BY <1>1, <1>2

\* Only restoring makes a run ready.
LEMMA BecomesReady ==
  ASSUME TypeOK, [Next]_vars, NEW r \in Runs, pc[r] = "dated", pc'[r] = "ready"
  PROVE  Restore(r)
<1>1. ASSUME NEW s \in Runs, Forget(s) PROVE FALSE
  BY <1>1 DEF Forget, TypeOK
<1>2. CASE UNCHANGED pc
  BY <1>2
<1>3. ASSUME NEW s \in Runs, Start(s) PROVE FALSE
  BY <1>3 DEF Start, TypeOK
<1>4. ASSUME NEW s \in Runs, Restore(s) PROVE s = r
  BY <1>4 DEF Restore, TypeOK
<1>5. ASSUME NEW s \in Runs, Upload(s), ~Forget(s) PROVE FALSE
  BY <1>5 DEF Upload, TypeOK
<1>6. ASSUME NEW s \in Runs, NEW c \in Candidates, Judge(s, c) \/ Merge(s, c)
      PROVE  UNCHANGED pc
  BY <1>6 DEF Judge, Merge
<1> QED
  BY <1>1, <1>2, <1>3, <1>4, <1>5, <1>6 DEF Next, vars, Tick, Crash, Lose

\* A run starts with all that it accepts, or with the newest state (previous_state).
LEMMA RestoreObserves ==
  ASSUME TypeOK, NEW r \in Runs, Restore(r)
  PROVE  Restored(r)
<1>1. PICK runs \in Histories(r) : ledger' = [ledger EXCEPT ![r] = Merged(runs)]
  BY DEF Restore
<1>2. ledger'[r] = Merged(runs)
  BY <1>1 DEF TypeOK
<1>3. Readable(r) \in SUBSET Runs
  BY DEF Readable, kept
<1>4. CASE runs = Readable(r)
  BY <1>2, <1>3, <1>4, MergedIsEarliest DEF Restored, Keeps
<1>5. CASE runs # Readable(r)
  <2>1. PICK s \in Readable(r) : runs = {s} /\ \A u \in Readable(r) : u <= s
    BY <1>1, <1>5 DEF Histories
  <2> QED
    BY <1>2, <1>3, <2>1, MergedAlone DEF Restored
<1> QED
  BY <1>4, <1>5

\* A refused candidate costs the run every observation or none (check_dependencies).
LEMMA RefusedKeepsOrDrops ==
  ASSUME TypeOK, NEW r \in Runs, NEW c \in Candidates, report[r][c] = NoReport, Refuse(r, c)
  PROVE  ledger'[r] = ledger[r] \/ Dropped(r)
<1>1. ledger'[r] = Emptied(r) /\ report'[r][c].status = "failure"
  BY DEF Refuse, TypeOK
<1>2. CASE Size(ledger[r]) > Capacity
  <2>1. Seen(ledger'[r]) = {}
    BY <1>1, <1>2 DEF Emptied, Seen
  <2> QED
    BY <1>1, <1>2, <2>1 DEF Dropped
<1>3. CASE ~(Size(ledger[r]) > Capacity)
  BY <1>1, <1>3 DEF Emptied
<1> QED
  BY <1>2, <1>3

\* A run keeps what it started from until it ends (check_dependencies, check_operational).
LEMMA ReadyKeeps ==
  ASSUME IInv, [Next]_vars, NEW r \in Runs, pc[r] = "ready", pc'[r] # "gone"
  PROVE  Keeps(r, r) \/ Dropped(r)
<1>1. TypeOK /\ \A a \in Seen(ledger[r]) : a \in Artifacts /\ ledger[r][a] # 0 /\ ledger[r][a] \in Nat
  BY BoundsAssumption DEF IInv, TypeOK, Ledgers, Times, Seen
<1>2. CASE ledger'[r] = ledger[r]
  BY <1>1, <1>2 DEF Keeps
<1>3. ASSUME NEW s \in Runs, Restore(s) PROVE ledger'[r] = ledger[r]
  <2>1. s # r
    BY <1>3 DEF Restore
  <2> QED
    BY <1>1, <1>3, <2>1 DEF Restore, TypeOK
<1>4. ASSUME NEW s \in Runs, Forget(s) PROVE ledger'[r] = ledger[r]
  <2>1. s # r
    BY <1>1, <1>4 DEF Forget, TypeOK
  <2> QED
    BY <1>1, <1>4, <2>1 DEF Forget, TypeOK
<1>5. ASSUME NEW s \in Runs, NEW c \in Candidates, report[s][c] = NoReport, Refuse(s, c)
      PROVE  ledger'[r] = ledger[r] \/ Dropped(r)
  <2>1. CASE s = r
    BY <1>1, <1>5, <2>1, RefusedKeepsOrDrops
  <2>2. CASE s # r
    BY <1>1, <1>5, <2>2 DEF Refuse, TypeOK
  <2> QED BY <2>1, <2>2
<1>6. ASSUME NEW s \in Runs, NEW c \in Candidates, NEW down,
             NEW new \in SUBSET Unseen(s, c, down), Evaluate(s, c, down, new)
      PROVE  Keeps(r, r)
  <2> SUFFICES ASSUME NEW a \in Seen(ledger[r])
               PROVE  ledger'[r][a] # 0 /\ ledger'[r][a] <= ledger[r][a]
    BY DEF Keeps
  <2>1. CASE s = r
    <3>1. a \notin new
      BY <1>1, <2>1 DEF Unseen
    <3> QED
      BY <1>1, <1>6, <2>1, <3>1 DEF Evaluate, TypeOK
  <2>2. CASE s # r
    BY <1>1, <1>6, <2>2 DEF Evaluate, TypeOK
  <2> QED BY <2>1, <2>2
<1>7. ASSUME NEW s \in Runs, NEW c \in Candidates, Judge(s, c)
      PROVE  Keeps(r, r) \/ Dropped(r)
  <2>1. CASE Refuse(s, c)
    BY <1>2, <1>5, <1>7, <2>1 DEF Judge
  <2>2. CASE ~Refuse(s, c)
    <3>1. PICK down \in Unreachable(s, c) : \E new \in SUBSET Unseen(s, c, down) :
            Evaluate(s, c, down, new)
      BY <1>7, <2>2 DEF Judge
    <3> QED BY <1>6, <3>1
  <2> QED BY <2>1, <2>2
<1>8. ASSUME NEW s \in Runs, Upload(s) PROVE ledger'[r] = ledger[r]
  BY <1>4, <1>8 DEF Upload
<1> QED
  BY <1>2, <1>3, <1>4, <1>7, <1>8 DEF Next, vars, Tick, Start, Crash, Lose, Merge

\* A hold starts over in the open or not at all: a run starts with the earliest observation
\* of everything it accepts, or with the newest state, and hands on all of it; only a merged
\* ledger beyond its bound is dropped, with the failure of a candidate (merge_budgets,
\* previous_state, check_dependencies).
THEOREM HoldsContinue == Spec => ObservationsKept
<1>1. IInv /\ [Next]_vars =>
        [\A r \in Runs :
           /\ pc[r] = "dated" /\ pc'[r] = "ready" => Restored(r)
           /\ pc[r] = "ready" /\ pc'[r] # "gone" => Keeps(r, r) \/ Dropped(r)]_vars
  BY BecomesReady, RestoreObserves, ReadyKeeps DEF IInv
<1> QED
  BY Invariance, <1>1, PTL DEF Spec, ObservationsKept
=============================================================================
