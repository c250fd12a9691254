------------------------- MODULE ScheduledScanProofs -------------------------
(***************************************************************************)
(* Proofs about ScheduledScan, for any window, limits, costs and faults.   *)
(***************************************************************************)
EXTENDS ScheduledScan, FiniteSetTheorems, TLAPS

\* How far it is from a place a on a ring of n to a number m.
Ahead(m, a, n) == IF m > a THEN m - a ELSE m + n - a

\* Going from a to b, short of m, makes the way to m shorter.
LEMMA GoingRound ==
    ASSUME NEW n \in Nat, NEW a \in 0 .. n, NEW b \in 1 .. n, NEW m \in 1 .. n,
           ~(Ahead(m, a, n) <= Ahead(b, a, n))
    PROVE  Ahead(m, b, n) < Ahead(m, a, n)
BY DEF Ahead

USE SizesAssumption, LimitsAssumption, ResolvingAssumption, CostsAssumption, RetainedAssumption

-----------------------------------------------------------------------------
(* Ranks, and how many pull requests a scan selects.                         *)

LEMMA Numbers ==
    ASSUME NEW p \in PRs
    PROVE  p \in Nat /\ p >= 1 /\ p <= NPrs /\ p \in 0 .. NPrs
BY DEF PRs

LEMMA RankType ==
    ASSUME TypeOK, NEW p \in PRs
    PROVE  Rank(p) \in Nat
BY Numbers DEF TypeOK, Rank

LEMMA RankDiffers ==
    ASSUME TypeOK, NEW p \in PRs, NEW q \in PRs, p # q
    PROVE  Rank(p) # Rank(q)
BY Numbers DEF TypeOK, Rank

LEMMA SetsAreFinite ==
    ASSUME NEW S, S \subseteq PRs
    PROVE  IsFiniteSet(S) /\ Cardinality(S) \in Nat
<1>1. IsFiniteSet(PRs)
  BY FS_Interval DEF PRs
<1>2. IsFiniteSet(S)
  BY <1>1, FS_Subset
<1> QED
  BY <1>2, FS_CardinalityType

\* The open pull requests that come before p.
Before(p) == {q \in open : Rank(q) < Rank(p)}

LEMMA BeforeGrows ==
    ASSUME TypeOK, NEW p \in open, NEW q \in open, Rank(p) < Rank(q)
    PROVE  Cardinality(Before(p)) < Cardinality(Before(q))
<1>1. p \in PRs /\ q \in PRs /\ Before(p) \subseteq PRs /\ Before(q) \subseteq PRs
  BY DEF TypeOK, Before
<1>2. \A r \in open : Rank(r) \in Nat
  BY RankType DEF TypeOK
<1>3. p \notin Before(p)
  BY <1>2 DEF Before
<1>4. Before(p) \cup {p} \subseteq Before(q)
  BY <1>2 DEF Before
<1>5. IsFiniteSet(Before(p)) /\ Cardinality(Before(p)) \in Nat
  BY <1>1, SetsAreFinite
<1>6. IsFiniteSet(Before(q)) /\ Cardinality(Before(q)) \in Nat
  BY <1>1, SetsAreFinite
<1>7. Cardinality(Before(p) \cup {p}) = Cardinality(Before(p)) + 1
  BY <1>3, <1>5, FS_AddElement
<1>8. Cardinality(Before(p) \cup {p}) <= Cardinality(Before(q))
  BY <1>4, <1>6, FS_Subset
<1> QED
  BY <1>5, <1>6, <1>7, <1>8

Places == 0 .. Window - 1

\* A scan selects no more than the window.
LEMMA WindowBounds ==
    ASSUME TypeOK
    PROVE  Selection \subseteq PRs /\ Cardinality(Selection) <= Window
<1> DEFINE place == [p \in Selection |-> Cardinality(Before(p))]
<1>0. open \subseteq PRs /\ Selection \subseteq open
  BY DEF TypeOK, Selection
<1>1. ASSUME NEW p \in Selection
      PROVE  Cardinality(Before(p)) \in Places /\ Cardinality(Before(p)) \in Nat
  <2>1. Cardinality(Before(p)) < Window
    BY DEF Selection, Before
  <2>2. Before(p) \subseteq PRs
    BY <1>0 DEF Before
  <2>3. Cardinality(Before(p)) \in Nat
    BY <2>2, SetsAreFinite
  <2> QED
    BY <2>1, <2>3 DEF Places
<1>2. ASSUME NEW p \in Selection, NEW q \in Selection,
             Cardinality(Before(p)) = Cardinality(Before(q)), p # q
      PROVE  FALSE
  <2>1. Rank(p) \in Nat /\ Rank(q) \in Nat /\ Rank(p) # Rank(q)
    BY <1>0, <1>2, RankType, RankDiffers
  <2>2. CASE Rank(p) < Rank(q)
    BY <1>0, <1>1, <1>2, <2>2, BeforeGrows
  <2>3. CASE Rank(q) < Rank(p)
    BY <1>0, <1>1, <1>2, <2>3, BeforeGrows
  <2> QED
    BY <2>1, <2>2, <2>3
<1>3. place \in [Selection -> Places]
  BY <1>1
<1>4. \A p, q \in Selection : place[p] = place[q] => p = q
  BY <1>2
<1>5. IsFiniteSet(Places) /\ Cardinality(Places) = Window
  <2>1. Window - 1 \in Int /\ 0 \in Int /\ ~(0 > Window - 1) /\ Window - 1 - 0 + 1 = Window
    OBVIOUS
  <2> QED
    BY <2>1, FS_Interval DEF Places
<1>6. Cardinality(Selection) <= Cardinality(Places)
  <2>1. place \in Injection(Selection, Places)
    <3> HIDE DEF place
    <3>1. DOMAIN place = Selection
      BY <1>3
    <3> QED
      BY <1>3, <1>4, <3>1 DEF Injection, IsInjective
  <2> QED
    BY <1>5, <2>1, FS_Injection
<1> QED
  BY <1>0, <1>5, <1>6

LEMMA ResolvingFits ==
    ASSUME NEW n \in Nat, n <= Window
    PROVE  Resolving * n <= Hard
<1>1. PICK d \in Nat : Window = n + d
  <2>1. Window - n \in Nat /\ Window = n + (Window - n)
    OBVIOUS
  <2> QED
    BY <2>1
<1>2. Window * Resolving = Resolving * n + Resolving * d
  BY <1>1
<1>3. Resolving * d >= 0 /\ Resolving * n \in Int /\ Resolving * d \in Int
  OBVIOUS
<1> QED
  BY <1>2, <1>3

-----------------------------------------------------------------------------
(* Types, and the budget of the resolution.                                  *)

\* The invariant holds before the first scan (service).
THEOREM InitIInv == Init => IInv
<1> SUFFICES ASSUME Init PROVE IInv
  OBVIOUS
<1>1. 0 \in 0 .. NPrs /\ 0 \in Nat /\ FALSE \in BOOLEAN
  OBVIOUS
<1>2. TypeOK
  BY <1>1 DEF Init, TypeOK
<1> QED
  BY <1>2 DEF Init, IInv, Roomy, Sorted, Covered, Contiguous, Anchored

LEMMA GrantedType ==
    ASSUME TypeOK, NEW p \in PRs
    PROVE  Granted(p) \in Nat /\ Gets[p] \in Nat /\ Fetches[p] \in Nat
BY DEF TypeOK, Granted

LEMMA SpendType ==
    ASSUME TypeOK, NEW n \in Nat, Spend(n)
    PROVE  spent' \in Nat
BY DEF TypeOK, Spend, Affordable

LEMMA TypeNext ==
    ASSUME TypeOK, [Next]_vars
    PROVE  TypeOK'
<1> USE DEF run, history
<1>1. CASE Begin
  <2>1. Selection \subseteq PRs
    BY WindowBounds
  <2>2. scan' \in 0 .. NPrs
    BY <1>1, <2>1, Numbers DEF Begin, Last, TypeOK
  <2>3. 0 \in 0 .. NPrs /\ 0 \in Nat
    OBVIOUS
  <2>4. /\ open' = open /\ cursor' = cursor /\ at' = "resolve"
        /\ todo' = Selection /\ cands' = {} /\ kept' = {} /\ spent' = 0
        /\ evaluated' = 0 /\ complete' = FALSE
        /\ steady' = open /\ selected' = Selection /\ taken' = {} /\ full' = {}
    BY <1>1 DEF Begin
  <2> QED
    BY <2>1, <2>2, <2>3, <2>4 DEF TypeOK
<1>2. CASE Resolved \/ Evaluated \/ Finish \/ Crash
  BY <1>2 DEF Resolved, Evaluated, Finish, Crash, TypeOK
<1>3. CASE Publish
  <2>1. spent' \in Nat
    BY <1>3, SpendType DEF Publish
  <2>2. evaluated \in open => evaluated \in PRs
    BY DEF TypeOK
  <2> QED
    BY <1>3, <2>1, <2>2 DEF Publish, TypeOK
<1>4. ASSUME NEW p \in PRs, Close(p) PROVE TypeOK'
  BY <1>4 DEF Close, TypeOK
<1>5. ASSUME NEW p \in PRs, Resolve(p) PROVE TypeOK'
  <2>1. spent' \in Nat
    BY <1>5, SpendType DEF Resolve
  <2> QED
    BY <1>5, <2>1 DEF Resolve, TypeOK
<1>6. ASSUME NEW p \in PRs, Stumble(p) PROVE TypeOK'
  BY <1>6 DEF Stumble, TypeOK
<1>7. ASSUME NEW p \in PRs, Evaluate(p) PROVE TypeOK'
  <2>1. spent' \in Nat /\ p \in 0 .. NPrs
    BY <1>7, GrantedType, Numbers DEF Evaluate, TypeOK
  <2> QED
    BY <1>7, <2>1 DEF Evaluate, TypeOK
<1>8. ASSUME NEW p \in PRs, Recheck(p) PROVE TypeOK'
  <2>1. spent + Gets[p] + Granted(p) \in Nat /\ p \in 0 .. NPrs
    BY GrantedType, Numbers DEF TypeOK
  <2>2. Spend(Resolving) => spent' \in Nat
    BY SpendType
  <2> QED
    BY <1>8, <2>1, <2>2 DEF Recheck, TypeOK
<1>9. ASSUME NEW p \in PRs, Exhaust(p) \/ ExhaustRetained(p) PROVE TypeOK'
  <2>1. scan' \in 0 .. NPrs /\ spent' \in Nat
    BY <1>9 DEF Exhaust, ExhaustRetained, Exhausted, TypeOK
  <2> QED
    BY <1>9, <2>1 DEF Exhaust, ExhaustRetained, TypeOK
<1>10. CASE UNCHANGED vars
  BY <1>10 DEF vars, TypeOK
<1> QED
  BY <1>1, <1>2, <1>3, <1>4, <1>5, <1>6, <1>7, <1>8, <1>9, <1>10 DEF Next, Step

LEMMA RoomyNext ==
    ASSUME TypeOK, Roomy, [Next]_vars
    PROVE  Roomy'
<1> USE DEF run, history
<1>1. CASE Begin
  <2>1. /\ at' = "resolve" /\ spent' = 0 /\ todo' = Selection
        /\ Cardinality(Selection) <= Window /\ Cardinality(Selection) \in Nat
    BY <1>1, WindowBounds, SetsAreFinite DEF Begin
  <2>2. Resolving * Cardinality(Selection) <= Hard /\ Resolving * Cardinality(Selection) \in Int
    BY <2>1, ResolvingFits
  <2> QED
    BY <2>1, <2>2 DEF Roomy
<1>2. ASSUME NEW p \in PRs, Resolve(p) PROVE Roomy'
  <2>1. p \in todo /\ todo' = todo \ {p} /\ at = "resolve" /\ Spend(Resolving)
    BY <1>2 DEF Resolve, First
  <2>2. IsFiniteSet(todo) /\ Cardinality(todo) \in Nat
    BY SetsAreFinite DEF TypeOK
  <2>3. Cardinality(todo') = Cardinality(todo) - 1
    BY <2>1, <2>2, FS_RemoveElement
  <2>4. Resolving * Cardinality(todo') = Resolving * Cardinality(todo) - Resolving
    BY <2>2, <2>3
  <2>5. Cardinality(todo') \in Nat
    <3>1. todo' \subseteq PRs
      BY <2>1 DEF TypeOK
    <3> QED
      BY <3>1, SetsAreFinite
  <2>6. Resolving * Cardinality(todo') \in Nat /\ Resolving * Cardinality(todo) \in Nat
    BY <2>2, <2>5
  <2>7. spent \in Nat /\ spent + Resolving * Cardinality(todo) <= Hard
    BY <2>1 DEF TypeOK, Roomy
  <2>8. spent' = spent + Resolving
    BY <2>1, <2>4, <2>6, <2>7 DEF Spend, Affordable
  <2> QED
    BY <2>4, <2>6, <2>7, <2>8 DEF Roomy
<1>3. CASE \E p \in PRs : Close(p)
  BY <1>3 DEF Close, Roomy
<1>4. CASE UNCHANGED vars
  BY <1>4 DEF vars, Roomy
<1>5. CASE at' # "resolve"
  BY <1>5 DEF Roomy
<1>6. CASE Crash \/ Resolved \/ Publish \/ Evaluated \/ Finish
  BY <1>5, <1>6 DEF Crash, Resolved, Publish, Evaluated, Finish
<1>7. CASE \E p \in PRs : Evaluate(p) \/ Stumble(p) \/ Exhaust(p) \/ Recheck(p) \/ ExhaustRetained(p)
  BY <1>5, <1>7 DEF Evaluate, Stumble, Exhaust, Recheck, ExhaustRetained
<1> QED
  BY <1>1, <1>2, <1>3, <1>4, <1>6, <1>7 DEF Next, Step

\* The resolution of the selected candidates is always paid for.
LEMMA ResolutionAffordable ==
    ASSUME TypeOK, Roomy, NEW p \in PRs, Resolve(p)
    PROVE  Affordable(Resolving)
<1>1. p \in todo /\ at = "resolve"
  BY DEF Resolve, First
<1>2. Cardinality(todo) \in Nat /\ Cardinality(todo) # 0
  <2>1. IsFiniteSet(todo) /\ Cardinality(todo) \in Nat
    BY SetsAreFinite DEF TypeOK
  <2> QED
    BY <1>1, <2>1, FS_EmptySet
<1>3. PICK d \in Nat : Cardinality(todo) = 1 + d
  <2>1. Cardinality(todo) - 1 \in Nat /\ Cardinality(todo) = 1 + (Cardinality(todo) - 1)
    BY <1>2
  <2> QED
    BY <2>1
<1>4. Resolving * Cardinality(todo) = Resolving + Resolving * d
  BY <1>3
<1>5. Resolving * d \in Nat /\ spent \in Nat /\ spent + (Resolving + Resolving * d) <= Hard
  BY <1>1, <1>4 DEF Roomy, TypeOK
<1> QED
  BY <1>5 DEF Affordable

LEMMA SortedNext ==
    ASSUME TypeOK, Sorted, [Next]_vars
    PROVE  Sorted'
<1> USE DEF run, history
<1>1. CASE Begin
  BY <1>1 DEF Begin, Sorted
<1>2. CASE Resolved \/ Evaluated \/ Finish \/ Crash \/ Publish
  BY <1>2 DEF Resolved, Evaluated, Finish, Crash, Publish, Sorted, TypeOK
<1>3. ASSUME NEW p \in PRs, Close(p) PROVE Sorted'
  BY <1>3 DEF Close, Sorted
<1>4. ASSUME NEW p \in PRs, Resolve(p) PROVE Sorted'
  <2>1. p \in todo /\ at = "resolve"
    BY <1>4 DEF Resolve, First
  <2> QED
    BY <1>4, <2>1 DEF Resolve, Sorted
<1>5. ASSUME NEW p \in PRs, Stumble(p) PROVE Sorted'
  BY <1>5 DEF Stumble, Sorted
<1>6. ASSUME NEW p \in PRs, Evaluate(p) \/ Recheck(p) \/ Exhaust(p) \/ ExhaustRetained(p)
      PROVE  Sorted'
  BY <1>6 DEF Evaluate, Recheck, Exhaust, ExhaustRetained, Sorted
<1>7. CASE UNCHANGED vars
  BY <1>7 DEF vars, Sorted
<1> QED
  BY <1>1, <1>2, <1>3, <1>4, <1>5, <1>6, <1>7 DEF Next, Step

-----------------------------------------------------------------------------
(* What the scan moved over, it dealt with.                                  *)

LEMMA SameRanks ==
    ASSUME UNCHANGED cursor, NEW p
    PROVE  Rank(p)' = Rank(p)
BY DEF Rank

\* Dealing with more, and selecting nothing else, keeps what is done.
LEMMA DoneKept ==
    ASSUME UNCHANGED <<cursor, selected>>, taken \subseteq taken', NEW p, DoneUpTo(p)
    PROVE  DoneUpTo(p)'
BY DEF DoneUpTo, Rank

\* Two candidates have different ranks: whoever comes before the first one left is dealt with.
LEMMA FirstIsNext ==
    ASSUME TypeOK, selected \ Retained \subseteq taken \cup cands, NEW p \in First(cands)
    PROVE  \A q \in selected \ Retained : Rank(q) <= Rank(p) => q \in taken \cup {p}
<1> SUFFICES ASSUME NEW q \in selected \ Retained, Rank(q) <= Rank(p), q \in cands, q # p
             PROVE  FALSE
  OBVIOUS
<1>1. p \in PRs /\ q \in PRs /\ Rank(p) <= Rank(q)
  BY DEF First, TypeOK
<1>2. Rank(p) \in Nat /\ Rank(q) \in Nat /\ Rank(p) # Rank(q)
  BY <1>1, RankType, RankDiffers
<1> QED
  BY <1>1, <1>2

LEMMA CoveredNext ==
    ASSUME IInv, [Next]_vars
    PROVE  Covered'
<1> USE DEF run, history
<1>0. TypeOK /\ Roomy /\ Sorted /\ Covered
  BY DEF IInv
<1>1. CASE Begin
  BY <1>1 DEF Begin, Covered
<1>2. CASE Finish \/ Crash
  BY <1>2 DEF Finish, Crash, Covered
<1>3. CASE Resolved \/ Evaluated \/ UNCHANGED vars \/ \E p \in PRs : Close(p)
  <2>1. /\ UNCHANGED <<cursor, run, selected, taken, full>>
        /\ at' # "idle" => at # "idle"
    BY <1>3 DEF Resolved, Evaluated, Close, vars
  <2>2. evaluated # 0 /\ DoneUpTo(evaluated) => DoneUpTo(evaluated)'
    BY <2>1 DEF DoneUpTo, Rank
  <2> QED
    BY <1>0, <2>1, <2>2 DEF Covered
<1>4. CASE Publish
  <2>1. /\ UNCHANGED <<cursor, todo, cands, scan, evaluated, selected, taken>>
        /\ at = "publish" /\ Spend(Resolving)
    BY <1>4 DEF Publish
  <2>2. evaluated # 0 /\ DoneUpTo(evaluated) => DoneUpTo(evaluated)'
    BY <2>1 DEF DoneUpTo, Rank
  <2>3. spent > Hard => spent' > Hard
    BY <1>0, <2>1 DEF Spend, Affordable, TypeOK
  <2> QED
    BY <1>0, <2>1, <2>2, <2>3 DEF Covered
<1>5. ASSUME NEW p \in PRs, Resolve(p) PROVE Covered'
  <2>1. Affordable(Resolving)
    BY <1>0, <1>5, ResolutionAffordable
  <2>2. /\ at = "resolve" /\ todo' = todo \ {p} /\ UNCHANGED <<at, evaluated, selected, cursor>>
        /\ evaluated = 0
    BY <1>0, <1>5 DEF Resolve, Sorted
  <2>3. spent <= Hard /\ ~(spent > Hard)
    BY <1>0, <2>1 DEF Affordable, TypeOK
  <2>4. selected \ Retained \subseteq taken \cup cands \cup todo
    BY <1>0, <2>2, <2>3 DEF Covered
  <2>5. selected' \ Retained \subseteq taken' \cup cands' \cup todo'
    <3>1. CASE cands' = cands \cup {p} /\ taken' = taken
      BY <2>2, <2>4, <3>1
    <3>2. CASE p \in Retained /\ cands' = cands /\ taken' = taken
      BY <2>2, <2>4, <3>2
    <3>3. CASE cands' = cands /\ taken' = taken \cup {p}
      BY <2>2, <2>4, <3>3
    <3> QED
      BY <1>5, <2>1, <3>1, <3>2, <3>3 DEF Resolve
  <2> QED
    BY <2>2, <2>5 DEF Covered
<1>6. ASSUME NEW p \in PRs, Evaluate(p) PROVE Covered'
  <2>1. /\ at = "evaluate" /\ p \in First(cands) /\ cands' = cands \ {p} /\ taken' = taken \cup {p}
        /\ evaluated' = p /\ UNCHANGED <<cursor, todo, selected>>
    BY <1>6 DEF Evaluate
  <2>2. todo = {} /\ cands # {}
    BY <1>0, <2>1 DEF Sorted, First
  <2>3. selected \ Retained \subseteq taken \cup cands
    BY <1>0, <2>1, <2>2 DEF Covered
  <2>4. \A q \in selected \ Retained : Rank(q) <= Rank(p) => q \in taken'
    BY <1>0, <2>1, <2>3, FirstIsNext
  <2>5. DoneUpTo(evaluated)'
    BY <2>1, <2>4 DEF DoneUpTo, Rank
  <2>6. selected' \ Retained \subseteq taken' \cup cands' \cup todo'
    BY <2>1, <2>3
  <2> QED
    BY <2>5, <2>6 DEF Covered
<1>7. ASSUME NEW p \in PRs, Stumble(p) PROVE Covered'
  <2>1. /\ at = "evaluate" /\ p \in cands /\ cands' = cands \ {p} /\ taken' = taken \cup {p}
        /\ UNCHANGED <<cursor, todo, selected, evaluated>>
    BY <1>7 DEF Stumble, First
  <2>2. evaluated # 0 => DoneUpTo(evaluated)
    BY <1>0, <2>1 DEF Covered
  <2>3. evaluated' # 0 => DoneUpTo(evaluated)'
    BY <2>1, <2>2 DEF DoneUpTo, Rank
  <2>4. selected \ Retained \subseteq taken \cup cands \cup todo
    BY <1>0, <2>1 DEF Covered
  <2>5. selected' \ Retained \subseteq taken' \cup cands' \cup todo'
    BY <2>1, <2>4
  <2> QED
    BY <2>3, <2>5 DEF Covered
<1>8. ASSUME NEW p \in PRs, Exhaust(p) \/ ExhaustRetained(p) PROVE Covered'
  <2>1. /\ at # "idle" /\ Exhausted(p) /\ spent' = Hard + 1
        /\ UNCHANGED <<cursor, selected, taken, evaluated>>
    BY <1>8 DEF Exhaust, ExhaustRetained
  <2>2. cands' = {}
    BY <1>0, <1>8 DEF Exhaust, ExhaustRetained, Sorted
  <2>3. evaluated # 0 => DoneUpTo(evaluated)
    BY <1>0, <2>1 DEF Covered
  <2>4. evaluated' # 0 => DoneUpTo(evaluated)'
    BY <2>1, <2>3 DEF DoneUpTo, Rank
  <2>5. scan' = cursor' \/ (scan' = evaluated' /\ evaluated' # 0)
    BY <2>1 DEF Exhausted
  <2>6. spent' > Hard
    BY <2>1
  <2> QED
    BY <2>2, <2>4, <2>5, <2>6 DEF Covered
<1>9. ASSUME NEW p \in PRs, Recheck(p) PROVE Covered'
  <2>1. /\ at = "retained" /\ Affordable(Gets[p]) /\ taken \subseteq taken'
        /\ UNCHANGED <<cursor, selected>>
    BY <1>9 DEF Recheck
  <2>2. todo = {} /\ cands = {} /\ ~(spent > Hard)
    BY <1>0, <2>1 DEF Sorted, Affordable, TypeOK
  <2>3. selected \ Retained \subseteq taken
    BY <1>0, <2>1, <2>2 DEF Covered
  <2>4. selected' \ Retained \subseteq taken'
    BY <2>1, <2>3
  <2>5. DoneUpTo(evaluated)'
    BY <2>4 DEF DoneUpTo
  <2> QED
    BY <2>4, <2>5 DEF Covered
<1> QED
  BY <1>1, <1>2, <1>3, <1>4, <1>5, <1>6, <1>7, <1>8, <1>9 DEF Next, Step

-----------------------------------------------------------------------------
(* Whom a scan selects, and where it leaves the cursor.                      *)

\* The selected are those open that come first: nobody of them comes after one left out.
LEMMA SelectedComeFirst ==
    ASSUME TypeOK, NEW p \in open \ Selection, NEW q \in Selection
    PROVE  Rank(q) < Rank(p)
<1>1. q \in open /\ p # q /\ p \in PRs /\ q \in PRs /\ Before(p) \subseteq PRs /\ Before(q) \subseteq PRs
  BY DEF Selection, TypeOK, Before
<1>2. Rank(p) \in Nat /\ Rank(q) \in Nat /\ Rank(p) # Rank(q)
  BY <1>1, RankType, RankDiffers
<1>3. Cardinality(Before(p)) \in Nat /\ Cardinality(Before(q)) \in Nat
  BY <1>1, SetsAreFinite
<1>4. Cardinality(Before(q)) < Window /\ ~(Cardinality(Before(p)) < Window)
  BY DEF Selection, Before
<1>5. ~(Rank(p) < Rank(q))
  BY <1>1, <1>3, <1>4, BeforeGrows
<1> QED
  BY <1>2, <1>5

LEMMA ContiguousNext ==
    ASSUME TypeOK, Contiguous, [Next]_vars
    PROVE  Contiguous'
<1> USE DEF run, history
<1>1. CASE Begin
  <2>1. steady' = open /\ selected' = Selection /\ cursor' = cursor
    BY <1>1 DEF Begin
  <2>2. \A p \in open \ Selection : \A q \in Selection : Rank(q) < Rank(p)
    BY SelectedComeFirst
  <2> QED
    BY <2>1, <2>2, SameRanks DEF Contiguous
<1>2. CASE Finish \/ Crash
  BY <1>2 DEF Finish, Crash, Contiguous
<1>3. CASE /\ steady' \subseteq steady /\ UNCHANGED <<selected, cursor>>
           /\ at' # "idle" => at # "idle"
  BY <1>3, SameRanks DEF Contiguous
<1>4. CASE Resolved \/ Publish \/ Evaluated \/ UNCHANGED vars
  BY <1>3, <1>4 DEF Resolved, Publish, Evaluated, vars
<1>5. CASE \E p \in PRs : Close(p)
  BY <1>3, <1>5 DEF Close
<1>6. CASE \E p \in PRs : Resolve(p) \/ Evaluate(p) \/ Stumble(p) \/ Exhaust(p)
                         \/ Recheck(p) \/ ExhaustRetained(p)
  BY <1>3, <1>6 DEF Resolve, Evaluate, Stumble, Exhaust, Recheck, ExhaustRetained
<1> QED
  BY <1>1, <1>2, <1>4, <1>5, <1>6 DEF Next, Step

LEMMA AnchoredNext ==
    ASSUME TypeOK, Sorted, Anchored, [Next]_vars
    PROVE  Anchored'
<1> USE DEF run, history
<1>1. CASE Begin
  BY <1>1 DEF Begin, Last, Anchored
<1>2. CASE Finish \/ Crash
  BY <1>2 DEF Finish, Crash, Anchored
<1>3. CASE Resolved \/ Publish \/ Evaluated \/ UNCHANGED vars \/ \E p \in PRs : Close(p)
  BY <1>3 DEF Resolved, Publish, Evaluated, vars, Close, Anchored
<1>4. ASSUME NEW p \in PRs, Resolve(p) \/ Stumble(p) PROVE Anchored'
  BY <1>4 DEF Resolve, Stumble, Anchored
<1>5. ASSUME NEW p \in PRs, Evaluate(p) PROVE Anchored'
  BY <1>5 DEF Evaluate, First, Sorted, Anchored
<1>6. ASSUME NEW p \in PRs, Recheck(p) PROVE Anchored'
  BY <1>6 DEF Recheck, First, Sorted, Anchored
<1>7. ASSUME NEW p \in PRs, Exhaust(p) \/ ExhaustRetained(p) PROVE Anchored'
  BY <1>7 DEF Exhaust, ExhaustRetained, Exhausted, Anchored
<1> QED
  BY <1>1, <1>2, <1>3, <1>4, <1>5, <1>6, <1>7 DEF Next, Step

-----------------------------------------------------------------------------
(* The theorems.                                                             *)

\* Every step of a scan, and every crash and closing, keeps the invariant (service).
THEOREM NextIInv == IInv /\ [Next]_vars => IInv'
BY TypeNext, RoomyNext, SortedNext, CoveredNext, ContiguousNext, AnchoredNext DEF IInv

\* The room for the resolution, and the candidates and turns a scan accounts for, hold in
\* every state of every scan (eligibility.py, service).
THEOREM Invariance == Spec => []IInv
<1>1. Init => IInv
  BY InitIInv
<1>2. IInv /\ [Next]_vars => IInv'
  BY NextIInv
<1> QED
  BY <1>1, <1>2, PTL DEF Spec

\* Every variable keeps its type (eligibility.py, service).
THEOREM TypeCorrect == Spec => []TypeOK
<1>1. IInv => TypeOK
  BY DEF IInv
<1> QED
  BY <1>1, Invariance, PTL

\* A cursor that moves moves only over candidates the scan dealt with, however its budget
\* runs out (eligibility.py, scan_cursor).
THEOREM NothingPassedOver == Spec => NonePassedOver
<1> DEFINE A == cursor' # cursor =>
                  \A p \in selected \ Retained : Rank(p) <= Rank(cursor') => p \in taken
<1>1. IInv /\ [Next]_vars => [A]_vars
  <2> SUFFICES ASSUME IInv, [Next]_vars, cursor' # cursor
               PROVE  A
    OBVIOUS
  <2> USE DEF run, history
  <2>1. Finish
    BY DEF Next, Step, vars, Begin, Resolved, Publish, Evaluated, Crash, Close, Resolve, Evaluate,
           Stumble, Exhaust, Recheck, ExhaustRetained
  <2>2. at = "retained" /\ cursor' = scan /\ todo = {} /\ cands = {}
    BY <2>1 DEF Finish, IInv, Sorted
  <2>3. \/ selected \ Retained \subseteq taken
        \/ scan = evaluated /\ DoneUpTo(evaluated)
    BY <2>2 DEF IInv, Covered
  <2> QED
    BY <2>2, <2>3 DEF DoneUpTo
<1>2. NonePassedOver <=> [][A]_vars
  BY PTL DEF NonePassedOver
<1> QED
  BY <1>1, <1>2, Invariance, PTL DEF Spec

-----------------------------------------------------------------------------
(* Fair turns.                                                               *)

\* The distance of Rotation is the rank of the scan.
LEMMA DistanceIsRank ==
    ASSUME TypeOK, NEW p \in PRs
    PROVE  Turns!Distance(p) = Rank(p) - cursor
BY Numbers DEF TypeOK, Turns!Distance, Rank

\* A cursor that moves was at the end of a scan, and moves to a selected pull request.
LEMMA CursorMoves ==
    ASSUME IInv, [Next]_vars, cursor' # cursor
    PROVE  /\ cursor' \in selected
           /\ UNCHANGED <<open, steady, taken>>
           /\ \A p \in steady \ Retained :
                Turns!Distance(p) <= Turns!Distance(cursor') => p \in taken
<1> USE DEF run, history
<1>1. Finish
  BY DEF Next, Step, vars, Begin, Resolved, Publish, Evaluated, Crash, Close, Resolve, Evaluate,
         Stumble, Exhaust, Recheck, ExhaustRetained
<1>2. /\ at = "retained" /\ cursor' = scan /\ todo = {} /\ cands = {}
      /\ UNCHANGED <<open, steady, taken>>
  BY <1>1 DEF Finish, IInv, Sorted
<1>3. scan \in selected
  BY <1>2 DEF IInv, Anchored
<1>4. selected \subseteq PRs /\ steady \subseteq PRs
  BY DEF IInv, TypeOK
<1>5. \A p \in steady \ Retained : Rank(p) <= Rank(scan) => p \in taken
  <2>1. \A p \in steady \ selected : Rank(scan) < Rank(p)
    BY <1>2, <1>3 DEF IInv, Contiguous
  <2>2. \A p \in PRs : Rank(p) \in Nat
    BY RankType DEF IInv
  <2>3. \/ selected \ Retained \subseteq taken
        \/ scan = evaluated /\ DoneUpTo(evaluated)
    BY <1>2 DEF IInv, Covered
  <2> QED
    BY <1>3, <1>4, <2>1, <2>2, <2>3 DEF DoneUpTo
<1>6. \A p \in PRs : Turns!Distance(p) = Rank(p) - cursor /\ Rank(p) \in Nat
  BY DistanceIsRank, RankType DEF IInv
<1>7. cursor \in Nat
  BY DEF IInv, TypeOK
<1> QED
  BY <1>2, <1>3, <1>4, <1>5, <1>6, <1>7

\* A token that passes over nobody who waits comes nearer to all of them.
LEMMA NearerToTheWaiting ==
    ASSUME TypeOK, TypeOK', cursor' \in PRs, NEW p \in PRs,
           ~(Turns!Distance(p) <= Turns!Distance(cursor'))
    PROVE  Turns!Distance(p)' < Turns!Distance(p)
<1>1. /\ Turns!Distance(p) = Ahead(p, cursor, NPrs)
      /\ Turns!Distance(cursor') = Ahead(cursor', cursor, NPrs)
      /\ Turns!Distance(p)' = Ahead(p, cursor', NPrs)
  BY DEF Turns!Distance, Ahead
<1>2. /\ NPrs \in Nat /\ cursor \in 0 .. NPrs
      /\ cursor' \in 1 .. NPrs /\ p \in 1 .. NPrs
  BY DEF TypeOK, PRs
<1> QED
  BY <1>1, <1>2, GoingRound

\* Scans, whatever they select, whatever ends them and whoever comes and goes meanwhile,
\* implement the fair turns of Rotation (eligibility.py, service, scan_cursor).
THEOREM ScansTakeTurns == Spec => ImplementsRotation
<1>1. Init => Turns!Init
  BY DEF Init, Turns!Init, Turns!Members, PRs
<1>2. ASSUME IInv, [Next]_vars PROVE [Turns!Next]_Turns!vars
  <2> USE DEF run, history, Turns!Next, Turns!vars, Turns!Begin, Turns!ComeOrGo, Turns!Serve,
              Turns!Pass, Turns!Members, PRs
  <2>1. CASE UNCHANGED <<open, cursor, steady, taken>>
    BY <2>1
  <2>2. CASE Begin
    BY <2>2 DEF Begin
  <2>3. ASSUME NEW p \in PRs, Close(p) PROVE Turns!Next
    <3>1. open' \in {open \cup {p}, open \ {p}} /\ steady' = steady \ {p}
          /\ UNCHANGED <<cursor, taken>>
      BY <2>3 DEF Close
    <3> QED
      BY <3>1
  <2>4. ASSUME NEW p \in PRs, taken' = taken \cup {p}, UNCHANGED <<open, cursor, steady>>
        PROVE  Turns!Next
    BY <2>4
  <2>5. CASE \E p \in PRs : Resolve(p) \/ Evaluate(p) \/ Stumble(p) \/ Recheck(p)
    <3>1. PICK p \in PRs : Resolve(p) \/ Evaluate(p) \/ Stumble(p) \/ Recheck(p)
      BY <2>5
    <3>2. taken' \in {taken, taken \cup {p}} /\ UNCHANGED <<open, cursor, steady>>
      BY <3>1 DEF Resolve, Evaluate, Stumble, Recheck
    <3> QED
      BY <2>1, <2>4, <3>2
  <2>6. CASE Resolved \/ Publish \/ Evaluated \/ Crash \/ UNCHANGED vars
    BY <2>1, <2>6 DEF Resolved, Publish, Evaluated, Crash, vars
  <2>7. CASE \E p \in PRs : Exhaust(p) \/ ExhaustRetained(p)
    BY <2>1, <2>7 DEF Exhaust, ExhaustRetained
  <2>8. CASE Finish
    <3>1. CASE cursor' = cursor
      BY <2>1, <2>8, <3>1 DEF Finish
    <3>2. CASE cursor' # cursor
      <4>1. cursor' \in PRs
        BY <1>2, <3>2, CursorMoves DEF IInv, TypeOK
      <4>2. Turns!Pass(cursor')
        BY <1>2, <3>2, CursorMoves
      <4> QED
        BY <4>1, <4>2
    <3> QED
      BY <3>1, <3>2
  <2> QED
    BY <1>2, <2>2, <2>3, <2>5, <2>6, <2>7, <2>8 DEF Next, Step
<1> QED
  BY <1>1, <1>2, Invariance, PTL DEF Spec, ImplementsRotation, Turns!Spec

\* No pull request that stays open is overtaken: each move of the cursor brings it nearer, or
\* the scan has dealt with it, for any number of them and any budget (service, scan_cursor).
THEOREM NobodyOvertaken == Spec => NoneOvertaken
<1> DEFINE A == cursor' # cursor =>
                  \A p \in (steady \ Retained) \ taken : Turns!Distance(p)' < Turns!Distance(p)
<1>1. IInv /\ [Next]_vars => [A]_vars
  <2> SUFFICES ASSUME IInv, [Next]_vars, cursor' # cursor, NEW p \in (steady \ Retained) \ taken
               PROVE  Turns!Distance(p)' < Turns!Distance(p)
    OBVIOUS
  <2>1. TypeOK /\ TypeOK'
    BY TypeNext DEF IInv
  <2>2. p \in PRs /\ cursor' \in PRs /\ ~(Turns!Distance(p) <= Turns!Distance(cursor'))
    BY <2>1, CursorMoves DEF TypeOK
  <2> QED
    BY <2>1, <2>2, NearerToTheWaiting
<1>2. NoneOvertaken <=> [][A]_vars
  BY PTL DEF NoneOvertaken
<1> QED
  BY <1>1, <1>2, Invariance, PTL DEF Spec

-----------------------------------------------------------------------------
(* Every scan comes to its end.                                              *)

Stage == CASE at = "resolve"  -> 4
           [] at = "publish"  -> 3
           [] at = "evaluate" -> 2
           [] at = "retained" -> 1
           [] OTHER           -> 0

\* What a scan has still to do, in steps at most.
Left ==
    IF at = "idle" THEN 0
    ELSE 4 * Cardinality(todo) + 2 * Cardinality(cands) + Cardinality(kept) + Stage

LEMMA AtMostOneMore ==
    ASSUME NEW S, S \subseteq PRs, NEW p \in PRs
    PROVE  /\ Cardinality(S) \in Nat /\ Cardinality(S \cup {p}) \in Nat
           /\ Cardinality(S \cup {p}) <= Cardinality(S) + 1
<1>1. IsFiniteSet(S) /\ Cardinality(S) \in Nat
  BY SetsAreFinite
<1>2. Cardinality(S \cup {p}) \in {Cardinality(S), Cardinality(S) + 1}
  BY <1>1, FS_AddElement
<1> QED
  BY <1>1, <1>2

LEMMA OneLess ==
    ASSUME NEW S, S \subseteq PRs, NEW p \in S
    PROVE  /\ Cardinality(S) \in Nat /\ Cardinality(S \ {p}) \in Nat
           /\ Cardinality(S \ {p}) = Cardinality(S) - 1
<1>1. IsFiniteSet(S) /\ Cardinality(S) \in Nat
  BY SetsAreFinite
<1>2. Cardinality(S \ {p}) = Cardinality(S) - 1
  BY <1>1, FS_RemoveElement
<1>3. Cardinality(S \ {p}) \in Nat
  <2>1. S \ {p} \subseteq PRs
    OBVIOUS
  <2> QED
    BY <2>1, SetsAreFinite
<1> QED
  BY <1>1, <1>2, <1>3

LEMMA NoneAreNone == Cardinality({}) = 0
BY FS_EmptySet

LEMMA LeftType ==
    ASSUME TypeOK
    PROVE  /\ Left \in Nat
           /\ Cardinality(todo) \in Nat /\ Cardinality(cands) \in Nat /\ Cardinality(kept) \in Nat
<1>1. Cardinality(todo) \in Nat /\ Cardinality(cands) \in Nat /\ Cardinality(kept) \in Nat
  BY SetsAreFinite DEF TypeOK
<1>2. Stage \in Nat
  BY DEF Stage
<1>3. \A i, j, k, l \in Nat : 4 * i + 2 * j + k + l \in Nat
  OBVIOUS
<1> QED
  BY <1>1, <1>2, <1>3 DEF Left

\* Each step of a scan leaves it less to do.
LEMMA StepsLessen ==
    ASSUME IInv, Step
    PROVE  Left' < Left
<1> USE DEF run, history
<1>0. TypeOK /\ TypeOK' /\ Sorted
  <2>1. [Next]_vars
    BY DEF Next
  <2> QED
    BY <2>1, TypeNext DEF IInv
<1>1. /\ Cardinality(todo) \in Nat /\ Cardinality(cands) \in Nat /\ Cardinality(kept) \in Nat
      /\ Cardinality(todo') \in Nat /\ Cardinality(cands') \in Nat /\ Cardinality(kept') \in Nat
  <2>1. /\ todo \subseteq PRs /\ cands \subseteq PRs /\ kept \subseteq PRs
        /\ todo' \subseteq PRs /\ cands' \subseteq PRs /\ kept' \subseteq PRs
    BY <1>0 DEF TypeOK
  <2> QED
    BY <2>1, SetsAreFinite
<1>2. CASE Resolved
  BY <1>1, <1>2 DEF Resolved, Left, Stage
<1>3. CASE Publish
  BY <1>1, <1>3 DEF Publish, Left, Stage
<1>4. CASE Evaluated
  BY <1>1, <1>4 DEF Evaluated, Left, Stage
<1>5. CASE Finish
  <2>1. at = "retained" /\ at' = "idle"
    BY <1>5 DEF Finish
  <2> QED
    BY <1>1, <2>1 DEF Left, Stage
<1>6. ASSUME NEW p \in PRs, Resolve(p) PROVE Left' < Left
  <2>1. p \in todo /\ todo' = todo \ {p} /\ at = "resolve" /\ at' = at
    BY <1>6 DEF Resolve, First
  <2>2. Cardinality(todo') = Cardinality(todo) - 1
    BY <1>0, <2>1, OneLess DEF TypeOK
  <2>3. /\ Cardinality(cands \cup {p}) <= Cardinality(cands) + 1
        /\ Cardinality(kept \cup {p}) <= Cardinality(kept) + 1
    BY <1>0, AtMostOneMore DEF TypeOK
  <2>4. \/ cands' \in {cands, cands \cup {p}} /\ kept' = kept
        \/ kept' \in {kept, kept \cup {p}} /\ cands' = cands
    BY <1>6 DEF Resolve
  <2>5. 2 * Cardinality(cands') + Cardinality(kept') <= 2 * Cardinality(cands) + Cardinality(kept) + 2
    <3>1. CASE cands' = cands /\ kept' = kept
      BY <1>1, <3>1
    <3>2. CASE cands' = cands \cup {p} /\ kept' = kept
      BY <1>1, <2>3, <3>2
    <3>3. CASE cands' = cands /\ kept' = kept \cup {p}
      BY <1>1, <2>3, <3>3
    <3> QED
      BY <2>4, <3>1, <3>2, <3>3
  <2> QED
    BY <1>1, <2>1, <2>2, <2>5 DEF Left, Stage
<1>7. ASSUME NEW p \in PRs, Evaluate(p) \/ Stumble(p) PROVE Left' < Left
  <2>1. /\ p \in cands /\ cands' = cands \ {p} /\ todo' = todo /\ kept' = kept
        /\ at = "evaluate" /\ at' \in {"evaluate", "publish"}
    BY <1>7 DEF Evaluate, Stumble, First
  <2>2. Cardinality(cands') = Cardinality(cands) - 1
    BY <1>0, <2>1, OneLess DEF TypeOK
  <2> QED
    BY <1>1, <2>1, <2>2 DEF Left, Stage
<1>8. ASSUME NEW p \in PRs, Exhaust(p) PROVE Left' < Left
  <2>1. /\ p \in cands /\ cands' = {} /\ todo' = todo /\ kept' = kept
        /\ at = "evaluate" /\ at' = at
    BY <1>8 DEF Exhaust, First
  <2>2. Cardinality(cands') = 0 /\ Cardinality(cands) > 0
    <3>1. Cardinality(cands \ {p}) = Cardinality(cands) - 1 /\ Cardinality(cands \ {p}) \in Nat
      BY <1>0, <2>1, OneLess DEF TypeOK
    <3> QED
      BY <1>1, <2>1, <3>1, NoneAreNone
  <2> QED
    BY <1>1, <2>1, <2>2 DEF Left, Stage
<1>9. ASSUME NEW p \in PRs, Recheck(p) \/ ExhaustRetained(p) PROVE Left' < Left
  <2>1. /\ p \in kept /\ kept' \in {kept \ {p}, {}} /\ todo' = todo /\ cands' = cands
        /\ at = "retained" /\ at' = at
    BY <1>9 DEF Recheck, ExhaustRetained, First
  <2>2. Cardinality(kept') < Cardinality(kept)
    <3>1. Cardinality(kept \ {p}) = Cardinality(kept) - 1 /\ Cardinality(kept \ {p}) \in Nat
      BY <1>0, <2>1, OneLess DEF TypeOK
    <3> QED
      <4>1. CASE kept' = kept \ {p}
        BY <1>1, <3>1, <4>1
      <4>2. CASE kept' = {}
        BY <1>1, <3>1, <4>2, NoneAreNone
      <4> QED
        BY <2>1, <4>1, <4>2
  <2> QED
    BY <1>1, <2>1, <2>2 DEF Left, Stage
<1> QED
  BY <1>2, <1>3, <1>4, <1>5, <1>6, <1>7, <1>8, <1>9 DEF Step

\* The loops of a scan end: every step leaves less to do, a natural number, whatever fails,
\* is refused or runs out, and whoever closes what in between (eligibility.py, service).
THEOREM ScansEnd == Spec => [](Left \in Nat) /\ [][Step => Left' < Left]_vars
<1>1. IInv => Left \in Nat
  BY LeftType DEF IInv
<1>2. IInv /\ [Next]_vars => [Step => Left' < Left]_vars
  BY StepsLessen
<1> QED
  BY <1>1, <1>2, Invariance, PTL DEF Spec
=============================================================================
