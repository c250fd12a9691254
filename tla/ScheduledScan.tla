---------------------------- MODULE ScheduledScan ----------------------------
(***************************************************************************)
(* The hourly scan of the dependency eligibility service (eligibility.py,  *)
(* service, GitHub.request, registry_fetch; recovery.py, recover_retained) *)
(* takes the open pull requests in turn, under one budget of requests for  *)
(* the whole run.  A cursor in the state artifact says where the next scan *)
(* starts.                                                                 *)
(*                                                                         *)
(* Two limits share one counter: above Soft, registry requests fail and    *)
(* leave a report that is no verdict about the dependencies; above Hard,   *)
(* GitHub requests fail and end the loop over the candidates.              *)
(***************************************************************************)
EXTENDS Integers, FiniteSets

CONSTANTS
    NPrs,       \* pull request numbers that can be open
    Window,     \* pull requests taken up by one scan (MAX_SCHEDULED_PRS)
    Soft, Hard, \* 450 and 500 requests in the code
    Resolving,  \* GitHub requests that resolve one candidate
    Gets,       \* Gets[p]: GitHub requests that evaluate pull request p
    Fetches,    \* Fetches[p]: registry requests that evaluate pull request p
    Retained,   \* pull requests handled by recover_retained
    Faults      \* "crash" of a run, a "get" that fails, "merge" not computed yet,
                \* "close" and reopen

PRs == 1 .. NPrs

ASSUME SizesAssumption == NPrs \in Nat \ {0} /\ Window \in Nat \ {0}
ASSUME LimitsAssumption == Soft \in Nat /\ Hard \in Nat /\ Soft < Hard
ASSUME ResolvingAssumption == Resolving \in Nat /\ Window * Resolving <= Hard
ASSUME CostsAssumption == Gets \in [PRs -> Nat] /\ Fetches \in [PRs -> Nat]
ASSUME RetainedAssumption == Retained \subseteq PRs
ASSUME FaultsAssumption == Faults \subseteq {"crash", "get", "merge", "close"}

VARIABLES
    open,       \* the open pull requests
    cursor,     \* scan_cursor in the newest state artifact
    at,         \* where the scan is
    todo,       \* selected pull requests not resolved yet
    cands,      \* resolved candidates not evaluated yet
    kept,       \* retained originals not handled yet
    spent,      \* requests of this run
    scan,       \* the cursor this run would persist
    evaluated,  \* the last pull request evaluated, 0 for none
    complete,   \* its registry requests were all answered
    steady,     \* history: the pull requests open since this run began
    selected,   \* history: the pull requests it selected
    taken,      \* history: those it dealt with before its budget ran out
    full        \* history: those it reported on with complete metadata

run == <<todo, cands, kept, spent, scan, evaluated, complete>>
history == <<steady, selected, taken, full>>
vars == <<open, cursor, at, run, history>>

TypeOK ==
    /\ open \subseteq PRs
    /\ cursor \in 0 .. NPrs
    /\ at \in {"idle", "resolve", "evaluate", "publish", "retained"}
    /\ todo \subseteq PRs /\ cands \subseteq PRs /\ kept \subseteq PRs
    /\ spent \in Nat
    /\ scan \in 0 .. NPrs /\ evaluated \in 0 .. NPrs /\ complete \in BOOLEAN
    /\ steady \subseteq PRs /\ selected \subseteq PRs /\ taken \subseteq PRs /\ full \subseteq PRs

Init ==
    /\ open = PRs
    /\ cursor = 0
    /\ at = "idle"
    /\ todo = {} /\ cands = {} /\ kept = {}
    /\ spent = 0
    /\ scan = 0 /\ evaluated = 0 /\ complete = FALSE
    /\ steady = {} /\ selected = {} /\ taken = {} /\ full = {}

\* Pull requests are closed, and opened under new numbers, of which the model reuses old ones.
Close(p) ==
    /\ "close" \in Faults
    /\ open' = IF p \in open THEN open \ {p} ELSE open \cup {p}
    /\ steady' = steady \ {p}
    /\ UNCHANGED <<cursor, at, run, selected, taken, full>>

\* The scan takes the numbers above the cursor first, then the others.
Rank(p) == IF p > cursor THEN p ELSE p + NPrs

First(S) == {p \in S : \A q \in S : Rank(p) <= Rank(q)}
Last(S) == {p \in S : \A q \in S : Rank(q) <= Rank(p)}

\* Slip: the lowest numbers are taken whatever the cursor says.
SelectionFromStart == {p \in open : Cardinality({q \in open : q < p}) < Window}

Selection == {p \in open : Cardinality({q \in open : Rank(q) < Rank(p)}) < Window}

Begin ==
    /\ at = "idle"
    /\ at' = "resolve"
    /\ todo' = Selection
    /\ cands' = {} /\ kept' = {}
    /\ spent' = 0
    /\ \/ Selection = {} /\ scan' = cursor
       \/ scan' \in Last(Selection)
    /\ evaluated' = 0 /\ complete' = FALSE
    /\ steady' = open /\ selected' = Selection /\ taken' = {} /\ full' = {}
    /\ UNCHANGED <<open, cursor>>

\* A request beyond the hard limit raises, and is counted all the same.
Affordable(n) == spent + n <= Hard
Spend(n) == spent' = IF Affordable(n) THEN spent + n ELSE Hard + 1

\* probe_retained and pr_candidate.
Resolve(p) ==
    /\ at = "resolve"
    /\ p \in First(todo)
    /\ todo' = todo \ {p}
    /\ Spend(Resolving)
    /\ \/ /\ Affordable(Resolving) /\ p \in open
          /\ IF p \in Retained THEN kept' = kept \cup {p} /\ UNCHANGED cands
                               ELSE cands' = cands \cup {p} /\ UNCHANGED kept
          /\ UNCHANGED taken
       \/ /\ ~Affordable(Resolving) \/ p \notin open \/ "merge" \in Faults
          /\ taken' = IF Affordable(Resolving) THEN taken \cup {p} ELSE taken
          /\ UNCHANGED <<cands, kept>>
    /\ UNCHANGED <<open, cursor, at, scan, evaluated, complete, steady, selected, full>>

Resolved ==
    /\ at = "resolve" /\ todo = {}
    /\ at' = "evaluate"
    /\ UNCHANGED <<open, cursor, run, history>>

\* The registry requests that are answered: registry_fetch refuses beyond the soft limit.
Granted(p) ==
    LET left == Soft - (spent + Gets[p])
    IN IF left <= 0 THEN 0 ELSE IF Fetches[p] <= left THEN Fetches[p] ELSE left

\* One candidate is evaluated; with too few registry answers its verdict is a failure.
Evaluate(p) ==
    /\ at = "evaluate"
    /\ p \in First(cands)
    /\ Affordable(Gets[p])
    /\ at' = "publish"
    /\ cands' = cands \ {p}
    /\ spent' = spent + Gets[p] + Granted(p)
    /\ evaluated' = p /\ scan' = p
    /\ complete' = (Granted(p) = Fetches[p])
    /\ taken' = taken \cup {p}
    /\ UNCHANGED <<open, cursor, todo, kept, steady, selected, full>>

\* The candidate is resolved again; if that fails, for want of budget too, nothing is reported.
Publish ==
    /\ at = "publish"
    /\ at' = "evaluate"
    /\ Spend(Resolving)
    /\ \/ /\ Affordable(Resolving) /\ evaluated \in open
          /\ full' = IF complete THEN full \cup {evaluated} ELSE full
       \/ /\ ~Affordable(Resolving) \/ evaluated \notin open \/ "get" \in Faults
          /\ UNCHANGED full
    /\ UNCHANGED <<open, cursor, todo, cands, kept, scan, evaluated, complete, steady,
                   selected, taken>>

\* A request of the evaluation fails within the budget: the next candidate is taken up.
Stumble(p) ==
    /\ at = "evaluate" /\ "get" \in Faults
    /\ p \in First(cands)
    /\ spent < Soft
    /\ cands' = cands \ {p}
    /\ taken' = taken \cup {p}
    /\ UNCHANGED <<open, cursor, at, todo, kept, spent, scan, evaluated, complete, steady, selected, full>>

\* Slip: the cursor is stored at the candidate the budget did not suffice for.
ExhaustedAhead(p) == scan' = p

\* Back to the last evaluated candidate, or to where this scan started.
Exhausted(p) == scan' = IF evaluated = 0 THEN cursor ELSE evaluated

\* The loops end at a request that raises beyond the hard limit, or fails beyond the soft one.
Ended(p) == ~Affordable(Gets[p]) \/ ("get" \in Faults /\ spent >= Soft)

Exhaust(p) ==
    /\ at = "evaluate"
    /\ p \in First(cands)
    /\ Ended(p)
    /\ Exhausted(p)
    /\ cands' = {}
    /\ spent' = Hard + 1
    /\ UNCHANGED <<open, cursor, at, todo, kept, evaluated, complete, history>>

Evaluated ==
    /\ at = "evaluate" /\ cands = {}
    /\ at' = "retained"
    /\ UNCHANGED <<open, cursor, run, history>>

\* A retained original is reported on, found to need nothing, or fails within the budget.
Recheck(p) ==
    /\ at = "retained"
    /\ p \in First(kept)
    /\ Affordable(Gets[p])
    /\ kept' = kept \ {p}
    /\ taken' = taken \cup {p}
    /\ \/ /\ spent' = spent + Gets[p] + Granted(p)
          /\ evaluated' = p /\ scan' = p
          /\ full' = IF Granted(p) = Fetches[p] THEN full \cup {p} ELSE full
       \/ Spend(Resolving) /\ UNCHANGED <<evaluated, scan, full>>
    /\ UNCHANGED <<open, cursor, at, todo, cands, complete, steady, selected>>

ExhaustRetained(p) ==
    /\ at = "retained"
    /\ p \in First(kept)
    /\ Ended(p)
    /\ Exhausted(p)
    /\ kept' = {}
    /\ spent' = Hard + 1
    /\ UNCHANGED <<open, cursor, at, todo, cands, evaluated, complete, history>>

\* The payload with the cursor is written and uploaded.
Finish ==
    /\ at = "retained" /\ kept = {}
    /\ cursor' = scan
    /\ at' = "idle"
    /\ UNCHANGED <<open, run, history>>

\* Without an artifact the next scan restores the older cursor.
Crash ==
    /\ "crash" \in Faults
    /\ at # "idle"
    /\ at' = "idle"
    /\ UNCHANGED <<open, cursor, run, history>>

Step ==
    \/ Resolved \/ Publish \/ Evaluated \/ Finish
    \/ \E p \in PRs : Resolve(p) \/ Evaluate(p) \/ Stumble(p) \/ Exhaust(p)
                     \/ Recheck(p) \/ ExhaustRetained(p)

Next == Begin \/ Step \/ Crash \/ \E p \in PRs : Close(p)

Spec == Init /\ [][Next]_vars

\* The schedule comes round every hour and a started run goes on.
FairSpec == Spec /\ WF_vars(Begin) /\ WF_vars(Step)

-----------------------------------------------------------------------------
(* Properties.                                                               *)

\* When the cursor moves, the candidates it moves over were dealt with by this scan: a
\* budget that runs out never costs one its turn (eligibility.py, scan_cursor).
NonePassedOver ==
    [][cursor' # cursor =>
         \A p \in selected \ Retained : Rank(p) <= Rank(cursor') => p \in taken]_vars

\* The scan has room for the resolution of all it selected.
Roomy == at = "resolve" => spent + Resolving * Cardinality(todo) <= Hard

\* What became of the selected: candidates and retained originals keep apart.
Sorted ==
    /\ at # "idle" => /\ todo \subseteq selected /\ cands \subseteq selected \ Retained
                      /\ kept \subseteq selected \cap Retained
    /\ at \in {"evaluate", "publish", "retained"} => todo = {}
    /\ at = "retained" => cands = {}
    /\ at = "resolve" => evaluated = 0

\* The scan dealt with the selected candidates up to p.
DoneUpTo(p) == \A q \in selected \ Retained : Rank(q) <= Rank(p) => q \in taken

\* A budget that runs out leaves the cursor where it was, or behind the last evaluation.
Covered ==
    at # "idle" =>
        /\ evaluated # 0 => DoneUpTo(evaluated)
        /\ \/ selected \ Retained \subseteq taken \cup cands \cup todo
           \/ spent > Hard /\ cands = {} /\ (scan = cursor \/ (scan = evaluated /\ evaluated # 0))

\* A scan selects those open in turn: whoever stays and was not selected comes after them.
Contiguous ==
    at # "idle" => \A p \in steady \ selected : \A q \in selected : Rank(q) < Rank(p)

\* The cursor to persist is a selected pull request, or where the scan started.
Anchored == at # "idle" => scan \in selected \cup {cursor} /\ evaluated \in selected \cup {0}

IInv == TypeOK /\ Roomy /\ Sorted /\ Covered /\ Contiguous /\ Anchored

\* Scan after scan, the cursor keeps to fair turns: it passes over no pull request that was
\* open all the time and not dealt with, although each scan selects anew from those open and
\* ends where its budget ends (eligibility.py, service, scan_cursor).
Turns == INSTANCE Rotation WITH
    Size <- NPrs, Exempt <- Retained,
    token <- cursor, present <- open, served <- taken

ImplementsRotation == Turns!Spec

\* Whenever the cursor moves, it comes nearer to every pull request that was open all the
\* time and still waits, by less than a round: its turn comes after finitely many such moves
\* (eligibility.py, service, scan_cursor).
NoneOvertaken ==
    [][cursor' # cursor =>
         \A p \in (steady \ Retained) \ taken : Turns!Distance(p)' < Turns!Distance(p)]_vars

\* A run crashes, or a request fails that the budget would have paid for.
Disturbed ==
    \/ Crash
    \/ \E p \in PRs : Stumble(p) \/ (Affordable(Gets[p]) /\ (Exhaust(p) \/ ExhaustRetained(p)))
    \/ \E p \in open : Affordable(Resolving) /\ Resolve(p) /\ p \in taken'
    \/ Affordable(Resolving) /\ Publish /\ evaluated \in open /\ complete /\ evaluated \notin full'

\* "Rotates instead of starving older PRs": once requests and runs no longer fail, a pull
\* request that stays open is again and again reported on with complete metadata
\* (eligibility.py, service, scan_cursor).
EvaluatedInTurn ==
    <>[][~Disturbed]_vars => \A p \in PRs \ Retained : []<>(p \in full \/ p \notin open)

\* The same of the retained originals, which may need nothing but must get their turn.
RetainedInTurn == \A p \in Retained : []<>(p \in taken \/ p \notin open)

\* "Rotates instead of starving older PRs", of every pull request and whatever its metadata
\* cost (test_scheduled_scan_cursor_rotates_instead_of_starving_older_prs; the code: service,
\* registry_fetch).
EachInTurn == EvaluatedInTurn /\ RetainedInTurn
=============================================================================
