------------------------ MODULE OwnerCustodyOutcomes ------------------------
(***************************************************************************)
(* Proofs about the outcome of a run under custody: that owner and guard   *)
(* count the same grants, that a guard leaves the record behind only for a *)
(* reason, that an owner whose guard was killed keeps its recovery, and    *)
(* that together they keep the obligation of CustodyObligation.            *)
(* They rest on OutcomeInv, which extends the invariant of                 *)
(* OwnerCustodyProofs; each of its parts has one lemma, with a step for    *)
(* every action that changes a variable the part reads.                    *)
(***************************************************************************)
EXTENDS OwnerCustodyProofs

(***************************************************************************)
(* What the larger steps do to every field the outcome depends on.         *)
(***************************************************************************)
LEMMA ReceiveOutcome ==
  ASSUME TypeOK, Receive
  PROVE  /\ UNCHANGED <<owner, work, files, engine, clock, trouble>>
         /\ guard.pc = "loop" /\ conn.at = "sent"
         /\ guard'.seq = guard.seq /\ guard'.bound = guard.bound
         /\ \/ guard' = guard /\ conn'.phase = conn.phase /\ conn'.at = "eof"
            \/ /\ conn' = conn /\ guard'.why = guard.why
               /\ \/ guard'.pc = "verify" /\ conn.phase = "ready"
                  \/ guard'.pc = "send" /\ conn.phase # "ready"
                  \/ guard'.pc = "lease"
            \/ /\ conn' = conn /\ guard'.pc = "stop"
               /\ guard'.why = "close" \/ (guard'.why = "abort" /\ "tamper" \in trouble)
  <1>1. /\ UNCHANGED <<owner, work, files, engine, clock, trouble>>
        /\ guard.pc = "loop" /\ conn.at = "sent"
    BY DEF Receive, GuardAt, Quietly
  <1>2. guard \in GuardType /\ conn \in ConnType
    BY DEF TypeOK
  <1>3. \/ guard' = guard /\ conn' = [conn EXCEPT !.at = "eof"]
        \/ conn' = conn /\ guard' = [guard EXCEPT !.pc = "verify"] /\ conn.phase = "ready"
        \/ conn' = conn /\ guard' = [guard EXCEPT !.pc = "send"] /\ conn.phase # "ready"
        \/ conn' = conn /\ guard' = [guard EXCEPT !.pc = "lease"]
        \/ conn' = conn /\ Leave("close")
        \/ conn' = conn /\ Leave("abort") /\ "tamper" \in trouble
    BY DEF Receive
  <1> QED
    BY <1>1, <1>2, <1>3 DEF Leave, GuardType, ConnType

LEMMA VerifyOutcome ==
  ASSUME TypeOK, Verify
  PROVE  /\ UNCHANGED <<owner, conn, work, files, engine, clock>>
         /\ trouble \subseteq trouble' /\ guard.pc = "verify"
         /\ guard'.seq = guard.seq /\ guard'.bound = guard.bound
         /\ \/ guard'.pc = "bind" /\ guard'.why = guard.why /\ Verified
            \/ guard'.pc = "stop" /\ guard'.why = "recover"
            \/ guard'.pc = "stop" /\ guard'.why = "abort" /\ (~Verified \/ "refuse" \in trouble')
  <1>1. guard \in GuardType
    BY DEF TypeOK
  <1>2. /\ UNCHANGED <<owner, conn, work, files, engine, clock>> /\ guard.pc = "verify"
        /\ trouble \subseteq trouble'
    BY DEF Verify, GuardAt, Quietly, Happens
  <1>3. \/ guard' = [guard EXCEPT !.pc = "bind"] /\ Verified
        \/ Leave("recover")
        \/ Leave("abort") /\ (~Verified \/ "refuse" \in trouble')
    BY DEF Verify, Happens
  <1> QED
    BY <1>1, <1>2, <1>3 DEF Leave, GuardType

LEMMA SendOutcome ==
  ASSUME TypeOK, Send
  PROVE  /\ UNCHANGED <<owner, work, files, engine, clock, trouble>>
         /\ guard.pc = "send" /\ guard'.seq = guard.seq /\ guard'.bound = guard.bound
         /\ \/ guard'.pc = "stop" /\ guard'.why = "recover" /\ conn' = conn
            \/ /\ guard'.pc = "loop" /\ guard'.why = guard.why
               /\ conn' = NoConn \/ (conn'.phase = conn.phase /\ conn'.at = "reply")
  <1>1. guard \in GuardType /\ conn \in ConnType
    BY DEF TypeOK
  <1>2. UNCHANGED <<owner, work, files, engine, clock, trouble>> /\ guard.pc = "send"
    BY DEF Send, GuardAt, Quietly
  <1>3. \/ Leave("recover") /\ conn' = conn
        \/ guard' = [guard EXCEPT !.pc = "loop", !.poisoned = TRUE] /\ conn' = NoConn
        \/ guard' = [guard EXCEPT !.pc = "loop"] /\ conn' = [conn EXCEPT !.at = "reply"]
    BY DEF Send
  <1> QED
    BY <1>1, <1>2, <1>3 DEF Leave, GuardType, ConnType

LEMMA PoisonOutcome ==
  ASSUME guard \in GuardType, Poison
  PROVE  /\ guard'.pc = "stop" /\ guard'.why = "recover"
         /\ guard'.seq = guard.seq /\ guard'.bound = guard.bound
  BY DEF Poison, GuardType

LEMMA LeaseOutcome ==
  ASSUME TypeOK, Lease
  PROVE  /\ UNCHANGED <<owner, work, files, engine, clock>>
         /\ trouble \subseteq trouble' /\ guard.pc = "lease"
         /\ guard'.bound = guard.bound /\ conn'.phase = conn.phase
         /\ \/ /\ guard'.pc = "confirm" /\ guard'.seq = guard.seq + 1
               /\ guard'.why = guard.why /\ conn'.at = "reply" /\ conn.phase # "ready"
            \/ /\ guard'.pc = "stop" /\ guard'.seq = guard.seq
               /\ guard'.why = "recover" /\ conn'.at = "eof"
  <1>1. guard \in GuardType /\ conn \in ConnType
    BY DEF TypeOK
  <1>2. /\ UNCHANGED <<owner, work, files, engine, clock>> /\ guard.pc = "lease"
        /\ trouble \subseteq trouble'
    BY DEF Lease, GuardAt, Quietly, Happens
  <1>3. \/ /\ guard' = [guard EXCEPT !.pc = "confirm", !.seq = @ + 1,
                          !.lease = IF conn.phase = "unhold" THEN "closed" ELSE "open"]
           /\ conn' = [conn EXCEPT !.at = "reply"] /\ conn.phase # "ready"
        \/ Poison /\ conn' = [conn EXCEPT !.at = "eof"]
    BY DEF Lease, Grants
  <1> QED
    BY <1>1, <1>2, <1>3, PoisonOutcome DEF GuardType, ConnType

LEMMA ConfirmOutcome ==
  ASSUME TypeOK, Confirm
  PROVE  /\ UNCHANGED <<owner, work, files, engine, clock, trouble>>
         /\ guard.pc = "confirm" /\ guard'.seq = guard.seq /\ guard'.bound = guard.bound
         /\ \/ /\ guard'.pc = "loop" /\ guard'.why = guard.why /\ conn.at = "ack"
               /\ conn'.phase = conn.phase /\ conn'.at = "ok"
            \/ /\ guard'.pc = "stop" /\ guard'.why = "recover"
               /\ conn' = NoConn \/ (conn'.phase = conn.phase /\ conn'.at = "eof")
  <1>1. guard \in GuardType /\ conn \in ConnType
    BY DEF TypeOK
  <1>2. UNCHANGED <<owner, work, files, engine, clock, trouble>> /\ guard.pc = "confirm"
    BY DEF Confirm, GuardAt, Quietly
  <1>3. \/ /\ guard' = [guard EXCEPT !.pc = "loop"] /\ conn' = [conn EXCEPT !.at = "ok"]
           /\ conn.at = "ack"
        \/ Poison /\ (conn' = NoConn \/ conn' = [conn EXCEPT !.at = "eof"])
    BY DEF Confirm
  <1> QED
    BY <1>1, <1>2, <1>3, PoisonOutcome DEF GuardType, ConnType

LEMMA StopWorkOutcome ==
  ASSUME TypeOK, StopWork
  PROVE  /\ UNCHANGED <<files, engine, clock>> /\ trouble \subseteq trouble'
         /\ guard.pc = "stop" /\ guard'.seq = guard.seq /\ guard'.bound = guard.bound
         /\ guard'.why = guard.why
         /\ owner'.pc = owner.pc /\ owner'.seq = owner.seq /\ owner'.busy = owner.busy
         /\ owner'.proc = "live" => owner.proc = "live" /\ guard.why = "close"
         /\ conn'.phase = conn.phase /\ conn'.at \in {conn.at, "gone"}
         /\ work' \in {work, "none"}
         /\ \/ guard'.pc = "identify" /\ guard.why # "abort" /\ work' = "none"
            \/ guard'.pc = "failed" /\ guard.why = "abort"
            \/ guard'.pc = "failed" /\ trouble' \cap {"refuse", "escape"} # {}
  <1>1. guard \in GuardType /\ conn \in ConnType /\ owner \in OwnerType
    BY DEF TypeOK
  <1>2. UNCHANGED <<files, engine, clock>> /\ guard.pc = "stop"
    BY DEF StopWork, GuardAt
  <1>3. CASE Stopped
    <2>1. /\ owner'.pc = owner.pc /\ owner'.seq = owner.seq /\ owner'.busy = owner.busy
          /\ owner'.proc = "live" => owner.proc = "live" /\ guard.why = "close"
      BY <1>1, <1>3 DEF Stopped, Killed, OwnerType
    <2>2. conn'.phase = conn.phase /\ conn'.at \in {conn.at, "gone"}
      BY <1>1, <1>3 DEF Stopped, ConnType
    <2>3. /\ guard'.seq = guard.seq /\ guard'.bound = guard.bound /\ guard'.why = guard.why
          /\ guard'.pc = IF guard.why = "abort" THEN "failed" ELSE "identify"
      BY <1>1, <1>3 DEF Stopped, GuardType
    <2>4. work' = "none" /\ trouble' = trouble
      BY <1>3 DEF Stopped, Quietly
    <2> QED
      BY <1>2, <2>1, <2>2, <2>3, <2>4
  <1>4. CASE NotStopped
    <2>1. /\ owner'.pc = owner.pc /\ owner'.seq = owner.seq /\ owner'.busy = owner.busy
          /\ owner'.proc = "live" => owner.proc = "live" /\ guard.why = "close"
      BY <1>1, <1>4 DEF NotStopped, OwnerType
    <2>2. conn'.phase = conn.phase /\ conn'.at \in {conn.at, "gone"}
      BY <1>1, <1>4 DEF NotStopped, ConnType
    <2>3. /\ guard'.seq = guard.seq /\ guard'.bound = guard.bound /\ guard'.why = guard.why
          /\ guard'.pc = "failed"
      BY <1>1, <1>4 DEF NotStopped, GuardType
    <2>4. /\ work' = work /\ trouble \subseteq trouble'
          /\ trouble' \cap {"refuse", "escape"} # {}
      BY <1>4 DEF NotStopped, Happens
    <2> QED
      BY <1>2, <2>1, <2>2, <2>3, <2>4
  <1> QED
    BY <1>3, <1>4 DEF StopWork

LEMMA FinishOutcome ==
  ASSUME TypeOK, Finish
  PROVE  /\ UNCHANGED <<owner, work, files, engine, clock, trouble>>
         /\ guard.pc = "removed" /\ guard'.seq = guard.seq /\ guard'.bound = guard.bound
         /\ guard'.pc \in {"closed", "failed"} \/ (guard'.pc = "stop" /\ guard'.why = "abort")
         /\ conn' = conn \/ (conn'.phase = conn.phase /\ conn'.at = "reply")
  <1>1. guard \in GuardType /\ conn \in ConnType
    BY DEF TypeOK
  <1>2. UNCHANGED <<owner, work, files, engine, clock, trouble>> /\ guard.pc = "removed"
    BY DEF Finish, GuardAt, Quietly
  <1>3. CASE guard.why = "close"
    <2>1. conn' = [conn EXCEPT !.at = IF @ = "sent" THEN "reply" ELSE @]
      BY <1>3 DEF Finish
    <2>2. guard' = [guard EXCEPT !.pc = "closed"] \/ Leave("abort")
      BY <1>3 DEF Finish
    <2> QED
      BY <1>1, <1>2, <2>1, <2>2 DEF Leave, GuardType, ConnType
  <1>4. CASE guard.why # "close"
    BY <1>1, <1>2, <1>4 DEF Finish, GuardType
  <1> QED
    BY <1>3, <1>4

LEMMA HangupOutcome ==
  ASSUME conn \in ConnType
  PROVE  /\ Hangup = NoConn \/ (Hangup.phase = conn.phase /\ Hangup.at = "gone")
         /\ conn = NoConn => Hangup = NoConn
  BY DEF Hangup, ConnType, NoConn

LEMMA GiveUpOutcome ==
  ASSUME TypeOK, GiveUp
  PROVE  /\ UNCHANGED <<guard, files, engine, clock>> /\ trouble \subseteq trouble'
         /\ owner.pc \in {"spawn", "await"} \cup Commands \cup Phases
         /\ owner.proc = "live"
         /\ owner'.pc = "recover" /\ ~owner'.busy /\ owner'.proc = owner.proc
         /\ owner'.seq = owner.seq /\ work' = "none"
         /\ conn' = NoConn \/ (conn'.phase = conn.phase /\ conn'.at = "gone")
         /\ conn = NoConn => conn' = NoConn
  <1>1. owner \in OwnerType /\ conn \in ConnType
    BY DEF TypeOK
  <1>2. /\ UNCHANGED <<guard, files, engine, clock>> /\ trouble \subseteq trouble'
        /\ owner.pc \in {"spawn", "await"} \cup Commands \cup Phases
        /\ owner.proc = "live" /\ work' = "none" /\ conn' = Hangup
    BY DEF GiveUp, OwnerLive, Quietly, Happens
  <1>3. /\ owner'.pc = "recover" /\ ~owner'.busy /\ owner'.proc = owner.proc
        /\ owner'.seq = owner.seq
    BY <1>1 DEF GiveUp, Goto, OwnerType
  <1> QED
    BY <1>1, <1>2, <1>3, HangupOutcome

LEMMA KillOwnerOutcome ==
  ASSUME TypeOK, KillOwner
  PROVE  /\ UNCHANGED <<guard, work, files, engine, clock>> /\ trouble \subseteq trouble'
         /\ owner'.pc = owner.pc /\ owner'.busy = owner.busy /\ owner'.proc = "zombie"
         /\ owner'.seq = owner.seq
         /\ \/ conn' = conn \/ conn' = NoConn
            \/ conn'.phase = conn.phase /\ conn'.at = "gone"
         /\ conn.phase \in Callbacks => conn' = conn
         /\ conn = NoConn => conn' = NoConn
         /\ conn.at \in {"sent", "gone"} => conn'.at \in {"sent", "gone"}
  <1>1. owner \in OwnerType /\ conn \in ConnType
    BY DEF TypeOK
  <1>2. /\ UNCHANGED <<guard, work, files, engine, clock>> /\ trouble \subseteq trouble'
        /\ conn' = IF conn.phase \in Legacy THEN Hangup ELSE conn
    BY DEF KillOwner, Happens
  <1>3. /\ owner'.pc = owner.pc /\ owner'.busy = owner.busy /\ owner'.proc = "zombie"
        /\ owner'.seq = owner.seq
    BY <1>1 DEF KillOwner, OwnerType
  <1>4. conn.at \in {"sent", "gone"} => conn'.at \in {"sent", "gone"}
    BY <1>1, <1>2 DEF Hangup, ConnType
  <1> QED
    BY <1>1, <1>2, <1>3, <1>4, HangupOutcome DEF Callbacks, Legacy

LEMMA AnsweredOutcome ==
  ASSUME TypeOK, Answered
  PROVE  /\ UNCHANGED <<guard, work, files, engine, clock, trouble>>
         /\ owner.proc = "live" /\ owner'.proc = "live" /\ ~owner'.busy
         /\ owner.pc = conn.phase /\ owner.pc \in Phases /\ conn' = NoConn
         /\ owner.pc \in Callbacks => conn.at = "ok" /\ owner'.seq = owner.seq + 1
                                      /\ owner'.pc \in {"check", "unhold", "close"}
         /\ owner.pc = "pending" => owner'.pc = "volume"
         /\ owner.pc = "ready" => owner'.pc = "label"
         /\ owner.pc = "close" => owner'.pc = "wait"
         /\ owner.pc \notin Callbacks => conn.at = "reply" /\ owner'.seq = owner.seq
  <1>1. owner \in OwnerType /\ conn \in ConnType
    BY DEF TypeOK
  <1>2. /\ UNCHANGED <<guard, work, files, engine, clock, trouble>>
        /\ owner.proc = "live" /\ owner.busy /\ conn.phase = owner.pc /\ conn' = NoConn
        /\ conn.at = (IF conn.phase \in Callbacks THEN "ok" ELSE "reply")
    BY DEF Answered, OwnerLive, Quietly
  <1>3. owner.pc \in Phases
    BY <1>1, <1>2 DEF OwnerType, ConnType, Commands, Teardown, Phases, Callbacks, Legacy
  <1>4. owner' = [owner EXCEPT !.pc = Following(owner.pc), !.busy = FALSE,
                    !.seq = IF conn.phase \in Callbacks THEN owner.seq + 1 ELSE owner.seq]
    BY <1>1 DEF Answered, OwnerType
  <1>5. /\ owner'.pc = Following(owner.pc) /\ ~owner'.busy /\ owner'.proc = owner.proc
        /\ owner'.seq = IF conn.phase \in Callbacks THEN owner.seq + 1 ELSE owner.seq
    BY <1>1, <1>4 DEF OwnerType
  <1> QED
    BY <1>2, <1>3, <1>5 DEF Following, Phases, Callbacks, Legacy

LEMMA MovesOutcome ==
  ASSUME TypeOK, NEW a \in {"guard", "owner"}, NEW place, Moves(a, place)
  PROVE  \/ /\ a = "guard" /\ UNCHANGED owner
            /\ guard'.pc = place /\ guard'.why = guard.why
            /\ guard'.bound = guard.bound /\ guard'.seq = guard.seq
         \/ /\ a = "owner" /\ UNCHANGED guard
            /\ owner'.pc = place /\ owner'.proc = owner.proc /\ owner'.seq = owner.seq
            /\ owner'.busy = owner.busy
  BY DEF Moves, TypeOK, GuardType, OwnerType

LEMMA RefuseOutcome ==
  ASSUME TypeOK, NEW a \in {"guard", "owner"}, Refuse(a)
  PROVE  /\ UNCHANGED <<conn, work, files, clock>> /\ trouble \subseteq trouble'
         /\ engine'.container = engine.container /\ engine'.volume = engine.volume
         /\ engine'.verified = engine.verified /\ (engine'.profile => engine.profile)
         /\ Place(a) \in Teardown /\ (Refused(a) \/ "refuse" \in trouble')
         /\ \/ /\ a = "guard" /\ UNCHANGED owner
               /\ guard'.pc = "stop" /\ guard'.why = "abort"
               /\ guard'.bound = guard.bound /\ guard'.seq = guard.seq
            \/ /\ a = "owner" /\ UNCHANGED guard
               /\ owner'.pc = "failed" /\ owner'.proc = owner.proc /\ owner'.seq = owner.seq
               /\ owner'.busy = owner.busy
  <1>1. /\ UNCHANGED <<conn, work, files, clock>> /\ trouble \subseteq trouble'
        /\ Place(a) \in Teardown /\ (Refused(a) \/ "refuse" \in trouble')
    BY DEF Refuse, Quietly, Happens
  <1>4. /\ engine'.container = engine.container /\ engine'.volume = engine.volume
        /\ engine'.verified = engine.verified /\ (engine'.profile => engine.profile)
    BY RefuseEngine DEF TypeOK, EngineType
  <1>2. CASE a = "guard"
    BY <1>1, <1>2, <1>4 DEF Refuse, Leave, TypeOK, GuardType
  <1>3. CASE a = "owner"
    BY <1>1, <1>3, <1>4 DEF Refuse, TypeOK, OwnerType
  <1> QED
    BY <1>2, <1>3

(***************************************************************************)
(* What went wrong stays known, and the last cutoff stays passed.          *)
(***************************************************************************)
LEMMA Persists ==
  ASSUME clock \in Early .. AllOver, [Next]_vars
  PROVE  trouble \subseteq trouble' /\ (clock = AllOver => clock' = AllOver)
  <1>1. CASE OwnerStep
    BY <1>1 DEF OwnerStep, Quietly, Happens, Prepare, SpawnGuard, AwaitReady, StartCommand,
      CollectCommand, Ask, Answered, GiveUp, Recover, AskAgain, AwaitGuard
  <1>2. CASE WorkStep
    BY <1>2 DEF WorkStep, Quietly, Happens, CreateVolume, LoadProfile, VerifyLabel, CreateContainer,
      WriteCid, Acknowledge, LoseAck
  <1>3. CASE GuardStep
    BY <1>3 DEF GuardStep, Quietly, Happens, Stopped, NotStopped, Start, Announce, Snapshot,
      Expire, ReceiveNothing, Receive, Verify, Bind, Send, Lease, Confirm, StopWork, Finish
  <1>4. ASSUME NEW a \in {"guard", "owner"}, Clean(a)
        PROVE  trouble \subseteq trouble' /\ (clock = AllOver => clock' = AllOver)
    BY <1>4 DEF Clean, Quietly, Happens, Identify, Remove, Absent, Unload, Unmake, Discard,
      Erase, Refuse
  <1>5. CASE World
    <2>1. CASE Tick
      BY <2>1 DEF Tick, Quietly, AllOver
    <2>2. CASE ~Tick
      BY <1>5, <2>2 DEF World, Quietly, Happens, KillOwner, Reap, KillGuard, Cancel, Tamper,
        Replace
    <2> QED
      BY <2>1, <2>2
  <1>6. CASE UNCHANGED vars
    BY <1>6 DEF vars
  <1> QED
    BY <1>1, <1>2, <1>3, <1>4, <1>5, <1>6 DEF Next

LEMMA ConfirmedStep == OutcomeInv /\ [Next]_vars => Confirmed'
  <1> SUFFICES ASSUME OutcomeInv, [Next]_vars PROVE Confirmed'
    OBVIOUS
  <1>0. trouble \subseteq trouble' /\ (clock = AllOver => clock' = AllOver)
    BY Persists DEF OutcomeInv, IInv, TypeOK
  <1>1. CASE SpawnGuard
    BY <1>0, <1>1 DEF OutcomeInv, IInv, TypeOK, Confirmed, NothingYet, Guarding, NoConn,
      Callbacks, Legacy, OwnerType, GuardType, SpawnGuard, At, Goto, Quietly
  <1>2. CASE StartCommand
    BY <1>0, <1>2 DEF OutcomeInv, IInv, TypeOK, Confirmed, NothingYet, Guarding, NoConn,
      Callbacks, Legacy, OwnerType, GuardType, StartCommand, At, Quietly, Commands
  <1>3. CASE Ask
    BY <1>0, <1>3 DEF OutcomeInv, IInv, TypeOK, Confirmed, NothingYet, Guarding, NoConn,
      Callbacks, Legacy, OwnerType, GuardType, ConnType, Ask, At, Quietly, Phases, Running
  <1>4. CASE Answered
    BY <1>0, <1>4, AnsweredOutcome DEF OutcomeInv, IInv, Confirmed, NothingYet, Guarding,
      NoConn, Callbacks, Legacy
  <1>5. CASE GiveUp
    BY <1>0, <1>5, GiveUpOutcome DEF OutcomeInv, IInv, Confirmed, NothingYet, Guarding, NoConn,
      Callbacks, Legacy
  <1>6. CASE AskAgain
    BY <1>0, <1>6 DEF OutcomeInv, IInv, TypeOK, Confirmed, NothingYet, Guarding, NoConn,
      Callbacks, Legacy, OwnerType, ConnType, AskAgain, At, Quietly
  <1>7. CASE AwaitGuard
    BY <1>0, <1>7 DEF OutcomeInv, IInv, TypeOK, Confirmed, NothingYet, Guarding, NoConn,
      Callbacks, Legacy, OwnerType, ConnType, AwaitGuard, Goto, Quietly
  <1>8. CASE Acknowledge
    BY <1>0, <1>8 DEF OutcomeInv, IInv, TypeOK, Confirmed, NothingYet, Guarding, NoConn,
      Callbacks, Legacy, ConnType, Acknowledge, Quietly
  <1>9. CASE LoseAck
    BY <1>0, <1>9 DEF OutcomeInv, IInv, TypeOK, Confirmed, NothingYet, Guarding, NoConn,
      Callbacks, Legacy, ConnType, LoseAck, Happens
  <1>10. CASE Start
    BY <1>0, <1>10 DEF OutcomeInv, IInv, TypeOK, Confirmed, NothingYet, Guarding, NoConn,
      Callbacks, Legacy, GuardType, Start, GuardAt, Quietly
  <1>11. CASE Announce
    BY <1>0, <1>11 DEF OutcomeInv, IInv, TypeOK, Confirmed, NothingYet, Guarding, NoConn,
      Callbacks, Legacy, GuardType, FilesType, Announce, GuardAt, Quietly
  <1>12. CASE Snapshot
    BY <1>0, <1>12 DEF OutcomeInv, IInv, TypeOK, Confirmed, NothingYet, Guarding, NoConn,
      Callbacks, Legacy, GuardType, Snapshot, GuardAt, Quietly
  <1>13. CASE Expire
    BY <1>0, <1>13 DEF OutcomeInv, IInv, TypeOK, Confirmed, NothingYet, Guarding, NoConn,
      Callbacks, Legacy, GuardType, Expire, GuardAt, Leave, Quietly
  <1>14. CASE ReceiveNothing
    BY <1>0, <1>14 DEF OutcomeInv, IInv, TypeOK, Confirmed, NothingYet, Guarding, NoConn,
      Callbacks, Legacy, GuardType, ConnType, ReceiveNothing, GuardAt, Leave, Quietly
  <1>15. CASE Receive
    BY <1>0, <1>15, ReceiveOutcome DEF OutcomeInv, IInv, Confirmed, NothingYet, Guarding,
      NoConn, Callbacks, Legacy
  <1>16. CASE Verify
    BY <1>0, <1>16, VerifyOutcome DEF OutcomeInv, IInv, Confirmed, NothingYet, Guarding,
      NoConn, Callbacks, Legacy
  <1>17. CASE Bind
    BY <1>0, <1>17 DEF OutcomeInv, IInv, TypeOK, Confirmed, NothingYet, Guarding, NoConn,
      Callbacks, Legacy, GuardType, FilesType, Bind, GuardAt, Quietly
  <1>18. CASE Send
    BY <1>0, <1>18, SendOutcome DEF OutcomeInv, IInv, Confirmed, NothingYet, Guarding, NoConn,
      Callbacks, Legacy
  <1>19. CASE Lease
    BY <1>0, <1>19, LeaseOutcome DEF OutcomeInv, IInv, Confirmed, NothingYet, Guarding, NoConn,
      Callbacks, Legacy
  <1>20. CASE Confirm
    BY <1>0, <1>20, ConfirmOutcome DEF OutcomeInv, IInv, Confirmed, NothingYet, Guarding,
      NoConn, Callbacks, Legacy
  <1>21. CASE StopWork
    BY <1>0, <1>21, StopWorkOutcome DEF OutcomeInv, IInv, Confirmed, NothingYet, Guarding,
      NoConn, Callbacks, Legacy
  <1>22. CASE Finish
    BY <1>0, <1>22, FinishOutcome DEF OutcomeInv, IInv, Confirmed, NothingYet, Guarding,
      NoConn, Callbacks, Legacy
  <1>23. CASE KillOwner
    BY <1>0, <1>23, KillOwnerOutcome DEF OutcomeInv, IInv, Confirmed, NothingYet, Guarding,
      NoConn, Callbacks, Legacy
  <1>24. CASE KillGuard
    BY <1>0, <1>24 DEF OutcomeInv, IInv, TypeOK, Confirmed, NothingYet, Guarding, NoConn,
      Callbacks, Legacy, GuardType, ConnType, KillGuard, Running, Happens, ClosedLease
  <1>25. CASE Cancel
    BY <1>0, <1>25 DEF OutcomeInv, IInv, TypeOK, Confirmed, NothingYet, Guarding, NoConn,
      Callbacks, Legacy, GuardType, Cancel, Happens
  <1>26. ASSUME NEW a \in {"guard", "owner"}, Identify(a) PROVE Confirmed'
    BY <1>0, <1>26, MovesOutcome DEF OutcomeInv, IInv, TypeOK, Confirmed, NothingYet, Guarding,
      NoConn, Callbacks, Legacy, FilesType, EngineType, Identify, Cleans, Place
  <1>27. ASSUME NEW a \in {"guard", "owner"}, Remove(a) PROVE Confirmed'
    BY <1>0, <1>27, MovesOutcome DEF OutcomeInv, IInv, TypeOK, Confirmed, NothingYet, Guarding,
      NoConn, Callbacks, Legacy, FilesType, EngineType, Remove, Cleans, Place
  <1>28. ASSUME NEW a \in {"guard", "owner"}, Absent(a) PROVE Confirmed'
    BY <1>0, <1>28, MovesOutcome DEF OutcomeInv, IInv, TypeOK, Confirmed, NothingYet, Guarding,
      NoConn, Callbacks, Legacy, FilesType, EngineType, Absent, Cleans, Place
  <1>29. ASSUME NEW a \in {"guard", "owner"}, Unload(a) PROVE Confirmed'
    BY <1>0, <1>29, MovesOutcome DEF OutcomeInv, IInv, TypeOK, Confirmed, NothingYet, Guarding,
      NoConn, Callbacks, Legacy, FilesType, EngineType, Unload, Cleans, Place
  <1>30. ASSUME NEW a \in {"guard", "owner"}, Unmake(a) PROVE Confirmed'
    BY <1>0, <1>30, MovesOutcome DEF OutcomeInv, IInv, TypeOK, Confirmed, NothingYet, Guarding,
      NoConn, Callbacks, Legacy, FilesType, EngineType, Unmake, Cleans, Place
  <1>31. ASSUME NEW a \in {"guard", "owner"}, Discard(a) PROVE Confirmed'
    BY <1>0, <1>31, MovesOutcome DEF OutcomeInv, IInv, TypeOK, Confirmed, NothingYet, Guarding,
      NoConn, Callbacks, Legacy, FilesType, EngineType, Discard, Cleans, Place
  <1>32. ASSUME NEW a \in {"guard", "owner"}, Erase(a) PROVE Confirmed'
    BY <1>0, <1>32, MovesOutcome DEF OutcomeInv, IInv, TypeOK, Confirmed, NothingYet, Guarding,
      NoConn, Callbacks, Legacy, FilesType, EngineType, Erase, Cleans, Place
  <1>33. ASSUME NEW a \in {"guard", "owner"}, Refuse(a) PROVE Confirmed'
    BY <1>0, <1>33, RefuseOutcome DEF OutcomeInv, IInv, Confirmed, NothingYet, Guarding,
      NoConn, Callbacks, Legacy
  <1>34. CASE Prepare \/ AwaitReady \/ CollectCommand \/ Recover \/ CreateVolume \/ LoadProfile
          \/ VerifyLabel
    \/ CreateContainer \/ WriteCid \/ Reap \/ Tamper \/ Replace \/ Tick
    BY <1>0, <1>34 DEF OutcomeInv, Confirmed, Guarding, NoConn, Callbacks, Legacy, Prepare,
      AwaitReady, CollectCommand, Recover, CreateVolume, LoadProfile, VerifyLabel, CreateContainer,
      WriteCid, Reap, Tamper, Replace, Tick
  <1>35. CASE UNCHANGED vars
    BY <1>0, <1>35 DEF vars, OutcomeInv, Confirmed, Guarding, NoConn, Callbacks, Legacy
  <1> QED
    BY <1>1, <1>2, <1>3, <1>4, <1>5, <1>6, <1>7, <1>8, <1>9, <1>10, <1>11, <1>12, <1>13, <1>14,
      <1>15, <1>16, <1>17, <1>18, <1>19, <1>20, <1>21, <1>22, <1>23, <1>24, <1>25, <1>26,
      <1>27, <1>28, <1>29, <1>30, <1>31, <1>32, <1>33, <1>34, <1>35 DEF Next, OwnerStep,
      WorkStep, GuardStep, World, Clean

LEMMA AlignedStep == OutcomeInv /\ [Next]_vars => Aligned'
  <1> SUFFICES ASSUME OutcomeInv, [Next]_vars PROVE Aligned'
    OBVIOUS
  <1>0. trouble \subseteq trouble' /\ (clock = AllOver => clock' = AllOver)
    BY Persists DEF OutcomeInv, IInv, TypeOK
  <1>1. CASE Prepare
    BY <1>0, <1>1 DEF OutcomeInv, IInv, TypeOK, Aligned, Confirmed, CleansQuietly, NothingYet,
      Guarding, BeforeClosure, Running, NoConn, OwnerType, FilesType, Prepare, At, Goto,
      Quietly, Commands, Callbacks, Legacy, Phases, Teardown, Ended
  <1>2. CASE SpawnGuard
    BY <1>0, <1>2 DEF OutcomeInv, IInv, TypeOK, Aligned, Confirmed, CleansQuietly, NothingYet,
      Guarding, BeforeClosure, Running, NoConn, OwnerType, GuardType, SpawnGuard, At, Goto,
      Quietly, Commands, Callbacks, Legacy, Phases, Teardown, Ended
  <1>3. CASE AwaitReady
    BY <1>0, <1>3 DEF OutcomeInv, IInv, TypeOK, Aligned, Confirmed, CleansQuietly, NothingYet,
      Guarding, BeforeClosure, Running, NoConn, OwnerType, AwaitReady, At, Goto, Quietly,
      Commands, Callbacks, Legacy, Phases, Teardown, Ended
  <1>4. CASE StartCommand
    BY <1>0, <1>4 DEF OutcomeInv, IInv, TypeOK, Aligned, Confirmed, CleansQuietly, NothingYet,
      Guarding, BeforeClosure, Running, NoConn, OwnerType, GuardType, StartCommand, At,
      Quietly, Commands, Callbacks, Legacy, Phases, Teardown, Ended
  <1>5. CASE CollectCommand
    BY <1>0, <1>5 DEF OutcomeInv, IInv, TypeOK, Aligned, Confirmed, CleansQuietly, NothingYet,
      Guarding, BeforeClosure, Running, NoConn, OwnerType, CollectCommand, Following, Commands,
      Quietly, Callbacks, Legacy, Phases, Teardown, Ended
  <1>6. CASE Ask
    BY <1>0, <1>6 DEF OutcomeInv, IInv, TypeOK, Aligned, Confirmed, CleansQuietly, NothingYet,
      Guarding, BeforeClosure, Running, NoConn, OwnerType, GuardType, ConnType, Ask, At,
      Quietly, Phases, Callbacks, Legacy, Commands, Teardown, Ended
  <1>7. CASE Answered
    <2>1. owner.seq \in Nat /\ guard.seq \in Nat
      BY DEF OutcomeInv, IInv, TypeOK, OwnerType, GuardType
    <2>2. CASE owner.pc \in Callbacks
      <3>1. /\ conn.at = "ok" /\ owner'.seq = owner.seq + 1 /\ guard' = guard
            /\ conn' = NoConn /\ owner'.pc \in {"check", "unhold", "close"}
        BY <1>7, <2>2, AnsweredOutcome DEF OutcomeInv, IInv
      <3> QED
        BY <2>1, <2>2, <3>1 DEF OutcomeInv, Aligned, Confirmed, Guarding, NoConn, BeforeClosure,
          Callbacks, Phases
    <2>3. CASE owner.pc \in Legacy
      <3>1. /\ conn.at = "reply" /\ owner'.seq = owner.seq /\ guard' = guard
            /\ conn' = NoConn /\ owner'.pc \in {"volume", "label", "wait"}
        BY <1>7, <2>3, AnsweredOutcome DEF OutcomeInv, IInv, Callbacks, Legacy
      <3> QED
        BY <2>1, <2>3, <3>1 DEF OutcomeInv, Aligned, NoConn, BeforeClosure, Callbacks, Legacy,
          Phases, Commands
    <2> QED
      BY <1>7, <2>2, <2>3, AnsweredOutcome DEF OutcomeInv, IInv, Phases
  <1>8. CASE GiveUp
    BY <1>0, <1>8, GiveUpOutcome DEF OutcomeInv, IInv, Aligned, Confirmed, CleansQuietly,
      NothingYet, Guarding, BeforeClosure, Running, NoConn, Commands, Callbacks, Legacy,
      Phases, Teardown, Ended
  <1>9. CASE Recover
    BY <1>0, <1>9 DEF OutcomeInv, IInv, TypeOK, Aligned, Confirmed, CleansQuietly, NothingYet,
      Guarding, BeforeClosure, Running, NoConn, OwnerType, Recover, At, Quietly, Commands,
      Callbacks, Legacy, Phases, Teardown, Ended
  <1>10. CASE AskAgain
    BY <1>0, <1>10 DEF OutcomeInv, IInv, TypeOK, Aligned, Confirmed, CleansQuietly, NothingYet,
      Guarding, BeforeClosure, Running, NoConn, OwnerType, ConnType, AskAgain, At, Quietly,
      Commands, Callbacks, Legacy, Phases, Teardown, Ended
  <1>11. CASE AwaitGuard
    BY <1>0, <1>11 DEF OutcomeInv, IInv, TypeOK, Aligned, Confirmed, CleansQuietly, NothingYet,
      Guarding, BeforeClosure, Running, NoConn, OwnerType, ConnType, AwaitGuard, Goto, Quietly,
      Commands, Callbacks, Legacy, Phases, Teardown, Ended
  <1>12. CASE Acknowledge
    BY <1>0, <1>12 DEF OutcomeInv, IInv, TypeOK, Aligned, Confirmed, CleansQuietly, NothingYet,
      Guarding, BeforeClosure, Running, NoConn, ConnType, Acknowledge, Quietly, Callbacks,
      Commands, Legacy, Phases, Teardown, Ended
  <1>13. CASE LoseAck
    BY <1>0, <1>13 DEF OutcomeInv, IInv, TypeOK, Aligned, Confirmed, CleansQuietly, NothingYet,
      Guarding, BeforeClosure, Running, NoConn, ConnType, LoseAck, Happens, Callbacks,
      Commands, Legacy, Phases, Teardown, Ended
  <1>14. CASE Start
    BY <1>0, <1>14 DEF OutcomeInv, IInv, TypeOK, Aligned, Confirmed, CleansQuietly, NothingYet,
      Guarding, BeforeClosure, Running, NoConn, GuardType, Start, GuardAt, Quietly, Commands,
      Callbacks, Legacy, Phases, Teardown, Ended
  <1>15. CASE Announce
    BY <1>0, <1>15 DEF OutcomeInv, IInv, TypeOK, Aligned, Confirmed, CleansQuietly, NothingYet,
      Guarding, BeforeClosure, Running, NoConn, GuardType, FilesType, Announce, GuardAt,
      Quietly, Commands, Callbacks, Legacy, Phases, Teardown, Ended
  <1>16. CASE Snapshot
    BY <1>0, <1>16 DEF OutcomeInv, IInv, TypeOK, Aligned, Confirmed, CleansQuietly, NothingYet,
      Guarding, BeforeClosure, Running, NoConn, GuardType, Snapshot, GuardAt, Quietly,
      Commands, Callbacks, Legacy, Phases, Teardown, Ended
  <1>17. CASE Expire
    BY <1>0, <1>17 DEF OutcomeInv, IInv, TypeOK, Aligned, Confirmed, CleansQuietly, NothingYet,
      Guarding, BeforeClosure, Running, NoConn, GuardType, Expire, GuardAt, Leave, Quietly,
      Commands, Callbacks, Legacy, Phases, Teardown, Ended
  <1>18. CASE ReceiveNothing
    BY <1>0, <1>18 DEF OutcomeInv, IInv, TypeOK, Aligned, Confirmed, CleansQuietly, NothingYet,
      Guarding, BeforeClosure, Running, NoConn, GuardType, ConnType, ReceiveNothing, GuardAt,
      Leave, Quietly, Commands, Callbacks, Legacy, Phases, Teardown, Ended
  <1>19. CASE Receive
    BY <1>0, <1>19, ReceiveOutcome DEF OutcomeInv, IInv, Aligned, Confirmed, CleansQuietly,
      NothingYet, Guarding, BeforeClosure, Running, NoConn, Commands, Callbacks, Legacy,
      Phases, Teardown, Ended
  <1>20. CASE Verify
    BY <1>0, <1>20, VerifyOutcome DEF OutcomeInv, IInv, Aligned, Confirmed, CleansQuietly,
      NothingYet, Guarding, BeforeClosure, Running, NoConn, Commands, Callbacks, Legacy,
      Phases, Teardown, Ended
  <1>21. CASE Bind
    BY <1>0, <1>21 DEF OutcomeInv, IInv, TypeOK, Aligned, Confirmed, CleansQuietly, NothingYet,
      Guarding, BeforeClosure, Running, NoConn, GuardType, FilesType, Bind, GuardAt, Quietly,
      Commands, Callbacks, Legacy, Phases, Teardown, Ended
  <1>22. CASE Send
    BY <1>0, <1>22, SendOutcome DEF OutcomeInv, IInv, Aligned, Confirmed, CleansQuietly,
      NothingYet, Guarding, BeforeClosure, Running, NoConn, Commands, Callbacks, Legacy,
      Phases, Teardown, Ended
  <1>23. CASE Lease
    <2>1. owner.seq \in Nat /\ guard.seq \in Nat
      BY DEF OutcomeInv, IInv, TypeOK, OwnerType, GuardType
    <2>2. guard.pc = "lease" /\ owner' = owner /\ conn.at # "ok"
      BY <1>23, LeaseOutcome DEF OutcomeInv, IInv, Confirmed, Guarding
    <2>3. \/ guard'.pc = "confirm" /\ guard'.seq = guard.seq + 1
          \/ guard'.pc = "stop"
      BY <1>23, LeaseOutcome DEF OutcomeInv, IInv
    <2> QED
      BY <2>1, <2>2, <2>3 DEF OutcomeInv, Aligned, Guarding
  <1>24. CASE Confirm
    BY <1>0, <1>24, ConfirmOutcome DEF OutcomeInv, IInv, Aligned, Confirmed, CleansQuietly,
      NothingYet, Guarding, BeforeClosure, Running, NoConn, Commands, Callbacks, Legacy,
      Phases, Teardown, Ended
  <1>25. CASE StopWork
    BY <1>0, <1>25, StopWorkOutcome DEF OutcomeInv, IInv, Aligned, Confirmed, CleansQuietly,
      NothingYet, Guarding, BeforeClosure, Running, NoConn, Commands, Callbacks, Legacy,
      Phases, Teardown, Ended
  <1>26. CASE Finish
    BY <1>0, <1>26, FinishOutcome DEF OutcomeInv, IInv, Aligned, Confirmed, CleansQuietly,
      NothingYet, Guarding, BeforeClosure, Running, NoConn, Commands, Callbacks, Legacy,
      Phases, Teardown, Ended
  <1>27. CASE KillOwner
    BY <1>0, <1>27, KillOwnerOutcome DEF OutcomeInv, IInv, Aligned, Confirmed, CleansQuietly,
      NothingYet, Guarding, BeforeClosure, Running, NoConn, Commands, Callbacks, Legacy,
      Phases, Teardown, Ended
  <1>28. CASE Reap
    BY <1>0, <1>28 DEF OutcomeInv, IInv, TypeOK, Aligned, Confirmed, CleansQuietly, NothingYet,
      Guarding, BeforeClosure, Running, NoConn, OwnerType, Reap, Quietly, Commands, Callbacks,
      Legacy, Phases, Teardown, Ended
  <1>29. CASE KillGuard
    BY <1>0, <1>29 DEF OutcomeInv, IInv, TypeOK, Aligned, Confirmed, CleansQuietly, NothingYet,
      Guarding, BeforeClosure, Running, NoConn, GuardType, ConnType, KillGuard, Happens,
      ClosedLease, Commands, Callbacks, Legacy, Phases, Teardown, Ended
  <1>30. CASE Cancel
    BY <1>0, <1>30 DEF OutcomeInv, IInv, TypeOK, Aligned, Confirmed, CleansQuietly, NothingYet,
      Guarding, BeforeClosure, Running, NoConn, GuardType, Cancel, Happens, Commands,
      Callbacks, Legacy, Phases, Teardown, Ended
  <1>31. ASSUME NEW a \in {"guard", "owner"}, Identify(a) PROVE Aligned'
    BY <1>0, <1>31, MovesOutcome DEF OutcomeInv, IInv, TypeOK, Aligned, Confirmed,
      CleansQuietly, NothingYet, Guarding, BeforeClosure, Running, NoConn, FilesType,
      EngineType, Identify, Cleans, Place, Commands, Callbacks, Legacy, Phases, Teardown, Ended
  <1>32. ASSUME NEW a \in {"guard", "owner"}, Remove(a) PROVE Aligned'
    BY <1>0, <1>32, MovesOutcome DEF OutcomeInv, IInv, TypeOK, Aligned, Confirmed,
      CleansQuietly, NothingYet, Guarding, BeforeClosure, Running, NoConn, FilesType,
      EngineType, Remove, Cleans, Place, Commands, Callbacks, Legacy, Phases, Teardown, Ended
  <1>33. ASSUME NEW a \in {"guard", "owner"}, Absent(a) PROVE Aligned'
    BY <1>0, <1>33, MovesOutcome DEF OutcomeInv, IInv, TypeOK, Aligned, Confirmed,
      CleansQuietly, NothingYet, Guarding, BeforeClosure, Running, NoConn, FilesType,
      EngineType, Absent, Cleans, Place, Commands, Callbacks, Legacy, Phases, Teardown, Ended
  <1>34. ASSUME NEW a \in {"guard", "owner"}, Unload(a) PROVE Aligned'
    BY <1>0, <1>34, MovesOutcome DEF OutcomeInv, IInv, TypeOK, Aligned, Confirmed,
      CleansQuietly, NothingYet, Guarding, BeforeClosure, Running, NoConn, FilesType,
      EngineType, Unload, Cleans, Place, Commands, Callbacks, Legacy, Phases, Teardown, Ended
  <1>35. ASSUME NEW a \in {"guard", "owner"}, Unmake(a) PROVE Aligned'
    BY <1>0, <1>35, MovesOutcome DEF OutcomeInv, IInv, TypeOK, Aligned, Confirmed,
      CleansQuietly, NothingYet, Guarding, BeforeClosure, Running, NoConn, FilesType,
      EngineType, Unmake, Cleans, Place, Commands, Callbacks, Legacy, Phases, Teardown, Ended
  <1>36. ASSUME NEW a \in {"guard", "owner"}, Discard(a) PROVE Aligned'
    BY <1>0, <1>36, MovesOutcome DEF OutcomeInv, IInv, TypeOK, Aligned, Confirmed,
      CleansQuietly, NothingYet, Guarding, BeforeClosure, Running, NoConn, FilesType,
      EngineType, Discard, Cleans, Place, Commands, Callbacks, Legacy, Phases, Teardown, Ended
  <1>37. ASSUME NEW a \in {"guard", "owner"}, Erase(a) PROVE Aligned'
    BY <1>0, <1>37, MovesOutcome DEF OutcomeInv, IInv, TypeOK, Aligned, Confirmed,
      CleansQuietly, NothingYet, Guarding, BeforeClosure, Running, NoConn, FilesType,
      EngineType, Erase, Cleans, Place, Commands, Callbacks, Legacy, Phases, Teardown, Ended
  <1>38. ASSUME NEW a \in {"guard", "owner"}, Refuse(a) PROVE Aligned'
    BY <1>0, <1>38, RefuseOutcome DEF OutcomeInv, IInv, Aligned, Confirmed, CleansQuietly,
      NothingYet, Guarding, BeforeClosure, Running, NoConn, Commands, Callbacks, Legacy,
      Phases, Teardown, Ended
  <1>39. CASE CreateVolume \/ LoadProfile \/ VerifyLabel \/ CreateContainer \/ WriteCid \/ Tamper
          \/ Replace
    \/ Tick
    BY <1>0, <1>39 DEF OutcomeInv, Aligned, Guarding, BeforeClosure, Running, NoConn,
      CreateVolume, LoadProfile, VerifyLabel, CreateContainer, WriteCid, Tamper, Replace, Tick
  <1>40. CASE UNCHANGED vars
    BY <1>0, <1>40 DEF vars, OutcomeInv, Aligned, Guarding, BeforeClosure, Running, NoConn
  <1> QED
    BY <1>1, <1>2, <1>3, <1>4, <1>5, <1>6, <1>7, <1>8, <1>9, <1>10, <1>11, <1>12, <1>13, <1>14,
      <1>15, <1>16, <1>17, <1>18, <1>19, <1>20, <1>21, <1>22, <1>23, <1>24, <1>25, <1>26,
      <1>27, <1>28, <1>29, <1>30, <1>31, <1>32, <1>33, <1>34, <1>35, <1>36, <1>37, <1>38,
      <1>39, <1>40 DEF Next, OwnerStep, WorkStep, GuardStep, World, Clean

LEMMA EmployedStep == OutcomeInv /\ [Next]_vars => Employed'
  <1> SUFFICES ASSUME OutcomeInv, [Next]_vars PROVE Employed'
    OBVIOUS
  <1>0. trouble \subseteq trouble' /\ (clock = AllOver => clock' = AllOver)
    BY Persists DEF OutcomeInv, IInv, TypeOK
  <1>1. CASE Prepare
    BY <1>0, <1>1 DEF OutcomeInv, IInv, TypeOK, Employed, CommandIsOwners, OwnerType,
      FilesType, Prepare, At, Goto, Quietly, Commands, Callbacks, Legacy, Phases, Teardown
  <1>2. CASE SpawnGuard
    BY <1>0, <1>2 DEF OutcomeInv, IInv, TypeOK, Employed, CommandIsOwners, OwnerType,
      GuardType, SpawnGuard, At, Goto, Quietly, Commands, Callbacks, Legacy, Phases, Teardown
  <1>3. CASE AwaitReady
    BY <1>0, <1>3 DEF OutcomeInv, IInv, TypeOK, Employed, CommandIsOwners, OwnerType,
      AwaitReady, At, Goto, Quietly, Commands, Callbacks, Legacy, Phases, Teardown
  <1>4. CASE StartCommand
    BY <1>0, <1>4 DEF OutcomeInv, IInv, TypeOK, Employed, CommandIsOwners, OwnerType,
      GuardType, StartCommand, At, Quietly, Commands, Callbacks, Legacy, Phases, Teardown
  <1>5. CASE CollectCommand
    BY <1>0, <1>5 DEF OutcomeInv, IInv, TypeOK, Employed, CommandIsOwners, OwnerType,
      CollectCommand, Following, Commands, Quietly, Callbacks, Legacy, Phases, Teardown
  <1>6. CASE Ask
    BY <1>0, <1>6 DEF OutcomeInv, IInv, TypeOK, Employed, CommandIsOwners, OwnerType,
      GuardType, ConnType, Ask, At, Quietly, Phases, Callbacks, Legacy, Running, Commands,
      Teardown
  <1>7. CASE Answered
    BY <1>0, <1>7, AnsweredOutcome DEF OutcomeInv, IInv, Employed, CommandIsOwners, Commands,
      Callbacks, Legacy, Phases, Teardown
  <1>8. CASE GiveUp
    BY <1>0, <1>8, GiveUpOutcome DEF OutcomeInv, IInv, Employed, CommandIsOwners, Commands,
      Callbacks, Legacy, Phases, Teardown
  <1>9. CASE Recover
    BY <1>0, <1>9 DEF OutcomeInv, IInv, TypeOK, Employed, CommandIsOwners, OwnerType, Recover,
      At, Quietly, Commands, Callbacks, Legacy, Phases, Teardown
  <1>10. CASE AskAgain
    BY <1>0, <1>10 DEF OutcomeInv, IInv, TypeOK, Employed, CommandIsOwners, OwnerType,
      ConnType, AskAgain, At, Quietly, Commands, Callbacks, Legacy, Phases, Teardown
  <1>11. CASE AwaitGuard
    BY <1>0, <1>11 DEF OutcomeInv, IInv, TypeOK, Employed, CommandIsOwners, OwnerType,
      ConnType, AwaitGuard, Goto, Quietly, NoConn, Commands, Callbacks, Legacy, Phases, Teardown
  <1>12. CASE CreateVolume
    BY <1>0, <1>12 DEF OutcomeInv, IInv, TypeOK, Employed, CommandIsOwners, EngineType,
      CreateVolume, Quietly, Commands, Callbacks, Legacy, Phases, Teardown
  <1>13. CASE LoadProfile \/ VerifyLabel
    BY <1>0, <1>13 DEF OutcomeInv, IInv, TypeOK, Employed, CommandIsOwners, EngineType,
      LoadProfile, VerifyLabel, Quietly, Commands, Callbacks, Legacy, Phases, Teardown
  <1>14. CASE CreateContainer
    BY <1>0, <1>14 DEF OutcomeInv, IInv, TypeOK, Employed, CommandIsOwners, EngineType,
      CreateContainer, Quietly, Commands, Callbacks, Legacy, Phases, Teardown
  <1>15. CASE WriteCid
    BY <1>0, <1>15 DEF OutcomeInv, IInv, TypeOK, Employed, CommandIsOwners, FilesType,
      WriteCid, Quietly, Commands, Callbacks, Legacy, Phases, Teardown
  <1>16. CASE StopWork
    BY <1>0, <1>16, StopWorkOutcome DEF OutcomeInv, IInv, Employed, CommandIsOwners, Commands,
      Callbacks, Legacy, Phases, Teardown
  <1>17. CASE KillOwner
    BY <1>0, <1>17, KillOwnerOutcome DEF OutcomeInv, IInv, Employed, CommandIsOwners, Commands,
      Callbacks, Legacy, Phases, Teardown
  <1>18. CASE Reap
    BY <1>0, <1>18 DEF OutcomeInv, IInv, TypeOK, Employed, CommandIsOwners, OwnerType, Reap,
      Quietly, Commands, Callbacks, Legacy, Phases, Teardown
  <1>19. ASSUME NEW a \in {"guard", "owner"}, Identify(a) PROVE Employed'
    BY <1>0, <1>19, MovesOutcome DEF OutcomeInv, IInv, TypeOK, Employed, CommandIsOwners,
      FilesType, EngineType, Identify, Cleans, Place, Commands, Callbacks, Legacy, Phases,
      Teardown
  <1>20. ASSUME NEW a \in {"guard", "owner"}, Remove(a) PROVE Employed'
    BY <1>0, <1>20, MovesOutcome DEF OutcomeInv, IInv, TypeOK, Employed, CommandIsOwners,
      FilesType, EngineType, Remove, Cleans, Place, Commands, Callbacks, Legacy, Phases,
      Teardown
  <1>21. ASSUME NEW a \in {"guard", "owner"}, Absent(a) PROVE Employed'
    BY <1>0, <1>21, MovesOutcome DEF OutcomeInv, IInv, TypeOK, Employed, CommandIsOwners,
      FilesType, EngineType, Absent, Cleans, Place, Commands, Callbacks, Legacy, Phases,
      Teardown
  <1>22. ASSUME NEW a \in {"guard", "owner"}, Unload(a) PROVE Employed'
    BY <1>0, <1>22, MovesOutcome DEF OutcomeInv, IInv, TypeOK, Employed, CommandIsOwners,
      FilesType, EngineType, Unload, Cleans, Place, Commands, Callbacks, Legacy, Phases,
      Teardown
  <1>23. ASSUME NEW a \in {"guard", "owner"}, Unmake(a) PROVE Employed'
    BY <1>0, <1>23, MovesOutcome DEF OutcomeInv, IInv, TypeOK, Employed, CommandIsOwners,
      FilesType, EngineType, Unmake, Cleans, Place, Commands, Callbacks, Legacy, Phases,
      Teardown
  <1>24. ASSUME NEW a \in {"guard", "owner"}, Discard(a) PROVE Employed'
    BY <1>0, <1>24, MovesOutcome DEF OutcomeInv, IInv, TypeOK, Employed, CommandIsOwners,
      FilesType, EngineType, Discard, Cleans, Place, Commands, Callbacks, Legacy, Phases,
      Teardown
  <1>25. ASSUME NEW a \in {"guard", "owner"}, Erase(a) PROVE Employed'
    BY <1>0, <1>25, MovesOutcome DEF OutcomeInv, IInv, TypeOK, Employed, CommandIsOwners,
      FilesType, EngineType, Erase, Cleans, Place, Commands, Callbacks, Legacy, Phases, Teardown
  <1>26. ASSUME NEW a \in {"guard", "owner"}, Refuse(a) PROVE Employed'
    BY <1>0, <1>26, RefuseOutcome DEF OutcomeInv, IInv, Employed, CommandIsOwners, Place,
      Commands, Callbacks, Legacy, Phases, Teardown
  <1>27. CASE Acknowledge \/ LoseAck \/ Start \/ Announce \/ Snapshot \/ Expire \/
    ReceiveNothing \/ Receive \/ Verify \/ Bind \/ Send \/ Lease \/ Confirm \/ Finish \/
    KillGuard \/ Cancel \/ Tamper \/ Replace \/ Tick
    BY <1>0, <1>27 DEF OutcomeInv, Employed, Acknowledge, LoseAck, Start, Announce, Snapshot,
      Expire, ReceiveNothing, Receive, Verify, Bind, Send, Lease, Confirm, Finish, KillGuard,
      Cancel, Tamper, Replace, Tick
  <1>28. CASE UNCHANGED vars
    BY <1>0, <1>28 DEF vars, OutcomeInv, Employed
  <1> QED
    BY <1>1, <1>2, <1>3, <1>4, <1>5, <1>6, <1>7, <1>8, <1>9, <1>10, <1>11, <1>12, <1>13, <1>14,
      <1>15, <1>16, <1>17, <1>18, <1>19, <1>20, <1>21, <1>22, <1>23, <1>24, <1>25, <1>26,
      <1>27, <1>28 DEF Next, OwnerStep, WorkStep, GuardStep, World, Clean

LEMMA BuiltStep == OutcomeInv /\ [Next]_vars => Built'
  <1> SUFFICES ASSUME OutcomeInv, [Next]_vars PROVE Built'
    OBVIOUS
  <1>0. trouble \subseteq trouble' /\ (clock = AllOver => clock' = AllOver)
    BY Persists DEF OutcomeInv, IInv, TypeOK
  <1>1. CASE Prepare
    BY <1>0, <1>1 DEF OutcomeInv, IInv, TypeOK, Built, Employed, CommandIsOwners,
      CleansQuietly, NothingYet, Guarding, Made, OursOrReplaced, Running, NoConn, OwnerType,
      FilesType, Prepare, At, Goto, Quietly, Commands, Callbacks, Legacy, Phases, Teardown,
      Ended
  <1>2. CASE SpawnGuard
    BY <1>0, <1>2 DEF OutcomeInv, IInv, TypeOK, Built, Employed, CommandIsOwners,
      CleansQuietly, NothingYet, Guarding, Made, OursOrReplaced, Running, NoConn, OwnerType,
      GuardType, SpawnGuard, At, Goto, Quietly, Commands, Callbacks, Legacy, Phases, Teardown,
      Ended
  <1>3. CASE AwaitReady
    BY <1>0, <1>3 DEF OutcomeInv, IInv, TypeOK, Built, Employed, CommandIsOwners,
      CleansQuietly, NothingYet, Guarding, Made, OursOrReplaced, Running, NoConn, OwnerType,
      AwaitReady, At, Goto, Quietly, Commands, Callbacks, Legacy, Phases, Teardown, Ended
  <1>4. CASE StartCommand
    BY <1>0, <1>4 DEF OutcomeInv, IInv, TypeOK, Built, Employed, CommandIsOwners,
      CleansQuietly, NothingYet, Guarding, Made, OursOrReplaced, Running, NoConn, OwnerType,
      GuardType, StartCommand, At, Quietly, Commands, Callbacks, Legacy, Phases, Teardown, Ended
  <1>5. CASE CollectCommand
    BY <1>0, <1>5 DEF OutcomeInv, IInv, TypeOK, Built, Employed, CommandIsOwners,
      CleansQuietly, NothingYet, Guarding, Made, OursOrReplaced, Running, NoConn, OwnerType,
      CollectCommand, Following, Commands, Quietly, Callbacks, Legacy, Phases, Teardown, Ended
  <1>6. CASE Ask
    BY <1>0, <1>6 DEF OutcomeInv, IInv, TypeOK, Built, Employed, CommandIsOwners,
      CleansQuietly, NothingYet, Guarding, Made, OursOrReplaced, Running, NoConn, OwnerType,
      GuardType, ConnType, Ask, At, Quietly, Phases, Callbacks, Legacy, Commands, Teardown,
      Ended
  <1>7. CASE Answered
    BY <1>0, <1>7, AnsweredOutcome DEF OutcomeInv, IInv, Built, Employed, CommandIsOwners,
      CleansQuietly, NothingYet, Guarding, Made, OursOrReplaced, Running, NoConn, Commands,
      Callbacks, Legacy, Phases, Teardown, Ended
  <1>8. CASE GiveUp
    BY <1>0, <1>8, GiveUpOutcome DEF OutcomeInv, IInv, Built, Employed, CommandIsOwners,
      CleansQuietly, NothingYet, Guarding, Made, OursOrReplaced, Running, NoConn, Commands,
      Callbacks, Legacy, Phases, Teardown, Ended
  <1>9. CASE Recover
    BY <1>0, <1>9 DEF OutcomeInv, IInv, TypeOK, Built, Employed, CommandIsOwners,
      CleansQuietly, NothingYet, Guarding, Made, OursOrReplaced, Running, NoConn, OwnerType,
      Recover, At, Quietly, Commands, Callbacks, Legacy, Phases, Teardown, Ended
  <1>10. CASE AskAgain
    BY <1>0, <1>10 DEF OutcomeInv, IInv, TypeOK, Built, Employed, CommandIsOwners,
      CleansQuietly, NothingYet, Guarding, Made, OursOrReplaced, Running, NoConn, OwnerType,
      ConnType, AskAgain, At, Quietly, Commands, Callbacks, Legacy, Phases, Teardown, Ended
  <1>11. CASE AwaitGuard
    BY <1>0, <1>11 DEF OutcomeInv, IInv, TypeOK, Built, Employed, CommandIsOwners,
      CleansQuietly, NothingYet, Guarding, Made, OursOrReplaced, Running, NoConn, OwnerType,
      ConnType, AwaitGuard, Goto, Quietly, Commands, Callbacks, Legacy, Phases, Teardown, Ended
  <1>12. CASE CreateVolume
    BY <1>0, <1>12 DEF OutcomeInv, IInv, TypeOK, Built, Employed, CommandIsOwners,
      CleansQuietly, NothingYet, Guarding, Made, OursOrReplaced, Running, NoConn, EngineType,
      CreateVolume, Quietly, Commands, Callbacks, Legacy, Phases, Teardown, Ended
  <1>13. CASE LoadProfile \/ VerifyLabel
    BY <1>0, <1>13 DEF OutcomeInv, IInv, TypeOK, Built, Employed, CommandIsOwners,
      CleansQuietly, NothingYet, Guarding, Made, OursOrReplaced, Running, NoConn, EngineType,
      LoadProfile, VerifyLabel, Quietly, Commands, Callbacks, Legacy, Phases, Teardown, Ended
  <1>14. CASE CreateContainer
    BY <1>0, <1>14 DEF OutcomeInv, IInv, TypeOK, Built, Employed, CommandIsOwners,
      CleansQuietly, NothingYet, Guarding, Made, OursOrReplaced, Running, NoConn, EngineType,
      CreateContainer, Quietly, Commands, Callbacks, Legacy, Phases, Teardown, Ended
  <1>15. CASE WriteCid
    BY <1>0, <1>15 DEF OutcomeInv, IInv, TypeOK, Built, Employed, CommandIsOwners,
      CleansQuietly, NothingYet, Guarding, Made, OursOrReplaced, Running, NoConn, FilesType,
      WriteCid, Quietly, Commands, Callbacks, Legacy, Phases, Teardown, Ended
  <1>16. CASE Acknowledge
    BY <1>0, <1>16 DEF OutcomeInv, IInv, TypeOK, Built, Employed, CommandIsOwners,
      CleansQuietly, NothingYet, Guarding, Made, OursOrReplaced, Running, NoConn, ConnType,
      Acknowledge, Quietly, Callbacks, Commands, Legacy, Phases, Teardown, Ended
  <1>17. CASE LoseAck
    <2>1. /\ UNCHANGED <<owner, guard, work, files, engine>> /\ conn.at = "reply"
          /\ conn'.phase = conn.phase /\ conn'.at = "gone"
      BY <1>17 DEF OutcomeInv, IInv, TypeOK, ConnType, LoseAck
    <2> QED
      BY <1>0, <2>1 DEF OutcomeInv, Built, Guarding, Made, OursOrReplaced, NoConn
  <1>18. CASE Start
    BY <1>0, <1>18 DEF OutcomeInv, IInv, TypeOK, Built, Employed, CommandIsOwners,
      CleansQuietly, NothingYet, Guarding, Made, OursOrReplaced, Running, NoConn, GuardType,
      Start, GuardAt, Quietly, Commands, Callbacks, Legacy, Phases, Teardown, Ended
  <1>19. CASE Announce
    BY <1>0, <1>19 DEF OutcomeInv, IInv, TypeOK, Built, Employed, CommandIsOwners,
      CleansQuietly, NothingYet, Guarding, Made, OursOrReplaced, Running, NoConn, GuardType,
      FilesType, Announce, GuardAt, Quietly, Commands, Callbacks, Legacy, Phases, Teardown,
      Ended
  <1>20. CASE Snapshot
    BY <1>0, <1>20 DEF OutcomeInv, IInv, TypeOK, Built, Employed, CommandIsOwners,
      CleansQuietly, NothingYet, Guarding, Made, OursOrReplaced, Running, NoConn, GuardType,
      Snapshot, GuardAt, Quietly, Commands, Callbacks, Legacy, Phases, Teardown, Ended
  <1>21. CASE Expire
    BY <1>0, <1>21 DEF OutcomeInv, IInv, TypeOK, Built, Employed, CommandIsOwners,
      CleansQuietly, NothingYet, Guarding, Made, OursOrReplaced, Running, NoConn, GuardType,
      Expire, GuardAt, Leave, Quietly, Commands, Callbacks, Legacy, Phases, Teardown, Ended
  <1>22. CASE ReceiveNothing
    BY <1>0, <1>22 DEF OutcomeInv, IInv, TypeOK, Built, Employed, CommandIsOwners,
      CleansQuietly, NothingYet, Guarding, Made, OursOrReplaced, Running, NoConn, GuardType,
      ConnType, ReceiveNothing, GuardAt, Leave, Quietly, Commands, Callbacks, Legacy, Phases,
      Teardown, Ended
  <1>23. CASE Receive
    BY <1>0, <1>23, ReceiveOutcome DEF OutcomeInv, IInv, Built, Employed, CommandIsOwners,
      CleansQuietly, NothingYet, Guarding, Made, OursOrReplaced, Running, NoConn, Commands,
      Callbacks, Legacy, Phases, Teardown, Ended
  <1>24. CASE Verify
    BY <1>0, <1>24, VerifyOutcome DEF OutcomeInv, IInv, Built, Employed, CommandIsOwners,
      CleansQuietly, NothingYet, Guarding, Made, OursOrReplaced, Running, NoConn, Commands,
      Callbacks, Legacy, Phases, Teardown, Ended
  <1>25. CASE Bind
    BY <1>0, <1>25 DEF OutcomeInv, IInv, TypeOK, Built, Employed, CommandIsOwners,
      CleansQuietly, NothingYet, Guarding, Made, OursOrReplaced, Running, NoConn, GuardType,
      FilesType, Bind, GuardAt, Quietly, Commands, Callbacks, Legacy, Phases, Teardown, Ended
  <1>26. CASE Send
    BY <1>0, <1>26, SendOutcome DEF OutcomeInv, IInv, Built, Employed, CommandIsOwners,
      CleansQuietly, NothingYet, Guarding, Made, OursOrReplaced, Running, NoConn, Commands,
      Callbacks, Legacy, Phases, Teardown, Ended
  <1>27. CASE Lease
    BY <1>0, <1>27, LeaseOutcome DEF OutcomeInv, IInv, Built, Employed, CommandIsOwners,
      CleansQuietly, NothingYet, Guarding, Made, OursOrReplaced, Running, NoConn, Commands,
      Callbacks, Legacy, Phases, Teardown, Ended
  <1>28. CASE Confirm
    BY <1>0, <1>28, ConfirmOutcome DEF OutcomeInv, IInv, Built, Employed, CommandIsOwners,
      CleansQuietly, NothingYet, Guarding, Made, OursOrReplaced, Running, NoConn, Commands,
      Callbacks, Legacy, Phases, Teardown, Ended
  <1>29. CASE StopWork
    BY <1>0, <1>29, StopWorkOutcome DEF OutcomeInv, IInv, Built, Employed, CommandIsOwners,
      CleansQuietly, NothingYet, Guarding, Made, OursOrReplaced, Running, NoConn, Commands,
      Callbacks, Legacy, Phases, Teardown, Ended
  <1>30. CASE Finish
    BY <1>0, <1>30, FinishOutcome DEF OutcomeInv, IInv, Built, Employed, CommandIsOwners,
      CleansQuietly, NothingYet, Guarding, Made, OursOrReplaced, Running, NoConn, Commands,
      Callbacks, Legacy, Phases, Teardown, Ended
  <1>31. CASE KillOwner
    BY <1>0, <1>31, KillOwnerOutcome DEF OutcomeInv, IInv, Built, Employed, CommandIsOwners,
      CleansQuietly, NothingYet, Guarding, Made, OursOrReplaced, Running, NoConn, Commands,
      Callbacks, Legacy, Phases, Teardown, Ended
  <1>32. CASE Reap
    BY <1>0, <1>32 DEF OutcomeInv, IInv, TypeOK, Built, Employed, CommandIsOwners,
      CleansQuietly, NothingYet, Guarding, Made, OursOrReplaced, Running, NoConn, OwnerType,
      Reap, Quietly, Commands, Callbacks, Legacy, Phases, Teardown, Ended
  <1>33. CASE KillGuard
    BY <1>0, <1>33 DEF OutcomeInv, IInv, TypeOK, Built, Employed, CommandIsOwners,
      CleansQuietly, NothingYet, Guarding, Made, OursOrReplaced, Running, NoConn, GuardType,
      ConnType, KillGuard, Happens, ClosedLease, Commands, Callbacks, Legacy, Phases, Teardown,
      Ended
  <1>34. CASE Cancel
    BY <1>0, <1>34 DEF OutcomeInv, IInv, TypeOK, Built, Employed, CommandIsOwners,
      CleansQuietly, NothingYet, Guarding, Made, OursOrReplaced, Running, NoConn, GuardType,
      Cancel, Happens, Commands, Callbacks, Legacy, Phases, Teardown, Ended
  <1>35. CASE Replace
    BY <1>0, <1>35 DEF OutcomeInv, IInv, TypeOK, Built, Employed, CommandIsOwners,
      CleansQuietly, NothingYet, Guarding, Made, OursOrReplaced, Running, NoConn, EngineType,
      Replace, Happens, Commands, Callbacks, Legacy, Phases, Teardown, Ended
  <1>36. ASSUME NEW a \in {"guard", "owner"}, Identify(a) PROVE Built'
    BY <1>0, <1>36, MovesOutcome DEF OutcomeInv, IInv, TypeOK, Built, Employed,
      CommandIsOwners, CleansQuietly, NothingYet, Guarding, Made, OursOrReplaced, Running,
      NoConn, FilesType, EngineType, Identify, Cleans, Place, Commands, Callbacks, Legacy,
      Phases, Teardown, Ended
  <1>37. ASSUME NEW a \in {"guard", "owner"}, Remove(a) PROVE Built'
    BY <1>0, <1>37, MovesOutcome DEF OutcomeInv, IInv, TypeOK, Built, Employed,
      CommandIsOwners, CleansQuietly, NothingYet, Guarding, Made, OursOrReplaced, Running,
      NoConn, FilesType, EngineType, Remove, Cleans, Place, Commands, Callbacks, Legacy,
      Phases, Teardown, Ended
  <1>38. ASSUME NEW a \in {"guard", "owner"}, Absent(a) PROVE Built'
    BY <1>0, <1>38, MovesOutcome DEF OutcomeInv, IInv, TypeOK, Built, Employed,
      CommandIsOwners, CleansQuietly, NothingYet, Guarding, Made, OursOrReplaced, Running,
      NoConn, FilesType, EngineType, Absent, Cleans, Place, Commands, Callbacks, Legacy,
      Phases, Teardown, Ended
  <1>39. ASSUME NEW a \in {"guard", "owner"}, Unload(a) PROVE Built'
    BY <1>0, <1>39, MovesOutcome DEF OutcomeInv, IInv, TypeOK, Built, Employed,
      CommandIsOwners, CleansQuietly, NothingYet, Guarding, Made, OursOrReplaced, Running,
      NoConn, FilesType, EngineType, Unload, Cleans, Place, Commands, Callbacks, Legacy,
      Phases, Teardown, Ended
  <1>40. ASSUME NEW a \in {"guard", "owner"}, Unmake(a) PROVE Built'
    BY <1>0, <1>40, MovesOutcome DEF OutcomeInv, IInv, TypeOK, Built, Employed,
      CommandIsOwners, CleansQuietly, NothingYet, Guarding, Made, OursOrReplaced, Running,
      NoConn, FilesType, EngineType, Unmake, Cleans, Place, Commands, Callbacks, Legacy,
      Phases, Teardown, Ended
  <1>41. ASSUME NEW a \in {"guard", "owner"}, Discard(a) PROVE Built'
    BY <1>0, <1>41, MovesOutcome DEF OutcomeInv, IInv, TypeOK, Built, Employed,
      CommandIsOwners, CleansQuietly, NothingYet, Guarding, Made, OursOrReplaced, Running,
      NoConn, FilesType, EngineType, Discard, Cleans, Place, Commands, Callbacks, Legacy,
      Phases, Teardown, Ended
  <1>42. ASSUME NEW a \in {"guard", "owner"}, Erase(a) PROVE Built'
    BY <1>0, <1>42, MovesOutcome DEF OutcomeInv, IInv, TypeOK, Built, Employed,
      CommandIsOwners, CleansQuietly, NothingYet, Guarding, Made, OursOrReplaced, Running,
      NoConn, FilesType, EngineType, Erase, Cleans, Place, Commands, Callbacks, Legacy, Phases,
      Teardown, Ended
  <1>43. ASSUME NEW a \in {"guard", "owner"}, Refuse(a) PROVE Built'
    BY <1>0, <1>43, RefuseOutcome DEF OutcomeInv, IInv, Built, Employed, CommandIsOwners,
      CleansQuietly, NothingYet, Guarding, Made, OursOrReplaced, Running, NoConn, Commands,
      Callbacks, Legacy, Phases, Teardown, Ended
  <1>44. CASE Tamper \/ Tick
    BY <1>0, <1>44 DEF OutcomeInv, Built, Guarding, Made, OursOrReplaced, Running, NoConn,
      Tamper, Tick
  <1>45. CASE UNCHANGED vars
    BY <1>0, <1>45 DEF vars, OutcomeInv, Built, Guarding, Made, OursOrReplaced, Running, NoConn
  <1> QED
    BY <1>1, <1>2, <1>3, <1>4, <1>5, <1>6, <1>7, <1>8, <1>9, <1>10, <1>11, <1>12, <1>13, <1>14,
      <1>15, <1>16, <1>17, <1>18, <1>19, <1>20, <1>21, <1>22, <1>23, <1>24, <1>25, <1>26,
      <1>27, <1>28, <1>29, <1>30, <1>31, <1>32, <1>33, <1>34, <1>35, <1>36, <1>37, <1>38,
      <1>39, <1>40, <1>41, <1>42, <1>43, <1>44, <1>45 DEF Next, OwnerStep, WorkStep, GuardStep,
      World, Clean

LEMMA BoundStep == OutcomeInv /\ [Next]_vars => Bound'
  <1> SUFFICES ASSUME OutcomeInv, [Next]_vars PROVE Bound'
    OBVIOUS
  <1>0. trouble \subseteq trouble' /\ (clock = AllOver => clock' = AllOver)
    BY Persists DEF OutcomeInv, IInv, TypeOK
  <1>1. CASE Prepare
    BY <1>0, <1>1 DEF OutcomeInv, IInv, TypeOK, Bound, Built, CleansQuietly, CommandIsOwners,
      Stage, NothingYet, Cleared, Settled, Guarding, Made, OwnerLive, AfterClosure, Running,
      OwnerType, FilesType, Prepare, At, Goto, Quietly, Commands, Callbacks, Legacy, Phases,
      Teardown, Ended
  <1>2. CASE SpawnGuard
    BY <1>0, <1>2 DEF OutcomeInv, IInv, TypeOK, Bound, Built, CleansQuietly, CommandIsOwners,
      Stage, NothingYet, Cleared, Settled, Guarding, Made, OwnerLive, AfterClosure, Running,
      OwnerType, GuardType, SpawnGuard, At, Goto, Quietly, Commands, Callbacks, Legacy, Phases,
      Teardown, Ended
  <1>3. CASE AwaitReady
    BY <1>0, <1>3 DEF OutcomeInv, IInv, TypeOK, Bound, Built, CleansQuietly, CommandIsOwners,
      Stage, NothingYet, Cleared, Settled, Guarding, Made, OwnerLive, AfterClosure, Running,
      OwnerType, AwaitReady, At, Goto, Quietly, Commands, Callbacks, Legacy, Phases, Teardown,
      Ended
  <1>4. CASE StartCommand
    BY <1>0, <1>4 DEF OutcomeInv, IInv, TypeOK, Bound, Built, CleansQuietly, CommandIsOwners,
      Stage, NothingYet, Cleared, Settled, Guarding, Made, OwnerLive, AfterClosure, Running,
      OwnerType, GuardType, StartCommand, At, Quietly, Commands, Callbacks, Legacy, Phases,
      Teardown, Ended
  <1>5. CASE CollectCommand
    BY <1>0, <1>5 DEF OutcomeInv, IInv, TypeOK, Bound, Built, CleansQuietly, CommandIsOwners,
      Stage, NothingYet, Cleared, Settled, Guarding, Made, OwnerLive, AfterClosure, Running,
      OwnerType, CollectCommand, Following, Commands, Quietly, Callbacks, Legacy, Phases,
      Teardown, Ended
  <1>6. CASE Ask
    BY <1>0, <1>6 DEF OutcomeInv, IInv, TypeOK, Bound, Built, CleansQuietly, CommandIsOwners,
      Stage, NothingYet, Cleared, Settled, Guarding, Made, OwnerLive, AfterClosure, Running,
      OwnerType, GuardType, ConnType, Ask, At, Quietly, Phases, Callbacks, Legacy, Commands,
      Teardown, Ended
  <1>7. CASE Answered
    BY <1>0, <1>7, AnsweredOutcome DEF OutcomeInv, IInv, Bound, Built, CleansQuietly,
      CommandIsOwners, Stage, NothingYet, Cleared, Settled, Guarding, Made, OwnerLive,
      AfterClosure, Running, Commands, Callbacks, Legacy, Phases, Teardown, Ended
  <1>8. CASE GiveUp
    BY <1>0, <1>8, GiveUpOutcome DEF OutcomeInv, IInv, Bound, Built, CleansQuietly,
      CommandIsOwners, Stage, NothingYet, Cleared, Settled, Guarding, Made, OwnerLive,
      AfterClosure, Running, Commands, Callbacks, Legacy, Phases, Teardown, Ended
  <1>9. CASE Recover
    BY <1>0, <1>9 DEF OutcomeInv, IInv, TypeOK, Bound, Built, CleansQuietly, CommandIsOwners,
      Stage, NothingYet, Cleared, Settled, Guarding, Made, OwnerLive, AfterClosure, Running,
      OwnerType, Recover, At, Quietly, Commands, Callbacks, Legacy, Phases, Teardown, Ended
  <1>10. CASE AskAgain
    BY <1>0, <1>10 DEF OutcomeInv, IInv, TypeOK, Bound, Built, CleansQuietly, CommandIsOwners,
      Stage, NothingYet, Cleared, Settled, Guarding, Made, OwnerLive, AfterClosure, Running,
      OwnerType, ConnType, AskAgain, At, Quietly, Commands, Callbacks, Legacy, Phases,
      Teardown, Ended
  <1>11. CASE AwaitGuard
    BY <1>0, <1>11 DEF OutcomeInv, IInv, TypeOK, Bound, Built, CleansQuietly, CommandIsOwners,
      Stage, NothingYet, Cleared, Settled, Guarding, Made, OwnerLive, AfterClosure, Running,
      OwnerType, ConnType, AwaitGuard, Goto, Quietly, NoConn, Commands, Callbacks, Legacy,
      Phases, Teardown, Ended
  <1>12. CASE CreateVolume
    BY <1>0, <1>12 DEF OutcomeInv, IInv, TypeOK, Bound, Built, CleansQuietly, CommandIsOwners,
      Stage, NothingYet, Cleared, Settled, Guarding, Made, OwnerLive, AfterClosure, Running,
      EngineType, CreateVolume, Quietly, Commands, Callbacks, Legacy, Phases, Teardown, Ended
  <1>13. CASE LoadProfile \/ VerifyLabel
    BY <1>0, <1>13 DEF OutcomeInv, IInv, TypeOK, Bound, Built, CleansQuietly, CommandIsOwners,
      Stage, NothingYet, Cleared, Settled, Guarding, Made, OwnerLive, AfterClosure, Running,
      EngineType, LoadProfile, VerifyLabel, Quietly, Commands, Callbacks, Legacy, Phases,
        Teardown, Ended
  <1>14. CASE CreateContainer
    BY <1>0, <1>14 DEF OutcomeInv, IInv, TypeOK, Bound, Built, CleansQuietly, CommandIsOwners,
      Stage, NothingYet, Cleared, Settled, Guarding, Made, OwnerLive, AfterClosure, Running,
      EngineType, CreateContainer, Quietly, Commands, Callbacks, Legacy, Phases, Teardown, Ended
  <1>15. CASE WriteCid
    BY <1>0, <1>15 DEF OutcomeInv, IInv, TypeOK, Bound, Built, CleansQuietly, CommandIsOwners,
      Stage, NothingYet, Cleared, Settled, Guarding, Made, OwnerLive, AfterClosure, Running,
      FilesType, WriteCid, Quietly, Commands, Callbacks, Legacy, Phases, Teardown, Ended
  <1>16. CASE Start
    BY <1>0, <1>16 DEF OutcomeInv, IInv, TypeOK, Bound, Built, CleansQuietly, CommandIsOwners,
      Stage, NothingYet, Cleared, Settled, Guarding, Made, OwnerLive, AfterClosure, Running,
      GuardType, Start, GuardAt, Quietly, Commands, Callbacks, Legacy, Phases, Teardown, Ended
  <1>17. CASE Announce
    BY <1>0, <1>17 DEF OutcomeInv, IInv, TypeOK, Bound, Built, CleansQuietly, CommandIsOwners,
      Stage, NothingYet, Cleared, Settled, Guarding, Made, OwnerLive, AfterClosure, Running,
      GuardType, FilesType, Announce, GuardAt, Quietly, Commands, Callbacks, Legacy, Phases,
      Teardown, Ended
  <1>18. CASE Snapshot
    BY <1>0, <1>18 DEF OutcomeInv, IInv, TypeOK, Bound, Built, CleansQuietly, CommandIsOwners,
      Stage, NothingYet, Cleared, Settled, Guarding, Made, OwnerLive, AfterClosure, Running,
      GuardType, Snapshot, GuardAt, Quietly, Commands, Callbacks, Legacy, Phases, Teardown,
      Ended
  <1>19. CASE Expire
    BY <1>0, <1>19 DEF OutcomeInv, IInv, TypeOK, Bound, Built, CleansQuietly, CommandIsOwners,
      Stage, NothingYet, Cleared, Settled, Guarding, Made, OwnerLive, AfterClosure, Running,
      GuardType, Expire, GuardAt, Leave, Quietly, Commands, Callbacks, Legacy, Phases,
      Teardown, Ended
  <1>20. CASE ReceiveNothing
    BY <1>0, <1>20 DEF OutcomeInv, IInv, TypeOK, Bound, Built, CleansQuietly, CommandIsOwners,
      Stage, NothingYet, Cleared, Settled, Guarding, Made, OwnerLive, AfterClosure, Running,
      GuardType, ConnType, ReceiveNothing, GuardAt, Leave, Quietly, NoConn, Commands,
      Callbacks, Legacy, Phases, Teardown, Ended
  <1>21. CASE Receive
    BY <1>0, <1>21, ReceiveOutcome DEF OutcomeInv, IInv, Bound, Built, CleansQuietly,
      CommandIsOwners, Stage, NothingYet, Cleared, Settled, Guarding, Made, OwnerLive,
      AfterClosure, Running, Commands, Callbacks, Legacy, Phases, Teardown, Ended
  <1>22. CASE Verify
    BY <1>0, <1>22, VerifyOutcome DEF OutcomeInv, IInv, Bound, Built, CleansQuietly,
      CommandIsOwners, Stage, NothingYet, Cleared, Settled, Guarding, Made, OwnerLive,
      AfterClosure, Running, Commands, Callbacks, Legacy, Phases, Teardown, Ended
  <1>23. CASE Bind
    BY <1>0, <1>23 DEF OutcomeInv, IInv, TypeOK, Bound, Built, CleansQuietly, CommandIsOwners,
      Stage, NothingYet, Cleared, Settled, Guarding, Made, OwnerLive, AfterClosure, Running,
      GuardType, FilesType, Bind, GuardAt, Quietly, Commands, Callbacks, Legacy, Phases,
      Teardown, Ended
  <1>24. CASE Send
    BY <1>0, <1>24, SendOutcome DEF OutcomeInv, IInv, Bound, Built, CleansQuietly,
      CommandIsOwners, Stage, NothingYet, Cleared, Settled, Guarding, Made, OwnerLive,
      AfterClosure, Running, Commands, Callbacks, Legacy, Phases, Teardown, Ended
  <1>25. CASE Lease
    BY <1>0, <1>25, LeaseOutcome DEF OutcomeInv, IInv, Bound, Built, CleansQuietly,
      CommandIsOwners, Stage, NothingYet, Cleared, Settled, Guarding, Made, OwnerLive,
      AfterClosure, Running, Commands, Callbacks, Legacy, Phases, Teardown, Ended
  <1>26. CASE Confirm
    BY <1>0, <1>26, ConfirmOutcome DEF OutcomeInv, IInv, Bound, Built, CleansQuietly,
      CommandIsOwners, Stage, NothingYet, Cleared, Settled, Guarding, Made, OwnerLive,
      AfterClosure, Running, Commands, Callbacks, Legacy, Phases, Teardown, Ended
  <1>27. CASE StopWork
    BY <1>0, <1>27, StopWorkOutcome DEF OutcomeInv, IInv, Bound, Built, CleansQuietly,
      CommandIsOwners, Stage, NothingYet, Cleared, Settled, Guarding, Made, OwnerLive,
      AfterClosure, Running, Commands, Callbacks, Legacy, Phases, Teardown, Ended
  <1>28. CASE Finish
    BY <1>0, <1>28, FinishOutcome DEF OutcomeInv, IInv, Bound, Built, CleansQuietly,
      CommandIsOwners, Stage, NothingYet, Cleared, Settled, Guarding, Made, OwnerLive,
      AfterClosure, Running, Commands, Callbacks, Legacy, Phases, Teardown, Ended
  <1>29. CASE KillOwner
    BY <1>0, <1>29, KillOwnerOutcome DEF OutcomeInv, IInv, Bound, Built, CleansQuietly,
      CommandIsOwners, Stage, NothingYet, Cleared, Settled, Guarding, Made, OwnerLive,
      AfterClosure, Running, Commands, Callbacks, Legacy, Phases, Teardown, Ended
  <1>30. CASE Reap
    BY <1>0, <1>30 DEF OutcomeInv, IInv, TypeOK, Bound, Built, CleansQuietly, CommandIsOwners,
      Stage, NothingYet, Cleared, Settled, Guarding, Made, OwnerLive, AfterClosure, Running,
      OwnerType, Reap, Quietly, Commands, Callbacks, Legacy, Phases, Teardown, Ended
  <1>31. CASE KillGuard
    BY <1>0, <1>31 DEF OutcomeInv, IInv, TypeOK, Bound, Built, CleansQuietly, CommandIsOwners,
      Stage, NothingYet, Cleared, Settled, Guarding, Made, OwnerLive, AfterClosure, Running,
      GuardType, ConnType, KillGuard, Happens, ClosedLease, Commands, Callbacks, Legacy,
      Phases, Teardown, Ended
  <1>32. CASE Cancel
    BY <1>0, <1>32 DEF OutcomeInv, IInv, TypeOK, Bound, Built, CleansQuietly, CommandIsOwners,
      Stage, NothingYet, Cleared, Settled, Guarding, Made, OwnerLive, AfterClosure, Running,
      GuardType, Cancel, Happens, Commands, Callbacks, Legacy, Phases, Teardown, Ended
  <1>33. CASE Replace
    BY <1>0, <1>33 DEF OutcomeInv, IInv, TypeOK, Bound, Built, CleansQuietly, CommandIsOwners,
      Stage, NothingYet, Cleared, Settled, Guarding, Made, OwnerLive, AfterClosure, Running,
      EngineType, Replace, Happens, Commands, Callbacks, Legacy, Phases, Teardown, Ended
  <1>34. ASSUME NEW a \in {"guard", "owner"}, Identify(a) PROVE Bound'
    BY <1>0, <1>34, MovesOutcome DEF OutcomeInv, IInv, TypeOK, Bound, Built, CleansQuietly,
      CommandIsOwners, Stage, NothingYet, Cleared, Settled, Guarding, Made, OwnerLive,
      AfterClosure, Running, FilesType, EngineType, Identify, Cleans, Place, Commands,
      Callbacks, Legacy, Phases, Teardown, Ended
  <1>35. ASSUME NEW a \in {"guard", "owner"}, Remove(a) PROVE Bound'
    BY <1>0, <1>35, MovesOutcome DEF OutcomeInv, IInv, TypeOK, Bound, Built, CleansQuietly,
      CommandIsOwners, Stage, NothingYet, Cleared, Settled, Guarding, Made, OwnerLive,
      AfterClosure, Running, FilesType, EngineType, Remove, Cleans, Place, Commands, Callbacks,
      Legacy, Phases, Teardown, Ended
  <1>36. ASSUME NEW a \in {"guard", "owner"}, Absent(a) PROVE Bound'
    BY <1>0, <1>36, MovesOutcome DEF OutcomeInv, IInv, TypeOK, Bound, Built, CleansQuietly,
      CommandIsOwners, Stage, NothingYet, Cleared, Settled, Guarding, Made, OwnerLive,
      AfterClosure, Running, FilesType, EngineType, Absent, Cleans, Place, Commands, Callbacks,
      Legacy, Phases, Teardown, Ended
  <1>37. ASSUME NEW a \in {"guard", "owner"}, Unload(a) PROVE Bound'
    BY <1>0, <1>37, MovesOutcome DEF OutcomeInv, IInv, TypeOK, Bound, Built, CleansQuietly,
      CommandIsOwners, Stage, NothingYet, Cleared, Settled, Guarding, Made, OwnerLive,
      AfterClosure, Running, FilesType, EngineType, Unload, Cleans, Place, Commands, Callbacks,
      Legacy, Phases, Teardown, Ended
  <1>38. ASSUME NEW a \in {"guard", "owner"}, Unmake(a) PROVE Bound'
    BY <1>0, <1>38, MovesOutcome DEF OutcomeInv, IInv, TypeOK, Bound, Built, CleansQuietly,
      CommandIsOwners, Stage, NothingYet, Cleared, Settled, Guarding, Made, OwnerLive,
      AfterClosure, Running, FilesType, EngineType, Unmake, Cleans, Place, Commands, Callbacks,
      Legacy, Phases, Teardown, Ended
  <1>39. ASSUME NEW a \in {"guard", "owner"}, Discard(a) PROVE Bound'
    BY <1>0, <1>39, MovesOutcome DEF OutcomeInv, IInv, TypeOK, Bound, Built, CleansQuietly,
      CommandIsOwners, Stage, NothingYet, Cleared, Settled, Guarding, Made, OwnerLive,
      AfterClosure, Running, FilesType, EngineType, Discard, Cleans, Place, Commands,
      Callbacks, Legacy, Phases, Teardown, Ended
  <1>40. ASSUME NEW a \in {"guard", "owner"}, Erase(a) PROVE Bound'
    BY <1>0, <1>40, MovesOutcome DEF OutcomeInv, IInv, TypeOK, Bound, Built, CleansQuietly,
      CommandIsOwners, Stage, NothingYet, Cleared, Settled, Guarding, Made, OwnerLive,
      AfterClosure, Running, FilesType, EngineType, Erase, Cleans, Place, Commands, Callbacks,
      Legacy, Phases, Teardown, Ended
  <1>41. ASSUME NEW a \in {"guard", "owner"}, Refuse(a) PROVE Bound'
    BY <1>0, <1>41, RefuseOutcome DEF OutcomeInv, IInv, Bound, Built, CleansQuietly,
      CommandIsOwners, Stage, NothingYet, Cleared, Settled, Guarding, Made, OwnerLive,
      AfterClosure, Running, Commands, Callbacks, Legacy, Phases, Teardown, Ended
  <1>42. CASE Acknowledge \/ LoseAck \/ Tamper \/ Tick
    BY <1>0, <1>42 DEF OutcomeInv, Bound, Cleared, Settled, Guarding, Made, OwnerLive,
      AfterClosure, Running, Acknowledge, LoseAck, Tamper, Tick
  <1>43. CASE UNCHANGED vars
    BY <1>0, <1>43 DEF vars, OutcomeInv, Bound, Cleared, Settled, Guarding, Made, OwnerLive,
      AfterClosure, Running
  <1> QED
    BY <1>1, <1>2, <1>3, <1>4, <1>5, <1>6, <1>7, <1>8, <1>9, <1>10, <1>11, <1>12, <1>13, <1>14,
      <1>15, <1>16, <1>17, <1>18, <1>19, <1>20, <1>21, <1>22, <1>23, <1>24, <1>25, <1>26,
      <1>27, <1>28, <1>29, <1>30, <1>31, <1>32, <1>33, <1>34, <1>35, <1>36, <1>37, <1>38,
      <1>39, <1>40, <1>41, <1>42, <1>43 DEF Next, OwnerStep, WorkStep, GuardStep, World, Clean

\* A cleaner works where nothing can be made any more.
LEMMA CleanersSettle ==
  ASSUME OutcomeInv, NEW a \in {"guard", "owner"}, Place(a) \in Teardown
  PROVE  Settled /\ Stage(Place(a))
  BY DEF OutcomeInv, IInv, CleansQuietly, CommandIsOwners, Settled, Place, AfterClosure,
    Teardown, Commands

LEMMA StackedStep == OutcomeInv /\ [Next]_vars => Stacked'
  <1> SUFFICES ASSUME OutcomeInv, [Next]_vars PROVE Stacked'
    OBVIOUS
  <1>0. trouble \subseteq trouble' /\ (clock = AllOver => clock' = AllOver)
    BY Persists DEF OutcomeInv, IInv, TypeOK
  <1>1. CASE Prepare
    BY <1>0, <1>1 DEF OutcomeInv, IInv, TypeOK, Stacked, Employed, CommandIsOwners,
      CleansQuietly, ClosureWasAsked, Running, Settled, OwnerLive, AfterClosure, BeforeClosure,
      OwnerType, FilesType, Prepare, At, Goto, Quietly, Commands, Callbacks, Legacy, Phases,
      Teardown, Ended
  <1>2. CASE SpawnGuard
    BY <1>0, <1>2 DEF OutcomeInv, IInv, TypeOK, Stacked, Employed, CommandIsOwners,
      CleansQuietly, ClosureWasAsked, Running, Settled, OwnerLive, AfterClosure, BeforeClosure,
      OwnerType, GuardType, SpawnGuard, At, Goto, Quietly, Commands, Callbacks, Legacy, Phases,
      Teardown, Ended
  <1>3. CASE AwaitReady
    BY <1>0, <1>3 DEF OutcomeInv, IInv, TypeOK, Stacked, Employed, CommandIsOwners,
      CleansQuietly, ClosureWasAsked, Running, Settled, OwnerLive, AfterClosure, BeforeClosure,
      OwnerType, AwaitReady, At, Goto, Quietly, Commands, Callbacks, Legacy, Phases, Teardown,
      Ended
  <1>4. CASE StartCommand
    BY <1>0, <1>4 DEF OutcomeInv, IInv, TypeOK, Stacked, Employed, CommandIsOwners,
      CleansQuietly, ClosureWasAsked, Running, Settled, OwnerLive, AfterClosure, BeforeClosure,
      OwnerType, GuardType, StartCommand, At, Quietly, Commands, Callbacks, Legacy, Phases,
      Teardown, Ended
  <1>5. CASE CollectCommand
    BY <1>0, <1>5 DEF OutcomeInv, IInv, TypeOK, Stacked, Employed, CommandIsOwners,
      CleansQuietly, ClosureWasAsked, Running, Settled, OwnerLive, AfterClosure, BeforeClosure,
      OwnerType, CollectCommand, Following, Commands, Quietly, Callbacks, Legacy, Phases,
      Teardown, Ended
  <1>6. CASE Ask
    BY <1>0, <1>6 DEF OutcomeInv, IInv, TypeOK, Stacked, Employed, CommandIsOwners,
      CleansQuietly, ClosureWasAsked, Running, Settled, OwnerLive, AfterClosure, BeforeClosure,
      OwnerType, GuardType, ConnType, Ask, At, Quietly, Phases, Callbacks, Legacy, Commands,
      Teardown, Ended
  <1>7. CASE Answered
    BY <1>0, <1>7, AnsweredOutcome DEF OutcomeInv, IInv, Stacked, Employed, CommandIsOwners,
      CleansQuietly, ClosureWasAsked, Running, Settled, OwnerLive, AfterClosure, BeforeClosure,
      Commands, Callbacks, Legacy, Phases, Teardown, Ended
  <1>8. CASE GiveUp
    BY <1>0, <1>8, GiveUpOutcome DEF OutcomeInv, IInv, Stacked, Employed, CommandIsOwners,
      CleansQuietly, ClosureWasAsked, Running, Settled, OwnerLive, AfterClosure, BeforeClosure,
      Commands, Callbacks, Legacy, Phases, Teardown, Ended
  <1>9. CASE Recover
    BY <1>0, <1>9 DEF OutcomeInv, IInv, TypeOK, Stacked, Employed, CommandIsOwners,
      CleansQuietly, ClosureWasAsked, Running, Settled, OwnerLive, AfterClosure, BeforeClosure,
      OwnerType, Recover, At, Quietly, Commands, Callbacks, Legacy, Phases, Teardown, Ended
  <1>10. CASE AskAgain
    BY <1>0, <1>10 DEF OutcomeInv, IInv, TypeOK, Stacked, Employed, CommandIsOwners,
      CleansQuietly, ClosureWasAsked, Running, Settled, OwnerLive, AfterClosure, BeforeClosure,
      OwnerType, ConnType, AskAgain, At, Quietly, Commands, Callbacks, Legacy, Phases,
      Teardown, Ended
  <1>11. CASE AwaitGuard
    BY <1>0, <1>11 DEF OutcomeInv, IInv, TypeOK, Stacked, Employed, CommandIsOwners,
      CleansQuietly, ClosureWasAsked, Running, Settled, OwnerLive, AfterClosure, BeforeClosure,
      OwnerType, ConnType, AwaitGuard, Goto, Quietly, NoConn, Commands, Callbacks, Legacy,
      Phases, Teardown, Ended
  <1>12. CASE CreateVolume
    BY <1>0, <1>12 DEF OutcomeInv, IInv, TypeOK, Stacked, Employed, CommandIsOwners,
      CleansQuietly, ClosureWasAsked, Running, Settled, OwnerLive, AfterClosure, BeforeClosure,
      EngineType, CreateVolume, Quietly, Commands, Callbacks, Legacy, Phases, Teardown, Ended
  <1>13. CASE LoadProfile \/ VerifyLabel
    BY <1>0, <1>13 DEF OutcomeInv, IInv, TypeOK, Stacked, Employed, CommandIsOwners,
      CleansQuietly, ClosureWasAsked, Running, Settled, OwnerLive, AfterClosure, BeforeClosure,
      EngineType, LoadProfile, VerifyLabel, Quietly, Commands, Callbacks, Legacy, Phases,
        Teardown, Ended
  <1>14. CASE CreateContainer
    BY <1>0, <1>14 DEF OutcomeInv, IInv, TypeOK, Stacked, Employed, CommandIsOwners,
      CleansQuietly, ClosureWasAsked, Running, Settled, OwnerLive, AfterClosure, BeforeClosure,
      EngineType, CreateContainer, Quietly, Commands, Callbacks, Legacy, Phases, Teardown, Ended
  <1>15. CASE WriteCid
    BY <1>0, <1>15 DEF OutcomeInv, IInv, TypeOK, Stacked, Employed, CommandIsOwners,
      CleansQuietly, ClosureWasAsked, Running, Settled, OwnerLive, AfterClosure, BeforeClosure,
      FilesType, WriteCid, Quietly, Commands, Callbacks, Legacy, Phases, Teardown, Ended
  <1>16. CASE StopWork
    BY <1>0, <1>16, StopWorkOutcome DEF OutcomeInv, IInv, Stacked, Employed, CommandIsOwners,
      CleansQuietly, ClosureWasAsked, Running, Settled, OwnerLive, AfterClosure, BeforeClosure,
      Commands, Callbacks, Legacy, Phases, Teardown, Ended
  <1>17. CASE KillOwner
    BY <1>0, <1>17, KillOwnerOutcome DEF OutcomeInv, IInv, Stacked, Employed, CommandIsOwners,
      CleansQuietly, ClosureWasAsked, Running, Settled, OwnerLive, AfterClosure, BeforeClosure,
      Commands, Callbacks, Legacy, Phases, Teardown, Ended
  <1>18. CASE Reap
    BY <1>0, <1>18 DEF OutcomeInv, IInv, TypeOK, Stacked, Employed, CommandIsOwners,
      CleansQuietly, ClosureWasAsked, Running, Settled, OwnerLive, AfterClosure, BeforeClosure,
      OwnerType, Reap, Quietly, Commands, Callbacks, Legacy, Phases, Teardown, Ended
  <1>19. CASE Replace
    BY <1>0, <1>19 DEF OutcomeInv, IInv, TypeOK, Stacked, Employed, CommandIsOwners,
      CleansQuietly, ClosureWasAsked, Running, Settled, OwnerLive, AfterClosure, BeforeClosure,
      EngineType, Replace, Happens, Commands, Callbacks, Legacy, Phases, Teardown, Ended
  <1>20. ASSUME NEW a \in {"guard", "owner"}, Identify(a) PROVE Stacked'
    BY <1>0, <1>20, MovesOutcome DEF OutcomeInv, IInv, TypeOK, Stacked, Employed,
      CommandIsOwners, CleansQuietly, ClosureWasAsked, Running, Settled, OwnerLive,
      AfterClosure, BeforeClosure, FilesType, EngineType, Identify, Cleans, Place, Commands,
      Callbacks, Legacy, Phases, Teardown, Ended
  <1>21. ASSUME NEW a \in {"guard", "owner"}, Remove(a) PROVE Stacked'
    BY <1>0, <1>21, MovesOutcome DEF OutcomeInv, IInv, TypeOK, Stacked, Employed,
      CommandIsOwners, CleansQuietly, ClosureWasAsked, Running, Settled, OwnerLive,
      AfterClosure, BeforeClosure, FilesType, EngineType, Remove, Cleans, Place, Commands,
      Callbacks, Legacy, Phases, Teardown, Ended
  <1>22. ASSUME NEW a \in {"guard", "owner"}, Absent(a) PROVE Stacked'
    BY <1>0, <1>22, MovesOutcome DEF OutcomeInv, IInv, TypeOK, Stacked, Employed,
      CommandIsOwners, CleansQuietly, ClosureWasAsked, Running, Settled, OwnerLive,
      AfterClosure, BeforeClosure, FilesType, EngineType, Absent, Cleans, Place, Commands,
      Callbacks, Legacy, Phases, Teardown, Ended
  <1>23. ASSUME NEW a \in {"guard", "owner"}, Unload(a) PROVE Stacked'
    BY <1>0, <1>23, MovesOutcome DEF OutcomeInv, IInv, TypeOK, Stacked, Employed,
      CommandIsOwners, CleansQuietly, ClosureWasAsked, Running, Settled, OwnerLive,
      AfterClosure, BeforeClosure, FilesType, EngineType, Unload, Cleans, Place, Commands,
      Callbacks, Legacy, Phases, Teardown, Ended
  <1>24. ASSUME NEW a \in {"guard", "owner"}, Unmake(a) PROVE Stacked'
    BY <1>0, <1>24, MovesOutcome DEF OutcomeInv, IInv, TypeOK, Stacked, Employed,
      CommandIsOwners, CleansQuietly, ClosureWasAsked, Running, Settled, OwnerLive,
      AfterClosure, BeforeClosure, FilesType, EngineType, Unmake, Cleans, Place, Commands,
      Callbacks, Legacy, Phases, Teardown, Ended
  <1>25. ASSUME NEW a \in {"guard", "owner"}, Discard(a) PROVE Stacked'
    BY <1>0, <1>25, MovesOutcome DEF OutcomeInv, IInv, TypeOK, Stacked, Employed,
      CommandIsOwners, CleansQuietly, ClosureWasAsked, Running, Settled, OwnerLive,
      AfterClosure, BeforeClosure, FilesType, EngineType, Discard, Cleans, Place, Commands,
      Callbacks, Legacy, Phases, Teardown, Ended
  <1>26. ASSUME NEW a \in {"guard", "owner"}, Erase(a) PROVE Stacked'
    BY <1>0, <1>26, MovesOutcome DEF OutcomeInv, IInv, TypeOK, Stacked, Employed,
      CommandIsOwners, CleansQuietly, ClosureWasAsked, Running, Settled, OwnerLive,
      AfterClosure, BeforeClosure, FilesType, EngineType, Erase, Cleans, Place, Commands,
      Callbacks, Legacy, Phases, Teardown, Ended
  <1>27. ASSUME NEW a \in {"guard", "owner"}, Refuse(a) PROVE Stacked'
    <2>1. Settled /\ work' = work /\ TypeOK
      BY <1>27, CleanersSettle DEF OutcomeInv, IInv, Refuse
    <2> QED
      BY <1>27, <2>1, RefuseOutcome DEF OutcomeInv, IInv, Stacked, Settled, OwnerLive,
        AfterClosure, Teardown
  <1>28. CASE Acknowledge \/ LoseAck \/ Start \/ Announce \/ Snapshot \/ Expire \/
    ReceiveNothing \/ Receive \/ Verify \/ Bind \/ Send \/ Lease \/ Confirm \/ Finish \/
    KillGuard \/ Cancel \/ Tamper \/ Tick
    BY <1>0, <1>28 DEF OutcomeInv, Stacked, Settled, OwnerLive, AfterClosure, BeforeClosure,
      Acknowledge, LoseAck, Start, Announce, Snapshot, Expire, ReceiveNothing, Receive, Verify,
      Bind, Send, Lease, Confirm, Finish, KillGuard, Cancel, Tamper, Tick
  <1>29. CASE UNCHANGED vars
    BY <1>0, <1>29 DEF vars, OutcomeInv, Stacked, Settled, OwnerLive, AfterClosure,
      BeforeClosure
  <1> QED
    BY <1>1, <1>2, <1>3, <1>4, <1>5, <1>6, <1>7, <1>8, <1>9, <1>10, <1>11, <1>12, <1>13, <1>14,
      <1>15, <1>16, <1>17, <1>18, <1>19, <1>20, <1>21, <1>22, <1>23, <1>24, <1>25, <1>26,
      <1>27, <1>28, <1>29 DEF Next, OwnerStep, WorkStep, GuardStep, World, Clean

LEMMA SettledStep == OutcomeInv /\ [Next]_vars => (Settled => Settled')
  <1> SUFFICES ASSUME OutcomeInv, [Next]_vars PROVE (Settled => Settled')
    OBVIOUS
  <1>0. trouble \subseteq trouble' /\ (clock = AllOver => clock' = AllOver)
    BY Persists DEF OutcomeInv, IInv, TypeOK
  <1>1. CASE Prepare
    BY <1>0, <1>1 DEF OutcomeInv, IInv, TypeOK, Settled, CommandIsOwners, CleansQuietly,
      OwnerLive, AfterClosure, BeforeClosure, OwnerType, FilesType, Prepare, At, Goto, Quietly,
      Commands, Callbacks, Legacy, Phases, Teardown, Ended
  <1>2. CASE SpawnGuard
    BY <1>0, <1>2 DEF OutcomeInv, IInv, TypeOK, Settled, CommandIsOwners, CleansQuietly,
      OwnerLive, AfterClosure, BeforeClosure, OwnerType, GuardType, SpawnGuard, At, Goto,
      Quietly, Commands, Callbacks, Legacy, Phases, Teardown, Ended
  <1>3. CASE AwaitReady
    BY <1>0, <1>3 DEF OutcomeInv, IInv, TypeOK, Settled, CommandIsOwners, CleansQuietly,
      OwnerLive, AfterClosure, BeforeClosure, OwnerType, AwaitReady, At, Goto, Quietly,
      Commands, Callbacks, Legacy, Phases, Teardown, Ended
  <1>4. CASE StartCommand
    BY <1>0, <1>4 DEF OutcomeInv, IInv, TypeOK, Settled, CommandIsOwners, CleansQuietly,
      OwnerLive, AfterClosure, BeforeClosure, OwnerType, GuardType, StartCommand, At, Quietly,
      Commands, Callbacks, Legacy, Phases, Teardown, Ended
  <1>5. CASE CollectCommand
    BY <1>0, <1>5 DEF OutcomeInv, IInv, TypeOK, Settled, CommandIsOwners, CleansQuietly,
      OwnerLive, AfterClosure, BeforeClosure, OwnerType, CollectCommand, Following, Commands,
      Quietly, Callbacks, Legacy, Phases, Teardown, Ended
  <1>6. CASE Ask
    BY <1>0, <1>6 DEF OutcomeInv, IInv, TypeOK, Settled, CommandIsOwners, CleansQuietly,
      OwnerLive, AfterClosure, BeforeClosure, OwnerType, GuardType, ConnType, Ask, At, Quietly,
      Phases, Callbacks, Legacy, Running, Commands, Teardown, Ended
  <1>7. CASE Answered
    BY <1>0, <1>7, AnsweredOutcome DEF OutcomeInv, IInv, Settled, CommandIsOwners,
      CleansQuietly, OwnerLive, AfterClosure, BeforeClosure, Commands, Callbacks, Legacy,
      Phases, Teardown, Ended
  <1>8. CASE GiveUp
    BY <1>0, <1>8, GiveUpOutcome DEF OutcomeInv, IInv, Settled, CommandIsOwners, CleansQuietly,
      OwnerLive, AfterClosure, BeforeClosure, Commands, Callbacks, Legacy, Phases, Teardown,
      Ended
  <1>9. CASE Recover
    BY <1>0, <1>9 DEF OutcomeInv, IInv, TypeOK, Settled, CommandIsOwners, CleansQuietly,
      OwnerLive, AfterClosure, BeforeClosure, OwnerType, Recover, At, Quietly, Commands,
      Callbacks, Legacy, Phases, Teardown, Ended
  <1>10. CASE AskAgain
    BY <1>0, <1>10 DEF OutcomeInv, IInv, TypeOK, Settled, CommandIsOwners, CleansQuietly,
      OwnerLive, AfterClosure, BeforeClosure, OwnerType, ConnType, AskAgain, At, Quietly,
      Commands, Callbacks, Legacy, Phases, Teardown, Ended
  <1>11. CASE AwaitGuard
    BY <1>0, <1>11 DEF OutcomeInv, IInv, TypeOK, Settled, CommandIsOwners, CleansQuietly,
      OwnerLive, AfterClosure, BeforeClosure, OwnerType, ConnType, AwaitGuard, Goto, Quietly,
      NoConn, Commands, Callbacks, Legacy, Phases, Teardown, Ended
  <1>12. CASE CreateVolume
    BY <1>0, <1>12 DEF OutcomeInv, IInv, TypeOK, Settled, CommandIsOwners, CleansQuietly,
      OwnerLive, AfterClosure, BeforeClosure, EngineType, CreateVolume, Quietly, Commands,
      Callbacks, Legacy, Phases, Teardown, Ended
  <1>13. CASE LoadProfile \/ VerifyLabel
    BY <1>0, <1>13 DEF OutcomeInv, IInv, TypeOK, Settled, CommandIsOwners, CleansQuietly,
      OwnerLive, AfterClosure, BeforeClosure, EngineType, LoadProfile, VerifyLabel, Quietly,
        Commands,
      Callbacks, Legacy, Phases, Teardown, Ended
  <1>14. CASE CreateContainer
    BY <1>0, <1>14 DEF OutcomeInv, IInv, TypeOK, Settled, CommandIsOwners, CleansQuietly,
      OwnerLive, AfterClosure, BeforeClosure, EngineType, CreateContainer, Quietly, Commands,
      Callbacks, Legacy, Phases, Teardown, Ended
  <1>15. CASE WriteCid
    BY <1>0, <1>15 DEF OutcomeInv, IInv, TypeOK, Settled, CommandIsOwners, CleansQuietly,
      OwnerLive, AfterClosure, BeforeClosure, FilesType, WriteCid, Quietly, Commands,
      Callbacks, Legacy, Phases, Teardown, Ended
  <1>16. CASE StopWork
    BY <1>0, <1>16, StopWorkOutcome DEF OutcomeInv, IInv, Settled, CommandIsOwners,
      CleansQuietly, OwnerLive, AfterClosure, BeforeClosure, Commands, Callbacks, Legacy,
      Phases, Teardown, Ended
  <1>17. CASE KillOwner
    BY <1>0, <1>17, KillOwnerOutcome DEF OutcomeInv, IInv, Settled, CommandIsOwners,
      CleansQuietly, OwnerLive, AfterClosure, BeforeClosure, Commands, Callbacks, Legacy,
      Phases, Teardown, Ended
  <1>18. CASE Reap
    BY <1>0, <1>18 DEF OutcomeInv, IInv, TypeOK, Settled, CommandIsOwners, CleansQuietly,
      OwnerLive, AfterClosure, BeforeClosure, OwnerType, Reap, Quietly, Commands, Callbacks,
      Legacy, Phases, Teardown, Ended
  <1>19. ASSUME NEW a \in {"guard", "owner"}, Identify(a) PROVE (Settled => Settled')
    BY <1>0, <1>19, MovesOutcome DEF OutcomeInv, IInv, TypeOK, Settled, CommandIsOwners,
      CleansQuietly, OwnerLive, AfterClosure, BeforeClosure, FilesType, EngineType, Identify,
      Cleans, Place, Commands, Callbacks, Legacy, Phases, Teardown, Ended
  <1>20. ASSUME NEW a \in {"guard", "owner"}, Remove(a) PROVE (Settled => Settled')
    BY <1>0, <1>20, MovesOutcome DEF OutcomeInv, IInv, TypeOK, Settled, CommandIsOwners,
      CleansQuietly, OwnerLive, AfterClosure, BeforeClosure, FilesType, EngineType, Remove,
      Cleans, Place, Commands, Callbacks, Legacy, Phases, Teardown, Ended
  <1>21. ASSUME NEW a \in {"guard", "owner"}, Absent(a) PROVE (Settled => Settled')
    BY <1>0, <1>21, MovesOutcome DEF OutcomeInv, IInv, TypeOK, Settled, CommandIsOwners,
      CleansQuietly, OwnerLive, AfterClosure, BeforeClosure, FilesType, EngineType, Absent,
      Cleans, Place, Commands, Callbacks, Legacy, Phases, Teardown, Ended
  <1>22. ASSUME NEW a \in {"guard", "owner"}, Unload(a) PROVE (Settled => Settled')
    BY <1>0, <1>22, MovesOutcome DEF OutcomeInv, IInv, TypeOK, Settled, CommandIsOwners,
      CleansQuietly, OwnerLive, AfterClosure, BeforeClosure, FilesType, EngineType, Unload,
      Cleans, Place, Commands, Callbacks, Legacy, Phases, Teardown, Ended
  <1>23. ASSUME NEW a \in {"guard", "owner"}, Unmake(a) PROVE (Settled => Settled')
    BY <1>0, <1>23, MovesOutcome DEF OutcomeInv, IInv, TypeOK, Settled, CommandIsOwners,
      CleansQuietly, OwnerLive, AfterClosure, BeforeClosure, FilesType, EngineType, Unmake,
      Cleans, Place, Commands, Callbacks, Legacy, Phases, Teardown, Ended
  <1>24. ASSUME NEW a \in {"guard", "owner"}, Discard(a) PROVE (Settled => Settled')
    BY <1>0, <1>24, MovesOutcome DEF OutcomeInv, IInv, TypeOK, Settled, CommandIsOwners,
      CleansQuietly, OwnerLive, AfterClosure, BeforeClosure, FilesType, EngineType, Discard,
      Cleans, Place, Commands, Callbacks, Legacy, Phases, Teardown, Ended
  <1>25. ASSUME NEW a \in {"guard", "owner"}, Erase(a) PROVE (Settled => Settled')
    BY <1>0, <1>25, MovesOutcome DEF OutcomeInv, IInv, TypeOK, Settled, CommandIsOwners,
      CleansQuietly, OwnerLive, AfterClosure, BeforeClosure, FilesType, EngineType, Erase,
      Cleans, Place, Commands, Callbacks, Legacy, Phases, Teardown, Ended
  <1>26. ASSUME NEW a \in {"guard", "owner"}, Refuse(a) PROVE (Settled => Settled')
    BY <1>0, <1>26, RefuseOutcome DEF OutcomeInv, IInv, Settled, CommandIsOwners,
      CleansQuietly, OwnerLive, AfterClosure, BeforeClosure, Commands, Callbacks, Legacy,
      Phases, Teardown, Ended
  <1>27. CASE Acknowledge \/ LoseAck \/ Start \/ Announce \/ Snapshot \/ Expire \/
    ReceiveNothing \/ Receive \/ Verify \/ Bind \/ Send \/ Lease \/ Confirm \/ Finish \/
    KillGuard \/ Cancel \/ Tamper \/ Replace \/ Tick
    BY <1>0, <1>27 DEF OutcomeInv, Settled, OwnerLive, AfterClosure, BeforeClosure,
      Acknowledge, LoseAck, Start, Announce, Snapshot, Expire, ReceiveNothing, Receive, Verify,
      Bind, Send, Lease, Confirm, Finish, KillGuard, Cancel, Tamper, Replace, Tick
  <1>28. CASE UNCHANGED vars
    BY <1>0, <1>28 DEF vars, OutcomeInv, Settled, OwnerLive, AfterClosure, BeforeClosure
  <1> QED
    BY <1>1, <1>2, <1>3, <1>4, <1>5, <1>6, <1>7, <1>8, <1>9, <1>10, <1>11, <1>12, <1>13, <1>14,
      <1>15, <1>16, <1>17, <1>18, <1>19, <1>20, <1>21, <1>22, <1>23, <1>24, <1>25, <1>26,
      <1>27, <1>28 DEF Next, OwnerStep, WorkStep, GuardStep, World, Clean

\* Only readiness takes a binding, and only the end of a clean-up gives it up.
LEMMA BindingSteps ==
  ASSUME [Next]_vars, TypeOK, files.bound, ~(\E a \in {"guard", "owner"} : Erase(a))
  PROVE  files'.bound
  <1>0. files \in FilesType
    BY DEF TypeOK
  <1>1. CASE OwnerStep
    BY <1>0, <1>1 DEF OwnerStep, Prepare, SpawnGuard, AwaitReady, StartCommand, CollectCommand,
      Ask, Answered, GiveUp, Recover, AskAgain, AwaitGuard, FilesType
  <1>2. CASE WorkStep
    BY <1>0, <1>2 DEF WorkStep, CreateVolume, LoadProfile, VerifyLabel, CreateContainer,
      WriteCid, Acknowledge, LoseAck, FilesType
  <1>3. CASE GuardStep
    BY <1>0, <1>3 DEF GuardStep, Start, Announce, Snapshot, Expire, ReceiveNothing, Receive,
      Verify, Bind, Send, Lease, Confirm, StopWork, Finish, FilesType
  <1>4. ASSUME NEW a \in {"guard", "owner"}, Clean(a) PROVE files'.bound
    BY <1>0, <1>4 DEF Clean, Identify, Remove, Absent, Unload, Unmake, Discard, Refuse,
      FilesType
  <1>5. CASE World
    BY <1>5 DEF World, KillOwner, Reap, KillGuard, Cancel, Tamper, Replace, Tick
  <1>6. CASE UNCHANGED vars
    BY <1>6 DEF vars
  <1> QED
    BY <1>1, <1>2, <1>3, <1>4, <1>5, <1>6 DEF Next

LEMMA ReadiedStep == OutcomeInv /\ [Next]_vars => Readied'
  <1> SUFFICES ASSUME OutcomeInv, [Next]_vars, ~Settled' PROVE Readied'
    BY DEF Readied
  <1>0. TypeOK /\ ~Settled /\ CommandIsOwners
    BY SettledStep DEF OutcomeInv, IInv
  <1>1. /\ owner.pc \in {"label"} \cup Callbacks => files.bound
        /\ conn.phase = "ready" /\ conn.at = "reply" => files.bound
        /\ guard.pc = "send" /\ conn.phase = "ready" => files.bound
        /\ guard.pc \in {"verify", "bind", "send"} => conn.at \in {"sent", "gone"}
    BY <1>0 DEF OutcomeInv, Readied
  <1>2. ASSUME NEW a \in {"guard", "owner"}, Clean(a) PROVE FALSE
    <2>1. Place(a) \in Teardown
      BY <1>2 DEF Clean, Identify, Remove, Absent, Unload, Unmake, Discard, Erase, Refuse,
        Cleans, Teardown
    <2> QED
      BY <1>0, <2>1, CleanersSettle
  <1>3. files.bound => files'.bound
    BY <1>0, <1>2, BindingSteps DEF Clean
  <1>4. CASE \/ owner.proc = "live" /\ owner.pc \in AfterClosure
             \/ owner'.pc \in AfterClosure /\ work' = "none"
    BY <1>0, <1>4 DEF Settled, OwnerLive, CommandIsOwners, AfterClosure, Teardown, Commands
  <1>5. CASE Prepare \/ SpawnGuard \/ AwaitReady
    BY <1>0, <1>1, <1>3, <1>5 DEF Readied, Prepare, SpawnGuard, AwaitReady, At, Goto, TypeOK,
      OwnerType, GuardType, Callbacks
  <1>6. CASE StartCommand
    BY <1>0, <1>1, <1>3, <1>6 DEF Readied, StartCommand, TypeOK, OwnerType, GuardType
  <1>7. CASE CollectCommand
    <2>1. owner'.pc = Following(owner.pc) /\ owner.pc \in Commands
          /\ UNCHANGED <<conn, guard, files>>
      BY <1>0, <1>7 DEF CollectCommand, TypeOK, OwnerType
    <2>2. owner'.pc \in {"label"} \cup Callbacks => owner.pc = "label"
      BY <2>1 DEF Following, Commands, Callbacks
    <2> QED
      BY <1>1, <2>1, <2>2 DEF Readied
  <1>8. CASE Ask
    <2>1. /\ conn = NoConn /\ conn'.at = "sent" /\ owner'.pc = owner.pc
          /\ guard'.pc = guard.pc /\ files' = files
      BY <1>0, <1>8 DEF Ask, TypeOK, OwnerType, GuardType
    <2> QED
      BY <1>1, <2>1 DEF Readied, NoConn
  <1>9. CASE Answered
    <2>1. owner.pc \in Phases /\ conn' = NoConn /\ UNCHANGED <<guard, files>>
          /\ conn.at \in {"ok", "reply"}
      BY <1>0, <1>9, AnsweredOutcome
    <2>2. owner'.pc \in {"label"} \cup Callbacks =>
            owner.pc \in Callbacks \/ (conn.phase = "ready" /\ conn.at = "reply")
      BY <1>0, <1>9, <2>1, AnsweredOutcome DEF Phases, Callbacks, Legacy
    <2> QED
      BY <1>1, <2>1, <2>2 DEF Readied, NoConn
  <1>10. CASE GiveUp
    BY <1>0, <1>4, <1>10, GiveUpOutcome DEF AfterClosure
  <1>11. CASE Recover \/ AskAgain \/ AwaitGuard
    BY <1>4, <1>11 DEF Recover, AskAgain, AwaitGuard, At, OwnerLive, AfterClosure
  <1>12. CASE CreateVolume \/ LoadProfile \/ VerifyLabel \/ CreateContainer \/ WriteCid
    BY <1>1, <1>3, <1>12 DEF Readied, CreateVolume, LoadProfile, VerifyLabel, CreateContainer,
      WriteCid
  <1>13. CASE Acknowledge \/ LoseAck
    BY <1>0, <1>1, <1>13 DEF Readied, Acknowledge, LoseAck, TypeOK, ConnType
  <1>14. CASE Start \/ Announce \/ Snapshot \/ Expire
    <2>1. UNCHANGED <<owner, conn>> /\ guard'.pc \notin {"verify", "bind", "send"}
      BY <1>0, <1>14 DEF Start, Announce, Snapshot, Expire, Leave, GuardAt, TypeOK, GuardType
    <2> QED
      BY <1>1, <1>3, <2>1 DEF Readied
  <1>15. CASE ReceiveNothing
    BY <1>0, <1>1, <1>15 DEF Readied, ReceiveNothing, Leave, NoConn, TypeOK, GuardType
  <1>16. CASE Receive
    BY <1>0, <1>1, <1>16, ReceiveOutcome DEF Readied
  <1>17. CASE Verify
    BY <1>0, <1>1, <1>17, VerifyOutcome DEF Readied
  <1>18. CASE Bind
    BY <1>0, <1>1, <1>18 DEF Readied, Bind, GuardAt, TypeOK, GuardType, FilesType
  <1>19. CASE Send
    BY <1>0, <1>1, <1>19, SendOutcome DEF Readied, NoConn
  <1>20. CASE Lease
    BY <1>0, <1>1, <1>20, LeaseOutcome DEF Readied
  <1>21. CASE Confirm
    BY <1>0, <1>1, <1>21, ConfirmOutcome DEF Readied, NoConn
  <1>22. CASE StopWork
    BY <1>0, <1>1, <1>22, StopWorkOutcome DEF Readied
  <1>23. CASE Finish
    <2>1. guard.pc = "removed"
      BY <1>23 DEF Finish, GuardAt
    <2> QED
      BY <1>0, <2>1 DEF OutcomeInv, IInv, CleansQuietly, Settled
  <1>24. CASE KillOwner
    BY <1>0, <1>1, <1>24, KillOwnerOutcome DEF Readied, NoConn
  <1>25. CASE Reap \/ KillGuard \/ Cancel
    <2>1. owner'.pc = owner.pc /\ UNCHANGED files
      BY <1>0, <1>25 DEF Reap, KillGuard, Cancel, TypeOK, OwnerType
    <2>2. \/ conn' = conn /\ guard'.pc = guard.pc
          \/ guard'.pc = "killed" /\ (conn' = conn \/ conn'.at = "eof")
      BY <1>0, <1>25 DEF Reap, KillGuard, Cancel, TypeOK, GuardType, ConnType, NoConn
    <2> QED
      BY <1>1, <2>1, <2>2 DEF Readied
  <1>26. CASE Tamper \/ Replace \/ Tick
    BY <1>1, <1>26 DEF Readied, Tamper, Replace, Tick
  <1>27. CASE UNCHANGED vars
    BY <1>1, <1>27 DEF Readied, vars
  <1> QED
    BY <1>2, <1>5, <1>6, <1>7, <1>8, <1>9, <1>10, <1>11, <1>12, <1>13, <1>14, <1>15, <1>16,
      <1>17, <1>18, <1>19, <1>20, <1>21, <1>22, <1>23, <1>24, <1>25, <1>26, <1>27
      DEF Next, OwnerStep, WorkStep, GuardStep, World

LEMMA AttestedStep == OutcomeInv /\ [Next]_vars => Attested'
  <1> SUFFICES ASSUME OutcomeInv, [Next]_vars PROVE Attested'
    OBVIOUS
  <1>0. TypeOK /\ engine \in EngineType /\ (Settled => Settled')
    BY SettledStep DEF OutcomeInv, IInv, TypeOK
  <1>1. ASSUME NEW a \in {"guard", "owner"}, Erase(a) PROVE Attested'
    <2>1. Place(a) = "erase" /\ engine' = engine
      BY <1>1 DEF Erase
    <2>2. Cleared
      BY <2>1, CleanersSettle DEF Cleared, Stage, Teardown
    <2> QED
      BY <1>0, <2>1, <2>2 DEF Attested, Cleared
  <1>2. CASE VerifyLabel
    <2>1. work = "label" /\ owner.pc = "label" /\ ~Settled /\ files' = files
      BY <1>2 DEF OutcomeInv, Employed, VerifyLabel, Commands, Settled
    <2> QED
      BY <2>1 DEF OutcomeInv, Readied, Attested
  <1>3. ASSUME ~VerifyLabel, ~(\E a \in {"guard", "owner"} : Erase(a)) PROVE Attested'
    <2>1. files.bound => files'.bound
      BY <1>0, <1>3, BindingSteps
    <2>2. CASE engine' = engine
      BY <1>0, <2>1, <2>2 DEF OutcomeInv, Attested, Cleared
    <2>3. CASE CreateVolume \/ LoadProfile \/ CreateContainer
      BY <1>0, <2>1, <2>3 DEF OutcomeInv, Attested, Cleared, Settled, EngineType, CreateVolume,
        LoadProfile, CreateContainer
    <2>4. CASE Replace
      BY <1>0, <2>1, <2>4 DEF OutcomeInv, Attested, Cleared, EngineType, Replace
    <2>5. ASSUME NEW a \in {"guard", "owner"},
                 \/ Remove(a) \/ Unload(a) \/ Unmake(a)
                 \/ engine' = [engine EXCEPT !.profile = FALSE]
          PROVE  Attested'
      BY <1>0, <2>1, <2>5 DEF OutcomeInv, Attested, Cleared, EngineType, Remove, Unload, Unmake
    <2> QED
      BY <1>3, <2>2, <2>3, <2>4, <2>5, EngineSteps
  <1> QED
    BY <1>1, <1>2, <1>3

LEMMA GuardLocatedStep == OutcomeInv /\ [Next]_vars => Located(guard.pc)'
  <1> SUFFICES ASSUME OutcomeInv, [Next]_vars PROVE Located(guard.pc)'
    OBVIOUS
  <1>0. trouble \subseteq trouble' /\ (clock = AllOver => clock' = AllOver)
    BY Persists DEF OutcomeInv, IInv, TypeOK
  <1>1. CASE Prepare
    BY <1>0, <1>1 DEF OutcomeInv, IInv, TypeOK, Located, CleansQuietly, Justified,
      OursOrReplaced, Running, OwnerType, FilesType, Prepare, At, Goto, Quietly, Commands,
      Callbacks, Legacy, Phases, Teardown, Ended
  <1>2. CASE SpawnGuard
    BY <1>0, <1>2 DEF OutcomeInv, IInv, TypeOK, Located, CleansQuietly, Justified,
      OursOrReplaced, Running, OwnerType, GuardType, SpawnGuard, At, Goto, Quietly, Commands,
      Callbacks, Legacy, Phases, Teardown, Ended
  <1>3. CASE StartCommand
    BY <1>0, <1>3 DEF OutcomeInv, IInv, TypeOK, Located, CleansQuietly, Justified,
      OursOrReplaced, Running, OwnerType, GuardType, StartCommand, At, Quietly, Commands,
      Callbacks, Legacy, Phases, Teardown, Ended
  <1>4. CASE Ask
    BY <1>0, <1>4 DEF OutcomeInv, IInv, TypeOK, Located, CleansQuietly, Justified,
      OursOrReplaced, Running, OwnerType, GuardType, ConnType, Ask, At, Quietly, Phases,
      Callbacks, Legacy, Commands, Teardown, Ended
  <1>5. CASE CreateVolume
    BY <1>0, <1>5 DEF OutcomeInv, IInv, TypeOK, Located, CleansQuietly, Justified,
      OursOrReplaced, Running, EngineType, CreateVolume, Quietly, Commands, Callbacks, Legacy,
      Phases, Teardown, Ended
  <1>6. CASE LoadProfile \/ VerifyLabel
    BY <1>0, <1>6 DEF OutcomeInv, IInv, TypeOK, Located, CleansQuietly, Justified,
      OursOrReplaced, Running, EngineType, LoadProfile, VerifyLabel, Quietly, Commands,
        Callbacks, Legacy,
      Phases, Teardown, Ended
  <1>7. CASE CreateContainer
    BY <1>0, <1>7 DEF OutcomeInv, IInv, TypeOK, Located, CleansQuietly, Justified,
      OursOrReplaced, Running, EngineType, CreateContainer, Quietly, Commands, Callbacks,
      Legacy, Phases, Teardown, Ended
  <1>8. CASE WriteCid
    BY <1>0, <1>8 DEF OutcomeInv, IInv, TypeOK, Located, CleansQuietly, Justified,
      OursOrReplaced, Running, FilesType, WriteCid, Quietly, Commands, Callbacks, Legacy,
      Phases, Teardown, Ended
  <1>9. CASE Start
    BY <1>0, <1>9 DEF OutcomeInv, IInv, TypeOK, Located, CleansQuietly, Justified,
      OursOrReplaced, Running, GuardType, Start, GuardAt, Quietly, Commands, Callbacks, Legacy,
      Phases, Teardown, Ended
  <1>10. CASE Announce
    BY <1>0, <1>10 DEF OutcomeInv, IInv, TypeOK, Located, CleansQuietly, Justified,
      OursOrReplaced, Running, GuardType, FilesType, Announce, GuardAt, Quietly, Commands,
      Callbacks, Legacy, Phases, Teardown, Ended
  <1>11. CASE Snapshot
    BY <1>0, <1>11 DEF OutcomeInv, IInv, TypeOK, Located, CleansQuietly, Justified,
      OursOrReplaced, Running, GuardType, Snapshot, GuardAt, Quietly, Commands, Callbacks,
      Legacy, Phases, Teardown, Ended
  <1>12. CASE Expire
    BY <1>0, <1>12 DEF OutcomeInv, IInv, TypeOK, Located, CleansQuietly, Justified,
      OursOrReplaced, Running, GuardType, Expire, GuardAt, Leave, Quietly, Commands, Callbacks,
      Legacy, Phases, Teardown, Ended
  <1>13. CASE ReceiveNothing
    BY <1>0, <1>13 DEF OutcomeInv, IInv, TypeOK, Located, CleansQuietly, Justified,
      OursOrReplaced, Running, GuardType, ConnType, ReceiveNothing, GuardAt, Leave, Quietly,
      NoConn, Commands, Callbacks, Legacy, Phases, Teardown, Ended
  <1>14. CASE Receive
    BY <1>0, <1>14, ReceiveOutcome DEF OutcomeInv, IInv, Located, CleansQuietly, Justified,
      OursOrReplaced, Running, Commands, Callbacks, Legacy, Phases, Teardown, Ended
  <1>15. CASE Verify
    BY <1>0, <1>15, VerifyOutcome DEF OutcomeInv, IInv, Located, CleansQuietly, Justified,
      OursOrReplaced, Running, Commands, Callbacks, Legacy, Phases, Teardown, Ended
  <1>16. CASE Bind
    BY <1>0, <1>16 DEF OutcomeInv, IInv, TypeOK, Located, CleansQuietly, Justified,
      OursOrReplaced, Running, GuardType, FilesType, Bind, GuardAt, Quietly, Commands,
      Callbacks, Legacy, Phases, Teardown, Ended
  <1>17. CASE Send
    BY <1>0, <1>17, SendOutcome DEF OutcomeInv, IInv, Located, CleansQuietly, Justified,
      OursOrReplaced, Running, Commands, Callbacks, Legacy, Phases, Teardown, Ended
  <1>18. CASE Lease
    BY <1>0, <1>18, LeaseOutcome DEF OutcomeInv, IInv, Located, CleansQuietly, Justified,
      OursOrReplaced, Running, Commands, Callbacks, Legacy, Phases, Teardown, Ended
  <1>19. CASE Confirm
    BY <1>0, <1>19, ConfirmOutcome DEF OutcomeInv, IInv, Located, CleansQuietly, Justified,
      OursOrReplaced, Running, Commands, Callbacks, Legacy, Phases, Teardown, Ended
  <1>20. CASE StopWork
    BY <1>0, <1>20, StopWorkOutcome DEF OutcomeInv, IInv, Located, CleansQuietly, Justified,
      OursOrReplaced, Running, Commands, Callbacks, Legacy, Phases, Teardown, Ended
  <1>21. CASE Finish
    BY <1>0, <1>21, FinishOutcome DEF OutcomeInv, IInv, Located, CleansQuietly, Justified,
      OursOrReplaced, Running, Commands, Callbacks, Legacy, Phases, Teardown, Ended
  <1>22. CASE KillGuard
    BY <1>0, <1>22 DEF OutcomeInv, IInv, TypeOK, Located, CleansQuietly, Justified,
      OursOrReplaced, Running, GuardType, ConnType, KillGuard, Happens, ClosedLease, Commands,
      Callbacks, Legacy, Phases, Teardown, Ended
  <1>23. CASE Cancel
    BY <1>0, <1>23 DEF OutcomeInv, IInv, TypeOK, Located, CleansQuietly, Justified,
      OursOrReplaced, Running, GuardType, Cancel, Happens, Commands, Callbacks, Legacy, Phases,
      Teardown, Ended
  <1>24. CASE Replace
    BY <1>0, <1>24 DEF OutcomeInv, IInv, TypeOK, Located, CleansQuietly, Justified,
      OursOrReplaced, Running, EngineType, Replace, Happens, Commands, Callbacks, Legacy,
      Phases, Teardown, Ended
  <1>25. ASSUME NEW a \in {"guard", "owner"}, Identify(a) PROVE Located(guard.pc)'
    BY <1>0, <1>25, MovesOutcome DEF OutcomeInv, IInv, TypeOK, Located, CleansQuietly,
      Justified, OursOrReplaced, Running, FilesType, EngineType, Identify, Cleans, Place,
      Commands, Callbacks, Legacy, Phases, Teardown, Ended
  <1>26. ASSUME NEW a \in {"guard", "owner"}, Remove(a) PROVE Located(guard.pc)'
    BY <1>0, <1>26, MovesOutcome DEF OutcomeInv, IInv, TypeOK, Located, CleansQuietly,
      Justified, OursOrReplaced, Running, FilesType, EngineType, Remove, Cleans, Place,
      Commands, Callbacks, Legacy, Phases, Teardown, Ended
  <1>27. ASSUME NEW a \in {"guard", "owner"}, Absent(a) PROVE Located(guard.pc)'
    BY <1>0, <1>27, MovesOutcome DEF OutcomeInv, IInv, TypeOK, Located, CleansQuietly,
      Justified, OursOrReplaced, Running, FilesType, EngineType, Absent, Cleans, Place,
      Commands, Callbacks, Legacy, Phases, Teardown, Ended
  <1>28. ASSUME NEW a \in {"guard", "owner"}, Unload(a) PROVE Located(guard.pc)'
    BY <1>0, <1>28, MovesOutcome DEF OutcomeInv, IInv, TypeOK, Located, CleansQuietly,
      Justified, OursOrReplaced, Running, FilesType, EngineType, Unload, Cleans, Place,
      Commands, Callbacks, Legacy, Phases, Teardown, Ended
  <1>29. ASSUME NEW a \in {"guard", "owner"}, Unmake(a) PROVE Located(guard.pc)'
    BY <1>0, <1>29, MovesOutcome DEF OutcomeInv, IInv, TypeOK, Located, CleansQuietly,
      Justified, OursOrReplaced, Running, FilesType, EngineType, Unmake, Cleans, Place,
      Commands, Callbacks, Legacy, Phases, Teardown, Ended
  <1>30. ASSUME NEW a \in {"guard", "owner"}, Discard(a) PROVE Located(guard.pc)'
    BY <1>0, <1>30, MovesOutcome DEF OutcomeInv, IInv, TypeOK, Located, CleansQuietly,
      Justified, OursOrReplaced, Running, FilesType, EngineType, Discard, Cleans, Place,
      Commands, Callbacks, Legacy, Phases, Teardown, Ended
  <1>31. ASSUME NEW a \in {"guard", "owner"}, Erase(a) PROVE Located(guard.pc)'
    BY <1>0, <1>31, MovesOutcome DEF OutcomeInv, IInv, TypeOK, Located, CleansQuietly,
      Justified, OursOrReplaced, Running, FilesType, EngineType, Erase, Cleans, Place,
      Commands, Callbacks, Legacy, Phases, Teardown, Ended
  <1>32. ASSUME NEW a \in {"guard", "owner"}, Refuse(a) PROVE Located(guard.pc)'
    BY <1>0, <1>32, RefuseOutcome DEF OutcomeInv, IInv, Located, CleansQuietly, Justified,
      OursOrReplaced, Running, Commands, Callbacks, Legacy, Phases, Teardown, Ended
  <1>33. CASE AwaitReady \/ CollectCommand \/ Answered \/ GiveUp \/ Recover \/ AskAgain \/
    AwaitGuard \/ Acknowledge \/ LoseAck \/ KillOwner \/ Reap \/ Tamper \/ Tick
    BY <1>0, <1>33 DEF OutcomeInv, OursOrReplaced, Running, Located, AwaitReady,
      CollectCommand, Answered, GiveUp, Recover, AskAgain, AwaitGuard, Acknowledge, LoseAck,
      KillOwner, Reap, Tamper, Tick
  <1>34. CASE UNCHANGED vars
    BY <1>0, <1>34 DEF vars, OutcomeInv, OursOrReplaced, Running, Located
  <1> QED
    BY <1>1, <1>2, <1>3, <1>4, <1>5, <1>6, <1>7, <1>8, <1>9, <1>10, <1>11, <1>12, <1>13, <1>14,
      <1>15, <1>16, <1>17, <1>18, <1>19, <1>20, <1>21, <1>22, <1>23, <1>24, <1>25, <1>26,
      <1>27, <1>28, <1>29, <1>30, <1>31, <1>32, <1>33, <1>34 DEF Next, OwnerStep, WorkStep,
      GuardStep, World, Clean

LEMMA OwnerLocatedStep == OutcomeInv /\ [Next]_vars => Located(owner.pc)'
  <1> SUFFICES ASSUME OutcomeInv, [Next]_vars PROVE Located(owner.pc)'
    OBVIOUS
  <1>0. trouble \subseteq trouble' /\ (clock = AllOver => clock' = AllOver)
    BY Persists DEF OutcomeInv, IInv, TypeOK
  <1>1. CASE Prepare
    BY <1>0, <1>1 DEF OutcomeInv, IInv, TypeOK, Located, CleansQuietly, CommandIsOwners,
      Justified, OursOrReplaced, Running, OwnerType, FilesType, Prepare, At, Goto, Quietly,
      Commands, Callbacks, Legacy, Phases, Teardown, Ended
  <1>2. CASE SpawnGuard
    BY <1>0, <1>2 DEF OutcomeInv, IInv, TypeOK, Located, CleansQuietly, CommandIsOwners,
      Justified, OursOrReplaced, Running, OwnerType, GuardType, SpawnGuard, At, Goto, Quietly,
      Commands, Callbacks, Legacy, Phases, Teardown, Ended
  <1>3. CASE AwaitReady
    BY <1>0, <1>3 DEF OutcomeInv, IInv, TypeOK, Located, CleansQuietly, CommandIsOwners,
      Justified, OursOrReplaced, Running, OwnerType, AwaitReady, At, Goto, Quietly, Commands,
      Callbacks, Legacy, Phases, Teardown, Ended
  <1>4. CASE StartCommand
    BY <1>0, <1>4 DEF OutcomeInv, IInv, TypeOK, Located, CleansQuietly, CommandIsOwners,
      Justified, OursOrReplaced, Running, OwnerType, GuardType, StartCommand, At, Quietly,
      Commands, Callbacks, Legacy, Phases, Teardown, Ended
  <1>5. CASE CollectCommand
    BY <1>0, <1>5 DEF OutcomeInv, IInv, TypeOK, Located, CleansQuietly, CommandIsOwners,
      Justified, OursOrReplaced, Running, OwnerType, CollectCommand, Following, Commands,
      Quietly, Callbacks, Legacy, Phases, Teardown, Ended
  <1>6. CASE Ask
    BY <1>0, <1>6 DEF OutcomeInv, IInv, TypeOK, Located, CleansQuietly, CommandIsOwners,
      Justified, OursOrReplaced, Running, OwnerType, GuardType, ConnType, Ask, At, Quietly,
      Phases, Callbacks, Legacy, Commands, Teardown, Ended
  <1>7. CASE Answered
    BY <1>0, <1>7, AnsweredOutcome DEF OutcomeInv, IInv, Located, CleansQuietly,
      CommandIsOwners, Justified, OursOrReplaced, Running, Commands, Callbacks, Legacy, Phases,
      Teardown, Ended
  <1>8. CASE GiveUp
    BY <1>0, <1>8, GiveUpOutcome DEF OutcomeInv, IInv, Located, CleansQuietly, CommandIsOwners,
      Justified, OursOrReplaced, Running, Commands, Callbacks, Legacy, Phases, Teardown, Ended
  <1>9. CASE Recover
    BY <1>0, <1>9 DEF OutcomeInv, IInv, TypeOK, Located, CleansQuietly, CommandIsOwners,
      Justified, OursOrReplaced, Running, OwnerType, Recover, At, Quietly, Commands, Callbacks,
      Legacy, Phases, Teardown, Ended
  <1>10. CASE AskAgain
    BY <1>0, <1>10 DEF OutcomeInv, IInv, TypeOK, Located, CleansQuietly, CommandIsOwners,
      Justified, OursOrReplaced, Running, OwnerType, ConnType, AskAgain, At, Quietly, Commands,
      Callbacks, Legacy, Phases, Teardown, Ended
  <1>11. CASE AwaitGuard
    BY <1>0, <1>11 DEF OutcomeInv, IInv, TypeOK, Located, CleansQuietly, CommandIsOwners,
      Justified, OursOrReplaced, Running, OwnerType, ConnType, AwaitGuard, Goto, Quietly,
      NoConn, Commands, Callbacks, Legacy, Phases, Teardown, Ended
  <1>12. CASE CreateVolume
    BY <1>0, <1>12 DEF OutcomeInv, IInv, TypeOK, Located, CleansQuietly, CommandIsOwners,
      Justified, OursOrReplaced, Running, EngineType, CreateVolume, Quietly, Commands,
      Callbacks, Legacy, Phases, Teardown, Ended
  <1>13. CASE LoadProfile \/ VerifyLabel
    BY <1>0, <1>13 DEF OutcomeInv, IInv, TypeOK, Located, CleansQuietly, CommandIsOwners,
      Justified, OursOrReplaced, Running, EngineType, LoadProfile, VerifyLabel, Quietly, Commands,
      Callbacks, Legacy, Phases, Teardown, Ended
  <1>14. CASE CreateContainer
    BY <1>0, <1>14 DEF OutcomeInv, IInv, TypeOK, Located, CleansQuietly, CommandIsOwners,
      Justified, OursOrReplaced, Running, EngineType, CreateContainer, Quietly, Commands,
      Callbacks, Legacy, Phases, Teardown, Ended
  <1>15. CASE WriteCid
    BY <1>0, <1>15 DEF OutcomeInv, IInv, TypeOK, Located, CleansQuietly, CommandIsOwners,
      Justified, OursOrReplaced, Running, FilesType, WriteCid, Quietly, Commands, Callbacks,
      Legacy, Phases, Teardown, Ended
  <1>16. CASE Announce
    BY <1>0, <1>16 DEF OutcomeInv, IInv, TypeOK, Located, CleansQuietly, CommandIsOwners,
      Justified, OursOrReplaced, Running, GuardType, FilesType, Announce, GuardAt, Quietly,
      Commands, Callbacks, Legacy, Phases, Teardown, Ended
  <1>17. CASE Bind
    BY <1>0, <1>17 DEF OutcomeInv, IInv, TypeOK, Located, CleansQuietly, CommandIsOwners,
      Justified, OursOrReplaced, Running, GuardType, FilesType, Bind, GuardAt, Quietly,
      Commands, Callbacks, Legacy, Phases, Teardown, Ended
  <1>18. CASE StopWork
    BY <1>0, <1>18, StopWorkOutcome DEF OutcomeInv, IInv, Located, CleansQuietly,
      CommandIsOwners, Justified, OursOrReplaced, Running, Commands, Callbacks, Legacy, Phases,
      Teardown, Ended
  <1>19. CASE KillOwner
    BY <1>0, <1>19, KillOwnerOutcome DEF OutcomeInv, IInv, Located, CleansQuietly,
      CommandIsOwners, Justified, OursOrReplaced, Running, Commands, Callbacks, Legacy, Phases,
      Teardown, Ended
  <1>20. CASE Reap
    BY <1>0, <1>20 DEF OutcomeInv, IInv, TypeOK, Located, CleansQuietly, CommandIsOwners,
      Justified, OursOrReplaced, Running, OwnerType, Reap, Quietly, Commands, Callbacks,
      Legacy, Phases, Teardown, Ended
  <1>21. CASE Replace
    BY <1>0, <1>21 DEF OutcomeInv, IInv, TypeOK, Located, CleansQuietly, CommandIsOwners,
      Justified, OursOrReplaced, Running, EngineType, Replace, Happens, Commands, Callbacks,
      Legacy, Phases, Teardown, Ended
  <1>22. ASSUME NEW a \in {"guard", "owner"}, Identify(a) PROVE Located(owner.pc)'
    BY <1>0, <1>22, MovesOutcome DEF OutcomeInv, IInv, TypeOK, Located, CleansQuietly,
      CommandIsOwners, Justified, OursOrReplaced, Running, FilesType, EngineType, Identify,
      Cleans, Place, Commands, Callbacks, Legacy, Phases, Teardown, Ended
  <1>23. ASSUME NEW a \in {"guard", "owner"}, Remove(a) PROVE Located(owner.pc)'
    BY <1>0, <1>23, MovesOutcome DEF OutcomeInv, IInv, TypeOK, Located, CleansQuietly,
      CommandIsOwners, Justified, OursOrReplaced, Running, FilesType, EngineType, Remove,
      Cleans, Place, Commands, Callbacks, Legacy, Phases, Teardown, Ended
  <1>24. ASSUME NEW a \in {"guard", "owner"}, Absent(a) PROVE Located(owner.pc)'
    BY <1>0, <1>24, MovesOutcome DEF OutcomeInv, IInv, TypeOK, Located, CleansQuietly,
      CommandIsOwners, Justified, OursOrReplaced, Running, FilesType, EngineType, Absent,
      Cleans, Place, Commands, Callbacks, Legacy, Phases, Teardown, Ended
  <1>25. ASSUME NEW a \in {"guard", "owner"}, Unload(a) PROVE Located(owner.pc)'
    BY <1>0, <1>25, MovesOutcome DEF OutcomeInv, IInv, TypeOK, Located, CleansQuietly,
      CommandIsOwners, Justified, OursOrReplaced, Running, FilesType, EngineType, Unload,
      Cleans, Place, Commands, Callbacks, Legacy, Phases, Teardown, Ended
  <1>26. ASSUME NEW a \in {"guard", "owner"}, Unmake(a) PROVE Located(owner.pc)'
    BY <1>0, <1>26, MovesOutcome DEF OutcomeInv, IInv, TypeOK, Located, CleansQuietly,
      CommandIsOwners, Justified, OursOrReplaced, Running, FilesType, EngineType, Unmake,
      Cleans, Place, Commands, Callbacks, Legacy, Phases, Teardown, Ended
  <1>27. ASSUME NEW a \in {"guard", "owner"}, Discard(a) PROVE Located(owner.pc)'
    BY <1>0, <1>27, MovesOutcome DEF OutcomeInv, IInv, TypeOK, Located, CleansQuietly,
      CommandIsOwners, Justified, OursOrReplaced, Running, FilesType, EngineType, Discard,
      Cleans, Place, Commands, Callbacks, Legacy, Phases, Teardown, Ended
  <1>28. ASSUME NEW a \in {"guard", "owner"}, Erase(a) PROVE Located(owner.pc)'
    BY <1>0, <1>28, MovesOutcome DEF OutcomeInv, IInv, TypeOK, Located, CleansQuietly,
      CommandIsOwners, Justified, OursOrReplaced, Running, FilesType, EngineType, Erase,
      Cleans, Place, Commands, Callbacks, Legacy, Phases, Teardown, Ended
  <1>29. ASSUME NEW a \in {"guard", "owner"}, Refuse(a) PROVE Located(owner.pc)'
    BY <1>0, <1>29, RefuseOutcome DEF OutcomeInv, IInv, Located, CleansQuietly,
      CommandIsOwners, Justified, OursOrReplaced, Running, Commands, Callbacks, Legacy, Phases,
      Teardown, Ended
  <1>30. CASE Acknowledge \/ LoseAck \/ Start \/ Snapshot \/ Expire \/ ReceiveNothing \/
    Receive \/ Verify \/ Send \/ Lease \/ Confirm \/ Finish \/ KillGuard \/ Cancel \/ Tamper \/
    Tick
    BY <1>0, <1>30 DEF OutcomeInv, OursOrReplaced, Running, Located, Acknowledge, LoseAck,
      Start, Snapshot, Expire, ReceiveNothing, Receive, Verify, Send, Lease, Confirm, Finish,
      KillGuard, Cancel, Tamper, Tick
  <1>31. CASE UNCHANGED vars
    BY <1>0, <1>31 DEF vars, OutcomeInv, OursOrReplaced, Running, Located
  <1> QED
    BY <1>1, <1>2, <1>3, <1>4, <1>5, <1>6, <1>7, <1>8, <1>9, <1>10, <1>11, <1>12, <1>13, <1>14,
      <1>15, <1>16, <1>17, <1>18, <1>19, <1>20, <1>21, <1>22, <1>23, <1>24, <1>25, <1>26,
      <1>27, <1>28, <1>29, <1>30, <1>31 DEF Next, OwnerStep, WorkStep, GuardStep, World, Clean

LEMMA JustifiedStep == OutcomeInv /\ [Next]_vars => Justified'
  <1> SUFFICES ASSUME OutcomeInv, [Next]_vars PROVE Justified'
    OBVIOUS
  <1>0. trouble \subseteq trouble' /\ (clock = AllOver => clock' = AllOver)
    BY Persists DEF OutcomeInv, IInv, TypeOK
  <1>1. CASE Prepare
    BY <1>0, <1>1 DEF OutcomeInv, IInv, TypeOK, Justified, Built, Bound, Located,
      CleansQuietly, CommandIsOwners, NothingYet, Explained, Unnamed, Unattested, Settled, Made,
      OursOrReplaced, Guarding, OwnerLive, AfterClosure, Running, OwnerType, FilesType,
      Prepare, At, Goto, Quietly, Commands, Callbacks, Legacy, Phases, Teardown, Ended
  <1>2. CASE SpawnGuard
    BY <1>0, <1>2 DEF OutcomeInv, IInv, TypeOK, Justified, Built, Bound, Located,
      CleansQuietly, CommandIsOwners, NothingYet, Explained, Unnamed, Unattested, Settled, Made,
      OursOrReplaced, Guarding, OwnerLive, AfterClosure, Running, OwnerType, GuardType,
      SpawnGuard, At, Goto, Quietly, Commands, Callbacks, Legacy, Phases, Teardown, Ended
  <1>3. CASE AwaitReady
    BY <1>0, <1>3 DEF OutcomeInv, IInv, TypeOK, Justified, Built, Bound, Located,
      CleansQuietly, CommandIsOwners, NothingYet, Explained, Unnamed, Unattested, Settled, Made,
      OursOrReplaced, Guarding, OwnerLive, AfterClosure, Running, OwnerType, AwaitReady, At,
      Goto, Quietly, Commands, Callbacks, Legacy, Phases, Teardown, Ended
  <1>4. CASE StartCommand
    BY <1>0, <1>4 DEF OutcomeInv, IInv, TypeOK, Justified, Built, Bound, Located,
      CleansQuietly, CommandIsOwners, NothingYet, Explained, Unnamed, Unattested, Settled, Made,
      OursOrReplaced, Guarding, OwnerLive, AfterClosure, Running, OwnerType, GuardType,
      StartCommand, At, Quietly, Commands, Callbacks, Legacy, Phases, Teardown, Ended
  <1>5. CASE CollectCommand
    BY <1>0, <1>5 DEF OutcomeInv, IInv, TypeOK, Justified, Built, Bound, Located,
      CleansQuietly, CommandIsOwners, NothingYet, Explained, Unnamed, Unattested, Settled, Made,
      OursOrReplaced, Guarding, OwnerLive, AfterClosure, Running, OwnerType, CollectCommand,
      Following, Commands, Quietly, Callbacks, Legacy, Phases, Teardown, Ended
  <1>6. CASE Ask
    BY <1>0, <1>6 DEF OutcomeInv, IInv, TypeOK, Justified, Built, Bound, Located,
      CleansQuietly, CommandIsOwners, NothingYet, Explained, Unnamed, Unattested, Settled, Made,
      OursOrReplaced, Guarding, OwnerLive, AfterClosure, Running, OwnerType, GuardType,
      ConnType, Ask, At, Quietly, Phases, Callbacks, Legacy, Commands, Teardown, Ended
  <1>7. CASE Answered
    BY <1>0, <1>7, AnsweredOutcome DEF OutcomeInv, IInv, Justified, Built, Bound, Located,
      CleansQuietly, CommandIsOwners, NothingYet, Explained, Unnamed, Unattested, Settled, Made,
      OursOrReplaced, Guarding, OwnerLive, AfterClosure, Running, Commands, Callbacks, Legacy,
      Phases, Teardown, Ended
  <1>8. CASE GiveUp
    BY <1>0, <1>8, GiveUpOutcome DEF OutcomeInv, IInv, Justified, Built, Bound, Located,
      CleansQuietly, CommandIsOwners, NothingYet, Explained, Unnamed, Unattested, Settled, Made,
      OursOrReplaced, Guarding, OwnerLive, AfterClosure, Running, Commands, Callbacks, Legacy,
      Phases, Teardown, Ended
  <1>9. CASE Recover
    BY <1>0, <1>9 DEF OutcomeInv, IInv, TypeOK, Justified, Built, Bound, Located,
      CleansQuietly, CommandIsOwners, NothingYet, Explained, Unnamed, Unattested, Settled, Made,
      OursOrReplaced, Guarding, OwnerLive, AfterClosure, Running, OwnerType, Recover, At,
      Quietly, Commands, Callbacks, Legacy, Phases, Teardown, Ended
  <1>10. CASE AskAgain
    BY <1>0, <1>10 DEF OutcomeInv, IInv, TypeOK, Justified, Built, Bound, Located,
      CleansQuietly, CommandIsOwners, NothingYet, Explained, Unnamed, Unattested, Settled, Made,
      OursOrReplaced, Guarding, OwnerLive, AfterClosure, Running, OwnerType, ConnType,
      AskAgain, At, Quietly, Commands, Callbacks, Legacy, Phases, Teardown, Ended
  <1>11. CASE AwaitGuard
    BY <1>0, <1>11 DEF OutcomeInv, IInv, TypeOK, Justified, Built, Bound, Located,
      CleansQuietly, CommandIsOwners, NothingYet, Explained, Unnamed, Unattested, Settled, Made,
      OursOrReplaced, Guarding, OwnerLive, AfterClosure, Running, OwnerType, ConnType,
      AwaitGuard, Goto, Quietly, NoConn, Commands, Callbacks, Legacy, Phases, Teardown, Ended
  <1>12. CASE CreateVolume
    BY <1>0, <1>12 DEF OutcomeInv, IInv, TypeOK, Justified, Built, Bound, Located,
      CleansQuietly, CommandIsOwners, NothingYet, Explained, Unnamed, Unattested, Settled, Made,
      OursOrReplaced, Guarding, OwnerLive, AfterClosure, Running, EngineType, CreateVolume,
      Quietly, Commands, Callbacks, Legacy, Phases, Teardown, Ended
  <1>13. CASE LoadProfile \/ VerifyLabel
    BY <1>0, <1>13 DEF OutcomeInv, IInv, TypeOK, Justified, Built, Bound, Located,
      CleansQuietly, CommandIsOwners, NothingYet, Explained, Unnamed, Unattested, Settled, Made,
      OursOrReplaced, Guarding, OwnerLive, AfterClosure, Running, EngineType, LoadProfile,
        VerifyLabel,
      Quietly, Commands, Callbacks, Legacy, Phases, Teardown, Ended
  <1>14. CASE CreateContainer
    BY <1>0, <1>14 DEF OutcomeInv, IInv, TypeOK, Justified, Built, Bound, Located,
      CleansQuietly, CommandIsOwners, NothingYet, Explained, Unnamed, Unattested, Settled, Made,
      OursOrReplaced, Guarding, OwnerLive, AfterClosure, Running, EngineType, CreateContainer,
      Quietly, Commands, Callbacks, Legacy, Phases, Teardown, Ended
  <1>15. CASE WriteCid
    BY <1>0, <1>15 DEF OutcomeInv, IInv, TypeOK, Justified, Built, Bound, Located,
      CleansQuietly, CommandIsOwners, NothingYet, Explained, Unnamed, Unattested, Settled, Made,
      OursOrReplaced, Guarding, OwnerLive, AfterClosure, Running, FilesType, WriteCid, Quietly,
      Commands, Callbacks, Legacy, Phases, Teardown, Ended
  <1>16. CASE Start
    BY <1>0, <1>16 DEF OutcomeInv, IInv, TypeOK, Justified, Built, Bound, Located,
      CleansQuietly, CommandIsOwners, NothingYet, Explained, Unnamed, Unattested, Settled, Made,
      OursOrReplaced, Guarding, OwnerLive, AfterClosure, Running, GuardType, Start, GuardAt,
      Quietly, Commands, Callbacks, Legacy, Phases, Teardown, Ended
  <1>17. CASE Announce
    BY <1>0, <1>17 DEF OutcomeInv, IInv, TypeOK, Justified, Built, Bound, Located,
      CleansQuietly, CommandIsOwners, NothingYet, Explained, Unnamed, Unattested, Settled, Made,
      OursOrReplaced, Guarding, OwnerLive, AfterClosure, Running, GuardType, FilesType,
      Announce, GuardAt, Quietly, Commands, Callbacks, Legacy, Phases, Teardown, Ended
  <1>18. CASE Snapshot
    BY <1>0, <1>18 DEF OutcomeInv, IInv, TypeOK, Justified, Built, Bound, Located,
      CleansQuietly, CommandIsOwners, NothingYet, Explained, Unnamed, Unattested, Settled, Made,
      OursOrReplaced, Guarding, OwnerLive, AfterClosure, Running, GuardType, Snapshot, GuardAt,
      Quietly, Commands, Callbacks, Legacy, Phases, Teardown, Ended
  <1>19. CASE Expire
    BY <1>0, <1>19 DEF OutcomeInv, IInv, TypeOK, Justified, Built, Bound, Located,
      CleansQuietly, CommandIsOwners, NothingYet, Explained, Unnamed, Unattested, Settled, Made,
      OursOrReplaced, Guarding, OwnerLive, AfterClosure, Running, GuardType, Expire, GuardAt,
      Leave, Quietly, Commands, Callbacks, Legacy, Phases, Teardown, Ended
  <1>20. CASE ReceiveNothing
    BY <1>0, <1>20 DEF OutcomeInv, IInv, TypeOK, Justified, Built, Bound, Located,
      CleansQuietly, CommandIsOwners, NothingYet, Explained, Unnamed, Unattested, Settled, Made,
      OursOrReplaced, Guarding, OwnerLive, AfterClosure, Running, GuardType, ConnType,
      ReceiveNothing, GuardAt, Leave, Quietly, NoConn, Commands, Callbacks, Legacy, Phases,
      Teardown, Ended
  <1>21. CASE Receive
    BY <1>0, <1>21, ReceiveOutcome DEF OutcomeInv, IInv, Justified, Built, Bound, Located,
      CleansQuietly, CommandIsOwners, NothingYet, Explained, Unnamed, Unattested, Settled, Made,
      OursOrReplaced, Guarding, OwnerLive, AfterClosure, Running, Commands, Callbacks, Legacy,
      Phases, Teardown, Ended
  <1>22. CASE Verify
    BY <1>0, <1>22, VerifyOutcome DEF OutcomeInv, IInv, Justified, Built, Bound, Located,
      CleansQuietly, CommandIsOwners, NothingYet, Explained, Unnamed, Unattested, Settled, Made,
      OursOrReplaced, Guarding, OwnerLive, AfterClosure, Running, Verified, Commands,
      Callbacks, Legacy, Phases, Teardown, Ended
  <1>23. CASE Bind
    BY <1>0, <1>23 DEF OutcomeInv, IInv, TypeOK, Justified, Built, Bound, Located,
      CleansQuietly, CommandIsOwners, NothingYet, Explained, Unnamed, Unattested, Settled, Made,
      OursOrReplaced, Guarding, OwnerLive, AfterClosure, Running, GuardType, FilesType, Bind,
      GuardAt, Quietly, Commands, Callbacks, Legacy, Phases, Teardown, Ended
  <1>24. CASE Send
    BY <1>0, <1>24, SendOutcome DEF OutcomeInv, IInv, Justified, Built, Bound, Located,
      CleansQuietly, CommandIsOwners, NothingYet, Explained, Unnamed, Unattested, Settled, Made,
      OursOrReplaced, Guarding, OwnerLive, AfterClosure, Running, Commands, Callbacks, Legacy,
      Phases, Teardown, Ended
  <1>25. CASE Lease
    BY <1>0, <1>25, LeaseOutcome DEF OutcomeInv, IInv, Justified, Built, Bound, Located,
      CleansQuietly, CommandIsOwners, NothingYet, Explained, Unnamed, Unattested, Settled, Made,
      OursOrReplaced, Guarding, OwnerLive, AfterClosure, Running, Commands, Callbacks, Legacy,
      Phases, Teardown, Ended
  <1>26. CASE Confirm
    BY <1>0, <1>26, ConfirmOutcome DEF OutcomeInv, IInv, Justified, Built, Bound, Located,
      CleansQuietly, CommandIsOwners, NothingYet, Explained, Unnamed, Unattested, Settled, Made,
      OursOrReplaced, Guarding, OwnerLive, AfterClosure, Running, Commands, Callbacks, Legacy,
      Phases, Teardown, Ended
  <1>27. CASE StopWork
    BY <1>0, <1>27, StopWorkOutcome DEF OutcomeInv, IInv, Justified, Built, Bound, Located,
      CleansQuietly, CommandIsOwners, NothingYet, Explained, Unnamed, Unattested, Settled, Made,
      OursOrReplaced, Guarding, OwnerLive, AfterClosure, Running, Commands, Callbacks, Legacy,
      Phases, Teardown, Ended
  <1>28. CASE Finish
    BY <1>0, <1>28, FinishOutcome DEF OutcomeInv, IInv, Justified, Built, Bound, Located,
      CleansQuietly, CommandIsOwners, NothingYet, Explained, Unnamed, Unattested, Settled, Made,
      OursOrReplaced, Guarding, OwnerLive, AfterClosure, Running, Commands, Callbacks, Legacy,
      Phases, Teardown, Ended
  <1>29. CASE KillOwner
    BY <1>0, <1>29, KillOwnerOutcome DEF OutcomeInv, IInv, Justified, Built, Bound, Located,
      CleansQuietly, CommandIsOwners, NothingYet, Explained, Unnamed, Unattested, Settled, Made,
      OursOrReplaced, Guarding, OwnerLive, AfterClosure, Running, Commands, Callbacks, Legacy,
      Phases, Teardown, Ended
  <1>30. CASE Reap
    BY <1>0, <1>30 DEF OutcomeInv, IInv, TypeOK, Justified, Built, Bound, Located,
      CleansQuietly, CommandIsOwners, NothingYet, Explained, Unnamed, Unattested, Settled, Made,
      OursOrReplaced, Guarding, OwnerLive, AfterClosure, Running, OwnerType, Reap, Quietly,
      Commands, Callbacks, Legacy, Phases, Teardown, Ended
  <1>31. CASE KillGuard
    BY <1>0, <1>31 DEF OutcomeInv, IInv, TypeOK, Justified, Built, Bound, Located,
      CleansQuietly, CommandIsOwners, NothingYet, Explained, Unnamed, Unattested, Settled, Made,
      OursOrReplaced, Guarding, OwnerLive, AfterClosure, Running, GuardType, ConnType,
      KillGuard, Happens, ClosedLease, Commands, Callbacks, Legacy, Phases, Teardown, Ended
  <1>32. CASE Cancel
    BY <1>0, <1>32 DEF OutcomeInv, IInv, TypeOK, Justified, Built, Bound, Located,
      CleansQuietly, CommandIsOwners, NothingYet, Explained, Unnamed, Unattested, Settled, Made,
      OursOrReplaced, Guarding, OwnerLive, AfterClosure, Running, GuardType, Cancel, Happens,
      Commands, Callbacks, Legacy, Phases, Teardown, Ended
  <1>33. CASE Replace
    BY <1>0, <1>33 DEF OutcomeInv, IInv, TypeOK, Justified, Built, Bound, Located,
      CleansQuietly, CommandIsOwners, NothingYet, Explained, Unnamed, Unattested, Settled, Made,
      OursOrReplaced, Guarding, OwnerLive, AfterClosure, Running, EngineType, Replace, Happens,
      Commands, Callbacks, Legacy, Phases, Teardown, Ended
  <1>34. ASSUME NEW a \in {"guard", "owner"}, Identify(a) PROVE Justified'
    BY <1>0, <1>34, MovesOutcome DEF OutcomeInv, IInv, TypeOK, Justified, Built, Bound,
      Located, CleansQuietly, CommandIsOwners, NothingYet, Explained, Unnamed, Unattested,
      Settled, Made,
      OursOrReplaced, Guarding, OwnerLive, AfterClosure, Running, FilesType, EngineType,
      Identify, Cleans, Place, Commands, Callbacks, Legacy, Phases, Teardown, Ended
  <1>35. ASSUME NEW a \in {"guard", "owner"}, Remove(a) PROVE Justified'
    BY <1>0, <1>35, MovesOutcome DEF OutcomeInv, IInv, TypeOK, Justified, Built, Bound,
      Located, CleansQuietly, CommandIsOwners, NothingYet, Explained, Unnamed, Unattested,
      Settled, Made,
      OursOrReplaced, Guarding, OwnerLive, AfterClosure, Running, FilesType, EngineType,
      Remove, Cleans, Place, Commands, Callbacks, Legacy, Phases, Teardown, Ended
  <1>36. ASSUME NEW a \in {"guard", "owner"}, Absent(a) PROVE Justified'
    BY <1>0, <1>36, MovesOutcome DEF OutcomeInv, IInv, TypeOK, Justified, Built, Bound,
      Located, CleansQuietly, CommandIsOwners, NothingYet, Explained, Unnamed, Unattested,
      Settled, Made,
      OursOrReplaced, Guarding, OwnerLive, AfterClosure, Running, FilesType, EngineType,
      Absent, Cleans, Place, Commands, Callbacks, Legacy, Phases, Teardown, Ended
  <1>37. ASSUME NEW a \in {"guard", "owner"}, Unload(a) PROVE Justified'
    BY <1>0, <1>37, MovesOutcome DEF OutcomeInv, IInv, TypeOK, Justified, Built, Bound,
      Located, CleansQuietly, CommandIsOwners, NothingYet, Explained, Unnamed, Unattested,
      Settled, Made,
      OursOrReplaced, Guarding, OwnerLive, AfterClosure, Running, FilesType, EngineType,
      Unload, Cleans, Place, Commands, Callbacks, Legacy, Phases, Teardown, Ended
  <1>38. ASSUME NEW a \in {"guard", "owner"}, Unmake(a) PROVE Justified'
    BY <1>0, <1>38, MovesOutcome DEF OutcomeInv, IInv, TypeOK, Justified, Built, Bound,
      Located, CleansQuietly, CommandIsOwners, NothingYet, Explained, Unnamed, Unattested,
      Settled, Made,
      OursOrReplaced, Guarding, OwnerLive, AfterClosure, Running, FilesType, EngineType,
      Unmake, Cleans, Place, Commands, Callbacks, Legacy, Phases, Teardown, Ended
  <1>39. ASSUME NEW a \in {"guard", "owner"}, Discard(a) PROVE Justified'
    BY <1>0, <1>39, MovesOutcome DEF OutcomeInv, IInv, TypeOK, Justified, Built, Bound,
      Located, CleansQuietly, CommandIsOwners, NothingYet, Explained, Unnamed, Unattested,
      Settled, Made,
      OursOrReplaced, Guarding, OwnerLive, AfterClosure, Running, FilesType, EngineType,
      Discard, Cleans, Place, Commands, Callbacks, Legacy, Phases, Teardown, Ended
  <1>40. ASSUME NEW a \in {"guard", "owner"}, Erase(a) PROVE Justified'
    BY <1>0, <1>40, MovesOutcome DEF OutcomeInv, IInv, TypeOK, Justified, Built, Bound,
      Located, CleansQuietly, CommandIsOwners, NothingYet, Explained, Unnamed, Unattested,
      Settled, Made,
      OursOrReplaced, Guarding, OwnerLive, AfterClosure, Running, FilesType, EngineType, Erase,
      Cleans, Place, Commands, Callbacks, Legacy, Phases, Teardown, Ended
  <1>41. ASSUME NEW a \in {"guard", "owner"}, Refuse(a) PROVE Justified'
    BY <1>0, <1>41, RefuseOutcome DEF OutcomeInv, IInv, Justified, Built, Bound, Located,
      CleansQuietly, CommandIsOwners, NothingYet, Explained, Unnamed, Unattested, Settled, Made,
      OursOrReplaced, Guarding, OwnerLive, AfterClosure, Running, Refused, Stage, Consistent,
      Resolved, Knows, Place, AllOver, TypeOK, EngineType, FilesType, GuardType, Commands,
      Callbacks, Legacy, Phases, Teardown, Ended
  <1>42. CASE Acknowledge \/ LoseAck \/ Tamper \/ Tick
    BY <1>0, <1>42 DEF OutcomeInv, Justified, Explained, Unnamed, Unattested, Settled, Made,
      OursOrReplaced, Guarding, OwnerLive, AfterClosure, Running, Acknowledge, LoseAck, Tamper,
      Tick
  <1>43. CASE UNCHANGED vars
    BY <1>0, <1>43 DEF vars, OutcomeInv, Justified, Explained, Unnamed, Unattested, Settled, Made,
      OursOrReplaced, Guarding, OwnerLive, AfterClosure, Running
  <1> QED
    BY <1>1, <1>2, <1>3, <1>4, <1>5, <1>6, <1>7, <1>8, <1>9, <1>10, <1>11, <1>12, <1>13, <1>14,
      <1>15, <1>16, <1>17, <1>18, <1>19, <1>20, <1>21, <1>22, <1>23, <1>24, <1>25, <1>26,
      <1>27, <1>28, <1>29, <1>30, <1>31, <1>32, <1>33, <1>34, <1>35, <1>36, <1>37, <1>38,
      <1>39, <1>40, <1>41, <1>42, <1>43 DEF Next, OwnerStep, WorkStep, GuardStep, World, Clean

LEMMA InitOutcome == Init => OutcomeInv
  BY InitInv DEF Init, OutcomeInv, Confirmed, Aligned, Employed, Built, Bound, Located,
    Justified, Stacked, Readied, Attested, Guarding, NoConn, Commands, BeforeClosure, Phases, Callbacks, Legacy

LEMMA StepOutcome == OutcomeInv /\ [Next]_vars => OutcomeInv'
  <1>1. OutcomeInv => IInv
    BY DEF OutcomeInv
  <1> QED
    BY <1>1, StepInv, ConfirmedStep, AlignedStep, EmployedStep, BuiltStep, BoundStep,
      StackedStep, ReadiedStep, AttestedStep, GuardLocatedStep, OwnerLocatedStep,
      JustifiedStep DEF OutcomeInv

(***************************************************************************)
(* Only the end of its clean-up, or a refusal, takes an owner out of it.   *)
(***************************************************************************)
LEMMA EndsRecovery ==
  ASSUME TypeOK, [Next]_vars, owner.pc \in Teardown, owner'.pc = "failed"
  PROVE  Erase("owner") \/ Refuse("owner")
  <1>0. owner' # owner /\ owner.pc # "failed"
    BY DEF Teardown
  <1>1. ASSUME OwnerStep PROVE FALSE
    BY <1>1, <1>0 DEF OwnerStep, Prepare, SpawnGuard, AwaitReady, StartCommand, CollectCommand,
      Ask, Answered, GiveUp, Recover, AskAgain, AwaitGuard, At, Teardown, Commands, Phases,
      Callbacks, Legacy, TypeOK, ConnType
  <1>2. ASSUME WorkStep PROVE FALSE
    BY <1>2, <1>0 DEF WorkStep, CreateVolume, LoadProfile, VerifyLabel, CreateContainer, WriteCid,
      Acknowledge, LoseAck
  <1>3. ASSUME GuardStep PROVE FALSE
    <2>1. CASE StopWork
      BY <1>0, <2>1, StopWorkOutcome DEF Teardown
    <2>2. CASE ~StopWork
      BY <1>3, <1>0, <2>2 DEF GuardStep, Start, Announce, Snapshot, Expire, ReceiveNothing,
        Receive, Verify, Bind, Send, Lease, Confirm, Finish
    <2> QED
      BY <2>1, <2>2
  <1>4. ASSUME World PROVE FALSE
    <2>1. CASE KillOwner
      BY <1>0, <2>1, KillOwnerOutcome
    <2>2. CASE Reap
      BY <1>0, <2>2 DEF Reap, TypeOK, OwnerType
    <2> QED
      BY <1>4, <1>0, <2>1, <2>2 DEF World, KillGuard, Cancel, Tamper, Replace, Tick
  <1>5. ASSUME NEW a \in {"guard", "owner"},
               Identify(a) \/ Remove(a) \/ Absent(a) \/ Unload(a) \/ Unmake(a) \/ Discard(a)
        PROVE  FALSE
    <2>1. PICK place \in {"remove", "absent", "unload", "unmake", "discard", "erase"} :
            Moves(a, place)
      BY <1>5 DEF Identify, Remove, Absent, Unload, Unmake, Discard
    <2> QED
      BY <1>0, <2>1, MovesOutcome
  <1>6. ASSUME NEW a \in {"guard", "owner"}, Erase(a) \/ Refuse(a) PROVE a = "owner"
    BY <1>0, <1>6 DEF Erase, Refuse, Moves
  <1> QED
    BY <1>0, <1>1, <1>2, <1>3, <1>4, <1>5, <1>6 DEF Next, Clean, vars

LEMMA RecoveryStep ==
  ASSUME OutcomeInv, [Next]_vars, engine.verified, Forsakes
  PROVE  FALSE
  <1>1. /\ TypeOK /\ clock # AllOver
        /\ "tamper" \notin trouble /\ "refuse" \notin trouble' /\ "replace" \notin trouble
    <2>1. TypeOK /\ trouble \subseteq trouble'
      BY Persists DEF OutcomeInv, IInv, TypeOK
    <2> QED
      BY <2>1 DEF Forsakes, AllOver
  <1>2. engine.container # "other" /\ engine.container \in {"none", "ours", "other"}
    BY <1>1 DEF OutcomeInv, Justified, TypeOK, EngineType
  <1>3. engine.container = "ours" \/ engine.volume \/ engine.profile
    BY <1>2 DEF Forsakes
  <1>4. files.bound /\ files.cid = "valid"
    BY <1>3 DEF OutcomeInv, Attested, Bound, Cleared
  <1>5. ~Erase("owner")
    BY <1>3 DEF Erase, Place, OutcomeInv, IInv, Stage
  <1>6. ~Refuse("owner")
    <2>1. ASSUME Refused("owner") PROVE FALSE
      BY <1>1, <1>2, <1>4, <2>1 DEF Refused, Place, Consistent, Resolved, OutcomeInv, Located,
        OursOrReplaced
    <2> QED
      BY <1>1, <2>1, RefuseOutcome
  <1> QED
    BY <1>1, <1>5, <1>6, EndsRecovery DEF Forsakes

(***************************************************************************)
(* The theorems.                                                           *)
(***************************************************************************)
\* The inductive invariant of the outcome: what exists for a binding and for a clean-up, who
\* counted which grant, and the reason behind every refusal (owner_lifecycle, owner_ready).
THEOREM OutcomeInvariance == Spec => []OutcomeInv
  BY InitOutcome, StepOutcome, PTL DEF Spec

\* Owner and guard agree on how many lease requests were granted, whatever was lost, delayed
\* or killed before (owner_lease's sequence and the callback's confirmation).
THEOREM SequencesAgreed == Spec => []SequencesAgree
  <1>1. OutcomeInv => SequencesAgree
    BY DEF OutcomeInv, Aligned, SequencesAgree, Guarding, BeforeClosure, Phases, Callbacks,
      Legacy
  <1> QED
    BY <1>1, OutcomeInvariance, PTL

\* A guard that ended on its own has left the record behind only for one of the named
\* reasons; a lost acknowledgement, a cancellation or a killed owner is none of them
\* (owner_lifecycle, cleanup_owner_custody).
THEOREM ResidualsAreExplained == Spec => []ResidualsExplained
  <1>1. OutcomeInv => ResidualsExplained
    BY DEF OutcomeInv, Justified, Explained, Unnamed, Unattested, ResidualsExplained
  <1> QED
    BY <1>1, OutcomeInvariance, PTL

\* Once the profile has been verified, the live owner's own clean-up after the guard was
\* killed, with nothing changed, refused or replaced and before the cleanup deadline, gives up
\* only when nothing it created is left (recover, cleanup_owner_custody).
THEOREM RecoveryRetained == Spec => RecoveryAfterVerify
  <1>1. OutcomeInv /\ [Next]_vars => [engine.verified => ~Forsakes]_vars
    BY RecoveryStep
  <1> QED
    BY <1>1, OutcomeInvariance, PTL DEF Spec, RecoveryAfterVerify

(***************************************************************************)
(* The obligation of CustodyObligation.  Besides the nine steps that       *)
(* touch the engine, one makes the record, one erases it, and one is its   *)
(* change by somebody else; all the others can only raise the bar.         *)
(***************************************************************************)
LEMMA RecordSteps ==
  ASSUME [Next]_vars, ~Prepare, ~(\E a \in {"guard", "owner"} : Erase(a)), TypeOK
  PROVE  files'.custody = files.custody
  <1>0. files \in FilesType
    BY DEF TypeOK
  <1>1. CASE OwnerStep
    BY <1>1 DEF OwnerStep, SpawnGuard, AwaitReady, StartCommand, CollectCommand, Ask, Answered,
      GiveUp, Recover, AskAgain, AwaitGuard
  <1>2. CASE WorkStep
    BY <1>0, <1>2 DEF WorkStep, CreateVolume, LoadProfile, VerifyLabel, CreateContainer, WriteCid,
      Acknowledge, LoseAck, FilesType
  <1>3. CASE GuardStep
    BY <1>0, <1>3 DEF GuardStep, Start, Announce, Snapshot, Expire, ReceiveNothing, Receive,
      Verify, Bind, Send, Lease, Confirm, StopWork, Finish, FilesType
  <1>4. ASSUME NEW a \in {"guard", "owner"}, Clean(a) PROVE files'.custody = files.custody
    BY <1>0, <1>4 DEF Clean, Identify, Remove, Absent, Unload, Unmake, Discard, Refuse,
      FilesType
  <1>5. CASE World
    BY <1>5 DEF World, KillOwner, Reap, KillGuard, Cancel, Tamper, Replace, Tick
  <1>6. CASE UNCHANGED vars
    BY <1>6 DEF vars
  <1> QED
    BY <1>1, <1>2, <1>3, <1>4, <1>5, <1>6 DEF Next

LEMMA ChangeSteps ==
  ASSUME [Next]_vars, ~Tamper
  PROVE  "tamper" \in trouble' <=> "tamper" \in trouble
  <1>1. CASE OwnerStep
    BY <1>1 DEF OwnerStep, Quietly, Happens, Prepare, SpawnGuard, AwaitReady, StartCommand,
      CollectCommand, Ask, Answered, GiveUp, Recover, AskAgain, AwaitGuard
  <1>2. CASE WorkStep
    BY <1>2 DEF WorkStep, Quietly, Happens, CreateVolume, LoadProfile, VerifyLabel, CreateContainer,
      WriteCid, Acknowledge, LoseAck
  <1>3. CASE GuardStep
    BY <1>3 DEF GuardStep, Quietly, Happens, Stopped, NotStopped, Start, Announce, Snapshot,
      Expire, ReceiveNothing, Receive, Verify, Bind, Send, Lease, Confirm, StopWork, Finish
  <1>4. ASSUME NEW a \in {"guard", "owner"}, Clean(a)
        PROVE  "tamper" \in trouble' <=> "tamper" \in trouble
    BY <1>4 DEF Clean, Quietly, Happens, Identify, Remove, Absent, Unload, Unmake, Discard,
      Erase, Refuse
  <1>5. CASE World
    BY <1>5 DEF World, Quietly, Happens, KillOwner, Reap, KillGuard, Cancel, Replace, Tick
  <1>6. CASE UNCHANGED vars
    BY <1>6 DEF vars
  <1> QED
    BY <1>1, <1>2, <1>3, <1>4, <1>5, <1>6 DEF Next

\* A command finds what it builds on.
LEMMA CommandsStack ==
  ASSUME OutcomeInv, work # "none"
  PROVE  /\ files.custody /\ ~Settled
         /\ work \in {"profile", "create"} => engine.volume
         /\ work = "create" => engine.profile
  BY DEF OutcomeInv, IInv, Custodial, Employed, Stacked, Settled, Commands

LEMMA MakeSteps ==
  ASSUME OutcomeInv, CreateVolume \/ LoadProfile \/ CreateContainer
  PROVE  \E x \in Duty!Resources : Duty!Make(x)
  <1>0. /\ engine \in EngineType /\ work # "none"
        /\ files' = files /\ trouble' = trouble /\ Settled' \in BOOLEAN
    BY DEF OutcomeInv, IInv, TypeOK, CreateVolume, LoadProfile, CreateContainer,
      Quietly, Settled
  <1>1. CASE CreateVolume
    <2>1. Duty!Make("volume")
      BY <1>0, <1>1, CommandsStack DEF CreateVolume, EngineType, Existing, Usurped, Duty!Make
    <2> QED
      BY <2>1 DEF Duty!Resources
  <1>2. CASE LoadProfile
    <2>1. Duty!Make("profile")
      BY <1>0, <1>2, CommandsStack DEF LoadProfile, EngineType, Existing, Usurped,
        Duty!Make
    <2> QED
      BY <2>1 DEF Duty!Resources
  <1>3. CASE CreateContainer
    <2>1. Duty!Make("container")
      BY <1>0, <1>3, CommandsStack DEF CreateContainer, EngineType, Existing, Usurped, Duty!Make
    <2> QED
      BY <2>1 DEF Duty!Resources
  <1> QED
    BY <1>1, <1>2, <1>3

\* A removed profile is unmade, also where its receipt is refused.
LEMMA UnloadStep ==
  ASSUME OutcomeInv, NEW a \in {"guard", "owner"}, Cleans(a, "unload"), Settled',
         engine' = [engine EXCEPT !.profile = FALSE], files' = files, "tamper" \notin trouble'
  PROVE  (\E x \in Duty!Resources : Duty!Unmake(x)) \/ UNCHANGED Duty!vars
  <1>0. /\ engine \in EngineType /\ "tamper" \notin trouble
        /\ Place(a) = "unload" /\ Place(a) \in Teardown
    BY DEF OutcomeInv, IInv, TypeOK, Cleans, Teardown
  <1>1. Settled /\ Stage(Place(a))
    BY <1>0, CleanersSettle
  <1>2. Existing # {} => files.custody
    BY DEF OutcomeInv, IInv, Custodial, Existing
  <1>3. Existing' = Existing \ {"profile"} /\ Usurped' = Usurped /\ "container" \notin Existing
    BY <1>0, <1>1 DEF EngineType, Existing, Usurped, Stage
  <1>4. CASE "profile" \in Existing
    <2>1. Duty!Unmake("profile")
      BY <1>0, <1>1, <1>2, <1>3, <1>4 DEF Existing, Duty!Unmake
    <2> QED
      BY <2>1 DEF Duty!Resources
  <1>5. CASE "profile" \notin Existing
    <2>1. Existing' = Existing
      BY <1>3, <1>5
    <2> QED
      BY <1>0, <1>1, <1>3, <2>1 DEF Duty!vars
  <1> QED
    BY <1>4, <1>5

LEMMA UnmakeSteps ==
  ASSUME OutcomeInv, NEW a \in {"guard", "owner"}, Remove(a) \/ Unload(a) \/ Unmake(a),
         Settled'
  PROVE  (\E x \in Duty!Resources : Duty!Unmake(x)) \/ UNCHANGED Duty!vars
  <1>0. /\ engine \in EngineType
        /\ files' = files /\ trouble' = trouble /\ "tamper" \notin trouble
        /\ Place(a) \in Teardown
    BY DEF OutcomeInv, IInv, TypeOK, Remove, Unload, Unmake, Cleans, Quietly, Teardown
  <1>1. Settled /\ Stage(Place(a))
    BY <1>0, CleanersSettle
  <1>2. Existing # {} => files.custody
    BY DEF OutcomeInv, IInv, Custodial, Existing
  <1>3. CASE Remove(a)
    <2>1. "container" \in Existing /\ Existing' = Existing \ {"container"} /\ Usurped' = Usurped
      BY <1>0, <1>3 DEF Remove, EngineType, Existing, Usurped
    <2>2. Duty!Unmake("container")
      BY <1>0, <1>1, <1>2, <2>1 DEF Existing, Duty!Unmake
    <2> QED
      BY <2>2 DEF Duty!Resources
  <1>4. CASE Unload(a)
    BY <1>0, <1>4, UnloadStep DEF Unload
  <1>5. CASE Unmake(a)
    <2>1. /\ Existing' = Existing \ {"volume"} /\ Usurped' = Usurped
          /\ "container" \notin Existing /\ "profile" \notin Existing
      BY <1>0, <1>1, <1>5 DEF Unmake, Cleans, EngineType, Existing, Usurped, Stage
    <2>2. CASE "volume" \in Existing
      <3>1. Duty!Unmake("volume")
        BY <1>0, <1>1, <1>2, <2>1, <2>2 DEF Existing, Duty!Unmake
      <3> QED
        BY <3>1 DEF Duty!Resources
    <2>3. CASE "volume" \notin Existing
      <3>1. Existing' = Existing
        BY <2>1, <2>3
      <3> QED
        BY <1>0, <1>1, <2>1, <3>1 DEF Duty!vars
    <2> QED
      BY <2>2, <2>3
  <1> QED
    BY <1>3, <1>4, <1>5

LEMMA TakeStep ==
  ASSUME OutcomeInv, Replace
  PROVE  \E x \in Duty!Resources : Duty!Take(x)
  <1>1. /\ engine \in EngineType /\ files' = files
        /\ trouble' = trouble \cup {"replace"} /\ Settled' = Settled
    BY DEF OutcomeInv, IInv, TypeOK, Replace, Happens, Settled, OwnerLive
  <1>2. /\ "container" \in Existing /\ Existing' = Existing \ {"container"}
        /\ Usurped' = Usurped \cup {"container"}
    BY <1>1 DEF Replace, EngineType, Existing, Usurped
  <1>3. Duty!Take("container")
    BY <1>1, <1>2 DEF Duty!Take
  <1> QED
    BY <1>3 DEF Duty!Resources

LEMMA EraseStep ==
  ASSUME OutcomeInv, NEW a \in {"guard", "owner"}, Erase(a), Settled'
  PROVE  Duty!Discharge \/ UNCHANGED Duty!vars
  <1>1. /\ Place(a) = "erase" /\ engine' = engine /\ trouble' = trouble
        /\ files'.custody = FALSE /\ files.custody \in BOOLEAN
    BY DEF OutcomeInv, IInv, TypeOK, FilesType, Erase, Quietly
  <1>2. Settled /\ Stage("erase")
    BY <1>1, CleanersSettle DEF Teardown
  <1>3. Existing = {}
    BY <1>2 DEF Stage, Existing
  <1>4. Existing' = Existing /\ Usurped' = Usurped
    BY <1>1 DEF Existing, Usurped
  <1> QED
    BY <1>1, <1>2, <1>3, <1>4 DEF Duty!Discharge, Duty!vars

LEMMA DutyStep ==
  ASSUME OutcomeInv, [Next]_vars
  PROVE  [Duty!Next]_Duty!vars
  <1>0. TypeOK /\ (Settled => Settled') /\ Settled \in BOOLEAN /\ Settled' \in BOOLEAN
    BY SettledStep DEF OutcomeInv, IInv, Settled
  <1>1. CASE CreateVolume \/ LoadProfile \/ CreateContainer
    BY <1>1, MakeSteps DEF Duty!Next
  <1>2. ASSUME NEW a \in {"guard", "owner"}, Remove(a) \/ Unload(a) \/ Unmake(a)
        PROVE  [Duty!Next]_Duty!vars
    <2>1. Settled
      BY <1>2, CleanersSettle DEF Remove, Unload, Unmake, Cleans, Teardown
    <2> QED
      BY <1>0, <1>2, <2>1, UnmakeSteps DEF Duty!Next
  <1>3. ASSUME NEW a \in {"guard", "owner"}, Refuse(a), Cleans(a, "unload"),
               engine' = [engine EXCEPT !.profile = FALSE]
        PROVE  [Duty!Next]_Duty!vars
    <2>1. Settled /\ files' = files
      BY <1>3, CleanersSettle DEF Refuse
    <2>2. "tamper" \notin trouble'
      BY <1>3 DEF Refuse, Cleans, Quietly, Happens
    <2> QED
      BY <1>0, <1>3, <2>1, <2>2, UnloadStep DEF Duty!Next
  <1>4. CASE Replace
    BY <1>4, TakeStep DEF Duty!Next
  <1>5. ASSUME NEW a \in {"guard", "owner"}, Erase(a)
        PROVE  [Duty!Next]_Duty!vars
    <2>1. Settled
      BY <1>5, CleanersSettle DEF Erase, Teardown
    <2> QED
      BY <1>0, <1>5, <2>1, EraseStep DEF Duty!Next
  <1>6. ASSUME engine' = engine PROVE UNCHANGED <<Existing, Usurped>>
    BY <1>6 DEF Existing, Usurped
  <1>7. CASE VerifyLabel
    <2>1. Existing' = Existing /\ Usurped' = Usurped
      BY <1>0, <1>7 DEF VerifyLabel, TypeOK, EngineType, Existing, Usurped
    <2>2. UNCHANGED <<files, trouble>>
      BY <1>7 DEF VerifyLabel, Quietly
    <2> QED
      BY <1>0, <2>1, <2>2 DEF Duty!Next, Duty!Bar, Duty!vars
  <1>8. CASE Prepare
    <2>1. /\ files'.custody = TRUE /\ engine' = engine /\ trouble' = trouble
          /\ ~Settled /\ ~Settled'
      BY <1>0, <1>8 DEF TypeOK, FilesType, OwnerType, Prepare, At, Goto, Quietly, Settled,
        OwnerLive, AfterClosure, Teardown
    <2>2. files.custody \in BOOLEAN
      BY <1>0 DEF TypeOK, FilesType
    <2> QED
      BY <1>0, <1>6, <2>1, <2>2 DEF Duty!Next, Duty!Undertake, Duty!vars
  <1>9. CASE Tamper
    <2>1. /\ files.custody /\ "tamper" \in trouble' /\ engine' = engine /\ files' = files
          /\ Settled' = Settled
      BY <1>9 DEF Tamper, Happens, Settled, OwnerLive
    <2> QED
      BY <1>6, <2>1 DEF Duty!Next, Duty!Change
  <1>10. CASE /\ engine' = engine /\ ~Prepare /\ ~Tamper
             /\ ~(\E a \in {"guard", "owner"} : Erase(a))
    <2>1. /\ files'.custody = files.custody
          /\ "tamper" \notin trouble' <=> "tamper" \notin trouble
      BY <1>0, <1>10, RecordSteps, ChangeSteps
    <2> QED
      BY <1>0, <1>6, <1>10, <2>1 DEF Duty!Next, Duty!Bar, Duty!vars
  <1> QED
    BY <1>1, <1>2, <1>4, <1>5, <1>8, <1>9, <1>10, <1>3, <1>7, EngineSteps

\* Owner, guard and commands together keep the obligation, whichever of them dies and
\* whatever the others find (prepare_owner_custody, owner_stop_work, cleanup_owner_custody).
THEOREM ObligationKept == Spec => KeepsObligation
  <1>1. Init => Duty!Init
    BY DEF Init, Duty!Init, Existing, Usurped, Settled, OwnerLive, AfterClosure, Teardown
  <1>2. OutcomeInv /\ [Next]_vars => [Duty!Next]_Duty!vars
    BY DutyStep
  <1> QED
    BY <1>1, <1>2, OutcomeInvariance, PTL DEF Spec, KeepsObligation, Duty!Spec

-----------------------------------------------------------------------------
(* A guard that has lost its owner ends.                                     *)

\* The places of the guard in the order in which it leaves them without an owner; a refused
\* clean-up and an unanswered closure lead once more through owner_stop_work.
GuardLeft ==
  CASE guard.pc \in {"start", "bind"} -> 13
    [] guard.pc \in {"announce", "send"} -> 12
    [] guard.pc \in {"loop", "verify", "lease", "confirm"} -> 11
    [] guard.pc = "stop" -> IF guard.why = "abort" THEN 1 ELSE 10
    [] guard.pc = "identify" -> 9
    [] guard.pc = "remove"   -> 8
    [] guard.pc = "absent"   -> 7
    [] guard.pc = "unload"   -> 6
    [] guard.pc = "unmake"   -> 5
    [] guard.pc = "discard"  -> 4
    [] guard.pc = "erase"    -> 3
    [] guard.pc = "removed"  -> 2
    [] OTHER -> 0

GuardActs == GuardStep \/ Clean("guard")

LEMMA OrphanStep ==
    ASSUME TypeOK, ~OwnerLive, GuardActs
    PROVE  GuardLeft' < GuardLeft
<1> USE DEF TypeOK, GuardType, GuardLeft, GuardAt, Leave, Poison, Quietly
<1>1. Interrupted /\ Expired BY DEF Interrupted, Expired
<1>2. CASE Start BY <1>2 DEF Start
<1>3. CASE Announce BY <1>3 DEF Announce
<1>4. CASE Snapshot \/ ReceiveNothing \/ Receive
  BY <1>1, <1>4 DEF Snapshot, ReceiveNothing, Receive
<1>5. CASE Expire BY <1>5 DEF Expire
<1>6. CASE Verify
  <2>1. guard.pc = "verify" /\ guard'.pc = "stop" BY <1>1, <1>6 DEF Verify
  <2> QED BY <2>1
<1>7. CASE Bind BY <1>7 DEF Bind
<1>8. CASE Send
  <2>1. guard.pc = "send" /\ guard'.pc = "stop" BY <1>1, <1>8 DEF Send
  <2> QED BY <2>1
<1>9. CASE Lease
  <2>1. Poison BY <1>1, <1>9 DEF Lease, Grants
  <2> QED BY <1>9, <2>1 DEF Lease
<1>10. CASE Confirm
  <2>1. Poison BY <1>1, <1>10 DEF Confirm
  <2> QED BY <1>10, <2>1 DEF Confirm
<1>11. CASE StopWork
  <2>1. /\ guard.pc = "stop"
        /\ guard'.pc = "failed" \/ (guard'.pc = "identify" /\ guard.why # "abort")
    <3>1. CASE Stopped BY <1>11, <3>1 DEF StopWork, Stopped
    <3>2. CASE NotStopped
      <4>1. guard' = [guard EXCEPT !.lease = ClosedLease, !.pc = "failed"] BY <3>2 DEF NotStopped
      <4> QED BY <1>11, <4>1 DEF StopWork
    <3> QED BY <1>11, <3>1, <3>2 DEF StopWork
  <2> QED BY <2>1
<1>12. CASE Finish
  <2>1. /\ guard.pc = "removed"
        /\ guard'.pc \in {"closed", "failed"} \/ (guard'.pc = "stop" /\ guard'.why = "abort")
    BY <1>12 DEF Finish
  <2> QED BY <2>1
<1>13. CASE Clean("guard")
  <2> USE DEF Place, Moves, Cleans, Teardown
  <2>1. CASE Identify("guard") BY <2>1 DEF Identify
  <2>2. CASE Remove("guard") BY <2>2 DEF Remove
  <2>3. CASE Absent("guard") BY <2>3 DEF Absent
  <2>4. CASE Unload("guard") BY <2>4 DEF Unload
  <2>5. CASE Unmake("guard") BY <2>5 DEF Unmake
  <2>6. CASE Discard("guard") BY <2>6 DEF Discard
  <2>7. CASE Erase("guard") BY <2>7 DEF Erase
  <2>8. CASE Refuse("guard")
    <3>1. guard.pc \in Teardown BY <2>8 DEF Refuse
    <3>2. guard'.pc = "stop" /\ guard'.why = "abort" BY <2>8 DEF Refuse
    <3> QED BY <3>1, <3>2
  <2> QED BY <1>13, <2>1, <2>2, <2>3, <2>4, <2>5, <2>6, <2>7, <2>8 DEF Clean
<1> QED
  BY <1>2, <1>3, <1>4, <1>5, <1>6, <1>7, <1>8, <1>9, <1>10, <1>11, <1>12, <1>13
     DEF GuardActs, GuardStep

\* Nobody else sends the guard back, and a dead owner stays dead.
LEMMA OrphanFrame ==
    ASSUME TypeOK, ~OwnerLive, [Next]_vars, ~GuardActs
    PROVE  GuardLeft' <= GuardLeft /\ ~OwnerLive'
<1> USE DEF TypeOK, OwnerType, GuardType, OwnerLive
<1>0. GuardLeft \in Nat BY DEF GuardLeft
<1>1. CASE OwnerStep
  BY <1>1 DEF OwnerStep, At, Prepare, SpawnGuard, AwaitReady, StartCommand, CollectCommand, Ask,
              Answered, GiveUp, Recover, AskAgain, AwaitGuard
<1>2. CASE WorkStep
  <2>1. UNCHANGED <<owner, guard>>
    BY <1>2 DEF WorkStep, CreateVolume, LoadProfile, VerifyLabel, CreateContainer, WriteCid,
      Acknowledge,
                LoseAck
  <2> QED BY <1>0, <2>1 DEF GuardLeft
<1>3. CASE Clean("owner")
  BY <1>3 DEF Clean, Identify, Remove, Absent, Unload, Unmake, Discard, Erase, Refuse, Cleans,
              Active
<1>4. CASE World
  <2>1. ~KillOwner BY DEF KillOwner
  <2>2. CASE Reap \/ Tamper \/ Replace \/ Tick
    <3>1. guard' = guard /\ owner'.proc \in {owner.proc, "gone"}
      BY <2>2 DEF Reap, Tamper, Replace, Tick
    <3> QED BY <1>0, <3>1 DEF GuardLeft
  <2>3. CASE KillGuard
    <3>1. guard'.pc = "killed" /\ owner' = owner BY <2>3 DEF KillGuard
    <3> QED BY <1>0, <3>1 DEF GuardLeft
  <2>4. CASE Cancel
    <3>1. guard'.pc = guard.pc /\ guard'.why = guard.why /\ owner' = owner
      BY <2>4 DEF Cancel
    <3> QED BY <1>0, <3>1 DEF GuardLeft
  <2> QED BY <1>4, <2>1, <2>2, <2>3, <2>4 DEF World
<1>5. CASE UNCHANGED vars BY <1>0, <1>5 DEF vars, GuardLeft
<1> QED BY <1>1, <1>2, <1>3, <1>4, <1>5 DEF Next, GuardActs

LEMMA OrphanStays ==
    ASSUME TypeOK, ~OwnerLive, GuardActs
    PROVE  ~OwnerLive'
BY DEF TypeOK, OwnerType, OwnerLive, GuardActs, GuardStep, Start, Announce, Snapshot, Expire,
   ReceiveNothing, Receive, Verify, Bind, Send, Lease, Confirm, StopWork, Stopped, NotStopped,
   Killed, Finish, Clean, Identify, Remove, Absent, Unload, Unmake, Discard, Erase, Refuse, Moves

\* Once the owner is dead, each step of the guard brings it nearer to its end, a natural
\* number of at most 13, and no fault and no clock sends it back: it neither waits for
\* another request nor begins a clean-up anew (owner_lifecycle, cleanup_owner_custody).
THEOREM OrphanEnds ==
    Spec => /\ [](GuardLeft \in 0 .. 13)
            /\ [][~OwnerLive => /\ ~OwnerLive'
                                /\ GuardLeft' <= GuardLeft
                                /\ GuardActs => GuardLeft' < GuardLeft]_vars
<1>1. GuardLeft \in 0 .. 13 BY DEF GuardLeft
<1>2. TypeOK /\ [Next]_vars =>
        [~OwnerLive => /\ ~OwnerLive'
                       /\ GuardLeft' <= GuardLeft
                       /\ GuardActs => GuardLeft' < GuardLeft]_vars
  <2>1. (GuardLeft \in 0 .. 13)' BY DEF GuardLeft
  <2>2. GuardLeft' < GuardLeft => GuardLeft' <= GuardLeft BY <1>1, <2>1
  <2> QED BY <2>2, OrphanStep, OrphanFrame, OrphanStays
<1> QED BY <1>1, <1>2, TypeCorrect, PTL DEF Spec

===============================================================================
