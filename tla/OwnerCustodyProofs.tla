------------------------- MODULE OwnerCustodyProofs -------------------------
(***************************************************************************)
(* Proofs about OwnerCustody.  The type step comes first, action by        *)
(* action; then what the larger steps of the guard do; then one lemma for  *)
(* each conjunct of the inductive invariant, with a step for every action  *)
(* that changes a variable the conjunct reads and one step for all others. *)
(***************************************************************************)
EXTENDS OwnerCustody, TLAPS

LEMMA LeaveTyped ==
  ASSUME guard \in GuardType, NEW why \in {"expiry", "recover", "close", "abort"}, Leave(why)
  PROVE  guard' \in GuardType
  BY DEF GuardType, Teardown, Ended, Leave

LEMMA GoesTyped ==
  ASSUME guard \in GuardType,
         NEW place \in {"loop", "verify", "bind", "send", "lease", "closed", "failed"},
         guard' = [guard EXCEPT !.pc = place]
  PROVE  guard' \in GuardType
  BY DEF GuardType, Teardown, Ended

LEMMA PoisonTyped ==
  ASSUME guard \in GuardType, Poison PROVE guard' \in GuardType
  BY DEF GuardType, Teardown, Ended, Poison, ClosedLease

LEMMA HangupTyped ==
  ASSUME conn \in ConnType PROVE Hangup \in ConnType
  BY MaxChecksAssumption DEF ConnType, NoConn, Hangup, Phases, Callbacks, Legacy

LEMMA TypeStep == TypeOK /\ Counted /\ [Next]_vars => TypeOK'
  <1> SUFFICES ASSUME TypeOK, Counted, [Next]_vars PROVE TypeOK'
    OBVIOUS
  <1> USE MaxChecksAssumption
  <1>1. CASE Prepare
    <2>1. owner' \in OwnerType
      BY <1>1 DEF TypeOK, OwnerType, Commands, Callbacks, Legacy, Phases, Teardown, Ended,
        Prepare, At, Goto, Quietly
    <2>2. files' \in FilesType
      BY <1>1 DEF TypeOK, FilesType, Prepare, At, Goto, Quietly
    <2> QED
      BY <1>1, <2>1, <2>2 DEF TypeOK, Prepare, Quietly
  <1>2. CASE SpawnGuard
    <2>1. owner' \in OwnerType
      BY <1>2 DEF TypeOK, OwnerType, Commands, Callbacks, Legacy, Phases, Teardown, Ended,
        SpawnGuard, At, Goto, Quietly
    <2>2. guard' \in GuardType
      BY <1>2 DEF TypeOK, GuardType, Teardown, Ended, SpawnGuard, At, Goto, Quietly
    <2> QED
      BY <1>2, <2>1, <2>2 DEF TypeOK, SpawnGuard, Quietly
  <1>3. CASE AwaitReady
    <2>1. owner' \in OwnerType
      BY <1>3 DEF TypeOK, OwnerType, Commands, Callbacks, Legacy, Phases, Teardown, Ended,
        AwaitReady, At, Goto, Quietly
    <2> QED
      BY <1>3, <2>1 DEF TypeOK, AwaitReady, Quietly
  <1>4. CASE StartCommand
    <2>1. owner' \in OwnerType
      BY <1>4 DEF TypeOK, OwnerType, Commands, Callbacks, Legacy, Phases, Teardown, Ended,
        StartCommand, At, Quietly
    <2>2. guard' \in GuardType
      BY <1>4 DEF TypeOK, GuardType, Teardown, Ended, StartCommand, At, Quietly, Commands
    <2>3. work' \in {"none", "created"} \cup Commands
      BY <1>4 DEF TypeOK, Commands, StartCommand, At, Quietly
    <2> QED
      BY <1>4, <2>1, <2>2, <2>3 DEF TypeOK, StartCommand, Quietly
  <1>5. CASE CollectCommand
    <2>1. owner' \in OwnerType
      BY <1>5 DEF TypeOK, OwnerType, Commands, Callbacks, Legacy, Phases, Teardown, Ended,
        CollectCommand, Following, Quietly
    <2> QED
      BY <1>5, <2>1 DEF TypeOK, CollectCommand, Quietly
  <1>6. CASE Ask
    <2>0. owner.seq \in 0 .. MaxChecks + 2
      BY DEF TypeOK, OwnerType, Commands, Callbacks, Legacy, Phases, Teardown, Ended
    <2>1. owner' \in OwnerType
      BY <1>6 DEF TypeOK, OwnerType, Commands, Callbacks, Legacy, Phases, Teardown, Ended, Ask,
        At, Quietly, Running
    <2>2. guard' \in GuardType
      BY <1>6 DEF TypeOK, GuardType, Teardown, Ended, Ask, At, Quietly, Phases, Callbacks,
        Legacy, Running
    <2>3. conn' \in ConnType
      BY <1>6, <2>0 DEF TypeOK, ConnType, Ask
    <2> QED
      BY <1>6, <2>1, <2>2, <2>3 DEF TypeOK, Ask, Quietly
  <1>7. CASE Answered
    <2>1. owner' \in OwnerType
      <3>0. Following(owner.pc) \in Commands \cup Phases \cup {"wait"}
              /\ (owner.pc \in Callbacks => owner.seq + 1 \in 0 .. MaxChecks + 2)
        BY <1>7 DEF TypeOK, OwnerType, ConnType, Commands, Callbacks, Legacy, Phases, Teardown,
          Answered, Following, Counted, BeforeClosure
      <3>a. CASE owner.pc \in Callbacks
        <4>1. owner' = [owner EXCEPT !.pc = Following(owner.pc), !.busy = FALSE, !.seq =
          owner.seq + 1]
          BY <1>7, <3>a DEF Answered, TypeOK, OwnerType
        <4> QED
          BY <3>0, <3>a, <4>1 DEF TypeOK, OwnerType
      <3>b. CASE owner.pc \notin Callbacks
        <4>1. owner' = [owner EXCEPT !.pc = Following(owner.pc), !.busy = FALSE]
          BY <1>7, <3>b DEF Answered, TypeOK, OwnerType
        <4> QED
          BY <3>0, <4>1 DEF TypeOK, OwnerType
      <3> QED
        BY <3>a, <3>b
    <2>2. conn' \in ConnType
      BY <1>7 DEF TypeOK, ConnType, NoConn, Phases, Callbacks, Legacy, Answered, Following, Quietly
    <2> QED
      BY <1>7, <2>1, <2>2 DEF TypeOK, Answered, Quietly
  <1>8. CASE GiveUp
    <2>1. owner' \in OwnerType
      BY <1>8 DEF TypeOK, OwnerType, Commands, Callbacks, Legacy, Phases, Teardown, Ended,
        GiveUp, Goto, Quietly, Happens, Hangup, NoConn
    <2>2. conn' \in ConnType
      BY <1>8, HangupTyped DEF TypeOK, GiveUp
    <2>3. work' \in {"none", "created"} \cup Commands
      BY <1>8 DEF TypeOK, Commands, GiveUp, Goto, Quietly, Happens, Hangup, Legacy, NoConn
    <2>4. left' \subseteq Faults
      BY <1>8 DEF TypeOK, GiveUp, Goto, Quietly, Happens, Hangup, Legacy, NoConn
    <2>5. trouble' \subseteq Faults \cup {"escape"}
      BY <1>8 DEF TypeOK, GiveUp, Goto, Quietly, Happens, Hangup, Legacy, NoConn
    <2> QED
      BY <1>8, <2>1, <2>2, <2>3, <2>4, <2>5 DEF TypeOK, GiveUp, Quietly
  <1>9. CASE Recover
    <2>1. owner' \in OwnerType
      BY <1>9 DEF TypeOK, OwnerType, Commands, Callbacks, Legacy, Phases, Teardown, Ended,
        Recover, At, Quietly
    <2> QED
      BY <1>9, <2>1 DEF TypeOK, Recover, Quietly
  <1>10. CASE AskAgain
    <2>0. owner.seq \in 0 .. MaxChecks + 2
      BY DEF TypeOK, OwnerType, Commands, Callbacks, Legacy, Phases, Teardown, Ended
    <2>1. owner' \in OwnerType
      BY <1>10 DEF TypeOK, OwnerType, Commands, Callbacks, Legacy, Phases, Teardown, Ended,
        AskAgain, At, Quietly
    <2>2. conn' \in ConnType
      BY <1>10, <2>0 DEF TypeOK, ConnType, Phases, Legacy, AskAgain
    <2> QED
      BY <1>10, <2>1, <2>2 DEF TypeOK, AskAgain, Quietly
  <1>11. CASE AwaitGuard
    <2>1. owner' \in OwnerType
      BY <1>11 DEF TypeOK, OwnerType, Commands, Callbacks, Legacy, Phases, Teardown, Ended,
        AwaitGuard, Goto, Quietly, NoConn
    <2>2. conn' \in ConnType
      BY <1>11 DEF TypeOK, ConnType, NoConn, Phases, Callbacks, Legacy, AwaitGuard, Goto, Quietly
    <2> QED
      BY <1>11, <2>1, <2>2 DEF TypeOK, AwaitGuard, Quietly
  <1>12. CASE CreateVolume
    <2>1. work' \in {"none", "created"} \cup Commands
      BY <1>12 DEF TypeOK, Commands, CreateVolume, Quietly
    <2>2. engine' \in EngineType
      BY <1>12 DEF TypeOK, EngineType, CreateVolume, Quietly
    <2> QED
      BY <1>12, <2>1, <2>2 DEF TypeOK, CreateVolume, Quietly
  <1>13. CASE LoadProfile \/ VerifyLabel
    <2>1. work' \in {"none", "created"} \cup Commands
      BY <1>13 DEF TypeOK, Commands, LoadProfile, VerifyLabel, Quietly
    <2>2. engine' \in EngineType
      BY <1>13 DEF TypeOK, EngineType, LoadProfile, VerifyLabel, Quietly
    <2> QED
      BY <1>13, <2>1, <2>2 DEF TypeOK, LoadProfile, VerifyLabel, Quietly
  <1>14. CASE CreateContainer
    <2>1. work' \in {"none", "created"} \cup Commands
      BY <1>14 DEF TypeOK, Commands, CreateContainer, Quietly
    <2>2. engine' \in EngineType
      BY <1>14 DEF TypeOK, EngineType, CreateContainer, Quietly
    <2> QED
      BY <1>14, <2>1, <2>2 DEF TypeOK, CreateContainer, Quietly
  <1>15. CASE WriteCid
    <2>1. work' \in {"none", "created"} \cup Commands
      BY <1>15 DEF TypeOK, Commands, WriteCid, Quietly
    <2>2. files' \in FilesType
      BY <1>15 DEF TypeOK, FilesType, WriteCid, Quietly
    <2> QED
      BY <1>15, <2>1, <2>2 DEF TypeOK, WriteCid, Quietly
  <1>16. CASE Acknowledge
    <2>1. conn' \in ConnType
      BY <1>16 DEF TypeOK, ConnType, NoConn, Phases, Callbacks, Legacy, Acknowledge, Quietly
    <2> QED
      BY <1>16, <2>1 DEF TypeOK, Acknowledge, Quietly
  <1>17. CASE LoseAck
    <2>1. conn' \in ConnType
      BY <1>17 DEF TypeOK, ConnType, NoConn, Phases, Callbacks, Legacy, LoseAck, Happens
    <2>2. left' \subseteq Faults
      BY <1>17 DEF TypeOK, LoseAck, Happens, Callbacks
    <2>3. trouble' \subseteq Faults \cup {"escape"}
      BY <1>17 DEF TypeOK, LoseAck, Happens, Callbacks
    <2> QED
      BY <1>17, <2>1, <2>2, <2>3 DEF TypeOK, LoseAck, Quietly
  <1>18. CASE Start
    <2>1. guard' \in GuardType
      BY <1>18 DEF TypeOK, GuardType, Teardown, Ended, Start, GuardAt, Quietly
    <2> QED
      BY <1>18, <2>1 DEF TypeOK, Start, Quietly
  <1>19. CASE Announce
    <2>1. guard' \in GuardType
      BY <1>19 DEF TypeOK, GuardType, Teardown, Ended, Announce, GuardAt, Quietly
    <2>2. files' \in FilesType
      BY <1>19 DEF TypeOK, FilesType, Announce, GuardAt, Quietly
    <2> QED
      BY <1>19, <2>1, <2>2 DEF TypeOK, Announce, Quietly
  <1>20. CASE Snapshot
    <2>1. guard' \in GuardType
      BY <1>20 DEF TypeOK, GuardType, Teardown, Ended, Snapshot, GuardAt, Quietly
    <2> QED
      BY <1>20, <2>1 DEF TypeOK, Snapshot, Quietly
  <1>21. CASE Expire
    <2>1. guard' \in GuardType
      BY <1>21 DEF TypeOK, GuardType, Teardown, Ended, Expire, GuardAt, Leave, Quietly
    <2> QED
      BY <1>21, <2>1 DEF TypeOK, Expire, Quietly
  <1>22. CASE ReceiveNothing
    <2>1. guard' \in GuardType
      BY <1>22 DEF TypeOK, GuardType, Teardown, Ended, ReceiveNothing, GuardAt, Leave, Quietly,
        NoConn
    <2>2. conn' \in ConnType
      BY <1>22 DEF TypeOK, ConnType, NoConn, Phases, Callbacks, Legacy, ReceiveNothing,
        GuardAt, Leave, Quietly
    <2> QED
      BY <1>22, <2>1, <2>2 DEF TypeOK, ReceiveNothing, Quietly
  <1>23. CASE Receive
    <2>1. guard' \in GuardType
      BY <1>23, LeaveTyped, GoesTyped DEF TypeOK, Receive
    <2>2. conn' \in ConnType
      BY <1>23 DEF TypeOK, ConnType, NoConn, Phases, Callbacks, Legacy, Receive, GuardAt,
        Leave, Quietly
    <2> QED
      BY <1>23, <2>1, <2>2 DEF TypeOK, Receive, Quietly
  <1>24. CASE Verify
    <2>1. guard' \in GuardType
      BY <1>24, LeaveTyped, GoesTyped DEF TypeOK, Verify
    <2>2. left' \subseteq Faults
      BY <1>24 DEF TypeOK, Verify, GuardAt, Leave, Quietly, Happens
    <2>3. trouble' \subseteq Faults \cup {"escape"}
      BY <1>24 DEF TypeOK, Verify, GuardAt, Leave, Quietly, Happens
    <2> QED
      BY <1>24, <2>1, <2>2, <2>3 DEF TypeOK, Verify, Quietly
  <1>25. CASE Bind
    <2>1. guard' \in GuardType
      BY <1>25 DEF TypeOK, GuardType, Teardown, Ended, Bind, GuardAt, Quietly
    <2>2. files' \in FilesType
      BY <1>25 DEF TypeOK, FilesType, Bind, GuardAt, Quietly
    <2> QED
      BY <1>25, <2>1, <2>2 DEF TypeOK, Bind, Quietly
  <1>26. CASE Send
    <2>1. guard' \in GuardType
      <3>1. CASE Interrupted
        BY <1>26, <3>1, LeaveTyped DEF TypeOK, Send
      <3>2. CASE ~Interrupted /\ conn.at = "gone"
        BY <1>26, <3>2 DEF TypeOK, Send, GuardType
      <3>3. CASE ~Interrupted /\ conn.at # "gone"
        BY <1>26, <3>3, GoesTyped DEF TypeOK, Send
      <3> QED
        BY <3>1, <3>2, <3>3
    <2>2. conn' \in ConnType
      BY <1>26 DEF TypeOK, ConnType, NoConn, Phases, Callbacks, Legacy, Send, GuardAt, Leave,
        Quietly
    <2> QED
      BY <1>26, <2>1, <2>2 DEF TypeOK, Send, Quietly
  <1>27. CASE Lease
    <2>1. guard' \in GuardType
      <3>1. CASE Poison
        BY <3>1, PoisonTyped DEF TypeOK
      <3>2. CASE Quietly /\ Grants /\ ~Poison
        <4>1. guard.seq + 1 \in 0 .. MaxChecks + 2
          <5>1. conn.phase \in Callbacks /\ guard.seq = owner.seq /\ owner.pc \in Callbacks
            BY <3>2 DEF Grants, Counted, Callbacks
          <5>2. owner.seq \in 0 .. MaxChecks + 1
            BY <5>1 DEF TypeOK, OwnerType, Counted, BeforeClosure, Phases, Callbacks
          <5> QED
            BY <5>1, <5>2
        <4> QED
          BY <1>27, <3>2, <4>1 DEF TypeOK, Lease, GuardType
      <3> QED
        BY <1>27, <3>1, <3>2 DEF Lease
    <2>2. conn' \in ConnType
      BY <1>27 DEF TypeOK, ConnType, NoConn, Phases, Callbacks, Legacy, Lease, GuardAt, Grants,
        Poison, ClosedLease, Quietly, Happens
    <2>3. left' \subseteq Faults
      BY <1>27 DEF TypeOK, Lease, GuardAt, Grants, Poison, ClosedLease, Quietly, Happens
    <2>4. trouble' \subseteq Faults \cup {"escape"}
      BY <1>27 DEF TypeOK, Lease, GuardAt, Grants, Poison, ClosedLease, Quietly, Happens
    <2> QED
      BY <1>27, <2>1, <2>2, <2>3, <2>4 DEF TypeOK, Lease, Quietly
  <1>28. CASE Confirm
    <2>1. guard' \in GuardType
      BY <1>28, PoisonTyped, GoesTyped DEF TypeOK, Confirm
    <2>2. conn' \in ConnType
      BY <1>28 DEF TypeOK, ConnType, NoConn, Phases, Callbacks, Legacy, Confirm, GuardAt,
        Poison, ClosedLease, Quietly
    <2> QED
      BY <1>28, <2>1, <2>2 DEF TypeOK, Confirm, Quietly
  <1>29. CASE StopWork
    <2>1. owner' \in OwnerType
      BY <1>29 DEF TypeOK, OwnerType, Commands, Callbacks, Legacy, Phases, Teardown, Ended,
        StopWork, GuardAt, Stopped, NotStopped, Killed, ClosedLease, Quietly, Happens
    <2>2. guard' \in GuardType
      <3>1. ClosedLease \in {"none", "open", "closed"}
        BY DEF TypeOK, GuardType, ClosedLease
      <3> QED
        <4>1. CASE Stopped
          BY <4>1, <3>1 DEF TypeOK, GuardType, Teardown, Ended, Stopped
        <4>2. CASE NotStopped
          BY <4>2, <3>1 DEF TypeOK, GuardType, Teardown, Ended, NotStopped
        <4> QED
          BY <1>29, <4>1, <4>2 DEF StopWork
    <2>3. conn' \in ConnType
      BY <1>29 DEF TypeOK, ConnType, NoConn, Phases, Callbacks, Legacy, StopWork, GuardAt,
        Stopped, NotStopped, Killed, ClosedLease, Quietly, Happens
    <2>4. work' \in {"none", "created"} \cup Commands
      BY <1>29 DEF TypeOK, Commands, StopWork, GuardAt, Stopped, NotStopped, Killed,
        ClosedLease, Quietly, Happens
    <2>5. left' \subseteq Faults
      BY <1>29 DEF TypeOK, StopWork, GuardAt, Stopped, NotStopped, Killed, ClosedLease,
        Quietly, Happens
    <2>6. trouble' \subseteq Faults \cup {"escape"}
      BY <1>29 DEF TypeOK, StopWork, GuardAt, Stopped, NotStopped, Killed, ClosedLease,
        Quietly, Happens
    <2> QED
      BY <1>29, <2>1, <2>2, <2>3, <2>4, <2>5, <2>6 DEF TypeOK, StopWork, Quietly
  <1>30. CASE Finish
    <2>1. guard' \in GuardType
      <3>1. CASE guard.why = "close"
        BY <1>30, <3>1, LeaveTyped, GoesTyped DEF TypeOK, Finish
      <3>2. CASE guard.why # "close"
        BY <1>30, <3>2, GoesTyped DEF TypeOK, Finish
      <3> QED
        BY <3>1, <3>2
    <2>2. conn' \in ConnType
      BY <1>30 DEF TypeOK, ConnType, NoConn, Phases, Callbacks, Legacy, Finish, GuardAt, Leave,
        Quietly
    <2> QED
      BY <1>30, <2>1, <2>2 DEF TypeOK, Finish, Quietly
  <1>31. CASE KillOwner
    <2>1. owner' \in OwnerType
      BY <1>31 DEF TypeOK, OwnerType, Commands, Callbacks, Legacy, Phases, Teardown, Ended,
        KillOwner, OwnerLive, Happens, Hangup, NoConn
    <2>2. conn' \in ConnType
      BY <1>31, HangupTyped DEF TypeOK, KillOwner
    <2>3. left' \subseteq Faults
      BY <1>31 DEF TypeOK, KillOwner, OwnerLive, Happens, Hangup, Legacy, NoConn
    <2>4. trouble' \subseteq Faults \cup {"escape"}
      BY <1>31 DEF TypeOK, KillOwner, OwnerLive, Happens, Hangup, Legacy, NoConn
    <2> QED
      BY <1>31, <2>1, <2>2, <2>3, <2>4 DEF TypeOK, KillOwner, Quietly
  <1>32. CASE Reap
    <2>1. owner' \in OwnerType
      BY <1>32 DEF TypeOK, OwnerType, Commands, Callbacks, Legacy, Phases, Teardown, Ended,
        Reap, Quietly
    <2> QED
      BY <1>32, <2>1 DEF TypeOK, Reap, Quietly
  <1>33. CASE KillGuard
    <2>1. guard' \in GuardType
      BY <1>33 DEF TypeOK, GuardType, Teardown, Ended, KillGuard, Running, Happens, ClosedLease
    <2>2. conn' \in ConnType
      BY <1>33 DEF TypeOK, ConnType, NoConn, Phases, Callbacks, Legacy, KillGuard, Running,
        Happens, ClosedLease
    <2>3. left' \subseteq Faults
      BY <1>33 DEF TypeOK, KillGuard, Running, Happens, ClosedLease
    <2>4. trouble' \subseteq Faults \cup {"escape"}
      BY <1>33 DEF TypeOK, KillGuard, Running, Happens, ClosedLease
    <2> QED
      BY <1>33, <2>1, <2>2, <2>3, <2>4 DEF TypeOK, KillGuard, Quietly
  <1>34. CASE Cancel
    <2>1. guard' \in GuardType
      BY <1>34 DEF TypeOK, GuardType, Teardown, Ended, Cancel, Happens
    <2>2. left' \subseteq Faults
      BY <1>34 DEF TypeOK, Cancel, Happens
    <2>3. trouble' \subseteq Faults \cup {"escape"}
      BY <1>34 DEF TypeOK, Cancel, Happens
    <2> QED
      BY <1>34, <2>1, <2>2, <2>3 DEF TypeOK, Cancel, Quietly
  <1>35. CASE Tamper
    <2>1. left' \subseteq Faults
      BY <1>35 DEF TypeOK, Tamper, Happens
    <2>2. trouble' \subseteq Faults \cup {"escape"}
      BY <1>35 DEF TypeOK, Tamper, Happens
    <2> QED
      BY <1>35, <2>1, <2>2 DEF TypeOK, Tamper, Quietly
  <1>36. CASE Replace
    <2>1. engine' \in EngineType
      BY <1>36 DEF TypeOK, EngineType, Replace, Happens
    <2>2. left' \subseteq Faults
      BY <1>36 DEF TypeOK, Replace, Happens
    <2>3. trouble' \subseteq Faults \cup {"escape"}
      BY <1>36 DEF TypeOK, Replace, Happens
    <2> QED
      BY <1>36, <2>1, <2>2, <2>3 DEF TypeOK, Replace, Quietly
  <1>37. CASE Tick
    <2>1. clock' \in Early .. AllOver
      BY <1>37 DEF TypeOK, Early, AllOver, Tick, Quietly
    <2> QED
      BY <1>37, <2>1 DEF TypeOK, Tick, Quietly
  <1>38. ASSUME NEW a \in {"guard", "owner"}, Identify(a) PROVE TypeOK'
    <2>1. owner' \in OwnerType
      BY <1>38 DEF TypeOK, OwnerType, Commands, Callbacks, Legacy, Phases, Teardown, Ended,
        Identify, Moves, Quietly, Place
    <2>2. guard' \in GuardType
      BY <1>38 DEF TypeOK, GuardType, Teardown, Ended, Identify, Moves, Quietly, Place
    <2> QED
      BY <1>38, <2>1, <2>2 DEF TypeOK, Identify, Quietly
  <1>39. ASSUME NEW a \in {"guard", "owner"}, Remove(a) PROVE TypeOK'
    <2>1. owner' \in OwnerType
      BY <1>39 DEF TypeOK, OwnerType, Commands, Callbacks, Legacy, Phases, Teardown, Ended,
        Remove, Moves, Quietly, Place
    <2>2. guard' \in GuardType
      BY <1>39 DEF TypeOK, GuardType, Teardown, Ended, Remove, Moves, Quietly, Place
    <2>3. engine' \in EngineType
      BY <1>39 DEF TypeOK, EngineType, Remove, Moves, Quietly, Place
    <2> QED
      BY <1>39, <2>1, <2>2, <2>3 DEF TypeOK, Remove, Quietly
  <1>40. ASSUME NEW a \in {"guard", "owner"}, Absent(a) PROVE TypeOK'
    <2>1. owner' \in OwnerType
      BY <1>40 DEF TypeOK, OwnerType, Commands, Callbacks, Legacy, Phases, Teardown, Ended,
        Absent, Moves, Quietly, Place
    <2>2. guard' \in GuardType
      BY <1>40 DEF TypeOK, GuardType, Teardown, Ended, Absent, Moves, Quietly, Place
    <2> QED
      BY <1>40, <2>1, <2>2 DEF TypeOK, Absent, Quietly
  <1>41. ASSUME NEW a \in {"guard", "owner"}, Unload(a) PROVE TypeOK'
    <2>1. owner' \in OwnerType
      BY <1>41 DEF TypeOK, OwnerType, Commands, Callbacks, Legacy, Phases, Teardown, Ended,
        Unload, Moves, Quietly, Place
    <2>2. guard' \in GuardType
      BY <1>41 DEF TypeOK, GuardType, Teardown, Ended, Unload, Moves, Quietly, Place
    <2>3. engine' \in EngineType
      BY <1>41 DEF TypeOK, EngineType, Unload, Moves, Quietly, Place
    <2> QED
      BY <1>41, <2>1, <2>2, <2>3 DEF TypeOK, Unload, Quietly
  <1>42. ASSUME NEW a \in {"guard", "owner"}, Unmake(a) PROVE TypeOK'
    <2>1. owner' \in OwnerType
      BY <1>42 DEF TypeOK, OwnerType, Commands, Callbacks, Legacy, Phases, Teardown, Ended,
        Unmake, Moves, Quietly, Place
    <2>2. guard' \in GuardType
      BY <1>42 DEF TypeOK, GuardType, Teardown, Ended, Unmake, Moves, Quietly, Place
    <2>3. engine' \in EngineType
      BY <1>42 DEF TypeOK, EngineType, Unmake, Moves, Quietly, Place
    <2> QED
      BY <1>42, <2>1, <2>2, <2>3 DEF TypeOK, Unmake, Quietly
  <1>43. ASSUME NEW a \in {"guard", "owner"}, Discard(a) PROVE TypeOK'
    <2>1. owner' \in OwnerType
      BY <1>43 DEF TypeOK, OwnerType, Commands, Callbacks, Legacy, Phases, Teardown, Ended,
        Discard, Moves, Quietly, Place
    <2>2. guard' \in GuardType
      BY <1>43 DEF TypeOK, GuardType, Teardown, Ended, Discard, Moves, Quietly, Place
    <2>3. files' \in FilesType
      BY <1>43 DEF TypeOK, FilesType, Discard, Moves, Quietly, Place
    <2> QED
      BY <1>43, <2>1, <2>2, <2>3 DEF TypeOK, Discard, Quietly
  <1>44. ASSUME NEW a \in {"guard", "owner"}, Erase(a) PROVE TypeOK'
    <2>1. owner' \in OwnerType
      BY <1>44 DEF TypeOK, OwnerType, Commands, Callbacks, Legacy, Phases, Teardown, Ended,
        Erase, Moves, Quietly, Place
    <2>2. guard' \in GuardType
      BY <1>44 DEF TypeOK, GuardType, Teardown, Ended, Erase, Moves, Quietly, Place
    <2>3. files' \in FilesType
      BY <1>44 DEF TypeOK, FilesType, Erase, Moves, Quietly, Place
    <2> QED
      BY <1>44, <2>1, <2>2, <2>3 DEF TypeOK, Erase, Quietly
  <1>45. ASSUME NEW a \in {"guard", "owner"}, Refuse(a) PROVE TypeOK'
    <2>1. owner' \in OwnerType
      BY <1>45 DEF TypeOK, OwnerType, Commands, Callbacks, Legacy, Phases, Teardown, Ended,
        Refuse, Moves, Quietly, Place, Happens, Leave
    <2>2. guard' \in GuardType
      BY <1>45, LeaveTyped DEF TypeOK, Refuse
    <2>3. left' \subseteq Faults
      BY <1>45 DEF TypeOK, Refuse, Moves, Quietly, Place, Happens, Leave
    <2>4. trouble' \subseteq Faults \cup {"escape"}
      BY <1>45 DEF TypeOK, Refuse, Moves, Quietly, Place, Happens, Leave
    <2>5. engine' \in EngineType
      BY <1>45 DEF TypeOK, EngineType, Refuse, Unloaded
    <2> QED
      BY <1>45, <2>1, <2>2, <2>3, <2>4, <2>5 DEF TypeOK, Refuse
  <1>46. CASE UNCHANGED vars
    BY <1>46 DEF vars, TypeOK
  <1> QED
    BY <1>1, <1>2, <1>3, <1>4, <1>5, <1>6, <1>7, <1>8, <1>9, <1>10, <1>11, <1>12, <1>13, <1>14,
      <1>15, <1>16, <1>17, <1>18, <1>19, <1>20, <1>21, <1>22, <1>23, <1>24, <1>25, <1>26,
      <1>27, <1>28, <1>29, <1>30, <1>31, <1>32, <1>33, <1>34, <1>35, <1>36, <1>37, <1>38,
      <1>39, <1>40, <1>41, <1>42, <1>43, <1>44, <1>45, <1>46 DEF Next, OwnerStep, WorkStep,
      GuardStep, World, Clean

(***************************************************************************)
(* What the larger steps of the guard do to the fields that matter here.   *)
(***************************************************************************)
LEMMA LeaveEffect ==
  ASSUME guard \in GuardType, NEW why, Leave(why)
  PROVE  /\ guard'.pc = "stop" /\ guard'.why = why
         /\ guard'.lease = guard.lease /\ guard'.seq = guard.seq
  BY DEF Leave, GuardType

LEMMA GoesEffect ==
  ASSUME guard \in GuardType, NEW place, guard' = [guard EXCEPT !.pc = place]
  PROVE  /\ guard'.pc = place /\ guard'.why = guard.why
         /\ guard'.lease = guard.lease /\ guard'.seq = guard.seq
  BY DEF GuardType

LEMMA PoisonEffect ==
  ASSUME guard \in GuardType, Poison
  PROVE  /\ guard'.pc = "stop" /\ guard'.why = "recover"
         /\ guard'.lease # "open" /\ guard'.seq = guard.seq
  BY DEF Poison, ClosedLease, GuardType

LEMMA ReceiveEffect ==
  ASSUME TypeOK, Receive
  PROVE  /\ UNCHANGED <<owner, work, files, engine>>
         /\ guard.pc = "loop" /\ guard'.pc \in {"loop", "lease", "stop", "verify", "send"}
         /\ guard'.lease = guard.lease /\ guard'.seq = guard.seq
         /\ guard'.why \in {guard.why, "abort"} \/ (guard'.why = "close" /\ conn.phase = "close")
         /\ conn'.phase = conn.phase /\ conn'.seq = conn.seq /\ conn'.at \in {conn.at, "eof"}
  <1>1. UNCHANGED <<owner, work, files, engine>> /\ guard.pc = "loop" /\ conn'.phase = conn.phase
    /\ conn'.seq = conn.seq
        /\ conn'.at \in {conn.at, "eof"}
    BY DEF TypeOK, Receive, GuardAt, ConnType
  <1>2. guard \in GuardType
    BY DEF TypeOK
  <1>3. \/ guard' = guard
        \/ \E place \in {"lease", "verify", "send"} : guard' = [guard EXCEPT !.pc = place]
        \/ Leave("abort")
        \/ Leave("close") /\ conn.phase = "close"
    BY DEF Receive
  <1> QED
    BY <1>1, <1>2, <1>3, LeaveEffect, GoesEffect

LEMMA SendEffect ==
  ASSUME TypeOK, Send
  PROVE  /\ UNCHANGED <<owner, work, files, engine>>
         /\ guard.pc = "send" /\ guard'.pc \in {"loop", "stop"}
         /\ guard'.lease = guard.lease /\ guard'.seq = guard.seq
         /\ guard'.why \in {guard.why, "recover"}
         /\ \/ conn' = conn \/ conn' = NoConn
            \/ conn'.phase = conn.phase /\ conn'.at = "reply"
  <1>1. CASE Interrupted
    BY <1>1, LeaveEffect DEF TypeOK, Send, GuardAt
  <1>2. CASE ~Interrupted /\ conn.at = "gone"
    BY <1>2 DEF TypeOK, Send, GuardAt, GuardType
  <1>3. CASE ~Interrupted /\ conn.at # "gone"
    BY <1>3 DEF TypeOK, Send, GuardAt, GuardType, ConnType
  <1> QED
    BY <1>1, <1>2, <1>3

LEMMA LeaseEffect ==
  ASSUME TypeOK, Lease
  PROVE  /\ UNCHANGED <<owner, work, files, engine>>
         /\ guard.pc = "lease" /\ guard'.pc \in {"confirm", "stop"}
         /\ guard'.seq = guard.seq \/ (guard'.seq = guard.seq + 1 /\ Grants)
         /\ guard'.why \in {guard.why, "recover"}
         /\ guard'.pc = "stop" => guard'.lease # "open"
         /\ conn'.phase = conn.phase /\ conn'.at \in {"reply", "eof"}
  <1>1. UNCHANGED <<owner, work, files, engine>> /\ guard.pc = "lease" /\ conn'.phase =
    conn.phase /\ conn'.at \in {"reply", "eof"}
    BY DEF TypeOK, Lease, GuardAt, ConnType
  <1>2. CASE Poison
    BY <1>1, <1>2, PoisonEffect DEF TypeOK
  <1>3. CASE ~Poison
    BY <1>1, <1>3 DEF TypeOK, Lease, GuardType
  <1> QED
    BY <1>2, <1>3

LEMMA ConfirmEffect ==
  ASSUME TypeOK, Confirm
  PROVE  /\ UNCHANGED <<owner, work, files, engine>>
         /\ guard.pc = "confirm" /\ guard'.pc \in {"loop", "stop"}
         /\ guard'.seq = guard.seq /\ guard'.why \in {guard.why, "recover"}
         /\ guard'.pc = "stop" => guard'.lease # "open"
         /\ conn' = NoConn \/ (conn'.phase = conn.phase /\ conn'.at \in {"ok", "eof"})
  <1>1. UNCHANGED <<owner, work, files, engine>> /\ guard.pc = "confirm"
        /\ (conn' = NoConn \/ (conn'.phase = conn.phase /\ conn'.at \in {"ok", "eof"}))
    BY DEF TypeOK, Confirm, GuardAt, ConnType
  <1>2. CASE Poison
    BY <1>1, <1>2, PoisonEffect DEF TypeOK
  <1>3. CASE ~Poison
    BY <1>1, <1>3, GoesEffect DEF TypeOK, Confirm
  <1> QED
    BY <1>2, <1>3

LEMMA StopWorkEffect ==
  ASSUME TypeOK, StopWork
  PROVE  /\ UNCHANGED <<files, engine>>
         /\ guard.pc = "stop" /\ guard'.pc \in {"identify", "failed"}
         /\ guard'.seq = guard.seq /\ guard'.why = guard.why /\ guard'.lease # "open"
         /\ owner'.pc = owner.pc /\ owner'.seq = owner.seq
         /\ owner'.proc = "live" => owner.proc = "live"
         /\ guard'.pc = "identify" => work' = "none" /\ (owner'.proc = "live" => guard.why =
           "close")
         /\ conn'.phase = conn.phase /\ conn'.seq = conn.seq /\ conn'.at \in {conn.at, "gone"}
  <1>1. CASE Stopped
    <2>1. owner'.pc = owner.pc /\ owner'.seq = owner.seq /\ owner'.proc \in {owner.proc, "zombie"}
          /\ (owner'.proc = "live" => guard.why = "close")
      BY <1>1 DEF TypeOK, Stopped, Killed, OwnerType
    <2>2. conn'.phase = conn.phase /\ conn'.seq = conn.seq /\ conn'.at \in {conn.at, "gone"}
      BY <1>1 DEF TypeOK, Stopped, ConnType
    <2> QED
      BY <1>1, <2>1, <2>2 DEF TypeOK, StopWork, GuardAt, Stopped, ClosedLease, GuardType
  <1>2. CASE NotStopped
    BY <1>2 DEF TypeOK, StopWork, GuardAt, NotStopped, ClosedLease, GuardType, OwnerType, ConnType
  <1> QED
    BY <1>1, <1>2 DEF StopWork

LEMMA AnsweredEffect ==
  ASSUME TypeOK, Answered
  PROVE  /\ UNCHANGED <<guard, work, files, engine>>
         /\ owner.proc = "live" /\ owner'.proc = "live" /\ owner.pc = conn.phase
         /\ owner.pc \in Phases /\ owner'.pc = Following(owner.pc) /\ conn' = NoConn
         /\ owner'.seq = IF owner.pc \in Callbacks THEN owner.seq + 1 ELSE owner.seq
  BY DEF TypeOK, Answered, OwnerLive, OwnerType, ConnType, Phases, Callbacks, Legacy, Commands,
    Teardown

LEMMA MovesEffect ==
  ASSUME TypeOK, NEW a \in {"guard", "owner"}, NEW place, Moves(a, place)
  PROVE  \/ /\ a = "guard" /\ UNCHANGED owner
            /\ guard'.pc = place /\ guard'.why = guard.why
            /\ guard'.lease = guard.lease /\ guard'.seq = guard.seq
         \/ /\ a = "owner" /\ UNCHANGED guard
            /\ owner'.pc = place /\ owner'.proc = owner.proc /\ owner'.seq = owner.seq
  <1>1. CASE a = "guard"
    BY <1>1 DEF Moves, TypeOK, GuardType
  <1>2. CASE a = "owner"
    BY <1>2 DEF Moves, TypeOK, OwnerType
  <1> QED
    BY <1>1, <1>2

LEMMA RefuseEffect ==
  ASSUME TypeOK, NEW a \in {"guard", "owner"}, Refuse(a)
  PROVE  \/ /\ a = "guard" /\ UNCHANGED owner /\ guard.pc \in Teardown
            /\ guard'.pc = "stop" /\ guard'.why = "abort"
            /\ guard'.lease = guard.lease /\ guard'.seq = guard.seq
         \/ /\ a = "owner" /\ UNCHANGED guard /\ owner.pc \in Teardown
            /\ owner'.pc = "failed" /\ owner'.proc = owner.proc /\ owner'.seq = owner.seq
  <1>1. CASE a = "guard"
    BY <1>1, LeaveEffect DEF Refuse, Place, TypeOK
  <1>2. CASE a = "owner"
    BY <1>2 DEF Refuse, Place, TypeOK, OwnerType
  <1> QED
    BY <1>1, <1>2

\* A refusal leaves the engine alone, but for a receipt that came too late.
LEMMA RefuseEngine ==
  ASSUME NEW a \in {"guard", "owner"}, Refuse(a)
  PROVE  \/ engine' = engine
         \/ Cleans(a, "unload") /\ engine' = [engine EXCEPT !.profile = FALSE]
  BY DEF Refuse, Unloaded

LEMMA CustodialStep == IInv /\ [Next]_vars => Custodial'
  <1> SUFFICES ASSUME IInv, [Next]_vars PROVE Custodial'
    OBVIOUS
  <1>1. CASE Prepare
    BY <1>1 DEF IInv, TypeOK, Custodial, Sealed, CleansQuietly, CommandIsOwners, Stage,
      OwnerLive, BeforeClosure, OwnerType, FilesType, Prepare, At, Goto, Quietly, Commands,
      Phases, Teardown
  <1>2. CASE StartCommand
    BY <1>2 DEF IInv, TypeOK, Custodial, Sealed, CleansQuietly, CommandIsOwners, Stage,
      OwnerLive, BeforeClosure, OwnerType, GuardType, StartCommand, At, Quietly, Commands,
      Phases, Teardown
  <1>3. CASE GiveUp
    BY <1>3 DEF IInv, TypeOK, Custodial, Sealed, CleansQuietly, CommandIsOwners, Stage,
      OwnerLive, BeforeClosure, OwnerType, ConnType, GiveUp, Goto, Quietly, Happens, Hangup,
      Legacy, NoConn, Commands, Phases, Teardown
  <1>4. CASE CreateVolume
    BY <1>4 DEF IInv, TypeOK, Custodial, Sealed, CleansQuietly, CommandIsOwners, Stage,
      OwnerLive, BeforeClosure, EngineType, CreateVolume, Quietly, Commands, Phases, Teardown
  <1>5. CASE LoadProfile \/ VerifyLabel
    BY <1>5 DEF IInv, TypeOK, Custodial, Sealed, CleansQuietly, CommandIsOwners, Stage,
      OwnerLive, BeforeClosure, EngineType, LoadProfile, VerifyLabel, Quietly, Commands, Phases,
        Teardown
  <1>6. CASE CreateContainer
    BY <1>6 DEF IInv, TypeOK, Custodial, Sealed, CleansQuietly, CommandIsOwners, Stage,
      OwnerLive, BeforeClosure, EngineType, CreateContainer, Quietly, Commands, Phases,
      Teardown
  <1>7. CASE WriteCid
    BY <1>7 DEF IInv, TypeOK, Custodial, Sealed, CleansQuietly, CommandIsOwners, Stage,
      OwnerLive, BeforeClosure, FilesType, WriteCid, Quietly, Commands, Phases, Teardown
  <1>8. CASE Announce
    BY <1>8 DEF IInv, TypeOK, Custodial, Sealed, CleansQuietly, CommandIsOwners, Stage,
      OwnerLive, BeforeClosure, GuardType, FilesType, Announce, GuardAt, Quietly, Commands,
      Phases, Teardown
  <1>9. CASE Bind
    BY <1>9 DEF IInv, TypeOK, Custodial, Sealed, CleansQuietly, CommandIsOwners, Stage,
      OwnerLive, BeforeClosure, GuardType, FilesType, Bind, GuardAt, Quietly, Commands, Phases,
      Teardown
  <1>10. CASE StopWork
    BY <1>10 DEF IInv, TypeOK, Custodial, Sealed, CleansQuietly, CommandIsOwners, Stage,
      OwnerLive, BeforeClosure, OwnerType, GuardType, ConnType, StopWork, GuardAt, Stopped,
      NotStopped, Killed, ClosedLease, Quietly, Happens, Commands, Phases, Teardown
  <1>11. CASE Replace
    BY <1>11 DEF IInv, TypeOK, Custodial, Sealed, CleansQuietly, CommandIsOwners, Stage,
      OwnerLive, BeforeClosure, EngineType, Replace, Happens, Commands, Phases, Teardown
  <1>12. ASSUME NEW a \in {"guard", "owner"}, Remove(a) PROVE Custodial'
    BY <1>12 DEF IInv, TypeOK, Custodial, Sealed, CleansQuietly, CommandIsOwners, Stage,
      OwnerLive, BeforeClosure, OwnerType, GuardType, EngineType, Remove, Moves, Quietly,
      Place, Commands, Phases, Teardown, Cleans
  <1>13. ASSUME NEW a \in {"guard", "owner"}, Unload(a) PROVE Custodial'
    BY <1>13 DEF IInv, TypeOK, Custodial, Sealed, CleansQuietly, CommandIsOwners, Stage,
      OwnerLive, BeforeClosure, OwnerType, GuardType, EngineType, Unload, Moves, Quietly,
      Place, Commands, Phases, Teardown, Cleans
  <1>14. ASSUME NEW a \in {"guard", "owner"}, Unmake(a) PROVE Custodial'
    BY <1>14 DEF IInv, TypeOK, Custodial, Sealed, CleansQuietly, CommandIsOwners, Stage,
      OwnerLive, BeforeClosure, OwnerType, GuardType, EngineType, Unmake, Moves, Quietly,
      Place, Commands, Phases, Teardown, Cleans
  <1>15. ASSUME NEW a \in {"guard", "owner"}, Discard(a) PROVE Custodial'
    BY <1>15 DEF IInv, TypeOK, Custodial, Sealed, CleansQuietly, CommandIsOwners, Stage,
      OwnerLive, BeforeClosure, OwnerType, GuardType, FilesType, Discard, Moves, Quietly,
      Place, Commands, Phases, Teardown, Cleans
  <1>16. ASSUME NEW a \in {"guard", "owner"}, Erase(a) PROVE Custodial'
    BY <1>16, MaxChecksAssumption, MovesEffect DEF IInv, TypeOK, Custodial, Sealed,
      CleansQuietly, CommandIsOwners, Stage, OwnerLive, BeforeClosure, Erase, Place, FilesType,
      Commands, Phases, Teardown
  <1>17. CASE SpawnGuard \/ AwaitReady \/ CollectCommand \/ Ask \/ Answered \/ Recover \/
          AskAgain \/ AwaitGuard \/ Acknowledge \/ LoseAck \/ Start \/ Snapshot \/ Expire \/
          ReceiveNothing \/ Receive \/ Verify \/ Send \/ Lease \/ Confirm \/ Finish \/
          KillOwner \/ Reap \/ KillGuard \/ Cancel \/ Tamper \/ Tick
    BY <1>17 DEF IInv, Custodial, OwnerLive, BeforeClosure, SpawnGuard, AwaitReady,
      CollectCommand, Ask, Answered, Recover, AskAgain, AwaitGuard, Acknowledge, LoseAck,
      Start, Snapshot, Expire, ReceiveNothing, Receive, Verify, Send, Lease, Confirm, Finish,
      KillOwner, Reap, KillGuard, Cancel, Tamper, Tick
  <1>18. ASSUME NEW a \in {"guard", "owner"}, Identify(a) PROVE Custodial'
    BY <1>18 DEF IInv, Custodial, OwnerLive, BeforeClosure, Identify
  <1>19. ASSUME NEW a \in {"guard", "owner"}, Absent(a) PROVE Custodial'
    BY <1>19 DEF IInv, Custodial, OwnerLive, BeforeClosure, Absent
  <1>20. ASSUME NEW a \in {"guard", "owner"}, Refuse(a) PROVE Custodial'
    <2>1. engine'.container = engine.container /\ engine'.volume = engine.volume
            /\ (engine'.profile => engine.profile)
      BY <1>20, RefuseEngine DEF IInv, TypeOK, EngineType
    <2> QED
      BY <1>20, <2>1 DEF IInv, Custodial, Refuse
  <1>21. CASE UNCHANGED vars
    BY <1>21 DEF vars, IInv, Custodial, OwnerLive, BeforeClosure
  <1> QED
    BY <1>1, <1>2, <1>3, <1>4, <1>5, <1>6, <1>7, <1>8, <1>9, <1>10, <1>11, <1>12, <1>13, <1>14,
      <1>15, <1>16, <1>17, <1>18, <1>19, <1>20, <1>21 DEF Next, OwnerStep, WorkStep, GuardStep,
      World, Clean

LEMMA SealedStep == IInv /\ [Next]_vars => Sealed'
  <1> SUFFICES ASSUME IInv, [Next]_vars PROVE Sealed'
    OBVIOUS
  <1>1. CASE Prepare
    BY <1>1 DEF IInv, TypeOK, Sealed, CleansQuietly, OwnerLive, BeforeClosure, OwnerType,
      FilesType, Prepare, At, Goto, Quietly, Commands, Phases, Callbacks, Legacy, Teardown
  <1>2. CASE SpawnGuard
    BY <1>2 DEF IInv, TypeOK, Sealed, CleansQuietly, OwnerLive, BeforeClosure, OwnerType,
      GuardType, SpawnGuard, At, Goto, Quietly, Commands, Phases, Callbacks, Legacy, Teardown
  <1>3. CASE AwaitReady
    BY <1>3 DEF IInv, TypeOK, Sealed, CleansQuietly, OwnerLive, BeforeClosure, OwnerType,
      AwaitReady, At, Goto, Quietly, Commands, Phases, Callbacks, Legacy, Teardown
  <1>4. CASE StartCommand
    BY <1>4 DEF IInv, TypeOK, Sealed, CleansQuietly, OwnerLive, BeforeClosure, OwnerType,
      GuardType, StartCommand, At, Quietly, Commands, Phases, Callbacks, Legacy, Teardown
  <1>5. CASE CollectCommand
    BY <1>5 DEF IInv, TypeOK, Sealed, CleansQuietly, OwnerLive, BeforeClosure, OwnerType,
      CollectCommand, Following, Commands, Quietly, Phases, Callbacks, Legacy, Teardown
  <1>6. CASE Ask
    BY <1>6 DEF IInv, TypeOK, Sealed, CleansQuietly, OwnerLive, BeforeClosure, OwnerType,
      GuardType, ConnType, Ask, At, Quietly, Phases, Callbacks, Legacy, Running, Commands,
      Teardown
  <1>7. CASE Answered
    BY <1>7 DEF IInv, TypeOK, Sealed, CleansQuietly, OwnerLive, BeforeClosure, OwnerType,
      ConnType, Answered, Following, Phases, Callbacks, Legacy, Quietly, Commands, Teardown
  <1>8. CASE GiveUp
    BY <1>8 DEF IInv, TypeOK, Sealed, CleansQuietly, OwnerLive, BeforeClosure, OwnerType,
      ConnType, GiveUp, Goto, Quietly, Happens, Hangup, Legacy, NoConn, Commands, Phases,
      Callbacks, Teardown
  <1>9. CASE Recover
    BY <1>9 DEF IInv, TypeOK, Sealed, CleansQuietly, OwnerLive, BeforeClosure, OwnerType,
      Recover, At, Quietly, Commands, Phases, Callbacks, Legacy, Teardown
  <1>10. CASE AskAgain
    BY <1>10 DEF IInv, TypeOK, Sealed, CleansQuietly, OwnerLive, BeforeClosure, OwnerType,
      ConnType, AskAgain, At, Quietly, Commands, Phases, Callbacks, Legacy, Teardown
  <1>11. CASE AwaitGuard
    BY <1>11 DEF IInv, TypeOK, Sealed, CleansQuietly, OwnerLive, BeforeClosure, OwnerType,
      ConnType, AwaitGuard, Goto, Quietly, NoConn, Commands, Phases, Callbacks, Legacy,
      Teardown
  <1>12. CASE WriteCid
    BY <1>12 DEF IInv, TypeOK, Sealed, CleansQuietly, OwnerLive, BeforeClosure, FilesType,
      WriteCid, Quietly, Commands, Phases, Callbacks, Legacy, Teardown
  <1>13. CASE Announce
    BY <1>13 DEF IInv, TypeOK, Sealed, CleansQuietly, OwnerLive, BeforeClosure, GuardType,
      FilesType, Announce, GuardAt, Quietly, Commands, Phases, Callbacks, Legacy, Teardown
  <1>14. CASE Bind
    BY <1>14 DEF IInv, TypeOK, Sealed, CleansQuietly, OwnerLive, BeforeClosure, GuardType,
      FilesType, Bind, GuardAt, Quietly, Commands, Phases, Callbacks, Legacy, Teardown
  <1>15. CASE StopWork
    BY <1>15 DEF IInv, TypeOK, Sealed, CleansQuietly, OwnerLive, BeforeClosure, OwnerType,
      GuardType, ConnType, StopWork, GuardAt, Stopped, NotStopped, Killed, ClosedLease,
      Quietly, Happens, Commands, Phases, Callbacks, Legacy, Teardown
  <1>16. CASE KillOwner
    BY <1>16 DEF IInv, TypeOK, Sealed, CleansQuietly, OwnerLive, BeforeClosure, OwnerType,
      ConnType, KillOwner, Happens, Hangup, Legacy, NoConn, Commands, Phases, Callbacks,
      Teardown
  <1>17. CASE Reap
    BY <1>17 DEF IInv, TypeOK, Sealed, CleansQuietly, OwnerLive, BeforeClosure, OwnerType,
      Reap, Quietly, Commands, Phases, Callbacks, Legacy, Teardown
  <1>18. ASSUME NEW a \in {"guard", "owner"}, Identify(a) PROVE Sealed'
    BY <1>18 DEF IInv, TypeOK, Sealed, CleansQuietly, OwnerLive, BeforeClosure, OwnerType,
      GuardType, Identify, Moves, Quietly, Place, Commands, Phases, Callbacks, Legacy,
      Teardown, Cleans
  <1>19. ASSUME NEW a \in {"guard", "owner"}, Remove(a) PROVE Sealed'
    BY <1>19 DEF IInv, TypeOK, Sealed, CleansQuietly, OwnerLive, BeforeClosure, OwnerType,
      GuardType, EngineType, Remove, Moves, Quietly, Place, Commands, Phases, Callbacks,
      Legacy, Teardown, Cleans
  <1>20. ASSUME NEW a \in {"guard", "owner"}, Absent(a) PROVE Sealed'
    BY <1>20 DEF IInv, TypeOK, Sealed, CleansQuietly, OwnerLive, BeforeClosure, OwnerType,
      GuardType, Absent, Moves, Quietly, Place, Commands, Phases, Callbacks, Legacy, Teardown,
      Cleans
  <1>21. ASSUME NEW a \in {"guard", "owner"}, Unload(a) PROVE Sealed'
    BY <1>21 DEF IInv, TypeOK, Sealed, CleansQuietly, OwnerLive, BeforeClosure, OwnerType,
      GuardType, EngineType, Unload, Moves, Quietly, Place, Commands, Phases, Callbacks,
      Legacy, Teardown, Cleans
  <1>22. ASSUME NEW a \in {"guard", "owner"}, Unmake(a) PROVE Sealed'
    BY <1>22 DEF IInv, TypeOK, Sealed, CleansQuietly, OwnerLive, BeforeClosure, OwnerType,
      GuardType, EngineType, Unmake, Moves, Quietly, Place, Commands, Phases, Callbacks,
      Legacy, Teardown, Cleans
  <1>23. ASSUME NEW a \in {"guard", "owner"}, Discard(a) PROVE Sealed'
    BY <1>23 DEF IInv, TypeOK, Sealed, CleansQuietly, OwnerLive, BeforeClosure, OwnerType,
      GuardType, FilesType, Discard, Moves, Quietly, Place, Commands, Phases, Callbacks,
      Legacy, Teardown, Cleans
  <1>24. ASSUME NEW a \in {"guard", "owner"}, Erase(a) PROVE Sealed'
    BY <1>24, MaxChecksAssumption, MovesEffect DEF IInv, TypeOK, Sealed, CleansQuietly,
      OwnerLive, BeforeClosure, Erase, Place, AfterClosure, Commands, Phases, Callbacks,
      Legacy, Teardown
  <1>25. ASSUME NEW a \in {"guard", "owner"}, Refuse(a) PROVE Sealed'
    BY <1>25 DEF IInv, TypeOK, Sealed, CleansQuietly, OwnerLive, BeforeClosure, OwnerType,
      GuardType, Refuse, Moves, Quietly, Place, Happens, Leave, Commands, Phases, Callbacks,
      Legacy, Teardown, Cleans
  <1>26. CASE CreateVolume \/ LoadProfile \/ VerifyLabel \/ CreateContainer \/ Acknowledge \/
          LoseAck \/ Start
          \/ Snapshot \/ Expire \/ ReceiveNothing \/ Receive \/ Verify \/ Send \/ Lease \/
          Confirm \/ Finish \/ KillGuard \/ Cancel \/ Tamper \/ Replace \/ Tick
    BY <1>26 DEF IInv, Sealed, OwnerLive, BeforeClosure, CreateVolume, LoadProfile, VerifyLabel,
      CreateContainer, Acknowledge, LoseAck, Start, Snapshot, Expire, ReceiveNothing, Receive,
      Verify, Send, Lease, Confirm, Finish, KillGuard, Cancel, Tamper, Replace, Tick
  <1>27. CASE UNCHANGED vars
    BY <1>27 DEF vars, IInv, Sealed, OwnerLive, BeforeClosure
  <1> QED
    BY <1>1, <1>2, <1>3, <1>4, <1>5, <1>6, <1>7, <1>8, <1>9, <1>10, <1>11, <1>12, <1>13, <1>14,
      <1>15, <1>16, <1>17, <1>18, <1>19, <1>20, <1>21, <1>22, <1>23, <1>24, <1>25, <1>26, <1>27
      DEF Next, OwnerStep, WorkStep, GuardStep, World, Clean

LEMMA NothingYetStep == IInv /\ [Next]_vars => NothingYet'
  <1> SUFFICES ASSUME IInv, [Next]_vars PROVE NothingYet'
    OBVIOUS
  <1>1. CASE Prepare
    BY <1>1 DEF IInv, TypeOK, NothingYet, CommandIsOwners, OwnerType, FilesType, Prepare, At,
      Goto, Quietly, Teardown, Commands, Phases, Callbacks, Legacy
  <1>2. CASE SpawnGuard
    BY <1>2 DEF IInv, TypeOK, NothingYet, CommandIsOwners, OwnerType, GuardType, SpawnGuard,
      At, Goto, Quietly, Teardown, Commands, Phases, Callbacks, Legacy
  <1>3. CASE AwaitReady
    BY <1>3 DEF IInv, TypeOK, NothingYet, CommandIsOwners, OwnerType, AwaitReady, At, Goto,
      Quietly, Teardown, Commands, Phases, Callbacks, Legacy
  <1>4. CASE StartCommand
    BY <1>4 DEF IInv, TypeOK, NothingYet, CommandIsOwners, OwnerType, GuardType, StartCommand,
      At, Quietly, Commands, Teardown, Phases, Callbacks, Legacy
  <1>5. CASE CollectCommand
    BY <1>5 DEF IInv, TypeOK, NothingYet, CommandIsOwners, OwnerType, CollectCommand,
      Following, Commands, Quietly, Teardown, Phases, Callbacks, Legacy
  <1>6. CASE Ask
    BY <1>6 DEF IInv, TypeOK, NothingYet, CommandIsOwners, OwnerType, GuardType, ConnType, Ask,
      At, Quietly, Phases, Callbacks, Legacy, Running, Teardown, Commands
  <1>7. CASE Answered
    BY <1>7 DEF IInv, TypeOK, NothingYet, CommandIsOwners, OwnerType, ConnType, Answered,
      Following, Phases, Callbacks, Legacy, Quietly, Teardown, Commands
  <1>8. CASE GiveUp
    BY <1>8 DEF IInv, TypeOK, NothingYet, CommandIsOwners, OwnerType, ConnType, GiveUp, Goto,
      Quietly, Happens, Hangup, Legacy, NoConn, Teardown, Commands, Phases, Callbacks
  <1>9. CASE Recover
    BY <1>9 DEF IInv, TypeOK, NothingYet, CommandIsOwners, OwnerType, Recover, At, Quietly,
      Teardown, Commands, Phases, Callbacks, Legacy
  <1>10. CASE AskAgain
    BY <1>10 DEF IInv, TypeOK, NothingYet, CommandIsOwners, OwnerType, ConnType, AskAgain, At,
      Quietly, Teardown, Commands, Phases, Callbacks, Legacy
  <1>11. CASE AwaitGuard
    BY <1>11 DEF IInv, TypeOK, NothingYet, CommandIsOwners, OwnerType, ConnType, AwaitGuard,
      Goto, Quietly, NoConn, Teardown, Commands, Phases, Callbacks, Legacy
  <1>12. CASE CreateVolume
    BY <1>12 DEF IInv, TypeOK, NothingYet, CommandIsOwners, EngineType, CreateVolume, Quietly,
      Teardown, Commands, Phases, Callbacks, Legacy
  <1>13. CASE LoadProfile \/ VerifyLabel
    BY <1>13 DEF IInv, TypeOK, NothingYet, CommandIsOwners, EngineType, LoadProfile, VerifyLabel,
      Quietly,
      Teardown, Commands, Phases, Callbacks, Legacy
  <1>14. CASE CreateContainer
    BY <1>14 DEF IInv, TypeOK, NothingYet, CommandIsOwners, EngineType, CreateContainer,
      Quietly, Teardown, Commands, Phases, Callbacks, Legacy
  <1>15. CASE WriteCid
    BY <1>15 DEF IInv, TypeOK, NothingYet, CommandIsOwners, FilesType, WriteCid, Quietly,
      Teardown, Commands, Phases, Callbacks, Legacy
  <1>16. CASE Start
    BY <1>16 DEF IInv, TypeOK, NothingYet, CommandIsOwners, GuardType, Start, GuardAt, Quietly,
      Teardown, Commands, Phases, Callbacks, Legacy
  <1>17. CASE Announce
    BY <1>17 DEF IInv, TypeOK, NothingYet, CommandIsOwners, GuardType, FilesType, Announce,
      GuardAt, Quietly, Teardown, Commands, Phases, Callbacks, Legacy
  <1>18. CASE Snapshot
    BY <1>18 DEF IInv, TypeOK, NothingYet, CommandIsOwners, GuardType, Snapshot, GuardAt,
      Quietly, Teardown, Commands, Phases, Callbacks, Legacy
  <1>19. CASE Expire
    BY <1>19 DEF IInv, TypeOK, NothingYet, CommandIsOwners, GuardType, Expire, GuardAt, Leave,
      Quietly, Teardown, Commands, Phases, Callbacks, Legacy
  <1>20. CASE ReceiveNothing
    BY <1>20 DEF IInv, TypeOK, NothingYet, CommandIsOwners, GuardType, ConnType,
      ReceiveNothing, GuardAt, Leave, Quietly, NoConn, Teardown, Commands, Phases, Callbacks,
      Legacy
  <1>21. CASE Receive
    BY <1>21 DEF IInv, TypeOK, NothingYet, CommandIsOwners, GuardType, ConnType, Receive,
      GuardAt, Leave, Quietly, Teardown, Commands, Phases, Callbacks, Legacy
  <1>22. CASE Verify
    BY <1>22 DEF IInv, TypeOK, NothingYet, CommandIsOwners, GuardType, Verify, GuardAt, Leave,
      Quietly, Happens, Teardown, Commands, Phases, Callbacks, Legacy
  <1>23. CASE Bind
    BY <1>23 DEF IInv, TypeOK, NothingYet, CommandIsOwners, GuardType, FilesType, Bind,
      GuardAt, Quietly, Teardown, Commands, Phases, Callbacks, Legacy
  <1>24. CASE Send
    BY <1>24 DEF IInv, TypeOK, NothingYet, CommandIsOwners, GuardType, ConnType, Send, GuardAt,
      Leave, Quietly, NoConn, Teardown, Commands, Phases, Callbacks, Legacy
  <1>25. CASE Lease
    BY <1>25 DEF IInv, TypeOK, NothingYet, CommandIsOwners, GuardType, ConnType, Lease,
      GuardAt, Grants, Poison, ClosedLease, Quietly, Happens, Teardown, Commands, Phases,
      Callbacks, Legacy
  <1>26. CASE Confirm
    BY <1>26 DEF IInv, TypeOK, NothingYet, CommandIsOwners, GuardType, ConnType, Confirm,
      GuardAt, Poison, ClosedLease, Quietly, NoConn, Teardown, Commands, Phases, Callbacks,
      Legacy
  <1>27. CASE StopWork
    BY <1>27 DEF IInv, TypeOK, NothingYet, CommandIsOwners, OwnerType, GuardType, ConnType,
      StopWork, GuardAt, Stopped, NotStopped, Killed, ClosedLease, Quietly, Happens, Teardown,
      Commands, Phases, Callbacks, Legacy
  <1>28. CASE Finish
    BY <1>28 DEF IInv, TypeOK, NothingYet, CommandIsOwners, GuardType, ConnType, Finish,
      GuardAt, Leave, Quietly, Teardown, Commands, Phases, Callbacks, Legacy
  <1>29. CASE KillOwner
    BY <1>29 DEF IInv, TypeOK, NothingYet, CommandIsOwners, OwnerType, ConnType, KillOwner,
      OwnerLive, Happens, Hangup, Legacy, NoConn, Teardown, Commands, Phases, Callbacks
  <1>30. CASE Reap
    BY <1>30 DEF IInv, TypeOK, NothingYet, CommandIsOwners, OwnerType, Reap, Quietly, Teardown,
      Commands, Phases, Callbacks, Legacy
  <1>31. CASE KillGuard
    BY <1>31 DEF IInv, TypeOK, NothingYet, CommandIsOwners, GuardType, ConnType, KillGuard,
      Running, Happens, ClosedLease, Teardown, Commands, Phases, Callbacks, Legacy
  <1>32. CASE Cancel
    BY <1>32 DEF IInv, TypeOK, NothingYet, CommandIsOwners, GuardType, Cancel, Happens,
      Teardown, Commands, Phases, Callbacks, Legacy
  <1>33. CASE Replace
    BY <1>33 DEF IInv, TypeOK, NothingYet, CommandIsOwners, EngineType, Replace, Happens,
      Teardown, Commands, Phases, Callbacks, Legacy
  <1>34. ASSUME NEW a \in {"guard", "owner"}, Identify(a) PROVE NothingYet'
    BY <1>34 DEF IInv, TypeOK, NothingYet, CommandIsOwners, OwnerType, GuardType, Identify,
      Moves, Quietly, Place, Teardown, Commands, Phases, Callbacks, Legacy, Cleans
  <1>35. ASSUME NEW a \in {"guard", "owner"}, Remove(a) PROVE NothingYet'
    BY <1>35 DEF IInv, TypeOK, NothingYet, CommandIsOwners, OwnerType, GuardType, EngineType,
      Remove, Moves, Quietly, Place, Teardown, Commands, Phases, Callbacks, Legacy, Cleans
  <1>36. ASSUME NEW a \in {"guard", "owner"}, Absent(a) PROVE NothingYet'
    BY <1>36 DEF IInv, TypeOK, NothingYet, CommandIsOwners, OwnerType, GuardType, Absent,
      Moves, Quietly, Place, Teardown, Commands, Phases, Callbacks, Legacy, Cleans
  <1>37. ASSUME NEW a \in {"guard", "owner"}, Unload(a) PROVE NothingYet'
    BY <1>37 DEF IInv, TypeOK, NothingYet, CommandIsOwners, OwnerType, GuardType, EngineType,
      Unload, Moves, Quietly, Place, Teardown, Commands, Phases, Callbacks, Legacy, Cleans
  <1>38. ASSUME NEW a \in {"guard", "owner"}, Unmake(a) PROVE NothingYet'
    BY <1>38 DEF IInv, TypeOK, NothingYet, CommandIsOwners, OwnerType, GuardType, EngineType,
      Unmake, Moves, Quietly, Place, Teardown, Commands, Phases, Callbacks, Legacy, Cleans
  <1>39. ASSUME NEW a \in {"guard", "owner"}, Discard(a) PROVE NothingYet'
    BY <1>39 DEF IInv, TypeOK, NothingYet, CommandIsOwners, OwnerType, GuardType, FilesType,
      Discard, Moves, Quietly, Place, Teardown, Commands, Phases, Callbacks, Legacy, Cleans
  <1>40. ASSUME NEW a \in {"guard", "owner"}, Erase(a) PROVE NothingYet'
    BY <1>40 DEF IInv, TypeOK, NothingYet, CommandIsOwners, OwnerType, GuardType, FilesType,
      Erase, Moves, Quietly, Place, Teardown, Commands, Phases, Callbacks, Legacy, Cleans
  <1>41. ASSUME NEW a \in {"guard", "owner"}, Refuse(a) PROVE NothingYet'
    BY <1>41 DEF IInv, TypeOK, NothingYet, CommandIsOwners, OwnerType, GuardType, Refuse,
      Moves, Quietly, Place, Happens, Leave, Teardown, Commands, Phases, Callbacks, Legacy,
      Cleans
  <1>42. CASE Acknowledge \/ LoseAck \/ Tamper \/ Tick
    BY <1>42 DEF IInv, NothingYet, Acknowledge, LoseAck, Tamper, Tick
  <1>43. CASE UNCHANGED vars
    BY <1>43 DEF vars, IInv, NothingYet
  <1> QED
    BY <1>1, <1>2, <1>3, <1>4, <1>5, <1>6, <1>7, <1>8, <1>9, <1>10, <1>11, <1>12, <1>13, <1>14,
      <1>15, <1>16, <1>17, <1>18, <1>19, <1>20, <1>21, <1>22, <1>23, <1>24, <1>25, <1>26,
      <1>27, <1>28, <1>29, <1>30, <1>31, <1>32, <1>33, <1>34, <1>35, <1>36, <1>37, <1>38,
      <1>39, <1>40, <1>41, <1>42, <1>43 DEF Next, OwnerStep, WorkStep, GuardStep, World, Clean

LEMMA CommandIsOwnersStep == IInv /\ [Next]_vars => CommandIsOwners'
  <1> SUFFICES ASSUME IInv, [Next]_vars PROVE CommandIsOwners'
    OBVIOUS
  <1>1. CASE Prepare
    BY <1>1 DEF IInv, TypeOK, CommandIsOwners, OwnerType, FilesType, Prepare, At, Goto,
      Quietly, Commands, Phases, Callbacks, Legacy, Teardown
  <1>2. CASE SpawnGuard
    BY <1>2 DEF IInv, TypeOK, CommandIsOwners, OwnerType, GuardType, SpawnGuard, At, Goto,
      Quietly, Commands, Phases, Callbacks, Legacy, Teardown
  <1>3. CASE AwaitReady
    BY <1>3 DEF IInv, TypeOK, CommandIsOwners, OwnerType, AwaitReady, At, Goto, Quietly,
      Commands, Phases, Callbacks, Legacy, Teardown
  <1>4. CASE StartCommand
    BY <1>4 DEF IInv, TypeOK, CommandIsOwners, OwnerType, GuardType, StartCommand, At, Quietly,
      Commands, Phases, Callbacks, Legacy, Teardown
  <1>5. CASE CollectCommand
    BY <1>5 DEF IInv, TypeOK, CommandIsOwners, OwnerType, CollectCommand, Following, Commands,
      Quietly, Phases, Callbacks, Legacy, Teardown
  <1>6. CASE Ask
    BY <1>6 DEF IInv, TypeOK, CommandIsOwners, OwnerType, GuardType, ConnType, Ask, At,
      Quietly, Phases, Callbacks, Legacy, Running, Commands, Teardown
  <1>7. CASE Answered
    BY <1>7 DEF IInv, TypeOK, CommandIsOwners, OwnerType, ConnType, Answered, Following,
      Phases, Callbacks, Legacy, Quietly, Commands, Teardown
  <1>8. CASE GiveUp
    BY <1>8 DEF IInv, TypeOK, CommandIsOwners, OwnerType, ConnType, GiveUp, Goto, Quietly,
      Happens, Hangup, Legacy, NoConn, Commands, Phases, Callbacks, Teardown
  <1>9. CASE Recover
    BY <1>9 DEF IInv, TypeOK, CommandIsOwners, OwnerType, Recover, At, Quietly, Commands,
      Phases, Callbacks, Legacy, Teardown
  <1>10. CASE AskAgain
    BY <1>10 DEF IInv, TypeOK, CommandIsOwners, OwnerType, ConnType, AskAgain, At, Quietly,
      Commands, Phases, Callbacks, Legacy, Teardown
  <1>11. CASE AwaitGuard
    BY <1>11 DEF IInv, TypeOK, CommandIsOwners, OwnerType, ConnType, AwaitGuard, Goto, Quietly,
      NoConn, Commands, Phases, Callbacks, Legacy, Teardown
  <1>12. CASE CreateVolume
    BY <1>12 DEF IInv, TypeOK, CommandIsOwners, EngineType, CreateVolume, Quietly, Commands,
      Phases, Callbacks, Legacy, Teardown
  <1>13. CASE LoadProfile \/ VerifyLabel
    BY <1>13 DEF IInv, TypeOK, CommandIsOwners, EngineType, LoadProfile, VerifyLabel, Quietly,
      Commands,
      Phases, Callbacks, Legacy, Teardown
  <1>14. CASE CreateContainer
    BY <1>14 DEF IInv, TypeOK, CommandIsOwners, EngineType, CreateContainer, Quietly, Commands,
      Phases, Callbacks, Legacy, Teardown
  <1>15. CASE WriteCid
    BY <1>15 DEF IInv, TypeOK, CommandIsOwners, FilesType, WriteCid, Quietly, Commands, Phases,
      Callbacks, Legacy, Teardown
  <1>16. CASE StopWork
    BY <1>16 DEF IInv, TypeOK, CommandIsOwners, OwnerType, GuardType, ConnType, StopWork,
      GuardAt, Stopped, NotStopped, Killed, ClosedLease, Quietly, Happens, Commands, Phases,
      Callbacks, Legacy, Teardown
  <1>17. CASE KillOwner
    BY <1>17 DEF IInv, TypeOK, CommandIsOwners, OwnerType, ConnType, KillOwner, OwnerLive,
      Happens, Hangup, Legacy, NoConn, Commands, Phases, Callbacks, Teardown
  <1>18. CASE Reap
    BY <1>18 DEF IInv, TypeOK, CommandIsOwners, OwnerType, Reap, Quietly, Commands, Phases,
      Callbacks, Legacy, Teardown
  <1>19. ASSUME NEW a \in {"guard", "owner"}, Identify(a) PROVE CommandIsOwners'
    BY <1>19 DEF IInv, TypeOK, CommandIsOwners, OwnerType, GuardType, Identify, Moves, Quietly,
      Place, Commands, Phases, Callbacks, Legacy, Teardown, Cleans
  <1>20. ASSUME NEW a \in {"guard", "owner"}, Remove(a) PROVE CommandIsOwners'
    BY <1>20 DEF IInv, TypeOK, CommandIsOwners, OwnerType, GuardType, EngineType, Remove,
      Moves, Quietly, Place, Commands, Phases, Callbacks, Legacy, Teardown, Cleans
  <1>21. ASSUME NEW a \in {"guard", "owner"}, Absent(a) PROVE CommandIsOwners'
    BY <1>21 DEF IInv, TypeOK, CommandIsOwners, OwnerType, GuardType, Absent, Moves, Quietly,
      Place, Commands, Phases, Callbacks, Legacy, Teardown, Cleans
  <1>22. ASSUME NEW a \in {"guard", "owner"}, Unload(a) PROVE CommandIsOwners'
    BY <1>22 DEF IInv, TypeOK, CommandIsOwners, OwnerType, GuardType, EngineType, Unload,
      Moves, Quietly, Place, Commands, Phases, Callbacks, Legacy, Teardown, Cleans
  <1>23. ASSUME NEW a \in {"guard", "owner"}, Unmake(a) PROVE CommandIsOwners'
    BY <1>23 DEF IInv, TypeOK, CommandIsOwners, OwnerType, GuardType, EngineType, Unmake,
      Moves, Quietly, Place, Commands, Phases, Callbacks, Legacy, Teardown, Cleans
  <1>24. ASSUME NEW a \in {"guard", "owner"}, Discard(a) PROVE CommandIsOwners'
    BY <1>24 DEF IInv, TypeOK, CommandIsOwners, OwnerType, GuardType, FilesType, Discard,
      Moves, Quietly, Place, Commands, Phases, Callbacks, Legacy, Teardown, Cleans
  <1>25. ASSUME NEW a \in {"guard", "owner"}, Erase(a) PROVE CommandIsOwners'
    BY <1>25 DEF IInv, TypeOK, CommandIsOwners, OwnerType, GuardType, FilesType, Erase, Moves,
      Quietly, Place, Commands, Phases, Callbacks, Legacy, Teardown, Cleans
  <1>26. ASSUME NEW a \in {"guard", "owner"}, Refuse(a) PROVE CommandIsOwners'
    BY <1>26 DEF IInv, TypeOK, CommandIsOwners, OwnerType, GuardType, Refuse, Moves, Quietly,
      Place, Happens, Leave, Commands, Phases, Callbacks, Legacy, Teardown, Cleans
  <1>27. CASE Acknowledge \/ LoseAck \/ Start \/ Announce \/ Snapshot \/ Expire \/
          ReceiveNothing \/ Receive \/ Verify \/ Bind \/ Send \/ Lease \/ Confirm \/ Finish \/
          KillGuard \/ Cancel \/ Tamper \/ Replace \/ Tick
    BY <1>27 DEF IInv, CommandIsOwners, Acknowledge, LoseAck, Start, Announce, Snapshot,
      Expire, ReceiveNothing, Receive, Verify, Bind, Send, Lease, Confirm, Finish, KillGuard,
      Cancel, Tamper, Replace, Tick
  <1>28. CASE UNCHANGED vars
    BY <1>28 DEF vars, IInv, CommandIsOwners
  <1> QED
    BY <1>1, <1>2, <1>3, <1>4, <1>5, <1>6, <1>7, <1>8, <1>9, <1>10, <1>11, <1>12, <1>13, <1>14,
      <1>15, <1>16, <1>17, <1>18, <1>19, <1>20, <1>21, <1>22, <1>23, <1>24, <1>25, <1>26,
      <1>27, <1>28 DEF Next, OwnerStep, WorkStep, GuardStep, World, Clean

LEMMA ClosureWasAskedStep == IInv /\ [Next]_vars => ClosureWasAsked'
  <1> SUFFICES ASSUME IInv, [Next]_vars PROVE ClosureWasAsked'
    OBVIOUS
  <1>1. CASE Prepare
    BY <1>1 DEF IInv, TypeOK, ClosureWasAsked, OwnerLive, AfterClosure, OwnerType, FilesType,
      Prepare, At, Goto, Quietly, Commands, Callbacks, Legacy, Phases, Teardown
  <1>2. CASE SpawnGuard
    BY <1>2 DEF IInv, TypeOK, ClosureWasAsked, OwnerLive, AfterClosure, OwnerType, GuardType,
      SpawnGuard, At, Goto, Quietly, Commands, Callbacks, Legacy, Phases, Teardown
  <1>3. CASE AwaitReady
    BY <1>3 DEF IInv, TypeOK, ClosureWasAsked, OwnerLive, AfterClosure, OwnerType, AwaitReady,
      At, Goto, Quietly, Commands, Callbacks, Legacy, Phases, Teardown
  <1>4. CASE StartCommand
    BY <1>4 DEF IInv, TypeOK, ClosureWasAsked, OwnerLive, AfterClosure, OwnerType, GuardType,
      StartCommand, At, Quietly, Commands, Callbacks, Legacy, Phases, Teardown
  <1>5. CASE CollectCommand
    BY <1>5 DEF IInv, TypeOK, ClosureWasAsked, OwnerLive, AfterClosure, OwnerType,
      CollectCommand, Following, Commands, Quietly, Callbacks, Legacy, Phases, Teardown
  <1>6. CASE Ask
    BY <1>6 DEF IInv, TypeOK, ClosureWasAsked, OwnerLive, AfterClosure, OwnerType, GuardType,
      ConnType, Ask, At, Quietly, Phases, Callbacks, Legacy, Running, Commands, Teardown
  <1>7. CASE Answered
    BY <1>7, MaxChecksAssumption, AnsweredEffect DEF IInv, TypeOK, ClosureWasAsked, OwnerLive,
      AfterClosure, Following, NoConn, Commands, Callbacks, Legacy, Phases, Teardown
  <1>8. CASE GiveUp
    BY <1>8 DEF IInv, TypeOK, ClosureWasAsked, OwnerLive, AfterClosure, OwnerType, ConnType,
      GiveUp, Goto, Quietly, Happens, Hangup, Legacy, NoConn, Commands, Callbacks, Phases,
      Teardown
  <1>9. CASE Recover
    BY <1>9 DEF IInv, TypeOK, ClosureWasAsked, OwnerLive, AfterClosure, OwnerType, Recover, At,
      Quietly, Commands, Callbacks, Legacy, Phases, Teardown
  <1>10. CASE AskAgain
    BY <1>10 DEF IInv, TypeOK, ClosureWasAsked, OwnerLive, AfterClosure, OwnerType, ConnType,
      AskAgain, At, Quietly, Commands, Callbacks, Legacy, Phases, Teardown
  <1>11. CASE AwaitGuard
    BY <1>11 DEF IInv, TypeOK, ClosureWasAsked, OwnerLive, AfterClosure, OwnerType, ConnType,
      AwaitGuard, Goto, Quietly, NoConn, Commands, Callbacks, Legacy, Phases, Teardown
  <1>12. CASE Acknowledge
    BY <1>12 DEF IInv, TypeOK, ClosureWasAsked, OwnerLive, AfterClosure, ConnType, Acknowledge,
      Quietly, Callbacks, Commands, Legacy, Phases, Teardown
  <1>13. CASE LoseAck
    BY <1>13 DEF IInv, TypeOK, ClosureWasAsked, OwnerLive, AfterClosure, ConnType, LoseAck,
      Happens, Callbacks, Commands, Legacy, Phases, Teardown
  <1>14. CASE Start
    BY <1>14 DEF IInv, TypeOK, ClosureWasAsked, OwnerLive, AfterClosure, GuardType, Start,
      GuardAt, Quietly, Commands, Callbacks, Legacy, Phases, Teardown
  <1>15. CASE Announce
    BY <1>15 DEF IInv, TypeOK, ClosureWasAsked, OwnerLive, AfterClosure, GuardType, FilesType,
      Announce, GuardAt, Quietly, Commands, Callbacks, Legacy, Phases, Teardown
  <1>16. CASE Snapshot
    BY <1>16 DEF IInv, TypeOK, ClosureWasAsked, OwnerLive, AfterClosure, GuardType, Snapshot,
      GuardAt, Quietly, Commands, Callbacks, Legacy, Phases, Teardown
  <1>17. CASE Expire
    BY <1>17 DEF IInv, TypeOK, ClosureWasAsked, OwnerLive, AfterClosure, GuardType, Expire,
      GuardAt, Leave, Quietly, Commands, Callbacks, Legacy, Phases, Teardown
  <1>18. CASE ReceiveNothing
    BY <1>18 DEF IInv, TypeOK, ClosureWasAsked, OwnerLive, AfterClosure, GuardType, ConnType,
      ReceiveNothing, GuardAt, Leave, Quietly, NoConn, Commands, Callbacks, Legacy, Phases,
      Teardown
  <1>19. CASE Receive
    BY <1>19, ReceiveEffect DEF IInv, ClosureWasAsked, OwnerLive, AfterClosure, NoConn,
      Commands, Callbacks, Legacy, Phases, Teardown
  <1>20. CASE Verify
    BY <1>20 DEF IInv, TypeOK, ClosureWasAsked, OwnerLive, AfterClosure, GuardType, Verify,
      GuardAt, Leave, Quietly, Happens, Commands, Callbacks, Legacy, Phases, Teardown
  <1>21. CASE Bind
    BY <1>21 DEF IInv, TypeOK, ClosureWasAsked, OwnerLive, AfterClosure, GuardType, FilesType,
      Bind, GuardAt, Quietly, Commands, Callbacks, Legacy, Phases, Teardown
  <1>22. CASE Send
    BY <1>22, SendEffect DEF IInv, ClosureWasAsked, OwnerLive, AfterClosure, NoConn, Commands,
      Callbacks, Legacy, Phases, Teardown
  <1>23. CASE Lease
    BY <1>23, LeaseEffect DEF IInv, ClosureWasAsked, OwnerLive, AfterClosure, NoConn, Commands,
      Callbacks, Legacy, Phases, Teardown
  <1>24. CASE Confirm
    BY <1>24, ConfirmEffect DEF IInv, ClosureWasAsked, OwnerLive, AfterClosure, NoConn,
      Commands, Callbacks, Legacy, Phases, Teardown
  <1>25. CASE StopWork
    BY <1>25, StopWorkEffect DEF IInv, ClosureWasAsked, OwnerLive, AfterClosure, NoConn,
      Commands, Callbacks, Legacy, Phases, Teardown
  <1>26. CASE Finish
    BY <1>26 DEF IInv, TypeOK, ClosureWasAsked, OwnerLive, AfterClosure, GuardType, ConnType,
      Finish, GuardAt, Leave, Quietly, Commands, Callbacks, Legacy, Phases, Teardown
  <1>27. CASE KillOwner
    BY <1>27 DEF IInv, TypeOK, ClosureWasAsked, OwnerLive, AfterClosure, OwnerType, ConnType,
      KillOwner, Happens, Hangup, Legacy, NoConn, Commands, Callbacks, Phases, Teardown
  <1>28. CASE Reap
    BY <1>28 DEF IInv, TypeOK, ClosureWasAsked, OwnerLive, AfterClosure, OwnerType, Reap,
      Quietly, Commands, Callbacks, Legacy, Phases, Teardown
  <1>29. CASE KillGuard
    BY <1>29 DEF IInv, TypeOK, ClosureWasAsked, OwnerLive, AfterClosure, GuardType, ConnType,
      KillGuard, Running, Happens, ClosedLease, Commands, Callbacks, Legacy, Phases, Teardown
  <1>30. CASE Cancel
    BY <1>30 DEF IInv, TypeOK, ClosureWasAsked, OwnerLive, AfterClosure, GuardType, Cancel,
      Happens, Commands, Callbacks, Legacy, Phases, Teardown
  <1>31. ASSUME NEW a \in {"guard", "owner"}, Identify(a) PROVE ClosureWasAsked'
    BY <1>31 DEF IInv, TypeOK, ClosureWasAsked, OwnerLive, AfterClosure, OwnerType, GuardType,
      Identify, Moves, Quietly, Place, Commands, Callbacks, Legacy, Phases, Teardown, Cleans
  <1>32. ASSUME NEW a \in {"guard", "owner"}, Remove(a) PROVE ClosureWasAsked'
    BY <1>32 DEF IInv, TypeOK, ClosureWasAsked, OwnerLive, AfterClosure, OwnerType, GuardType,
      EngineType, Remove, Moves, Quietly, Place, Commands, Callbacks, Legacy, Phases, Teardown,
      Cleans
  <1>33. ASSUME NEW a \in {"guard", "owner"}, Absent(a) PROVE ClosureWasAsked'
    BY <1>33 DEF IInv, TypeOK, ClosureWasAsked, OwnerLive, AfterClosure, OwnerType, GuardType,
      Absent, Moves, Quietly, Place, Commands, Callbacks, Legacy, Phases, Teardown, Cleans
  <1>34. ASSUME NEW a \in {"guard", "owner"}, Unload(a) PROVE ClosureWasAsked'
    BY <1>34 DEF IInv, TypeOK, ClosureWasAsked, OwnerLive, AfterClosure, OwnerType, GuardType,
      EngineType, Unload, Moves, Quietly, Place, Commands, Callbacks, Legacy, Phases, Teardown,
      Cleans
  <1>35. ASSUME NEW a \in {"guard", "owner"}, Unmake(a) PROVE ClosureWasAsked'
    BY <1>35 DEF IInv, TypeOK, ClosureWasAsked, OwnerLive, AfterClosure, OwnerType, GuardType,
      EngineType, Unmake, Moves, Quietly, Place, Commands, Callbacks, Legacy, Phases, Teardown,
      Cleans
  <1>36. ASSUME NEW a \in {"guard", "owner"}, Discard(a) PROVE ClosureWasAsked'
    BY <1>36 DEF IInv, TypeOK, ClosureWasAsked, OwnerLive, AfterClosure, OwnerType, GuardType,
      FilesType, Discard, Moves, Quietly, Place, Commands, Callbacks, Legacy, Phases, Teardown,
      Cleans
  <1>37. ASSUME NEW a \in {"guard", "owner"}, Erase(a) PROVE ClosureWasAsked'
    BY <1>37 DEF IInv, TypeOK, ClosureWasAsked, OwnerLive, AfterClosure, OwnerType, GuardType,
      FilesType, Erase, Moves, Quietly, Place, Commands, Callbacks, Legacy, Phases, Teardown,
      Cleans
  <1>38. ASSUME NEW a \in {"guard", "owner"}, Refuse(a) PROVE ClosureWasAsked'
    BY <1>38 DEF IInv, TypeOK, ClosureWasAsked, OwnerLive, AfterClosure, OwnerType, GuardType,
      Refuse, Moves, Quietly, Place, Happens, Leave, Commands, Callbacks, Legacy, Phases,
      Teardown, Cleans
  <1>39. CASE CreateVolume \/ LoadProfile \/ VerifyLabel \/ CreateContainer \/ WriteCid \/ Tamper
          \/ Replace
          \/ Tick
    BY <1>39 DEF IInv, ClosureWasAsked, OwnerLive, AfterClosure, CreateVolume, LoadProfile,
      VerifyLabel,
      CreateContainer, WriteCid, Tamper, Replace, Tick
  <1>40. CASE UNCHANGED vars
    BY <1>40 DEF vars, IInv, ClosureWasAsked, OwnerLive, AfterClosure
  <1> QED
    BY <1>1, <1>2, <1>3, <1>4, <1>5, <1>6, <1>7, <1>8, <1>9, <1>10, <1>11, <1>12, <1>13, <1>14,
      <1>15, <1>16, <1>17, <1>18, <1>19, <1>20, <1>21, <1>22, <1>23, <1>24, <1>25, <1>26,
      <1>27, <1>28, <1>29, <1>30, <1>31, <1>32, <1>33, <1>34, <1>35, <1>36, <1>37, <1>38,
      <1>39, <1>40 DEF Next, OwnerStep, WorkStep, GuardStep, World, Clean

LEMMA CleansQuietlyStep == IInv /\ [Next]_vars => CleansQuietly'
  <1> SUFFICES ASSUME IInv, [Next]_vars PROVE CleansQuietly'
    OBVIOUS
  <1>1. CASE Prepare
    BY <1>1 DEF IInv, TypeOK, CleansQuietly, ClosureWasAsked, CommandIsOwners, OwnerLive,
      AfterClosure, Running, OwnerType, FilesType, Prepare, At, Goto, Quietly, Commands,
      Callbacks, Legacy, Phases, Teardown, Ended
  <1>2. CASE SpawnGuard
    BY <1>2 DEF IInv, TypeOK, CleansQuietly, ClosureWasAsked, CommandIsOwners, OwnerLive,
      AfterClosure, Running, OwnerType, GuardType, SpawnGuard, At, Goto, Quietly, Commands,
      Callbacks, Legacy, Phases, Teardown, Ended
  <1>3. CASE AwaitReady
    BY <1>3 DEF IInv, TypeOK, CleansQuietly, ClosureWasAsked, CommandIsOwners, OwnerLive,
      AfterClosure, Running, OwnerType, AwaitReady, At, Goto, Quietly, Commands, Callbacks,
      Legacy, Phases, Teardown, Ended
  <1>4. CASE StartCommand
    BY <1>4 DEF IInv, TypeOK, CleansQuietly, ClosureWasAsked, CommandIsOwners, OwnerLive,
      AfterClosure, Running, OwnerType, GuardType, StartCommand, At, Quietly, Commands,
      Callbacks, Legacy, Phases, Teardown, Ended
  <1>5. CASE CollectCommand
    BY <1>5 DEF IInv, TypeOK, CleansQuietly, ClosureWasAsked, CommandIsOwners, OwnerLive,
      AfterClosure, Running, OwnerType, CollectCommand, Following, Commands, Quietly,
      Callbacks, Legacy, Phases, Teardown, Ended
  <1>6. CASE Ask
    BY <1>6 DEF IInv, TypeOK, CleansQuietly, ClosureWasAsked, CommandIsOwners, OwnerLive,
      AfterClosure, Running, OwnerType, GuardType, ConnType, Ask, At, Quietly, Phases,
      Callbacks, Legacy, Commands, Teardown, Ended
  <1>7. CASE Answered
    BY <1>7 DEF IInv, TypeOK, CleansQuietly, ClosureWasAsked, CommandIsOwners, OwnerLive,
      AfterClosure, Running, OwnerType, ConnType, Answered, Following, Phases, Callbacks,
      Legacy, Quietly, Commands, Teardown, Ended
  <1>8. CASE GiveUp
    BY <1>8 DEF IInv, TypeOK, CleansQuietly, ClosureWasAsked, CommandIsOwners, OwnerLive,
      AfterClosure, Running, OwnerType, ConnType, GiveUp, Goto, Quietly, Happens, Hangup,
      Legacy, NoConn, Commands, Callbacks, Phases, Teardown, Ended
  <1>9. CASE Recover
    BY <1>9 DEF IInv, TypeOK, CleansQuietly, ClosureWasAsked, CommandIsOwners, OwnerLive,
      AfterClosure, Running, OwnerType, Recover, At, Quietly, Commands, Callbacks, Legacy,
      Phases, Teardown, Ended
  <1>10. CASE AskAgain
    BY <1>10 DEF IInv, TypeOK, CleansQuietly, ClosureWasAsked, CommandIsOwners, OwnerLive,
      AfterClosure, Running, OwnerType, ConnType, AskAgain, At, Quietly, Commands, Callbacks,
      Legacy, Phases, Teardown, Ended
  <1>11. CASE AwaitGuard
    BY <1>11 DEF IInv, TypeOK, CleansQuietly, ClosureWasAsked, CommandIsOwners, OwnerLive,
      AfterClosure, Running, OwnerType, ConnType, AwaitGuard, Goto, Quietly, NoConn, Commands,
      Callbacks, Legacy, Phases, Teardown, Ended
  <1>12. CASE CreateVolume
    BY <1>12 DEF IInv, TypeOK, CleansQuietly, ClosureWasAsked, CommandIsOwners, OwnerLive,
      AfterClosure, Running, EngineType, CreateVolume, Quietly, Commands, Callbacks, Legacy,
      Phases, Teardown, Ended
  <1>13. CASE LoadProfile \/ VerifyLabel
    BY <1>13 DEF IInv, TypeOK, CleansQuietly, ClosureWasAsked, CommandIsOwners, OwnerLive,
      AfterClosure, Running, EngineType, LoadProfile, VerifyLabel, Quietly, Commands, Callbacks,
        Legacy,
      Phases, Teardown, Ended
  <1>14. CASE CreateContainer
    BY <1>14 DEF IInv, TypeOK, CleansQuietly, ClosureWasAsked, CommandIsOwners, OwnerLive,
      AfterClosure, Running, EngineType, CreateContainer, Quietly, Commands, Callbacks, Legacy,
      Phases, Teardown, Ended
  <1>15. CASE WriteCid
    BY <1>15 DEF IInv, TypeOK, CleansQuietly, ClosureWasAsked, CommandIsOwners, OwnerLive,
      AfterClosure, Running, FilesType, WriteCid, Quietly, Commands, Callbacks, Legacy, Phases,
      Teardown, Ended
  <1>16. CASE Start
    BY <1>16 DEF IInv, TypeOK, CleansQuietly, ClosureWasAsked, CommandIsOwners, OwnerLive,
      AfterClosure, Running, GuardType, Start, GuardAt, Quietly, Commands, Callbacks, Legacy,
      Phases, Teardown, Ended
  <1>17. CASE Announce
    BY <1>17 DEF IInv, TypeOK, CleansQuietly, ClosureWasAsked, CommandIsOwners, OwnerLive,
      AfterClosure, Running, GuardType, FilesType, Announce, GuardAt, Quietly, Commands,
      Callbacks, Legacy, Phases, Teardown, Ended
  <1>18. CASE Snapshot
    BY <1>18 DEF IInv, TypeOK, CleansQuietly, ClosureWasAsked, CommandIsOwners, OwnerLive,
      AfterClosure, Running, GuardType, Snapshot, GuardAt, Quietly, Commands, Callbacks,
      Legacy, Phases, Teardown, Ended
  <1>19. CASE Expire
    BY <1>19 DEF IInv, TypeOK, CleansQuietly, ClosureWasAsked, CommandIsOwners, OwnerLive,
      AfterClosure, Running, GuardType, Expire, GuardAt, Leave, Quietly, Commands, Callbacks,
      Legacy, Phases, Teardown, Ended
  <1>20. CASE ReceiveNothing
    BY <1>20 DEF IInv, TypeOK, CleansQuietly, ClosureWasAsked, CommandIsOwners, OwnerLive,
      AfterClosure, Running, GuardType, ConnType, ReceiveNothing, GuardAt, Leave, Quietly,
      NoConn, Commands, Callbacks, Legacy, Phases, Teardown, Ended
  <1>21. CASE Receive
    BY <1>21, ReceiveEffect DEF IInv, CleansQuietly, ClosureWasAsked, CommandIsOwners,
      OwnerLive, AfterClosure, Running, Commands, Callbacks, Legacy, Phases, Teardown, Ended
  <1>22. CASE Verify
    BY <1>22 DEF IInv, TypeOK, CleansQuietly, ClosureWasAsked, CommandIsOwners, OwnerLive,
      AfterClosure, Running, GuardType, Verify, GuardAt, Leave, Quietly, Happens, Commands,
      Callbacks, Legacy, Phases, Teardown, Ended
  <1>23. CASE Bind
    BY <1>23 DEF IInv, TypeOK, CleansQuietly, ClosureWasAsked, CommandIsOwners, OwnerLive,
      AfterClosure, Running, GuardType, FilesType, Bind, GuardAt, Quietly, Commands, Callbacks,
      Legacy, Phases, Teardown, Ended
  <1>24. CASE Send
    BY <1>24, SendEffect DEF IInv, CleansQuietly, ClosureWasAsked, CommandIsOwners, OwnerLive,
      AfterClosure, Running, Commands, Callbacks, Legacy, Phases, Teardown, Ended
  <1>25. CASE Lease
    BY <1>25, LeaseEffect DEF IInv, CleansQuietly, ClosureWasAsked, CommandIsOwners, OwnerLive,
      AfterClosure, Running, Commands, Callbacks, Legacy, Phases, Teardown, Ended
  <1>26. CASE Confirm
    BY <1>26, ConfirmEffect DEF IInv, CleansQuietly, ClosureWasAsked, CommandIsOwners,
      OwnerLive, AfterClosure, Running, Commands, Callbacks, Legacy, Phases, Teardown, Ended
  <1>27. CASE StopWork
    BY <1>27, StopWorkEffect DEF IInv, CleansQuietly, ClosureWasAsked, CommandIsOwners,
      OwnerLive, AfterClosure, Running, Commands, Callbacks, Legacy, Phases, Teardown, Ended
  <1>28. CASE Finish
    BY <1>28 DEF IInv, TypeOK, CleansQuietly, ClosureWasAsked, CommandIsOwners, OwnerLive,
      AfterClosure, Running, GuardType, ConnType, Finish, GuardAt, Leave, Quietly, Commands,
      Callbacks, Legacy, Phases, Teardown, Ended
  <1>29. CASE KillOwner
    BY <1>29 DEF IInv, TypeOK, CleansQuietly, ClosureWasAsked, CommandIsOwners, OwnerLive,
      AfterClosure, Running, OwnerType, ConnType, KillOwner, Happens, Hangup, Legacy, NoConn,
      Commands, Callbacks, Phases, Teardown, Ended
  <1>30. CASE Reap
    BY <1>30 DEF IInv, TypeOK, CleansQuietly, ClosureWasAsked, CommandIsOwners, OwnerLive,
      AfterClosure, Running, OwnerType, Reap, Quietly, Commands, Callbacks, Legacy, Phases,
      Teardown, Ended
  <1>31. CASE KillGuard
    BY <1>31 DEF IInv, TypeOK, CleansQuietly, ClosureWasAsked, CommandIsOwners, OwnerLive,
      AfterClosure, Running, GuardType, ConnType, KillGuard, Happens, ClosedLease, Commands,
      Callbacks, Legacy, Phases, Teardown, Ended
  <1>32. CASE Cancel
    BY <1>32 DEF IInv, TypeOK, CleansQuietly, ClosureWasAsked, CommandIsOwners, OwnerLive,
      AfterClosure, Running, GuardType, Cancel, Happens, Commands, Callbacks, Legacy, Phases,
      Teardown, Ended
  <1>33. ASSUME NEW a \in {"guard", "owner"}, Identify(a) PROVE CleansQuietly'
    BY <1>33 DEF IInv, TypeOK, CleansQuietly, ClosureWasAsked, CommandIsOwners, OwnerLive,
      AfterClosure, Running, OwnerType, GuardType, Identify, Moves, Quietly, Place, Commands,
      Callbacks, Legacy, Phases, Teardown, Ended, Cleans
  <1>34. ASSUME NEW a \in {"guard", "owner"}, Remove(a) PROVE CleansQuietly'
    BY <1>34 DEF IInv, TypeOK, CleansQuietly, ClosureWasAsked, CommandIsOwners, OwnerLive,
      AfterClosure, Running, OwnerType, GuardType, EngineType, Remove, Moves, Quietly, Place,
      Commands, Callbacks, Legacy, Phases, Teardown, Ended, Cleans
  <1>35. ASSUME NEW a \in {"guard", "owner"}, Absent(a) PROVE CleansQuietly'
    BY <1>35 DEF IInv, TypeOK, CleansQuietly, ClosureWasAsked, CommandIsOwners, OwnerLive,
      AfterClosure, Running, OwnerType, GuardType, Absent, Moves, Quietly, Place, Commands,
      Callbacks, Legacy, Phases, Teardown, Ended, Cleans
  <1>36. ASSUME NEW a \in {"guard", "owner"}, Unload(a) PROVE CleansQuietly'
    BY <1>36 DEF IInv, TypeOK, CleansQuietly, ClosureWasAsked, CommandIsOwners, OwnerLive,
      AfterClosure, Running, OwnerType, GuardType, EngineType, Unload, Moves, Quietly, Place,
      Commands, Callbacks, Legacy, Phases, Teardown, Ended, Cleans
  <1>37. ASSUME NEW a \in {"guard", "owner"}, Unmake(a) PROVE CleansQuietly'
    BY <1>37 DEF IInv, TypeOK, CleansQuietly, ClosureWasAsked, CommandIsOwners, OwnerLive,
      AfterClosure, Running, OwnerType, GuardType, EngineType, Unmake, Moves, Quietly, Place,
      Commands, Callbacks, Legacy, Phases, Teardown, Ended, Cleans
  <1>38. ASSUME NEW a \in {"guard", "owner"}, Discard(a) PROVE CleansQuietly'
    BY <1>38 DEF IInv, TypeOK, CleansQuietly, ClosureWasAsked, CommandIsOwners, OwnerLive,
      AfterClosure, Running, OwnerType, GuardType, FilesType, Discard, Moves, Quietly, Place,
      Commands, Callbacks, Legacy, Phases, Teardown, Ended, Cleans
  <1>39. ASSUME NEW a \in {"guard", "owner"}, Erase(a) PROVE CleansQuietly'
    BY <1>39 DEF IInv, TypeOK, CleansQuietly, ClosureWasAsked, CommandIsOwners, OwnerLive,
      AfterClosure, Running, OwnerType, GuardType, FilesType, Erase, Moves, Quietly, Place,
      Commands, Callbacks, Legacy, Phases, Teardown, Ended, Cleans
  <1>40. ASSUME NEW a \in {"guard", "owner"}, Refuse(a) PROVE CleansQuietly'
    BY <1>40 DEF IInv, TypeOK, CleansQuietly, ClosureWasAsked, CommandIsOwners, OwnerLive,
      AfterClosure, Running, OwnerType, GuardType, Refuse, Moves, Quietly, Place, Happens,
      Leave, Commands, Callbacks, Legacy, Phases, Teardown, Ended, Cleans
  <1>41. CASE Acknowledge \/ LoseAck \/ Tamper \/ Replace \/ Tick
    BY <1>41 DEF IInv, CleansQuietly, OwnerLive, AfterClosure, Running, Acknowledge, LoseAck,
      Tamper, Replace, Tick
  <1>42. CASE UNCHANGED vars
    BY <1>42 DEF vars, IInv, CleansQuietly, OwnerLive, AfterClosure, Running
  <1> QED
    BY <1>1, <1>2, <1>3, <1>4, <1>5, <1>6, <1>7, <1>8, <1>9, <1>10, <1>11, <1>12, <1>13, <1>14,
      <1>15, <1>16, <1>17, <1>18, <1>19, <1>20, <1>21, <1>22, <1>23, <1>24, <1>25, <1>26,
      <1>27, <1>28, <1>29, <1>30, <1>31, <1>32, <1>33, <1>34, <1>35, <1>36, <1>37, <1>38,
      <1>39, <1>40, <1>41, <1>42 DEF Next, OwnerStep, WorkStep, GuardStep, World, Clean

LEMMA GuardStageStep == IInv /\ [Next]_vars => Stage(guard.pc)'
  <1> SUFFICES ASSUME IInv, [Next]_vars PROVE Stage(guard.pc)'
    OBVIOUS
  <1>1. CASE SpawnGuard
    BY <1>1 DEF IInv, TypeOK, CleansQuietly, Stage, OwnerType, GuardType, SpawnGuard, At, Goto,
      Quietly, Teardown, Ended
  <1>2. CASE StartCommand
    BY <1>2 DEF IInv, TypeOK, CleansQuietly, Stage, OwnerType, GuardType, StartCommand, At,
      Quietly, Commands, Teardown, Ended
  <1>3. CASE Ask
    BY <1>3 DEF IInv, TypeOK, CleansQuietly, Stage, OwnerType, GuardType, ConnType, Ask, At,
      Quietly, Phases, Callbacks, Legacy, Running, Teardown, Ended
  <1>4. CASE CreateVolume
    BY <1>4 DEF IInv, TypeOK, CleansQuietly, Stage, EngineType, CreateVolume, Quietly,
      Teardown, Ended
  <1>5. CASE LoadProfile \/ VerifyLabel
    BY <1>5 DEF IInv, TypeOK, CleansQuietly, Stage, EngineType, LoadProfile, VerifyLabel,
      Quietly, Teardown,
      Ended
  <1>6. CASE CreateContainer
    BY <1>6 DEF IInv, TypeOK, CleansQuietly, Stage, EngineType, CreateContainer, Quietly,
      Teardown, Ended
  <1>7. CASE Start
    BY <1>7 DEF IInv, TypeOK, CleansQuietly, Stage, GuardType, Start, GuardAt, Quietly,
      Teardown, Ended
  <1>8. CASE Announce
    BY <1>8 DEF IInv, TypeOK, CleansQuietly, Stage, GuardType, FilesType, Announce, GuardAt,
      Quietly, Teardown, Ended
  <1>9. CASE Snapshot
    BY <1>9 DEF IInv, TypeOK, CleansQuietly, Stage, GuardType, Snapshot, GuardAt, Quietly,
      Teardown, Ended
  <1>10. CASE Expire
    BY <1>10 DEF IInv, TypeOK, CleansQuietly, Stage, GuardType, Expire, GuardAt, Leave,
      Quietly, Teardown, Ended
  <1>11. CASE ReceiveNothing
    BY <1>11 DEF IInv, TypeOK, CleansQuietly, Stage, GuardType, ConnType, ReceiveNothing,
      GuardAt, Leave, Quietly, NoConn, Teardown, Ended
  <1>12. CASE Receive
    BY <1>12, ReceiveEffect DEF IInv, CleansQuietly, Stage, Teardown, Ended
  <1>13. CASE Verify
    BY <1>13 DEF IInv, TypeOK, CleansQuietly, Stage, GuardType, Verify, GuardAt, Leave,
      Quietly, Happens, Teardown, Ended
  <1>14. CASE Bind
    BY <1>14 DEF IInv, TypeOK, CleansQuietly, Stage, GuardType, FilesType, Bind, GuardAt,
      Quietly, Teardown, Ended
  <1>15. CASE Send
    BY <1>15, SendEffect DEF IInv, CleansQuietly, Stage, Teardown, Ended
  <1>16. CASE Lease
    BY <1>16, LeaseEffect DEF IInv, CleansQuietly, Stage, Teardown, Ended
  <1>17. CASE Confirm
    BY <1>17, ConfirmEffect DEF IInv, CleansQuietly, Stage, Teardown, Ended
  <1>18. CASE StopWork
    BY <1>18, StopWorkEffect DEF IInv, CleansQuietly, Stage, Teardown, Ended
  <1>19. CASE Finish
    BY <1>19 DEF IInv, TypeOK, CleansQuietly, Stage, GuardType, ConnType, Finish, GuardAt,
      Leave, Quietly, Teardown, Ended
  <1>20. CASE KillGuard
    BY <1>20 DEF IInv, TypeOK, CleansQuietly, Stage, GuardType, ConnType, KillGuard, Running,
      Happens, ClosedLease, Teardown, Ended
  <1>21. CASE Cancel
    BY <1>21 DEF IInv, TypeOK, CleansQuietly, Stage, GuardType, Cancel, Happens, Teardown, Ended
  <1>22. CASE Replace
    BY <1>22 DEF IInv, TypeOK, CleansQuietly, Stage, EngineType, Replace, Happens, Teardown, Ended
  <1>23. ASSUME NEW a \in {"guard", "owner"}, Identify(a) PROVE Stage(guard.pc)'
    BY <1>23, MaxChecksAssumption, MovesEffect DEF IInv, TypeOK, CleansQuietly, Stage,
      Identify, Cleans, Place, Resolved, Teardown, Ended
  <1>24. ASSUME NEW a \in {"guard", "owner"}, Remove(a) PROVE Stage(guard.pc)'
    BY <1>24 DEF IInv, TypeOK, CleansQuietly, Stage, OwnerType, GuardType, EngineType, Remove,
      Moves, Quietly, Place, Teardown, Ended, Cleans
  <1>25. ASSUME NEW a \in {"guard", "owner"}, Absent(a) PROVE Stage(guard.pc)'
    BY <1>25 DEF IInv, TypeOK, CleansQuietly, Stage, OwnerType, GuardType, Absent, Moves,
      Quietly, Place, Teardown, Ended, Cleans
  <1>26. ASSUME NEW a \in {"guard", "owner"}, Unload(a) PROVE Stage(guard.pc)'
    BY <1>26 DEF IInv, TypeOK, CleansQuietly, Stage, OwnerType, GuardType, EngineType, Unload,
      Moves, Quietly, Place, Teardown, Ended, Cleans
  <1>27. ASSUME NEW a \in {"guard", "owner"}, Unmake(a) PROVE Stage(guard.pc)'
    BY <1>27 DEF IInv, TypeOK, CleansQuietly, Stage, OwnerType, GuardType, EngineType, Unmake,
      Moves, Quietly, Place, Teardown, Ended, Cleans
  <1>28. ASSUME NEW a \in {"guard", "owner"}, Discard(a) PROVE Stage(guard.pc)'
    BY <1>28 DEF IInv, TypeOK, CleansQuietly, Stage, OwnerType, GuardType, FilesType, Discard,
      Moves, Quietly, Place, Teardown, Ended, Cleans
  <1>29. ASSUME NEW a \in {"guard", "owner"}, Erase(a) PROVE Stage(guard.pc)'
    BY <1>29 DEF IInv, TypeOK, CleansQuietly, Stage, OwnerType, GuardType, FilesType, Erase,
      Moves, Quietly, Place, Teardown, Ended, Cleans
  <1>30. ASSUME NEW a \in {"guard", "owner"}, Refuse(a) PROVE Stage(guard.pc)'
    <2>1. engine'.container = engine.container /\ engine'.volume = engine.volume
            /\ (engine'.profile => engine.profile)
      BY <1>30, RefuseEngine DEF IInv, TypeOK, EngineType
    <2> QED
      BY <1>30, <2>1, RefuseEffect DEF IInv, Stage, Teardown
  <1>31. CASE Prepare \/ AwaitReady \/ CollectCommand \/ Answered \/ GiveUp \/ Recover \/
          AskAgain \/ AwaitGuard \/ WriteCid \/ Acknowledge \/ LoseAck \/ KillOwner \/ Reap \/
          Tamper \/ Tick
    BY <1>31 DEF IInv, Stage, Prepare, AwaitReady, CollectCommand, Answered, GiveUp, Recover,
      AskAgain, AwaitGuard, WriteCid, Acknowledge, LoseAck, KillOwner, Reap, Tamper, Tick
  <1>32. CASE UNCHANGED vars
    BY <1>32 DEF vars, IInv, Stage
  <1> QED
    BY <1>1, <1>2, <1>3, <1>4, <1>5, <1>6, <1>7, <1>8, <1>9, <1>10, <1>11, <1>12, <1>13, <1>14,
      <1>15, <1>16, <1>17, <1>18, <1>19, <1>20, <1>21, <1>22, <1>23, <1>24, <1>25, <1>26,
      <1>27, <1>28, <1>29, <1>30, <1>31, <1>32 DEF Next, OwnerStep, WorkStep, GuardStep, World,
      Clean

LEMMA OwnerStageStep == IInv /\ [Next]_vars => Stage(owner.pc)'
  <1> SUFFICES ASSUME IInv, [Next]_vars PROVE Stage(owner.pc)'
    OBVIOUS
  <1>1. CASE Prepare
    BY <1>1 DEF IInv, TypeOK, CleansQuietly, CommandIsOwners, Stage, OwnerType, FilesType,
      Prepare, At, Goto, Quietly, Teardown, Commands, Phases, Callbacks, Legacy
  <1>2. CASE SpawnGuard
    BY <1>2 DEF IInv, TypeOK, CleansQuietly, CommandIsOwners, Stage, OwnerType, GuardType,
      SpawnGuard, At, Goto, Quietly, Teardown, Commands, Phases, Callbacks, Legacy
  <1>3. CASE AwaitReady
    BY <1>3 DEF IInv, TypeOK, CleansQuietly, CommandIsOwners, Stage, OwnerType, AwaitReady, At,
      Goto, Quietly, Teardown, Commands, Phases, Callbacks, Legacy
  <1>4. CASE StartCommand
    BY <1>4 DEF IInv, TypeOK, CleansQuietly, CommandIsOwners, Stage, OwnerType, GuardType,
      StartCommand, At, Quietly, Commands, Teardown, Phases, Callbacks, Legacy
  <1>5. CASE CollectCommand
    BY <1>5 DEF IInv, TypeOK, CleansQuietly, CommandIsOwners, Stage, OwnerType, CollectCommand,
      Following, Commands, Quietly, Teardown, Phases, Callbacks, Legacy
  <1>6. CASE Ask
    BY <1>6 DEF IInv, TypeOK, CleansQuietly, CommandIsOwners, Stage, OwnerType, GuardType,
      ConnType, Ask, At, Quietly, Phases, Callbacks, Legacy, Running, Teardown, Commands
  <1>7. CASE Answered
    BY <1>7 DEF IInv, TypeOK, CleansQuietly, CommandIsOwners, Stage, OwnerType, ConnType,
      Answered, Following, Phases, Callbacks, Legacy, Quietly, Teardown, Commands
  <1>8. CASE GiveUp
    BY <1>8 DEF IInv, TypeOK, CleansQuietly, CommandIsOwners, Stage, OwnerType, ConnType,
      GiveUp, Goto, Quietly, Happens, Hangup, Legacy, NoConn, Teardown, Commands, Phases,
      Callbacks
  <1>9. CASE Recover
    BY <1>9 DEF IInv, TypeOK, CleansQuietly, CommandIsOwners, Stage, OwnerType, Recover, At,
      Quietly, Teardown, Commands, Phases, Callbacks, Legacy
  <1>10. CASE AskAgain
    BY <1>10 DEF IInv, TypeOK, CleansQuietly, CommandIsOwners, Stage, OwnerType, ConnType,
      AskAgain, At, Quietly, Teardown, Commands, Phases, Callbacks, Legacy
  <1>11. CASE AwaitGuard
    BY <1>11 DEF IInv, TypeOK, CleansQuietly, CommandIsOwners, Stage, OwnerType, ConnType,
      AwaitGuard, Goto, Quietly, NoConn, Teardown, Commands, Phases, Callbacks, Legacy
  <1>12. CASE CreateVolume
    BY <1>12 DEF IInv, TypeOK, CleansQuietly, CommandIsOwners, Stage, EngineType, CreateVolume,
      Quietly, Teardown, Commands, Phases, Callbacks, Legacy
  <1>13. CASE LoadProfile \/ VerifyLabel
    BY <1>13 DEF IInv, TypeOK, CleansQuietly, CommandIsOwners, Stage, EngineType, LoadProfile,
      VerifyLabel,
      Quietly, Teardown, Commands, Phases, Callbacks, Legacy
  <1>14. CASE CreateContainer
    BY <1>14 DEF IInv, TypeOK, CleansQuietly, CommandIsOwners, Stage, EngineType,
      CreateContainer, Quietly, Teardown, Commands, Phases, Callbacks, Legacy
  <1>15. CASE StopWork
    BY <1>15 DEF IInv, TypeOK, CleansQuietly, CommandIsOwners, Stage, OwnerType, GuardType,
      ConnType, StopWork, GuardAt, Stopped, NotStopped, Killed, ClosedLease, Quietly, Happens,
      Teardown, Commands, Phases, Callbacks, Legacy
  <1>16. CASE KillOwner
    BY <1>16 DEF IInv, TypeOK, CleansQuietly, CommandIsOwners, Stage, OwnerType, ConnType,
      KillOwner, OwnerLive, Happens, Hangup, Legacy, NoConn, Teardown, Commands, Phases,
      Callbacks
  <1>17. CASE Reap
    BY <1>17 DEF IInv, TypeOK, CleansQuietly, CommandIsOwners, Stage, OwnerType, Reap, Quietly,
      Teardown, Commands, Phases, Callbacks, Legacy
  <1>18. CASE Replace
    BY <1>18 DEF IInv, TypeOK, CleansQuietly, CommandIsOwners, Stage, EngineType, Replace,
      Happens, Teardown, Commands, Phases, Callbacks, Legacy
  <1>19. ASSUME NEW a \in {"guard", "owner"}, Identify(a) PROVE Stage(owner.pc)'
    BY <1>19, MaxChecksAssumption, MovesEffect DEF IInv, TypeOK, CleansQuietly,
      CommandIsOwners, Stage, Identify, Cleans, Place, Resolved, Teardown, Commands, Phases,
      Callbacks, Legacy
  <1>20. ASSUME NEW a \in {"guard", "owner"}, Remove(a) PROVE Stage(owner.pc)'
    BY <1>20 DEF IInv, TypeOK, CleansQuietly, CommandIsOwners, Stage, OwnerType, GuardType,
      EngineType, Remove, Moves, Quietly, Place, Teardown, Commands, Phases, Callbacks, Legacy,
      Cleans
  <1>21. ASSUME NEW a \in {"guard", "owner"}, Absent(a) PROVE Stage(owner.pc)'
    BY <1>21 DEF IInv, TypeOK, CleansQuietly, CommandIsOwners, Stage, OwnerType, GuardType,
      Absent, Moves, Quietly, Place, Teardown, Commands, Phases, Callbacks, Legacy, Cleans
  <1>22. ASSUME NEW a \in {"guard", "owner"}, Unload(a) PROVE Stage(owner.pc)'
    BY <1>22 DEF IInv, TypeOK, CleansQuietly, CommandIsOwners, Stage, OwnerType, GuardType,
      EngineType, Unload, Moves, Quietly, Place, Teardown, Commands, Phases, Callbacks, Legacy,
      Cleans
  <1>23. ASSUME NEW a \in {"guard", "owner"}, Unmake(a) PROVE Stage(owner.pc)'
    BY <1>23 DEF IInv, TypeOK, CleansQuietly, CommandIsOwners, Stage, OwnerType, GuardType,
      EngineType, Unmake, Moves, Quietly, Place, Teardown, Commands, Phases, Callbacks, Legacy,
      Cleans
  <1>24. ASSUME NEW a \in {"guard", "owner"}, Discard(a) PROVE Stage(owner.pc)'
    BY <1>24 DEF IInv, TypeOK, CleansQuietly, CommandIsOwners, Stage, OwnerType, GuardType,
      FilesType, Discard, Moves, Quietly, Place, Teardown, Commands, Phases, Callbacks, Legacy,
      Cleans
  <1>25. ASSUME NEW a \in {"guard", "owner"}, Erase(a) PROVE Stage(owner.pc)'
    BY <1>25 DEF IInv, TypeOK, CleansQuietly, CommandIsOwners, Stage, OwnerType, GuardType,
      FilesType, Erase, Moves, Quietly, Place, Teardown, Commands, Phases, Callbacks, Legacy,
      Cleans
  <1>26. ASSUME NEW a \in {"guard", "owner"}, Refuse(a) PROVE Stage(owner.pc)'
    <2>1. engine'.container = engine.container /\ engine'.volume = engine.volume
            /\ (engine'.profile => engine.profile)
      BY <1>26, RefuseEngine DEF IInv, TypeOK, EngineType
    <2> QED
      BY <1>26, <2>1, RefuseEffect DEF IInv, Stage, Teardown
  <1>27. CASE WriteCid \/ Acknowledge \/ LoseAck \/ Start \/ Announce \/ Snapshot \/ Expire \/
          ReceiveNothing \/ Receive \/ Verify \/ Bind \/ Send \/ Lease \/ Confirm \/ Finish \/
          KillGuard \/ Cancel \/ Tamper \/ Tick
    BY <1>27 DEF IInv, Stage, WriteCid, Acknowledge, LoseAck, Start, Announce, Snapshot,
      Expire, ReceiveNothing, Receive, Verify, Bind, Send, Lease, Confirm, Finish, KillGuard,
      Cancel, Tamper, Tick
  <1>28. CASE UNCHANGED vars
    BY <1>28 DEF vars, IInv, Stage
  <1> QED
    BY <1>1, <1>2, <1>3, <1>4, <1>5, <1>6, <1>7, <1>8, <1>9, <1>10, <1>11, <1>12, <1>13, <1>14,
      <1>15, <1>16, <1>17, <1>18, <1>19, <1>20, <1>21, <1>22, <1>23, <1>24, <1>25, <1>26,
      <1>27, <1>28 DEF Next, OwnerStep, WorkStep, GuardStep, World, Clean

LEMMA LeaseHeldStep == IInv /\ [Next]_vars => LeaseHeld'
  <1> SUFFICES ASSUME IInv, [Next]_vars PROVE LeaseHeld'
    OBVIOUS
  <1>1. CASE SpawnGuard
    BY <1>1 DEF IInv, TypeOK, LeaseHeld, NothingYet, Serving, OwnerType, GuardType, SpawnGuard,
      At, Goto, Quietly, Teardown, Ended
  <1>2. CASE StartCommand
    BY <1>2 DEF IInv, TypeOK, LeaseHeld, NothingYet, Serving, OwnerType, GuardType,
      StartCommand, At, Quietly, Commands, Teardown, Ended
  <1>3. CASE Ask
    BY <1>3 DEF IInv, TypeOK, LeaseHeld, NothingYet, Serving, OwnerType, GuardType, ConnType,
      Ask, At, Quietly, Phases, Callbacks, Legacy, Running, Teardown, Ended
  <1>4. CASE Start
    BY <1>4 DEF IInv, TypeOK, LeaseHeld, NothingYet, Serving, GuardType, Start, GuardAt,
      Quietly, Teardown, Ended
  <1>5. CASE Announce
    BY <1>5 DEF IInv, TypeOK, LeaseHeld, NothingYet, Serving, GuardType, FilesType, Announce,
      GuardAt, Quietly, Teardown, Ended
  <1>6. CASE Snapshot
    BY <1>6 DEF IInv, TypeOK, LeaseHeld, NothingYet, Serving, GuardType, Snapshot, GuardAt,
      Quietly, Teardown, Ended
  <1>7. CASE Expire
    BY <1>7 DEF IInv, TypeOK, LeaseHeld, NothingYet, Serving, GuardType, Expire, GuardAt,
      Leave, Quietly, Teardown, Ended
  <1>8. CASE ReceiveNothing
    BY <1>8 DEF IInv, TypeOK, LeaseHeld, NothingYet, Serving, GuardType, ConnType,
      ReceiveNothing, GuardAt, Leave, Quietly, NoConn, Teardown, Ended
  <1>9. CASE Receive
    BY <1>9, ReceiveEffect DEF IInv, LeaseHeld, NothingYet, Serving, Teardown, Ended
  <1>10. CASE Verify
    BY <1>10 DEF IInv, TypeOK, LeaseHeld, NothingYet, Serving, GuardType, Verify, GuardAt,
      Leave, Quietly, Happens, Teardown, Ended
  <1>11. CASE Bind
    BY <1>11 DEF IInv, TypeOK, LeaseHeld, NothingYet, Serving, GuardType, FilesType, Bind,
      GuardAt, Quietly, Teardown, Ended
  <1>12. CASE Send
    BY <1>12, SendEffect DEF IInv, LeaseHeld, NothingYet, Serving, Teardown, Ended
  <1>13. CASE Lease
    BY <1>13, LeaseEffect DEF IInv, LeaseHeld, NothingYet, Serving, Teardown, Ended
  <1>14. CASE Confirm
    BY <1>14, ConfirmEffect DEF IInv, LeaseHeld, NothingYet, Serving, Teardown, Ended
  <1>15. CASE StopWork
    BY <1>15, StopWorkEffect DEF IInv, LeaseHeld, NothingYet, Serving, Teardown, Ended
  <1>16. CASE Finish
    BY <1>16 DEF IInv, TypeOK, LeaseHeld, NothingYet, Serving, GuardType, ConnType, Finish,
      GuardAt, Leave, Quietly, Teardown, Ended
  <1>17. CASE KillGuard
    BY <1>17 DEF IInv, TypeOK, LeaseHeld, NothingYet, Serving, GuardType, ConnType, KillGuard,
      Running, Happens, ClosedLease, Teardown, Ended
  <1>18. CASE Cancel
    BY <1>18 DEF IInv, TypeOK, LeaseHeld, NothingYet, Serving, GuardType, Cancel, Happens,
      Teardown, Ended
  <1>19. ASSUME NEW a \in {"guard", "owner"}, Identify(a) PROVE LeaseHeld'
    BY <1>19 DEF IInv, TypeOK, LeaseHeld, NothingYet, Serving, OwnerType, GuardType, Identify,
      Moves, Quietly, Place, Teardown, Ended, Cleans
  <1>20. ASSUME NEW a \in {"guard", "owner"}, Remove(a) PROVE LeaseHeld'
    BY <1>20 DEF IInv, TypeOK, LeaseHeld, NothingYet, Serving, OwnerType, GuardType,
      EngineType, Remove, Moves, Quietly, Place, Teardown, Ended, Cleans
  <1>21. ASSUME NEW a \in {"guard", "owner"}, Absent(a) PROVE LeaseHeld'
    BY <1>21 DEF IInv, TypeOK, LeaseHeld, NothingYet, Serving, OwnerType, GuardType, Absent,
      Moves, Quietly, Place, Teardown, Ended, Cleans
  <1>22. ASSUME NEW a \in {"guard", "owner"}, Unload(a) PROVE LeaseHeld'
    BY <1>22 DEF IInv, TypeOK, LeaseHeld, NothingYet, Serving, OwnerType, GuardType,
      EngineType, Unload, Moves, Quietly, Place, Teardown, Ended, Cleans
  <1>23. ASSUME NEW a \in {"guard", "owner"}, Unmake(a) PROVE LeaseHeld'
    BY <1>23 DEF IInv, TypeOK, LeaseHeld, NothingYet, Serving, OwnerType, GuardType,
      EngineType, Unmake, Moves, Quietly, Place, Teardown, Ended, Cleans
  <1>24. ASSUME NEW a \in {"guard", "owner"}, Discard(a) PROVE LeaseHeld'
    BY <1>24 DEF IInv, TypeOK, LeaseHeld, NothingYet, Serving, OwnerType, GuardType, FilesType,
      Discard, Moves, Quietly, Place, Teardown, Ended, Cleans
  <1>25. ASSUME NEW a \in {"guard", "owner"}, Erase(a) PROVE LeaseHeld'
    BY <1>25 DEF IInv, TypeOK, LeaseHeld, NothingYet, Serving, OwnerType, GuardType, FilesType,
      Erase, Moves, Quietly, Place, Teardown, Ended, Cleans
  <1>26. ASSUME NEW a \in {"guard", "owner"}, Refuse(a) PROVE LeaseHeld'
    BY <1>26 DEF IInv, TypeOK, LeaseHeld, NothingYet, Serving, OwnerType, GuardType, Refuse,
      Moves, Quietly, Place, Happens, Leave, Teardown, Ended, Cleans
  <1>27. CASE Prepare \/ AwaitReady \/ CollectCommand \/ Answered \/ GiveUp \/ Recover \/
          AskAgain \/ AwaitGuard \/ CreateVolume \/ LoadProfile \/ VerifyLabel \/ CreateContainer
                  \/ WriteCid
          \/ Acknowledge \/ LoseAck \/ KillOwner \/ Reap \/ Tamper \/ Replace \/ Tick
    BY <1>27 DEF IInv, LeaseHeld, Serving, Prepare, AwaitReady, CollectCommand, Answered,
      GiveUp, Recover, AskAgain, AwaitGuard, CreateVolume, LoadProfile, VerifyLabel,
        CreateContainer,
      WriteCid, Acknowledge, LoseAck, KillOwner, Reap, Tamper, Replace, Tick
  <1>28. CASE UNCHANGED vars
    BY <1>28 DEF vars, IInv, LeaseHeld, Serving
  <1> QED
    BY <1>1, <1>2, <1>3, <1>4, <1>5, <1>6, <1>7, <1>8, <1>9, <1>10, <1>11, <1>12, <1>13, <1>14,
      <1>15, <1>16, <1>17, <1>18, <1>19, <1>20, <1>21, <1>22, <1>23, <1>24, <1>25, <1>26,
      <1>27, <1>28 DEF Next, OwnerStep, WorkStep, GuardStep, World, Clean

LEMMA CountedStep == IInv /\ [Next]_vars => Counted'
  <1> SUFFICES ASSUME IInv, [Next]_vars PROVE Counted'
    OBVIOUS
  <1>1. CASE Prepare
    BY <1>1 DEF IInv, TypeOK, Counted, BeforeClosure, OwnerType, FilesType, Prepare, At, Goto,
      Quietly, Commands, Callbacks, Legacy, Phases, Teardown, Ended
  <1>2. CASE SpawnGuard
    BY <1>2 DEF IInv, TypeOK, Counted, BeforeClosure, OwnerType, GuardType, SpawnGuard, At,
      Goto, Quietly, Commands, Callbacks, Legacy, Phases, Teardown, Ended
  <1>3. CASE AwaitReady
    BY <1>3 DEF IInv, TypeOK, Counted, BeforeClosure, OwnerType, AwaitReady, At, Goto, Quietly,
      Commands, Callbacks, Legacy, Phases, Teardown, Ended
  <1>4. CASE StartCommand
    BY <1>4 DEF IInv, TypeOK, Counted, BeforeClosure, OwnerType, GuardType, StartCommand, At,
      Quietly, Commands, Callbacks, Legacy, Phases, Teardown, Ended
  <1>5. CASE CollectCommand
    BY <1>5 DEF IInv, TypeOK, Counted, BeforeClosure, OwnerType, CollectCommand, Following,
      Commands, Quietly, Callbacks, Legacy, Phases, Teardown, Ended
  <1>6. CASE Ask
    BY <1>6 DEF IInv, TypeOK, Counted, BeforeClosure, OwnerType, GuardType, ConnType, Ask, At,
      Quietly, Phases, Callbacks, Legacy, Running, Commands, Teardown, Ended
  <1>7. CASE Answered
    <2>1. owner.seq \in Nat /\ guard.seq \in Nat /\ MaxChecks \in Nat \ {0}
      BY MaxChecksAssumption DEF IInv, TypeOK, OwnerType, GuardType
    <2>2. guard' = guard /\ conn' = NoConn /\ owner'.pc = Following(owner.pc)
      BY <1>7, AnsweredEffect DEF IInv
    <2>3. CASE owner.pc \in Callbacks
      <3>1. owner'.seq = owner.seq + 1
        BY <1>7, <2>3, AnsweredEffect DEF IInv
      <3> QED
        BY <2>1, <2>2, <2>3, <3>1 DEF IInv, Counted, BeforeClosure, Following, NoConn, Commands,
          Phases, Callbacks, Legacy
    <2>4. CASE owner.pc \in Legacy
      <3>1. owner'.seq = owner.seq
        BY <1>7, <2>4, AnsweredEffect DEF IInv, Callbacks, Legacy
      <3> QED
        BY <2>1, <2>2, <2>4, <3>1 DEF IInv, Counted, BeforeClosure, Following, NoConn, Commands,
          Phases, Callbacks, Legacy
    <2> QED
      BY <1>7, <2>3, <2>4, AnsweredEffect DEF IInv, Phases
  <1>8. CASE GiveUp
    BY <1>8 DEF IInv, TypeOK, Counted, BeforeClosure, OwnerType, ConnType, GiveUp, Goto,
      Quietly, Happens, Hangup, Legacy, NoConn, Commands, Callbacks, Phases, Teardown, Ended
  <1>9. CASE Recover
    BY <1>9 DEF IInv, TypeOK, Counted, BeforeClosure, OwnerType, Recover, At, Quietly,
      Commands, Callbacks, Legacy, Phases, Teardown, Ended
  <1>10. CASE AskAgain
    BY <1>10 DEF IInv, TypeOK, Counted, BeforeClosure, OwnerType, ConnType, AskAgain, At,
      Quietly, Commands, Callbacks, Legacy, Phases, Teardown, Ended
  <1>11. CASE AwaitGuard
    BY <1>11 DEF IInv, TypeOK, Counted, BeforeClosure, OwnerType, ConnType, AwaitGuard, Goto,
      Quietly, NoConn, Commands, Callbacks, Legacy, Phases, Teardown, Ended
  <1>12. CASE Acknowledge
    BY <1>12 DEF IInv, TypeOK, Counted, BeforeClosure, ConnType, Acknowledge, Quietly,
      Callbacks, Commands, Legacy, Phases, Teardown, Ended
  <1>13. CASE LoseAck
    BY <1>13 DEF IInv, TypeOK, Counted, BeforeClosure, ConnType, LoseAck, Happens, Callbacks,
      Commands, Legacy, Phases, Teardown, Ended
  <1>14. CASE Start
    BY <1>14 DEF IInv, TypeOK, Counted, BeforeClosure, GuardType, Start, GuardAt, Quietly,
      Commands, Callbacks, Legacy, Phases, Teardown, Ended
  <1>15. CASE Announce
    BY <1>15 DEF IInv, TypeOK, Counted, BeforeClosure, GuardType, FilesType, Announce, GuardAt,
      Quietly, Commands, Callbacks, Legacy, Phases, Teardown, Ended
  <1>16. CASE Snapshot
    BY <1>16 DEF IInv, TypeOK, Counted, BeforeClosure, GuardType, Snapshot, GuardAt, Quietly,
      Commands, Callbacks, Legacy, Phases, Teardown, Ended
  <1>17. CASE Expire
    BY <1>17 DEF IInv, TypeOK, Counted, BeforeClosure, GuardType, Expire, GuardAt, Leave,
      Quietly, Commands, Callbacks, Legacy, Phases, Teardown, Ended
  <1>18. CASE ReceiveNothing
    BY <1>18 DEF IInv, TypeOK, Counted, BeforeClosure, GuardType, ConnType, ReceiveNothing,
      GuardAt, Leave, Quietly, NoConn, Commands, Callbacks, Legacy, Phases, Teardown, Ended
  <1>19. CASE Receive
    BY <1>19, ReceiveEffect DEF IInv, Counted, BeforeClosure, NoConn, Commands, Callbacks,
      Legacy, Phases, Teardown, Ended
  <1>20. CASE Verify
    BY <1>20 DEF IInv, TypeOK, Counted, BeforeClosure, GuardType, Verify, GuardAt, Leave,
      Quietly, Happens, Commands, Callbacks, Legacy, Phases, Teardown, Ended
  <1>21. CASE Bind
    BY <1>21 DEF IInv, TypeOK, Counted, BeforeClosure, GuardType, FilesType, Bind, GuardAt,
      Quietly, Commands, Callbacks, Legacy, Phases, Teardown, Ended
  <1>22. CASE Send
    BY <1>22, SendEffect DEF IInv, Counted, BeforeClosure, NoConn, Commands, Callbacks, Legacy,
      Phases, Teardown, Ended
  <1>23. CASE Lease
    BY <1>23, LeaseEffect DEF IInv, TypeOK, Counted, BeforeClosure, NoConn, Grants, OwnerType,
      GuardType, ConnType, Commands, Callbacks, Legacy, Phases, Teardown, Ended
  <1>24. CASE Confirm
    BY <1>24, ConfirmEffect DEF IInv, Counted, BeforeClosure, NoConn, Commands, Callbacks,
      Legacy, Phases, Teardown, Ended
  <1>25. CASE StopWork
    BY <1>25, StopWorkEffect DEF IInv, Counted, BeforeClosure, NoConn, Commands, Callbacks,
      Legacy, Phases, Teardown, Ended
  <1>26. CASE Finish
    BY <1>26 DEF IInv, TypeOK, Counted, BeforeClosure, GuardType, ConnType, Finish, GuardAt,
      Leave, Quietly, Commands, Callbacks, Legacy, Phases, Teardown, Ended
  <1>27. CASE KillOwner
    BY <1>27 DEF IInv, TypeOK, Counted, BeforeClosure, OwnerType, ConnType, KillOwner,
      OwnerLive, Happens, Hangup, Legacy, NoConn, Commands, Callbacks, Phases, Teardown, Ended
  <1>28. CASE Reap
    BY <1>28 DEF IInv, TypeOK, Counted, BeforeClosure, OwnerType, Reap, Quietly, Commands,
      Callbacks, Legacy, Phases, Teardown, Ended
  <1>29. CASE KillGuard
    BY <1>29 DEF IInv, TypeOK, Counted, BeforeClosure, GuardType, ConnType, KillGuard, Running,
      Happens, ClosedLease, Commands, Callbacks, Legacy, Phases, Teardown, Ended
  <1>30. CASE Cancel
    BY <1>30 DEF IInv, TypeOK, Counted, BeforeClosure, GuardType, Cancel, Happens, Commands,
      Callbacks, Legacy, Phases, Teardown, Ended
  <1>31. ASSUME NEW a \in {"guard", "owner"}, Identify(a) PROVE Counted'
    BY <1>31 DEF IInv, TypeOK, Counted, BeforeClosure, OwnerType, GuardType, Identify, Moves,
      Quietly, Place, Commands, Callbacks, Legacy, Phases, Teardown, Ended, Cleans
  <1>32. ASSUME NEW a \in {"guard", "owner"}, Remove(a) PROVE Counted'
    BY <1>32 DEF IInv, TypeOK, Counted, BeforeClosure, OwnerType, GuardType, EngineType,
      Remove, Moves, Quietly, Place, Commands, Callbacks, Legacy, Phases, Teardown, Ended,
      Cleans
  <1>33. ASSUME NEW a \in {"guard", "owner"}, Absent(a) PROVE Counted'
    BY <1>33 DEF IInv, TypeOK, Counted, BeforeClosure, OwnerType, GuardType, Absent, Moves,
      Quietly, Place, Commands, Callbacks, Legacy, Phases, Teardown, Ended, Cleans
  <1>34. ASSUME NEW a \in {"guard", "owner"}, Unload(a) PROVE Counted'
    BY <1>34 DEF IInv, TypeOK, Counted, BeforeClosure, OwnerType, GuardType, EngineType,
      Unload, Moves, Quietly, Place, Commands, Callbacks, Legacy, Phases, Teardown, Ended,
      Cleans
  <1>35. ASSUME NEW a \in {"guard", "owner"}, Unmake(a) PROVE Counted'
    BY <1>35 DEF IInv, TypeOK, Counted, BeforeClosure, OwnerType, GuardType, EngineType,
      Unmake, Moves, Quietly, Place, Commands, Callbacks, Legacy, Phases, Teardown, Ended,
      Cleans
  <1>36. ASSUME NEW a \in {"guard", "owner"}, Discard(a) PROVE Counted'
    BY <1>36 DEF IInv, TypeOK, Counted, BeforeClosure, OwnerType, GuardType, FilesType,
      Discard, Moves, Quietly, Place, Commands, Callbacks, Legacy, Phases, Teardown, Ended,
      Cleans
  <1>37. ASSUME NEW a \in {"guard", "owner"}, Erase(a) PROVE Counted'
    BY <1>37 DEF IInv, TypeOK, Counted, BeforeClosure, OwnerType, GuardType, FilesType, Erase,
      Moves, Quietly, Place, Commands, Callbacks, Legacy, Phases, Teardown, Ended, Cleans
  <1>38. ASSUME NEW a \in {"guard", "owner"}, Refuse(a) PROVE Counted'
    BY <1>38, MaxChecksAssumption, RefuseEffect DEF IInv, TypeOK, Counted, BeforeClosure,
      Refuse, Commands, Callbacks, Legacy, Phases, Teardown, Ended
  <1>39. CASE CreateVolume \/ LoadProfile \/ VerifyLabel \/ CreateContainer \/ WriteCid \/ Tamper
          \/ Replace
          \/ Tick
    BY <1>39 DEF IInv, Counted, BeforeClosure, CreateVolume, LoadProfile, VerifyLabel,
      CreateContainer,
      WriteCid, Tamper, Replace, Tick
  <1>40. CASE UNCHANGED vars
    BY <1>40 DEF vars, IInv, Counted, BeforeClosure
  <1> QED
    BY <1>1, <1>2, <1>3, <1>4, <1>5, <1>6, <1>7, <1>8, <1>9, <1>10, <1>11, <1>12, <1>13, <1>14,
      <1>15, <1>16, <1>17, <1>18, <1>19, <1>20, <1>21, <1>22, <1>23, <1>24, <1>25, <1>26,
      <1>27, <1>28, <1>29, <1>30, <1>31, <1>32, <1>33, <1>34, <1>35, <1>36, <1>37, <1>38,
      <1>39, <1>40 DEF Next, OwnerStep, WorkStep, GuardStep, World, Clean

(***************************************************************************)
(* Only nine steps touch the engine.                                       *)
(***************************************************************************)
LEMMA EngineSteps ==
  ASSUME [Next]_vars, engine' # engine
  PROVE  \/ CreateVolume \/ LoadProfile \/ VerifyLabel \/ CreateContainer \/ Replace
         \/ \E a \in {"guard", "owner"} : Remove(a) \/ Unload(a) \/ Unmake(a)
         \/ \E a \in {"guard", "owner"} :
              Refuse(a) /\ Cleans(a, "unload") /\ engine' = [engine EXCEPT !.profile = FALSE]
  <1>1. ASSUME OwnerStep PROVE FALSE
    BY <1>1 DEF OwnerStep, Prepare, SpawnGuard, AwaitReady, StartCommand, CollectCommand, Ask,
      Answered, GiveUp, Recover, AskAgain, AwaitGuard
  <1>2. ASSUME GuardStep PROVE FALSE
    BY <1>2 DEF GuardStep,
      Start, Announce, Snapshot, Expire, ReceiveNothing, Receive, Verify, Bind, Send, Lease,
        Confirm, StopWork, Finish
  <1>3. ASSUME WriteCid \/ Acknowledge \/ LoseAck PROVE FALSE
    BY <1>3 DEF WriteCid, Acknowledge, LoseAck
  <1>4. ASSUME KillOwner \/ Reap \/ KillGuard \/ Cancel \/ Tamper \/ Tick PROVE FALSE
    BY <1>4 DEF KillOwner, Reap, KillGuard, Cancel, Tamper, Tick
  <1>5. ASSUME NEW a \in {"guard", "owner"},
               Identify(a) \/ Absent(a) \/ Discard(a) \/ Erase(a)
        PROVE  FALSE
    BY <1>5 DEF Identify, Absent, Discard, Erase
  <1>6. ASSUME UNCHANGED vars PROVE FALSE
    BY <1>6 DEF vars
  <1> QED
    BY <1>1, <1>2, <1>3, <1>4, <1>5, <1>6, RefuseEngine DEF Next, WorkStep, World, Clean

LEMMA TeardownStep ==
  ASSUME IInv, [Next]_vars
  PROVE  /\ engine.container = "ours" /\ engine'.container = "none" =>
               work = "none" /\ guard.lease # "open"
         /\ engine.profile /\ ~engine'.profile => engine.container # "ours" /\ work = "none"
         /\ engine.volume /\ ~engine'.volume =>
               engine.container # "ours" /\ ~engine.profile /\ work = "none"
  <1>1. CASE engine' = engine
    BY <1>1
  <1>2. CASE CreateVolume \/ LoadProfile \/ VerifyLabel \/ CreateContainer \/ Replace
    BY <1>2 DEF IInv, TypeOK, EngineType, CreateVolume, LoadProfile, VerifyLabel,
      CreateContainer, Replace
  <1>3. ASSUME NEW a \in {"guard", "owner"}, Place(a) \in Teardown
        PROVE  work = "none" /\ guard.lease # "open" /\ Stage(Place(a))
    BY <1>3 DEF IInv, TypeOK, GuardType, Place, CleansQuietly, CommandIsOwners, LeaseHeld, Serving,
      Running, Teardown, Ended, Commands, Phases, Callbacks, Legacy
  <1>4. ASSUME NEW a \in {"guard", "owner"}, Remove(a)
        PROVE  engine' = [engine EXCEPT !.container = "none"] /\ Place(a) = "remove"
    BY <1>4 DEF Remove, Cleans
  <1>5. ASSUME NEW a \in {"guard", "owner"},
               Unload(a) \/ (Cleans(a, "unload") /\ engine' = [engine EXCEPT !.profile = FALSE])
        PROVE  engine' = [engine EXCEPT !.profile = FALSE] /\ Place(a) = "unload"
    BY <1>5 DEF Unload, Cleans
  <1>6. ASSUME NEW a \in {"guard", "owner"}, Unmake(a)
        PROVE  engine' = [engine EXCEPT !.volume = FALSE] /\ Place(a) = "unmake"
    BY <1>6 DEF Unmake, Cleans
  <1> QED
    BY <1>1, <1>2, <1>3, <1>4, <1>5, <1>6, EngineSteps DEF IInv, TypeOK, EngineType, Stage, Teardown

LEMMA TamperedStep ==
  ASSUME TypeOK, [Next]_vars, "tamper" \in trouble
  PROVE  /\ engine.container = "ours" => engine'.container # "none"
         /\ engine.volume => engine'.volume
         /\ engine.profile => engine'.profile
  <1>1. CASE engine' = engine
    BY <1>1
  <1>2. CASE CreateVolume \/ LoadProfile \/ VerifyLabel \/ CreateContainer \/ Replace
    BY <1>2 DEF TypeOK, EngineType, CreateVolume, LoadProfile, VerifyLabel, CreateContainer, Replace
  <1> QED
    BY <1>1, <1>2, EngineSteps DEF Remove, Unload, Unmake, Cleans

LEMMA ForeignStep ==
  ASSUME TypeOK, [Next]_vars, engine.container = "other"
  PROVE  engine'.container = "other"
  <1>1. CASE engine' = engine
    BY <1>1
  <1>2. CASE CreateVolume \/ LoadProfile \/ VerifyLabel \/ CreateContainer \/ Replace
    BY <1>2 DEF TypeOK, EngineType, CreateVolume, LoadProfile, VerifyLabel, CreateContainer, Replace
  <1>3. ASSUME NEW a \in {"guard", "owner"},
               \/ Remove(a) \/ Unload(a) \/ Unmake(a)
               \/ engine' = [engine EXCEPT !.profile = FALSE]
        PROVE  engine'.container = "other"
    BY <1>3 DEF TypeOK, EngineType, Remove, Unload, Unmake
  <1> QED
    BY <1>1, <1>2, <1>3, EngineSteps

(***************************************************************************)
(* The theorems.                                                           *)
(***************************************************************************)
LEMMA InitInv == Init => IInv
  BY MaxChecksAssumption DEF Init, IInv, TypeOK, OwnerType, GuardType, ConnType, FilesType,
    EngineType, NoConn, Early, AllOver, Custodial, Sealed, NothingYet, CommandIsOwners,
    ClosureWasAsked, CleansQuietly, Stage, LeaseHeld, Counted, BeforeClosure, AfterClosure,
    Commands, Phases, Callbacks, Legacy, Teardown, OwnerLive

LEMMA StepInv == IInv /\ [Next]_vars => IInv'
  <1>1. IInv => TypeOK /\ Counted
    BY DEF IInv
  <1> QED
    BY <1>1, TypeStep, CustodialStep, SealedStep, NothingYetStep, CommandIsOwnersStep,
      ClosureWasAskedStep, CleansQuietlyStep, GuardStageStep, OwnerStageStep, LeaseHeldStep,
      CountedStep DEF IInv

\* The inductive invariant: who may still create, who may already remove, and how far.
THEOREM Invariance == Spec => []IInv
  BY InitInv, StepInv, PTL DEF Spec

\* Every step keeps the shape of the state; the request counters of owner and guard stay
\* within the checks the lease was opened for (owner_capability's sequence).
THEOREM TypeCorrect == Spec => []TypeOK
  <1>1. IInv => TypeOK
    BY DEF IInv
  <1> QED
    BY <1>1, Invariance, PTL

\* Whatever exists in the engine, or may still be created by a command that runs, is
\* covered by the custody record (prepare_owner_custody, cleanup_owner_custody).
THEOREM CustodyCovers == Spec => []Custodial
  <1>1. IInv => Custodial
    BY DEF IInv
  <1> QED
    BY <1>1, Invariance, PTL

\* The container, the profile and the volume go in that order, with no command running
\* and no lease open (owner_stop_work before cleanup_owner_custody).
THEOREM TeardownOrdered == Spec => TeardownInOrder
  <1>1. IInv /\ [Next]_vars =>
          [/\ engine.container = "ours" /\ engine'.container = "none" =>
                work = "none" /\ guard.lease # "open"
           /\ engine.profile /\ ~engine'.profile => engine.container # "ours" /\ work = "none"
           /\ engine.volume /\ ~engine'.volume =>
                engine.container # "ours" /\ ~engine.profile /\ work = "none"]_vars
    BY TeardownStep
  <1> QED
    BY <1>1, Invariance, PTL DEF Spec, TeardownInOrder

\* After a change of the sealed record or its sources nothing is removed (owner_validate).
THEOREM TamperedKept == Spec => TamperedIsLeftAlone
  <1>1. TypeOK /\ [Next]_vars =>
          [("tamper" \in trouble) =>
             /\ engine.container = "ours" => engine'.container # "none"
             /\ engine.volume => engine'.volume
             /\ engine.profile => engine'.profile]_vars
    BY TamperedStep
  <1> QED
    BY <1>1, TypeCorrect, PTL DEF Spec, TamperedIsLeftAlone

\* A container the run did not create stays (owner_cid, cleanup_owner_custody).
THEOREM ForeignKept == Spec => ForeignUntouched
  <1>1. TypeOK /\ [Next]_vars => [engine.container = "other" => engine'.container = "other"]_vars
    BY ForeignStep
  <1> QED
    BY <1>1, TypeCorrect, PTL DEF Spec, ForeignUntouched

=============================================================================
