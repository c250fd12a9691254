---------------------------- MODULE OwnerCustody ----------------------------
(***************************************************************************)
(* Custody of the container that the application conformance test runs in  *)
(* (scripts/lib/docker-application-contract.py,                            *)
(* scripts/lib/docker-paperless-volume-custody.py and their owner          *)
(* scripts/verify-docker-paperless-custody.py).                            *)
(*                                                                         *)
(* An owner process seals a custody record, starts an independent guard    *)
(* process and only then lets native commands create a volume, a security  *)
(* profile and a container.  The guard answers the owner's requests over a *)
(* socket and, when the owner dies, a deadline passes or it is cancelled,  *)
(* stops the owner's commands and removes what they created; the custody   *)
(* record goes last.  Either process may be killed at any step, and a      *)
(* command may outlive the process that started it.                        *)
(*                                                                         *)
(* The engine, the kernel, the helper that keeps the security profile and  *)
(* the people who interfere are outside the repository.  A command that    *)
(* has been killed changes nothing any more; one that answers wrongly, or  *)
(* whose termination cannot be verified, is the fault "refuse".  A second  *)
(* clean-up of the profile is answered with the receipt of the first.      *)
(***************************************************************************)
EXTENDS Naturals, FiniteSets

CONSTANTS Faults,     \* what may go wrong, each at most once
          MaxFaults,  \* bound of the model: how many of them go wrong in one behaviour
          MaxChecks   \* lease checks the owner asks for

AllFaults ==
  {"kill owner", "kill guard", "cancel", "tamper", "refuse", "lost ack", "replace"}

ASSUME FaultsAssumption == Faults \subseteq AllFaults
ASSUME MaxFaultsAssumption == MaxFaults \in Nat
ASSUME MaxChecksAssumption == MaxChecks \in Nat \ {0}

VARIABLES
  owner,    \* the session leader that owns the run
  guard,    \* the guard process
  conn,     \* the connection between them: a phase that was asked for
  work,     \* the native command running in the owner's session
  files,    \* the private directory
  engine,   \* what exists in the container engine
  clock,    \* the last cutoff that has passed
  left,     \* faults that may still happen
  trouble   \* what did go wrong: faults, and a process that escaped its capture

vars == <<owner, guard, conn, work, files, engine, clock, left, trouble>>

\* The cutoffs, in the order Lease.__init__ and owner_validate require.
Early     == 0
LeaseOver == 1
ExecOver  == 2
AllOver   == 3

Commands  == {"volume", "profile", "create", "label"}
Callbacks == {"hold", "check", "unhold"}
Legacy    == {"pending", "ready", "close"}
Phases    == Callbacks \cup Legacy

NoConn  == [phase |-> "none", seq |-> 0, at |-> "none"]
Ended   == {"closed", "failed", "killed"}
Running == guard.pc \notin Ended \cup {"none"}

\* What cleanup_owner_custody does, in its order; guard and owner both run it.
Teardown == {"identify", "remove", "absent", "unload", "unmake", "discard", "erase"}

OwnerLive == owner.proc = "live"

\* A process of the owner's session is alive: a native command or a callback.
Task == work # "none" \/ (conn.phase \in Callbacks /\ conn.at \notin {"ok", "eof", "gone"})

Init ==
  /\ owner = [pc |-> "prepare", proc |-> "live", busy |-> FALSE, cid |-> FALSE, seq |-> 0]
  /\ guard = [pc |-> "none", why |-> "none", lease |-> "none", seq |-> 0, bound |-> FALSE,
              held |-> FALSE, cancelled |-> FALSE, poisoned |-> FALSE]
  /\ conn = NoConn
  /\ work = "none"
  /\ files = [custody |-> FALSE, ready |-> FALSE, bound |-> FALSE, cid |-> "none"]
  /\ engine = [container |-> "none", volume |-> FALSE, profile |-> FALSE, verified |-> FALSE]
  /\ clock = Early
  /\ left = Faults
  /\ trouble = {}

Happens(fault) == /\ fault \in left
                  /\ Cardinality(Faults \ left) < MaxFaults
                  /\ left' = left \ {fault}
                  /\ trouble' = trouble \cup {fault}

Quietly == UNCHANGED <<left, trouble>>

(***************************************************************************)
(* The owner.                                                              *)
(***************************************************************************)
At(place) == OwnerLive /\ owner.pc = place /\ ~owner.busy

Goto(place) == owner' = [owner EXCEPT !.pc = place, !.busy = FALSE]

\* Slip: the owner never stops checking its lease.
FollowingCheck(place) ==
  CASE place = "pending" -> "volume"
    [] place = "volume"  -> "profile"
    [] place = "profile" -> "create"
    [] place = "create"  -> "ready"
    [] place = "ready"   -> "label"
    [] place = "label"   -> "hold"
    [] OTHER             -> "check"

Following(place) ==
  CASE place = "pending" -> "volume"
    [] place = "volume"  -> "profile"
    [] place = "profile" -> "create"
    [] place = "create"  -> "ready"
    [] place = "ready"   -> "label"
    [] place = "label"   -> "hold"
    [] place = "hold"    -> "check"
    [] place = "check"   -> IF owner.seq < MaxChecks THEN "check" ELSE "unhold"
    [] place = "unhold"  -> "close"
    [] place = "close"   -> "wait"

\* The obligation is durable before anything can be created.
Prepare ==
  /\ At("prepare")
  /\ clock = Early
  /\ files' = [files EXCEPT !.custody = TRUE]
  /\ Goto("spawn")
  /\ UNCHANGED <<guard, conn, work, engine, clock>>
  /\ Quietly

SpawnGuard ==
  /\ At("spawn")
  /\ guard' = [guard EXCEPT !.pc = "start"]
  /\ Goto("await")
  /\ UNCHANGED <<conn, work, files, engine, clock>>
  /\ Quietly

AwaitReady ==
  /\ At("await")
  /\ files.ready
  /\ Goto("pending")
  /\ UNCHANGED <<guard, conn, work, files, engine, clock>>
  /\ Quietly

\* owner_call: one native command in the owner's session, refused when the sealed
\* record or its sources differ or the execution deadline has passed.
StartCommand ==
  /\ owner.pc \in Commands /\ At(owner.pc)
  /\ clock < ExecOver
  /\ "tamper" \notin trouble
  /\ work' = owner.pc
  /\ owner' = [owner EXCEPT !.busy = TRUE]
  /\ guard' = [guard EXCEPT !.held = FALSE]
  /\ UNCHANGED <<conn, files, engine, clock>>
  /\ Quietly

CollectCommand ==
  /\ OwnerLive /\ owner.busy /\ owner.pc \in Commands
  /\ work = "none"
  /\ clock < ExecOver
  /\ owner' = [owner EXCEPT !.pc = Following(owner.pc), !.busy = FALSE,
                            !.cid = @ \/ owner.pc = "create"]
  /\ UNCHANGED <<guard, conn, work, files, engine, clock>>
  /\ Quietly

\* A request of the owner itself, or of a callback it starts for the lease.
Ask ==
  /\ owner.pc \in Phases /\ At(owner.pc)
  /\ Running /\ files.ready
  /\ "tamper" \notin trouble
  /\ clock < (IF owner.pc = "close" THEN AllOver ELSE ExecOver)
  /\ conn = NoConn
  /\ conn' = [phase |-> owner.pc, seq |-> owner.seq, at |-> "sent"]
  /\ owner' = [owner EXCEPT !.busy = TRUE]
  /\ guard' = [guard EXCEPT !.held = @ /\ owner.pc \notin Callbacks]
  /\ UNCHANGED <<work, files, engine, clock>>
  /\ Quietly

\* The callback confirms a reply, and leaves when its confirmation is accepted.
Acknowledge ==
  /\ conn.phase \in Callbacks /\ conn.at = "reply"
  /\ conn' = [conn EXCEPT !.at = "ack"]
  /\ UNCHANGED <<owner, guard, work, files, engine, clock>>
  /\ Quietly

LoseAck ==
  /\ conn.phase \in Callbacks /\ conn.at = "reply"
  /\ Happens("lost ack")
  /\ conn' = [conn EXCEPT !.at = "gone"]
  /\ UNCHANGED <<owner, guard, work, files, engine, clock>>

Answered ==
  /\ OwnerLive /\ owner.busy
  /\ conn.phase = owner.pc
  /\ conn.at = (IF conn.phase \in Callbacks THEN "ok" ELSE "reply")
  /\ conn' = NoConn
  /\ owner' = [owner EXCEPT !.pc = Following(owner.pc), !.busy = FALSE,
                            !.seq = IF conn.phase \in Callbacks THEN @ + 1 ELSE @]
  /\ UNCHANGED <<guard, work, files, engine, clock>>
  /\ Quietly

\* The cutoff of what the owner is waiting for.
Cutoff == IF owner.pc = "close" THEN AllOver ELSE ExecOver

\* A step of the owner raises: a guard that is gone when it is waited for or asked, a
\* deadline, a changed record, a connection that ended without an answer, or a refusal.
\* The command is killed with its process group, a callback is killed.
Failing ==
  \/ ~Running /\ owner.pc \in {"await"} \cup Phases
  \/ clock >= Cutoff
  \/ "tamper" \in trouble /\ ~owner.busy
  \/ work = "label" /\ engine.container # "ours"
  \/ owner.busy /\ owner.pc \in Phases /\ conn.at \in {"gone", "eof"}

Hangup ==
  IF conn.at \in {"ok", "eof", "none"} \/ (conn.at = "reply" /\ conn.phase \in Legacy)
    THEN NoConn ELSE [conn EXCEPT !.at = "gone"]

GiveUp ==
  /\ OwnerLive
  /\ owner.pc \in {"spawn", "await"} \cup Commands \cup Phases
  /\ \/ Failing /\ Quietly
     \/ Happens("refuse")
  /\ work' = "none"
  /\ conn' = Hangup
  /\ Goto("recover")
  /\ UNCHANGED <<guard, files, engine, clock>>

\* recover: a guard that is alive is asked to close (the request is lost when the guard
\* has not acknowledged yet), otherwise the owner cleans up on its own.
Recover ==
  /\ At("recover")
  /\ owner' = [owner EXCEPT !.pc = IF Running THEN "reclose"
                                   ELSE IF files.custody THEN "identify" ELSE "failed",
                            !.busy = Running /\ ~files.ready]
  /\ UNCHANGED <<guard, conn, work, files, engine, clock>>
  /\ Quietly

AskAgain ==
  /\ At("reclose")
  /\ Running /\ "tamper" \notin trouble /\ clock < AllOver
  /\ conn = NoConn
  /\ conn' = [phase |-> "close", seq |-> owner.seq, at |-> "sent"]
  /\ owner' = [owner EXCEPT !.busy = TRUE]
  /\ UNCHANGED <<guard, work, files, engine, clock>>
  /\ Quietly

\* The owner waits for the end of the guard, up to the cleanup deadline.
AwaitGuard ==
  /\ OwnerLive /\ owner.pc \in {"wait", "reclose"}
  /\ ~Running \/ clock = AllOver
  /\ conn' = NoConn
  /\ Goto(CASE owner.pc = "reclose" -> "failed"
            [] owner.pc = "wait" /\ ~files.custody -> "done"
            [] owner.pc = "wait" /\ files.custody -> "recover")
  /\ UNCHANGED <<guard, work, files, engine, clock>>
  /\ Quietly

(***************************************************************************)
(* The native commands of the owner.  The container exists before its      *)
(* identity has been written, and the write may be cut short.              *)
(***************************************************************************)
CreateVolume ==
  /\ work = "volume"
  /\ engine' = [engine EXCEPT !.volume = TRUE]
  /\ work' = "none"
  /\ UNCHANGED <<owner, guard, conn, files, clock>>
  /\ Quietly

LoadProfile ==
  /\ work = "profile"
  /\ engine' = [engine EXCEPT !.profile = TRUE]
  /\ work' = "none"
  /\ UNCHANGED <<owner, guard, conn, files, clock>>
  /\ Quietly

CreateContainer ==
  /\ work = "create"
  /\ engine.container = "none"
  /\ engine' = [engine EXCEPT !.container = "ours"]
  /\ work' = "created"
  /\ UNCHANGED <<owner, guard, conn, files, clock>>
  /\ Quietly

WriteCid ==
  /\ work = "created"
  /\ \/ files.cid = "none" /\ files' = [files EXCEPT !.cid = "partial"] /\ work' = work
     \/ files' = [files EXCEPT !.cid = "valid"] /\ work' = "none"
  /\ UNCHANGED <<owner, guard, conn, engine, clock>>
  /\ Quietly

\* "apparmor verify", against the container that runs under the profile: only after it
\* does the helper's receipt of the profile say "verified".
VerifyLabel ==
  /\ work = "label"
  /\ engine.container = "ours"
  /\ engine' = [engine EXCEPT !.verified = TRUE]
  /\ work' = "none"
  /\ UNCHANGED <<owner, guard, conn, files, clock>>
  /\ Quietly

(***************************************************************************)
(* The guard.                                                              *)
(***************************************************************************)
GuardAt(place) == guard.pc = place

\* Slip: only deadlines and signals end the guard.
InterruptedByClock == guard.cancelled \/ clock >= ExecOver

\* owner_lifecycle: what makes the guard leave whatever it is doing.
Interrupted == guard.cancelled \/ ~OwnerLive \/ clock >= ExecOver

\* What the loop looks at between two requests.
Expired == Interrupted \/ (guard.lease = "open" /\ clock >= LeaseOver)

\* Slip: the lease is left to the end of the process.
LeaseKept == guard.lease

ClosedLease == IF guard.lease = "open" THEN "closed" ELSE guard.lease

Leave(why) == guard' = [guard EXCEPT !.pc = "stop", !.why = why]

\* Before the acknowledgement: nothing may exist yet.
Start ==
  /\ GuardAt("start")
  /\ guard' = [guard EXCEPT !.pc =
       IF /\ OwnerLive /\ clock < ExecOver /\ "tamper" \notin trouble
          /\ files.cid = "none" /\ engine.container = "none" /\ ~engine.volume
         THEN "announce" ELSE "failed"]
  /\ UNCHANGED <<owner, conn, work, files, engine, clock>>
  /\ Quietly

Announce ==
  /\ GuardAt("announce")
  /\ files' = [files EXCEPT !.ready = TRUE]
  /\ guard' = [guard EXCEPT !.pc = "loop"]
  /\ UNCHANGED <<owner, conn, work, engine, clock>>
  /\ Quietly

\* owner_work_snapshot: hold the processes of the owner's session while it is alive.
Snapshot ==
  /\ GuardAt("loop") /\ OwnerLive
  /\ Task /\ ~guard.held
  /\ guard' = [guard EXCEPT !.held = TRUE]
  /\ UNCHANGED <<owner, conn, work, files, engine, clock>>
  /\ Quietly

Expire ==
  /\ GuardAt("loop") /\ Expired
  /\ Leave("expiry")
  /\ UNCHANGED <<owner, conn, work, files, engine, clock>>
  /\ Quietly

\* A client that has left sends nothing: the frame is incomplete.
ReceiveNothing ==
  /\ GuardAt("loop") /\ ~Expired
  /\ conn.at = "gone"
  /\ conn' = NoConn
  /\ Leave("recover")
  /\ UNCHANGED <<owner, work, files, engine, clock>>
  /\ Quietly

\* After a lost acknowledgement only closure is served; others are left without reply.
Receive ==
  /\ GuardAt("loop") /\ ~Expired
  /\ conn.at = "sent"
  /\ LET ignored == guard.poisoned /\ conn.phase \in {"pending", "ready"} IN
       /\ conn' = IF ignored THEN [conn EXCEPT !.at = "eof"] ELSE conn
       /\ IF ignored THEN guard' = guard
          ELSE IF conn.phase \in Callbacks THEN guard' = [guard EXCEPT !.pc = "lease"]
          ELSE IF "tamper" \in trouble THEN Leave("abort")
          ELSE IF conn.phase = "close" THEN Leave("close")
          ELSE guard' = [guard EXCEPT !.pc = IF conn.phase = "ready" THEN "verify" ELSE "send"]
  /\ UNCHANGED <<owner, work, files, engine, clock>>
  /\ Quietly

\* owner_ready: the created container, its mounts and its volume are the owner's.
Verified == /\ files.cid = "valid" /\ engine.container = "ours" /\ engine.volume
            /\ "tamper" \notin trouble

Verify ==
  /\ GuardAt("verify")
  /\ \/ Quietly /\ IF Interrupted THEN Leave("recover")
                   ELSE IF Verified THEN guard' = [guard EXCEPT !.pc = "bind"]
                   ELSE Leave("abort")
     \/ Happens("refuse") /\ Leave("abort")
  /\ UNCHANGED <<owner, conn, work, files, engine, clock>>

Bind ==
  /\ GuardAt("bind")
  /\ files' = [files EXCEPT !.bound = TRUE]
  /\ guard' = [guard EXCEPT !.pc = "send", !.bound = TRUE]
  /\ UNCHANGED <<owner, conn, work, engine, clock>>
  /\ Quietly

Send ==
  /\ GuardAt("send")
  /\ IF Interrupted
       THEN Leave("recover") /\ conn' = conn
       ELSE IF conn.at = "gone"
       THEN guard' = [guard EXCEPT !.pc = "loop", !.poisoned = TRUE] /\ conn' = NoConn
       ELSE guard' = [guard EXCEPT !.pc = "loop"] /\ conn' = [conn EXCEPT !.at = "reply"]
  /\ UNCHANGED <<owner, work, files, engine, clock>>
  /\ Quietly

\* Lease.__init__, Lease.check and Lease.close, each against the live engine.
Grants ==
  /\ conn.at = "sent" /\ ~guard.poisoned /\ conn.seq = guard.seq
  /\ "tamper" \notin trouble /\ ~Interrupted
  /\ \/ /\ conn.phase = "hold" /\ guard.lease = "none" /\ guard.bound
        /\ engine.container = "ours" /\ clock < LeaseOver
     \/ /\ conn.phase = "check" /\ guard.lease = "open"
        /\ engine.container = "ours" /\ clock < LeaseOver
     \/ conn.phase = "unhold" /\ guard.lease = "open"

\* Slip: a confirmation that did not come is not held against the lease.
PoisonNot == guard' = [guard EXCEPT !.pc = "loop"]

Poison == guard' = [guard EXCEPT !.pc = "stop", !.why = "recover", !.poisoned = TRUE,
                                 !.lease = IF @ = "none" /\ conn.phase = "hold"
                                             THEN "closed" ELSE ClosedLease]

Lease ==
  /\ GuardAt("lease")
  /\ \/ /\ Quietly
        /\ IF Grants
             THEN /\ guard' = [guard EXCEPT !.pc = "confirm", !.seq = @ + 1,
                                 !.lease = IF conn.phase = "unhold" THEN "closed" ELSE "open"]
                  /\ conn' = [conn EXCEPT !.at = "reply"]
             ELSE Poison /\ conn' = [conn EXCEPT !.at = "eof"]
     \/ Happens("refuse") /\ Poison /\ conn' = [conn EXCEPT !.at = "eof"]
  /\ UNCHANGED <<owner, work, files, engine, clock>>

\* The reply counts only once the callback has confirmed it, before the lease's cutoff.
Confirm ==
  /\ GuardAt("confirm")
  /\ conn.at # "reply" \/ Interrupted
  /\ IF conn.at = "ack" /\ ~Interrupted /\ clock < LeaseOver
       THEN guard' = [guard EXCEPT !.pc = "loop"] /\ conn' = [conn EXCEPT !.at = "ok"]
       ELSE Poison /\ conn' = (IF conn.at = "gone" THEN NoConn ELSE [conn EXCEPT !.at = "eof"])
  /\ UNCHANGED <<owner, work, files, engine, clock>>
  /\ Quietly

(***************************************************************************)
(* owner_stop_work: everything that could still create is killed first,    *)
(* and the owner with it unless it asked for the closure.  A process the   *)
(* guard did not capture before its session's leader was reaped stays      *)
(* unknown, and then nothing is removed.                                   *)
(***************************************************************************)
Unknown == Task /\ owner.proc = "gone" /\ ~guard.held

Killed == IF owner.proc = "live" /\ guard.why # "close"
            THEN [owner EXCEPT !.proc = "zombie"] ELSE owner

\* Slip: the captured processes are killed and the session is not looked at again.
StoppedHeldOnly ==
  /\ work' = IF guard.held THEN "none" ELSE work
  /\ owner' = Killed
  /\ conn' = IF guard.why = "close" THEN conn ELSE [conn EXCEPT !.at = "gone"]
  /\ guard' = [guard EXCEPT !.lease = ClosedLease,
                            !.pc = IF guard.why = "abort" THEN "failed" ELSE "identify"]
  /\ Quietly

Stopped ==
  /\ ~Unknown
  /\ work' = "none"
  /\ owner' = Killed
  /\ conn' = IF guard.why = "close" THEN conn ELSE [conn EXCEPT !.at = "gone"]
  /\ guard' = [guard EXCEPT !.lease = ClosedLease,
                            !.pc = IF guard.why = "abort" THEN "failed" ELSE "identify"]
  /\ Quietly

NotStopped ==
  /\ \/ Unknown /\ trouble' = trouble \cup {"escape"} /\ UNCHANGED left
     \/ Happens("refuse")
  /\ owner' = [owner EXCEPT !.proc = IF @ = "live" THEN "zombie" ELSE @]
  /\ conn' = [conn EXCEPT !.at = IF conn.phase \in Legacy THEN "gone" ELSE @]
  /\ guard' = [guard EXCEPT !.lease = ClosedLease, !.pc = "failed"]
  /\ UNCHANGED work

StopWork ==
  /\ GuardAt("stop")
  /\ Stopped \/ NotStopped
  /\ UNCHANGED <<files, engine, clock>>

\* After the private directory is gone: answer a closure, or end.  A closure that cannot
\* be answered, or follows a lost acknowledgement, is a failure.
Finish ==
  /\ GuardAt("removed")
  /\ IF guard.why = "close"
       THEN /\ conn' = [conn EXCEPT !.at = IF @ = "sent" THEN "reply" ELSE @]
            /\ IF conn.at = "sent" /\ ~guard.poisoned
                 THEN guard' = [guard EXCEPT !.pc = "closed"] ELSE Leave("abort")
       ELSE /\ guard' = [guard EXCEPT !.pc = IF guard.why = "expiry" /\ ~guard.poisoned
                                               THEN "closed" ELSE "failed"]
            /\ conn' = conn
  /\ UNCHANGED <<owner, work, files, engine, clock>>
  /\ Quietly

(***************************************************************************)
(* cleanup_owner_custody, run by the guard or by an owner whose guard has  *)
(* died: the container by its recorded identity and never by its name,     *)
(* then the profile, the volume, the private files, and last the record.   *)
(***************************************************************************)
Place(a)  == IF a = "guard" THEN guard.pc ELSE owner.pc
Knows(a)  == IF a = "guard" THEN guard.bound ELSE owner.cid
Active(a) == a = "guard" \/ OwnerLive

Moves(a, place) ==
  IF a = "guard" THEN guard' = [guard EXCEPT !.pc = place] /\ UNCHANGED owner
  ELSE owner' = [owner EXCEPT !.pc = place] /\ UNCHANGED guard

\* Slip: the sealed record is read once, when the guard starts.
CleansUnvalidated(a, place) == Place(a) = place /\ Active(a) /\ clock < AllOver

Cleans(a, place) == /\ Place(a) = place /\ Active(a)
                    /\ clock < AllOver /\ "tamper" \notin trouble

\* The recorded identity is the one the cleaner or the sealed binding knows.
\* Slip: every clean-up asks for the binding that readiness writes.
ConsistentOnlyBound(a) == files.cid = "valid" /\ files.bound

Consistent(a) == IF Knows(a) THEN files.cid = "valid" /\ files.bound
                 ELSE files.bound => files.cid = "valid"

\* Without an identity nothing is removed by name: absence must be proven.
Resolved == files.cid = "valid" \/ engine.container = "none"

Identify(a) ==
  /\ Cleans(a, "identify")
  /\ Consistent(a) /\ Resolved
  /\ Moves(a, IF files.cid # "valid" THEN "unload"
              ELSE IF engine.container = "ours" THEN "remove" ELSE "absent")
  /\ UNCHANGED <<conn, work, files, engine, clock>>
  /\ Quietly

\* Slip: the container is removed by its name.
RemoveByName(a) ==
  /\ Cleans(a, "remove")
  /\ engine.container # "none"
  /\ engine' = [engine EXCEPT !.container = "none"]
  /\ Moves(a, "absent")
  /\ UNCHANGED <<conn, work, files, clock>>
  /\ Quietly

Remove(a) ==
  /\ Cleans(a, "remove")
  /\ engine.container = "ours"
  /\ engine' = [engine EXCEPT !.container = "none"]
  /\ Moves(a, "absent")
  /\ UNCHANGED <<conn, work, files, clock>>
  /\ Quietly

Absent(a) ==
  /\ Cleans(a, "absent")
  /\ engine.container = "none"
  /\ Moves(a, "unload")
  /\ UNCHANGED <<conn, work, files, engine, clock>>
  /\ Quietly

\* "apparmor cleanup" removes the profile and answers with its receipt (runner_prerequisite).
Unload(a) ==
  /\ Cleans(a, "unload")
  /\ engine.verified
  /\ engine' = [engine EXCEPT !.profile = FALSE]
  /\ Moves(a, "unmake")
  /\ UNCHANGED <<conn, work, files, clock>>
  /\ Quietly

\* Slip: the removal of the volume is not verified.
UnmakeUnverified(a) ==
  /\ Cleans(a, "unmake")
  /\ engine' \in {engine, [engine EXCEPT !.volume = FALSE]}
  /\ Moves(a, "discard")
  /\ UNCHANGED <<conn, work, files, clock>>
  /\ Quietly

Unmake(a) ==
  /\ Cleans(a, "unmake")
  /\ engine' = [engine EXCEPT !.volume = FALSE]
  /\ Moves(a, "discard")
  /\ UNCHANGED <<conn, work, files, clock>>
  /\ Quietly

Discard(a) ==
  /\ Cleans(a, "discard")
  /\ files' = [files EXCEPT !.cid = "none"]
  /\ Moves(a, "erase")
  /\ UNCHANGED <<conn, work, engine, clock>>
  /\ Quietly

Erase(a) ==
  /\ Place(a) = "erase" /\ Active(a) /\ clock < AllOver
  /\ files' = [custody |-> FALSE, ready |-> FALSE, bound |-> FALSE, cid |-> "none"]
  /\ Moves(a, IF a = "guard" THEN "removed" ELSE "failed")
  /\ UNCHANGED <<conn, work, engine, clock>>
  /\ Quietly

\* Slip: a clean-up ends with the time for execution.
RefusedLate(a) ==
  \/ clock >= ExecOver
  \/ "tamper" \in trouble /\ Place(a) # "erase"
  \/ Place(a) = "identify" /\ ~(Consistent(a) /\ Resolved)
  \/ Place(a) = "remove" /\ engine.container # "ours"
  \/ Place(a) = "absent" /\ engine.container # "none"
  \/ Place(a) = "unload" /\ ~engine.verified

\* What stops a clean-up half way; the record stays for whoever looks later.
Refused(a) ==
  \/ clock = AllOver
  \/ "tamper" \in trouble /\ Place(a) # "erase"
  \/ Place(a) = "identify" /\ ~(Consistent(a) /\ Resolved)
  \/ Place(a) = "remove" /\ engine.container # "ours"
  \/ Place(a) = "absent" /\ engine.container # "none"
  \/ Place(a) = "unload" /\ ~engine.verified

\* A receipt comes too late to keep the profile: the helper may have removed it.
Unloaded(a) == IF Cleans(a, "unload") THEN {[engine EXCEPT !.profile = FALSE]} ELSE {}

Refuse(a) ==
  /\ Place(a) \in Teardown /\ Active(a)
  /\ \/ Refused(a) /\ Quietly
     \/ Happens("refuse")
  /\ IF a = "guard" THEN Leave("abort") /\ UNCHANGED owner
     ELSE owner' = [owner EXCEPT !.pc = "failed"] /\ UNCHANGED guard
  /\ engine' \in {engine} \cup Unloaded(a)
  /\ UNCHANGED <<conn, work, files, clock>>

Clean(a) == \/ Identify(a) \/ Remove(a) \/ Absent(a) \/ Unload(a) \/ Unmake(a)
            \/ Discard(a) \/ Erase(a) \/ Refuse(a)

(***************************************************************************)
(* The world: kills, signals, changed records, the clock.                  *)
(***************************************************************************)
KillOwner ==
  /\ OwnerLive /\ owner.pc \notin {"done", "failed"}
  /\ Happens("kill owner")
  /\ owner' = [owner EXCEPT !.proc = "zombie"]
  /\ conn' = IF conn.phase \in Legacy THEN Hangup ELSE conn
  /\ UNCHANGED <<guard, work, files, engine, clock>>

Reap ==
  /\ owner.proc = "zombie"
  /\ owner' = [owner EXCEPT !.proc = "gone"]
  /\ UNCHANGED <<guard, conn, work, files, engine, clock>>
  /\ Quietly

\* The kernel closes the descriptors of a lease and the socket with the guard.
KillGuard ==
  /\ Running
  /\ Happens("kill guard")
  /\ guard' = [guard EXCEPT !.pc = "killed", !.lease = ClosedLease]
  /\ conn' = IF conn.phase = "none" THEN conn ELSE [conn EXCEPT !.at = "eof"]
  /\ UNCHANGED <<owner, work, files, engine, clock>>

Cancel ==
  /\ Running /\ ~guard.cancelled
  /\ Happens("cancel")
  /\ guard' = [guard EXCEPT !.cancelled = TRUE]
  /\ UNCHANGED <<owner, conn, work, files, engine, clock>>

Tamper ==
  /\ files.custody
  /\ Happens("tamper")
  /\ UNCHANGED <<owner, guard, conn, work, files, engine, clock>>

\* Somebody removes the container and makes another of that name.
Replace ==
  /\ engine.container = "ours"
  /\ Happens("replace")
  /\ engine' = [engine EXCEPT !.container = "other"]
  /\ UNCHANGED <<owner, guard, conn, work, files, clock>>

Tick ==
  /\ clock < AllOver
  /\ clock' = clock + 1
  /\ UNCHANGED <<owner, guard, conn, work, files, engine>>
  /\ Quietly

OwnerStep == \/ Prepare \/ SpawnGuard \/ AwaitReady \/ StartCommand \/ CollectCommand
             \/ Ask \/ Answered \/ GiveUp \/ Recover \/ AskAgain \/ AwaitGuard

WorkStep == \/ CreateVolume \/ LoadProfile \/ CreateContainer \/ WriteCid
            \/ VerifyLabel \/ Acknowledge \/ LoseAck

GuardStep == \/ Start \/ Announce \/ Snapshot \/ Expire \/ ReceiveNothing \/ Receive
             \/ Verify \/ Bind \/ Send \/ Lease \/ Confirm \/ StopWork \/ Finish

World == KillOwner \/ Reap \/ KillGuard \/ Cancel \/ Tamper \/ Replace \/ Tick

Next == OwnerStep \/ WorkStep \/ GuardStep \/ (\E a \in {"guard", "owner"} : Clean(a)) \/ World

Spec == Init /\ [][Next]_vars

\* The guard is a live process whose calls end: each has a deadline and is killed at it.
Fairness == WF_vars(GuardStep) /\ WF_vars(Clean("guard"))

FairSpec == Spec /\ Fairness

(***************************************************************************)
(* Properties.                                                             *)
(***************************************************************************)
OwnerType == [pc : {"prepare", "spawn", "await", "recover", "reclose", "wait", "done", "failed"}
                     \cup Commands \cup Phases \cup Teardown,
              proc : {"live", "zombie", "gone"}, busy : BOOLEAN, cid : BOOLEAN,
              seq : 0 .. MaxChecks + 2]

GuardType == [pc : {"none", "start", "announce", "loop", "verify", "bind", "send", "lease",
                    "confirm", "stop", "removed"} \cup Teardown \cup Ended,
              why : {"none", "expiry", "recover", "close", "abort"},
              lease : {"none", "open", "closed"}, seq : 0 .. MaxChecks + 2,
              bound : BOOLEAN, held : BOOLEAN, cancelled : BOOLEAN, poisoned : BOOLEAN]

ConnType == [phase : Phases \cup {"none"}, seq : 0 .. MaxChecks + 2,
             at : {"none", "sent", "reply", "ack", "ok", "eof", "gone"}]

FilesType == [custody : BOOLEAN, ready : BOOLEAN, bound : BOOLEAN,
              cid : {"none", "partial", "valid"}]

EngineType == [container : {"none", "ours", "other"}, volume : BOOLEAN, profile : BOOLEAN,
               verified : BOOLEAN]

TypeOK ==
  /\ owner \in OwnerType
  /\ guard \in GuardType
  /\ conn \in ConnType
  /\ work \in {"none", "created"} \cup Commands
  /\ files \in FilesType
  /\ engine \in EngineType
  /\ clock \in Early .. AllOver
  /\ left \subseteq Faults
  /\ trouble \subseteq Faults \cup {"escape"}

\* Whatever the run created, or a command of it may still create, is covered by the
\* custody record: the record is durable before the first command and outlives the last
\* resource, whoever dies in between (prepare_owner_custody, owner_stop_work and the
\* order of cleanup_owner_custody).
Custodial ==
  engine.container = "ours" \/ engine.volume \/ engine.profile \/ work # "none"
    => files.custody

\* The inductive invariant behind Custodial and TeardownInOrder.
BeforeClosure == {"spawn", "await"} \cup Commands \cup (Phases \ {"close"})
AfterClosure  == {"close", "recover", "reclose", "wait", "done", "failed"} \cup Teardown
Serving       == {"loop", "verify", "bind", "send", "lease", "confirm", "stop"}

Sealed == OwnerLive /\ owner.pc \in BeforeClosure => files.custody

NothingYet == owner.pc \in {"prepare", "spawn"} =>
                guard.pc = "none" /\ work = "none" /\ engine.container = "none"
                  /\ ~engine.volume /\ ~engine.profile

CommandIsOwners == work # "none" => owner.pc \in Commands

ClosureWasAsked ==
  OwnerLive /\ (conn.phase = "close" \/ guard.why = "close") => owner.pc \in AfterClosure

CleansQuietly ==
  /\ guard.pc \in Teardown \cup {"removed"} =>
       work = "none" /\ (OwnerLive => owner.pc \in AfterClosure)
  /\ owner.pc \in Teardown => ~Running

Stage(place) ==
  /\ place \in {"unload", "unmake", "discard", "erase", "removed"} => engine.container # "ours"
  /\ place \in {"unmake", "discard", "erase", "removed"} => ~engine.profile
  /\ place \in {"discard", "erase", "removed"} => ~engine.volume

LeaseHeld == guard.lease = "open" => guard.pc \in Serving

Counted ==
  /\ owner.pc \in ({"prepare"} \cup BeforeClosure) \ {"check", "unhold"} => owner.seq = 0
  /\ owner.pc = "check" => owner.seq \in 1 .. MaxChecks
  /\ owner.pc = "unhold" => owner.seq = MaxChecks + 1
  /\ guard.seq <= owner.seq + 1
  /\ conn.phase \in Callbacks /\ conn.at = "sent" =>
       conn.seq = owner.seq /\ owner.pc = conn.phase

IInv == /\ TypeOK /\ Custodial /\ Sealed /\ NothingYet /\ CommandIsOwners /\ ClosureWasAsked
        /\ CleansQuietly /\ Stage(guard.pc) /\ Stage(owner.pc) /\ LeaseHeld /\ Counted

(***************************************************************************)
(* The inductive invariant behind the outcome of a run: SequencesAgree,    *)
(* ResidualsExplained and RecoveryAfterVerify.                             *)
(***************************************************************************)
\* A guard that has not begun to end.
Guarding == {"start", "announce", "loop", "verify", "bind", "send", "lease", "confirm"}

\* Everything readiness asks for exists, unless somebody replaced the container.
OursOrReplaced == engine.container = "ours" \/ "replace" \in trouble
Made == files.cid = "valid" /\ engine.volume /\ OursOrReplaced

\* The guard counts a grant first, the owner when the callback's confirmation was accepted.
Confirmed ==
  /\ guard.pc \in (Guarding \ {"loop"}) \cup {"none"} => conn.at # "ok"
  /\ conn.at \in {"ack", "ok"} => conn.phase \in Callbacks

Aligned ==
  owner.pc \in {"prepare", "close"} \cup BeforeClosure =>
    /\ guard.pc \in (Guarding \ {"confirm"}) \cup {"none"} =>
         guard.seq = owner.seq + (IF conn.at = "ok" THEN 1 ELSE 0)
    /\ guard.pc = "confirm" => guard.seq = owner.seq + 1

\* A command runs where the owner waits for it.
Employed == /\ work \in Commands => owner.pc = work
            /\ work = "created" => owner.pc = "create"

\* Under a guard that has not begun to end, the owner's progress is in the engine.
Built ==
  /\ guard.pc = "none" => conn = NoConn
  /\ guard.pc \in Guarding =>
       /\ \/ owner.pc \in {"profile", "create"}
          \/ owner.pc = "volume" /\ owner.busy /\ work = "none"
          => engine.volume
       /\ work = "created" => OursOrReplaced
       /\ owner.pc = "ready" \/ (owner.pc = "create" /\ owner.busy /\ work = "none") => Made
       /\ conn.phase = "ready" /\ conn.at = "sent" => Made
       /\ guard.pc \in {"verify", "bind"} => Made

\* Nothing can be made any more: no command runs, and the owner starts none.
Settled == work = "none" /\ (OwnerLive => owner.pc \in AfterClosure)

\* Until then each command finds what it builds on.
Stacked ==
  ~Settled =>
    /\ \/ owner.pc \in {"profile", "create"}
       \/ owner.pc = "volume" /\ owner.busy /\ work = "none"
       => engine.volume
    /\ \/ owner.pc = "create"
       \/ owner.pc = "profile" /\ owner.busy /\ work = "none"
       => engine.profile

\* The binding is sealed for a written identity; only a clean-up that has already removed
\* everything takes the identity away.
Cleared == Settled /\ engine.container # "ours" /\ ~engine.profile /\ ~engine.volume

Bound ==
  /\ \/ guard.pc \in Guarding \cup {"none", "identify"}
     \/ guard.pc = "stop" /\ guard.why # "abort"
     => guard.bound = files.bound /\ (files.bound => files.cid = "valid")
  /\ guard.pc = "none" => ~guard.bound
  /\ files.bound /\ files.cid # "valid" => Cleared

\* Readiness is answered after the binding, and what follows it comes later still.
Readied ==
  ~Settled =>
    /\ owner.pc \in {"label"} \cup Callbacks => files.bound
    /\ conn.phase = "ready" /\ conn.at = "reply" => files.bound
    /\ guard.pc = "send" /\ conn.phase = "ready" => files.bound
    /\ guard.pc \in {"verify", "bind", "send"} => conn.at \in {"sent", "gone"}

\* A profile is verified for a bound container, until everything has been removed.
Attested == engine.verified => files.bound \/ Cleared

\* A clean-up is where the engine is, unless somebody replaced the container.
Located(place) ==
  /\ place = "remove" => files.cid = "valid" /\ OursOrReplaced
  /\ place = "absent" => engine.container = "none" \/ "replace" \in trouble

Unnamed == Settled /\ engine.container = "ours" /\ files.cid # "valid"

\* The container is gone, and the profile's receipt does not say "verified".
Unattested == Settled /\ ~engine.verified /\ engine.container # "ours"

Explained == \/ ~files.custody
             \/ trouble \cap {"tamper", "refuse", "replace", "escape"} # {}
             \/ clock = AllOver
             \/ Unnamed
             \/ Unattested

\* A guard that refuses to go on has a reason, and the reason stays.
Justified ==
  /\ engine.container = "other" => "replace" \in trouble
  /\ guard.pc \in {"none", "start"} => guard.why = "none"
  /\ guard.pc = "removed" => ~files.custody
  /\ \/ guard.pc = "stop" /\ guard.why = "abort"
     \/ guard.pc \in {"closed", "failed"} /\ guard.why # "none"
     => Explained

\* Who counted which grant, what exists for a binding and for a clean-up, and why a guard
\* refuses: the reason for what is left after a run, over all interleavings of owner, guard,
\* commands and kills (owner_lifecycle, owner_ready, cleanup_owner_custody, recover).
OutcomeInv == /\ IInv /\ Confirmed /\ Aligned /\ Employed /\ Built /\ Bound /\ Stacked
              /\ Readied /\ Attested /\ Located(guard.pc) /\ Located(owner.pc) /\ Justified

\* A resource is taken away only after everything that builds on it, and never under a
\* lease that still holds descriptors into it or beside a command that still runs
\* (owner_stop_work and lease.close come before cleanup_owner_custody).
TeardownInOrder ==
  [][/\ engine.container = "ours" /\ engine'.container = "none" =>
          work = "none" /\ guard.lease # "open"
     /\ engine.profile /\ ~engine'.profile => engine.container # "ours" /\ work = "none"
     /\ engine.volume /\ ~engine'.volume =>
          engine.container # "ours" /\ ~engine.profile /\ work = "none"]_vars

\* Once the sealed record or its sources differ nothing is removed from the engine any
\* more, by whichever path the clean-up is reached (owner_read, owner_validate).
TamperedIsLeftAlone ==
  [][("tamper" \in trouble) =>
       /\ engine.container = "ours" => engine'.container # "none"
       /\ engine.volume => engine'.volume
       /\ engine.profile => engine'.profile]_vars

\* A container of the same name that the run did not create is never removed
\* (owner_cid reads the identity the creator wrote, never looks up a name).
ForeignUntouched == [][engine.container = "other" => engine'.container = "other"]_vars

\* Owner and guard agree on how many lease requests were granted whenever the guard is
\* ready for the next one: a grant whose confirmation was lost ends the lease instead of
\* being counted by one side only.
SequencesAgree ==
  guard.pc = "loop" /\ owner.pc \in Phases =>
    guard.seq = owner.seq + (IF conn.at = "ok" THEN 1 ELSE 0)

\* A guard that ends on its own leaves the record behind only for a reason: something
\* was changed or refused, an identity was never written, a process escaped its capture,
\* the cleanup deadline passed, it had not acknowledged yet and nothing existed, or the
\* profile was not verified before the clean-up, whose receipt is then refused
\* (runner_prerequisite): that leaves the volume and the record, never the container.
ResidualsExplained ==
  guard.pc \in {"closed", "failed"} /\ files.custody =>
    \/ trouble \cap {"tamper", "refuse", "replace", "escape"} # {}
    \/ clock = AllOver
    \/ engine.container = "ours" /\ files.cid # "valid"
    \/ engine.container # "ours" /\ ~engine.verified
    \/ guard.why = "none"

\* When the owner is gone a guard that acknowledged comes to an end by itself, without
\* waiting for a deadline.
OwnerLossEnds == (Running /\ files.ready /\ ~OwnerLive) ~> ~Running

\* An owner gives up its own clean-up before the cleanup deadline, with nothing changed,
\* refused or replaced, and leaves something it created.
Forsakes ==
  /\ owner.pc \in Teardown /\ owner'.pc = "failed" /\ clock < AllOver
  /\ trouble' \cap {"tamper", "refuse", "replace"} = {}
  /\ engine.container # "none" \/ engine.volume \/ engine.profile

\* "The original live owner, never the observer, retains its original exact-owned recovery
\* after proven guard death" (verify-docker-paperless-custody.py, recover): said without a
\* condition.  The code keeps it only in part: see RecoveryAfterVerify.
OwnerRetainsRecovery == [][~Forsakes]_vars

\* Once the profile has been verified, an owner whose guard was killed does recover
\* everything it created (recover, cleanup_owner_custody).
RecoveryAfterVerify == [][engine.verified => ~Forsakes]_vars

\* Owner, guard and commands together keep the obligation of CustodyObligation: resources are
\* made from the bottom up under the record, clean-up begins where nothing can be made any
\* more and goes from the top down, whoever of the two runs it, and the record goes when
\* nothing is left (prepare_owner_custody, owner_stop_work, cleanup_owner_custody).
Existing == {x \in {"volume", "profile", "container"} :
               \/ x = "volume" /\ engine.volume
               \/ x = "profile" /\ engine.profile
               \/ x = "container" /\ engine.container = "ours"}

Usurped == {x \in {"container"} : engine.container = "other"}

Duty == INSTANCE CustodyObligation WITH
    Base <- [volume |-> {}, profile |-> {"volume"}, container |-> {"volume", "profile"}],
    record <- files.custody, intact <- "tamper" \notin trouble,
    made <- Existing, taken <- Usurped, barred <- Settled

KeepsObligation == Duty!Spec
=============================================================================
