------------------------------ MODULE AutoLock ------------------------------
(***************************************************************************)
(* The idle-lock supervisor of KeyNest (security/auto_lock.rs), the        *)
(* operation gate every security command holds (security/operation.rs),   *)
(* the lock coordinator (security/locking.rs) and the commands of ipc.rs   *)
(* that arm, disarm, re-time or trigger the lock.                          *)
(*                                                                         *)
(* Two threads matter.  The worker runs supervise(): it waits on the       *)
(* condition variable, and when the deadline has passed it announces the   *)
(* lock under the state mutex, drops the mutex, and only then queues for   *)
(* the gate.  The command thread is whichever command holds the gate: a    *)
(* command still waiting for the gate has read nothing yet, so one command *)
(* thread whose next command is chosen when the gate is taken stands for   *)
(* any number of them.                                                     *)
(***************************************************************************)
EXTENDS Naturals

CONSTANTS Timeouts,    (* the auto-lock delays the user may choose          *)
          NoRequest,   (* Option::<ArmRequest>::None                        *)
          MaxClock,    (* bound: the clock stops ticking here               *)
          MaxEpoch     (* bound: no command starts once the epoch is here   *)

ArmRequests == [at : Nat, epoch : Nat]

ASSUME AutoLockAssumption ==
    /\ Timeouts \subseteq Nat
    /\ Timeouts # {}
    /\ NoRequest \notin ArmRequests
    /\ MaxClock \in Nat
    /\ MaxEpoch \in Nat

VARIABLES now,              (* the monotonic clock                          *)
          status,           (* AuthService::status()                        *)
          gate,             (* the holder of SecurityOperationGate          *)
          armed, last_activity, timeout, shutdown,
          epoch, locks_in_flight, pending_arm,      (* AutoLockState        *)
          worker,           (* where the supervisor thread is               *)
          wakeAt,           (* end of the worker's timed wait               *)
          wRequest, wUnlocked,   (* locals of reconcile_after_lock_view     *)
          command,          (* next step of the command holding the gate    *)
          cAt, cTimeout, cRequest, cUnlocked,       (* its locals           *)
          keyOnDisplay      (* history: a fresh recovery key is shown and   *)
                            (* nothing has armed the lock since             *)

stateVars   == << armed, last_activity, timeout, shutdown,
                  epoch, locks_in_flight, pending_arm >>
workerVars  == << worker, wakeAt, wRequest, wUnlocked >>
commandVars == << command, cAt, cTimeout, cRequest, cUnlocked >>
vars == << now, status, gate, stateVars, workerVars, commandVars, keyOnDisplay >>

AuthStatus == { "SetupRequired", "Locked", "Unlocked", "DataError" }

OptionalRequests == ArmRequests \cup { NoRequest }

(* Where a thread is: what it does next, each a critical section.          *)
WorkerSteps  == { "check", "idle", "sleep", "queue", "locking",
                  "reconcile", "status", "finish", "done" }
CommandSteps == { "none", "arm", "status", "finish", "disarm", "record",
                  "retime", "beginLock", "lock", "reconcile" }

FlagsTypeOK ==
    /\ armed \in BOOLEAN
    /\ shutdown \in BOOLEAN
    /\ wUnlocked \in BOOLEAN
    /\ cUnlocked \in BOOLEAN
    /\ keyOnDisplay \in BOOLEAN

StateTypeOK ==
    /\ last_activity \in Nat
    /\ timeout \in Timeouts
    /\ epoch \in Nat
    /\ locks_in_flight \in Nat
    /\ pending_arm \in OptionalRequests

WorkerTypeOK ==
    /\ worker \in WorkerSteps
    /\ wakeAt \in Nat
    /\ wRequest \in OptionalRequests

CommandTypeOK ==
    /\ command \in CommandSteps
    /\ cAt \in Nat
    /\ cTimeout \in Timeouts
    /\ cRequest \in OptionalRequests

TypeOK ==
    /\ now \in Nat
    /\ status \in AuthStatus
    /\ gate \in { "free", "command", "worker" }
    /\ FlagsTypeOK
    /\ StateTypeOK
    /\ WorkerTypeOK
    /\ CommandTypeOK

Init ==
    /\ now = 0
    /\ status \in AuthStatus \ { "Unlocked" }
    /\ gate = "free"
    /\ armed = FALSE
    /\ last_activity = 0
    /\ timeout \in Timeouts
    /\ shutdown = FALSE
    /\ epoch = 0
    /\ locks_in_flight = 0
    /\ pending_arm = NoRequest
    /\ worker = "check"
    /\ wakeAt = 0
    /\ wRequest = NoRequest
    /\ wUnlocked = FALSE
    /\ command = "none"
    /\ cAt = 0
    /\ cTimeout = timeout
    /\ cRequest = NoRequest
    /\ cUnlocked = FALSE
    /\ keyOnDisplay = FALSE

-----------------------------------------------------------------------------
(* Pieces shared by the worker and the commands.                           *)

Deadline == last_activity + timeout

DeadlineReached(instant) == instant >= Deadline

(* Mutant: the condition variable is not notified.                         *)
NotifyAllForgotten == UNCHANGED worker

(* wake.notify_all(): a worker blocked on the condition variable becomes   *)
(* runnable again; nobody else ever waits on it.                           *)
NotifyAll == worker' = IF worker \in { "idle", "sleep" } THEN "check" ELSE worker

BeginLock(pendingAfter) ==
    /\ epoch' = epoch + 1
    /\ armed' = FALSE
    /\ pending_arm' = pendingAfter
    /\ locks_in_flight' = locks_in_flight + 1

(* AuthService::lock, the part of LockCoordinator::lock_and_emit that the  *)
(* supervisor can observe.                                                 *)
LockSession ==
    /\ status' = IF status = "Unlocked" THEN "Locked" ELSE status
    /\ keyOnDisplay' = FALSE

(* The first half of reconcile_after_lock: what is left in flight, and the *)
(* request the caller takes over (NoRequest when there is none, or when it *)
(* must leave it to another lock in flight).                               *)
InFlightAfter == IF locks_in_flight = 0 THEN 0 ELSE locks_in_flight - 1
LeavesPending == shutdown \/ InFlightAfter > 0
(* Mutant: the deferred arm request is dropped.                            *)
TakenOverForgotten == NoRequest
TakenOver     == IF LeavesPending THEN NoRequest ELSE pending_arm

RetireLock ==
    /\ locks_in_flight' = InFlightAfter
    /\ pending_arm' = IF LeavesPending THEN pending_arm ELSE NoRequest
    /\ UNCHANGED << armed, last_activity, timeout, shutdown, epoch >>

(* Mutant: a late arm is not compared with the current epoch.              *)
StillCurrentUnchecked(request) == ~shutdown /\ request = request

StillCurrent(request) == ~shutdown /\ epoch = request.epoch

-----------------------------------------------------------------------------
(* The supervisor thread: supervise().                                     *)

(* The top of the loop, with the state mutex held.                         *)
WorkerStops ==
    /\ worker = "check"
    /\ shutdown
    /\ worker' = "done"
    /\ UNCHANGED << now, status, gate, stateVars, wakeAt, wRequest, wUnlocked,
                    commandVars, keyOnDisplay >>

WorkerIdles ==
    /\ worker = "check"
    /\ ~shutdown
    /\ ~armed
    /\ worker' = "idle"
    /\ UNCHANGED << now, status, gate, stateVars, wakeAt, wRequest, wUnlocked,
                    commandVars, keyOnDisplay >>

WorkerSleeps ==
    /\ worker = "check"
    /\ ~shutdown
    /\ armed
    /\ ~DeadlineReached(now)
    /\ worker' = "sleep"
    /\ wakeAt' = Deadline
    /\ UNCHANGED << now, status, gate, stateVars, wRequest, wUnlocked,
                    commandVars, keyOnDisplay >>

WorkerExpires ==
    /\ worker = "check"
    /\ ~shutdown
    /\ armed
    /\ DeadlineReached(now)
    /\ BeginLock(pending_arm)
    /\ worker' = "queue"
    /\ UNCHANGED << now, status, gate, last_activity, timeout, shutdown,
                    wakeAt, wRequest, wUnlocked, commandVars, keyOnDisplay >>

WorkerTimesOut ==
    /\ worker = "sleep"
    /\ now >= wakeAt
    /\ worker' = "check"
    /\ UNCHANGED << now, status, gate, stateVars, wakeAt, wRequest, wUnlocked,
                    commandVars, keyOnDisplay >>

(* A condition variable may also return for no reason.                     *)
SpuriousWakeup ==
    /\ worker \in { "idle", "sleep" }
    /\ worker' = "check"
    /\ UNCHANGED << now, status, gate, stateVars, wakeAt, wRequest, wUnlocked,
                    commandVars, keyOnDisplay >>

(* actions.lock(): take the gate, lock the session ...                     *)
WorkerLocks ==
    /\ worker = "queue"
    /\ gate = "free"
    /\ gate' = "worker"
    /\ LockSession
    /\ worker' = "locking"
    /\ UNCHANGED << now, stateVars, wakeAt, wRequest, wUnlocked, commandVars >>

(* ... then clear the clipboard, emit the event and release the gate.      *)
WorkerReleasesGate ==
    /\ worker = "locking"
    /\ gate' = "free"
    /\ worker' = "reconcile"
    /\ UNCHANGED << now, status, stateVars, wakeAt, wRequest, wUnlocked,
                    commandVars, keyOnDisplay >>

WorkerRetiresLock ==
    /\ worker = "reconcile"
    /\ RetireLock
    /\ wRequest' = TakenOver
    /\ worker' = IF TakenOver = NoRequest THEN "check" ELSE "status"
    /\ UNCHANGED << now, status, gate, wakeAt, wUnlocked, commandVars, keyOnDisplay >>

(* The status is read with neither the gate nor the state mutex held.      *)
WorkerReadsStatus ==
    /\ worker = "status"
    /\ wUnlocked' = (status = "Unlocked")
    /\ worker' = "finish"
    /\ UNCHANGED << now, status, gate, stateVars, wakeAt, wRequest,
                    commandVars, keyOnDisplay >>

WorkerFinishesArm ==
    /\ worker = "finish"
    /\ worker' = "check"
    /\ wRequest' = NoRequest
    /\ LET current == StillCurrent(wRequest)
           arms    == current /\ locks_in_flight = 0 /\ wUnlocked
       IN  /\ pending_arm' = IF current /\ locks_in_flight > 0
                             THEN wRequest ELSE pending_arm
           /\ last_activity' = IF arms THEN wRequest.at ELSE last_activity
           /\ armed' = (arms \/ armed)
    /\ UNCHANGED << now, status, gate, timeout, shutdown, epoch, locks_in_flight,
                    wakeAt, wUnlocked, commandVars, keyOnDisplay >>

Worker ==
    \/ WorkerStops \/ WorkerIdles \/ WorkerSleeps \/ WorkerExpires
    \/ WorkerTimesOut \/ WorkerLocks \/ WorkerReleasesGate
    \/ WorkerRetiresLock \/ WorkerReadsStatus \/ WorkerFinishesArm

-----------------------------------------------------------------------------
(* A command takes the gate, performs its AuthService operation, reads the *)
(* clock and goes on to its AutoLockService call.                          *)

Takes(step) ==
    /\ gate = "free"
    /\ epoch < MaxEpoch
    /\ gate' = "command"
    /\ command' = step
    /\ cAt' = now
    /\ UNCHANGED << now, stateVars, workerVars, cRequest, cUnlocked >>

Finishes ==
    /\ gate' = "free"
    /\ command' = "none"

(* A command that fails inside AuthService, or never reaches               *)
(* AutoLockService, holds the gate for its whole duration and releases it. *)
AuthOnly(before, after) ==
    /\ gate = "free"
    /\ status \in before
    /\ status' \in after
    /\ UNCHANGED << now, gate, stateVars, workerVars, commandVars >>

CreateMasterPassword ==
    /\ epoch < MaxEpoch
    /\ AuthOnly({ "SetupRequired" }, { "Unlocked", "DataError" })
    /\ keyOnDisplay' = (status' = "Unlocked")

RecoverMasterPassword ==
    /\ epoch < MaxEpoch
    /\ AuthOnly({ "Locked" }, { "Unlocked" })
    /\ keyOnDisplay' = TRUE

(* unlock and unlock_with_pin; the wrong-password case changes nothing.    *)
Unlock ==
    /\ status \in { "Locked", "Unlocked" }
    /\ Takes("arm")
    /\ status' = "Unlocked"
    /\ UNCHANGED << cTimeout, keyOnDisplay >>

UnlockFindsBadProfile ==
    /\ AuthOnly({ "Locked" }, { "DataError" })
    /\ UNCHANGED keyOnDisplay

CompleteRecoveryKeyDisplay ==
    /\ status = "Unlocked"
    /\ Takes("arm")
    /\ UNCHANGED << status, cTimeout, keyOnDisplay >>

RegenerateRecoveryKey ==
    /\ status = "Unlocked"
    /\ Takes("disarm")
    /\ keyOnDisplay' = TRUE
    /\ UNCHANGED << status, cTimeout >>

RecordActivity ==
    /\ status = "Unlocked"
    /\ Takes("record")
    /\ UNCHANGED << status, cTimeout, keyOnDisplay >>

SetAutoLock(seconds) ==
    /\ status = "Unlocked"
    /\ Takes("retime")
    /\ cTimeout' = seconds
    /\ UNCHANGED << status, keyOnDisplay >>

(* The lock command, a session-change notification and a resume from       *)
(* sleep: all of them call lock_now_with_operation_guard.                  *)
Lock ==
    /\ Takes("beginLock")
    /\ UNCHANGED << status, cTimeout, keyOnDisplay >>

(* Both reset commands; every earlier step that fails returns before the   *)
(* session or the supervisor is touched.                                   *)
ResetKeyNest ==
    /\ status \in { "Unlocked", "Locked", "DataError" }
    /\ Takes("disarm")
    /\ status' = "SetupRequired"
    /\ keyOnDisplay' = FALSE
    /\ UNCHANGED cTimeout

-----------------------------------------------------------------------------
(* The AutoLockService calls, each step one critical section of the state  *)
(* mutex.                                                                  *)

(* arm_at, the first critical section.                                     *)
BeginArm ==
    /\ command = "arm"
    /\ keyOnDisplay' = FALSE
    /\ IF shutdown
       THEN /\ Finishes
            /\ UNCHANGED << stateVars, worker, cRequest >>
       ELSE /\ epoch' = epoch + 1
            /\ armed' = FALSE
            /\ UNCHANGED << last_activity, timeout, shutdown, locks_in_flight >>
            /\ IF locks_in_flight > 0
               THEN /\ pending_arm' = [at |-> cAt, epoch |-> epoch + 1]
                    /\ NotifyAll
                    /\ Finishes
                    /\ UNCHANGED cRequest
               ELSE /\ cRequest' = [at |-> cAt, epoch |-> epoch + 1]
                    /\ command' = "status"
                    /\ UNCHANGED << pending_arm, worker, gate >>
    /\ UNCHANGED << now, status, wakeAt, wRequest, wUnlocked,
                    cAt, cTimeout, cUnlocked >>

ReadStatus ==
    /\ command = "status"
    /\ cUnlocked' = (status = "Unlocked")
    /\ command' = "finish"
    /\ UNCHANGED << now, status, gate, stateVars, workerVars,
                    cAt, cTimeout, cRequest, keyOnDisplay >>

FinishArm ==
    /\ command = "finish"
    /\ Finishes
    /\ cRequest' = NoRequest
    /\ IF ~StillCurrent(cRequest)
       THEN UNCHANGED << armed, last_activity, pending_arm, worker >>
       ELSE /\ NotifyAll
            /\ IF locks_in_flight > 0
               THEN /\ pending_arm' = cRequest
                    /\ UNCHANGED << armed, last_activity >>
               ELSE /\ pending_arm' = NoRequest
                    /\ IF cUnlocked
                       THEN armed' = TRUE /\ last_activity' = cRequest.at
                       ELSE armed' = FALSE /\ UNCHANGED last_activity
    /\ UNCHANGED << now, status, timeout, shutdown, epoch, locks_in_flight,
                    wakeAt, wRequest, wUnlocked, cAt, cTimeout, cUnlocked,
                    keyOnDisplay >>

Disarm ==
    /\ command = "disarm"
    /\ Finishes
    /\ epoch' = epoch + 1
    /\ armed' = FALSE
    /\ pending_arm' = NoRequest
    /\ NotifyAll
    /\ UNCHANGED << now, status, last_activity, timeout, shutdown, locks_in_flight,
                    wakeAt, wRequest, wUnlocked, cAt, cTimeout, cRequest,
                    cUnlocked, keyOnDisplay >>

StoreActivity ==
    /\ command = "record"
    /\ Finishes
    /\ IF armed /\ ~shutdown
       THEN last_activity' = cAt /\ NotifyAll
       ELSE UNCHANGED << last_activity, worker >>
    /\ UNCHANGED << now, status, armed, timeout, shutdown, epoch, locks_in_flight,
                    pending_arm, wakeAt, wRequest, wUnlocked, cAt, cTimeout,
                    cRequest, cUnlocked, keyOnDisplay >>

SetTimeout ==
    /\ command = "retime"
    /\ timeout' = cTimeout
    /\ NotifyAll
    /\ IF armed /\ cAt >= last_activity + cTimeout
       THEN /\ BeginLock(pending_arm)
            /\ command' = "lock"
            /\ UNCHANGED gate
       ELSE /\ Finishes
            /\ UNCHANGED << epoch, armed, pending_arm, locks_in_flight >>
    /\ UNCHANGED << now, status, last_activity, shutdown, wakeAt, wRequest,
                    wUnlocked, cAt, cTimeout, cRequest, cUnlocked, keyOnDisplay >>

BeginExplicitLock ==
    /\ command = "beginLock"
    /\ BeginLock(NoRequest)
    /\ NotifyAll
    /\ command' = "lock"
    /\ UNCHANGED << now, status, gate, last_activity, timeout, shutdown,
                    wakeAt, wRequest, wUnlocked, cAt, cTimeout, cRequest,
                    cUnlocked, keyOnDisplay >>

(* Mutant: actions.lock() instead of lock_with_operation_guard(guard).     *)
LockUnderGuardReentrant ==
    /\ command = "lock"
    /\ gate = "free"
    /\ LockSession
    /\ command' = "reconcile"
    /\ UNCHANGED << now, gate, stateVars, workerVars, cAt, cTimeout, cRequest,
                    cUnlocked >>

(* lock_with_operation_guard: the gate this command already holds.         *)
LockUnderGuard ==
    /\ command = "lock"
    /\ LockSession
    /\ command' = "reconcile"
    /\ UNCHANGED << now, gate, stateVars, workerVars, cAt, cTimeout, cRequest,
                    cUnlocked >>

Reconcile ==
    /\ command = "reconcile"
    /\ RetireLock
    /\ IF LeavesPending THEN NotifyAll ELSE UNCHANGED worker
    /\ cRequest' = TakenOver
    /\ IF TakenOver = NoRequest
       THEN Finishes
       ELSE command' = "status" /\ UNCHANGED gate
    /\ UNCHANGED << now, status, wakeAt, wRequest, wUnlocked, cAt, cTimeout,
                    cUnlocked, keyOnDisplay >>

CommandStep ==
    \/ BeginArm \/ ReadStatus \/ FinishArm \/ Disarm \/ StoreActivity
    \/ SetTimeout \/ BeginExplicitLock \/ LockUnderGuard \/ Reconcile

StartCommand ==
    \/ CreateMasterPassword \/ RecoverMasterPassword
    \/ Unlock \/ UnlockFindsBadProfile \/ CompleteRecoveryKeyDisplay
    \/ RegenerateRecoveryKey \/ RecordActivity
    \/ \E seconds \in Timeouts : SetAutoLock(seconds)
    \/ Lock \/ ResetKeyNest

-----------------------------------------------------------------------------
(* Mutant: the flag is set but the worker is not woken.                    *)
RequestShutdownSilently ==
    /\ shutdown' = TRUE
    /\ UNCHANGED << now, status, gate, armed, last_activity, timeout, epoch,
                    locks_in_flight, pending_arm, workerVars, commandVars,
                    keyOnDisplay >>

(* The event loop requests shutdown at exit without taking the gate.       *)
RequestShutdown ==
    /\ shutdown' = TRUE
    /\ NotifyAll
    /\ UNCHANGED << now, status, gate, armed, last_activity, timeout, epoch,
                    locks_in_flight, pending_arm, wakeAt, wRequest, wUnlocked,
                    commandVars, keyOnDisplay >>

Tick ==
    /\ now < MaxClock
    /\ now' = now + 1
    /\ UNCHANGED << status, gate, stateVars, workerVars, commandVars, keyOnDisplay >>

Next == Worker \/ SpuriousWakeup \/ StartCommand \/ CommandStep \/ RequestShutdown \/ Tick

Spec == Init /\ [][Next]_vars

(* The worker and a command that has the gate are running threads.  Nobody *)
(* is obliged to start a command, and the gate promises its waiters        *)
(* nothing more than weak fairness.                                        *)
Fairness == WF_vars(Worker) /\ WF_vars(CommandStep)

FairSpec == Spec /\ Fairness

-----------------------------------------------------------------------------
(* Safety.                                                                 *)

(* The idle timer runs only over an unlocked session: whatever order a     *)
(* deferred arm, a manual lock and a reset complete in, the supervisor is  *)
(* never left armed once the session is gone.  (A reset clears the session *)
(* one step before it disarms, still under the gate.)                      *)
ArmedOnlyWhileUnlocked ==
    armed => \/ status = "Unlocked"
             \/ command = "disarm"

(* Between commands, an unlocked session whose recovery key is not on      *)
(* display is always covered: the timer is armed, or a lock is on its way, *)
(* or the arm request that was deferred behind a lock is still current and *)
(* in the hands of the worker.  No interleaving of the worker with unlock, *)
(* lock and set_auto_lock loses the arm.                                   *)
UnlockedSessionIsCovered ==
    (status = "Unlocked" /\ gate # "command" /\ ~shutdown /\ ~keyOnDisplay) =>
        \/ armed
        \/ worker = "queue"
        \/ /\ worker = "reconcile"
           /\ pending_arm # NoRequest
           /\ pending_arm.epoch = epoch
        \/ /\ worker = "status"
           /\ wRequest.epoch = epoch
        \/ /\ worker = "finish"
           /\ wRequest.epoch = epoch
           /\ wUnlocked

(* The worker never sleeps through something it must act on: it waits      *)
(* without a timeout only while disarmed, its timed wait never ends after  *)
(* the current deadline, and it does not wait at all once shutdown is      *)
(* requested.                                                              *)
NoMissedWakeup ==
    /\ worker = "idle" => ~armed /\ ~shutdown
    /\ worker = "sleep" => ~shutdown /\ (armed => wakeAt <= Deadline)

(* A deferred or late arm request never rewinds the idle timer to a moment *)
(* before activity that was already recorded.                              *)
ActivityNeverRewinds == [][last_activity' >= last_activity]_vars

(* ipc.rs, regenerate_recovery_key_value: "pause automatic locking until   *)
(* the UI confirms the user has had an opportunity to save it": the idle   *)
(* worker does not lock a session whose fresh recovery key is on display.  *)
NoIdleLockWhileKeyOnDisplay ==
    [][(worker = "queue" /\ worker' = "locking") => ~keyOnDisplay]_vars

-----------------------------------------------------------------------------
(* Why the safety properties hold: the inductive invariant, part by part.  *)

One(condition) == IF condition THEN 1 ELSE 0

(* The gate is held exactly while its holder is between taking and         *)
(* releasing it.                                                           *)
GateInv ==
    /\ gate = "command" <=> command # "none"
    /\ gate = "worker" <=> worker = "locking"

(* locks_in_flight counts the threads between begin_lock and reconcile; a  *)
(* lock in flight leaves the timer disarmed.                               *)
InFlightInv ==
    /\ locks_in_flight = One(worker \in { "queue", "locking", "reconcile" })
                         + One(command \in { "lock", "reconcile" })
    /\ armed => locks_in_flight = 0

(* A deferred arm waits for the worker's lock and for nothing else: a      *)
(* command that locks never finds one in its own reconcile.                *)
PendingInv ==
    pending_arm # NoRequest =>
        /\ ~armed
        /\ command \notin { "status", "finish", "lock", "reconcile" }
        /\ shutdown \/ worker \in { "queue", "locking", "reconcile" }
        /\ pending_arm.epoch <= epoch
        /\ pending_arm.at <= now
        /\ command # "none" => pending_arm.at <= cAt
        /\ pending_arm.epoch = epoch => last_activity <= pending_arm.at

(* A request the worker took over is current only while nobody has armed,  *)
(* disarmed or locked since.                                               *)
TakenInv ==
    worker \in { "status", "finish" } =>
        /\ wRequest # NoRequest
        /\ wRequest.epoch <= epoch
        /\ wRequest.at <= now
        /\ command # "none" => wRequest.at <= cAt
        /\ wRequest.epoch = epoch =>
              /\ ~armed
              /\ locks_in_flight = 0
              /\ command \notin { "status", "finish" }
              /\ last_activity <= wRequest.at

(* The worker's unguarded status read is only ever out of date in ways the *)
(* epoch, or the pending disarm of a reset, makes harmless.                *)
ReadInv ==
    (worker = "finish" /\ wRequest.epoch = epoch) =>
        /\ wUnlocked => status = "Unlocked" \/ command = "disarm"
        /\ (status = "Unlocked" /\ ~shutdown /\ ~keyOnDisplay /\ command # "arm")
              => wUnlocked

CommandInv ==
    /\ last_activity <= now
    /\ cAt <= now
    /\ command # "none" => last_activity <= cAt
    /\ command \in { "arm", "status", "finish", "record", "retime" } =>
          status = "Unlocked"
    /\ command \in { "status", "finish" } =>
          /\ cRequest # NoRequest
          /\ cRequest.epoch = epoch
          /\ cRequest.at = cAt
          /\ ~armed
          /\ locks_in_flight = 0
    /\ command = "finish" => cUnlocked
    /\ command = "reconcile" => status # "Unlocked"
    /\ command = "disarm" => keyOnDisplay \/ status # "Unlocked"

CoveredInv ==
    (/\ status = "Unlocked"
     /\ ~shutdown
     /\ ~keyOnDisplay
     /\ command \notin { "arm", "status", "finish", "lock" }) =>
        \/ armed
        \/ worker = "queue"
        \/ /\ worker = "reconcile"
           /\ pending_arm # NoRequest
           /\ pending_arm.epoch = epoch
        \/ /\ worker \in { "status", "finish" }
           /\ wRequest.epoch = epoch

ServiceInv ==
    /\ GateInv
    /\ InFlightInv
    /\ PendingInv
    /\ TakenInv
    /\ ReadInv
    /\ CommandInv
    /\ CoveredInv
    /\ ArmedOnlyWhileUnlocked
    /\ NoMissedWakeup

IInv == TypeOK /\ ServiceInv

-----------------------------------------------------------------------------
(* Liveness.                                                               *)

CommandsStop == <>[](gate # "command")

(* Once commands stop arriving, a session that is past its deadline does   *)
(* not stay unlocked, whatever the worker was doing when they stopped.     *)
QuietExpiredSessionLocks ==
    CommandsStop =>
        <>[](shutdown \/ keyOnDisplay \/ ~(status = "Unlocked" /\ DeadlineReached(now)))

(* Exit is not held up: the worker leaves its loop after shutdown even if  *)
(* it was waiting, sleeping or about to lock.                              *)
ShutdownEndsWorker == CommandsStop => (shutdown ~> worker = "done")

(* A command that has the gate releases it: locking under a held gate does *)
(* not wait for the gate again.                                            *)
CommandsFinish == command # "none" ~> command = "none"
=============================================================================
