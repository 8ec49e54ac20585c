--------------------------- MODULE AutoLockProofs ---------------------------
(***************************************************************************)
(* Proofs that the safety properties of AutoLock hold for every set of     *)
(* timeouts and every bound on the clock and the epoch.  The argument is   *)
(* the inductive invariant IInv of AutoLock; each action preserves it.     *)
(* Steps that change a Boolean flag show the flags first: the SMT backend  *)
(* does not reason about them together with arithmetic.                    *)
(***************************************************************************)
EXTENDS AutoLock, TLAPS

(* What an Option<ArmRequest> holds.                                       *)
LEMMA ArmRequestType ==
    /\ NoRequest \in OptionalRequests
    /\ \A at, e \in Nat :
          [at |-> at, epoch |-> e] \in OptionalRequests \ { NoRequest }
    /\ \A r \in OptionalRequests \ { NoRequest } : r.at \in Nat /\ r.epoch \in Nat
  BY AutoLockAssumption DEF AutoLockAssumption, OptionalRequests, ArmRequests

(* The program starts in the invariant: nothing is armed, deferred or in   *)
(* flight.                                                                 *)
LEMMA InitIInv == Init => IInv
  <1> SUFFICES ASSUME Init PROVE IInv
    OBVIOUS
  <1>1. FlagsTypeOK
    BY DEF Init, FlagsTypeOK
  <1>2. TypeOK
    BY <1>1, ArmRequestType
    DEF Init, TypeOK, StateTypeOK, WorkerTypeOK, CommandTypeOK, AuthStatus,
        WorkerSteps, CommandSteps
  <1>3. ServiceInv
    BY DEF Init, ServiceInv, GateInv, InFlightInv, PendingInv, TakenInv, ReadInv,
           CommandInv, CoveredInv, ArmedOnlyWhileUnlocked, NoMissedWakeup, One
  <1> QED
    BY <1>2, <1>3 DEF IInv

(* The supervisor thread's steps.                                          *)
LEMMA WorkerKeepsIInv == IInv /\ (Worker \/ SpuriousWakeup) => IInv'
  <1> SUFFICES ASSUME IInv, Worker \/ SpuriousWakeup PROVE IInv'
    OBVIOUS
  <1> USE AutoLockAssumption DEF IInv, TypeOK, StateTypeOK, WorkerTypeOK,
          CommandTypeOK, FlagsTypeOK, ServiceInv, GateInv, InFlightInv, PendingInv,
          TakenInv, ReadInv, CommandInv, CoveredInv, ArmedOnlyWhileUnlocked,
          NoMissedWakeup, One
  <1>1. CASE WorkerStops
    <2>1. FlagsTypeOK'
      BY <1>1 DEF WorkerStops, stateVars, commandVars
    <2>2. TypeOK'
      BY <2>1, <1>1, ArmRequestType DEF WorkerStops, stateVars, commandVars,
          AuthStatus, WorkerSteps, CommandSteps
    <2>3. ServiceInv'
      BY <1>1, ArmRequestType DEF WorkerStops, Deadline, stateVars,
          commandVars
    <2> QED
      BY <2>2, <2>3 DEF IInv
  <1>2. CASE WorkerIdles
    <2>1. FlagsTypeOK'
      BY <1>2 DEF WorkerIdles, stateVars, commandVars
    <2>2. TypeOK'
      BY <2>1, <1>2, ArmRequestType DEF WorkerIdles, stateVars, commandVars,
          AuthStatus, WorkerSteps, CommandSteps
    <2>3. ServiceInv'
      BY <1>2, ArmRequestType DEF WorkerIdles, Deadline, stateVars,
          commandVars
    <2> QED
      BY <2>2, <2>3 DEF IInv
  <1>3. CASE WorkerSleeps
    <2>1. FlagsTypeOK'
      BY <1>3 DEF WorkerSleeps, DeadlineReached, Deadline, stateVars,
          commandVars
    <2>2. TypeOK'
      BY <2>1, <1>3, ArmRequestType DEF WorkerSleeps, DeadlineReached,
          Deadline, stateVars, commandVars, AuthStatus, WorkerSteps,
          CommandSteps
    <2>3. ServiceInv'
      BY <1>3, ArmRequestType DEF WorkerSleeps, DeadlineReached, Deadline,
          stateVars, commandVars
    <2> QED
      BY <2>2, <2>3 DEF IInv
  <1>4. CASE WorkerExpires
    <2>1. FlagsTypeOK'
      BY <1>4 DEF WorkerExpires, BeginLock, DeadlineReached, Deadline,
          commandVars
    <2>2. TypeOK'
      BY <2>1, <1>4, ArmRequestType DEF WorkerExpires, BeginLock,
          DeadlineReached, Deadline, commandVars, AuthStatus, WorkerSteps,
          CommandSteps
    <2>3. ServiceInv'
      BY <1>4, ArmRequestType DEF WorkerExpires, BeginLock, DeadlineReached,
          Deadline, commandVars
    <2> QED
      BY <2>2, <2>3 DEF IInv
  <1>5. CASE WorkerTimesOut
    <2>1. FlagsTypeOK'
      BY <1>5 DEF WorkerTimesOut, stateVars, commandVars
    <2>2. TypeOK'
      BY <2>1, <1>5, ArmRequestType DEF WorkerTimesOut, stateVars,
          commandVars, AuthStatus, WorkerSteps, CommandSteps
    <2>3. ServiceInv'
      BY <1>5, ArmRequestType DEF WorkerTimesOut, Deadline, stateVars,
          commandVars
    <2> QED
      BY <2>2, <2>3 DEF IInv
  <1>6. CASE WorkerLocks
    <2>1. FlagsTypeOK'
      BY <1>6 DEF WorkerLocks, LockSession, stateVars, commandVars
    <2>2. TypeOK'
      BY <2>1, <1>6, ArmRequestType DEF WorkerLocks, LockSession, stateVars,
          commandVars, AuthStatus, WorkerSteps, CommandSteps
    <2>3. ServiceInv'
      BY <1>6, ArmRequestType DEF WorkerLocks, LockSession, Deadline,
          stateVars, commandVars
    <2> QED
      BY <2>2, <2>3 DEF IInv
  <1>7. CASE WorkerReleasesGate
    <2>1. FlagsTypeOK'
      BY <1>7 DEF WorkerReleasesGate, stateVars, commandVars
    <2>2. TypeOK'
      BY <2>1, <1>7, ArmRequestType DEF WorkerReleasesGate, stateVars,
          commandVars, AuthStatus, WorkerSteps, CommandSteps
    <2>3. ServiceInv'
      BY <1>7, ArmRequestType DEF WorkerReleasesGate, Deadline, stateVars,
          commandVars
    <2> QED
      BY <2>2, <2>3 DEF IInv
  <1>8. CASE WorkerRetiresLock
    <2>1. FlagsTypeOK'
      BY <1>8 DEF WorkerRetiresLock, InFlightAfter, LeavesPending, TakenOver,
          RetireLock, commandVars
    <2>2. TypeOK'
      BY <2>1, <1>8, ArmRequestType DEF WorkerRetiresLock, InFlightAfter,
          LeavesPending, TakenOver, RetireLock, commandVars, AuthStatus,
          WorkerSteps, CommandSteps
    <2>3. ServiceInv'
      BY <1>8, ArmRequestType DEF WorkerRetiresLock, InFlightAfter,
          LeavesPending, TakenOver, RetireLock, Deadline, commandVars
    <2> QED
      BY <2>2, <2>3 DEF IInv
  <1>9. CASE WorkerReadsStatus
    <2>1. FlagsTypeOK'
      BY <1>9 DEF WorkerReadsStatus, stateVars, commandVars
    <2>2. TypeOK'
      BY <2>1, <1>9, ArmRequestType DEF WorkerReadsStatus, stateVars,
          commandVars, AuthStatus, WorkerSteps, CommandSteps
    <2>3. ServiceInv'
      BY <1>9, ArmRequestType DEF WorkerReadsStatus, Deadline, stateVars,
          commandVars
    <2> QED
      BY <2>2, <2>3 DEF IInv
  <1>10. CASE WorkerFinishesArm
    <2>1. FlagsTypeOK'
      BY <1>10 DEF WorkerFinishesArm, StillCurrent, commandVars
    <2>2. TypeOK'
      BY <2>1, <1>10, ArmRequestType DEF WorkerFinishesArm, StillCurrent,
          commandVars, AuthStatus, WorkerSteps, CommandSteps
    <2>3. ServiceInv'
      BY <1>10, ArmRequestType DEF WorkerFinishesArm, StillCurrent, Deadline,
          commandVars
    <2> QED
      BY <2>2, <2>3 DEF IInv
  <1>11. CASE SpuriousWakeup
    <2>1. FlagsTypeOK'
      BY <1>11 DEF SpuriousWakeup, stateVars, commandVars
    <2>2. TypeOK'
      BY <2>1, <1>11, ArmRequestType DEF SpuriousWakeup, stateVars,
          commandVars, AuthStatus, WorkerSteps, CommandSteps
    <2>3. ServiceInv'
      BY <1>11, ArmRequestType DEF SpuriousWakeup, Deadline, stateVars,
          commandVars
    <2> QED
      BY <2>2, <2>3 DEF IInv
  <1> QED
    BY <1>1, <1>2, <1>3, <1>4, <1>5, <1>6, <1>7, <1>8, <1>9, <1>10, <1>11 DEF Worker

(* A command takes the gate.                                               *)
LEMMA StartKeepsIInv == IInv /\ StartCommand => IInv'
  <1> SUFFICES ASSUME IInv, StartCommand PROVE IInv'
    OBVIOUS
  <1> USE AutoLockAssumption DEF IInv, TypeOK, StateTypeOK, WorkerTypeOK,
          CommandTypeOK, FlagsTypeOK, ServiceInv, GateInv, InFlightInv, PendingInv,
          TakenInv, ReadInv, CommandInv, CoveredInv, ArmedOnlyWhileUnlocked,
          NoMissedWakeup, One
  <1>1. CASE CreateMasterPassword
    <2>1. FlagsTypeOK'
      BY <1>1 DEF CreateMasterPassword, AuthOnly, stateVars, workerVars,
          commandVars
    <2>2. TypeOK'
      BY <2>1, <1>1, ArmRequestType DEF CreateMasterPassword, AuthOnly,
          stateVars, workerVars, commandVars, AuthStatus, WorkerSteps,
          CommandSteps
    <2>3. ServiceInv'
      BY <1>1, ArmRequestType DEF CreateMasterPassword, AuthOnly, Deadline,
          stateVars, workerVars, commandVars
    <2> QED
      BY <2>2, <2>3 DEF IInv
  <1>2. CASE RecoverMasterPassword
    <2>1. FlagsTypeOK'
      BY <1>2 DEF RecoverMasterPassword, AuthOnly, stateVars, workerVars,
          commandVars
    <2>2. TypeOK'
      BY <2>1, <1>2, ArmRequestType DEF RecoverMasterPassword, AuthOnly,
          stateVars, workerVars, commandVars, AuthStatus, WorkerSteps,
          CommandSteps
    <2>3. ServiceInv'
      BY <1>2, ArmRequestType DEF RecoverMasterPassword, AuthOnly, Deadline,
          stateVars, workerVars, commandVars
    <2> QED
      BY <2>2, <2>3 DEF IInv
  <1>3. CASE Unlock
    <2>1. FlagsTypeOK'
      BY <1>3 DEF Unlock, Takes, stateVars, workerVars
    <2>2. TypeOK'
      BY <2>1, <1>3, ArmRequestType DEF Unlock, Takes, stateVars, workerVars,
          AuthStatus, WorkerSteps, CommandSteps
    <2>3. ServiceInv'
      BY <1>3, ArmRequestType DEF Unlock, Takes, Deadline, stateVars,
          workerVars
    <2> QED
      BY <2>2, <2>3 DEF IInv
  <1>4. CASE UnlockFindsBadProfile
    <2>1. FlagsTypeOK'
      BY <1>4 DEF UnlockFindsBadProfile, AuthOnly, stateVars, workerVars,
          commandVars
    <2>2. TypeOK'
      BY <2>1, <1>4, ArmRequestType DEF UnlockFindsBadProfile, AuthOnly,
          stateVars, workerVars, commandVars, AuthStatus, WorkerSteps,
          CommandSteps
    <2>3. ServiceInv'
      BY <1>4, ArmRequestType DEF UnlockFindsBadProfile, AuthOnly, Deadline,
          stateVars, workerVars, commandVars
    <2> QED
      BY <2>2, <2>3 DEF IInv
  <1>5. CASE CompleteRecoveryKeyDisplay
    <2>1. FlagsTypeOK'
      BY <1>5 DEF CompleteRecoveryKeyDisplay, Takes, stateVars, workerVars
    <2>2. TypeOK'
      BY <2>1, <1>5, ArmRequestType DEF CompleteRecoveryKeyDisplay, Takes,
          stateVars, workerVars, AuthStatus, WorkerSteps, CommandSteps
    <2>3. ServiceInv'
      BY <1>5, ArmRequestType DEF CompleteRecoveryKeyDisplay, Takes, Deadline,
          stateVars, workerVars
    <2> QED
      BY <2>2, <2>3 DEF IInv
  <1>6. CASE RegenerateRecoveryKey
    <2>1. FlagsTypeOK'
      BY <1>6 DEF RegenerateRecoveryKey, Takes, stateVars, workerVars
    <2>2. TypeOK'
      BY <2>1, <1>6, ArmRequestType DEF RegenerateRecoveryKey, Takes,
          stateVars, workerVars, AuthStatus, WorkerSteps, CommandSteps
    <2>3. ServiceInv'
      BY <1>6, ArmRequestType DEF RegenerateRecoveryKey, Takes, Deadline,
          stateVars, workerVars
    <2> QED
      BY <2>2, <2>3 DEF IInv
  <1>7. CASE RecordActivity
    <2>1. FlagsTypeOK'
      BY <1>7 DEF RecordActivity, Takes, stateVars, workerVars
    <2>2. TypeOK'
      BY <2>1, <1>7, ArmRequestType DEF RecordActivity, Takes, stateVars,
          workerVars, AuthStatus, WorkerSteps, CommandSteps
    <2>3. ServiceInv'
      BY <1>7, ArmRequestType DEF RecordActivity, Takes, Deadline, stateVars,
          workerVars
    <2> QED
      BY <2>2, <2>3 DEF IInv
  <1>8. ASSUME NEW seconds \in Timeouts, SetAutoLock(seconds)
        PROVE  IInv'
    <2>1. FlagsTypeOK'
      BY <1>8 DEF SetAutoLock, Takes, stateVars, workerVars
    <2>2. TypeOK'
      BY <2>1, <1>8, ArmRequestType DEF SetAutoLock, Takes, stateVars,
          workerVars, AuthStatus, WorkerSteps, CommandSteps
    <2>3. ServiceInv'
      BY <1>8, ArmRequestType DEF SetAutoLock, Takes, Deadline, stateVars,
          workerVars
    <2> QED
      BY <2>2, <2>3 DEF IInv
  <1>9. CASE Lock
    <2>1. FlagsTypeOK'
      BY <1>9 DEF Lock, Takes, stateVars, workerVars
    <2>2. TypeOK'
      BY <2>1, <1>9, ArmRequestType DEF Lock, Takes, stateVars, workerVars,
          AuthStatus, WorkerSteps, CommandSteps
    <2>3. ServiceInv'
      BY <1>9, ArmRequestType DEF Lock, Takes, Deadline, stateVars, workerVars
    <2> QED
      BY <2>2, <2>3 DEF IInv
  <1>10. CASE ResetKeyNest
    <2>1. FlagsTypeOK'
      BY <1>10 DEF ResetKeyNest, Takes, stateVars, workerVars
    <2>2. TypeOK'
      BY <2>1, <1>10, ArmRequestType DEF ResetKeyNest, Takes, stateVars,
          workerVars, AuthStatus, WorkerSteps, CommandSteps
    <2>3. ServiceInv'
      BY <1>10, ArmRequestType DEF ResetKeyNest, Takes, Deadline, stateVars,
          workerVars
    <2> QED
      BY <2>2, <2>3 DEF IInv
  <1> QED
    BY <1>1, <1>2, <1>3, <1>4, <1>5, <1>6, <1>7, <1>8, <1>9, <1>10 DEF StartCommand

(* The AutoLockService calls of the command that holds the gate.           *)
LEMMA CommandKeepsIInv == IInv /\ CommandStep => IInv'
  <1> SUFFICES ASSUME IInv, CommandStep PROVE IInv'
    OBVIOUS
  <1> USE AutoLockAssumption DEF IInv, TypeOK, StateTypeOK, WorkerTypeOK,
          CommandTypeOK, FlagsTypeOK, ServiceInv, GateInv, InFlightInv, PendingInv,
          TakenInv, ReadInv, CommandInv, CoveredInv, ArmedOnlyWhileUnlocked,
          NoMissedWakeup, One
  <1>1. CASE BeginArm
    <2>1. FlagsTypeOK'
      BY <1>1 DEF BeginArm, NotifyAll, Finishes, stateVars
    <2>2. TypeOK'
      BY <2>1, <1>1, ArmRequestType DEF BeginArm, NotifyAll, Finishes,
          stateVars, AuthStatus, WorkerSteps, CommandSteps
    <2>3. ServiceInv'
      BY <1>1, ArmRequestType DEF BeginArm, NotifyAll, Finishes, Deadline,
          stateVars
    <2> QED
      BY <2>2, <2>3 DEF IInv
  <1>2. CASE ReadStatus
    <2>1. FlagsTypeOK'
      BY <1>2 DEF ReadStatus, stateVars, workerVars
    <2>2. TypeOK'
      BY <2>1, <1>2, ArmRequestType DEF ReadStatus, stateVars, workerVars,
          AuthStatus, WorkerSteps, CommandSteps
    <2>3. ServiceInv'
      BY <1>2, ArmRequestType DEF ReadStatus, Deadline, stateVars, workerVars
    <2> QED
      BY <2>2, <2>3 DEF IInv
  <1>3. CASE FinishArm
    <2>1. FlagsTypeOK'
      BY <1>3 DEF FinishArm, StillCurrent, NotifyAll, Finishes
    <2>2. TypeOK'
      BY <2>1, <1>3, ArmRequestType DEF FinishArm, StillCurrent, NotifyAll,
          Finishes, AuthStatus, WorkerSteps, CommandSteps
    <2>3. /\ locks_in_flight = 0
          /\ status = "Unlocked"
          /\ gate = "command"
          /\ ~armed
          /\ pending_arm = NoRequest
          /\ cRequest \in OptionalRequests \ { NoRequest }
          /\ cRequest.epoch = epoch
          /\ cRequest.at = cAt
          /\ worker \in { "status", "finish" } => wRequest.epoch # epoch
      BY <1>3 DEF FinishArm
    <2>4. cUnlocked
      BY <1>3 DEF FinishArm
    <2>5. shutdown => ServiceInv'
      <3> SUFFICES ASSUME shutdown PROVE ServiceInv'
        OBVIOUS
      <3>1. /\ UNCHANGED << armed, last_activity, pending_arm, worker >>
            /\ UNCHANGED << now, status, shutdown, epoch, locks_in_flight, timeout,
                            wakeAt, wRequest, wUnlocked, cAt, keyOnDisplay >>
            /\ command' = "none"
            /\ gate' = "free"
        BY <1>3 DEF FinishArm, Finishes, StillCurrent
      <3> QED
        BY <3>1, <2>3 DEF Deadline
    <2>6. ~shutdown => ServiceInv'
      <3> SUFFICES ASSUME ~shutdown PROVE ServiceInv'
        OBVIOUS
      <3>1. /\ armed' = TRUE
            /\ last_activity' = cAt
        BY <2>3, <2>4, <1>3 DEF FinishArm, StillCurrent
      <3>2. /\ pending_arm' = NoRequest
            /\ command' = "none"
            /\ gate' = "free"
            /\ worker' = IF worker \in { "idle", "sleep" } THEN "check" ELSE worker
            /\ UNCHANGED << now, status, shutdown, epoch, locks_in_flight, timeout,
                            wakeAt, wRequest, wUnlocked, cAt, keyOnDisplay >>
        BY <2>3, <1>3 DEF FinishArm, Finishes, StillCurrent, NotifyAll
      <3>3. GateInv'
        BY <3>1, <3>2, <2>3, ArmRequestType
      <3>4. InFlightInv'
        BY <3>1, <3>2, <2>3, ArmRequestType
      <3>5. PendingInv'
        BY <3>1, <3>2, <2>3, ArmRequestType
      <3>6. TakenInv'
        BY <3>1, <3>2, <2>3, ArmRequestType
      <3>7. ReadInv'
        BY <3>1, <3>2, <2>3, ArmRequestType
      <3>8. CommandInv'
        BY <3>1, <3>2, <2>3, ArmRequestType
      <3>9. CoveredInv'
        BY <3>1, <3>2, <2>3, ArmRequestType
      <3>10. ArmedOnlyWhileUnlocked'
        BY <3>1, <3>2, <2>3, ArmRequestType
      <3>11. NoMissedWakeup'
        BY <3>1, <3>2, <2>3, ArmRequestType DEF Deadline
      <3> QED
        BY <3>3, <3>4, <3>5, <3>6, <3>7, <3>8, <3>9, <3>10, <3>11
    <2>7. ServiceInv'
      BY <2>5, <2>6
    <2> QED
      BY <2>2, <2>7 DEF IInv
  <1>4. CASE Disarm
    <2>1. FlagsTypeOK'
      BY <1>4 DEF Disarm, NotifyAll, Finishes
    <2>2. TypeOK'
      BY <2>1, <1>4, ArmRequestType DEF Disarm, NotifyAll, Finishes,
          AuthStatus, WorkerSteps, CommandSteps
    <2>3. ServiceInv'
      BY <1>4, ArmRequestType DEF Disarm, NotifyAll, Finishes, Deadline
    <2> QED
      BY <2>2, <2>3 DEF IInv
  <1>5. CASE StoreActivity
    <2>1. FlagsTypeOK'
      BY <1>5 DEF StoreActivity, NotifyAll, Finishes
    <2>2. TypeOK'
      BY <2>1, <1>5, ArmRequestType DEF StoreActivity, NotifyAll, Finishes,
          AuthStatus, WorkerSteps, CommandSteps
    <2>3. ServiceInv'
      BY <1>5, ArmRequestType DEF StoreActivity, NotifyAll, Finishes, Deadline
    <2> QED
      BY <2>2, <2>3 DEF IInv
  <1>6. CASE SetTimeout
    <2>1. FlagsTypeOK'
      BY <1>6 DEF SetTimeout, BeginLock, NotifyAll, Finishes
    <2>2. TypeOK'
      BY <2>1, <1>6, ArmRequestType DEF SetTimeout, BeginLock, NotifyAll,
          Finishes, AuthStatus, WorkerSteps, CommandSteps
    <2>3. ServiceInv'
      BY <1>6, ArmRequestType DEF SetTimeout, BeginLock, NotifyAll, Finishes,
          Deadline
    <2> QED
      BY <2>2, <2>3 DEF IInv
  <1>7. CASE BeginExplicitLock
    <2>1. FlagsTypeOK'
      BY <1>7 DEF BeginExplicitLock, BeginLock, NotifyAll
    <2>2. TypeOK'
      BY <2>1, <1>7, ArmRequestType DEF BeginExplicitLock, BeginLock,
          NotifyAll, AuthStatus, WorkerSteps, CommandSteps
    <2>3. ServiceInv'
      BY <1>7, ArmRequestType DEF BeginExplicitLock, BeginLock, NotifyAll,
          Deadline
    <2> QED
      BY <2>2, <2>3 DEF IInv
  <1>8. CASE LockUnderGuard
    <2>1. FlagsTypeOK'
      BY <1>8 DEF LockUnderGuard, LockSession, stateVars, workerVars
    <2>2. TypeOK'
      BY <2>1, <1>8, ArmRequestType DEF LockUnderGuard, LockSession,
          stateVars, workerVars, AuthStatus, WorkerSteps, CommandSteps
    <2>3. ServiceInv'
      BY <1>8, ArmRequestType DEF LockUnderGuard, LockSession, Deadline,
          stateVars, workerVars
    <2> QED
      BY <2>2, <2>3 DEF IInv
  <1>9. CASE Reconcile
    <2>1. FlagsTypeOK'
      BY <1>9 DEF Reconcile, InFlightAfter, LeavesPending, TakenOver,
          RetireLock, NotifyAll, Finishes
    <2>2. TypeOK'
      BY <2>1, <1>9, ArmRequestType DEF Reconcile, InFlightAfter,
          LeavesPending, TakenOver, RetireLock, NotifyAll, Finishes,
          AuthStatus, WorkerSteps, CommandSteps
    <2>3. ServiceInv'
      BY <1>9, ArmRequestType DEF Reconcile, InFlightAfter, LeavesPending,
          TakenOver, RetireLock, NotifyAll, Finishes, Deadline
    <2> QED
      BY <2>2, <2>3 DEF IInv
  <1> QED
    BY <1>1, <1>2, <1>3, <1>4, <1>5, <1>6, <1>7, <1>8, <1>9 DEF CommandStep

(* Shutdown and the passing of time.                                       *)
LEMMA EnvironmentKeepsIInv == IInv /\ (RequestShutdown \/ Tick) => IInv'
  <1> SUFFICES ASSUME IInv, RequestShutdown \/ Tick PROVE IInv'
    OBVIOUS
  <1> USE AutoLockAssumption DEF IInv, TypeOK, StateTypeOK, WorkerTypeOK,
          CommandTypeOK, FlagsTypeOK, ServiceInv, GateInv, InFlightInv, PendingInv,
          TakenInv, ReadInv, CommandInv, CoveredInv, ArmedOnlyWhileUnlocked,
          NoMissedWakeup, One
  <1>1. CASE RequestShutdown
    <2>1. FlagsTypeOK'
      BY <1>1 DEF RequestShutdown, NotifyAll, commandVars
    <2>2. TypeOK'
      BY <2>1, <1>1, ArmRequestType DEF RequestShutdown, NotifyAll,
          commandVars, AuthStatus, WorkerSteps, CommandSteps
    <2>3. ServiceInv'
      BY <1>1, ArmRequestType DEF RequestShutdown, NotifyAll, Deadline,
          commandVars
    <2> QED
      BY <2>2, <2>3 DEF IInv
  <1>2. CASE Tick
    <2>1. FlagsTypeOK'
      BY <1>2 DEF Tick, stateVars, workerVars, commandVars
    <2>2. TypeOK'
      BY <2>1, <1>2, ArmRequestType DEF Tick, stateVars, workerVars,
          commandVars, AuthStatus, WorkerSteps, CommandSteps
    <2>3. ServiceInv'
      BY <1>2, ArmRequestType DEF Tick, Deadline, stateVars, workerVars,
          commandVars
    <2> QED
      BY <2>2, <2>3 DEF IInv
  <1> QED
    BY <1>1, <1>2

(* Every step of the system preserves the invariant.                       *)
LEMMA NextKeepsIInv == IInv /\ [Next]_vars => IInv'
  <1> SUFFICES ASSUME IInv, [Next]_vars PROVE IInv'
    OBVIOUS
  <1>1. CASE Worker \/ SpuriousWakeup
    BY <1>1, WorkerKeepsIInv
  <1>2. CASE StartCommand
    BY <1>2, StartKeepsIInv
  <1>3. CASE CommandStep
    BY <1>3, CommandKeepsIInv
  <1>4. CASE RequestShutdown \/ Tick
    BY <1>4, EnvironmentKeepsIInv
  <1>5. CASE UNCHANGED vars
    <2>1. FlagsTypeOK'
      BY <1>5 DEF IInv, TypeOK, FlagsTypeOK, vars, stateVars, workerVars, commandVars
    <2>2. TypeOK'
      BY <2>1, <1>5 DEF IInv, TypeOK, StateTypeOK, WorkerTypeOK, CommandTypeOK, vars,
                        stateVars, workerVars, commandVars
    <2>3. ServiceInv'
      BY <1>5 DEF IInv, ServiceInv, GateInv, InFlightInv, PendingInv, TakenInv,
                  ReadInv, CommandInv, CoveredInv, ArmedOnlyWhileUnlocked,
                  NoMissedWakeup, One, Deadline, vars, stateVars, workerVars,
                  commandVars
    <2> QED
      BY <2>2, <2>3 DEF IInv
  <1> QED
    BY <1>1, <1>2, <1>3, <1>4, <1>5 DEF Next

(* The inductive invariant holds in every reachable state.                 *)
THEOREM InductiveInvariant == Spec => []IInv
  BY InitIInv, NextKeepsIInv, PTL DEF Spec

(* Every variable keeps its type.                                          *)
THEOREM TypeCorrect == Spec => []TypeOK
  <1>1. IInv => TypeOK
    BY DEF IInv
  <1> QED
    BY <1>1, InductiveInvariant, PTL

(* The idle timer runs only over an unlocked session.                      *)
THEOREM ArmedSafely == Spec => []ArmedOnlyWhileUnlocked
  <1>1. IInv => ArmedOnlyWhileUnlocked
    BY DEF IInv, ServiceInv
  <1> QED
    BY <1>1, InductiveInvariant, PTL

(* No interleaving loses the arming of an unlocked session.                *)
THEOREM NoArmIsLost == Spec => []UnlockedSessionIsCovered
  <1>1. IInv => UnlockedSessionIsCovered
    BY DEF IInv, ServiceInv, GateInv, CoveredInv, ReadInv, UnlockedSessionIsCovered
  <1> QED
    BY <1>1, InductiveInvariant, PTL

(* The worker never sleeps past the deadline or through shutdown.          *)
THEOREM NoWakeupIsMissed == Spec => []NoMissedWakeup
  <1>1. IInv => NoMissedWakeup
    BY DEF IInv, ServiceInv
  <1> QED
    BY <1>1, InductiveInvariant, PTL

(* Only these actions write last_activity, and the epoch makes the late    *)
(* ones harmless.                                                          *)
LEMMA StepNeverRewinds == IInv /\ [Next]_vars => last_activity' >= last_activity
  <1> SUFFICES ASSUME IInv, [Next]_vars PROVE last_activity' >= last_activity
    OBVIOUS
  <1> USE DEF IInv, TypeOK, StateTypeOK
  <1>1. CASE WorkerFinishesArm
    BY <1>1, ArmRequestType
    DEF WorkerFinishesArm, StillCurrent, ServiceInv, TakenInv, WorkerTypeOK
  <1>2. CASE FinishArm
    <2>1. /\ cRequest.at = cAt
          /\ last_activity <= cAt
          /\ cAt \in Nat
      BY <1>2 DEF FinishArm, ServiceInv, CommandInv, CommandTypeOK
    <2>2. last_activity' \in { last_activity, cRequest.at }
      BY <1>2 DEF FinishArm
    <2> QED
      BY <2>1, <2>2
  <1>3. CASE StoreActivity
    BY <1>3 DEF StoreActivity, ServiceInv, CommandInv, CommandTypeOK
  <1>4. CASE UNCHANGED last_activity
    BY <1>4
  <1> QED
    BY <1>1, <1>2, <1>3, <1>4
    DEF Next, Worker, WorkerStops, WorkerIdles, WorkerSleeps, WorkerExpires,
        WorkerTimesOut, WorkerLocks, WorkerReleasesGate, WorkerRetiresLock,
        RetireLock, WorkerReadsStatus, SpuriousWakeup, StartCommand, AuthOnly, Takes,
        CreateMasterPassword, RecoverMasterPassword, Unlock, UnlockFindsBadProfile,
        CompleteRecoveryKeyDisplay, RegenerateRecoveryKey, RecordActivity,
        SetAutoLock, Lock, ResetKeyNest, CommandStep, BeginArm, ReadStatus, Disarm,
        SetTimeout, BeginExplicitLock, LockUnderGuard, Reconcile, RequestShutdown,
        Tick, vars, stateVars

(* A late or deferred arm never rewinds the idle timer.                    *)
THEOREM NoRewind == Spec => ActivityNeverRewinds
  <1>1. IInv /\ [Next]_vars => [last_activity' >= last_activity]_vars
    BY StepNeverRewinds
  <1> QED
    BY <1>1, InductiveInvariant, PTL DEF Spec, ActivityNeverRewinds
=============================================================================
