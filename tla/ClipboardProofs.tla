--------------------------- MODULE ClipboardProofs ---------------------------
(***************************************************************************)
(* Proofs about Clipboard for any texts, delays and generations: a secret  *)
(* that KeyNest wrote is accounted for as long as it is on the clipboard,  *)
(* a lock that has returned leaves none there, an expiry thread clears no  *)
(* copy before its time, and nobody clears a newer copy than the one that  *)
(* was taken over.                                                         *)
(*                                                                         *)
(* The invariant says who may be where at the same time: the port gate is  *)
(* held by exactly the command, expiry thread or cleanup that is inside,   *)
(* and while a clearing is under way nothing is owned.  The generations    *)
(* tie an expiry thread, and whatever is cleared, to one copy.             *)
(***************************************************************************)
EXTENDS Clipboard, TLAPS

HasGeneration == { "write", "own", "schedule", "expire" }

Types ==
    /\ next_generation \in Generations
    /\ owned \in Owned \cup { Nothing }
    /\ command \in CommandSteps
    /\ command \in { "claim", "write", "own" } => cValue \in Texts
    /\ command \in HasGeneration => cGeneration \in Generations

(* Who is inside the port gate, and what is owned meanwhile.               *)
Gate ==
    /\ portGate \in { "free", "command", "job", "cleanup" }
    /\ portGate = "command" <=> command \in { "write", "own", "clear" }
    /\ clearing # "no" <=> portGate \in { "job", "cleanup" } \/ command = "clear"
    /\ clearing # "no" => owned = Nothing
    /\ clearing = "clear" => ~atomicPort

(* Without a session, only a lock is under way.                            *)
OnlyLocks == ~unlocked => command \in { "none", "clearOwned", "clear" }

(* SecretIsAccountedFor without OwnedHasExpiry.                            *)
Accounted ==
    writer # 0 =>
        \/ abandoned = writer
        \/ OwnsGeneration(writer) /\ owned.value = text
        \/ command = "own" /\ cGeneration = writer
        \/ clearing # "no" /\ expected = [generation |-> writer, value |-> text]

(* A secret that KeyNest wrote is of the generation that is owned, or that *)
(* is being cleared: only while a copy is written and not yet owned it is  *)
(* of a newer one, and then nobody else has the port gate.                 *)
NewestIsTheirs ==
    /\ (owned # Nothing /\ command # "own") => writer \in { 0, owned.generation }
    /\ clearing # "no" => writer \in { 0, expected.generation }

(* Between the write and the ownership the clipboard holds the secret,     *)
(* unless somebody else has written.                                       *)
WrittenIsThere ==
    command = "own" => writer = 0 \/ (writer = cGeneration /\ text = cValue)

Times ==
    /\ keepFor \in Nat
    /\ timeout \in Nat
    /\ cDelay \in Nat
    /\ \A job \in jobs : job \in [generation : Nat, remaining : Nat]

(* Every thread is older than the copy that is being made.                 *)
JobsAreOlder ==
    /\ \A job \in jobs : job.generation < next_generation
    /\ command \in { "write", "own", "schedule" } =>
          /\ cGeneration < next_generation
          /\ \A job \in jobs : job.generation < cGeneration

(* The thread of what is owned sleeps as long as the copy is to stay.      *)
JobsWait ==
    /\ owned # Nothing =>
          \A job \in jobs : job.generation = owned.generation => keepFor <= job.remaining
    /\ command = "schedule" => keepFor <= cDelay
    /\ portGate = "job" => keepFor = 0

IInv ==
    /\ Types
    /\ Gate
    /\ OnlyLocks
    /\ OwnedHasExpiry
    /\ Accounted
    /\ NewestIsTheirs
    /\ WrittenIsThere
    /\ LockedSessionLeavesNoSecret
    /\ Times
    /\ JobsAreOlder
    /\ JobsWait

USE DEF vars, osVars, stateVars, portVars, commandVars, exitVars

(* Steps that touch none of it.                                            *)
LEMMA QuietInv ==
  ASSUME IInv, PortHangs \/ ExitRequested \/ DeadlinePasses \/ CleanupCompletes \/ UNCHANGED vars
  PROVE  IInv'
  BY ClipboardAssumption, OwnedAssumption DEF IInv, PortHangs, ExitRequested,
     DeadlinePasses, CleanupCompletes, Types, CommandSteps, HasGeneration,
     Generations, Gate, OnlyLocks, OwnedHasExpiry, Accounted, NewestIsTheirs, OwnsGeneration,
     WrittenIsThere, LockedSessionLeavesNoSecret, Times, JobsAreOlder, JobsWait

LEMMA ForeignInv ==
  ASSUME IInv, ForeignWrite
  PROVE  IInv'
  BY ClipboardAssumption, OwnedAssumption DEF IInv, ForeignWrite, Leaves,
     Types, CommandSteps, HasGeneration, Generations, Gate, OnlyLocks,
     OwnedHasExpiry, Accounted, NewestIsTheirs, OwnsGeneration, WrittenIsThere,
     LockedSessionLeavesNoSecret, Times, JobsAreOlder, JobsWait

LEMMA StartInv ==
  ASSUME IInv, StartCommand
  PROVE  IInv'
  BY ClipboardAssumption, OwnedAssumption DEF IInv, StartCommand, Unlock,
     Lock, SetTimeout, CopySecret, Idle, Types, CommandSteps, HasGeneration,
     Generations, Gate, OnlyLocks, OwnedHasExpiry, Accounted, NewestIsTheirs, OwnsGeneration,
     WrittenIsThere, LockedSessionLeavesNoSecret, Times, ClipboardAssumption,
     JobsAreOlder, JobsWait

LEMMA ClaimExhaustedInv ==
  ASSUME IInv, ClaimExhausted
  PROVE  IInv'
  BY ClipboardAssumption, OwnedAssumption DEF IInv, ClaimExhausted, CanClaim,
     Types, CommandSteps, HasGeneration, Generations, Gate, OnlyLocks,
     OwnedHasExpiry, Accounted, NewestIsTheirs, OwnsGeneration, WrittenIsThere,
     LockedSessionLeavesNoSecret, Times, JobsAreOlder, JobsWait

(* A generation is claimed once, so every thread is older.                 *)
LEMMA ClaimGenerationInv ==
  ASSUME IInv, ClaimGeneration
  PROVE  IInv'
  <1>. USE DEF IInv
  <1>1. Gate'
    BY DEF ClaimGeneration, CanClaim, Gate, Types, CommandSteps
  <1>2. JobsAreOlder'
    BY ClipboardAssumption DEF ClaimGeneration, CanClaim, JobsAreOlder, Types,
       Generations, Times
  <1>3. /\ Types' /\ OnlyLocks' /\ OwnedHasExpiry' /\ Accounted' /\ NewestIsTheirs'
        /\ WrittenIsThere' /\ LockedSessionLeavesNoSecret' /\ Times'
        /\ JobsWait'
    BY ClipboardAssumption, OwnedAssumption DEF ClaimGeneration, CanClaim,
       Types, CommandSteps, HasGeneration, Generations, OnlyLocks,
       OwnedHasExpiry, Accounted, NewestIsTheirs, Gate, OwnsGeneration, WrittenIsThere,
       LockedSessionLeavesNoSecret, Times, JobsWait
  <1>. QED
    BY <1>1, <1>2, <1>3

(* From here to the ownership the copying command answers for the text.    *)
LEMMA WriteTextInv ==
  ASSUME IInv, WriteText
  PROVE  IInv'
  <1>. USE DEF IInv
  <1>1. Accounted'
    BY DEF WriteText, Leaves, Accounted, Gate, OwnsGeneration
  <1>2. WrittenIsThere'
    BY DEF WriteText, Leaves, WrittenIsThere
  <1>3. /\ Types' /\ Gate' /\ OnlyLocks' /\ OwnedHasExpiry' /\ NewestIsTheirs'
        /\ LockedSessionLeavesNoSecret' /\ Times' /\ JobsAreOlder'
        /\ JobsWait'
    BY ClipboardAssumption, OwnedAssumption DEF WriteText, Leaves, Types,
       CommandSteps, HasGeneration, Generations, Gate, OnlyLocks, OwnedHasExpiry,
       NewestIsTheirs,
       LockedSessionLeavesNoSecret, Times, JobsAreOlder, JobsWait
  <1>. QED
    BY <1>1, <1>2, <1>3

LEMMA WriteFailsInv ==
  ASSUME IInv, WriteFails
  PROVE  IInv'
  BY ClipboardAssumption, OwnedAssumption DEF IInv, WriteFails, Leaves, Types,
     CommandSteps, HasGeneration, Generations, Gate, OnlyLocks, OwnedHasExpiry,
     Accounted, NewestIsTheirs, OwnsGeneration, WrittenIsThere, LockedSessionLeavesNoSecret,
     Times, JobsAreOlder, JobsWait

LEMMA OwnSecretInv ==
  ASSUME IInv, OwnSecret
  PROVE  IInv'
  <1>. USE DEF IInv
  <1>1. Types'
    <2>1. owned' \in Owned /\ owned' # Nothing
      BY OwnedAssumption DEF OwnSecret, Types, HasGeneration, Owned
    <2>. QED
      BY <2>1 DEF OwnSecret, Types, CommandSteps, HasGeneration, stateVars, commandVars
  <1>2. Accounted'
    <2>1. owned' \in Owned /\ owned' # Nothing
      BY OwnedAssumption DEF OwnSecret, Types, HasGeneration, Owned
    <2>2. owned'.generation = cGeneration /\ owned'.value = cValue
      BY DEF OwnSecret
    <2>3. clearing = "no"
      BY DEF OwnSecret, Gate
    <2>. QED
      BY <2>1, <2>2, <2>3
      DEF OwnSecret, Accounted, WrittenIsThere, OwnsGeneration, osVars
  <1>3. JobsWait'
    <2>1. owned'.generation = cGeneration /\ command' = "schedule" /\ jobs' = jobs
          /\ keepFor' = cDelay' /\ keepFor' \in Nat /\ portGate' = "free"
      BY DEF OwnSecret, Times
    <2>2. \A job \in jobs : job.generation # cGeneration
      BY DEF OwnSecret, JobsAreOlder, Types, HasGeneration, Generations, Times
    <2>. QED
      BY <2>1, <2>2 DEF JobsWait
  <1>4. /\ Gate' /\ OnlyLocks' /\ OwnedHasExpiry' /\ WrittenIsThere'
        /\ LockedSessionLeavesNoSecret' /\ Times' /\ JobsAreOlder'
    BY DEF OwnSecret, Gate, Types, CommandSteps, OnlyLocks, OwnedHasExpiry,
       WrittenIsThere, LockedSessionLeavesNoSecret, Times, JobsAreOlder,
       Generations
  <1>5. NewestIsTheirs'
    <2>1. owned' # Nothing => owned'.generation = cGeneration
      BY DEF OwnSecret
    <2>2. clearing = "no"
      BY DEF OwnSecret, Gate
    <2>. QED
      BY <2>1, <2>2 DEF OwnSecret, NewestIsTheirs, WrittenIsThere
  <1>. QED
    BY <1>1, <1>2, <1>3, <1>4, <1>5

LEMMA ScheduleExpiryInv ==
  ASSUME IInv, ScheduleExpiry
  PROVE  IInv'
  <1>. USE DEF IInv
  <1>1. OwnedHasExpiry'
    <2>1. [generation |-> cGeneration, remaining |-> cDelay] \in jobs' /\ jobs \subseteq jobs'
      BY DEF ScheduleExpiry
    <2>. QED
      BY <2>1 DEF ScheduleExpiry, OwnedHasExpiry, stateVars, commandVars
  <1>2. Times'
    <2>1. [generation |-> cGeneration, remaining |-> cDelay] \in [generation : Nat, remaining : Nat]
      BY ClipboardAssumption DEF ScheduleExpiry, Types, Times, HasGeneration, Generations
    <2>. QED
      BY <2>1 DEF ScheduleExpiry, Times, stateVars
  <1>3. /\ Types' /\ Gate' /\ OnlyLocks' /\ Accounted' /\ NewestIsTheirs' /\ WrittenIsThere'
        /\ LockedSessionLeavesNoSecret' /\ JobsAreOlder' /\ JobsWait'
    BY ClipboardAssumption, OwnedAssumption DEF ScheduleExpiry, Types,
       CommandSteps, HasGeneration, Generations, Gate, OnlyLocks, Accounted, NewestIsTheirs,
       OwnsGeneration, WrittenIsThere, LockedSessionLeavesNoSecret, JobsAreOlder,
       JobsWait
  <1>. QED
    BY <1>1, <1>2, <1>3

LEMMA ScheduleFailsInv ==
  ASSUME IInv, ScheduleFails
  PROVE  IInv'
  BY ClipboardAssumption, OwnedAssumption DEF IInv, ScheduleFails, Types,
     CommandSteps, HasGeneration, Generations, Gate, OnlyLocks, OwnedHasExpiry,
     Accounted, NewestIsTheirs, OwnsGeneration, WrittenIsThere, LockedSessionLeavesNoSecret,
     Times, JobsAreOlder, JobsWait

(* What is taken over is the copy and the generation that were owned.      *)
LEMMA TakenIsWhole ==
  ASSUME IInv, NEW n, OwnsGeneration(n)
  PROVE  owned = [generation |-> n, value |-> owned.value]
  <1>1. owned \in Owned /\ owned.generation = n
    BY DEF IInv, Types, OwnsGeneration
  <1>. QED
    BY <1>1 DEF Owned

(* The free port gate shows a lock that nobody is still comparing a secret.*)
LEMMA CommandClearsInv ==
  ASSUME IInv, CommandClears
  PROVE  IInv'
  <1>. USE DEF IInv
  <1>1. OwnedHasExpiry'
    BY DEF CommandClears, TakeOwned, LeaveOwned, OwnsGeneration,
       OwnedHasExpiry
  <1>2. Accounted'
    BY TakenIsWhole DEF CommandClears, TakeOwned, LeaveOwned, OwnsGeneration, Accounted, Gate
  <1>3. LockedSessionLeavesNoSecret'
    BY DEF CommandClears, TakeOwned, LeaveOwned, OwnsGeneration,
       LockedSessionLeavesNoSecret, OnlyLocks, Accounted, Gate
  <1>4. /\ Types' /\ Gate' /\ OnlyLocks' /\ WrittenIsThere' /\ Times'
        /\ JobsAreOlder' /\ JobsWait'
    BY ClipboardAssumption, OwnedAssumption DEF CommandClears, TakeOwned,
       LeaveOwned, OwnsGeneration, Types, CommandSteps, HasGeneration,
       Generations, Gate, OnlyLocks, WrittenIsThere, Times, JobsAreOlder,
       JobsWait
  <1>5. NewestIsTheirs'
    BY DEF CommandClears, TakeOwned, LeaveOwned, OwnsGeneration, NewestIsTheirs, Gate
  <1>. QED
    BY <1>1, <1>2, <1>3, <1>4, <1>5

(* Whatever the port answers, the secret is gone, foreign, or refused.     *)
LEMMA ReleaseInv ==
  ASSUME IInv, CompareAndClear \/ ReadChanged \/ ClearText \/ ClearFails
  PROVE  IInv'
  <1>. USE DEF IInv
  <1>1. Gate'
    BY DEF CompareAndClear, ReadChanged, ClearText, ClearFails, PortCall,
       Release, Leaves, Gate, Types, CommandSteps
  <1>2. Accounted'
    BY DEF CompareAndClear, ReadChanged, ClearText, ClearFails, PortCall,
       Release, Leaves, Accounted, Gate, OwnsGeneration
  <1>3. LockedSessionLeavesNoSecret'
    BY DEF CompareAndClear, ReadChanged, ClearText, ClearFails, PortCall,
       Release, Leaves, LockedSessionLeavesNoSecret, OnlyLocks, Accounted, Gate,
       OwnsGeneration
  <1>4. /\ Types' /\ OnlyLocks' /\ OwnedHasExpiry' /\ WrittenIsThere' /\ Times'
        /\ JobsAreOlder' /\ JobsWait'
    BY ClipboardAssumption, OwnedAssumption DEF CompareAndClear, ReadChanged,
       ClearText, ClearFails, PortCall, Release, Leaves, Types, CommandSteps,
       HasGeneration, Generations, OnlyLocks, OwnedHasExpiry, Gate,
       WrittenIsThere, Times, JobsAreOlder, JobsWait
  <1>5. NewestIsTheirs'
    BY DEF CompareAndClear, ReadChanged, ClearText, ClearFails, PortCall,
       Release, Leaves, NewestIsTheirs, Gate
  <1>. QED
    BY <1>1, <1>2, <1>3, <1>4, <1>5

LEMMA ReadMatchesInv ==
  ASSUME IInv, ReadMatches
  PROVE  IInv'
  BY ClipboardAssumption, OwnedAssumption DEF IInv, ReadMatches, PortCall,
     Types, CommandSteps, HasGeneration, Generations, Gate, OnlyLocks,
     OwnedHasExpiry, Accounted, NewestIsTheirs, OwnsGeneration, WrittenIsThere,
     LockedSessionLeavesNoSecret, Times, JobsAreOlder, JobsWait

(* The thread that takes the ownership has slept for as long as it had to. *)
LEMMA ExpireGenerationInv ==
  ASSUME IInv, ExpireGeneration
  PROVE  IInv'
  <1>. USE DEF IInv
  <1>1. OwnedHasExpiry'
    BY DEF ExpireGeneration, TakeOwned, LeaveOwned, OwnsGeneration,
       OwnedHasExpiry
  <1>2. Accounted'
    BY TakenIsWhole
    DEF ExpireGeneration, TakeOwned, LeaveOwned, OwnsGeneration, Accounted, Gate
  <1>3. JobsWait'
    BY DEF ExpireGeneration, TakeOwned, LeaveOwned, OwnsGeneration, JobsWait,
       Times
  <1>4. /\ Types' /\ Gate' /\ OnlyLocks' /\ WrittenIsThere'
        /\ LockedSessionLeavesNoSecret' /\ Times' /\ JobsAreOlder'
    BY ClipboardAssumption, OwnedAssumption DEF ExpireGeneration, TakeOwned,
       LeaveOwned, OwnsGeneration, Types, CommandSteps, HasGeneration,
       Generations, Gate, OnlyLocks, WrittenIsThere, LockedSessionLeavesNoSecret,
       Times, JobsAreOlder
  <1>5. NewestIsTheirs'
    BY DEF ExpireGeneration, TakeOwned, LeaveOwned, OwnsGeneration, NewestIsTheirs, Gate
  <1>. QED
    BY <1>1, <1>2, <1>3, <1>4, <1>5

(* A tick changes what the threads have left to sleep, and nothing else.   *)
LEMMA TickedJobs ==
  ASSUME IInv, Tick
  PROVE  /\ \A job \in jobs' : \E j \in jobs :
               job.generation = j.generation /\ job.remaining = Less(j.remaining)
         /\ \A j \in jobs : \E job \in jobs' : job.generation = j.generation
  <1>1. ASSUME NEW j \in jobs
        PROVE  /\ [j EXCEPT !.remaining = Less(j.remaining)].generation = j.generation
               /\ [j EXCEPT !.remaining = Less(j.remaining)].remaining = Less(j.remaining)
    <2>1. j \in [generation : Nat, remaining : Nat]
      BY DEF IInv, Times
    <2>. QED
      BY <2>1
  <1>2. jobs' = { [j EXCEPT !.remaining = Less(j.remaining)] : j \in jobs }
    BY DEF Tick
  <1>. QED
    BY <1>1, <1>2

LEMMA TickInv ==
  ASSUME IInv, Tick
  PROVE  IInv'
  <1>. USE DEF IInv
  <1>1. OwnedHasExpiry'
    <2>1. UNCHANGED << owned, command, cGeneration >>
      BY DEF Tick, stateVars, commandVars
    <2>2. \A j \in jobs : \E job \in jobs' : job.generation = j.generation
      BY TickedJobs
    <2>. QED
      BY <2>1, <2>2 DEF OwnedHasExpiry
  <1>2. JobsAreOlder'
    BY TickedJobs DEF Tick, JobsAreOlder, stateVars, commandVars
  <1>3. JobsWait'
    BY TickedJobs DEF Tick, JobsWait, Less, Times, stateVars, portVars, commandVars
  <1>4. /\ Types' /\ Gate' /\ OnlyLocks' /\ Accounted' /\ NewestIsTheirs' /\ WrittenIsThere'
        /\ LockedSessionLeavesNoSecret' /\ Times'
    BY ClipboardAssumption, OwnedAssumption DEF Tick, Less, Types,
       CommandSteps, HasGeneration, Generations, Gate, OnlyLocks, Accounted, NewestIsTheirs,
       OwnsGeneration, WrittenIsThere, LockedSessionLeavesNoSecret, Times
  <1>. QED
    BY <1>1, <1>2, <1>3, <1>4

LEMMA CleanupInv ==
  ASSUME IInv, CleanupTakes
  PROVE  IInv'
  <1>. USE DEF IInv
  <1>1. Accounted' /\ NewestIsTheirs'
    BY TakenIsWhole
    DEF CleanupTakes, TakeOwned, LeaveOwned, OwnsGeneration, Accounted, NewestIsTheirs, Gate
  <1>2. /\ Types' /\ Gate' /\ OnlyLocks' /\ OwnedHasExpiry' /\ WrittenIsThere'
        /\ LockedSessionLeavesNoSecret' /\ Times' /\ JobsAreOlder' /\ JobsWait'
    BY ClipboardAssumption, OwnedAssumption DEF CleanupTakes, TakeOwned,
       LeaveOwned, Types, CommandSteps, HasGeneration, Generations, Gate,
       OnlyLocks, OwnedHasExpiry, WrittenIsThere,
       LockedSessionLeavesNoSecret, Times, JobsAreOlder, JobsWait
  <1>. QED
    BY <1>1, <1>2

-----------------------------------------------------------------------------
LEMMA InitInv ==
  ASSUME Init
  PROVE  IInv
  <1>1. Types /\ Times
    BY ClipboardAssumption
    DEF Init, Types, Times, CommandSteps, HasGeneration, Generations
  <1>2. Gate /\ OnlyLocks /\ OwnedHasExpiry /\ Accounted /\ NewestIsTheirs /\ WrittenIsThere
    BY DEF Init, Gate, OnlyLocks, OwnedHasExpiry, Accounted, NewestIsTheirs, WrittenIsThere
  <1>3. LockedSessionLeavesNoSecret /\ JobsAreOlder /\ JobsWait
    BY DEF Init, LockedSessionLeavesNoSecret, JobsAreOlder, JobsWait
  <1>. QED
    BY <1>1, <1>2, <1>3 DEF IInv

LEMMA NextInv ==
  ASSUME IInv, [Next]_vars
  PROVE  IInv'
  BY QuietInv, ForeignInv, StartInv, ClaimExhaustedInv, ClaimGenerationInv, WriteTextInv,
     WriteFailsInv, OwnSecretInv, ScheduleExpiryInv, ScheduleFailsInv, CommandClearsInv,
     ReleaseInv, ReadMatchesInv, ExpireGenerationInv, TickInv, CleanupInv
  DEF Next, PortReturns, CommandStep, ExitStep

(* The invariant holds for any texts, delays and number of generations.    *)
THEOREM InductiveInvariant == Spec => []IInv
  BY InitInv, NextInv, PTL DEF Spec

(* A secret KeyNest wrote stays accounted for until it is gone, and what   *)
(* is owned has its expiry (write_expiring_secret and clear_owned_value in *)
(* security/clipboard.rs).                                                 *)
THEOREM NoSecretIsForgotten == Spec => []SecretIsAccountedFor
  <1>1. ASSUME IInv
        PROVE  SecretIsAccountedFor
    BY <1>1 DEF IInv, Accounted, SecretIsAccountedFor
  <1>. QED
    BY <1>1, InductiveInvariant, PTL

(* A lock that has returned has waited for the port gate and leaves no     *)
(* secret behind (security/locking.rs), unless the port refused.           *)
THEOREM LocksLeaveNoSecret == Spec => []LockedSessionLeavesNoSecret
  BY InductiveInvariant, PTL DEF IInv

(* Only the thread of the newest copy can clear it, and not before its     *)
(* time: older threads find another generation (expire_generation).        *)
THEOREM FreshCopiesAreKept == Spec => ExpiryKeepsFreshCopy
  <1>1. ASSUME IInv
        PROVE  [ (portGate = "job" /\ writer # 0 /\ text' = Nothing /\ portGate' = "free")
                   => keepFor = 0 ]_vars
    BY <1>1 DEF IInv, JobsWait
  <1>. QED
    BY <1>1, InductiveInvariant, PTL DEF ExpiryKeepsFreshCopy

(* What is cleared is the copy that was taken over, of any generation, by  *)
(* whichever thread and on any port: copies wait for the port gate         *)
(* (write_expiring_secret, clear_owned_value).                             *)
THEOREM NewerCopiesAreKept == Spec => NewerCopySurvives
  <1>1. ASSUME IInv
        PROVE  [ (clearing # "no" /\ clearing' = "no" /\ text' = Nothing /\ writer # 0)
                   => writer = expected.generation ]_vars
    BY <1>1 DEF IInv, NewestIsTheirs
  <1>. QED
    BY <1>1, InductiveInvariant, PTL DEF NewerCopySurvives

=============================================================================
