----------------------------- MODULE Clipboard -----------------------------
(***************************************************************************)
(* The clipboard service of KeyNest (security/clipboard.rs), the commands  *)
(* of ipc.rs that copy a secret through it, the cleanup of a session lock  *)
(* (security/locking.rs) and the cleanup at process exit (lib.rs).         *)
(*                                                                         *)
(* Four kinds of thread meet here.  A command, or the idle supervisor when *)
(* it locks, holds the operation gate from start to end, so there is one   *)
(* of them at a time.  Every copy leaves a thread asleep until its expiry. *)
(* At exit the event loop starts two more: the cleanup and its deadline.   *)
(* They share the state mutex, held for one step, and the port gate, held  *)
(* across the calls to the operating system.  Other applications write the *)
(* clipboard whenever they like.                                           *)
(***************************************************************************)
EXTENDS Naturals

CONSTANTS Texts,           (* what a clipboard may hold                     *)
          Secrets,         (* what KeyNest copies: others may have the same *)
          Nothing,         (* an empty clipboard; also Option::None         *)
          Delays,          (* the clearing delays the user may choose       *)
          LastGeneration   (* u64::MAX                                      *)

ASSUME ClipboardAssumption ==
    /\ Nothing \notin Texts
    /\ Secrets \subseteq Texts
    /\ Delays \subseteq Nat \ { 0 }
    /\ Delays # {}
    /\ LastGeneration \in Nat \ { 0 }

Generations == 1 .. LastGeneration

Owned == [generation : Generations, value : Texts]

ASSUME OwnedAssumption == Nothing \notin Owned

VARIABLES
    text, hung,                (* the clipboard; a port call never returns  *)
    writer,                    (* history: the generation that wrote text,  *)
                               (* 0 when KeyNest did not                    *)
    abandoned,                 (* history: the last generation whose        *)
                               (* clearing the operating system refused     *)
    keepFor,                   (* history: time the newest copy has left    *)
    next_generation, owned, timeout,              (* ClipboardState         *)
    portGate,                  (* the holder of port_gate                   *)
    clearing, expected,        (* progress of clear_if_matches, and what    *)
                               (* was owned when it began                   *)
    jobs,                      (* the sleeping expiry threads               *)
    unlocked,                  (* the session                               *)
    command, cValue, cGeneration, cDelay,   (* the thread with the          *)
                                            (* operation gate               *)
    process_exit_started, completed, finishes, deadlineJob, cleanupJob,
    exited,                    (* the exit protocol                         *)
    atomicPort                 (* the platform: does the port compare and   *)
                               (* clear in one clipboard session?           *)

osVars      == << text, hung, writer, abandoned >>
stateVars   == << next_generation, owned, timeout >>
portVars    == << portGate, clearing, expected >>
commandVars == << unlocked, command, cValue, cGeneration, cDelay >>
exitVars    == << process_exit_started, completed, finishes, deadlineJob,
                  cleanupJob, exited >>
vars == << osVars, keepFor, stateVars, portVars, jobs, commandVars, exitVars,
           atomicPort >>

CommandSteps == { "none", "claim", "write", "own", "schedule", "expire",
                  "clearOwned", "clear" }

Remaining == 0 .. CHOOSE d \in Delays : \A e \in Delays : e <= d

TypeOK ==
    /\ text \in Texts \cup { Nothing }
    /\ writer \in 0 .. LastGeneration
    /\ abandoned \in 0 .. LastGeneration
    /\ keepFor \in Remaining
    /\ next_generation \in Generations
    /\ owned \in Owned \cup { Nothing }
    /\ timeout \in Delays
    /\ portGate \in { "free", "command", "job", "cleanup" }
    /\ clearing \in { "no", "compare", "clear" }
    /\ expected \in Owned \cup { Nothing }
    /\ jobs \subseteq [generation : Generations, remaining : Remaining]
    /\ command \in CommandSteps
    /\ cValue \in Texts \cup { Nothing }
    /\ cGeneration \in 0 .. LastGeneration
    /\ cDelay \in Delays
    /\ finishes \in Nat
    /\ deadlineJob \in { "none", "pending", "done" }
    /\ cleanupJob \in { "none", "pending", "clearing", "complete", "done" }
    /\ { hung, unlocked, process_exit_started, completed, exited, atomicPort }
          \subseteq BOOLEAN

Init ==
    /\ text \in Texts \cup { Nothing }
    /\ hung = FALSE
    /\ writer = 0
    /\ abandoned = 0
    /\ keepFor = 0
    /\ next_generation = 1
    /\ owned = Nothing
    /\ timeout \in Delays
    /\ portGate = "free"
    /\ clearing = "no"
    /\ expected = Nothing
    /\ jobs = {}
    /\ unlocked = FALSE
    /\ command = "none"
    /\ cValue = Nothing
    /\ cGeneration = 0
    /\ cDelay = timeout
    /\ process_exit_started = FALSE
    /\ completed = FALSE
    /\ finishes = 0
    /\ deadlineJob = "none"
    /\ cleanupJob = "none"
    /\ exited = FALSE
    /\ atomicPort \in BOOLEAN

-----------------------------------------------------------------------------
(* The operating system's clipboard, as the port sees it.                  *)

Leaves(content, generation) ==
    /\ text' = content
    /\ writer' = generation

(* Another application, or the user, replaces the clipboard.               *)
ForeignWrite ==
    /\ ~exited
    /\ \E content \in Texts \cup { Nothing } : Leaves(content, 0)
    /\ UNCHANGED << hung, abandoned, keepFor, stateVars, portVars, jobs,
                    commandVars, exitVars, atomicPort >>

(* A call into the operating system may block for good.                    *)
PortHangs ==
    /\ ~exited
    /\ command = "write" \/ clearing # "no"
    /\ hung' = TRUE
    /\ UNCHANGED << text, writer, abandoned, keepFor, stateVars, portVars, jobs,
                    commandVars, exitVars, atomicPort >>

-----------------------------------------------------------------------------
(* Taking ownership out of the state, and clearing what was taken.         *)

(* Mutant: an expiry job does not look at the generation it was made for.  *)
OwnsAnyGeneration(generation) == owned # Nothing /\ generation = generation

(* Mutant: an expiry job is made for the generation after its own.         *)
OwnsNextGeneration(generation) ==
    owned # Nothing /\ owned.generation = generation + 1

OwnsGeneration(generation) == owned # Nothing /\ owned.generation = generation

(* clear_owned_value(owned.take()), up to the call of the port.            *)
TakeOwned(holder) ==
    /\ owned' = Nothing
    /\ portGate' = holder
    /\ clearing' = "compare"
    /\ expected' = owned

LeaveOwned == UNCHANGED << owned, portVars >>

(* What the holder of the port gate does when clear_if_matches returns.    *)
Release ==
    /\ portGate' = "free"
    /\ clearing' = "no"
    /\ expected' = Nothing
    /\ command' = IF portGate = "command" THEN "none" ELSE command
    /\ cleanupJob' = IF portGate = "cleanup" THEN "complete" ELSE cleanupJob
    /\ UNCHANGED << hung, keepFor, stateVars, jobs, unlocked, cValue,
                    cGeneration, cDelay, process_exit_started, completed,
                    finishes, deadlineJob, exited, atomicPort >>

PortCall(step) ==
    /\ ~exited
    /\ ~hung
    /\ clearing = step

(* windows_compare_and_clear: OpenClipboard keeps everybody else out until *)
(* the comparison and EmptyClipboard are done.                             *)
CompareAndClear ==
    /\ PortCall("compare")
    /\ atomicPort
    /\ IF text = expected.value THEN Leaves(Nothing, 0) ELSE UNCHANGED << text, writer >>
    /\ UNCHANGED abandoned
    /\ Release

(* The trait's default clear_if_matches reads first ...                    *)
ReadChanged ==
    /\ PortCall("compare")
    /\ ~atomicPort
    /\ text # expected.value
    /\ UNCHANGED << text, writer, abandoned >>
    /\ Release

ReadMatches ==
    /\ PortCall("compare")
    /\ ~atomicPort
    /\ text = expected.value
    /\ clearing' = "clear"
    /\ UNCHANGED << osVars, keepFor, stateVars, portGate, expected, jobs,
                    commandVars, exitVars, atomicPort >>

(* ... and then clears whatever is there.                                  *)
ClearText ==
    /\ PortCall("clear")
    /\ Leaves(Nothing, 0)
    /\ UNCHANGED abandoned
    /\ Release

(* The read, the comparison or the clear fails: ownership is gone, and     *)
(* nothing was cleared.                                                    *)
ClearFails ==
    /\ clearing \in { "compare", "clear" }
    /\ PortCall(clearing)
    /\ abandoned' = writer
    /\ UNCHANGED << text, writer >>
    /\ Release

PortReturns ==
    \/ CompareAndClear \/ ReadChanged \/ ReadMatches \/ ClearText \/ ClearFails

-----------------------------------------------------------------------------
(* The thread that holds the operation gate.                               *)

Idle == ~exited /\ command = "none"

Unlock ==
    /\ Idle
    /\ unlocked' = TRUE
    /\ UNCHANGED << osVars, keepFor, stateVars, portVars, jobs, command, cValue,
                    cGeneration, cDelay, exitVars, atomicPort >>

(* Mutant: a lock forgets the clipboard.                                   *)
LockWithoutCleanup ==
    /\ Idle
    /\ unlocked' = FALSE
    /\ UNCHANGED << osVars, keepFor, stateVars, portVars, jobs, command, cValue,
                    cGeneration, cDelay, exitVars, atomicPort >>

(* lock_and_emit_with_operation_guard, up to clear_clipboard().  A reset   *)
(* calls clear_if_owned in the same way.                                   *)
Lock ==
    /\ Idle
    /\ unlocked' = FALSE
    /\ command' = "clearOwned"
    /\ UNCHANGED << osVars, keepFor, stateVars, portVars, jobs, cValue,
                    cGeneration, cDelay, exitVars, atomicPort >>

SetTimeout(delay) ==
    /\ Idle
    /\ unlocked
    /\ timeout' = delay
    /\ UNCHANGED << osVars, keepFor, next_generation, owned, portVars, jobs,
                    commandVars, exitVars, atomicPort >>

(* copy_vault_password, copy_vault_username and copy_recovery_key, up to   *)
(* the wait for the port gate.                                             *)
CopySecret(value) ==
    /\ Idle
    /\ unlocked
    /\ command' = "claim"
    /\ cValue' = value
    /\ UNCHANGED << osVars, keepFor, stateVars, portVars, jobs, unlocked,
                    cGeneration, cDelay, exitVars, atomicPort >>

CanClaim == next_generation < LastGeneration

ClaimExhausted ==
    /\ ~exited
    /\ command = "claim"
    /\ portGate = "free"
    /\ ~CanClaim
    /\ command' = "none"
    /\ UNCHANGED << osVars, keepFor, stateVars, portVars, jobs, unlocked, cValue,
                    cGeneration, cDelay, exitVars, atomicPort >>

(* Mutant: the old ownership is replaced before the write.                 *)
ClaimGenerationEarly ==
    /\ ~exited
    /\ command = "claim"
    /\ portGate = "free"
    /\ CanClaim
    /\ portGate' = "command"
    /\ cGeneration' = next_generation
    /\ next_generation' = next_generation + 1
    /\ owned' = [generation |-> next_generation, value |-> cValue]
    /\ command' = "write"
    /\ UNCHANGED << osVars, keepFor, timeout, clearing, expected, jobs, unlocked,
                    cValue, cDelay, exitVars, atomicPort >>

(* Mutant: a copy does not wait for the port gate.                         *)
ClaimGenerationUngated ==
    /\ ~exited
    /\ command = "claim"
    /\ CanClaim
    /\ cGeneration' = next_generation
    /\ next_generation' = next_generation + 1
    /\ command' = "write"
    /\ UNCHANGED << osVars, keepFor, owned, timeout, portVars, jobs, unlocked, cValue,
                    cDelay, exitVars, atomicPort >>

ClaimGeneration ==
    /\ ~exited
    /\ command = "claim"
    /\ portGate = "free"
    /\ CanClaim
    /\ portGate' = "command"
    /\ cGeneration' = next_generation
    /\ next_generation' = next_generation + 1
    /\ command' = "write"
    /\ UNCHANGED << osVars, keepFor, owned, timeout, clearing, expected, jobs,
                    unlocked, cValue, cDelay, exitVars, atomicPort >>

WriteText ==
    /\ ~exited
    /\ ~hung
    /\ command = "write"
    /\ Leaves(cValue, cGeneration)
    /\ command' = "own"
    /\ UNCHANGED << hung, abandoned, keepFor, stateVars, portVars, jobs, unlocked,
                    cValue, cGeneration, cDelay, exitVars, atomicPort >>

(* A refused write leaves the clipboard alone, or already emptied.         *)
WriteFails ==
    /\ ~exited
    /\ ~hung
    /\ command = "write"
    /\ Leaves(Nothing, 0) \/ UNCHANGED << text, writer >>
    /\ portGate' = "free"
    /\ command' = "none"
    /\ UNCHANGED << hung, abandoned, keepFor, stateVars, clearing, expected, jobs,
                    unlocked, cValue, cGeneration, cDelay, exitVars, atomicPort >>

OwnSecret ==
    /\ ~exited
    /\ command = "own"
    /\ owned' = [generation |-> cGeneration, value |-> cValue]
    /\ cDelay' = timeout
    /\ keepFor' = timeout
    /\ portGate' = "free"
    /\ command' = "schedule"
    /\ UNCHANGED << osVars, next_generation, timeout, clearing, expected, jobs,
                    unlocked, cValue, cGeneration, exitVars, atomicPort >>

ScheduleExpiry ==
    /\ ~exited
    /\ command = "schedule"
    /\ jobs' = jobs \cup { [generation |-> cGeneration, remaining |-> cDelay] }
    /\ command' = "none"
    /\ UNCHANGED << osVars, keepFor, stateVars, portVars, unlocked, cValue,
                    cGeneration, cDelay, exitVars, atomicPort >>

(* No thread can be spawned: the copy is rolled back on this thread.       *)
ScheduleFails ==
    /\ ~exited
    /\ command = "schedule"
    /\ command' = "expire"
    /\ UNCHANGED << osVars, keepFor, stateVars, portVars, jobs, unlocked, cValue,
                    cGeneration, cDelay, exitVars, atomicPort >>

(* The command's clear_if_owned() or expire_generation(cGeneration).       *)
CommandClears ==
    /\ ~exited
    /\ command \in { "clearOwned", "expire" }
    /\ portGate = "free"
    /\ LET mine == IF command = "expire" THEN OwnsGeneration(cGeneration)
                                         ELSE owned # Nothing
       IN  IF mine
           THEN TakeOwned("command") /\ command' = "clear"
           ELSE LeaveOwned /\ command' = "none"
    /\ UNCHANGED << osVars, keepFor, next_generation, timeout, jobs, unlocked,
                    cValue, cGeneration, cDelay, exitVars, atomicPort >>

CommandStep ==
    \/ ClaimExhausted \/ ClaimGeneration \/ WriteText \/ WriteFails \/ OwnSecret
    \/ ScheduleExpiry \/ ScheduleFails \/ CommandClears

StartCommand ==
    \/ Unlock \/ Lock
    \/ \E delay \in Delays : SetTimeout(delay)
    \/ \E value \in Secrets : CopySecret(value)

-----------------------------------------------------------------------------
(* The expiry threads.                                                     *)

(* expire_generation: the thread waits for the port gate, and only then    *)
(* looks at what is owned.                                                 *)
ExpireGeneration ==
    /\ ~exited
    /\ portGate = "free"
    /\ \E job \in jobs :
          /\ job.remaining = 0
          /\ jobs' = jobs \ { job }
          /\ IF OwnsGeneration(job.generation) THEN TakeOwned("job") ELSE LeaveOwned
    /\ UNCHANGED << osVars, keepFor, next_generation, timeout, commandVars,
                    exitVars, atomicPort >>

Less(duration) == IF duration = 0 THEN 0 ELSE duration - 1

Tick ==
    /\ ~exited
    /\ jobs' = { [job EXCEPT !.remaining = Less(job.remaining)] : job \in jobs }
    /\ keepFor' = Less(keepFor)
    /\ UNCHANGED << osVars, stateVars, portVars, commandVars, exitVars, atomicPort >>

-----------------------------------------------------------------------------
(* Process exit.                                                           *)

(* complete_once: the first of the cleanup and the deadline calls exit.    *)
CompleteOnce ==
    /\ completed' = TRUE
    /\ finishes' = IF completed THEN finishes ELSE finishes + 1

(* Mutant: the cleanup runs without a deadline.                            *)
StartExitCleanupUnbounded(deadlineStarts, cleanupStarts) ==
    /\ deadlineStarts
    /\ cleanupStarts
    /\ cleanupJob' = "pending"
    /\ UNCHANGED << deadlineJob, completed, finishes >>

(* start_process_exit_cleanup: two threads, either of which may fail to    *)
(* start; then the process exits at once.                                  *)
StartExitCleanup(deadlineStarts, cleanupStarts) ==
    /\ deadlineJob' = IF deadlineStarts THEN "pending" ELSE "none"
    /\ cleanupJob' = IF deadlineStarts /\ cleanupStarts THEN "pending" ELSE "none"
    /\ IF deadlineStarts /\ cleanupStarts
       THEN UNCHANGED << completed, finishes >>
       ELSE CompleteOnce

(* RunEvent::ExitRequested: the first request is held back for the         *)
(* cleanup; any later one, whoever makes it, ends the process.             *)
ExitRequested ==
    /\ ~exited
    /\ process_exit_started' = TRUE
    /\ IF process_exit_started
       THEN exited' = TRUE /\ UNCHANGED << completed, finishes, deadlineJob, cleanupJob >>
       ELSE /\ \E deadlineStarts, cleanupStarts \in BOOLEAN :
                  StartExitCleanup(deadlineStarts, cleanupStarts)
            /\ UNCHANGED exited
    /\ UNCHANGED << osVars, keepFor, stateVars, portVars, jobs, commandVars, atomicPort >>

DeadlinePasses ==
    /\ ~exited
    /\ deadlineJob = "pending"
    /\ deadlineJob' = "done"
    /\ CompleteOnce
    /\ UNCHANGED << osVars, keepFor, stateVars, portVars, jobs, commandVars,
                    process_exit_started, cleanupJob, exited, atomicPort >>

CleanupTakes ==
    /\ ~exited
    /\ cleanupJob = "pending"
    /\ portGate = "free"
    /\ IF owned # Nothing
       THEN TakeOwned("cleanup") /\ cleanupJob' = "clearing"
       ELSE LeaveOwned /\ cleanupJob' = "complete"
    /\ UNCHANGED << osVars, keepFor, next_generation, timeout, jobs, commandVars,
                    process_exit_started, completed, finishes, deadlineJob, exited,
                    atomicPort >>

CleanupCompletes ==
    /\ ~exited
    /\ cleanupJob = "complete"
    /\ cleanupJob' = "done"
    /\ CompleteOnce
    /\ UNCHANGED << osVars, keepFor, stateVars, portVars, jobs, commandVars,
                    process_exit_started, deadlineJob, exited, atomicPort >>

(* finish() is app.exit(), which comes back as an ExitRequested event.     *)
ExitAfterFinish == finishes > 0 /\ ExitRequested

ExitStep == DeadlinePasses \/ CleanupTakes \/ CleanupCompletes

-----------------------------------------------------------------------------
Next ==
    \/ ForeignWrite \/ PortHangs \/ PortReturns
    \/ StartCommand \/ CommandStep
    \/ ExpireGeneration \/ Tick
    \/ ExitRequested \/ ExitStep

Spec == Init /\ [][Next]_vars

(* Threads that can run do run, a port call that has not hung returns, and *)
(* time passes.  The port gate promises its waiters no more than that.     *)
Fairness ==
    /\ WF_vars(PortReturns)
    /\ WF_vars(CommandStep)
    /\ WF_vars(ExpireGeneration)
    /\ WF_vars(Tick)
    /\ WF_vars(DeadlinePasses)
    /\ WF_vars(CleanupCompletes)
    /\ WF_vars(ExitAfterFinish)

FairSpec == Spec /\ Fairness

-----------------------------------------------------------------------------
(* Whatever is owned has an expiry coming: a thread that will wake for     *)
(* exactly this generation, or the copying command itself.                 *)
OwnedHasExpiry ==
    owned # Nothing =>
        \/ \E job \in jobs : job.generation = owned.generation
        \/ command \in { "schedule", "expire" } /\ cGeneration = owned.generation

(* A secret KeyNest put on the clipboard is never forgotten while it is    *)
(* there: it is owned, or the copy is about to own it, or somebody is      *)
(* comparing it for clearing, or the operating system refused to clear it. *)
(* A refused write, a refused expiry thread and an exhausted generation    *)
(* counter all leave it accounted for, and what is owned waits for its     *)
(* expiry.                                                                 *)
SecretIsAccountedFor ==
  /\ OwnedHasExpiry
  /\ writer # 0 =>
        \/ abandoned = writer
        \/ OwnsGeneration(writer) /\ owned.value = text
        \/ command = "own" /\ cGeneration = writer
        \/ clearing # "no" /\ expected = [generation |-> writer, value |-> text]

(* Once a lock has returned, no secret is left on the clipboard, even one  *)
(* that an expiry thread or the exit cleanup had already taken over: the   *)
(* lock waited for the port gate.  The exception is a port that refused.   *)
LockedSessionLeavesNoSecret ==
    (~unlocked /\ command = "none" /\ writer # 0) => abandoned = writer

(* docs/security/clipboard-ownership.md: an old thread "cannot clear newer *)
(* generations".  A secret an expiry thread clears had the whole delay     *)
(* that was in force when it was copied, whatever older threads wake up.   *)
ExpiryKeepsFreshCopy ==
    [][ (portGate = "job" /\ writer # 0 /\ text' = Nothing /\ portGate' = "free")
           => keepFor = 0 ]_vars

(* Whoever clears the clipboard for KeyNest, an expiry thread, a lock or   *)
(* the exit, clears the copy that it has taken over and none made since,   *)
(* not even one of the same text, and although the trait's default reads   *)
(* and clears in two calls: ownership is taken and the clipboard cleared   *)
(* within one hold of the port gate, and so is a copy written and owned.   *)
NewerCopySurvives ==
    [][ (clearing # "no" /\ clearing' = "no" /\ text' = Nothing /\ writer # 0)
           => writer = expected.generation ]_vars

(* That foreign text is safe as well, which the default does not promise:  *)
(* another application knows nothing of the port gate, and what it writes  *)
(* between the two calls is lost (clipboard.rs:25-31).                     *)
ForeignTextSurvives ==
    [][ (clearing # "no" /\ clearing' = "no" /\ text' = Nothing /\ writer = 0)
           => text \in { expected.value, Nothing } ]_vars

(* The cleanup thread and the deadline race to finish: exit is called at   *)
(* most once, so the handler is never re-entered by a late thread.         *)
FinishOnce == finishes <= 1

(* The exit that was held back always happens, even when a port call never *)
(* returns and keeps the port gate for good, and happens once.             *)
ExitCompletes == [](FinishOnce) /\ (process_exit_started ~> exited)

(* A copied secret does not stay owned for ever: once copies stop, what is *)
(* owned is taken for clearing, unless the port hangs or the process ends. *)
OwnedSecretExpires ==
    (<>[](command = "none")) => <>[](owned = Nothing \/ hung \/ exited)
=============================================================================
