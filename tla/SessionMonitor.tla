---------------------------- MODULE SessionMonitor ----------------------------
(***************************************************************************)
(* Windows tells KeyNest that the session was locked or that the computer  *)
(* sleeps (platform/session.rs): a thread of its own has a hidden window,  *)
(* and its messages lock KeyNest under the operation gate (lib.rs).  It is *)
(* apart from the thread of the event loop, which may be needed for a      *)
(* clipboard call and must therefore not wait for whoever makes one        *)
(* ("Lock/clipboard I/O must not block the UI thread").                    *)
(*                                                                         *)
(* The session is only locked or unlocked here; AutoLock, Auth and         *)
(* Clipboard say what a lock does in detail.                               *)
(***************************************************************************)
EXTENDS Naturals, Sequences

CONSTANTS MaxMessages,      \* bound: messages that wait for the window
          Builds            \* what the framework under KeyNest may be like

\* A clipboard call is served by the event loop, or not; the framework reports Resumed
\* to the event loop, or not.
MonitorAssumption == /\ MaxMessages \in Nat \ {0}
                     /\ Builds # {} /\ Builds \subseteq [clipboardNeedsUi : BOOLEAN, resumes : BOOLEAN]

VARIABLES ui,           \* what the thread of the event loop does
          monitor,      \* where the monitor thread is
          registered,   \* what Windows has registered for it
          queue,        \* messages for its window
          gate,         \* who holds the operation gate
          session,      \* KeyNest is locked or not
          lockOnSleep,  \* the setting
          build         \* what this one's framework is like

vars == <<ui, monitor, registered, queue, gate, session, lockOnSleep, build>>
keyNest == <<session, lockOnSleep, build>>

\* Session changes that lock, those that do not, and power changes.
SessionLocks == {"sessionLock", "disconnect", "logoff"}
PowerChanges == {"suspend", "resume"}
Messages == SessionLocks \cup PowerChanges \cup {"sessionUnlock"}
Close == "close"

Init ==
    /\ ui = "minimize"
    /\ monitor = [at |-> "none"]
    /\ registered = {}
    /\ queue = <<>>
    /\ gate = "free"
    /\ session = "Locked"
    /\ lockOnSleep \in BOOLEAN
    /\ build \in Builds

---------------------------------------------------------------------------
(* Start-up, on the thread of the event loop.                              *)

\* The application does not start without its monitor.
MonitorFails == "failed"

\* A launch at login minimizes the window first; without a window nothing starts,
\* nor without readable settings.
SetUp ==
    /\ \/ ui = "minimize" /\ ui' \in {"load", "failed"} /\ UNCHANGED monitor
       \/ ui = "load" /\ ui' = "failed" /\ UNCHANGED monitor
       \/ ui = "load" /\ ui' = "monitor" /\ monitor' = [at |-> "class"]
       \/ ui = "monitor" /\ "notification" \in registered /\ ui' = "pipe" /\ UNCHANGED monitor
       \/ ui = "monitor" /\ monitor.at = "gone" /\ ui' = MonitorFails /\ UNCHANGED monitor
       \/ ui = "pipe" /\ ui' = "loop" /\ UNCHANGED monitor
    /\ UNCHANGED <<registered, queue, gate, keyNest>>

---------------------------------------------------------------------------
(* The monitor thread.                                                     *)

MonitorAt(place) == monitor' = [at |-> place]

CleanUp == registered' = {}

\* Three things are registered one after the other, and taken back when one fails.
Register(from, what, to) ==
    /\ monitor.at = from
    /\ \/ registered' = registered \cup {what} /\ MonitorAt(to)
       \/ CleanUp /\ MonitorAt("gone")
    /\ UNCHANGED <<ui, queue, gate, keyNest>>

\* The setting is read under the gate, when the message is handled.
MustLock(message) == message \in SessionLocks \/ lockOnSleep

LockTrigger(message) == message \in SessionLocks \cup PowerChanges

\* Whatever is no trigger is left to Windows.
Pump ==
    /\ monitor.at = "pump"
    /\ queue # <<>>
    /\ queue' = Tail(queue)
    /\ LET message == Head(queue)
       IN CASE message = Close -> MonitorAt("close")
            [] LockTrigger(message) -> monitor' = [at |-> "queue", message |-> message]
            [] OTHER -> UNCHANGED monitor
    /\ UNCHANGED <<ui, registered, gate, keyNest>>

\* The session is locked before the clipboard is cleared.
MonitorLocks ==
    /\ monitor.at = "queue"
    /\ gate = "free"
    /\ IF MustLock(monitor.message)
       THEN session' = "Locked" /\ gate' = "monitor" /\ MonitorAt("clear")
       ELSE UNCHANGED <<session, gate>> /\ MonitorAt("pump")
    /\ UNCHANGED <<ui, registered, queue, lockOnSleep, build>>

\* A clipboard call of another thread may be served by the event loop; a call that
\* fails, or a panic, which ends the process, makes no difference to what follows.
ClipboardAnswers == build.clipboardNeedsUi => ui = "loop"

MonitorClears ==
    /\ monitor.at = "clear"
    /\ ClipboardAnswers
    /\ gate' = "free"
    /\ MonitorAt("pump")
    /\ UNCHANGED <<ui, registered, queue, keyNest>>

MonitorCloses ==
    /\ monitor.at = "close"
    /\ CleanUp
    /\ MonitorAt("gone")
    /\ UNCHANGED <<ui, queue, gate, keyNest>>

Monitor ==
    \/ Register("class", "class", "window")
    \/ Register("window", "window", "notify")
    \/ Register("notify", "notification", "pump")
    \/ Pump \/ MonitorClears \/ MonitorCloses

---------------------------------------------------------------------------
(* The event loop.                                                         *)

\* Resumed is handled by the event loop itself, which waits for the gate.
ResumeBegins ==
    /\ build.resumes
    /\ ui = "loop"
    /\ ui' = "queue"
    /\ UNCHANGED <<monitor, registered, queue, gate, keyNest>>

\* Its own clipboard calls need nobody else.
ResumeLocks ==
    /\ ui = "queue"
    /\ gate = "free"
    /\ session' = IF lockOnSleep THEN "Locked" ELSE session
    /\ ui' = "loop"
    /\ UNCHANGED <<monitor, registered, queue, gate, lockOnSleep, build>>

AskToClose == Append(queue, Close)

Exit ==
    /\ ui = "loop"
    /\ queue' = AskToClose
    /\ ui' = "exiting"
    /\ UNCHANGED <<monitor, registered, gate, keyNest>>

\* Mutant: the event loop waits until the monitor has ended.
MayEndJoined == monitor.at = "gone"

\* Nobody waits for the monitor: a clipboard call of it may need the event loop.
MayEnd == TRUE

ExitEnds ==
    /\ ui = "exiting"
    /\ MayEnd
    /\ ui' = "ended"
    /\ UNCHANGED <<monitor, registered, queue, gate, keyNest>>

---------------------------------------------------------------------------
(* Commands, and Windows.                                                  *)

Running == ui \in {"loop", "queue"}

\* Every command takes the gate; some call the clipboard before they return.
CommandBegins ==
    /\ Running
    /\ gate = "free"
    /\ gate' = "command"
    /\ UNCHANGED <<ui, monitor, registered, queue, keyNest>>

CommandEnds ==
    /\ gate = "command"
    /\ gate' = "free"
    /\ \/ session' \in {"Locked", "Unlocked"} /\ UNCHANGED lockOnSleep
       \/ session = "Unlocked" /\ lockOnSleep' \in BOOLEAN /\ UNCHANGED session
    /\ ClipboardAnswers
    /\ UNCHANGED <<ui, monitor, registered, queue, build>>

\* What comes after the request to close makes no difference any more.
Notify(message) ==
    /\ "notification" \in registered
    /\ Len(queue) < MaxMessages
    /\ \A i \in DOMAIN queue : queue[i] # Close
    /\ queue' = Append(queue, message)
    /\ UNCHANGED <<ui, monitor, registered, gate, keyNest>>

Next ==
    \/ SetUp \/ ResumeBegins \/ ResumeLocks \/ Exit \/ ExitEnds
    \/ Monitor \/ MonitorLocks
    \/ CommandBegins \/ CommandEnds
    \/ \E message \in Messages : Notify(message)

Spec == Init /\ [][Next]_vars

\* Threads run, commands return when the clipboard does, and whoever waits for the gate
\* gets it at some time.
Fairness == /\ WF_vars(SetUp) /\ WF_vars(ExitEnds) /\ WF_vars(Monitor) /\ WF_vars(CommandEnds)
            /\ SF_vars(MonitorLocks) /\ SF_vars(ResumeLocks)

FairSpec == Spec /\ Fairness

---------------------------------------------------------------------------
(* Properties.                                                             *)

TypeOK ==
    /\ ui \in {"minimize", "load", "monitor", "pipe", "loop", "queue", "exiting", "failed",
              "ended"}
    /\ monitor \in [at : {"none", "class", "window", "notify", "pump", "clear", "close", "gone"}] \cup [at : {"queue"}, message : SessionLocks \cup PowerChanges]
    /\ registered \subseteq {"class", "window", "notification"}
    /\ queue \in Seq(Messages \cup {Close})
    /\ gate \in {"free", "monitor", "command"}
    /\ session \in {"Locked", "Unlocked"}
    /\ lockOnSleep \in BOOLEAN
    /\ build \in Builds

\* KeyNest is not open without Windows being able to tell it to lock.
OpenIsMonitored ==
    (session = "Unlocked" /\ Running) => "notification" \in registered

\* The thread leaves nothing of itself registered, at whatever step it failed.
NothingStaysRegistered == (monitor.at = "gone") => (registered = {})

Pending(messages) ==
    \/ \E i \in DOMAIN queue : queue[i] \in messages
    \/ monitor.at = "queue" /\ monitor.message \in messages

Over == ui \in {"failed", "ended"}

\* When Windows locks the session, disconnects or logs off, KeyNest gets locked, however
\* busy its gate is and whatever it does (docs/security/autofill-v1.md:123-125).
SessionLockLocks == Pending(SessionLocks) ~> (session = "Locked" \/ Over)

\* So it does on sleep, while the setting says so.
SleepLocks ==
    [](Pending(PowerChanges) /\ []lockOnSleep => <>(session = "Locked" \/ Over))

\* The event loop never waits for ever, whoever needs it (session.rs:2, auto_lock.rs:182).
UiGoesOn == ~Over ~> (ui = "loop" \/ Over)

\* The monitor ends with the application, although nobody waits for it, unless it is in a
\* clipboard call that nobody serves any more: then the process ends it.
MonitorEnds == (ui = "ended" /\ ~build.clipboardNeedsUi) ~> (monitor.at = "gone")
=============================================================================
