------------------------------ MODULE MCPlatform ------------------------------
(***************************************************************************)
(* The three components that talk to Windows, in one run: the pipe server  *)
(* (AutofillPipe), the native host at the other end of the pipe, and the   *)
(* session monitor.  They share no variable, so no interleaving of theirs  *)
(* can matter to a property of one of them: a behaviour follows one part,  *)
(* and the other two stay as they began.                                   *)
(***************************************************************************)
EXTENDS AutofillPipe

CONSTANTS Ids, ConnectTime, ExchangeTime, BrowserTime, NoId,   \* NativeHost
          MaxMessages, Builds                                  \* SessionMonitor

VARIABLES part,
          browser, pending, timer, stdin, stdout, host, left,
          ui, monitor, registered, queue, sessionGate, session, lockOnSleep, build

\* Whatever the framework is like, except that a Resumed event must not wait for a
\* clipboard call that needs the event loop.
SoundBuilds == {[clipboardNeedsUi |-> TRUE, resumes |-> FALSE],
                [clipboardNeedsUi |-> FALSE, resumes |-> TRUE]}

\* Both at once.
ResumingBuilds == {[clipboardNeedsUi |-> TRUE, resumes |-> TRUE]}

hostVars == <<browser, pending, timer, stdin, stdout, host, left>>
monitorVars == <<ui, monitor, registered, queue, sessionGate, session, lockOnSleep, build>>
platformVars == <<part, vars, hostVars, monitorVars>>

Native == INSTANCE NativeHost
Session == INSTANCE SessionMonitor WITH gate <- sessionGate

ASSUME PlatformAssumption == Native!HostAssumption /\ Session!MonitorAssumption

\* A server and a monitor that have ended: nothing of theirs is enabled any more, so that
\* their fairness asks nothing of the behaviours of another part.  Nor does that of a host
\* without a request.
PipeHasEnded ==
    /\ stop = TRUE /\ gate = "free" /\ instance = "released"
    /\ peer = Nobody /\ here = FALSE /\ toServer = <<>> /\ toClient = <<>>
    /\ worker = [at |-> "ended", op |-> "check", late |-> FALSE, request |-> "request"]
    /\ sent = 0

MonitorHasEnded ==
    /\ ui = "ended" /\ monitor = [at |-> "gone"] /\ registered = {} /\ queue = <<>>
    /\ sessionGate = "free" /\ session = "Locked" /\ lockOnSleep = TRUE
    /\ build = CHOOSE b \in Builds : TRUE

PlatformInit ==
    /\ part \in {"pipe", "host", "monitor"}
    /\ IF part = "pipe" THEN Init ELSE PipeHasEnded
    /\ Native!Init
    /\ IF part = "monitor" THEN Session!Init ELSE MonitorHasEnded

PlatformNext ==
    /\ UNCHANGED part
    /\ \/ part = "pipe" /\ Next /\ UNCHANGED <<hostVars, monitorVars>>
       \/ part = "host" /\ Native!Next /\ UNCHANGED <<vars, monitorVars>>
       \/ part = "monitor" /\ Session!Next /\ UNCHANGED <<vars, hostVars>>

PlatformSpec ==
    /\ PlatformInit /\ [][PlatformNext]_platformVars
    /\ Fairness /\ Native!Fairness /\ Session!Fairness

-----------------------------------------------------------------------------
(* What is checked of each part; the parts of a property are explained     *)
(* where they are defined.                                                 *)

\* The gate is the pipe's only while an answer is written; the extension gets its own
\* answer to a request; and while KeyNest is open Windows can tell it to lock, with
\* nothing that stays registered afterwards.
PlatformIsSound ==
    /\ TypeOK /\ GateIsOnlyForWriting
    /\ Native!TypeOK /\ Native!AnswersAreOwn
    /\ Session!TypeOK /\ Session!OpenIsMonitored /\ Session!NothingStaysRegistered

\* An answer is not thrown away before it was read unless its time is up, the kernel fails
\* or the client did not wait for it, one that is still queued at a stop is dropped, and
\* the host answers before the extension gives up.
AnswersGetThrough ==
    UnreadAnswersAreKept /\ QueuedAnswersAreDropped /\ Native!RequestsAreAnswered

\* Whatever clients and the browser do or do not do, the pipe server releases the gate,
\* ends when it is stopped and otherwise accepts the next client unless accepting fails,
\* and the host goes when the browser does.
NobodyIsHeldUp ==
    GateIsReleased /\ ShutdownFinishes /\ ListensAgain /\ Native!HostEndsWithBrowser

\* What Windows reports locks KeyNest; neither the event loop nor the monitor waits for ever.
WindowsLocksKeyNest ==
    /\ Session!SessionLockLocks /\ Session!SleepLocks
    /\ Session!UiGoesOn /\ Session!MonitorEnds
=============================================================================
