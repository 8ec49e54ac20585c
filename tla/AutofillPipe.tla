---------------------------- MODULE AutofillPipe ----------------------------
(***************************************************************************)
(* The desktop end of the Autofill pipe (platform/autofill_pipe/server.rs  *)
(* and io.rs): one worker thread, one pipe instance, one request for each  *)
(* connection.  A client is any process that can open the pipe: it may be  *)
(* silent, go away at any moment, send whatever it likes whenever it likes *)
(* and read the answer or not.                                             *)
(*                                                                         *)
(* Every operation on the pipe first looks at the stop event and at its    *)
(* deadline, then starts, and waits when the kernel cannot complete it at  *)
(* once.  A frame is a header and a body, written by two operations.  Any  *)
(* operation may also fail in the kernel, which ends the exchange; that of *)
(* accepting a client ends the worker.                                     *)
(***************************************************************************)
EXTENDS Naturals, Sequences

CONSTANTS Clients,    \* processes that may open the pipe
          Foreign,    \* those of another Windows session
          Quota,      \* how many pieces of an answer the pipe takes unread
          MaxPieces,  \* bound on the pieces that one client sends
          Nobody      \* no client

ASSUME PipeAssumption == /\ Foreign \subseteq Clients
                         /\ Nobody \notin Clients
                         /\ Quota \in Nat \ {0}
                         /\ MaxPieces \in Nat

VARIABLES stop,       \* the stop event
          gate,       \* who holds the operation gate
          instance,   \* what the kernel does with the pipe instance
          peer,       \* the client that opened it last
          here,       \* its end is still open
          toServer,   \* sent by the client, and not yet read
          toClient,   \* sent by the worker, and not yet read
          worker,     \* where the worker is
          sent        \* how many pieces the client that opened it last has sent

vars == <<stop, gate, instance, peer, here, toServer, toClient, worker, sent>>
pipeVars == <<instance, peer, here, toServer, toClient>>

Reading == {"readHeader", "readBody", "receipt"}
Writing == {"writeHeader", "writeBody"}
Places == {"accept", "session", "gate", "disconnect", "ended"} \cup Reading \cup Writing

\* A piece is what the worker reads at once: a header, a request, or neither.
Pieces == {"header", "request", "junk"}

At(place) == [at |-> place, op |-> "check", late |-> FALSE, request |-> worker.request]

Init ==
    /\ stop = FALSE
    /\ gate = "free"
    /\ instance = "listening"
    /\ peer = Nobody
    /\ here = FALSE
    /\ toServer = <<>>
    /\ toClient = <<>>
    /\ worker = [at |-> "accept", op |-> "check", late |-> FALSE, request |-> "request"]
    /\ sent = 0

---------------------------------------------------------------------------
(* One operation on the pipe.                                              *)

Operating == worker.at \in {"accept"} \cup Reading \cup Writing

\* An operation is not even started after the stop event or the deadline.
Refused == stop \/ worker.late

\* The kernel has what the operation asks for, or room for what it writes.
Ready ==
    CASE worker.at = "accept" -> instance = "connected" /\ (here \/ worker.op = "pending")
      [] worker.at \in Reading -> toServer # <<>>
      [] worker.at \in Writing -> here /\ Len(toClient) < Quota

\* The client is gone, and there is nothing left to read.
Gone ==
    CASE worker.at = "accept" -> worker.op = "start" /\ instance = "connected" /\ ~here
      [] worker.at \in Reading -> toServer = <<>> /\ ~here
      [] worker.at \in Writing -> ~here

\* The kernel sees the stop event first when both events are set.
Completes == Ready /\ (worker.op = "start" \/ (worker.op = "pending" /\ ~stop))

Piece == IF worker.at = "writeHeader" THEN "header" ELSE "answer"

\* Mutant: the end of the client ends the worker.
LostClientEnds == worker' = At("ended") /\ instance' = "released" /\ UNCHANGED <<toServer, toClient>>

\* A client that came and went is no reason to end (server.rs:126-138).
LostClient ==
    /\ worker' = At("accept")
    /\ instance' = "disconnected"
    /\ toServer' = <<>>
    /\ toClient' = <<>>

\* Mutant: the gate stays with the worker until the client is gone.
GateBackLate == gate

GateBack == IF gate = "pipe" THEN "free" ELSE gate

\* Whatever fails ends the exchange, and the gate is given up; before a client is
\* connected it ends the worker, which closes the pipe.
GiveUp(why) ==
    IF worker.at = "accept"
    THEN /\ worker' = [At("ended") EXCEPT !.op = why]
         /\ instance' = "released"
         /\ here' = FALSE
         /\ UNCHANGED gate
    ELSE /\ worker' = [worker EXCEPT !.at = "disconnect", !.op = why]
         /\ gate' = GateBack
         /\ UNCHANGED <<instance, here>>

Check ==
    /\ Operating
    /\ worker.op = "check"
    /\ IF Refused
       THEN GiveUp("check") /\ UNCHANGED <<stop, peer, toServer, toClient, sent>>
       ELSE /\ worker' = [worker EXCEPT !.op = "start"]
            /\ UNCHANGED <<stop, gate, instance, peer, here, toServer, toClient, sent>>

\* The operation cannot complete at once; an accept makes the pipe available.
Pend ==
    /\ Operating
    /\ worker.op = "start"
    /\ ~Ready
    /\ ~Gone
    /\ worker' = [worker EXCEPT !.op = "pending"]
    /\ instance' = IF worker.at = "accept" THEN "listening" ELSE instance
    /\ UNCHANGED <<stop, gate, peer, here, toServer, toClient, sent>>

\* What ends a wait: nothing else does, whatever the client does not do.
WaitEnds == stop \/ worker.late

\* The pending operation is cancelled, and drained: it may have completed.
Cancel ==
    /\ Operating
    /\ worker.op = "pending"
    /\ WaitEnds
    /\ GiveUp("check")
    /\ \/ UNCHANGED toClient
       \/ worker.at \in Writing /\ Ready /\ toClient' = Append(toClient, Piece)
    /\ UNCHANGED <<stop, peer, toServer, sent>>

Break ==
    /\ Operating
    /\ worker.op \in {"start", "pending"}
    /\ Gone
    /\ IF worker.at = "accept" /\ ~stop
       THEN LostClient /\ UNCHANGED <<gate, here>>
       ELSE GiveUp("check") /\ UNCHANGED <<toServer, toClient>>
    /\ UNCHANGED <<stop, peer, sent>>

\* For want of an event to wait on (io.rs:86), or with any other error of the kernel.
\* An accept that fails so ends the worker, although nothing has stopped it.
Fails ==
    /\ Operating
    /\ worker.op \in {"start", "pending"}
    /\ GiveUp("failed")
    /\ UNCHANGED <<stop, peer, toServer, toClient, sent>>

---------------------------------------------------------------------------
(* One exchange.                                                           *)

Accepted ==
    /\ worker.at = "accept"
    /\ Completes
    /\ worker' = At("session")
    /\ UNCHANGED <<stop, gate, pipeVars, sent>>

\* The client must be of the same session, and Windows able to tell: it may have gone.
CheckSession ==
    /\ worker.at = "session"
    /\ \/ peer \notin Foreign /\ worker' = At("readHeader")
       \/ worker' = At("disconnect")
    /\ UNCHANGED <<stop, gate, pipeVars, sent>>

\* One deadline holds for the header and the body of a frame.
ReadPiece ==
    /\ worker.at \in {"readHeader", "readBody"}
    /\ Completes
    /\ toServer' = Tail(toServer)
    /\ worker' = IF worker.at = "readBody"
                 THEN [At("gate") EXCEPT !.request = Head(toServer)]
                 ELSE IF Head(toServer) = "header"
                 THEN [worker EXCEPT !.at = "readBody", !.op = "check"]
                 ELSE At("disconnect")
    /\ UNCHANGED <<stop, gate, instance, peer, here, toClient, sent>>

\* The request is answered under the gate (Autofill); one that cannot be parsed is
\* refused without.  The deadline of the exchange runs on meanwhile.
Dispatch ==
    /\ worker.at = "gate"
    /\ worker.request = "request" => gate = "free"
    /\ gate' = IF worker.request = "request" THEN "pipe" ELSE gate
    /\ worker' = [worker EXCEPT !.at = "writeHeader", !.op = "check"]
    /\ UNCHANGED <<stop, pipeVars, sent>>

\* The worker waits for the client to say that it has read the answer.
AfterAnswer == "receipt"

WritePiece ==
    /\ worker.at \in Writing
    /\ Completes
    /\ toClient' = Append(toClient, Piece)
    /\ IF worker.at = "writeHeader"
       THEN worker' = [worker EXCEPT !.at = "writeBody", !.op = "check"] /\ UNCHANGED gate
       ELSE /\ worker' = At(AfterAnswer)
            /\ gate' = GateBack
    /\ UNCHANGED <<stop, instance, peer, here, toServer, sent>>

\* Whether it is the right byte makes no difference to what follows.
ReadReceipt ==
    /\ worker.at = "receipt"
    /\ Completes
    /\ toServer' = Tail(toServer)
    /\ worker' = At("disconnect")
    /\ UNCHANGED <<stop, gate, instance, peer, here, toClient, sent>>

\* Whatever was not read is lost, and the client's end is dead.
Disconnect ==
    /\ worker.at = "disconnect"
    /\ worker' = At("accept")
    /\ instance' = "disconnected"
    /\ here' = FALSE
    /\ toServer' = <<>>
    /\ toClient' = <<>>
    /\ UNCHANGED <<stop, gate, peer, sent>>

Exchange == Accepted \/ CheckSession \/ ReadPiece \/ WritePiece \/ ReadReceipt \/ Disconnect
Work == Check \/ Pend \/ Cancel \/ Break \/ Exchange

\* An accept waits for ever; everything else has a deadline.
HasDeadline == worker.at \in Reading \cup Writing \cup {"gate"}

Expire ==
    /\ HasDeadline
    /\ ~worker.late
    /\ worker' = [worker EXCEPT !.late = TRUE]
    /\ UNCHANGED <<stop, gate, pipeVars, sent>>

---------------------------------------------------------------------------
(* The rest of the application, and the clients.                           *)

Shutdown ==
    /\ worker.at # "ended"
    /\ stop' = TRUE
    /\ UNCHANGED <<gate, pipeVars, worker, sent>>

TakeGate ==
    /\ gate = "free"
    /\ gate' = "command"
    /\ UNCHANGED <<stop, pipeVars, worker, sent>>

ReleaseGate ==
    /\ gate = "command"
    /\ gate' = "free"
    /\ UNCHANGED <<stop, pipeVars, worker, sent>>

Open(c) ==
    /\ instance = "listening"
    /\ instance' = "connected"
    /\ peer' = c
    /\ here' = TRUE
    /\ sent' = 0
    /\ UNCHANGED <<stop, gate, toServer, toClient, worker>>

Send ==
    /\ here
    /\ sent < MaxPieces
    /\ \E piece \in Pieces : toServer' = Append(toServer, piece)
    /\ sent' = sent + 1
    /\ UNCHANGED <<stop, gate, instance, peer, here, toClient, worker>>

Receive ==
    /\ here
    /\ toClient # <<>>
    /\ toClient' = Tail(toClient)
    /\ UNCHANGED <<stop, gate, instance, peer, here, toServer, worker, sent>>

\* At any moment, the end of the process included.
Close ==
    /\ here
    /\ here' = FALSE
    /\ toClient' = <<>>
    /\ UNCHANGED <<stop, gate, instance, peer, toServer, worker, sent>>

Client == (\E c \in Clients : Open(c)) \/ Send \/ Receive \/ Close

Next ==
    \/ Work \/ Dispatch \/ Expire \/ Fails
    \/ Shutdown \/ TakeGate \/ ReleaseGate
    \/ Client

Spec == Init /\ [][Next]_vars

\* The worker runs, its timers run out, and commands give the gate back.  Nothing is
\* assumed of a client.
Fairness == /\ WF_vars(Work)
            /\ WF_vars(Expire)
            /\ WF_vars(ReleaseGate)
            /\ SF_vars(Dispatch)

FairSpec == Spec /\ Fairness

---------------------------------------------------------------------------
(* Properties.                                                             *)

TypeOK ==
    /\ stop \in BOOLEAN
    /\ gate \in {"free", "pipe", "command"}
    /\ instance \in {"listening", "connected", "disconnected", "released"}
    /\ peer \in Clients \cup {Nobody}
    /\ here \in BOOLEAN
    /\ toServer \in Seq(Pieces)
    /\ toClient \in Seq({"header", "answer"})
    /\ Len(toClient) <= Quota
    /\ worker \in [at : Places, op : {"check", "start", "pending", "failed"},
                   late : BOOLEAN, request : Pieces]
    /\ sent \in 0..MaxPieces

\* A client that reads in time gets the whole answer: disconnecting throws an unread one
\* away only after the deadline, when the application ends, when the kernel fails, or of
\* a client that sent its receipt, or anything else after its request, before it read
\* (docs/security/autofill-v1.md:218-221).
UnreadAnswersAreKept ==
    [][(Disconnect /\ here /\ "answer" \in {toClient[i] : i \in DOMAIN toClient})
          => (stop \/ worker.late \/ worker.op = "failed" \/ sent > 2)]_vars

\* The gate is held only as long as an answer is being written: not while the worker
\* waits for a client to connect, to ask, or to confirm.
GateIsOnlyForWriting == (gate = "pipe") => worker.at \in Writing

\* A request that still waits for the gate when the application ends is not answered
\* (autofill_pipe/tests.rs:309).
QueuedAnswersAreDropped ==
    []((stop /\ worker.at = "gate") => [](toClient = <<>>))

\* A client that does not read cannot keep the gate (autofill_pipe/tests.rs:275).
GateIsReleased == (gate = "pipe") ~> (gate # "pipe")

\* The worker ends after the stop event, whatever a client does or does not do.
ShutdownFinishes == stop ~> (worker.at = "ended")

\* And until then it comes back to accept the next client, unless an accept fails in the
\* kernel: a client that came and went is none of these failures.
ListensAgain ==
    (worker.at # "accept")
        ~> (worker.at = "accept" \/ stop \/ (worker.at = "ended" /\ worker.op = "failed"))

\* That it accepts clients until it is stopped, which is not so: an accept that fails with
\* any error but those of a client that is gone ends the worker for good (server.rs:133).
ListensForever == (worker.at # "accept") ~> (worker.at = "accept" \/ stop)
=============================================================================
