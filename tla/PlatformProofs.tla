--------------------------- MODULE PlatformProofs ---------------------------
(***************************************************************************)
(* Proofs about the components that talk to Windows (MCPlatform), for any  *)
(* clients, request ids, times and builds: the invariants of the pipe      *)
(* server, the native host and the session monitor, and that no answer is  *)
(* lost or late on its way to the extension.                               *)
(*                                                                         *)
(* The pipe's invariant counts: what the worker has read of a connected    *)
(* client and what still waits is what that client has sent, so that the   *)
(* worker reads a third piece only of a client that has sent one.  The     *)
(* host's follows the one message of the extension: it is written to the   *)
(* host, worked on, or answered, and never two of these.                   *)
(***************************************************************************)
EXTENDS MCPlatform, SequenceTheorems, TLAPS

-----------------------------------------------------------------------------
(* The pipe server.                                                        *)

BeforeAnswer == {"accept", "session", "readHeader", "readBody", "gate", "writeHeader", "ended"}

\* How many pieces of the client the worker has read where it is.
HasRead == [p \in Places |-> CASE p \in {"accept", "session", "readHeader"} -> 0
                               [] p = "readBody" -> 1
                               [] OTHER -> 2]

\* An end of the pipe is open, or may be opened, only where nothing is left of another.
InstanceIsTheirs ==
    /\ here => instance = "connected" /\ peer \in Clients
    /\ instance \in {"listening", "disconnected"} => ~here /\ toServer = <<>>
    /\ worker.at \notin {"accept", "ended"} => instance = "connected"
    /\ worker.at = "ended" <=> instance = "released"

NothingIsLost ==
    (here /\ worker.at \notin {"disconnect", "ended"})
        => HasRead[worker.at] + Len(toServer) = sent

AnswersComeLast == worker.at \in BeforeAnswer => toClient = <<>>

\* The worker hangs up on an unread answer only in the cases UnreadAnswersAreKept names.
HangsUpLate ==
    (worker.at = "disconnect" /\ here /\ toClient # <<>>)
        => stop \/ worker.late \/ worker.op = "failed" \/ sent > 2

PipeInv == /\ TypeOK /\ GateIsOnlyForWriting
           /\ InstanceIsTheirs /\ NothingIsLost /\ AnswersComeLast /\ HangsUpLate

-----------------------------------------------------------------------------
(* The native host and the extension.                                      *)

Busy == {"connect", "write", "response", "receipt"}

HostStates == [at : {"read", "ended"}]
                \cup [at : {"connect", "write", "response"}, request : Native!Requests]
                \cup [at : {"receipt"}, request : Native!Requests, response : Native!Responses]

\* What the extension takes for an answer to what it sent.
Answers(reply, message) ==
    /\ message \in Native!Requests => reply.id = message.id
    /\ \/ reply.result.kind = "error"
       \/ /\ message \in Native!Requests
          /\ reply.result.kind = Native!AnswerTo(message.kind)
          /\ reply.result.answers = message.id

\* The extension has one message at a time, and it is in one place: on its way to the
\* host, worked on, answered, or lost with the host.
Quiet == pending = Native!NoMessage /\ stdin = <<>> /\ stdout = <<>> /\ host.at \notin Busy

Posted == /\ pending \in Native!Messages /\ stdin = <<pending>> /\ stdout = <<>>
          /\ host.at \notin Busy
          /\ host.at = "read" => timer = BrowserTime

\* What is left to the host is less than what is left to the extension.
InWork == /\ pending \in Native!Requests /\ stdin = <<>> /\ stdout = <<>>
          /\ host.at \in Busy /\ host.request = pending
          /\ timer >= left + (BrowserTime - ConnectTime - ExchangeTime)
          /\ host.at = "connect" => timer >= left + (BrowserTime - ConnectTime)

Answered == /\ pending \in Native!Messages /\ stdin = <<>>
            /\ host.at \notin Busy
            /\ \E reply \in Native!Replies : stdout = <<reply>> /\ Answers(reply, pending)
            /\ host.at = "read" => timer > 0

Lost == pending \in Native!Messages /\ stdin = <<>> /\ stdout = <<>> /\ host.at = "ended"

OneMessage == browser = "open" => Quiet \/ Posted \/ InWork \/ Answered \/ Lost

HostInv ==
    /\ Native!TypeOK
    /\ host \in HostStates
    /\ browser # "open" => pending = Native!NoMessage
    /\ host.at \in Busy => stdin = <<>> /\ stdout = <<>>
    /\ host.at = "connect" => left <= ConnectTime
    /\ OneMessage

-----------------------------------------------------------------------------
(* The session monitor.                                                    *)

Notified == {"pump", "queue", "clear", "close"}
Started == {"pipe", "loop", "queue"}

\* What Windows has registered is what the thread has come to, and it is only asked to
\* close when the application ends.
MonitorInv ==
    /\ Session!TypeOK
    /\ "notification" \in registered <=> monitor.at \in Notified
    /\ monitor.at \in {"none", "gone"} => registered = {}
    /\ ui \in {"minimize", "load"} => monitor.at = "none"
    /\ ui \in Started => monitor.at \in Notified \ {"close"}
    /\ ui \notin {"exiting", "ended"} =>
          /\ monitor.at # "close"
          /\ \A i \in 1..Len(queue) : queue[i] # Session!Close

Inv == PipeInv /\ HostInv /\ MonitorInv
Ops == {"check", "start", "pending", "failed"}
Workers == [at : Places, op : Ops, late : BOOLEAN, request : Pieces]

\* The five ways the worker goes on: what they leave of its record.
LEMMA Starts ==
  ASSUME worker \in Workers, NEW o \in Ops, worker' = [worker EXCEPT !.op = o]
  PROVE  worker' \in Workers /\ worker'.at = worker.at /\ worker'.late = worker.late
BY DEF Workers

LEMMA Moves ==
  ASSUME worker \in Workers, NEW p \in Places, NEW o \in Ops,
         worker' = [worker EXCEPT !.at = p, !.op = o]
  PROVE  worker' \in Workers /\ worker'.at = p /\ worker'.late = worker.late
BY DEF Workers

LEMMA Arrives ==
  ASSUME worker \in Workers, NEW p \in Places, worker' = At(p)
  PROVE  worker' \in Workers /\ worker'.at = p
BY DEF Workers, At, Ops

LEMMA Asks ==
  ASSUME worker \in Workers, NEW p \in Places, NEW r \in Pieces,
         worker' = [At(p) EXCEPT !.request = r]
  PROVE  worker' \in Workers /\ worker'.at = p
BY DEF Workers, At, Ops

LEMMA IsLate ==
  ASSUME worker \in Workers, worker' = [worker EXCEPT !.late = TRUE]
  PROVE  worker' \in Workers /\ worker'.at = worker.at /\ worker'.late
BY DEF Workers

\* Before a client is connected a failure ends the worker, and afterwards the exchange.
LEMMA GivesUp ==
  ASSUME worker \in Workers, NEW why \in Ops, GiveUp(why)
  PROVE  /\ worker' \in Workers
         /\ worker'.op = why
         /\ worker.at = "accept" => worker'.at = "ended"
         /\ worker.at # "accept" => worker'.at = "disconnect" /\ worker'.late = worker.late
<1>1. CASE worker.at = "accept"
  <2>1. worker' = [At("ended") EXCEPT !.op = why]
    BY <1>1 DEF GiveUp
  <2> QED
    BY <1>1, <2>1 DEF Workers, At, Places
<1>2. CASE worker.at # "accept"
  <2>1. worker' = [worker EXCEPT !.at = "disconnect", !.op = why]
    BY <1>2 DEF GiveUp
  <2> QED
    BY <1>2, <2>1, Moves DEF Workers, Places
<1> QED
  BY <1>1, <1>2

\* What a pipe without anything in it is, and one with one piece more.
LEMMA EmptyPipe ==
  /\ <<>> \in Seq(Pieces)
  /\ <<>> \in Seq({"header", "answer"}) /\ Len(<<>>) <= Quota
BY EmptySeq, PipeAssumption

LEMMA OnePieceMore ==
  ASSUME NEW piece \in {"header", "answer"}, toClient \in Seq({"header", "answer"}),
         Len(toClient) < Quota
  PROVE  /\ Append(toClient, piece) \in Seq({"header", "answer"})
         /\ Len(Append(toClient, piece)) <= Quota
BY PipeAssumption

\* The stop event and the deadline are looked at.
LEMMA CheckKeeps == PipeInv /\ Check => PipeInv'
<1> SUFFICES ASSUME PipeInv, Check PROVE PipeInv'
  OBVIOUS
<1> USE PipeAssumption DEF Reading, Writing, Places
<1>1. worker \in Workers
  BY DEF PipeInv, TypeOK, Workers, Ops
<1>2. /\ worker' \in Workers
      /\ IF Refused
         THEN /\ worker.at = "accept" => worker'.at = "ended"
              /\ worker.at # "accept" => worker'.at = "disconnect" /\ worker'.late = worker.late
         ELSE worker'.at = worker.at /\ worker'.late = worker.late
  BY <1>1, GivesUp, Starts DEF Check, Ops
<1>3. TypeOK'
  BY <1>2 DEF PipeInv, TypeOK, Workers, Ops, Check, GiveUp, GateBack
<1>4. GateIsOnlyForWriting'
  BY <1>2 DEF PipeInv, GateIsOnlyForWriting, Check, GiveUp, GateBack
<1>5. InstanceIsTheirs'
  BY <1>2 DEF PipeInv, InstanceIsTheirs, Check, Operating, GiveUp
<1>6. NothingIsLost'
  BY <1>2 DEF PipeInv, NothingIsLost, Check
<1>7. AnswersComeLast'
  BY <1>2 DEF PipeInv, AnswersComeLast, BeforeAnswer, Check
<1>8. HangsUpLate'
  BY <1>2 DEF PipeInv, HangsUpLate, Check, Refused
<1> QED
  BY <1>3, <1>4, <1>5, <1>6, <1>7, <1>8 DEF PipeInv

\* An accept that waits makes the pipe available, with nothing left in it.
LEMMA PendKeeps == PipeInv /\ Pend => PipeInv'
<1> SUFFICES ASSUME PipeInv, Pend PROVE PipeInv'
  OBVIOUS
<1> USE PipeAssumption DEF Reading, Writing, Places
<1>1. worker \in Workers
  BY DEF PipeInv, TypeOK, Workers, Ops
<1>2. /\ worker' \in Workers
      /\ worker'.at = worker.at /\ worker'.late = worker.late
  BY <1>1, Starts DEF Pend, Ops
<1>3. TypeOK'
  BY DEF PipeInv, TypeOK, Pend
<1>4. GateIsOnlyForWriting'
  BY DEF PipeInv, GateIsOnlyForWriting, Pend
<1>5. InstanceIsTheirs'
  BY DEF PipeInv, TypeOK, InstanceIsTheirs, Pend, Ready, Gone
<1>6. NothingIsLost'
  BY DEF PipeInv, NothingIsLost, Pend
<1>7. AnswersComeLast'
  BY DEF PipeInv, AnswersComeLast, Pend
<1>8. HangsUpLate'
  BY DEF PipeInv, HangsUpLate, Pend
<1> QED
  BY <1>3, <1>4, <1>5, <1>6, <1>7, <1>8 DEF PipeInv

\* A wait that is cancelled may have ended already: one more piece may have been written.
LEMMA CancelKeeps == PipeInv /\ Cancel => PipeInv'
<1> SUFFICES ASSUME PipeInv, Cancel PROVE PipeInv'
  OBVIOUS
<1> USE PipeAssumption DEF Reading, Writing, Places
<1>1. worker \in Workers
  BY DEF PipeInv, TypeOK, Workers, Ops
<1>2. /\ worker' \in Workers
      /\ worker.at = "accept" => worker'.at = "ended"
      /\ worker.at # "accept" => worker'.at = "disconnect" /\ worker'.late = worker.late
  BY <1>1, GivesUp DEF Cancel, Ops
<1>3. TypeOK'
  <2>1. toClient' \in Seq({"header", "answer"}) /\ Len(toClient') <= Quota
    BY OnePieceMore DEF PipeInv, TypeOK, Cancel, Piece, Ready
  <2> QED
    BY <1>2, <2>1 DEF PipeInv, TypeOK, Workers, Ops, Cancel, GiveUp, GateBack
<1>4. GateIsOnlyForWriting'
  BY DEF PipeInv, GateIsOnlyForWriting, Cancel, GiveUp, GateBack
<1>5. InstanceIsTheirs'
  BY <1>2 DEF PipeInv, InstanceIsTheirs, Cancel, Operating, GiveUp
<1>6. NothingIsLost'
  BY <1>2 DEF NothingIsLost
<1>7. AnswersComeLast'
  BY <1>2 DEF PipeInv, AnswersComeLast, BeforeAnswer, Cancel
<1>8. HangsUpLate'
  BY <1>2 DEF HangsUpLate, Cancel, WaitEnds
<1> QED
  BY <1>3, <1>4, <1>5, <1>6, <1>7, <1>8 DEF PipeInv

\* A client that is gone ends the exchange, and one that came and went is forgotten.
LEMMA BreakKeeps == PipeInv /\ Break => PipeInv'
<1> SUFFICES ASSUME PipeInv, Break PROVE PipeInv'
  OBVIOUS
<1> USE PipeAssumption DEF Reading, Writing, Places
<1>1. worker \in Workers
  BY DEF PipeInv, TypeOK, Workers, Ops
<1>2. /\ worker' \in Workers
      /\ IF worker.at = "accept" /\ ~stop
         THEN worker'.at = "accept"
         ELSE /\ worker.at = "accept" => worker'.at = "ended"
              /\ worker.at # "accept" => worker'.at = "disconnect" /\ worker'.late = worker.late
  BY <1>1, GivesUp, Arrives DEF Break, LostClient, Ops
<1>3. TypeOK'
  <2>1. /\ toServer' \in Seq(Pieces)
        /\ toClient' \in Seq({"header", "answer"}) /\ Len(toClient') <= Quota
    BY EmptyPipe DEF PipeInv, TypeOK, Break, LostClient
  <2> QED
    BY <1>2, <2>1 DEF PipeInv, TypeOK, Workers, Ops, Break, LostClient, GiveUp, GateBack
<1>4. GateIsOnlyForWriting'
  BY DEF PipeInv, GateIsOnlyForWriting, Break, GiveUp, GateBack
<1>5. InstanceIsTheirs'
  BY <1>2 DEF PipeInv, InstanceIsTheirs, Break, LostClient, Gone, Operating, GiveUp
<1>6. NothingIsLost'
  BY <1>2 DEF NothingIsLost, Break, Gone
<1>7. AnswersComeLast'
  BY <1>2 DEF PipeInv, AnswersComeLast, BeforeAnswer, Break, LostClient
<1>8. HangsUpLate'
  BY DEF PipeInv, TypeOK, AnswersComeLast, BeforeAnswer, HangsUpLate, Break, Gone, GiveUp
<1> QED
  BY <1>3, <1>4, <1>5, <1>6, <1>7, <1>8 DEF PipeInv

\* The kernel fails: what is unread is lost, and the worker knows why.
LEMMA FailsKeeps == PipeInv /\ Fails => PipeInv'
<1> SUFFICES ASSUME PipeInv, Fails PROVE PipeInv'
  OBVIOUS
<1> USE PipeAssumption DEF Reading, Writing, Places
<1>1. worker \in Workers
  BY DEF PipeInv, TypeOK, Workers, Ops
<1>2. /\ worker' \in Workers
      /\ worker'.op = "failed"
      /\ worker.at = "accept" => worker'.at = "ended"
      /\ worker.at # "accept" => worker'.at = "disconnect" /\ worker'.late = worker.late
  BY <1>1, GivesUp DEF Fails, Ops
<1>3. TypeOK'
  BY <1>2 DEF PipeInv, TypeOK, Workers, Ops, Fails, GiveUp, GateBack
<1>4. GateIsOnlyForWriting'
  BY <1>2 DEF PipeInv, GateIsOnlyForWriting, Fails, GiveUp, GateBack
<1>5. InstanceIsTheirs'
  BY <1>2 DEF PipeInv, InstanceIsTheirs, Fails, Operating, GiveUp
<1>6. NothingIsLost'
  BY <1>2 DEF NothingIsLost
<1>7. AnswersComeLast'
  BY <1>2 DEF PipeInv, AnswersComeLast, BeforeAnswer, Fails
<1>8. HangsUpLate'
  BY <1>2 DEF HangsUpLate
<1> QED
  BY <1>3, <1>4, <1>5, <1>6, <1>7, <1>8 DEF PipeInv

\* A client is connected: the worker has read nothing of it.
LEMMA AcceptedKeeps == PipeInv /\ Accepted => PipeInv'
<1> SUFFICES ASSUME PipeInv, Accepted PROVE PipeInv'
  OBVIOUS
<1> USE PipeAssumption DEF Reading, Writing, Places
<1>1. worker \in Workers
  BY DEF PipeInv, TypeOK, Workers, Ops
<1>2. /\ worker' \in Workers
      /\ worker'.at = "session"
  BY <1>1, Arrives DEF Accepted
<1>3. TypeOK'
  BY <1>2 DEF PipeInv, TypeOK, Workers, Ops, Accepted, pipeVars
<1>4. GateIsOnlyForWriting'
  BY DEF PipeInv, GateIsOnlyForWriting, Accepted
<1>5. InstanceIsTheirs'
  BY <1>2 DEF PipeInv, InstanceIsTheirs, Accepted, Completes, Ready, pipeVars
<1>6. NothingIsLost'
  BY <1>2 DEF PipeInv, NothingIsLost, HasRead, Accepted, pipeVars
<1>7. AnswersComeLast'
  BY DEF PipeInv, AnswersComeLast, BeforeAnswer, Accepted, pipeVars
<1>8. HangsUpLate'
  BY <1>2 DEF HangsUpLate
<1> QED
  BY <1>3, <1>4, <1>5, <1>6, <1>7, <1>8 DEF PipeInv

\* One of another session is turned away before anything is read.
LEMMA SessionKeeps == PipeInv /\ CheckSession => PipeInv'
<1> SUFFICES ASSUME PipeInv, CheckSession PROVE PipeInv'
  OBVIOUS
<1> USE PipeAssumption DEF Reading, Writing, Places
<1>1. worker \in Workers
  BY DEF PipeInv, TypeOK, Workers, Ops
<1>2. /\ worker' \in Workers
      /\ worker'.at \in {"readHeader", "disconnect"}
  BY <1>1, Arrives DEF CheckSession
<1>3. TypeOK'
  BY <1>2 DEF PipeInv, TypeOK, Workers, Ops, CheckSession, pipeVars
<1>4. GateIsOnlyForWriting'
  BY DEF PipeInv, GateIsOnlyForWriting, CheckSession
<1>5. InstanceIsTheirs'
  BY <1>2 DEF PipeInv, InstanceIsTheirs, CheckSession, pipeVars
<1>6. NothingIsLost'
  BY <1>2 DEF PipeInv, NothingIsLost, HasRead, CheckSession, pipeVars
<1>7. AnswersComeLast'
  BY DEF PipeInv, AnswersComeLast, BeforeAnswer, CheckSession, pipeVars
<1>8. HangsUpLate'
  BY DEF PipeInv, AnswersComeLast, BeforeAnswer, HangsUpLate, CheckSession, pipeVars
<1> QED
  BY <1>3, <1>4, <1>5, <1>6, <1>7, <1>8 DEF PipeInv

\* A header is followed by the body it announces, and a body by its answer.
LEMMA ReadPieceKeeps == PipeInv /\ ReadPiece => PipeInv'
<1> SUFFICES ASSUME PipeInv, ReadPiece PROVE PipeInv'
  OBVIOUS
<1>0. worker \in Workers
  BY DEF PipeInv, TypeOK, Workers, Ops
<1>1. toServer # <<>> /\ toServer \in Seq(Pieces)
  BY DEF ReadPiece, Completes, Ready, Reading, Writing, PipeInv, TypeOK
<1>2. /\ toServer' \in Seq(Pieces) /\ Len(toServer') = Len(toServer) - 1
      /\ Len(toServer) \in Nat /\ Head(toServer) \in Pieces
  BY <1>1 DEF ReadPiece
<1>3. /\ worker' \in Workers
      /\ \/ worker.at = "readBody" /\ worker'.at = "gate"
         \/ worker.at = "readHeader" /\ worker'.at \in {"readBody", "disconnect"}
  <2>1. CASE worker.at = "readBody"
    BY <1>0, <1>2, <2>1, Asks DEF ReadPiece, Places
  <2>2. CASE worker.at = "readHeader" /\ Head(toServer) = "header"
    BY <1>0, <2>2, Moves DEF ReadPiece, Places, Reading, Ops
  <2>3. CASE worker.at = "readHeader" /\ Head(toServer) # "header"
    BY <1>0, <2>3, Arrives DEF ReadPiece, Places
  <2> QED
    BY <2>1, <2>2, <2>3 DEF ReadPiece
<1>4. TypeOK'
  BY <1>2, <1>3 DEF PipeInv, TypeOK, ReadPiece, Workers, Ops
<1>5. NothingIsLost'
  <2> SUFFICES ASSUME here, worker'.at # "disconnect"
               PROVE HasRead[worker'.at] + Len(toServer') = sent
    BY DEF NothingIsLost, ReadPiece
  <2>1. HasRead[worker.at] + Len(toServer) = sent
    BY <1>3 DEF PipeInv, NothingIsLost
  <2>2. HasRead["readHeader"] = 0 /\ HasRead["readBody"] = 1 /\ HasRead["gate"] = 2
    BY DEF HasRead, Places, Reading
  <2>3. HasRead[worker'.at] = HasRead[worker.at] + 1 /\ HasRead[worker.at] \in 0..1
    BY <1>3, <2>2
  <2> QED
    BY <1>2, <2>1, <2>3
<1>6. GateIsOnlyForWriting' /\ InstanceIsTheirs' /\ AnswersComeLast'
  BY <1>3
     DEF PipeInv, GateIsOnlyForWriting, InstanceIsTheirs, AnswersComeLast, BeforeAnswer,
         ReadPiece, Writing
<1>7. HangsUpLate'
  BY DEF PipeInv, AnswersComeLast, BeforeAnswer, HangsUpLate, ReadPiece
<1> QED
  BY <1>4, <1>5, <1>6, <1>7 DEF PipeInv

\* The gate is taken for a request, and the answer is written next.
LEMMA DispatchKeeps == PipeInv /\ Dispatch => PipeInv'
<1> SUFFICES ASSUME PipeInv, Dispatch PROVE PipeInv'
  OBVIOUS
<1> USE PipeAssumption DEF Reading, Writing, Places
<1>1. worker \in Workers
  BY DEF PipeInv, TypeOK, Workers, Ops
<1>2. /\ worker' \in Workers
      /\ worker'.at = "writeHeader"
  BY <1>1, Moves DEF Dispatch, Ops
<1>3. TypeOK'
  BY DEF PipeInv, TypeOK, Dispatch, pipeVars
<1>4. GateIsOnlyForWriting'
  BY <1>2 DEF GateIsOnlyForWriting
<1>5. InstanceIsTheirs'
  BY DEF PipeInv, InstanceIsTheirs, Dispatch, pipeVars
<1>6. NothingIsLost'
  BY DEF PipeInv, NothingIsLost, HasRead, Dispatch, pipeVars
<1>7. AnswersComeLast'
  BY DEF PipeInv, AnswersComeLast, BeforeAnswer, Dispatch, pipeVars
<1>8. HangsUpLate'
  BY <1>2 DEF HangsUpLate
<1> QED
  BY <1>3, <1>4, <1>5, <1>6, <1>7, <1>8 DEF PipeInv

\* The gate goes back with the last piece.
LEMMA WritePieceKeeps == PipeInv /\ WritePiece => PipeInv'
<1> SUFFICES ASSUME PipeInv, WritePiece PROVE PipeInv'
  OBVIOUS
<1> USE PipeAssumption DEF Reading, Writing, Places
<1>1. worker \in Workers
  BY DEF PipeInv, TypeOK, Workers, Ops
<1>2. /\ worker' \in Workers
      /\ worker'.at = (IF worker.at = "writeHeader" THEN "writeBody" ELSE "receipt")
  BY <1>1, Moves, Arrives DEF WritePiece, AfterAnswer, Ops
<1>3. TypeOK'
  <2>1. toClient' \in Seq({"header", "answer"}) /\ Len(toClient') <= Quota
    BY OnePieceMore DEF PipeInv, TypeOK, WritePiece, Completes, Piece, Ready
  <2> QED
    BY <1>2, <2>1 DEF PipeInv, TypeOK, Workers, Ops, WritePiece, GateBack
<1>4. GateIsOnlyForWriting'
  BY <1>2 DEF GateIsOnlyForWriting, WritePiece, GateBack
<1>5. InstanceIsTheirs'
  BY <1>2 DEF PipeInv, InstanceIsTheirs, WritePiece
<1>6. NothingIsLost'
  BY <1>2 DEF PipeInv, NothingIsLost, HasRead, WritePiece
<1>7. AnswersComeLast'
  BY <1>2 DEF AnswersComeLast, BeforeAnswer
<1>8. HangsUpLate'
  BY <1>2 DEF HangsUpLate
<1> QED
  BY <1>3, <1>4, <1>5, <1>6, <1>7, <1>8 DEF PipeInv

\* A receipt is the third piece of a client at least.
LEMMA ReceiptKeeps == PipeInv /\ ReadReceipt => PipeInv'
<1> SUFFICES ASSUME PipeInv, ReadReceipt PROVE PipeInv'
  OBVIOUS
<1> USE PipeAssumption DEF Reading, Writing, Places
<1>1. worker \in Workers
  BY DEF PipeInv, TypeOK, Workers, Ops
<1>2. /\ worker' \in Workers
      /\ worker'.at = "disconnect"
  BY <1>1, Arrives DEF ReadReceipt
<1>3. TypeOK'
  BY <1>2 DEF PipeInv, TypeOK, Workers, Ops, ReadReceipt, Completes, Ready
<1>4. GateIsOnlyForWriting'
  BY DEF PipeInv, GateIsOnlyForWriting, ReadReceipt
<1>5. InstanceIsTheirs'
  BY <1>2 DEF PipeInv, InstanceIsTheirs, ReadReceipt
<1>6. NothingIsLost'
  BY <1>2 DEF NothingIsLost
<1>7. AnswersComeLast'
  BY <1>2 DEF AnswersComeLast, BeforeAnswer
<1>8. HangsUpLate'
  BY
     DEF PipeInv, TypeOK, InstanceIsTheirs, NothingIsLost, HasRead, HangsUpLate, ReadReceipt, Completes, Ready
<1> QED
  BY <1>3, <1>4, <1>5, <1>6, <1>7, <1>8 DEF PipeInv

\* Nothing is left of a client in the pipe that is disconnected.
LEMMA DisconnectKeeps == PipeInv /\ Disconnect => PipeInv'
<1> SUFFICES ASSUME PipeInv, Disconnect PROVE PipeInv'
  OBVIOUS
<1> USE PipeAssumption DEF Reading, Writing, Places
<1>1. worker \in Workers
  BY DEF PipeInv, TypeOK, Workers, Ops
<1>2. /\ worker' \in Workers
      /\ worker'.at = "accept"
  BY <1>1, Arrives DEF Disconnect
<1>3. TypeOK'
  <2>1. /\ toServer' \in Seq(Pieces)
        /\ toClient' \in Seq({"header", "answer"}) /\ Len(toClient') <= Quota
    BY DEF Disconnect
  <2> QED
    BY <1>2, <2>1 DEF PipeInv, TypeOK, Workers, Ops, Disconnect
<1>4. GateIsOnlyForWriting'
  BY DEF PipeInv, GateIsOnlyForWriting, Disconnect
<1>5. InstanceIsTheirs'
  BY <1>2 DEF InstanceIsTheirs, Disconnect
<1>6. NothingIsLost'
  BY DEF NothingIsLost, Disconnect
<1>7. AnswersComeLast'
  BY DEF AnswersComeLast, Disconnect
<1>8. HangsUpLate'
  BY <1>2 DEF HangsUpLate
<1> QED
  BY <1>3, <1>4, <1>5, <1>6, <1>7, <1>8 DEF PipeInv

\* Time runs out where there is a deadline.
LEMMA ExpireKeeps == PipeInv /\ Expire => PipeInv'
<1> SUFFICES ASSUME PipeInv, Expire PROVE PipeInv'
  OBVIOUS
<1> USE PipeAssumption DEF Reading, Writing, Places
<1>1. worker \in Workers
  BY DEF PipeInv, TypeOK, Workers, Ops
<1>2. /\ worker' \in Workers
      /\ worker'.at = worker.at /\ worker'.late
  BY <1>1, IsLate DEF Expire
<1>3. TypeOK'
  BY DEF PipeInv, TypeOK, Expire, pipeVars
<1>4. GateIsOnlyForWriting'
  BY DEF PipeInv, GateIsOnlyForWriting, Expire
<1>5. InstanceIsTheirs'
  BY DEF PipeInv, InstanceIsTheirs, Expire, pipeVars
<1>6. NothingIsLost'
  BY DEF PipeInv, NothingIsLost, Expire, pipeVars
<1>7. AnswersComeLast'
  BY DEF PipeInv, AnswersComeLast, Expire, pipeVars
<1>8. HangsUpLate'
  BY <1>2 DEF HangsUpLate
<1> QED
  BY <1>3, <1>4, <1>5, <1>6, <1>7, <1>8 DEF PipeInv

\* Whoever opens the pipe finds nothing in it.
LEMMA OpenKeeps ==
  ASSUME NEW c \in Clients, PipeInv, Open(c)
  PROVE  PipeInv'
<1>1. /\ instance = "listening" /\ ~here /\ toServer = <<>> /\ toClient = <<>>
      /\ worker.at = "accept" /\ worker' = worker /\ sent' = 0
  BY DEF PipeInv, TypeOK, InstanceIsTheirs, AnswersComeLast, BeforeAnswer, Open
<1>2. HasRead["accept"] = 0
  BY DEF HasRead, Places
<1>3. TypeOK'
  BY PipeAssumption DEF PipeInv, TypeOK, Open
<1>4. NothingIsLost'
  BY <1>1, <1>2 DEF NothingIsLost, Open
<1> QED
  BY <1>1, <1>3, <1>4
     DEF PipeInv, GateIsOnlyForWriting, InstanceIsTheirs, AnswersComeLast, HangsUpLate, Open

\* What a client sends next is what the worker comes to read in its turn.
LEMMA SendKeeps == PipeInv /\ Send => PipeInv'
<1> SUFFICES ASSUME PipeInv, Send PROVE PipeInv'
  OBVIOUS
<1>1. PICK piece \in Pieces : toServer' = Append(toServer, piece)
  BY DEF Send
<1>2. /\ toServer' \in Seq(Pieces)
      /\ Len(toServer') = Len(toServer) + 1 /\ Len(toServer) \in Nat
  BY <1>1 DEF PipeInv, TypeOK
<1>3. TypeOK'
  BY <1>2, PipeAssumption DEF PipeInv, TypeOK, Send
<1>4. NothingIsLost'
  <2>1. HasRead[worker.at] \in Nat
    BY DEF HasRead, PipeInv, TypeOK
  <2> QED
    BY <1>2, <2>1 DEF PipeInv, NothingIsLost, Send
<1>5. InstanceIsTheirs'
  BY DEF PipeInv, InstanceIsTheirs, Send
<1>6. HangsUpLate'
  BY DEF PipeInv, TypeOK, HangsUpLate, Send
<1> QED
  BY <1>3, <1>4, <1>5, <1>6 DEF PipeInv, GateIsOnlyForWriting, AnswersComeLast, Send

\* Reading takes nothing of what the client has sent.
LEMMA ReceiveKeeps == PipeInv /\ Receive => PipeInv'
<1> SUFFICES ASSUME PipeInv, Receive PROVE PipeInv'
  OBVIOUS
<1>1. TypeOK'
  <2>1. toClient' \in Seq({"header", "answer"}) /\ Len(toClient') <= Quota
    <3>1. /\ toClient \in Seq({"header", "answer"}) /\ Len(toClient) <= Quota
          /\ toClient # <<>> /\ toClient' = Tail(toClient)
      BY DEF PipeInv, TypeOK, Receive
    <3> QED
      BY <3>1, PipeAssumption
  <2> QED
    BY <2>1 DEF PipeInv, TypeOK, Receive
<1>2. InstanceIsTheirs' /\ NothingIsLost'
  BY DEF PipeInv, InstanceIsTheirs, NothingIsLost, Receive
<1>3. AnswersComeLast' /\ HangsUpLate'
  BY DEF PipeInv, AnswersComeLast, HangsUpLate, Receive
<1> QED
  BY <1>1, <1>2, <1>3 DEF PipeInv, GateIsOnlyForWriting, Receive

\* Whatever was written to a client that closes its end is gone.
LEMMA CloseKeeps == PipeInv /\ Close => PipeInv'
<1> SUFFICES ASSUME PipeInv, Close PROVE PipeInv'
  OBVIOUS
<1>1. TypeOK'
  BY EmptyPipe DEF PipeInv, TypeOK, Close
<1>2. InstanceIsTheirs' /\ NothingIsLost'
  BY DEF PipeInv, InstanceIsTheirs, NothingIsLost, Close
<1> QED
  BY <1>1, <1>2 DEF PipeInv, GateIsOnlyForWriting, AnswersComeLast, HangsUpLate, Close

LEMMA ClientKeeps == PipeInv /\ Client => PipeInv'
BY OpenKeeps, SendKeeps, ReceiveKeeps, CloseKeeps DEF Client

LEMMA PipeStep == PipeInv /\ [Next]_vars => PipeInv'
<1> SUFFICES ASSUME PipeInv, [Next]_vars PROVE PipeInv'
  OBVIOUS
<1>1. CASE Check \/ Pend \/ Cancel \/ Break
  BY <1>1, CheckKeeps, PendKeeps, CancelKeeps, BreakKeeps
<1>2. CASE Exchange
  BY <1>2, AcceptedKeeps, SessionKeeps, ReadPieceKeeps, WritePieceKeeps, ReceiptKeeps,
     DisconnectKeeps DEF Exchange
<1>3. CASE Dispatch \/ Expire \/ Fails
  BY <1>3, DispatchKeeps, ExpireKeeps, FailsKeeps
<1>4. CASE Shutdown \/ TakeGate \/ ReleaseGate
  <2>1. TypeOK' /\ GateIsOnlyForWriting'
    BY <1>4
       DEF PipeInv, TypeOK, GateIsOnlyForWriting, Shutdown, TakeGate, ReleaseGate, pipeVars
  <2>2. InstanceIsTheirs' /\ NothingIsLost'
    BY <1>4
       DEF PipeInv, InstanceIsTheirs, NothingIsLost, Shutdown, TakeGate, ReleaseGate, pipeVars
  <2>3. AnswersComeLast' /\ HangsUpLate'
    BY <1>4
       DEF PipeInv, AnswersComeLast, HangsUpLate, Shutdown, TakeGate, ReleaseGate, pipeVars
  <2> QED
    BY <2>1, <2>2, <2>3 DEF PipeInv
<1>5. CASE Client
  BY <1>5, ClientKeeps
<1>6. CASE UNCHANGED vars
  BY <1>6
     DEF PipeInv, TypeOK, GateIsOnlyForWriting, InstanceIsTheirs, NothingIsLost,
         AnswersComeLast, HangsUpLate, vars
<1> QED
  BY <1>1, <1>2, <1>3, <1>4, <1>5, <1>6 DEF Next, Work

\* It holds in the beginning, and of a server that has ended.
LEMMA PipeStart == Init \/ PipeHasEnded => PipeInv
<1>1. ASSUME Init PROVE PipeInv
  <2>1. TypeOK
    <3>1. worker \in Workers
      BY <1>1 DEF Init, Workers, Places, Ops, Pieces
    <3>2. 0 \in 0..MaxPieces
      BY PipeAssumption
    <3> QED
      BY <1>1, <3>1, <3>2, EmptyPipe DEF Init, TypeOK, Workers, Ops
  <2> QED
    BY <1>1, <2>1
       DEF Init, PipeInv, GateIsOnlyForWriting, InstanceIsTheirs, NothingIsLost,
           AnswersComeLast, HangsUpLate
<1>2. ASSUME PipeHasEnded PROVE PipeInv
  <2>1. TypeOK
    <3>1. worker \in Workers
      BY <1>2 DEF PipeHasEnded, Workers, Places, Ops, Pieces
    <3>2. 0 \in 0..MaxPieces
      BY PipeAssumption
    <3> QED
      BY <1>2, <3>1, <3>2, EmptyPipe DEF PipeHasEnded, TypeOK, Workers, Ops
  <2> QED
    BY <1>2, <2>1
       DEF PipeHasEnded, PipeInv, GateIsOnlyForWriting, InstanceIsTheirs, NothingIsLost,
           AnswersComeLast, HangsUpLate
<1> QED
  BY <1>1, <1>2

-----------------------------------------------------------------------------
(* The native host.                                                        *)

Results == [kind : {Native!AnswerTo(k) : k \in Native!Kinds}, answers : Ids]
             \cup [kind : {"error"},
                   code : Native!DesktopCodes \cup {"APP_NOT_RUNNING", "IPC_UNAVAILABLE",
                                                    "INVALID_REQUEST"}]

\* A stream with nothing in it, and one with one thing in it.
LEMMA Streams ==
  ASSUME NEW S, NEW x \in S
  PROVE  /\ <<>> \in Seq(S) /\ Len(<<>>) = 0
         /\ <<x>> \in Seq(S) /\ Len(<<x>>) = 1 /\ <<x>> # <<>>
         /\ Head(<<x>>) = x /\ Tail(<<x>>) = <<>> /\ Append(<<>>, x) = <<x>>
OBVIOUS

LEMMA AtMostOne ==
  ASSUME NEW S, NEW s \in Seq(S), s # <<>>, Len(s) <= 1
  PROVE  s = <<Head(s)>> /\ Head(s) \in S /\ Tail(s) = <<>>
<1>1. Len(s) \in Nat \ {0}
  BY EmptySeq
<1>2. Len(s) = 1
  BY <1>1
<1>3. Head(s) \in S
  BY HeadTailProperties
<1>4. Head(s) = s[1]
  OBVIOUS
<1>5. Len(s) = 1 /\ Head(s) = s[1] /\ Head(s) \in S
  BY ONLY <1>2, <1>3, <1>4
<1>6. <<Head(s)>> \in Seq(S) /\ Len(<<Head(s)>>) = 1 /\ <<Head(s)>>[1] = Head(s)
  BY <1>5
<1>7. s = <<Head(s)>>
  BY <1>5, <1>6, SeqEqual
<1>8. Tail(s) \in Seq(S) /\ Len(Tail(s)) = 0
  BY <1>5, HeadTailProperties
<1> QED
  BY <1>5, <1>7, <1>8, EmptySeq

LEMMA MessageForms ==
  ASSUME NEW m \in Native!Messages
  PROVE  /\ m # Native!NoMessage
         /\ m \in Native!Requests <=> m.form = "request"
         /\ m.form = "invalid" => m.id \in Ids
BY DEF Native!Messages, Native!Requests, Native!NoMessage

LEMMA HostForms ==
  ASSUME host \in HostStates
  PROVE  /\ host.at \in {"read", "ended"} \cup Busy
         /\ host.at = "ended" <=> host = Native!Ended
         /\ host.at \in Busy => host.request \in Native!Requests
         /\ host.at = "receipt" => host.response \in Native!Responses
BY DEF HostStates, Busy, Native!Ended

LEMMA IdleForms ==
  /\ Native!Idle \in HostStates /\ Native!Idle.at = "read"
  /\ Native!Ended \in HostStates /\ Native!Ended.at = "ended"
BY DEF HostStates, Native!Idle, Native!Ended

\* The host works on with the request it has.
LEMMA WorksOn ==
  ASSUME host \in HostStates, host.at \in {"connect", "write"},
         NEW p \in {"write", "response"}, host' = [host EXCEPT !.at = p]
  PROVE  host' \in HostStates /\ host'.at = p /\ host'.request = host.request
BY DEF HostStates, Busy

LEMMA Errors ==
  ASSUME NEW code \in Native!DesktopCodes \cup {"APP_NOT_RUNNING", "IPC_UNAVAILABLE", "INVALID_REQUEST"}
  PROVE  Native!Error(code) \in Results /\ Native!Error(code).kind = "error"
BY DEF Results, Native!Error

\* Whatever came through the pipe, what passes is an error or this request's own answer.
LEMMA Validated ==
  ASSUME NEW response \in Native!Responses, NEW request \in Native!Requests
  PROVE  LET result == Native!Validate(response, request)
         IN /\ result \in Results
            /\ \/ result.kind = "error"
               \/ result.kind = Native!AnswerTo(request.kind) /\ result.answers = request.id
BY
   DEF Results, Native!Validate, Native!Responses, Native!Requests, Native!Error,
       Native!DesktopCodes

LEMMA ZeroTime == 0 \in 0..ExchangeTime \cup 0..ConnectTime /\ 0 \in 0..BrowserTime
BY PlatformAssumption DEF Native!HostAssumption

LEMMA StreamsAre ==
  ASSUME HostInv
  PROVE  /\ stdin \in Seq(Native!Messages) /\ stdout \in Seq(Native!Replies)
         /\ stdin # <<>> => /\ \E m \in Native!Messages : stdin = <<m>>
                            /\ Tail(stdin) = <<>> /\ stdout = <<>>
         /\ stdout # <<>> => /\ \E r \in Native!Replies : stdout = <<r>>
                             /\ Tail(stdout) = <<>> /\ stdin = <<>>
<1>1. /\ stdin \in Seq(Native!Messages) /\ stdout \in Seq(Native!Replies)
      /\ Len(stdin) + Len(stdout) <= 1
  BY DEF HostInv, Native!TypeOK
<1>2. /\ Len(stdin) \in Nat /\ (stdin # <<>> => Len(stdin) \in Nat \ {0})
      /\ Len(stdout) \in Nat /\ (stdout # <<>> => Len(stdout) \in Nat \ {0})
  BY <1>1, EmptySeq, LenProperties
<1>3. ASSUME stdin # <<>>
      PROVE  /\ \E m \in Native!Messages : stdin = <<m>>
             /\ Tail(stdin) = <<>> /\ stdout = <<>>
  <2>1. Len(stdin) <= 1 /\ Len(stdout) = 0
    BY <1>1, <1>2, <1>3
  <2>2. \E m \in Native!Messages : stdin = <<m>>
    BY <1>1, <1>3, <2>1, AtMostOne
  <2>3. Tail(stdin) = <<>>
    BY <1>1, <1>3, <2>1, AtMostOne
  <2> QED
    BY <1>2, <2>1, <2>2, <2>3
<1>4. ASSUME stdout # <<>>
      PROVE  /\ \E r \in Native!Replies : stdout = <<r>>
             /\ Tail(stdout) = <<>> /\ stdin = <<>>
  <2>1. Len(stdout) <= 1 /\ Len(stdin) = 0
    BY <1>1, <1>2, <1>4
  <2>2. \E r \in Native!Replies : stdout = <<r>>
    BY <1>1, <1>4, <2>1, AtMostOne
  <2>3. Tail(stdout) = <<>>
    BY <1>1, <1>4, <2>1, AtMostOne
  <2> QED
    BY <1>2, <2>1, <2>2, <2>3
<1> QED
  BY <1>1, <1>3, <1>4

\* A reply to the request in hand is in time, and goes to a browser that waits for it.
LEMMA ReplyKeeps ==
  ASSUME HostInv, host.at \in Busy, NEW result \in Results,
         \/ result.kind = "error"
         \/ result.kind = Native!AnswerTo(host.request.kind) /\ result.answers = host.request.id,
         Native!Reply(result)
  PROVE  HostInv'
<1>1. /\ host.request \in Native!Requests /\ host.request.id \in Ids
      /\ stdin = <<>> /\ stdout = <<>>
  BY HostForms DEF HostInv, Native!Requests
<1>2. PICK reply \in Native!Replies :
         reply = [id |-> host.request.id, result |-> result]
  BY <1>1 DEF Native!Replies, Results
<1>3. reply.id = host.request.id /\ reply.result = result
  BY <1>2
<1>4. left' = 0 /\ browser' = browser /\ pending' = pending /\ timer' = timer /\ stdin' = stdin
  BY DEF Native!Reply
<1>5. CASE browser = "open"
  <2>1. stdout' = <<reply>> /\ host' = Native!Idle
    BY <1>1, <1>2, <1>5, Streams DEF Native!Reply, Native!Write
  <2>2. InWork
    <3>1. Quiet \/ Posted \/ InWork \/ Answered \/ Lost
      BY <1>5 DEF HostInv, OneMessage
    <3>2. host.at # "ended"
      BY DEF Busy
    <3> QED
      BY <3>1, <3>2 DEF Quiet, Posted, Answered, Lost
  <2>3. timer > 0
    BY <2>2, PlatformAssumption DEF InWork, HostInv, Native!TypeOK, Native!HostAssumption
  <2>4. Answers(reply, pending)
    BY <1>3, <2>2 DEF InWork, Answers
  <2>5. Answered'
    BY <1>1, <1>4, <2>1, <2>2, <2>3, <2>4, IdleForms, MessageForms
       DEF InWork, Answered, Busy, Answers, Native!Messages
  <2>6. Native!TypeOK'
    <3>1. /\ stdout' \in Seq(Native!Replies) /\ Len(stdout') = 1
          /\ stdin' \in Seq(Native!Messages) /\ Len(stdin') = 0
      BY <1>1, <1>4, <2>1, Streams, EmptySeq
    <3> QED
      BY <1>4, <3>1, ZeroTime DEF HostInv, Native!TypeOK
  <2> QED
    BY <1>4, <1>5, <2>1, <2>5, <2>6, IdleForms DEF HostInv, OneMessage, Busy
<1>6. CASE browser # "open"
  <2>1. stdout' = stdout /\ host' = Native!Ended
    BY <1>6 DEF Native!Reply, Native!Ended
  <2>2. Native!TypeOK'
    BY <1>4, <2>1, ZeroTime DEF HostInv, Native!TypeOK
  <2> QED
    BY <1>4, <1>6, <2>1, <2>2, IdleForms DEF HostInv, OneMessage, Busy
<1> QED
  BY <1>5, <1>6

LEMMA FailureKeeps ==
  ASSUME HostInv, host.at \in Busy, Native!Unavailable
  PROVE  HostInv'
BY Errors, ReplyKeeps DEF Native!Unavailable

LEMMA ReadMessageKeeps == HostInv /\ Native!ReadMessage => HostInv'
<1> SUFFICES ASSUME HostInv, Native!ReadMessage PROVE HostInv'
  OBVIOUS
<1>1. PICK m \in Native!Messages : stdin = <<m>>
  BY StreamsAre DEF Native!ReadMessage
<1>2. stdin' = <<>> /\ stdout = <<>> /\ Head(stdin) = m
  BY <1>1, StreamsAre DEF Native!ReadMessage
<1>3. browser' = browser /\ pending' = pending /\ timer' = timer /\ host.at = "read"
  BY DEF Native!ReadMessage
<1>4. browser = "open" => pending = m /\ timer = BrowserTime
  <2>1. stdin # <<>> /\ \A p \in Native!Messages : <<p>> = <<m>> => p = m
    BY <1>1
  <2> QED
    BY <1>1, <1>3, <2>1 DEF HostInv, OneMessage, Quiet, Posted, InWork, Answered, Lost, Busy
<1>5. CASE m.form = "request"
  <2>1. host' = [at |-> "connect", request |-> m] /\ left' = ConnectTime /\ stdout' = <<>>
    BY <1>2, <1>5 DEF Native!ReadMessage
  <2>2. m \in Native!Requests
    BY <1>5, MessageForms
  <2>3. host' \in HostStates /\ host'.at = "connect" /\ host'.request = m
    BY <2>1, <2>2 DEF HostStates
  <2>4. Native!TypeOK'
    <3>1. ConnectTime \in 0..ConnectTime
      BY PlatformAssumption DEF Native!HostAssumption
    <3> QED
      BY <1>2, <1>3, <2>1, <3>1, EmptySeq DEF HostInv, Native!TypeOK
  <2>5. browser = "open" => InWork'
    BY <1>2, <1>3, <1>4, <2>1, <2>2, <2>3, PlatformAssumption
       DEF InWork, Busy, Native!HostAssumption
  <2> QED
    BY <1>2, <1>3, <2>1, <2>3, <2>4, <2>5, PlatformAssumption
       DEF HostInv, OneMessage, Native!HostAssumption
<1>6. CASE m.form # "request"
  <2>1. PICK id \in Ids \cup {NoId} : Native!Write(id, Native!Error("INVALID_REQUEST"))
    BY <1>2, <1>6, MessageForms DEF Native!ReadMessage
  <2>2. PICK reply \in Native!Replies : /\ stdout' = <<reply>>
                                       /\ reply.result.kind = "error"
    <3>1. [id |-> id, result |-> Native!Error("INVALID_REQUEST")] \in Native!Replies
      BY Errors DEF Native!Replies, Results
    <3> QED
      BY <1>2, <2>1, <3>1, Errors, Streams DEF Native!Write
  <2>3. left' = left /\ (host' = host \/ host' = Native!Ended)
    BY <1>2, <1>6 DEF Native!ReadMessage
  <2>4. host' \in HostStates /\ host'.at \notin Busy
    BY <1>3, <2>3, IdleForms DEF HostInv, Busy
  <2>5. Native!TypeOK'
    <3>1. Len(stdin') = 0 /\ stdin' \in Seq(Native!Messages)
          /\ stdout' \in Seq(Native!Replies) /\ Len(stdout') = 1
      BY <1>2, <2>2, Streams, EmptySeq
    <3> QED
      BY <1>3, <2>3, <3>1 DEF HostInv, Native!TypeOK
  <2>6. browser = "open" => Answered'
    <3>1. m \notin Native!Requests
      BY <1>6, MessageForms
    <3>2. BrowserTime > 0
      BY PlatformAssumption DEF Native!HostAssumption
    <3> QED
      BY <1>2, <1>3, <1>4, <2>2, <2>4, <3>1, <3>2 DEF Answered, Answers
  <2> QED
    BY <1>3, <2>4, <2>5, <2>6 DEF HostInv, OneMessage, Busy
<1> QED
  BY <1>5, <1>6

LEMMA EndOfInputKeeps == HostInv /\ Native!EndOfInput => HostInv'
BY IdleForms DEF HostInv, Native!TypeOK, OneMessage, Native!EndOfInput, Busy

\* Connected, the host has the time of an exchange; what it waited comes off the rest.
LEMMA GoesOn ==
  ASSUME HostInv, host.at \in {"connect", "write"}, NEW p \in {"write", "response"},
         NEW t \in 0..ExchangeTime \cup 0..ConnectTime,
         host.at = "connect" => t <= ExchangeTime, host.at = "write" => t <= left,
         Native!Go(p, t)
  PROVE  HostInv'
<1>1. host' \in HostStates /\ host'.at = p /\ host'.request = host.request
  BY WorksOn DEF HostInv, Native!Go
<1>2. browser' = browser /\ pending' = pending /\ timer' = timer /\ stdin' = stdin
      /\ stdout' = stdout /\ left' = t
  BY DEF Native!Go
<1>3. Native!TypeOK'
  BY <1>2 DEF HostInv, Native!TypeOK
<1>4. InWork => InWork'
  BY <1>1, <1>2, PlatformAssumption
     DEF InWork, Busy, Native!HostAssumption, HostInv, Native!TypeOK
<1>5. browser = "open" => InWork
  BY DEF HostInv, OneMessage, Quiet, Posted, Answered, Lost, Busy
<1> QED
  BY <1>1, <1>2, <1>3, <1>4, <1>5 DEF HostInv, OneMessage, Busy

LEMMA ConnectKeeps == HostInv /\ Native!Connect => HostInv'
<1> SUFFICES ASSUME HostInv, Native!Connect PROVE HostInv'
  OBVIOUS
<1>1. host.at = "connect" /\ host.request \in Native!Requests /\ host.at \in Busy
  BY HostForms DEF HostInv, Native!Connect, Busy
<1>2. CASE Native!Go("write", ExchangeTime)
  <2>1. ExchangeTime \in 0..ExchangeTime
    BY PlatformAssumption DEF Native!HostAssumption
  <2> QED
    BY <1>1, <1>2, <2>1, GoesOn
<1>3. CASE Native!Reply(Native!AppNotRunning(host.request))
  <2>1. CASE host.request.kind = "status"
    <3>1. "status" \in Native!Kinds /\ Native!AnswerTo("status") = "status"
      BY DEF Native!Kinds, Native!AnswerTo
    <3>2. Native!AppNotRunning(host.request) = [kind |-> "status", answers |-> host.request.id]
      BY <2>1 DEF Native!AppNotRunning
    <3>3. PICK result \in Results : /\ result = Native!AppNotRunning(host.request)
                                    /\ result.kind = Native!AnswerTo(host.request.kind)
                                    /\ result.answers = host.request.id
      BY <1>1, <2>1, <3>1, <3>2 DEF Results, Native!Requests
    <3> QED
      BY <1>1, <1>3, <3>3, ReplyKeeps
  <2>2. CASE host.request.kind # "status"
    BY <1>1, <1>3, <2>2, Errors, ReplyKeeps DEF Native!AppNotRunning
  <2> QED
    BY <2>1, <2>2
<1>4. CASE Native!Unavailable
  BY <1>1, <1>4, FailureKeeps
<1> QED
  BY <1>2, <1>3, <1>4 DEF Native!Connect

LEMMA WriteRequestKeeps == HostInv /\ Native!WriteRequest => HostInv'
<1> SUFFICES ASSUME HostInv, Native!WriteRequest PROVE HostInv'
  OBVIOUS
<1>1. PICK t \in 0..ExchangeTime \cup 0..ConnectTime : t = left
  BY DEF HostInv, Native!TypeOK
<1>2. Native!Go("response", t) /\ host.at = "write" /\ t <= left
  BY <1>1, PlatformAssumption
     DEF Native!WriteRequest, Native!RestOfTime, Native!HostAssumption
<1> QED
  BY <1>2, GoesOn

\* Whatever the response, the time runs on.
LEMMA ReadResponseKeeps == HostInv /\ Native!ReadResponse => HostInv'
<1> SUFFICES ASSUME HostInv, Native!ReadResponse PROVE HostInv'
  OBVIOUS
<1>1. /\ browser' = browser /\ pending' = pending /\ timer' = timer /\ stdin' = stdin
      /\ stdout' = stdout /\ left' = left /\ host.at = "response"
  BY DEF Native!ReadResponse, Native!RestOfTime
<1>2. host' \in HostStates /\ host'.at = "receipt" /\ host'.request = host.request
  BY <1>1, HostForms DEF HostInv, HostStates, Busy, Native!ReadResponse
<1>3. browser = "open" => InWork
  BY <1>1 DEF HostInv, OneMessage, Quiet, Posted, Answered, Lost, Busy
<1> QED
  BY <1>1, <1>2, <1>3 DEF HostInv, Native!TypeOK, OneMessage, InWork, Busy

LEMMA WriteReceiptKeeps == HostInv /\ Native!WriteReceipt => HostInv'
<1> SUFFICES ASSUME HostInv, Native!WriteReceipt PROVE HostInv'
  OBVIOUS
<1>1. /\ host.at \in Busy
      /\ host.request \in Native!Requests /\ host.response \in Native!Responses
  BY HostForms DEF HostInv, Native!WriteReceipt, Busy
<1>2. PICK result \in Results :
         /\ result = Native!Validate(host.response, host.request)
         /\ \/ result.kind = "error"
            \/ result.kind = Native!AnswerTo(host.request.kind) /\ result.answers = host.request.id
  BY <1>1, Validated
<1>3. CASE Native!Reply(result)
  BY <1>1, <1>2, <1>3, ReplyKeeps
<1>4. CASE Native!Reply(Native!Error("INTERNAL_ERROR"))
  BY <1>1, <1>4, Errors, ReplyKeeps DEF Native!DesktopCodes
<1> QED
  BY <1>2, <1>3, <1>4 DEF Native!WriteReceipt

LEMMA HostFails ==
  HostInv /\ (Native!ExchangeFails \/ Native!GiveUp) => HostInv'
BY FailureKeeps
   DEF Native!ExchangeFails, Native!GiveUp, Native!TimeRunsOut, Native!Exchanging, Busy

\* A message is lost with the host, and an answer that was written is not.
LEMMA KilledKeeps == HostInv /\ Native!Killed => HostInv'
<1> SUFFICES ASSUME HostInv, Native!Killed PROVE HostInv'
  OBVIOUS
<1>1. /\ browser' = browser /\ pending' = pending /\ timer' = timer /\ stdin' = stdin
      /\ stdout' = stdout /\ left' = 0 /\ host' = Native!Ended
  BY DEF Native!Killed
<1>2. Native!TypeOK'
  BY <1>1, ZeroTime DEF HostInv, Native!TypeOK
<1>3. OneMessage'
  BY <1>1, IdleForms
     DEF HostInv, OneMessage, Quiet, Posted, InWork, Answered, Lost, Busy, Native!Messages
<1> QED
  BY <1>1, <1>2, <1>3, IdleForms DEF HostInv, Busy

LEMMA PostKeeps ==
  ASSUME HostInv, NEW message \in Native!Messages, Native!Post(message)
  PROVE  HostInv'
<1>1. host.at = "read"
  BY HostForms
     DEF HostInv, OneMessage, Native!Post, Quiet, Posted, InWork, Answered, Lost, Busy,
         Native!Messages, Native!Requests, Native!NoMessage
<1>2. stdin = <<>> /\ stdout = <<>>
  BY MessageForms
     DEF HostInv, OneMessage, Native!Post, Quiet, Posted, InWork, Answered, Lost,
         Native!Messages
<1>3. /\ stdin' = <<message>> /\ stdin' \in Seq(Native!Messages) /\ Len(stdin') = 1
      /\ stdout' \in Seq(Native!Replies) /\ Len(stdout') = 0
  BY <1>2, Streams, EmptySeq DEF Native!Post
<1>4. Native!TypeOK'
  BY <1>3, PlatformAssumption DEF HostInv, Native!TypeOK, Native!Post, Native!HostAssumption
<1>5. Posted'
  BY <1>1, <1>2, <1>3 DEF Posted, Native!Post, Busy
<1> QED
  BY <1>1, <1>4, <1>5 DEF HostInv, OneMessage, Native!Post, Busy

\* The end of the extension's wait, however it comes.
LEMMA ClosesKeeps ==
  ASSUME HostInv, NEW how \in {"left", "told", "gaveUp"}, Native!CloseAs(how),
         UNCHANGED <<stdin, host, left>>, stdout' = stdout \/ (stdout # <<>> /\ stdout' = Tail(stdout))
  PROVE  HostInv'
<1>1. stdout' = stdout \/ (stdout' = <<>> /\ stdout # <<>> /\ stdin = <<>>)
  BY StreamsAre
<1>2. stdin' \in Seq(Native!Messages) /\ stdout' \in Seq(Native!Replies) /\ Len(stdin') + Len(stdout') <= 1
  BY <1>1, EmptySeq DEF HostInv, Native!TypeOK
<1>3. Native!TypeOK'
  BY <1>2, ZeroTime DEF HostInv, Native!TypeOK, Native!CloseAs
<1> QED
  BY <1>1, <1>3 DEF HostInv, OneMessage, Native!CloseAs

LEMMA ReceiveReplyKeeps == HostInv /\ Native!Receive => HostInv'
<1> SUFFICES ASSUME HostInv, Native!Receive PROVE HostInv'
  OBVIOUS
<1>1. CASE Native!CloseAs("gaveUp") \/ Native!CloseAs("told")
  BY <1>1, ClosesKeeps DEF Native!Receive
<1>2. CASE pending' = Native!NoMessage /\ timer' = 0 /\ UNCHANGED browser
  <2>1. stdin' = <<>> /\ stdout' = <<>> /\ stdin = <<>>
    BY StreamsAre DEF Native!Receive
  <2>2. host'.at \notin Busy /\ host' = host /\ left' = left
    BY DEF HostInv, Native!Receive
  <2>3. Native!TypeOK'
    BY <1>2, <2>1, ZeroTime, EmptySeq DEF HostInv, Native!TypeOK, Native!Receive
  <2> QED
    BY <1>2, <2>1, <2>2, <2>3 DEF HostInv, OneMessage, Quiet
<1> QED
  BY <1>1, <1>2 DEF Native!Receive

LEMMA TickKeeps == HostInv /\ Native!Tick => HostInv'
<1> SUFFICES ASSUME HostInv, Native!Tick PROVE HostInv'
  OBVIOUS
<1>1. browser' = browser /\ pending' = pending /\ stdin' = stdin /\ stdout' = stdout /\ host' = host
  BY DEF Native!Tick
<1>2. /\ left \in Nat /\ timer \in 0..BrowserTime /\ left \in 0..ExchangeTime \cup 0..ConnectTime
      /\ BrowserTime \in Nat /\ ConnectTime \in Nat /\ ExchangeTime \in Nat
  BY PlatformAssumption DEF HostInv, Native!TypeOK, Native!HostAssumption
<1>3. left' \in 0..ExchangeTime \cup 0..ConnectTime /\ timer' \in 0..BrowserTime /\ left' <= left
  BY <1>2 DEF Native!Tick, Native!Less
<1>4. Native!TypeOK'
  BY <1>1, <1>3 DEF HostInv, Native!TypeOK
<1>5. InWork => InWork'
  <2> SUFFICES ASSUME InWork PROVE InWork'
    OBVIOUS
  <2>1. left > 0 /\ timer > 0
    <3>1. host # Native!Ended /\ pending # Native!NoMessage /\ Native!TimeRunsOut
      BY HostForms, MessageForms
         DEF HostInv, InWork, Native!TimeRunsOut, Native!Exchanging, Busy, Native!Messages
    <3> QED
      BY <3>1 DEF Native!Tick
  <2>2. left' = left - 1 /\ timer' = timer - 1
    BY <1>2, <2>1 DEF Native!Tick, Native!Less
  <2> QED
    BY <1>1, <1>2, <2>2 DEF InWork
<1>6. browser = "open" => InWork \/ host.at = "ended"
  BY HostForms DEF HostInv, Native!Tick, OneMessage, Quiet, Posted, Answered, Lost, Busy
<1>7. OneMessage => OneMessage'
  BY <1>1, <1>5, <1>6 DEF OneMessage, Quiet, Posted, Answered, Lost
<1> QED
  BY <1>1, <1>2, <1>3, <1>4, <1>7 DEF HostInv, Busy

LEMMA HostStep == HostInv /\ [Native!Next]_hostVars => HostInv'
<1> SUFFICES ASSUME HostInv, [Native!Next]_hostVars PROVE HostInv'
  OBVIOUS
<1>1. CASE Native!Host
  BY <1>1, ReadMessageKeeps, EndOfInputKeeps, ConnectKeeps, WriteRequestKeeps,
     ReadResponseKeeps, WriteReceiptKeeps, HostFails DEF Native!Host
<1>2. CASE Native!GiveUp \/ Native!Killed \/ Native!Tick
  BY <1>2, HostFails, KilledKeeps, TickKeeps
<1>3. CASE \E message \in Native!Messages : Native!Post(message)
  BY <1>3, PostKeeps
<1>4. CASE Native!Receive
  BY <1>4, ReceiveReplyKeeps
<1>5. CASE Native!Disconnected \/ Native!TimeOut \/ Native!Leave
  BY <1>5, ClosesKeeps DEF Native!Disconnected, Native!TimeOut, Native!Leave
<1>6. CASE UNCHANGED hostVars
  BY <1>6
     DEF hostVars, HostInv, Native!TypeOK, OneMessage, Quiet, Posted, InWork, Answered, Lost
<1> QED
  BY <1>1, <1>2, <1>3, <1>4, <1>5, <1>6 DEF Native!Next

LEMMA HostStart == Native!Init => HostInv
BY ZeroTime, EmptySeq, IdleForms
   DEF Native!Init, HostInv, Native!TypeOK, OneMessage, Quiet, Busy, Native!Idle

LEMMA AnswersOwn == HostInv => Native!AnswersAreOwn
<1> SUFFICES ASSUME HostInv, NEW i \in DOMAIN stdout,
                    browser = "open", stdout[i].result.kind # "error"
             PROVE  /\ pending.form = "request" /\ stdout[i].id = pending.id
                    /\ stdout[i].result.answers = pending.id
                    /\ stdout[i].result.kind = Native!AnswerTo(pending.kind)
  BY DEF Native!AnswersAreOwn
<1>1. PICK reply \in Native!Replies : stdout = <<reply>> /\ Answers(reply, pending)
  <2>1. stdout # <<>>
    OBVIOUS
  <2> QED
    BY <2>1 DEF HostInv, OneMessage, Quiet, Posted, InWork, Answered, Lost
<1>2. stdout[i] = reply
  BY <1>1
<1> QED
  BY <1>1, <1>2, MessageForms DEF Answers, Native!Messages

\* The extension gives up on a request only when the host has ended.
LEMMA AnsweredInTime ==
  HostInv /\ [Native!Next]_hostVars
    => ((pending \in Native!Requests /\ host # Native!Ended) => (browser' # "gaveUp"))
<1> SUFFICES ASSUME HostInv, [Native!Next]_hostVars, pending \in Native!Requests, host # Native!Ended
             PROVE  browser' # "gaveUp"
  OBVIOUS
<1>1. /\ pending \in Native!Messages /\ pending # Native!NoMessage
      /\ browser = "open" /\ host.at # "ended"
  BY MessageForms, HostForms DEF HostInv, Native!Messages
<1>2. (Posted /\ host.at = "read") \/ InWork \/ (Answered /\ host.at = "read")
  BY <1>1, HostForms DEF HostInv, OneMessage, Quiet, Posted, InWork, Answered, Lost, Busy
<1>3. timer > 0
  BY <1>2, PlatformAssumption
     DEF Posted, InWork, Answered, HostInv, Native!TypeOK, Native!HostAssumption
<1>4. ASSUME Native!Receive PROVE browser' # "gaveUp"
  <2>1. PICK reply \in Native!Replies : stdout = <<reply>> /\ Answers(reply, pending)
    BY <1>2, <1>4 DEF Posted, InWork, Answered, Native!Receive
  <2>2. Native!Understood(Head(stdout))
    BY <1>1, <2>1, MessageForms DEF Native!Understood, Answers
  <2> QED
    BY <1>1, <1>4, <2>2 DEF Native!Receive, Native!CloseAs
<1>5. ASSUME Native!Host \/ Native!GiveUp PROVE browser' # "gaveUp"
  BY <1>1, <1>5
     DEF Native!Host, Native!GiveUp, Native!Unavailable, Native!Reply, Native!Go,
         Native!ReadMessage, Native!EndOfInput, Native!Connect, Native!WriteRequest,
         Native!ReadResponse, Native!WriteReceipt, Native!ExchangeFails
<1>6. ASSUME Native!Killed \/ Native!Tick \/ Native!Leave
             \/ (\E message \in Native!Messages : Native!Post(message)) \/ UNCHANGED hostVars
      PROVE  browser' # "gaveUp"
  BY <1>1, <1>6
     DEF Native!Killed, Native!Tick, Native!Leave, Native!CloseAs, Native!Post, hostVars
<1>7. ~Native!Disconnected /\ ~Native!TimeOut
  BY <1>3 DEF Native!Disconnected, Native!TimeOut
<1> QED
  BY <1>4, <1>5, <1>6, <1>7 DEF Native!Next

-----------------------------------------------------------------------------
(* The session monitor.                                                    *)

LEMMA SetUpKeeps == MonitorInv /\ Session!SetUp => MonitorInv'
BY
   DEF MonitorInv, Session!SetUp, Session!MonitorFails, Session!TypeOK, Session!keyNest,
       Notified, Started

\* What is registered last is what Windows notifies; whatever fails takes it all back.
LEMMA RegisterKeeps ==
  ASSUME MonitorInv,
         \/ Session!Register("class", "class", "window")
         \/ Session!Register("window", "window", "notify")
         \/ Session!Register("notify", "notification", "pump")
  PROVE  MonitorInv'
<1>1. /\ monitor.at \in {"class", "window", "notify"}
      /\ \/ monitor.at = "notify" /\ monitor' = [at |-> "pump"]
            /\ registered' = registered \cup {"notification"}
         \/ \E p \in {"window", "notify"}, what \in {"class", "window"} :
               monitor' = [at |-> p] /\ registered' = registered \cup {what}
         \/ monitor' = [at |-> "gone"] /\ registered' = {}
  BY DEF Session!Register, Session!CleanUp, Session!MonitorAt
<1>2. ui' = ui /\ queue' = queue /\ sessionGate' = sessionGate /\ session' = session
      /\ lockOnSleep' = lockOnSleep /\ build' = build
  BY DEF Session!Register, Session!keyNest
<1>3. Session!TypeOK'
  <2>1. registered' \subseteq {"class", "window", "notification"}
    BY <1>1 DEF MonitorInv, Session!TypeOK
  <2>2. monitor' \in [at : {"window", "notify", "pump", "gone"}]
    BY <1>1
  <2> QED
    BY <1>2, <2>1, <2>2 DEF MonitorInv, Session!TypeOK
<1>4. /\ "notification" \in registered' <=> monitor'.at \in Notified
      /\ monitor'.at \in {"none", "gone"} => registered' = {}
      /\ monitor'.at # "close"
  BY <1>1 DEF MonitorInv, Notified
<1> QED
  BY <1>1, <1>2, <1>3, <1>4 DEF MonitorInv, Notified, Started

LEMMA PumpKeeps == MonitorInv /\ Session!Pump => MonitorInv'
<1> SUFFICES ASSUME MonitorInv, Session!Pump PROVE MonitorInv'
  OBVIOUS
<1>1. queue \in Seq(Session!Messages \cup {Session!Close}) /\ queue # <<>>
  BY DEF MonitorInv, Session!TypeOK, Session!Pump
<1>2. /\ queue' \in Seq(Session!Messages \cup {Session!Close})
      /\ \A i \in 1..Len(queue') : i + 1 \in 1..Len(queue) /\ queue'[i] = queue[i + 1]
      /\ 1 \in 1..Len(queue) /\ Head(queue) = queue[1]
  BY <1>1 DEF Session!Pump
<1>3. PICK message \in Session!Messages \cup {Session!Close} : message = Head(queue)
  BY <1>1, HeadTailProperties
<1>4. /\ message = Session!Close => monitor' = [at |-> "close"]
      /\ message # Session!Close =>
            \/ monitor' = monitor
            \/ monitor' = [at |-> "queue", message |-> message]
               /\ message \in Session!SessionLocks \cup Session!PowerChanges
  <2>1. CASE message = Session!Close
    BY <1>3, <2>1
       DEF Session!Pump, Session!MonitorAt, Session!LockTrigger, Session!SessionLocks,
           Session!PowerChanges, Session!Close
  <2>2. CASE message # Session!Close /\ Session!LockTrigger(message)
    BY <1>3, <2>2 DEF Session!Pump, Session!LockTrigger
  <2>3. CASE message # Session!Close /\ ~Session!LockTrigger(message)
    BY <1>3, <2>3 DEF Session!Pump
  <2> QED
    BY <2>1, <2>2, <2>3
<1>5. monitor' = monitor
      \/ (monitor' = [at |-> "close"] /\ ui \in {"exiting", "ended"})
      \/ \E m \in Session!SessionLocks \cup Session!PowerChanges :
            monitor' = [at |-> "queue", message |-> m]
  BY <1>2, <1>3, <1>4 DEF MonitorInv
<1>6. Session!TypeOK'
  BY <1>2, <1>5 DEF MonitorInv, Session!TypeOK, Session!Pump, Session!keyNest
<1>7. monitor.at = "pump" /\ monitor'.at \in {"pump", "queue", "close"}
      /\ (monitor'.at = "close" => ui \in {"exiting", "ended"})
  BY <1>5 DEF Session!Pump
<1>8. ui \notin {"exiting", "ended"} => \A i \in 1..Len(queue') : queue'[i] # Session!Close
  BY <1>2 DEF MonitorInv
<1> QED
  BY <1>6, <1>7, <1>8 DEF MonitorInv, Session!Pump, Notified, Started

LEMMA MonitorWorksKeep ==
  MonitorInv /\ (Session!MonitorLocks \/ Session!MonitorClears \/ Session!MonitorCloses)
    => MonitorInv'
<1> USE DEF MonitorInv, Session!TypeOK, Session!MonitorAt, Session!keyNest, Notified, Started
<1>1. ASSUME MonitorInv, Session!MonitorLocks PROVE MonitorInv'
  BY <1>1 DEF Session!MonitorLocks
<1>2. ASSUME MonitorInv, Session!MonitorClears PROVE MonitorInv'
  BY <1>2 DEF Session!MonitorClears
<1>3. ASSUME MonitorInv, Session!MonitorCloses PROVE MonitorInv'
  BY <1>3 DEF Session!MonitorCloses, Session!CleanUp
<1> QED
  BY <1>1, <1>2, <1>3

LEMMA EventLoopKeeps ==
  MonitorInv /\ (Session!ResumeBegins \/ Session!ResumeLocks \/ Session!ExitEnds) => MonitorInv'
BY
   DEF MonitorInv, Session!ResumeBegins, Session!ResumeLocks, Session!ExitEnds,
       Session!TypeOK, Session!keyNest, Notified, Started

LEMMA ExitKeeps == MonitorInv /\ Session!Exit => MonitorInv'
BY
   DEF MonitorInv, Session!Exit, Session!AskToClose, Session!TypeOK, Session!keyNest,
       Notified, Started

LEMMA CommandsKeep ==
  MonitorInv /\ (Session!CommandBegins \/ Session!CommandEnds) => MonitorInv'
BY DEF MonitorInv, Session!CommandBegins, Session!CommandEnds, Session!TypeOK, Session!keyNest

LEMMA NotifyKeeps ==
  ASSUME MonitorInv, NEW message \in Session!Messages, Session!Notify(message)
  PROVE  MonitorInv'
<1>1. queue' \in Seq(Session!Messages \cup {Session!Close})
  BY DEF MonitorInv, Session!TypeOK, Session!Notify
<1>2. message # Session!Close
  BY DEF Session!Messages, Session!SessionLocks, Session!PowerChanges, Session!Close
<1>3. \A i \in 1..Len(queue') : queue'[i] = message \/ (i \in 1..Len(queue) /\ queue'[i] = queue[i])
  BY DEF MonitorInv, Session!TypeOK, Session!Notify
<1> QED
  BY <1>1, <1>2, <1>3 DEF MonitorInv, Session!TypeOK, Session!Notify, Session!keyNest

LEMMA MonitorStep == MonitorInv /\ [Session!Next]_monitorVars => MonitorInv'
<1> SUFFICES ASSUME MonitorInv, [Session!Next]_monitorVars PROVE MonitorInv'
  OBVIOUS
<1>1. CASE UNCHANGED monitorVars
  BY <1>1 DEF monitorVars, MonitorInv, Session!TypeOK
<1>2. CASE Session!Monitor
  BY <1>2, RegisterKeeps, PumpKeeps, MonitorWorksKeep DEF Session!Monitor
<1> QED
  BY <1>1, <1>2, SetUpKeeps, MonitorWorksKeep, EventLoopKeeps, ExitKeeps, CommandsKeep,
     NotifyKeeps DEF Session!Next

LEMMA MonitorStart == Session!Init \/ MonitorHasEnded => MonitorInv
<1>1. <<>> \in Seq(Session!Messages \cup {Session!Close}) /\ Len(<<>>) = 0
  BY EmptySeq
<1>2. ASSUME Session!Init PROVE MonitorInv
  BY <1>1, <1>2 DEF Session!Init, MonitorInv, Session!TypeOK, Notified, Started
<1>3. ASSUME MonitorHasEnded PROVE MonitorInv
  <2>1. build \in Builds
    BY <1>3, PlatformAssumption DEF MonitorHasEnded, Session!MonitorAssumption
  <2> QED
    BY <1>1, <1>3, <2>1 DEF MonitorHasEnded, MonitorInv, Session!TypeOK, Notified, Started
<1> QED
  BY <1>2, <1>3

-----------------------------------------------------------------------------
(* The three parts.                                                        *)

LEMMA PlatformSteps ==
  [PlatformNext]_platformVars
    => [Next]_vars /\ [Native!Next]_hostVars /\ [Session!Next]_monitorVars
BY DEF PlatformNext, platformVars

\* The invariants of the three parts hold whichever of them a behaviour follows.
THEOREM PlatformInvariant == PlatformSpec => []Inv
<1>1. PlatformInit => Inv
  BY PipeStart, HostStart, MonitorStart DEF PlatformInit, Inv
<1>2. Inv /\ [PlatformNext]_platformVars => Inv'
  BY PlatformSteps, PipeStep, HostStep, MonitorStep DEF Inv
<1> QED
  BY <1>1, <1>2, PTL DEF PlatformSpec

\* The gate is the pipe's only while an answer is written, the extension gets its own
\* answer to a request, and while KeyNest is open Windows can tell it to lock, for any
\* number of clients and any times.
THEOREM PlatformStaysSound == PlatformSpec => []PlatformIsSound
<1>1. PipeInv => TypeOK /\ GateIsOnlyForWriting
  BY DEF PipeInv
<1>2. HostInv => Native!TypeOK /\ Native!AnswersAreOwn
  BY AnswersOwn DEF HostInv
<1>3. MonitorInv => Session!TypeOK /\ Session!OpenIsMonitored /\ Session!NothingStaysRegistered
  BY
     DEF MonitorInv, Session!OpenIsMonitored, Session!NothingStaysRegistered, Session!Running,
         Notified, Started
<1>4. Inv => PlatformIsSound
  BY <1>1, <1>2, <1>3 DEF Inv, PlatformIsSound
<1> QED
  BY <1>4, PlatformInvariant, PTL

\* The worker hangs up on an unread answer only when its time is up, KeyNest ends, the
\* kernel fails, or the client has sent more than its request.
LEMMA HangsUp ==
  PipeInv /\ Disconnect /\ here /\ "answer" \in {toClient[i] : i \in DOMAIN toClient}
    => (stop \/ worker.late \/ worker.op = "failed" \/ sent > 2)
BY DEF PipeInv, HangsUpLate, Disconnect

\* An answer that is still queued when the stop event is set: what follows.
NothingWritten ==
    /\ stop
    /\ toClient = <<>>
    /\ \/ worker.at \in {"gate", "disconnect", "ended"}
       \/ worker.at \in {"writeHeader", "accept"} /\ worker.op = "check"

LEMMA NothingIsWritten ==
  PipeInv /\ NothingWritten /\ [Next]_vars => NothingWritten'
<1> SUFFICES ASSUME PipeInv, NothingWritten, [Next]_vars PROVE NothingWritten'
  OBVIOUS
<1>1. worker \in Workers
  BY DEF PipeInv, TypeOK, Workers, Ops
<1>2. ASSUME Work PROVE NothingWritten'
  <2>1. CASE Check
    <3>1. GiveUp("check") /\ toClient' = toClient /\ stop' = stop
      BY <2>1 DEF NothingWritten, Check, Refused
    <3>2. worker'.at \in {"ended", "disconnect"}
      BY <1>1, <3>1, GivesUp DEF Ops
    <3> QED
      BY <3>1, <3>2 DEF NothingWritten
  <2>2. CASE Disconnect
    BY <2>2 DEF NothingWritten, Disconnect, At
  <2> QED
    BY <1>2, <2>1, <2>2
       DEF NothingWritten, Work, Pend, Cancel, Break, Exchange, Accepted, CheckSession,
           ReadPiece, WritePiece, ReadReceipt, Completes, Operating, Reading, Writing
<1>3. ASSUME Dispatch PROVE NothingWritten'
  <2>1. worker'.at = "writeHeader" /\ worker'.op = "check"
    BY <1>1, <1>3 DEF Dispatch, Workers
  <2> QED
    BY <1>3, <2>1 DEF NothingWritten, Dispatch, pipeVars
<1>4. ASSUME Expire PROVE NothingWritten'
  <2>1. worker'.at = worker.at
    BY <1>1, <1>4, IsLate DEF Expire
  <2>2. worker'.op = worker.op
    BY <1>1, <1>4 DEF Expire, Workers
  <2> QED
    BY <1>4, <2>1, <2>2 DEF NothingWritten, Expire, pipeVars
<1>5. ASSUME Shutdown \/ TakeGate \/ ReleaseGate \/ UNCHANGED vars PROVE NothingWritten'
  BY <1>5 DEF NothingWritten, Shutdown, TakeGate, ReleaseGate, pipeVars, vars
<1>6. ASSUME Client PROVE NothingWritten'
  BY <1>6 DEF NothingWritten, Client, Open, Send, Receive, Close
<1>7. ~Fails
  BY DEF NothingWritten, Fails, Operating, Reading, Writing
<1> QED
  BY <1>2, <1>3, <1>4, <1>5, <1>6, <1>7 DEF Next

\* No answer is thrown away before its client could read it, a queued one is dropped at a
\* stop, and the extension has an answer before it gives up, whatever the times are as
\* long as the host's add up to less than the extension's.
THEOREM AnswersDoGetThrough == PlatformSpec => AnswersGetThrough
<1>1. PipeInv /\ [Next]_vars
        => [(Disconnect /\ here /\ "answer" \in {toClient[i] : i \in DOMAIN toClient})
               => (stop \/ worker.late \/ worker.op = "failed" \/ sent > 2)]_vars
  BY HangsUp
<1>2. HostInv /\ [Native!Next]_hostVars
        => [(pending \in Native!Requests /\ host # Native!Ended)
               => (browser' # "gaveUp")]_(Native!vars)
  BY AnsweredInTime
<1>3. PipeInv /\ stop /\ worker.at = "gate" => NothingWritten
  BY DEF PipeInv, AnswersComeLast, BeforeAnswer, NothingWritten
<1>4. NothingWritten => toClient = <<>>
  BY DEF NothingWritten
<1>5. PlatformSpec => [](PipeInv /\ HostInv) /\ [][PlatformNext]_platformVars
  BY PlatformInvariant, PTL DEF PlatformSpec, Inv
<1>6. PlatformSpec => UnreadAnswersAreKept
  BY <1>1, <1>5, PlatformSteps, PTL DEF UnreadAnswersAreKept
<1>7. PlatformSpec => Native!RequestsAreAnswered
  BY <1>2, <1>5, PlatformSteps, PTL DEF Native!RequestsAreAnswered
<1>8. PlatformSpec => QueuedAnswersAreDropped
  BY <1>3, <1>4, <1>5, PlatformSteps, NothingIsWritten, PTL DEF QueuedAnswersAreDropped
<1> QED
  BY <1>6, <1>7, <1>8 DEF AnswersGetThrough
=============================================================================
