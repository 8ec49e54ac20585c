----------------------------- MODULE NativeHost -----------------------------
(***************************************************************************)
(* The native messaging host (autofill/native_host.rs), a process the      *)
(* browser starts: it takes a request of the extension from its standard   *)
(* input, forwards it over the pipe (autofill_pipe/client.rs), validates   *)
(* what comes back (autofill/response.rs) and writes a reply of its own.   *)
(* The extension (native-client.js) has one request pending and gives up   *)
(* after a time.                                                           *)
(*                                                                         *)
(* Time passes while the host waits for the pipe, and only then; the unit  *)
(* is a quarter of a second.                                               *)
(***************************************************************************)
EXTENDS Naturals, Sequences

CONSTANTS Ids,           \* ids of requests
          ConnectTime,   \* how long a busy pipe is tried (750 ms)
          ExchangeTime,  \* how long one exchange may take (10 s)
          BrowserTime,   \* how long the extension waits (12 s)
          NoId           \* in place of an id nobody could read

\* The extension waits longer than the host may take (native-client.js:61).
HostAssumption == /\ {ConnectTime, ExchangeTime, BrowserTime} \subseteq Nat
                  /\ ConnectTime + ExchangeTime < BrowserTime
                  /\ NoId \notin Ids

VARIABLES browser,   \* the extension's end: open, left, told of an error, or given up
          pending,   \* the message the extension waits on
          timer,     \* how long it still waits
          stdin,     \* messages to the host
          stdout,    \* replies of the host
          host,      \* where the host is
          left       \* how much time it still has

vars == <<browser, pending, timer, stdin, stdout, host, left>>

Kinds == {"status", "queryMatches", "requestFill", "requestHostApproval"}

\* Besides requests there may be messages that are none: with an id that can be read,
\* without, and such that the next one cannot be found in the stream.
Requests == [form : {"request"}, id : Ids, kind : Kinds]
Messages == Requests \cup [form : {"invalid"}, id : Ids] \cup [form : {"unreadable", "badFrame"}]
NoMessage == [form |-> "none"]

AnswerTo(kind) == CASE kind = "status" -> "status"
                    [] kind = "queryMatches" -> "matches"
                    [] kind = "requestFill" -> "fillPayload"
                    [] kind = "requestHostApproval" -> "hostApprovalRequested"

DesktopCodes == {"VAULT_LOCKED", "INTERNAL_ERROR"}
Error(code) == [kind |-> "error", code |-> code]

\* What may come back through the pipe: of the right form or not, with the id of this
\* request or of another one.
Responses == [ok : {TRUE}, id : Ids, kind : {AnswerTo(k) : k \in Kinds}, sound : BOOLEAN]
               \cup [ok : {FALSE}, id : Ids, code : DesktopCodes \cup {"OTHER"}]

Idle == [at |-> "read"]

Init ==
    /\ browser = "open"
    /\ pending = NoMessage
    /\ timer = 0
    /\ stdin = <<>>
    /\ stdout = <<>>
    /\ host = Idle
    /\ left = 0

---------------------------------------------------------------------------
(* What the host makes of a response.                                      *)

\* Only the answer to this request passes, and only errors of the desktop.
Validate(response, request) ==
    IF response.id # request.id THEN Error("IPC_UNAVAILABLE")
    ELSE IF ~response.ok
         THEN IF response.code \in DesktopCodes THEN Error(response.code)
              ELSE Error("IPC_UNAVAILABLE")
    ELSE IF response.sound /\ response.kind = AnswerTo(request.kind)
         THEN [kind |-> response.kind, answers |-> response.id]
         ELSE Error("IPC_UNAVAILABLE")

\* A status request is told that the application does not run; it is no error there.
AppNotRunning(request) ==
    IF request.kind = "status" THEN [kind |-> "status", answers |-> request.id]
    ELSE Error("APP_NOT_RUNNING")

Write(id, result) == stdout' = Append(stdout, [id |-> id, result |-> result])

\* The reply has the id of the request; nobody reads it when the browser is gone.
Reply(result) ==
    /\ left' = 0
    /\ IF browser = "open"
       THEN Write(host.request.id, result) /\ host' = Idle
       ELSE UNCHANGED stdout /\ host' = [at |-> "ended"]
    /\ UNCHANGED <<browser, pending, timer, stdin>>

---------------------------------------------------------------------------
(* The host.                                                               *)

Ended == [at |-> "ended"]

ReadMessage ==
    /\ host.at = "read"
    /\ stdin # <<>>
    /\ stdin' = Tail(stdin)
    /\ LET message == Head(stdin)
       IN CASE message.form = "request" ->
                 /\ host' = [at |-> "connect", request |-> message]
                 /\ left' = ConnectTime
                 /\ UNCHANGED stdout
            [] message.form = "invalid" ->
                 /\ Write(message.id, Error("INVALID_REQUEST"))
                 /\ UNCHANGED <<host, left>>
            [] message.form = "unreadable" ->
                 /\ Write(NoId, Error("INVALID_REQUEST"))
                 /\ UNCHANGED <<host, left>>
            [] OTHER ->
                 /\ Write(NoId, Error("INVALID_REQUEST"))
                 /\ host' = Ended
                 /\ UNCHANGED left
    /\ UNCHANGED <<browser, pending, timer>>

EndOfInput ==
    /\ host.at = "read"
    /\ stdin = <<>>
    /\ browser # "open"
    /\ host' = Ended
    /\ UNCHANGED <<browser, pending, timer, stdin, stdout, left>>

Go(place, time) ==
    /\ host' = [host EXCEPT !.at = place]
    /\ left' = time
    /\ UNCHANGED <<browser, pending, timer, stdin, stdout>>

Unavailable == Reply(Error("IPC_UNAVAILABLE"))

\* There may be no pipe, one that refuses, one of another session, or a busy one.
Connect ==
    /\ host.at = "connect"
    /\ \/ Go("write", ExchangeTime)
       \/ Reply(AppNotRunning(host.request))
       \/ Unavailable

\* Mutant: every read and every write gets the whole time.
RestOfTimeAnew == ExchangeTime

\* One deadline holds for the request, the response and the receipt.
RestOfTime == left

WriteRequest ==
    /\ host.at = "write"
    /\ Go("response", RestOfTime)

ReadResponse ==
    /\ host.at = "response"
    /\ \E response \in Responses :
          /\ host' = [at |-> "receipt", request |-> host.request, response |-> response]
          /\ left' = RestOfTime
    /\ UNCHANGED <<browser, pending, timer, stdin, stdout>>

\* The validated answer is written anew; it may be too long then.
WriteReceipt ==
    /\ host.at = "receipt"
    /\ LET result == Validate(host.response, host.request)
       IN \/ Reply(result)
          \/ result.kind # "error" /\ Reply(Error("INTERNAL_ERROR"))

\* The pipe is lost, what comes is no text, or the time is over.
Exchanging == host.at \in {"write", "response", "receipt"}
ExchangeFails == Exchanging /\ Unavailable

\* Trying to connect ends as well.
TimeRunsOut == Exchanging \/ host.at = "connect"

Host == ReadMessage \/ EndOfInput \/ Connect \/ WriteRequest \/ ReadResponse \/ WriteReceipt
          \/ ExchangeFails

GiveUp == TimeRunsOut /\ left = 0 /\ Unavailable

\* The process ends for another reason.
Killed ==
    /\ host # Ended
    /\ host' = Ended
    /\ left' = 0
    /\ UNCHANGED <<browser, pending, timer, stdin, stdout>>

---------------------------------------------------------------------------
(* The extension.                                                          *)

Post(message) ==
    /\ browser = "open"
    /\ pending = NoMessage
    /\ host # Ended
    /\ pending' = message
    /\ timer' = BrowserTime
    /\ stdin' = Append(stdin, message)
    /\ UNCHANGED <<browser, stdout, host, left>>

Understood(reply) ==
    /\ pending.form \in {"request", "invalid"}
    /\ reply.id = pending.id
    /\ \/ reply.result.kind = "error"
       \/ pending.form = "request" /\ reply.result.kind = AnswerTo(pending.kind)

IsError(reply) == reply.result.kind = "error"

CloseAs(how) == browser' = how /\ pending' = NoMessage /\ timer' = 0

\* After an error of the desktop the extension closes the connection as well.
Receive ==
    /\ browser = "open"
    /\ stdout # <<>>
    /\ stdout' = Tail(stdout)
    /\ CASE ~Understood(Head(stdout)) -> CloseAs("gaveUp")
         [] Understood(Head(stdout)) /\ IsError(Head(stdout)) -> CloseAs("told")
         [] OTHER -> pending' = NoMessage /\ timer' = 0 /\ UNCHANGED browser
    /\ UNCHANGED <<stdin, host, left>>

\* The extension is told that the host has ended.
Disconnected ==
    /\ browser = "open"
    /\ host = Ended
    /\ stdout = <<>>
    /\ CloseAs("gaveUp")
    /\ UNCHANGED <<stdin, stdout, host, left>>

TimeOut ==
    /\ pending # NoMessage
    /\ timer = 0
    /\ CloseAs("gaveUp")
    /\ UNCHANGED <<stdin, stdout, host, left>>

\* The popup is closed, the page changes, or nothing more is asked.
Leave ==
    /\ browser = "open"
    /\ CloseAs("left")
    /\ UNCHANGED <<stdin, stdout, host, left>>

Less(t) == IF t = 0 THEN 0 ELSE t - 1

Tick ==
    /\ \/ host.at \in {"connect", "write", "response", "receipt"} /\ (left > 0 \/ ~TimeRunsOut)
       \/ host = Ended /\ pending # NoMessage
    /\ pending # NoMessage => timer > 0
    /\ left' = Less(left)
    /\ timer' = Less(timer)
    /\ UNCHANGED <<browser, pending, stdin, stdout, host>>

Next ==
    \/ Host \/ GiveUp \/ Killed \/ Tick
    \/ \E message \in Messages : Post(message)
    \/ Receive \/ Disconnected \/ TimeOut \/ Leave

Spec == Init /\ [][Next]_vars

\* The host reads on, time passes, and deadlines are noticed; nothing is assumed of
\* what owns the pipe.
Fairness == /\ WF_vars(ReadMessage \/ EndOfInput)
            /\ WF_vars(GiveUp)
            /\ WF_vars(Tick)

FairSpec == Spec /\ Fairness

---------------------------------------------------------------------------
(* Properties.                                                             *)

Replies == [id : Ids \cup {NoId},
            result : [kind : {AnswerTo(k) : k \in Kinds}, answers : Ids]
                       \cup [kind : {"error"},
                             code : DesktopCodes \cup {"APP_NOT_RUNNING", "IPC_UNAVAILABLE",
                                                       "INVALID_REQUEST"}]]

TypeOK ==
    /\ browser \in {"open", "left", "told", "gaveUp"}
    /\ pending \in Messages \cup {NoMessage}
    /\ timer \in 0..BrowserTime
    /\ stdin \in Seq(Messages)
    /\ stdout \in Seq(Replies)
    /\ left \in 0..ExchangeTime \cup 0..ConnectTime
    /\ Len(stdin) + Len(stdout) <= 1

\* Whatever comes through the pipe, the extension is given only the answer to the
\* request it waits on: matches or a password of another request never pass.
AnswersAreOwn ==
    \A i \in DOMAIN stdout :
        (browser = "open" /\ stdout[i].result.kind # "error") =>
            /\ pending.form = "request"
            /\ stdout[i].id = pending.id
            /\ stdout[i].result.answers = pending.id
            /\ stdout[i].result.kind = AnswerTo(pending.kind)

\* While the host lives a request gets an answer the extension understands, be it an error,
\* and before the extension gives up: the deadlines of the host add up to less than its own
\* (native-client.js:61).
RequestsAreAnswered ==
    [][(pending \in Requests /\ host # Ended) => (browser' # "gaveUp")]_vars

\* A host does not outlive the browser, not even when the pipe is busy for ever.
HostEndsWithBrowser == (browser # "open") ~> (host = Ended)
=============================================================================
