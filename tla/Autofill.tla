------------------------------ MODULE Autofill ------------------------------
(***************************************************************************)
(* The desktop side of Autofill (autofill/service.rs): requests of the     *)
(* browser, answered and delivered under the operation gate, and the one   *)
(* host approval that may wait for the user.  The user sees it in a dialog *)
(* (HostApprovalModal.tsx) that calls the service and awaits its answers:  *)
(* what is shown may be older than what waits, answers may overtake one    *)
(* another, and the dialog closes only some time after it was answered.    *)
(***************************************************************************)
EXTENDS HostMatching, FiniteSets, Integers

CONSTANTS Records,       \* ids of credentials
          Pages,         \* the URLs a browser may ask for
          Websites,      \* the URLs a record may be saved with
          MaxHosts,      \* how many further hosts a record may have (20)
          Lifetime,      \* how long an approval may wait (five minutes)
          MaxClock,      \* bound on the clock
          MaxSequence,   \* bound on the number of approvals asked for
          MaxLoads,      \* bound on the equal answers on their way to the dialog
          NoRequest      \* no approval waits, or none is shown

ASSUME AutofillAssumption ==
    /\ {MaxHosts, Lifetime, MaxClock, MaxSequence, MaxLoads} \subseteq Nat
    /\ \A url \in Pages \cup Websites : url.host \in Seq(STRING)

VARIABLES clock,      \* a monotonic clock
          unlocked,   \* the session holds the vault key
          records,    \* the credentials
          pending,    \* the approval that waits, if any
          sequence,   \* the number of the next approval
          exchange,   \* the request that is being served
          shell,      \* the pages of an unlocked KeyNest, and the dialog, are mounted
          alerted,    \* the dialog has called for what waits
          loads,      \* answers to such calls that are on their way
          dialog,     \* the approval the user sees, if any
          decision,   \* what the user decided, until the dialog has the answer
          closing     \* the dialog is on its way out

service == <<clock, unlocked, records, pending, sequence, exchange>>
frontend == <<shell, alerted, loads, dialog, decision, closing>>
vars == <<service, frontend>>

Hosts == {CanonicalAutofillHost(url.host) : url \in Pages} \ {NoHost}
Record == [present : BOOLEAN, website : Websites, secret : 0..1, hosts : SUBSET Hosts]
Approval == [id : 0..MaxSequence, host : Hosts, page : Pages, createdAt : 0..MaxClock]
View == [id : 0..MaxSequence, host : Hosts]
Loadable == View \cup {NoRequest}
Decision == [kind : {"cancel"}, view : View, stage : {"sent", "left"}]
              \cup [kind : {"approve"}, view : View, record : Records,
                     stage : {"sent", "left"}]

ASSUME NoRequestAssumption == NoRequest \notin Approval /\ NoRequest \notin View

Requests == [kind : {"status"}]
              \cup [kind : {"queryMatches", "requestHostApproval"}, page : Pages]
              \cup [kind : {"requestFill"}, page : Pages, record : Records]

NoExchange == [stage |-> "idle"]
NoDecision == [stage |-> "none"]
NoLoads == [v \in Loadable |-> 0]

Init ==
    /\ clock = 0
    /\ unlocked = FALSE
    /\ records \in [Records -> {r \in Record : r.present /\ r.hosts = {} /\ r.secret = 0}]
    /\ pending = NoRequest
    /\ sequence = 0
    /\ exchange = NoExchange
    /\ shell = FALSE
    /\ alerted = FALSE
    /\ loads = NoLoads
    /\ dialog = NoRequest
    /\ decision = NoDecision
    /\ closing = FALSE

---------------------------------------------------------------------------
(* The gate is held from the moment a request is looked at until its       *)
(* answer is delivered; every command of the user is one step.             *)

\* Mutant: the gate is given up before the answer is delivered.
GateFreeEarly == TRUE

GateFree == exchange.stage # "answered"

Error(code) == [kind |-> "error", code |-> code]

Status == [kind |-> "status", unlocked |-> unlocked]

Matching(host) == {r \in Records : records[r].present /\ MatchesSaved(host, records[r])}

QueryMatches(page) ==
    LET host == ParseUrl(page)
    IN IF ~unlocked THEN Error("VAULT_LOCKED")
       ELSE IF host = NoHost THEN Error("UNSUPPORTED_URL")
       ELSE IF Matching(host) = {} THEN Error("NO_MATCHES")
       ELSE [kind |-> "matches", matches |-> Matching(host)]

\* A fill is decided anew, whatever a query said before.
RequestFill(page, r) ==
    LET host == ParseUrl(page)
    IN IF ~unlocked THEN Error("VAULT_LOCKED")
       ELSE IF host = NoHost THEN Error("UNSUPPORTED_URL")
       ELSE IF ~records[r].present THEN Error("CREDENTIAL_NOT_FOUND")
       ELSE IF ~MatchesSaved(host, records[r]) THEN Error("DOMAIN_MISMATCH")
       ELSE [kind |-> "fillPayload", page |-> page, record |-> r, secret |-> records[r].secret]

\* The answer goes to the page that asked.
Answer(response) == exchange' = [stage |-> "answered", response |-> response]

\* The vault may be unreadable.
Answers(request) ==
    CASE request.kind = "status" -> {Status}
      [] request.kind = "queryMatches" ->
            {QueryMatches(request.page)}
              \cup (IF unlocked THEN {Error("INTERNAL_ERROR")} ELSE {})
      [] request.kind = "requestFill" ->
            {RequestFill(request.page, request.record)}
              \cup (IF unlocked THEN {Error("INTERNAL_ERROR")} ELSE {})
      [] OTHER -> {Error("UNSUPPORTED_URL")}

\* A single label is not a host one could approve.
CanBeApproved(page) == ParseUrl(page) # NoHost /\ Len(ParseUrl(page)) > 1

\* A new request takes the place of the one that waits; no session is needed.
RequestHostApproval(page) ==
    /\ exchange.stage = "idle"
    /\ CanBeApproved(page)
    /\ IF sequence = MaxSequence
       THEN Answer(Error("INTERNAL_ERROR")) /\ UNCHANGED <<pending, sequence>>
       ELSE /\ pending' = [id |-> sequence, host |-> ParseUrl(page),
                           page |-> page, createdAt |-> clock]
            /\ sequence' = sequence + 1
            /\ Answer([kind |-> "hostApprovalRequested"])
    /\ UNCHANGED <<clock, unlocked, records, frontend>>

\* Any other request, from the moment it has the gate: what waits for the gate does
\* nothing yet, and what cannot be parsed is refused without it.
Process(request) ==
    /\ exchange.stage = "idle"
    /\ request.kind = "requestHostApproval" => ~CanBeApproved(request.page)
    /\ \E response \in Answers(request) : Answer(response)
    /\ UNCHANGED <<clock, unlocked, records, pending, sequence, frontend>>

\* The answer is written, the gate released, and then the user notified.
Deliver ==
    /\ exchange.stage = "answered"
    /\ exchange' = IF exchange.response.kind = "hostApprovalRequested"
                   THEN [stage |-> "notify"] ELSE NoExchange
    /\ UNCHANGED <<clock, unlocked, records, pending, sequence, frontend>>

\* The browser is gone or too slow; nobody is notified then.
DeliveryFails ==
    /\ exchange.stage = "answered"
    /\ exchange' = NoExchange
    /\ UNCHANGED <<clock, unlocked, records, pending, sequence, frontend>>

\* Mutant: the event is dropped.
NotifyNobody ==
    /\ exchange.stage = "notify"
    /\ exchange' = NoExchange
    /\ UNCHANGED <<clock, unlocked, records, pending, sequence, frontend>>

\* An unmounted dialog does not hear of it.
Notify ==
    /\ exchange.stage = "notify"
    /\ exchange' = NoExchange
    /\ alerted' = (alerted \/ shell)
    /\ UNCHANGED <<clock, unlocked, records, pending, sequence,
                   shell, loads, dialog, decision, closing>>

Dispatch == Deliver \/ DeliveryFails \/ Notify

---------------------------------------------------------------------------
(* The commands of the dialog, each in one step under the gate.            *)

Outdated(p) == clock - p.createdAt > Lifetime

\* Looking at what waits drops it when it is too old.
PendingView == IF pending # NoRequest /\ Outdated(pending) THEN NoRequest ELSE pending

Shown(p) == IF p = NoRequest THEN NoRequest ELSE [id |-> p.id, host |-> p.host]

\* What waits is read; the answer is then on its way, as one among others.
LoadPending ==
    /\ GateFree
    /\ shell
    /\ loads[Shown(PendingView)] < MaxLoads
    /\ pending' = PendingView
    /\ loads' = [loads EXCEPT ![Shown(PendingView)] = @ + 1]
    /\ alerted' = FALSE
    /\ UNCHANGED <<clock, unlocked, records, sequence, exchange,
                   shell, dialog, decision, closing>>

\* Listing the candidates changes nothing but that.
HostApprovalCandidates ==
    /\ GateFree
    /\ dialog # NoRequest
    /\ pending' = PendingView
    /\ UNCHANGED <<clock, unlocked, records, sequence, exchange, frontend>>

\* Mutant: the approval decided on is not compared with the one that waits.
RequirePendingAny == PendingView # NoRequest

\* The user decided on the approval that waits, and not on one replaced since.
RequirePending == PendingView # NoRequest /\ PendingView.id = decision.view.id

Decided(kind) == decision.stage \in {"sent", "left"} /\ decision.kind = kind

\* A dialog unmounted since does not get the answer.
Return(result) ==
    /\ decision' = IF decision.stage = "left" THEN NoDecision ELSE [stage |-> result]
    /\ UNCHANGED <<shell, alerted, loads, dialog, closing>>

AlreadyAllowed(r) == MatchesSaved(ParseUrl(Https(pending.host)), records[r])

\* The record changes, then the approval is cleared, both under the gate.
Granted(r) ==
    /\ records' = IF AlreadyAllowed(r) THEN records
                  ELSE [records EXCEPT ![r].hosts = @ \cup {pending.host}]
    /\ pending' = NoRequest

ListIsFull(r) == ~AlreadyAllowed(r) /\ Cardinality(records[r].hosts) >= MaxHosts

\* It is not the one that waits, the session is locked, the record gone or its list
\* full, or the vault cannot be read or written: the record is as it was.
Refused == pending' = PendingView /\ UNCHANGED records

ApproveLoginHost(r) ==
    /\ GateFree
    /\ Decided("approve")
    /\ decision.record = r
    /\ \/ /\ RequirePending
          /\ unlocked
          /\ records[r].present
          /\ ~ListIsFull(r)
          /\ Granted(r)
          /\ Return("done")
       \/ Refused /\ Return("refused")
    /\ UNCHANGED <<clock, unlocked, sequence, exchange>>

CancelHostApproval ==
    /\ GateFree
    /\ Decided("cancel")
    /\ IF RequirePending THEN pending' = NoRequest /\ Return("done")
                         ELSE pending' = PendingView /\ Return("refused")
    /\ UNCHANGED <<clock, unlocked, records, sequence, exchange>>

---------------------------------------------------------------------------
(* The dialog.                                                             *)

\* What an answer says is shown, whatever has been shown or decided since the call.
Arrives(v) ==
    /\ loads[v] > 0
    /\ loads' = [loads EXCEPT ![v] = @ - 1]
    /\ dialog' = v
    /\ UNCHANGED <<service, shell, alerted, decision, closing>>

\* One decision at a time, and none in a dialog that is closing.
Decide(choice) ==
    /\ dialog # NoRequest
    /\ decision = NoDecision
    /\ ~closing
    /\ decision' = choice
    /\ UNCHANGED <<service, shell, alerted, loads, dialog, closing>>

Cancel == Decide([kind |-> "cancel", view |-> dialog, stage |-> "sent"])

Approve(r) ==
    Decide([kind |-> "approve", view |-> dialog, record |-> r, stage |-> "sent"])

\* The answer arrives; the dialog begins to close when the decision was carried out.
Returned ==
    /\ decision.stage \in {"done", "refused"}
    /\ closing' = (closing \/ decision.stage = "done")
    /\ decision' = NoDecision
    /\ UNCHANGED <<service, shell, alerted, loads, dialog>>

\* Only a mounted dialog comes to the end of its way out, whatever it shows by then.
FinishClose ==
    /\ closing
    /\ dialog # NoRequest
    /\ dialog' = NoRequest
    /\ closing' = FALSE
    /\ UNCHANGED <<service, shell, alerted, loads, decision>>

\* The dialog subscribes to the notifications and then reads for the first time.
Mount ==
    /\ ~shell
    /\ unlocked
    /\ shell' = TRUE
    /\ alerted' = TRUE
    /\ UNCHANGED <<service, loads, dialog, decision, closing>>

\* The frontend has heard that KeyNest is locked; what is on its way is for nobody.
Unmount ==
    /\ shell
    /\ ~unlocked
    /\ shell' = FALSE
    /\ alerted' = FALSE
    /\ loads' = NoLoads
    /\ dialog' = NoRequest
    /\ decision' = IF decision.stage = "sent" THEN [decision EXCEPT !.stage = "left"]
                   ELSE IF decision.stage = "left" THEN decision ELSE NoDecision
    /\ closing' = FALSE
    /\ UNCHANGED service

---------------------------------------------------------------------------
(* What else the user does.                                                *)

\* Only the screen of a locked KeyNest asks for the password.
Unlock == /\ GateFree
          /\ ~unlocked
          /\ ~shell
          /\ unlocked' = TRUE
          /\ UNCHANGED <<clock, records, pending, sequence, exchange, frontend>>

\* Locking leaves the approval waiting: it holds no secret.
Lock == /\ GateFree
        /\ unlocked
        /\ unlocked' = FALSE
        /\ UNCHANGED <<clock, records, pending, sequence, exchange, frontend>>

\* An edit keeps the further hosts; a deletion is final enough here.
EditRecord(r) ==
    /\ GateFree
    /\ unlocked
    /\ records[r].present
    /\ \/ \E w \in Websites : records' = [records EXCEPT ![r].website = w]
       \/ records' = [records EXCEPT ![r].secret = 1 - @]
       \/ records' = [records EXCEPT ![r].present = FALSE]
    /\ UNCHANGED <<clock, unlocked, pending, sequence, exchange, frontend>>

Tick == /\ clock < MaxClock
        /\ clock' = clock + 1
        /\ UNCHANGED <<unlocked, records, pending, sequence, exchange, frontend>>

Commands ==
    \/ LoadPending \/ HostApprovalCandidates \/ CancelHostApproval
    \/ Unlock \/ Lock
    \/ \E r \in Records : ApproveLoginHost(r) \/ EditRecord(r)

DialogActs ==
    \/ \E v \in Loadable : Arrives(v)
    \/ Cancel \/ (\E r \in Records : Approve(r))
    \/ Returned \/ FinishClose
    \/ Mount \/ Unmount

Next == \/ \E request \in Requests : Process(request)
        \/ \E page \in Pages : RequestHostApproval(page)
        \/ Dispatch \/ Commands \/ DialogActs \/ Tick

Spec == Init /\ [][Next]_vars

\* The pipe's thread runs on, and a write ends after 250 ms; a call of the dialog is
\* carried out, and its answer arrives.
FairSpec == /\ Spec
            /\ WF_vars(Dispatch)
            /\ SF_vars(alerted /\ LoadPending)
            /\ WF_vars(\E v \in Loadable : Arrives(v))

---------------------------------------------------------------------------
(* Properties.                                                             *)

TypeOK ==
    /\ clock \in 0..MaxClock
    /\ unlocked \in BOOLEAN
    /\ records \in [Records -> Record]
    /\ pending \in Approval \cup {NoRequest}
    /\ sequence \in 0..MaxSequence
    /\ exchange.stage \in {"idle", "answered", "notify"}
    /\ {shell, alerted, closing} \subseteq BOOLEAN
    /\ loads \in [Loadable -> 0..MaxLoads]
    /\ dialog \in Loadable
    /\ decision.stage \in {"sent", "left"} => decision \in Decision

\* What a browser is given is true at the moment it is given: the session is still
\* unlocked, the record still there, the password the current one and the page one
\* of its sites.  Locking, editing and deleting wait until it has been delivered.
FillsAreCurrent ==
    (exchange.stage = "answered" /\ exchange.response.kind = "fillPayload") =>
        LET record == records[exchange.response.record]
            page == exchange.response.page
        IN /\ unlocked
           /\ record.present
           /\ exchange.response.secret = record.secret
           /\ page.scheme = "https"
           /\ \/ SameSite(page.host, record.website.host) /\ record.website.scheme = "https"
              \/ \E allowed \in record.hosts : SameSite(page.host, allowed)

\* A record gains a host only by the decision of the user: that record, the host that
\* was shown when it was decided, asked for recently, and not one that another page has
\* asked for since; however old the dialog was by then.
ApprovalsAreAnswered ==
    [][\A r \in Records : records'[r].hosts # records[r].hosts =>
          /\ decision.record = r
          /\ records'[r].hosts = records[r].hosts \cup {decision.view.host}
          /\ pending.id = decision.view.id
          /\ clock - pending.createdAt <= Lifetime]_vars

\* An approval does not get lost: it waits until the user's decision on it is carried
\* out, it is too old, or it is replaced by another one; a record that could not be
\* saved leaves it waiting (autofill/tests.rs:633), and so does a decision on one that
\* is gone.
ApprovalsAreKept ==
    [][(pending # NoRequest /\ pending' = NoRequest) =>
          \/ Outdated(pending)
          \/ /\ decision.view.id = pending.id
             /\ \/ decision.kind = "cancel"
                \/ MatchesSaved(ParseUrl(Https(pending.host)),
                                records'[decision.record])]_vars

\* The page that asked for an approval may use the record that was granted its host
\* (docs/security/autofill-v2-host-handling.md:62-66), although that host, canonical
\* already, is canonicalized again when it is approved and when it is compared
\* (service.rs:314, url_match.rs:62-72).  A second www label is lost on the way; that is
\* the only exception.
ApprovedPagesAreServed ==
    [][\A r \in Records : records'[r].hosts # records[r].hosts =>
          HasTwoWww(pending.page.host) \/ MatchesSaved(ParseUrl(pending.page), records'[r])]_vars

\* All three: an approval gives what the user was shown, it is not dropped on the way,
\* and it serves the page that asked for it.
ApprovalsAreHandled == ApprovalsAreAnswered /\ ApprovalsAreKept /\ ApprovedPagesAreServed

\* An approval the browser was told of comes before the user at some moment, however its
\* notification raced with another one, with answers that overtake it and with a dialog
\* that is closing, unless it is gone by then or KeyNest locks; an approval that waits
\* when KeyNest is unlocked does, too.
ApprovalsAreShown ==
    \A i \in 0..(MaxSequence - 1) :
        (/\ pending # NoRequest /\ pending.id = i
         /\ exchange.stage = "notify" \/ alerted)
            ~> (\/ pending = NoRequest \/ pending.id # i
                \/ dialog # NoRequest /\ dialog.id = i
                \/ ~shell)

\* That the dialog goes only when its approval has gone, which is not so: an older answer
\* that finds nothing may arrive last, and what is loaded into a dialog on its way out
\* goes with it (HostApprovalModal.tsx:24-40 and 79-83).
DialogStays ==
    [][(dialog # NoRequest /\ dialog' = NoRequest /\ shell') =>
          pending' = NoRequest \/ pending'.id # dialog.id]_vars

\* The same of every page, which is not so.
ApprovedPageMatches ==
    [][\A r \in Records : records'[r].hosts # records[r].hosts =>
          MatchesSaved(ParseUrl(pending.page), records'[r])]_vars
=============================================================================
