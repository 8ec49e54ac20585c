---------------------------- MODULE AutofillProofs ----------------------------
(***************************************************************************)
(* Proofs about Autofill for any records, pages, websites and bounds: what *)
(* a browser is given is current when it is delivered, and an approval     *)
(* gives a record the host the user was shown, is not lost before, and     *)
(* serves the page that asked for it.                                      *)
(*                                                                         *)
(* The first rests on the gate, which nothing but the delivery gets past   *)
(* while an answer waits, and on a fact about names: two hosts with the    *)
(* same canonical form are the same site.  The second rests on the numbers *)
(* of the approvals, which are given out once, and on when a canonical     *)
(* host is its own canonical form.                                         *)
(***************************************************************************)
EXTENDS Autofill, SequenceTheorems, TLAPS

Labels == Seq(STRING)

---------------------------------------------------------------------------
(* Names.                                                                  *)

LEMMA FinalDot ==
  ASSUME NEW h \in Labels
  PROVE  WithoutFinalDot(h) \in Labels
  <1>1. SubSeq(h, 1, Len(h) - 1) \in Labels
    BY SubSeqProperties DEF Labels
  <1>. QED
    BY <1>1 DEF WithoutFinalDot

LEMMA Www ==
  ASSUME NEW x \in Labels
  PROVE  /\ WithoutWww(x) \in Labels
         /\ x = WithoutWww(x) \/ x = <<"www">> \o WithoutWww(x)
  <1>1. CASE Len(x) > 1 /\ x[1] = "www"
    <2>1. WithoutWww(x) = Tail(x) /\ Tail(x) \in Labels
      BY <1>1 DEF WithoutWww, Labels
    <2>2. <<"www">> \o Tail(x) = x
      BY <1>1 DEF Labels
    <2>. QED
      BY <2>1, <2>2
  <1>2. CASE ~(Len(x) > 1 /\ x[1] = "www")
    BY <1>2 DEF WithoutWww
  <1>. QED
    BY <1>1, <1>2

\* Two hosts with the same canonical form are the same site.
LEMMA SameCanonicalSameSite ==
  ASSUME NEW a \in Labels, NEW b \in Labels,
         CanonicalAutofillHost(a) = CanonicalAutofillHost(b),
         CanonicalAutofillHost(a) # NoHost
  PROVE  SameSite(a, b)
  <1>1. PICK x \in Labels, y \in Labels : x = WithoutFinalDot(a) /\ y = WithoutFinalDot(b)
    BY FinalDot
  <1>2. WithoutWww(x) = WithoutWww(y)
    BY <1>1 DEF CanonicalAutofillHost
  <1>3. \/ x = y
        \/ x = <<"www">> \o y
        \/ y = <<"www">> \o x
    BY <1>2, Www
  <1>. QED
    BY <1>1, <1>3 DEF SameSite

LEMMA LabelsHaveLength ==
  ASSUME NEW c \in Labels
  PROVE  Len(c) \in Nat
  BY DEF Labels

LEMMA NoFinalDotIsLeft ==
  ASSUME NEW c \in Labels
  PROVE  (\A i \in 1..Len(c) : c[i] # "") => WithoutFinalDot(c) = c
  <1>1. Len(c) > 1 => Len(c) \in 1..Len(c)
    BY LabelsHaveLength
  <1>. QED
    BY <1>1 DEF WithoutFinalDot

\* A canonical host has itself a canonical form.
LEMMA CanonicalAgain ==
  ASSUME NEW h \in Labels, CanonicalAutofillHost(h) # NoHost
  PROVE  CanonicalAutofillHost(CanonicalAutofillHost(h)) # NoHost
  <1>1. PICK c \in Labels : c = WithoutWww(WithoutFinalDot(h))
    BY FinalDot, Www
  <1>2. CanonicalAutofillHost(h) = c /\ \A i \in 1..Len(c) : c[i] # ""
    BY <1>1 DEF CanonicalAutofillHost
  <1>3. WithoutFinalDot(c) = c
    BY <1>2, NoFinalDotIsLeft
  <1>4. PICK d \in Labels : d = WithoutWww(c)
    BY Www
  <1>5. \A i \in 1..Len(d) : d[i] # ""
    <2>1. d = c \/ (Len(c) > 1 /\ d = Tail(c))
      BY <1>4 DEF WithoutWww
    <2>2. CASE d = Tail(c) /\ Len(c) > 1
      <3>1. Len(c) \in Nat /\ c # << >>
        BY <2>2 DEF Labels
      <3>2. Len(d) = Len(c) - 1 /\ \A i \in 1..Len(d) : d[i] = c[i + 1]
        BY <2>2, <3>1, HeadTailProperties DEF Labels
      <3>3. \A i \in 1..Len(d) : i + 1 \in 1..Len(c)
        BY <3>1, <3>2
      <3>. QED
        BY <1>2, <3>2, <3>3
    <2>. QED
      BY <1>2, <2>1, <2>2
  <1>6. CanonicalAutofillHost(c) = d
    BY <1>3, <1>4, <1>5 DEF CanonicalAutofillHost
  <1>. QED
    BY <1>2, <1>6, HostAssumption DEF Labels

\* It is its own canonical form, unless it has lost the first of two www labels.
LEMMA CanonicalStays ==
  ASSUME NEW h \in Labels, CanonicalAutofillHost(h) # NoHost, ~HasTwoWww(h)
  PROVE  CanonicalAutofillHost(CanonicalAutofillHost(h)) = CanonicalAutofillHost(h)
  <1>1. PICK x \in Labels : x = WithoutFinalDot(h)
    BY FinalDot
  <1>2. PICK c \in Labels : c = WithoutWww(x)
    BY Www
  <1>3. CanonicalAutofillHost(h) = c /\ \A i \in 1..Len(c) : c[i] # ""
    BY <1>1, <1>2 DEF CanonicalAutofillHost
  <1>4. Len(c) \in Nat /\ Len(x) \in Nat
    BY DEF Labels
  <1>5. WithoutFinalDot(c) = c
    BY <1>3, NoFinalDotIsLeft
  <1>6. ~(Len(c) > 1 /\ c[1] = "www")
    <2>1. CASE Len(x) > 1 /\ x[1] = "www"
      <3>1. c = Tail(x) /\ x # << >>
        BY <1>2, <1>4, <2>1 DEF WithoutWww, Labels
      <3>2. Len(c) = Len(x) - 1 /\ \A i \in 1..Len(c) : c[i] = x[i + 1]
        BY <3>1, HeadTailProperties DEF Labels
      <3>3. Len(c) > 1 => Len(x) > 2 /\ c[1] = x[2]
        <4>1. Len(c) > 1 => 1 \in 1..Len(c) /\ 1 + 1 = 2
          BY <1>4
        <4>. QED
          BY <1>4, <3>2, <4>1
      <3>. QED
        BY <1>1, <2>1, <3>3 DEF HasTwoWww
    <2>2. CASE ~(Len(x) > 1 /\ x[1] = "www")
      BY <1>2, <2>2 DEF WithoutWww
    <2>. QED
      BY <2>1, <2>2
  <1>7. WithoutWww(c) = c
    BY <1>6 DEF WithoutWww
  <1>. QED
    BY <1>3, <1>5, <1>7 DEF CanonicalAutofillHost

---------------------------------------------------------------------------
(* The invariant.                                                          *)

Types ==
    /\ clock \in 0..MaxClock
    /\ records \in [Records -> Record]
    /\ pending \in Approval \cup {NoRequest}
    /\ sequence \in 0..MaxSequence
    /\ loads \in [Loadable -> Nat]
    /\ dialog \in Loadable
    /\ decision.stage \in {"sent", "left"} => decision \in Decision

\* What was read as v when the numbers had come to n or less, with p waiting now: an
\* approval has a number of its own, so v names the host that goes with it.
Known(v, p, n) ==
    v # NoRequest => /\ v.id < n
                     /\ (p # NoRequest /\ p.id = v.id) => p.host = v.host

\* What is on its way to the dialog, shown by it or decided on was read from the service.
ViewsAreTrue ==
    /\ pending # NoRequest => pending.id < sequence
    /\ \A v \in Loadable : loads[v] > 0 => Known(v, pending, sequence)
    /\ Known(dialog, pending, sequence)
    /\ decision.stage \in {"sent", "left"} => Known(decision.view, pending, sequence)

\* What waits is the host of the page that asked for it.
HostIsOfPage == pending # NoRequest => pending.host = ParseUrl(pending.page)

IInv ==
    /\ Types
    /\ ViewsAreTrue
    /\ HostIsOfPage
    /\ FillsAreCurrent

LEMMA HostsAreLabels ==
  ASSUME NEW host \in Hosts
  PROVE  host \in Labels /\ CanonicalAutofillHost(host) # NoHost
  <1>1. PICK url \in Pages : host = CanonicalAutofillHost(url.host) /\ host # NoHost
    BY DEF Hosts
  <1>2. url.host \in Labels
    BY AutofillAssumption DEF Labels
  <1>3. host \in Labels
    BY <1>1, <1>2, FinalDot, Www DEF CanonicalAutofillHost
  <1>. QED
    BY <1>1, <1>2, <1>3, CanonicalAgain

\* The host of a saved name, with https put in front.
LEMMA SavedHost ==
  ASSUME NEW h
  PROVE  ParseUrl(Https(h)) = CanonicalAutofillHost(h)
  BY DEF ParseUrl, Https

\* A page whose host matches a record is on one of the sites the record is for.
LEMMA MatchIsSameSite ==
  ASSUME NEW page \in Pages, NEW record \in Record, MatchesSaved(ParseUrl(page), record)
  PROVE  /\ page.scheme = "https"
         /\ \/ SameSite(page.host, record.website.host) /\ record.website.scheme = "https"
            \/ \E allowed \in record.hosts : SameSite(page.host, allowed)
  <1>1. /\ page.scheme = "https" /\ ParseUrl(page) = CanonicalAutofillHost(page.host)
        /\ ParseUrl(page) # NoHost
    BY DEF MatchesSaved, ParseUrl
  <1>2. page.host \in Labels
    BY AutofillAssumption DEF Labels
  <1>3. CASE ParseUrl(page) = ParseUrl(record.website)
    <2>1. /\ record.website.scheme = "https"
          /\ ParseUrl(record.website) = CanonicalAutofillHost(record.website.host)
      BY <1>1, <1>3 DEF ParseUrl
    <2>2. record.website.host \in Labels
      BY AutofillAssumption DEF Record, Labels
    <2>. QED
      BY <1>1, <1>2, <1>3, <2>1, <2>2, SameCanonicalSameSite
  <1>4. CASE \E allowed \in record.hosts : ParseUrl(page) = ParseUrl(Https(allowed))
    <2>1. PICK allowed \in record.hosts : ParseUrl(page) = CanonicalAutofillHost(allowed)
      BY <1>4, SavedHost
    <2>2. allowed \in Labels
      BY HostsAreLabels DEF Record
    <2>. QED
      BY <1>1, <1>2, <2>1, <2>2, SameCanonicalSameSite
  <1>. QED
    BY <1>3, <1>4 DEF MatchesSaved

\* Only a request for a fill is answered with one, and only for what matches.
LEMMA FillAnswers ==
  ASSUME NEW request \in Requests, NEW response \in Answers(request),
         response.kind = "fillPayload"
  PROVE  /\ request.page \in Pages /\ request.record \in Records
         /\ unlocked
         /\ records[request.record].present
         /\ MatchesSaved(ParseUrl(request.page), records[request.record])
         /\ response.page = request.page /\ response.record = request.record
         /\ response.secret = records[request.record].secret
  <1>1. request.kind = "requestFill" /\ response = RequestFill(request.page, request.record)
    BY DEF Answers, Status, QueryMatches, Error, Requests
  <1>2. request.page \in Pages /\ request.record \in Records
    BY <1>1 DEF Requests
  <1>. QED
    BY <1>1, <1>2 DEF RequestFill, Error

---------------------------------------------------------------------------
(* Every action.                                                           *)

LEMMA InitInv ==
  ASSUME Init
  PROVE  IInv
  <1>1. Types
    BY AutofillAssumption DEF Init, Types, NoLoads, NoDecision, Loadable
  <1>2. ViewsAreTrue
    BY DEF Init, ViewsAreTrue, Known, NoLoads, NoDecision
  <1>. QED
    BY <1>1, <1>2 DEF Init, IInv, HostIsOfPage, FillsAreCurrent, NoExchange

\* The browser's side: an answer is true when it is made.
LEMMA ProcessInv ==
  ASSUME IInv, NEW request \in Requests, Process(request)
  PROVE  IInv'
  <1>1. PICK response \in Answers(request) : Answer(response)
    BY DEF Process
  <1>2. UNCHANGED <<clock, unlocked, records, pending, sequence, loads, dialog, decision>>
    BY DEF Process, frontend
  <1>3. exchange'.stage = "answered" /\ exchange'.response = response
    BY <1>1 DEF Answer
  <1>4. FillsAreCurrent'
    <2>1. CASE response.kind = "fillPayload"
      <3>1. PICK page \in Pages, r \in Records :
               /\ unlocked /\ records[r].present
               /\ MatchesSaved(ParseUrl(page), records[r])
               /\ response.page = page /\ response.record = r
               /\ response.secret = records[r].secret
        BY <2>1, FillAnswers
      <3>2. PICK record \in Record : record = records[r]
        BY DEF IInv, Types
      <3>3. /\ page.scheme = "https"
            /\ \/ SameSite(page.host, record.website.host) /\ record.website.scheme = "https"
               \/ \E allowed \in record.hosts : SameSite(page.host, allowed)
        BY <3>1, <3>2, MatchIsSameSite
      <3>. QED
        BY <1>2, <1>3, <3>1, <3>2, <3>3 DEF FillsAreCurrent
    <2>2. CASE response.kind # "fillPayload"
      BY <1>3, <2>2 DEF FillsAreCurrent
    <2>. QED
      BY <2>1, <2>2
  <1>. QED
    BY <1>2, <1>4 DEF IInv, Types, ViewsAreTrue, HostIsOfPage

\* A new approval takes the number that comes next.
LEMMA NewApproval ==
  ASSUME IInv, NEW page \in Pages, RequestHostApproval(page)
  PROVE  \/ UNCHANGED <<pending, sequence>>
         \/ /\ pending' \in Approval /\ pending'.id = sequence
            /\ pending'.host = ParseUrl(pending'.page)
            /\ sequence' = sequence + 1 /\ sequence' \in 0..MaxSequence
  <1>1. ParseUrl(page) \in Hosts
    BY DEF RequestHostApproval, CanBeApproved, ParseUrl, Hosts
  <1>2. CASE sequence = MaxSequence
    BY <1>2 DEF RequestHostApproval
  <1>3. CASE sequence # MaxSequence
    <2>1. PICK a : /\ a = [id |-> sequence, host |-> ParseUrl(page),
                           page |-> page, createdAt |-> clock]
                   /\ pending' = a /\ sequence' = sequence + 1
      BY <1>3 DEF RequestHostApproval
    <2>2. sequence \in 0..MaxSequence /\ sequence + 1 \in 0..MaxSequence
      BY <1>3, AutofillAssumption DEF IInv, Types
    <2>3. a \in Approval /\ a.id = sequence /\ a.host = ParseUrl(a.page)
      BY <1>1, <2>1, <2>2 DEF Approval, IInv, Types
    <2>. QED
      BY <2>1, <2>2, <2>3
  <1>. QED
    BY <1>2, <1>3

\* No view has the number of an approval to come.
LEMMA KnownBefore ==
  ASSUME NEW v \in Loadable, NEW p, NEW q, NEW n \in Nat, Known(v, p, n), q.id = n
  PROVE  Known(v, q, n + 1)
  <1>1. CASE v = NoRequest
    BY <1>1 DEF Known
  <1>2. CASE v # NoRequest
    <2>1. PICK i \in Nat : i = v.id
      BY <1>2 DEF Loadable, View
    <2>2. i < n
      BY <1>2, <2>1 DEF Known
    <2>3. i < n + 1 /\ i # n
      BY <2>2
    <2>. QED
      BY <2>1, <2>3 DEF Known
  <1>. QED
    BY <1>1, <1>2

LEMMA RequestApprovalInv ==
  ASSUME IInv, NEW page \in Pages, RequestHostApproval(page)
  PROVE  IInv'
  <1>1. UNCHANGED <<clock, records, loads, dialog, decision>>
    BY DEF RequestHostApproval, frontend
  <1>2. /\ exchange'.stage = "answered"
        /\ exchange'.response.kind \in {"error", "hostApprovalRequested"}
    BY DEF RequestHostApproval, Answer, Error
  <1>3. FillsAreCurrent'
    BY <1>2 DEF FillsAreCurrent
  <1>4. CASE UNCHANGED <<pending, sequence>>
    BY <1>1, <1>3, <1>4 DEF IInv, Types, ViewsAreTrue, HostIsOfPage
  <1>5. CASE /\ pending' \in Approval /\ pending'.id = sequence
             /\ pending'.host = ParseUrl(pending'.page)
             /\ sequence' = sequence + 1 /\ sequence' \in 0..MaxSequence
    <2>1. Types'
      BY <1>1, <1>5 DEF IInv, Types
    <2>2. sequence \in Nat
      BY DEF IInv, Types
    <2>3. ASSUME NEW v \in Loadable, Known(v, pending, sequence)
          PROVE  Known(v, pending', sequence')
      BY <1>5, <2>2, <2>3, KnownBefore
    <2>4. decision.stage \in {"sent", "left"} => decision.view \in Loadable
      BY DEF IInv, Types, Decision, Loadable
    <2>5. pending'.id < sequence'
      BY <1>5, <2>2
    <2>6. \A v \in Loadable : loads'[v] > 0 => Known(v, pending', sequence')
      BY <1>1, <2>3 DEF IInv, ViewsAreTrue
    <2>7. Known(dialog', pending', sequence')
      BY <1>1, <2>3 DEF IInv, Types, ViewsAreTrue
    <2>8. decision'.stage \in {"sent", "left"} => Known(decision'.view, pending', sequence')
      BY <1>1, <2>3, <2>4 DEF IInv, ViewsAreTrue
    <2>9. ViewsAreTrue'
      BY <2>5, <2>6, <2>7, <2>8 DEF ViewsAreTrue
    <2>h. HostIsOfPage'
      BY <1>5 DEF HostIsOfPage
    <2>. QED
      BY <1>3, <2>1, <2>9, <2>h DEF IInv
  <1>. QED
    BY <1>4, <1>5, NewApproval

LEMMA DeliveryInv ==
  ASSUME IInv, Dispatch
  PROVE  IInv'
  <1>1. exchange'.stage \in {"idle", "notify"}
    BY DEF Dispatch, Deliver, DeliveryFails, Notify, NoExchange
  <1>2. UNCHANGED <<clock, records, pending, sequence, loads, dialog, decision>>
    BY DEF Dispatch, Deliver, DeliveryFails, Notify, frontend
  <1>. QED
    BY <1>1, <1>2 DEF IInv, Types, ViewsAreTrue, HostIsOfPage, FillsAreCurrent

---------------------------------------------------------------------------
(* Commands: none of them happens while an answer waits to be delivered.   *)

LEMMA CommandsWait ==
  ASSUME Commands
  PROVE  exchange.stage # "answered" /\ UNCHANGED <<exchange, clock, sequence, dialog>>
  BY DEF Commands, LoadPending, HostApprovalCandidates, CancelHostApproval, Unlock, Lock,
         ApproveLoginHost, EditRecord, GateFree, Return, frontend

\* Looking at what waits drops it or leaves it.
LEMMA ViewOfPending ==
  PendingView = pending \/ (PendingView = NoRequest /\ Outdated(pending))
  BY DEF PendingView

\* A decision in flight is one on a view that was read from the service.
LEMMA DecisionIsKnown ==
  ASSUME IInv, decision.stage \in {"sent", "left"}
  PROVE  /\ decision.view \in View /\ decision.view # NoRequest
         /\ Known(decision.view, pending, sequence)
  <1>1. decision \in Decision
    BY DEF IInv, Types
  <1>2. decision.view \in View
    BY <1>1 DEF Decision
  <1>. QED
    BY <1>2, NoRequestAssumption DEF IInv, ViewsAreTrue

\* What an approval does to a record: a host more, the one that was shown.
LEMMA Approving ==
  ASSUME IInv, NEW r \in Records, ApproveLoginHost(r)
  PROVE  /\ decision.record = r
         /\ \/ Refused
            \/ /\ pending # NoRequest /\ ~Outdated(pending)
               /\ decision.view.id = pending.id /\ decision.view.host = pending.host
               /\ Granted(r)
  <1>1. decision.stage \in {"sent", "left"} /\ decision.record = r
    BY DEF ApproveLoginHost, Decided
  <1>2. CASE RequirePending /\ Granted(r)
    <2>1. PendingView = pending /\ pending # NoRequest /\ ~Outdated(pending)
      BY <1>2 DEF RequirePending, PendingView
    <2>2. decision.view.id = pending.id
      BY <1>2, <2>1 DEF RequirePending
    <2>. QED
      BY <1>1, <1>2, <2>1, <2>2, DecisionIsKnown DEF Known
  <1>. QED
    BY <1>1, <1>2 DEF ApproveLoginHost

LEMMA RecordsStayRecords ==
  ASSUME IInv, Commands
  PROVE  records' \in [Records -> Record]
  <1>1. records \in [Records -> Record]
    BY DEF IInv, Types
  <1>2. CASE \E r \in Records : ApproveLoginHost(r)
    <2>1. PICK r \in Records : ApproveLoginHost(r)
      BY <1>2
    <2>2. PICK record \in Record : record = records[r]
      BY <1>1
    <2>c. CASE Refused
      BY <1>1, <2>c DEF Refused
    <2>d. CASE pending # NoRequest /\ Granted(r)
      <3>1. PICK host \in Hosts : host = pending.host
        BY <2>d DEF IInv, Types, Approval
      <3>2. [record EXCEPT !.hosts = @ \cup {host}] \in Record
        <4>1. record.hosts \cup {host} \in SUBSET Hosts
          BY DEF Record
        <4>. QED
          BY <4>1 DEF Record
      <3>3. \/ records' = records
            \/ records' = [records EXCEPT ![r].hosts = @ \cup {pending.host}]
        BY <2>d DEF Granted
      <3>4. CASE records' = [records EXCEPT ![r].hosts = @ \cup {pending.host}]
        <4>1. records' = [records EXCEPT ![r] = [record EXCEPT !.hosts = @ \cup {host}]]
          BY <2>2, <3>1, <3>4
        <4>. QED
          BY <1>1, <3>2, <4>1
      <3>. QED
        BY <1>1, <3>3, <3>4
    <2>. QED
      BY <2>1, <2>c, <2>d, Approving
  <1>3. CASE \E r \in Records : EditRecord(r)
    <2>1. PICK r \in Records : EditRecord(r)
      BY <1>3
    <2>2. PICK record \in Record : record = records[r]
      BY <1>1
    <2>3. CASE \E w \in Websites : records' = [records EXCEPT ![r].website = w]
      <3>1. PICK w \in Websites : records' = [records EXCEPT ![r].website = w]
        BY <2>3
      <3>2. [record EXCEPT !.website = w] \in Record
        BY DEF Record
      <3>3. records' = [records EXCEPT ![r] = [record EXCEPT !.website = w]]
        BY <2>2, <3>1
      <3>. QED
        BY <1>1, <3>2, <3>3
    <2>4. CASE records' = [records EXCEPT ![r].secret = 1 - @]
      <3>1. record.secret \in 0..1
        BY DEF Record
      <3>2. 1 - record.secret \in 0..1
        BY <3>1
      <3>3. [record EXCEPT !.secret = 1 - @] \in Record
        BY <3>2 DEF Record
      <3>4. records' = [records EXCEPT ![r] = [record EXCEPT !.secret = 1 - @]]
        BY <2>2, <2>4
      <3>. QED
        BY <1>1, <3>3, <3>4
    <2>5. CASE records' = [records EXCEPT ![r].present = FALSE]
      <3>1. [record EXCEPT !.present = FALSE] \in Record
        BY DEF Record
      <3>2. records' = [records EXCEPT ![r] = [record EXCEPT !.present = FALSE]]
        BY <2>2, <2>5
      <3>. QED
        BY <1>1, <3>1, <3>2
    <2>. QED
      BY <2>1, <2>3, <2>4, <2>5 DEF EditRecord
  <1>. QED
    BY <1>1, <1>2, <1>3
    DEF Commands, LoadPending, HostApprovalCandidates, CancelHostApproval, Unlock, Lock

\* A command leaves what waits or clears it, and puts nothing on its way to the dialog
\* but what waits; a decision is carried out or stays.
LEMMA CommandEffects ==
  ASSUME IInv, Commands
  PROVE  /\ pending' \in {pending, NoRequest}
         /\ \/ loads' = loads
            \/ loads' = [loads EXCEPT ![Shown(PendingView)] = @ + 1]
         /\ decision' = decision \/ decision'.stage \notin {"sent", "left"}
  <1>1. CASE LoadPending
    BY <1>1, ViewOfPending DEF LoadPending
  <1>2. CASE HostApprovalCandidates \/ Unlock \/ Lock
    BY <1>2, ViewOfPending DEF HostApprovalCandidates, Unlock, Lock, frontend
  <1>3. ASSUME NEW result \in {"done", "refused"}, Return(result)
        PROVE  loads' = loads /\ decision'.stage \notin {"sent", "left"}
    BY <1>3 DEF Return, NoDecision
  <1>4. CASE CancelHostApproval
    BY <1>3, <1>4, ViewOfPending DEF CancelHostApproval
  <1>5. ASSUME NEW r \in Records, ApproveLoginHost(r)
        PROVE  /\ pending' \in {pending, NoRequest} /\ loads' = loads
               /\ decision'.stage \notin {"sent", "left"}
    BY <1>3, <1>5, ViewOfPending DEF ApproveLoginHost, Granted, Refused
  <1>6. ASSUME NEW r \in Records, EditRecord(r)
        PROVE  UNCHANGED <<pending, loads, decision>>
    BY <1>6 DEF EditRecord, frontend
  <1>. QED
    BY <1>1, <1>2, <1>4, <1>5, <1>6 DEF Commands

\* What the service shows is what waits.
LEMMA ShownIsKnown ==
  ASSUME IInv
  PROVE  /\ Shown(PendingView) \in Loadable
         /\ Known(Shown(PendingView), pending, sequence)
  <1>1. CASE PendingView = NoRequest
    BY <1>1 DEF Shown, Loadable, Known
  <1>2. CASE PendingView # NoRequest
    <2>1. PendingView = pending /\ pending \in Approval /\ pending.id < sequence
      BY <1>2, ViewOfPending DEF IInv, Types, ViewsAreTrue
    <2>2. PICK v : v = [id |-> pending.id, host |-> pending.host] /\ Shown(PendingView) = v
      BY <1>2, <2>1 DEF Shown
    <2>3. v \in View /\ v.id = pending.id /\ v.host = pending.host
      BY <2>1, <2>2 DEF Approval, View
    <2>. QED
      BY <2>1, <2>2, <2>3 DEF Loadable, Known
  <1>. QED
    BY <1>1, <1>2

\* A view stays true when what waits is left or cleared.
LEMMA KnownStays ==
  ASSUME NEW v, NEW p, NEW q \in {p, NoRequest}, NEW n, Known(v, p, n)
  PROVE  Known(v, q, n)
  BY DEF Known

LEMMA CommandInv ==
  ASSUME IInv, Commands
  PROVE  IInv'
  <1>1. exchange.stage # "answered" /\ UNCHANGED <<exchange, clock, sequence, dialog>>
    BY CommandsWait
  <1>2. pending' \in {pending, NoRequest}
    BY CommandEffects
  <1>3. FillsAreCurrent' /\ HostIsOfPage'
    BY <1>1, <1>2 DEF IInv, FillsAreCurrent, HostIsOfPage
  <1>4. /\ loads' \in [Loadable -> Nat]
        /\ \A v \in Loadable : loads'[v] > 0 => Known(v, pending, sequence)
    <2>1. CASE loads' = loads
      BY <2>1 DEF IInv, Types, ViewsAreTrue
    <2>2. CASE loads' = [loads EXCEPT ![Shown(PendingView)] = @ + 1]
      <3>1. PICK w \in Loadable : w = Shown(PendingView) /\ Known(w, pending, sequence)
        BY ShownIsKnown
      <3>2. loads \in [Loadable -> Nat] /\ loads' = [loads EXCEPT ![w] = @ + 1]
        BY <2>2, <3>1 DEF IInv, Types
      <3>3. loads' \in [Loadable -> Nat]
        BY <3>2
      <3>4. \A v \in Loadable : v # w => loads'[v] = loads[v]
        BY <3>2
      <3>. QED
        BY <3>1, <3>3, <3>4 DEF IInv, ViewsAreTrue
    <2>. QED
      BY <2>1, <2>2, CommandEffects
  <1>5. decision' = decision \/ decision'.stage \notin {"sent", "left"}
    BY CommandEffects
  <1>6. Types'
    BY <1>1, <1>2, <1>4, <1>5, RecordsStayRecords DEF IInv, Types
  <1>7. ASSUME NEW v, Known(v, pending, sequence)
        PROVE  Known(v, pending', sequence')
    BY <1>1, <1>2, <1>7, KnownStays
  <1>8. ViewsAreTrue'
    <2>1. pending' # NoRequest => pending'.id < sequence'
      BY <1>1, <1>2 DEF IInv, ViewsAreTrue
    <2>2. \A v \in Loadable : loads'[v] > 0 => Known(v, pending', sequence')
      BY <1>4, <1>7
    <2>3. Known(dialog', pending', sequence')
      BY <1>1, <1>7 DEF IInv, ViewsAreTrue
    <2>4. decision'.stage \in {"sent", "left"} => Known(decision'.view, pending', sequence')
      BY <1>5, <1>7 DEF IInv, ViewsAreTrue
    <2>. QED
      BY <2>1, <2>2, <2>3, <2>4 DEF ViewsAreTrue
  <1>. QED
    BY <1>3, <1>6, <1>8 DEF IInv

---------------------------------------------------------------------------
(* The dialog leaves the service alone, and what it shows or decides on    *)
(* came from there.                                                        *)

LEMMA ServiceIsLeftAlone ==
  ASSUME DialogActs
  PROVE  UNCHANGED service
  BY DEF DialogActs, Arrives, Decide, Cancel, Approve, Returned, FinishClose, Mount, Unmount

LEMMA DialogInv ==
  ASSUME IInv, DialogActs
  PROVE  IInv'
  <1>1. UNCHANGED <<clock, unlocked, records, pending, sequence, exchange>>
    BY ServiceIsLeftAlone DEF service
  <1>2. FillsAreCurrent' /\ HostIsOfPage'
    BY <1>1 DEF IInv, FillsAreCurrent, HostIsOfPage
  <1>3. SUFFICES /\ loads' \in [Loadable -> Nat]
                 /\ dialog' \in Loadable
                 /\ decision'.stage \in {"sent", "left"} =>
                       /\ decision' \in Decision
                       /\ Known(decision'.view, pending, sequence)
                 /\ \A v \in Loadable : loads'[v] > 0 => Known(v, pending, sequence)
                 /\ Known(dialog', pending, sequence)
    BY <1>1, <1>2 DEF IInv, Types, ViewsAreTrue
  <1>4. ASSUME NEW v \in Loadable, Arrives(v)
        PROVE  /\ loads' \in [Loadable -> Nat]
               /\ dialog' \in Loadable
               /\ decision' = decision
               /\ \A u \in Loadable : loads'[u] > 0 => Known(u, pending, sequence)
               /\ Known(dialog', pending, sequence)
    <2>1. /\ loads \in [Loadable -> Nat] /\ loads[v] > 0
          /\ loads' = [loads EXCEPT ![v] = @ - 1]
          /\ dialog' = v /\ decision' = decision
      BY <1>4 DEF Arrives, IInv, Types
    <2>2. loads' \in [Loadable -> Nat]
      BY <2>1
    <2>3. \A u \in Loadable : loads'[u] > 0 => loads[u] > 0
      BY <2>1
    <2>. QED
      BY <2>1, <2>2, <2>3 DEF IInv, ViewsAreTrue
  <1>5. ASSUME NEW choice \in Decision, choice.view = dialog, Decide(choice)
        PROVE  /\ UNCHANGED <<loads, dialog>>
               /\ decision' \in Decision /\ Known(decision'.view, pending, sequence)
    BY <1>5 DEF Decide, IInv, ViewsAreTrue
  <1>6. CASE Cancel
    <2>1. PICK choice : /\ choice = [kind |-> "cancel", view |-> dialog, stage |-> "sent"]
                        /\ Decide(choice)
      BY <1>6 DEF Cancel
    <2>2. dialog \in View
      BY <2>1 DEF Decide, IInv, Types, Loadable
    <2>3. choice \in Decision /\ choice.view = dialog
      BY <2>1, <2>2 DEF Decision
    <2>. QED
      BY <1>5, <2>1, <2>3 DEF IInv, Types, ViewsAreTrue
  <1>7. ASSUME NEW r \in Records, Approve(r)
        PROVE  /\ UNCHANGED <<loads, dialog>>
               /\ decision' \in Decision /\ Known(decision'.view, pending, sequence)
    <2>1. PICK choice : /\ choice = [kind |-> "approve", view |-> dialog, record |-> r,
                                     stage |-> "sent"]
                        /\ Decide(choice)
      BY <1>7 DEF Approve
    <2>2. dialog \in View
      BY <2>1 DEF Decide, IInv, Types, Loadable
    <2>3. choice \in Decision /\ choice.view = dialog
      BY <2>1, <2>2 DEF Decision
    <2>. QED
      BY <1>5, <2>1, <2>3
  <1>8. CASE Returned \/ FinishClose \/ Mount
    <2>1. /\ loads' = loads /\ dialog' \in {dialog, NoRequest}
          /\ decision' = decision \/ decision'.stage \notin {"sent", "left"}
      BY <1>8 DEF Returned, FinishClose, Mount, NoDecision
    <2>. QED
      BY <2>1 DEF IInv, Types, ViewsAreTrue, Known, Loadable
  <1>9. CASE Unmount
    <2>1. /\ loads' = NoLoads /\ dialog' = NoRequest
          /\ \/ decision' = decision
             \/ decision'.stage \notin {"sent", "left"}
             \/ /\ decision.stage = "sent"
                /\ decision' = [decision EXCEPT !.stage = "left"]
      BY <1>9 DEF Unmount, NoDecision
    <2>2. loads' \in [Loadable -> Nat] /\ \A v \in Loadable : ~(loads'[v] > 0)
      BY <2>1 DEF NoLoads
    <2>3. dialog' \in Loadable /\ Known(dialog', pending, sequence)
      BY <2>1 DEF Loadable, Known
    <2>4. CASE decision.stage = "sent" /\ decision' = [decision EXCEPT !.stage = "left"]
      <3>1. PICK d \in Decision : d = decision
        BY <2>4 DEF IInv, Types
      <3>2. [d EXCEPT !.stage = "left"] \in Decision /\ [d EXCEPT !.stage = "left"].view = d.view
        BY DEF Decision
      <3>. QED
        BY <2>2, <2>3, <2>4, <3>1, <3>2 DEF IInv, ViewsAreTrue
    <2>. QED
      BY <2>1, <2>2, <2>3, <2>4 DEF IInv, Types, ViewsAreTrue
  <1>. QED
    BY <1>4, <1>6, <1>7, <1>8, <1>9 DEF DialogActs, IInv, Types, ViewsAreTrue

LEMMA NextInv ==
  ASSUME IInv, [Next]_vars
  PROVE  IInv'
  <1>1. CASE Tick
    BY <1>1, AutofillAssumption
    DEF Tick, frontend, IInv, Types, ViewsAreTrue, HostIsOfPage, FillsAreCurrent
  <1>2. CASE UNCHANGED vars
    BY <1>2
    DEF vars, service, frontend, IInv, Types, ViewsAreTrue, HostIsOfPage, FillsAreCurrent
  <1>. QED
    BY <1>1, <1>2, ProcessInv, RequestApprovalInv, DeliveryInv, CommandInv, DialogInv
    DEF Next

---------------------------------------------------------------------------
\* The invariant holds for any records, pages, websites and bounds.
THEOREM InductiveInvariant == Spec => []IInv
  BY InitInv, NextInv, PTL DEF Spec

\* A browser is given no secret of a locked session, of a record that is gone, of a
\* password that has been replaced, or for a page of another site, however requests and
\* commands interleave (autofill/service.rs and pipe.rs: the answer is delivered under
\* the operation gate).
THEOREM FillsAreSound == Spec => []FillsAreCurrent
  BY InductiveInvariant, PTL DEF IInv

---------------------------------------------------------------------------
(* Approvals.                                                              *)

\* Only an approval changes the hosts of a record, and only the user, time or another
\* request ends one that waits.
LEMMA OnlyApprovalsChangeHosts ==
  ASSUME IInv, [Next]_vars, NEW r \in Records, records'[r].hosts # records[r].hosts
  PROVE  \E q \in Records : ApproveLoginHost(q) /\ records' # records
  <1>1. records \in [Records -> Record] /\ records' # records
    BY DEF IInv, Types
  <1>2. /\ ~(\E request \in Requests : Process(request))
        /\ ~(\E page \in Pages : RequestHostApproval(page))
        /\ ~Dispatch /\ ~DialogActs /\ ~Tick /\ ~UNCHANGED vars
    BY <1>1, ServiceIsLeftAlone
    DEF Dispatch, RequestHostApproval, Process, Deliver, DeliveryFails, Notify, Tick,
        vars, service
  <1>3. ASSUME NEW q \in Records, EditRecord(q)
        PROVE  FALSE
    <2>1. PICK record \in Record : record = records[q]
      BY <1>1
    <2>2. records'[q].hosts = records[q].hosts
      BY <1>1, <1>3, <2>1 DEF EditRecord, Record
    <2>3. r # q => records'[r] = records[r]
      BY <1>1, <1>3 DEF EditRecord
    <2>. QED
      BY <2>2, <2>3
  <1>4. Commands
    BY <1>2 DEF Next
  <1>. QED
    BY <1>1, <1>3, <1>4
    DEF Commands, LoadPending, HostApprovalCandidates, CancelHostApproval, Unlock, Lock

\* The record that was approved has the host now.
LEMMA GrantedMatches ==
  ASSUME IInv, NEW r \in Records, Granted(r), pending # NoRequest
  PROVE  MatchesSaved(ParseUrl(Https(pending.host)), records'[r])
  <1>1. records \in [Records -> Record] /\ pending.host \in Hosts
    BY DEF IInv, Types, Approval
  <1>2. ParseUrl(Https(pending.host)) # NoHost
    BY <1>1, SavedHost, HostsAreLabels
  <1>3. CASE AlreadyAllowed(r)
    BY <1>3 DEF Granted, AlreadyAllowed
  <1>4. CASE ~AlreadyAllowed(r)
    <2>1. PICK record \in Record : record = records[r]
      BY <1>1
    <2>2. records'[r] = [record EXCEPT !.hosts = @ \cup {pending.host}]
      BY <1>1, <1>4, <2>1 DEF Granted
    <2>3. pending.host \in records'[r].hosts
      BY <2>1, <2>2 DEF Record
    <2>. QED
      BY <1>2, <2>3 DEF MatchesSaved
  <1>. QED
    BY <1>3, <1>4

\* What a page asked for serves that page, when it has one www label at most.
LEMMA GrantServesPage ==
  ASSUME IInv, NEW r \in Records, Granted(r), pending # NoRequest,
         ~HasTwoWww(pending.page.host)
  PROVE  MatchesSaved(ParseUrl(pending.page), records'[r])
  <1>1. /\ pending.host = ParseUrl(pending.page) /\ pending.host \in Hosts
        /\ pending.page \in Pages
    BY DEF IInv, Types, HostIsOfPage, Approval
  <1>2. pending.host # NoHost
    BY <1>1 DEF Hosts
  <1>3. pending.host = CanonicalAutofillHost(pending.page.host)
    BY <1>1, <1>2 DEF ParseUrl
  <1>4. pending.page.host \in Labels
    BY <1>1, AutofillAssumption DEF Labels
  <1>5. CanonicalAutofillHost(pending.host) = pending.host
    BY <1>2, <1>3, <1>4, CanonicalStays
  <1>. QED
    BY <1>1, <1>5, SavedHost, GrantedMatches

\* The page that asked for an approval may use the record it was granted, although its
\* host is canonicalized three times on the way, unless it has two www labels
\* (approve_login_host in autofill/service.rs, matches_saved in autofill/url_match.rs).
THEOREM PagesAreServed == Spec => ApprovedPagesAreServed
  <1>1. ASSUME IInv, [Next]_vars, NEW r \in Records, records'[r].hosts # records[r].hosts,
               ~HasTwoWww(pending.page.host)
        PROVE  MatchesSaved(ParseUrl(pending.page), records'[r])
    <2>1. PICK q \in Records : ApproveLoginHost(q) /\ records' # records
      BY <1>1, OnlyApprovalsChangeHosts
    <2>2. /\ pending # NoRequest /\ Granted(q)
          /\ records' = [records EXCEPT ![q].hosts = @ \cup {pending.host}]
      BY <1>1, <2>1, Approving DEF Granted, Refused
    <2>3. records \in [Records -> Record]
      BY <1>1 DEF IInv, Types
    <2>4. q = r
      BY <1>1, <2>2, <2>3
    <2>. QED
      BY <1>1, <2>2, <2>4, GrantServesPage
  <1>2. ASSUME IInv, [Next]_vars
        PROVE  [\A r \in Records : records'[r].hosts # records[r].hosts =>
                  HasTwoWww(pending.page.host)
                    \/ MatchesSaved(ParseUrl(pending.page), records'[r])]_vars
    BY <1>1, <1>2
  <1>. QED
    BY <1>2, InductiveInvariant, PTL DEF Spec, ApprovedPagesAreServed

\* An approval gives the record the user chose the host the user was shown and nothing
\* else, for a request that is not too old, whatever has been loaded or requested since;
\* and what waits is not dropped before its time (approve_login_host, cancel_host_approval
\* and require_pending_unlocked in autofill/service.rs).
THEOREM ApprovalsAreSound == Spec => ApprovalsAreHandled
  <1>1. ASSUME IInv, [Next]_vars, NEW r \in Records, records'[r].hosts # records[r].hosts
        PROVE  /\ decision.record = r
               /\ records'[r].hosts = records[r].hosts \cup {decision.view.host}
               /\ pending.id = decision.view.id
               /\ clock - pending.createdAt <= Lifetime
    <2>1. PICK q \in Records : ApproveLoginHost(q) /\ records' # records
      BY <1>1, OnlyApprovalsChangeHosts
    <2>2. /\ pending \in Approval /\ decision.view.id = pending.id
          /\ decision.view.host = pending.host /\ decision.record = q
          /\ ~Outdated(pending)
          /\ records' = [records EXCEPT ![q].hosts = @ \cup {pending.host}]
      BY <1>1, <2>1, Approving DEF Granted, Refused, IInv, Types
    <2>3. records \in [Records -> Record]
      BY <1>1 DEF IInv, Types
    <2>4. q = r
      BY <1>1, <2>2, <2>3
    <2>5. PICK record \in Record : record = records[r]
      BY <2>3
    <2>6. records'[r] = [record EXCEPT !.hosts = @ \cup {pending.host}]
      BY <2>2, <2>3, <2>4, <2>5
    <2>7. records'[r].hosts = records[r].hosts \cup {pending.host}
      BY <2>5, <2>6 DEF Record
    <2>8. clock - pending.createdAt <= Lifetime
      BY <1>1, <2>2, AutofillAssumption DEF Outdated, Approval, IInv, Types
    <2>. QED
      BY <2>2, <2>4, <2>7, <2>8
  <1>2. ASSUME IInv, [Next]_vars, pending # NoRequest, pending' = NoRequest
        PROVE  \/ Outdated(pending)
               \/ /\ decision.view.id = pending.id
                  /\ \/ decision.kind = "cancel"
                     \/ MatchesSaved(ParseUrl(Https(pending.host)),
                                     records'[decision.record])
    <2>1. ASSUME NEW page \in Pages, RequestHostApproval(page)
          PROVE  FALSE
      <3>1. pending' \in Approval \cup {pending}
        BY <1>2, <2>1, NewApproval
      <3>. QED
        BY <1>2, <3>1, NoRequestAssumption
    <2>2. ASSUME NEW request \in Requests, Process(request)
          PROVE  FALSE
      BY <1>2, <2>2 DEF Process
    <2>3. CASE Dispatch \/ DialogActs \/ Tick \/ UNCHANGED vars
      BY <1>2, <2>3, ServiceIsLeftAlone
      DEF Dispatch, Deliver, DeliveryFails, Notify, Tick, vars, service
    <2>4. CASE LoadPending \/ HostApprovalCandidates
      BY <1>2, <2>4, ViewOfPending DEF LoadPending, HostApprovalCandidates
    <2>5. CASE Unlock \/ Lock \/ \E r \in Records : EditRecord(r)
      BY <1>2, <2>5 DEF Unlock, Lock, EditRecord
    <2>6. CASE CancelHostApproval
      <3>1. decision.kind = "cancel"
        BY <2>6 DEF CancelHostApproval, Decided
      <3>2. CASE RequirePending
        BY <3>1, <3>2, ViewOfPending DEF RequirePending
      <3>3. CASE ~RequirePending
        BY <1>2, <2>6, <3>3, ViewOfPending DEF CancelHostApproval
      <3>. QED
        BY <3>2, <3>3
    <2>7. ASSUME NEW r \in Records, ApproveLoginHost(r)
          PROVE  \/ Outdated(pending)
                 \/ /\ decision.view.id = pending.id /\ decision.record = r
                    /\ MatchesSaved(ParseUrl(Https(pending.host)), records'[r])
      <3>1. CASE Refused
        BY <1>2, <3>1, ViewOfPending DEF Refused
      <3>2. CASE ~Refused
        BY <1>2, <2>7, <3>2, Approving, GrantedMatches
      <3>. QED
        BY <3>1, <3>2
    <2>. QED
      BY <1>2, <2>1, <2>2, <2>3, <2>4, <2>5, <2>6, <2>7 DEF Next, Commands
  <1>3. ASSUME IInv, [Next]_vars
        PROVE  [\A r \in Records : records'[r].hosts # records[r].hosts =>
                  /\ decision.record = r
                  /\ records'[r].hosts = records[r].hosts \cup {decision.view.host}
                  /\ pending.id = decision.view.id
                  /\ clock - pending.createdAt <= Lifetime]_vars
    BY <1>1, <1>3
  <1>4. ASSUME IInv, [Next]_vars
        PROVE  [(pending # NoRequest /\ pending' = NoRequest) =>
                  \/ Outdated(pending)
                  \/ /\ decision.view.id = pending.id
                     /\ \/ decision.kind = "cancel"
                        \/ MatchesSaved(ParseUrl(Https(pending.host)),
                                        records'[decision.record])]_vars
    BY <1>2, <1>4
  <1>. QED
    BY <1>3, <1>4, InductiveInvariant, PagesAreServed, PTL
    DEF Spec, ApprovalsAreHandled, ApprovalsAreAnswered, ApprovalsAreKept

=============================================================================
