---------------------------- MODULE HandlerProof ----------------------------
(***************************************************************************)
(* What holds of the request tracking of Handler for every number of       *)
(* requests and targets, every set of calls, and every bound: the type     *)
(* invariant; that the lookup by call id finds the right request           *)
(* (IdsMatch) and a client is given the answer to its own call             *)
(* (OwnAnswer); that the panic! of on_response is out of reach (NoPanic);  *)
(* and that no call is dropped silently (CanceledOnlyByLoss).              *)
(*                                                                         *)
(* The last two build on the first invariant, IInv: PanicInv adds what is  *)
(* known of the order of the messages on their way to the handler, and     *)
(* WaitersHeld where the senders of the waiting calls are.                 *)
(***************************************************************************)
EXTENDS Handler, FiniteSetTheorems, TLAPS

-----------------------------------------------------------------------------
(* The inductive invariant.                                                *)

\* What `of` stands for in an entry of pending_commands.
OwnersTyped ==
  \A p \in pending :
    /\ p.kind \in SenderKinds => p.of \in Requests
    /\ p.kind = "Navigate" => p.of \in Nat

\* The ids Connection::next_call_id has still to give out are unused.
CallIdsFresh ==
  /\ \A p \in pending : p.id < nextId
  /\ \A c \in calls : c.id < nextId
  /\ \A m \in Range(inbox) : m.type = "response" => m.id < nextId

\* So are the ids of next_navigation_id.
NavigationIdsFresh ==
  /\ \A n \in navigations : n.id < nextNav
  /\ \A p \in pending : p.kind = "Navigate" => p.of < nextNav
  /\ \A t \in Targets : \A e \in queued[t] : e.nav < nextNav

\* A navigation keeps its request from the page's channel through the queue of the
\* FrameManager, the call and the response.
NavigationsMatch ==
  /\ \A n \in navigations : n.response \in {NoRequest, n.req}
  /\ \A t \in Targets : \A e \in queued[t] : \A n \in navigations :
       n.id = e.nav => n.req = e.req
  /\ \A p \in pending, n \in navigations : p.kind = "Navigate" /\ n.id = p.of =>
       /\ \A c \in calls : c.id = p.id => c.req = n.req
       /\ \A m \in Range(inbox) : m.type = "response" /\ m.id = p.id => m.req = n.req

\* Two calls never share an id, and whatever is on its way back under an id that
\* pending_commands knows belongs to the request recorded there.  This is what
\* makes the lookup in on_response find the right client.
IdsMatch ==
  /\ \A p, q \in pending : p.id = q.id => p = q
  /\ \A p \in pending, c \in calls :
       p.id = c.id /\ p.kind \in SenderKinds => p.of = c.req
  /\ \A p \in pending : \A m \in Range(inbox) :
       m.type = "response" /\ m.id = p.id /\ p.kind \in SenderKinds => p.of = m.req

CallInv == OwnersTyped /\ CallIdsFresh /\ IdsMatch
NavInv  == NavigationIdsFresh /\ NavigationsMatch
IInv    == TypeOK /\ CallInv /\ NavInv /\ OwnAnswer

-----------------------------------------------------------------------------
(* Sequences as sets of messages.                                          *)

\* The messages of a channel have its type.
LEMMA RangeType ==
  ASSUME NEW S, NEW s \in Seq(S)
  PROVE  Range(s) \subseteq S
BY DEF Range

\* What a message appended to a channel adds to it.
LEMMA RangeAppend ==
  ASSUME NEW S, NEW s \in Seq(S), NEW x \in S
  PROVE  Append(s, x) \in Seq(S) /\ Range(Append(s, x)) = Range(s) \cup {x}
<1>1. Append(s, x) \in Seq(S)
  OBVIOUS
<1>2. ASSUME NEW y \in Range(Append(s, x))
      PROVE  y \in Range(s) \cup {x}
  BY <1>2 DEF Range
<1>3. ASSUME NEW y \in Range(s)
      PROVE  y \in Range(Append(s, x))
  BY <1>3 DEF Range
<1>4. x \in Range(Append(s, x))
  <2>1. /\ Len(s) + 1 \in DOMAIN Append(s, x)
        /\ Append(s, x)[Len(s) + 1] = x
    OBVIOUS
  <2> QED BY <2>1 DEF Range
<1> QED BY <1>1, <1>2, <1>3, <1>4

\* Taking the first message leaves only messages that were there.
LEMMA RangeTail ==
  ASSUME NEW S, NEW s \in Seq(S), s # <<>>
  PROVE  /\ Head(s) \in S /\ Head(s) \in Range(s)
         /\ Tail(s) \in Seq(S) /\ Range(Tail(s)) \subseteq Range(s)
<1>1. Head(s) \in S /\ Tail(s) \in Seq(S)
  OBVIOUS
<1>2. Head(s) \in Range(s)
  BY DEF Range
<1>3. ASSUME NEW y \in Range(Tail(s))
      PROVE  y \in Range(s)
  <2>1. PICK i \in DOMAIN Tail(s) : y = Tail(s)[i]
    BY <1>3 DEF Range
  <2>2. i + 1 \in DOMAIN s /\ y = s[i + 1]
    BY <2>1
  <2> QED BY <2>2 DEF Range
<1> QED BY <1>1, <1>2, <1>3

\* Two messages appended one after the other.
LEMMA RangePair ==
  ASSUME NEW S, NEW s \in Seq(S), NEW x \in S, NEW y \in S
  PROVE  s \o <<x, y>> \in Seq(S) /\ Range(s \o <<x, y>>) = Range(s) \cup {x, y}
<1> DEFINE u == Append(s, x)
<1>1. s \o <<x, y>> = Append(u, y)
  OBVIOUS
<1>2. u \in Seq(S) /\ Range(u) = Range(s) \cup {x}
  BY RangeAppend
<1> HIDE DEF u
<1>3. Append(u, y) \in Seq(S) /\ Range(Append(u, y)) = Range(u) \cup {y}
  BY <1>2, RangeAppend
<1> QED BY <1>1, <1>2, <1>3

\* An empty channel holds no message.
LEMMA RangeEmpty == Range(<<>>) = {}
BY DEF Range

-----------------------------------------------------------------------------
(* Conclude.                                                               *)

\* Nothing a failure says is an answer.
LEMMA FailsType ==
  \A status \in Status \ {"answered"} :
    Fails(status) \in Outcomes /\ Fails(status).status # "answered"
BY DEF Fails, Outcomes, Status

\* Outcomes stay outcomes, and answers the clients' own, when what is sent is both.
LEMMA ConcludeStep ==
  ASSUME TypeOK, OwnAnswer, NEW verdict, Conclude(verdict),
         \A r \in Requests : r \in DOMAIN verdict =>
           /\ verdict[r] \in Outcomes
           /\ verdict[r].status = "answered" => verdict[r].from = r
  PROVE  outcome' \in [Requests -> Outcomes] /\ OwnAnswer'
<1>1. Fails("canceled") \in Outcomes /\ Fails("canceled").status # "answered"
  BY FailsType DEF Status
<1>2. outcome' \in [Requests -> Outcomes]
  BY <1>1 DEF Conclude, TypeOK
<1>3. OwnAnswer'
  BY <1>1 DEF Conclude, OwnAnswer
<1> QED BY <1>2, <1>3

LEMMA ConcludeNobodyStep ==
  ASSUME TypeOK, OwnAnswer, Conclude(Nobody)
  PROVE  outcome' \in [Requests -> Outcomes] /\ OwnAnswer'
BY ConcludeStep DEF Nobody

LEMMA TellStep ==
  ASSUME TypeOK, OwnAnswer, NEW r, NEW v \in Outcomes, Tell(r, v),
         v.status = "answered" => v.from = r
  PROVE  outcome' \in [Requests -> Outcomes] /\ OwnAnswer'
BY ConcludeStep DEF Tell

-----------------------------------------------------------------------------
(* Steps several actions have in common.                                   *)

CallTypes == pending \subseteq PendingEntries /\ nextId \in Nat /\ calls \subseteq CallRecords

\* submit_command and the entry for it: the id is new, so the entry replaces none
\* and the call is matched by no other.
LEMMA SubmitStep ==
  ASSUME TypeOK, CallInv, UNCHANGED inbox,
         NEW kind \in PendingKinds, NEW of \in Requests \cup Targets \cup Nat,
         NEW req \in Requests \cup {NoRequest},
         Submit(kind, of, req),
         kind \in SenderKinds => of \in Requests /\ of = req,
         kind = "Navigate" => of \in Nat
  PROVE  CallTypes' /\ CallInv'
<1> DEFINE p0 == [id |-> nextId, kind |-> kind, of |-> of]
           c0 == [id |-> nextId, kind |-> kind, req |-> req]
<1>0. Range(inbox) \subseteq Messages /\ Range(inbox)' = Range(inbox)
  BY RangeType DEF TypeOK
<1>1. pending' \subseteq pending \cup {p0} /\ calls' = calls \cup {c0} /\ nextId' = nextId + 1
  BY DEF Submit
<1>2. p0 \in PendingEntries /\ c0 \in CallRecords
  BY DEF TypeOK, PendingEntries, CallRecords
<1>3. CallTypes'
  BY <1>1, <1>2 DEF CallTypes, TypeOK
<1>4. OwnersTyped'
  BY <1>1 DEF CallInv, OwnersTyped
<1>5. CallIdsFresh'
  <2>2. nextId \in Nat /\ nextId < nextId' /\ \A i \in Nat : i < nextId => i < nextId'
    BY <1>1 DEF TypeOK
  <2>3. \A p \in pending' : p.id < nextId'
    BY <1>1, <2>2 DEF CallInv, CallIdsFresh, TypeOK, PendingEntries
  <2>4. \A c \in calls' : c.id < nextId'
    BY <1>1, <2>2 DEF CallInv, CallIdsFresh, TypeOK, CallRecords
  <2>5. \A m \in Range(inbox)' : m.type = "response" => m.id < nextId'
    BY <1>0, <2>2 DEF CallInv, CallIdsFresh, Messages
  <2> QED BY <2>3, <2>4, <2>5 DEF CallIdsFresh
<1>6. IdsMatch'
  <2>1. \A p, q \in pending' : p.id = q.id => p = q
    BY <1>1 DEF CallInv, CallIdsFresh, IdsMatch, TypeOK, PendingEntries
  <2>2. \A p \in pending', c \in calls' :
          p.id = c.id /\ p.kind \in SenderKinds => p.of = c.req
    BY <1>1 DEF CallInv, CallIdsFresh, IdsMatch, TypeOK, PendingEntries, CallRecords
  <2>3. \A p \in pending' : \A m \in Range(inbox)' :
          m.type = "response" /\ m.id = p.id /\ p.kind \in SenderKinds => p.of = m.req
    <3> SUFFICES ASSUME NEW p \in pending', NEW m \in Range(inbox),
                        m.type = "response", m.id = p.id, p.kind \in SenderKinds
                 PROVE  p.of = m.req
      BY <1>0
    <3>1. m.id \in Nat /\ m.id < nextId
      BY <1>0 DEF CallInv, CallIdsFresh, Messages
    <3>2. p \in pending
      BY <1>1, <3>1 DEF TypeOK
    <3> QED BY <3>2 DEF CallInv, IdsMatch
  <2> QED BY <2>1, <2>2, <2>3 DEF IdsMatch
<1> QED BY <1>3, <1>4, <1>5, <1>6 DEF CallInv

\* A new call that is not a navigation concerns no entry of `navigations`.
LEMMA SubmitKeepsNavigations ==
  ASSUME TypeOK, CallInv, NavInv, UNCHANGED <<inbox, navVars, queued>>,
         NEW kind \in PendingKinds \ {"Navigate"}, NEW of, NEW req, Submit(kind, of, req)
  PROVE  NavInv'
<1> DEFINE p0 == [id |-> nextId, kind |-> kind, of |-> of]
           c0 == [id |-> nextId, kind |-> kind, req |-> req]
<1>1. pending' \subseteq pending \cup {p0} /\ calls' = calls \cup {c0}
  BY DEF Submit
<1>2. NavigationIdsFresh'
  BY <1>1 DEF NavInv, NavigationIdsFresh, navVars
<1>3. NavigationsMatch'
  BY <1>1 DEF NavInv, NavigationsMatch, navVars, CallInv, CallIdsFresh, TypeOK, PendingEntries
<1> QED BY <1>2, <1>3 DEF NavInv

\* Entries may go and the socket be read without the calls getting mixed up.
LEMMA CallsShrink ==
  ASSUME TypeOK, CallInv, UNCHANGED <<nextId, calls>>,
         pending' \subseteq pending, Range(inbox)' \subseteq Range(inbox)
  PROVE  CallTypes' /\ CallInv'
<1>1. OwnersTyped' /\ CallIdsFresh'
  BY DEF CallInv, OwnersTyped, CallIdsFresh
<1>2. IdsMatch'
  BY DEF CallInv, IdsMatch
<1> QED BY <1>1, <1>2 DEF CallInv, CallTypes, TypeOK

\* Nor the navigations: their entries may also go.
LEMMA NavigationsShrink ==
  ASSUME TypeOK, NavInv, UNCHANGED <<calls, nextNav>>,
         pending' \subseteq pending, Range(inbox)' \subseteq Range(inbox),
         navigations' \subseteq navigations,
         \A t \in Targets : queued'[t] \subseteq queued[t]
  PROVE  NavInv'
<1>1. NavigationIdsFresh'
  BY DEF NavInv, NavigationIdsFresh
<1>2. NavigationsMatch'
  BY DEF NavInv, NavigationsMatch
<1> QED BY <1>1, <1>2 DEF NavInv
\* What the browser sends keeps calls and requests matched if its responses are
\* made for calls it had been sent.
LEMMA AnswersSent ==
  ASSUME TypeOK, CallInv, NavInv, UNCHANGED <<pending, nextId, navVars, queued>>,
         calls' \subseteq calls,
         NEW M, Range(inbox)' \subseteq Range(inbox) \cup M,
         \A m \in M : m.type = "response" => \E c \in calls : c.id = m.id /\ c.req = m.req
  PROVE  CallTypes' /\ CallInv' /\ NavInv'
<1>1. OwnersTyped' /\ CallIdsFresh'
  BY DEF CallInv, OwnersTyped, CallIdsFresh
<1>2. IdsMatch'
  BY DEF CallInv, IdsMatch
<1>3. NavigationIdsFresh' /\ NavigationsMatch'
  BY DEF NavInv, NavigationIdsFresh, NavigationsMatch, navVars
<1> QED BY <1>1, <1>2, <1>3 DEF CallInv, NavInv, CallTypes, TypeOK

-----------------------------------------------------------------------------
(* The steps of the clients.                                               *)

LEMMA ClientsStep ==
  ASSUME IInv, Clients
  PROVE  IInv'
<1>1. ASSUME NEW r \in Requests, NEW kind \in Kinds, AskBrowser(r, kind)
      PROVE  IInv'
  <2>1. CallTypes' /\ CallInv' /\ NavInv'
    BY <1>1, CallsShrink, NavigationsShrink DEF AskBrowser, IInv, callVars, navVars, targetVars
  <2>2. mailbox' \in Seq(Asks(BrowserKinds))
    BY <1>1, RangeAppend DEF AskBrowser, IInv, TypeOK, Asks
  <2>3. outcome' \in [Requests -> Outcomes] /\ OwnAnswer'
    <3>1. Fails("waiting") \in Outcomes /\ Fails("waiting").status # "answered"
      BY FailsType DEF Status
    <3> QED BY <1>1, <3>1 DEF AskBrowser, IInv, TypeOK, OwnAnswer
  <2>4. TypeOK'
    BY <1>1, <2>1, <2>2, <2>3
    DEF AskBrowser, IInv, TypeOK, CallTypes, callVars, navVars, targetVars
  <2> QED BY <2>1, <2>3, <2>4 DEF IInv
<1>2. ASSUME NEW r \in Requests, NEW kind \in Kinds, NEW t \in Targets, AskPage(r, kind, t)
      PROVE  IInv'
  <2>1. CallTypes' /\ CallInv' /\ NavInv'
    BY <1>2, CallsShrink, NavigationsShrink DEF AskPage, IInv, callVars, navVars, targetVars
  <2>2. pagebox' \in [Targets -> Seq(Asks(PageKinds))]
    <3>1. Append(pagebox[t], [kind |-> kind, req |-> r]) \in Seq(Asks(PageKinds))
      BY <1>2, RangeAppend DEF AskPage, IInv, TypeOK, Asks
    <3> QED BY <1>2, <3>1 DEF AskPage, IInv, TypeOK
  <2>3. outcome' \in [Requests -> Outcomes] /\ OwnAnswer'
    <3>1. Fails("waiting") \in Outcomes /\ Fails("waiting").status # "answered"
      BY FailsType DEF Status
    <3> QED BY <1>2, <3>1 DEF AskPage, IInv, TypeOK, OwnAnswer
  <2>4. TypeOK'
    BY <1>2, <2>1, <2>2, <2>3
    DEF AskPage, IInv, TypeOK, CallTypes, callVars, navVars, targetVars
  <2> QED BY <2>1, <2>3, <2>4 DEF IInv
<1>3. ASSUME NEW r \in Requests, Abandon(r)
      PROVE  IInv'
  <2>1. CallTypes' /\ CallInv' /\ NavInv'
    BY <1>3, CallsShrink, NavigationsShrink DEF Abandon, IInv, callVars, navVars, targetVars
  <2>2. outcome' \in [Requests -> Outcomes] /\ OwnAnswer'
    <3>1. Fails("abandoned") \in Outcomes /\ Fails("abandoned").status # "answered"
      BY FailsType DEF Status
    <3> QED BY <1>3, <3>1 DEF Abandon, IInv, TypeOK, OwnAnswer
  <2>3. TypeOK'
    BY <1>3, <2>1, <2>2 DEF Abandon, IInv, TypeOK, CallTypes, callVars, navVars, targetVars
  <2> QED BY <2>1, <2>2, <2>3 DEF IInv
<1> QED BY <1>1, <1>2, <1>3 DEF Clients

-----------------------------------------------------------------------------
(* The steps of the browser.                                               *)

LEMMA BrowserStep ==
  ASSUME IInv, Browser
  PROVE  IInv'
<1> USE DEF IInv
<1>1. ASSUME NEW call \in calls, NEW ok \in BOOLEAN, Respond(call, ok)
      PROVE  IInv'
  <2> DEFINE m == Response(call, ok, IF call.kind = "GetTargets"
                                     THEN {t \in Targets : tabs[t] = "open"} ELSE {})
  <2>1. m \in Messages
    BY DEF Response, Messages, TypeOK, CallRecords
  <2>2. inbox' \in Seq(Messages) /\ Range(inbox)' = Range(inbox) \cup {m}
    <3>1. inbox' = Append(inbox, m) /\ inbox \in Seq(Messages)
      BY <1>1 DEF Respond, TypeOK
    <3> HIDE DEF m
    <3> QED BY <2>1, <3>1, RangeAppend
  <2>3. \A x \in {m} : x.type = "response" => \E c \in calls : c.id = x.id /\ c.req = x.req
    BY DEF Response
  <2>4. CallTypes' /\ CallInv' /\ NavInv'
    <3>1. calls' \subseteq calls /\ UNCHANGED <<pending, nextId, navVars, queued>>
      BY <1>1 DEF Respond, navVars, targetVars
    <3> HIDE DEF m
    <3> QED BY <2>2, <2>3, <3>1, AnswersSent
  <2>5. TypeOK' /\ OwnAnswer'
    BY <1>1, <2>2, <2>4 DEF Respond, TypeOK, OwnAnswer, CallTypes, navVars, targetVars
  <2> QED BY <2>4, <2>5
<1>2. ASSUME NEW call \in calls, NEW t \in Targets, CreateTab(call, t)
      PROVE  IInv'
  <2> DEFINE e == Event("created", t)
             m == Response(call, TRUE, {t})
  <2>1. e \in Messages /\ m \in Messages
    BY DEF Event, Response, Messages, TypeOK, CallRecords
  <2>2. inbox' \in Seq(Messages) /\ Range(inbox)' = Range(inbox) \cup {e, m}
    <3>1. inbox' = inbox \o <<e, m>> /\ inbox \in Seq(Messages)
      BY <1>2 DEF CreateTab, TypeOK
    <3> HIDE DEF e, m
    <3> QED BY <2>1, <3>1, RangePair
  <2>3. \A x \in {e, m} :
          x.type = "response" => \E c \in calls : c.id = x.id /\ c.req = x.req
    BY DEF Event, Response
  <2>4. CallTypes' /\ CallInv' /\ NavInv'
    <3>1. calls' \subseteq calls /\ UNCHANGED <<pending, nextId, navVars, queued>>
      BY <1>2 DEF CreateTab, navVars, targetVars
    <3> HIDE DEF e, m
    <3> QED BY <2>2, <2>3, <3>1, AnswersSent
  <2>5. TypeOK' /\ OwnAnswer'
    BY <1>2, <2>2, <2>4 DEF CreateTab, TypeOK, OwnAnswer, CallTypes, navVars, targetVars
  <2> QED BY <2>4, <2>5
<1>3. ASSUME NEW e \in Messages, e.type # "response", inbox' = Append(inbox, e),
             tabs' \in [Targets -> {"unborn", "open", "closed"}],
             UNCHANGED <<phase, mailbox, pagebox, callVars, navVars, targetVars, outcome>>
      PROVE  IInv'
  <2>1. inbox' \in Seq(Messages) /\ Range(inbox)' = Range(inbox) \cup {e}
    BY <1>3, RangeAppend DEF TypeOK
  <2>2. CallTypes' /\ CallInv' /\ NavInv'
    <3>1. calls' \subseteq calls /\ UNCHANGED <<pending, nextId, navVars, queued>>
      BY <1>3 DEF callVars, navVars, targetVars
    <3>2. \A x \in {e} : x.type = "response" => \E c \in calls : c.id = x.id /\ c.req = x.req
      BY <1>3
    <3> QED BY <2>1, <3>1, <3>2, AnswersSent
  <2>3. TypeOK' /\ OwnAnswer'
    BY <1>3, <2>1, <2>2 DEF TypeOK, OwnAnswer, CallTypes, callVars, navVars, targetVars
  <2> QED BY <2>2, <2>3
<1>4. ASSUME NEW t \in Targets, OpenTab(t) \/ CloseTab(t)
      PROVE  IInv'
  <2>1. \A type \in {"created", "destroyed"} :
          Event(type, t) \in Messages /\ Event(type, t).type # "response"
    BY DEF Event, Messages
  <2>2. tabs' \in [Targets -> {"unborn", "open", "closed"}]
    BY <1>4 DEF OpenTab, CloseTab, TypeOK
  <2> QED BY <1>3, <1>4, <2>1, <2>2 DEF OpenTab, CloseTab
<1>5. ASSUME BreakConnection
      PROVE  IInv'
  <2>1. LET e == [Event("broken", NoRequest) EXCEPT !.targets = {}]
        IN e \in Messages /\ e.type # "response"
    BY DEF Event, Messages
  <2> QED BY <1>3, <1>5, <2>1 DEF BreakConnection, TypeOK
<1> QED BY <1>1, <1>2, <1>4, <1>5 DEF Browser
-----------------------------------------------------------------------------
(* The channel of the Browser.                                             *)

LEMMA PollMailboxStep ==
  ASSUME IInv, PollMailbox
  PROVE  IInv'
<1> USE DEF IInv
<1> DEFINE r == Head(mailbox).req
<1>1. /\ mailbox # <<>> /\ mailbox' = Tail(mailbox)
      /\ UNCHANGED <<phase, pagebox, inbox, navVars, targetVars, tabs>>
  BY DEF PollMailbox, SubmitExternalCommand, SubmitFetchTargets, SubmitClose, CreatePage,
         SendPages, Receive
<1>2. r \in Requests /\ mailbox' \in Seq(Asks(BrowserKinds))
  BY <1>1, RangeTail DEF TypeOK, Asks
<1> HIDE DEF r
<1>3. ASSUME CallTypes', CallInv', NavInv', outcome' \in [Requests -> Outcomes], OwnAnswer'
      PROVE  IInv'
  BY <1>1, <1>2, <1>3 DEF TypeOK, CallTypes, navVars, targetVars
<1>4. ASSUME NEW kind \in SenderKinds, Submit(kind, r, r), Conclude(Nobody)
      PROVE  IInv'
  <2>1. kind \in PendingKinds \ {"Navigate"}
    BY DEF SenderKinds, PendingKinds
  <2>2. CallTypes' /\ CallInv'
    BY <1>1, <1>2, <1>4, <2>1, SubmitStep
  <2>3. NavInv'
    BY <1>1, <1>4, <2>1, SubmitKeepsNavigations DEF targetVars
  <2>4. outcome' \in [Requests -> Outcomes] /\ OwnAnswer'
    BY <1>4, ConcludeNobodyStep
  <2> QED BY <1>3, <2>2, <2>3, <2>4
<1>5. ASSUME NEW v \in Outcomes, v.status = "answered" => v.from = r,
             UNCHANGED callVars, Tell(r, v)
      PROVE  IInv'
  <2>1. CallTypes' /\ CallInv' /\ NavInv'
    BY <1>1, <1>5, CallsShrink, NavigationsShrink DEF callVars, navVars, targetVars
  <2>2. outcome' \in [Requests -> Outcomes] /\ OwnAnswer'
    BY <1>5, TellStep
  <2> QED BY <1>3, <2>1, <2>2
<1>6. CASE SubmitExternalCommand
  BY <1>4, <1>6 DEF SubmitExternalCommand, SenderKinds, r
<1>7. CASE SubmitFetchTargets
  BY <1>4, <1>7 DEF SubmitFetchTargets, SenderKinds, r
<1>8. CASE SubmitClose
  BY <1>4, <1>8 DEF SubmitClose, SenderKinds, r
<1>9. CASE CreatePage
  <2>1. Fails("error") \in Outcomes /\ Fails("error").status # "answered"
    BY FailsType DEF Status
  <2> QED BY <1>4, <1>5, <1>9, <2>1 DEF CreatePage, SenderKinds, r
<1>10. CASE SendPages
  <2>1. AnswerOf(r) \in Outcomes /\ AnswerOf(r).from = r
    BY <1>2 DEF AnswerOf, Outcomes, Status
  <2> QED BY <1>5, <1>10, <2>1 DEF SendPages, r
<1> QED BY <1>6, <1>7, <1>8, <1>9, <1>10 DEF PollMailbox

-----------------------------------------------------------------------------
(* The targets.                                                            *)

\* A message of the page's channel: a new navigation, or a call.
LEMMA OnTargetMessageStep ==
  ASSUME IInv, NEW t \in Targets, OnTargetMessage(t)
  PROVE  IInv'
<1> USE DEF IInv
<1> DEFINE m == Head(pagebox[t])
           n0 == [id |-> nextNav, req |-> m.req, navigated |-> FALSE, response |-> NoRequest]
           e0 == [nav |-> nextNav, req |-> m.req]
<1>1. /\ pagebox[t] # <<>> /\ pagebox' = [pagebox EXCEPT ![t] = Tail(@)]
      /\ UNCHANGED <<phase, mailbox, inbox, live, initiator, watched, tabs>>
      /\ Conclude(Nobody)
  BY DEF OnTargetMessage
<1>2. m.req \in Requests /\ pagebox' \in [Targets -> Seq(Asks(PageKinds))]
  <2>1. pagebox[t] \in Seq(Asks(PageKinds))
    BY DEF TypeOK
  <2>2. m \in Asks(PageKinds) /\ Tail(pagebox[t]) \in Seq(Asks(PageKinds))
    BY <1>1, <2>1, RangeTail
  <2> QED BY <1>1, <2>2 DEF TypeOK, Asks
<1>3. outcome' \in [Requests -> Outcomes] /\ OwnAnswer'
  BY <1>1, ConcludeNobodyStep
<1>4. CASE /\ nextNav' = nextNav + 1 /\ navigations' = navigations \cup {n0}
           /\ \/ queued' = [queued EXCEPT ![t] = @ \cup {e0}]
              \/ UNCHANGED queued
           /\ UNCHANGED callVars
  <2>1. CallTypes' /\ CallInv'
    BY <1>1, <1>4, CallsShrink DEF callVars
  <2>2. nextNav \in Nat /\ nextNav' \in Nat /\ \A i \in Nat : i < nextNav => i < nextNav'
    BY <1>4 DEF TypeOK
  <2>3. \A q \in Targets : \A e \in queued'[q] : e \in queued[q] \/ e = e0
    BY <1>4 DEF TypeOK
  <2>4. NavigationIdsFresh'
    <3>1. \A n \in navigations' : n.id < nextNav'
      BY <1>4, <2>2 DEF NavInv, NavigationIdsFresh, TypeOK
    <3>2. \A p \in pending' : p.kind = "Navigate" => p.of < nextNav'
      BY <1>4, <2>2 DEF NavInv, NavigationIdsFresh, CallInv, OwnersTyped, callVars
    <3>3. \A q \in Targets : \A e \in queued'[q] : e.nav < nextNav'
      BY <1>4, <2>2, <2>3 DEF NavInv, NavigationIdsFresh, TypeOK, QueuedNavigations
    <3> QED BY <3>1, <3>2, <3>3 DEF NavigationIdsFresh
  <2>5. NavigationsMatch'
    <3>1. \A n \in navigations' : n.response \in {NoRequest, n.req}
      BY <1>4 DEF NavInv, NavigationsMatch
    <3>2. \A q \in Targets : \A e \in queued'[q] : \A n \in navigations' :
            n.id = e.nav => n.req = e.req
      <4> SUFFICES ASSUME NEW q \in Targets, NEW e \in queued'[q], NEW n \in navigations',
                          n.id = e.nav
                   PROVE  n.req = e.req
        OBVIOUS
      <4>1. (e \in queued[q] \/ e = e0) /\ (n \in navigations \/ n = n0)
        BY <1>4, <2>3
      <4>2. ~(nextNav < nextNav)
        BY <2>2
      <4>3. CASE e \in queued[q] /\ n = n0
        BY <4>2, <4>3 DEF NavInv, NavigationIdsFresh
      <4>4. CASE e = e0 /\ n \in navigations
        BY <4>2, <4>4 DEF NavInv, NavigationIdsFresh
      <4> QED BY <4>1, <4>3, <4>4 DEF NavInv, NavigationsMatch
    <3>3. \A p \in pending', n \in navigations' : p.kind = "Navigate" /\ n.id = p.of =>
            p \in pending /\ n \in navigations
      <4>1. \A p \in pending : p.kind = "Navigate" => nextNav # p.of
        BY <2>2 DEF NavInv, NavigationIdsFresh
      <4> QED BY <1>4, <4>1 DEF callVars
    <3> QED BY <1>1, <1>4, <3>1, <3>2, <3>3 DEF NavInv, NavigationsMatch, callVars
  <2>6. TypeOK'
    <3>1. n0 \in [id : Nat, req : Requests, navigated : BOOLEAN,
                  response : Requests \cup {NoRequest}]
      BY <1>2 DEF TypeOK
    <3>2. e0 \in QueuedNavigations
      BY <1>2 DEF TypeOK, QueuedNavigations
    <3>3. queued' \in [Targets -> SUBSET QueuedNavigations]
      <4>1. queued[t] \cup {e0} \in SUBSET QueuedNavigations
        BY <3>2 DEF TypeOK
      <4> HIDE DEF e0
      <4> QED BY <1>4, <4>1 DEF TypeOK
    <3> QED BY <1>1, <1>2, <1>3, <1>4, <2>1, <2>2, <3>1, <3>3 DEF TypeOK, CallTypes
  <2> QED BY <1>3, <2>1, <2>4, <2>5, <2>6 DEF NavInv
<1>5. CASE Submit("ExternalCommand", m.req, m.req) /\ UNCHANGED <<navVars, queued>>
  <2>1. CallTypes' /\ CallInv'
    BY <1>1, <1>2, <1>5, SubmitStep DEF SenderKinds, PendingKinds
  <2>2. NavInv'
    BY <1>1, <1>5, SubmitKeepsNavigations DEF SenderKinds, PendingKinds
  <2>3. TypeOK'
    BY <1>1, <1>2, <1>3, <1>5, <2>1 DEF TypeOK, CallTypes, navVars
  <2> QED BY <1>3, <2>1, <2>2, <2>3
<1> QED BY <1>4, <1>5 DEF OnTargetMessage
\* A command of the target's own belongs to no client.
LEMMA SubmitInternalCommandStep ==
  ASSUME IInv, NEW t \in Targets, SubmitInternalCommand(t)
  PROVE  IInv'
<1> USE DEF IInv
<1>1. /\ Submit("InternalCommand", t, NoRequest)
      /\ UNCHANGED <<phase, mailbox, pagebox, inbox, navVars, targetVars, tabs, outcome>>
  BY DEF SubmitInternalCommand
<1>2. CallTypes' /\ CallInv'
  BY <1>1, SubmitStep DEF SenderKinds, PendingKinds
<1>3. NavInv'
  BY <1>1, SubmitKeepsNavigations DEF SenderKinds, PendingKinds, targetVars
<1>4. TypeOK' /\ OwnAnswer'
  BY <1>1, <1>2 DEF TypeOK, CallTypes, OwnAnswer, navVars, targetVars
<1> QED BY <1>2, <1>3, <1>4

\* The navigation leaves the queue with the request it was queued with.
LEMMA SubmitNavigationStep ==
  ASSUME IInv, NEW t \in Targets, NEW e \in queued[t], SubmitNavigation(t, e)
  PROVE  IInv'
<1> USE DEF IInv
<1> DEFINE p0 == [id |-> nextId, kind |-> "Navigate", of |-> e.nav]
           c0 == [id |-> nextId, kind |-> "Navigate", req |-> e.req]
<1>1. /\ Submit("Navigate", e.nav, e.req)
      /\ queued' = [queued EXCEPT ![t] = @ \ {e}]
      /\ watched' = [watched EXCEPT ![t] = @ \cup {e}]
      /\ UNCHANGED <<phase, mailbox, pagebox, inbox, navVars, live, initiator, tabs, outcome>>
  BY DEF SubmitNavigation
<1>2. e \in QueuedNavigations /\ e.nav \in Nat /\ e.req \in Requests
  BY DEF TypeOK, QueuedNavigations
<1>3. CallTypes' /\ CallInv'
  BY <1>1, <1>2, SubmitStep DEF SenderKinds, PendingKinds
<1>4. queued' \in [Targets -> SUBSET QueuedNavigations]
      /\ watched' \in [Targets -> SUBSET QueuedNavigations]
      /\ \A q \in Targets : queued'[q] \subseteq queued[q]
  BY <1>1, <1>2 DEF TypeOK
<1>5. pending' \subseteq pending \cup {p0} /\ calls' = calls \cup {c0}
  BY <1>1 DEF Submit
<1>6. NavigationIdsFresh'
  <2>1. e.nav < nextNav
    BY DEF NavInv, NavigationIdsFresh
  <2> QED BY <1>1, <1>4, <1>5, <2>1 DEF NavInv, NavigationIdsFresh, navVars
<1>7. NavigationsMatch'
  <2>1. \A n \in navigations' : n.response \in {NoRequest, n.req}
    BY <1>1 DEF NavInv, NavigationsMatch, navVars
  <2>2. \A q \in Targets : \A f \in queued'[q] : \A n \in navigations' :
          n.id = f.nav => n.req = f.req
    BY <1>1, <1>4 DEF NavInv, NavigationsMatch, navVars
  <2>3. ASSUME NEW p \in pending', NEW n \in navigations',
               p.kind = "Navigate", n.id = p.of
        PROVE  /\ \A c \in calls' : c.id = p.id => c.req = n.req
               /\ \A m \in Range(inbox)' :
                    m.type = "response" /\ m.id = p.id => m.req = n.req
    <3>1. n \in navigations /\ Range(inbox)' = Range(inbox)
      BY <1>1 DEF navVars
    <3>2. CASE p \in pending
      <4>1. p.id # nextId
        BY <3>2 DEF CallInv, CallIdsFresh, TypeOK
      <4> QED BY <1>5, <2>3, <3>1, <3>2, <4>1 DEF NavInv, NavigationsMatch
    <3>3. CASE p = p0
      <4>1. n.req = e.req
        BY <2>3, <3>1, <3>3 DEF NavInv, NavigationsMatch
      <4>2. \A c \in calls : c.id # nextId
        BY DEF CallInv, CallIdsFresh, TypeOK
      <4>3. \A m \in Range(inbox) : m.type = "response" => m.id # nextId
        BY DEF CallInv, CallIdsFresh, TypeOK
      <4> QED BY <1>5, <3>1, <3>3, <4>1, <4>2, <4>3
    <3> QED BY <1>5, <3>2, <3>3
  <2> QED BY <2>1, <2>2, <2>3 DEF NavigationsMatch
<1>8. TypeOK' /\ OwnAnswer'
  BY <1>1, <1>3, <1>4 DEF TypeOK, CallTypes, OwnAnswer, navVars
<1> QED BY <1>3, <1>6, <1>7, <1>8 DEF NavInv

\* The answer kept with the navigation is that of its own call.
LEMMA OnNavigationLifecycleCompletedStep ==
  ASSUME IInv, NEW t \in Targets, NEW e \in watched[t], NEW ok \in BOOLEAN,
         OnNavigationLifecycleCompleted(t, e, ok)
  PROVE  IInv'
<1> USE DEF IInv
<1> DEFINE entry == {n \in navigations : n.id = e.nav}
           done == {n \in entry : ~ok \/ n.response # NoRequest}
           verdict == [r \in {n.req : n \in done} |->
                         IF ok THEN AnswerOf((CHOOSE n \in done : n.req = r).response)
                         ELSE Fails("error")]
           kept == {[n EXCEPT !.navigated = TRUE] : n \in entry \ done}
<1>1. /\ watched' = [watched EXCEPT ![t] = @ \ {e}]
      /\ UNCHANGED <<phase, mailbox, pagebox, callVars, inbox, nextNav, live, initiator,
                     queued, tabs>>
      /\ navigations' = (navigations \ entry) \cup kept
      /\ Conclude(verdict)
  BY DEF OnNavigationLifecycleCompleted
<1>2. ASSUME NEW k \in kept
      PROVE  /\ k \in [id : Nat, req : Requests, navigated : BOOLEAN,
                       response : Requests \cup {NoRequest}]
             /\ \E n \in navigations : k.id = n.id /\ k.req = n.req /\ k.response = n.response
  BY <1>2 DEF TypeOK
<1>3. \A k \in navigations' : \E n \in navigations :
        k.id = n.id /\ k.req = n.req /\ k.response = n.response
  BY <1>1, <1>2
<1>4. ASSUME NEW r \in Requests, r \in DOMAIN verdict
      PROVE  /\ verdict[r] \in Outcomes
             /\ verdict[r].status = "answered" => verdict[r].from = r
  <2>1. CASE ok
    <3> DEFINE n == CHOOSE n \in done : n.req = r
    <3>1. n \in done /\ n.req = r
      BY <1>4
    <3>2. verdict[r] = AnswerOf(n.response)
      BY <1>4, <2>1
    <3> HIDE DEF n
    <3>3. n \in navigations /\ n.response # NoRequest
      BY <2>1, <3>1
    <3>4. n.response = r
      BY <3>1, <3>3 DEF NavInv, NavigationsMatch
    <3> HIDE DEF verdict
    <3> QED BY <3>2, <3>4 DEF AnswerOf, Outcomes, Status
  <2>2. CASE ~ok
    <3>1. verdict[r] = Fails("error")
      BY <1>4, <2>2
    <3> HIDE DEF verdict
    <3> QED BY <3>1, FailsType DEF Status
  <2> QED BY <2>1, <2>2
<1> HIDE DEF verdict, kept, entry
<1>5. CallTypes' /\ CallInv'
  BY <1>1, CallsShrink DEF callVars
<1>6. NavigationIdsFresh' /\ NavigationsMatch'
  BY <1>1, <1>3 DEF NavInv, NavigationIdsFresh, NavigationsMatch, callVars
<1>7. outcome' \in [Requests -> Outcomes] /\ OwnAnswer'
  BY <1>1, <1>4, ConcludeStep
<1>8. TypeOK'
  <2>1. watched' \in [Targets -> SUBSET QueuedNavigations]
    BY <1>1 DEF TypeOK
  <2> QED BY <1>1, <1>2, <1>5, <1>7, <2>1 DEF TypeOK, CallTypes
<1> QED BY <1>5, <1>6, <1>7, <1>8 DEF NavInv

\* The page, or the failure, goes to the client that asked for it.
LEMMA InitiatorStep ==
  ASSUME IInv, NEW t \in Targets, SendPageToInitiator(t) \/ OnInitializationFailed(t)
  PROVE  IInv'
<1> USE DEF IInv
<1>1. /\ initiator' = [initiator EXCEPT ![t] = NoRequest]
      /\ UNCHANGED <<phase, mailbox, pagebox, inbox, navVars, live, queued, watched, tabs>>
  BY DEF SendPageToInitiator, OnInitializationFailed
<1>2. initiator' \in [Targets -> Requests \cup {NoRequest}]
  BY <1>1 DEF TypeOK
<1>3. ASSUME CallTypes', CallInv', NavInv', outcome' \in [Requests -> Outcomes], OwnAnswer'
      PROVE  IInv'
  BY <1>1, <1>2, <1>3 DEF TypeOK, CallTypes, navVars
<1>4. CASE SendPageToInitiator(t)
  <2>1. UNCHANGED callVars /\ initiator[t] # NoRequest
        /\ Tell(initiator[t], AnswerOf(initiator[t]))
    BY <1>4 DEF SendPageToInitiator
  <2>2. CallTypes' /\ CallInv' /\ NavInv'
    BY <1>1, <2>1, CallsShrink, NavigationsShrink DEF callVars, navVars
  <2>3. AnswerOf(initiator[t]) \in Outcomes /\ AnswerOf(initiator[t]).from = initiator[t]
    BY DEF AnswerOf, Outcomes, Status, TypeOK
  <2>4. outcome' \in [Requests -> Outcomes] /\ OwnAnswer'
    BY <2>1, <2>3, TellStep
  <2> QED BY <1>3, <2>2, <2>4
<1>5. CASE OnInitializationFailed(t)
  <2> DEFINE verdict == [r \in {initiator[t]} \ {NoRequest} |-> Fails("initfailed")]
  <2>1. Submit("InternalCommand", t, NoRequest) /\ Conclude(verdict)
    BY <1>5 DEF OnInitializationFailed
  <2>2. CallTypes' /\ CallInv'
    BY <1>1, <2>1, SubmitStep DEF SenderKinds, PendingKinds
  <2>3. NavInv'
    BY <1>1, <2>1, SubmitKeepsNavigations DEF SenderKinds, PendingKinds
  <2>4. \A r \in Requests : r \in DOMAIN verdict =>
          /\ verdict[r] \in Outcomes
          /\ verdict[r].status = "answered" => verdict[r].from = r
    BY FailsType DEF Status
  <2> HIDE DEF verdict
  <2>5. outcome' \in [Requests -> Outcomes] /\ OwnAnswer'
    BY <2>1, <2>4, ConcludeStep
  <2> QED BY <1>3, <2>2, <2>3, <2>5
<1> QED BY <1>4, <1>5

LEMMA PollTargetsStep ==
  ASSUME IInv, PollTargets
  PROVE  IInv'
BY OnTargetMessageStep, SubmitInternalCommandStep, SubmitNavigationStep,
   OnNavigationLifecycleCompletedStep, InitiatorStep DEF PollTargets
-----------------------------------------------------------------------------
(* The websocket.                                                          *)

\* What is read was on its way, and what stays was there before.
LEMMA ReadStep ==
  ASSUME TypeOK, inbox # <<>>, inbox' = Tail(inbox)
  PROVE  /\ Read \in Messages /\ Read \in Range(inbox)
         /\ inbox' \in Seq(Messages) /\ Range(inbox)' \subseteq Range(inbox)
BY RangeTail DEF Read, TypeOK

\* A response that finds its entry, when the handler submits no further call, and
\* the navigations are left alone.
LEMMA OnResponseStep ==
  ASSUME IInv, NEW p \in pending, OnResponse(p), UNCHANGED <<nextId, calls>>
  PROVE  /\ p.id = Read.id /\ Read.type = "response"
         /\ Read \in Messages /\ Read \in Range(inbox) /\ inbox' \in Seq(Messages)
         /\ Range(inbox)' \subseteq Range(inbox)
         /\ pending' \subseteq pending
         /\ CallTypes' /\ CallInv'
         /\ p.kind \in SenderKinds => p.of \in Requests /\ Read.req = p.of
         /\ UNCHANGED <<navVars, queued>> => NavInv'
<1> USE DEF IInv
<1>1. /\ inbox # <<>> /\ inbox' = Tail(inbox) /\ pending' \subseteq pending
      /\ p.id = Read.id /\ Read.type = "response"
  BY DEF OnResponse
<1>2. /\ Read \in Messages /\ Read \in Range(inbox)
      /\ inbox' \in Seq(Messages) /\ Range(inbox)' \subseteq Range(inbox)
  BY <1>1, ReadStep
<1>3. CallTypes' /\ CallInv'
  BY <1>1, <1>2, CallsShrink
<1>4. p.kind \in SenderKinds => p.of \in Requests /\ Read.req = p.of
  BY <1>1, <1>2 DEF CallInv, OwnersTyped, IdsMatch
<1>5. UNCHANGED <<navVars, queued>> => NavInv'
  BY <1>1, <1>2, NavigationsShrink DEF navVars
<1> QED BY <1>1, <1>2, <1>3, <1>4, <1>5

\* The responses that only answer a client, or nobody.
LEMMA AnswerStep ==
  ASSUME IInv, NEW p \in pending,
         OnExternalResponse(p) \/ OnInternalResponse(p) \/ OnCloseResponse(p)
  PROVE  IInv'
<1> USE DEF IInv
<1>1. /\ OnResponse(p) /\ phase' \in Phases
      /\ UNCHANGED <<mailbox, tabs, pagebox, nextId, calls, navVars, targetVars>>
  BY DEF OnExternalResponse, OnInternalResponse, OnCloseResponse, OnResponse, TypeOK, Phases
<1>2. /\ CallTypes' /\ CallInv' /\ NavInv' /\ inbox' \in Seq(Messages)
      /\ p.kind \in SenderKinds => p.of \in Requests /\ Read.req = p.of
  BY <1>1, OnResponseStep DEF targetVars
<1>3. ASSUME p.kind \in SenderKinds, Tell(p.of, AnswerOf(Read.req))
      PROVE  outcome' \in [Requests -> Outcomes] /\ OwnAnswer'
  <2>1. AnswerOf(Read.req) \in Outcomes /\ AnswerOf(Read.req).from = p.of
    BY <1>2, <1>3 DEF AnswerOf, Outcomes, Status
  <2> QED BY <1>3, <2>1, TellStep
<1>4. outcome' \in [Requests -> Outcomes] /\ OwnAnswer'
  <2>1. CASE OnExternalResponse(p)
    BY <1>3, <2>1 DEF OnExternalResponse, SenderKinds
  <2>2. CASE OnInternalResponse(p)
    BY <2>2 DEF OnInternalResponse, TypeOK, OwnAnswer
  <2>3. CASE OnCloseResponse(p)
    BY <1>3, <2>3 DEF OnCloseResponse, SenderKinds
  <2> QED BY <2>1, <2>2, <2>3
<1>5. TypeOK'
  BY <1>1, <1>2, <1>4 DEF TypeOK, CallTypes, navVars, targetVars
<1> QED BY <1>2, <1>4, <1>5

\* The target announced before is given its initiator.
LEMMA OnCreateTargetResponseStep ==
  ASSUME IInv, NEW p \in pending, OnCreateTargetResponse(p)
  PROVE  IInv'
<1> USE DEF IInv
<1>1. /\ OnResponse(p) /\ p.kind \in SenderKinds /\ phase' \in Phases
      /\ UNCHANGED <<mailbox, tabs, pagebox, nextId, calls, navVars, live, queued, watched>>
  BY DEF OnCreateTargetResponse, OnResponse, SenderKinds, TypeOK, Phases
<1>2. /\ CallTypes' /\ CallInv' /\ NavInv' /\ inbox' \in Seq(Messages) /\ p.of \in Requests
  BY <1>1, OnResponseStep
<1>3. initiator' \in [Targets -> Requests \cup {NoRequest}]
  BY <1>2 DEF OnCreateTargetResponse, TypeOK
<1>4. outcome' \in [Requests -> Outcomes] /\ OwnAnswer'
  <2>1. Fails("error") \in Outcomes /\ Fails("error").status # "answered"
    BY FailsType DEF Status
  <2>2. Tell(p.of, Fails("error")) \/ Conclude(Nobody)
    BY DEF OnCreateTargetResponse
  <2> QED BY <2>1, <2>2, TellStep, ConcludeNobodyStep
<1>5. TypeOK'
  BY <1>1, <1>2, <1>3, <1>4 DEF TypeOK, CallTypes, navVars
<1> QED BY <1>2, <1>4, <1>5

\* Registering targets, anew or for the first time.
LEMMA OnTargetCreatedStep ==
  ASSUME TypeOK, NEW ts \in SUBSET Targets, OnTargetCreated(ts)
  PROVE  /\ live' \subseteq Targets /\ initiator' \in [Targets -> Requests \cup {NoRequest}]
         /\ queued' \in [Targets -> SUBSET QueuedNavigations]
         /\ watched' \in [Targets -> SUBSET QueuedNavigations]
         /\ pagebox' \in [Targets -> Seq(Asks(PageKinds))]
         /\ \A t \in Targets : queued'[t] \subseteq queued[t]
BY DEF OnTargetCreated, TypeOK

\* Every target of the list is registered and attached to with an untracked call.
LEMMA OnGetTargetsResponseStep ==
  ASSUME IInv, NEW p \in pending, OnGetTargetsResponse(p)
  PROVE  IInv'
<1> USE DEF IInv
<1>1. /\ inbox # <<>> /\ inbox' = Tail(inbox) /\ pending' \subseteq pending
      /\ Read.type = "response" /\ p.id = Read.id /\ p.kind \in SenderKinds
      /\ UNCHANGED <<phase, mailbox, tabs, navVars>>
  BY DEF OnGetTargetsResponse, OnResponse, SenderKinds
<1>2. /\ Read \in Messages /\ Read \in Range(inbox)
      /\ inbox' \in Seq(Messages) /\ Range(inbox)' \subseteq Range(inbox)
  BY <1>1, ReadStep
<1>3. p.of \in Requests /\ Read.req = p.of
  BY <1>1, <1>2 DEF CallInv, OwnersTyped, IdsMatch
<1>4. CASE ~Read.ok
  <2>1. /\ OnResponse(p) /\ Tell(p.of, Fails("error"))
        /\ UNCHANGED <<pagebox, nextId, calls, targetVars>>
    BY <1>4 DEF OnGetTargetsResponse
  <2>2. CallTypes' /\ CallInv' /\ NavInv'
    BY <1>1, <2>1, OnResponseStep DEF targetVars
  <2>3. Fails("error") \in Outcomes /\ Fails("error").status # "answered"
    BY FailsType DEF Status
  <2>4. outcome' \in [Requests -> Outcomes] /\ OwnAnswer'
    BY <2>1, <2>3, TellStep
  <2>5. TypeOK'
    BY <1>1, <1>2, <2>1, <2>2, <2>4 DEF TypeOK, CallTypes, navVars, targetVars
  <2> QED BY <2>2, <2>4, <2>5
<1>5. CASE Read.ok
  <2> DEFINE new == {[id |-> i, kind |-> "Untracked", req |-> NoRequest] :
                       i \in nextId .. nextId' - 1}
  <2>1. /\ OnTargetCreated(Read.targets) /\ Tell(p.of, AnswerOf(Read.req))
        /\ nextId' = nextId + Cardinality(Read.targets) /\ calls' = calls \cup new
    BY <1>5 DEF OnGetTargetsResponse
  <2>2. Read.targets \in SUBSET Targets
    BY <1>2 DEF Messages
  <2>3. Cardinality(Read.targets) \in Nat
    BY <2>2, HandlerAssumption, FS_Subset, FS_CardinalityType
  <2>4. nextId \in Nat /\ nextId' \in Nat /\ \A i \in Nat : i < nextId => i < nextId'
    BY <2>1, <2>3 DEF TypeOK
  <2>5. \A c \in new : c \in CallRecords /\ c.id >= nextId /\ c.id < nextId'
    BY <2>4 DEF CallRecords
  <2> HIDE DEF new
  <2>6. CallTypes'
    BY <1>1, <2>1, <2>4, <2>5 DEF CallTypes, TypeOK
  <2>7. CallInv'
    <3>1. OwnersTyped'
      BY <1>1 DEF CallInv, OwnersTyped
    <3>2. CallIdsFresh'
      <4>1. \A q \in pending' : q.id < nextId'
        BY <1>1, <2>4 DEF CallInv, CallIdsFresh, TypeOK, PendingEntries
      <4>2. \A c \in calls' : c.id < nextId'
        BY <2>1, <2>4, <2>5 DEF CallInv, CallIdsFresh, TypeOK, CallRecords
      <4>3. \A m \in Range(inbox)' : m.type = "response" => m.id < nextId'
        <5>1. Range(inbox) \subseteq Messages
          BY RangeType DEF TypeOK
        <5> QED BY <1>2, <2>4, <5>1 DEF CallInv, CallIdsFresh, Messages
      <4> QED BY <4>1, <4>2, <4>3 DEF CallIdsFresh
    <3>3. IdsMatch'
      <4>1. \A q \in pending', c \in new : q.id # c.id
        BY <1>1, <2>4, <2>5 DEF CallInv, CallIdsFresh, TypeOK, PendingEntries, CallRecords
      <4> QED BY <1>1, <1>2, <2>1, <4>1 DEF CallInv, IdsMatch
    <3> QED BY <3>1, <3>2, <3>3 DEF CallInv
  <2>8. NavInv'
    <3>1. \A q \in pending', c \in new : q.id # c.id
      BY <1>1, <2>4, <2>5 DEF CallInv, CallIdsFresh, TypeOK, PendingEntries, CallRecords
    <3>2. \A t \in Targets : queued'[t] \subseteq queued[t]
      BY <2>1, <2>2, OnTargetCreatedStep
    <3>3. NavigationIdsFresh'
      BY <1>1, <3>2 DEF NavInv, NavigationIdsFresh, navVars
    <3>4. NavigationsMatch'
      BY <1>1, <1>2, <2>1, <3>1, <3>2 DEF NavInv, NavigationsMatch, navVars
    <3> QED BY <3>3, <3>4 DEF NavInv
  <2>9. outcome' \in [Requests -> Outcomes] /\ OwnAnswer'
    <3>1. AnswerOf(Read.req) \in Outcomes /\ AnswerOf(Read.req).from = p.of
      BY <1>3 DEF AnswerOf, Outcomes, Status
    <3> QED BY <2>1, <3>1, TellStep
  <2>10. TypeOK'
    BY <1>1, <1>2, <2>1, <2>2, <2>6, <2>9, OnTargetCreatedStep DEF TypeOK, CallTypes, navVars
  <2> QED BY <2>7, <2>8, <2>9, <2>10
<1> QED BY <1>4, <1>5 DEF Messages, OnGetTargetsResponse

\* The response of Page.navigate is kept with its navigation, or answers it.
LEMMA OnNavigationResponseStep ==
  ASSUME IInv, NEW p \in pending, OnNavigationResponse(p)
  PROVE  IInv'
<1> USE DEF IInv
<1> DEFINE entry == {n \in navigations : n.id = p.of}
           done == {n \in entry : n.navigated}
           verdict == [r \in {n.req : n \in done} |-> AnswerOf(Read.req)]
           kept == {[n EXCEPT !.response = Read.req] : n \in entry \ done}
<1>1. /\ OnResponse(p) /\ p.kind = "Navigate"
      /\ UNCHANGED <<phase, mailbox, tabs, pagebox, nextId, calls, nextNav, targetVars>>
      /\ navigations' = (navigations \ entry) \cup kept
      /\ Conclude(verdict)
  BY DEF OnNavigationResponse, OnResponse
<1>2. /\ p.id = Read.id /\ Read.type = "response"
      /\ Read \in Messages /\ Read \in Range(inbox) /\ inbox' \in Seq(Messages)
      /\ Range(inbox)' \subseteq Range(inbox) /\ pending' \subseteq pending
      /\ CallTypes' /\ CallInv'
  BY <1>1, OnResponseStep
<1>3. \A n \in entry : n.req = Read.req
  BY <1>1, <1>2 DEF NavInv, NavigationsMatch
<1>4. Read.req \in Requests \cup {NoRequest}
  BY <1>2 DEF Messages
<1>5. ASSUME NEW k \in kept
      PROVE  /\ k \in [id : Nat, req : Requests, navigated : BOOLEAN,
                       response : Requests \cup {NoRequest}]
             /\ k.response = k.req
             /\ \E n \in navigations : k.id = n.id /\ k.req = n.req
  BY <1>3, <1>4, <1>5 DEF TypeOK
<1>6. ASSUME NEW r \in Requests, r \in DOMAIN verdict
      PROVE  /\ verdict[r] \in Outcomes
             /\ verdict[r].status = "answered" => verdict[r].from = r
  <2>1. verdict[r] = AnswerOf(Read.req) /\ r = Read.req
    BY <1>3, <1>6
  <2> HIDE DEF verdict
  <2> QED BY <2>1 DEF AnswerOf, Outcomes, Status
<1>7. \A k \in navigations' :
        /\ k.response \in {NoRequest, k.req}
        /\ \E n \in navigations : k.id = n.id /\ k.req = n.req
  BY <1>1, <1>5 DEF NavInv, NavigationsMatch
<1> HIDE DEF verdict, kept, entry
<1>8. NavigationIdsFresh' /\ NavigationsMatch'
  BY <1>1, <1>2, <1>7 DEF NavInv, NavigationIdsFresh, NavigationsMatch, targetVars
<1>9. outcome' \in [Requests -> Outcomes] /\ OwnAnswer'
  BY <1>1, <1>6, ConcludeStep
<1>10. TypeOK'
  BY <1>1, <1>2, <1>5, <1>9 DEF TypeOK, CallTypes, targetVars
<1> QED BY <1>2, <1>8, <1>9, <1>10 DEF NavInv

\* Messages that find no entry, events, and the end of the connection.
LEMMA EventStep ==
  ASSUME IInv,
         OnUnknownResponse \/ OnTargetCreatedEvent \/ OnTargetDestroyed \/ ConnectionFails
  PROVE  IInv'
<1> USE DEF IInv
<1>1. UNCHANGED <<mailbox, callVars, navVars, tabs>> /\ phase' \in Phases
  BY DEF OnUnknownResponse, OnTargetCreatedEvent, OnTargetDestroyed, ConnectionFails, TypeOK,
         Phases
<1>2. /\ inbox' \in Seq(Messages) /\ Range(inbox)' \subseteq Range(inbox)
      /\ inbox # <<>> /\ Read.targets \in SUBSET Targets
  <2>1. /\ inbox # <<>>
        /\ inbox' = Tail(inbox) \/ UNCHANGED inbox
    BY DEF OnUnknownResponse, OnTargetCreatedEvent, OnTargetDestroyed, ConnectionFails
  <2>2. Read.targets \in SUBSET Targets
    <3>1. inbox \in Seq(Messages)
      BY DEF TypeOK
    <3>2. Read \in Messages
      BY <2>1, <3>1, RangeTail DEF Read
    <3> QED BY <3>2 DEF Messages
  <2> QED BY <2>1, <2>2, ReadStep DEF TypeOK
<1>3. /\ live' \subseteq Targets /\ initiator' \in [Targets -> Requests \cup {NoRequest}]
      /\ queued' \in [Targets -> SUBSET QueuedNavigations]
      /\ watched' \in [Targets -> SUBSET QueuedNavigations]
      /\ pagebox' \in [Targets -> Seq(Asks(PageKinds))]
      /\ \A t \in Targets : queued'[t] \subseteq queued[t]
  <2>1. CASE OnUnknownResponse \/ ConnectionFails
    BY <2>1 DEF OnUnknownResponse, ConnectionFails, targetVars, TypeOK
  <2>2. CASE OnTargetCreatedEvent
    BY <1>2, <2>2, OnTargetCreatedStep DEF OnTargetCreatedEvent
  <2>3. CASE OnTargetDestroyed
    BY <2>3 DEF OnTargetDestroyed, TypeOK
  <2> QED BY <2>1, <2>2, <2>3
<1>4. CallTypes' /\ CallInv' /\ NavInv'
  BY <1>1, <1>2, <1>3, CallsShrink, NavigationsShrink DEF callVars, navVars
<1>5. outcome' \in [Requests -> Outcomes] /\ OwnAnswer'
  <2>1. UNCHANGED outcome \/ Conclude(Nobody)
    BY DEF OnUnknownResponse, OnTargetCreatedEvent, OnTargetDestroyed, ConnectionFails
  <2> QED BY <2>1, ConcludeNobodyStep DEF TypeOK, OwnAnswer
<1>6. TypeOK'
  BY <1>1, <1>2, <1>3, <1>4, <1>5 DEF TypeOK, CallTypes, navVars
<1> QED BY <1>4, <1>5, <1>6

LEMMA PollSocketStep ==
  ASSUME IInv, PollSocket
  PROVE  IInv'
BY AnswerStep, OnCreateTargetResponseStep, OnGetTargetsResponseStep, OnNavigationResponseStep,
   EventStep DEF PollSocket
-----------------------------------------------------------------------------
(* Eviction, and the end of the handler.                                   *)

\* Entries go, and with the navigations theirs; nobody is given an answer.
LEMMA EvictStep ==
  ASSUME IInv, NEW late \in SUBSET pending, EvictTimedOutCommands(late)
  PROVE  IInv'
<1> USE DEF IInv
<1> DEFINE expired == {n \in navigations :
                         n.id \in {p.of : p \in {q \in late : q.kind = "Navigate"}}}
           verdict == [r \in {p.of : p \in {q \in late : q.kind \in SenderKinds}}
                               \cup {n.req : n \in expired} |-> Fails("timeout")]
<1>1. /\ UNCHANGED <<phase, mailbox, pagebox, nextId, calls, inbox, nextNav, targetVars, tabs>>
      /\ pending' \subseteq pending /\ navigations' \subseteq navigations
      /\ Conclude(verdict)
  BY DEF EvictTimedOutCommands
<1>2. CallTypes' /\ CallInv' /\ NavInv'
  BY <1>1, CallsShrink, NavigationsShrink DEF targetVars
<1>3. \A r \in Requests : r \in DOMAIN verdict =>
        /\ verdict[r] \in Outcomes
        /\ verdict[r].status = "answered" => verdict[r].from = r
  BY FailsType DEF Status
<1> HIDE DEF verdict
<1>4. outcome' \in [Requests -> Outcomes] /\ OwnAnswer'
  BY <1>1, <1>3, ConcludeStep
<1>5. TypeOK'
  BY <1>1, <1>2, <1>4 DEF TypeOK, CallTypes, targetVars
<1> QED BY <1>2, <1>4, <1>5

LEMMA PollAgainStep ==
  ASSUME IInv, PollAgain
  PROVE  IInv'
<1> USE DEF IInv
<1>1. /\ phase' = "running"
      /\ UNCHANGED <<mailbox, pagebox, callVars, inbox, navVars, targetVars, tabs, outcome>>
  BY DEF PollAgain
<1>2. CallTypes' /\ CallInv' /\ NavInv'
  BY <1>1, CallsShrink, NavigationsShrink DEF callVars, navVars, targetVars
<1>3. TypeOK' /\ OwnAnswer'
  BY <1>1, <1>2 DEF TypeOK, CallTypes, Phases, OwnAnswer, navVars, targetVars
<1> QED BY <1>2, <1>3

\* Everything the handler held is gone.
LEMMA DropHandlerStep ==
  ASSUME IInv, DropHandler
  PROVE  IInv'
<1> USE DEF IInv
<1>1. /\ phase' = "dropped" /\ mailbox' = <<>> /\ pagebox' = [t \in Targets |-> <<>>]
      /\ pending' = {} /\ navigations' = {} /\ calls' = {} /\ inbox' = <<>>
      /\ live' = {} /\ initiator' = [t \in Targets |-> NoRequest]
      /\ queued' = [t \in Targets |-> {}] /\ watched' = [t \in Targets |-> {}]
      /\ UNCHANGED <<nextId, nextNav, tabs>> /\ Conclude(Nobody)
  BY DEF DropHandler
<1>2. Range(inbox)' = {}
  BY <1>1, RangeEmpty
<1>3. CallInv'
  BY <1>1, <1>2 DEF CallInv, OwnersTyped, CallIdsFresh, IdsMatch
<1>4. NavInv'
  BY <1>1, <1>2 DEF NavInv, NavigationIdsFresh, NavigationsMatch
<1>5. outcome' \in [Requests -> Outcomes] /\ OwnAnswer'
  BY <1>1, ConcludeNobodyStep
<1>6. TypeOK'
  BY <1>1, <1>5 DEF TypeOK, Phases
<1> QED BY <1>3, <1>4, <1>5, <1>6

LEMMA InitOK == Init => IInv
<1> SUFFICES ASSUME Init PROVE IInv
  OBVIOUS
<1>1. Range(inbox) = {}
  BY RangeEmpty DEF Init
<1>2. Fails("idle") \in Outcomes /\ Fails("idle").status # "answered"
  BY FailsType DEF Status
<1>3. TypeOK
  BY <1>2 DEF Init, TypeOK, Phases
<1>4. CallInv /\ NavInv
  BY <1>1 DEF Init, CallInv, OwnersTyped, CallIdsFresh, IdsMatch, NavInv,
              NavigationIdsFresh, NavigationsMatch
<1>5. OwnAnswer
  BY <1>2 DEF Init, OwnAnswer
<1> QED BY <1>3, <1>4, <1>5 DEF IInv

LEMMA Stuttering == IInv /\ UNCHANGED vars => IInv'
<1> SUFFICES ASSUME IInv, UNCHANGED vars PROVE IInv'
  OBVIOUS
<1> USE DEF IInv, vars, callVars, navVars, targetVars
<1>1. CallTypes' /\ CallInv' /\ NavInv'
  BY CallsShrink, NavigationsShrink
<1>2. TypeOK' /\ OwnAnswer'
  BY DEF TypeOK, OwnAnswer
<1> QED BY <1>1, <1>2

-----------------------------------------------------------------------------
(* The theorems.                                                           *)

\* The inductive invariant holds in every reachable state: call and navigation ids
\* are given out once, and a request keeps its id through the channels, the queue of
\* the FrameManager, pending_commands, the browser and the way back.
THEOREM Invariance == Spec => []IInv
<1>1. IInv /\ [Next]_vars => IInv'
  <2> SUFFICES ASSUME IInv, [Next]_vars PROVE IInv'
    OBVIOUS
  <2>1. CASE Clients
    BY <2>1, ClientsStep
  <2>2. CASE Browser
    BY <2>2, BrowserStep
  <2>3. CASE PollMailbox
    BY <2>3, PollMailboxStep
  <2>4. CASE PollTargets
    BY <2>4, PollTargetsStep
  <2>5. CASE PollSocket
    BY <2>5, PollSocketStep
  <2>6. CASE Evict
    BY <2>6, EvictStep DEF Evict
  <2>7. CASE PollAgain
    BY <2>7, PollAgainStep
  <2>8. CASE DropHandler
    BY <2>8, DropHandlerStep
  <2>9. CASE UNCHANGED vars
    BY <2>9, Stuttering
  <2> QED BY <2>1, <2>2, <2>3, <2>4, <2>5, <2>6, <2>7, <2>8, <2>9 DEF Next
<1> QED BY <1>1, InitOK, PTL DEF Spec

\* Every variable of the handler has its type, for any number of requests, targets
\* and calls.
THEOREM TypeCorrect == Spec => []TypeOK
<1>1. IInv => TypeOK
  BY DEF IInv
<1> QED BY <1>1, Invariance, PTL

\* The lookup of on_response by call id finds the request the response is for.
THEOREM IdsAlwaysMatch == Spec => []IdsMatch
<1>1. IInv => IdsMatch
  BY DEF IInv, CallInv
<1> QED BY <1>1, Invariance, PTL

\* No client of the handler is ever given the answer to another client's call,
\* whatever is lost, expires or is concluded late.
THEOREM AnswersAreOwn == Spec => []OwnAnswer
<1>1. IInv => OwnAnswer
  BY DEF IInv
<1> QED BY <1>1, Invariance, PTL

-----------------------------------------------------------------------------
(* The target of a new page is known when its id arrives.                  *)

\* The browser answers the call that pending_commands has under that id.
KindsMatch == \A p \in pending, c \in calls : p.id = c.id => p.kind = c.kind

\* A tab is reported as gone when it is.
DestroyedClosed ==
  \A m \in Range(inbox) : m.type = "destroyed" => \A t \in m.targets : tabs[t] = "closed"

\* The response that will find its CreateTarget entry and name a target.
ReturnsTarget(m) ==
  m.type = "response" /\ m.ok /\ \E p \in pending : p.id = m.id /\ p.kind = "CreateTarget"

\* The same after the step.
ReturnsNext(m) ==
  m.type = "response" /\ m.ok /\ \E p \in pending' : p.id = m.id /\ p.kind = "CreateTarget"

\* Ahead of such a response the target is registered, or announced; and nothing
\* ahead of it unregisters the target.
AnnouncedFirst ==
  \A i \in DOMAIN inbox : ReturnsTarget(inbox[i]) =>
    /\ inbox[i].targets # {}
    /\ \A t \in inbox[i].targets :
         /\ \/ t \in live
            \/ \E j \in 1 .. i - 1 : inbox[j].type = "created" /\ t \in inbox[j].targets
         /\ \A j \in 1 .. i - 1 : inbox[j].type = "destroyed" => t \notin inbox[j].targets

PanicInv == KindsMatch /\ DestroyedClosed /\ AnnouncedFirst /\ NoPanic

\* How a step changes the calls: entries and calls go, untracked calls with new ids
\* are sent, or one call is submitted.
LEMMA CallSteps ==
  ASSUME TypeOK, [Next]_vars
  PROVE  \/ /\ pending' \subseteq pending
            /\ \A c \in calls' : c \in calls \/ (c.id \in Nat /\ nextId <= c.id)
         \/ \E kind \in PendingKinds : \E of, req : Submit(kind, of, req)
<1>1. CASE Clients \/ Browser \/ Evict \/ PollAgain \/ DropHandler \/ UNCHANGED vars
  BY <1>1 DEF Clients, AskBrowser, AskPage, Abandon, Browser, Respond, CreateTab, OpenTab,
     CloseTab, BreakConnection, Evict, EvictTimedOutCommands, PollAgain, DropHandler, callVars,
     vars
<1>2. CASE PollMailbox
  BY <1>2 DEF PollMailbox, SubmitExternalCommand, SubmitFetchTargets, SubmitClose, CreatePage,
     SendPages, PendingKinds, SenderKinds, callVars
<1>3. CASE PollTargets
  <2>1. PICK t \in Targets :
          \/ OnTargetMessage(t) \/ SubmitInternalCommand(t)
          \/ \E e \in queued[t] : SubmitNavigation(t, e)
          \/ \E e \in watched[t], ok \in BOOLEAN : OnNavigationLifecycleCompleted(t, e, ok)
          \/ SendPageToInitiator(t) \/ OnInitializationFailed(t)
    BY <1>3 DEF PollTargets
  <2>2. CASE OnTargetMessage(t)
    BY <2>2 DEF OnTargetMessage, PendingKinds, SenderKinds, callVars
  <2>3. CASE SubmitInternalCommand(t) \/ OnInitializationFailed(t)
    BY <2>3 DEF SubmitInternalCommand, OnInitializationFailed, PendingKinds
  <2>4. CASE \E e \in queued[t] : SubmitNavigation(t, e)
    BY <2>4 DEF SubmitNavigation, PendingKinds
  <2>5. CASE \/ SendPageToInitiator(t)
             \/ \E e \in watched[t], ok \in BOOLEAN : OnNavigationLifecycleCompleted(t, e, ok)
    BY <2>5 DEF SendPageToInitiator, OnNavigationLifecycleCompleted, callVars
  <2> QED BY <2>1, <2>2, <2>3, <2>4, <2>5
<1>4. CASE PollSocket
  <2>1. CASE \E p \in pending : OnGetTargetsResponse(p)
    <3>1. PICK p \in pending : OnGetTargetsResponse(p)
      BY <2>1
    <3>2. pending' \subseteq pending
      BY <3>1 DEF OnGetTargetsResponse, OnResponse
    <3>3. CASE ~Read.ok
      BY <3>1, <3>2, <3>3 DEF OnGetTargetsResponse
    <3>4. CASE Read.ok
      <4>2. calls' = calls \cup {[id |-> i, kind |-> "Untracked", req |-> NoRequest] :
                                   i \in nextId .. nextId' - 1}
        BY <3>1, <3>4 DEF OnGetTargetsResponse
      <4>3. nextId' \in Nat /\ nextId \in Nat
        <5>1. inbox # <<>> /\ inbox \in Seq(Messages)
          BY <3>1 DEF OnGetTargetsResponse, OnResponse, TypeOK
        <5>2. Read \in Messages
          BY <5>1, RangeTail DEF Read
        <5>3. Read.targets \subseteq Targets
          BY <5>2 DEF Messages
        <5>4. Cardinality(Read.targets) \in Nat
          BY <5>3, HandlerAssumption, FS_Subset, FS_CardinalityType
        <5> QED BY <3>1, <3>4, <5>4 DEF OnGetTargetsResponse, TypeOK
      <4>4. \A i \in nextId .. nextId' - 1 : i \in Nat /\ nextId <= i
        BY <4>3
      <4> QED BY <3>2, <4>2, <4>4
    <3> QED BY <3>3, <3>4
  <2>2. CASE ~\E p \in pending : OnGetTargetsResponse(p)
    BY <1>4, <2>2 DEF PollSocket, OnCreateTargetResponse, OnNavigationResponse,
       OnExternalResponse, OnInternalResponse, OnCloseResponse, OnResponse, OnUnknownResponse,
       OnTargetCreatedEvent, OnTargetDestroyed, ConnectionFails, callVars
  <2> QED BY <2>1, <2>2
<1> QED BY <1>1, <1>2, <1>3, <1>4 DEF Next

\* How a step changes what is on its way to the handler and the targets it knows.
LEMMA InboxSteps ==
  ASSUME TypeOK, [Next]_vars
  PROVE  \/ UNCHANGED <<inbox, live, tabs>>
         \/ inbox' = <<>>
         \/ \E call \in calls, ok \in BOOLEAN : Respond(call, ok)
         \/ \E call \in calls, t \in Targets : CreateTab(call, t)
         \/ \E t \in Targets : OpenTab(t) \/ CloseTab(t)
         \/ BreakConnection
         \/ /\ inbox # <<>> /\ inbox' = Tail(inbox) /\ UNCHANGED tabs
            /\ live \ live' # {} => Read.type = "destroyed" /\ live' = live \ Read.targets
            /\ Read.type = "created" => Read.targets \subseteq live'
<1>1. CASE Clients \/ Browser \/ Evict \/ PollAgain \/ DropHandler \/ UNCHANGED vars
  BY <1>1 DEF Clients, AskBrowser, AskPage, Abandon, Browser, Evict, EvictTimedOutCommands,
     PollAgain, DropHandler, targetVars, vars
<1>2. CASE PollMailbox
  BY <1>2 DEF PollMailbox, SubmitExternalCommand, SubmitFetchTargets, SubmitClose, CreatePage,
     SendPages, Receive, targetVars
<1>3. CASE PollTargets
  BY <1>3 DEF PollTargets, OnTargetMessage, SubmitInternalCommand, SubmitNavigation,
     OnNavigationLifecycleCompleted, SendPageToInitiator, OnInitializationFailed, targetVars
<1>4. CASE PollSocket
  BY <1>4 DEF PollSocket, OnCreateTargetResponse, OnGetTargetsResponse, OnNavigationResponse,
     OnExternalResponse, OnInternalResponse, OnCloseResponse, OnResponse, OnUnknownResponse,
     OnTargetCreatedEvent, OnTargetDestroyed, ConnectionFails, OnTargetCreated, targetVars
<1> QED BY <1>1, <1>2, <1>3, <1>4 DEF Next

\* A new call is matched by no other one.
LEMMA KindsStep ==
  ASSUME IInv, KindsMatch, [Next]_vars
  PROVE  KindsMatch'
<1> USE DEF IInv
<1>1. /\ \A p \in pending : p.id \in Nat /\ p.id < nextId
      /\ \A c \in calls : c.id \in Nat /\ c.id < nextId
      /\ nextId \in Nat
  BY DEF CallInv, CallIdsFresh, TypeOK, PendingEntries, CallRecords
<1>2. CASE /\ pending' \subseteq pending
           /\ \A c \in calls' : c \in calls \/ (c.id \in Nat /\ nextId <= c.id)
  BY <1>1, <1>2 DEF KindsMatch
<1>3. ASSUME NEW kind \in PendingKinds, NEW of, NEW req, Submit(kind, of, req)
      PROVE  KindsMatch'
  <2>1. /\ pending' \subseteq pending \cup {[id |-> nextId, kind |-> kind, of |-> of]}
        /\ calls' = calls \cup {[id |-> nextId, kind |-> kind, req |-> req]}
    BY <1>3 DEF Submit
  <2> QED BY <1>1, <2>1 DEF KindsMatch
<1> QED BY <1>2, <1>3, CallSteps

\* No message on its way becomes the response of a new CreateTarget.
LEMMA ReturnsStep ==
  ASSUME IInv, [Next]_vars, NEW m \in Messages, m.type = "response" => m.id < nextId,
         ReturnsNext(m)
  PROVE  ReturnsTarget(m)
<1> USE DEF IInv
<1>1. PICK p \in pending' : p.id = m.id /\ p.kind = "CreateTarget"
  BY DEF ReturnsNext
<1>2. m.type = "response" /\ m.ok /\ m.id \in Nat /\ m.id < nextId
  BY DEF ReturnsNext, Messages
<1>3. p \in pending
  <2>1. CASE pending' \subseteq pending
    BY <2>1
  <2>2. ASSUME NEW kind \in PendingKinds, NEW of, NEW req, Submit(kind, of, req)
        PROVE  p \in pending
    <3>1. p \in pending \/ p = [id |-> nextId, kind |-> kind, of |-> of]
      BY <2>2 DEF Submit
    <3>2. p.id # nextId
      BY <1>1, <1>2 DEF TypeOK
    <3> QED BY <3>1, <3>2
  <2> QED BY <2>1, <2>2, CallSteps
<1> QED BY <1>1, <1>2, <1>3 DEF ReturnsTarget

\* A message that stays where it is, with what is ahead of it.
LEMMA AnnouncedStep ==
  ASSUME IInv, AnnouncedFirst, [Next]_vars, UNCHANGED live,
         NEW i \in DOMAIN inbox, i \in DOMAIN inbox', ReturnsNext(inbox'[i]),
         \A j \in 1 .. i : inbox'[j] = inbox[j]
  PROVE  /\ inbox'[i].targets # {}
         /\ \A t \in inbox'[i].targets :
              /\ \/ t \in live'
                 \/ \E j \in 1 .. i - 1 : inbox'[j].type = "created" /\ t \in inbox'[j].targets
              /\ \A j \in 1 .. i - 1 :
                   inbox'[j].type = "destroyed" => t \notin inbox'[j].targets
<1>1. inbox \in Seq(Messages) /\ i \in 1 .. Len(inbox) /\ i \in Nat
  BY DEF IInv, TypeOK
<1>2. inbox'[i] = inbox[i] /\ inbox[i] \in Messages /\ inbox[i] \in Range(inbox)
  BY <1>1 DEF Range
<1>3. inbox[i].type = "response" => inbox[i].id < nextId
  BY <1>2 DEF IInv, CallInv, CallIdsFresh
<1>4. ReturnsTarget(inbox[i])
  <2>1. ASSUME NEW m, m = inbox[i], ReturnsNext(m)
        PROVE  ReturnsTarget(m)
    BY <1>2, <1>3, <2>1, ReturnsStep
  <2>2. PICK m : m = inbox[i]
    OBVIOUS
  <2>3. ReturnsNext(m)
    BY <1>2, <2>2
  <2> QED BY <2>1, <2>2, <2>3
<1>5. \A j \in 1 .. i - 1 : inbox'[j] = inbox[j]
  BY <1>1
<1> QED BY <1>2, <1>4, <1>5 DEF AnnouncedFirst

LEMMA DestroyedClosedStep ==
  ASSUME IInv, DestroyedClosed, [Next]_vars
  PROVE  DestroyedClosed'
<1> USE DEF IInv
<1>0. inbox \in Seq(Messages) /\ Range(inbox) \subseteq Messages
  BY RangeType DEF TypeOK
<1>1. CASE UNCHANGED <<inbox, live, tabs>>
  BY <1>1 DEF DestroyedClosed
<1>2. CASE inbox' = <<>>
  <2>1. Range(inbox)' = {}
    BY <1>2, RangeEmpty
  <2> QED BY <2>1 DEF DestroyedClosed
<1>3. ASSUME NEW M, Range(inbox)' \subseteq Range(inbox) \cup M,
             \A t \in Targets : tabs[t] = "closed" => tabs'[t] = "closed",
             \A m \in M : m.type = "destroyed" => \A t \in m.targets : tabs'[t] = "closed"
      PROVE  DestroyedClosed'
  BY <1>0, <1>3 DEF DestroyedClosed, Messages
<1>4. ASSUME NEW call \in calls, NEW ok \in BOOLEAN, Respond(call, ok)
      PROVE  DestroyedClosed'
  <2> DEFINE m == Response(call, ok, IF call.kind = "GetTargets"
                                     THEN {t \in Targets : tabs[t] = "open"} ELSE {})
  <2>1. m \in Messages /\ m.type = "response"
    <3>1. m \in Messages
      BY DEF Response, Messages, TypeOK, CallRecords
    <3>2. m.type = "response"
      BY DEF Response
    <3> QED BY <3>1, <3>2
  <2> HIDE DEF m
  <2>2. inbox' = Append(inbox, m) /\ UNCHANGED tabs
    BY <1>4 DEF Respond, m
  <2>3. Range(inbox)' = Range(inbox) \cup {m}
    BY <1>0, <2>1, <2>2, RangeAppend
  <2>4. /\ Range(inbox)' \subseteq Range(inbox) \cup {m}
        /\ \A t \in Targets : tabs[t] = "closed" => tabs'[t] = "closed"
        /\ \A x \in {m} : x.type = "destroyed" => \A t \in x.targets : tabs'[t] = "closed"
    BY <2>1, <2>2, <2>3
  <2> QED BY <1>3, <2>4
<1>5. ASSUME NEW call \in calls, NEW t \in Targets, CreateTab(call, t)
      PROVE  DestroyedClosed'
  <2> DEFINE e == Event("created", t)
             m == Response(call, TRUE, {t})
  <2>1. /\ e \in Messages /\ e.type = "created"
        /\ m \in Messages /\ m.type = "response"
    BY DEF Event, Response, Messages, TypeOK, CallRecords
  <2> HIDE DEF e, m
  <2>2. /\ inbox' = inbox \o <<e, m>>
        /\ \A u \in Targets : tabs[u] = "closed" => tabs'[u] = "closed"
    <3>1. inbox' = inbox \o <<e, m>>
      BY <1>5 DEF CreateTab, e, m
    <3>2. tabs[t] = "unborn" /\ tabs' = [tabs EXCEPT ![t] = "open"]
      BY <1>5 DEF CreateTab
    <3> QED BY <3>1, <3>2 DEF TypeOK
  <2>3. Range(inbox)' = Range(inbox) \cup {e, m}
    BY <1>0, <2>1, <2>2, RangePair
  <2> QED BY <1>3, <2>1, <2>2, <2>3
<1>6. ASSUME NEW t \in Targets, OpenTab(t) \/ CloseTab(t)
      PROVE  DestroyedClosed'
  <2>1. PICK type \in {"created", "destroyed"} :
          /\ inbox' = Append(inbox, Event(type, t))
          /\ tabs[t] # "closed"
          /\ tabs' = [tabs EXCEPT ![t] = IF type = "destroyed" THEN "closed" ELSE "open"]
    BY <1>6 DEF OpenTab, CloseTab
  <2>2. /\ type = "destroyed" => tabs'[t] = "closed"
        /\ \A u \in Targets : tabs[u] = "closed" => tabs'[u] = "closed"
    BY <2>1 DEF TypeOK
  <2> DEFINE e == Event(type, t)
  <2>3. e \in Messages /\ e.type = type /\ e.targets = {t}
    BY DEF Event, Messages
  <2> HIDE DEF e
  <2>4. Range(inbox)' = Range(inbox) \cup {e}
    BY <1>0, <2>1, <2>3, RangeAppend DEF e
  <2>5. /\ Range(inbox)' \subseteq Range(inbox) \cup {e}
        /\ \A x \in Targets : tabs[x] = "closed" => tabs'[x] = "closed"
        /\ \A x \in {e} : x.type = "destroyed" => \A u \in x.targets : tabs'[u] = "closed"
    BY <2>2, <2>3, <2>4
  <2> QED BY <1>3, <2>5
<1>7. CASE BreakConnection
  <2> DEFINE e == [Event("broken", NoRequest) EXCEPT !.targets = {}]
  <2>1. e \in Messages /\ e.type = "broken"
    BY DEF Event, Messages
  <2>2. inbox' = Append(inbox, e) /\ UNCHANGED tabs
    BY <1>7 DEF BreakConnection
  <2> HIDE DEF e
  <2>3. Range(inbox)' = Range(inbox) \cup {e}
    BY <1>0, <2>1, <2>2, RangeAppend
  <2>4. /\ Range(inbox)' \subseteq Range(inbox) \cup {e}
        /\ \A t \in Targets : tabs[t] = "closed" => tabs'[t] = "closed"
        /\ \A x \in {e} : x.type = "destroyed" => \A t \in x.targets : tabs'[t] = "closed"
    BY <2>1, <2>2, <2>3
  <2> QED BY <1>3, <2>4
<1>8. CASE inbox # <<>> /\ inbox' = Tail(inbox) /\ UNCHANGED tabs
  <2>1. Range(inbox)' \subseteq Range(inbox)
    BY <1>0, <1>8, RangeTail
  <2> QED BY <1>8, <2>1 DEF DestroyedClosed
<1> QED BY <1>1, <1>2, <1>4, <1>5, <1>6, <1>7, <1>8, InboxSteps

LEMMA AnnouncedFirstStep ==
  ASSUME IInv, PanicInv, [Next]_vars
  PROVE  AnnouncedFirst'
<1> USE DEF IInv, PanicInv
<1>0. inbox \in Seq(Messages) /\ Range(inbox) \subseteq Messages
  BY RangeType DEF TypeOK
<1>1. CASE UNCHANGED <<inbox, live, tabs>>
  BY <1>1, AnnouncedStep DEF AnnouncedFirst, ReturnsTarget, ReturnsNext
<1>2. CASE inbox' = <<>>
  BY <1>2 DEF AnnouncedFirst
<1>3. ASSUME NEW m, inbox' = Append(inbox, m), UNCHANGED live, ~ReturnsNext(m)
      PROVE  AnnouncedFirst'
  <2> SUFFICES ASSUME NEW i \in DOMAIN inbox', ReturnsNext(inbox'[i])
               PROVE  i \in DOMAIN inbox /\ \A j \in 1 .. i : inbox'[j] = inbox[j]
    BY <1>3, AnnouncedStep DEF AnnouncedFirst, ReturnsTarget, ReturnsNext
  <2>1. Len(inbox) \in Nat /\ i \in 1 .. Len(inbox) + 1
    BY <1>0, <1>3
  <2>2. inbox'[Len(inbox) + 1] = m
    BY <1>0, <1>3
  <2>3. i # Len(inbox) + 1
    BY <1>3, <2>2
  <2> QED BY <1>0, <1>3, <2>1, <2>3
<1>4. ASSUME NEW call \in calls, NEW ok \in BOOLEAN, Respond(call, ok)
      PROVE  AnnouncedFirst'
  <2> DEFINE m == Response(call, ok, IF call.kind = "GetTargets"
                                     THEN {t \in Targets : tabs[t] = "open"} ELSE {})
  <2>1. inbox' = Append(inbox, m) /\ UNCHANGED <<live, pending>>
    BY <1>4 DEF Respond, targetVars
  <2>2. ~ReturnsNext(m)
    <3> SUFFICES ASSUME NEW p \in pending, p.id = call.id, p.kind = "CreateTarget", ok
                 PROVE  FALSE
      BY <2>1 DEF ReturnsNext, Response
    <3>1. call.kind = "CreateTarget"
      BY DEF KindsMatch
    <3> QED BY <1>4, <3>1 DEF Respond
  <2> HIDE DEF m
  <2> QED BY <1>3, <2>1, <2>2
<1>5. ASSUME NEW call \in calls, NEW t \in Targets, CreateTab(call, t)
      PROVE  AnnouncedFirst'
  <2> DEFINE e == Event("created", t)
             m == Response(call, TRUE, {t})
  <2>1. inbox' = inbox \o <<e, m>> /\ tabs[t] = "unborn" /\ UNCHANGED live
    BY <1>5 DEF CreateTab, targetVars
  <2>2. e.type = "created" /\ t \in e.targets /\ m.targets = {t}
    BY DEF Event, Response
  <2> HIDE DEF e, m
  <2>3. /\ Len(inbox) \in Nat /\ DOMAIN inbox' = 1 .. Len(inbox) + 2
        /\ \A j \in 1 .. Len(inbox) : inbox'[j] = inbox[j]
        /\ inbox'[Len(inbox) + 1] = e /\ inbox'[Len(inbox) + 2] = m
    BY <1>0, <2>1
  <2> SUFFICES ASSUME NEW i \in DOMAIN inbox', ReturnsNext(inbox'[i])
               PROVE  /\ inbox'[i].targets # {}
                      /\ \A u \in inbox'[i].targets :
                           /\ \/ u \in live'
                              \/ \E j \in 1 .. i - 1 :
                                   inbox'[j].type = "created" /\ u \in inbox'[j].targets
                           /\ \A j \in 1 .. i - 1 :
                                inbox'[j].type = "destroyed" => u \notin inbox'[j].targets
    BY DEF AnnouncedFirst, ReturnsTarget, ReturnsNext
  <2>4. CASE i \in 1 .. Len(inbox)
    <3>1. i \in DOMAIN inbox /\ \A j \in 1 .. i : inbox'[j] = inbox[j]
      BY <1>0, <2>3, <2>4
    <3> QED BY <2>1, <3>1, AnnouncedStep
  <2>5. CASE i = Len(inbox) + 1
    BY <2>2, <2>3, <2>5 DEF ReturnsNext
  <2>6. CASE i = Len(inbox) + 2
    <3>1. Len(inbox) + 1 \in 1 .. i - 1
      BY <2>3, <2>6
    <3>2. ASSUME NEW j \in 1 .. i - 1, inbox'[j].type = "destroyed"
          PROVE  t \notin inbox'[j].targets
      <4>1. j = Len(inbox) + 1 \/ j \in 1 .. Len(inbox)
        BY <2>3, <2>6
      <4>2. j # Len(inbox) + 1
        BY <2>2, <2>3, <3>2
      <4>3. inbox'[j] = inbox[j] /\ inbox[j] \in Range(inbox)
        BY <1>0, <2>3, <4>1, <4>2 DEF Range
      <4> QED BY <2>1, <3>2, <4>3 DEF DestroyedClosed
    <3> QED BY <2>2, <2>3, <2>6, <3>1, <3>2
  <2> QED BY <2>3, <2>4, <2>5, <2>6
<1>6. CASE \E t \in Targets : OpenTab(t) \/ CloseTab(t)
  <2>1. PICK t \in Targets, type \in {"created", "destroyed"} :
          inbox' = Append(inbox, Event(type, t)) /\ UNCHANGED live
    BY <1>6 DEF OpenTab, CloseTab, targetVars
  <2>2. ~ReturnsNext(Event(type, t))
    BY DEF ReturnsNext, Event
  <2> QED BY <1>3, <2>1, <2>2
<1>7. CASE BreakConnection
  <2> DEFINE e == [Event("broken", NoRequest) EXCEPT !.targets = {}]
  <2>1. inbox' = Append(inbox, e) /\ UNCHANGED live
    BY <1>7 DEF BreakConnection, targetVars
  <2>2. ~ReturnsNext(e)
    BY DEF ReturnsNext, Event
  <2> HIDE DEF e
  <2> QED BY <1>3, <2>1, <2>2
<1>8. CASE /\ inbox # <<>> /\ inbox' = Tail(inbox) /\ UNCHANGED tabs
           /\ live \ live' # {} => Read.type = "destroyed" /\ live' = live \ Read.targets
           /\ Read.type = "created" => Read.targets \subseteq live'
  <2> SUFFICES ASSUME NEW i \in DOMAIN inbox', ReturnsNext(inbox'[i])
               PROVE  /\ inbox'[i].targets # {}
                      /\ \A t \in inbox'[i].targets :
                           /\ \/ t \in live'
                              \/ \E j \in 1 .. i - 1 :
                                   inbox'[j].type = "created" /\ t \in inbox'[j].targets
                           /\ \A j \in 1 .. i - 1 :
                                inbox'[j].type = "destroyed" => t \notin inbox'[j].targets
    BY DEF AnnouncedFirst, ReturnsTarget, ReturnsNext
  <2>1. /\ i \in Nat /\ i >= 1 /\ i + 1 \in DOMAIN inbox
        /\ \A j \in 1 .. i : j + 1 \in 1 .. i + 1 /\ inbox'[j] = inbox[j + 1]
        /\ Read = inbox[1] /\ 1 \in 1 .. i
    BY <1>0, <1>8 DEF Read
  <2>2. inbox'[i] = inbox[i + 1] /\ inbox[i + 1] \in Range(inbox)
    BY <2>1 DEF Range
  <2>3. ReturnsTarget(inbox[i + 1])
    <3>1. PICK m : m = inbox[i + 1]
      OBVIOUS
    <3>2. m \in Messages /\ (m.type = "response" => m.id < nextId)
      BY <1>0, <2>2, <3>1 DEF CallInv, CallIdsFresh
    <3>3. ReturnsNext(m)
      BY <2>2, <3>1
    <3>4. ReturnsTarget(m)
      BY <3>2, <3>3, ReturnsStep
    <3> QED BY <3>1, <3>4
  <2>4. /\ inbox[i + 1].targets # {}
        /\ \A t \in inbox[i + 1].targets :
             /\ \/ t \in live
                \/ \E j \in 1 .. i : inbox[j].type = "created" /\ t \in inbox[j].targets
             /\ \A j \in 1 .. i : inbox[j].type = "destroyed" => t \notin inbox[j].targets
    <3>1. (i + 1) - 1 = i
      BY <2>1
    <3> QED BY <2>1, <2>3, <3>1 DEF AnnouncedFirst
  <2>5. ASSUME NEW t \in inbox[i + 1].targets
        PROVE  \/ t \in live'
               \/ \E j \in 1 .. i - 1 : inbox'[j].type = "created" /\ t \in inbox'[j].targets
    <3>1. CASE t \in live
      <4>1. Read.type = "destroyed" => t \notin Read.targets
        BY <2>1, <2>4
      <4> QED BY <1>8, <3>1, <4>1
    <3>2. ASSUME NEW j \in 1 .. i, inbox[j].type = "created", t \in inbox[j].targets
          PROVE  \/ t \in live'
                 \/ \E k \in 1 .. i - 1 : inbox'[k].type = "created" /\ t \in inbox'[k].targets
      <4>1. CASE j = 1
        BY <1>8, <2>1, <3>2, <4>1
      <4>2. CASE j # 1
        <5>1. j - 1 \in 1 .. i - 1 /\ j - 1 \in 1 .. i /\ (j - 1) + 1 = j
          BY <2>1, <4>2
        <5>2. inbox'[j - 1] = inbox[j]
          BY <2>1, <5>1
        <5> QED BY <3>2, <5>1, <5>2
      <4> QED BY <4>1, <4>2
    <3> QED BY <2>4, <3>1, <3>2
  <2>6. ASSUME NEW t \in inbox[i + 1].targets, NEW j \in 1 .. i - 1,
               inbox'[j].type = "destroyed"
        PROVE  t \notin inbox'[j].targets
    <3>1. j \in 1 .. i /\ j + 1 \in 1 .. i
      BY <2>1
    <3> QED BY <2>1, <2>4, <2>6, <3>1
  <2> QED BY <2>2, <2>4, <2>5, <2>6
<1> QED BY <1>1, <1>2, <1>4, <1>5, <1>6, <1>7, <1>8, InboxSteps

LEMMA NoPanicStep ==
  ASSUME IInv, PanicInv, [Next]_vars
  PROVE  NoPanic'
<1> USE DEF IInv, PanicInv
<1>1. ASSUME NEW p \in pending, OnCreateTargetResponse(p)
      PROVE  NoPanic'
  <2> SUFFICES ASSUME Read.ok PROVE Read.targets \subseteq live
    BY <1>1 DEF OnCreateTargetResponse, NoPanic
  <2>1. inbox # <<>> /\ inbox \in Seq(Messages) /\ Read = inbox[1]
    BY <1>1 DEF OnCreateTargetResponse, OnResponse, Read, TypeOK
  <2>2. 1 \in DOMAIN inbox /\ 1 .. 1 - 1 = {}
    BY <2>1
  <2>3. ReturnsTarget(inbox[1])
    BY <1>1, <2>1 DEF OnCreateTargetResponse, OnResponse, ReturnsTarget
  <2> QED BY <2>1, <2>2, <2>3 DEF AnnouncedFirst
<1>2. CASE PollSocket
  BY <1>1, <1>2 DEF PollSocket, OnGetTargetsResponse, OnNavigationResponse, OnExternalResponse,
     OnInternalResponse, OnCloseResponse, OnUnknownResponse, OnTargetCreatedEvent,
     OnTargetDestroyed, ConnectionFails, NoPanic
<1>3. CASE Clients \/ Browser \/ Evict \/ PollAgain \/ DropHandler \/ UNCHANGED vars
  BY <1>3 DEF Clients, AskBrowser, AskPage, Abandon, Browser, Respond, CreateTab, OpenTab,
     CloseTab, BreakConnection, Evict, EvictTimedOutCommands, PollAgain, DropHandler, vars,
     NoPanic
<1>4. CASE PollMailbox
  BY <1>4 DEF PollMailbox, SubmitExternalCommand, SubmitFetchTargets, SubmitClose, CreatePage,
     SendPages, Receive, NoPanic
<1>5. CASE PollTargets
  BY <1>5 DEF PollTargets, OnTargetMessage, SubmitInternalCommand, SubmitNavigation,
     OnNavigationLifecycleCompleted, SendPageToInitiator, OnInitializationFailed, NoPanic
<1> QED BY <1>2, <1>3, <1>4, <1>5 DEF Next

LEMMA PanicInvariance == Spec => []PanicInv
<1>1. Init => PanicInv
  BY RangeEmpty DEF Init, PanicInv, KindsMatch, DestroyedClosed, AnnouncedFirst, NoPanic
<1>2. IInv /\ PanicInv /\ [Next]_vars => PanicInv'
  BY KindsStep, DestroyedClosedStep, AnnouncedFirstStep, NoPanicStep DEF PanicInv
<1> QED BY <1>1, <1>2, Invariance, PTL DEF Spec

\* The response to a CreateTarget always names a target the handler has registered:
\* the browser announces a target before it returns its id, and can only report it
\* gone afterwards.  So on_response never reaches its panic!.
THEOREM NeverPanics == Spec => []NoPanic
<1>1. PanicInv => NoPanic
  BY DEF PanicInv
<1> QED BY <1>1, PanicInvariance, PTL

-----------------------------------------------------------------------------
(* Who is dropped without an answer.                                       *)

\* Some part of the handler still owns the sender of every call that waits.
WaitersHeld == \A r \in Requests : IsWaiting(r) => r \in Holders

\* The message being read replaces or destroys the target that holds the sender.
Lost(r) == inbox # <<>> /\ phase = "running" /\ \E t \in Read.targets : r \in HeldBy(t)

\* What a step must not break: who waits stays held, unless it is told, or lost.
OnlyLossCancels ==
  /\ WaitersHeld'
  /\ \A r \in Requests : IsCanceled(r) => phase' = "dropped" \/ Lost(r)

\* What is in a channel is its first message or stays in it.
LEMMA RangeHeadTail ==
  ASSUME NEW S, NEW s \in Seq(S), s # <<>>
  PROVE  Range(s) \subseteq {Head(s)} \cup Range(Tail(s))
<1> SUFFICES ASSUME NEW i \in DOMAIN s, s[i] # Head(s)
             PROVE  s[i] \in Range(Tail(s))
  BY DEF Range
<1>1. i \in Nat /\ i # 1 /\ i \in 1 .. Len(s)
  OBVIOUS
<1>2. i - 1 \in DOMAIN Tail(s) /\ Tail(s)[i - 1] = s[i]
  BY <1>1
<1> QED BY <1>2 DEF Range

\* Where a sender is held after a step.
LEMMA HoldersNext ==
  /\ \A m \in Range(mailbox)' : m.req \in Holders'
  /\ \A t \in Targets : \A m \in Range(pagebox[t])' : m.req \in Holders'
  /\ \A n \in navigations' : n.req \in Holders'
  /\ \A t \in Targets : initiator'[t] \in Holders'
BY DEF Holders

\* Whose sender is held before a step is held after it, but for those in L, if
\* only theirs are taken out of the places that hold senders.
LEMMA HoldersKept ==
  ASSUME NEW L,
         \A m \in Range(mailbox) : m \in Range(mailbox)' \/ m.req \in L,
         \A t \in Targets : \A m \in Range(pagebox[t]) :
           m \in Range(pagebox[t])' \/ m.req \in L,
         \A p \in pending : p \in pending' \/ p.kind \notin SenderKinds \/ p.of \in L,
         \A n \in navigations : n.req \in L \/ \E k \in navigations' : k.req = n.req,
         \A t \in Targets : initiator'[t] = initiator[t] \/ initiator[t] \in L
  PROVE  Holders \subseteq Holders' \cup L
<1>1. \A m \in Range(mailbox) : m.req \in Holders' \cup L
  BY DEF Holders
<1>2. \A t \in Targets : \A m \in Range(pagebox[t]) : m.req \in Holders' \cup L
  BY DEF Holders
<1>3. \A p \in pending : p.kind \in SenderKinds => p.of \in Holders' \cup L
  BY DEF Holders
<1>4. \A n \in navigations : n.req \in Holders' \cup L
  BY DEF Holders
<1>5. \A t \in Targets : initiator[t] \in Holders' \cup L
  BY DEF Holders
<1> QED BY <1>1, <1>2, <1>3, <1>4, <1>5 DEF Holders

\* The calls a step may hand on: L is held elsewhere, told, or lost.
LEMMA ConcludeHolds ==
  ASSUME WaitersHeld, NEW verdict, Conclude(verdict),
         \A r \in Requests : r \in DOMAIN verdict =>
           verdict[r].status # "waiting" /\ verdict[r].status # "canceled",
         NEW L, Holders \subseteq Holders' \cup L,
         \A r \in L : r \in Requests => r \in Holders' \/ r \in DOMAIN verdict \/ Lost(r)
  PROVE  OnlyLossCancels
<1>1. ASSUME NEW r \in Requests, outcome'[r].status = "waiting"
      PROVE  r \in Holders'
  BY <1>1 DEF Conclude, IsWaiting, Fails
<1>2. ASSUME NEW r \in Requests, IsCanceled(r)
      PROVE  Lost(r)
  <2>1. IsWaiting(r) /\ outcome'[r].status = "canceled"
    BY <1>2 DEF IsCanceled
  <2>2. r \notin Holders' /\ r \notin DOMAIN verdict
    BY <2>1 DEF Conclude, IsWaiting
  <2> QED BY <2>1, <2>2 DEF WaitersHeld
<1> QED BY <1>1, <1>2 DEF OnlyLossCancels, WaitersHeld, IsWaiting

\* A step that tells nobody and lets go of no sender.
LEMMA SilentHolds ==
  ASSUME WaitersHeld, UNCHANGED outcome, Holders \subseteq Holders'
  PROVE  OnlyLossCancels
BY DEF OnlyLossCancels, WaitersHeld, IsWaiting, IsCanceled

\* Failures and answers end the wait, and not by cancelling.
LEMMA FailsEnds ==
  \A status \in {"error", "timeout", "initfailed"} :
    Fails(status).status # "waiting" /\ Fails(status).status # "canceled"
BY DEF Fails

LEMMA AnswerEnds ==
  \A r : AnswerOf(r).status # "waiting" /\ AnswerOf(r).status # "canceled"
BY DEF AnswerOf

\* A submitted call keeps the entries there are, and holds its own sender.
LEMMA SubmitHolds ==
  ASSUME IInv, NEW kind, NEW of, NEW req, Submit(kind, of, req)
  PROVE  /\ pending \subseteq pending'
         /\ kind \in SenderKinds => of \in Holders'
<1>1. \A p \in pending : p.id # nextId
  BY DEF IInv, CallInv, CallIdsFresh, TypeOK, PendingEntries
<1>2. pending \subseteq pending' /\ [id |-> nextId, kind |-> kind, of |-> of] \in pending'
  BY <1>1 DEF Submit
<1> QED BY <1>2 DEF Holders

LEMMA ClientsHold ==
  ASSUME IInv, WaitersHeld, Clients
  PROVE  OnlyLossCancels
<1> USE DEF IInv
<1>1. ASSUME NEW r \in Requests, outcome' = [outcome EXCEPT ![r] = Fails("waiting")],
             Holders \cup {r} \subseteq Holders'
      PROVE  OnlyLossCancels
  BY <1>1 DEF TypeOK, Fails, OnlyLossCancels, WaitersHeld, IsWaiting, IsCanceled
<1>2. ASSUME NEW r \in Requests, NEW kind \in Kinds, AskBrowser(r, kind)
      PROVE  OnlyLossCancels
  <2> DEFINE m == [kind |-> kind, req |-> r]
  <2>1. Range(mailbox)' = Range(mailbox) \cup {m}
    <3>1. mailbox' = Append(mailbox, m)
      BY <1>2 DEF AskBrowser
    <3>2. m \in Asks(BrowserKinds) /\ mailbox \in Seq(Asks(BrowserKinds))
      BY <1>2 DEF AskBrowser, TypeOK, Asks
    <3> HIDE DEF m
    <3> QED BY <3>1, <3>2, RangeAppend
  <2>2. UNCHANGED <<pagebox, pending, navigations, initiator>>
    BY <1>2 DEF AskBrowser, callVars, navVars, targetVars
  <2>3. Holders \subseteq Holders' \cup {}
    BY <2>1, <2>2, HoldersKept
  <2>4. r \in Holders'
    <3>1. m.req = r
      OBVIOUS
    <3> HIDE DEF m
    <3> QED BY <2>1, <3>1, HoldersNext
  <2> QED BY <1>1, <1>2, <2>3, <2>4 DEF AskBrowser
<1>3. ASSUME NEW r \in Requests, NEW kind \in Kinds, NEW t \in Targets, AskPage(r, kind, t)
      PROVE  OnlyLossCancels
  <2> DEFINE m == [kind |-> kind, req |-> r]
  <2>1. Range(pagebox[t])' = Range(pagebox[t]) \cup {m}
    <3>1. pagebox'[t] = Append(pagebox[t], m)
      BY <1>3 DEF AskPage, TypeOK
    <3>2. m \in Asks(PageKinds) /\ pagebox[t] \in Seq(Asks(PageKinds))
      BY <1>3 DEF AskPage, TypeOK, Asks
    <3> HIDE DEF m
    <3> QED BY <3>1, <3>2, RangeAppend
  <2>2. /\ \A u \in Targets \ {t} : pagebox'[u] = pagebox[u]
        /\ UNCHANGED <<mailbox, pending, navigations, initiator>>
    BY <1>3 DEF AskPage, TypeOK, callVars, navVars, targetVars
  <2>3. Holders \subseteq Holders' \cup {}
    <3>1. \A u \in Targets : \A x \in Range(pagebox[u]) : x \in Range(pagebox[u])'
      BY <2>1, <2>2
    <3> QED BY <2>2, <3>1, HoldersKept
  <2>4. r \in Holders'
    <3>1. m.req = r
      OBVIOUS
    <3> HIDE DEF m
    <3> QED BY <2>1, <3>1, HoldersNext
  <2> QED BY <1>1, <1>3, <2>3, <2>4 DEF AskPage
<1>4. ASSUME NEW r \in Requests, Abandon(r)
      PROVE  OnlyLossCancels
  <2>1. Holders' = Holders
    BY <1>4 DEF Abandon, Holders, callVars, navVars, targetVars
  <2>2. outcome' = [outcome EXCEPT ![r] = Fails("abandoned")]
    BY <1>4 DEF Abandon
  <2> QED BY <2>1, <2>2
      DEF TypeOK, Fails, OnlyLossCancels, WaitersHeld, IsWaiting, IsCanceled
<1> QED BY <1>2, <1>3, <1>4 DEF Clients

LEMMA BrowserHolds ==
  ASSUME WaitersHeld, Browser \/ PollAgain \/ OnUnknownResponse \/ ConnectionFails \/ UNCHANGED vars
  PROVE  OnlyLossCancels
<1>1. UNCHANGED <<mailbox, pagebox, pending, navigations, initiator, outcome>>
  BY DEF Browser, Respond, CreateTab, OpenTab, CloseTab, BreakConnection, PollAgain,
     OnUnknownResponse, ConnectionFails, vars, callVars, navVars, targetVars
<1>2. Holders' = Holders
  BY <1>1 DEF Holders
<1> QED BY <1>1, <1>2, SilentHolds

LEMMA PollMailboxHolds ==
  ASSUME IInv, WaitersHeld, PollMailbox
  PROVE  OnlyLossCancels
<1> DEFINE r == Head(mailbox).req
<1>1. /\ mailbox # <<>> /\ mailbox' = Tail(mailbox)
      /\ UNCHANGED <<pagebox, navigations, initiator>>
  BY DEF PollMailbox, SubmitExternalCommand, SubmitFetchTargets, SubmitClose, CreatePage,
         SendPages, Receive, navVars, targetVars
<1>2. \A m \in Range(mailbox) : m \in Range(mailbox)' \/ m.req \in {r}
  BY <1>1, RangeHeadTail DEF IInv, TypeOK
<1> HIDE DEF r
<1>3. ASSUME pending \subseteq pending'
      PROVE  Holders \subseteq Holders' \cup {r}
  BY <1>1, <1>2, <1>3, HoldersKept
<1>4. ASSUME NEW kind \in SenderKinds, Submit(kind, r, r), Conclude(Nobody)
      PROVE  OnlyLossCancels
  BY <1>3, <1>4, SubmitHolds, ConcludeHolds DEF Nobody
<1>5. ASSUME NEW v, v.status # "waiting" /\ v.status # "canceled", UNCHANGED callVars, Tell(r, v)
      PROVE  OnlyLossCancels
  <2>1. pending \subseteq pending'
    BY <1>5 DEF callVars
  <2> QED BY <1>3, <1>5, <2>1, ConcludeHolds DEF Tell
<1> QED BY <1>4, <1>5, FailsEnds, AnswerEnds
    DEF PollMailbox, SubmitExternalCommand, SubmitFetchTargets, SubmitClose, CreatePage,
        SendPages, SenderKinds, r

LEMMA PollTargetsHold ==
  ASSUME IInv, WaitersHeld, PollTargets
  PROVE  OnlyLossCancels
<1> USE DEF IInv
<1> PICK t \in Targets :
      \/ OnTargetMessage(t) \/ SubmitInternalCommand(t)
      \/ \E e \in queued[t] : SubmitNavigation(t, e)
      \/ \E e \in watched[t], ok \in BOOLEAN : OnNavigationLifecycleCompleted(t, e, ok)
      \/ SendPageToInitiator(t) \/ OnInitializationFailed(t)
  BY DEF PollTargets
<1>1. CASE OnTargetMessage(t)
  <2> DEFINE m == Head(pagebox[t])
  <2>1. /\ pagebox[t] # <<>> /\ pagebox'[t] = Tail(pagebox[t]) /\ Conclude(Nobody)
        /\ \A u \in Targets \ {t} : pagebox'[u] = pagebox[u]
        /\ UNCHANGED <<mailbox, initiator>>
    BY <1>1 DEF OnTargetMessage, TypeOK
  <2>2. \A u \in Targets : \A x \in Range(pagebox[u]) :
          x \in Range(pagebox[u])' \/ x.req \in {m.req}
    <3>1. pagebox[t] \in Seq(Asks(PageKinds))
      BY DEF TypeOK
    <3>2. Range(pagebox[t]) \subseteq {m} \cup Range(Tail(pagebox[t]))
      BY <2>1, <3>1, RangeHeadTail
    <3> QED BY <2>1, <3>2
  <2>3. /\ pending \subseteq pending' /\ navigations \subseteq navigations'
        /\ m.req \in Holders'
    <3>1. CASE m.kind = "Goto"
      <4> DEFINE n0 == [id |-> nextNav, req |-> m.req, navigated |-> FALSE,
                        response |-> NoRequest]
      <4>1. UNCHANGED callVars /\ navigations' = navigations \cup {n0}
        BY <1>1, <3>1 DEF OnTargetMessage
      <4>2. n0.req = m.req
        OBVIOUS
      <4> HIDE DEF m, n0
      <4> QED BY <4>1, <4>2, HoldersNext DEF callVars
    <3>2. CASE m.kind = "PageCommand"
      <4>1. Submit("ExternalCommand", m.req, m.req) /\ UNCHANGED navVars
        BY <1>1, <3>2 DEF OnTargetMessage
      <4> HIDE DEF m
      <4> QED BY <4>1, SubmitHolds DEF navVars, SenderKinds
    <3> QED BY <1>1, <3>1, <3>2 DEF OnTargetMessage
  <2> HIDE DEF m
  <2>4. Holders \subseteq Holders' \cup {m.req}
    BY <2>1, <2>2, <2>3, HoldersKept
  <2> QED BY <2>1, <2>3, <2>4, ConcludeHolds DEF Nobody
<1>2. CASE SubmitInternalCommand(t) \/ \E e \in queued[t] : SubmitNavigation(t, e)
  <2>1. /\ \E kind, of, req : Submit(kind, of, req)
        /\ UNCHANGED <<mailbox, pagebox, navigations, initiator, outcome>>
    BY <1>2 DEF SubmitInternalCommand, SubmitNavigation, navVars, targetVars
  <2>2. Holders \subseteq Holders' \cup {}
    BY <2>1, SubmitHolds, HoldersKept
  <2> QED BY <2>1, <2>2, SilentHolds
<1>3. ASSUME NEW e \in watched[t], NEW ok \in BOOLEAN, OnNavigationLifecycleCompleted(t, e, ok)
      PROVE  OnlyLossCancels
  <2> DEFINE entry == {n \in navigations : n.id = e.nav}
             done  == {n \in entry : ~ok \/ n.response # NoRequest}
             verdict == [r \in {n.req : n \in done} |->
                           IF ok THEN AnswerOf((CHOOSE n \in done : n.req = r).response)
                           ELSE Fails("error")]
  <2>1. /\ Conclude(verdict)
        /\ navigations' = (navigations \ entry)
                            \cup {[n EXCEPT !.navigated = TRUE] : n \in entry \ done}
        /\ UNCHANGED <<mailbox, pagebox, pending, initiator>>
    BY <1>3 DEF OnNavigationLifecycleCompleted, callVars
  <2>2. \A r \in DOMAIN verdict : verdict[r].status # "waiting" /\ verdict[r].status # "canceled"
    BY FailsEnds, AnswerEnds
  <2>3. DOMAIN verdict = {n.req : n \in done}
    OBVIOUS
  <2> HIDE DEF verdict
  <2>4. \A n \in navigations : n.req \in DOMAIN verdict \/ \E k \in navigations' : k.req = n.req
    <3> SUFFICES ASSUME NEW n \in navigations, n \notin done
                 PROVE  \E k \in navigations' : k.req = n.req
      BY <2>3
    <3>1. CASE n \in entry
      <4>1. [n EXCEPT !.navigated = TRUE] \in navigations'
        BY <2>1, <3>1
      <4>2. [n EXCEPT !.navigated = TRUE].req = n.req
        BY DEF TypeOK
      <4> QED BY <4>1, <4>2
    <3>2. CASE n \notin entry
      BY <2>1, <3>2
    <3> QED BY <3>1, <3>2
  <2>5. Holders \subseteq Holders' \cup DOMAIN verdict
    BY <2>1, <2>4, HoldersKept
  <2> QED BY <2>1, <2>2, <2>5, ConcludeHolds
<1>4. CASE SendPageToInitiator(t)
  <2> DEFINE r == initiator[t]
  <2>1. /\ Tell(r, AnswerOf(r)) /\ \A u \in Targets \ {t} : initiator'[u] = initiator[u]
        /\ UNCHANGED <<mailbox, pagebox, pending, navigations>>
    BY <1>4 DEF SendPageToInitiator, TypeOK, callVars, navVars
  <2>2. \A u \in Targets : initiator'[u] = initiator[u] \/ initiator[u] \in {r}
    BY <2>1
  <2> HIDE DEF r
  <2>3. Holders \subseteq Holders' \cup {r}
    BY <2>1, <2>2, HoldersKept
  <2> QED BY <2>1, <2>3, ConcludeHolds, AnswerEnds DEF Tell
<1>5. CASE OnInitializationFailed(t)
  <2> DEFINE verdict == [r \in {initiator[t]} \ {NoRequest} |-> Fails("initfailed")]
  <2>1. /\ Conclude(verdict) /\ Submit("InternalCommand", t, NoRequest)
        /\ initiator' = [initiator EXCEPT ![t] = NoRequest]
        /\ UNCHANGED <<mailbox, pagebox, navigations>>
    BY <1>5 DEF OnInitializationFailed, navVars
  <2>2. \A r \in DOMAIN verdict : verdict[r].status # "waiting" /\ verdict[r].status # "canceled"
    BY FailsEnds
  <2>3. \A u \in Targets : initiator'[u] = initiator[u] \/ initiator[u] \in DOMAIN verdict
    BY <2>1 DEF TypeOK
  <2> HIDE DEF verdict
  <2>4. Holders \subseteq Holders' \cup DOMAIN verdict
    BY <2>1, <2>3, SubmitHolds, HoldersKept
  <2> QED BY <2>1, <2>2, <2>4, ConcludeHolds
<1> QED BY <1>1, <1>2, <1>3, <1>4, <1>5

\* Registering targets anew loses what their predecessors held.
LEMMA RegisteringHolds ==
  ASSUME IInv, NEW ts \in SUBSET Targets,
         \A t \in Targets \ ts : pagebox'[t] = pagebox[t] /\ initiator'[t] = initiator[t],
         UNCHANGED <<mailbox, navigations>>, NEW K,
         \A p \in pending : p \in pending' \/ p.kind \notin SenderKinds \/ p.of \in K
  PROVE  Holders \subseteq Holders' \cup (K \cup UNION {HeldBy(t) : t \in ts})
<1> DEFINE L == K \cup UNION {HeldBy(t) : t \in ts}
<1>1. \A t \in Targets : \A m \in Range(pagebox[t]) : m \in Range(pagebox[t])' \/ m.req \in L
  BY DEF HeldBy
<1>2. \A t \in Targets : initiator'[t] = initiator[t] \/ initiator[t] \in L
  BY DEF HeldBy
<1> HIDE DEF L
<1>3. \A p \in pending : p \in pending' \/ p.kind \notin SenderKinds \/ p.of \in L
  BY DEF L
<1>4. Holders \subseteq Holders' \cup L
  BY <1>1, <1>2, <1>3, HoldersKept
<1> QED BY <1>4 DEF L

LEMMA AnswerHolds ==
  ASSUME IInv, WaitersHeld, NEW p \in pending,
         OnExternalResponse(p) \/ OnInternalResponse(p) \/ OnCloseResponse(p)
  PROVE  OnlyLossCancels
<1>1. UNCHANGED <<mailbox, pagebox, navigations, initiator>> /\ pending' = pending \ {p}
  BY DEF OnExternalResponse, OnInternalResponse, OnCloseResponse, OnResponse, navVars, targetVars
<1>2. CASE OnInternalResponse(p)
  <2>1. p.kind \notin SenderKinds /\ UNCHANGED outcome
    BY <1>2 DEF OnInternalResponse, SenderKinds
  <2>2. Holders \subseteq Holders' \cup {}
    BY <1>1, <2>1, HoldersKept
  <2> QED BY <2>1, <2>2, SilentHolds
<1>3. CASE OnExternalResponse(p) \/ OnCloseResponse(p)
  <2>1. Tell(p.of, AnswerOf(Read.req))
    BY <1>3 DEF OnExternalResponse, OnCloseResponse
  <2>2. Holders \subseteq Holders' \cup {p.of}
    BY <1>1, HoldersKept
  <2> QED BY <2>1, <2>2, ConcludeHolds, AnswerEnds DEF Tell
<1> QED BY <1>2, <1>3

\* The sender of the new page's call moves from its entry to the target, and takes
\* the place of whoever waited there.
LEMMA OnCreateTargetResponseHolds ==
  ASSUME IInv, PanicInv, WaitersHeld, NEW p \in pending, OnCreateTargetResponse(p), NoPanic'
  PROVE  OnlyLossCancels
<1> USE DEF IInv
<1>1. /\ inbox # <<>> /\ phase = "running" /\ pending' = pending \ {p}
      /\ Read.type = "response" /\ p.id = Read.id /\ p.kind = "CreateTarget"
      /\ UNCHANGED <<mailbox, pagebox, navigations>>
  BY DEF OnCreateTargetResponse, OnResponse, navVars
<1>2. inbox \in Seq(Messages) /\ Read \in Messages /\ Read.targets \subseteq Targets
  <2>1. inbox \in Seq(Messages) /\ Read \in Messages
    BY <1>1, RangeTail DEF TypeOK, Read
  <2> QED BY <2>1 DEF Messages
<1>3. CASE ~Read.ok
  <2>1. Tell(p.of, Fails("error")) /\ UNCHANGED initiator
    BY <1>3 DEF OnCreateTargetResponse
  <2>2. Holders \subseteq Holders' \cup {p.of}
    BY <1>1, <2>1, HoldersKept
  <2> QED BY <2>1, <2>2, ConcludeHolds, FailsEnds DEF Tell
<1>4. CASE Read.ok
  <2>1. /\ Conclude(Nobody)
        /\ initiator' = [t \in Targets |-> IF t \in Read.targets THEN p.of ELSE initiator[t]]
    BY <1>4 DEF OnCreateTargetResponse, NoPanic
  <2>2. Read.targets # {}
    <3>1. 1 \in DOMAIN inbox /\ Read = inbox[1]
      BY <1>1, <1>2 DEF Read
    <3>2. ReturnsTarget(inbox[1])
      BY <1>1, <1>4, <3>1 DEF ReturnsTarget
    <3> QED BY <3>1, <3>2 DEF PanicInv, AnnouncedFirst
  <2>3. p.of \in Holders'
    BY <1>2, <2>1, <2>2, HoldersNext
  <2> DEFINE L == {p.of} \cup UNION {HeldBy(t) : t \in Read.targets}
  <2>4. Holders \subseteq Holders' \cup L
    BY <1>1, <1>2, <2>1, RegisteringHolds
  <2>5. \A r \in L : r \in Holders' \/ Lost(r)
    BY <1>1, <2>3 DEF Lost
  <2> HIDE DEF L
  <2> QED BY <2>1, <2>4, <2>5, ConcludeHolds DEF Nobody
<1> QED BY <1>3, <1>4

LEMMA OnGetTargetsResponseHolds ==
  ASSUME IInv, WaitersHeld, NEW p \in pending, OnGetTargetsResponse(p)
  PROVE  OnlyLossCancels
<1> USE DEF IInv
<1>1. /\ inbox # <<>> /\ phase = "running" /\ pending' = pending \ {p}
      /\ UNCHANGED <<mailbox, navigations>>
  BY DEF OnGetTargetsResponse, OnResponse, navVars
<1>2. Read \in Messages /\ Read.targets \subseteq Targets
  <2>1. inbox \in Seq(Messages)
    BY DEF TypeOK
  <2>2. Read \in Messages
    BY <1>1, <2>1, RangeTail DEF Read
  <2> QED BY <2>2 DEF Messages
<1>3. CASE ~Read.ok
  <2>1. Tell(p.of, Fails("error")) /\ UNCHANGED <<initiator, pagebox>>
    BY <1>3 DEF OnGetTargetsResponse, targetVars
  <2>2. Holders \subseteq Holders' \cup {p.of}
    BY <1>1, <2>1, HoldersKept
  <2> QED BY <2>1, <2>2, ConcludeHolds, FailsEnds DEF Tell
<1>4. CASE Read.ok
  <2>1. Tell(p.of, AnswerOf(Read.req)) /\ OnTargetCreated(Read.targets)
    BY <1>4 DEF OnGetTargetsResponse
  <2> DEFINE L == {p.of} \cup UNION {HeldBy(t) : t \in Read.targets}
  <2>2. Holders \subseteq Holders' \cup L
    BY <1>1, <1>2, <2>1, RegisteringHolds DEF OnTargetCreated
  <2>3. \A r \in L : r \in {p.of} \/ Lost(r)
    BY <1>1 DEF Lost
  <2> HIDE DEF L
  <2> QED BY <2>1, <2>2, <2>3, ConcludeHolds, AnswerEnds DEF Tell
<1> QED BY <1>3, <1>4

LEMMA OnNavigationResponseHolds ==
  ASSUME IInv, WaitersHeld, NEW p \in pending, OnNavigationResponse(p)
  PROVE  OnlyLossCancels
<1> USE DEF IInv
<1> DEFINE entry == {n \in navigations : n.id = p.of}
           done  == {n \in entry : n.navigated}
           verdict == [r \in {n.req : n \in done} |-> AnswerOf(Read.req)]
<1>1. /\ Conclude(verdict) /\ pending' = pending \ {p} /\ p.kind \notin SenderKinds
      /\ navigations' = (navigations \ entry)
                          \cup {[n EXCEPT !.response = Read.req] : n \in entry \ done}
      /\ UNCHANGED <<mailbox, pagebox, initiator>>
  BY DEF OnNavigationResponse, OnResponse, targetVars, SenderKinds
<1>2. \A r \in DOMAIN verdict : verdict[r].status # "waiting" /\ verdict[r].status # "canceled"
  BY AnswerEnds
<1>3. DOMAIN verdict = {n.req : n \in done}
  OBVIOUS
<1> HIDE DEF verdict
<1>4. \A n \in navigations : n.req \in DOMAIN verdict \/ \E k \in navigations' : k.req = n.req
  <2> SUFFICES ASSUME NEW n \in navigations, n \notin done
               PROVE  \E k \in navigations' : k.req = n.req
    BY <1>3
  <2>1. CASE n \in entry
    <3>1. [n EXCEPT !.response = Read.req] \in navigations'
      BY <1>1, <2>1
    <3>2. [n EXCEPT !.response = Read.req].req = n.req
      BY DEF TypeOK
    <3> QED BY <3>1, <3>2
  <2>2. CASE n \notin entry
    BY <1>1, <2>2
  <2> QED BY <2>1, <2>2
<1>5. Holders \subseteq Holders' \cup DOMAIN verdict
  BY <1>1, <1>4, HoldersKept
<1> QED BY <1>1, <1>2, <1>5, ConcludeHolds

\* A target is announced again, or gone.
LEMMA TargetEventHolds ==
  ASSUME IInv, WaitersHeld, OnTargetCreatedEvent \/ OnTargetDestroyed
  PROVE  OnlyLossCancels
<1>1. /\ inbox # <<>> /\ phase = "running" /\ Conclude(Nobody)
      /\ UNCHANGED <<mailbox, navigations, pending>>
  BY DEF OnTargetCreatedEvent, OnTargetDestroyed, callVars, navVars
<1>2. Read.targets \subseteq Targets
  <2>1. inbox \in Seq(Messages)
    BY DEF IInv, TypeOK
  <2>2. Read \in Messages
    BY <1>1, <2>1, RangeTail DEF Read
  <2> QED BY <2>2 DEF Messages
<1>3. \A t \in Targets \ Read.targets : pagebox'[t] = pagebox[t] /\ initiator'[t] = initiator[t]
  BY DEF OnTargetCreatedEvent, OnTargetCreated, OnTargetDestroyed
<1> DEFINE L == {} \cup UNION {HeldBy(t) : t \in Read.targets}
<1>4. Holders \subseteq Holders' \cup L
  BY <1>1, <1>2, <1>3, RegisteringHolds
<1>5. \A r \in L : Lost(r)
  BY <1>1 DEF Lost
<1> HIDE DEF L
<1> QED BY <1>1, <1>4, <1>5, ConcludeHolds DEF Nobody

LEMMA EvictHolds ==
  ASSUME WaitersHeld, NEW late \in SUBSET pending, EvictTimedOutCommands(late)
  PROVE  OnlyLossCancels
<1> DEFINE expired == {n \in navigations :
                         n.id \in {p.of : p \in {q \in late : q.kind = "Navigate"}}}
           verdict == [r \in {p.of : p \in {q \in late : q.kind \in SenderKinds}}
                               \cup {n.req : n \in expired} |-> Fails("timeout")]
<1>1. /\ Conclude(verdict) /\ pending' = pending \ late /\ navigations' = navigations \ expired
      /\ UNCHANGED <<mailbox, pagebox, initiator>>
  BY DEF EvictTimedOutCommands, targetVars
<1>2. /\ \A p \in pending : p \in pending' \/ p.kind \notin SenderKinds \/ p.of \in DOMAIN verdict
      /\ \A n \in navigations : n.req \in DOMAIN verdict \/ n \in navigations'
  BY <1>1
<1>3. \A r \in DOMAIN verdict : verdict[r].status # "waiting" /\ verdict[r].status # "canceled"
  BY FailsEnds
<1> HIDE DEF verdict
<1>4. Holders \subseteq Holders' \cup DOMAIN verdict
  BY <1>1, <1>2, HoldersKept
<1> QED BY <1>1, <1>3, <1>4, ConcludeHolds

\* The clients of a dropped handler are canceled, and no one waits any longer.
LEMMA DropHandlerHolds ==
  ASSUME DropHandler
  PROVE  OnlyLossCancels
<1>1. Conclude(Nobody) /\ phase' = "dropped"
  BY DEF DropHandler
<1>2. ASSUME NEW r \in Requests, outcome'[r].status = "waiting"
      PROVE  r \in Holders'
  BY <1>1, <1>2 DEF Conclude, Nobody, IsWaiting, Fails
<1> QED BY <1>1, <1>2 DEF OnlyLossCancels, WaitersHeld, IsWaiting

LEMMA StepHolds ==
  ASSUME IInv, PanicInv, WaitersHeld, [Next]_vars
  PROVE  OnlyLossCancels
<1>1. CASE PollSocket
  <2>1. NoPanic'
    BY NoPanicStep
  <2> QED BY <1>1, <2>1, AnswerHolds, OnCreateTargetResponseHolds, OnGetTargetsResponseHolds,
             OnNavigationResponseHolds, TargetEventHolds, BrowserHolds DEF PollSocket
<1> QED BY <1>1, ClientsHold, BrowserHolds, PollMailboxHolds, PollTargetsHold, EvictHolds,
           DropHandlerHolds DEF Next, Evict

\* In every reachable state the handler owns the sender of each call that waits.
THEOREM WaitersAreHeld == Spec => []WaitersHeld
<1>1. Init => WaitersHeld
  BY DEF Init, WaitersHeld, IsWaiting, Fails
<1>2. IInv /\ PanicInv /\ WaitersHeld /\ [Next]_vars => WaitersHeld'
  BY StepHolds DEF OnlyLossCancels
<1> QED BY <1>1, <1>2, Invariance, PanicInvariance, PTL DEF Spec

\* No call is dropped silently: a client sees Canceled only when the handler is
\* dropped, or when the target that held its sender is destroyed or registered anew.
THEOREM CallsAreNotDropped == Spec => CanceledOnlyByLoss
<1>1. IInv /\ PanicInv /\ WaitersHeld /\ [Next]_vars
        => [\A r \in Requests : IsCanceled(r) =>
              \/ phase' = "dropped"
              \/ inbox # <<>> /\ \E t \in Read.targets : phase = "running" /\ r \in HeldBy(t)]_vars
  BY StepHolds DEF OnlyLossCancels, Lost
<1> QED BY <1>1, Invariance, PanicInvariance, WaitersAreHeld, PTL DEF Spec, CanceledOnlyByLoss
=============================================================================
