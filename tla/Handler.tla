------------------------------- MODULE Handler ------------------------------
(***************************************************************************)
(* The request tracking of handler::Handler (src/src/handler/mod.rs).      *)
(*                                                                         *)
(* Clients put messages into the handler's channel (Browser) or into the   *)
(* channel of a page (Page).  The handler, polled by one task, turns them  *)
(* into CDP calls, remembers in pending_commands who waits for which call  *)
(* id, and concludes the client's oneshot when the response arrives, when  *)
(* the request expires, or, for a navigation, when the response has        *)
(* arrived and the target reports that the page has loaded.                *)
(*                                                                         *)
(* Every message the handler takes from a channel, a target or the socket  *)
(* is one action; clients and browser run in between.  Since anything may  *)
(* arrive between two messages, the order in which poll_next visits its    *)
(* sources adds no behaviour here; module Polling has that order, the      *)
(* clock, the timestamps and the wakers, and this module lets any pending  *)
(* call expire at any eviction.                                            *)
(*                                                                         *)
(* Abstracted: a target is the set of navigations its FrameManager queues  *)
(* and watches, and the sender waiting for its page (modules Navigation    *)
(* and TargetInit have the detail).                                        *)
(***************************************************************************)
EXTENDS Naturals, Sequences, FiniteSets, Functions

CONSTANTS
  Requests,      \* calls of the public API, each with one oneshot channel
  NoRequest,     \* no call
  Targets,       \* target ids, never reused by the browser
  Kinds,         \* the calls the clients of this instance make
  MaxCalls,      \* bound: targets submit commands of their own only below this call id
  Losses         \* whether tabs close on their own, frames get lost, the socket breaks

BrowserKinds == {"Command", "FetchTargets", "CloseBrowser", "CreatePage", "GetPages"}
PageKinds    == {"PageCommand", "Goto"}

ASSUME HandlerAssumption ==
  /\ NoRequest \notin Requests
  /\ IsFiniteSet(Targets)
  /\ Kinds \subseteq BrowserKinds \cup PageKinds
  /\ MaxCalls \in Nat
  /\ Losses \in BOOLEAN

VARIABLES
  phase,         \* whether the handler is polled, has ended, or is gone
  mailbox,       \* from_browser
  pagebox,       \* per target: the commands in its page's channel
  pending,       \* pending_commands: call id, kind, whom for
  nextId,        \* Connection::next_id
  calls,         \* calls handed to the connection the browser has not answered
  inbox,         \* websocket messages on their way to the handler
  navigations,   \* Handler::navigations
  nextNav,       \* next_navigation_id
  live,          \* keys of Handler::targets
  initiator,     \* per target: Target::initiator
  queued,        \* per target: navigations its FrameManager has yet to request
  watched,       \* per target: navigations requested, awaiting the page load
  tabs,          \* the browser's own view of each target
  outcome        \* per call: what the client has seen

callVars   == <<pending, nextId, calls>>
navVars    == <<navigations, nextNav>>
targetVars == <<live, initiator, queued, watched>>
vars == <<phase, mailbox, pagebox, callVars, inbox, navVars, targetVars,
          tabs, outcome>>

-----------------------------------------------------------------------------
\* Polled again and again; poll_next has returned an error; it has returned
\* None after a close; the handler is dropped; its task has panicked.
Phases == {"running", "failed", "closed", "dropped", "panicked"}

Status == {"idle", "waiting", "abandoned", "answered", "error", "timeout",
           "initfailed", "canceled"}
Outcomes == [status : Status, from : Requests \cup {NoRequest}]

Fails(status) == [status |-> status, from |-> NoRequest]
AnswerOf(r)   == [status |-> "answered", from |-> r]
IsWaiting(r)  == outcome[r].status = "waiting"

\* The kinds of PendingRequest that own the client's sender.
SenderKinds  == {"ExternalCommand", "GetTargets", "CloseBrowser", "CreateTarget"}
PendingKinds == SenderKinds \cup {"Navigate", "InternalCommand"}

\* The calls whose sending half some part of the handler owns.
Holders ==
  {m.req : m \in Range(mailbox)}
    \cup (UNION {{m.req : m \in Range(pagebox[t])} : t \in Targets})
    \cup {p.of : p \in {q \in pending : q.kind \in SenderKinds}}
    \cup {n.req : n \in navigations}
    \cup {initiator[t] : t \in Targets}

\* Sends `verdict` to the calls in its domain.  A sender that no longer exists
\* after the step was dropped, which its client sees as Canceled; whatever is
\* sent to a client that has stopped listening is lost.
Conclude(verdict) ==
  \E held \in {Holders'} :
    outcome' = [r \in Requests |->
                  IF ~IsWaiting(r) THEN outcome[r]
                  ELSE IF r \in DOMAIN verdict THEN verdict[r]
                  ELSE IF r \in held THEN outcome[r]
                  ELSE Fails("canceled")]

Nobody == [r \in {} |-> Fails("canceled")]
Tell(r, verdict) == Conclude([q \in {r} |-> verdict])

\* Mutant of Submit: next_call_id forgets to count.
SubmitWithSameId(kind, of, req) ==
  /\ pending' = {p \in pending : p.id # nextId}
                  \cup {[id |-> nextId, kind |-> kind, of |-> of]}
  /\ calls' = calls \cup {[id |-> nextId, kind |-> kind, req |-> req]}
  /\ nextId' = nextId

\* Connection::submit_command, and the entry made for it in pending_commands.
\* The map has one entry per call id: an insert replaces.
Submit(kind, of, req) ==
  /\ pending' = {p \in pending : p.id # nextId}
                  \cup {[id |-> nextId, kind |-> kind, of |-> of]}
  /\ calls' = calls \cup {[id |-> nextId, kind |-> kind, req |-> req]}
  /\ nextId' = nextId + 1

Response(call, ok, ts) ==
  [type |-> "response", id |-> call.id, ok |-> ok, req |-> call.req, targets |-> ts]
Event(type, t) ==
  [type |-> type, id |-> 0, ok |-> TRUE, req |-> NoRequest, targets |-> {t}]

Init ==
  /\ phase = "running"
  /\ mailbox = <<>> /\ pagebox = [t \in Targets |-> <<>>]
  /\ pending = {} /\ calls = {}
  /\ nextId = 1                \* call 0 is SetDiscoverTargets, sent by Handler::new
  /\ inbox = <<>>
  /\ navigations = {} /\ nextNav = 0
  /\ live = {} /\ initiator = [t \in Targets |-> NoRequest]
  /\ queued = [t \in Targets |-> {}] /\ watched = [t \in Targets |-> {}]
  /\ tabs = [t \in Targets |-> "unborn"]
  /\ outcome = [r \in Requests |-> Fails("idle")]

-----------------------------------------------------------------------------
(* Clients.                                                                *)

\* A call through Browser: the message goes into the handler's channel.
AskBrowser(r, kind) ==
  /\ kind \in Kinds \cap BrowserKinds
  /\ outcome[r].status = "idle"
  /\ phase # "dropped"
  /\ mailbox' = Append(mailbox, [kind |-> kind, req |-> r])
  /\ outcome' = [outcome EXCEPT ![r] = Fails("waiting")]
  /\ UNCHANGED <<phase, pagebox, callVars, inbox, navVars, targetVars, tabs>>

\* A call through a Page: the message goes into the channel of its target.
AskPage(r, kind, t) ==
  /\ kind \in Kinds \cap PageKinds
  /\ outcome[r].status = "idle"
  /\ t \in live
  /\ pagebox' = [pagebox EXCEPT ![t] = Append(@, [kind |-> kind, req |-> r])]
  /\ outcome' = [outcome EXCEPT ![r] = Fails("waiting")]
  /\ UNCHANGED <<phase, mailbox, callVars, inbox, navVars, targetVars, tabs>>

\* A client drops its future: the handler keeps the sender and notices nothing.
Abandon(r) ==
  /\ IsWaiting(r)
  /\ outcome' = [outcome EXCEPT ![r] = Fails("abandoned")]
  /\ UNCHANGED <<phase, mailbox, pagebox, callVars, inbox, navVars, targetVars,
                 tabs>>

-----------------------------------------------------------------------------
(* The browser process (external): it answers calls in any order, or never. *)

Connected == phase # "dropped" /\ \A m \in Range(inbox) : m.type # "broken"

\* `ok` tells a result from an error response, for the calls where the handler
\* looks at it.
Respond(call, ok) ==
  /\ Connected /\ call \in calls
  /\ call.kind = "CreateTarget" => ~ok
  /\ call.kind \notin {"CreateTarget", "GetTargets"} => ok
  /\ calls' = calls \ {call}
  /\ inbox' = Append(inbox, Response(call, ok,
                IF call.kind = "GetTargets" THEN {t \in Targets : tabs[t] = "open"} ELSE {}))
  /\ UNCHANGED <<phase, mailbox, pagebox, pending, nextId, navVars, targetVars,
                 tabs, outcome>>

\* Target.createTarget announces the target before it returns its id.
CreateTab(call, t) ==
  /\ Connected /\ call \in calls /\ call.kind = "CreateTarget"
  /\ tabs[t] = "unborn"
  /\ tabs' = [tabs EXCEPT ![t] = "open"]
  /\ calls' = calls \ {call}
  /\ inbox' = inbox \o <<Event("created", t), Response(call, TRUE, {t})>>
  /\ UNCHANGED <<phase, mailbox, pagebox, pending, nextId, navVars, targetVars,
                 outcome>>

\* A tab opened by the user or by another page.
OpenTab(t) ==
  /\ Connected /\ tabs[t] = "unborn"
  /\ tabs' = [tabs EXCEPT ![t] = "open"]
  /\ inbox' = Append(inbox, Event("created", t))
  /\ UNCHANGED <<phase, mailbox, pagebox, callVars, navVars, targetVars, outcome>>

CloseTab(t) ==
  /\ Losses
  /\ Connected /\ tabs[t] = "open"
  /\ tabs' = [tabs EXCEPT ![t] = "closed"]
  /\ inbox' = Append(inbox, Event("destroyed", t))
  /\ UNCHANGED <<phase, mailbox, pagebox, callVars, navVars, targetVars, outcome>>

\* The websocket breaks: nothing more arrives, and once the handler has read what
\* it has got, every further read is an error.
BreakConnection ==
  /\ Losses /\ Connected
  /\ inbox' = Append(inbox, [Event("broken", NoRequest) EXCEPT !.targets = {}])
  /\ UNCHANGED <<phase, mailbox, pagebox, callVars, navVars, targetVars, tabs, outcome>>

-----------------------------------------------------------------------------
(* Handler::poll_next, first part: the messages of the Browser's channel.   *)

Receive(kind) ==
  /\ phase = "running" /\ mailbox # <<>>
  /\ Head(mailbox).kind = kind
  /\ mailbox' = Tail(mailbox)
  /\ UNCHANGED <<phase, pagebox, inbox, navVars, targetVars, tabs>>

SubmitExternalCommand ==
  /\ Receive("Command")
  /\ Submit("ExternalCommand", Head(mailbox).req, Head(mailbox).req)
  /\ Conclude(Nobody)

SubmitFetchTargets ==
  /\ Receive("FetchTargets")
  /\ Submit("GetTargets", Head(mailbox).req, Head(mailbox).req)
  /\ Conclude(Nobody)

SubmitClose ==
  /\ Receive("CloseBrowser")
  /\ Submit("CloseBrowser", Head(mailbox).req, Head(mailbox).req)
  /\ Conclude(Nobody)

\* A URL that does not parse is refused at once; the timestamp of the request
\* is Instant::now(), not the loop's.
CreatePage ==
  /\ Receive("CreatePage")
  /\ \/ /\ Submit("CreateTarget", Head(mailbox).req, Head(mailbox).req)
        /\ Conclude(Nobody)
     \/ /\ UNCHANGED callVars
        /\ Tell(Head(mailbox).req, Fails("error"))

\* GetPages and GetPage are answered from the handler's own state.
SendPages ==
  /\ Receive("GetPages")
  /\ UNCHANGED callVars
  /\ Tell(Head(mailbox).req, AnswerOf(Head(mailbox).req))

-----------------------------------------------------------------------------
(* Second part: the targets.                                               *)

\* A message of the page's channel.  A navigation gets an id and is handed to
\* the FrameManager, which forgets it when it knows no main frame; the entry in
\* `navigations` is made either way.
OnTargetMessage(t) ==
  /\ phase = "running" /\ t \in live /\ pagebox[t] # <<>>
  /\ pagebox' = [pagebox EXCEPT ![t] = Tail(@)]
  /\ UNCHANGED <<phase, mailbox, inbox, live, initiator, watched, tabs>>
  /\ LET m == Head(pagebox[t]) IN
     \/ /\ m.kind = "Goto"
        /\ nextNav' = nextNav + 1
        /\ navigations' = navigations \cup
             {[id |-> nextNav, req |-> m.req, navigated |-> FALSE, response |-> NoRequest]}
        /\ \/ queued' = [queued EXCEPT ![t] = @ \cup {[nav |-> nextNav, req |-> m.req]}]
           \/ Losses /\ UNCHANGED queued
        /\ UNCHANGED callVars
     \/ /\ m.kind = "PageCommand"
        /\ Submit("ExternalCommand", m.req, m.req)
        /\ UNCHANGED <<navVars, queued>>
  /\ Conclude(Nobody)

\* TargetEvent::Request: a command of the target's own.
SubmitInternalCommand(t) ==
  /\ phase = "running" /\ t \in live
  /\ nextId < MaxCalls
  /\ Submit("InternalCommand", t, NoRequest)
  /\ UNCHANGED <<phase, mailbox, pagebox, inbox, navVars, targetVars, tabs, outcome>>

\* TargetEvent::NavigationRequest: the FrameManager issues a queued navigation.
SubmitNavigation(t, e) ==
  /\ phase = "running" /\ t \in live /\ e \in queued[t]
  /\ Submit("Navigate", e.nav, e.req)
  /\ queued' = [queued EXCEPT ![t] = @ \ {e}]
  /\ watched' = [watched EXCEPT ![t] = @ \cup {e}]
  /\ UNCHANGED <<phase, mailbox, pagebox, inbox, navVars, live, initiator, tabs,
                 outcome>>

\* TargetEvent::NavigationResult: the page has loaded, or the FrameManager gave up.
OnNavigationLifecycleCompleted(t, e, ok) ==
  /\ phase = "running" /\ t \in live /\ e \in watched[t]
  /\ watched' = [watched EXCEPT ![t] = @ \ {e}]
  /\ UNCHANGED <<phase, mailbox, pagebox, callVars, inbox, nextNav, live, initiator,
                 queued, tabs>>
  /\ LET entry == {n \in navigations : n.id = e.nav}
         done  == {n \in entry : ~ok \/ n.response # NoRequest}
     IN /\ navigations' = (navigations \ entry)
                            \cup {[n EXCEPT !.navigated = TRUE] : n \in entry \ done}
        /\ Conclude([r \in {n.req : n \in done} |->
                       IF ok THEN AnswerOf((CHOOSE n \in done : n.req = r).response)
                       ELSE Fails("error")])

\* The target is initialised and its main frame has loaded: the page goes to
\* the client that asked for it.
SendPageToInitiator(t) ==
  /\ phase = "running" /\ t \in live /\ initiator[t] # NoRequest
  /\ initiator' = [initiator EXCEPT ![t] = NoRequest]
  /\ UNCHANGED <<phase, mailbox, pagebox, callVars, inbox, navVars, live, queued,
                 watched, tabs>>
  /\ Tell(initiator[t], AnswerOf(initiator[t]))

\* An initialisation command was not answered: the initiator is told and the
\* target asks the browser to close it.
OnInitializationFailed(t) ==
  /\ phase = "running" /\ t \in live
  /\ nextId < MaxCalls
  /\ Submit("InternalCommand", t, NoRequest)
  /\ initiator' = [initiator EXCEPT ![t] = NoRequest]
  /\ UNCHANGED <<phase, mailbox, pagebox, inbox, navVars, live, queued, watched, tabs>>
  /\ Conclude([r \in {initiator[t]} \ {NoRequest} |-> Fails("initfailed")])

-----------------------------------------------------------------------------
(* Third part: the websocket.                                              *)

Read == Head(inbox)

\* Mutant of OnResponse: responses are taken to come back in the order of the calls.
OnResponseInOrder(p) ==
  /\ phase = "running" /\ inbox # <<>>
  /\ Read.type = "response" /\ p \in pending /\ \A q \in pending : p.id <= q.id
  /\ inbox' = Tail(inbox)
  /\ pending' = pending \ {p}
  /\ UNCHANGED <<mailbox, tabs>>

\* The response of a call that pending_commands still knows, which it forgets.
OnResponse(p) ==
  /\ phase = "running" /\ inbox # <<>>
  /\ Read.type = "response" /\ p \in pending /\ p.id = Read.id
  /\ inbox' = Tail(inbox)
  /\ pending' = pending \ {p}
  /\ UNCHANGED <<mailbox, tabs>>

\* Mutant of OnTargetCreated: the navigations are rebuilt for the new targets alone.
OnTargetCreatedRebuilds(ts) ==
  /\ live' = live \cup ts
  /\ initiator' = [t \in Targets |-> IF t \in ts THEN NoRequest ELSE initiator[t]]
  /\ queued'    = [t \in ts |-> {}]
  /\ watched'   = [t \in ts |-> {}]
  /\ pagebox'   = [t \in Targets |-> IF t \in ts THEN <<>> ELSE pagebox[t]]

\* Target::new for each of `ts`, replacing a Target already registered with
\* that id and with it the channel of its page.
OnTargetCreated(ts) ==
  /\ live' = live \cup ts
  /\ initiator' = [t \in Targets |-> IF t \in ts THEN NoRequest ELSE initiator[t]]
  /\ queued'    = [t \in Targets |-> IF t \in ts THEN {} ELSE queued[t]]
  /\ watched'   = [t \in Targets |-> IF t \in ts THEN {} ELSE watched[t]]
  /\ pagebox'   = [t \in Targets |-> IF t \in ts THEN <<>> ELSE pagebox[t]]

OnCreateTargetResponse(p) ==
  /\ OnResponse(p) /\ p.kind = "CreateTarget"
  /\ UNCHANGED <<pagebox, nextId, calls, navVars, live, queued, watched>>
  /\ \/ /\ ~Read.ok
        /\ UNCHANGED <<phase, initiator>>
        /\ Tell(p.of, Fails("error"))
     \/ /\ Read.ok /\ Read.targets \subseteq live
        /\ initiator' = [t \in Targets |-> IF t \in Read.targets THEN p.of ELSE initiator[t]]
        /\ UNCHANGED phase
        /\ Conclude(Nobody)
     \/ /\ Read.ok /\ ~(Read.targets \subseteq live)     \* panic!("Created target not present")
        /\ phase' = "panicked"
        /\ UNCHANGED initiator
        /\ Conclude(Nobody)

\* Every target the browser lists is registered as if just created and attached
\* to; nobody waits for the responses of the attach calls.
OnGetTargetsResponse(p) ==
  /\ OnResponse(p) /\ p.kind = "GetTargets"
  /\ UNCHANGED <<phase, navVars>>
  /\ \/ /\ ~Read.ok
        /\ UNCHANGED <<pagebox, nextId, calls, targetVars>>
        /\ Tell(p.of, Fails("error"))
     \/ /\ Read.ok
        /\ OnTargetCreated(Read.targets)
        /\ nextId' = nextId + Cardinality(Read.targets)
        /\ calls' = calls \cup {[id |-> i, kind |-> "Untracked", req |-> NoRequest] :
                                  i \in nextId .. nextId' - 1}
        /\ Tell(p.of, AnswerOf(Read.req))

OnNavigationResponse(p) ==
  /\ OnResponse(p) /\ p.kind = "Navigate"
  /\ UNCHANGED <<phase, pagebox, nextId, calls, nextNav, targetVars>>
  /\ LET entry == {n \in navigations : n.id = p.of}
         done  == {n \in entry : n.navigated}
     IN /\ navigations' = (navigations \ entry)
                            \cup {[n EXCEPT !.response = Read.req] : n \in entry \ done}
        /\ Conclude([r \in {n.req : n \in done} |-> AnswerOf(Read.req)])

\* The raw response goes to the client, error responses included.
OnExternalResponse(p) ==
  /\ OnResponse(p) /\ p.kind = "ExternalCommand"
  /\ UNCHANGED <<phase, pagebox, nextId, calls, navVars, targetVars>>
  /\ Tell(p.of, AnswerOf(Read.req))

\* Target::on_response only moves the target's own initialisation on.
OnInternalResponse(p) ==
  /\ OnResponse(p) /\ p.kind = "InternalCommand"
  /\ UNCHANGED <<phase, pagebox, nextId, calls, navVars, targetVars, outcome>>

\* Whatever the browser answers, the handler is closing and its stream ends.
OnCloseResponse(p) ==
  /\ OnResponse(p) /\ p.kind = "CloseBrowser"
  /\ phase' = "closed"
  /\ UNCHANGED <<pagebox, nextId, calls, navVars, targetVars>>
  /\ Tell(p.of, AnswerOf(Read.req))

\* Expired, or an attach call nobody tracks.
OnUnknownResponse ==
  /\ phase = "running" /\ inbox # <<>> /\ Read.type = "response"
  /\ \A p \in pending : p.id # Read.id
  /\ inbox' = Tail(inbox)
  /\ UNCHANGED <<phase, mailbox, pagebox, callVars, navVars, targetVars, tabs,
                 outcome>>

\* Mutant of OnTargetCreatedEvent: the target is registered once it is attached.
OnTargetCreatedEventDefers ==
  /\ phase = "running" /\ inbox # <<>> /\ Read.type = "created"
  /\ inbox' = Tail(inbox)
  /\ UNCHANGED <<phase, mailbox, pagebox, callVars, navVars, targetVars, tabs, outcome>>

OnTargetCreatedEvent ==
  /\ phase = "running" /\ inbox # <<>> /\ Read.type = "created"
  /\ inbox' = Tail(inbox)
  /\ OnTargetCreated(Read.targets)
  /\ UNCHANGED <<phase, mailbox, callVars, navVars, tabs>>
  /\ Conclude(Nobody)

\* The Target is dropped with its initiator, its page's channel and its
\* FrameManager; the navigations it was asked for stay in `navigations`.
OnTargetDestroyed ==
  /\ phase = "running" /\ inbox # <<>> /\ Read.type = "destroyed"
  /\ inbox' = Tail(inbox)
  /\ live' = live \ Read.targets
  /\ initiator' = [t \in Targets |-> IF t \in Read.targets THEN NoRequest ELSE initiator[t]]
  /\ queued'    = [t \in Targets |-> IF t \in Read.targets THEN {} ELSE queued[t]]
  /\ watched'   = [t \in Targets |-> IF t \in Read.targets THEN {} ELSE watched[t]]
  /\ pagebox'   = [t \in Targets |-> IF t \in Read.targets THEN <<>> ELSE pagebox[t]]
  /\ UNCHANGED <<phase, mailbox, callVars, navVars, tabs>>
  /\ Conclude(Nobody)

\* poll_next returns the error to whoever polls the handler.
ConnectionFails ==
  /\ phase = "running" /\ inbox # <<>> /\ Read.type = "broken"
  /\ phase' = "failed"
  /\ UNCHANGED <<mailbox, pagebox, callVars, inbox, navVars, targetVars, tabs, outcome>>

-----------------------------------------------------------------------------
(* Fourth part: the eviction job, when it is due.                          *)

\* Mutant of EvictTimedOutCommands: only the entry goes, nobody is told.
EvictSilently(late) ==
  /\ phase = "running"
  /\ pending' = pending \ late
  /\ UNCHANGED <<phase, mailbox, pagebox, nextId, calls, inbox, navVars, targetVars, tabs>>
  /\ Conclude(Nobody)

\* `late` are the entries whose timestamp is older than the request timeout; they
\* all go.  A navigation is told through its own entry; a target is not told that
\* its command expired.
EvictTimedOutCommands(late) ==
  /\ phase = "running"
  /\ pending' = pending \ late
  /\ UNCHANGED <<phase, mailbox, pagebox, nextId, calls, inbox, nextNav, targetVars, tabs>>
  /\ LET navs    == {p.of : p \in {q \in late : q.kind = "Navigate"}}
         expired == {n \in navigations : n.id \in navs}
     IN /\ navigations' = navigations \ expired
        /\ Conclude([r \in {p.of : p \in {q \in late : q.kind \in SenderKinds}}
                             \cup {n.req : n \in expired} |-> Fails("timeout")])

\* Some users poll the handler again after an error, the README's loop ends.
PollAgain ==
  /\ phase = "failed" /\ phase' = "running"
  /\ UNCHANGED <<mailbox, pagebox, callVars, inbox, navVars, targetVars, tabs, outcome>>

\* The task that polls the handler ends and the handler is dropped.
DropHandler ==
  /\ phase \in {"closed", "failed"}
  /\ phase' = "dropped"
  /\ mailbox' = <<>> /\ pagebox' = [t \in Targets |-> <<>>]
  /\ pending' = {} /\ navigations' = {}
  /\ calls' = {} /\ inbox' = <<>>
  /\ live' = {} /\ initiator' = [t \in Targets |-> NoRequest]
  /\ queued' = [t \in Targets |-> {}] /\ watched' = [t \in Targets |-> {}]
  /\ UNCHANGED <<nextId, nextNav, tabs>>
  /\ Conclude(Nobody)

-----------------------------------------------------------------------------
Clients == \E r \in Requests :
  \/ \E kind \in Kinds : AskBrowser(r, kind) \/ \E t \in Targets : AskPage(r, kind, t)
  \/ Abandon(r)

Browser ==
  \/ \E call \in calls : (\E ok \in BOOLEAN : Respond(call, ok))
                           \/ \E t \in Targets : CreateTab(call, t)
  \/ \E t \in Targets : OpenTab(t) \/ CloseTab(t)
  \/ BreakConnection

PollMailbox == \/ SubmitExternalCommand \/ SubmitFetchTargets \/ SubmitClose
               \/ CreatePage \/ SendPages

PollTargets ==
  \E t \in Targets :
    \/ OnTargetMessage(t) \/ SubmitInternalCommand(t)
    \/ \E e \in queued[t] : SubmitNavigation(t, e)
    \/ \E e \in watched[t], ok \in BOOLEAN : OnNavigationLifecycleCompleted(t, e, ok)
    \/ SendPageToInitiator(t) \/ OnInitializationFailed(t)

PollSocket ==
  \/ \E p \in pending :
       \/ OnCreateTargetResponse(p) \/ OnGetTargetsResponse(p) \/ OnNavigationResponse(p)
       \/ OnExternalResponse(p) \/ OnInternalResponse(p) \/ OnCloseResponse(p)
  \/ OnUnknownResponse \/ OnTargetCreatedEvent \/ OnTargetDestroyed
  \/ ConnectionFails

Evict == \E late \in SUBSET pending : late # {} /\ EvictTimedOutCommands(late)

Next == \/ Clients \/ Browser
        \/ PollMailbox \/ PollTargets \/ PollSocket \/ Evict
        \/ PollAgain \/ DropHandler

Spec == Init /\ [][Next]_vars

-----------------------------------------------------------------------------
(* Properties.                                                             *)

PendingEntries ==
  [id : Nat, kind : PendingKinds, of : Requests \cup Targets \cup Nat]
CallRecords == [id : Nat, kind : PendingKinds \cup {"Untracked"},
                req : Requests \cup {NoRequest}]
Messages == [type : {"response", "created", "destroyed", "broken"}, id : Nat,
             ok : BOOLEAN, req : Requests \cup {NoRequest}, targets : SUBSET Targets]
Asks(kinds) == [kind : kinds, req : Requests]
QueuedNavigations == [nav : Nat, req : Requests]

\* Every variable has its type.
TypeOK ==
  /\ phase \in Phases
  /\ mailbox \in Seq(Asks(BrowserKinds))
  /\ pagebox \in [Targets -> Seq(Asks(PageKinds))]
  /\ pending \subseteq PendingEntries /\ nextId \in Nat
  /\ calls \subseteq CallRecords
  /\ inbox \in Seq(Messages)
  /\ navigations \subseteq [id : Nat, req : Requests, navigated : BOOLEAN,
                            response : Requests \cup {NoRequest}]
  /\ nextNav \in Nat
  /\ live \subseteq Targets /\ initiator \in [Targets -> Requests \cup {NoRequest}]
  /\ queued \in [Targets -> SUBSET QueuedNavigations]
  /\ watched \in [Targets -> SUBSET QueuedNavigations]
  /\ tabs \in [Targets -> {"unborn", "open", "closed"}]
  /\ outcome \in [Requests -> Outcomes]

\* A client is given the response to its own call, never another one's.
OwnAnswer == \A r \in Requests : outcome[r].status = "answered" => outcome[r].from = r

\* The `panic!("Created target not present")` of on_response is unreachable as
\* long as the browser announces a target before it returns its id.
NoPanic == phase # "panicked"

IsCanceled(r) == IsWaiting(r) /\ outcome'[r].status = "canceled"
HeldBy(t) == {initiator[t]} \cup {m.req : m \in Range(pagebox[t])}

\* A call is dropped without an answer only when the handler is dropped, or when
\* the Target that holds its sender is destroyed or registered anew.
CanceledOnlyByLoss ==
  [][\A r \in Requests : IsCanceled(r) =>
       \/ phase' = "dropped"
       \/ inbox # <<>> /\ \E t \in Read.targets : phase = "running" /\ r \in HeldBy(t)]_vars

\* A stricter reading, for clients of tabs that stay open.
CanceledOnlyWithHandler ==
  [][\A r \in Requests : IsCanceled(r) => phase' = "dropped"]_vars

\* Each call has at most one outcome, and an answer is its own.
Promise == INSTANCE Rpc WITH Requests <- Requests, NoRequest <- NoRequest, outcome <- outcome
ImplementsRpc == Promise!Spec
=============================================================================
