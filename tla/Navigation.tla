----------------------------- MODULE Navigation -----------------------------
(***************************************************************************)
(* Navigating one page: Page::goto and Page::wait_for_navigation, followed *)
(* through the page's channel, the FrameManager's queue and watcher        *)
(* (src/src/handler/frame.rs), Target::poll (src/src/handler/target.rs)    *)
(* and the Handler's `navigations` and pending Navigate calls              *)
(* (src/src/handler/mod.rs), against a browser that loads documents.       *)
(*                                                                         *)
(* A document is the number of its loader; the page shows document 0 at    *)
(* first.  A navigation's id is the goto it belongs to (module Handler     *)
(* shows that ids are not mixed up).  Only the main frame is modelled.     *)
(* Deadlines pass at any time when Timeouts is set.                        *)
(***************************************************************************)
EXTENDS Naturals, Sequences, Functions

CONSTANTS
  Gotos,       \* calls of Page::goto, numbered in the order they are made
  Waits,       \* calls of Page::wait_for_navigation
  Nobody,      \* no call: a navigation the page starts on its own
  PageActs,    \* the page may navigate on its own, while no goto is under way
  Timeouts,    \* deadlines may pass
  Losses,      \* the main frame may be detached, the browser may not answer
  MaxDocs      \* bound: documents the browser loads

Calls == Gotos \cup Waits

ASSUME NavigationAssumption ==
  /\ Nobody \notin Calls /\ Gotos \cap Waits = {} /\ Gotos \subseteq Nat
  /\ PageActs \in BOOLEAN /\ Timeouts \in BOOLEAN /\ Losses \in BOOLEAN
  /\ MaxDocs \in Nat

VARIABLES
  outcome,     \* per call: what the client has seen
  channel,     \* PageHandle::rx
  progress,    \* per goto: its entry in Handler::navigations
  pending,     \* the gotos with a Navigate entry in pending_commands
  queue,       \* FrameManager::pending_navigations
  current,     \* FrameManager::navigation
  frame,       \* the main frame: present, loader_id, whether "load" was received
  waiters,     \* Target::wait_for_frame_navigation
  wire,        \* Page.navigate calls on their way to the browser
  inbox,       \* messages on their way to the handler
  doc,         \* the browser's latest navigation
  unanswered,  \* Page.navigate calls the browser has not answered
  goal,        \* per call: the document it is about, once that is known
  newest,      \* the latest document that has finished loading in the browser
  alone        \* no navigation has begun while another one was unfinished

handlerVars == <<progress, pending>>
frameVars   == <<queue, current, frame, waiters>>
browserVars == <<wire, doc, unanswered, newest>>
ghosts      == <<goal, alone>>
vars == <<outcome, channel, handlerVars, frameVars, inbox, browserVars, ghosts>>

-----------------------------------------------------------------------------
Unknown == MaxDocs + 1                       \* no document is that new
NoWatcher == [req |-> Nobody, loader |-> 0, same |-> FALSE]
Idle == current.req = Nobody

Event(type, n) == [type |-> type, req |-> Nobody, loader |-> n]
ResponseTo(r)  == [type |-> "response", req |-> r, loader |-> 0]

Conclude(S, verdict) ==
  outcome' = [c \in Calls |-> IF c \in S /\ outcome[c] = "waiting" THEN verdict
                              ELSE outcome[c]]

Init ==
  /\ outcome = [c \in Calls |-> "idle"]
  /\ channel = <<>>
  /\ progress = [r \in Gotos |-> "none"] /\ pending = {}
  /\ queue = <<>> /\ current = NoWatcher
  /\ frame = [present |-> TRUE, loader |-> 0, loaded |-> TRUE]
  /\ waiters = {}
  /\ wire = <<>> /\ inbox = <<>>
  /\ doc = [loader |-> 0, stage |-> "loaded"]
  /\ unanswered = {}
  /\ goal = [c \in Calls |-> Unknown]
  /\ newest = 0 /\ alone = TRUE

-----------------------------------------------------------------------------
(* Clients.                                                                *)

NoGotoWaits == \A r \in Gotos : outcome[r] # "waiting"

\* Nothing navigates the page, and the handler has read of all that did.
Settled ==
  /\ doc.stage = "loaded" /\ wire = <<>> /\ unanswered = {} /\ inbox = <<>>
  /\ NoGotoWaits

Goto(r) ==
  /\ outcome[r] = "idle" /\ \A q \in Gotos : q < r => outcome[q] # "idle"
  /\ alone' = (alone /\ Settled)
  /\ outcome' = [outcome EXCEPT ![r] = "waiting"]
  /\ channel' = Append(channel, r)
  /\ UNCHANGED <<handlerVars, frameVars, inbox, browserVars, goal>>

\* wait_for_navigation is called after an interaction that navigates the page: if
\* the page is navigating, that is the document the client wants to see.
WaitForNavigation(w) ==
  /\ outcome[w] = "idle"
  /\ outcome' = [outcome EXCEPT ![w] = "waiting"]
  /\ channel' = Append(channel, w)
  /\ goal' = [goal EXCEPT ![w] = doc.loader]
  /\ UNCHANGED <<handlerVars, frameVars, inbox, browserVars, alone>>

-----------------------------------------------------------------------------
(* The browser (external).  Every message about the page travels on one     *)
(* session, in order.                                                      *)

Begin ==
  /\ doc.loader < MaxDocs
  /\ doc' = [loader |-> doc.loader + 1, stage |-> "started"]
  /\ inbox' = Append(inbox, Event("startedLoading", doc.loader + 1))
  /\ UNCHANGED <<outcome, channel, handlerVars, frameVars, newest>>

\* Page.navigate begins to load a new document, and ends the load in progress.
BrowserNavigates ==
  /\ wire # <<>>
  /\ Begin
  /\ wire' = Tail(wire) /\ unanswered' = unanswered \cup {Head(wire)}
  /\ goal' = [goal EXCEPT ![Head(wire)] = doc.loader + 1] /\ UNCHANGED alone

\* Page.navigate goes to an anchor of the document shown.
BrowserNavigatesWithin ==
  /\ wire # <<>> /\ doc.stage = "loaded"
  /\ wire' = Tail(wire) /\ unanswered' = unanswered \cup {Head(wire)}
  /\ goal' = [goal EXCEPT ![Head(wire)] = doc.loader]
  /\ inbox' = Append(inbox, Event("withinDocument", doc.loader))
  /\ UNCHANGED <<outcome, channel, handlerVars, frameVars, doc, newest, alone>>

\* Page.navigate is refused: a response with an error text, and no document.
BrowserRefuses ==
  /\ wire # <<>> /\ Losses
  /\ wire' = Tail(wire) /\ unanswered' = unanswered \cup {Head(wire)}
  /\ UNCHANGED <<outcome, channel, handlerVars, frameVars, inbox, doc, newest, ghosts>>

\* A click, a script: the page navigates on its own.
PageNavigates ==
  /\ PageActs /\ Settled
  /\ Begin
  /\ UNCHANGED <<wire, unanswered, ghosts>>

BrowserCommits ==
  /\ doc.stage = "started"
  /\ doc' = [doc EXCEPT !.stage = "committed"]
  /\ inbox' = Append(inbox, Event("init", doc.loader))
  /\ UNCHANGED <<outcome, channel, handlerVars, frameVars, wire, unanswered, newest, ghosts>>

BrowserLoads ==
  /\ doc.stage = "committed"
  /\ doc' = [doc EXCEPT !.stage = "loaded"]
  /\ newest' = doc.loader
  /\ inbox' = Append(inbox, Event("load", doc.loader))
  /\ UNCHANGED <<outcome, channel, handlerVars, frameVars, wire, unanswered, ghosts>>

BrowserResponds(r) ==
  /\ r \in unanswered
  /\ unanswered' = unanswered \ {r}
  /\ inbox' = Append(inbox, ResponseTo(r))
  /\ UNCHANGED <<outcome, channel, handlerVars, frameVars, wire, doc, newest, ghosts>>

-----------------------------------------------------------------------------
(* Target::poll: the page's channel, the waiters, the FrameManager.         *)

\* navigate_frame: the watcher remembers the document shown when the goto is queued.
QueueNavigation(r) ==
  queue' = Append(queue, [req |-> r, loader |-> frame.loader, same |-> FALSE])

\* on_target_message: the goto gets an entry and a place in the queue.
OnGoto ==
  /\ channel # <<>> /\ Head(channel) \in Gotos
  /\ channel' = Tail(channel)
  /\ progress' = [progress EXCEPT ![Head(channel)] = "asked"]
  /\ QueueNavigation(Head(channel))
  /\ UNCHANGED <<outcome, pending, current, frame, waiters, inbox, browserVars, ghosts>>

MainFrameLoaded == frame.present /\ frame.loaded

\* Answered at once when the main frame is loaded.
OnWaitForNavigation ==
  /\ channel # <<>> /\ Head(channel) \in Waits
  /\ channel' = Tail(channel)
  /\ IF MainFrameLoaded
     THEN Conclude({Head(channel)}, "answered") /\ UNCHANGED waiters
     ELSE waiters' = waiters \cup {Head(channel)} /\ UNCHANGED outcome
  /\ UNCHANGED <<handlerVars, queue, current, frame, inbox, browserVars, ghosts>>

AnswerWaiters ==
  /\ waiters # {} /\ MainFrameLoaded
  /\ Conclude(waiters, "answered")
  /\ waiters' = {}
  /\ UNCHANGED <<channel, handlerVars, queue, current, frame, inbox, browserVars, ghosts>>

\* Mutant of Watched: the next navigation does not wait for the one under way.
WatchedEagerly == queue # <<>>

Watched == Idle /\ queue # <<>>

\* FrameManager::poll takes the next navigation, the handler submits the call.
IssueNavigation ==
  /\ Watched
  /\ current' = Head(queue) /\ queue' = Tail(queue)
  /\ pending' = pending \cup {Head(queue).req}
  /\ wire' = Append(wire, Head(queue).req)
  /\ UNCHANGED <<outcome, channel, progress, frame, waiters, inbox, doc, unanswered, newest,
                 ghosts>>

\* check_lifecycle_complete, for a watcher that expects "load".
LifecycleComplete ==
  /\ frame.present /\ frame.loaded
  /\ current.same \/ frame.loader # current.loader

\* on_navigation_lifecycle_completed.
OnNavigationResult(verdict) ==
  LET r == current.req IN
  /\ current' = NoWatcher
  /\ CASE progress[r] = "none" -> UNCHANGED <<progress, outcome>>
       [] progress[r] # "none" /\ verdict = "timeout" ->
            progress' = [progress EXCEPT ![r] = "none"] /\ Conclude({r}, "timeout")
       [] progress[r] = "responded" /\ verdict = "answered" ->
            progress' = [progress EXCEPT ![r] = "none"] /\ Conclude({r}, "answered")
       [] OTHER -> progress' = [progress EXCEPT ![r] = "navigated"] /\ UNCHANGED outcome
  /\ UNCHANGED <<channel, pending, queue, frame, waiters, inbox, browserVars, ghosts>>

NavigationCompletes == ~Idle /\ LifecycleComplete /\ OnNavigationResult("answered")

\* The frame is gone, or the deadline of the navigation has passed.
NavigationFails ==
  /\ ~Idle
  /\ ~frame.present \/ Timeouts
  /\ OnNavigationResult("timeout")

-----------------------------------------------------------------------------
(* The handler: responses and events from the socket, eviction.             *)

Read == Head(inbox)

\* Mutant of OnNavigationResponse: the response alone completes the goto.
OnNavigationResponseAtOnce ==
  /\ inbox # <<>> /\ Read.type = "response"
  /\ inbox' = Tail(inbox)
  /\ pending' = pending \ {Read.req}
  /\ progress' = [progress EXCEPT ![Read.req] = "none"]
  /\ Conclude({Read.req} \cap pending, "answered")
  /\ UNCHANGED <<channel, frameVars, browserVars, ghosts>>

\* Mutant of OnNavigationResponse: a load that came first is overlooked.
OnNavigationResponseWaits ==
  /\ inbox # <<>> /\ Read.type = "response"
  /\ inbox' = Tail(inbox)
  /\ pending' = pending \ {Read.req}
  /\ progress' = IF Read.req \in pending /\ progress[Read.req] # "none"
                 THEN [progress EXCEPT ![Read.req] = "responded"] ELSE progress
  /\ UNCHANGED <<outcome, channel, frameVars, browserVars, ghosts>>

OnNavigationResponse ==
  /\ inbox # <<>> /\ Read.type = "response"
  /\ inbox' = Tail(inbox)
  /\ pending' = pending \ {Read.req}
  /\ LET r == Read.req IN
     CASE r \in pending /\ progress[r] = "asked" ->
            progress' = [progress EXCEPT ![r] = "responded"] /\ UNCHANGED outcome
       [] r \in pending /\ progress[r] = "navigated" ->
            progress' = [progress EXCEPT ![r] = "none"] /\ Conclude({r}, "answered")
       [] OTHER -> UNCHANGED <<progress, outcome>>
  /\ UNCHANGED <<channel, frameVars, browserVars, ghosts>>

Evict(r) ==
  /\ Timeouts /\ r \in pending
  /\ pending' = pending \ {r}
  /\ progress' = [progress EXCEPT ![r] = "none"]
  /\ IF progress[r] # "none" THEN Conclude({r}, "timeout") ELSE UNCHANGED outcome
  /\ UNCHANGED <<channel, frameVars, inbox, browserVars, ghosts>>

OnFrameEvent(type) ==
  /\ inbox # <<>> /\ Read.type = type
  /\ inbox' = Tail(inbox)
  /\ UNCHANGED <<outcome, channel, handlerVars, queue, waiters, browserVars, ghosts>>

OnFrameStartedLoading ==
  /\ OnFrameEvent("startedLoading")
  /\ frame' = [frame EXCEPT !.loaded = FALSE]
  /\ UNCHANGED current

\* on_page_lifecycle_event: "init" begins a document, "load" completes it.
OnInit ==
  /\ OnFrameEvent("init")
  /\ frame' = [frame EXCEPT !.loader = Read.loader, !.loaded = FALSE]
  /\ UNCHANGED current

\* Mutant of OnLoad: loads nobody asked for are ignored.
OnLoadIfWatched ==
  /\ OnFrameEvent("load")
  /\ frame' = [frame EXCEPT !.loaded = frame.loaded \/ ~Idle]
  /\ UNCHANGED current

OnLoad ==
  /\ OnFrameEvent("load")
  /\ frame' = [frame EXCEPT !.loaded = TRUE]
  /\ UNCHANGED current

\* Mutant of OnNavigatedWithinDocument: it marks the watcher even if there is none.
OnNavigatedWithinAlways ==
  /\ OnFrameEvent("withinDocument")
  /\ current' = [current EXCEPT !.same = TRUE]
  /\ UNCHANGED frame

OnNavigatedWithinDocument ==
  /\ OnFrameEvent("withinDocument")
  /\ current' = IF Idle THEN current ELSE [current EXCEPT !.same = TRUE]
  /\ UNCHANGED frame

\* The main frame is detached, as happens when the page moves to another process.
\* The event is read as soon as it is sent; what the browser did in between would
\* be read after it anyway.
OnFrameDetached ==
  /\ Losses /\ frame.present /\ inbox = <<>>
  /\ frame' = [frame EXCEPT !.present = FALSE, !.loaded = FALSE]
  /\ UNCHANGED <<outcome, channel, handlerVars, queue, current, waiters, inbox, browserVars,
                 ghosts>>

-----------------------------------------------------------------------------
Clients == (\E r \in Gotos : Goto(r)) \/ (\E w \in Waits : WaitForNavigation(w))

Browser == \/ BrowserNavigates \/ BrowserNavigatesWithin \/ BrowserRefuses
           \/ PageNavigates \/ BrowserCommits \/ BrowserLoads
           \/ \E r \in Gotos : BrowserResponds(r)

ReadSocket == \/ OnNavigationResponse \/ OnFrameStartedLoading \/ OnInit \/ OnLoad
              \/ OnNavigatedWithinDocument

ReadChannel == OnGoto \/ OnWaitForNavigation

\* Target::poll, the socket and the eviction.
HandlerStep == \/ ReadChannel \/ ReadSocket \/ AnswerWaiters \/ IssueNavigation
               \/ NavigationCompletes \/ NavigationFails \/ \E r \in Gotos : Evict(r)

Next == Clients \/ Browser \/ OnFrameDetached \/ HandlerStep

\* The handler is polled again and again, and deadlines that may pass do pass.
\* Nothing is assumed of the browser.
Fairness == WF_vars(HandlerStep)
Spec == Init /\ [][Next]_vars
FairSpec == Spec /\ Fairness

-----------------------------------------------------------------------------
Watchers == [req : Gotos \cup {Nobody}, loader : 0 .. Unknown, same : BOOLEAN]

\* Every variable has its type; there is a watcher only for a goto.
TypeOK ==
  /\ outcome \in [Calls -> {"idle", "waiting", "answered", "timeout"}]
  /\ channel \in Seq(Calls)
  /\ progress \in [Gotos -> {"none", "asked", "responded", "navigated"}]
  /\ pending \subseteq Gotos
  /\ queue \in Seq(Watchers) /\ current \in Watchers /\ (Idle => current = NoWatcher)
  /\ frame \in [present : BOOLEAN, loader : 0 .. MaxDocs, loaded : BOOLEAN]
  /\ waiters \subseteq Waits
  /\ wire \in Seq(Gotos)
  /\ inbox \in Seq([type : {"response", "startedLoading", "init", "load", "withinDocument"},
                    req : Gotos \cup {Nobody}, loader : 0 .. MaxDocs])
  /\ doc \in [loader : 0 .. MaxDocs, stage : {"started", "committed", "loaded"}]
  /\ unanswered \subseteq Gotos
  /\ goal \in [Calls -> 0 .. Unknown] /\ newest \in 0 .. MaxDocs /\ alone \in BOOLEAN

\* A goto is answered only when the document it asked for, or a later one, has
\* finished loading in the browser (Page::goto: "resolves directly after the
\* requested URL is fully loaded").
AnsweredAfterLoad ==
  \A r \in Gotos : outcome[r] = "answered" => newest >= goal[r]

\* That holds of navigations that are not concurrent: as long as none begins, by a
\* goto or by the page itself, while another one is unfinished.
LoneAnsweredAfterLoad == alone => AnsweredAfterLoad

\* A wait_for_navigation asked while the page navigates is answered only when the
\* new document has loaded ("resolves once the navigation finished").
WaitSeesNewPage ==
  \A w \in Waits : outcome[w] = "answered" => newest >= goal[w]

\* One navigation of a page at a time is under way: a Page.navigate call that has
\* not reached the browser is the one being watched, or was given up.
OneNavigationAtATime ==
  \A i \in 1 .. Len(wire) :
    outcome[wire[i]] = "waiting" => wire[i] = current.req \/ progress[wire[i]] = "navigated"

\* A wait ends, as long as the main frame stays and the page has finished loading
\* again and again (a page that loads forever keeps its waiters).
EveryWaitConcludes ==
  [](frame.present) /\ []<>(doc.stage = "loaded") =>
    \A w \in Waits : outcome[w] = "waiting" ~> outcome[w] = "answered"

\* Every goto is answered or fails, whatever the browser does, as long as the
\* handler is polled: they are finitely many, so in the end none waits.
EveryGotoConcludes == <>[]NoGotoWaits
=============================================================================
