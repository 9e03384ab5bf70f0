-------------------------- MODULE NavigationProof --------------------------
(***************************************************************************)
(* What is proved of module Navigation, for every number of gotos, waits   *)
(* and documents, with and without timeouts and losses.                    *)
(***************************************************************************)
EXTENDS Navigation, TLAPS

Kinds == {"response", "startedLoading", "init", "load", "withinDocument"}
Messages == [type : Kinds, req : Gotos \cup {Nobody}, loader : 0 .. MaxDocs]

QueueHolds == \A i \in 1 .. Len(queue) : queue[i].req \in Gotos

\* What the initial state and the constants give every proof.
LEMMA ConstantFacts ==
  /\ MaxDocs \in Nat /\ Unknown = MaxDocs + 1 /\ Unknown \in 0 .. Unknown
  /\ Nobody \notin Gotos /\ Gotos \cap Waits = {}
  /\ 0 \in 0 .. MaxDocs /\ \A n \in 0 .. MaxDocs : n \in 0 .. Unknown /\ n \in Nat
  /\ NoWatcher \in Watchers /\ NoWatcher.req = Nobody
BY NavigationAssumption DEF Unknown, NoWatcher, Watchers, Calls

LEMMA TypeInit == Init => TypeOK
BY ConstantFacts DEF Init, TypeOK, Idle, Watchers

LEMMA ConcludeFacts ==
  ASSUME TypeOK, NEW S, NEW v \in {"answered", "timeout"}, Conclude(S, v)
  PROVE  /\ outcome' \in [Calls -> {"idle", "waiting", "answered", "timeout"}]
         /\ \A c \in Calls : outcome'[c] = IF c \in S /\ outcome[c] = "waiting" THEN v
                                           ELSE outcome[c]
BY DEF TypeOK, Conclude

\* What taking the first message, and the first watcher of the queue, leaves.
LEMMA ReadFacts ==
  ASSUME TypeOK, inbox # <<>>
  PROVE  /\ Read = inbox[1] /\ Read \in Messages /\ Len(inbox) \in Nat \ {0}
         /\ Tail(inbox) \in Seq(Messages) /\ Len(Tail(inbox)) = Len(inbox) - 1
         /\ \A i \in 1 .. Len(Tail(inbox)) : /\ Tail(inbox)[i] = inbox[i + 1]
                                           /\ i + 1 \in 1 .. Len(inbox)
<1>1. inbox \in Seq(Messages)
      BY DEF TypeOK, Messages, Kinds
<1> QED
    BY <1>1 DEF Read

LEMMA QueueFacts ==
  ASSUME TypeOK, queue # <<>>
  PROVE  /\ Head(queue) = queue[1] /\ Head(queue) \in Watchers /\ Len(queue) \in Nat \ {0}
         /\ Tail(queue) \in Seq(Watchers) /\ Len(Tail(queue)) = Len(queue) - 1
         /\ \A i \in 1 .. Len(Tail(queue)) : /\ Tail(queue)[i] = queue[i + 1]
                                           /\ i + 1 \in 1 .. Len(queue)
BY DEF TypeOK

LEMMA TypeStep == TypeOK /\ QueueHolds /\ [Next]_vars => TypeOK'
<1> SUFFICES ASSUME TypeOK, QueueHolds, [Next]_vars PROVE TypeOK'
    OBVIOUS
<1> USE ConstantFacts
<1>1. ASSUME NEW r \in Gotos, Goto(r) PROVE TypeOK'
      BY <1>1 DEF Goto, TypeOK, Calls, handlerVars, frameVars, browserVars, Idle
<1>2. ASSUME NEW w \in Waits, WaitForNavigation(w) PROVE TypeOK'
      BY <1>2 DEF WaitForNavigation, TypeOK, Calls, handlerVars, frameVars, browserVars, Idle
<1>3. ASSUME BrowserNavigates PROVE TypeOK'
      BY <1>3 DEF BrowserNavigates, Begin, Event, TypeOK, Calls, handlerVars, frameVars, Idle
<1>4. ASSUME BrowserNavigatesWithin PROVE TypeOK'
      BY <1>4 DEF BrowserNavigatesWithin, Event, TypeOK, Calls, handlerVars, frameVars, Idle
<1>5. ASSUME BrowserRefuses PROVE TypeOK'
      BY <1>5 DEF BrowserRefuses, TypeOK, handlerVars, frameVars, ghosts, Idle
<1>6. ASSUME PageNavigates PROVE TypeOK'
      BY <1>6 DEF PageNavigates, Begin, Event, TypeOK, handlerVars, frameVars, ghosts, Idle
<1>7a. ASSUME BrowserCommits PROVE TypeOK'
  <2>1. /\ doc' \in [loader : 0 .. MaxDocs, stage : {"started", "committed", "loaded"}]
        /\ Event("init", doc.loader) \in Messages
        BY <1>7a DEF BrowserCommits, Event, TypeOK, Messages, Kinds
  <2>2. inbox' \in Seq(Messages)
        BY <1>7a, <2>1 DEF BrowserCommits, TypeOK, Messages, Kinds
  <2> QED
      BY <1>7a, <2>1, <2>2 DEF BrowserCommits, TypeOK, handlerVars, frameVars, ghosts, Idle,
         Messages, Kinds
<1>7b. ASSUME BrowserLoads PROVE TypeOK'
  <2>1. /\ doc' \in [loader : 0 .. MaxDocs, stage : {"started", "committed", "loaded"}]
        /\ Event("load", doc.loader) \in Messages /\ newest' \in 0 .. MaxDocs
        BY <1>7b DEF BrowserLoads, Event, TypeOK, Messages, Kinds
  <2>2. inbox' \in Seq(Messages)
        BY <1>7b, <2>1 DEF BrowserLoads, TypeOK, Messages, Kinds
  <2> QED
      BY <1>7b, <2>1, <2>2 DEF BrowserLoads, TypeOK, handlerVars, frameVars, ghosts, Idle,
         Messages, Kinds
<1>8. ASSUME NEW r \in Gotos, BrowserResponds(r) PROVE TypeOK'
      BY <1>8 DEF BrowserResponds, ResponseTo, TypeOK, handlerVars, frameVars, ghosts, Idle
<1>9. ASSUME OnGoto PROVE TypeOK'
  <2>1. [req |-> Head(channel), loader |-> frame.loader, same |-> FALSE] \in Watchers
        BY <1>9 DEF OnGoto, TypeOK, Watchers
  <2>2. queue' \in Seq(Watchers)
        BY <1>9, <2>1 DEF OnGoto, QueueNavigation, TypeOK
  <2> QED
      BY <1>9, <2>2 DEF OnGoto, TypeOK, browserVars, ghosts, Idle
<1>10. ASSUME OnWaitForNavigation PROVE TypeOK'
      BY <1>10, ConcludeFacts DEF OnWaitForNavigation, TypeOK, handlerVars, browserVars, ghosts, Idle
<1>11. ASSUME AnswerWaiters PROVE TypeOK'
      BY <1>11, ConcludeFacts DEF AnswerWaiters, TypeOK, handlerVars, browserVars, ghosts, Idle
<1>12. ASSUME IssueNavigation PROVE TypeOK'
  <2>1. Head(queue) \in Watchers /\ Tail(queue) \in Seq(Watchers) /\ Head(queue).req \in Gotos
        BY <1>12, QueueFacts DEF IssueNavigation, Watched, QueueHolds
  <2> QED
      BY <1>12, <2>1 DEF IssueNavigation, TypeOK, ghosts, Idle
<1>13. ASSUME NEW v \in {"answered", "timeout"}, ~Idle, OnNavigationResult(v) PROVE TypeOK'
  <2>1. current.req \in Gotos
        BY <1>13 DEF TypeOK, Idle, Watchers
  <2>2. /\ progress' \in [Gotos -> {"none", "asked", "responded", "navigated"}]
        /\ outcome' \in [Calls -> {"idle", "waiting", "answered", "timeout"}]
    <3>1. ASSUME NEW s \in {"none", "asked", "responded", "navigated"}
          PROVE  [progress EXCEPT ![current.req] = s]
                   \in [Gotos -> {"none", "asked", "responded", "navigated"}]
          BY <2>1 DEF TypeOK
    <3>2. \/ UNCHANGED outcome
          \/ Conclude({current.req}, "timeout")
          \/ Conclude({current.req}, "answered")
          BY <1>13 DEF OnNavigationResult
    <3>3. \/ UNCHANGED progress
          \/ \E s \in {"none", "navigated"} : progress' = [progress EXCEPT ![current.req] = s]
          BY <1>13 DEF OnNavigationResult
    <3>4. progress' \in [Gotos -> {"none", "asked", "responded", "navigated"}]
          BY <3>1, <3>3 DEF TypeOK
    <3>5. CASE UNCHANGED outcome
          BY <3>4, <3>5 DEF TypeOK
    <3> QED
        BY <3>2, <3>4, <3>5, ConcludeFacts
  <2>3. current' \in Watchers /\ current' = NoWatcher
        BY <1>13 DEF OnNavigationResult
  <2> QED
      BY <1>13, <2>2, <2>3 DEF OnNavigationResult, TypeOK, browserVars, ghosts, Idle
<1>14. ASSUME OnNavigationResponse PROVE TypeOK'
  <2>1. Tail(inbox) \in Seq(Messages)
        BY <1>14, ReadFacts DEF OnNavigationResponse
  <2>2. /\ progress' \in [Gotos -> {"none", "asked", "responded", "navigated"}]
        /\ outcome' \in [Calls -> {"idle", "waiting", "answered", "timeout"}]
    <3>1. \/ UNCHANGED outcome \/ Conclude({Read.req}, "answered")
          BY <1>14 DEF OnNavigationResponse
    <3>2. \/ UNCHANGED progress
          \/ /\ Read.req \in Gotos
             /\ \E s \in {"none", "responded"} : progress' = [progress EXCEPT ![Read.req] = s]
          BY <1>14 DEF OnNavigationResponse, TypeOK
    <3>3. progress' \in [Gotos -> {"none", "asked", "responded", "navigated"}]
          BY <3>2 DEF TypeOK
    <3>4. CASE UNCHANGED outcome
          BY <3>3, <3>4 DEF TypeOK
    <3> QED
        BY <3>1, <3>3, <3>4, ConcludeFacts
  <2> QED
      BY <1>14, <2>1, <2>2 DEF OnNavigationResponse, TypeOK, frameVars, browserVars, ghosts, Idle,
         Messages, Kinds
<1>15. ASSUME NEW r \in Gotos, Evict(r) PROVE TypeOK'
      BY <1>15, ConcludeFacts DEF Evict, TypeOK, frameVars, browserVars, ghosts, Idle
<1>16. ASSUME OnFrameStartedLoading \/ OnInit \/ OnLoad PROVE TypeOK'
  <2>1. Tail(inbox) \in Seq(Messages) /\ Read.loader \in 0 .. MaxDocs
        BY <1>16, ReadFacts DEF OnFrameStartedLoading, OnInit, OnLoad, OnFrameEvent, Messages
  <2>2. \E n \in 0 .. MaxDocs, b \in BOOLEAN :
          frame' = [frame EXCEPT !.loader = n, !.loaded = b]
        <3>1. frame = [frame EXCEPT !.loader = frame.loader] /\ frame.loader \in 0 .. MaxDocs
              BY DEF TypeOK
        <3> QED BY <1>16, <2>1, <3>1 DEF OnFrameStartedLoading, OnInit, OnLoad, TypeOK
  <2>3. frame' \in [present : BOOLEAN, loader : 0 .. MaxDocs, loaded : BOOLEAN]
        BY <2>2 DEF TypeOK
  <2>4. inbox' = Tail(inbox) /\ UNCHANGED <<outcome, channel, progress, pending, queue, current,
           waiters, wire, doc, unanswered, newest, goal, alone>>
        BY <1>16 DEF OnFrameStartedLoading, OnInit, OnLoad, OnFrameEvent,
         handlerVars, browserVars, ghosts
  <2> QED
      BY <2>1, <2>3, <2>4 DEF TypeOK, Idle, Messages, Kinds
<1>17. ASSUME OnNavigatedWithinDocument PROVE TypeOK'
  <2>1. Tail(inbox) \in Seq(Messages)
        BY <1>17, ReadFacts DEF OnNavigatedWithinDocument, OnFrameEvent
  <2>2. current' \in Watchers /\ (Idle' => current' = NoWatcher)
        BY <1>17 DEF OnNavigatedWithinDocument, TypeOK, Idle, Watchers
  <2> QED
      BY <1>17, <2>1, <2>2 DEF OnNavigatedWithinDocument, OnFrameEvent, TypeOK,
         handlerVars, browserVars, ghosts, Messages, Kinds
<1>18. ASSUME OnFrameDetached PROVE TypeOK'
      BY <1>18 DEF OnFrameDetached, TypeOK, handlerVars, browserVars, ghosts, Idle
<1>19. ASSUME UNCHANGED vars PROVE TypeOK'
      BY <1>19 DEF vars, TypeOK, handlerVars, frameVars, browserVars, ghosts, Idle
<1> QED
    BY <1>1, <1>2, <1>3, <1>4, <1>5, <1>6, <1>7a, <1>7b, <1>8, <1>9, <1>10, <1>11, <1>12, <1>13, <1>14,
       <1>15, <1>16, <1>17, <1>18, <1>19
    DEF Next, Clients, Browser, HandlerStep, ReadChannel, ReadSocket, NavigationCompletes,
        NavigationFails

-----------------------------------------------------------------------------
(* How a step changes one goto, the channel, the queue and the wire.        *)

Holds(s, x) == \E i \in 1 .. Len(s) : s[i] = x

\* The goto has not left the FrameManager's queue.
Unissued(r) == ~Holds(wire, r) /\ r \notin pending /\ r # current.req /\ goal[r] = Unknown

\* The same in the state after the step.
UnissuedNext(r) ==
  ~Holds(wire', r) /\ r \notin pending' /\ r # current'.req /\ goal'[r] = Unknown

Verdicts == {"answered", "timeout"}

\* The page's load, seen by the watcher, or an earlier report of it answers a goto.
SeenLoaded(r) == \/ progress[r] = "navigated"
                 \/ NavigationCompletes /\ current.req = r /\ progress[r] # "none"

Unconcerned(r) == progress'[r] = progress[r] /\ outcome'[r] = outcome[r]
Advances(r) ==
  /\ outcome'[r] = outcome[r] /\ progress[r] # "none"
  /\ progress'[r] \in {"responded", "navigated"}
  /\ progress'[r] = "navigated" => SeenLoaded(r)
  /\ progress'[r] = "responded" => progress[r] = "asked"
Concludes(r) ==
  /\ progress[r] # "none" /\ progress'[r] = "none"
  /\ outcome'[r] = outcome[r] \/ (outcome[r] = "waiting" /\ outcome'[r] \in Verdicts)
  /\ outcome[r] = "waiting" => outcome'[r] # "waiting"
  /\ outcome'[r] = "answered" => outcome[r] = "answered" \/ SeenLoaded(r)

LEMMA SetProgress ==
  ASSUME TypeOK, NEW q \in Gotos, NEW s, progress' = [progress EXCEPT ![q] = s],
         NEW r \in Gotos
  PROVE  progress'[r] = IF r = q THEN s ELSE progress[r]
BY DEF TypeOK

LEMMA Concluded ==
  ASSUME TypeOK, NEW S, NEW v \in Verdicts, Conclude(S, v), NEW r \in Gotos
  PROVE  outcome'[r] = IF r \in S /\ outcome[r] = "waiting" THEN v ELSE outcome[r]
BY ConcludeFacts DEF Verdicts, Calls

LEMMA ProgressIs ==
  ASSUME TypeOK, NEW r \in Gotos
  PROVE  progress[r] \in {"none", "asked", "responded", "navigated"}
BY DEF TypeOK

LEMMA GotoSteps ==
  ASSUME TypeOK, [Next]_vars, NEW r \in Gotos
  PROVE  \/ Goto(r)
         \/ OnGoto /\ Head(channel) = r
         \/ Unconcerned(r)
         \/ (r = current.req \/ r \in pending) /\ (Advances(r) \/ Concludes(r))
<1> USE ConstantFacts DEF Unconcerned
<1>1. ASSUME NEW q \in Gotos, Goto(q), q # r PROVE Unconcerned(r)
      BY <1>1 DEF Goto, TypeOK, Calls, handlerVars
<1>2. ASSUME NEW w \in Waits, WaitForNavigation(w) PROVE Unconcerned(r)
      BY <1>2 DEF WaitForNavigation, TypeOK, Calls, handlerVars
<1>3. ASSUME Browser \/ OnFrameDetached PROVE Unconcerned(r)
      BY <1>3 DEF Browser, BrowserNavigates, BrowserNavigatesWithin, BrowserRefuses, PageNavigates,
         BrowserCommits, BrowserLoads, BrowserResponds, Begin, OnFrameDetached, handlerVars
<1>4. ASSUME OnGoto, Head(channel) # r PROVE Unconcerned(r)
      BY <1>4 DEF OnGoto, TypeOK
<1>5. ASSUME OnWaitForNavigation PROVE Unconcerned(r)
      BY <1>5, ConcludeFacts DEF OnWaitForNavigation, handlerVars, Calls
<1>6. ASSUME AnswerWaiters PROVE Unconcerned(r)
  <2>1. r \notin waiters
        BY DEF TypeOK
  <2> QED
      BY <1>6, <2>1, ConcludeFacts DEF AnswerWaiters, handlerVars, Calls
<1>7. ASSUME IssueNavigation PROVE Unconcerned(r)
      BY <1>7 DEF IssueNavigation
<1>8. ASSUME NavigationCompletes
      PROVE  Unconcerned(r) \/ (r = current.req /\ (Advances(r) \/ Concludes(r)))
  <2> DEFINE q == current.req
  <2>1. q \in Gotos
        BY <1>8 DEF NavigationCompletes, Idle, TypeOK, Watchers
  <2>2. CASE progress[q] = "none"
        BY <1>8, <2>2 DEF NavigationCompletes, OnNavigationResult
  <2>3. CASE progress[q] = "responded"
    <3>1. Conclude({q}, "answered") /\ progress' = [progress EXCEPT ![q] = "none"]
          BY <1>8, <2>3 DEF NavigationCompletes, OnNavigationResult
    <3>a. outcome'[r] = IF r \in {q} /\ outcome[r] = "waiting" THEN "answered" ELSE outcome[r]
          BY <3>1, Concluded DEF Verdicts
    <3>b. progress'[r] = IF r = q THEN "none" ELSE progress[r]
          BY <2>1, <3>1, SetProgress
    <3> QED
        BY <1>8, <2>3, <3>a, <3>b DEF Concludes, SeenLoaded, Verdicts
  <2>4. CASE progress[q] \in {"asked", "navigated"}
    <3>1. UNCHANGED outcome /\ progress' = [progress EXCEPT ![q] = "navigated"]
          BY <1>8, <2>4 DEF NavigationCompletes, OnNavigationResult
    <3>2. progress'[r] = IF r = q THEN "navigated" ELSE progress[r]
          BY <2>1, <3>1, SetProgress
    <3> QED
        BY <1>8, <2>4, <3>1, <3>2 DEF Advances, SeenLoaded
  <2> QED
      BY <2>1, <2>2, <2>3, <2>4, ProgressIs
<1>9. ASSUME NavigationFails PROVE Unconcerned(r) \/ (r = current.req /\ Concludes(r))
  <2> DEFINE q == current.req
  <2>1. q \in Gotos
        BY <1>9 DEF NavigationFails, Idle, TypeOK, Watchers
  <2>2. CASE progress[q] = "none"
        BY <1>9, <2>2 DEF NavigationFails, OnNavigationResult
  <2>3. CASE progress[q] # "none"
    <3>1. Conclude({q}, "timeout") /\ progress' = [progress EXCEPT ![q] = "none"]
          BY <1>9, <2>3 DEF NavigationFails, OnNavigationResult
    <3>a. outcome'[r] = IF r \in {q} /\ outcome[r] = "waiting" THEN "timeout" ELSE outcome[r]
          BY <3>1, Concluded DEF Verdicts
    <3>b. progress'[r] = IF r = q THEN "none" ELSE progress[r]
          BY <2>1, <3>1, SetProgress
    <3> QED
        BY <2>3, <3>a, <3>b DEF Concludes, Verdicts
  <2> QED
      BY <2>2, <2>3
<1>10. ASSUME OnNavigationResponse
       PROVE  Unconcerned(r) \/ (r \in pending /\ (Advances(r) \/ Concludes(r)))
  <2> DEFINE q == Read.req
  <2>1. q \in pending => q \in Gotos
        BY DEF TypeOK
  <2>2. CASE q \in pending /\ progress[q] = "asked"
    <3>0. q \in Gotos
          BY <2>1, <2>2
    <3>1. UNCHANGED outcome /\ progress' = [progress EXCEPT ![q] = "responded"]
          BY <1>10, <2>2 DEF OnNavigationResponse
    <3>2. progress'[r] = IF r = q THEN "responded" ELSE progress[r]
          BY <3>0, <3>1, SetProgress
    <3> QED
        BY <2>2, <3>1, <3>2 DEF Advances
  <2>3. CASE q \in pending /\ progress[q] = "navigated"
    <3>0. q \in Gotos
          BY <2>1, <2>3
    <3>1. Conclude({q}, "answered") /\ progress' = [progress EXCEPT ![q] = "none"]
          BY <1>10, <2>3 DEF OnNavigationResponse
    <3>a. outcome'[r] = IF r \in {q} /\ outcome[r] = "waiting" THEN "answered" ELSE outcome[r]
          BY <3>1, Concluded DEF Verdicts
    <3>b. progress'[r] = IF r = q THEN "none" ELSE progress[r]
          BY <3>0, <3>1, SetProgress
    <3> QED
        BY <2>3, <3>a, <3>b DEF Concludes, SeenLoaded, Verdicts
  <2>4. CASE q \notin pending \/ progress[q] \notin {"asked", "navigated"}
        BY <1>10, <2>4 DEF OnNavigationResponse
  <2> QED
      BY <2>2, <2>3, <2>4
<1>11. ASSUME NEW q \in Gotos, Evict(q)
       PROVE  Unconcerned(r) \/ (r \in pending /\ Concludes(r))
  <2>1. progress'[r] = IF r = q THEN "none" ELSE progress[r]
        BY <1>11, SetProgress DEF Evict
  <2>2. CASE progress[q] = "none"
        BY <1>11, <2>1, <2>2 DEF Evict
  <2>3. CASE progress[q] # "none"
    <3>1. q \in pending /\ Conclude({q}, "timeout")
          BY <1>11, <2>3 DEF Evict
    <3>2. outcome'[r] = IF r \in {q} /\ outcome[r] = "waiting" THEN "timeout" ELSE outcome[r]
          BY <3>1, Concluded DEF Verdicts
    <3> QED
        BY <2>1, <2>3, <3>1, <3>2 DEF Concludes, Verdicts
  <2> QED
      BY <2>2, <2>3
<1>12. ASSUME ReadSocket, ~OnNavigationResponse PROVE Unconcerned(r)
      BY <1>12 DEF ReadSocket, OnFrameStartedLoading, OnInit, OnLoad, OnNavigatedWithinDocument,
         OnFrameEvent, handlerVars
<1>13. ASSUME UNCHANGED vars PROVE Unconcerned(r)
      BY <1>13 DEF vars, handlerVars
<1> QED
    BY <1>1, <1>2, <1>3, <1>4, <1>5, <1>6, <1>7, <1>8, <1>9, <1>10, <1>11, <1>12, <1>13
    DEF Next, Clients, HandlerStep, ReadChannel

LEMMA ChannelSteps ==
  ASSUME TypeOK, [Next]_vars
  PROVE  \/ channel' = channel
         \/ \E c \in Calls : outcome[c] = "idle" /\ channel' = Append(channel, c)
                             /\ (c \in Gotos => Goto(c))
         \/ /\ channel # <<>> /\ channel' = Tail(channel)
            /\ (OnGoto /\ Head(channel) \in Gotos) \/ Head(channel) \in Waits
BY ConstantFacts
DEF TypeOK, Next, vars, Clients, Goto, WaitForNavigation, Browser, BrowserNavigates, Begin,
    BrowserNavigatesWithin, BrowserRefuses, PageNavigates, BrowserCommits, BrowserLoads,
    BrowserResponds, OnFrameDetached, HandlerStep, ReadSocket, ReadChannel, OnGoto,
    OnWaitForNavigation, AnswerWaiters, IssueNavigation, NavigationCompletes, NavigationFails,
    OnNavigationResult, OnNavigationResponse, Evict, OnFrameEvent, OnFrameStartedLoading, OnInit,
    OnLoad, OnNavigatedWithinDocument, Calls

LEMMA QueueSteps ==
  ASSUME TypeOK, [Next]_vars
  PROVE  \/ queue' = queue
         \/ OnGoto /\ queue' = Append(queue, [req |-> Head(channel), loader |-> frame.loader,
                                             same |-> FALSE])
         \/ IssueNavigation /\ queue # <<>> /\ queue' = Tail(queue)
BY ConstantFacts
DEF TypeOK, Next, vars, Clients, Goto, WaitForNavigation, Browser, BrowserNavigates, Begin,
    BrowserNavigatesWithin, BrowserRefuses, PageNavigates, BrowserCommits, BrowserLoads,
    BrowserResponds, OnFrameDetached, HandlerStep, ReadSocket, ReadChannel, OnGoto,
    OnWaitForNavigation, AnswerWaiters, IssueNavigation, NavigationCompletes, NavigationFails,
    OnNavigationResult, OnNavigationResponse, Evict, OnFrameEvent, OnFrameStartedLoading, OnInit,
    OnLoad, OnNavigatedWithinDocument, frameVars, QueueNavigation, Watched

\* A goto stays unissued until it is taken from the queue.
LEMMA UnissuedSteps ==
  ASSUME TypeOK, [Next]_vars, NEW r \in Gotos, Unissued(r)
  PROVE  UnissuedNext(r) \/ (IssueNavigation /\ r = Head(queue).req)
<1> USE ConstantFacts
<1> DEFINE Same == UNCHANGED <<wire, pending, current, goal>>
<1>1. Same => Unissued(r)'
      BY DEF Unissued, Holds
<1>2. ASSUME wire # <<>>, wire' = Tail(wire), pending' = pending, current' = current,
             goal'[r] = goal[r] \/ r = Head(wire)
      PROVE  Unissued(r)'
  <2>1. /\ Len(wire) \in Nat \ {0} /\ wire[1] = Head(wire) /\ Len(Tail(wire)) = Len(wire) - 1
        /\ \A i \in 1 .. Len(Tail(wire)) : Tail(wire)[i] = wire[i + 1] /\ i + 1 \in 1 .. Len(wire)
        /\ 1 \in 1 .. Len(wire)
        BY <1>2 DEF TypeOK
  <2> QED
      BY <1>2, <2>1 DEF Unissued, Holds
<1>3. ASSUME wire' = wire, goal' = goal, pending' \in SUBSET pending,
             current'.req \in {current.req, Nobody}
      PROVE  Unissued(r)'
      BY <1>3 DEF Unissued, Holds
<1>4. ASSUME NEW q \in Gotos, Goto(q) PROVE Unissued(r)'
      BY <1>1, <1>4 DEF Goto, handlerVars, frameVars, browserVars
<1>5. ASSUME NEW w \in Waits, WaitForNavigation(w) PROVE Unissued(r)'
  <2>1. goal'[r] = goal[r]
        BY <1>5 DEF WaitForNavigation, TypeOK, Calls
  <2> QED
      BY <1>5, <2>1 DEF WaitForNavigation, handlerVars, frameVars, browserVars, Unissued, Holds
<1>6. ASSUME BrowserNavigates \/ BrowserNavigatesWithin PROVE Unissued(r)'
  <2>1. goal'[r] = goal[r] \/ r = Head(wire)
        BY <1>6 DEF BrowserNavigates, BrowserNavigatesWithin, TypeOK, Calls
  <2> QED
      BY <1>2, <1>6, <2>1 DEF BrowserNavigates, BrowserNavigatesWithin, Begin, handlerVars, frameVars
<1>7. ASSUME BrowserRefuses PROVE Unissued(r)'
      BY <1>2, <1>7 DEF BrowserRefuses, handlerVars, frameVars, ghosts
<1>8. ASSUME PageNavigates \/ BrowserCommits \/ BrowserLoads
             \/ (\E q \in Gotos : BrowserResponds(q)) \/ OnFrameDetached
      PROVE  Unissued(r)'
      BY <1>1, <1>8 DEF PageNavigates, Begin, BrowserCommits, BrowserLoads, BrowserResponds,
         OnFrameDetached, handlerVars, frameVars, browserVars, ghosts
<1>9. ASSUME OnGoto \/ OnWaitForNavigation \/ AnswerWaiters PROVE Unissued(r)'
      BY <1>1, <1>9 DEF OnGoto, OnWaitForNavigation, AnswerWaiters, handlerVars, browserVars, ghosts
<1>10. ASSUME IssueNavigation, r # Head(queue).req PROVE Unissued(r)'
  <2>1. /\ current' = Head(queue) /\ pending' = pending \cup {Head(queue).req}
        /\ wire' = Append(wire, Head(queue).req) /\ goal' = goal
        BY <1>10 DEF IssueNavigation, ghosts
  <2>2. Holds(wire, r)' => Holds(wire, r)
        BY <1>10, <2>1 DEF TypeOK, Holds
  <2> QED
      BY <1>10, <2>1, <2>2 DEF Unissued
<1>11. ASSUME NavigationCompletes \/ NavigationFails PROVE Unissued(r)'
  <2>1. current' = NoWatcher /\ UNCHANGED <<wire, pending, goal>>
        BY <1>11 DEF NavigationCompletes, NavigationFails, OnNavigationResult, browserVars, ghosts
  <2> QED
      BY <1>3, <2>1
<1>12. ASSUME OnNavigationResponse \/ \E q \in Gotos : Evict(q) PROVE Unissued(r)'
      BY <1>3, <1>12 DEF OnNavigationResponse, Evict, frameVars, browserVars, ghosts
<1>13. ASSUME ReadSocket, ~OnNavigationResponse PROVE Unissued(r)'
  <2>1. current'.req = current.req
        BY <1>13 DEF ReadSocket, OnFrameStartedLoading, OnInit, OnLoad, OnNavigatedWithinDocument,
           TypeOK, Watchers
  <2>2. UNCHANGED <<wire, pending, goal>>
        BY <1>13 DEF ReadSocket, OnFrameStartedLoading, OnInit, OnLoad, OnNavigatedWithinDocument,
           OnFrameEvent, handlerVars, browserVars, ghosts
  <2> QED
      BY <1>3, <2>1, <2>2
<1>14. ASSUME UNCHANGED vars PROVE Unissued(r)'
      BY <1>1, <1>14 DEF vars, handlerVars, frameVars, browserVars, ghosts
<1> SUFFICES Unissued(r)' \/ (IssueNavigation /\ r = Head(queue).req)
    BY DEF Unissued, UnissuedNext, Holds
<1> QED
    BY <1>4, <1>5, <1>6, <1>7, <1>8, <1>9, <1>10, <1>11, <1>12, <1>13, <1>14
    DEF Next, Clients, Browser, HandlerStep, ReadChannel

-----------------------------------------------------------------------------
(* Every goto is in one place, and one that waits has an entry.             *)

\* A goto that has not been taken from the queue is nowhere else.
IdlePlaced == \A r \in Gotos : outcome[r] = "idle" => progress[r] = "none" /\ Unissued(r)

ChannelPlaced ==
  /\ \A i \in 1 .. Len(channel) : channel[i] \in Gotos =>
       /\ outcome[channel[i]] = "waiting" /\ progress[channel[i]] = "none"
       /\ Unissued(channel[i])
  /\ \A i, j \in 1 .. Len(channel) :
       channel[i] = channel[j] /\ channel[i] \in Gotos => i = j

QueuePlaced ==
  /\ \A i \in 1 .. Len(queue) :
       /\ queue[i].req \in Gotos /\ ~queue[i].same
       /\ progress[queue[i].req] = "asked" /\ Unissued(queue[i].req)
  /\ \A i, j \in 1 .. Len(queue) : queue[i].req = queue[j].req => i = j

\* A goto waits exactly as long as it is in the channel or has an entry.
Tracked ==
  \A r \in Gotos :
    /\ progress[r] # "none" => outcome[r] = "waiting"
    /\ outcome[r] = "waiting" => progress[r] # "none" \/ Holds(channel, r)

Placed == IdlePlaced /\ ChannelPlaced /\ QueuePlaced /\ Tracked

LEMMA PlacedInit == Init => Placed
<1> SUFFICES ASSUME Init PROVE Placed
    OBVIOUS
<1> USE ConstantFacts
<1>1. \A r \in Gotos : progress[r] = "none" /\ outcome[r] = "idle" /\ Unissued(r)
      BY DEF Init, Unissued, Holds, Calls
<1>2. Len(channel) = 0 /\ Len(queue) = 0
      BY DEF Init
<1> QED
    BY <1>1, <1>2 DEF Placed, IdlePlaced, ChannelPlaced, QueuePlaced, Tracked

\* A goto that is not issued moves only from the client to the channel and on.
LEMMA UnissuedMoves ==
  ASSUME TypeOK, [Next]_vars, NEW r \in Gotos, Unissued(r)
  PROVE  Goto(r) \/ (OnGoto /\ Head(channel) = r) \/ Unconcerned(r)
BY GotoSteps DEF Unissued

LEMMA GotoMoves ==
  ASSUME TypeOK, NEW r \in Gotos, Goto(r)
  PROVE  /\ outcome[r] = "idle" /\ outcome'[r] = "waiting" /\ progress' = progress
         /\ channel' = Append(channel, r)
BY DEF Goto, TypeOK, handlerVars, Calls

LEMMA OnGotoMoves ==
  ASSUME TypeOK, OnGoto
  PROVE  /\ channel # <<>> /\ Head(channel) \in Gotos /\ channel' = Tail(channel)
         /\ progress'[Head(channel)] = "asked" /\ outcome' = outcome
         /\ Len(channel) \in Nat \ {0} /\ Head(channel) = channel[1] /\ 1 \in 1 .. Len(channel)
BY DEF OnGoto, TypeOK

\* What Append and Tail do to the places of a sequence.
LEMMA AppendPlaces ==
  ASSUME NEW S, NEW s \in Seq(S), NEW x \in S
  PROVE  /\ Append(s, x) \in Seq(S) /\ Len(Append(s, x)) = Len(s) + 1 /\ Len(s) \in Nat
         /\ \A i \in 1 .. Len(s) : Append(s, x)[i] = s[i]
         /\ Append(s, x)[Len(s) + 1] = x
OBVIOUS

LEMMA TailPlaces ==
  ASSUME NEW S, NEW s \in Seq(S), s # <<>>
  PROVE  /\ Tail(s) \in Seq(S) /\ Len(Tail(s)) = Len(s) - 1 /\ Len(s) \in Nat \ {0}
         /\ Head(s) = s[1] /\ Head(s) \in S
         /\ \A i \in 1 .. Len(s) - 1 : Tail(s)[i] = s[i + 1] /\ i + 1 \in 1 .. Len(s)
OBVIOUS

LEMMA IdleStep == TypeOK /\ Placed /\ [Next]_vars => IdlePlaced'
<1> SUFFICES ASSUME TypeOK, Placed, [Next]_vars, NEW r \in Gotos, outcome'[r] = "idle"
             PROVE  progress'[r] = "none" /\ UnissuedNext(r)
    BY DEF IdlePlaced, Unissued, UnissuedNext
<1>1. ~Goto(r)
      BY GotoMoves
<1>2. ~(OnGoto /\ Head(channel) = r)
  <2> SUFFICES ASSUME OnGoto, Head(channel) = r PROVE FALSE
      OBVIOUS
  <2>1. outcome[r] = "waiting" /\ outcome' = outcome
        BY OnGotoMoves DEF Placed, ChannelPlaced
  <2> QED
      BY <2>1
<1>3. ~Advances(r) \/ outcome[r] = "idle"
      BY DEF Advances
<1>4. ~Concludes(r) \/ outcome[r] = "idle"
      BY DEF Concludes, Verdicts
<1>5. outcome[r] = "idle" /\ progress[r] = "none" /\ Unissued(r)
  <2>1. outcome[r] = "idle"
        BY <1>1, <1>2, <1>3, <1>4, GotoSteps DEF Unconcerned
  <2> QED
      BY <2>1 DEF Placed, IdlePlaced
<1>6. Unconcerned(r)
      BY <1>1, <1>2, <1>5, UnissuedMoves
<1>7. ~(IssueNavigation /\ r = Head(queue).req)
  <2> SUFFICES ASSUME IssueNavigation, r = Head(queue).req PROVE FALSE
      OBVIOUS
  <2>1. queue # <<>>
        BY DEF IssueNavigation, Watched
  <2>2. r = queue[1].req /\ 1 \in 1 .. Len(queue)
        BY <2>1, QueueFacts
  <2> QED
      BY <1>5, <2>2 DEF Placed, QueuePlaced
<1> QED
    BY <1>5, <1>6, <1>7, UnissuedSteps DEF Unconcerned

\* A goto leaves the queue only when it is issued, and the channel for the queue.
LEMMA InQueueStep ==
  ASSUME TypeOK, Placed, [Next]_vars, NEW i \in 1 .. Len(queue), queue' = queue \/ i # 1
  PROVE  progress'[queue[i].req] = "asked" /\ UnissuedNext(queue[i].req)
<1> DEFINE r == queue[i].req
<1>1. r \in Gotos /\ progress[r] = "asked" /\ Unissued(r) /\ outcome[r] = "waiting"
      BY DEF Placed, QueuePlaced, Tracked
<1>2. ~Goto(r)
      BY <1>1, GotoMoves
<1>3. ~(OnGoto /\ Head(channel) = r)
  <2> SUFFICES ASSUME OnGoto, Head(channel) = r PROVE FALSE
      OBVIOUS
  <2>1. progress[r] = "none"
        BY OnGotoMoves DEF Placed, ChannelPlaced
  <2> QED
      BY <1>1, <2>1
<1>4. ~(IssueNavigation /\ r = Head(queue).req)
  <2> SUFFICES ASSUME IssueNavigation, r = Head(queue).req PROVE FALSE
      OBVIOUS
  <2>1. queue # <<>> /\ queue' = Tail(queue)
        BY DEF IssueNavigation, Watched
  <2>a. Head(queue) = queue[1] /\ Len(queue) \in Nat \ {0}
        BY <2>1, QueueFacts
  <2>2. r = queue[1].req /\ 1 \in 1 .. Len(queue)
        BY <2>a
  <2>3. Len(queue') = Len(queue) - 1 /\ Len(queue) \in Nat
        BY <2>1, QueueFacts
  <2>4. queue' # queue
        BY <2>3
  <2> QED
      BY <2>2, <2>4 DEF Placed, QueuePlaced
<1> QED
    BY <1>1, <1>2, <1>3, <1>4, UnissuedMoves, UnissuedSteps DEF Unconcerned

LEMMA InChannelStep ==
  ASSUME TypeOK, Placed, [Next]_vars, NEW r \in Gotos, progress[r] = "none",
         outcome[r] = "waiting" \/ Goto(r), Unissued(r), ~(OnGoto /\ Head(channel) = r)
  PROVE  outcome'[r] = "waiting" /\ progress'[r] = "none" /\ UnissuedNext(r)
<1>1. outcome'[r] = "waiting" /\ progress'[r] = "none"
      BY UnissuedMoves, GotoMoves DEF Unconcerned
<1>2. ~(IssueNavigation /\ r = Head(queue).req)
  <2> SUFFICES ASSUME IssueNavigation, r = Head(queue).req PROVE FALSE
      OBVIOUS
  <2>1. queue # <<>>
        BY DEF IssueNavigation, Watched
  <2>2. r = queue[1].req /\ 1 \in 1 .. Len(queue)
        BY <2>1, QueueFacts
  <2> QED
      BY <2>2 DEF Placed, QueuePlaced
<1> QED
    BY <1>1, <1>2, UnissuedSteps

LEMMA ChannelStep == TypeOK /\ Placed /\ [Next]_vars => ChannelPlaced'
<1> SUFFICES ASSUME TypeOK, Placed, [Next]_vars PROVE ChannelPlaced'
    OBVIOUS
<1>c. channel \in Seq(Calls)
      BY DEF TypeOK
<1>1. CASE channel' = channel
  <2>1. ~OnGoto
        BY <1>1, OnGotoMoves, TailPlaces, <1>c
  <2> QED
      BY <1>1, <2>1, InChannelStep DEF Placed, ChannelPlaced, Unissued, UnissuedNext
<1>2. ASSUME NEW c \in Calls, outcome[c] = "idle", channel' = Append(channel, c),
             c \in Gotos => Goto(c)
      PROVE  ChannelPlaced'
  <2>1. /\ Len(channel') = Len(channel) + 1 /\ Len(channel) \in Nat
        /\ \A i \in 1 .. Len(channel) : channel'[i] = channel[i]
        /\ channel'[Len(channel) + 1] = c
        BY <1>2, <1>c, AppendPlaces
  <2>2. ~OnGoto
    <3>1. OnGoto => Len(channel') = Len(channel) - 1
          BY OnGotoMoves, TailPlaces, <1>c
    <3> QED
        BY <2>1, <3>1
  <2>3. ASSUME NEW i \in 1 .. Len(channel'), channel'[i] \in Gotos
        PROVE  /\ outcome'[channel'[i]] = "waiting" /\ progress'[channel'[i]] = "none"
               /\ UnissuedNext(channel'[i])
    <3> DEFINE r == channel'[i]
    <3>1. CASE i \in 1 .. Len(channel)
      <4>1. outcome[r] = "waiting" /\ progress[r] = "none" /\ Unissued(r)
            BY <2>1, <2>3, <3>1 DEF Placed, ChannelPlaced
      <4> QED
          BY <2>2, <2>3, <4>1, InChannelStep
    <3>2. CASE i = Len(channel) + 1
      <4>1. r = c /\ progress[r] = "none" /\ Unissued(r) /\ Goto(r)
            BY <1>2, <2>1, <2>3, <3>2 DEF Placed, IdlePlaced
      <4> QED
          BY <2>2, <2>3, <4>1, InChannelStep
    <3> QED
        BY <2>1, <3>1, <3>2
  <2>4. \A i \in 1 .. Len(channel) : channel[i] \in Gotos => channel[i] # c
        BY <1>2 DEF Placed, ChannelPlaced
  <2>5. ASSUME NEW i \in 1 .. Len(channel'), NEW j \in 1 .. Len(channel'),
               channel'[i] = channel'[j], channel'[i] \in Gotos
        PROVE  i = j
        BY <2>1, <2>4, <2>5 DEF Placed, ChannelPlaced
  <2> QED
      BY <2>3, <2>5 DEF ChannelPlaced, Unissued, UnissuedNext
<1>3. ASSUME channel # <<>>, channel' = Tail(channel),
             (OnGoto /\ Head(channel) \in Gotos) \/ Head(channel) \in Waits
      PROVE  ChannelPlaced'
  <2>1. /\ Len(channel') = Len(channel) - 1 /\ Len(channel) \in Nat \ {0}
        /\ \A i \in 1 .. Len(channel) - 1 : channel'[i] = channel[i + 1] /\ i + 1 \in 1 .. Len(channel)
        /\ Head(channel) = channel[1]
        BY <1>3, <1>c, TailPlaces
  <2>2. ASSUME NEW i \in 1 .. Len(channel'), channel'[i] \in Gotos
        PROVE  /\ outcome'[channel'[i]] = "waiting" /\ progress'[channel'[i]] = "none"
               /\ UnissuedNext(channel'[i])
    <3> DEFINE r == channel'[i]
    <3>1. r = channel[i + 1] /\ i + 1 \in 1 .. Len(channel) /\ 1 \in 1 .. Len(channel) /\ i + 1 # 1
          BY <2>1
    <3>2. outcome[r] = "waiting" /\ progress[r] = "none" /\ Unissued(r) /\ r # Head(channel)
          BY <2>1, <2>2, <3>1 DEF Placed, ChannelPlaced
    <3> QED
        BY <2>2, <3>2, InChannelStep
  <2>3. ASSUME NEW i \in 1 .. Len(channel'), NEW j \in 1 .. Len(channel'),
               channel'[i] = channel'[j], channel'[i] \in Gotos
        PROVE  i = j
    <3>1. /\ channel'[i] = channel[i + 1] /\ i + 1 \in 1 .. Len(channel)
          /\ channel'[j] = channel[j + 1] /\ j + 1 \in 1 .. Len(channel)
          BY <2>1
    <3>2. i + 1 = j + 1
          BY <2>3, <3>1 DEF Placed, ChannelPlaced
    <3> QED
        BY <3>2
  <2> QED
      BY <2>2, <2>3 DEF ChannelPlaced, Unissued, UnissuedNext
<1> QED
    BY <1>1, <1>2, <1>3, ChannelSteps

LEMMA QueueStep == TypeOK /\ Placed /\ [Next]_vars => QueuePlaced'
<1> SUFFICES ASSUME TypeOK, Placed, [Next]_vars PROVE QueuePlaced'
    OBVIOUS
<1>q. queue \in Seq(Watchers)
      BY DEF TypeOK
<1>1. CASE queue' = queue
      BY <1>1, InQueueStep DEF Placed, QueuePlaced, Unissued, UnissuedNext
<1>2. ASSUME OnGoto, queue' = Append(queue, [req |-> Head(channel), loader |-> frame.loader,
                                             same |-> FALSE])
      PROVE  QueuePlaced'
  <2> DEFINE r == Head(channel)
  <2>0. [req |-> r, loader |-> frame.loader, same |-> FALSE] \in Watchers
        BY <1>2, OnGotoMoves, ConstantFacts DEF TypeOK, Watchers
  <2>1. /\ Len(queue') = Len(queue) + 1 /\ Len(queue) \in Nat
        /\ \A i \in 1 .. Len(queue) : queue'[i] = queue[i]
        /\ queue'[Len(queue) + 1] = [req |-> r, loader |-> frame.loader, same |-> FALSE]
        BY <1>2, <1>q, <2>0, AppendPlaces
  <2>2. r \in Gotos /\ progress[r] = "none" /\ Unissued(r) /\ progress'[r] = "asked"
        BY <1>2, OnGotoMoves DEF Placed, ChannelPlaced
  <2>3. UnissuedNext(r)
    <3>1. ~IssueNavigation
      <4>1. queue # <<>> => Len(Tail(queue)) = Len(queue) - 1
            BY QueueFacts
      <4> QED
          BY <2>1, <4>1 DEF IssueNavigation, Watched
    <3> QED
        BY <2>2, <3>1, UnissuedSteps
  <2>4. \A i \in 1 .. Len(queue) : /\ queue[i].req \in Gotos /\ ~queue[i].same
                                   /\ progress'[queue[i].req] = "asked"
                                   /\ UnissuedNext(queue[i].req) /\ queue[i].req # r
    <3> SUFFICES ASSUME NEW i \in 1 .. Len(queue)
                 PROVE  /\ queue[i].req \in Gotos /\ ~queue[i].same
                        /\ progress'[queue[i].req] = "asked"
                        /\ UnissuedNext(queue[i].req) /\ queue[i].req # r
        OBVIOUS
    <3> DEFINE q == queue[i].req
    <3>1. q \in Gotos /\ ~queue[i].same /\ progress[q] = "asked" /\ Unissued(q) /\ q # r
          BY <2>2 DEF Placed, QueuePlaced
    <3>2. outcome[q] = "waiting"
          BY <3>1 DEF Placed, Tracked
    <3>3. Unconcerned(q)
          BY <3>1, <3>2, UnissuedMoves, GotoMoves
    <3>4. ~IssueNavigation
      <4>1. queue # <<>> => Len(Tail(queue)) = Len(queue) - 1
            BY QueueFacts
      <4> QED
          BY <2>1, <4>1 DEF IssueNavigation, Watched
    <3> QED
        BY <3>1, <3>3, <3>4, UnissuedSteps DEF Unconcerned
  <2>5. \A i \in 1 .. Len(queue') : i \in 1 .. Len(queue) \/ i = Len(queue) + 1
        BY <2>1
  <2>6. \A i \in 1 .. Len(queue') :
          /\ queue'[i].req \in Gotos /\ ~queue'[i].same
          /\ progress'[queue'[i].req] = "asked" /\ UnissuedNext(queue'[i].req)
        BY <2>1, <2>2, <2>3, <2>4, <2>5
  <2>7. \A i, j \in 1 .. Len(queue') : queue'[i].req = queue'[j].req => i = j
        BY <2>1, <2>4, <2>5 DEF Placed, QueuePlaced
  <2> QED
      BY <2>6, <2>7 DEF QueuePlaced, Unissued, UnissuedNext
<1>3. ASSUME IssueNavigation, queue # <<>>, queue' = Tail(queue)
      PROVE  QueuePlaced'
  <2>1. /\ Len(queue') = Len(queue) - 1 /\ Len(queue) \in Nat \ {0}
        /\ \A i \in 1 .. Len(queue') : queue'[i] = queue[i + 1] /\ i + 1 \in 1 .. Len(queue)
        BY <1>3, QueueFacts
  <2>2. \A i \in 1 .. Len(queue') :
          /\ queue'[i].req \in Gotos /\ ~queue'[i].same
          /\ progress'[queue'[i].req] = "asked" /\ UnissuedNext(queue'[i].req)
    <3> SUFFICES ASSUME NEW i \in 1 .. Len(queue')
                 PROVE  /\ queue'[i].req \in Gotos /\ ~queue'[i].same
                        /\ progress'[queue'[i].req] = "asked" /\ UnissuedNext(queue'[i].req)
        OBVIOUS
    <3>1. queue'[i] = queue[i + 1] /\ i + 1 \in 1 .. Len(queue) /\ i + 1 # 1
          BY <2>1
    <3>2. progress'[queue[i + 1].req] = "asked" /\ UnissuedNext(queue[i + 1].req)
          BY <3>1, InQueueStep
    <3> QED
        BY <3>1, <3>2 DEF Placed, QueuePlaced
  <2>3. \A i, j \in 1 .. Len(queue') : queue'[i].req = queue'[j].req => i + 1 = j + 1
        BY <2>1 DEF Placed, QueuePlaced
  <2>4. \A i, j \in 1 .. Len(queue') : i + 1 = j + 1 => i = j
        OBVIOUS
  <2> QED
      BY <2>2, <2>3, <2>4 DEF QueuePlaced, Unissued, UnissuedNext
<1> QED
    BY <1>1, <1>2, <1>3, QueueSteps

LEMMA TrackedStep == TypeOK /\ Placed /\ [Next]_vars => Tracked'
<1> SUFFICES ASSUME TypeOK, Placed, [Next]_vars, NEW r \in Gotos
             PROVE  /\ progress'[r] # "none" => outcome'[r] = "waiting"
                    /\ outcome'[r] = "waiting" => progress'[r] # "none" \/ Holds(channel', r)
    BY DEF Tracked, Holds
<1>c. channel \in Seq(Calls)
      BY DEF TypeOK
<1>t. /\ progress[r] # "none" => outcome[r] = "waiting"
      /\ outcome[r] = "waiting" => progress[r] # "none" \/ Holds(channel, r)
      BY DEF Placed, Tracked
<1>1. CASE Goto(r)
  <2>1. progress'[r] = "none" /\ outcome'[r] = "waiting" /\ channel' = Append(channel, r)
        BY <1>1, GotoMoves DEF Placed, IdlePlaced
  <2>2. channel'[Len(channel) + 1] = r /\ Len(channel) + 1 \in 1 .. Len(channel')
        BY <1>c, <2>1 DEF Calls
  <2> QED
      BY <2>1, <2>2 DEF Holds
<1>2. CASE OnGoto /\ Head(channel) = r
      BY <1>2, OnGotoMoves DEF Placed, ChannelPlaced
<1>3. CASE Unconcerned(r) /\ ~(OnGoto /\ Head(channel) = r)
  <2>1. Holds(channel, r) => Holds(channel', r)
    <3> SUFFICES ASSUME NEW i \in 1 .. Len(channel), channel[i] = r PROVE Holds(channel', r)
        BY DEF Holds
    <3>1. ASSUME NEW c \in Calls, channel' = Append(channel, c) PROVE Holds(channel', r)
      <4>1. channel'[i] = r /\ i \in 1 .. Len(channel')
            BY <1>c, <3>1, AppendPlaces
      <4> QED
          BY <4>1 DEF Holds
    <3>2. ASSUME channel # <<>>, channel' = Tail(channel), Head(channel) # r
          PROVE  Holds(channel', r)
      <4>1. i # 1
            BY <1>c, <3>2, TailPlaces
      <4>2. i - 1 \in 1 .. Len(channel) - 1 /\ Len(channel') = Len(channel) - 1
            BY <1>c, <3>2, <4>1, TailPlaces
      <4>3. channel'[i - 1] = channel[(i - 1) + 1] /\ (i - 1) + 1 = i
            BY <1>c, <3>2, <4>2, TailPlaces
      <4> QED
          BY <4>2, <4>3 DEF Holds
    <3>3. Head(channel) \in Waits => Head(channel) # r
          BY ConstantFacts
    <3> QED
        BY <1>3, <3>1, <3>2, <3>3, ChannelSteps DEF Holds
  <2> QED
      BY <1>3, <1>t, <2>1 DEF Unconcerned
<1>4. CASE Advances(r)
      BY <1>4, <1>t DEF Advances
<1>5. CASE Concludes(r)
      BY <1>5, <1>t DEF Concludes
<1> QED
    BY <1>1, <1>2, <1>3, <1>4, <1>5, GotoSteps

LEMMA PlacedStep == TypeOK /\ Placed /\ [Next]_vars => Placed'
BY IdleStep, ChannelStep, QueueStep, TrackedStep DEF Placed

-----------------------------------------------------------------------------
(* The documents of the browser.                                            *)

\* The latest document has finished loading exactly when no later one has begun, and
\* no goto is about a document that has not begun.
DocsInOrder ==
  /\ newest <= doc.loader /\ (doc.stage = "loaded" <=> newest = doc.loader)
  /\ \A r \in Gotos : goal[r] = Unknown \/ goal[r] <= doc.loader

\* How a step moves the browser's document, the goals, and the inbox.
LEMMA DocSteps ==
  ASSUME TypeOK, [Next]_vars
  PROVE  \/ doc' = doc /\ newest' = newest
         \/ /\ BrowserNavigates \/ PageNavigates
            /\ doc.loader < MaxDocs /\ doc'.loader = doc.loader + 1 /\ doc'.stage = "started"
            /\ newest' = newest
         \/ BrowserCommits /\ doc'.loader = doc.loader /\ doc'.stage = "committed"
            /\ newest' = newest
         \/ BrowserLoads /\ doc'.loader = doc.loader /\ doc'.stage = "loaded"
            /\ newest' = doc.loader
<1>1. CASE BrowserNavigates \/ PageNavigates
  <2>1. Begin
        BY <1>1 DEF BrowserNavigates, PageNavigates
  <2> QED
      BY <1>1, <2>1 DEF Begin
<1>2. CASE BrowserCommits
      BY <1>2 DEF BrowserCommits, TypeOK
<1>3. CASE BrowserLoads
      BY <1>3 DEF BrowserLoads, TypeOK
<1>4. ASSUME Clients \/ BrowserRefuses \/ OnFrameDetached \/ ReadChannel \/ AnswerWaiters
              \/ ReadSocket \/ (\E r \in Gotos : BrowserResponds(r))
              \/ (\E r \in Gotos : Evict(r)) \/ UNCHANGED vars
             \/ IssueNavigation \/ NavigationCompletes \/ NavigationFails
             \/ BrowserNavigatesWithin
      PROVE  doc' = doc /\ newest' = newest
      BY <1>4 DEF vars, Clients, Goto, WaitForNavigation, BrowserRefuses, OnFrameDetached,
         ReadChannel, OnGoto, OnWaitForNavigation, AnswerWaiters, ReadSocket,
         OnNavigationResponse, OnFrameEvent, OnFrameStartedLoading, OnInit, OnLoad,
         OnNavigatedWithinDocument, BrowserResponds, Evict, IssueNavigation, NavigationCompletes,
         NavigationFails, OnNavigationResult,
         BrowserNavigatesWithin, browserVars
<1> QED
    BY <1>1, <1>2, <1>3, <1>4 DEF Next, Browser, HandlerStep

LEMMA GoalSteps ==
  ASSUME TypeOK, [Next]_vars, NEW r \in Gotos
  PROVE  \/ goal'[r] = goal[r]
         \/ /\ wire # <<>> /\ Head(wire) = r
            /\ \/ BrowserNavigates /\ goal'[r] = doc.loader + 1 /\ doc.loader < MaxDocs
               \/ BrowserNavigatesWithin /\ goal'[r] = doc.loader
<1>1. CASE BrowserNavigates \/ BrowserNavigatesWithin
      BY <1>1 DEF BrowserNavigates, BrowserNavigatesWithin, Begin, TypeOK, Calls
<1>2. ASSUME NEW w \in Waits, WaitForNavigation(w) PROVE goal'[r] = goal[r]
      BY <1>2, ConstantFacts DEF WaitForNavigation, TypeOK, Calls
<1>3. ASSUME (\E q \in Gotos : Goto(q)) \/ BrowserRefuses \/ OnFrameDetached \/ ReadChannel \/ AnswerWaiters
              \/ ReadSocket \/ (\E q \in Gotos : BrowserResponds(q))
              \/ (\E q \in Gotos : Evict(q)) \/ UNCHANGED vars
             \/ IssueNavigation \/ NavigationCompletes \/ NavigationFails
             \/ PageNavigates \/ BrowserCommits \/ BrowserLoads
      PROVE  goal'[r] = goal[r]
      BY <1>3 DEF vars, Goto, BrowserRefuses, OnFrameDetached,
         ReadChannel, OnGoto, OnWaitForNavigation, AnswerWaiters, ReadSocket,
         OnNavigationResponse, OnFrameEvent, OnFrameStartedLoading, OnInit, OnLoad,
         OnNavigatedWithinDocument, BrowserResponds, Evict, IssueNavigation, NavigationCompletes,
         NavigationFails, OnNavigationResult,
         PageNavigates, BrowserCommits, BrowserLoads, ghosts
<1> QED
    BY <1>1, <1>2, <1>3 DEF Next, Browser, HandlerStep, Clients

LEMMA DocsInit == Init => DocsInOrder
BY ConstantFacts DEF Init, DocsInOrder, Calls

LEMMA DocsStep == TypeOK /\ DocsInOrder /\ [Next]_vars => DocsInOrder'
<1> SUFFICES ASSUME TypeOK, DocsInOrder, [Next]_vars PROVE DocsInOrder'
    OBVIOUS
<1>1. /\ doc.loader \in Nat /\ newest \in Nat /\ MaxDocs \in Nat
      /\ doc.stage \in {"started", "committed", "loaded"}
      BY ConstantFacts DEF TypeOK
<1>2. /\ newest' <= doc'.loader /\ (doc'.stage = "loaded" <=> newest' = doc'.loader)
      /\ doc'.loader >= doc.loader
      BY <1>1, DocSteps DEF DocsInOrder, BrowserCommits
<1>3. ASSUME NEW r \in Gotos PROVE goal'[r] = Unknown \/ goal'[r] <= doc'.loader
  <2>1. goal[r] = Unknown \/ goal[r] <= doc.loader
        BY DEF DocsInOrder
  <2>2. goal[r] \in Nat /\ doc'.loader \in Nat
        BY <1>1, DocSteps, ConstantFacts DEF TypeOK, Calls, Unknown
  <2>3. CASE goal'[r] = goal[r]
        BY <1>1, <1>2, <2>1, <2>2, <2>3
  <2>4. CASE BrowserNavigates /\ goal'[r] = doc.loader + 1
        BY <2>4, <1>1 DEF BrowserNavigates, Begin
  <2>5. CASE BrowserNavigatesWithin /\ goal'[r] = doc.loader
        BY <2>5, <1>1 DEF BrowserNavigatesWithin
  <2> QED
      BY <2>3, <2>4, <2>5, GoalSteps
<1> QED
    BY <1>2, <1>3 DEF DocsInOrder

-----------------------------------------------------------------------------
(* As long as no navigation has begun while another one was unfinished.     *)

\* At most one goto waits, and only its call is on its way to the browser.
OneUnderway ==
  /\ \A r, s \in Gotos : outcome[r] = "waiting" /\ outcome[s] = "waiting" => r = s
  /\ Len(wire) <= 1
  /\ \A i \in 1 .. Len(wire) :
       /\ goal[wire[i]] = Unknown
       /\ \A r \in Gotos : outcome[r] = "waiting" => r = wire[i]

\* The page is still until the browser has read the call.
QuietUntilRead ==
  \A r \in Gotos : outcome[r] = "waiting" /\ goal[r] = Unknown =>
    /\ doc.stage = "loaded"
    /\ \A i \in 1 .. Len(inbox) : inbox[i].type = "response"

QueuedAtTheDocument == \A i \in 1 .. Len(queue) : queue[i].loader = frame.loader

\* Until the document of the goto has loaded, nothing shows the watcher a load.
Unfinished ==
  \/ Idle \/ progress[current.req] = "none" \/ goal[current.req] <= newest
  \/ /\ ~current.same
     /\ \A i \in 1 .. Len(inbox) : inbox[i].type \notin {"load", "withinDocument"}
     /\ frame.loaded => frame.loader = current.loader

DoneIsLoaded ==
  \A r \in Gotos : outcome[r] = "answered" \/ progress[r] = "navigated" => goal[r] <= newest

LoneInv ==
  alone => /\ OneUnderway /\ QuietUntilRead /\ QueuedAtTheDocument /\ Unfinished
           /\ DoneIsLoaded

IInv == TypeOK /\ Placed /\ DocsInOrder /\ LoneInv

LEMMA LoneInit == Init => LoneInv
<1> SUFFICES ASSUME Init PROVE LoneInv
    OBVIOUS
<1>1. /\ \A r \in Gotos : outcome[r] = "idle" /\ progress[r] = "none"
      /\ Len(wire) = 0 /\ Len(queue) = 0 /\ Idle
      BY ConstantFacts DEF Init, Calls, Idle
<1> QED
    BY <1>1 DEF LoneInv, OneUnderway, QuietUntilRead, QueuedAtTheDocument, Unfinished,
       DoneIsLoaded

LEMMA AloneSteps ==
  ASSUME TypeOK, [Next]_vars, alone'
  PROVE  alone /\ \A r \in Gotos : Goto(r) => Settled
BY ConstantFacts
DEF TypeOK, Next, vars, Clients, Goto, WaitForNavigation, Browser, BrowserNavigates, Begin,
    BrowserNavigatesWithin, BrowserRefuses, PageNavigates, BrowserCommits, BrowserLoads,
    BrowserResponds, OnFrameDetached, HandlerStep, ReadSocket, ReadChannel, OnGoto,
    OnWaitForNavigation, AnswerWaiters, IssueNavigation, NavigationCompletes, NavigationFails,
    OnNavigationResult, OnNavigationResponse, Evict, OnFrameEvent, OnFrameStartedLoading, OnInit,
    OnLoad, OnNavigatedWithinDocument, browserVars, ghosts, Calls


LEMMA WireSteps ==
  ASSUME TypeOK, [Next]_vars
  PROVE  \/ wire' = wire /\ \A r \in Gotos : goal'[r] = goal[r]
         \/ wire # <<>> /\ wire' = Tail(wire)
         \/ IssueNavigation /\ wire' = Append(wire, Head(queue).req) /\ goal' = goal
<1>1. CASE BrowserNavigates \/ BrowserNavigatesWithin \/ BrowserRefuses
      BY <1>1 DEF BrowserNavigates, BrowserNavigatesWithin, BrowserRefuses
<1>2. CASE IssueNavigation
      BY <1>2 DEF IssueNavigation, ghosts
<1>3. ASSUME NEW w \in Waits, WaitForNavigation(w)
      PROVE  wire' = wire /\ \A r \in Gotos : goal'[r] = goal[r]
      BY <1>3, ConstantFacts DEF WaitForNavigation, TypeOK, Calls, browserVars
<1>4. ASSUME (\E q \in Gotos : Goto(q)) \/ OnFrameDetached \/ ReadChannel \/ AnswerWaiters
              \/ ReadSocket \/ (\E q \in Gotos : BrowserResponds(q))
              \/ (\E q \in Gotos : Evict(q)) \/ UNCHANGED vars
             \/ NavigationCompletes \/ NavigationFails
             \/ PageNavigates \/ BrowserCommits \/ BrowserLoads
      PROVE  wire' = wire /\ goal' = goal
      BY <1>4 DEF vars, Goto, OnFrameDetached,
         ReadChannel, OnGoto, OnWaitForNavigation, AnswerWaiters, ReadSocket,
         OnNavigationResponse, OnFrameEvent, OnFrameStartedLoading, OnInit, OnLoad,
         OnNavigatedWithinDocument, BrowserResponds, Evict, NavigationCompletes,
         NavigationFails, OnNavigationResult,
         PageNavigates, BrowserCommits, BrowserLoads, browserVars, ghosts
<1> QED
    BY <1>1, <1>2, <1>3, <1>4 DEF Next, Browser, HandlerStep, Clients


\* A goto waits because it did before or has just been called.
LEMMA WaitingSteps ==
  ASSUME TypeOK, Placed, [Next]_vars, NEW r \in Gotos, outcome'[r] = "waiting"
  PROVE  outcome[r] = "waiting" \/ Goto(r)
<1>1. OnGoto => outcome' = outcome
      BY OnGotoMoves
<1> QED
    BY <1>1, GotoSteps DEF Unconcerned, Advances, Concludes, Verdicts

LEMMA HeadOfQueue ==
  ASSUME TypeOK, Placed, IssueNavigation
  PROVE  /\ Head(queue).req \in Gotos /\ outcome[Head(queue).req] = "waiting"
         /\ Unissued(Head(queue).req) /\ ~Head(queue).same /\ Head(queue) = queue[1]
         /\ 1 \in 1 .. Len(queue) /\ progress[Head(queue).req] = "asked"
<1>1. queue # <<>>
      BY DEF IssueNavigation, Watched
<1>2. Head(queue) = queue[1] /\ 1 \in 1 .. Len(queue)
      BY <1>1, QueueFacts
<1> QED
    BY <1>2 DEF Placed, QueuePlaced, Tracked

LEMMA OneUnderwayStep ==
  ASSUME IInv, [Next]_vars, alone'
  PROVE  OneUnderway'
<1> USE DEF IInv
<1>1. alone /\ \A r \in Gotos : Goto(r) => Settled
      BY AloneSteps
<1>o. OneUnderway
      BY <1>1 DEF LoneInv
<1>2. ASSUME NEW r \in Gotos, NEW s \in Gotos, outcome'[r] = "waiting", outcome'[s] = "waiting"
      PROVE  r = s
  <2>1. CASE Goto(r) /\ Goto(s)
    <3>1. channel' = Append(channel, r) /\ channel' = Append(channel, s) /\ channel \in Seq(Calls)
          BY <2>1 DEF Goto, TypeOK
    <3>2. r \in Calls /\ s \in Calls
          BY DEF Calls
    <3>3. /\ Append(channel, r)[Len(channel) + 1] = r
          /\ Append(channel, s)[Len(channel) + 1] = s
          BY <3>1, <3>2, AppendPlaces
    <3> QED
        BY <3>1, <3>3
  <2>2. CASE ~Goto(r) /\ ~Goto(s)
        BY <1>2, <1>o, <2>2, WaitingSteps DEF OneUnderway
  <2>3. ASSUME NEW p \in Gotos, NEW q \in Gotos, Goto(p), ~Goto(q), outcome'[q] = "waiting"
        PROVE  FALSE
        BY <1>1, <2>3, WaitingSteps DEF Settled, NoGotoWaits
  <2> QED
      BY <1>2, <2>1, <2>2, <2>3
<1>3. /\ Len(wire') <= 1
      /\ \A i \in 1 .. Len(wire') : /\ goal'[wire'[i]] = Unknown
                                   /\ \A r \in Gotos : outcome'[r] = "waiting" => r = wire'[i]
  <2>w. wire \in Seq(Gotos)
        BY DEF TypeOK
  <2>1. CASE wire' = wire /\ \A r \in Gotos : goal'[r] = goal[r]
    <3>1. \A i \in 1 .. Len(wire) : wire[i] \in Gotos
          BY <2>w
    <3>2. \A r \in Gotos : Goto(r) => Len(wire) = 0
          BY <1>1 DEF Settled
    <3> QED
        BY <1>o, <2>1, <3>1, <3>2, WaitingSteps DEF OneUnderway
  <2>2. CASE wire # <<>> /\ wire' = Tail(wire)
        BY <1>o, <2>2, <2>w, TailPlaces DEF OneUnderway
  <2>3. CASE IssueNavigation /\ wire' = Append(wire, Head(queue).req) /\ goal' = goal
    <3> DEFINE q == Head(queue).req
    <3>1. q \in Gotos /\ outcome[q] = "waiting" /\ ~Holds(wire, q) /\ goal[q] = Unknown
          BY <2>3, HeadOfQueue DEF Unissued
    <3>2. Len(wire) = 0
      <4>1. Len(wire) \in Nat /\ (Len(wire) # 0 => 1 \in 1 .. Len(wire))
            BY <2>w
      <4> QED
          BY <1>o, <3>1, <4>1 DEF OneUnderway, Holds
    <3>3. Len(wire') = 1 /\ wire'[1] = q
          BY <2>3, <2>w, <3>1, <3>2, AppendPlaces
    <3>4. \A i \in 1 .. Len(wire') : wire'[i] = q
          BY <3>3
    <3>5. outcome' = outcome
          BY <2>3 DEF IssueNavigation
    <3> QED
        BY <1>o, <2>3, <3>1, <3>3, <3>4, <3>5 DEF OneUnderway
  <2> QED
      BY <2>1, <2>2, <2>3, WireSteps
<1> QED
    BY <1>2, <1>3 DEF OneUnderway

\* How a step moves the inbox, and what the handler makes of the message it reads.
LEMMA InboxSteps ==
  ASSUME TypeOK, [Next]_vars
  PROVE  \/ inbox' = inbox
         \/ \E m \in Messages :
              /\ inbox' = Append(inbox, m)
              /\ \/ m.type = "startedLoading" /\ (BrowserNavigates \/ PageNavigates)
                 \/ m.type = "withinDocument" /\ BrowserNavigatesWithin
                 \/ m.type = "init" /\ BrowserCommits
                 \/ m.type = "load" /\ BrowserLoads
                 \/ m.type = "response" /\ UNCHANGED doc
         \/ inbox # <<>> /\ inbox' = Tail(inbox) /\ UNCHANGED doc
<1>1. ASSUME NEW t \in Kinds, NEW n \in 0 .. MaxDocs PROVE Event(t, n) \in Messages
      BY DEF Event, Messages
<1>2. ASSUME NEW r \in Gotos PROVE ResponseTo(r) \in Messages
      BY ConstantFacts DEF ResponseTo, Messages, Kinds
<1>3. doc.loader \in 0 .. MaxDocs /\ (doc.loader < MaxDocs => doc.loader + 1 \in 0 .. MaxDocs)
      BY ConstantFacts DEF TypeOK
<1>4. ASSUME BrowserNavigates \/ PageNavigates
      PROVE  \E m \in Messages : inbox' = Append(inbox, m) /\ m.type = "startedLoading"
  <2>1. inbox' = Append(inbox, Event("startedLoading", doc.loader + 1)) /\ doc.loader < MaxDocs
        BY <1>4 DEF BrowserNavigates, PageNavigates, Begin
  <2>2. Event("startedLoading", doc.loader + 1) \in Messages
        BY <1>1, <1>3, <2>1 DEF Kinds
  <2> QED
      BY <2>1, <2>2 DEF Event
<1>5. ASSUME BrowserNavigatesWithin
      PROVE  \E m \in Messages : inbox' = Append(inbox, m) /\ m.type = "withinDocument"
      BY <1>1, <1>3, <1>5 DEF BrowserNavigatesWithin, Event, Kinds
<1>6. ASSUME BrowserCommits
      PROVE  \E m \in Messages : inbox' = Append(inbox, m) /\ m.type = "init"
      BY <1>1, <1>3, <1>6 DEF BrowserCommits, Event, Kinds
<1>7. ASSUME BrowserLoads
      PROVE  \E m \in Messages : inbox' = Append(inbox, m) /\ m.type = "load"
      BY <1>1, <1>3, <1>7 DEF BrowserLoads, Event, Kinds
<1>8. ASSUME NEW r \in Gotos, BrowserResponds(r)
      PROVE  \E m \in Messages : inbox' = Append(inbox, m) /\ m.type = "response" /\ UNCHANGED doc
      BY <1>2, <1>8 DEF BrowserResponds, ResponseTo
<1>9. ASSUME ReadSocket PROVE inbox # <<>> /\ inbox' = Tail(inbox) /\ UNCHANGED doc
      BY <1>9 DEF ReadSocket, OnNavigationResponse, OnFrameEvent, OnFrameStartedLoading, OnInit,
         OnLoad, OnNavigatedWithinDocument, browserVars
<1>10. ASSUME Clients \/ BrowserRefuses \/ OnFrameDetached \/ ReadChannel \/ AnswerWaiters
              \/ IssueNavigation \/ NavigationCompletes \/ NavigationFails
              \/ (\E r \in Gotos : Evict(r)) \/ UNCHANGED vars
       PROVE  inbox' = inbox
       BY <1>10 DEF vars, Clients, Goto, WaitForNavigation, BrowserRefuses, OnFrameDetached,
          ReadChannel, OnGoto, OnWaitForNavigation, AnswerWaiters, IssueNavigation,
          NavigationCompletes, NavigationFails, OnNavigationResult, Evict
<1> QED
    BY <1>4, <1>5, <1>6, <1>7, <1>8, <1>9, <1>10 DEF Next, Browser, HandlerStep

LEMMA InboxIs == TypeOK => inbox \in Seq(Messages)
BY DEF TypeOK, Messages, Kinds

LEMMA QuietStep ==
  ASSUME IInv, [Next]_vars, alone'
  PROVE  QuietUntilRead'
<1> USE DEF IInv
<1>1. alone /\ \A r \in Gotos : Goto(r) => Settled
      BY AloneSteps
<1>2. OneUnderway /\ QuietUntilRead
      BY <1>1 DEF LoneInv
<1> SUFFICES ASSUME NEW r \in Gotos, outcome'[r] = "waiting", goal'[r] = Unknown
             PROVE  /\ doc'.stage = "loaded"
                    /\ \A i \in 1 .. Len(inbox') : inbox'[i].type = "response"
    BY DEF QuietUntilRead
<1>3. CASE Goto(r)
  <2>1. doc.stage = "loaded" /\ inbox = <<>>
        BY <1>1, <1>3 DEF Settled
  <2>2. doc' = doc /\ inbox' = inbox
        BY <1>3 DEF Goto, browserVars
  <2> QED
      BY <2>1, <2>2
<1>4. CASE outcome[r] = "waiting"
  <2>0. doc.loader \in 0 .. MaxDocs
        BY DEF TypeOK
  <2>1. goal[r] = Unknown
        BY <2>0, GoalSteps, ConstantFacts
  <2>2. doc.stage = "loaded" /\ \A i \in 1 .. Len(inbox) : inbox[i].type = "response"
        BY <1>2, <1>4, <2>1 DEF QuietUntilRead
  <2>3. ~PageNavigates
        BY <1>4 DEF PageNavigates, Settled, NoGotoWaits
  <2>4. ~BrowserCommits /\ ~BrowserLoads
        BY <2>2 DEF BrowserCommits, BrowserLoads
  <2>5. ~BrowserNavigates /\ ~BrowserNavigatesWithin
    <3> SUFFICES ASSUME BrowserNavigates \/ BrowserNavigatesWithin PROVE FALSE
        OBVIOUS
    <3>1. wire # <<>> /\ wire \in Seq(Gotos)
          BY DEF BrowserNavigates, BrowserNavigatesWithin, TypeOK
    <3>2. Head(wire) = wire[1] /\ 1 \in 1 .. Len(wire)
          BY <3>1, TailPlaces
    <3>3. Head(wire) = r
          BY <1>2, <1>4, <3>2 DEF OneUnderway
    <3>4. \/ goal'[r] = doc.loader
          \/ goal'[r] = doc.loader + 1 /\ doc.loader < MaxDocs
          BY <3>3 DEF BrowserNavigates, BrowserNavigatesWithin, Begin, TypeOK, Calls
    <3> QED
        BY <2>0, <3>4, ConstantFacts
  <2>6. CASE inbox' = inbox /\ doc' = doc
        BY <2>2, <2>6
  <2>7. ASSUME NEW m \in Messages, inbox' = Append(inbox, m), m.type = "response", UNCHANGED doc
        PROVE  /\ doc'.stage = "loaded"
               /\ \A i \in 1 .. Len(inbox') : inbox'[i].type = "response"
        BY <2>2, <2>7, InboxIs, AppendPlaces
  <2>8. CASE inbox # <<>> /\ inbox' = Tail(inbox) /\ UNCHANGED doc
        BY <2>2, <2>8, InboxIs, TailPlaces
  <2>9. doc' = doc
        BY <2>3, <2>4, <2>5, DocSteps, InboxSteps DEF TypeOK
  <2> QED
      BY <2>3, <2>4, <2>5, <2>6, <2>7, <2>8, <2>9, InboxSteps
<1> QED
    BY <1>3, <1>4, WaitingSteps

LEMMA FrameSteps ==
  ASSUME TypeOK, [Next]_vars
  PROVE  \/ frame' = frame
         \/ frame'.loader = frame.loader /\ ~frame'.loaded
         \/ OnInit /\ ~frame'.loaded
         \/ OnLoad /\ frame'.loader = frame.loader
BY ConstantFacts
DEF TypeOK, Next, vars, Clients, Goto, WaitForNavigation, Browser, BrowserNavigates, Begin,
    BrowserNavigatesWithin, BrowserRefuses, PageNavigates, BrowserCommits, BrowserLoads,
    BrowserResponds, OnFrameDetached, HandlerStep, ReadSocket, ReadChannel, OnGoto,
    OnWaitForNavigation, AnswerWaiters, IssueNavigation, NavigationCompletes, NavigationFails,
    OnNavigationResult, OnNavigationResponse, Evict, OnFrameEvent, OnFrameStartedLoading, OnInit,
    OnLoad, OnNavigatedWithinDocument, frameVars

LEMMA QueuedStep ==
  ASSUME IInv, [Next]_vars, alone'
  PROVE  QueuedAtTheDocument'
<1> USE DEF IInv
<1>1. alone /\ QuietUntilRead /\ QueuedAtTheDocument
      BY AloneSteps DEF LoneInv
<1>q. queue \in Seq(Watchers)
      BY DEF TypeOK
<1>2. CASE queue # <<>> /\ frame'.loader = frame.loader
  <2>1. CASE queue' = queue
        BY <1>1, <1>2, <2>1 DEF QueuedAtTheDocument
  <2>2. CASE OnGoto /\ queue' = Append(queue, [req |-> Head(channel), loader |-> frame.loader,
                                             same |-> FALSE])
    <3>1. [req |-> Head(channel), loader |-> frame.loader, same |-> FALSE] \in Watchers
          BY <2>2, OnGotoMoves, ConstantFacts DEF TypeOK, Watchers
    <3> QED
        BY <1>q, <1>1, <1>2, <2>2, <3>1, AppendPlaces DEF QueuedAtTheDocument
  <2>3. CASE queue' = Tail(queue)
        BY <1>q, <1>1, <1>2, <2>3, TailPlaces DEF QueuedAtTheDocument
  <2> QED
      BY <2>1, <2>2, <2>3, QueueSteps
<1>3. CASE queue = <<>>
  <2>1. CASE queue' = queue
        BY <1>3, <2>1 DEF QueuedAtTheDocument
  <2>2. CASE OnGoto /\ queue' = Append(queue, [req |-> Head(channel), loader |-> frame.loader,
                                             same |-> FALSE])
        BY <1>3, <2>2 DEF QueuedAtTheDocument, OnGoto
  <2> QED
      BY <1>3, <2>1, <2>2, QueueSteps
<1>4. CASE queue # <<>> /\ OnInit
  <2>1. Len(queue) \in Nat \ {0} /\ 1 \in 1 .. Len(queue)
        BY <1>4, QueueFacts
  <2>2. /\ queue[1].req \in Gotos /\ outcome[queue[1].req] = "waiting"
        /\ goal[queue[1].req] = Unknown
        BY <2>1 DEF Placed, QueuePlaced, Tracked, Unissued
  <2>3. inbox # <<>> /\ Read.type = "init"
        BY <1>4 DEF OnInit, OnFrameEvent
  <2>4. Read = inbox[1] /\ 1 \in 1 .. Len(inbox)
        BY <2>3, ReadFacts
  <2> QED
      BY <1>1, <2>2, <2>3, <2>4 DEF QuietUntilRead
<1> QED
    BY <1>2, <1>3, <1>4, FrameSteps

LEMMA NewestSteps ==
  ASSUME TypeOK, DocsInOrder, [Next]_vars
  PROVE  newest' >= newest /\ newest \in Nat /\ newest' \in Nat
<1>1. newest \in Nat /\ doc.loader \in Nat
      BY ConstantFacts DEF TypeOK
<1> QED
    BY <1>1, DocSteps DEF DocsInOrder

\* A document that has loaded has not gone again.
LEMMA LoadedStays ==
  ASSUME IInv, [Next]_vars, alone, NEW r \in Gotos, goal[r] <= newest
  PROVE  goal'[r] <= newest'
<1> USE DEF IInv
<1>1. goal[r] \in Nat /\ newest \in 0 .. MaxDocs /\ newest' >= newest /\ newest' \in Nat
      BY NewestSteps, ConstantFacts DEF TypeOK, Calls
<1>2. goal[r] # Unknown
      BY <1>1, ConstantFacts
<1>3. ~(wire # <<>> /\ Head(wire) = r)
  <2>1. wire \in Seq(Gotos)
        BY DEF TypeOK
  <2>2. wire # <<>> => Head(wire) = wire[1] /\ 1 \in 1 .. Len(wire)
        BY <2>1, TailPlaces
  <2> QED
      BY <1>2, <2>2 DEF LoneInv, OneUnderway
<1> QED
    BY <1>1, <1>3, GoalSteps

\* The watcher sees a load only when the document of the goto has loaded.
LEMMA SeenLoadedIsLoaded ==
  ASSUME IInv, alone, NEW r \in Gotos, SeenLoaded(r)
  PROVE  goal[r] <= newest
<1> USE DEF IInv
<1>1. CASE progress[r] = "navigated"
      BY <1>1 DEF LoneInv, DoneIsLoaded
<1>2. CASE NavigationCompletes /\ current.req = r /\ progress[r] # "none"
      BY <1>2 DEF LoneInv, Unfinished, NavigationCompletes, LifecycleComplete
<1> QED
    BY <1>1, <1>2 DEF SeenLoaded

LEMMA DoneStep ==
  ASSUME IInv, [Next]_vars, alone'
  PROVE  DoneIsLoaded'
<1> USE DEF IInv
<1>1. alone
      BY AloneSteps
<1>2. DoneIsLoaded
      BY <1>1 DEF LoneInv
<1> SUFFICES ASSUME NEW r \in Gotos, outcome'[r] = "answered" \/ progress'[r] = "navigated"
             PROVE  goal'[r] <= newest'
    BY DEF DoneIsLoaded
<1>3. goal[r] <= newest
  <2>1. CASE Goto(r)
        BY <2>1, GotoMoves DEF Placed, IdlePlaced
  <2>2. CASE OnGoto /\ Head(channel) = r
        BY <2>2, OnGotoMoves DEF Placed, ChannelPlaced
  <2>3. CASE Unconcerned(r)
        BY <1>2, <2>3 DEF DoneIsLoaded, Unconcerned
  <2>4. CASE Advances(r) \/ Concludes(r)
        BY <1>1, <1>2, <2>4, SeenLoadedIsLoaded DEF DoneIsLoaded, Advances, Concludes
  <2> QED
      BY <2>1, <2>2, <2>3, <2>4, GotoSteps
<1> QED
    BY <1>1, <1>3, LoadedStays

\* The watcher is set by IssueNavigation and cleared by its result; only an event of
\* the document marks it.
LEMMA CurrentSteps ==
  ASSUME TypeOK, [Next]_vars
  PROVE  \/ current' = current
         \/ OnNavigatedWithinDocument /\ current'.req = current.req
         \/ IssueNavigation /\ current' = Head(queue) /\ Idle
         \/ (NavigationCompletes \/ NavigationFails) /\ current' = NoWatcher /\ ~Idle
<1>1. CASE OnNavigatedWithinDocument
      BY <1>1 DEF OnNavigatedWithinDocument, TypeOK, Watchers
<1>2. CASE IssueNavigation
      BY <1>2 DEF IssueNavigation, Watched
<1>3. CASE NavigationCompletes \/ NavigationFails
      BY <1>3 DEF NavigationCompletes, NavigationFails, OnNavigationResult
<1>4. ASSUME Clients \/ Browser \/ OnFrameDetached \/ ReadChannel \/ AnswerWaiters
             \/ OnNavigationResponse \/ OnFrameStartedLoading \/ OnInit \/ OnLoad
             \/ (\E r \in Gotos : Evict(r)) \/ UNCHANGED vars
      PROVE  current' = current
      BY <1>4 DEF vars, Clients, Goto, WaitForNavigation, Browser, BrowserNavigates, Begin,
         BrowserNavigatesWithin, BrowserRefuses, PageNavigates, BrowserCommits, BrowserLoads,
         BrowserResponds, OnFrameDetached, ReadChannel, OnGoto, OnWaitForNavigation,
         AnswerWaiters, OnNavigationResponse, OnFrameStartedLoading, OnInit, OnLoad, Evict,
         frameVars
<1> QED
    BY <1>1, <1>2, <1>3, <1>4 DEF Next, HandlerStep, ReadSocket

LEMMA UnfinishedStep ==
  ASSUME IInv, [Next]_vars, alone'
  PROVE  Unfinished'
<1> USE DEF IInv
<1>1. alone
      BY AloneSteps
<1>2. OneUnderway /\ QuietUntilRead /\ QueuedAtTheDocument /\ Unfinished
      BY <1>1 DEF LoneInv
<1>3. CASE IssueNavigation
  <2> DEFINE r == Head(queue).req
  <2>1. /\ r \in Gotos /\ outcome[r] = "waiting" /\ goal[r] = Unknown
        /\ ~Head(queue).same /\ Head(queue) = queue[1] /\ 1 \in 1 .. Len(queue)
        BY <1>3, HeadOfQueue DEF Unissued
  <2>2. current' = Head(queue) /\ frame' = frame /\ inbox' = inbox
        BY <1>3 DEF IssueNavigation
  <2>3. \A i \in 1 .. Len(inbox) : inbox[i].type \notin {"load", "withinDocument"}
        BY <1>2, <2>1 DEF QuietUntilRead
  <2>4. frame.loader = Head(queue).loader
        BY <1>2, <2>1 DEF QueuedAtTheDocument
  <2> QED
      BY <2>1, <2>2, <2>3, <2>4 DEF Unfinished
<1>4. CASE current' = NoWatcher
      BY <1>4, ConstantFacts DEF Unfinished, Idle
<1>5. CASE current'.req = current.req /\ ~Idle
  <2> DEFINE r == current.req
  <2>1. r \in Gotos
        BY <1>5 DEF TypeOK, Idle, Watchers
  <2>2. CASE progress[r] = "none"
    <3>1. ~(OnGoto /\ Head(channel) = r)
          BY OnGotoMoves DEF Placed, ChannelPlaced, Unissued
    <3>2. progress'[r] = "none"
          BY <2>1, <2>2, <3>1, GotoSteps, GotoMoves DEF Unconcerned, Advances, Concludes
    <3> QED
        BY <1>5, <3>2 DEF Unfinished
  <2>3. CASE goal[r] <= newest
    <3>1. goal'[r] <= newest'
          BY <1>1, <2>1, <2>3, LoadedStays
    <3> QED
        BY <1>5, <3>1 DEF Unfinished
  <2>4. CASE progress[r] # "none" /\ ~(goal[r] <= newest)
    <3>1. /\ outcome[r] = "waiting" /\ ~current.same
          /\ \A i \in 1 .. Len(inbox) : inbox[i].type \notin {"load", "withinDocument"}
          /\ frame.loaded => frame.loader = current.loader
          BY <1>2, <1>5, <2>1, <2>4 DEF Unfinished, Placed, Tracked
    <3>2. inbox # <<>> => Read.type \notin {"load", "withinDocument"}
      <4>1. inbox # <<>> => Read = inbox[1] /\ 1 \in 1 .. Len(inbox)
            BY ReadFacts
      <4> QED
          BY <3>1, <4>1
    <3>3. current' = current
      <4>1. ~OnNavigatedWithinDocument
            BY <3>2 DEF OnNavigatedWithinDocument, OnFrameEvent
      <4>2. ~IssueNavigation /\ current' # NoWatcher
            BY <1>5, ConstantFacts DEF IssueNavigation, Watched, Idle
      <4> QED
          BY <4>1, <4>2, CurrentSteps
    <3>4. frame'.loaded => frame'.loader = current.loader
          BY <3>1, <3>2, FrameSteps DEF OnLoad, OnFrameEvent
    <3>5. CASE ~BrowserLoads /\ ~BrowserNavigatesWithin
      <4>1. \A i \in 1 .. Len(inbox') : inbox'[i].type \notin {"load", "withinDocument"}
        <5>1. CASE inbox' = inbox
              BY <3>1, <5>1
        <5>2. ASSUME NEW m \in Messages, inbox' = Append(inbox, m),
                     m.type \notin {"load", "withinDocument"}
              PROVE  \A i \in 1 .. Len(inbox') : inbox'[i].type \notin {"load", "withinDocument"}
              BY <3>1, <5>2, InboxIs, AppendPlaces
        <5>3. CASE inbox # <<>> /\ inbox' = Tail(inbox)
              BY <3>1, <5>3, InboxIs, TailPlaces
        <5> QED
            BY <3>5, <5>1, <5>2, <5>3, InboxSteps
      <4> QED
          BY <3>1, <3>3, <3>4, <4>1 DEF Unfinished
    <3>6. CASE BrowserLoads
      <4>1. doc.stage = "committed" /\ newest' = doc.loader /\ goal' = goal
            BY <3>6 DEF BrowserLoads, ghosts
      <4>2. goal[r] <= doc.loader
            BY <1>2, <2>1, <3>1, <4>1 DEF QuietUntilRead, DocsInOrder
      <4> QED
          BY <1>5, <4>1, <4>2 DEF Unfinished
    <3>7. CASE BrowserNavigatesWithin
      <4>1. wire # <<>> /\ wire \in Seq(Gotos) /\ doc.stage = "loaded"
            BY <3>7 DEF BrowserNavigatesWithin, TypeOK
      <4>2. Head(wire) = r
        <5>1. Head(wire) = wire[1] /\ 1 \in 1 .. Len(wire)
              BY <4>1, TailPlaces
        <5> QED
            BY <1>2, <2>1, <3>1, <5>1 DEF OneUnderway
      <4>3. goal'[r] = doc.loader /\ newest' = newest
            BY <2>1, <3>7, <4>2 DEF BrowserNavigatesWithin, TypeOK, Calls
      <4>4. newest = doc.loader /\ newest \in Nat
            BY <4>1, ConstantFacts DEF DocsInOrder, TypeOK
      <4> QED
          BY <1>5, <4>3, <4>4 DEF Unfinished
    <3> QED
        BY <3>5, <3>6, <3>7
  <2> QED
      BY <2>2, <2>3, <2>4
<1>6. CASE current'.req = current.req /\ Idle
      BY <1>6 DEF Unfinished, Idle
<1> QED
    BY <1>3, <1>4, <1>5, <1>6, CurrentSteps

LEMMA LoneStep == IInv /\ [Next]_vars => LoneInv'
<1> SUFFICES ASSUME IInv, [Next]_vars, alone'
             PROVE  OneUnderway' /\ QuietUntilRead' /\ QueuedAtTheDocument' /\ Unfinished'
                    /\ DoneIsLoaded'
    BY DEF LoneInv
<1> QED
    BY OneUnderwayStep, QuietStep, QueuedStep, UnfinishedStep, DoneStep

-----------------------------------------------------------------------------
(* A call on its way to the browser is watched, or was given up.            *)

\* The result of a navigation leaves its goto without a watcher only when the goto
\* has been told or waits for nothing but the response.
LEMMA WatchEnds ==
  ASSUME TypeOK, NavigationCompletes \/ NavigationFails, progress[current.req] # "none"
  PROVE  outcome'[current.req] # "waiting" \/ progress'[current.req] = "navigated"
<1> DEFINE r == current.req
<1>1. r \in Gotos
      BY DEF NavigationCompletes, NavigationFails, Idle, TypeOK, Watchers
<1>2. \/ Conclude({r}, "timeout") \/ Conclude({r}, "answered")
      \/ progress' = [progress EXCEPT ![r] = "navigated"]
      BY DEF NavigationCompletes, NavigationFails, OnNavigationResult
<1>3. CASE Conclude({r}, "timeout")
      BY <1>1, <1>3, Concluded DEF Verdicts
<1>4. CASE Conclude({r}, "answered")
      BY <1>1, <1>4, Concluded DEF Verdicts
<1>5. CASE progress' = [progress EXCEPT ![r] = "navigated"]
      BY <1>1, <1>5, SetProgress
<1> QED
    BY <1>2, <1>3, <1>4, <1>5

LEMMA OneNavigationStep ==
  ASSUME TypeOK, Placed, OneNavigationAtATime, [Next]_vars
  PROVE  OneNavigationAtATime'
<1>w. wire \in Seq(Gotos)
      BY DEF TypeOK
<1>1. ASSUME NEW r \in Gotos, Holds(wire, r), outcome'[r] = "waiting"
      PROVE  r = current'.req \/ progress'[r] = "navigated"
  <2>1. outcome[r] = "waiting" /\ ~Unissued(r)
        BY <1>1, WaitingSteps, GotoMoves DEF Placed, IdlePlaced, Unissued
  <2>2. ~(OnGoto /\ Head(channel) = r) /\ ~Goto(r)
        BY <2>1, OnGotoMoves, GotoMoves DEF Placed, ChannelPlaced
  <2>3. progress[r] # "none"
    <3>1. ~Holds(channel, r)
          BY <1>1, <2>1 DEF Holds, Placed, ChannelPlaced
    <3> QED
        BY <2>1, <3>1 DEF Placed, Tracked
  <2>4. r = current.req \/ progress[r] = "navigated"
        BY <1>1, <2>1 DEF OneNavigationAtATime, Holds
  <2>5. CASE progress[r] = "navigated"
        BY <1>1, <2>2, <2>5, GotoSteps DEF Unconcerned, Advances, Concludes
  <2>6. CASE r = current.req
    <3>1. ~Idle
          BY <2>6, ConstantFacts DEF Idle
    <3> QED
        BY <1>1, <2>3, <2>6, <3>1, CurrentSteps, WatchEnds
  <2> QED
      BY <2>4, <2>5, <2>6
<1> SUFFICES ASSUME NEW i \in 1 .. Len(wire'), outcome'[wire'[i]] = "waiting"
             PROVE  wire'[i] = current'.req \/ progress'[wire'[i]] = "navigated"
    BY DEF OneNavigationAtATime
<1>2. CASE wire' = wire
      BY <1>1, <1>2, <1>w DEF Holds
<1>3. CASE wire # <<>> /\ wire' = Tail(wire)
  <2>1. wire'[i] = wire[i + 1] /\ i + 1 \in 1 .. Len(wire) /\ wire[i + 1] \in Gotos
        BY <1>3, <1>w, TailPlaces
  <2> QED
      BY <1>1, <2>1 DEF Holds
<1>4. CASE IssueNavigation /\ wire' = Append(wire, Head(queue).req)
  <2>1. Head(queue).req \in Gotos /\ current' = Head(queue)
        BY <1>4, HeadOfQueue DEF IssueNavigation
  <2>2. CASE i \in 1 .. Len(wire)
    <3>1. wire'[i] = wire[i] /\ wire[i] \in Gotos
          BY <1>4, <1>w, <2>1, <2>2, AppendPlaces
    <3> QED
        BY <1>1, <2>2, <3>1 DEF Holds
  <2>3. CASE i = Len(wire) + 1
    <3>1. wire'[i] = Head(queue).req
          BY <1>4, <1>w, <2>1, <2>3, AppendPlaces
    <3> QED
        BY <2>1, <3>1
  <2>4. Len(wire') = Len(wire) + 1 /\ Len(wire) \in Nat
        BY <1>4, <1>w, <2>1, AppendPlaces
  <2> QED
      BY <2>2, <2>3, <2>4
<1> QED
    BY <1>2, <1>3, <1>4, WireSteps

-----------------------------------------------------------------------------
LEMMA InductiveInit == Init => IInv
BY TypeInit, PlacedInit, DocsInit, LoneInit DEF IInv

LEMMA InductiveStep == IInv /\ [Next]_vars => IInv'
<1>1. Placed => QueueHolds
      BY DEF Placed, QueuePlaced, QueueHolds
<1> QED
    BY <1>1, TypeStep, PlacedStep, DocsStep, LoneStep DEF IInv

\* Every reachable state has the type of its variables.
THEOREM NavigationTypeCorrect == Spec => []TypeOK
<1>1. IInv => TypeOK
      BY DEF IInv
<1> QED
    BY <1>1, InductiveInit, InductiveStep, PTL DEF Spec

\* FrameManager::poll (frame.rs) keeps one navigation under way per page, whatever
\* times out or is lost: a Page.navigate call that the browser has not read and whose
\* goto still waits is the one being watched, or its watcher has already seen a load.
THEOREM OneNavigation == Spec => []OneNavigationAtATime
<1>1. Init => OneNavigationAtATime
      BY DEF Init, OneNavigationAtATime
<1>2. IInv /\ OneNavigationAtATime /\ [Next]_vars => OneNavigationAtATime'
      BY OneNavigationStep DEF IInv
<1> QED
    BY <1>1, <1>2, InductiveInit, InductiveStep, PTL DEF Spec

\* Page::goto (page.rs), through on_navigation_lifecycle_completed and on_response
\* (handler/mod.rs): as long as no navigation begins while another one is unfinished,
\* a goto is answered only after its document, or a later one, has loaded.
THEOREM GotoSeesItsPage == Spec => []LoneAnsweredAfterLoad
<1>1. IInv => LoneAnsweredAfterLoad
  <2> SUFFICES ASSUME IInv, alone, NEW r \in Gotos, outcome[r] = "answered"
               PROVE  newest >= goal[r]
      BY DEF LoneAnsweredAfterLoad, AnsweredAfterLoad
  <2>1. goal[r] <= newest
        BY DEF IInv, LoneInv, DoneIsLoaded
  <2>2. goal[r] \in Nat /\ newest \in Nat
        BY ConstantFacts DEF IInv, TypeOK, Calls
  <2> QED
      BY <2>1, <2>2
<1> QED
    BY <1>1, InductiveInit, InductiveStep, PTL DEF Spec
=============================================================================
