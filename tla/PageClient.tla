----------------------------- MODULE PageClient -----------------------------
(***************************************************************************)
(* A page whose requests may be intercepted: the NetworkManager and the    *)
(* EventListeners of its target (Network, Listeners), the client that      *)
(* authenticates, listens for Fetch.requestPaused and continues what it    *)
(* hears of, and the browser that sends the requests.                      *)
(*                                                                         *)
(* An event is read when the browser sends it: one that is read later is   *)
(* like one the browser sends later.  The commands take their time.        *)
(***************************************************************************)
EXTENDS Network, Listeners

CONSTANTS
  Keeper,        \* the stream by which the client continues the requests; never dropped
  MaxChallenges  \* bound: times a request is asked for credentials

ASSUME PageClientAssumption == Keeper \in Streams /\ MaxChallenges \in Nat

VARIABLES
  inbox,     \* PageHandle::rx: the messages of the page, which are drained together, by kind
  out,       \* commands sent to the browser and not yet read
  reported,  \* requests told to the FrameManager as finished or failed
  req,       \* the browser's requests
  fetching,  \* the Fetch domain is enabled in the browser
  cache,     \* the browser may answer from its cache
  log,       \* the hops paused so far
  since      \* by subscribed stream: how many were paused before, and then read

targetVars == <<inbox, out, reported>>
browserVars == <<req, fetching, cache>>
vars == <<networkVars, listenersVars, targetVars, browserVars, log, since>>

\* The commands and the subscriptions, each in their order, and whether credentials are sent.
NoMessages == [commands |-> <<>>, listens |-> <<>>, credentials |-> FALSE]

Init ==
  /\ NetworkInit /\ ListenersInit
  /\ inbox = NoMessages /\ out = <<>> /\ reported = <<>>
  /\ req = [r \in Requests |->
             [stage |-> "idle", hop |-> 0, data |-> FALSE, told |-> "no", pause |-> "due",
              asked |-> 0, offered |-> 0, refused |-> FALSE, odd |-> FALSE]]
  /\ fetching = FALSE /\ cache = TRUE
  /\ log = <<>> /\ since = <<>>

-----------------------------------------------------------------------------
(* The client.                                                             *)

Send(kind, messages) ==
  inbox' = [inbox EXCEPT ![kind] = messages] /\ UNCHANGED <<out, reported>>

\* Page::event_listener, once for each stream.
Listens(s) ==
  /\ s \notin Range(inbox.listens) /\ s \notin DOMAIN since
  /\ s \notin dropped
  /\ Send("listens", Append(inbox.listens, s))
  /\ UNCHANGED <<networkVars, listenersVars, browserVars, log, since>>

\* Page::authenticate: it does not wait for an answer.
Authenticates ==
  /\ ~credentials /\ ~inbox.credentials
  /\ Send("credentials", TRUE)
  /\ UNCHANGED <<networkVars, listenersVars, browserVars, log, since>>

\* EventStream::poll_next.  If interception is the client's, it continues the request.
Reads(s) ==
  /\ stream[s] # <<>> /\ s \notin dropped
  /\ stream' = [stream EXCEPT ![s] = Tail(@)]
  /\ since' = [since EXCEPT ![s] = @ + 1]
  /\ IF user /\ s = Keeper
     THEN Send("commands", Append(inbox.commands, Continue(Head(stream[s]))))
     ELSE UNCHANGED targetVars
  /\ UNCHANGED <<networkVars, subs, dropped, browserVars, log>>

Drops(s) ==
  /\ s # Keeper /\ s \notin dropped
  /\ s \in DOMAIN since \/ s \in Range(inbox.listens)
  /\ dropped' = dropped \cup {s} /\ stream' = [stream EXCEPT ![s] = <<>>]
  /\ UNCHANGED <<networkVars, subs, targetVars, browserVars, log, since>>

-----------------------------------------------------------------------------
(* The target.                                                             *)

\* Target::poll and then EventListeners::poll: the inbox is drained first, so the commands
\* of the page are sent before those its Authenticate leads to.
Poll ==
  LET added == inbox.listens
  IN /\ inbox' = NoMessages
     /\ out' = out \o inbox.commands \o Drained(inbox.credentials)
     /\ reported' = reported \o reports
     /\ Authenticate(inbox.credentials) /\ queued' = <<>> /\ reports' = <<>>
     /\ PollListeners(subs \o [n \in DOMAIN added |-> AddListener(added[n])])
     /\ since' = [s \in DOMAIN since \cup Range(added) |->
                    IF s \in DOMAIN since THEN since[s] ELSE Len(log)]
     /\ UNCHANGED <<dropped, browserVars, log>>

-----------------------------------------------------------------------------
(* The browser (external).  A hop of a request is told to the page         *)
(* ("no", "plain" or "parked", as the manager takes it) and leaves for the *)
(* network, where it is paused or passes, in either order.                 *)

Intercepted(r) == req[r].pause \in {"paused", "continued"}

\* The manager took the hop for what it turned out not to be.
Mistaken(r) == (req[r].told = "parked") # Intercepted(r)

Unread == UNCHANGED <<listenersVars, targetVars, fetching, cache, log, since>>

Begins(r, data) ==
  /\ req[r].stage = "idle"
  /\ req' = [req EXCEPT ![r].stage = "sending", ![r].data = data]
  /\ UNCHANGED networkVars /\ Unread

\* Network.requestWillBeSent.
Tells(r) ==
  /\ req[r].stage = "sending" /\ req[r].told = "no"
  /\ req' = [req EXCEPT ![r].told = IF intercepting /\ ~req[r].data THEN "parked" ELSE "plain"]
  /\ OnRequestWillBeSent(r, req[r].hop > 0, req[r].data) /\ Unread

\* Fetch.requestPaused.
Pauses(r) ==
  /\ req[r].stage = "sending" /\ req[r].pause = "due" /\ fetching /\ ~req[r].data
  /\ req' = [req EXCEPT ![r].pause = "paused"]
  /\ OnRequestPaused(<<r, req[r].hop>>)
  /\ StartSend(<<r, req[r].hop>>) /\ log' = Append(log, <<r, req[r].hop>>)
  /\ UNCHANGED <<stream, dropped, targetVars, fetching, cache, since>>

\* Nothing pauses data, what is cached, or anything while the domain is off.
Passes(r) ==
  /\ req[r].stage = "sending" /\ req[r].pause = "due"
  /\ ~fetching \/ req[r].data \/ cache
  /\ req' = [req EXCEPT ![r].pause = "passed"]
  /\ UNCHANGED networkVars /\ Unread

Answerable(r) ==
  req[r].stage = "sending" /\ req[r].told # "no" /\ req[r].pause \in {"passed", "continued"}

\* Fetch.authRequired.
Challenges(r) ==
  /\ Answerable(r) /\ req[r].pause = "continued" /\ ~req[r].refused
  /\ req[r].asked < MaxChallenges
  /\ req' = [req EXCEPT ![r].stage = "challenged", ![r].asked = @ + 1]
  /\ OnAuthRequired(<<r, req[r].hop>>) /\ Unread

\* Network.responseReceived.
Responds(r) ==
  /\ Answerable(r)
  /\ req' = [req EXCEPT ![r].stage = "answered", ![r].odd = @ \/ Mistaken(r)]
  /\ OnResponseReceived(r) /\ Unread

Redirects(r) ==
  /\ Answerable(r) /\ ~req[r].data /\ req[r].hop < MaxHops
  /\ req' = [req EXCEPT ![r].hop = @ + 1, ![r].told = "no", ![r].pause = "due",
                        ![r].refused = FALSE, ![r].offered = 0, ![r].odd = @ \/ Mistaken(r)]
  /\ UNCHANGED networkVars /\ Unread

\* Network.loadingFinished of a request that was answered, Network.loadingFailed of any.
Ends(r) ==
  /\ req[r].stage \in {"sending", "challenged", "answered"} /\ req[r].told # "no"
  /\ req' = [req EXCEPT ![r].stage = "over",
                        ![r].odd = @ \/ (req[r].stage # "answered" /\ Mistaken(r))]
  /\ OnLoadingOver(r) /\ Unread

\* A command for a hop that does not wait for it has no effect.
Obey(command) ==
  \/ /\ command.type = "cacheDisabled"
     /\ cache' = ~command.on /\ UNCHANGED <<req, fetching>>
  \/ /\ command.type = "fetchEnable"
     /\ fetching' = TRUE /\ UNCHANGED <<req, cache>>
  \/ /\ command.type = "continue"
     /\ LET r == command.id[1]
        IN req' = IF command.id = <<r, req[r].hop>> /\ req[r].pause = "paused"
                  THEN [req EXCEPT ![r].pause = "continued"] ELSE req
     /\ UNCHANGED <<fetching, cache>>
  \/ /\ command.type = "auth"
     /\ LET r == command.id[1]
        IN req' = IF command.id = <<r, req[r].hop>> /\ req[r].stage = "challenged"
                  THEN [req EXCEPT ![r].stage = "sending",
                                   ![r].refused = command.answer # "provide",
                                   ![r].offered = @ + IF command.answer = "provide" THEN 1 ELSE 0]
                  ELSE req
     /\ UNCHANGED <<fetching, cache>>

BrowserReads ==
  /\ out # <<>> /\ out' = Tail(out)
  /\ Obey(Head(out))
  /\ UNCHANGED <<networkVars, listenersVars, inbox, reported, log, since>>

Browser(r) ==
  \/ \E data \in BOOLEAN : Begins(r, data)
  \/ Tells(r) \/ Pauses(r) \/ Passes(r) \/ Challenges(r) \/ Responds(r) \/ Redirects(r) \/ Ends(r)

Next ==
  \/ Authenticates \/ Poll \/ BrowserReads
  \/ \E s \in Streams : Listens(s) \/ Reads(s) \/ Drops(s)
  \/ \E r \in Requests : Browser(r)

\* What wakes the handler: a message of the page, or an event, after which poll_next goes
\* round again.  The drop of a stream does not, and the timer cannot be relied on: job.rs:22.
Woken ==
  \/ inbox # NoMessages \/ queued # <<>> \/ reports # <<>>
  \/ \E n \in DOMAIN subs : subs[n].queue # <<>>

\* The handler is polled when it is woken, commands arrive, and the client reads the
\* stream it keeps.
Spec ==
  /\ Init /\ [][Next]_vars
  /\ WF_vars(Woken /\ Poll) /\ WF_vars(BrowserReads) /\ WF_vars(Reads(Keeper))

-----------------------------------------------------------------------------
(* Properties.                                                             *)

Commands == {CacheDisabled, FetchEnable} \cup {Continue(id) : id \in Ids}
            \cup {Answer(id, answer) : id \in Ids, answer \in {"provide", "cancel", "default"}}
Reports == [id : Requests, hops : 0 .. MaxHops]

\* What the manager keeps is about requests it was told of, a hop is paused once, and a
\* stream has one subscription: network.rs:22-38, listeners.rs:16-19, target.rs:58-95.
TypeOK ==
  /\ {user, credentials, intercepting, fetching, cache} \subseteq BOOLEAN
  /\ \A r \in DOMAIN tracked :
       r \in Requests /\ tracked[r] \in [id : Ids \cup {NoId}, hops : 0 .. MaxHops]
  /\ parked \in [DOMAIN parked -> BOOLEAN] /\ DOMAIN parked \subseteq Requests
  /\ \A r \in DOMAIN early : r \in Requests /\ early[r] \in Ids
  /\ attempted \subseteq Ids
  /\ {queued, out, inbox.commands} \subseteq Seq(Commands)
  /\ {reports, reported} \subseteq Seq(Reports)
  /\ inbox.listens \in Seq(Streams) /\ inbox.credentials \in BOOLEAN
  /\ log \in Seq(Ids) /\ IsInjective(log)
  /\ IsInjective([n \in DOMAIN subs |-> subs[n].stream])
  /\ DOMAIN since \subseteq Streams /\ dropped \subseteq Streams

AllReports == reported \o reports

\* However its events interleave with one another and with the beginning of interception,
\* no request is reported twice, and one that is over was reported with its whole chain of
\* redirects, unless the manager expected one of its hops to be paused and it was not, or
\* the reverse: network.rs:193-271.
AccountsForRequests ==
  /\ \A m, n \in DOMAIN AllReports : AllReports[m].id = AllReports[n].id => m = n
  /\ \A r \in Requests : req[r].stage = "over" /\ ~req[r].odd =>
       [id |-> r, hops |-> req[r].hop] \in Range(AllReports)

\* While a hop is paused, or goes on after that, its request is tracked under the
\* interception id of that hop and not of one before it, with the hops before it:
\* network.rs:135-149, 193-208.
TracksThePausedHop ==
  \A r \in Requests :
    /\ req[r].stage \in {"sending", "challenged"} /\ ~req[r].odd
    /\ Intercepted(r) /\ req[r].told = "parked"
    => r \in DOMAIN tracked /\ tracked[r] = [id |-> <<r, req[r].hop>>, hops |-> req[r].hop]

\* Credentials are offered to a server once in each hop: network.rs:151-171.
CredentialsAreOfferedOnce == \A r \in Requests : req[r].offered <= 1

\* A subscription loses no event and changes no order, however the subscriptions are taken
\* out and put back, and others come and go: listeners.rs:23-45, 81-95, 141-161.
StreamsMissNothing ==
  \A s \in DOMAIN since \ dropped :
    \E n \in DOMAIN subs :
      /\ subs[n].stream = s
      /\ stream[s] \o subs[n].queue = SubSeq(log, since[s] + 1, Len(log))

\* Interception is the manager's, or the client has been listening since before the hop
\* was paused.
Cared(id) ==
  \/ ~user
  \/ /\ Keeper \in DOMAIN since
     /\ id \in Range(SubSeq(log, since[Keeper] + 1, Len(log)))

\* Nothing that was paused or challenged stays so: the manager, or the client by its
\* stream, continues it, unless it fails: network.rs:135-138, 151-171, listeners.rs:81-95.
NothingIsHeldUp ==
  \A r \in Requests :
    /\ (req[r].pause = "paused" /\ Cared(<<r, req[r].hop>>))
         ~> (req[r].pause # "paused" \/ req[r].stage = "over")
    /\ req[r].stage = "challenged" ~> req[r].stage # "challenged"

Subscribed == {subs[n].stream : n \in DOMAIN subs} \cup Range(inbox.listens)

\* Whatever wakes the handler rids it of a stream that was dropped, so that no subscription
\* goes on collecting events for nobody; and one that was dropped before its request was
\* read is not kept either.  On a quiet page it stays: listeners.rs:81-95.
DroppedStreamsLeave == \A s \in Streams : (s \in dropped /\ Woken) ~> s \notin Subscribed

=============================================================================
