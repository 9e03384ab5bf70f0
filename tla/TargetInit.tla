----------------------------- MODULE TargetInit -----------------------------
(***************************************************************************)
(* One target from its announcement to the delivery of its page: the       *)
(* registration of targets and sessions (src/src/handler/mod.rs), the      *)
(* state machine TargetInit of Target::poll (src/src/handler/target.rs)    *)
(* and the CommandChain that drives it (src/src/cmd.rs).                   *)
(*                                                                         *)
(* A session is the number the browser gave it, 0 is no session.  An       *)
(* initialisation command is its stage and its place in the chain.         *)
(* Deadlines may pass at any time when Timeouts is set.                    *)
(***************************************************************************)
EXTENDS Naturals, Sequences, FiniteSets, Functions

CONSTANTS
  Frame, Worlds, Network, Page, Emulation,   \* how many commands each chain has
  Fetches,       \* bound: fetch_targets calls that list this target
  MaxSessions,   \* bound: attach calls the browser obeys
  MaxInbox,      \* bound: messages on their way, but for those of a closing tab
  Timeouts,      \* deadlines may pass
  Detaches       \* sessions may be detached while the tab stays open

ASSUME TargetInitAssumption ==
  /\ {Frame, Worlds, Network, Page, Emulation} \subseteq Nat
  /\ Fetches \in Nat /\ MaxSessions \in Nat /\ MaxInbox \in Nat
  /\ Timeouts \in BOOLEAN /\ Detaches \in BOOLEAN

VARIABLES
  stage,      \* Target::init_state; "absent" while Handler::targets lacks the target
  issued,     \* commands of the current chain that were issued
  waiting,    \* CommandChain::waiting
  session,    \* Target::session_id
  loaded,     \* the main frame has received its "load" event
  page,       \* the session Target::page was created with, 0 if there is no page
  initiator,  \* Target::initiator is set
  sessions,   \* the keys of Handler::sessions
  calls,      \* the target's calls the browser has not answered
  attaching,  \* Target.attachToTarget calls the browser has not answered
  inbox,      \* messages on their way to the handler
  tab,        \* the browser's view of the target
  creation,   \* the client's new_page
  command,    \* a command the client gives to the page it got from Browser::pages
  attached,   \* sessions the browser has for the tab
  lastSession,
  fetched,    \* fetch_targets calls so far
  done        \* commands of the chains that were answered; <<"load", 0>>: a load was told

chainVars   == <<stage, issued, waiting>>
targetVars  == <<chainVars, session, loaded, page, initiator>>
clientVars  == <<creation, command>>
browserVars == <<tab, attached, lastSession, fetched, done>>
vars == <<targetVars, sessions, calls, attaching, inbox, clientVars, browserVars>>

-----------------------------------------------------------------------------
Stages == <<"frame", "worlds", "network", "page", "emulation">>
Commands == [frame |-> Frame, worlds |-> Worlds, network |-> Network, page |-> Page,
             emulation |-> Emulation]
InChain == stage \in DOMAIN Commands
Following(s) == LET i == CHOOSE i \in DOMAIN Stages : Stages[i] = s
                IN IF i = Len(Stages) THEN "initialized" ELSE Stages[i + 1]

\* A command of a chain, or Target.closeTarget.
Call(s, n) == [stage |-> s, nr |-> n, on |-> session]

Event(type, s) == [type |-> type, session |-> s, stage |-> "none", nr |-> 0]
Answer(c) == [type |-> "response", session |-> 0, stage |-> c.stage, nr |-> c.nr]

Init ==
  /\ stage = "absent" /\ issued = 0 /\ waiting = FALSE
  /\ session = 0 /\ loaded = FALSE /\ page = 0 /\ initiator = FALSE
  /\ sessions = {} /\ calls = {} /\ attaching = 0 /\ inbox = <<>>
  /\ tab = "unborn" /\ creation = "asked" /\ command = "none"
  /\ attached = {} /\ lastSession = 0 /\ fetched = 0 /\ done = {}

-----------------------------------------------------------------------------
(* The browser (external).                                                 *)

Says(m) == Len(inbox) < MaxInbox /\ inbox' = Append(inbox, m)

\* Target.createTarget: the announcement, and some time later the response.
OpenTab ==
  /\ tab = "unborn"
  /\ tab' = "opening"
  /\ Says(Event("created", 0))
  /\ UNCHANGED <<attaching, targetVars, sessions, calls, clientVars, attached, lastSession, fetched,
                 done>>

AnswerCreation ==
  /\ tab = "opening"
  /\ tab' = "open"
  /\ Says(Event("creation", 0))
  /\ UNCHANGED <<attaching, targetVars, sessions, calls, clientVars, attached, lastSession, fetched,
                 done>>

ListTargets ==
  /\ tab \in {"opening", "open"} /\ fetched < Fetches
  /\ fetched' = fetched + 1
  /\ Says(Event("listed", 0))
  /\ UNCHANGED <<attaching, targetVars, sessions, calls, clientVars, tab, attached, lastSession,
                 done>>

\* Target.attachToTarget makes a new session for every call; its response comes
\* after the event and moves no chain, and is left out.
AttachSession ==
  /\ tab \in {"opening", "open"} /\ attaching > 0 /\ lastSession < MaxSessions
  /\ attaching' = attaching - 1
  /\ lastSession' = lastSession + 1 /\ attached' = attached \cup {lastSession + 1}
  /\ Says(Event("attached", lastSession + 1))
  /\ UNCHANGED <<targetVars, sessions, calls, clientVars, tab, fetched, done>>

DetachSession(s) ==
  /\ Detaches /\ s \in attached
  /\ attached' = attached \ {s}
  /\ Says(Event("detached", s))
  /\ UNCHANGED <<attaching, targetVars, sessions, calls, clientVars, tab, lastSession, fetched,
                 done>>

\* A result or an error: the chain goes on either way.
Respond(c) ==
  /\ c \in calls /\ c.stage \in DOMAIN Commands
  /\ tab # "closed"
  /\ calls' = calls \ {c}
  /\ Says(Answer(c)) /\ done' = done \cup {<<c.stage, c.nr>>}
  /\ UNCHANGED <<attaching, targetVars, sessions, clientVars, tab, attached, lastSession, fetched>>

\* The main frame loads, or had loaded before, and is reported once the chain of
\* the FrameManager has asked for lifecycle events.
Load(s) ==
  /\ s \in attached /\ ~loaded /\ stage \notin {"absent", "frame", "closing"}
  /\ Event("load", s) \notin Range(inbox)
  /\ Says(Event("load", s)) /\ done' = done \cup {<<"load", 0>>}
  /\ UNCHANGED <<attaching, targetVars, sessions, calls, clientVars, tab, attached, lastSession,
                 fetched>>

\* Target.closeTarget, or the user: the sessions go with the tab, in any order.
CloseTab ==
  /\ tab = "open"
  /\ tab' = "closed"
  /\ \E order \in [1 .. Cardinality(attached) -> attached] :
       /\ Range(order) = attached
       /\ inbox' = inbox \o [i \in 1 .. Cardinality(attached) |-> Event("detached", order[i])]
                         \o <<Event("destroyed", 0)>>
  /\ attached' = {}
  /\ UNCHANGED <<attaching, targetVars, sessions, calls, clientVars, lastSession, fetched, done>>

CloseOnRequest == (\E c \in calls : c.stage = "close") /\ CloseTab

-----------------------------------------------------------------------------
(* The handler reads the socket.                                           *)

Read == Head(inbox)
Reads(type) == inbox # <<>> /\ Read.type = type /\ inbox' = Tail(inbox)

\* The Target is dropped, and the senders and the channel it owns.
Drop ==
  /\ initiator' = FALSE
  /\ creation' = IF initiator THEN "canceled" ELSE creation
  /\ command' = IF command = "waiting" THEN "canceled" ELSE command

\* Target::new in place of whatever was registered.
OnTargetCreated ==
  /\ stage' = "attach" /\ issued' = 0 /\ waiting' = FALSE
  /\ session' = 0 /\ loaded' = FALSE /\ page' = 0
  /\ Drop

OnTargetCreatedEvent ==
  /\ Reads("created") /\ OnTargetCreated
  /\ UNCHANGED <<attaching, sessions, calls, browserVars>>

\* The response of GetTargets registers the target again and attaches to it.
OnTargetListed ==
  /\ Reads("listed") /\ OnTargetCreated
  /\ attaching' = attaching + 1
  /\ UNCHANGED <<sessions, calls, browserVars>>

OnAttachedToTarget ==
  /\ Reads("attached")
  /\ sessions' = sessions \cup {Read.session}
  /\ session' = IF stage = "absent" THEN session ELSE Read.session
  /\ UNCHANGED <<attaching, chainVars, loaded, page, initiator, calls, clientVars, browserVars>>

\* Mutant of OnDetachedFromTarget: the target keeps the session.
DetachedKeepsSession ==
  /\ Reads("detached")
  /\ sessions' = sessions \ {Read.session}
  /\ UNCHANGED <<attaching, targetVars, calls, clientVars, browserVars>>

OnDetachedFromTarget ==
  /\ Reads("detached")
  /\ sessions' = sessions \ {Read.session}
  /\ session' = IF Read.session \in sessions THEN 0 ELSE session
  /\ UNCHANGED <<attaching, chainVars, loaded, page, initiator, calls, clientVars, browserVars>>

\* Mutant of OnTargetDestroyed: the target stays registered.
DestroyedIsKept ==
  /\ Reads("destroyed")
  /\ sessions' = sessions \ {session}
  /\ UNCHANGED <<attaching, targetVars, calls, clientVars, browserVars>>

OnTargetDestroyed ==
  /\ Reads("destroyed")
  /\ stage' = "absent" /\ issued' = 0 /\ waiting' = FALSE
  /\ session' = 0 /\ loaded' = FALSE /\ page' = 0
  /\ sessions' = sessions \ {session}
  /\ Drop
  /\ UNCHANGED <<attaching, calls, browserVars>>

\* set_initiator.
OnCreateTargetResponse ==
  /\ Reads("creation")
  /\ initiator' = TRUE /\ creation' = "held"
  /\ UNCHANGED <<attaching, chainVars, session, loaded, page, sessions, calls, command, browserVars>>

\* Page.createIsolatedWorld is sent once per frame, whence one method for many commands.
SameMethod(s, m, n) == m = n \/ (s = "worlds" /\ m > 1 /\ n > 1)

\* Mutant of ReceivedResponse: any response moves the chain on.
ReceivedAny == waiting /\ InChain

\* CommandChain::received_response compares the method with the one it waits for.
ReceivedResponse == waiting /\ InChain /\ Read.stage = stage /\ SameMethod(stage, Read.nr, issued)

OnInternalResponse ==
  /\ Reads("response")
  /\ waiting' = (waiting /\ ~ReceivedResponse)
  /\ UNCHANGED <<attaching, stage, issued, session, loaded, page, initiator, sessions, calls,
                 clientVars, browserVars>>

\* The event is routed by its session.
OnLoad ==
  /\ Reads("load")
  /\ loaded' = (loaded \/ (stage # "absent" /\ Read.session \in sessions))
  /\ UNCHANGED <<attaching, chainVars, session, page, initiator, sessions, calls, clientVars,
                 browserVars>>

-----------------------------------------------------------------------------
(* Target::poll.                                                           *)

AttachToTarget ==
  /\ stage = "attach"
  /\ stage' = "frame" /\ issued' = 0 /\ waiting' = FALSE
  /\ attaching' = attaching + 1
  /\ UNCHANGED <<session, loaded, page, initiator, sessions, calls, inbox, clientVars, browserVars>>

\* The chains of the FrameManager wait for a session, the others do not.
MayPoll == InChain /\ (stage \in {"frame", "worlds"} => session # 0)

\* Mutant of IssueCommand: the chain does not wait for the response.
IssueEagerly ==
  /\ MayPoll /\ issued < Commands[stage]
  /\ issued' = issued + 1 /\ waiting' = TRUE
  /\ calls' = calls \cup {Call(stage, issued + 1)}
  /\ UNCHANGED <<attaching, stage, session, loaded, page, initiator, sessions, inbox, clientVars,
                 browserVars>>

IssueCommand ==
  /\ MayPoll /\ ~waiting /\ issued < Commands[stage]
  /\ issued' = issued + 1 /\ waiting' = TRUE
  /\ calls' = calls \cup {Call(stage, issued + 1)}
  /\ UNCHANGED <<attaching, stage, session, loaded, page, initiator, sessions, inbox, clientVars,
                 browserVars>>

\* Mutant of NextStage: the next chain is begun where the last one ended.
NextStageKeepsCount ==
  /\ MayPoll /\ ~waiting /\ issued = Commands[stage]
  /\ stage' = Following(stage)
  /\ UNCHANGED <<attaching, issued, waiting, session, loaded, page, initiator, sessions,
                 calls, inbox, clientVars, browserVars>>

NextStage ==
  /\ MayPoll /\ ~waiting /\ issued = Commands[stage]
  /\ stage' = Following(stage) /\ issued' = 0
  /\ UNCHANGED <<attaching, waiting, session, loaded, page, initiator, sessions, calls, inbox,
                 clientVars, browserVars>>

\* Mutant of OnInitializationFailed: the initiator is not told.
InitializationFailsSilently ==
  /\ MayPoll /\ waiting /\ Timeouts
  /\ stage' = "closing" /\ issued' = 0 /\ waiting' = FALSE
  /\ initiator' = FALSE /\ UNCHANGED creation
  /\ calls' = calls \cup {Call("close", 0)}
  /\ UNCHANGED <<attaching, session, loaded, page, sessions, inbox, command, browserVars>>

\* The deadline of the command the chain waits for has passed.
OnInitializationFailed ==
  /\ MayPoll /\ waiting /\ Timeouts
  /\ stage' = "closing" /\ issued' = 0 /\ waiting' = FALSE
  /\ initiator' = FALSE /\ creation' = IF initiator THEN "failed" ELSE creation
  /\ calls' = calls \cup {Call("close", 0)}
  /\ UNCHANGED <<attaching, session, loaded, page, sessions, inbox, command, browserVars>>

SendPage ==
  /\ stage = "initialized" /\ initiator /\ loaded
  /\ page # 0 \/ session # 0
  /\ page' = IF page = 0 THEN session ELSE page
  /\ initiator' = FALSE /\ creation' = "page"
  /\ UNCHANGED <<attaching, chainVars, session, loaded, sessions, calls, inbox, command,
                 browserVars>>

\* The page's channel is read only by an initialised target.
ReadPageCommand ==
  /\ stage = "initialized" /\ command = "waiting"
  /\ command' = "taken"
  /\ UNCHANGED <<attaching, targetVars, sessions, calls, inbox, creation, browserVars>>

\* GetPages or GetPage: a page is made as soon as there is a session.
GetPage ==
  /\ stage # "absent" /\ page = 0 /\ session # 0
  /\ page' = session
  /\ UNCHANGED <<attaching, chainVars, session, loaded, initiator, sessions, calls, inbox,
                 clientVars, browserVars>>

\* A client of that page sends it a command.
AskPage ==
  /\ page # 0 /\ command = "none"
  /\ command' = "waiting"
  /\ UNCHANGED <<attaching, targetVars, sessions, calls, inbox, creation, browserVars>>

-----------------------------------------------------------------------------
Browser == \/ OpenTab \/ AnswerCreation \/ ListTargets \/ AttachSession \/ CloseTab
           \/ \E s \in attached : DetachSession(s) \/ Load(s)
           \/ \E c \in calls : Respond(c)

ReadSocket == \/ OnTargetCreatedEvent \/ OnTargetListed \/ OnAttachedToTarget
              \/ OnDetachedFromTarget \/ OnTargetDestroyed \/ OnCreateTargetResponse
              \/ OnInternalResponse \/ OnLoad

PollTarget == \/ AttachToTarget \/ IssueCommand \/ NextStage \/ SendPage \/ ReadPageCommand

Next == \/ Browser \/ ReadSocket \/ PollTarget \/ OnInitializationFailed
        \/ GetPage \/ AskPage

\* The handler is polled, and a deadline that may pass passes unless the response
\* comes.  The browser obeys attach and close calls and loads pages; it need not
\* answer anything else.
Fairness ==
  /\ WF_vars(ReadSocket) /\ WF_vars(PollTarget) /\ WF_vars(OnInitializationFailed)
  /\ WF_vars(AttachSession) /\ WF_vars(CloseOnRequest)
  /\ WF_vars(AnswerCreation)
  /\ WF_vars(\E s \in attached : Load(s))

Spec == Init /\ [][Next]_vars
FairSpec == Spec /\ Fairness

-----------------------------------------------------------------------------
SessionIds == 0 .. MaxSessions
CallStages == DOMAIN Commands \cup {"close"}
Numbers == 0 .. Frame + Worlds + Network + Page + Emulation
Messages == [type : {"created", "listed", "creation", "attached", "detached", "destroyed",
                     "response", "load"},
             session : SessionIds, stage : CallStages \cup {"none"}, nr : Numbers]

\* Every variable has its type; a chain counts no more commands than it has.
TypeOK ==
  /\ stage \in DOMAIN Commands \cup {"absent", "attach", "initialized", "closing"}
  /\ InChain => issued \in 0 .. Commands[stage]
  /\ ~InChain => issued = 0 /\ ~waiting
  /\ waiting \in BOOLEAN /\ loaded \in BOOLEAN /\ initiator \in BOOLEAN
  /\ session \in SessionIds /\ page \in SessionIds
  /\ sessions \subseteq SessionIds \ {0} /\ attached \subseteq SessionIds \ {0}
  /\ lastSession \in SessionIds /\ fetched \in 0 .. Fetches
  /\ done \subseteq (DOMAIN Commands \cup {"load"}) \X Numbers
  /\ attaching \in Nat
  /\ calls \subseteq [stage : CallStages, nr : Numbers, on : SessionIds]
  /\ inbox \in Seq(Messages)
  /\ tab \in {"unborn", "opening", "open", "closed"}
  /\ creation \in {"asked", "held", "page", "failed", "canceled"}
  /\ command \in {"none", "waiting", "taken", "canceled"}

\* The session a target sends its commands on is one the handler routes events of
\* back to it: on_event looks the session up in `sessions`.
SessionIsRouted == session # 0 => session \in sessions

\* The chains are sequential: of the commands a target has sent, all but the last
\* one of the chain it is in were answered.  In particular an initialised target
\* has no initialisation command under way.  (Unless fetch_targets was called: a
\* target registered anew takes the answers to its predecessor's commands for its own.)
ChainsAreSequential ==
  stage \notin {"absent", "closing"} /\ fetched = 0 =>
    \A c \in calls : c.stage \in DOMAIN Commands =>
      c.stage = stage /\ c.nr = issued /\ waiting

\* The client of new_page has its page only after the browser has answered what each
\* command of the chains asks for and has told of a load of the main frame, although a
\* chain looks at no more than the method of a response, and the answers to the commands
\* of a target that was replaced go to the one in its place ("Create a new page and send
\* it to the receiver when ready", handler/mod.rs:361).  Unless there was a replacement
\* every single command was answered.
DeliveredPageIsInitialized ==
  creation = "page" =>
    /\ \A s \in DOMAIN Commands : \A n \in 1 .. Commands[s] :
         /\ \E m \in 1 .. Commands[s] : SameMethod(s, m, n) /\ <<s, m>> \in done
         /\ fetched = 0 => <<s, n>> \in done
    /\ <<"load", 0>> \in done

\* A session that is detached is not the one the target goes on to use, and the
\* other sessions of the target are left alone ("There can be multiple sessions
\* per target").
DetachLeavesOtherSessions ==
  [][OnDetachedFromTarget /\ Read.session # session => session' = session]_vars

\* Every session the browser ever gave the tab is still attached, or the tab is closed.
SessionsLast == tab = "closed" \/ attached = 1 .. lastSession

\* The client of new_page gets its page, or an error, in the end, as long as no
\* session is detached from the open tab; and when the target fails to initialise,
\* the browser is asked to close it, which ends the wait of every client it has.
EveryCreationConcludes ==
  []SessionsLast => (creation = "held" ~> creation \in {"page", "failed", "canceled"})

\* A command given to a page is taken, or canceled with its target, on the same terms.
EveryPageCommandIsTaken ==
  []SessionsLast => (command = "waiting" ~> command \in {"taken", "canceled"})
=============================================================================
