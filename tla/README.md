# TLA+ models of chromiumoxide

These modules model the asynchronous core of the crate `chromiumoxide`
(`src/src/`) and of `chromiumoxide_fetcher`: how the calls of many clients
become commands to a Chromium process over one websocket, how each client gets
its own answer, or an error, in the end, how the state of a page is pieced
together from the events of the browser, and how that process is fetched,
started and ended. They are translated from the code and checked by TLC on
small instances; for request tracking, wake-ups, navigation, the initialisation
of targets, the tree of frames, intercepted requests, and fetching and
launching, TLAPS proves the safety properties for every instance.
`PROJECT.json` lists the runs, the theorems, the lines of the code each
definition stands for, the hazards and the findings.

## The system

One task polls `Handler` (`handler/mod.rs`), a `Stream`. Everything else talks
to it through channels.

| part | state | operations | talks to |
|---|---|---|---|
| `Browser`, `Page`, `Element` (`browser/mod.rs`, `page.rs`, `element.rs`, `handler/page.rs`) | a sender, a session id | each call makes a oneshot channel, sends one message, awaits the receiver | handler's channel, page's channel |
| `Handler` (`handler/mod.rs`) | `pending_commands`, `targets`, `sessions`, `navigations`, contexts, listeners | `poll_next`: channel, targets, websocket, eviction | all |
| `Connection` (`conn.rs`) | queue of commands, next id, flush state | `submit_command`, `poll_next` | websocket |
| `PeriodicJob` (`handler/job.rs`) | a `Delay` | `poll_ready` | `evict_timed_out_commands` |
| `Target` (`handler/target.rs`) | `init_state`, `session_id`, `page`, `initiator`, waiters, queued events | `poll`, `on_response`, `on_event` | its managers; the handler, by `TargetEvent`s |
| `CommandChain` (`cmd.rs`) | commands left, the one awaited and its deadline | `poll`, `received_response` | `Target` |
| `FrameManager` (`handler/frame.rs`, `domworld.rs`) | frame tree, contexts, queued and current navigation | `goto`, `poll`, events | `Target` |
| `NetworkManager`, `EmulationManager` (`handler/network.rs`, `http.rs`, `emulation.rs`) | requests, interception flags | events, `init_commands` | `Target` |
| `EventListeners` (`listeners.rs`) | subscriptions with queues | `start_send`, `poll` | clients |
| `CommandFuture`, `HttpFuture`, `TargetMessageFuture` | message to send, receiver, delay | `poll` | page's channel |
| `Browser::launch` (`browser/mod.rs`, `async_process.rs`) | child process | start, read the address, wait, kill | Chromium |
| fetcher (`chromiumoxide_fetcher`) | files on disk | download, extract | network, disk |
| PDL parser and generator (`chromiumoxide_pdl`) | none | build-time translation | files |

What is hard here, and what would make each part right:

* **Request tracking.** Responses come in any order, late, or after the entry
  has been evicted; a call has many owners on its way (mailbox, pending entry,
  navigation entry, target). Each call must have at most one outcome, an answer
  must be the answer to that call, and no sender may be dropped unnoticed.
* **Polling.** A hand-written `poll_next` with four sources, and a connection
  that writes and reads in one function, have to hold a waker for each source
  whenever they return `Pending`. Timestamps are read once per iteration.
* **Navigation.** The response of `Page.navigate` and the load of the page race;
  several gotos queue up; the load of a page nobody asked for looks the same.
* **Target initialisation.** Announcement, creation response, attach event,
  chains, load and `fetch_targets` interleave; every step may time out; a client
  waits for the page at the end.
* **Frame tree.** The handler asks for the tree while the page goes on, so that
  some frames are told of twice and some events come before their frame is
  known; a removal must reach all that is below a frame and nothing else, the
  main frame may change its id, and contexts are found through a map of their own.
* **Network.** `Network.requestWillBeSent` and `Fetch.requestPaused` come in
  either order, interception may begin between the two, a redirect is paused
  under an id of its own. A paused request that nobody continues never ends.
* **Listeners.** The subscriptions are taken out and put back in another order
  on every poll, while streams come and go.
* **Launch.** The line with the address, the exit of the child and the timeout
  race each other, and every way out has to leave no process behind.
* **Fetcher.** What counts as installed is that the executable exists, whatever
  became of the download and the extraction that put it there.

## The modules

| module | models | composed with |
|---|---|---|
| `Rpc` | abstract: what a client is promised | refined by `Handler` |
| `Handler` | request tracking of the handler, with clients, browser, page channels and targets reduced to what owns a call | `ImplementsRpc == Promise!Spec` |
| `HandlerProof` | own answers, no panic, no call dropped silently, proved | extends `Handler` |
| `HandlerRefinement` | `Handler` implements `Rpc`, proved | extends `HandlerProof` |
| `Polling` | one call of `poll_next` step by step, wakers, clock, eviction job, and the connection with its writing | |
| `PollingProof` | no lost wake-up, no early timeout, proved | extends `Polling` |
| `Navigation` | `goto` and `wait_for_navigation` through page channel, `FrameManager`, handler and a browser that loads documents | |
| `NavigationProof` | one navigation at a time, a goto alone sees its page, proved | extends `Navigation` |
| `TargetInit` | one target: registration, sessions, command chains, page, initiator | |
| `TargetInitProof` | sessions, chains and pages, proved | extends `TargetInit` |
| `FrameManager` | the frames, lifecycles and execution contexts of a page, under any events | |
| `FrameManagerProof` | the frames form a tree, it is the browser's, and so are its loads and its contexts, proved | extends `Frames` |
| `Frames` | the browser's own frames and the events they lead to | extends `FrameManager` |
| `Network` | `NetworkManager`: requests, interception, authentication, redirects | |
| `Listeners` | `EventListeners` and the streams | |
| `PageClient` | a target with both, a client that continues what it hears of, a browser that sends requests | extends `Network`, `Listeners` |
| `PageClientProof` | requests, reports, credentials and streams, proved | extends `PageClient` |
| `Fetcher` | download and extraction in place | |
| `Launch` | `Browser::launch`, the child, its end | |
| `Lifecycle` | a program that fetches and launches, again if that fails | extends `Fetcher`, `Launch` |
| `LifecycleProof` | the invariants of `Lifecycle`, proved | extends `Lifecycle` |
| `MC*` | instances for TLC | |

`Handler`, `Navigation` and `TargetInit` look at the same program from three
sides. What `Handler` leaves open (when a target reports a load, which of its
navigations it issues, when it hands out its page) the other two determine; a
behaviour of theirs is one `Handler` allows. `Polling` has one kind of command
and in return the order, the wakers and the clock the others leave out.
`FrameManager` and `Navigation` share the component `frame.rs`: the one has the
tree below the main frame, the other the watchers of the main frame's document.

### State and actions

* **Rpc.** One variable, `outcome`: `Ask`, `Abandon`, `Conclude`. `Conclude` is
  a set of calls at once, since an eviction or a drop ends several.
* **Handler.** `mailbox` is `from_browser`, `pagebox[t]` the channel in the
  `PageHandle` of `t`, `pending` is `pending_commands` as a set of entries
  (`id`, `kind`, `of`: the client of a sender-owning entry, the navigation of
  `Navigate`, the target of `InternalCommand`), `calls` are commands handed to
  the connection and not answered, `inbox` the messages on their way back,
  `navigations` and `nextNav` as in the code, `live` the keys of `targets`,
  `initiator[t]` the field of the target, `queued` and `watched` its
  navigations. Each message the handler takes is one action named after the
  function that handles it. A oneshot sender has no variable: `Holders` is
  everyone who owns one, and `Conclude` tells a client `canceled` when after
  the step nobody owns its sender and nothing was sent.
* **Polling.** `phase` is the place in `poll_next`: `mailbox`, then the
  connection, which writes (`socket`) before it reads (`reading`), then `evict`;
  `parked` between two polls, `failed` after an error. `mailArmed`, `sockArmed`,
  `writeArmed` and `armed` say who holds the task's waker, `woken` that the task
  is scheduled. `outq` and `unflushed` are `Connection::pending_commands` and
  the command that `needs_flush`; `blocked` is a websocket that takes nothing
  more. `left` is what remains of the `Delay`, `age` of a request counts from
  its timestamp, `lag` from the `now` of the iteration.
* **Navigation.** A document is the number of its loader. `progress[r]` is the
  `NavigationInProgress` of goto `r`, `queue` and `current` are
  `pending_navigations` and `navigation`, `frame` is the main frame (`loaded` is
  "the event `load` is in `lifecycle_events`"), `doc` the browser's own state.
  `goal`, `newest` and `alone` (a goto that never shared the page with another
  navigation) only serve the properties.
* **TargetInit.** `stage` is `TargetInit`, with the two chains of
  `InitializingFrame` told apart (`frame`, then `worlds`), and `absent` when
  `Handler::targets` has no such target; `issued` and `waiting` are the state of
  the chain; `session` is `Target::session_id`, `sessions` the keys of
  `Handler::sessions`, `page` the session the page was made with. `done` records
  which commands the browser answered and whether it told of a load; it only
  serves `DeliveredPageIsInitialized`. Once `loaded`, a target stays so: later
  documents of the main frame are in `Navigation` and `Frames`.
* **FrameManager, Frames.** `frames`, `main` and `contexts` are the fields of
  the manager; one action per event handler. `on_frame_tree` has no action of
  its own: it attaches and navigates frame by frame, as the two events do, so
  its response stands in the inbox as those. The url of a frame is only known
  or not, since that is all `check_lifecycle` looks at; the lifecycle is the
  set of its events. In `Frames` the browser sends events only from the command
  on that enables them (`step`), and the page acts when the events of its last
  act are read: nothing here answers the browser, so this shows every order in
  which they can be read. `told` and `reported` record what the browser said,
  for `CompletionIsExact`.
* **Network, Listeners, PageClient.** `tracked`, `parked`, `early` and
  `attempted` are the maps of the manager, `queued` and `reports` its queue: the
  commands go to the connection and the reports to the `FrameManager`, so only the
  order within each kind matters. The page's channel, `inbox`, is kept by kind for
  the same reason: `Target::poll` drains it and then acts on each kind. A request's
  chain of redirects is its length. `subs` are the subscriptions in the order of their
  vector, with the queue of each; `stream` is what the channel holds. `Poll` is
  `Target::poll` followed by the poll of the listeners: it empties the page's
  channel and then the manager's queue. An event is read when the browser sends
  it, since nothing distinguishes one read later from one sent later; commands
  stand in `out` until the browser reads them.
* **Fetcher, Launch, Lifecycle.** `archive` and `files` are the disk: bytes are
  parts, one for each entry, and an entry is created before it is filled.
  `FetchStops` is an error or the end of the process at any point. `launch` is
  the place in `Browser::launch` and then what the client holds; `child` tells
  a process that exited from one that was reaped. `spoiled`, for the property,
  is an extraction that stopped half way.

The browser, the websocket, the clock, the child process, the disk, the network
and the tasks that poll are not in the repository; they are modelled from how
the code uses them and marked external. The browser may answer in any order,
late or never, may close tabs and break the connection; it keeps the order of
its messages, and announces a target before it returns its id
(`Target.createTarget`).

## The runs

| run | question | result |
|---|---|---|
| `handler_calls` | two calls of every kind, lost tabs and frames, a broken socket: types, own answers, the panic, silent cancellation, refinement of `Rpc` | holds |
| `handler_fetch_drops_page` | is new_page ever canceled while its tab lives? | violated, see Findings |
| `polling_calls` | lost wake-ups of reading, writing and the channel, early timeouts, every message taken, every command concluded while the browser keeps reporting events; with pings, a close, broken and unexpected messages and a socket that blocks | holds |
| `polling_quiet_browser` | and when it is quiet? | violated |
| `navigation_calls` | gotos, a wait, the page's own navigations, refusals, a lost frame and deadlines: a goto alone is answered after its own load, one navigation at a time, everything concludes | holds |
| `navigation_queued_goto` | a goto queued behind another one | violated |
| `navigation_wait_old_page` | `wait_for_navigation` right after a click | violated |
| `targetinit_sessions` | chains in order, the session used is one routed, a page only after all its commands were answered and a load was told, every new_page and page command ends | holds |
| `targetinit_detach` | does a detach leave other sessions alone? | violated |
| `frames_mirror` | are the handler's frames, contexts and load state those of the browser, whenever its events are read? | holds |
| `page_client` | is each request reported once with its redirects, and nothing paused, challenged or streamed forgotten, with interception that begins at any time? | holds |
| `lifecycle` | is what fetch returns complete, and what launch leaves clean, whatever is interrupted? | holds |

Each property of a passing run comes with a mutant of a mapped definition (a
dropped wake-up, a reused call id, a removal that leaves a link, ...) that makes
it fail under the same configuration.

### Bounds

* `Requests` of `Handler`: two calls suffice to confuse one client's answer with
  another's; the proofs have any number. Both may be of any kind the
  configuration lists.
* `Targets`: one. What relates two targets in the handler is only the id of the
  pending entry, which the proofs have for any number.
* `MaxCalls`: a target submits commands of its own only while `nextId` is below
  it, so that a command of the target can come before or between those of the
  clients. It bounds the environment, not the handler.
* `Requests` of `Polling`: one. Commands meet only in the queues, which have
  places enough for a message before and after it.
* `Timeout`: 2 ticks. A tick is longer than an iteration, so an iteration
  sees at most one. `Cap` is past every deadline, where ages saturate.
* `Noise`: all five kinds of message in `polling_calls`; `IgnoreInvalid` is
  TRUE, and `unexpected` fails `poll_next` the way an invalid message does when
  it is FALSE. `polling_quiet_browser` has none.
* `MaxInbox`, `MaxBurst`: two messages, so that a message can arrive while
  another is read. A burst is finite between two
  ticks: otherwise a browser that sends without pause keeps the loop of
  `poll_next` from ever reaching the eviction.
* `MaxDocs`: two documents. Those the page begins on its own
  (`PageActs`) count as well, before or after the one of a goto.
* `Frame`, `Worlds`, `Network`, `Page`, `Emulation`: the chains have 4, 1 + the
  number of frames, 2, 3 and 2 (or 0 without a viewport) commands in the code.
  The model looks only at whether a chain is finished and at the method of a
  response. `Worlds` is 3, a page of two frames, so that two commands of one
  chain have the same method; elsewhere one shows every case, and 0 is a chain
  without commands.
* `MaxSessions`, `Fetches`: two sessions (three in `targetinit_detach`) and one
  `fetch_targets`, enough for two sessions at once, or one that comes after a
  detach.
* `MainIds` 2, `ChildIds` 2: a main frame that changes its id once, siblings and
  a frame below a frame. `MaxActs` 5: a page may attach both
  frames, load, navigate and go on at any point of the handler's own commands. `MaxContexts` 3: a
  context still remembered, one about to be destroyed, and a new one. The page
  acts only while each frame has a number left (`Room`), which in the run is always.
* `Requests` of `PageClient`: one, since every map of the manager is keyed by the
  id of the request. `MaxHops` 1 and `MaxChallenges` 2 are for each request: a
  redirect, and a second challenge of the same hop or one for each hop. Two streams: one that
  keeps listening and one that comes and goes. `CacheEnabled` is TRUE, so that a
  request may pass unpaused while interception begins. Whether the client
  intercepts (`user`) is left to `Init`.
* `Entries` 3, `Executable` 2: entries before and after the executable.
  `MaxFetches` 3: a fetch after a failure that followed a failure. `MaxLines` 3:
  lines before and after the address. The proofs have any numbers.

Symmetry is used where only invariants and action properties are checked:
requests and targets in `Handler`, child frames in `Frames`.
Deadlock is not checked where the system may come to rest: all clients done, the
handler dropped, the tab closed, the page loaded, the fetches used up. `Polling`
never rests, since its clock runs.

### Fairness

* `Polling`: the executor runs a woken task (`WF(HandlerStep)`), and time passes
  (`WF(Tick)`). Nothing is assumed of clients, of the browser or of the socket,
  which may stay blocked. `EventsConcludeCommands` has its condition in the
  property: the browser keeps reporting events, as one with an open page does,
  and `poll_next` does not fail again and again.
* `Navigation`: the handler is polled (`WF(HandlerStep)`), and a deadline that may
  pass does pass; this is the eviction job, so these results rest on the handler
  being polled again (see the finding about the job). `wait_for_navigation` has
  no deadline in the code, so `EveryWaitConcludes` is about a main frame that
  stays and a browser that finishes documents again and again.
* `TargetInit`: the same, and the browser obeys attach and close requests,
  answers `Target.createTarget`, and loads the page. The other commands may stay
  unanswered: their deadline ends the initialisation. Without the attach there
  is no deadline at all (`target.rs:344`). The liveness properties have the
  premise `SessionsLast`: no session is detached from the open tab, because
  after that the target is not heard any more.
* `PageClient`: the handler is polled when something wakes it, a message of the
  page or an event of the browser (`Woken`); commands arrive at the browser, and
  the client reads the one stream it keeps. Nothing is assumed of the requests.
  The drop of a stream wakes nobody, and the timer cannot be relied on (see the
  finding about the job), so `DroppedStreamsLeave` is about a handler that is
  woken after the drop: on a page that stays quiet the subscription stays as
  well, with nothing to collect.
* `Lifecycle`: the timer expires, and the launcher and the runtime go on when
  something is ready. `select!` takes a ready branch at random, so weak fairness
  of the step as a whole is all there is. The child may print nothing and never
  exit; connecting may take forever.

## Proofs

Each proof module names the constants it rests on by the assumption of the
module it extends: `HandlerAssumption` (`NoRequest` is no request, targets are
finitely many, the parameters have their types), `PollingAssumption` (types, a
timeout above zero), `NavigationAssumption` (gotos and waits are different
calls, `Nobody` is none), `TargetInitAssumption` (types), `NetworkAssumption` and
`PageClientAssumption` (types), `ManagerAssumption` (ids of main and child frames are
distinct and none is `NoFrame`), `FetcherAssumption` (the executable is one of
the entries) and `LaunchAssumption`. TLC evaluates them in the runs of the
`MC` modules. The inductive invariants were confirmed by TLC on small instances
before they were proved.

`HandlerProof` proves for every set of requests, every finite set of targets,
every set of call kinds and every bound:

* `TypeCorrect`: `Spec => []TypeOK`;
* `IdsAlwaysMatch`: `Spec => []IdsMatch`, the lookup in `on_response` finds the
  right request;
* `AnswersAreOwn`: `Spec => []OwnAnswer`, no client is ever given another
  client's response;
* `NeverPanics`: `Spec => []NoPanic`, the `panic!` of `on_response` is not reached;
* `WaitersAreHeld`: `Spec => []WaitersHeld`, each call that waits has an owner of
  its sender;
* `CallsAreNotDropped`: `Spec => CanceledOnlyByLoss`.

None of these is inductive. `OwnAnswer` needs that the response read
belongs to the entry found (`IdsMatch`), which needs that ids are not given out
twice (`CallIdsFresh`) and that the owner of an entry is a request
(`OwnersTyped`). A goto takes a detour: its response is stored in `navigations`
and sent later by another function, so the entry must keep its request through
the target's queue, the pending call and the response (`NavigationIdsFresh`,
`NavigationsMatch`). Their conjunction is `IInv`; `Invariance` proves
`Spec => []IInv`, with one lemma per action, and the first three theorems follow.

`NoPanic` depends on the order of the messages on their way: in front of the
response that names a new target there is the event that announces it, unless
that was read, and no event that destroys it (`AnnouncedFirst`). A target is
destroyed after its tab was closed (`DestroyedClosed`), and the entry a
response finds has the kind of the call it answers (`KindsMatch`).

`CanceledOnlyByLoss` is an action property. It is proved with an invariant: a
call that waits is in `Holders`. For each action there is one lemma that says both what
it may cancel and that whoever still waits is held after it (`OnlyLossCancels`);
that is where a handler that forgot to move a sender on would fail.

`HandlerRefinement` proves `HandlerImplementsRpc`: `Spec => ImplementsRpc`. Two
facts carry it. `Concluding`: whatever a handler's step does, it changes only
the outcome of calls that wait, and it changes them to a verdict, a failure or
somebody's answer; one lemma per part of `poll_next`, since each of them sends
through `Conclude`. `OwnAnswer` then says whose answer it is. Together a step
that concludes any number of calls is one `Conclude` of `Rpc`.

`PollingProof` proves for every number of commands, every timeout and any noise
of the browser:

* `PollingTypeCorrect`: `Spec => []TypeOK`;
* `WakeupsAreNotLost`: `Spec => []NoLostWakeup`;
* `TimeoutsAreNotEarly`: `Spec => NotTimedOutEarly`.

`NoLostWakeup` speaks of the parked task only, so it says nothing that would
carry from the channel to the park. The invariant follows the iteration: from
the moment the channel is drained (`MailWakes`), from the moment writing ends
(`WriteWakes`) and from the moment the socket is left (`SocketWakes`) either the
task is woken already, or the source is still done with and holds the waker. A
ping leaves the socket without draining it, which is where the wake-up of
`conn.rs` is needed; a close needs none because nothing follows it
(`CloseIsLast`). `NotTimedOutEarly` compares two clocks, the age of the entry
and the wait of its client: the first counts from a `now` read before the
command was taken. Its invariant `Requested` says that the age is never more than a tick ahead of the
wait (`AgesAreTrue`), and that what is in the channel was not submitted before
(`CommandsAreNew`).

`NavigationProof` proves for any number of gotos, waits and documents, with
deadlines, losses and navigations of the page's own:

* `NavigationTypeCorrect`: `Spec => []TypeOK`;
* `OneNavigation`: `Spec => []OneNavigationAtATime`;
* `GotoSeesItsPage`: `Spec => []LoneAnsweredAfterLoad`.

The first two rest on where a goto is (`Placed`): in one of the channel, the queue, the
watcher, or done, so that it is not watched twice and a call sent was watched.
The third is about documents. They come in the order of their numbers
through browser, messages and main frame (`DocsInOrder`); and as long as no
navigation has begun during another (`LoneInv`), one goto at most is under way
(`OneUnderway`), the page is still and only responses are unread until the
browser reads its call (`QuietUntilRead`), the watchers in the queue hold the loader
the frame still has (`QueuedAtTheDocument`), and until the document of the goto has
loaded there is nothing from which the watcher could conclude it has
(`Unfinished`). The finding `navigation_queued_goto` is what becomes of
`QueuedAtTheDocument` without `alone`.

`TargetInitProof` proves for chains of any length, and any number of sessions and
calls of `fetch_targets`, with deadlines and detached sessions or without:

* `TargetTypeCorrect`: `Spec => []TypeOK`;
* `SessionsAreRouted`: `Spec => []SessionIsRouted`;
* `ChainsRunInSequence`: `Spec => []ChainsAreSequential`;
* `PagesAreInitialized`: `Spec => []DeliveredPageIsInitialized`.

`ChainsAreSequential` speaks of commands the browser has not answered. Its
strengthening adds the answers on their way (`OneUnderway`: one command or one
answer, for the step the chain is at), and that an unborn tab has neither
(`AnnouncedFirst`), so that the target begins its chains with nothing under way.
`SessionIsRouted` holds since a session enters both maps in one step and leaves
`sessions` only when `session_id` is cleared; numbers of sessions differ from 0
all the way (`SessionsAreNumbered`). `DeliveredPageIsInitialized` needs an
invariant of its own (`AInv`): every command the target has behind it, by the
place of its chain and its place there, was answered (`PassedIsAnswered`), and
what is on its way has happened in the browser (`ToldIsDone`). The step that
carries it is the reading of a response, which moves a chain on by its method
alone: `OneUnderway` says that without `fetch_targets` it is the answer to the
very command, otherwise a command of that method was answered, perhaps one the
predecessor of the target had sent.

`PageClientProof` proves for any number of requests, redirects, challenges and
streams:

* `PausedHopsAreTracked`: `Spec => []TracksThePausedHop`;
* `RequestsAreAccountedFor`: `Spec => []AccountsForRequests`;
* `CredentialsOnce`: `Spec => []CredentialsAreOfferedOnce`;
* `StreamsDeliver`: `Spec => []StreamsMissNothing`;
* `PageClientTypeCorrect`: `Spec => []TypeOK`.

`Follows` says what each map of the manager holds for a request, from whether the
present hop was told of, how the manager took it, and whether it is paused;
it holds of every request that is not over and not `odd`. From it follow the
first theorem and, with `ReportedOnce` (who is reported is past its answer, and
the reports are about different requests), the second. The third needs two
things: an answer to a challenge is on its way once, be it queued or sent
(`AnsweredOnce`), since a second one would be an offer of its own, and the manager
remembers an offer as long as the hop may be challenged (`Offers`).

The fourth is about a loop: a poll goes through the subscriptions from the last to
the first, takes each out by `swap_remove`, and pushes it back at the end if its
stream is there. `PollListeners` is a recursive function, one iteration of which is
`PollListener`. The loop invariant is `PolledWell`: the subscriptions not yet polled
are in their places, each of the others has its queue in its stream and is there
with an empty one, or its stream was dropped, and no stream has two. That the
loop has it at its end is an induction over the number of iterations; the rule
(`SetInduction`) is about sets instead of predicates and follows from the library's
theorem that a nonempty set of numbers has a minimal element. Between polls, `Streamed`
says that a stream is either asked for or subscribed, once, and has nothing before.

For `TypeOK`, `Measured` bounds the redirects the manager counts of a request, odd or
not: with the hop that is parked and the one it was not told of they are no more than
there were. `Logged` says that what was paused is not paused again.

`FrameManagerProof` proves for any number of frames, any nesting and any order
of events (`ManagerSpec`):

* `ManagerTypeCorrect`: `ManagerSpec => []ManagerTypeOK`;
* `MainFrameIsTracked`: `ManagerSpec => []MainFrameTracked`, so the `expect` of
  `on_frame_navigated` is never reached;
* `FramesFormATree`: `ManagerSpec => []LinksAgree`.

`Events` says what the protocol does: only frames below another are attached to
one and detached, and only main frames navigate without a parent. `LinksAgree`
alone is not inductive: two frames that are each other's parent satisfy it, and
to remove one of them through its children would reach the main frame if it
were among them. `Forest` adds that the parents lead out of any set of frames
(`Grounded`) and that the main frame has none. The subtree is defined as the
least closed set, not by recursion, so that the lemmas about removal (`SubtreeProps`,
`RemoveKeepsForest`, `RemoveChildrenProps`) follow by choosing a set.

With the browser of `Frames`, for any number of frames, acts and contexts:

* `FramesTypeCorrect`: `Spec => []TypeOK`;
* `PageKeepsItsTree`: `Spec => [](MainFrameTracked /\ LinksAgree)`;
* `FramesMirrorBrowser`: `Spec => []MirrorsBrowser`;
* `CompletionFollowsBrowser`: `Spec => []CompletionIsExact`;
* `ContextsFollowBrowser`: `Spec => []ContextsAreLive`.

The first two follow from the inductive invariant of the manager once every batch of
events is shown to be a sequence over `Events` (`BrowserInductive`); a batch is put
together by a fold, whose type follows from `FlattenTyped`.

`MirrorsBrowser` speaks of the states in which all events are read and is far from
inductive. Its invariant speaks of the events not yet read. The manager's tree, cut
down to the main frame and the parents, is its `Shape`. `Reshape` says what an event
makes of a shape, and `ManagerMoves` that each handler does just that to the frames
it has. `Leads(Moves, a, q, b)` says that the events `q` lead from `a` to `b`: there
are shapes in between, one for each event, each the `Reshape` of the one before.
`MirrorIInv` is that the unread events lead from the manager's shape to the browser's
(or, while the tree was not asked for, from no frames to no frames), and that the
browser nests its frames no deeper than the model does. A handler takes the first
step of the way (`LeadsOn`). For an act of the browser `Follows` says that its batch
leads from the old tree to the new one, in all its orders: events about contexts and
lifecycles lead nowhere and may stand anywhere (`CalmAround`); frames that are
detached from below go one by one (`DetachLeads`), or all by one event
(`DetachOne`); a frame that navigates goes on alone whether or not those below it
were reported (`CommittedFollows`, `MainFollows`). `FrameTreeLeads` is the answer to
`getFrameTree`, which leads to the tree from whatever was known before, since a main
frame that navigates drops what is below it and parents come first.

`CompletionIsExact` takes the same way with more than a shape. A kind of mark is a
url that is known, or one of the two lifecycle events; a `View` is a shape with the
frames that carry the mark, and `Remarked` says what an event makes of those. A main
frame that takes another id keeps the lifecycle of the old one (`Inherited`), which
is why the mark of the old main frame decides. `ManagerRemarks` is that every handler
does to the marks what `Remarked` says. `MarksIInv` is that, for each of the three
kinds, the unread events lead from the manager's view to the browser's: the frames
whose url was reported, or of which the event was told since they began to load. For
an act of the browser only the events about the frames with a new document can change
a mark (`BlandLeads`, `NewsMarks`, `MainNewsMarks`). `LifecycleMarks` is the answer to
`setLifecycleEventsEnabled`, which brings the marks of every frame at once;
`FrameTreeMarks` the one to `getFrameTree`. `MarksComplete` puts the three kinds
together: with the tree mirrored, `check_lifecycle` reads the same of every frame as
the browser has told.

`ContextsAreLive` follows one frame at a time, for the manager finds a context by
its id and the frame it was mapped to (`context_ids`). What is known of a frame is a
`Hold`: the contexts mapped to it, and for each of its two worlds a set in which the
world's context lies. It is a set because of a main frame that takes another id: it
inherits the worlds of the old one, of which a hold of the new id knows nothing.
`Becomes` says what an event makes of a hold, and `Heard` what the handlers rely on:
a context belongs to the frame it is created for, that frame is there, and a context
that is destroyed is still mapped and not in both worlds. `ManagerAgrees` is that
every handler does to the frame what `Becomes` says. `Lives` is the goal: mapped are
the contexts of the frame's document and no others, the main world has that
document's context, and so has the utility world unless the frame is a main frame
that came under another id (`Late`); of a frame that is gone nothing is mapped.
`ContextsIInv` has three parts: every context of the browser carries its frame
(`OwnTree`); before `Runtime.enable` was answered no event is about contexts and no
frame has any (`Barren`); from then on the unread events lead from what the manager
holds of each frame to the contexts that live (`ContextsSettle`). For each act of the
page `ContextsFollow` says that its batch keeps that, in all its orders: the events of
the other frames leave a hold alone (`DetachedForeign`, `ListHolds`), a document that goes
takes its contexts along before or after its frame does (`GoneHolds`), a new one
brings its own (`NewsHolds`, `MainNewsHolds`), and `cleared` forgets those of every
frame (`ClearedHolds`).

`LifecycleProof` proves for an archive of any number of entries, any number of
fetches and any number of lines of the child:

* `LifecycleTypeCorrect`: `Spec => []TypeOK`;
* `FetchedIsComplete`: `Spec => []InstallationIsComplete`;
* `FailureLeavesNoProcess`: `Spec => []FailedLaunchLeavesNoProcess`;
* `CleanUpIsSafe`: `Spec => []CleanUpNeverPanics`.

`LaunchInv` says what the child can be at each place of the launcher: the
clean-up kills only after `try_wait` found the child unreaped, and while it
waits the child is dead. `FetchInv` says that an unspoiled cache is empty or complete
between two fetches, empty while it downloads, and whole up to the entry
that is being extracted.

Only model-checked:

* liveness under fairness, which is out of the prover's reach, as is `ENABLED`.

## Findings

Five runs show the program doing something other than its documentation says:

1. `handler_fetch_drops_page`: `fetch_targets` while `new_page` is under way
   replaces the target that holds the page's initiator (`mod.rs:444`); the client
   of `new_page` gets `Canceled`, against `mod.rs:369`.
2. `polling_quiet_browser`: the eviction job sets its `Delay` anew without
   polling it (`job.rs:22`); asleep with a quiet browser, the handler never
   evicts, against `job.rs:10` and `mod.rs:76`.
3. `navigation_queued_goto`: the loader a goto is compared with is captured when
   the goto is queued (`frame.rs:347`); behind another goto it completes with the
   other's document, against `page.rs:363`.
4. `navigation_wait_old_page`: `wait_for_navigation` is answered by the page that
   is being left (`target.rs:479`), against `page.rs:346-350`.
5. `targetinit_detach`: the detach of any session clears the session id of its
   target (`mod.rs:463`), against `mod.rs:72` and `mod.rs:457-458`.

Some of what the passing properties leave out is behaviour a reader may not
expect either: a main frame that changed its id keeps the utility world of the
document before, which is gone, until its next document (`ContextsAreLive`); a
request whose hop was expected to be paused and was not, or the reverse, may go
unreported (`odd` in `AccountsForRequests`); a target that was registered anew
takes answers to its predecessor's commands for its own, so its page may be
handed out while a command is under way (`fetched` in `ChainsAreSequential`);
an extraction that was cut off counts as installed from the moment the
executable exists (`spoiled` in `InstallationIsComplete`; `fetch` documents
this).

## Not modelled

* Browser contexts: `InsertContext` and `DisposeContext` only keep a set that
  decides which context a new target is given.
* The handler's own event listeners, polled inside the loop over the targets
  (`mod.rs:606`), and the polling of targets in `Polling`.
* Listeners of different types for one method: the subscriptions of the model
  share one type, so the conversion of custom events, its choice of a listener
  (`listeners.rs:83-91` against `page.rs:256-268`) and an `EventStream` that
  meets an event of another type (`listeners.rs:201`) are left out.
* The states of `CommandFuture`, `HttpFuture` and `TargetMessageFuture`: a call
  that its future gives up is `Abandon` in `Handler`.
* Extra headers and the offline mode of the network manager, which nothing
  calls; the flag of requests served from the cache; the http request a frame or
  a navigation is given.
* Two fetches at once, and the thread of an extraction that outlives its future
  (`runtime/mod.rs:81`). A short write of `file.write` (`runtime/mod.rs:69`)
  leaves an archive that does not extract, which is `FetchStops`.
* `Fetch.requestPaused` without a network id (`network.rs:139`): the manager
  continues the request, or leaves it to the client, and keeps nothing of it.
* Errors of the operating system when the child is asked whether it has exited
  (`browser/mod.rs:182`, `browser/mod.rs:549`).
* Frames that move to another process: `Frames` has no detach with the reason
  "swap", and no detach of the main frame while the page lives. `Navigation`
  has that one, as a frame that is lost with its navigations.
* Child targets that are attached automatically, and targets that are not pages.
* `Page`, `Element`, keyboard, layout, JavaScript helpers: stateless sequences of
  commands.
* The PDL generator, a build-time compiler from text to text, and the generated
  protocol: data types. Of the 125,000 lines of Rust in the repository 111,037
  are one generated file (`chromiumoxide_cdp/src/cdp.rs`), and 1,493 are the
  table of keys.

## Plan

Done: `Handler`, `Polling` with its connection, `Navigation`, `TargetInit`,
`FrameManager` and `Frames`, `Network`, `Listeners` and `PageClient`, `Fetcher`,
`Launch` and `Lifecycle`, with the proofs above. What is left, in this order:

1. Listener types: subscriptions of several types for one method, the order in
   which they are converted, and the waker of a stream that skips an event.
2. The three futures as state machines, refining the one step each call is now.
3. Browser contexts, and targets announced before their context is registered.
