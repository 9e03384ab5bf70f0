------------------------------- MODULE Polling ------------------------------
(***************************************************************************)
(* How the task that drives the Handler is woken, in which order one call  *)
(* of poll_next visits its sources, and when the eviction job runs         *)
(* (src/src/handler/mod.rs, src/src/handler/job.rs, src/src/conn.rs).      *)
(*                                                                         *)
(* A future that returns Pending is polled again only if a waker it has    *)
(* registered is called: the channel's, the websocket's, the timer's, or   *)
(* its own.  Requests are plain commands here; module Handler tells the    *)
(* kinds of request apart.  Polling the targets, between the channel and   *)
(* the socket, is left out: their page channels register wakers the way    *)
(* the handler's own channel does.                                         *)
(*                                                                         *)
(* Time is in ticks.  Ages and the timer saturate, so that the clock needs *)
(* no bound.  An iteration of the loop lasts less than a tick: the clock   *)
(* moves at most once after the iteration has read it into `now`.          *)
(***************************************************************************)
EXTENDS Naturals, Sequences, FiniteSets, Functions

CONSTANTS
  Requests,       \* commands the clients issue, each once
  Timeout,        \* request_timeout, in ticks; also the interval of the eviction job
  IgnoreInvalid,  \* HandlerConfig.ignore_invalid_messages
  Noise,          \* what else the browser may send, of the kinds below
  MaxInbox,       \* bound: messages waiting in the socket
  MaxBurst        \* bound: messages the browser sends between two ticks

ASSUME PollingAssumption ==
  /\ Timeout \in Nat \ {0}
  /\ IgnoreInvalid \in BOOLEAN
  /\ Noise \subseteq {"event", "ping", "invalid", "unexpected", "close"}
  /\ MaxInbox \in Nat /\ MaxBurst \in Nat

VARIABLES
  phase,      \* where in poll_next the handler is, or why it is not in it
  done,       \* nothing was read from the websocket in this iteration
  lag,        \* ticks since this iteration read the clock into `now`
  woken,      \* the task is scheduled to be polled
  mailArmed,  \* the channel holds the task's waker
  sockArmed,  \* the websocket holds the task's waker, for what it receives
  writeArmed, \* ... and for the time it can write again
  armed,      \* the Delay of the eviction job holds the task's waker
  left,       \* ticks until that Delay is ready
  mailbox,    \* from_browser
  outq,       \* Connection::pending_commands
  unflushed,  \* the command that is written and not flushed: pending_flush, needs_flush
  blocked,    \* the websocket takes nothing more for now
  sent,       \* commands the browser has received and not answered
  inbox,      \* what the socket has received and the handler has not read
  socket,     \* "open"; "closing" once a close is on its way; "closed" once it is read
  burst,      \* messages sent by the browser since the last tick
  pending,    \* the requests in Handler::pending_commands
  age,        \* per request: ticks since its timestamp
  outcome,    \* per request: what the client has seen
  waited      \* per request: ticks since the client asked, up to Timeout

wakerVars  == <<mailArmed, sockArmed, writeArmed, armed>>
socketVars == <<sent, inbox, socket, burst>>
writeVars  == <<unflushed, blocked>>
clientVars == <<outcome, waited>>
vars == <<phase, done, lag, woken, wakerVars, left, mailbox, outq, writeVars,
          socketVars, pending, age, clientVars>>

-----------------------------------------------------------------------------
Cap == Timeout + 2                      \* past every deadline, whatever the lag
Resting == {"parked", "failed", "dropped"}
Working == {"mailbox", "socket", "reading", "evict"}

Message(type, r) == [type |-> type, req |-> r]
Noises == {[type |-> n] : n \in Noise}

Init ==
  /\ phase = "parked" /\ done = TRUE /\ lag = 0
  /\ woken = TRUE                       \* a spawned task is polled once unasked
  /\ mailArmed = FALSE /\ sockArmed = FALSE /\ writeArmed = FALSE /\ armed = FALSE
  /\ left = Timeout
  /\ mailbox = <<>> /\ outq = <<>> /\ unflushed = {} /\ blocked = FALSE
  /\ sent = {} /\ inbox = <<>> /\ socket = "open" /\ burst = 0
  /\ pending = {} /\ age = [r \in Requests |-> 0]
  /\ outcome = [r \in Requests |-> "idle"]
  /\ waited = [r \in Requests |-> 0]

-----------------------------------------------------------------------------
(* Clients, browser, clock.                                                *)

Ask(r) ==
  /\ outcome[r] = "idle" /\ phase # "dropped"
  /\ outcome' = [outcome EXCEPT ![r] = "waiting"]
  /\ mailbox' = Append(mailbox, r)
  /\ woken' = (woken \/ mailArmed) /\ mailArmed' = FALSE
  /\ UNCHANGED <<phase, done, lag, sockArmed, writeArmed, armed, left, outq, writeVars,
                 socketVars, pending, age, waited>>

Arrives(m) ==
  /\ socket = "open" /\ phase # "dropped"
  /\ Len(inbox) < MaxInbox /\ burst < MaxBurst
  /\ inbox' = Append(inbox, m) /\ burst' = burst + 1
  /\ woken' = (woken \/ sockArmed) /\ sockArmed' = FALSE
  /\ UNCHANGED <<phase, done, lag, mailArmed, writeArmed, armed, left, mailbox, outq, writeVars,
                 pending, age, clientVars>>

Respond(r) ==
  /\ r \in sent
  /\ Arrives(Message("response", r))
  /\ sent' = sent \ {r} /\ UNCHANGED socket

MakeNoise(m) ==
  /\ Arrives(m)
  /\ socket' = IF m.type = "close" THEN "closing" ELSE socket
  /\ UNCHANGED sent

\* The websocket takes nothing more for now, which matters only to what is to be flushed, ...
Blocks ==
  /\ ~blocked /\ unflushed # {} /\ blocked' = TRUE
  /\ UNCHANGED <<phase, done, lag, woken, wakerVars, left, mailbox, outq, unflushed, socketVars,
                 pending, age, clientVars>>

\* ... and can write again.
Unblocks ==
  /\ blocked /\ blocked' = FALSE
  /\ woken' = (woken \/ writeArmed) /\ writeArmed' = FALSE
  /\ UNCHANGED <<phase, done, lag, mailArmed, sockArmed, armed, left, mailbox, outq, unflushed,
                 socketVars, pending, age, clientVars>>

BrowserEvent == "event" \in Noise /\ MakeNoise([type |-> "event"])

Tick ==
  /\ phase \in Resting \/ lag = 0
  /\ lag' = IF phase \in Resting THEN 0 ELSE 1
  /\ age' = [r \in Requests |-> IF r \in pending /\ age[r] < Cap THEN age[r] + 1 ELSE age[r]]
  /\ waited' = [r \in Requests |-> IF outcome[r] = "waiting" /\ waited[r] < Timeout
                                   THEN waited[r] + 1 ELSE waited[r]]
  /\ left' = IF left > 0 THEN left - 1 ELSE 0
  /\ woken' = (woken \/ (armed /\ left' = 0))
  /\ armed' = (armed /\ left' > 0)
  /\ burst' = 0
  /\ UNCHANGED <<phase, done, mailArmed, sockArmed, writeArmed, mailbox, outq, writeVars, sent,
                 inbox, socket, pending, outcome>>

-----------------------------------------------------------------------------
(* poll_next.                                                              *)

\* The loop starts an iteration: it reads the clock, nothing is read so far.
Iterate == phase' = "mailbox" /\ lag' = 0 /\ done' = TRUE

Poll ==
  /\ phase = "parked" /\ woken
  /\ Iterate /\ woken' = FALSE
  /\ UNCHANGED <<wakerVars, left, mailbox, outq, writeVars, socketVars, pending, age, clientVars>>

\* The timestamp of the request is the iteration's `now`, `lag` ticks ago.
SubmitExternalCommand ==
  /\ phase = "mailbox" /\ mailbox # <<>>
  /\ LET r == Head(mailbox) IN
       /\ pending' = pending \cup {r}
       /\ age' = [age EXCEPT ![r] = lag]
       /\ outq' = Append(outq, r)
  /\ mailbox' = Tail(mailbox)
  /\ UNCHANGED <<phase, done, lag, woken, wakerVars, left, writeVars, socketVars, clientVars>>

\* Mutant of MailboxDrained: the receiver is not polled to Pending.
MailboxDrainedUnarmed ==
  /\ phase = "mailbox" /\ mailbox = <<>>
  /\ phase' = "socket"
  /\ UNCHANGED <<done, lag, woken, wakerVars, left, mailbox, outq, writeVars, socketVars,
                 pending, age, clientVars>>

MailboxDrained ==
  /\ phase = "mailbox" /\ mailbox = <<>>
  /\ phase' = "socket" /\ mailArmed' = TRUE
  /\ UNCHANGED <<done, lag, woken, sockArmed, writeArmed, armed, left, mailbox, outq, writeVars,
                 socketVars, pending, age, clientVars>>

\* start_send_next: the next command is written once the one before it is flushed.
SendNext ==
  /\ phase = "socket" /\ unflushed = {} /\ outq # <<>> /\ socket # "closed"
  /\ outq' = Tail(outq) /\ unflushed' = {Head(outq)}
  /\ UNCHANGED <<phase, done, lag, woken, wakerVars, left, mailbox, blocked, socketVars,
                 pending, age, clientVars>>

\* Writing to a closed socket fails; the command is gone from the queue.
SendFails ==
  /\ phase = "socket" /\ unflushed = {} /\ outq # <<>> /\ socket = "closed"
  /\ phase' = "failed" /\ outq' = Tail(outq)
  /\ UNCHANGED <<done, lag, woken, wakerVars, left, mailbox, writeVars, socketVars, pending,
                 age, clientVars>>

Flushes ==
  /\ phase = "socket" /\ unflushed # {} /\ ~blocked /\ socket # "closed"
  /\ sent' = sent \cup unflushed /\ unflushed' = {}
  /\ UNCHANGED <<phase, done, lag, woken, wakerVars, left, mailbox, outq, blocked, inbox,
                 socket, burst, pending, age, clientVars>>

\* Nothing is left to write, or poll_ready or poll_flush is pending, or flushing fails,
\* which is ignored.  The socket is read in any case.
Written ==
  /\ phase = "socket"
  /\ IF unflushed = {} THEN outq = <<>> /\ UNCHANGED writeArmed
     ELSE (blocked \/ socket = "closed") /\ writeArmed' = (socket # "closed")
  /\ phase' = "reading"
  /\ UNCHANGED <<done, lag, woken, mailArmed, sockArmed, armed, left, mailbox, outq, writeVars,
                 socketVars, pending, age, clientVars>>

\* The next message; the connection writes again before it reads another.
Reads(type) ==
  /\ phase = "reading"
  /\ inbox # <<>> /\ Head(inbox).type = type
  /\ inbox' = Tail(inbox)
  /\ UNCHANGED <<lag, wakerVars, left, mailbox, outq, writeVars, sent, burst, age, waited>>

OnResponse ==
  /\ Reads("response")
  /\ LET r == Head(inbox).req IN
       /\ pending' = pending \ {r}
       /\ outcome' = IF r \in pending THEN [outcome EXCEPT ![r] = "answered"] ELSE outcome
  /\ phase' = "socket" /\ done' = FALSE
  /\ UNCHANGED <<woken, socket>>

OnEvent ==
  /\ Reads("event")
  /\ phase' = "socket" /\ done' = FALSE
  /\ UNCHANGED <<woken, socket, pending, outcome>>

OnInvalidMessage ==
  /\ Reads("invalid")
  /\ IF IgnoreInvalid THEN phase' = "socket" /\ done' = FALSE
                      ELSE phase' = "failed" /\ UNCHANGED done
  /\ UNCHANGED <<woken, socket, pending, outcome>>

\* Messages that are not text, and errors of the websocket.
OnUnexpectedMessage ==
  /\ Reads("unexpected")
  /\ phase' = "failed"
  /\ UNCHANGED <<done, woken, socket, pending, outcome>>

\* Mutant of OnPing: Pending is returned without waking the task.
OnPingSilently ==
  /\ Reads("ping")
  /\ phase' = "evict"
  /\ UNCHANGED <<done, woken, socket, pending, outcome>>

\* The connection returns Pending although the socket was not, so it wakes itself.
OnPing ==
  /\ Reads("ping")
  /\ phase' = "evict" /\ woken' = TRUE
  /\ UNCHANGED <<done, socket, pending, outcome>>

\* The connection's stream ends; the handler takes it for "nothing to read".
OnClose ==
  /\ Reads("close")
  /\ phase' = "evict" /\ socket' = "closed"
  /\ UNCHANGED <<done, woken, pending, outcome>>

SocketDrained ==
  /\ phase = "reading" /\ inbox = <<>>
  /\ phase' = "evict" /\ sockArmed' = (socket # "closed")
  /\ UNCHANGED <<done, lag, woken, mailArmed, writeArmed, armed, left, mailbox, outq, writeVars,
                 socketVars, pending, age, clientVars>>

\* Mutant of Overdue: the deadline counts.
OverdueAtDeadline(r) == age[r] >= lag + Timeout

\* Mutant of Overdue: the timeout is taken in another unit (seconds for milliseconds).
OverdueMuchLater(r) == age[r] > lag + 1000 * Timeout

Overdue(r) == age[r] > lag + Timeout     \* now > timestamp + request_timeout

NextIteration == IF done THEN phase' = "parked" /\ UNCHANGED <<lag, done>> ELSE Iterate

\* Mutant of EvictTimedOutCommands: the Delay counts the timeout twice.
EvictAtHalfPace ==
  /\ phase = "evict" /\ left = 0
  /\ left' = 2 * Timeout /\ armed' = FALSE
  /\ LET late == {r \in pending : Overdue(r)} IN
       /\ pending' = pending \ late
       /\ outcome' = [r \in Requests |-> IF r \in late THEN "timeout" ELSE outcome[r]]
  /\ NextIteration
  /\ UNCHANGED <<woken, mailArmed, sockArmed, writeArmed, mailbox, outq, writeVars, socketVars,
                 age, waited>>

\* PeriodicJob::poll_ready with a Delay that is ready: the Delay is set anew, and
\* since it is not polled after that, it holds no waker.
EvictTimedOutCommands ==
  /\ phase = "evict" /\ left = 0
  /\ left' = Timeout /\ armed' = FALSE
  /\ LET late == {r \in pending : Overdue(r)} IN
       /\ pending' = pending \ late
       /\ outcome' = [r \in Requests |-> IF r \in late THEN "timeout" ELSE outcome[r]]
  /\ NextIteration
  /\ UNCHANGED <<woken, mailArmed, sockArmed, writeArmed, mailbox, outq, writeVars, socketVars,
                 age, waited>>

EvictionNotDue ==
  /\ phase = "evict" /\ left > 0
  /\ armed' = TRUE
  /\ NextIteration
  /\ UNCHANGED <<woken, mailArmed, sockArmed, writeArmed, left, mailbox, outq, writeVars,
                 socketVars, pending, age, clientVars>>

\* poll_next has returned an error: the stream is polled again ...
PollAgain ==
  /\ phase = "failed"
  /\ Iterate
  /\ UNCHANGED <<woken, wakerVars, left, mailbox, outq, writeVars, socketVars, pending, age,
                 clientVars>>

\* ... or the loop that polled it ends and the handler is dropped with every sender.
DropHandler ==
  /\ phase = "failed" /\ phase' = "dropped"
  /\ outcome' = [r \in Requests |-> IF outcome[r] = "waiting" THEN "canceled" ELSE outcome[r]]
  /\ mailbox' = <<>> /\ outq' = <<>> /\ unflushed' = {} /\ pending' = {}
  /\ inbox' = <<>> /\ sent' = {}
  /\ UNCHANGED <<done, lag, woken, wakerVars, left, blocked, socket, burst, age, waited>>

-----------------------------------------------------------------------------
HandlerStep == \/ Poll \/ SubmitExternalCommand \/ MailboxDrained
               \/ SendNext \/ SendFails \/ Flushes \/ Written
               \/ OnResponse \/ OnEvent \/ OnInvalidMessage \/ OnUnexpectedMessage
               \/ OnPing \/ OnClose
               \/ SocketDrained \/ EvictTimedOutCommands \/ EvictionNotDue
               \/ PollAgain \/ DropHandler

Next == \/ \E r \in Requests : Ask(r) \/ Respond(r)
        \/ \E m \in Noises : MakeNoise(m)
        \/ Blocks \/ Unblocks \/ Tick
        \/ HandlerStep

\* The executor runs a woken task, and time passes.
Fairness == WF_vars(HandlerStep) /\ WF_vars(Tick)
Spec == Init /\ [][Next]_vars /\ Fairness

-----------------------------------------------------------------------------
TypeOK ==
  /\ phase \in Resting \cup Working /\ done \in BOOLEAN /\ lag \in {0, 1}
  /\ woken \in BOOLEAN /\ mailArmed \in BOOLEAN /\ sockArmed \in BOOLEAN
  /\ writeArmed \in BOOLEAN /\ armed \in BOOLEAN /\ blocked \in BOOLEAN
  /\ left \in 0 .. Timeout
  /\ mailbox \in Seq(Requests) /\ outq \in Seq(Requests)
  /\ unflushed \subseteq Requests /\ sent \subseteq Requests
  /\ inbox \in Seq([type : {"response"}, req : Requests] \cup Noises)
  /\ Len(inbox) <= MaxInbox /\ burst \in 0 .. MaxBurst
  /\ socket \in {"open", "closing", "closed"}
  /\ pending \subseteq Requests /\ age \in [Requests -> 0 .. Cap]
  /\ outcome \in [Requests -> {"idle", "waiting", "answered", "timeout", "canceled"}]
  /\ waited \in [Requests -> 0 .. Timeout]

\* While the task sleeps, nothing it could read is waiting and whatever may come
\* will wake it: no message is lost between the drained channels and the park.
NoLostWakeup ==
  phase = "parked" /\ ~woken =>
    /\ mailbox = <<>> /\ mailArmed
    /\ inbox = <<>> /\ (sockArmed \/ socket = "closed")
    /\ IF unflushed = {} THEN outq = <<>> ELSE writeArmed \/ socket = "closed"

\* No command times out before its client has waited for the whole timeout,
\* although its timestamp may be older than the moment the client asked.
NotTimedOutEarly ==
  [][\A r \in Requests :
       outcome[r] # "timeout" /\ outcome'[r] = "timeout" => waited[r] >= Timeout]_vars

\* A message put into the channel is taken out of it, whatever the browser does.
MailIsRead == \A r \in Requests : outcome[r] = "waiting" ~> r \notin Range(mailbox)

\* Every command is answered, timed out or canceled in the end.
EveryCommandConcludes == \A r \in Requests : outcome[r] = "waiting" ~> outcome[r] # "waiting"

\* They do if the browser has some event to report again and again, which polls the
\* handler, and poll_next does not return an error again and again, which it does
\* before it gets to the eviction job.
EventsConcludeCommands ==
  []<><<BrowserEvent>>_vars /\ <>[](phase # "failed") => EveryCommandConcludes
=============================================================================
