----------------------------- MODULE PollingProof ----------------------------
(***************************************************************************)
(* The task that drives the handler never sleeps with something to do, and *)
(* without the wakers that would tell it of more, and no command is given  *)
(* up before its client has waited for the whole timeout: for every number *)
(* of commands, every timeout, and every browser.                          *)
(***************************************************************************)
EXTENDS Polling, TLAPS

-----------------------------------------------------------------------------
(* The inductive invariant.                                                *)

\* A close is the last message of the socket.
CloseIsLast ==
  /\ \A i \in DOMAIN inbox : inbox[i].type = "close" => i = Len(inbox) /\ socket = "closing"
  /\ socket = "closed" => inbox = <<>>

\* Once the iteration has drained the channel, new mail wakes the task.
MailWakes ==
  phase \in {"socket", "reading", "evict", "parked"} => woken \/ (mailArmed /\ mailbox = <<>>)

\* Once it has written what the socket takes, the socket does when it takes more.
WriteWakes ==
  phase \in {"reading", "evict", "parked"} =>
    woken \/ IF unflushed = {} THEN outq = <<>> ELSE writeArmed \/ socket = "closed"

\* Once it has left the socket, what arrives there does.
SocketWakes ==
  phase \in {"evict", "parked"} =>
    woken \/ (inbox = <<>> /\ (sockArmed \/ socket = "closed"))

IInv == TypeOK /\ CloseIsLast /\ MailWakes /\ WriteWakes /\ SocketWakes

Inputs == [type : {"response"}, req : Requests] \cup Noises

-----------------------------------------------------------------------------
(* Sequences.                                                              *)

LEMMA AppendProps ==
  ASSUME NEW S, NEW s \in Seq(S), NEW x \in S
  PROVE  /\ Append(s, x) \in Seq(S) /\ Len(Append(s, x)) = Len(s) + 1
         /\ \A i \in DOMAIN Append(s, x) :
              \/ i \in DOMAIN s /\ Append(s, x)[i] = s[i]
              \/ i = Len(s) + 1 /\ Append(s, x)[i] = x
OBVIOUS

LEMMA TailProps ==
  ASSUME NEW S, NEW s \in Seq(S), s # <<>>
  PROVE  /\ Head(s) \in S /\ Head(s) = s[1] /\ 1 \in DOMAIN s
         /\ Tail(s) \in Seq(S) /\ Len(Tail(s)) = Len(s) - 1
         /\ \A i \in DOMAIN Tail(s) : i + 1 \in DOMAIN s /\ Tail(s)[i] = s[i + 1]
OBVIOUS

-----------------------------------------------------------------------------
(* Clients, browser and clock.                                             *)

LEMMA AskStep ==
  ASSUME IInv, NEW r \in Requests, Ask(r)
  PROVE  IInv'
<1> USE DEF IInv
<1>1. mailbox' \in Seq(Requests)
  BY DEF Ask, TypeOK
<1>2. TypeOK'
  BY <1>1 DEF Ask, TypeOK, writeVars, socketVars
<1>3. CloseIsLast' /\ MailWakes' /\ WriteWakes' /\ SocketWakes'
  BY DEF Ask, CloseIsLast, MailWakes, WriteWakes, SocketWakes, writeVars, socketVars
<1> QED BY <1>2, <1>3

\* A message of the browser, which is a close if it closes the socket.
LEMMA ArrivesStep ==
  ASSUME IInv, NEW m \in Inputs, Arrives(m), sent' \in SUBSET Requests,
         socket' = IF m.type = "close" THEN "closing" ELSE socket
  PROVE  IInv'
<1> USE DEF IInv
<1>1. /\ socket = "open" /\ Len(inbox) < MaxInbox /\ burst < MaxBurst
      /\ inbox' = Append(inbox, m) /\ burst' = burst + 1
      /\ woken' = (woken \/ sockArmed) /\ sockArmed' = FALSE
      /\ UNCHANGED <<phase, done, lag, mailArmed, writeArmed, armed, left, mailbox, outq,
                     writeVars, pending, age, clientVars>>
  BY DEF Arrives
<1>2. inbox \in Seq(Inputs)
  BY DEF TypeOK, Inputs
<1>3. /\ inbox' \in Seq(Inputs) /\ Len(inbox') = Len(inbox) + 1
      /\ \A i \in DOMAIN inbox' :
           \/ i \in DOMAIN inbox /\ inbox'[i] = inbox[i]
           \/ i = Len(inbox) + 1 /\ inbox'[i] = m
  BY <1>1, <1>2, AppendProps
<1>4. Len(inbox') <= MaxInbox /\ burst' \in 0 .. MaxBurst
  BY <1>1, <1>2, <1>3, PollingAssumption DEF TypeOK
<1>5. TypeOK'
  BY <1>1, <1>3, <1>4 DEF TypeOK, Inputs, writeVars, clientVars
<1>6. CloseIsLast'
  BY <1>1, <1>3 DEF CloseIsLast
<1>7. MailWakes' /\ WriteWakes' /\ SocketWakes'
  BY <1>1 DEF MailWakes, WriteWakes, SocketWakes, writeVars
<1> QED BY <1>5, <1>6, <1>7

LEMMA BlockStep ==
  ASSUME IInv, Blocks \/ Unblocks
  PROVE  IInv'
<1> USE DEF IInv
<1>1. blocked' \in BOOLEAN /\ woken' \in BOOLEAN /\ writeArmed' \in BOOLEAN
  BY DEF Blocks, Unblocks, TypeOK, wakerVars
<1>2. UNCHANGED <<phase, done, lag, mailArmed, sockArmed, armed, left, mailbox, outq, unflushed,
                 socketVars, pending, age, clientVars>>
  BY DEF Blocks, Unblocks, wakerVars
<1>3. TypeOK'
  BY <1>1, <1>2 DEF TypeOK, socketVars, clientVars
<1>4. CloseIsLast'
  BY <1>2 DEF CloseIsLast, socketVars
<1>5. MailWakes' /\ WriteWakes' /\ SocketWakes'
  <2>1. CASE Blocks
    BY <2>1 DEF Blocks, MailWakes, WriteWakes, SocketWakes, wakerVars, socketVars
  <2>2. CASE Unblocks
    BY <2>2 DEF Unblocks, MailWakes, WriteWakes, SocketWakes, socketVars
  <2> QED BY <2>1, <2>2
<1> QED BY <1>3, <1>4, <1>5

LEMMA RespondStep ==
  ASSUME IInv, NEW r \in Requests, Respond(r)
  PROVE  IInv'
<1>1. Message("response", r) \in Inputs /\ Message("response", r).type # "close"
  BY DEF Message, Inputs
<1>2. sent' \in SUBSET Requests
  BY DEF Respond, IInv, TypeOK
<1> QED BY <1>1, <1>2, ArrivesStep DEF Respond

LEMMA MakeNoiseStep ==
  ASSUME IInv, NEW m \in Noises, MakeNoise(m)
  PROVE  IInv'
BY ArrivesStep DEF MakeNoise, Inputs, IInv, TypeOK

LEMMA TickStep ==
  ASSUME IInv, Tick
  PROVE  IInv'
<1> USE DEF IInv
<1>1. lag' \in {0, 1} /\ left' \in 0 .. Timeout /\ burst' \in 0 .. MaxBurst
  BY PollingAssumption DEF Tick, TypeOK
<1>2. age' \in [Requests -> 0 .. Cap]
  BY PollingAssumption DEF Tick, TypeOK, Cap
<1>3. waited' \in [Requests -> 0 .. Timeout]
  BY PollingAssumption DEF Tick, TypeOK
<1>4. woken' \in BOOLEAN /\ armed' \in BOOLEAN
  BY DEF Tick, TypeOK
<1>5. TypeOK'
  BY <1>1, <1>2, <1>3, <1>4 DEF Tick, TypeOK, writeVars
<1>6. CloseIsLast' /\ MailWakes' /\ WriteWakes' /\ SocketWakes'
  BY DEF Tick, CloseIsLast, MailWakes, WriteWakes, SocketWakes, writeVars
<1> QED BY <1>5, <1>6

-----------------------------------------------------------------------------
(* poll_next.                                                              *)

\* The iteration begins: nothing is drained yet.
LEMMA IterateStep ==
  ASSUME IInv, Poll \/ PollAgain
  PROVE  IInv'
<1> USE DEF IInv
<1>1. /\ phase' = "mailbox" /\ lag' = 0 /\ done' = TRUE /\ woken' \in BOOLEAN
      /\ UNCHANGED <<wakerVars, left, mailbox, outq, writeVars, socketVars, pending, age, clientVars>>
  BY DEF Poll, PollAgain, Iterate, TypeOK
<1>2. TypeOK'
  BY <1>1 DEF TypeOK, Working, wakerVars, writeVars, socketVars, clientVars
<1>3. CloseIsLast' /\ MailWakes' /\ WriteWakes' /\ SocketWakes'
  BY <1>1 DEF CloseIsLast, MailWakes, WriteWakes, SocketWakes, writeVars, socketVars
<1> QED BY <1>2, <1>3

LEMMA MailboxStep ==
  ASSUME IInv, SubmitExternalCommand \/ MailboxDrained
  PROVE  IInv'
<1> USE DEF IInv
<1>1. CASE SubmitExternalCommand
  <2>1. /\ phase = "mailbox" /\ mailbox # <<>>
        /\ pending' = pending \cup {Head(mailbox)}
        /\ age' = [age EXCEPT ![Head(mailbox)] = lag]
        /\ outq' = Append(outq, Head(mailbox)) /\ mailbox' = Tail(mailbox)
        /\ UNCHANGED <<phase, done, lag, woken, wakerVars, left, writeVars, socketVars, clientVars>>
    BY <1>1 DEF SubmitExternalCommand
  <2>2. Head(mailbox) \in Requests /\ mailbox' \in Seq(Requests)
    BY <2>1, TailProps DEF TypeOK
  <2>3. outq' \in Seq(Requests)
    BY <2>1, <2>2 DEF TypeOK
  <2>4. age' \in [Requests -> 0 .. Cap]
    BY <2>1, PollingAssumption DEF TypeOK, Cap
  <2>5. TypeOK'
    BY <2>1, <2>2, <2>3, <2>4 DEF TypeOK, wakerVars, writeVars, socketVars, clientVars
  <2>6. CloseIsLast' /\ MailWakes' /\ WriteWakes' /\ SocketWakes'
    BY <2>1 DEF CloseIsLast, MailWakes, WriteWakes, SocketWakes, writeVars, socketVars
  <2> QED BY <2>5, <2>6
<1>2. CASE MailboxDrained
  <2>1. TypeOK'
    BY <1>2 DEF MailboxDrained, TypeOK, Working, writeVars, socketVars, clientVars
  <2>2. CloseIsLast' /\ MailWakes' /\ WriteWakes' /\ SocketWakes'
    BY <1>2 DEF MailboxDrained, CloseIsLast, MailWakes, WriteWakes, SocketWakes, writeVars, socketVars
  <2> QED BY <2>1, <2>2
<1> QED BY <1>1, <1>2

LEMMA SendStep ==
  ASSUME IInv, SendNext \/ SendFails
  PROVE  IInv'
<1> USE DEF IInv
<1>1. outq # <<>> /\ outq' = Tail(outq) /\ phase = "socket"
      /\ UNCHANGED <<done, lag, woken, wakerVars, left, mailbox, blocked, socketVars, pending,
                     age, clientVars>>
  BY DEF SendNext, SendFails, writeVars
<1>2. Head(outq) \in Requests /\ outq' \in Seq(Requests)
  BY <1>1, TailProps DEF TypeOK
<1>3. unflushed' \in SUBSET Requests /\ phase' \in {"socket", "failed"}
  BY <1>2 DEF SendNext, SendFails, writeVars, TypeOK
<1>4. TypeOK'
  BY <1>1, <1>2, <1>3 DEF TypeOK, Resting, Working, wakerVars, socketVars, clientVars
<1>5. CloseIsLast' /\ MailWakes' /\ WriteWakes' /\ SocketWakes'
  BY <1>1, <1>3 DEF CloseIsLast, MailWakes, WriteWakes, SocketWakes, wakerVars, socketVars
<1> QED BY <1>4, <1>5

LEMMA FlushStep ==
  ASSUME IInv, Flushes \/ Written
  PROVE  IInv'
<1> USE DEF IInv
<1>1. TypeOK'
  BY DEF Flushes, Written, TypeOK, Working, wakerVars, writeVars, socketVars, clientVars
<1>2. CloseIsLast' /\ MailWakes' /\ WriteWakes' /\ SocketWakes'
  BY DEF Flushes, Written, CloseIsLast, MailWakes, WriteWakes, SocketWakes, wakerVars,
         writeVars, socketVars
<1> QED BY <1>1, <1>2

\* The first message is read.  What the messages have in common.
LEMMA ReadsStep ==
  ASSUME IInv, NEW type, Reads(type)
  PROVE  /\ phase = "reading" /\ inbox # <<>>
         /\ Head(inbox) = inbox[1] /\ 1 \in DOMAIN inbox /\ inbox[1].type = type
         /\ Head(inbox) \in Inputs /\ inbox' \in Seq(Inputs) /\ Len(inbox') = Len(inbox) - 1
         /\ Len(inbox') <= MaxInbox
         /\ socket' = socket => CloseIsLast'
         /\ UNCHANGED <<lag, wakerVars, left, mailbox, outq, writeVars, sent, burst, age, waited>>
<1> USE DEF IInv
<1>1. /\ phase = "reading" /\ inbox # <<>> /\ Head(inbox).type = type
      /\ inbox' = Tail(inbox)
      /\ UNCHANGED <<lag, wakerVars, left, mailbox, outq, writeVars, sent, burst, age, waited>>
  BY DEF Reads
<1>2. inbox \in Seq(Inputs)
  BY DEF TypeOK, Inputs
<1>3. /\ Head(inbox) \in Inputs /\ Head(inbox) = inbox[1] /\ 1 \in DOMAIN inbox
      /\ inbox' \in Seq(Inputs) /\ Len(inbox') = Len(inbox) - 1
      /\ \A i \in DOMAIN inbox' : i + 1 \in DOMAIN inbox /\ inbox'[i] = inbox[i + 1]
  BY <1>1, <1>2, TailProps
<1>4. Len(inbox') <= MaxInbox
  BY <1>2, <1>3, PollingAssumption DEF TypeOK
<1>5. socket' = socket => CloseIsLast'
  <2> SUFFICES ASSUME socket' = socket PROVE CloseIsLast'
    OBVIOUS
  <2>1. ASSUME NEW i \in DOMAIN inbox', inbox'[i].type = "close"
        PROVE  i = Len(inbox') /\ socket' = "closing"
    <3>1. i + 1 = Len(inbox) /\ socket = "closing"
      BY <1>3, <2>1 DEF CloseIsLast
    <3>2. i \in Nat /\ Len(inbox) \in Nat
      BY <1>2, <1>3, <2>1
    <3> QED BY <1>3, <3>1, <3>2
  <2>2. socket' # "closed"
    BY <1>1 DEF CloseIsLast
  <2> QED BY <2>1, <2>2 DEF CloseIsLast
<1> QED BY <1>1, <1>3, <1>4, <1>5

LEMMA MessageStep ==
  ASSUME IInv, OnResponse \/ OnEvent \/ OnInvalidMessage \/ OnUnexpectedMessage \/ OnPing
  PROVE  IInv'
<1> USE DEF IInv
<1>1. /\ \E type \in {"response", "event", "invalid", "unexpected", "ping"} : Reads(type)
      /\ socket' = socket
      /\ done' \in BOOLEAN /\ woken' \in BOOLEAN
      /\ \/ phase' \in {"socket", "failed"} /\ woken' = woken
         \/ phase' = "evict" /\ woken'
  BY DEF OnResponse, OnEvent, OnInvalidMessage, OnUnexpectedMessage, OnPing, Reads, TypeOK
<1>2. /\ phase = "reading" /\ inbox' \in Seq(Inputs) /\ Len(inbox') <= MaxInbox
      /\ CloseIsLast'
      /\ UNCHANGED <<lag, wakerVars, left, mailbox, outq, writeVars, sent, burst, age, waited>>
  BY <1>1, ReadsStep
<1>3. /\ pending' \subseteq Requests
      /\ outcome' \in [Requests -> {"idle", "waiting", "answered", "timeout", "canceled"}]
  BY DEF OnResponse, OnEvent, OnInvalidMessage, OnUnexpectedMessage, OnPing, TypeOK
<1>4. TypeOK'
  BY <1>1, <1>2, <1>3 DEF TypeOK, Resting, Working, wakerVars, writeVars, Inputs
<1>5. MailWakes' /\ WriteWakes' /\ SocketWakes'
  BY <1>1, <1>2 DEF MailWakes, WriteWakes, SocketWakes, wakerVars, writeVars
<1> QED BY <1>2, <1>4, <1>5

\* The close is the last message, so nothing is left to read.
LEMMA OnCloseStep ==
  ASSUME IInv, OnClose
  PROVE  IInv'
<1> USE DEF IInv
<1>1. Reads("close") /\ phase' = "evict" /\ socket' = "closed"
      /\ UNCHANGED <<done, woken, pending, outcome>>
  BY DEF OnClose
<1>2. /\ phase = "reading" /\ 1 \in DOMAIN inbox /\ inbox[1].type = "close"
      /\ inbox' \in Seq(Inputs) /\ Len(inbox') = Len(inbox) - 1 /\ Len(inbox') <= MaxInbox
      /\ UNCHANGED <<lag, wakerVars, left, mailbox, outq, writeVars, sent, burst, age, waited>>
  BY <1>1, ReadsStep
<1>3. inbox' = <<>>
  <2>1. Len(inbox) = 1
    BY <1>2 DEF CloseIsLast
  <2> QED BY <1>2, <2>1
<1>4. TypeOK'
  BY <1>1, <1>2, <1>3 DEF TypeOK, Working, wakerVars, writeVars, Inputs
<1>5. CloseIsLast' /\ MailWakes' /\ WriteWakes' /\ SocketWakes'
  BY <1>1, <1>2, <1>3 DEF CloseIsLast, MailWakes, WriteWakes, SocketWakes, wakerVars,
                              writeVars
<1> QED BY <1>4, <1>5

LEMMA SocketDrainedStep ==
  ASSUME IInv, SocketDrained
  PROVE  IInv'
<1> USE DEF IInv
<1>1. TypeOK'
  BY DEF SocketDrained, TypeOK, Working, writeVars, socketVars, clientVars
<1>2. CloseIsLast' /\ MailWakes' /\ WriteWakes' /\ SocketWakes'
  BY DEF SocketDrained, CloseIsLast, MailWakes, WriteWakes, SocketWakes, writeVars, socketVars
<1> QED BY <1>1, <1>2

\* The end of the iteration: the task sleeps, or begins the next one.
LEMMA EvictStep ==
  ASSUME IInv, EvictTimedOutCommands \/ EvictionNotDue
  PROVE  IInv'
<1> USE DEF IInv
<1>1. /\ phase = "evict"
      /\ \/ phase' = "parked" /\ UNCHANGED <<lag, done>>
         \/ phase' = "mailbox" /\ lag' = 0 /\ done' = TRUE
      /\ UNCHANGED <<woken, mailArmed, sockArmed, writeArmed, mailbox, outq, writeVars, socketVars,
                     age, waited>>
  BY DEF EvictTimedOutCommands, EvictionNotDue, NextIteration, Iterate, clientVars
<1>2. left' \in 0 .. Timeout
  BY PollingAssumption DEF EvictTimedOutCommands, EvictionNotDue, TypeOK, PollingAssumption
<1>3. armed' \in BOOLEAN /\ pending' \subseteq Requests
  BY DEF EvictTimedOutCommands, EvictionNotDue, TypeOK
<1>4. outcome' \in [Requests -> {"idle", "waiting", "answered", "timeout", "canceled"}]
  BY DEF EvictTimedOutCommands, EvictionNotDue, clientVars, TypeOK
<1>5. TypeOK'
  BY <1>1, <1>2, <1>3, <1>4 DEF TypeOK, Resting, Working, writeVars, socketVars
<1>6. CloseIsLast' /\ MailWakes' /\ WriteWakes' /\ SocketWakes'
  BY <1>1 DEF CloseIsLast, MailWakes, WriteWakes, SocketWakes, writeVars, socketVars
<1> QED BY <1>5, <1>6

LEMMA DropHandlerStep ==
  ASSUME IInv, DropHandler
  PROVE  IInv'
<1> USE DEF IInv
<1>1. outcome' \in [Requests -> {"idle", "waiting", "answered", "timeout", "canceled"}]
  BY DEF DropHandler, TypeOK
<1>2. TypeOK'
  BY <1>1, PollingAssumption DEF DropHandler, TypeOK, Resting, wakerVars
<1>3. CloseIsLast' /\ MailWakes' /\ WriteWakes' /\ SocketWakes'
  BY DEF DropHandler, CloseIsLast, MailWakes, WriteWakes, SocketWakes
<1> QED BY <1>2, <1>3

-----------------------------------------------------------------------------
(* The theorems.                                                           *)

LEMMA InitOK == Init => IInv
<1> SUFFICES ASSUME Init PROVE IInv
  OBVIOUS
<1>1. left \in 0 .. Timeout /\ burst \in 0 .. MaxBurst /\ Len(inbox) <= MaxInbox
  BY PollingAssumption DEF Init, PollingAssumption
<1>2. age \in [Requests -> 0 .. Cap] /\ waited \in [Requests -> 0 .. Timeout]
  BY PollingAssumption DEF Init, Cap, PollingAssumption
<1>3. outcome \in [Requests -> {"idle", "waiting", "answered", "timeout", "canceled"}]
  BY DEF Init
<1>4. /\ mailbox \in Seq(Requests) /\ outq \in Seq(Requests)
      /\ inbox \in Seq([type : {"response"}, req : Requests] \cup Noises)
  <2> DEFINE M == [type : {"response"}, req : Requests] \cup Noises
  <2>1. <<>> \in Seq(M)
    <3> HIDE DEF M
    <3> QED OBVIOUS
  <2> QED BY <2>1 DEF Init
<1>5. TypeOK
  BY <1>1, <1>2, <1>3, <1>4 DEF Init, TypeOK, Resting
<1>6. CloseIsLast /\ MailWakes /\ WriteWakes /\ SocketWakes
  BY DEF Init, CloseIsLast, MailWakes, WriteWakes, SocketWakes
<1> QED BY <1>5, <1>6 DEF IInv

\* The inductive invariant: types, the place of a close, and who wakes the task once
\* a source is drained.
THEOREM PollingInvariance == Spec => []IInv
<1>1. IInv /\ [Next]_vars => IInv'
  <2> SUFFICES ASSUME IInv, [Next]_vars PROVE IInv'
    OBVIOUS
  <2>1. CASE \E r \in Requests : Ask(r) \/ Respond(r)
    BY <2>1, AskStep, RespondStep
  <2>2. CASE \E m \in Noises : MakeNoise(m)
    BY <2>2, MakeNoiseStep
  <2>3. CASE Blocks \/ Unblocks \/ Tick
    BY <2>3, BlockStep, TickStep
  <2>4. CASE HandlerStep
    BY <2>4, IterateStep, MailboxStep, SendStep, FlushStep, MessageStep, OnCloseStep, SocketDrainedStep,
       EvictStep, DropHandlerStep DEF HandlerStep
  <2>5. CASE UNCHANGED vars
    BY <2>5 DEF vars, wakerVars, writeVars, socketVars, clientVars, IInv, TypeOK, CloseIsLast,
                MailWakes, WriteWakes, SocketWakes
  <2> QED BY <2>1, <2>2, <2>3, <2>4, <2>5 DEF Next
<1> QED BY <1>1, InitOK, PTL DEF Spec

\* Every variable of the polled handler has its type, for any number of commands and
\* any timeout.
THEOREM PollingTypeCorrect == Spec => []TypeOK
<1>1. IInv => TypeOK
  BY DEF IInv
<1> QED BY <1>1, PollingInvariance, PTL

\* The task never sleeps while there is something to read, or without the wakers
\* that tell it of what comes: poll_next returns Pending only after each source
\* returned Pending to it, or with the task woken by itself.
THEOREM WakeupsAreNotLost == Spec => []NoLostWakeup
<1>1. IInv => NoLostWakeup
  BY DEF IInv, MailWakes, WriteWakes, SocketWakes, NoLostWakeup
<1> QED BY <1>1, PollingInvariance, PTL

-----------------------------------------------------------------------------
(* Nothing times out early.                                                *)

\* A command in the channel is there once and was not submitted before.
CommandsAreNew ==
  /\ \A i \in DOMAIN mailbox : outcome[mailbox[i]] = "waiting" /\ mailbox[i] \notin pending
  /\ \A i, j \in DOMAIN mailbox : mailbox[i] = mailbox[j] => i = j

\* The timestamp of a request is at most one tick older than the client's call.
AgesAreTrue ==
  \A r \in pending : outcome[r] = "waiting" /\ (waited[r] = Timeout \/ age[r] <= waited[r] + 1)

Requested == CommandsAreNew /\ AgesAreTrue

LEMMA RequestedUnchanged ==
  ASSUME Requested, UNCHANGED <<mailbox, pending, age, clientVars>>
  PROVE  Requested'
BY DEF Requested, CommandsAreNew, AgesAreTrue, clientVars

LEMMA RequestedAsk ==
  ASSUME IInv, Requested, NEW r \in Requests, Ask(r)
  PROVE  Requested'
<1>1. /\ outcome[r] = "idle" /\ outcome' = [outcome EXCEPT ![r] = "waiting"]
      /\ mailbox' = Append(mailbox, r) /\ UNCHANGED <<pending, age, waited>>
      /\ mailbox \in Seq(Requests) /\ outcome \in [Requests -> {"idle", "waiting", "answered",
                                                               "timeout", "canceled"}]
  BY DEF Ask, IInv, TypeOK
<1>2. \A i \in DOMAIN mailbox' : \/ i \in DOMAIN mailbox /\ mailbox'[i] = mailbox[i]
                                 \/ i = Len(mailbox) + 1 /\ mailbox'[i] = r
  BY <1>1, AppendProps
<1>3. r \notin pending /\ \A i \in DOMAIN mailbox : mailbox[i] # r
  BY <1>1 DEF Requested, CommandsAreNew, AgesAreTrue
<1>4. outcome'[r] = "waiting" /\ \A q \in Requests \ {r} : outcome'[q] = outcome[q]
  BY <1>1
<1>5. \A i \in DOMAIN mailbox : mailbox[i] \in Requests
  BY <1>1
<1>6. CommandsAreNew'
  BY <1>1, <1>2, <1>3, <1>4, <1>5 DEF Requested, CommandsAreNew
<1>7. AgesAreTrue'
  BY <1>1, <1>3, <1>4 DEF Requested, AgesAreTrue, IInv, TypeOK
<1> QED BY <1>6, <1>7 DEF Requested

LEMMA RequestedTick ==
  ASSUME IInv, Requested, Tick
  PROVE  Requested'
<1>1. UNCHANGED <<mailbox, pending, outcome>>
  BY DEF Tick
<1>2. CommandsAreNew'
  BY <1>1 DEF Requested, CommandsAreNew
<1>3. ASSUME NEW r \in pending
      PROVE  outcome[r] = "waiting" /\ (waited'[r] = Timeout \/ age'[r] <= waited'[r] + 1)
  <2>1. r \in Requests /\ outcome[r] = "waiting" /\ (waited[r] = Timeout \/ age[r] <= waited[r] + 1)
    BY DEF Requested, AgesAreTrue, IInv, TypeOK
  <2>2. waited[r] \in 0 .. Timeout /\ age[r] \in Nat /\ Timeout \in Nat
    BY <2>1, PollingAssumption DEF IInv, TypeOK, Cap
  <2>3. waited'[r] = IF waited[r] < Timeout THEN waited[r] + 1 ELSE waited[r]
    BY <2>1 DEF Tick
  <2>4. age'[r] \in {age[r], age[r] + 1}
    BY <2>1 DEF Tick
  <2> QED BY <2>1, <2>2, <2>3, <2>4
<1> QED BY <1>1, <1>2, <1>3 DEF Requested, AgesAreTrue

LEMMA RequestedSubmit ==
  ASSUME IInv, Requested, SubmitExternalCommand
  PROVE  Requested'
<1> DEFINE r == Head(mailbox)
<1>1. /\ mailbox # <<>> /\ mailbox \in Seq(Requests) /\ mailbox' = Tail(mailbox)
      /\ pending' = pending \cup {r} /\ age' = [age EXCEPT ![r] = lag]
      /\ UNCHANGED <<outcome, waited>>
  BY DEF SubmitExternalCommand, clientVars, IInv, TypeOK
<1>2. /\ r \in Requests /\ r = mailbox[1] /\ 1 \in DOMAIN mailbox
      /\ \A i \in DOMAIN mailbox' : /\ i \in Nat \ {0} /\ i + 1 \in DOMAIN mailbox
                                    /\ mailbox'[i] = mailbox[i + 1]
  <2>1. \A i \in DOMAIN mailbox' : i \in Nat \ {0}
    BY <1>1
  <2> QED BY <1>1, <2>1, TailProps
<1>3. CommandsAreNew'
  <2>1. ASSUME NEW i \in DOMAIN mailbox'
        PROVE  outcome'[mailbox'[i]] = "waiting" /\ mailbox'[i] \notin pending'
    <3>1. i + 1 # 1
      BY <1>2
    <3>2. mailbox[i + 1] # r /\ mailbox[i + 1] \notin pending /\ outcome[mailbox[i + 1]] = "waiting"
      BY <1>2, <3>1 DEF Requested, CommandsAreNew
    <3> QED BY <1>1, <1>2, <3>2
  <2>2. ASSUME NEW i \in DOMAIN mailbox', NEW j \in DOMAIN mailbox', mailbox'[i] = mailbox'[j]
        PROVE  i = j
    <3>1. mailbox[i + 1] = mailbox[j + 1] /\ i + 1 \in DOMAIN mailbox /\ j + 1 \in DOMAIN mailbox
      BY <1>2, <2>2
    <3>2. i + 1 = j + 1
      BY <3>1 DEF Requested, CommandsAreNew
    <3> QED BY <1>2, <3>2
  <2> QED BY <2>1, <2>2 DEF CommandsAreNew
<1>4. ASSUME NEW q \in pending'
      PROVE  outcome[q] = "waiting" /\ (waited[q] = Timeout \/ age'[q] <= waited[q] + 1)
  <2>1. q = r \/ (q \in pending /\ q # r)
    BY <1>1
  <2>2. CASE q = r
    <3>1. age'[q] = lag /\ lag \in {0, 1} /\ waited[q] \in 0 .. Timeout /\ Timeout \in Nat
      BY <1>1, <1>2, <2>2, PollingAssumption DEF IInv, TypeOK
    <3>2. outcome[q] = "waiting"
      BY <1>2, <2>2 DEF Requested, CommandsAreNew
    <3> QED BY <3>1, <3>2
  <2>3. CASE q \in pending /\ q # r
    <3>1. age'[q] = age[q]
      BY <1>1, <2>3 DEF IInv, TypeOK
    <3> QED BY <2>3, <3>1 DEF Requested, AgesAreTrue
  <2> QED BY <2>1, <2>2, <2>3
<1> QED BY <1>1, <1>3, <1>4 DEF Requested, AgesAreTrue

\* A request that is answered or times out is no longer pending, nor in the channel.
LEMMA RequestedEnds ==
  ASSUME IInv, Requested, OnResponse \/ EvictTimedOutCommands \/ DropHandler
  PROVE  Requested'
<1>1. /\ pending' \subseteq pending /\ UNCHANGED <<age, waited>>
      /\ mailbox' = mailbox \/ (mailbox' = <<>> /\ pending' = {})
  BY DEF OnResponse, Reads, EvictTimedOutCommands, DropHandler
<1>2. CASE mailbox' = <<>> /\ pending' = {}
  BY <1>2 DEF Requested, CommandsAreNew, AgesAreTrue
<1>3. CASE OnResponse \/ EvictTimedOutCommands
  <2>1. mailbox' = mailbox
    BY <1>3 DEF OnResponse, Reads, EvictTimedOutCommands
  <2>2. ASSUME NEW q \in Requests, q \notin pending \/ q \in pending'
        PROVE  outcome'[q] = outcome[q]
    BY <1>3, <2>2 DEF OnResponse, EvictTimedOutCommands, IInv, TypeOK
  <2>3. pending \subseteq Requests /\ \A i \in DOMAIN mailbox : mailbox[i] \in Requests
    BY DEF IInv, TypeOK
  <2>4. CommandsAreNew'
    BY <1>1, <2>1, <2>2, <2>3 DEF Requested, CommandsAreNew
  <2>5. AgesAreTrue'
    BY <1>1, <2>2, <2>3 DEF Requested, AgesAreTrue
  <2> QED BY <2>4, <2>5 DEF Requested
<1>4. CASE DropHandler
  BY <1>2, <1>4 DEF DropHandler
<1> QED BY <1>3, <1>4

LEMMA RequestedStep == IInv /\ Requested /\ [Next]_vars => Requested'
<1> SUFFICES ASSUME IInv, Requested, [Next]_vars PROVE Requested'
  OBVIOUS
<1>1. CASE \E r \in Requests : Respond(r)
  BY <1>1, RequestedUnchanged DEF Respond, Arrives
<1>2. CASE \E m \in Noises : MakeNoise(m)
  BY <1>2, RequestedUnchanged DEF MakeNoise, Arrives
<1>3. CASE Blocks \/ Unblocks
  BY <1>3, RequestedUnchanged DEF Blocks, Unblocks
<1>4. CASE Poll \/ MailboxDrained \/ SendNext \/ SendFails \/ Flushes \/ Written \/ PollAgain
           \/ SocketDrained \/ EvictionNotDue
  BY <1>4, RequestedUnchanged
  DEF Poll, MailboxDrained, SendNext, SendFails, Flushes, Written, PollAgain, SocketDrained,
      EvictionNotDue
<1>5. CASE OnEvent \/ OnInvalidMessage \/ OnUnexpectedMessage \/ OnPing \/ OnClose
  <2>1. UNCHANGED <<mailbox, pending, age, outcome, waited>>
    BY <1>5 DEF OnEvent, OnInvalidMessage, OnUnexpectedMessage, OnPing, OnClose, Reads
  <2> QED BY <2>1, RequestedUnchanged DEF clientVars
<1>6. CASE UNCHANGED vars
  BY <1>6, RequestedUnchanged DEF vars
<1>7. CASE \E r \in Requests : Ask(r)
  BY <1>7, RequestedAsk
<1> QED
  BY <1>1, <1>2, <1>3, <1>4, <1>5, <1>6, <1>7, RequestedTick, RequestedSubmit, RequestedEnds
  DEF Next, HandlerStep

\* Handler::evict_timed_out_commands compares the time the iteration has read with the
\* timestamp an earlier iteration had read when it submitted the command: the client
\* has waited for the whole request_timeout whenever the command is given up.
THEOREM TimeoutsAreNotEarly == Spec => NotTimedOutEarly
<1>1. Init => Requested
  BY DEF Init, Requested, CommandsAreNew, AgesAreTrue
<1>2. IInv /\ Requested /\ [Next]_vars
        => [\A r \in Requests :
              outcome[r] # "timeout" /\ outcome'[r] = "timeout" => waited[r] >= Timeout]_vars
  <2> SUFFICES ASSUME IInv, Requested, [Next]_vars, NEW r \in Requests,
                      outcome[r] # "timeout", outcome'[r] = "timeout"
               PROVE  waited[r] >= Timeout
    OBVIOUS
  <2>1. EvictTimedOutCommands
    <3>1. ~DropHandler
      BY DEF DropHandler
    <3>2. ~OnResponse
      BY DEF OnResponse, IInv, TypeOK
    <3>3. ASSUME NEW q \in Requests PROVE ~Ask(q)
      BY DEF Ask, IInv, TypeOK
    <3>4. outcome' # outcome
      OBVIOUS
    <3> QED
      BY <3>1, <3>2, <3>3, <3>4
      DEF Next, HandlerStep, vars, clientVars, Respond, Arrives, MakeNoise, Blocks, Unblocks, Tick,
          Poll, SubmitExternalCommand, MailboxDrained, SendNext, SendFails, Flushes, Written,
          OnEvent, OnInvalidMessage, OnUnexpectedMessage, OnPing, OnClose, SocketDrained,
          EvictionNotDue, PollAgain
  <2>2. r \in pending /\ age[r] > lag + Timeout
    BY <2>1 DEF EvictTimedOutCommands, Overdue
  <2>3. waited[r] = Timeout \/ age[r] <= waited[r] + 1
    BY <2>2 DEF Requested, AgesAreTrue
  <2>4. /\ waited[r] \in Nat /\ lag \in Nat /\ Timeout \in Nat /\ age[r] \in Nat
    BY PollingAssumption DEF IInv, TypeOK, Cap
  <2> QED BY <2>2, <2>3, <2>4
<1>3. Spec => []Requested
  BY <1>1, RequestedStep, PollingInvariance, PTL DEF Spec
<1> QED BY <1>2, <1>3, PollingInvariance, PTL DEF Spec, NotTimedOutEarly
=============================================================================
