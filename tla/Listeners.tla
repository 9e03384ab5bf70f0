------------------------------ MODULE Listeners ------------------------------
(***************************************************************************)
(* The EventListeners of a target (src/src/listeners.rs) for one kind of   *)
(* event: the subscriptions, the queue of each, and the channels to the    *)
(* streams of the client.  The streams of one kind all have the type of    *)
(* the events.                                                             *)
(***************************************************************************)
EXTENDS Naturals, SequencesExt

CONSTANTS Streams   \* EventStreams, by their channel

VARIABLES
  subs,      \* EventListeners::listeners: the subscriptions, with what is queued for each
  stream,    \* EventStream::events: what was sent to each stream and it has not yet read
  dropped    \* streams the client has dropped

listenersVars == <<subs, stream, dropped>>

ListenersInit == subs = <<>> /\ stream = [s \in Streams |-> <<>>] /\ dropped = {}

AddListener(s) == [stream |-> s, queue |-> <<>>]

\* Mutant of StartSend: only the first subscription hears of the event.
StartSendFirst(event) ==
  subs' = [n \in DOMAIN subs |->
             IF n = 1 THEN [subs[n] EXCEPT !.queue = Append(@, event)] ELSE subs[n]]

StartSend(event) == subs' = [n \in DOMAIN subs |-> [subs[n] EXCEPT !.queue = Append(@, event)]]

\* Mutant of SwapRemove: the last takes the place at n and also stays where it was.
SwapRemoveCopies(seq, n) == [seq EXCEPT ![n] = Last(seq)]

SwapRemove(seq, n) == SubSeq([seq EXCEPT ![n] = Last(seq)], 1, Len(seq) - 1)

\* Mutant of PollListener: a subscription whose stream is gone is put back.
PollListenerKeeps(n, polled) ==
  LET listener == polled.subs[n]
  IN [subs |-> Append(SwapRemove(polled.subs, n), [listener EXCEPT !.queue = <<>>]),
      stream |-> polled.stream]

\* The subscription at n is taken out, drained into its channel, and put back at the end
\* unless the stream is gone.
PollListener(n, polled) ==
  LET listener == polled.subs[n]
      rest == SwapRemove(polled.subs, n)
  IN IF listener.stream \in dropped THEN [polled EXCEPT !.subs = rest]
     ELSE [subs |-> Append(rest, [listener EXCEPT !.queue = <<>>]),
           stream |-> [polled.stream EXCEPT ![listener.stream] = @ \o listener.queue]]

\* EventListeners::poll over all, which holds what subs is to be: from the last to the first.
PollListeners(all) ==
  LET polled[k \in 0 .. Len(all)] ==   \* after the last k of them
        IF k = 0 THEN [subs |-> all, stream |-> stream]
        ELSE PollListener(Len(all) + 1 - k, polled[k - 1])
  IN subs' = polled[Len(all)].subs /\ stream' = polled[Len(all)].stream

=============================================================================
