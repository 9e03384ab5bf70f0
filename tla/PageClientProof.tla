-------------------------- MODULE PageClientProof --------------------------
(***************************************************************************)
(* What is proved of modules Network, Listeners and PageClient, for every  *)
(* number of requests, redirects, challenges and streams.                  *)
(***************************************************************************)
EXTENDS PageClient, SequenceTheorems, WellFoundedInduction, TLAPS

\* A request of the browser.
Requested == [stage : {"idle", "sending", "challenged", "answered", "over"}, hop : Nat,
              data : BOOLEAN, told : {"no", "plain", "parked"},
              pause : {"due", "paused", "continued", "passed"},
              asked : Nat, offered : Nat, refused : BOOLEAN, odd : BOOLEAN]
Reported == [id : Requests, hops : Nat]

\* An interception id is kept for the request it belongs to.
OwnId(id, r) == id = NoId \/ \E hop \in Nat : id = <<r, hop>>

\* A sequence, whatever is in it: the client continues what its stream gave it.
Listed(q) == \E S : q \in Seq(S)

Shapes ==
  /\ req \in [Requests -> Requested]
  /\ DOMAIN tracked \subseteq Requests
  /\ \A r \in DOMAIN tracked : tracked[r].hops \in Nat /\ OwnId(tracked[r].id, r)
  /\ \A r \in DOMAIN early : OwnId(early[r], r)
  /\ reported \in Seq(Reported) /\ reports \in Seq(Reported)
  /\ DOMAIN inbox = DOMAIN NoMessages
  /\ Listed(queued) /\ Listed(out) /\ Listed(inbox.commands)

IsOpen(r) == req[r].stage \in {"idle", "sending", "challenged"}

\* The hops before the present one.
ChainOnly(r) ==
  IF req[r].hop = 0 THEN r \notin DOMAIN tracked
  ELSE r \in DOMAIN tracked /\ tracked[r].hops = req[r].hop - 1

\* What the manager keeps of a request, from what it was told of the present hop and
\* whether that is paused.
Follows(r) ==
  /\ req[r].told = "no" =>
       /\ ChainOnly(r) /\ r \notin DOMAIN parked
       /\ IF Intercepted(r) THEN r \in DOMAIN early /\ early[r] = <<r, req[r].hop>>
          ELSE r \notin DOMAIN early
  /\ req[r].told = "parked" /\ req[r].pause = "due" =>
       /\ ChainOnly(r) /\ r \notin DOMAIN early
       /\ r \in DOMAIN parked /\ parked[r] = (req[r].hop > 0)
  /\ req[r].told = "parked" /\ Intercepted(r) =>
       /\ r \in DOMAIN tracked /\ tracked[r] = [id |-> <<r, req[r].hop>>, hops |-> req[r].hop]
       /\ r \notin DOMAIN parked /\ r \notin DOMAIN early
  /\ req[r].told = "plain" /\ ~Intercepted(r) =>
       /\ r \in DOMAIN tracked /\ tracked[r].hops = req[r].hop
       /\ r \notin DOMAIN parked /\ r \notin DOMAIN early
  /\ req[r].stage = "idle" => req[r].told = "no" /\ req[r].pause = "due" /\ req[r].hop = 0

\* The manager follows a request until it is answered or over, unless it is odd.
Kept(r) == IF IsOpen(r) THEN ~req[r].odd => Follows(r) ELSE r \notin DOMAIN tracked
FollowsAll == \A r \in Requests : Kept(r)

\* A request is reported when it is answered or over, once, and with all its hops unless
\* it is odd.
ReportedOnce ==
  /\ \A m, n \in DOMAIN AllReports : AllReports[m].id = AllReports[n].id => m = n
  /\ \A n \in DOMAIN AllReports : ~IsOpen(AllReports[n].id)
  /\ \A r \in Requests : ~IsOpen(r) /\ ~req[r].odd =>
       [id |-> r, hops |-> req[r].hop] \in Range(AllReports)

\* The answer c is to a challenge of a hop there has been.  If it is to the present hop,
\* the request waits for it or is over, and credentials are offered for the first time.
Awaited(c) ==
  c.type = "auth" =>
    \E r \in Requests, hop \in Nat :
      /\ c.id = <<r, hop>> /\ hop <= req[r].hop
      /\ hop = req[r].hop => req[r].stage \in {"challenged", "over"}
      /\ hop = req[r].hop /\ req[r].stage = "challenged" /\ c.answer = "provide" =>
           req[r].offered = 0 /\ c.id \in attempted

SameChallenge(c, d) == c.type = "auth" /\ d.type = "auth" /\ c.id = d.id
Once(q) == \A m, n \in DOMAIN q : SameChallenge(q[m], q[n]) => m = n
Apart(q, p) == \A c \in Range(q), d \in Range(p) : ~SameChallenge(c, d)
NoAnswers(q) == \A c \in Range(q) : c.type # "auth"

\* The commands on their way: each challenge has one answer.
AnsweredOnce ==
  /\ NoAnswers(inbox.commands)
  /\ \A c \in Range(queued) \cup Range(out) : Awaited(c)
  /\ Once(queued) /\ Once(out) /\ Apart(queued, out)

\* What was offered in the present hop is remembered as long as another challenge may come.
OfferedOnce(r) ==
  /\ req[r].offered <= 1
  /\ req[r].stage = "idle" => req[r].offered = 0
  /\ IsOpen(r) /\ req[r].offered = 1 => <<r, req[r].hop>> \in attempted
  /\ IsOpen(r) /\ (req[r].offered = 1 \/ req[r].stage = "challenged") =>
       req[r].told # "no" /\ req[r].pause = "continued"
Offers == \A r \in Requests : OfferedOnce(r)

IInv == Shapes /\ FollowsAll /\ ReportedOnce /\ AnsweredOnce /\ Offers

-----------------------------------------------------------------------------
(* Sequences.                                                              *)

\* What is appended to a sequence is its last element, the others stay.
LEMMA AppendFacts ==
  ASSUME NEW q, NEW e, Listed(q)
  PROVE  /\ Listed(Append(q, e)) /\ Range(Append(q, e)) = Range(q) \cup {e}
         /\ Len(q) \in Nat /\ DOMAIN q = 1 .. Len(q)
         /\ DOMAIN Append(q, e) = 1 .. Len(q) + 1 /\ Append(q, e)[Len(q) + 1] = e
         /\ \A n \in 1 .. Len(q) : Append(q, e)[n] = q[n]
<1>1. PICK S : q \in Seq(S)
      BY DEF Listed
<1>2. /\ q \in Seq(S \cup {e}) /\ Append(q, e) \in Seq(S \cup {e})
      /\ Len(Append(q, e)) = Len(q) + 1 /\ Len(q) \in Nat
      BY <1>1
<1>3. /\ DOMAIN q = 1 .. Len(q) /\ DOMAIN Append(q, e) = 1 .. Len(q) + 1
      /\ Append(q, e)[Len(q) + 1] = e /\ \A n \in 1 .. Len(q) : Append(q, e)[n] = q[n]
      BY <1>2
<1>4. Range(Append(q, e)) = Range(q) \cup {e}
      BY <1>2, <1>3 DEF Range
<1> QED
    BY <1>2, <1>3, <1>4 DEF Listed

LEMMA ConcatFacts ==
  ASSUME NEW q, NEW p, Listed(q), Listed(p)
  PROVE  /\ Listed(q \o p) /\ Range(q \o p) = Range(q) \cup Range(p)
         /\ \A n \in DOMAIN (q \o p) :
              \/ n \in DOMAIN q /\ (q \o p)[n] = q[n]
              \/ n - Len(q) \in DOMAIN p /\ n \notin DOMAIN q /\ (q \o p)[n] = p[n - Len(q)]
         /\ Len(q) \in Nat /\ DOMAIN (q \o p) \subseteq Nat
<1>1. PICK S : q \in Seq(S)
      BY DEF Listed
<1>2. PICK T : p \in Seq(T)
      BY DEF Listed
<1>3. /\ q \in Seq(S \cup T) /\ p \in Seq(S \cup T) /\ q \o p \in Seq(S \cup T)
      /\ Len(q) \in Nat /\ Len(p) \in Nat /\ Len(q \o p) = Len(q) + Len(p)
      BY <1>1, <1>2
<1>4. /\ DOMAIN q = 1 .. Len(q) /\ DOMAIN p = 1 .. Len(p)
      /\ DOMAIN (q \o p) = 1 .. Len(q) + Len(p)
      /\ \A n \in 1 .. Len(q) + Len(p) :
           (q \o p)[n] = IF n <= Len(q) THEN q[n] ELSE p[n - Len(q)]
      BY <1>3
<1>5. \A n \in 1 .. Len(p) : Len(q) + n \in 1 .. Len(q) + Len(p) /\ (q \o p)[Len(q) + n] = p[n]
      BY <1>3, <1>4
<1>6. \A n \in 1 .. Len(q) + Len(p) : n \in 1 .. Len(q) \/ n - Len(q) \in 1 .. Len(p)
      BY <1>3
<1>7. \A n \in 1 .. Len(q) : n \in 1 .. Len(q) + Len(p) /\ (q \o p)[n] = q[n]
      BY <1>3, <1>4
<1>8. Range(q \o p) = Range(q) \cup Range(p)
  <2>1. ASSUME NEW n \in 1 .. Len(q) + Len(p) PROVE (q \o p)[n] \in Range(q) \cup Range(p)
        BY <1>3, <1>4, <1>6 DEF Range
  <2>2. Range(q) \subseteq Range(q \o p)
        BY <1>4, <1>7 DEF Range
  <2>3. Range(p) \subseteq Range(q \o p)
        BY <1>4, <1>5 DEF Range
  <2> QED
      BY <1>4, <2>1, <2>2, <2>3 DEF Range
<1> QED
    BY <1>3, <1>4, <1>6, <1>8 DEF Listed

LEMMA TailFacts ==
  ASSUME NEW q, Listed(q), q # <<>>
  PROVE  /\ Listed(Tail(q)) /\ Range(Tail(q)) \subseteq Range(q) /\ Head(q) \in Range(q)
         /\ Head(q) = q[1] /\ 1 \in DOMAIN q
         /\ \A n \in DOMAIN Tail(q) : /\ n + 1 \in DOMAIN q /\ Tail(q)[n] = q[n + 1]
                                      /\ n \in Nat \ {0}
<1>1. PICK S : q \in Seq(S)
      BY DEF Listed
<1>2. /\ Tail(q) \in Seq(S) /\ Len(q) \in Nat \ {0} /\ Len(Tail(q)) = Len(q) - 1
      /\ DOMAIN q = 1 .. Len(q) /\ DOMAIN Tail(q) = 1 .. Len(q) - 1 /\ Head(q) = q[1]
      BY <1>1
<1>3. \A n \in DOMAIN Tail(q) : n + 1 \in DOMAIN q /\ Tail(q)[n] = q[n + 1] /\ n \in Nat \ {0}
      BY <1>1, <1>2
<1>4. Range(Tail(q)) \subseteq Range(q) /\ q[1] \in Range(q)
      BY <1>2, <1>3 DEF Range
<1>5. Listed(Tail(q))
      BY <1>2 DEF Listed
<1> QED
    BY <1>2, <1>3, <1>4, <1>5

LEMMA EmptyFacts == Listed(<<>>) /\ Range(<<>>) = {} /\ DOMAIN <<>> = {}
BY DEF Listed, Range

LEMMA OneFacts == ASSUME NEW e PROVE Listed(<<e>>) /\ Range(<<e>>) = {e} /\ DOMAIN <<e>> = {1}
<1>1. <<e>> \in Seq({e}) /\ DOMAIN <<e>> = {1} /\ <<e>>[1] = e
      OBVIOUS
<1>2. Range(<<e>>) = {e}
      BY <1>1 DEF Range
<1> QED
    BY <1>1, <1>2 DEF Listed

\* Two sequences in which each challenge is answered once, and not in both, make a third.
LEMMA OnceConcat ==
  ASSUME NEW q, NEW p, Listed(q), Listed(p), Once(q), Once(p), Apart(q, p)
  PROVE  Once(q \o p)
<1> SUFFICES ASSUME NEW m \in DOMAIN (q \o p), NEW n \in DOMAIN (q \o p),
                    SameChallenge((q \o p)[m], (q \o p)[n])
             PROVE  m = n
    BY DEF Once
<1>1. /\ \A k \in DOMAIN (q \o p) :
           \/ k \in DOMAIN q /\ (q \o p)[k] = q[k]
           \/ k - Len(q) \in DOMAIN p /\ k \notin DOMAIN q /\ (q \o p)[k] = p[k - Len(q)]
      /\ Len(q) \in Nat /\ m \in Nat /\ n \in Nat
      BY ConcatFacts
<1>2. \A k \in DOMAIN q, l \in DOMAIN p : ~SameChallenge(q[k], p[l]) /\ ~SameChallenge(p[l], q[k])
      BY DEF Apart, Range, SameChallenge
<1>3. CASE m \in DOMAIN q /\ n \in DOMAIN q
      BY <1>1, <1>3 DEF Once
<1>4. CASE m \notin DOMAIN q /\ n \notin DOMAIN q
  <2>1. m - Len(q) = n - Len(q)
        BY <1>1, <1>4 DEF Once
  <2> QED
      BY <1>1, <2>1
<1> QED
    BY <1>1, <1>2, <1>3, <1>4

LEMMA NoAnswersFacts ==
  ASSUME NEW q, NoAnswers(q)
  PROVE  Once(q) /\ \A p : Apart(p, q) /\ Apart(q, p)
<1>1. \A n \in DOMAIN q : q[n] \in Range(q)
      BY DEF Range
<1> QED
    BY <1>1 DEF NoAnswers, Once, Apart, SameChallenge

LEMMA OnceTail == ASSUME NEW q, Listed(q), q # <<>>, Once(q)
                  PROVE  Once(Tail(q)) /\ \A c \in Range(Tail(q)) : ~SameChallenge(c, Head(q))
<1>1. /\ \A n \in DOMAIN Tail(q) : n + 1 \in DOMAIN q /\ Tail(q)[n] = q[n + 1] /\ n \in Nat \ {0}
      /\ Head(q) = q[1] /\ 1 \in DOMAIN q
      BY TailFacts
<1>2. ASSUME NEW m \in DOMAIN Tail(q), NEW n \in DOMAIN Tail(q),
             SameChallenge(Tail(q)[m], Tail(q)[n])
      PROVE  m = n
  <2>1. m + 1 = n + 1
        BY <1>1, <1>2 DEF Once
  <2> QED
      BY <1>1, <2>1
<1>3. ASSUME NEW n \in DOMAIN Tail(q), SameChallenge(Tail(q)[n], Head(q)) PROVE FALSE
  <2>1. n + 1 = 1
        BY <1>1, <1>3 DEF Once
  <2> QED
      BY <1>1, <2>1
<1> QED
    BY <1>2, <1>3 DEF Once, Range

-----------------------------------------------------------------------------
(* What the manager does with an event of a request leaves the others.     *)

\* An interception id of a request is kept for another chance.
Remembers(x) == \A hop \in Nat : <<x, hop>> \in attempted => <<x, hop>> \in attempted'

Leaves(x) ==
  /\ (x \in DOMAIN tracked') = (x \in DOMAIN tracked)
  /\ x \in DOMAIN tracked => tracked'[x] = tracked[x]
  /\ (x \in DOMAIN parked') = (x \in DOMAIN parked)
  /\ x \in DOMAIN parked => parked'[x] = parked[x]
  /\ (x \in DOMAIN early') = (x \in DOMAIN early)
  /\ x \in DOMAIN early => early'[x] = early[x]
  /\ Remembers(x)

\* The parts of Shapes that are about the manager's maps.
Mapped ==
  /\ DOMAIN tracked \subseteq Requests
  /\ \A r \in DOMAIN tracked : tracked[r].hops \in Nat /\ OwnId(tracked[r].id, r)
  /\ \A r \in DOMAIN early : OwnId(early[r], r)

\* The map differs from the one before it only in r.
Changes(map, next, r) ==
  /\ DOMAIN next \cup {r} = DOMAIN map \cup {r}
  /\ \A x \in DOMAIN map : x # r => next[x] = map[x]

Manages(r) ==
  \/ \E redirected, data \in BOOLEAN : OnRequestWillBeSent(r, redirected, data)
  \/ \E hop \in Nat : OnRequestPaused(<<r, hop>>) \/ OnAuthRequired(<<r, hop>>)
  \/ OnResponseReceived(r) \/ OnLoadingOver(r) \/ UNCHANGED networkVars

LEMMA OwnIdFacts ==
  ASSUME NEW r, NEW id, OwnId(id, r)
  PROVE  \A x, hop : x # r => id # <<x, hop>>
<1>1. ASSUME NEW x, NEW hop, NEW own, id = <<x, hop>>, id = <<r, own>> PROVE x = r
      BY <1>1
<1>2. ASSUME NEW x, NEW hop PROVE NoId # <<x, hop>>
      BY DEF NoId
<1> QED
    BY <1>1, <1>2 DEF OwnId

LEMMA TrackFacts ==
  ASSUME Mapped, NEW r \in Requests, NEW redirected, NEW id, OwnId(id, r),
         Track(r, redirected, id)
  PROVE  /\ DOMAIN tracked' = DOMAIN tracked \cup {r}
         /\ \A x \in DOMAIN tracked : x # r => tracked'[x] = tracked[x]
         /\ tracked'[r].id = id /\ tracked'[r].hops \in Nat
         /\ tracked'[r] = [id |-> id, hops |-> IF redirected /\ r \in DOMAIN tracked
                                               THEN tracked[r].hops + 1 ELSE 0]
         /\ \A x : x # r => Remembers(x)
         /\ DOMAIN tracked' \subseteq Requests
         /\ \A x \in DOMAIN tracked' : tracked'[x].hops \in Nat /\ OwnId(tracked'[x].id, x)
<1>1. /\ DOMAIN tracked' = DOMAIN tracked \cup {r}
      /\ \A x \in DOMAIN tracked : x # r => tracked'[x] = tracked[x]
      /\ tracked'[r] = [id |-> id, hops |-> IF redirected /\ r \in DOMAIN tracked
                                            THEN tracked[r].hops + 1 ELSE 0]
      BY DEF Track
<1>2. tracked'[r].id = id /\ tracked'[r].hops \in Nat
      BY <1>1 DEF Mapped
<1>3. ASSUME NEW x, x # r PROVE Remembers(x)
  <2>1. CASE r \in DOMAIN tracked
    <3>1. \A y, hop : y # r => tracked[r].id # <<y, hop>>
          BY <2>1, OwnIdFacts DEF Mapped
    <3> QED
        BY <1>3, <3>1 DEF Track, Remembers
  <2>2. CASE r \notin DOMAIN tracked
        BY <2>2 DEF Track, Remembers
  <2> QED
      BY <2>1, <2>2
<1>4. DOMAIN tracked' \subseteq Requests
      BY <1>1 DEF Mapped
<1>5. \A x \in DOMAIN tracked' : tracked'[x].hops \in Nat /\ OwnId(tracked'[x].id, x)
      BY <1>1, <1>2 DEF Mapped
<1> QED
    BY <1>1, <1>2, <1>3, <1>4, <1>5

LEMMA MapFacts ==
  ASSUME NEW map, NEW r, NEW value
  PROVE  /\ Changes(map, Without(map, r), r) /\ r \notin DOMAIN Without(map, r)
         /\ Changes(map, With(map, r, value), r) /\ Changes(map, map, r)
         /\ r \in DOMAIN With(map, r, value) /\ With(map, r, value)[r] = value
BY DEF Without, With, Changes

\* What the manager changes is about r, and an interception id is kept for its request.
ChangesOwn(r) ==
  /\ Changes(tracked, tracked', r) /\ Changes(parked, parked', r) /\ Changes(early, early', r)
  /\ \A x : x # r => Remembers(x)
  /\ r \in DOMAIN tracked' => tracked'[r].hops \in Nat /\ OwnId(tracked'[r].id, r)
  /\ r \in DOMAIN early' => OwnId(early'[r], r)

LEMMA OwnFacts == ASSUME Mapped, NEW r \in Requests, Manages(r) PROVE ChangesOwn(r)
<1>0. /\ r \in DOMAIN tracked => tracked[r].hops \in Nat /\ OwnId(tracked[r].id, r)
      /\ r \in DOMAIN early => OwnId(early[r], r)
      BY DEF Mapped
<1>1. ASSUME UNCHANGED <<tracked, attempted>>
      PROVE  /\ Changes(tracked, tracked', r) /\ \A x : x # r => Remembers(x)
             /\ r \in DOMAIN tracked' => tracked'[r].hops \in Nat /\ OwnId(tracked'[r].id, r)
      BY <1>0, <1>1, MapFacts DEF Remembers
<1>2. ASSUME UNCHANGED parked PROVE Changes(parked, parked', r)
      BY <1>2, MapFacts
<1>3. ASSUME UNCHANGED early
      PROVE  Changes(early, early', r) /\ (r \in DOMAIN early' => OwnId(early'[r], r))
      BY <1>0, <1>3, MapFacts
<1>4. ASSUME NEW redirected, NEW id, OwnId(id, r), Track(r, redirected, id)
      PROVE  /\ Changes(tracked, tracked', r) /\ \A x : x # r => Remembers(x)
             /\ r \in DOMAIN tracked' => tracked'[r].hops \in Nat /\ OwnId(tracked'[r].id, r)
  <2>1. /\ DOMAIN tracked' = DOMAIN tracked \cup {r}
        /\ \A x \in DOMAIN tracked : x # r => tracked'[x] = tracked[x]
        /\ tracked'[r].id = id /\ tracked'[r].hops \in Nat
        /\ \A x : x # r => Remembers(x)
        BY <1>4, TrackFacts
  <2> QED
      BY <1>4, <2>1 DEF Changes
<1>5. ASSUME NEW redirected \in BOOLEAN, NEW data \in BOOLEAN,
             OnRequestWillBeSent(r, redirected, data)
      PROVE  ChangesOwn(r)
  <2>1. CASE Track(r, redirected, NoId) /\ UNCHANGED <<parked, early>>
    <3>1. OwnId(NoId, r)
          BY DEF OwnId
    <3> QED
        BY <1>2, <1>3, <1>4, <2>1, <3>1 DEF ChangesOwn
  <2>2. CASE /\ r \in DOMAIN early /\ Track(r, redirected, early[r])
             /\ early' = Without(early, r) /\ UNCHANGED parked
    <3>1. Changes(early, early', r) /\ r \notin DOMAIN early'
          BY <2>2, MapFacts
    <3> QED
        BY <1>0, <1>2, <1>4, <2>2, <3>1 DEF ChangesOwn
  <2>3. CASE parked' = With(parked, r, redirected) /\ UNCHANGED <<tracked, early, attempted>>
    <3>1. Changes(parked, parked', r)
          BY <2>3, MapFacts
    <3> QED
        BY <1>1, <1>3, <2>3, <3>1 DEF ChangesOwn
  <2> QED
      BY <1>5, <2>1, <2>2, <2>3 DEF OnRequestWillBeSent
<1>6. ASSUME NEW hop \in Nat, OnRequestPaused(<<r, hop>>) PROVE ChangesOwn(r)
  <2>0. OwnId(<<r, hop>>, r) /\ <<r, hop>>[1] = r
        BY DEF OwnId
  <2>1. CASE r \in DOMAIN parked
    <3>1. /\ Track(r, parked[r], <<r, hop>>) /\ parked' = Without(parked, r)
          /\ UNCHANGED early
          BY <1>6, <2>0, <2>1 DEF OnRequestPaused
    <3>2. Changes(parked, parked', r)
          BY <3>1, MapFacts
    <3> QED
        BY <1>3, <1>4, <2>0, <3>1, <3>2 DEF ChangesOwn
  <2>2. CASE r \notin DOMAIN parked
    <3>1. early' = With(early, r, <<r, hop>>) /\ UNCHANGED <<tracked, parked, attempted>>
          BY <1>6, <2>0, <2>2 DEF OnRequestPaused
    <3>2. Changes(early, early', r) /\ early'[r] = <<r, hop>>
          BY <3>1, MapFacts
    <3> QED
        BY <1>1, <1>2, <2>0, <3>1, <3>2 DEF ChangesOwn
  <2> QED
      BY <2>1, <2>2
<1>7. ASSUME NEW hop \in Nat, OnAuthRequired(<<r, hop>>) PROVE ChangesOwn(r)
  <2>1. UNCHANGED <<tracked, parked, early>> /\ attempted \subseteq attempted'
        BY <1>7 DEF OnAuthRequired
  <2> QED
      BY <1>0, <1>2, <1>3, <2>1, MapFacts DEF ChangesOwn, Remembers
<1>8. ASSUME Conclude(r)
      PROVE  /\ Changes(tracked, tracked', r)
             /\ r \in DOMAIN tracked' => tracked'[r].hops \in Nat /\ OwnId(tracked'[r].id, r)
  <2>1. CASE r \in DOMAIN tracked
        BY <1>8, <2>1, MapFacts DEF Conclude
  <2>2. CASE r \notin DOMAIN tracked
        BY <1>8, <2>2, MapFacts DEF Conclude
  <2> QED
      BY <2>1, <2>2
<1>9. ASSUME OnResponseReceived(r) PROVE ChangesOwn(r)
  <2>1. Conclude(r) /\ UNCHANGED <<parked, early>> /\ UNCHANGED attempted
        BY <1>9 DEF OnResponseReceived
  <2>2. \A x : Remembers(x)
        BY <2>1 DEF Remembers
  <2> QED
      BY <1>2, <1>3, <1>8, <2>1, <2>2 DEF ChangesOwn
<1>10. ASSUME OnLoadingOver(r) PROVE ChangesOwn(r)
  <2>1. Conclude(r) /\ UNCHANGED <<parked, early>>
        BY <1>10 DEF OnLoadingOver
  <2>2. \A x : x # r => Remembers(x)
    <3>1. r \in DOMAIN tracked => \A y, hop : y # r => tracked[r].id # <<y, hop>>
          BY <1>0, OwnIdFacts
    <3> QED
        BY <1>10, <3>1 DEF OnLoadingOver, Remembers
  <2> QED
      BY <1>2, <1>3, <1>8, <2>1, <2>2 DEF ChangesOwn
<1>11. ASSUME UNCHANGED networkVars PROVE ChangesOwn(r)
       BY <1>1, <1>2, <1>3, <1>11 DEF networkVars, ChangesOwn
<1> QED
    BY <1>5, <1>6, <1>7, <1>9, <1>10, <1>11 DEF Manages

LEMMA ManagerFacts ==
  ASSUME Mapped, NEW r \in Requests, Manages(r)
  PROVE  Mapped' /\ \A x : x # r => Leaves(x)
<1>1. ChangesOwn(r)
      BY OwnFacts
<1>2. ASSUME NEW x, x # r PROVE Leaves(x)
      BY <1>1, <1>2 DEF ChangesOwn, Changes, Leaves
<1>3. DOMAIN tracked' \subseteq Requests
      BY <1>1 DEF ChangesOwn, Changes, Mapped
<1>4. ASSUME NEW x \in DOMAIN tracked' PROVE tracked'[x].hops \in Nat /\ OwnId(tracked'[x].id, x)
      BY <1>1, <1>2 DEF ChangesOwn, Leaves, Mapped
<1>5. ASSUME NEW x \in DOMAIN early' PROVE OwnId(early'[x], x)
      BY <1>1, <1>2 DEF ChangesOwn, Leaves, Mapped
<1> QED
    BY <1>2, <1>3, <1>4, <1>5 DEF Mapped

-----------------------------------------------------------------------------
(* Shapes.                                                                 *)

LEMMA InterceptionFacts == Listed(Interception) /\ NoAnswers(Interception)
<1>1. Interception \in Seq({CacheDisabled, FetchEnable})
      BY DEF Interception
<1>2. \A n \in DOMAIN Interception : Interception[n] \in {CacheDisabled, FetchEnable}
      BY DEF Interception
<1>3. CacheDisabled.type # "auth" /\ FetchEnable.type # "auth"
      BY DEF CacheDisabled, FetchEnable
<1> QED
    BY <1>1, <1>2, <1>3 DEF Listed, NoAnswers, Range

LEMMA ShapesInit == Init => Shapes
<1> SUFFICES ASSUME Init PROVE Shapes
    OBVIOUS
<1>1. req \in [Requests -> Requested]
      BY DEF Init, Requested
<1>2. /\ DOMAIN tracked = {} /\ DOMAIN early = {} /\ DOMAIN inbox = DOMAIN NoMessages
      /\ reported = <<>> /\ reports = <<>> /\ out = <<>> /\ inbox.commands = <<>>
      BY DEF Init, NetworkInit, NoMessages
<1>3. Listed(queued)
  <2>1. Listed(<<CacheDisabled>>) /\ Listed(Interception) /\ Listed(<<>>)
        BY InterceptionFacts, OneFacts, EmptyFacts
  <2>2. queued = <<CacheDisabled>> \o (IF user THEN Interception ELSE <<>>)
        BY DEF Init, NetworkInit
  <2> QED
      BY <2>1, <2>2, ConcatFacts
<1> QED
    BY <1>1, <1>2, <1>3, EmptyFacts DEF Shapes

\* The command the manager puts in the queue, if any.
LEMMA PushFacts ==
  ASSUME NEW c, NEW p, Listed(queued), p = <<c>> \/ p = <<>>, Push(p)
  PROVE  Listed(queued') /\ Range(queued') = Range(queued) \cup Range(p)
<1>1. Listed(p)
      BY EmptyFacts, OneFacts
<1> QED
    BY <1>1, ConcatFacts DEF Push

LEMMA PausedPush ==
  ASSUME NEW id, Listed(queued), OnRequestPaused(id)
  PROVE  /\ Listed(queued') /\ Range(queued) \subseteq Range(queued')
         /\ Range(queued') \subseteq Range(queued) \cup {Continue(id)}
<1> DEFINE p == IF ~user /\ intercepting THEN <<Continue(id)>> ELSE <<>>
<1>1. Push(p) /\ (p = <<Continue(id)>> \/ p = <<>>)
      BY DEF OnRequestPaused
<1>2. Range(p) \subseteq {Continue(id)}
      BY <1>1, EmptyFacts, OneFacts
<1> HIDE DEF p
<1>3. Listed(queued') /\ Range(queued') = Range(queued) \cup Range(p)
      BY <1>1, PushFacts
<1> QED
    BY <1>2, <1>3

\* What the manager answers to a challenge.
Reply(id) == Answer(id, IF id \in attempted THEN "cancel"
                        ELSE IF credentials THEN "provide" ELSE "default")

LEMMA AuthPush ==
  ASSUME NEW id, Listed(queued), OnAuthRequired(id)
  PROVE  /\ Listed(queued') /\ Range(queued') = Range(queued) \cup {Reply(id)}
         /\ queued' = queued \o <<Reply(id)>>
<1>1. Push(<<Reply(id)>>)
      BY DEF OnAuthRequired, Reply
<1>2. Range(<<Reply(id)>>) = {Reply(id)}
      BY OneFacts
<1> QED
    BY <1>1, <1>2, PushFacts DEF Push

\* What the browser can do to one request.
Begun(q, data) == [q EXCEPT !.stage = "sending", !.data = data]
Told(q, b)     == [q EXCEPT !.told = IF b THEN "parked" ELSE "plain"]
Paused(q, p)   == [q EXCEPT !.pause = p]
Challenged(q)  == [q EXCEPT !.stage = "challenged", !.asked = @ + 1]
Stopped(q, s, b) == [q EXCEPT !.stage = s, !.odd = @ \/ b]
Redirected(q, b) == [q EXCEPT !.hop = @ + 1, !.told = "no", !.pause = "due",
                              !.refused = FALSE, !.offered = 0, !.odd = @ \/ b]

LEMMA RecordFacts ==
  ASSUME NEW q \in Requested, NEW b
  PROVE  /\ \A data \in BOOLEAN : Begun(q, data) \in Requested /\ Begun(q, data).hop = q.hop
         /\ Told(q, b) \in Requested /\ Told(q, b).hop = q.hop
         /\ \A p \in {"paused", "passed"} : Paused(q, p) \in Requested /\ Paused(q, p).hop = q.hop
         /\ Challenged(q) \in Requested /\ Challenged(q).hop = q.hop
         /\ \A s \in {"answered", "over"} :
              /\ Stopped(q, s, b) \in Requested /\ Stopped(q, s, b).hop = q.hop
              /\ Stopped(q, s, b).stage = s /\ (Stopped(q, s, b).odd <=> q.odd \/ b)
         /\ Redirected(q, b) \in Requested /\ Redirected(q, b).hop = q.hop + 1
         /\ Redirected(q, b).stage = q.stage
         /\ q.hop \in Nat
<1>1. ASSUME NEW data \in BOOLEAN
      PROVE  Begun(q, data) \in Requested /\ Begun(q, data).hop = q.hop
      BY DEF Begun, Requested
<1>2. Told(q, b) \in Requested /\ Told(q, b).hop = q.hop
      BY DEF Told, Requested
<1>3. ASSUME NEW p \in {"paused", "passed"}
      PROVE  Paused(q, p) \in Requested /\ Paused(q, p).hop = q.hop
      BY DEF Paused, Requested
<1>0. q.asked + 1 \in Nat /\ q.hop + 1 \in Nat /\ q.hop \in Nat /\ q.hop + 1 >= q.hop
      BY DEF Requested
<1>4. Challenged(q) \in Requested /\ Challenged(q).hop = q.hop
      BY <1>0 DEF Challenged, Requested
<1>5. ASSUME NEW s \in {"answered", "over"}
      PROVE  /\ Stopped(q, s, b) \in Requested /\ Stopped(q, s, b).hop = q.hop
             /\ Stopped(q, s, b).stage = s /\ (Stopped(q, s, b).odd <=> q.odd \/ b)
  <2>1. Stopped(q, s, b) \in Requested
        BY DEF Stopped, Requested
  <2>2. Stopped(q, s, b).hop = q.hop /\ Stopped(q, s, b).stage = s
        BY DEF Stopped, Requested
  <2>3. Stopped(q, s, b).odd <=> q.odd \/ b
        BY DEF Stopped, Requested
  <2> QED
      BY <2>1, <2>2, <2>3
<1>6. /\ Redirected(q, b) \in Requested /\ Redirected(q, b).hop = q.hop + 1
      /\ Redirected(q, b).stage = q.stage
  <2>1. ASSUME NEW hop \in Nat, NEW odd \in BOOLEAN
        PROVE  [q EXCEPT !.hop = hop, !.told = "no", !.pause = "due",
                         !.refused = FALSE, !.offered = 0, !.odd = odd] \in Requested
        BY DEF Requested
  <2>2. (q.odd \/ b) \in BOOLEAN
        OBVIOUS
  <2>3. Redirected(q, b) \in Requested
        BY <1>0, <2>1, <2>2 DEF Redirected
  <2>4. Redirected(q, b).hop = q.hop + 1 /\ Redirected(q, b).stage = q.stage
        BY DEF Redirected, Requested
  <2> QED
      BY <2>3, <2>4
<1> QED
    BY <1>0, <1>1, <1>2, <1>3, <1>4, <1>5, <1>6 DEF Requested

\* What the browser changes of a request leaves the others, and a hop does not come back.
LEMMA ChangeFacts ==
  ASSUME Shapes, NEW r \in Requests, NEW v \in Requested, v.hop >= req[r].hop,
         req' = [req EXCEPT ![r] = v]
  PROVE  /\ req' \in [Requests -> Requested] /\ req'[r] = v
         /\ \A x \in Requests : req'[x].hop >= req[x].hop
         /\ \A x \in Requests : x # r => req'[x] = req[x]
<1>1. req \in [Requests -> Requested]
      BY DEF Shapes
<1>2. /\ req' \in [Requests -> Requested] /\ req'[r] = v
      /\ \A x \in Requests : x # r => req'[x] = req[x]
      BY <1>1
<1>3. \A x \in Requests : req[x].hop \in Nat
      BY <1>1 DEF Requested
<1> QED
    BY <1>2, <1>3

\* An event of the browser is about one request, and a hop does not come back.
LEMMA BrowserFacts ==
  ASSUME Shapes, NEW r \in Requests, Browser(r)
  PROVE  /\ Manages(r) /\ UNCHANGED targetVars
         /\ req' \in [Requests -> Requested]
         /\ \A x \in Requests : req'[x].hop >= req[x].hop
         /\ \A x \in Requests : x # r => req'[x] = req[x]
<1> DEFINE q == req[r]
<1>0. req \in [Requests -> Requested] /\ q \in Requested /\ q.hop \in Nat
      BY DEF Shapes, Requested
<1> DEFINE Goal == /\ Manages(r) /\ UNCHANGED targetVars
                   /\ \E v \in Requested : v.hop >= q.hop /\ req' = [req EXCEPT ![r] = v]
<1> SUFFICES Goal
    BY ChangeFacts
<1>1. ASSUME NEW data \in BOOLEAN, Begins(r, data) PROVE Goal
  <2>1. UNCHANGED networkVars /\ UNCHANGED targetVars
        BY <1>0, <1>1 DEF Begins, Unread
  <2>2. Manages(r)
        BY <1>0, <2>1 DEF Manages
  <2>3. req' = [req EXCEPT ![r] = Begun(q, data)]
        BY <1>0, <1>1 DEF Begins, Begun
  <2>4. Begun(q, data) \in Requested /\ Begun(q, data).hop >= q.hop
        BY <1>0, RecordFacts
  <2> QED
      BY <2>1, <2>2, <2>3, <2>4
<1>2. ASSUME Tells(r) PROVE Goal
  <2>1. OnRequestWillBeSent(r, q.hop > 0, q.data) /\ q.data \in BOOLEAN /\ UNCHANGED targetVars
        BY <1>0, <1>2 DEF Tells, Unread, Requested
  <2>2. Manages(r)
    <3>1. (q.hop > 0) \in BOOLEAN
          OBVIOUS
    <3> QED
        BY <2>1, <3>1 DEF Manages
  <2>3. req' = [req EXCEPT ![r] = Told(q, intercepting /\ ~q.data)]
        BY <1>0, <1>2 DEF Tells, Told
  <2>4. Told(q, intercepting /\ ~q.data) \in Requested /\ Told(q, intercepting /\ ~q.data).hop >= q.hop
        BY <1>0, RecordFacts
  <2> QED
      BY <2>1, <2>2, <2>3, <2>4
<1>3. ASSUME Pauses(r) PROVE Goal
  <2>1. OnRequestPaused(<<r, q.hop>>) /\ UNCHANGED targetVars
        BY <1>0, <1>3 DEF Pauses
  <2>2. Manages(r)
        BY <1>0, <2>1 DEF Manages
  <2>3. req' = [req EXCEPT ![r] = Paused(q, "paused")]
        BY <1>0, <1>3 DEF Pauses, Paused
  <2>4. Paused(q, "paused") \in Requested /\ Paused(q, "paused").hop >= q.hop
        BY <1>0, RecordFacts
  <2> QED
      BY <2>1, <2>2, <2>3, <2>4
<1>4. ASSUME Passes(r) PROVE Goal
  <2>1. UNCHANGED networkVars /\ UNCHANGED targetVars
        BY <1>0, <1>4 DEF Passes, Unread
  <2>2. Manages(r)
        BY <1>0, <2>1 DEF Manages
  <2>3. req' = [req EXCEPT ![r] = Paused(q, "passed")]
        BY <1>0, <1>4 DEF Passes, Paused
  <2>4. Paused(q, "passed") \in Requested /\ Paused(q, "passed").hop >= q.hop
        BY <1>0, RecordFacts
  <2> QED
      BY <2>1, <2>2, <2>3, <2>4
<1>5. ASSUME Challenges(r) PROVE Goal
  <2>1. OnAuthRequired(<<r, q.hop>>) /\ UNCHANGED targetVars
        BY <1>0, <1>5 DEF Challenges, Unread
  <2>2. Manages(r)
        BY <1>0, <2>1 DEF Manages
  <2>3. req' = [req EXCEPT ![r] = Challenged(q)]
        BY <1>0, <1>5 DEF Challenges, Challenged
  <2>4. Challenged(q) \in Requested /\ Challenged(q).hop >= q.hop
        BY <1>0, RecordFacts
  <2> QED
      BY <2>1, <2>2, <2>3, <2>4
<1>6. ASSUME Responds(r) PROVE Goal
  <2>1. OnResponseReceived(r) /\ UNCHANGED targetVars
        BY <1>0, <1>6 DEF Responds, Unread
  <2>2. Manages(r)
        BY <1>0, <2>1 DEF Manages
  <2>3. req' = [req EXCEPT ![r] = Stopped(q, "answered", Mistaken(r))]
        BY <1>0, <1>6 DEF Responds, Stopped
  <2>4. Stopped(q, "answered", Mistaken(r)) \in Requested /\ Stopped(q, "answered", Mistaken(r)).hop >= q.hop
        BY <1>0, RecordFacts
  <2> QED
      BY <2>1, <2>2, <2>3, <2>4
<1>7. ASSUME Redirects(r) PROVE Goal
  <2>1. UNCHANGED networkVars /\ UNCHANGED targetVars
        BY <1>0, <1>7 DEF Redirects, Unread
  <2>2. Manages(r)
        BY <1>0, <2>1 DEF Manages
  <2>3. req' = [req EXCEPT ![r] = Redirected(q, Mistaken(r))]
        BY <1>0, <1>7 DEF Redirects, Redirected
  <2>4. Redirected(q, Mistaken(r)) \in Requested /\ Redirected(q, Mistaken(r)).hop >= q.hop
        BY <1>0, RecordFacts
  <2> QED
      BY <2>1, <2>2, <2>3, <2>4
<1>8. ASSUME Ends(r) PROVE Goal
  <2>1. OnLoadingOver(r) /\ UNCHANGED targetVars
        BY <1>0, <1>8 DEF Ends, Unread
  <2>2. Manages(r)
        BY <1>0, <2>1 DEF Manages
  <2>3. req' = [req EXCEPT ![r] = Stopped(q, "over", q.stage # "answered" /\ Mistaken(r))]
        BY <1>0, <1>8 DEF Ends, Stopped
  <2>4. Stopped(q, "over", q.stage # "answered" /\ Mistaken(r)) \in Requested /\ Stopped(q, "over", q.stage # "answered" /\ Mistaken(r)).hop >= q.hop
        BY <1>0, RecordFacts
  <2> QED
      BY <2>1, <2>2, <2>3, <2>4
<1> QED
    BY <1>1, <1>2, <1>3, <1>4, <1>5, <1>6, <1>7, <1>8 DEF Browser

\* What the manager queues for the target, in any of its handlers.
LEMMA QueueFacts ==
  ASSUME Shapes, NEW r \in Requests, Manages(r)
  PROVE  Listed(queued') /\ reports' \in Seq(Reported)
<1>0. Listed(queued) /\ reports \in Seq(Reported)
      BY DEF Shapes
<1>1. ASSUME Conclude(r) PROVE reports' \in Seq(Reported)
  <2>1. r \in DOMAIN tracked => [id |-> r, hops |-> tracked[r].hops] \in Reported
        BY DEF Shapes, Reported
  <2> QED
      BY <1>0, <1>1, <2>1 DEF Conclude
<1>2. ASSUME NEW redirected \in BOOLEAN, NEW data \in BOOLEAN,
             OnRequestWillBeSent(r, redirected, data)
      PROVE  UNCHANGED <<queued, reports>>
      BY <1>2 DEF OnRequestWillBeSent
<1>3. ASSUME NEW hop \in Nat, OnRequestPaused(<<r, hop>>)
      PROVE  Listed(queued') /\ UNCHANGED reports
      BY <1>0, <1>3, PausedPush DEF OnRequestPaused
<1>4. ASSUME NEW hop \in Nat, OnAuthRequired(<<r, hop>>)
      PROVE  Listed(queued') /\ UNCHANGED reports
      BY <1>0, <1>4, AuthPush DEF OnAuthRequired
<1>5. ASSUME OnResponseReceived(r) \/ OnLoadingOver(r) PROVE Conclude(r) /\ UNCHANGED queued
      BY <1>5 DEF OnResponseReceived, OnLoadingOver
<1> QED
    BY <1>0, <1>1, <1>2, <1>3, <1>4, <1>5 DEF Manages, networkVars

\* What the target takes out of the inbox and of the queue.
LEMMA PollFacts ==
  ASSUME Shapes, Poll
  PROVE  /\ out' = (out \o inbox.commands) \o Drained(inbox.credentials)
         /\ Listed(Drained(inbox.credentials)) /\ Listed(out \o inbox.commands)
         /\ Listed(out') /\ Listed(inbox.commands) /\ Listed(out) /\ Listed(queued)
         /\ queued' = <<>> /\ reports' = <<>> /\ reported' = reported \o reports
         /\ inbox' = NoMessages /\ inbox'.commands = <<>>
         /\ UNCHANGED <<req, tracked, parked, early, attempted>>
<1>1. /\ out' = (out \o inbox.commands) \o Drained(inbox.credentials)
      /\ queued' = <<>> /\ reports' = <<>> /\ reported' = reported \o reports
      /\ inbox' = NoMessages /\ inbox'.commands = <<>>
      /\ UNCHANGED <<req, tracked, parked, early, attempted>>
      BY DEF Poll, Authenticate, browserVars, NoMessages
<1>2. Listed(Interception)
      BY InterceptionFacts
<1>3. Listed(out) /\ Listed(inbox.commands) /\ Listed(queued)
      BY DEF Shapes
<1>4. Listed(Drained(inbox.credentials))
      BY <1>2, <1>3, ConcatFacts, EmptyFacts DEF Drained
<1>5. Listed(out \o inbox.commands)
      BY <1>3, ConcatFacts
<1> QED
    BY <1>1, <1>3, <1>4, <1>5, ConcatFacts

\* What the browser does with a command: nothing, or it lets a paused hop go on, or gives
\* a challenged one its answer.
Continued(q) == [q EXCEPT !.pause = "continued"]
Replied(q, answer) == [q EXCEPT !.stage = "sending", !.refused = answer # "provide",
                                !.offered = @ + IF answer = "provide" THEN 1 ELSE 0]

LEMMA ReplyFacts ==
  ASSUME NEW q \in Requested, NEW answer
  PROVE  /\ Continued(q) \in Requested /\ Continued(q).hop = q.hop
         /\ Continued(q).stage = q.stage /\ Continued(q).odd = q.odd
         /\ Continued(q).offered = q.offered /\ Continued(q).told = q.told
         /\ Replied(q, answer) \in Requested /\ Replied(q, answer).hop = q.hop
         /\ Replied(q, answer).stage = "sending" /\ Replied(q, answer).pause = q.pause
         /\ Replied(q, answer).told = q.told /\ Replied(q, answer).odd = q.odd
         /\ Replied(q, answer).offered = IF answer = "provide" THEN q.offered + 1 ELSE q.offered
<1>1. /\ Continued(q) \in Requested /\ Continued(q).hop = q.hop
      /\ Continued(q).stage = q.stage /\ Continued(q).odd = q.odd
      /\ Continued(q).offered = q.offered /\ Continued(q).told = q.told
      BY DEF Continued, Requested
<1>2. /\ Replied(q, answer) \in Requested /\ Replied(q, answer).hop = q.hop
      /\ Replied(q, answer).stage = "sending" /\ Replied(q, answer).pause = q.pause
      /\ Replied(q, answer).told = q.told /\ Replied(q, answer).odd = q.odd
      /\ Replied(q, answer).offered = IF answer = "provide" THEN q.offered + 1 ELSE q.offered
  <2> DEFINE offered == q.offered + IF answer = "provide" THEN 1 ELSE 0
             refused == answer # "provide"
  <2>1. offered \in Nat /\ refused \in BOOLEAN
        BY DEF Requested
  <2>2. Replied(q, answer) = [q EXCEPT !.stage = "sending", !.refused = refused,
                                       !.offered = offered]
        BY DEF Replied, Requested
  <2>3. offered = IF answer = "provide" THEN q.offered + 1 ELSE q.offered
        BY DEF Requested
  <2> HIDE DEF offered, refused
  <2>4. Replied(q, answer) \in Requested
        BY <2>1, <2>2 DEF Requested
  <2>5. /\ Replied(q, answer).hop = q.hop /\ Replied(q, answer).offered = offered
        /\ Replied(q, answer).stage = "sending" /\ Replied(q, answer).pause = q.pause
        /\ Replied(q, answer).told = q.told /\ Replied(q, answer).odd = q.odd
        BY <2>2 DEF Requested
  <2> QED
      BY <2>3, <2>4, <2>5
<1> QED
    BY <1>1, <1>2

LEMMA ObeyFacts ==
  ASSUME Shapes, NEW c, Obey(c)
  PROVE  \/ UNCHANGED req
         \/ \E r \in Requests :
              /\ c.type = "continue" /\ req[r].pause = "paused"
              /\ req' = [req EXCEPT ![r] = Continued(req[r])]
         \/ \E r \in Requests :
              /\ c.type = "auth" /\ c.id = <<r, req[r].hop>> /\ req[r].stage = "challenged"
              /\ req' = [req EXCEPT ![r] = Replied(req[r], c.answer)]
<1>0. req \in [Requests -> Requested]
      BY DEF Shapes
<1> DEFINE r == c.id[1]
<1>1. CASE r \notin Requests
      BY <1>0, <1>1 DEF Obey
<1>2. CASE r \in Requests /\ c.type = "continue"
      BY <1>0, <1>2 DEF Obey, Continued
<1>3. CASE r \in Requests /\ c.type = "auth"
      BY <1>0, <1>3 DEF Obey, Replied
<1>4. CASE c.type \notin {"continue", "auth"}
      BY <1>4 DEF Obey
<1> QED
    BY <1>1, <1>2, <1>3, <1>4

LEMMA ShapesStep == Shapes /\ [Next]_vars => Shapes'
<1> SUFFICES ASSUME Shapes, [Next]_vars PROVE Shapes'
    OBVIOUS
<1>0. /\ Mapped /\ reported \in Seq(Reported) /\ reports \in Seq(Reported)
      /\ DOMAIN inbox = {"commands", "listens", "credentials"}
      /\ DOMAIN NoMessages = {"commands", "listens", "credentials"}
      /\ Listed(queued) /\ Listed(out) /\ Listed(inbox.commands) /\ req \in [Requests -> Requested]
      BY DEF Shapes, Mapped, NoMessages
<1>1. ASSUME NEW r \in Requests, Browser(r) PROVE Shapes'
  <2>1. /\ Manages(r) /\ UNCHANGED <<inbox, out, reported>>
        /\ req' \in [Requests -> Requested]
        BY <1>1, BrowserFacts DEF targetVars
  <2>2. Mapped'
        BY <1>0, <2>1, ManagerFacts
  <2>3. Listed(queued') /\ reports' \in Seq(Reported)
        BY <2>1, QueueFacts
  <2> QED
      BY <1>0, <2>1, <2>2, <2>3 DEF Shapes, Mapped, NoMessages
<1>2. ASSUME Poll PROVE Shapes'
  <2>1. /\ UNCHANGED <<req, tracked, early>> /\ Listed(out') /\ queued' = <<>> /\ reports' = <<>>
        /\ reported' = reported \o reports /\ inbox' = NoMessages /\ inbox'.commands = <<>>
        BY <1>2, PollFacts
  <2>2. reported' \in Seq(Reported) /\ reports' \in Seq(Reported)
        BY <1>0, <2>1
  <2>3. Mapped'
        BY <1>0, <2>1 DEF Mapped
  <2> QED
      BY <1>0, <2>1, <2>2, <2>3, EmptyFacts DEF Shapes, Mapped
<1>3. ASSUME BrowserReads PROVE Shapes'
  <2>0. Obey(Head(out))
        BY <1>3 DEF BrowserReads
  <2>r. req' \in [Requests -> Requested]
    <3>1. \A r \in Requests :
            /\ [req EXCEPT ![r] = Continued(req[r])] \in [Requests -> Requested]
            /\ \A answer : [req EXCEPT ![r] = Replied(req[r], answer)] \in [Requests -> Requested]
          BY <1>0, ReplyFacts
    <3> QED
        BY <1>0, <2>0, <3>1, ObeyFacts
  <2>1. /\ UNCHANGED <<networkVars, inbox, reported>> /\ req' \in [Requests -> Requested]
        /\ out # <<>> /\ out' = Tail(out)
        BY <1>3, <2>r DEF BrowserReads
  <2>2. Listed(out')
        BY <1>0, <2>1, TailFacts
  <2> QED
      BY <1>0, <2>1, <2>2 DEF Shapes, networkVars, NoMessages
<1>4. ASSUME NEW kind \in DOMAIN inbox, NEW messages, Send(kind, messages),
             UNCHANGED <<networkVars, browserVars>>,
             kind = "commands" => Listed(messages)
      PROVE  Shapes'
  <2>1. /\ DOMAIN inbox' = DOMAIN inbox /\ UNCHANGED <<out, reported>>
        /\ inbox'.commands = IF kind = "commands" THEN messages ELSE inbox.commands
        BY <1>0, <1>4 DEF Send
  <2>2. Listed(inbox'.commands)
        BY <1>0, <1>4, <2>1
  <2>3. UNCHANGED <<req, tracked, early, queued, reports>>
        BY <1>4 DEF networkVars, browserVars
  <2> QED
      BY <1>0, <2>1, <2>2, <2>3 DEF Shapes, NoMessages
<1>5. ASSUME UNCHANGED <<networkVars, browserVars, targetVars>> PROVE Shapes'
      BY <1>0, <1>5 DEF Shapes, networkVars, browserVars, targetVars, NoMessages
<1>6. ASSUME Authenticates PROVE Shapes'
      BY <1>0, <1>4, <1>6 DEF Authenticates
<1>7. ASSUME NEW s \in Streams, Listens(s) PROVE Shapes'
      BY <1>0, <1>4, <1>7 DEF Listens
<1>8. ASSUME NEW s \in Streams, Reads(s) PROVE Shapes'
  <2>1. Listed(Append(inbox.commands, Continue(Head(stream[s]))))
        BY <1>0, AppendFacts
  <2> QED
      BY <1>0, <1>4, <1>5, <1>8, <2>1 DEF Reads
<1>9. ASSUME NEW s \in Streams, Drops(s) PROVE Shapes'
      BY <1>5, <1>9 DEF Drops
<1>10. ASSUME UNCHANGED vars PROVE Shapes'
       BY <1>5, <1>10 DEF vars
<1> QED
    BY <1>1, <1>2, <1>3, <1>6, <1>7, <1>8, <1>9, <1>10 DEF Next

-----------------------------------------------------------------------------
(* The manager follows the requests.                                       *)

LEMMA KeptSame ==
  ASSUME NEW x, req'[x] = req[x], Leaves(x), Kept(x)
  PROVE  Kept(x)'
<1>1. IsOpen(x)' = IsOpen(x) /\ Intercepted(x)' = Intercepted(x)
      BY DEF IsOpen, Intercepted
<1>2. ChainOnly(x)' = ChainOnly(x)
      BY DEF ChainOnly, Leaves
<1>3. Follows(x) => Follows(x)'
      BY <1>1, <1>2 DEF Follows, Leaves
<1> QED
    BY <1>1, <1>3 DEF Kept, Leaves

LEMMA KeptFacts ==
  ASSUME Shapes, NEW r \in Requests
  PROVE  /\ req \in [Requests -> Requested] /\ req[r].hop \in Nat
         /\ req[r].told \in {"no", "plain", "parked"}
         /\ req[r].pause \in {"due", "paused", "continued", "passed"}
         /\ r \in DOMAIN tracked => tracked[r].hops \in Nat
BY DEF Shapes, Requested

LEMMA TellsKept ==
  ASSUME Shapes, NEW r \in Requests, Tells(r), Kept(r)
  PROVE  Kept(r)'
<1>0. /\ req \in [Requests -> Requested] /\ req[r].hop \in Nat
      /\ req[r].pause \in {"due", "paused", "continued", "passed"} /\ Mapped
      BY KeptFacts DEF Shapes, Mapped
<1> DEFINE parks == intercepting /\ ~req[r].data
<1>1. /\ req'[r].stage = "sending" /\ req'[r].hop = req[r].hop /\ req'[r].pause = req[r].pause
      /\ req'[r].told = (IF parks THEN "parked" ELSE "plain") /\ req'[r].odd = req[r].odd
      /\ req[r].stage = "sending" /\ req[r].told = "no"
      /\ OnRequestWillBeSent(r, req[r].hop > 0, req[r].data)
      BY <1>0 DEF Tells, Requested
<1>2. CASE req[r].odd
      BY <1>1, <1>2 DEF Kept, IsOpen
<1>3. CASE ~req[r].odd
  <2>0. /\ ChainOnly(r) /\ r \notin DOMAIN parked
        /\ IF Intercepted(r) THEN r \in DOMAIN early /\ early[r] = <<r, req[r].hop>>
           ELSE r \notin DOMAIN early
        /\ Intercepted(r)' = Intercepted(r)
        BY <1>1, <1>3 DEF Kept, IsOpen, Follows, Intercepted
  <2>h. ASSUME NEW id, OwnId(id, r), Track(r, req[r].hop > 0, id)
        PROVE  r \in DOMAIN tracked' /\ tracked'[r] = [id |-> id, hops |-> req[r].hop]
    <3>1. /\ DOMAIN tracked' = DOMAIN tracked \cup {r}
          /\ tracked'[r] = [id |-> id, hops |-> IF req[r].hop > 0 /\ r \in DOMAIN tracked
                                                THEN tracked[r].hops + 1 ELSE 0]
          BY <1>0, <2>h, TrackFacts
    <3>2. (IF req[r].hop > 0 /\ r \in DOMAIN tracked THEN tracked[r].hops + 1 ELSE 0) = req[r].hop
          BY <1>0, <2>0 DEF ChainOnly, Mapped
    <3> QED
        BY <3>1, <3>2
  <2>1. CASE ~parks
    <3>1. Track(r, req[r].hop > 0, NoId) /\ UNCHANGED <<parked, early>>
          BY <1>1, <2>1 DEF OnRequestWillBeSent
    <3>t. r \in DOMAIN tracked' /\ tracked'[r] = [id |-> NoId, hops |-> req[r].hop]
          BY <2>h, <3>1 DEF OwnId
    <3>2. r \in DOMAIN tracked' /\ tracked'[r].hops = req[r].hop
          BY <3>t
    <3> QED
        BY <1>1, <2>0, <2>1, <3>1, <3>2 DEF Kept, IsOpen, Follows
  <2>2. CASE parks /\ r \in DOMAIN early
    <3>1. /\ Track(r, req[r].hop > 0, early[r]) /\ early' = Without(early, r)
          /\ UNCHANGED parked
          BY <1>1, <2>2 DEF OnRequestWillBeSent
    <3>2. r \in DOMAIN tracked' /\ tracked'[r] = [id |-> <<r, req[r].hop>>, hops |-> req[r].hop]
          BY <2>0, <2>2, <2>h, <3>1 DEF Mapped, Shapes
    <3>3. r \notin DOMAIN early'
          BY <3>1, MapFacts
    <3> QED
        BY <1>1, <2>0, <2>2, <3>1, <3>2, <3>3 DEF Kept, IsOpen, Follows, Intercepted
  <2>3. CASE parks /\ r \notin DOMAIN early
    <3>1. parked' = With(parked, r, req[r].hop > 0) /\ UNCHANGED <<tracked, early>>
          BY <1>1, <2>3 DEF OnRequestWillBeSent
    <3>2. r \in DOMAIN parked' /\ parked'[r] = (req[r].hop > 0)
          BY <3>1, MapFacts
    <3>3. ChainOnly(r)'
          BY <1>1, <2>0, <3>1 DEF ChainOnly
    <3> QED
        BY <1>1, <2>0, <2>3, <3>1, <3>2, <3>3 DEF Kept, IsOpen, Follows
  <2> QED
      BY <2>1, <2>2, <2>3
<1> QED
    BY <1>2, <1>3

LEMMA PausesKept ==
  ASSUME Shapes, NEW r \in Requests, Pauses(r), Kept(r)
  PROVE  Kept(r)'
<1>0. /\ req \in [Requests -> Requested] /\ req[r].hop \in Nat
      /\ req[r].told \in {"no", "plain", "parked"} /\ Mapped
      BY KeptFacts DEF Shapes, Mapped
<1>1. /\ req'[r].stage = "sending" /\ req'[r].hop = req[r].hop /\ req'[r].pause = "paused"
      /\ req'[r].told = req[r].told /\ req'[r].odd = req[r].odd
      /\ req[r].stage = "sending" /\ req[r].pause = "due"
      /\ OnRequestPaused(<<r, req[r].hop>>) /\ <<r, req[r].hop>>[1] = r
      BY <1>0 DEF Pauses, Requested
<1>2. CASE req[r].odd
      BY <1>1, <1>2 DEF Kept, IsOpen
<1>3. CASE ~req[r].odd /\ req[r].told = "no"
  <2>1. ChainOnly(r) /\ r \notin DOMAIN parked
        BY <1>1, <1>3 DEF Kept, IsOpen, Follows
  <2>2. early' = With(early, r, <<r, req[r].hop>>) /\ UNCHANGED <<tracked, parked>>
        BY <1>1, <2>1 DEF OnRequestPaused
  <2>3. r \in DOMAIN early' /\ early'[r] = <<r, req[r].hop>>
        BY <2>2, MapFacts
  <2>4. ChainOnly(r)'
        BY <1>1, <2>1, <2>2 DEF ChainOnly
  <2> QED
      BY <1>1, <1>3, <2>1, <2>2, <2>3, <2>4 DEF Kept, IsOpen, Follows, Intercepted
<1>4. CASE ~req[r].odd /\ req[r].told = "parked"
  <2>1. /\ ChainOnly(r) /\ r \in DOMAIN parked /\ parked[r] = (req[r].hop > 0)
        /\ r \notin DOMAIN early
        BY <1>1, <1>4 DEF Kept, IsOpen, Follows
  <2>2. /\ Track(r, req[r].hop > 0, <<r, req[r].hop>>) /\ parked' = Without(parked, r)
        /\ UNCHANGED early
        BY <1>1, <2>1 DEF OnRequestPaused
  <2>h. ASSUME NEW id, OwnId(id, r), Track(r, req[r].hop > 0, id)
        PROVE  /\ DOMAIN tracked' = DOMAIN tracked \cup {r}
               /\ tracked'[r] = [id |-> id, hops |-> IF req[r].hop > 0 /\ r \in DOMAIN tracked
                                                     THEN tracked[r].hops + 1 ELSE 0]
        BY <1>0, <2>h, TrackFacts
  <2>3. /\ DOMAIN tracked' = DOMAIN tracked \cup {r}
        /\ tracked'[r] = [id |-> <<r, req[r].hop>>, hops |-> IF req[r].hop > 0 /\ r \in DOMAIN tracked
                                                             THEN tracked[r].hops + 1 ELSE 0]
    <3>1. OwnId(<<r, req[r].hop>>, r)
          BY <1>0 DEF OwnId
    <3> QED
        BY <2>2, <2>h, <3>1
  <2>4. (IF req[r].hop > 0 /\ r \in DOMAIN tracked THEN tracked[r].hops + 1 ELSE 0) = req[r].hop
        BY <1>0, <2>1 DEF ChainOnly, Mapped
  <2>5. r \notin DOMAIN parked'
        BY <2>2, MapFacts
  <2> QED
      BY <1>1, <1>4, <2>1, <2>2, <2>3, <2>4, <2>5 DEF Kept, IsOpen, Follows
<1>5. CASE ~req[r].odd /\ req[r].told = "plain"
      BY <1>1, <1>5 DEF Kept, IsOpen, Follows, Intercepted
<1> QED
    BY <1>0, <1>2, <1>3, <1>4, <1>5

LEMMA FollowsInit == Init => FollowsAll
BY DEF Init, NetworkInit, FollowsAll, Kept, IsOpen, Follows, ChainOnly, Intercepted

LEMMA BrowserFollows ==
  ASSUME Shapes, NEW r \in Requests, Browser(r), Kept(r)
  PROVE  Kept(r)'
<1>0. /\ req \in [Requests -> Requested] /\ req[r].hop \in Nat
      /\ req[r].told \in {"no", "plain", "parked"}
      BY KeptFacts
<1>1. ASSUME NEW data \in BOOLEAN, Begins(r, data) PROVE Kept(r)'
  <2>1. /\ req'[r].stage = "sending" /\ req'[r].hop = req[r].hop /\ req'[r].pause = req[r].pause
        /\ req'[r].told = req[r].told /\ req'[r].odd = req[r].odd /\ req[r].stage = "idle"
        /\ UNCHANGED <<tracked, parked, early>>
        BY <1>0, <1>1 DEF Begins, networkVars, Requested
  <2> QED
      BY <2>1 DEF Kept, IsOpen, Follows, ChainOnly, Intercepted
<1>2. ASSUME Passes(r) PROVE Kept(r)'
  <2>1. /\ req'[r].stage = "sending" /\ req'[r].hop = req[r].hop /\ req'[r].pause = "passed"
        /\ req'[r].told = req[r].told /\ req'[r].odd = req[r].odd /\ req[r].stage = "sending"
        /\ req[r].pause = "due" /\ UNCHANGED <<tracked, parked, early>>
        BY <1>0, <1>2 DEF Passes, networkVars, Requested
  <2> QED
      BY <2>1 DEF Kept, IsOpen, Follows, ChainOnly, Intercepted
<1>3. ASSUME Challenges(r) PROVE Kept(r)'
  <2>1. /\ req'[r].stage = "challenged" /\ req'[r].hop = req[r].hop /\ req'[r].pause = req[r].pause
        /\ req'[r].told = req[r].told /\ req'[r].odd = req[r].odd /\ req[r].stage = "sending"
        /\ UNCHANGED <<tracked, parked, early>>
        BY <1>0, <1>3 DEF Challenges, Answerable, OnAuthRequired, Requested
  <2> QED
      BY <2>1 DEF Kept, IsOpen, Follows, ChainOnly, Intercepted
<1>4. ASSUME Conclude(r) PROVE r \notin DOMAIN tracked'
      BY <1>4, MapFacts DEF Conclude
<1>5. ASSUME Responds(r) PROVE Kept(r)'
  <2>1. req'[r].stage = "answered"
        BY <1>0, <1>5 DEF Responds, Requested
  <2>2. r \notin DOMAIN tracked'
        BY <1>4, <1>5 DEF Responds, OnResponseReceived
  <2> QED
      BY <2>1, <2>2 DEF Kept, IsOpen
<1>6. ASSUME Ends(r) PROVE Kept(r)'
  <2>1. req'[r].stage = "over"
        BY <1>0, <1>6 DEF Ends, Requested
  <2>2. r \notin DOMAIN tracked'
        BY <1>4, <1>6 DEF Ends, OnLoadingOver
  <2> QED
      BY <2>1, <2>2 DEF Kept, IsOpen
<1>7. ASSUME Redirects(r) PROVE Kept(r)'
  <2>1. /\ req'[r].stage = "sending" /\ req'[r].hop = req[r].hop + 1 /\ req'[r].pause = "due"
        /\ req'[r].told = "no" /\ req'[r].odd = (req[r].odd \/ Mistaken(r))
        /\ req[r].stage = "sending" /\ req[r].told # "no"
        /\ UNCHANGED <<tracked, parked, early>>
        BY <1>0, <1>7 DEF Redirects, Answerable, networkVars, Requested
  <2>2. CASE req[r].odd \/ Mistaken(r)
        BY <2>1, <2>2 DEF Kept, IsOpen
  <2>3. CASE ~req[r].odd /\ ~Mistaken(r)
    <3>t. Follows(r) /\ (req[r].told = "parked" <=> Intercepted(r))
          BY <2>1, <2>3 DEF Kept, IsOpen, Mistaken, Intercepted
    <3>1. /\ r \in DOMAIN tracked /\ tracked[r].hops = req[r].hop
          /\ r \notin DOMAIN parked /\ r \notin DOMAIN early
          BY <1>0, <2>1, <3>t DEF Follows
    <3>2. ChainOnly(r)'
          BY <1>0, <2>1, <3>1 DEF ChainOnly
    <3> QED
        BY <2>1, <3>1, <3>2 DEF Kept, IsOpen, Follows, Intercepted
  <2> QED
      BY <2>2, <2>3
<1> QED
    BY <1>1, <1>2, <1>3, <1>5, <1>6, <1>7, TellsKept, PausesKept DEF Browser

LEMMA FollowsStep == Shapes /\ FollowsAll /\ [Next]_vars => FollowsAll'
<1> SUFFICES ASSUME Shapes, FollowsAll, [Next]_vars, NEW x \in Requests PROVE Kept(x)'
    BY DEF FollowsAll
<1>0. Kept(x) /\ Mapped /\ req \in [Requests -> Requested]
      BY DEF FollowsAll, Shapes, Mapped
<1>1. ASSUME NEW r \in Requests, Browser(r) PROVE Kept(x)'
  <2>1. CASE x = r
        BY <1>0, <1>1, <2>1, BrowserFollows
  <2>2. CASE x # r
    <3>1. req'[x] = req[x] /\ Manages(r)
          BY <1>1, <2>2, BrowserFacts
    <3>2. Leaves(x)
          BY <1>0, <2>2, <3>1, ManagerFacts
    <3> QED
        BY <1>0, <3>1, <3>2, KeptSame
  <2> QED
      BY <2>1, <2>2
<1>2. ASSUME UNCHANGED <<req, tracked, parked, early, attempted>> PROVE Kept(x)'
  <2>1. Leaves(x) /\ req'[x] = req[x]
        BY <1>2 DEF Leaves, Remembers
  <2> QED
      BY <1>0, <2>1, KeptSame
<1>3. ASSUME BrowserReads PROVE Kept(x)'
  <2>1. Obey(Head(out)) /\ UNCHANGED <<tracked, parked, early, attempted>>
        BY <1>3 DEF BrowserReads, networkVars
  <2>2. ASSUME NEW v, \/ v = Continued(req[x]) /\ req[x].pause = "paused"
                      \/ \E answer : v = Replied(req[x], answer) /\ req[x].stage = "challenged",
               req'[x] = v
        PROVE  Kept(x)'
    <3>1. req[x] \in Requested
          BY <1>0
    <3>2. CASE v = Continued(req[x]) /\ req[x].pause = "paused"
      <4>1. /\ req'[x].hop = req[x].hop /\ req'[x].told = req[x].told
            /\ req'[x].odd = req[x].odd /\ req'[x].stage = req[x].stage
            /\ req'[x].pause = "continued" /\ req[x].pause = "paused"
            BY <2>2, <3>1, <3>2 DEF Continued, Requested
      <4> QED
          BY <1>0, <2>1, <4>1 DEF Kept, Follows, ChainOnly, IsOpen, Intercepted
    <3>3. ASSUME NEW answer, v = Replied(req[x], answer), req[x].stage = "challenged"
          PROVE  Kept(x)'
      <4>1. /\ req'[x].hop = req[x].hop /\ req'[x].told = req[x].told
            /\ req'[x].odd = req[x].odd /\ req'[x].stage = "sending"
            /\ req'[x].pause = req[x].pause /\ req[x].stage = "challenged"
            BY <2>2, <3>1, <3>3, ReplyFacts
      <4> QED
          BY <1>0, <2>1, <4>1 DEF Kept, Follows, ChainOnly, IsOpen, Intercepted
    <3> QED
        BY <2>2, <3>2, <3>3
  <2>3. ASSUME NEW r \in Requests, NEW v, req' = [req EXCEPT ![r] = v]
        PROVE  req'[x] = IF x = r THEN v ELSE req[x]
        BY <1>0, <2>3
  <2>4. req'[x] = req[x] => Kept(x)'
    <3>1. Leaves(x)
          BY <2>1 DEF Leaves, Remembers
    <3> QED
        BY <1>0, <3>1, KeptSame
  <2> QED
      BY <2>1, <2>2, <2>3, <2>4, ObeyFacts
<1>4. ASSUME UNCHANGED <<networkVars, browserVars>> PROVE Kept(x)'
      BY <1>2, <1>4 DEF networkVars, browserVars
<1>5. ASSUME Poll PROVE Kept(x)'
      BY <1>2, <1>5, PollFacts
<1>6. ASSUME Authenticates \/ \E s \in Streams : Listens(s) \/ Reads(s) \/ Drops(s) PROVE Kept(x)'
      BY <1>4, <1>6 DEF Authenticates, Listens, Reads, Drops
<1>7. ASSUME UNCHANGED vars PROVE Kept(x)'
      BY <1>4, <1>7 DEF vars
<1> QED
    BY <1>1, <1>3, <1>5, <1>6, <1>7 DEF Next

-----------------------------------------------------------------------------
(* A request is reported once.                                             *)

LEMMA AllReportsFacts ==
  ASSUME Shapes
  PROVE  AllReports \in Seq(Reported) /\ \A n \in DOMAIN AllReports : AllReports[n].id \in Requests
<1>1. AllReports \in Seq(Reported)
      BY DEF Shapes, AllReports
<1>2. \A n \in DOMAIN AllReports : AllReports[n] \in Reported
      BY <1>1
<1> QED
    BY <1>1, <1>2 DEF Reported

\* Nothing more is reported, and what is not open stays as it is.
LEMMA ReportsStay ==
  ASSUME Shapes, ReportedOnce, AllReports' = AllReports,
         \A x \in Requests : \/ IsOpen(x) /\ IsOpen(x)'
                             \/ /\ ~IsOpen(x) /\ ~IsOpen(x)' /\ req'[x].hop = req[x].hop
                                /\ req'[x].odd = req[x].odd
  PROVE  ReportedOnce'
<1>1. \A n \in DOMAIN AllReports : AllReports[n].id \in Requests
      BY AllReportsFacts
<1>2. \A n \in DOMAIN AllReports : ~IsOpen(AllReports[n].id)'
  <2> SUFFICES ASSUME NEW n \in DOMAIN AllReports PROVE ~IsOpen(AllReports[n].id)'
      OBVIOUS
  <2> DEFINE x == AllReports[n].id
  <2>1. x \in Requests /\ ~IsOpen(x)
        BY <1>1 DEF ReportedOnce
  <2>2. \A y \in Requests : ~IsOpen(y) => req'[y].stage \notin {"idle", "sending", "challenged"}
        BY DEF IsOpen
  <2>3. req'[x].stage \notin {"idle", "sending", "challenged"}
        BY <2>1, <2>2
  <2>4. AllReports'[n].id = x
        OBVIOUS
  <2> QED
      BY <2>3, <2>4 DEF IsOpen
<1> QED
    BY <1>2 DEF ReportedOnce

\* ReportedOnce in the next state.
OpenNext(x) == req'[x].stage \in {"idle", "sending", "challenged"}
ReportedNext ==
  /\ \A m, n \in DOMAIN AllReports' : AllReports'[m].id = AllReports'[n].id => m = n
  /\ \A n \in DOMAIN AllReports' : ~OpenNext(AllReports'[n].id)
  /\ \A r \in Requests : ~OpenNext(r) /\ ~req'[r].odd =>
       [id |-> r, hops |-> req'[r].hop] \in Range(AllReports')

LEMMA NextIsPrimed == (ReportedNext => ReportedOnce') /\ \A x : OpenNext(x) <=> IsOpen(x)'
BY DEF ReportedNext, ReportedOnce, OpenNext, IsOpen

\* The request r is concluded: it was open, so it was not reported before.
LEMMA ConcludeReports ==
  ASSUME Shapes, FollowsAll, ReportedOnce, NEW r \in Requests, Conclude(r), UNCHANGED reported,
         IsOpen(r), ~IsOpen(r)', req[r].told # "no",
         req'[r].hop = req[r].hop, req'[r].odd <=> (req[r].odd \/ Mistaken(r)),
         \A x \in Requests : x # r => req'[x] = req[x]
  PROVE  ReportedOnce'
<1>0. /\ AllReports \in Seq(Reported) /\ Listed(AllReports) /\ Len(AllReports) \in Nat
      /\ DOMAIN AllReports = 1 .. Len(AllReports)
      /\ \A n \in DOMAIN AllReports : AllReports[n].id \in Requests
      /\ reported \in Seq(Reported) /\ reports \in Seq(Reported)
      BY AllReportsFacts DEF Listed, Shapes
<1> DEFINE e == [id |-> r, hops |-> tracked[r].hops]
<1>1. \A n \in DOMAIN AllReports : AllReports[n].id # r /\ ~IsOpen(AllReports[n].id)
      BY DEF ReportedOnce
<1>3. CASE r \in DOMAIN tracked
  <2>1. e \in Reported /\ e.id = r
        BY <1>3 DEF Shapes, Reported
  <2>2. reports' = Append(reports, e)
        BY <1>3 DEF Conclude
  <2> HIDE DEF e
  <2>3. AllReports' = Append(AllReports, e)
        BY <1>0, <2>1, <2>2 DEF AllReports
  <2>4. /\ Range(Append(AllReports, e)) = Range(AllReports) \cup {e}
        /\ DOMAIN Append(AllReports, e) = 1 .. Len(AllReports) + 1
        /\ Append(AllReports, e)[Len(AllReports) + 1] = e
        /\ \A n \in 1 .. Len(AllReports) : Append(AllReports, e)[n] = AllReports[n]
        BY <1>0, AppendFacts
  <2>5. \A n \in 1 .. Len(AllReports) + 1 : n \in 1 .. Len(AllReports) \/ n = Len(AllReports) + 1
        BY <1>0
  <2>6. ASSUME NEW m \in DOMAIN AllReports', NEW n \in DOMAIN AllReports',
               AllReports'[m].id = AllReports'[n].id
        PROVE  m = n
        BY <1>0, <1>1, <2>1, <2>3, <2>4, <2>5, <2>6 DEF ReportedOnce
  <2>7. ASSUME NEW n \in DOMAIN AllReports' PROVE ~OpenNext(AllReports'[n].id)
    <3>1. CASE n \in 1 .. Len(AllReports)
      <4> DEFINE x == AllReports[n].id
      <4>1. x \in Requests /\ x # r /\ ~IsOpen(x) /\ AllReports'[n].id = x
            BY <1>0, <1>1, <2>3, <2>4, <3>1
      <4>2. ~OpenNext(x)
            BY <4>1 DEF IsOpen, OpenNext
      <4> QED
          BY <4>1, <4>2
    <3>2. CASE n = Len(AllReports) + 1
      <4>1. AllReports'[n].id = r /\ ~OpenNext(r)
            BY <2>1, <2>3, <2>4, <3>2, NextIsPrimed
      <4> QED
          BY <4>1
    <3> QED
        BY <2>3, <2>4, <2>5, <3>1, <3>2
  <2>8. ASSUME NEW x \in Requests, ~OpenNext(x), ~req'[x].odd
        PROVE  [id |-> x, hops |-> req'[x].hop] \in Range(AllReports')
    <3>1. CASE x # r
          BY <2>3, <2>4, <2>8, <3>1 DEF ReportedOnce, IsOpen, OpenNext
    <3>2. CASE x = r
      <4>1. ~req[r].odd /\ ~Mistaken(r)
            BY <2>8, <3>2
      <4>2. Follows(r) /\ (req[r].told = "parked" <=> Intercepted(r))
            BY <4>1 DEF FollowsAll, Kept, Mistaken, Intercepted
      <4>3. tracked[r].hops = req[r].hop
            BY <4>2, KeptFacts DEF Follows
      <4>4. e = [id |-> x, hops |-> req'[x].hop]
            BY <3>2, <4>3 DEF e
      <4> QED
          BY <2>3, <2>4, <4>4
    <3> QED
        BY <3>1, <3>2
  <2> QED
      BY <2>6, <2>7, <2>8, NextIsPrimed DEF ReportedNext
<1>4. CASE r \notin DOMAIN tracked
  <2>1. AllReports' = AllReports
        BY <1>4 DEF Conclude, AllReports
  <2>2. req'[r].odd
    <3>1. ASSUME ~req[r].odd, ~Mistaken(r) PROVE FALSE
      <4>1. Follows(r) /\ (req[r].told = "parked" <=> Intercepted(r))
            BY <3>1 DEF FollowsAll, Kept, Mistaken, Intercepted
      <4> QED
          BY <1>4, <4>1, KeptFacts DEF Follows
    <3> QED
        BY <3>1
  <2>3. ASSUME NEW n \in DOMAIN AllReports PROVE ~OpenNext(AllReports[n].id)
    <3> DEFINE x == AllReports[n].id
    <3>1. x \in Requests /\ x # r /\ ~IsOpen(x)
          BY <1>0, <1>1
    <3>2. ~OpenNext(x)
          BY <3>1 DEF IsOpen, OpenNext
    <3> QED
        BY <3>2
  <2>4. ASSUME NEW x \in Requests, ~OpenNext(x), ~req'[x].odd
        PROVE  [id |-> x, hops |-> req'[x].hop] \in Range(AllReports')
        BY <2>1, <2>2, <2>4 DEF ReportedOnce, IsOpen, OpenNext
  <2>5. ReportedNext
        BY <2>1, <2>3, <2>4 DEF ReportedOnce, ReportedNext
  <2> QED
      BY <2>5, NextIsPrimed
<1> QED
    BY <1>3, <1>4

LEMMA ReportedInit == Init => ReportedOnce
<1> SUFFICES ASSUME Init PROVE ReportedOnce
    OBVIOUS
<1>1. reported = <<>> /\ reports = <<>>
      BY DEF Init, NetworkInit
<1>2. AllReports = <<>> /\ DOMAIN AllReports = {}
      BY <1>1 DEF AllReports
<1> QED
    BY <1>2 DEF Init, ReportedOnce, IsOpen

LEMMA ReportedStep == Shapes /\ FollowsAll /\ ReportedOnce /\ [Next]_vars => ReportedOnce'
<1> SUFFICES ASSUME Shapes, FollowsAll, ReportedOnce, [Next]_vars PROVE ReportedOnce'
    OBVIOUS
<1>0. req \in [Requests -> Requested]
      BY DEF Shapes
<1>1. ASSUME AllReports' = AllReports, NEW r \in Requests, NEW v,
             req' = [req EXCEPT ![r] = v],
             \/ IsOpen(r) /\ v.stage \in {"idle", "sending", "challenged"}
             \/ /\ ~IsOpen(r) /\ v.stage \notin {"idle", "sending", "challenged"}
                /\ v.hop = req[r].hop /\ v.odd = req[r].odd
      PROVE  ReportedOnce'
  <2>1. \A x \in Requests : req'[x] = IF x = r THEN v ELSE req[x]
        BY <1>0, <1>1
  <2>2. ASSUME NEW x \in Requests
        PROVE  \/ IsOpen(x) /\ IsOpen(x)'
               \/ /\ ~IsOpen(x) /\ ~IsOpen(x)' /\ req'[x].hop = req[x].hop
                  /\ req'[x].odd = req[x].odd
        BY <1>1, <2>1 DEF IsOpen
  <2> QED
      BY <1>1, <2>2, ReportsStay
<1>2. ASSUME NEW r \in Requests, Browser(r) PROVE ReportedOnce'
  <2> DEFINE q == req[r]
  <2>0. /\ q \in Requested /\ UNCHANGED reported
        /\ \A x \in Requests : x # r => req'[x] = req[x]
        BY <1>0, <1>2, BrowserFacts DEF targetVars
  <2>1. ASSUME UNCHANGED reports PROVE AllReports' = AllReports
        BY <2>0, <2>1 DEF AllReports
  <2>2. ASSUME NEW data \in BOOLEAN, Begins(r, data) PROVE ReportedOnce'
    <3>1. /\ req' = [req EXCEPT ![r] = Begun(q, data)] /\ UNCHANGED reports /\ IsOpen(r)
          /\ Begun(q, data).stage = "sending"
          BY <1>0, <2>2 DEF Begins, Begun, networkVars, IsOpen, Requested
    <3> QED
        BY <1>1, <2>1, <3>1
  <2>3. ASSUME Tells(r) PROVE ReportedOnce'
    <3>1. /\ req' = [req EXCEPT ![r] = Told(q, intercepting /\ ~q.data)] /\ UNCHANGED reports
          /\ IsOpen(r) /\ Told(q, intercepting /\ ~q.data).stage = "sending"
          BY <1>0, <2>3 DEF Tells, Told, OnRequestWillBeSent, IsOpen, Requested
    <3> QED
        BY <1>1, <2>1, <3>1
  <2>4. ASSUME Pauses(r) PROVE ReportedOnce'
    <3>1. /\ req' = [req EXCEPT ![r] = Paused(q, "paused")] /\ UNCHANGED reports
          /\ IsOpen(r) /\ Paused(q, "paused").stage = "sending"
          BY <1>0, <2>4 DEF Pauses, Paused, OnRequestPaused, IsOpen, Requested
    <3> QED
        BY <1>1, <2>1, <3>1
  <2>5. ASSUME Passes(r) PROVE ReportedOnce'
    <3>1. /\ req' = [req EXCEPT ![r] = Paused(q, "passed")] /\ UNCHANGED reports
          /\ IsOpen(r) /\ Paused(q, "passed").stage = "sending"
          BY <1>0, <2>5 DEF Passes, Paused, networkVars, IsOpen, Requested
    <3> QED
        BY <1>1, <2>1, <3>1
  <2>6. ASSUME Challenges(r) PROVE ReportedOnce'
    <3>1. /\ req' = [req EXCEPT ![r] = Challenged(q)] /\ UNCHANGED reports
          /\ IsOpen(r) /\ Challenged(q).stage = "challenged"
          BY <1>0, <2>6 DEF Challenges, Answerable, Challenged, OnAuthRequired, IsOpen, Requested
    <3> QED
        BY <1>1, <2>1, <3>1
  <2>7. ASSUME Redirects(r) PROVE ReportedOnce'
    <3>1. /\ req' = [req EXCEPT ![r] = Redirected(q, Mistaken(r))] /\ UNCHANGED reports
          /\ IsOpen(r) /\ q.stage = "sending"
          BY <1>0, <2>7 DEF Redirects, Answerable, Redirected, networkVars, IsOpen
    <3>2. Redirected(q, Mistaken(r)).stage = "sending"
          BY <2>0, <3>1, RecordFacts
    <3> QED
        BY <1>1, <2>1, <3>1, <3>2
  <2>8. ASSUME Responds(r) PROVE ReportedOnce'
    <3>1. /\ req' = [req EXCEPT ![r] = Stopped(q, "answered", Mistaken(r))] /\ Conclude(r)
          /\ q.stage = "sending" /\ q.told # "no"
          BY <1>0, <2>8 DEF Responds, Answerable, Stopped, OnResponseReceived
    <3>2. /\ req'[r].stage = "answered" /\ req'[r].hop = q.hop
          /\ req'[r].odd <=> (q.odd \/ Mistaken(r))
          BY <1>0, <2>0, <3>1, RecordFacts
    <3> QED
        BY <2>0, <3>1, <3>2, ConcludeReports DEF IsOpen
  <2>9. ASSUME Ends(r) PROVE ReportedOnce'
    <3> DEFINE b == q.stage # "answered" /\ Mistaken(r)
    <3>1. /\ req' = [req EXCEPT ![r] = Stopped(q, "over", b)]
          /\ Conclude(r) /\ q.stage \in {"sending", "challenged", "answered"} /\ q.told # "no"
          BY <1>0, <2>9 DEF Ends, Stopped, OnLoadingOver
    <3> HIDE DEF b
    <3>t. LET v == Stopped(q, "over", b)
          IN v \in Requested /\ v.stage = "over" /\ v.hop = q.hop /\ (v.odd <=> q.odd \/ b)
          BY <2>0, RecordFacts
    <3>2. req'[r].stage = "over" /\ req'[r].hop = q.hop /\ (req'[r].odd <=> q.odd \/ b)
          BY <1>0, <3>1, <3>t
    <3>3. CASE q.stage # "answered"
      <4>1. b <=> Mistaken(r)
            BY <3>3 DEF b
      <4> QED
          BY <2>0, <3>1, <3>2, <3>3, <4>1, ConcludeReports DEF IsOpen
    <3>4. CASE q.stage = "answered"
      <4>1. r \notin DOMAIN tracked
            BY <3>4 DEF FollowsAll, Kept, IsOpen
      <4>2. UNCHANGED reports /\ ~IsOpen(r) /\ ~b
            BY <3>1, <3>4, <4>1 DEF Conclude, IsOpen, b
      <4>3. Stopped(q, "over", b).odd = q.odd
            BY <2>0, <3>t, <4>2 DEF Requested
      <4> QED
          BY <1>1, <2>1, <3>1, <3>t, <4>2, <4>3
    <3> QED
        BY <3>3, <3>4
  <2> QED
      BY <1>2, <2>2, <2>3, <2>4, <2>5, <2>6, <2>7, <2>8, <2>9 DEF Browser
<1>3. ASSUME AllReports' = AllReports, UNCHANGED req PROVE ReportedOnce'
      BY <1>3, ReportsStay DEF IsOpen
<1>4. ASSUME Poll PROVE ReportedOnce'
  <2>0. reported \o reports \in Seq(Reported)
        BY DEF Shapes
  <2>1. UNCHANGED req /\ reported' = reported \o reports /\ reports' = <<>>
        BY <1>4, PollFacts
  <2>2. AllReports' = AllReports
        BY <2>0, <2>1 DEF AllReports
  <2> QED
      BY <1>3, <2>1, <2>2
<1>5. ASSUME BrowserReads PROVE ReportedOnce'
  <2>1. Obey(Head(out)) /\ UNCHANGED <<reports, reported>>
        BY <1>5 DEF BrowserReads, networkVars
  <2>2. AllReports' = AllReports
        BY <2>1 DEF AllReports
  <2>3. CASE UNCHANGED req
        BY <1>3, <2>2, <2>3
  <2>4. ASSUME NEW r \in Requests, req' = [req EXCEPT ![r] = Continued(req[r])]
        PROVE  ReportedOnce'
    <3>1. /\ Continued(req[r]).stage = req[r].stage /\ Continued(req[r]).hop = req[r].hop
          /\ Continued(req[r]).odd = req[r].odd
          BY <1>0, ReplyFacts
    <3> QED
        BY <1>1, <2>2, <2>4, <3>1 DEF IsOpen
  <2>5. ASSUME NEW r \in Requests, NEW answer, req[r].stage = "challenged",
               req' = [req EXCEPT ![r] = Replied(req[r], answer)]
        PROVE  ReportedOnce'
    <3>1. Replied(req[r], answer).stage = "sending" /\ IsOpen(r)
          BY <1>0, <2>5, ReplyFacts DEF IsOpen
    <3> QED
        BY <1>1, <2>2, <2>5, <3>1
  <2> QED
      BY <2>1, <2>3, <2>4, <2>5, ObeyFacts
<1>6. ASSUME UNCHANGED <<req, reported, reports>> PROVE ReportedOnce'
      BY <1>3, <1>6 DEF AllReports
<1>7. ASSUME Authenticates \/ \E s \in Streams : Listens(s) \/ Reads(s) \/ Drops(s)
      PROVE  ReportedOnce'
      BY <1>6, <1>7 DEF Authenticates, Listens, Reads, Drops, Send, networkVars, browserVars,
                        targetVars
<1>8. ASSUME UNCHANGED vars PROVE ReportedOnce'
      BY <1>6, <1>8 DEF vars, networkVars, browserVars, targetVars
<1> QED
    BY <1>2, <1>4, <1>5, <1>7, <1>8 DEF Next

-----------------------------------------------------------------------------
(* Each challenge is answered once.                                        *)

\* A request that waits for an answer, or is over, can only end.
LEMMA OnlyEnds ==
  ASSUME Shapes, NEW r \in Requests, Browser(r), req[r].stage \in {"challenged", "over"}
  PROVE  req'[r].stage = "over" /\ req'[r].hop = req[r].hop
<1>1. req \in [Requests -> Requested]
      BY DEF Shapes
<1>2. Ends(r)
      BY DEF Browser, Begins, Tells, Pauses, Passes, Challenges, Responds, Redirects, Answerable
<1> QED
    BY <1>1, <1>2 DEF Ends, Requested

\* Awaited in the next state.
AwaitedNext(c) ==
  c.type = "auth" =>
    \E r \in Requests, hop \in Nat :
      /\ c.id = <<r, hop>> /\ hop <= req'[r].hop
      /\ hop = req'[r].hop => req'[r].stage \in {"challenged", "over"}
      /\ hop = req'[r].hop /\ req'[r].stage = "challenged" /\ c.answer = "provide" =>
           req'[r].offered = 0 /\ c.id \in attempted'

LEMMA AwaitedBrowser ==
  ASSUME Shapes, NEW r \in Requests, Browser(r), NEW c, Awaited(c)
  PROVE  AwaitedNext(c)
<1> SUFFICES ASSUME c.type = "auth" PROVE AwaitedNext(c)
    BY DEF AwaitedNext
<1>1. PICK x \in Requests, hop \in Nat :
        /\ c.id = <<x, hop>> /\ hop <= req[x].hop
        /\ hop = req[x].hop => req[x].stage \in {"challenged", "over"}
        /\ hop = req[x].hop /\ req[x].stage = "challenged" /\ c.answer = "provide" =>
             req[x].offered = 0 /\ c.id \in attempted
      BY DEF Awaited
<1>2. /\ req'[x].hop >= req[x].hop /\ req'[x].hop \in Nat /\ req[x].hop \in Nat
      /\ x # r => req'[x] = req[x] /\ Remembers(x)
      BY BrowserFacts, ManagerFacts DEF Shapes, Mapped, Requested, Leaves
<1>3. CASE x # r
      BY <1>1, <1>2, <1>3 DEF AwaitedNext, Remembers
<1>4. CASE x = r /\ hop = req[r].hop
  <2>1. req'[x].stage = "over" /\ req'[x].hop = req[x].hop
        BY <1>1, <1>4, OnlyEnds
  <2> QED
      BY <1>1, <1>2, <1>4, <2>1 DEF AwaitedNext
<1>5. CASE x = r /\ hop # req[r].hop
  <2>1. hop < req'[x].hop
        BY <1>1, <1>2, <1>5
  <2> QED
      BY <1>1, <1>2, <2>1 DEF AwaitedNext
<1> QED
    BY <1>3, <1>4, <1>5

\* Commands that answer nothing change nothing.
LEMMA QuietFacts ==
  ASSUME NEW q, NEW p, Listed(q), Listed(p), NoAnswers(p)
  PROVE  /\ Once(q) => Once(q \o p)
         /\ \A c \in Range(q \o p) : c.type = "auth" => c \in Range(q)
<1>1. Once(p) /\ Apart(q, p)
      BY NoAnswersFacts
<1>2. Once(q) => Once(q \o p)
      BY <1>1, OnceConcat
<1>3. Range(q \o p) = Range(q) \cup Range(p)
      BY ConcatFacts
<1> QED
    BY <1>2, <1>3 DEF NoAnswers

LEMMA QuietPaused ==
  ASSUME NEW id, Listed(queued), OnRequestPaused(id)
  PROVE  /\ Once(queued) => Once(queued')
         /\ \A c \in Range(queued') : c.type = "auth" => c \in Range(queued)
<1> DEFINE p == IF ~user /\ intercepting THEN <<Continue(id)>> ELSE <<>>
<1>1. queued' = queued \o p /\ (p = <<Continue(id)>> \/ p = <<>>)
      BY DEF OnRequestPaused, Push
<1>2. Listed(p) /\ Range(p) \subseteq {Continue(id)}
      BY <1>1, EmptyFacts, OneFacts
<1>3. NoAnswers(p)
      BY <1>2 DEF NoAnswers, Continue
<1> HIDE DEF p
<1> QED
    BY <1>1, <1>2, <1>3, QuietFacts

\* AnsweredOnce in the next state, from what is on its way.
LEMMA AnsweredNext ==
  ASSUME NoAnswers(inbox'.commands), Once(queued'), Once(out'), Apart(queued', out'),
         \A c \in Range(queued') \cup Range(out') : AwaitedNext(c)
  PROVE  AnsweredOnce'
BY DEF AnsweredOnce, Awaited, AwaitedNext, NoAnswers, Once, Apart, SameChallenge

LEMMA AnsweredInit == Init => AnsweredOnce
<1> SUFFICES ASSUME Init PROVE AnsweredOnce
    OBVIOUS
<1>1. inbox.commands = <<>> /\ out = <<>>
      BY DEF Init, NoMessages
<1>2. Listed(<<CacheDisabled>>) /\ Listed(Interception) /\ NoAnswers(Interception)
      /\ Range(<<CacheDisabled>>) = {CacheDisabled}
      BY OneFacts, InterceptionFacts
<1>3. queued = <<CacheDisabled>> \o (IF user THEN Interception ELSE <<>>)
      BY DEF Init, NetworkInit
<1>4. NoAnswers(<<>>) /\ Listed(<<>>) /\ Range(<<>>) = {}
      BY EmptyFacts DEF NoAnswers
<1>5. NoAnswers(<<CacheDisabled>>)
      BY <1>2 DEF NoAnswers, CacheDisabled
<1>6. Range(queued) \subseteq {CacheDisabled} \cup Range(Interception)
      BY <1>2, <1>3, <1>4, ConcatFacts
<1>7. NoAnswers(queued)
      BY <1>2, <1>5, <1>6 DEF NoAnswers
<1> QED
    BY <1>1, <1>4, <1>7, NoAnswersFacts DEF AnsweredOnce, Awaited, NoAnswers

LEMMA PollAnswers ==
  ASSUME Shapes, AnsweredOnce, Poll
  PROVE  AnsweredOnce'
<1> DEFINE sent == out \o inbox.commands
           drained == Drained(inbox.credentials)
<1>1. /\ out' = sent \o drained /\ Listed(sent) /\ Listed(drained)
      /\ Listed(inbox.commands) /\ Listed(out) /\ Listed(queued)
      /\ queued' = <<>> /\ inbox'.commands = <<>> /\ UNCHANGED <<req, attempted>>
      BY PollFacts
<1>2. NoAnswers(<<>>) /\ Listed(<<>>) /\ Range(<<>>) = {}
      BY EmptyFacts DEF NoAnswers
<1>3. Once(sent) /\ \A c \in Range(sent) : c.type = "auth" => c \in Range(out)
      BY <1>1, QuietFacts DEF AnsweredOnce
<1>4. Once(drained) /\ \A c \in Range(drained) : c.type = "auth" => c \in Range(queued)
  <2> DEFINE p == IF inbox.credentials /\ ~intercepting THEN Interception ELSE <<>>
  <2>1. Listed(p) /\ NoAnswers(p) /\ drained = queued \o p
        BY <1>2, InterceptionFacts DEF Drained
  <2> HIDE DEF p
  <2> QED
      BY <1>1, <2>1, QuietFacts DEF AnsweredOnce
<1> HIDE DEF sent, drained
<1>5. Apart(sent, drained)
      BY <1>3, <1>4 DEF Apart, SameChallenge, AnsweredOnce
<1>6. Once(out') /\ Range(out') = Range(sent) \cup Range(drained)
      BY <1>1, <1>3, <1>4, <1>5, OnceConcat, ConcatFacts
<1>7. ASSUME NEW c \in Range(queued') \cup Range(out') PROVE AwaitedNext(c)
  <2>1. c.type = "auth" => Awaited(c)
        BY <1>1, <1>2, <1>3, <1>4, <1>6, <1>7 DEF AnsweredOnce
  <2> QED
      BY <1>1, <2>1 DEF Awaited, AwaitedNext
<1>8. Once(queued') /\ Apart(queued', out')
      BY <1>1, <1>2 DEF Once, Apart, Range
<1> QED
    BY <1>1, <1>2, <1>6, <1>7, <1>8, AnsweredNext

\* A challenge is answered for the first time.
LEMMA ChallengeAnswers ==
  ASSUME Shapes, AnsweredOnce, Offers, NEW r \in Requests, Challenges(r)
  PROVE  AnsweredOnce'
<1> DEFINE id == <<r, req[r].hop>>
           e == Reply(id)
<1>0. /\ req \in [Requests -> Requested] /\ req[r].hop \in Nat /\ Listed(queued)
      /\ req[r].offered \in Nat
      BY DEF Shapes, Requested
<1>1. /\ OnAuthRequired(id) /\ req[r].stage = "sending" /\ UNCHANGED <<inbox, out>>
      /\ req'[r].stage = "challenged" /\ req'[r].hop = req[r].hop
      /\ req'[r].offered = req[r].offered
      BY <1>0 DEF Challenges, Answerable, Unread, targetVars, Requested
<1>2. queued' = queued \o <<e>> /\ Range(queued') = Range(queued) \cup {e}
      BY <1>0, <1>1, AuthPush
<1>3. /\ e.type = "auth" /\ e.id = id
      /\ e.answer = "provide" => id \notin attempted /\ id \in attempted'
      BY <1>1 DEF Reply, Answer, OnAuthRequired
<1>4. ASSUME NEW c \in Range(queued) \cup Range(out), c.type = "auth" PROVE c.id # id
  <2>1. PICK x \in Requests, hop \in Nat :
          c.id = <<x, hop>> /\ (hop = req[x].hop => req[x].stage \in {"challenged", "over"})
        BY <1>4 DEF AnsweredOnce, Awaited
  <2> QED
      BY <1>1, <2>1
<1>5. AwaitedNext(e)
  <2>1. e.answer = "provide" => req[r].offered = 0
        BY <1>0, <1>1, <1>3 DEF Offers, OfferedOnce, IsOpen
  <2> QED
      BY <1>0, <1>1, <1>3, <2>1 DEF AwaitedNext
<1> HIDE DEF e
<1>6. Browser(r)
      BY DEF Browser
<1>7. ASSUME NEW c \in Range(queued') \cup Range(out') PROVE AwaitedNext(c)
  <2>1. CASE c = e
        BY <1>5, <2>1
  <2>2. CASE c \in Range(queued) \cup Range(out)
        BY <1>6, <2>2, AwaitedBrowser DEF AnsweredOnce
  <2> QED
      BY <1>1, <1>2, <1>7, <2>1, <2>2
<1>8. Once(queued')
  <2>1. Listed(<<e>>) /\ Range(<<e>>) = {e} /\ Once(<<e>>)
        BY OneFacts DEF Once
  <2>2. Apart(queued, <<e>>)
        BY <1>3, <1>4, <2>1 DEF Apart, SameChallenge
  <2> QED
      BY <1>0, <1>2, <2>1, <2>2, OnceConcat DEF AnsweredOnce
<1>9. Apart(queued', out')
      BY <1>1, <1>2, <1>3, <1>4 DEF Apart, SameChallenge, AnsweredOnce
<1> QED
    BY <1>1, <1>7, <1>8, <1>9, AnsweredNext DEF AnsweredOnce

\* The browser reads a command: an answer to a hop is the only one there is.
LEMMA ReadAnswers ==
  ASSUME Shapes, AnsweredOnce, BrowserReads
  PROVE  AnsweredOnce'
<1> DEFINE c == Head(out)
<1>0. /\ req \in [Requests -> Requested] /\ Listed(queued) /\ Listed(out)
      /\ out # <<>> /\ out' = Tail(out) /\ Obey(c) /\ UNCHANGED <<inbox, queued, attempted>>
      BY DEF Shapes, BrowserReads, networkVars
<1>1. /\ Range(out') \subseteq Range(out) /\ c \in Range(out) /\ Once(out')
      /\ \A d \in Range(out') : ~SameChallenge(d, c)
      BY <1>0, TailFacts, OnceTail DEF AnsweredOnce
<1>2. \A d \in Range(queued') \cup Range(out') : Awaited(d) /\ ~SameChallenge(d, c)
      BY <1>0, <1>1 DEF AnsweredOnce, Apart
<1>3. Once(queued') /\ Apart(queued', out') /\ NoAnswers(inbox'.commands)
      BY <1>0, <1>1 DEF AnsweredOnce, Apart
<1>4. ASSUME \A x \in Requests : /\ req'[x].hop = req[x].hop /\ req'[x].stage = req[x].stage
                                 /\ req'[x].offered = req[x].offered,
             NEW d, Awaited(d)
      PROVE  AwaitedNext(d)
      BY <1>0, <1>4 DEF Awaited, AwaitedNext
<1>5. CASE UNCHANGED req
      BY <1>1, <1>2, <1>3, <1>4, <1>5, AnsweredNext
<1>6. ASSUME NEW r \in Requests, req' = [req EXCEPT ![r] = Continued(req[r])]
      PROVE  AnsweredOnce'
  <2>1. \A x \in Requests : /\ req'[x].hop = req[x].hop /\ req'[x].stage = req[x].stage
                            /\ req'[x].offered = req[x].offered
        BY <1>0, <1>6, ReplyFacts
  <2> QED
      BY <1>1, <1>2, <1>3, <1>4, <2>1, AnsweredNext
<1>7. ASSUME NEW r \in Requests, c.type = "auth", c.id = <<r, req[r].hop>>,
             req' = [req EXCEPT ![r] = Replied(req[r], c.answer)]
      PROVE  AnsweredOnce'
  <2>1. /\ \A x \in Requests : req'[x].hop = req[x].hop
        /\ \A x \in Requests : x # r => req'[x] = req[x]
    <3>1. Replied(req[r], c.answer).hop = req[r].hop
          BY <1>0, ReplyFacts
    <3> QED
        BY <1>0, <1>7, <3>1
  <2>2. ASSUME NEW d \in Range(queued') \cup Range(out') PROVE AwaitedNext(d)
    <3> SUFFICES ASSUME d.type = "auth" PROVE AwaitedNext(d)
        BY DEF AwaitedNext
    <3>1. d.id # <<r, req[r].hop>>
          BY <1>2, <1>7 DEF SameChallenge
    <3>2. PICK x \in Requests, hop \in Nat :
            /\ d.id = <<x, hop>> /\ hop <= req[x].hop
            /\ hop = req[x].hop => req[x].stage \in {"challenged", "over"}
            /\ hop = req[x].hop /\ req[x].stage = "challenged" /\ d.answer = "provide" =>
                 req[x].offered = 0 /\ d.id \in attempted
          BY <1>2 DEF Awaited
    <3>3. CASE x # r
          BY <1>0, <2>1, <3>2, <3>3 DEF AwaitedNext
    <3>4. CASE x = r
      <4>1. hop # req'[x].hop
            BY <2>1, <3>1, <3>2, <3>4
      <4> QED
          BY <2>1, <3>2, <4>1 DEF AwaitedNext
    <3> QED
        BY <3>3, <3>4
  <2> QED
      BY <1>1, <1>3, <2>2, AnsweredNext
<1> QED
    BY <1>0, <1>5, <1>6, <1>7, ObeyFacts

LEMMA AnsweredStep == Shapes /\ AnsweredOnce /\ Offers /\ [Next]_vars => AnsweredOnce'
<1> SUFFICES ASSUME Shapes, AnsweredOnce, Offers, [Next]_vars PROVE AnsweredOnce'
    OBVIOUS
<1>0. /\ Listed(queued) /\ Listed(inbox.commands)
      /\ "commands" \in DOMAIN inbox /\ "listens" \in DOMAIN inbox /\ "credentials" \in DOMAIN inbox
      BY DEF Shapes, NoMessages
<1>1. ASSUME NEW r \in Requests, Browser(r), ~Challenges(r) PROVE AnsweredOnce'
  <2>1. UNCHANGED <<inbox, out>>
        BY <1>1, BrowserFacts DEF targetVars
  <2>2. Once(queued') /\ \A c \in Range(queued') : c.type = "auth" => c \in Range(queued)
    <3>1. CASE Pauses(r)
          BY <1>0, <3>1, QuietPaused DEF Pauses, AnsweredOnce
    <3>2. CASE UNCHANGED queued
          BY <3>2 DEF AnsweredOnce, Once
    <3>3. UNCHANGED queued \/ Pauses(r)
          BY <1>1 DEF Browser, Begins, Tells, Passes, Responds, Redirects, Ends,
                      networkVars, OnRequestWillBeSent, OnResponseReceived, OnLoadingOver
    <3> QED
        BY <3>1, <3>2, <3>3
  <2>3. ASSUME NEW c \in Range(queued') \cup Range(out') PROVE AwaitedNext(c)
    <3>1. c.type = "auth" => Awaited(c)
          BY <2>1, <2>2, <2>3 DEF AnsweredOnce
    <3> QED
        BY <1>1, <3>1, AwaitedBrowser DEF AwaitedNext
  <2>4. Apart(queued', out')
        BY <2>1, <2>2 DEF AnsweredOnce, Apart, SameChallenge
  <2> QED
      BY <2>1, <2>2, <2>3, <2>4, AnsweredNext DEF AnsweredOnce, Once
<1>2. ASSUME NoAnswers(inbox'.commands), UNCHANGED <<networkVars, browserVars, out>>
      PROVE  AnsweredOnce'
  <2>1. UNCHANGED <<req, attempted, queued, out>>
        BY <1>2 DEF networkVars, browserVars
  <2>2. \A c \in Range(queued') \cup Range(out') : AwaitedNext(c)
        BY <2>1 DEF AnsweredOnce, Awaited, AwaitedNext
  <2> QED
      BY <1>2, <2>1, <2>2, AnsweredNext DEF AnsweredOnce
<1>3. ASSUME NEW kind \in {"listens", "credentials"}, NEW messages, Send(kind, messages),
             UNCHANGED <<networkVars, browserVars>>
      PROVE  AnsweredOnce'
  <2>1. inbox'.commands = inbox.commands /\ UNCHANGED out
        BY <1>0, <1>3 DEF Send
  <2> QED
      BY <1>2, <1>3, <2>1 DEF AnsweredOnce
<1>4. ASSUME UNCHANGED <<networkVars, browserVars, targetVars>> PROVE AnsweredOnce'
  <2>1. UNCHANGED <<inbox, out>>
        BY <1>4 DEF targetVars
  <2> QED
      BY <1>2, <1>4, <2>1 DEF AnsweredOnce
<1>5. ASSUME Authenticates PROVE AnsweredOnce'
      BY <1>3, <1>5 DEF Authenticates
<1>6. ASSUME NEW s \in Streams, Listens(s) PROVE AnsweredOnce'
      BY <1>3, <1>6 DEF Listens
<1>7. ASSUME NEW s \in Streams, Reads(s) PROVE AnsweredOnce'
  <2> DEFINE e == Continue(Head(stream[s]))
  <2>1. UNCHANGED <<networkVars, browserVars>>
        BY <1>7 DEF Reads
  <2>2. CASE Send("commands", Append(inbox.commands, e))
    <3>1. inbox'.commands = Append(inbox.commands, e) /\ UNCHANGED out
          BY <1>0, <2>2 DEF Send
    <3>2. Range(Append(inbox.commands, e)) = Range(inbox.commands) \cup {e}
          BY <1>0, AppendFacts
    <3>3. e.type # "auth"
          BY DEF Continue
    <3> QED
        BY <1>2, <2>1, <3>1, <3>2, <3>3 DEF AnsweredOnce, NoAnswers
  <2> QED
      BY <1>4, <1>7, <2>1, <2>2 DEF Reads
<1>8. ASSUME NEW s \in Streams, Drops(s) PROVE AnsweredOnce'
      BY <1>4, <1>8 DEF Drops
<1>9. ASSUME UNCHANGED vars PROVE AnsweredOnce'
      BY <1>4, <1>9 DEF vars
<1> QED
    BY <1>1, <1>5, <1>6, <1>7, <1>8, <1>9, PollAnswers, ChallengeAnswers, ReadAnswers DEF Next

-----------------------------------------------------------------------------
(* Credentials are offered once.                                           *)

LEMMA OffersInit == Init => Offers
BY DEF Init, Offers, OfferedOnce, IsOpen

LEMMA OfferedSame ==
  ASSUME NEW x, req'[x] = req[x], \A hop : <<x, hop>> \in attempted => <<x, hop>> \in attempted',
         OfferedOnce(x)
  PROVE  OfferedOnce(x)'
BY DEF OfferedOnce, IsOpen

LEMMA BrowserOffers ==
  ASSUME Shapes, NEW r \in Requests, Browser(r), OfferedOnce(r)
  PROVE  OfferedOnce(r)'
<1>0. req \in [Requests -> Requested] /\ req[r].offered \in Nat
      BY DEF Shapes, Requested
\* Nothing was offered in this hop.
<1>1. ASSUME req'[r].offered = 0, req'[r].stage # "challenged" PROVE OfferedOnce(r)'
      BY <1>1 DEF OfferedOnce, IsOpen
<1>2. ASSUME IsOpen(r), req[r].told = "no" \/ req[r].pause # "continued" PROVE req[r].offered = 0
      BY <1>0, <1>2 DEF OfferedOnce
<1>3. ASSUME NEW data \in BOOLEAN, Begins(r, data) PROVE OfferedOnce(r)'
  <2>1. req'[r].offered = req[r].offered /\ req'[r].stage = "sending" /\ req[r].stage = "idle"
        BY <1>0, <1>3 DEF Begins, Requested
  <2> QED
      BY <1>1, <2>1 DEF OfferedOnce
<1>4. ASSUME Tells(r) \/ Pauses(r) \/ Passes(r) PROVE OfferedOnce(r)'
  <2>1. req[r].stage = "sending" /\ (req[r].told = "no" \/ req[r].pause # "continued")
        BY <1>4 DEF Tells, Pauses, Passes
  <2>2. req'[r].offered = req[r].offered /\ req'[r].stage = req[r].stage
        BY <1>0, <1>4 DEF Tells, Pauses, Passes, Requested
  <2> QED
      BY <1>1, <1>2, <2>1, <2>2 DEF IsOpen
<1>5. ASSUME Challenges(r) PROVE OfferedOnce(r)'
  <2>1. /\ req'[r].stage = "challenged" /\ req'[r].hop = req[r].hop /\ req[r].stage = "sending"
        /\ req'[r].told = req[r].told /\ req'[r].pause = req[r].pause
        /\ req'[r].offered = req[r].offered
        /\ req[r].told # "no" /\ req[r].pause = "continued"
        BY <1>0, <1>5 DEF Challenges, Answerable, Requested
  <2>2. attempted \subseteq attempted'
        BY <1>5 DEF Challenges, OnAuthRequired
  <2> QED
      BY <2>1, <2>2 DEF OfferedOnce, IsOpen
<1>6. ASSUME Responds(r) \/ Ends(r) PROVE OfferedOnce(r)'
  <2>1. req'[r].stage \in {"answered", "over"} /\ req'[r].offered = req[r].offered
        BY <1>0, <1>6 DEF Responds, Ends, Requested
  <2> QED
      BY <2>1 DEF OfferedOnce, IsOpen
<1>7. ASSUME Redirects(r) PROVE OfferedOnce(r)'
  <2>1. req'[r].stage = "sending" /\ req'[r].offered = 0
        BY <1>0, <1>7 DEF Redirects, Answerable, Requested
  <2> QED
      BY <1>1, <2>1
<1> QED
    BY <1>3, <1>4, <1>5, <1>6, <1>7 DEF Browser

LEMMA OffersStep == Shapes /\ AnsweredOnce /\ Offers /\ [Next]_vars => Offers'
<1> SUFFICES ASSUME Shapes, AnsweredOnce, Offers, [Next]_vars, NEW x \in Requests
             PROVE  OfferedOnce(x)'
    BY DEF Offers
<1>0. OfferedOnce(x) /\ Mapped /\ req \in [Requests -> Requested]
      BY DEF Offers, Shapes, Mapped
<1>1. ASSUME NEW r \in Requests, Browser(r) PROVE OfferedOnce(x)'
  <2>1. CASE x = r
        BY <1>0, <1>1, <2>1, BrowserOffers
  <2>2. CASE x # r
    <3>1. req'[x] = req[x] /\ Remembers(x) /\ req[x].hop \in Nat
          BY <1>0, <1>1, <2>2, BrowserFacts, ManagerFacts DEF Leaves, Requested
    <3> QED
        BY <1>0, <3>1 DEF OfferedOnce, IsOpen, Remembers
  <2> QED
      BY <2>1, <2>2
<1>2. ASSUME UNCHANGED <<req, attempted>> PROVE OfferedOnce(x)'
      BY <1>0, <1>2, OfferedSame
<1>3. ASSUME BrowserReads PROVE OfferedOnce(x)'
  <2> DEFINE c == Head(out)
  <2>1. Obey(c) /\ UNCHANGED attempted /\ c \in Range(out)
        BY <1>3, TailFacts DEF BrowserReads, networkVars, Shapes
  <2>2. ASSUME NEW r \in Requests, req[r].pause = "paused",
               req' = [req EXCEPT ![r] = Continued(req[r])]
        PROVE  OfferedOnce(x)'
    <3>1. /\ x # r => req'[x] = req[x]
          /\ x = r => /\ req'[x].stage = req[x].stage /\ req'[x].offered = req[x].offered
                      /\ req'[x].told = req[x].told /\ req'[x].hop = req[x].hop
          BY <1>0, <2>2, ReplyFacts
    <3>2. CASE x # r
          BY <1>0, <2>1, <3>1, <3>2, OfferedSame
    <3>3. CASE x = r
          BY <1>0, <2>1, <2>2, <3>1, <3>3 DEF OfferedOnce, IsOpen
    <3> QED
        BY <3>2, <3>3
  <2>3. ASSUME NEW r \in Requests, c.type = "auth", c.id = <<r, req[r].hop>>,
               req[r].stage = "challenged",
               req' = [req EXCEPT ![r] = Replied(req[r], c.answer)]
        PROVE  OfferedOnce(x)'
    <3>1. CASE x # r
          BY <1>0, <2>1, <2>3, <3>1, OfferedSame
    <3>2. CASE x = r
      <4>1. /\ req'[x].stage = "sending" /\ req'[x].told = req[x].told
            /\ req'[x].hop = req[x].hop /\ req'[x].pause = req[x].pause
            /\ req'[x].offered = IF c.answer = "provide" THEN req[x].offered + 1
                                 ELSE req[x].offered
            BY <1>0, <2>3, <3>2, ReplyFacts
      <4>2. req[x].told # "no" /\ req[x].pause = "continued"
            BY <1>0, <2>3, <3>2 DEF OfferedOnce, IsOpen
      <4>3. c.answer = "provide" => req[x].offered = 0 /\ <<x, req[x].hop>> \in attempted
            BY <2>1, <2>3, <3>2 DEF AnsweredOnce, Awaited
      <4> QED
          BY <1>0, <2>1, <2>3, <3>2, <4>1, <4>2, <4>3 DEF OfferedOnce, IsOpen
    <3> QED
        BY <3>1, <3>2
  <2> QED
      BY <1>2, <2>1, <2>2, <2>3, ObeyFacts
<1>4. ASSUME UNCHANGED <<networkVars, browserVars>> PROVE OfferedOnce(x)'
      BY <1>2, <1>4 DEF networkVars, browserVars
<1>5. ASSUME Poll PROVE OfferedOnce(x)'
      BY <1>2, <1>5, PollFacts
<1>6. ASSUME Authenticates \/ \E s \in Streams : Listens(s) \/ Reads(s) \/ Drops(s)
      PROVE  OfferedOnce(x)'
      BY <1>4, <1>6 DEF Authenticates, Listens, Reads, Drops
<1>7. ASSUME UNCHANGED vars PROVE OfferedOnce(x)'
      BY <1>4, <1>7 DEF vars
<1> QED
    BY <1>1, <1>3, <1>5, <1>6, <1>7 DEF Next

-----------------------------------------------------------------------------
(* Induction.                                                              *)

Less == {p \in Nat \X Nat : p[1] < p[2]}

\* A set of numbers that has 0 and every successor has them all.
LEMMA SetInduction ==
  ASSUME NEW T \in SUBSET Nat, 0 \in T, \A n \in T : n + 1 \in T
  PROVE  T = Nat
<1> SUFFICES ASSUME Nat \ T # {} PROVE FALSE
    OBVIOUS
<1>1. IsWellFoundedOn(Less, Nat)
      BY NatLessThanWellFounded DEF OpToRel, Less
<1>2. PICK n \in Nat \ T : \A m \in Nat \ T : <<m, n>> \notin Less
      BY <1>1, WFMin
<1>3. n - 1 \in Nat /\ n - 1 < n
      BY <1>2
<1>4. <<n - 1, n>> \in Less
      BY <1>3 DEF Less
<1>5. n - 1 \in T /\ n - 1 + 1 = n
      BY <1>2, <1>3, <1>4
<1> QED
    BY <1>2, <1>5

-----------------------------------------------------------------------------
(* A poll of the listeners.                                                *)

Subscription == [stream : Streams, queue : Seq(Ids)]

\* What the loop of PollListeners has before it takes the first subscription out.
Unpolled(all) == [subs |-> all, stream |-> stream]

\* What is computed for the last k of the subscriptions.
Polls(all, k, f) ==
  f = [m \in 0 .. k |-> IF m = 0 THEN Unpolled(all)
                        ELSE PollListener(Len(all) + 1 - m, f[m - 1])]

LEMMA PollsAll ==
  ASSUME NEW all
  PROVE  \A k \in Nat : \E f : Polls(all, k, f)
<1> DEFINE T == {k \in Nat : \E f : Polls(all, k, f)}
<1>1. 0 \in T
  <2>1. [m \in 0 .. 0 |-> Unpolled(all)]
          = [m \in 0 .. 0 |-> IF m = 0 THEN Unpolled(all)
               ELSE PollListener(Len(all) + 1 - m, [i \in 0 .. 0 |-> Unpolled(all)][m - 1])]
        OBVIOUS
  <2> QED
      BY <2>1 DEF Polls
<1>2. ASSUME NEW k \in T PROVE k + 1 \in T
  <2>1. PICK f : Polls(all, k, f)
        OBVIOUS
  <2> DEFINE g == [m \in 0 .. k + 1 |-> IF m = 0 THEN Unpolled(all)
                                        ELSE PollListener(Len(all) + 1 - m, f[m - 1])]
  <2>2. ASSUME NEW m \in 0 .. k PROVE g[m] = f[m]
        BY <2>1, <2>2 DEF Polls
  <2>3. \A m \in 0 .. k + 1 : m # 0 => m - 1 \in 0 .. k
        OBVIOUS
  <2>4. \A m \in 0 .. k + 1 : g[m] = IF m = 0 THEN Unpolled(all)
                                     ELSE PollListener(Len(all) + 1 - m, g[m - 1])
        BY <2>2, <2>3
  <2>5. g = [m \in 0 .. k + 1 |-> g[m]]
        OBVIOUS
  <2> HIDE DEF g
  <2>6. Polls(all, k + 1, g)
        BY <2>4, <2>5 DEF Polls
  <2> QED
      BY <2>6
<1>3. T = Nat
  <2> HIDE DEF T
  <2> QED
      BY <1>1, <1>2, SetInduction DEF T
<1> QED
    BY <1>3

\* The poll goes from one subscription to the next.
LEMMA PollSteps ==
  ASSUME NEW all, Len(all) \in Nat, PollListeners(all)
  PROVE  \E f : /\ f[0] = Unpolled(all)
                /\ \A k \in 0 .. Len(all) - 1 : f[k + 1] = PollListener(Len(all) - k, f[k])
                /\ subs' = f[Len(all)].subs /\ stream' = f[Len(all)].stream
<1> DEFINE f == CHOOSE f : Polls(all, Len(all), f)
<1>1. subs' = f[Len(all)].subs /\ stream' = f[Len(all)].stream
      BY DEF PollListeners, Polls, Unpolled
<1>2. Polls(all, Len(all), f)
      BY PollsAll
<1> HIDE DEF f
<1>3. f[0] = Unpolled(all)
      BY <1>2 DEF Polls
<1>4. ASSUME NEW k \in 0 .. Len(all) - 1 PROVE f[k + 1] = PollListener(Len(all) - k, f[k])
  <2>1. k + 1 \in 0 .. Len(all) /\ k + 1 # 0 /\ Len(all) + 1 - (k + 1) = Len(all) - k
        /\ k + 1 - 1 = k
        OBVIOUS
  <2>2. f[k + 1] = PollListener(Len(all) + 1 - (k + 1), f[k + 1 - 1])
        BY <1>2, <2>1 DEF Polls
  <2> QED
      BY <2>1, <2>2
<1> QED
    BY <1>1, <1>3, <1>4

\* No two subscriptions are of one stream.
Distinct(q) == \A m, n \in DOMAIN q : q[m].stream = q[n].stream => m = n

LEMMA SwapRemoveFacts ==
  ASSUME NEW S, NEW q \in Seq(S), NEW n \in 1 .. Len(q)
  PROVE  /\ SwapRemove(q, n) \in Seq(S) /\ Len(SwapRemove(q, n)) = Len(q) - 1
         /\ Len(q) - 1 \in Nat
         /\ \A i \in 1 .. Len(q) - 1 :
              SwapRemove(q, n)[i] = IF i = n THEN q[Len(q)] ELSE q[i]
<1> DEFINE p == [q EXCEPT ![n] = Last(q)]
<1>1. Last(q) = q[Len(q)] /\ Len(q) \in Nat \ {0} /\ q[Len(q)] \in S
      BY DEF Last
<1>2. p \in Seq(S) /\ Len(p) = Len(q)
      BY <1>1
<1>3. \A i \in 1 .. Len(q) : p[i] = IF i = n THEN q[Len(q)] ELSE q[i]
      BY <1>1
<1>4. SwapRemove(q, n) = SubSeq(p, 1, Len(q) - 1)
      BY DEF SwapRemove
<1> HIDE DEF p
<1>5. /\ SubSeq(p, 1, Len(q) - 1) \in Seq(S) /\ Len(SubSeq(p, 1, Len(q) - 1)) = Len(q) - 1
      /\ \A i \in 1 .. Len(q) - 1 : SubSeq(p, 1, Len(q) - 1)[i] = p[i]
      BY <1>1, <1>2
<1> QED
    BY <1>1, <1>3, <1>4, <1>5

\* What is left of distinct subscriptions when one of them was taken out.
LEMMA TakenOut ==
  ASSUME NEW q \in Seq(Subscription), Distinct(q), NEW n \in 1 .. Len(q),
         NEW p, p = SwapRemove(q, n)
  PROVE  /\ p \in Seq(Subscription) /\ Len(p) = Len(q) - 1 /\ Distinct(p)
         /\ \A i \in 1 .. n - 1 : p[i] = q[i]
         /\ \A i \in DOMAIN p : p[i].stream # q[n].stream /\ \E j \in DOMAIN q : p[i] = q[j]
         /\ \A j \in DOMAIN q \ {n} : \E i \in DOMAIN p : p[i] = q[j]
<1>1. /\ p \in Seq(Subscription) /\ Len(p) = Len(q) - 1 /\ Len(q) - 1 \in Nat
      /\ \A i \in 1 .. Len(q) - 1 : p[i] = IF i = n THEN q[Len(q)] ELSE q[i]
      BY SwapRemoveFacts
<1>2. /\ DOMAIN p = 1 .. Len(q) - 1 /\ DOMAIN q = 1 .. Len(q) /\ Len(q) \in Nat
      BY <1>1
<1>3. \A i \in 1 .. n - 1 : p[i] = q[i]
      BY <1>1
<1> DEFINE From(i) == IF i = n THEN Len(q) ELSE i
<1>4. ASSUME NEW i \in DOMAIN p
      PROVE  From(i) \in DOMAIN q /\ From(i) # n /\ p[i] = q[From(i)]
      BY <1>1, <1>2
<1>5. \A i, j \in DOMAIN p : From(i) = From(j) => i = j
      BY <1>2
<1>6. ASSUME NEW j \in DOMAIN q \ {n} PROVE \E i \in DOMAIN p : From(i) = j
  <2>1. CASE j = Len(q)
    <3>1. n # Len(q)
          BY <1>6, <2>1
    <3>2. n \in 1 .. Len(q) - 1
          BY <1>1, <3>1
    <3> QED
        BY <1>2, <2>1, <3>2
  <2>2. CASE j # Len(q)
        BY <1>2, <2>2
  <2> QED
      BY <2>1, <2>2
<1> HIDE DEF From
<1>7. Distinct(p)
      BY <1>4, <1>5 DEF Distinct
<1>8. \A i \in DOMAIN p : p[i].stream # q[n].stream /\ \E j \in DOMAIN q : p[i] = q[j]
      BY <1>2, <1>4 DEF Distinct
<1>9. \A j \in DOMAIN q \ {n} : \E i \in DOMAIN p : p[i] = q[j]
      BY <1>4, <1>6
<1> QED
    BY <1>1, <1>3, <1>7, <1>8, <1>9

Emptied(s) == [stream |-> s, queue |-> <<>>]
Polled == [subs : Seq(Subscription), stream : [Streams -> Seq(Ids)]]

\* After the last k of the subscriptions: those before them are still in their places,
\* each of them has had its queue sent and is there with an empty one, or its stream is
\* gone, and no other stream was sent anything.
PolledWell(all, k, p) ==
  LET last == Len(all) - k + 1 .. Len(all)
  IN /\ p \in Polled /\ Distinct(p.subs)
     /\ Len(all) - k <= Len(p.subs) /\ \A i \in 1 .. Len(all) - k : p.subs[i] = all[i]
     /\ \A i \in DOMAIN p.subs : \E j \in DOMAIN all : p.subs[i].stream = all[j].stream
     /\ \A j \in last : all[j].stream \notin dropped =>
          /\ \E i \in DOMAIN p.subs : p.subs[i] = Emptied(all[j].stream)
          /\ p.stream[all[j].stream] = stream[all[j].stream] \o all[j].queue
     /\ \A s \in Streams : (\A j \in last : all[j].stream # s) => p.stream[s] = stream[s]

LEMMA PolledNone ==
  ASSUME NEW all \in Seq(Subscription), Distinct(all), stream \in [Streams -> Seq(Ids)]
  PROVE  PolledWell(all, 0, Unpolled(all))
<1>1. Len(all) \in Nat /\ DOMAIN all = 1 .. Len(all) /\ Len(all) - 0 = Len(all)
      OBVIOUS
<1>2. Unpolled(all) \in Polled /\ Unpolled(all).subs = all /\ Unpolled(all).stream = stream
      BY DEF Unpolled, Polled
<1>3. \A j : j \notin Len(all) + 1 .. Len(all)
      BY <1>1
<1>4. Len(all) <= Len(all)
      BY <1>1
<1> QED
    BY <1>1, <1>2, <1>3, <1>4 DEF PolledWell

\* What the poll of the subscription at n makes of p.
PolledOne(n, p, next) ==
  LET q == p.subs
      s == q[n].stream
  IN /\ next \in Polled /\ Len(q) - 1 <= Len(next.subs) /\ Distinct(next.subs)
     /\ \A i \in 1 .. n - 1 : next.subs[i] = q[i]
     /\ \A i \in DOMAIN next.subs : \E j \in DOMAIN q : next.subs[i].stream = q[j].stream
     /\ \A j \in DOMAIN q \ {n} : \E i \in DOMAIN next.subs : next.subs[i] = q[j]
     /\ s \notin dropped => /\ \E i \in DOMAIN next.subs : next.subs[i] = Emptied(s)
                            /\ next.stream[s] = p.stream[s] \o q[n].queue
     /\ \A t \in Streams \ {s} : next.stream[t] = p.stream[t]

LEMMA ListenerFacts ==
  ASSUME NEW p \in Polled, Distinct(p.subs), NEW n \in 1 .. Len(p.subs)
  PROVE  PolledOne(n, p, PollListener(n, p))
<1>0. PICK q, s, next : q = p.subs /\ s = q[n].stream /\ next = PollListener(n, p)
      OBVIOUS
<1> SUFFICES PolledOne(n, p, next)
    BY <1>0
<1>1. /\ q \in Seq(Subscription) /\ Distinct(q) /\ n \in 1 .. Len(q)
      /\ p.stream \in [Streams -> Seq(Ids)] /\ p = [subs |-> q, stream |-> p.stream]
      BY <1>0 DEF Polled
<1>2. /\ DOMAIN q = 1 .. Len(q) /\ n \in DOMAIN q /\ Len(q) \in Nat /\ q[n] \in Subscription
      BY <1>0, <1>1
<1>3. s \in Streams /\ q[n].queue \in Seq(Ids) /\ p.stream[s] \o q[n].queue \in Seq(Ids)
      BY <1>0, <1>1, <1>2 DEF Subscription
<1>4. PICK rest : rest = SwapRemove(q, n)
      OBVIOUS
<1>5. /\ rest \in Seq(Subscription) /\ Len(rest) = Len(q) - 1 /\ Distinct(rest)
      /\ \A i \in 1 .. n - 1 : rest[i] = q[i]
      /\ \A i \in DOMAIN rest : rest[i].stream # s /\ \E j \in DOMAIN q : rest[i] = q[j]
      /\ \A j \in DOMAIN q \ {n} : \E i \in DOMAIN rest : rest[i] = q[j]
      BY <1>0, <1>1, <1>4, TakenOut
<1>6. /\ DOMAIN rest = 1 .. Len(rest) /\ Len(rest) \in Nat
      /\ \A i \in 1 .. n - 1 : i \in DOMAIN rest
      BY <1>2, <1>5
<1>7. CASE s \in dropped
  <2>1. next = [p EXCEPT !.subs = rest]
        BY <1>0, <1>4, <1>7 DEF PollListener
  <2>2. next = [subs |-> rest, stream |-> p.stream]
        BY <1>1, <2>1
  <2>3. next \in Polled /\ next.subs = rest /\ next.stream = p.stream
        BY <1>1, <1>5, <2>2 DEF Polled
  <2>4. Len(q) - 1 <= Len(rest)
        BY <1>2, <1>5
  <2> QED
      BY <1>0, <1>5, <1>7, <2>3, <2>4 DEF PolledOne
<1>8. CASE s \notin dropped
  <2>1. next = [subs |-> Append(rest, [q[n] EXCEPT !.queue = <<>>]),
                stream |-> [p.stream EXCEPT ![s] = @ \o q[n].queue]]
        BY <1>0, <1>4, <1>8 DEF PollListener
  <2>2. [q[n] EXCEPT !.queue = <<>>] = Emptied(s)
        BY <1>0, <1>2 DEF Subscription, Emptied
  <2>3. Emptied(s) \in Subscription /\ Emptied(s).stream = s
        BY <1>3 DEF Subscription, Emptied
  <2>4. next.subs = Append(rest, Emptied(s))
        /\ next.stream = [p.stream EXCEPT ![s] = @ \o q[n].queue]
        /\ next = [subs |-> next.subs, stream |-> next.stream]
        BY <2>1, <2>2
  <2>5. /\ next.stream \in [Streams -> Seq(Ids)]
        /\ next.stream[s] = p.stream[s] \o q[n].queue
        /\ \A t \in Streams \ {s} : next.stream[t] = p.stream[t]
        BY <1>1, <1>3, <2>4
  <2>6. /\ next.subs \in Seq(Subscription) /\ Len(next.subs) = Len(rest) + 1
        /\ DOMAIN next.subs = 1 .. Len(rest) + 1
        /\ next.subs[Len(rest) + 1] = Emptied(s)
        /\ \A i \in DOMAIN rest : next.subs[i] = rest[i] /\ i \in DOMAIN next.subs
        BY <1>5, <1>6, <2>3, <2>4
  <2>7. next \in Polled
        BY <2>4, <2>5, <2>6 DEF Polled
  <2>8. \A i \in DOMAIN next.subs : i \in DOMAIN rest \/ i = Len(rest) + 1
        BY <1>6, <2>6
  <2>9. Distinct(next.subs)
    <3> SUFFICES ASSUME NEW i \in DOMAIN next.subs, NEW j \in DOMAIN next.subs,
                        next.subs[i].stream = next.subs[j].stream
                 PROVE  i = j
        BY DEF Distinct
    <3> QED
        BY <1>5, <2>3, <2>6, <2>8 DEF Distinct
  <2>10. ASSUME NEW i \in DOMAIN next.subs
         PROVE  \E j \in DOMAIN q : next.subs[i].stream = q[j].stream
    <3>1. CASE i \in DOMAIN rest
          BY <1>5, <2>6, <3>1
    <3>2. CASE i = Len(rest) + 1
          BY <1>0, <1>2, <2>3, <2>6, <3>2
    <3> QED
        BY <2>8, <3>1, <3>2
  <2>11. \A j \in DOMAIN q \ {n} : \E i \in DOMAIN next.subs : next.subs[i] = q[j]
        BY <1>5, <2>6
  <2>12. \A i \in 1 .. n - 1 : next.subs[i] = q[i]
        BY <1>5, <1>6, <2>6
  <2>13. Len(q) - 1 <= Len(next.subs) /\ Len(rest) + 1 \in DOMAIN next.subs
        BY <1>2, <1>5, <1>6, <2>6
  <2> QED
      BY <1>0, <2>5, <2>6, <2>7, <2>9, <2>10, <2>11, <2>12, <2>13 DEF PolledOne
<1> QED
    BY <1>7, <1>8

LEMMA PolledNext ==
  ASSUME NEW all \in Seq(Subscription), Distinct(all),
         NEW k \in 0 .. Len(all) - 1, NEW p, PolledWell(all, k, p)
  PROVE  PolledWell(all, k + 1, PollListener(Len(all) - k, p))
<1> DEFINE n == Len(all) - k
           s == all[n].stream
           next == PollListener(n, p)
           last == Len(all) - k + 1 .. Len(all)
           more == Len(all) - (k + 1) + 1 .. Len(all)
<1>1. /\ Len(all) \in Nat /\ DOMAIN all = 1 .. Len(all) /\ n \in 1 .. Len(all)
      /\ Len(all) - (k + 1) = n - 1 /\ n - 1 \in Nat /\ n \in Nat /\ \A i \in 1 .. n - 1 : i \in 1 .. n
      OBVIOUS
<1>2. more = last \cup {n} /\ n \notin last /\ last \subseteq DOMAIN all
      BY <1>1
<1>3. all[n] \in Subscription /\ s \in Streams /\ \A j \in DOMAIN all : all[j].stream \in Streams
  <2>1. \A j \in DOMAIN all : all[j] \in Subscription
        BY <1>1
  <2> QED
      BY <1>1, <2>1 DEF Subscription
<1>4. /\ p \in Polled /\ Distinct(p.subs) /\ n <= Len(p.subs)
      /\ \A i \in 1 .. n : p.subs[i] = all[i]
      /\ \A i \in DOMAIN p.subs : \E j \in DOMAIN all : p.subs[i].stream = all[j].stream
      /\ \A j \in last : all[j].stream \notin dropped =>
           /\ \E i \in DOMAIN p.subs : p.subs[i] = Emptied(all[j].stream)
           /\ p.stream[all[j].stream] = stream[all[j].stream] \o all[j].queue
      /\ \A t \in Streams : (\A j \in last : all[j].stream # t) => p.stream[t] = stream[t]
      BY DEF PolledWell
<1>5. next = PollListener(n, p)
      OBVIOUS
<1>6. PolledWell(all, k + 1, next) <=>
        /\ next \in Polled /\ Distinct(next.subs)
        /\ n - 1 <= Len(next.subs) /\ \A i \in 1 .. n - 1 : next.subs[i] = all[i]
        /\ \A i \in DOMAIN next.subs : \E j \in DOMAIN all : next.subs[i].stream = all[j].stream
        /\ \A j \in more : all[j].stream \notin dropped =>
             /\ \E i \in DOMAIN next.subs : next.subs[i] = Emptied(all[j].stream)
             /\ next.stream[all[j].stream] = stream[all[j].stream] \o all[j].queue
        /\ \A t \in Streams : (\A j \in more : all[j].stream # t) => next.stream[t] = stream[t]
  <2> HIDE DEF next
  <2> QED
      BY <1>1 DEF PolledWell
<1>7. s = all[n].stream
      OBVIOUS
<1> HIDE DEF n, next, s, last, more
<1>8. /\ p.subs \in Seq(Subscription) /\ Len(p.subs) \in Nat /\ n \in 1 .. Len(p.subs)
      /\ DOMAIN p.subs = 1 .. Len(p.subs) /\ p.subs[n] = all[n]
      BY <1>1, <1>4 DEF Polled
<1>9. /\ next \in Polled /\ Len(p.subs) - 1 <= Len(next.subs) /\ Distinct(next.subs)
      /\ \A i \in 1 .. n - 1 : next.subs[i] = p.subs[i]
      /\ \A i \in DOMAIN next.subs : \E j \in DOMAIN p.subs : next.subs[i].stream = p.subs[j].stream
      /\ \A j \in DOMAIN p.subs \ {n} : \E i \in DOMAIN next.subs : next.subs[i] = p.subs[j]
      /\ s \notin dropped => /\ \E i \in DOMAIN next.subs : next.subs[i] = Emptied(s)
                             /\ next.stream[s] = p.stream[s] \o all[n].queue
      /\ \A t \in Streams \ {s} : next.stream[t] = p.stream[t]
  <2>1. PolledOne(n, p, next)
        BY <1>4, <1>5, <1>8, ListenerFacts
  <2> QED
      BY <1>7, <1>8, <2>1 DEF PolledOne
<1>10. n - 1 <= Len(next.subs)
  <2>1. next.subs \in Seq(Subscription)
        BY <1>9 DEF Polled
  <2>2. Len(next.subs) \in Nat
        BY <2>1
  <2> QED
      BY <1>1, <1>8, <1>9, <2>2
<1>11. \A i \in 1 .. n - 1 : next.subs[i] = all[i]
      BY <1>1, <1>4, <1>9
<1>12. \A i \in DOMAIN next.subs : \E j \in DOMAIN all : next.subs[i].stream = all[j].stream
      BY <1>4, <1>9
<1>13. \A j \in last : all[j].stream # s /\ all[j].stream \in Streams \ {s}
      BY <1>1, <1>2, <1>3, <1>7 DEF Distinct
<1>14. ASSUME NEW j \in last, all[j].stream \notin dropped
       PROVE  /\ \E i \in DOMAIN next.subs : next.subs[i] = Emptied(all[j].stream)
              /\ next.stream[all[j].stream] = stream[all[j].stream] \o all[j].queue
  <2>1. PICK i \in DOMAIN p.subs : p.subs[i] = Emptied(all[j].stream)
        BY <1>4, <1>14
  <2>2. i # n
        BY <1>7, <1>8, <1>13, <2>1 DEF Emptied
  <2>3. \E h \in DOMAIN next.subs : next.subs[h] = Emptied(all[j].stream)
        BY <1>9, <2>1, <2>2
  <2>4. next.stream[all[j].stream] = p.stream[all[j].stream]
        BY <1>9, <1>13
  <2> QED
      BY <1>4, <1>14, <2>3, <2>4
<1>15. s \notin dropped =>
         /\ \E i \in DOMAIN next.subs : next.subs[i] = Emptied(s)
         /\ next.stream[s] = stream[s] \o all[n].queue
      BY <1>3, <1>4, <1>9, <1>13
<1>16. ASSUME NEW t \in Streams, \A j \in more : all[j].stream # t
       PROVE  next.stream[t] = stream[t]
      BY <1>2, <1>4, <1>7, <1>9, <1>16
<1>17. ASSUME NEW j \in more, all[j].stream \notin dropped
       PROVE  /\ \E i \in DOMAIN next.subs : next.subs[i] = Emptied(all[j].stream)
              /\ next.stream[all[j].stream] = stream[all[j].stream] \o all[j].queue
      BY <1>2, <1>7, <1>14, <1>15, <1>17
<1>18. PolledWell(all, k + 1, next)
      BY <1>6, <1>9, <1>10, <1>11, <1>12, <1>16, <1>17
<1> QED
    BY <1>18 DEF next, n

\* What a poll leaves of the subscriptions in all, and of the streams.
LEMMA PollListenersFacts ==
  ASSUME NEW all \in Seq(Subscription), Distinct(all), stream \in [Streams -> Seq(Ids)],
         PollListeners(all)
  PROVE  /\ subs' \in Seq(Subscription) /\ Distinct(subs') /\ stream' \in [Streams -> Seq(Ids)]
         /\ \A i \in DOMAIN subs' : \E j \in DOMAIN all : subs'[i].stream = all[j].stream
         /\ \A j \in DOMAIN all : all[j].stream \notin dropped =>
              /\ \E i \in DOMAIN subs' : subs'[i] = Emptied(all[j].stream)
              /\ stream'[all[j].stream] = stream[all[j].stream] \o all[j].queue
         /\ \A s \in Streams : (\A j \in DOMAIN all : all[j].stream # s) => stream'[s] = stream[s]
<1>1. Len(all) \in Nat /\ DOMAIN all = 1 .. Len(all)
      OBVIOUS
<1>2. PICK f : /\ f[0] = Unpolled(all)
               /\ \A k \in 0 .. Len(all) - 1 : f[k + 1] = PollListener(Len(all) - k, f[k])
               /\ subs' = f[Len(all)].subs /\ stream' = f[Len(all)].stream
      BY <1>1, PollSteps
<1> DEFINE T == {k \in Nat : k <= Len(all) => PolledWell(all, k, f[k])}
<1>3. 0 \in T
      BY <1>2, PolledNone
<1>4. ASSUME NEW k \in T PROVE k + 1 \in T
  <2>1. k \in Nat /\ (k <= Len(all) => PolledWell(all, k, f[k]))
        OBVIOUS
  <2>2. CASE k + 1 <= Len(all)
    <3>1. k \in 0 .. Len(all) - 1 /\ k <= Len(all)
          BY <1>1, <2>1, <2>2
    <3> QED
        BY <1>2, <2>1, <3>1, PolledNext
  <2> QED
      BY <2>1, <2>2
<1>5. T = Nat
  <2> HIDE DEF T
  <2>1. T \in SUBSET Nat
        BY DEF T
  <2> QED
      BY <1>3, <1>4, <2>1, SetInduction
<1>6. PolledWell(all, Len(all), f[Len(all)])
      BY <1>1, <1>5
<1>7. Len(all) - Len(all) + 1 = 1
      BY <1>1
<1>8. /\ \A i \in DOMAIN subs' : \E j \in DOMAIN all : subs'[i].stream = all[j].stream
      /\ \A j \in 1 .. Len(all) : all[j].stream \notin dropped =>
           /\ \E i \in DOMAIN subs' : subs'[i] = Emptied(all[j].stream)
           /\ stream'[all[j].stream] = stream[all[j].stream] \o all[j].queue
      /\ \A s \in Streams : (\A j \in 1 .. Len(all) : all[j].stream # s) => stream'[s] = stream[s]
      /\ f[Len(all)] \in Polled /\ Distinct(subs')
      BY <1>2, <1>6, <1>7 DEF PolledWell
<1>9. subs' \in Seq(Subscription) /\ stream' \in [Streams -> Seq(Ids)]
      BY <1>2, <1>8 DEF Polled
<1> QED
    BY <1>1, <1>8, <1>9

-----------------------------------------------------------------------------
(* The streams.                                                            *)

Streamed ==
  /\ subs \in Seq(Subscription) /\ Distinct(subs)
  /\ stream \in [Streams -> Seq(Ids)] /\ log \in Seq(Ids)
  /\ DOMAIN since \subseteq Streams /\ dropped \subseteq Streams
  /\ \A s \in DOMAIN since : since[s] \in 0 .. Len(log)
  /\ \A n \in DOMAIN subs : subs[n].stream \in DOMAIN since
  /\ \A s \in Streams \ DOMAIN since : stream[s] = <<>>
  /\ inbox.listens \in Seq(Streams)
  /\ \A m, n \in DOMAIN inbox.listens : inbox.listens[m] = inbox.listens[n] => m = n
  /\ \A n \in DOMAIN inbox.listens : inbox.listens[n] \notin DOMAIN since

\* The elements of all are those of q and then those of p.
Joined(q, p, all) ==
  /\ DOMAIN all \subseteq Nat /\ Len(q) \in Nat
  /\ \A n \in DOMAIN q : n \in DOMAIN all /\ all[n] = q[n]
  /\ \A n \in DOMAIN p : Len(q) + n \in DOMAIN all /\ all[Len(q) + n] = p[n]
  /\ \A n \in DOMAIN all : n \notin DOMAIN q => n - Len(q) \in DOMAIN p /\ all[n] = p[n - Len(q)]

LEMMA JoinFacts ==
  ASSUME NEW S, NEW q \in Seq(S), NEW p \in Seq(S)
  PROVE  q \o p \in Seq(S) /\ Joined(q, p, q \o p)
<1>1. /\ q \o p \in Seq(S) /\ Len(q \o p) = Len(q) + Len(p)
      /\ Len(q) \in Nat /\ Len(p) \in Nat
      OBVIOUS
<1>2. DOMAIN q = 1 .. Len(q) /\ DOMAIN p = 1 .. Len(p) /\ DOMAIN (q \o p) = 1 .. Len(q) + Len(p)
      BY <1>1
<1>3. \A n \in 1 .. Len(q) + Len(p) : (q \o p)[n] = IF n <= Len(q) THEN q[n] ELSE p[n - Len(q)]
      OBVIOUS
<1>4. \A n \in DOMAIN q : n \in DOMAIN (q \o p) /\ (q \o p)[n] = q[n]
      BY <1>1, <1>2, <1>3
<1>5. \A n \in DOMAIN p : Len(q) + n \in DOMAIN (q \o p) /\ (q \o p)[Len(q) + n] = p[n]
      BY <1>1, <1>2
<1>6. \A n \in DOMAIN (q \o p) : n \notin DOMAIN q =>
        n - Len(q) \in DOMAIN p /\ (q \o p)[n] = p[n - Len(q)]
      BY <1>1, <1>2, <1>3
<1> QED
    BY <1>1, <1>2, <1>4, <1>5, <1>6 DEF Joined

\* All are the subscriptions q with those of the streams in added.
Enlarged(q, added, all) ==
  /\ Distinct(all)
  /\ \A n \in DOMAIN all : \/ n \in DOMAIN q /\ all[n] = q[n]
                           \/ \E m \in DOMAIN added : all[n] = Emptied(added[m])
  /\ \A n \in DOMAIN q : n \in DOMAIN all /\ all[n] = q[n]
  /\ \A m \in DOMAIN added : \E n \in DOMAIN all : all[n] = Emptied(added[m])

LEMMA JoinedFacts ==
  ASSUME NEW q, NEW p, NEW added, NEW all, Joined(q, p, all), Distinct(q),
         DOMAIN p = DOMAIN added,
         \A n \in DOMAIN added : p[n] = Emptied(added[n]) /\ p[n].stream = added[n],
         \A m, n \in DOMAIN added : added[m] = added[n] => m = n,
         \A m \in DOMAIN added : \A n \in DOMAIN q : added[m] # q[n].stream
  PROVE  Enlarged(q, added, all)
<1>1. Distinct(all)
  <2> SUFFICES ASSUME NEW m \in DOMAIN all, NEW n \in DOMAIN all, all[m].stream = all[n].stream
               PROVE  m = n
      BY DEF Distinct
  <2>1. CASE m \in DOMAIN q /\ n \in DOMAIN q
        BY <2>1 DEF Distinct, Joined
  <2>2. CASE m \notin DOMAIN q /\ n \notin DOMAIN q
    <3>1. /\ m - Len(q) \in DOMAIN added /\ all[m].stream = added[m - Len(q)]
          /\ n - Len(q) \in DOMAIN added /\ all[n].stream = added[n - Len(q)]
          BY <2>2 DEF Joined
    <3>2. m - Len(q) = n - Len(q) /\ m \in Nat /\ n \in Nat /\ Len(q) \in Nat
          BY <3>1 DEF Joined
    <3> QED
        BY <3>2
  <2>3. ASSUME NEW i \in DOMAIN all, NEW j \in DOMAIN all, i \in DOMAIN q, j \notin DOMAIN q
        PROVE  all[i].stream # all[j].stream
    <3>1. all[i].stream = q[i].stream
          BY <2>3 DEF Joined
    <3>2. j - Len(q) \in DOMAIN added /\ all[j].stream = added[j - Len(q)]
          BY <2>3 DEF Joined
    <3> QED
        BY <2>3, <3>1, <3>2
  <2> QED
      BY <2>1, <2>2, <2>3
<1>2. \A n \in DOMAIN all : \/ n \in DOMAIN q /\ all[n] = q[n]
                           \/ \E m \in DOMAIN added : all[n] = Emptied(added[m])
      BY DEF Joined
<1>3. \A m \in DOMAIN added : \E n \in DOMAIN all : all[n] = Emptied(added[m])
      BY DEF Joined
<1> QED
    BY <1>1, <1>2, <1>3 DEF Joined, Enlarged

Added == [n \in DOMAIN inbox.listens |-> AddListener(inbox.listens[n])]

\* The subscriptions with those that were asked for.
LEMMA AddedFacts ==
  ASSUME Streamed
  PROVE  /\ subs \o Added \in Seq(Subscription)
         /\ Enlarged(subs, inbox.listens, subs \o Added)
<1> DEFINE added == inbox.listens
<1>1. /\ added \in Seq(Streams) /\ subs \in Seq(Subscription) /\ Distinct(subs)
      /\ \A m, n \in DOMAIN added : added[m] = added[n] => m = n
      /\ \A m \in DOMAIN added : \A n \in DOMAIN subs : added[m] # subs[n].stream
      BY DEF Streamed
<1>2. \A s \in Streams : Emptied(s) \in Subscription /\ Emptied(s).stream = s
      BY DEF Emptied, Subscription
<1>3. /\ DOMAIN Added = DOMAIN added
      /\ \A n \in DOMAIN added : Added[n] = Emptied(added[n])
      BY DEF Added, AddListener, Emptied
<1> HIDE DEF added
<1>4. /\ DOMAIN added = 1 .. Len(added) /\ Len(added) \in Nat
      /\ \A n \in DOMAIN added : added[n] \in Streams
      BY <1>1
<1>5. Added \in Seq(Subscription)
  <2>1. Added = [n \in 1 .. Len(added) |-> Emptied(added[n])]
        BY <1>4 DEF added, Added, AddListener, Emptied
  <2>2. Added \in [1 .. Len(added) -> Subscription]
        BY <1>2, <1>4, <2>1
  <2> QED
      BY <1>4, <2>2
<1>6. \A n \in DOMAIN added : Added[n] = Emptied(added[n]) /\ Added[n].stream = added[n]
      BY <1>2, <1>3, <1>4
<1>7. subs \o Added \in Seq(Subscription) /\ Joined(subs, Added, subs \o Added)
      BY <1>1, <1>5, JoinFacts
<1>8. Enlarged(subs, added, subs \o Added)
      BY <1>1, <1>3, <1>6, <1>7, JoinedFacts
<1> QED
    BY <1>7, <1>8 DEF added

\* A poll of the listeners gives each subscription what was queued for it, and adds those
\* that were asked for.
LEMMA PollStreams ==
  ASSUME Streamed, StreamsMissNothing, Poll
  PROVE  Streamed' /\ StreamsMissNothing'
<1> DEFINE all == subs \o Added
           added == inbox.listens
<1>1. /\ PollListeners(all) /\ UNCHANGED <<dropped, log>> /\ inbox' = NoMessages
      /\ since' = [s \in DOMAIN since \cup Range(added) |->
                     IF s \in DOMAIN since THEN since[s] ELSE Len(log)]
      BY DEF Poll, Added
<1>2. all \in Seq(Subscription) /\ Enlarged(subs, added, all) /\ Distinct(all)
      BY AddedFacts DEF Enlarged
<1>3. /\ stream \in [Streams -> Seq(Ids)] /\ log \in Seq(Ids) /\ Len(log) \in Nat
      /\ DOMAIN since \subseteq Streams /\ dropped \subseteq Streams
      /\ \A s \in DOMAIN since : since[s] \in 0 .. Len(log)
      /\ \A n \in DOMAIN subs : subs[n].stream \in DOMAIN since /\ subs[n] \in Subscription
      /\ \A s \in Streams \ DOMAIN since : stream[s] = <<>>
      /\ \A n \in DOMAIN added : added[n] \in Streams /\ added[n] \notin DOMAIN since
      BY DEF Streamed
<1>4. /\ subs' \in Seq(Subscription) /\ Distinct(subs') /\ stream' \in [Streams -> Seq(Ids)]
      /\ \A i \in DOMAIN subs' : \E j \in DOMAIN all : subs'[i].stream = all[j].stream
      /\ \A j \in DOMAIN all : all[j].stream \notin dropped =>
           /\ \E i \in DOMAIN subs' : subs'[i] = Emptied(all[j].stream)
           /\ stream'[all[j].stream] = stream[all[j].stream] \o all[j].queue
      /\ \A s \in Streams : (\A j \in DOMAIN all : all[j].stream # s) => stream'[s] = stream[s]
      BY <1>1, <1>2, <1>3, PollListenersFacts
<1> HIDE DEF all, added
<1>5. /\ DOMAIN since' = DOMAIN since \cup Range(added)
      /\ \A s \in DOMAIN since : since'[s] = since[s]
      /\ \A s \in Range(added) : s \notin DOMAIN since => since'[s] = Len(log)
      BY <1>1
<1>6. Range(added) \subseteq Streams /\ \A n \in DOMAIN added : added[n] \in Range(added)
      BY <1>3 DEF Range
<1>7. /\ \A n \in DOMAIN subs : n \in DOMAIN all /\ all[n] = subs[n]
      /\ \A m \in DOMAIN added : \E n \in DOMAIN all : all[n] = Emptied(added[m])
      /\ \A n \in DOMAIN all : \/ n \in DOMAIN subs /\ all[n] = subs[n]
                               \/ \E m \in DOMAIN added : all[n] = Emptied(added[m])
      BY <1>2 DEF Enlarged
<1>8. \A n \in DOMAIN all : all[n].stream \in DOMAIN since'
      BY <1>3, <1>5, <1>6, <1>7 DEF Emptied
<1>9. Streamed'
  <2>1. inbox'.listens = <<>> /\ <<>> \in Seq(Streams) /\ DOMAIN <<>> = {}
        BY <1>1 DEF NoMessages
  <2>2. \A s \in DOMAIN since' : since'[s] \in 0 .. Len(log')
        BY <1>1, <1>3, <1>5
  <2>3. \A n \in DOMAIN subs' : subs'[n].stream \in DOMAIN since'
        BY <1>4, <1>8
  <2>4. ASSUME NEW s \in Streams \ DOMAIN since' PROVE stream'[s] = <<>>
    <3>1. s \in Streams \ DOMAIN since /\ \A j \in DOMAIN all : all[j].stream # s
          BY <1>5, <1>8
    <3>2. stream[s] = <<>>
          BY <1>3, <3>1
    <3>3. stream'[s] = stream[s]
          BY <1>4, <3>1
    <3> QED
        BY <3>2, <3>3
  <2>5. DOMAIN since' \subseteq Streams /\ dropped' \subseteq Streams /\ log' \in Seq(Ids)
        BY <1>1, <1>3, <1>5, <1>6
  <2> QED
      BY <1>4, <2>1, <2>2, <2>3, <2>4, <2>5 DEF Streamed
<1>10. ASSUME NEW s \in DOMAIN since' \ dropped'
       PROVE  \E n \in DOMAIN subs' :
                /\ subs'[n].stream = s
                /\ stream'[s] \o subs'[n].queue = SubSeq(log', since'[s] + 1, Len(log'))
  <2>1. s \notin dropped /\ s \in Streams
        BY <1>1, <1>3, <1>5, <1>6
  <2>2. \E j \in DOMAIN all : /\ all[j].stream = s
                              /\ stream[s] \o all[j].queue = SubSeq(log, since'[s] + 1, Len(log))
    <3>1. CASE s \in DOMAIN since
      <4>1. PICK n \in DOMAIN subs : /\ subs[n].stream = s
                                     /\ stream[s] \o subs[n].queue = SubSeq(log, since[s] + 1, Len(log))
            BY <2>1, <3>1 DEF StreamsMissNothing
      <4> QED
          BY <1>5, <1>7, <3>1, <4>1
    <3>2. CASE s \notin DOMAIN since
      <4>1. PICK m \in DOMAIN added : added[m] = s
            BY <1>5, <3>2 DEF Range
      <4>2. PICK j \in DOMAIN all : all[j] = Emptied(s)
            BY <1>7, <4>1
      <4>3. all[j].stream = s /\ all[j].queue = <<>> /\ stream[s] = <<>> /\ since'[s] = Len(log)
            BY <1>3, <1>5, <2>1, <3>2, <4>2 DEF Emptied
      <4>4. <<>> \o <<>> = <<>> /\ SubSeq(log, Len(log) + 1, Len(log)) = <<>>
            BY <1>3
      <4> QED
          BY <4>3, <4>4
    <3> QED
        BY <3>1, <3>2
  <2>3. PICK j \in DOMAIN all : /\ all[j].stream = s
                                /\ stream[s] \o all[j].queue = SubSeq(log, since'[s] + 1, Len(log))
        BY <2>2
  <2>4. PICK i \in DOMAIN subs' : subs'[i] = Emptied(s)
        BY <1>4, <2>1, <2>3
  <2>5. stream'[s] = SubSeq(log', since'[s] + 1, Len(log')) /\ stream'[s] \in Seq(Ids)
        BY <1>1, <1>4, <2>1, <2>3
  <2>6. subs'[i].stream = s /\ subs'[i].queue = <<>> /\ stream'[s] \o <<>> = stream'[s]
        BY <2>4, <2>5 DEF Emptied
  <2> QED
      BY <2>5, <2>6
<1>11. StreamsMissNothing'
       BY <1>10 DEF StreamsMissNothing
<1> QED
    BY <1>9, <1>11

\* The stream s and the queue q have what l has behind m.
Delivers(l, s, q, m) == s \o q = SubSeq(l, m + 1, Len(l))

\* The first event of the stream is read.
LEMMA DeliveryRead ==
  ASSUME NEW S, NEW l \in Seq(S), NEW s \in Seq(S), NEW q \in Seq(S), NEW m \in 0 .. Len(l),
         s # <<>>, Delivers(l, s, q, m)
  PROVE  m + 1 \in 0 .. Len(l) /\ Delivers(l, Tail(s), q, m + 1)
<1> DEFINE p == SubSeq(l, m + 1, Len(l))
<1>0. s \o q = p
      BY DEF Delivers
<1>1. /\ Len(l) \in Nat /\ Len(s) \in Nat \ {0} /\ Len(q) \in Nat
      /\ Len(s \o q) = Len(s) + Len(q)
      BY LenProperties, EmptySeq, ConcatProperties
<1>2. p \in Seq(S) /\ Len(p) = Len(l) - m /\ \A i \in 1 .. Len(l) - m : p[i] = l[m + i]
      BY <1>1
<1>3. m + 1 \in 0 .. Len(l) /\ Len(s) + Len(q) = Len(l) - m
      BY <1>0, <1>1, <1>2
<1>4. /\ SubSeq(l, m + 1 + 1, Len(l)) \in Seq(S)
      /\ Len(SubSeq(l, m + 1 + 1, Len(l))) = Len(l) - m - 1
      /\ \A i \in 1 .. Len(l) - m - 1 : SubSeq(l, m + 1 + 1, Len(l))[i] = l[m + 1 + i]
      BY <1>1, <1>3
<1>5. /\ Tail(s) \in Seq(S) /\ Len(Tail(s)) = Len(s) - 1
      /\ \A i \in 1 .. Len(s) - 1 : Tail(s)[i] = s[i + 1]
      BY <1>1
<1>6. /\ Tail(s) \o q \in Seq(S) /\ Len(Tail(s) \o q) = Len(l) - m - 1
      /\ \A i \in 1 .. Len(l) - m - 1 :
           (Tail(s) \o q)[i] = IF i <= Len(s) - 1 THEN s[i + 1] ELSE q[i - (Len(s) - 1)]
      BY <1>1, <1>3, <1>5
<1>7. \A i \in 1 .. Len(l) - m : p[i] = IF i <= Len(s) THEN s[i] ELSE q[i - Len(s)]
  <2>1. \A i \in 1 .. Len(s) + Len(q) : (s \o q)[i] = IF i <= Len(s) THEN s[i] ELSE q[i - Len(s)]
        BY ConcatProperties
  <2> QED
      BY <1>0, <1>3, <2>1
<1>8. ASSUME NEW i \in 1 .. Len(l) - m - 1
      PROVE  (Tail(s) \o q)[i] = SubSeq(l, m + 1 + 1, Len(l))[i]
  <2>1. /\ i + 1 \in 1 .. Len(l) - m /\ i + 1 - Len(s) = i - (Len(s) - 1)
        /\ (i <= Len(s) - 1 <=> i + 1 <= Len(s)) /\ m + 1 + i = m + (i + 1)
        BY <1>1
  <2>2. (Tail(s) \o q)[i] = p[i + 1]
        BY <1>6, <1>7, <2>1
  <2> QED
      BY <1>2, <1>4, <2>1, <2>2
<1> QED
    BY <1>3, <1>4, <1>6, <1>8, SeqEqual DEF Delivers

\* Another event is logged, and queued for the stream.
LEMMA DeliveryQueued ==
  ASSUME NEW S, NEW l \in Seq(S), NEW s \in Seq(S), NEW q \in Seq(S), NEW m \in 0 .. Len(l),
         NEW e \in S, Delivers(l, s, q, m)
  PROVE  Delivers(Append(l, e), s, Append(q, e), m)
<1> DEFINE n == Append(l, e)
           t == Append(q, e)
           k == Len(l) - m
<1>1. /\ n \in Seq(S) /\ Len(n) = Len(l) + 1 /\ Len(l) \in Nat
      /\ n[Len(l) + 1] = e /\ \A i \in 1 .. Len(l) : n[i] = l[i]
      OBVIOUS
<1>2. /\ t \in Seq(S) /\ Len(t) = Len(q) + 1 /\ Len(q) \in Nat
      /\ t[Len(q) + 1] = e /\ \A i \in 1 .. Len(q) : t[i] = q[i]
      OBVIOUS
<1> HIDE DEF n, t
<1>3. /\ Len(s) \in Nat /\ Len(s \o q) = Len(s) + Len(q)
      /\ \A i \in 1 .. Len(s) + Len(q) : (s \o q)[i] = IF i <= Len(s) THEN s[i] ELSE q[i - Len(s)]
      BY LenProperties, ConcatProperties
<1>4. /\ Len(SubSeq(l, m + 1, Len(l))) = k
      /\ \A i \in 1 .. k : SubSeq(l, m + 1, Len(l))[i] = l[m + i]
      BY <1>1
<1>5. s \o q = SubSeq(l, m + 1, Len(l)) /\ Len(s) + Len(q) = k /\ k \in Nat
      BY <1>1, <1>3, <1>4 DEF Delivers
<1>6. /\ s \o t \in Seq(S) /\ Len(s \o t) = k + 1
      /\ \A i \in 1 .. k + 1 : (s \o t)[i] = IF i <= Len(s) THEN s[i] ELSE t[i - Len(s)]
  <2>1. /\ s \o t \in Seq(S) /\ Len(s \o t) = Len(s) + Len(t)
        /\ \A i \in 1 .. Len(s) + Len(t) : (s \o t)[i] = IF i <= Len(s) THEN s[i] ELSE t[i - Len(s)]
        BY <1>2, ConcatProperties
  <2>2. Len(s) + Len(t) = k + 1
        BY <1>2, <1>3, <1>5
  <2> QED
      BY <2>1, <2>2
<1>7. /\ SubSeq(n, m + 1, Len(n)) \in Seq(S) /\ Len(SubSeq(n, m + 1, Len(n))) = k + 1
      /\ \A i \in 1 .. k + 1 : SubSeq(n, m + 1, Len(n))[i] = n[m + i]
      BY <1>1
<1>8. ASSUME NEW i \in 1 .. k + 1 PROVE (s \o t)[i] = SubSeq(n, m + 1, Len(n))[i]
  <2>1. CASE i = k + 1
    <3>1. ~ (i <= Len(s)) /\ i - Len(s) = Len(q) + 1 /\ m + i = Len(l) + 1
          BY <1>1, <1>2, <1>3, <1>5, <2>1
    <3>2. (s \o t)[i] = t[i - Len(s)] /\ SubSeq(n, m + 1, Len(n))[i] = n[m + i]
          BY <1>6, <1>7, <3>1
    <3> QED
        BY <1>1, <1>2, <3>1, <3>2
  <2>2. CASE i # k + 1
    <3>1. m \in Nat /\ k \in Nat
          BY <1>1
    <3>2. i \in Nat /\ 1 <= i /\ i <= k
      <4> HIDE DEF k
      <4> QED
          BY <2>2, <3>1
    <3>3. i \in 1 .. k /\ m + i \in 1 .. Len(l)
          BY <1>1, <3>1, <3>2
    <3>4. l[m + i] = IF i <= Len(s) THEN s[i] ELSE q[i - Len(s)]
          BY <1>3, <1>4, <1>5, <3>3, <3>2
    <3>5. ~ (i <= Len(s)) => i - Len(s) \in 1 .. Len(q)
          BY <1>2, <1>3, <1>5, <3>3
    <3>6. /\ (s \o t)[i] = IF i <= Len(s) THEN s[i] ELSE t[i - Len(s)]
          /\ SubSeq(n, m + 1, Len(n))[i] = n[m + i] /\ n[m + i] = l[m + i]
          BY <1>1, <1>6, <1>7, <3>3
    <3> QED
        BY <1>2, <3>4, <3>5, <3>6
  <2> QED
      BY <2>1, <2>2
<1>9. s \o t = SubSeq(n, m + 1, Len(n))
      BY <1>6, <1>7, <1>8, SeqEqual
<1> QED
    BY <1>9 DEF n, t, Delivers

\* A request has no more hops than the bound.
Bounded == \A r \in Requests : req[r].hop <= MaxHops

LEMMA BoundedInit == Init => Bounded
BY NetworkAssumption DEF Init, Bounded

LEMMA BoundedStep == Shapes /\ Bounded /\ [Next]_vars => Bounded'
<1> SUFFICES ASSUME Shapes, Bounded, [Next]_vars, NEW x \in Requests PROVE req'[x].hop <= MaxHops
    BY DEF Bounded
<1>0. /\ req \in [Requests -> Requested] /\ MaxHops \in Nat
      /\ req[x].hop \in Nat /\ req[x].hop <= MaxHops
      BY NetworkAssumption DEF Shapes, Bounded, Requested
<1>1. ASSUME NEW r \in Requests, Browser(r) PROVE req'[x].hop <= MaxHops
  <2>1. CASE x # r
    <3>1. req'[x] = req[x]
          BY <1>1, <2>1, BrowserFacts
    <3> QED
        BY <1>0, <3>1
  <2>2. CASE x = r
    <3>1. ASSUME ~ Redirects(r) PROVE req'[r].hop = req[r].hop
      <4>1. req[r] \in Requested /\ r \in DOMAIN req
            BY <1>0
      <4>2. ASSUME NEW data \in BOOLEAN, Begins(r, data) PROVE req'[r].hop = req[r].hop
            BY <4>1, <4>2 DEF Begins, Requested
      <4>3. ASSUME Tells(r) PROVE req'[r].hop = req[r].hop
            BY <4>1, <4>3 DEF Tells, Requested
      <4>4. ASSUME Pauses(r) \/ Passes(r) PROVE req'[r].hop = req[r].hop
            BY <4>1, <4>4 DEF Pauses, Passes, Requested
      <4>5. ASSUME Challenges(r) PROVE req'[r].hop = req[r].hop
            BY <4>1, <4>5 DEF Challenges, Requested
      <4>6. ASSUME Responds(r) \/ Ends(r) PROVE req'[r].hop = req[r].hop
            BY <4>1, <4>6 DEF Responds, Ends, Requested
      <4> QED
          BY <1>1, <3>1, <4>2, <4>3, <4>4, <4>5, <4>6 DEF Browser
    <3>2. ASSUME Redirects(r) PROVE req'[r].hop <= MaxHops
      <4>1. req[r].hop < MaxHops /\ req' = [req EXCEPT ![r] = Redirected(req[r], Mistaken(r))]
            BY <1>0, <3>2 DEF Redirects, Redirected
      <4>2. req[r] \in Requested /\ Redirected(req[r], Mistaken(r)).hop = req[r].hop + 1
            BY <1>0, RecordFacts
      <4>3. req'[r].hop = req[r].hop + 1
            BY <1>0, <4>1, <4>2
      <4> QED
          BY <1>0, <2>2, <4>1, <4>3
    <3> QED
        BY <1>0, <2>2, <3>1, <3>2
  <2> QED
      BY <2>1, <2>2
<1>2. ASSUME BrowserReads PROVE req'[x].hop <= MaxHops
  <2>1. Obey(Head(out))
        BY <1>2 DEF BrowserReads
  <2>2. \A r \in Requests : /\ req[r] \in Requested /\ Continued(req[r]).hop = req[r].hop
                            /\ \A answer : Replied(req[r], answer).hop = req[r].hop
        BY <1>0, ReplyFacts
  <2>3. req'[x].hop = req[x].hop
        BY <1>0, <2>1, <2>2, ObeyFacts
  <2> QED
      BY <1>0, <2>3
<1>3. ASSUME UNCHANGED req PROVE req'[x].hop <= MaxHops
      BY <1>0, <1>3
<1>4. ASSUME Poll \/ Authenticates \/ (\E s \in Streams : Listens(s) \/ Reads(s) \/ Drops(s))
               \/ UNCHANGED vars
      PROVE  UNCHANGED req
      BY <1>4 DEF Poll, Authenticates, Listens, Reads, Drops, vars, browserVars
<1> QED
    BY <1>1, <1>2, <1>3, <1>4 DEF Next

Streaming == Streamed /\ StreamsMissNothing

LEMMA StreamingInit == Init => Streaming
<1> SUFFICES ASSUME Init PROVE Streaming
    OBVIOUS
<1>1. /\ subs = <<>> /\ stream = [s \in Streams |-> <<>>] /\ dropped = {} /\ log = <<>>
      /\ since = <<>> /\ inbox.listens = <<>>
      BY DEF Init, ListenersInit, NoMessages
<1>2. DOMAIN subs = {} /\ DOMAIN since = {} /\ DOMAIN inbox.listens = {}
      BY <1>1
<1>3. \A S : <<>> \in Seq(S)
      OBVIOUS
<1>4. Distinct(subs) /\ subs \in Seq(Subscription) /\ stream \in [Streams -> Seq(Ids)]
      BY <1>1, <1>2, <1>3 DEF Distinct
<1>5. Streamed
      BY <1>1, <1>2, <1>3, <1>4 DEF Streamed
<1>6. StreamsMissNothing
      BY <1>2 DEF StreamsMissNothing
<1> QED
    BY <1>5, <1>6 DEF Streaming

\* Nothing that is about the streams changes.
LEMMA StreamingSame ==
  ASSUME Streaming, UNCHANGED <<listenersVars, log, since>>, inbox'.listens = inbox.listens
  PROVE  Streaming'
BY DEF Streaming, Streamed, StreamsMissNothing, listenersVars, Distinct

LEMMA ReadsStreaming ==
  ASSUME Streaming, NEW s \in Streams, Reads(s), inbox'.listens = inbox.listens
  PROVE  Streaming'
<1>1. /\ stream[s] # <<>> /\ s \notin dropped /\ UNCHANGED <<subs, dropped, log>>
      /\ stream' = [stream EXCEPT ![s] = Tail(@)] /\ since' = [since EXCEPT ![s] = @ + 1]
      BY DEF Reads
<1>2. /\ subs \in Seq(Subscription) /\ stream \in [Streams -> Seq(Ids)] /\ log \in Seq(Ids)
      /\ DOMAIN since \subseteq Streams /\ Len(log) \in Nat
      /\ \A x \in DOMAIN since : since[x] \in 0 .. Len(log)
      /\ \A x \in Streams \ DOMAIN since : stream[x] = <<>>
      BY DEF Streaming, Streamed
<1>3. s \in DOMAIN since
      BY <1>1, <1>2
<1>4. PICK n \in DOMAIN subs :
        subs[n].stream = s /\ Delivers(log, stream[s], subs[n].queue, since[s])
      BY <1>1, <1>3 DEF Streaming, StreamsMissNothing, Delivers
<1>5. subs[n].queue \in Seq(Ids)
  <2>1. subs[n] \in Subscription
        BY <1>2
  <2> QED
      BY <2>1 DEF Subscription
<1>6. /\ since[s] + 1 \in 0 .. Len(log)
      /\ Delivers(log, Tail(stream[s]), subs[n].queue, since[s] + 1)
  <2>1. \A l, t, q \in Seq(Ids) : \A m \in 0 .. Len(l) : t # <<>> /\ Delivers(l, t, q, m) =>
          m + 1 \in 0 .. Len(l) /\ Delivers(l, Tail(t), q, m + 1)
        BY DeliveryRead
  <2>2. stream[s] \in Seq(Ids) /\ since[s] \in 0 .. Len(log)
        BY <1>2, <1>3
  <2> QED
      BY <1>1, <1>2, <1>4, <1>5, <2>1, <2>2
<1>7. /\ DOMAIN since' = DOMAIN since /\ since'[s] = since[s] + 1
      /\ \A x \in DOMAIN since : x # s => since'[x] = since[x]
      /\ stream'[s] = Tail(stream[s])
      /\ \A x \in Streams : x # s => stream'[x] = stream[x]
      BY <1>1, <1>2, <1>3
<1>8. stream' \in [Streams -> Seq(Ids)]
  <2>1. Tail(stream[s]) \in Seq(Ids)
        BY <1>1, <1>2
  <2> QED
      BY <1>1, <1>2, <2>1
<1>9. \A x \in DOMAIN since' : since'[x] \in 0 .. Len(log')
      BY <1>1, <1>2, <1>6, <1>7
<1>10. Streamed'
       BY <1>1, <1>2, <1>3, <1>7, <1>8, <1>9 DEF Streaming, Streamed, Distinct
<1>11. ASSUME NEW x \in DOMAIN since' \ dropped'
       PROVE  \E m \in DOMAIN subs' :
                /\ subs'[m].stream = x
                /\ stream'[x] \o subs'[m].queue = SubSeq(log', since'[x] + 1, Len(log'))
  <2>1. CASE x = s
    <3>1. /\ stream'[s] \o subs[n].queue = SubSeq(log, since'[s] + 1, Len(log))
          /\ log' = log /\ subs' = subs
          BY <1>1, <1>6, <1>7 DEF Delivers
    <3> QED
        BY <1>4, <2>1, <3>1
  <2>2. CASE x # s
    <3>1. x \in DOMAIN since \ dropped /\ since'[x] = since[x] /\ stream'[x] = stream[x]
          BY <1>1, <1>2, <1>7, <2>2
    <3>2. PICK m \in DOMAIN subs : /\ subs[m].stream = x
                                   /\ stream[x] \o subs[m].queue = SubSeq(log, since[x] + 1, Len(log))
          BY <3>1 DEF Streaming, StreamsMissNothing
    <3> QED
        BY <1>1, <3>1, <3>2
  <2> QED
      BY <2>1, <2>2
<1> QED
    BY <1>10, <1>11 DEF Streaming, StreamsMissNothing

LEMMA DropsStreaming ==
  ASSUME Streaming, NEW s \in Streams, Drops(s), inbox'.listens = inbox.listens
  PROVE  Streaming'
<1>1. /\ dropped' = dropped \cup {s} /\ stream' = [stream EXCEPT ![s] = <<>>]
      /\ UNCHANGED <<subs, log, since>>
      BY DEF Drops
<1>2. stream \in [Streams -> Seq(Ids)] /\ <<>> \in Seq(Ids) /\ DOMAIN since \subseteq Streams
      BY DEF Streaming, Streamed
<1>3. /\ stream' \in [Streams -> Seq(Ids)] /\ stream'[s] = <<>>
      /\ \A x \in Streams : x # s => stream'[x] = stream[x]
      BY <1>1, <1>2
<1>4. Streamed'
      BY <1>1, <1>2, <1>3 DEF Streaming, Streamed, Distinct
<1>5. \A x \in DOMAIN since' \ dropped' : x \in DOMAIN since \ dropped /\ stream'[x] = stream[x]
      BY <1>1, <1>2, <1>3
<1>6. StreamsMissNothing'
      BY <1>1, <1>5 DEF Streaming, StreamsMissNothing
<1> QED
    BY <1>4, <1>6 DEF Streaming

LEMMA ListensStreaming ==
  ASSUME Streaming, NEW s \in Streams, Listens(s), inbox'.listens = Append(inbox.listens, s)
  PROVE  Streaming'
<1> DEFINE q == inbox.listens
<1>1. /\ UNCHANGED <<listenersVars, log, since>> /\ s \notin Range(q) /\ s \notin DOMAIN since
      BY DEF Listens
<1>2. /\ q \in Seq(Streams) /\ Listed(q)
      /\ \A m, n \in DOMAIN q : q[m] = q[n] => m = n
      /\ \A n \in DOMAIN q : q[n] \notin DOMAIN since
      BY DEF Streaming, Streamed, Listed
<1> HIDE DEF q
<1>3. /\ Append(q, s) \in Seq(Streams) /\ Len(q) \in Nat /\ DOMAIN q = 1 .. Len(q)
      /\ DOMAIN Append(q, s) = 1 .. Len(q) + 1 /\ Append(q, s)[Len(q) + 1] = s
      /\ \A n \in 1 .. Len(q) : Append(q, s)[n] = q[n]
      BY <1>2, AppendFacts
<1>4. \A n \in DOMAIN q : q[n] # s
      BY <1>1 DEF Range
<1>5. \A n \in DOMAIN Append(q, s) : n \in DOMAIN q \/ n = Len(q) + 1
      BY <1>3
<1>6. /\ \A m, n \in DOMAIN Append(q, s) : Append(q, s)[m] = Append(q, s)[n] => m = n
      /\ \A n \in DOMAIN Append(q, s) : Append(q, s)[n] \notin DOMAIN since
      BY <1>1, <1>2, <1>3, <1>4, <1>5
<1>7. inbox'.listens = Append(q, s)
      BY DEF q
<1>8. Streamed'
      BY <1>1, <1>3, <1>6, <1>7 DEF Streaming, Streamed, listenersVars, Distinct
<1>9. StreamsMissNothing'
      BY <1>1 DEF Streaming, StreamsMissNothing, listenersVars
<1> QED
    BY <1>8, <1>9 DEF Streaming

LEMMA PausesStreaming ==
  ASSUME Shapes, Bounded, Streaming, NEW r \in Requests, Pauses(r)
  PROVE  Streaming'
<1> DEFINE e == <<r, req[r].hop>>
<1>0. e \in Ids
  <2>1. req[r].hop \in Nat /\ req[r].hop <= MaxHops /\ MaxHops \in Nat
        BY NetworkAssumption DEF Shapes, Bounded, Requested
  <2>2. req[r].hop \in 0 .. MaxHops
        BY <2>1
  <2> QED
      BY <2>2 DEF Ids
<1>1. /\ subs' = [n \in DOMAIN subs |-> [subs[n] EXCEPT !.queue = Append(@, e)]]
      /\ log' = Append(log, e) /\ UNCHANGED <<stream, dropped, inbox, since>>
      BY DEF Pauses, StartSend, targetVars
<1> HIDE DEF e
<1>2. /\ subs \in Seq(Subscription) /\ Distinct(subs) /\ stream \in [Streams -> Seq(Ids)]
      /\ log \in Seq(Ids) /\ DOMAIN since \subseteq Streams /\ Len(log) \in Nat
      /\ \A x \in DOMAIN since : since[x] \in 0 .. Len(log)
      /\ \A n \in DOMAIN subs : subs[n].stream \in DOMAIN since
      BY DEF Streaming, Streamed
<1>3. /\ log' \in Seq(Ids) /\ Len(log') = Len(log) + 1
      BY <1>0, <1>1, <1>2
<1>4. ASSUME NEW n \in DOMAIN subs
      PROVE  /\ n \in DOMAIN subs' /\ subs'[n] \in Subscription
             /\ subs'[n].stream = subs[n].stream /\ subs'[n].queue = Append(subs[n].queue, e)
             /\ subs[n].queue \in Seq(Ids)
  <2>1. subs[n] \in Subscription
        BY <1>2
  <2>2. subs'[n] = [subs[n] EXCEPT !.queue = Append(@, e)] /\ n \in DOMAIN subs'
        BY <1>1
  <2>3. subs[n].queue \in Seq(Ids) /\ Append(subs[n].queue, e) \in Seq(Ids)
        BY <1>0, <2>1 DEF Subscription
  <2> QED
      BY <2>1, <2>2, <2>3 DEF Subscription
<1>5. DOMAIN subs' = DOMAIN subs /\ DOMAIN subs = 1 .. Len(subs) /\ Len(subs) \in Nat
      BY <1>1, <1>2
<1>6. subs' \in Seq(Subscription)
  <2>1. subs' \in [1 .. Len(subs) -> Subscription]
        BY <1>1, <1>4, <1>5
  <2> QED
      BY <1>5, <2>1
<1>7. Distinct(subs')
      BY <1>2, <1>4, <1>5 DEF Distinct
<1>8. \A x \in DOMAIN since' : since'[x] \in 0 .. Len(log')
      BY <1>1, <1>2, <1>3
<1>9. Streamed'
      BY <1>1, <1>2, <1>3, <1>4, <1>5, <1>6, <1>7, <1>8 DEF Streaming, Streamed
<1>10. ASSUME NEW x \in DOMAIN since' \ dropped'
       PROVE  \E m \in DOMAIN subs' :
                /\ subs'[m].stream = x
                /\ stream'[x] \o subs'[m].queue = SubSeq(log', since'[x] + 1, Len(log'))
  <2>1. x \in DOMAIN since \ dropped /\ since[x] \in 0 .. Len(log) /\ stream[x] \in Seq(Ids)
        BY <1>1, <1>2
  <2>2. PICK m \in DOMAIN subs :
          subs[m].stream = x /\ Delivers(log, stream[x], subs[m].queue, since[x])
        BY <2>1 DEF Streaming, StreamsMissNothing, Delivers
  <2>3. Delivers(Append(log, e), stream[x], Append(subs[m].queue, e), since[x])
    <3>1. \A l, t, q \in Seq(Ids) : \A k \in 0 .. Len(l) :
            Delivers(l, t, q, k) => Delivers(Append(l, e), t, Append(q, e), k)
          BY <1>0, DeliveryQueued
    <3> QED
        BY <1>2, <1>4, <2>1, <2>2, <3>1
  <2> QED
      BY <1>1, <1>4, <2>2, <2>3 DEF Delivers
<1> QED
    BY <1>9, <1>10 DEF Streaming, StreamsMissNothing

LEMMA StreamingStep == Shapes /\ Bounded /\ Streaming /\ [Next]_vars => Streaming'
<1> SUFFICES ASSUME Shapes, Bounded, Streaming, [Next]_vars PROVE Streaming'
    OBVIOUS
<1>0. DOMAIN inbox = {"commands", "listens", "credentials"}
      BY DEF Shapes, NoMessages
<1>1. ASSUME NEW r \in Requests, Browser(r), ~ Pauses(r) PROVE Streaming'
  <2>1. UNCHANGED <<listenersVars, log, since, inbox>>
        BY <1>1 DEF Browser, Begins, Tells, Passes, Challenges, Responds, Redirects, Ends,
                    Unread, targetVars
  <2> QED
      BY <2>1, StreamingSame
<1>2. ASSUME NEW r \in Requests, Pauses(r) PROVE Streaming'
      BY <1>2, PausesStreaming
<1>3. ASSUME Authenticates \/ BrowserReads \/ UNCHANGED vars PROVE Streaming'
  <2>1. UNCHANGED <<listenersVars, log, since>> /\ inbox'.listens = inbox.listens
        BY <1>0, <1>3 DEF Authenticates, Send, BrowserReads, vars, targetVars
  <2> QED
      BY <2>1, StreamingSame
<1>4. ASSUME Poll PROVE Streaming'
      BY <1>4, PollStreams DEF Streaming
<1>5. ASSUME NEW s \in Streams, Listens(s) PROVE Streaming'
  <2>1. inbox'.listens = Append(inbox.listens, s)
        BY <1>0, <1>5 DEF Listens, Send
  <2> QED
      BY <1>5, <2>1, ListensStreaming
<1>6. ASSUME NEW s \in Streams, Reads(s) \/ Drops(s) PROVE Streaming'
  <2>1. inbox'.listens = inbox.listens
        BY <1>0, <1>6 DEF Reads, Drops, Send, targetVars
  <2> QED
      BY <1>6, <2>1, ReadsStreaming, DropsStreaming
<1> QED
    BY <1>1, <1>2, <1>3, <1>4, <1>5, <1>6 DEF Next

-----------------------------------------------------------------------------
(* The types of the manager.                                               *)

Flags ==
  /\ user \in BOOLEAN /\ credentials \in BOOLEAN /\ intercepting \in BOOLEAN
  /\ fetching \in BOOLEAN /\ cache \in BOOLEAN /\ inbox.credentials \in BOOLEAN

LEMMA FlagsInit == Init => Flags
<1> SUFFICES ASSUME Init PROVE Flags
    OBVIOUS
<1>1. /\ user \in BOOLEAN /\ intercepting = user /\ credentials = FALSE
      /\ fetching = FALSE /\ cache = TRUE /\ inbox.credentials = FALSE
      BY DEF Init, NetworkInit, NoMessages
<1> QED
    BY <1>1 DEF Flags

LEMMA FlagsStep == Shapes /\ Flags /\ [Next]_vars => Flags'
<1> SUFFICES ASSUME Shapes, Flags, [Next]_vars PROVE Flags'
    OBVIOUS
<1>0. DOMAIN inbox = {"commands", "listens", "credentials"}
      BY DEF Shapes, NoMessages
<1>1. ASSUME NEW r \in Requests, Browser(r) PROVE Flags'
  <2>1. UNCHANGED <<user, credentials, intercepting>>
    <3>1. Manages(r)
          BY <1>1, BrowserFacts
    <3> QED
        BY <3>1 DEF Manages, OnRequestWillBeSent, OnRequestPaused, OnAuthRequired,
                    OnResponseReceived, OnLoadingOver, networkVars
  <2>2. UNCHANGED <<fetching, cache, inbox>>
        BY <1>1 DEF Browser, Begins, Tells, Pauses, Passes, Challenges, Responds, Redirects,
                    Ends, Unread, targetVars
  <2> QED
      BY <2>1, <2>2 DEF Flags
<1>2. ASSUME Poll PROVE Flags'
  <2>1. /\ credentials' = (credentials \/ inbox.credentials)
        /\ intercepting' = (intercepting \/ inbox.credentials)
        /\ UNCHANGED <<user, fetching, cache>> /\ inbox'.credentials = FALSE
        BY <1>2 DEF Poll, Authenticate, NoMessages, browserVars
  <2> QED
      BY <2>1 DEF Flags
<1>3. ASSUME BrowserReads PROVE Flags'
  <2>1. UNCHANGED <<user, credentials, intercepting, inbox>> /\ Obey(Head(out))
        BY <1>3 DEF BrowserReads, networkVars
  <2>2. fetching' \in BOOLEAN /\ cache' \in BOOLEAN
        BY <2>1 DEF Obey, Flags
  <2> QED
      BY <2>1, <2>2 DEF Flags
<1>4. ASSUME UNCHANGED <<networkVars, browserVars>>, inbox'.credentials \in BOOLEAN PROVE Flags'
      BY <1>4 DEF Flags, networkVars, browserVars
<1>5. ASSUME Authenticates PROVE Flags'
  <2>1. inbox'.credentials = TRUE
        BY <1>0, <1>5 DEF Authenticates, Send
  <2> QED
      BY <1>4, <1>5, <2>1 DEF Authenticates
<1>6. ASSUME NEW s \in Streams, Listens(s) \/ Reads(s) \/ Drops(s) PROVE Flags'
  <2>1. inbox'.credentials = inbox.credentials
        BY <1>0, <1>6 DEF Listens, Reads, Drops, Send, targetVars
  <2> QED
      BY <1>4, <1>6, <2>1 DEF Listens, Reads, Drops, Flags
<1>7. ASSUME UNCHANGED vars PROVE Flags'
      BY <1>4, <1>7 DEF vars, targetVars, Flags
<1> QED
    BY <1>1, <1>2, <1>3, <1>5, <1>6, <1>7 DEF Next

Managed ==
  /\ \A r \in DOMAIN tracked : tracked[r] \in [id : Ids \cup {NoId}, hops : Nat]
  /\ parked \in [DOMAIN parked -> BOOLEAN] /\ DOMAIN parked \subseteq Requests
  /\ \A r \in DOMAIN early : r \in Requests /\ early[r] \in Ids
  /\ attempted \subseteq Ids

LEMMA ManagedInit == Init => Managed
<1> SUFFICES ASSUME Init PROVE Managed
    OBVIOUS
<1>1. tracked = <<>> /\ parked = <<>> /\ early = <<>> /\ attempted = {}
      BY DEF Init, NetworkInit
<1>2. DOMAIN tracked = {} /\ DOMAIN parked = {} /\ DOMAIN early = {}
      BY <1>1
<1>3. parked \in [{} -> BOOLEAN]
      BY <1>1
<1> QED
    BY <1>1, <1>2, <1>3 DEF Managed

LEMMA TrackManaged ==
  ASSUME Mapped, Managed, NEW r \in Requests, NEW redirected, NEW id \in Ids \cup {NoId},
         OwnId(id, r), Track(r, redirected, id)
  PROVE  /\ \A x \in DOMAIN tracked' : tracked'[x] \in [id : Ids \cup {NoId}, hops : Nat]
         /\ attempted' \subseteq Ids
<1>1. attempted' \subseteq Ids
      BY DEF Track, Managed
<1>2. /\ DOMAIN tracked' = DOMAIN tracked \cup {r} /\ tracked'[r].hops \in Nat
      /\ \A x \in DOMAIN tracked : x # r => tracked'[x] = tracked[x]
      BY TrackFacts
<1>3. tracked'[r] = [id |-> id, hops |-> tracked'[r].hops]
  <2>1. tracked'[r] = [id |-> id, hops |-> IF redirected /\ r \in DOMAIN tracked
                                           THEN tracked[r].hops + 1 ELSE 0]
        BY TrackFacts
  <2> QED
      BY <2>1
<1>4. tracked'[r] \in [id : Ids \cup {NoId}, hops : Nat]
      BY <1>2, <1>3
<1> QED
    BY <1>1, <1>2, <1>4 DEF Managed

LEMMA PresentId == ASSUME Shapes, Bounded, NEW r \in Requests
                   PROVE  <<r, req[r].hop>> \in Ids /\ OwnId(<<r, req[r].hop>>, r)
<1>1. req[r].hop \in Nat /\ req[r].hop <= MaxHops /\ MaxHops \in Nat
      BY NetworkAssumption DEF Shapes, Bounded, Requested
<1>2. req[r].hop \in 0 .. MaxHops
      BY <1>1
<1> QED
    BY <1>1, <1>2 DEF Ids, OwnId

LEMMA ManagedBrowser == ASSUME Shapes, Bounded, Managed, NEW r \in Requests, Browser(r)
                        PROVE  Managed'
<1>0. Mapped /\ req \in [Requests -> Requested]
      BY DEF Shapes, Mapped
<1>1. ASSUME UNCHANGED <<tracked, parked, early>>, attempted' \subseteq Ids PROVE Managed'
      BY <1>1 DEF Managed
<1>2. \A value \in BOOLEAN :
        With(parked, r, value) \in [DOMAIN With(parked, r, value) -> BOOLEAN]
        /\ DOMAIN With(parked, r, value) \subseteq Requests
      BY DEF Managed, With
<1>3. Without(parked, r) \in [DOMAIN Without(parked, r) -> BOOLEAN]
      /\ DOMAIN Without(parked, r) \subseteq Requests
      BY DEF Managed, Without
<1>4. ASSUME Tells(r) PROVE Managed'
  <2> DEFINE b == req[r].hop > 0
  <2>1. OnRequestWillBeSent(r, b, req[r].data) /\ b \in BOOLEAN
        BY <1>4 DEF Tells
  <2> HIDE DEF b
  <2>2. CASE Track(r, b, NoId) /\ UNCHANGED <<parked, early>>
    <3>1. OwnId(NoId, r)
          BY DEF OwnId
    <3>2. /\ \A x \in DOMAIN tracked' : tracked'[x] \in [id : Ids \cup {NoId}, hops : Nat]
          /\ attempted' \subseteq Ids
          BY <1>0, <2>2, <3>1, TrackManaged
    <3> QED
        BY <2>2, <3>2 DEF Managed
  <2>3. CASE /\ r \in DOMAIN early /\ Track(r, b, early[r])
             /\ early' = Without(early, r) /\ UNCHANGED parked
    <3>1. OwnId(early[r], r) /\ early[r] \in Ids
          BY <1>0, <2>3 DEF Mapped, Managed
    <3>2. /\ \A x \in DOMAIN tracked' : tracked'[x] \in [id : Ids \cup {NoId}, hops : Nat]
          /\ attempted' \subseteq Ids
          BY <1>0, <2>3, <3>1, TrackManaged
    <3>3. \A x \in DOMAIN early' : x \in Requests /\ early'[x] \in Ids
          BY <2>3 DEF Without, Managed
    <3> QED
        BY <2>3, <3>2, <3>3 DEF Managed
  <2>4. CASE parked' = With(parked, r, b) /\ UNCHANGED <<tracked, early, attempted>>
        BY <1>2, <2>1, <2>4 DEF Managed
  <2> QED
      BY <2>1, <2>2, <2>3, <2>4 DEF OnRequestWillBeSent
<1>5. ASSUME Pauses(r) PROVE Managed'
  <2> DEFINE id == <<r, req[r].hop>>
  <2>1. OnRequestPaused(id) /\ id \in Ids /\ OwnId(id, r) /\ id[1] = r
        BY <1>5, PresentId DEF Pauses
  <2> HIDE DEF id
  <2>2. CASE r \in DOMAIN parked
    <3>1. Track(r, parked[r], id) /\ parked' = Without(parked, r) /\ UNCHANGED early
          BY <2>1, <2>2 DEF OnRequestPaused
    <3>2. /\ \A x \in DOMAIN tracked' : tracked'[x] \in [id : Ids \cup {NoId}, hops : Nat]
          /\ attempted' \subseteq Ids
          BY <1>0, <2>1, <3>1, TrackManaged
    <3> QED
        BY <1>3, <3>1, <3>2 DEF Managed
  <2>3. CASE r \notin DOMAIN parked
    <3>1. early' = With(early, r, id) /\ UNCHANGED <<tracked, parked, attempted>>
          BY <2>1, <2>3 DEF OnRequestPaused
    <3>2. \A x \in DOMAIN early' : x \in Requests /\ early'[x] \in Ids
          BY <2>1, <3>1 DEF With, Managed
    <3> QED
        BY <3>1, <3>2 DEF Managed
  <2> QED
      BY <2>2, <2>3
<1>6. ASSUME Challenges(r) PROVE Managed'
  <2>1. OnAuthRequired(<<r, req[r].hop>>) /\ <<r, req[r].hop>> \in Ids
        BY <1>6, PresentId DEF Challenges
  <2>2. attempted' \subseteq Ids /\ UNCHANGED <<tracked, parked, early>>
        BY <2>1 DEF OnAuthRequired, Managed
  <2> QED
      BY <1>1, <2>2
<1>7. ASSUME Responds(r) \/ Ends(r) PROVE Managed'
  <2>1. Conclude(r) /\ UNCHANGED <<parked, early>> /\ attempted' \subseteq Ids
        BY <1>7 DEF Responds, Ends, OnResponseReceived, OnLoadingOver, Managed
  <2>2. \A x \in DOMAIN tracked' : tracked'[x] \in [id : Ids \cup {NoId}, hops : Nat]
        BY <2>1 DEF Conclude, Without, Managed
  <2> QED
      BY <2>1, <2>2 DEF Managed
<1>8. ASSUME (\E data \in BOOLEAN : Begins(r, data)) \/ Passes(r) \/ Redirects(r) PROVE Managed'
  <2>1. UNCHANGED <<tracked, parked, early, attempted>>
        BY <1>8 DEF Begins, Passes, Redirects, networkVars
  <2> QED
      BY <1>1, <2>1 DEF Managed
<1> QED
    BY <1>4, <1>5, <1>6, <1>7, <1>8 DEF Browser

\* The hops the manager counted of a request are not more than there were: each one it was
\* told of is counted at once, or when it is found to be paused.
Owed(r) == (IF r \in DOMAIN parked THEN 1 ELSE 0) + (IF req[r].told = "no" THEN 1 ELSE 0)
Measured(r) == IF r \in DOMAIN tracked THEN tracked[r].hops + Owed(r) <= req[r].hop
               ELSE Owed(r) <= req[r].hop + 1
MeasuredAll == \A r \in Requests : Measured(r)

LEMMA MeasuredInit == Init => MeasuredAll
BY DEF Init, NetworkInit, MeasuredAll, Measured, Owed

LEMMA MeasuredSame ==
  ASSUME NEW x, req'[x].hop = req[x].hop, req'[x].told = req[x].told, Measured(x),
         x \in DOMAIN tracked' <=> x \in DOMAIN tracked,
         x \in DOMAIN tracked => tracked'[x] = tracked[x],
         x \in DOMAIN parked' <=> x \in DOMAIN parked
  PROVE  Measured(x)'
<1>1. Owed(x)' = Owed(x)
      BY DEF Owed
<1> QED
    BY <1>1 DEF Measured

LEMMA MeasuredBrowser ==
  ASSUME Shapes, NEW r \in Requests, Browser(r), Measured(r)
  PROVE  Measured(r)'
<1> DEFINE P == IF r \in DOMAIN parked THEN 1 ELSE 0
           N == IF req[r].told = "no" THEN 1 ELSE 0
           k == tracked[r].hops
           h == req[r].hop
<1>0. /\ req \in [Requests -> Requested] /\ h \in Nat /\ Mapped /\ P \in {0, 1} /\ N \in {0, 1}
      /\ r \in DOMAIN tracked => k \in Nat
      BY KeptFacts DEF Shapes, Mapped
<1>1. IF r \in DOMAIN tracked THEN k + P + N <= h ELSE P + N <= h + 1
      BY <1>0 DEF Measured, Owed
<1>2. ASSUME Tells(r) PROVE Measured(r)'
  <2>1. /\ req'[r].hop = h /\ req'[r].told # "no" /\ N = 1
        /\ OnRequestWillBeSent(r, h > 0, req[r].data)
    <3>1. /\ req[r] \in Requested /\ req[r].told = "no"
          /\ req' = [req EXCEPT ![r].told = IF intercepting /\ ~req[r].data THEN "parked" ELSE "plain"]
          /\ OnRequestWillBeSent(r, h > 0, req[r].data)
          BY <1>0, <1>2 DEF Tells
    <3>2. req'[r].hop = h /\ req'[r].told # "no"
          BY <1>0, <3>1 DEF Requested
    <3> QED
        BY <3>1, <3>2
  <2>2. ASSUME NEW id, OwnId(id, r), Track(r, h > 0, id), UNCHANGED parked PROVE Measured(r)'
    <3>1. /\ r \in DOMAIN tracked' /\ Owed(r)' = P
          /\ tracked'[r].hops = IF h > 0 /\ r \in DOMAIN tracked THEN k + 1 ELSE 0
      <4>1. Owed(r)' = P
            BY <1>0, <2>1, <2>2 DEF Owed
      <4>2. /\ r \in DOMAIN tracked'
            /\ tracked'[r].hops = IF h > 0 /\ r \in DOMAIN tracked THEN k + 1 ELSE 0
            BY <2>2 DEF Track
      <4> QED
          BY <4>1, <4>2
    <3> HIDE DEF P, N, k, h
    <3>2. tracked'[r].hops + P <= h
          BY <1>0, <1>1, <2>1, <3>1
    <3> QED
        BY <2>1, <3>1, <3>2 DEF Measured
  <2>3. CASE Track(r, h > 0, NoId) /\ UNCHANGED parked
        BY <2>2, <2>3 DEF OwnId
  <2>4. CASE r \in DOMAIN early /\ Track(r, h > 0, early[r]) /\ UNCHANGED parked
        BY <1>0, <2>2, <2>4 DEF Mapped
  <2>5. CASE parked' = With(parked, r, h > 0) /\ UNCHANGED tracked
    <3>1. Owed(r)' = 1
          BY <2>1, <2>5, MapFacts DEF Owed
    <3>2. IF r \in DOMAIN tracked THEN k + 1 <= h ELSE 1 <= h + 1
      <4> HIDE DEF P, N, k, h
      <4> QED
          BY <1>0, <1>1, <2>1
    <3> QED
        BY <2>1, <2>5, <3>1, <3>2 DEF Measured
  <2> QED
      BY <2>1, <2>3, <2>4, <2>5 DEF OnRequestWillBeSent
<1>3. ASSUME Pauses(r) PROVE Measured(r)'
  <2>1. /\ req'[r].hop = h /\ req'[r].told = req[r].told
        /\ OnRequestPaused(<<r, h>>) /\ <<r, h>>[1] = r
        BY <1>0, <1>3 DEF Pauses, Requested
  <2>2. CASE r \in DOMAIN parked
    <3>1. Track(r, parked[r], <<r, h>>) /\ parked' = Without(parked, r) /\ OwnId(<<r, h>>, r)
          BY <1>0, <2>1, <2>2 DEF OnRequestPaused, OwnId
    <3>2. /\ r \in DOMAIN tracked'
          /\ tracked'[r].hops = IF parked[r] /\ r \in DOMAIN tracked THEN k + 1 ELSE 0
          BY <3>1 DEF Track
    <3>3. Owed(r)' = N /\ P = 1
      <4>1. r \notin DOMAIN parked'
            BY <3>1, MapFacts
      <4> QED
          BY <1>0, <2>1, <2>2, <4>1 DEF Owed
    <3>4. tracked'[r].hops + N <= h
      <4> HIDE DEF P, N, k, h
      <4> QED
          BY <1>0, <1>1, <3>2, <3>3
    <3> QED
        BY <2>1, <3>2, <3>3, <3>4 DEF Measured
  <2>3. CASE r \notin DOMAIN parked
        BY <2>1, <2>3, MeasuredSame DEF OnRequestPaused
  <2> QED
      BY <2>2, <2>3
<1>4. ASSUME Redirects(r) PROVE Measured(r)'
  <2>1. /\ req'[r].hop = h + 1 /\ req'[r].told = "no" /\ N = 0 /\ UNCHANGED <<tracked, parked>>
        BY <1>0, <1>4 DEF Redirects, Answerable, networkVars, Requested
  <2>2. Owed(r)' = P + 1
        BY <2>1 DEF Owed
  <2>3. IF r \in DOMAIN tracked THEN k + (P + 1) <= h + 1 ELSE P + 1 <= h + 1 + 1
    <3> HIDE DEF P, N, k, h
    <3> QED
        BY <1>0, <1>1, <2>1
  <2> QED
      BY <2>1, <2>2, <2>3 DEF Measured
<1>5. ASSUME Responds(r) \/ Ends(r) PROVE Measured(r)'
  <2>1. req'[r].hop = h /\ req'[r].told = req[r].told /\ UNCHANGED parked /\ Conclude(r)
        BY <1>0, <1>5 DEF Responds, Ends, OnResponseReceived, OnLoadingOver, Requested
  <2>2. CASE r \in DOMAIN tracked
    <3>1. r \notin DOMAIN tracked' /\ Owed(r)' = P + N
          BY <2>1, <2>2, MapFacts DEF Conclude, Owed
    <3>2. P + N <= h + 1
      <4> HIDE DEF P, N, k, h
      <4> QED
          BY <1>0, <1>1, <2>2
    <3> QED
        BY <2>1, <3>1, <3>2 DEF Measured
  <2>3. CASE r \notin DOMAIN tracked
        BY <2>1, <2>3, MeasuredSame DEF Conclude
  <2> QED
      BY <2>2, <2>3
<1>6. ASSUME (\E data \in BOOLEAN : Begins(r, data)) \/ Passes(r) \/ Challenges(r)
      PROVE  Measured(r)'
  <2>1. /\ req'[r].hop = req[r].hop /\ req'[r].told = req[r].told
        /\ UNCHANGED <<tracked, parked>>
        BY <1>0, <1>6 DEF Begins, Passes, Challenges, OnAuthRequired, networkVars, Requested
  <2> QED
      BY <2>1, MeasuredSame
<1> QED
    BY <1>2, <1>3, <1>4, <1>5, <1>6 DEF Browser

\* What leaves the manager alone.
LEMMA ManagerRests ==
  ASSUME Shapes, [Next]_vars, \A r \in Requests : ~ Browser(r)
  PROVE  /\ UNCHANGED <<tracked, parked, early, attempted>>
         /\ \A x \in Requests : req'[x].hop = req[x].hop /\ req'[x].told = req[x].told
<1>1. CASE Poll
      BY <1>1, PollFacts
<1>2. CASE BrowserReads
  <2>1. UNCHANGED <<tracked, parked, early, attempted>> /\ Obey(Head(out))
        BY <1>2 DEF BrowserReads, networkVars
  <2>2. /\ req \in [Requests -> Requested]
        /\ \A r \in Requests :
             /\ Continued(req[r]).hop = req[r].hop /\ Continued(req[r]).told = req[r].told
             /\ \A answer : /\ Replied(req[r], answer).hop = req[r].hop
                            /\ Replied(req[r], answer).told = req[r].told
        BY ReplyFacts DEF Shapes
  <2>3. \A x \in Requests : req'[x].hop = req[x].hop /\ req'[x].told = req[x].told
        BY <2>1, <2>2, ObeyFacts
  <2> QED
      BY <2>1, <2>3
<1>3. CASE Authenticates \/ (\E s \in Streams : Listens(s) \/ Reads(s) \/ Drops(s)) \/ UNCHANGED vars
      BY <1>3 DEF Authenticates, Listens, Reads, Drops, vars, networkVars, browserVars
<1> QED
    BY <1>1, <1>2, <1>3 DEF Next

LEMMA ManagedStep ==
  Shapes /\ Bounded /\ Managed /\ MeasuredAll /\ [Next]_vars => Managed' /\ MeasuredAll'
<1> SUFFICES ASSUME Shapes, Bounded, Managed, MeasuredAll, [Next]_vars
             PROVE  Managed' /\ MeasuredAll'
    OBVIOUS
<1>1. ASSUME NEW r \in Requests, Browser(r) PROVE Managed' /\ MeasuredAll'
  <2>1. ASSUME NEW x \in Requests PROVE Measured(x)'
    <3>1. CASE x = r
          BY <1>1, <3>1, MeasuredBrowser DEF MeasuredAll
    <3>2. CASE x # r
      <4>1. req'[x] = req[x] /\ Leaves(x)
            BY <1>1, <3>2, BrowserFacts, ManagerFacts DEF Shapes, Mapped
      <4> QED
          BY <4>1, MeasuredSame DEF MeasuredAll, Leaves
    <3> QED
        BY <3>1, <3>2
  <2> QED
      BY <1>1, <2>1, ManagedBrowser DEF MeasuredAll
<1>2. ASSUME \A r \in Requests : ~ Browser(r) PROVE Managed' /\ MeasuredAll'
  <2>1. /\ UNCHANGED <<tracked, parked, early, attempted>>
        /\ \A x \in Requests : req'[x].hop = req[x].hop /\ req'[x].told = req[x].told
        BY <1>2, ManagerRests
  <2>2. \A x \in Requests : Measured(x)'
        BY <2>1, MeasuredSame DEF MeasuredAll
  <2> QED
      BY <2>1, <2>2 DEF Managed, MeasuredAll
<1> QED
    BY <1>1, <1>2

-----------------------------------------------------------------------------
(* The types of what is sent, and the log.                                 *)

Commanded == queued \in Seq(Commands) /\ out \in Seq(Commands) /\ inbox.commands \in Seq(Commands)

LEMMA CommandKinds ==
  /\ CacheDisabled \in Commands /\ FetchEnable \in Commands
  /\ Interception \in Seq(Commands)
  /\ \A id \in Ids : Continue(id) \in Commands /\ Reply(id) \in Commands
<1>1. CacheDisabled \in Commands /\ FetchEnable \in Commands
      BY DEF Commands
<1>2. Interception \in Seq(Commands)
      BY <1>1 DEF Interception
<1>3. ASSUME NEW id \in Ids PROVE Continue(id) \in Commands /\ Reply(id) \in Commands
      BY DEF Commands, Reply
<1> QED
    BY <1>1, <1>2, <1>3

LEMMA CommandedInit == Init => Commanded
<1> SUFFICES ASSUME Init PROVE Commanded
    OBVIOUS
<1>1. /\ queued = <<CacheDisabled>> \o (IF user THEN Interception ELSE <<>>)
      /\ out = <<>> /\ inbox.commands = <<>>
      BY DEF Init, NetworkInit, NoMessages
<1>2. <<CacheDisabled>> \in Seq(Commands) /\ (IF user THEN Interception ELSE <<>>) \in Seq(Commands)
      BY CommandKinds
<1> QED
    BY <1>1, <1>2 DEF Commanded

LEMMA CommandedBrowser ==
  ASSUME Shapes, Bounded, Commanded, NEW r \in Requests, Browser(r)
  PROVE  Commanded'
<1>1. UNCHANGED <<out, inbox>>
      BY BrowserFacts DEF targetVars
<1>2. queued' \in Seq(Commands)
  <2> DEFINE id == <<r, req[r].hop>>
  <2>0. id \in Ids /\ queued \in Seq(Commands)
        BY PresentId DEF Commanded
  <2>1. CASE Pauses(r)
    <3>1. OnRequestPaused(id)
          BY <2>1 DEF Pauses
    <3> HIDE DEF id
    <3>2. Push(IF ~user /\ intercepting THEN <<Continue(id)>> ELSE <<>>)
          BY <3>1 DEF OnRequestPaused
    <3>3. <<Continue(id)>> \in Seq(Commands) /\ <<>> \in Seq(Commands)
          BY <2>0, CommandKinds
    <3> QED
        BY <2>0, <3>2, <3>3 DEF Push
  <2>2. CASE Challenges(r)
    <3>1. OnAuthRequired(id)
          BY <2>2 DEF Challenges
    <3> HIDE DEF id
    <3>2. queued' = queued \o <<Reply(id)>>
          BY <3>1, AuthPush DEF Shapes
    <3>3. <<Reply(id)>> \in Seq(Commands)
          BY <2>0, CommandKinds
    <3> QED
        BY <2>0, <3>2, <3>3
  <2>3. ASSUME \/ (\E data \in BOOLEAN : Begins(r, data)) \/ Tells(r) \/ Passes(r)
               \/ Responds(r) \/ Redirects(r) \/ Ends(r)
        PROVE  UNCHANGED queued
        BY <2>3 DEF Begins, Tells, Passes, Responds, Redirects, Ends, networkVars,
                    OnRequestWillBeSent, OnResponseReceived, OnLoadingOver
  <2> QED
      BY <2>0, <2>1, <2>2, <2>3 DEF Browser
<1> QED
    BY <1>1, <1>2 DEF Commanded

LEMMA CommandedStep == Shapes /\ Bounded /\ Streamed /\ Commanded /\ [Next]_vars => Commanded'
<1> SUFFICES ASSUME Shapes, Bounded, Streamed, Commanded, [Next]_vars PROVE Commanded'
    OBVIOUS
<1>0. DOMAIN inbox = {"commands", "listens", "credentials"}
      BY DEF Shapes, NoMessages
<1>1. ASSUME NEW r \in Requests, Browser(r) PROVE Commanded'
      BY <1>1, CommandedBrowser
<1>2. ASSUME Poll PROVE Commanded'
  <2>1. /\ out' = (out \o inbox.commands) \o Drained(inbox.credentials)
        /\ queued' = <<>> /\ inbox'.commands = <<>>
        BY <1>2, PollFacts
  <2>2. (IF inbox.credentials /\ ~intercepting THEN Interception ELSE <<>>) \in Seq(Commands)
        BY CommandKinds
  <2>3. Drained(inbox.credentials) \in Seq(Commands)
        BY <2>2 DEF Drained, Commanded
  <2>4. out' \in Seq(Commands)
        BY <2>1, <2>3 DEF Commanded
  <2> QED
      BY <2>1, <2>4 DEF Commanded
<1>3. ASSUME BrowserReads PROVE Commanded'
  <2>1. UNCHANGED <<queued, inbox>> /\ out # <<>> /\ out' = Tail(out)
        BY <1>3 DEF BrowserReads, networkVars
  <2> QED
      BY <2>1 DEF Commanded
<1>4. ASSUME UNCHANGED <<queued, out>>, inbox'.commands \in Seq(Commands) PROVE Commanded'
      BY <1>4 DEF Commanded
<1>5. ASSUME NEW s \in Streams, Reads(s) PROVE Commanded'
  <2>1. stream[s] \in Seq(Ids) /\ stream[s] # <<>> /\ UNCHANGED <<queued, out>>
        BY <1>5 DEF Streamed, Reads, Send, networkVars, targetVars
  <2>2. Continue(Head(stream[s])) \in Commands
        BY <2>1, CommandKinds
  <2>3. Append(inbox.commands, Continue(Head(stream[s]))) \in Seq(Commands)
        BY <2>2 DEF Commanded
  <2>4. \/ inbox'.commands = Append(inbox.commands, Continue(Head(stream[s])))
        \/ inbox' = inbox
        BY <1>0, <1>5 DEF Reads, Send, targetVars
  <2> QED
      BY <1>4, <2>1, <2>3, <2>4 DEF Commanded
<1>6. ASSUME NEW s \in Streams, Listens(s) \/ Drops(s) PROVE Commanded'
  <2>1. UNCHANGED <<queued, out>> /\ inbox'.commands = inbox.commands
        BY <1>0, <1>6 DEF Listens, Drops, Send, networkVars, targetVars
  <2> QED
      BY <1>4, <2>1 DEF Commanded
<1>7. ASSUME Authenticates \/ UNCHANGED vars PROVE Commanded'
  <2>1. UNCHANGED <<queued, out>> /\ inbox'.commands = inbox.commands
        BY <1>0, <1>7 DEF Authenticates, Send, networkVars, targetVars, vars
  <2> QED
      BY <1>4, <2>1 DEF Commanded
<1> QED
    BY <1>1, <1>2, <1>3, <1>5, <1>6, <1>7 DEF Next

Reporting == reports \in Seq(Reports) /\ reported \in Seq(Reports)

LEMMA ReportingStep ==
  Shapes /\ Bounded /\ MeasuredAll /\ Reporting /\ [Next]_vars => Reporting'
<1> SUFFICES ASSUME Shapes, Bounded, MeasuredAll, Reporting, [Next]_vars PROVE Reporting'
    OBVIOUS
<1>1. ASSUME NEW r \in Requests, Browser(r) PROVE Reporting'
  <2>1. UNCHANGED reported
        BY <1>1, BrowserFacts DEF targetVars
  <2>2. CASE Responds(r) \/ Ends(r)
    <3>1. Conclude(r)
          BY <2>2 DEF Responds, Ends, OnResponseReceived, OnLoadingOver
    <3>2. CASE r \in DOMAIN tracked
      <4>1. /\ tracked[r].hops \in Nat /\ Owed(r) \in Nat /\ tracked[r].hops + Owed(r) <= req[r].hop
            /\ req[r].hop \in Nat /\ req[r].hop <= MaxHops /\ MaxHops \in Nat
            BY <3>2, NetworkAssumption, KeptFacts DEF MeasuredAll, Measured, Owed, Bounded
      <4>2. tracked[r].hops \in 0 .. MaxHops
            BY <4>1
      <4>3. [id |-> r, hops |-> tracked[r].hops] \in Reports
            BY <4>2 DEF Reports
      <4>4. reports' = Append(reports, [id |-> r, hops |-> tracked[r].hops])
            BY <3>1, <3>2 DEF Conclude
      <4> QED
          BY <2>1, <4>3, <4>4 DEF Reporting
    <3>3. CASE r \notin DOMAIN tracked
          BY <2>1, <3>1, <3>3 DEF Conclude, Reporting
    <3> QED
        BY <3>2, <3>3
  <2>3. CASE ~ (Responds(r) \/ Ends(r))
    <3>1. UNCHANGED reports
          BY <1>1, <2>3 DEF Browser, Begins, Tells, Pauses, Passes, Challenges, Redirects, networkVars,
                            OnRequestWillBeSent, OnRequestPaused, OnAuthRequired
    <3> QED
        BY <2>1, <3>1 DEF Reporting
  <2> QED
      BY <2>2, <2>3
<1>2. ASSUME Poll PROVE Reporting'
  <2>1. reports' = <<>> /\ reported' = reported \o reports
        BY <1>2, PollFacts
  <2> QED
      BY <2>1 DEF Reporting
<1>3. ASSUME BrowserReads \/ Authenticates \/ (\E s \in Streams : Listens(s) \/ Reads(s) \/ Drops(s))
               \/ UNCHANGED vars
      PROVE  Reporting'
  <2>1. UNCHANGED <<reports, reported>>
        BY <1>3 DEF BrowserReads, Authenticates, Listens, Reads, Drops, Send, networkVars,
                    targetVars, vars
  <2> QED
      BY <2>1 DEF Reporting
<1> QED
    BY <1>1, <1>2, <1>3 DEF Next

\* A hop that was paused is not to be paused again.
Past(id) == \/ id[2] < req[id[1]].hop
            \/ id[2] = req[id[1]].hop /\ req[id[1]].pause # "due"
Logged == (\A n \in DOMAIN log : Past(log[n])) /\ IsInjective(log)

\* A request goes on to a hop behind the present one, or what was paused or passed stays so.
Advances(x) == \/ req'[x].hop > req[x].hop
               \/ /\ req'[x].hop = req[x].hop
                  /\ req[x].pause # "due" => req'[x].pause # "due"

LEMMA AllAdvance == ASSUME Shapes, [Next]_vars, NEW x \in Requests PROVE Advances(x)
<1>0. req \in [Requests -> Requested] /\ req[x] \in Requested /\ req[x].hop \in Nat
      BY DEF Shapes, Requested
<1>1. ASSUME NEW r \in Requests, Browser(r) PROVE Advances(x)
  <2>1. CASE x # r
        BY <1>1, <2>1, BrowserFacts DEF Advances
  <2>2. CASE x = r
    <3>0. r \in DOMAIN req /\ req[r] \in Requested
          BY <1>0, <2>2
    <3>1. ASSUME Redirects(r) PROVE Advances(r)
      <4>1. req'[r].hop = req[r].hop + 1
            BY <3>0, <3>1 DEF Redirects, Requested
      <4> QED
          BY <1>0, <2>2, <4>1 DEF Advances
    <3>2. ASSUME Pauses(r) \/ Passes(r) PROVE Advances(r)
          BY <3>0, <3>2 DEF Pauses, Passes, Advances, Requested
    <3>3. ASSUME NEW data \in BOOLEAN, Begins(r, data) PROVE Advances(r)
          BY <3>0, <3>3 DEF Begins, Advances, Requested
    <3>4. ASSUME Tells(r) PROVE Advances(r)
          BY <3>0, <3>4 DEF Tells, Advances, Requested
    <3>5. ASSUME Challenges(r) PROVE Advances(r)
          BY <3>0, <3>5 DEF Challenges, Advances, Requested
    <3>6. ASSUME Responds(r) \/ Ends(r) PROVE Advances(r)
          BY <3>0, <3>6 DEF Responds, Ends, Advances, Requested
    <3> QED
        BY <1>1, <2>2, <3>1, <3>2, <3>3, <3>4, <3>5, <3>6 DEF Browser
  <2> QED
      BY <2>1, <2>2
<1>2. ASSUME BrowserReads PROVE Advances(x)
  <2>1. Obey(Head(out))
        BY <1>2 DEF BrowserReads
  <2>2. \A q \in Requested :
          /\ Continued(q).hop = q.hop /\ Continued(q).pause = "continued"
          /\ \A answer : Replied(q, answer).hop = q.hop /\ Replied(q, answer).pause = q.pause
    <3> SUFFICES ASSUME NEW q \in Requested
                 PROVE  /\ Continued(q).hop = q.hop /\ Continued(q).pause = "continued"
                        /\ \A answer : /\ Replied(q, answer).hop = q.hop
                                       /\ Replied(q, answer).pause = q.pause
        OBVIOUS
    <3>1. Continued(q).pause = "continued"
          BY DEF Continued, Requested
    <3> QED
        BY <3>1, ReplyFacts
  <2>3. CASE UNCHANGED req
        BY <1>0, <2>3 DEF Advances
  <2>4. ASSUME NEW r \in Requests,
               NEW v \in {Continued(req[r]), Replied(req[r], Head(out).answer)},
               req' = [req EXCEPT ![r] = v]
        PROVE  Advances(x)
    <3>1. v.hop = req[r].hop /\ (v.pause = "continued" \/ v.pause = req[r].pause)
          BY <1>0, <2>2, <2>4
    <3>2. req'[x] = IF x = r THEN v ELSE req[x]
          BY <1>0, <2>4
    <3> QED
        BY <3>1, <3>2 DEF Advances
  <2> QED
      BY <2>1, <2>3, <2>4, ObeyFacts
<1>3. ASSUME Poll \/ Authenticates \/ (\E s \in Streams : Listens(s) \/ Reads(s) \/ Drops(s))
               \/ UNCHANGED vars
      PROVE  Advances(x)
  <2>1. UNCHANGED req
        BY <1>3 DEF Poll, Authenticates, Listens, Reads, Drops, vars, browserVars
  <2> QED
      BY <2>1 DEF Advances
<1> QED
    BY <1>1, <1>2, <1>3 DEF Next

LEMMA PastStays == ASSUME Shapes, [Next]_vars, NEW id \in Ids, Past(id) PROVE Past(id)'
<1>1. PICK x \in Requests, hop \in Nat : id[1] = x /\ id[2] = hop
  <2>1. 0 .. MaxHops \subseteq Nat
        BY NetworkAssumption
  <2> QED
      BY <2>1 DEF Ids
<1>2. hop < req[x].hop \/ (hop = req[x].hop /\ req[x].pause # "due")
      BY <1>1 DEF Past
<1>3. Advances(x) /\ req[x].hop \in Nat /\ req'[x].hop \in Nat
  <2>1. req[x] \in Requested /\ req'[x] \in Requested
        BY ShapesStep DEF Shapes
  <2> QED
      BY <2>1, AllAdvance DEF Requested
<1>4. hop < req'[x].hop \/ (hop = req'[x].hop /\ req'[x].pause # "due")
      BY <1>2, <1>3 DEF Advances
<1> QED
    BY <1>1, <1>4 DEF Past

LEMMA LoggedInit == Init => Logged
<1> SUFFICES ASSUME Init PROVE Logged
    OBVIOUS
<1>1. DOMAIN log = {}
      BY DEF Init
<1> QED
    BY <1>1 DEF Logged, IsInjective

\* The paused hop e, which is logged behind the others.
LoggedNow(e) ==
  /\ log' = Append(log, e) /\ e \in Ids /\ Past(e)' /\ \A n \in DOMAIN log : log[n] # e

LEMMA PausesLogged ==
  ASSUME Shapes, Bounded, Logged, NEW r \in Requests, Pauses(r)
  PROVE  \E e : LoggedNow(e)
<1>0. PICK e : e = <<r, req[r].hop>>
      OBVIOUS
<1>1. /\ req \in [Requests -> Requested] /\ req[r] \in Requested
      /\ req[r].hop \in Nat /\ req[r].pause = "due" /\ log' = Append(log, e)
      /\ req' = [req EXCEPT ![r].pause = "paused"]
      BY <1>0 DEF Shapes, Pauses, Requested
<1>2. e \in Ids /\ e[1] = r /\ e[2] = req[r].hop
      BY <1>0, PresentId
<1>3. req'[r].hop = req[r].hop /\ req'[r].pause = "paused"
      BY <1>1 DEF Requested
<1>4. Past(e)'
      BY <1>2, <1>3 DEF Past
<1>5. ~ Past(e)
      BY <1>1, <1>2 DEF Past
<1> QED
    BY <1>1, <1>2, <1>4, <1>5 DEF Logged, LoggedNow

LEMMA LoggedStep == Shapes /\ Bounded /\ Streamed /\ Logged /\ [Next]_vars => Logged'
<1> SUFFICES ASSUME Shapes, Bounded, Streamed, Logged, [Next]_vars PROVE Logged'
    OBVIOUS
<1>0. /\ log \in Seq(Ids) /\ Listed(log) /\ Len(log) \in Nat /\ DOMAIN log = 1 .. Len(log)
      /\ \A n \in DOMAIN log : log[n] \in Ids
      BY DEF Streamed, Listed
<1>1. \A id \in Ids : Past(id) => Past(id)'
      BY PastStays
<1>2. ASSUME NEW r \in Requests, Pauses(r) PROVE Logged'
  <2>1. PICK e : LoggedNow(e)
        BY <1>2, PausesLogged
  <2>2. /\ log' = Append(log, e) /\ Past(e)' /\ \A n \in DOMAIN log : log[n] # e
        BY <2>1 DEF LoggedNow
  <2>3. /\ DOMAIN log' = 1 .. Len(log) + 1 /\ log'[Len(log) + 1] = e
        /\ \A n \in DOMAIN log : log'[n] = log[n]
        BY <1>0, <2>2, AppendFacts
  <2>4. \A n \in DOMAIN log' : n \in DOMAIN log \/ n = Len(log) + 1
        BY <1>0, <2>3
  <2>5. ASSUME NEW n \in DOMAIN log' PROVE \E id \in Ids : log'[n] = id /\ Past(id)'
    <3>1. e \in Ids
          BY <2>1 DEF LoggedNow
    <3>2. CASE n \in DOMAIN log
          BY <1>0, <1>1, <2>3, <3>2 DEF Logged
    <3>3. CASE n = Len(log) + 1
          BY <2>2, <2>3, <3>1, <3>3
    <3> QED
        BY <2>4, <3>2, <3>3
  <2>6. \A n \in DOMAIN log' : Past(log[n])'
        BY <2>5 DEF Past
  <2>7. IsInjective(log')
        BY <2>2, <2>3, <2>4 DEF Logged, IsInjective
  <2> QED
      BY <2>6, <2>7 DEF Logged
<1>3. ASSUME UNCHANGED log PROVE Logged'
  <2>1. ASSUME NEW n \in DOMAIN log' PROVE Past(log[n])'
    <3>1. PICK id \in Ids : log[n] = id /\ log'[n] = id /\ Past(id)
          BY <1>0, <1>3, <2>1 DEF Logged
    <3>2. Past(id)'
          BY <1>1, <3>1
    <3> QED
        BY <3>1, <3>2 DEF Past
  <2> QED
      BY <1>3, <2>1 DEF Logged
<1>4. (\E r \in Requests : Pauses(r)) \/ UNCHANGED log
      BY DEF Next, Authenticates, Poll, BrowserReads, Listens, Reads, Drops, Browser, Begins, Tells,
             Passes, Challenges, Responds, Redirects, Ends, Unread, vars
<1> QED
    BY <1>2, <1>3, <1>4

\* What TypeOK says, and what it takes that a step keeps it.
Typed ==
  /\ Bounded /\ Streaming /\ Flags /\ Managed /\ MeasuredAll /\ Commanded /\ Reporting /\ Logged

LEMMA TypedInit == Init => Typed
<1>1. Init => Reporting
  <2> SUFFICES ASSUME Init PROVE Reporting
      OBVIOUS
  <2>1. reports = <<>> /\ reported = <<>> /\ <<>> \in Seq(Reports)
        BY DEF Init, NetworkInit
  <2> QED
      BY <2>1 DEF Reporting
<1> QED
    BY <1>1, BoundedInit, StreamingInit, FlagsInit, ManagedInit, MeasuredInit, CommandedInit,
       LoggedInit DEF Typed

LEMMA TypedStep == Shapes /\ Typed /\ [Next]_vars => Typed'
<1> SUFFICES ASSUME Shapes, Typed, [Next]_vars PROVE Typed'
    OBVIOUS
<1>1. Streamed
      BY DEF Typed, Streaming
<1>2. Bounded' /\ Streaming' /\ Flags'
      BY BoundedStep, StreamingStep, FlagsStep DEF Typed
<1>3. Managed' /\ MeasuredAll'
      BY ManagedStep DEF Typed
<1>4. Commanded' /\ Reporting' /\ Logged'
      BY <1>1, CommandedStep, ReportingStep, LoggedStep DEF Typed
<1> QED
    BY <1>2, <1>3, <1>4 DEF Typed

LEMMA TypedIsTypeOK == Shapes /\ Typed => TypeOK
<1> SUFFICES ASSUME Shapes, Typed PROVE TypeOK
    OBVIOUS
<1>1. /\ {user, credentials, intercepting, fetching, cache} \subseteq BOOLEAN
      /\ inbox.credentials \in BOOLEAN
      BY DEF Typed, Flags
<1>2. ASSUME NEW r \in DOMAIN tracked
      PROVE  r \in Requests /\ tracked[r] \in [id : Ids \cup {NoId}, hops : 0 .. MaxHops]
  <2>1. r \in Requests /\ tracked[r] \in [id : Ids \cup {NoId}, hops : Nat]
        BY DEF Shapes, Typed, Managed
  <2>2. /\ tracked[r].hops \in Nat /\ Owed(r) \in Nat /\ tracked[r].hops + Owed(r) <= req[r].hop
        /\ req[r].hop \in Nat /\ req[r].hop <= MaxHops /\ MaxHops \in Nat
        BY <2>1, NetworkAssumption, KeptFacts DEF Typed, MeasuredAll, Measured, Owed, Bounded
  <2>3. tracked[r].hops \in 0 .. MaxHops
        BY <2>2
  <2> QED
      BY <2>1, <2>3
<1>3. /\ parked \in [DOMAIN parked -> BOOLEAN] /\ DOMAIN parked \subseteq Requests
      /\ \A r \in DOMAIN early : r \in Requests /\ early[r] \in Ids
      /\ attempted \subseteq Ids
      BY DEF Typed, Managed
<1>4. /\ {queued, out, inbox.commands} \subseteq Seq(Commands)
      /\ {reports, reported} \subseteq Seq(Reports)
      BY DEF Typed, Commanded, Reporting
<1>5. /\ inbox.listens \in Seq(Streams) /\ log \in Seq(Ids) /\ IsInjective(log)
      /\ DOMAIN since \subseteq Streams /\ dropped \subseteq Streams /\ Distinct(subs)
      BY DEF Typed, Streaming, Streamed, Logged
<1>6. IsInjective([n \in DOMAIN subs |-> subs[n].stream])
      BY <1>5 DEF IsInjective, Distinct
<1> QED
    BY <1>1, <1>2, <1>3, <1>4, <1>5, <1>6 DEF TypeOK

-----------------------------------------------------------------------------
(* The theorems.                                                           *)

LEMMA Inductive == Spec => []IInv
<1>1. Init => IInv
      BY ShapesInit, FollowsInit, ReportedInit, AnsweredInit, OffersInit DEF IInv
<1>2. IInv /\ [Next]_vars => IInv'
      BY ShapesStep, FollowsStep, ReportedStep, AnsweredStep, OffersStep DEF IInv
<1> QED
    BY <1>1, <1>2, PTL DEF Spec

\* While a hop is paused, or goes on after that, its request is tracked under the
\* interception id of that hop, with the hops before it: network.rs:135-149, 193-208.
THEOREM PausedHopsAreTracked == Spec => []TracksThePausedHop
<1>1. IInv => TracksThePausedHop
      BY DEF IInv, FollowsAll, Kept, IsOpen, Follows, TracksThePausedHop
<1> QED
    BY <1>1, Inductive, PTL

\* No request is reported twice, and one that is over was reported with its whole chain of
\* redirects, unless it is odd: network.rs:193-271.
THEOREM RequestsAreAccountedFor == Spec => []AccountsForRequests
<1>1. IInv => AccountsForRequests
      BY DEF IInv, ReportedOnce, IsOpen, AccountsForRequests
<1> QED
    BY <1>1, Inductive, PTL

\* Credentials are offered to a server once in each hop: network.rs:151-171.
THEOREM CredentialsOnce == Spec => []CredentialsAreOfferedOnce
<1>1. IInv => CredentialsAreOfferedOnce
      BY DEF IInv, Offers, OfferedOnce, CredentialsAreOfferedOnce
<1> QED
    BY <1>1, Inductive, PTL

\* However the subscriptions are taken out and put back by a poll, and others come and go,
\* each one loses no event and changes no order: listeners.rs:23-45, 81-95, 141-161.
THEOREM StreamsDeliver == Spec => []StreamsMissNothing
<1>1. Init => Bounded /\ Streaming
      BY BoundedInit, StreamingInit
<1>2. IInv /\ Bounded /\ Streaming /\ [Next]_vars => (Bounded /\ Streaming)'
      BY BoundedStep, StreamingStep DEF IInv
<1>3. Streaming => StreamsMissNothing
      BY DEF Streaming
<1> QED
    BY <1>1, <1>2, <1>3, Inductive, PTL DEF Spec

\* What the manager keeps is about requests it was told of, a hop is paused once, and a
\* stream has one subscription: network.rs:22-38, listeners.rs:16-19, target.rs:58-95.
THEOREM PageClientTypeCorrect == Spec => []TypeOK
<1>1. Init => Typed
      BY TypedInit
<1>2. IInv /\ Typed /\ [Next]_vars => Typed'
      BY TypedStep DEF IInv
<1>3. IInv /\ Typed => TypeOK
      BY TypedIsTypeOK DEF IInv
<1> QED
    BY <1>1, <1>2, <1>3, Inductive, PTL DEF Spec

=============================================================================
