------------------------------- MODULE Network -------------------------------
(***************************************************************************)
(* The NetworkManager of a page (src/src/handler/network.rs, http.rs): the *)
(* requests it tracks from the events of the browser, interception,        *)
(* authentication, redirects, and the report of each request when it is    *)
(* over.  PageClient composes it with the browser and the client.          *)
(***************************************************************************)
EXTENDS Naturals, SequencesExt

CONSTANTS
  Requests,      \* ids of the network domain
  CacheEnabled,  \* TargetConfig::cache_enabled
  MaxHops        \* bound: redirects of a request

ASSUME NetworkAssumption == CacheEnabled \in BOOLEAN /\ MaxHops \in Nat

VARIABLES
  user,          \* NetworkManager::user_request_interception_enabled
  credentials,   \* NetworkManager::credentials are there
  intercepting,  \* NetworkManager::protocol_request_interception_enabled
  tracked,       \* NetworkManager::requests
  parked,        \* NetworkManager::requests_will_be_sent
  early,         \* NetworkManager::request_id_to_interception_id
  attempted,     \* NetworkManager::attempted_authentications
  queued,        \* NetworkManager::queued_events: the commands among them, in order
  reports        \* NetworkManager::queued_events: the requests that are over, in order

networkVars == <<user, credentials, intercepting, tracked, parked, early, attempted, queued, reports>>

\* A hop of a request is paused under an id of its own.
Ids == Requests \X (0 .. MaxHops)
NoId == <<>>

CacheDisabled      == [type |-> "cacheDisabled", on |-> ~CacheEnabled]
FetchEnable        == [type |-> "fetchEnable"]
Continue(id)       == [type |-> "continue", id |-> id]
Answer(id, answer) == [type |-> "auth", id |-> id, answer |-> answer]

\* What update_protocol_request_interception pushes when interception begins: the cache
\* command still has the flag's old value.
Interception == <<CacheDisabled, FetchEnable>>

\* Target::new tells the manager what the configuration says.
NetworkInit ==
  /\ user \in BOOLEAN /\ intercepting = user /\ credentials = FALSE
  /\ queued = <<CacheDisabled>> \o (IF user THEN Interception ELSE <<>>)
  /\ tracked = <<>> /\ parked = <<>> /\ early = <<>> /\ attempted = {} /\ reports = <<>>

Push(commands) == queued' = queued \o commands

-----------------------------------------------------------------------------
(* The target (PageClient!Poll) takes all events at once and passes each    *)
(* kind on in its order.                                                   *)

\* Interception never ends: set_request_interception is only called by Target::new.
Authenticate(asked) ==
  /\ credentials' = (credentials \/ asked) /\ intercepting' = (intercepting \/ asked)
  /\ UNCHANGED <<user, tracked, parked, early, attempted>>

\* The commands the manager has for the target once it has taken the credentials, if any.
Drained(asked) == queued \o (IF asked /\ ~intercepting THEN Interception ELSE <<>>)

-----------------------------------------------------------------------------
(* The events of the browser.                                              *)

\* on_request: the request r is tracked under the interception id, after the hop before
\* it if it was redirected.
Track(r, redirected, id) ==
  LET before == redirected /\ r \in DOMAIN tracked
  IN /\ tracked' = [x \in DOMAIN tracked \cup {r} |->
                      IF x # r THEN tracked[x]
                      ELSE [id |-> id, hops |-> IF before THEN tracked[r].hops + 1 ELSE 0]]
     /\ attempted' = IF before THEN attempted \ {tracked[r].id} ELSE attempted

Without(map, r) == [x \in DOMAIN map \ {r} |-> map[x]]
With(map, r, value) == [x \in DOMAIN map \cup {r} |-> IF x = r THEN value ELSE map[x]]

\* Mutant of OnRequestPaused: what is parked is not looked for.
OnRequestPausedStores(id) ==
  /\ Push(IF ~user /\ intercepting THEN <<Continue(id)>> ELSE <<>>)
  /\ early' = With(early, id[1], id) /\ UNCHANGED <<tracked, parked, attempted>>
  /\ UNCHANGED <<user, credentials, intercepting, reports>>

\* Mutant of OnRequestPaused: it is left to the client who set credentials.
OnRequestPausedWaits(id) ==
  /\ Push(IF ~user /\ ~credentials THEN <<Continue(id)>> ELSE <<>>)
  /\ IF id[1] \in DOMAIN parked
     THEN /\ Track(id[1], parked[id[1]], id)
          /\ parked' = Without(parked, id[1]) /\ UNCHANGED early
     ELSE early' = With(early, id[1], id) /\ UNCHANGED <<tracked, parked, attempted>>
  /\ UNCHANGED <<user, credentials, intercepting, reports>>

OnRequestPaused(id) ==
  /\ Push(IF ~user /\ intercepting THEN <<Continue(id)>> ELSE <<>>)
  /\ IF id[1] \in DOMAIN parked
     THEN /\ Track(id[1], parked[id[1]], id)
          /\ parked' = Without(parked, id[1]) /\ UNCHANGED early
     ELSE early' = With(early, id[1], id) /\ UNCHANGED <<tracked, parked, attempted>>
  /\ UNCHANGED <<user, credentials, intercepting, reports>>

OnRequestWillBeSent(r, redirected, data) ==
  /\ IF ~intercepting \/ data
     THEN Track(r, redirected, NoId) /\ UNCHANGED <<parked, early>>
     ELSE IF r \in DOMAIN early
          THEN /\ Track(r, redirected, early[r])
               /\ early' = Without(early, r) /\ UNCHANGED parked
          ELSE /\ parked' = With(parked, r, redirected)
               /\ UNCHANGED <<tracked, early, attempted>>
  /\ UNCHANGED <<user, credentials, intercepting, queued, reports>>

\* Mutant of OnAuthRequired: the credentials are offered whenever they are there.
OnAuthRequiredAgain(id) ==
  /\ attempted' = IF credentials THEN attempted \cup {id} ELSE attempted
  /\ Push(<<Answer(id, IF credentials THEN "provide" ELSE "default")>>)
  /\ UNCHANGED <<user, credentials, intercepting, tracked, parked, early, reports>>

OnAuthRequired(id) ==
  /\ attempted' = IF credentials THEN attempted \cup {id} ELSE attempted
  /\ Push(<<Answer(id, IF id \in attempted THEN "cancel"
                       ELSE IF credentials THEN "provide" ELSE "default")>>)
  /\ UNCHANGED <<user, credentials, intercepting, tracked, parked, early, reports>>

\* Mutant of Conclude: it stays tracked.
ConcludeKeeps(r) ==
  /\ reports' = IF r \in DOMAIN tracked
                THEN Append(reports, [id |-> r, hops |-> tracked[r].hops]) ELSE reports
  /\ UNCHANGED tracked

\* The request r is over, once: by its response, its end or its failure.
Conclude(r) ==
  IF r \in DOMAIN tracked
  THEN /\ reports' = Append(reports, [id |-> r, hops |-> tracked[r].hops])
       /\ tracked' = Without(tracked, r)
  ELSE UNCHANGED <<reports, tracked>>

OnResponseReceived(r) ==
  /\ Conclude(r)
  /\ UNCHANGED <<user, credentials, intercepting, parked, early, attempted, queued>>

\* on_network_loading_finished and on_network_loading_failed.
OnLoadingOver(r) ==
  /\ Conclude(r)
  /\ attempted' = IF r \in DOMAIN tracked THEN attempted \ {tracked[r].id} ELSE attempted
  /\ UNCHANGED <<user, credentials, intercepting, parked, early, queued>>

=============================================================================
