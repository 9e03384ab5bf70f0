-------------------------------- MODULE Rpc --------------------------------
(***************************************************************************)
(* What the crate promises to the caller of an asynchronous API function.  *)
(*                                                                         *)
(* Every call (Browser::execute, new_page, fetch_targets, close, goto, ..) *)
(* creates a oneshot channel and hands the sending half to the Handler.    *)
(* Seen from outside, a call is asked once and then has at most one        *)
(* outcome, and an answer is the answer to that call and to no other.      *)
(***************************************************************************)
CONSTANTS Requests,     \* the calls clients make, each with its oneshot channel
          NoRequest     \* stands for "no call"

VARIABLE outcome        \* what each call's receiving half has seen so far

Idle      == [status |-> "idle",      from |-> NoRequest]
Waiting   == [status |-> "waiting",   from |-> NoRequest]
Abandoned == [status |-> "abandoned", from |-> NoRequest]

\* The response to the command that call r issued.
Answer(r) == [status |-> "answered", from |-> r]

\* An outcome without a response: a protocol or URL error, an expired request,
\* a page that could not be initialised, or a sender dropped without a word.
Failures == [status : {"error", "timeout", "initfailed", "canceled"},
             from   : {NoRequest}]

Init == outcome = [r \in Requests |-> Idle]

Ask(r) == /\ outcome[r] = Idle
          /\ outcome' = [outcome EXCEPT ![r] = Waiting]

\* The client drops its future, CommandFuture's own delay expiring included.
Abandon(r) == /\ outcome[r] = Waiting
              /\ outcome' = [outcome EXCEPT ![r] = Abandoned]

\* One step of the handler may conclude several calls (an eviction, a drop).
Conclude == \E S \in SUBSET {r \in Requests : outcome[r] = Waiting} :
              \E verdict \in [S -> Failures \cup {Answer(r) : r \in S}] :
                /\ \A r \in S : verdict[r] \in Failures \cup {Answer(r)}
                /\ outcome' = [r \in Requests |-> IF r \in S THEN verdict[r]
                                                  ELSE outcome[r]]

Next == (\E r \in Requests : Ask(r) \/ Abandon(r)) \/ Conclude

Spec == Init /\ [][Next]_outcome
=============================================================================
