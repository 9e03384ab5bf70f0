-------------------------- MODULE HandlerRefinement --------------------------
(***************************************************************************)
(* Handler implements Rpc: whatever the handler, its clients and the       *)
(* browser do, a call has at most one outcome, and an answer is its own.   *)
(*                                                                         *)
(* Every step that changes an outcome is a client's, or sends a verdict    *)
(* through Conclude.  The shape of a verdict is plain from the code; that  *)
(* an answer is the client's own is the invariant of HandlerProof.         *)
(***************************************************************************)
EXTENDS HandlerProof

-----------------------------------------------------------------------------
(* The outcomes a step may leave.                                          *)

\* Only an answer comes from a request.
OutcomesFormed ==
  \A r \in Requests : outcome[r].status # "answered" => outcome[r].from = NoRequest

\* A verdict: a failure or somebody's answer.
IsVerdict(v) == v \in Promise!Failures \/ v.status = "answered"

\* What changes is the outcome of calls that wait, and it changes to a verdict.
Concluding ==
  \A r \in Requests :
    outcome'[r] # outcome[r] => outcome[r].status = "waiting" /\ IsVerdict(outcome'[r])

LEMMA FailsIsVerdict ==
  \A status \in {"error", "timeout", "initfailed", "canceled"} : IsVerdict(Fails(status))
BY DEF IsVerdict, Fails, Promise!Failures

LEMMA AnswerIsVerdict == \A r : IsVerdict(AnswerOf(r))
BY DEF IsVerdict, AnswerOf

LEMMA ConcludeConcludes ==
  ASSUME NEW verdict, Conclude(verdict),
         \A r \in Requests : r \in DOMAIN verdict => IsVerdict(verdict[r])
  PROVE  Concluding
BY FailsIsVerdict DEF Conclude, Concluding, IsWaiting

LEMMA NobodyConcludes ==
  ASSUME Conclude(Nobody)
  PROVE  Concluding
BY ConcludeConcludes DEF Nobody

LEMMA TellConcludes ==
  ASSUME NEW r, NEW v, IsVerdict(v), Tell(r, v)
  PROVE  Concluding
BY ConcludeConcludes DEF Tell

LEMMA UnchangedConcludes ==
  ASSUME UNCHANGED outcome
  PROVE  Concluding
BY DEF Concluding

-----------------------------------------------------------------------------
(* The handler's steps send verdicts.                                      *)

LEMMA PollMailboxConcludes ==
  ASSUME PollMailbox
  PROVE  Concluding
<1>1. \/ Conclude(Nobody)
      \/ Tell(Head(mailbox).req, Fails("error"))
      \/ Tell(Head(mailbox).req, AnswerOf(Head(mailbox).req))
  BY DEF PollMailbox, SubmitExternalCommand, SubmitFetchTargets, SubmitClose, CreatePage,
         SendPages
<1> QED BY <1>1, NobodyConcludes, TellConcludes, FailsIsVerdict, AnswerIsVerdict

LEMMA PollTargetsConcludes ==
  ASSUME PollTargets
  PROVE  Concluding
<1> PICK t \in Targets :
      \/ OnTargetMessage(t) \/ SubmitInternalCommand(t)
      \/ \E e \in queued[t] : SubmitNavigation(t, e)
      \/ \E e \in watched[t], ok \in BOOLEAN : OnNavigationLifecycleCompleted(t, e, ok)
      \/ SendPageToInitiator(t) \/ OnInitializationFailed(t)
  BY DEF PollTargets
<1>1. CASE OnTargetMessage(t)
  BY <1>1, NobodyConcludes DEF OnTargetMessage
<1>2. CASE SubmitInternalCommand(t) \/ \E e \in queued[t] : SubmitNavigation(t, e)
  BY <1>2, UnchangedConcludes DEF SubmitInternalCommand, SubmitNavigation
<1>3. ASSUME NEW e \in watched[t], NEW ok \in BOOLEAN, OnNavigationLifecycleCompleted(t, e, ok)
      PROVE  Concluding
  <2> DEFINE done == {n \in {m \in navigations : m.id = e.nav} : ~ok \/ n.response # NoRequest}
             verdict == [r \in {n.req : n \in done} |->
                           IF ok THEN AnswerOf((CHOOSE n \in done : n.req = r).response)
                           ELSE Fails("error")]
  <2>1. Conclude(verdict)
    BY <1>3 DEF OnNavigationLifecycleCompleted
  <2>2. \A r \in DOMAIN verdict : IsVerdict(verdict[r])
    BY FailsIsVerdict, AnswerIsVerdict
  <2> HIDE DEF verdict
  <2> QED BY <2>1, <2>2, ConcludeConcludes
<1>4. CASE SendPageToInitiator(t)
  BY <1>4, TellConcludes, AnswerIsVerdict DEF SendPageToInitiator
<1>5. CASE OnInitializationFailed(t)
  <2> DEFINE verdict == [r \in {initiator[t]} \ {NoRequest} |-> Fails("initfailed")]
  <2>1. Conclude(verdict) /\ \A r \in DOMAIN verdict : IsVerdict(verdict[r])
    BY <1>5, FailsIsVerdict DEF OnInitializationFailed
  <2> HIDE DEF verdict
  <2> QED BY <2>1, ConcludeConcludes
<1> QED BY <1>1, <1>2, <1>3, <1>4, <1>5

LEMMA PollSocketConcludes ==
  ASSUME PollSocket
  PROVE  Concluding
<1>1. ASSUME NEW p \in pending,
             \/ OnCreateTargetResponse(p) \/ OnGetTargetsResponse(p)
             \/ OnExternalResponse(p) \/ OnInternalResponse(p) \/ OnCloseResponse(p)
      PROVE  Concluding
  <2>1. \/ Conclude(Nobody) \/ UNCHANGED outcome
        \/ Tell(p.of, Fails("error")) \/ Tell(p.of, AnswerOf(Read.req))
    BY <1>1 DEF OnCreateTargetResponse, OnGetTargetsResponse, OnExternalResponse,
                OnInternalResponse, OnCloseResponse
  <2> QED BY <2>1, NobodyConcludes, UnchangedConcludes, TellConcludes, FailsIsVerdict,
             AnswerIsVerdict
<1>2. ASSUME NEW p \in pending, OnNavigationResponse(p)
      PROVE  Concluding
  <2> DEFINE done == {n \in {m \in navigations : m.id = p.of} : n.navigated}
             verdict == [r \in {n.req : n \in done} |-> AnswerOf(Read.req)]
  <2>1. Conclude(verdict)
    BY <1>2 DEF OnNavigationResponse
  <2>2. \A r \in DOMAIN verdict : IsVerdict(verdict[r])
    BY AnswerIsVerdict
  <2> HIDE DEF verdict
  <2> QED BY <2>1, <2>2, ConcludeConcludes
<1>3. ASSUME OnUnknownResponse \/ OnTargetCreatedEvent \/ OnTargetDestroyed \/ ConnectionFails
      PROVE  Concluding
  BY <1>3, NobodyConcludes, UnchangedConcludes
  DEF OnUnknownResponse, OnTargetCreatedEvent, OnTargetDestroyed, ConnectionFails
<1> QED BY <1>1, <1>2, <1>3 DEF PollSocket

LEMMA EvictConcludes ==
  ASSUME Evict
  PROVE  Concluding
<1> PICK late \in SUBSET pending : EvictTimedOutCommands(late)
  BY DEF Evict
<1> DEFINE expired == {n \in navigations :
                         n.id \in {p.of : p \in {q \in late : q.kind = "Navigate"}}}
           verdict == [r \in {p.of : p \in {q \in late : q.kind \in SenderKinds}}
                               \cup {n.req : n \in expired} |-> Fails("timeout")]
<1>1. Conclude(verdict) /\ \A r \in DOMAIN verdict : IsVerdict(verdict[r])
  BY FailsIsVerdict DEF EvictTimedOutCommands
<1> HIDE DEF verdict
<1> QED BY <1>1, ConcludeConcludes

LEMMA HandlerConcludes ==
  ASSUME PollMailbox \/ PollTargets \/ PollSocket \/ Evict \/ PollAgain \/ DropHandler
  PROVE  Concluding
<1>1. CASE PollAgain
  BY <1>1, UnchangedConcludes DEF PollAgain
<1>2. CASE DropHandler
  BY <1>2, NobodyConcludes DEF DropHandler
<1> QED BY <1>1, <1>2, PollMailboxConcludes, PollTargetsConcludes, PollSocketConcludes,
           EvictConcludes

-----------------------------------------------------------------------------
(* Steps of Handler are steps of Rpc.                                      *)

\* The verdicts of a step are concluded together: failures, and answers, which by
\* OwnAnswer are the clients' own.
LEMMA ConcludingRefines ==
  ASSUME TypeOK, TypeOK', OwnAnswer', OutcomesFormed, Concluding
  PROVE  Promise!Conclude /\ OutcomesFormed'
<1> DEFINE S == {r \in Requests : outcome'[r] # outcome[r]}
           verdict == [r \in S |-> outcome'[r]]
<1>1. \A r \in S : r \in Requests /\ outcome[r] = Promise!Waiting
  BY DEF Concluding, OutcomesFormed, TypeOK, Outcomes, Promise!Waiting
<1>2. \A r \in S : verdict[r] \in Promise!Failures \cup {Promise!Answer(r)}
  BY DEF Concluding, IsVerdict, OwnAnswer, TypeOK, Outcomes, Promise!Answer
<1>3. outcome' = [r \in Requests |-> IF r \in S THEN verdict[r] ELSE outcome[r]]
  BY DEF TypeOK
<1>4. OutcomesFormed'
  BY DEF Concluding, IsVerdict, OutcomesFormed, Promise!Failures
<1>5. S \in SUBSET {r \in Requests : outcome[r] = Promise!Waiting}
  BY <1>1
<1>6. verdict \in [S -> Promise!Failures \cup {Promise!Answer(r) : r \in S}]
  BY <1>2
<1> HIDE DEF S, verdict
<1> QED BY <1>2, <1>3, <1>4, <1>5, <1>6 DEF Promise!Conclude

LEMMA ClientsRefine ==
  ASSUME TypeOK, OutcomesFormed, Clients
  PROVE  Promise!Next /\ OutcomesFormed'
<1> PICK r \in Requests :
      \/ \E kind \in Kinds : AskBrowser(r, kind) \/ \E t \in Targets : AskPage(r, kind, t)
      \/ Abandon(r)
  BY DEF Clients
<1>1. CASE Abandon(r)
  <2>1. outcome[r] = Promise!Waiting
    BY <1>1 DEF Abandon, IsWaiting, TypeOK, Outcomes, OutcomesFormed, Promise!Waiting
  <2>2. outcome' = [outcome EXCEPT ![r] = Promise!Abandoned]
    BY <1>1 DEF Abandon, Fails, Promise!Abandoned
  <2>3. OutcomesFormed'
    BY <2>2 DEF OutcomesFormed, TypeOK, Promise!Abandoned
  <2> QED BY <2>1, <2>2, <2>3 DEF Promise!Next, Promise!Abandon
<1>2. CASE \E kind \in Kinds : AskBrowser(r, kind) \/ \E t \in Targets : AskPage(r, kind, t)
  <2>1. outcome[r].status = "idle" /\ outcome' = [outcome EXCEPT ![r] = Promise!Waiting]
    BY <1>2 DEF AskBrowser, AskPage, Fails, Promise!Waiting
  <2>2. outcome[r] = Promise!Idle
    BY <2>1 DEF TypeOK, Outcomes, OutcomesFormed, Promise!Idle
  <2>3. OutcomesFormed'
    BY <2>1 DEF OutcomesFormed, TypeOK, Promise!Waiting
  <2> QED BY <2>1, <2>2, <2>3 DEF Promise!Next, Promise!Ask
<1> QED BY <1>1, <1>2

LEMMA StepRefines ==
  ASSUME TypeOK, TypeOK', OwnAnswer', OutcomesFormed, [Next]_vars
  PROVE  [Promise!Next]_outcome /\ OutcomesFormed'
<1>1. CASE Clients
  BY <1>1, ClientsRefine
<1>2. CASE PollMailbox \/ PollTargets \/ PollSocket \/ Evict \/ PollAgain \/ DropHandler
  BY <1>2, HandlerConcludes, ConcludingRefines DEF Promise!Next
<1>3. CASE UNCHANGED outcome
  BY <1>3 DEF OutcomesFormed
<1>4. CASE Browser
  BY <1>3, <1>4 DEF Browser, Respond, CreateTab, OpenTab, CloseTab, BreakConnection
<1>5. CASE UNCHANGED vars
  BY <1>3, <1>5 DEF vars
<1> QED BY <1>1, <1>2, <1>4, <1>5 DEF Next

-----------------------------------------------------------------------------

\* The request tracking keeps the promise of the crate's asynchronous functions:
\* each call is asked once and concluded at most once, with a failure or with the
\* response to the very command it issued.
THEOREM HandlerImplementsRpc == Spec => ImplementsRpc
<1>1. Init => Promise!Init /\ OutcomesFormed
  BY DEF Init, Fails, OutcomesFormed, Promise!Init, Promise!Idle
<1>2. TypeOK /\ TypeOK' /\ OwnAnswer' /\ OutcomesFormed /\ [Next]_vars
        => [Promise!Next]_outcome /\ OutcomesFormed'
  BY StepRefines
<1> QED BY <1>1, <1>2, TypeCorrect, AnswersAreOwn, PTL DEF Spec, ImplementsRpc, Promise!Spec
=============================================================================
