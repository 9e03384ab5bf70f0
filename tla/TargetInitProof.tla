--------------------------- MODULE TargetInitProof ---------------------------
(***************************************************************************)
(* Proofs about TargetInit, for chains of any length, any number of        *)
(* sessions and calls of fetch_targets, with deadlines and detached        *)
(* sessions or without.                                                    *)
(***************************************************************************)
EXTENDS TargetInit, FiniteSetTheorems, SequenceTheorems, TLAPS

-----------------------------------------------------------------------------
(* The inductive invariant.                                                *)

\* The commands of a chain the browser has not answered, and the answers to such
\* commands that the handler has not read.
Underway  == {c \in calls : c.stage \in DOMAIN Commands}
Responses == {i \in DOMAIN inbox : inbox[i].type = "response"}

\* At most one command of all chains is neither answered nor is its answer read,
\* and the target waits for it.
OneUnderway ==
  /\ \A c \in Underway : c.stage = stage /\ c.nr = issued /\ waiting
  /\ \A i \in Responses : inbox[i].stage = stage /\ inbox[i].nr = issued /\ waiting
  /\ \A c, d \in Underway : c = d
  /\ \A i, j \in Responses : i = j
  /\ Underway = {} \/ Responses = {}

InOrder == stage \notin {"absent", "closing"} /\ fetched = 0 => OneUnderway

\* Without fetch_targets a target is announced once, before there are any commands.
AnnouncedFirst ==
  /\ tab = "unborn" => stage = "absent" /\ calls = {} /\ inbox = <<>> /\ attached = {}
  /\ fetched = 0 => \A i \in DOMAIN inbox :
       /\ inbox[i].type # "listed"
       /\ inbox[i].type = "created" =>
            /\ stage = "absent" /\ calls = {} /\ Responses = {}
            /\ \A j \in DOMAIN inbox : inbox[j].type = "created" => j = i

\* 0 is not the number of a session.
SessionsAreNumbered ==
  \A i \in DOMAIN inbox : inbox[i].type = "attached" => inbox[i].session # 0

IInv == TypeOK /\ InOrder /\ AnnouncedFirst /\ SessionsAreNumbered /\ SessionIsRouted

-----------------------------------------------------------------------------
(* The chains and the messages.                                            *)

LEMMA ChainProps ==
  /\ DOMAIN Commands = {"frame", "worlds", "network", "page", "emulation"}
  /\ \A s \in DOMAIN Commands : /\ Commands[s] \in Nat
                                /\ 0 .. Commands[s] \subseteq Numbers
                                /\ Following(s) \in DOMAIN Commands \cup {"initialized"}
<1> DEFINE All == {"frame", "worlds", "network", "page", "emulation"}
<1>1. DOMAIN Commands = All
  BY DEF Commands
<1>2. \A s \in All : Commands[s] \in Nat
  BY TargetInitAssumption DEF Commands
<1>3. \A s \in All : 0 .. Commands[s] \subseteq Numbers
  BY TargetInitAssumption DEF Commands, Numbers
<1>4. ASSUME NEW s \in All PROVE Following(s) \in All \cup {"initialized"}
  <2>1. DOMAIN Stages = 1 .. 5 /\ Len(Stages) = 5 /\ \A i \in 1 .. 5 : Stages[i] \in All
    BY DEF Stages
  <2>2. PICK i \in DOMAIN Stages : i = CHOOSE j \in DOMAIN Stages : Stages[j] = s
    <3>1. \E j \in DOMAIN Stages : Stages[j] = s
      BY DEF Stages
    <3> QED
      BY <3>1
  <2>3. i # 5 => i + 1 \in 1 .. 5
    BY <2>1, <2>2
  <2> QED
    BY <2>1, <2>2, <2>3 DEF Following
<1> QED
  BY <1>1, <1>2, <1>3, <1>4

LEMMA MessageTypes ==
  ASSUME NEW type \in {"created", "listed", "creation", "attached", "detached",
                       "destroyed", "load"},
         NEW s \in SessionIds
  PROVE  /\ Event(type, s) \in Messages
         /\ Event(type, s).type = type /\ Event(type, s).session = s
BY TargetInitAssumption DEF Event, Messages, Numbers

\* A message is added to the inbox.
LEMMA SaysProps ==
  ASSUME inbox \in Seq(Messages), NEW m \in Messages, Says(m)
  PROVE  /\ inbox' \in Seq(Messages)
         /\ DOMAIN inbox = 1 .. Len(inbox) /\ Len(inbox) \in Nat
         /\ DOMAIN inbox' = 1 .. Len(inbox) + 1
         /\ \A i \in DOMAIN inbox : inbox'[i] = inbox[i]
         /\ inbox'[Len(inbox) + 1] = m
BY AppendProperties DEF Says

\* A message is read.
LEMMA ReadProps ==
  ASSUME inbox \in Seq(Messages), NEW type, Reads(type)
  PROVE  /\ inbox' \in Seq(Messages)
         /\ DOMAIN inbox = 1 .. Len(inbox) /\ Len(inbox) \in Nat \ {0}
         /\ DOMAIN inbox' = 1 .. Len(inbox) - 1
         /\ \A i \in DOMAIN inbox' : i + 1 \in DOMAIN inbox /\ inbox'[i] = inbox[i + 1]
         /\ Read = inbox[1] /\ Read \in Messages /\ Read.type = type
BY HeadTailProperties DEF Reads, Read

-----------------------------------------------------------------------------
(* The browser.                                                            *)

LEMMA InitHolds == Init => IInv
<1> SUFFICES ASSUME Init PROVE IInv
  OBVIOUS
<1>1. TypeOK
  <2>1. inbox \in Seq(Messages)
    BY EmptySeq DEF Init
  <2>2. stage = "absent" /\ ~InChain
    BY ChainProps DEF Init, InChain
  <2>3. 0 \in SessionIds /\ 0 \in 0 .. Fetches
    BY TargetInitAssumption DEF SessionIds
  <2> QED
    BY <2>1, <2>2, <2>3 DEF Init, TypeOK
<1>2. InOrder /\ AnnouncedFirst /\ SessionsAreNumbered /\ SessionIsRouted
  BY DEF Init, InOrder, AnnouncedFirst, SessionsAreNumbered, SessionIsRouted
<1> QED
  BY <1>1, <1>2 DEF IInv

\* A message that is neither an announcement nor an answer, nor about a session that is
\* none, disturbs nothing that is known of the inbox.
LEMMA OtherMessage ==
  ASSUME IInv, NEW m \in Messages, Says(m), tab # "unborn", tab' # "unborn",
         m.type \notin {"created", "response"},
         m.type = "listed" => fetched' # 0, m.type = "attached" => m.session # 0,
         UNCHANGED <<targetVars, sessions, calls>>,
         fetched' = 0 => fetched = 0
  PROVE  InOrder' /\ AnnouncedFirst' /\ SessionsAreNumbered' /\ SessionIsRouted'
<1> USE DEF IInv
<1>1. /\ inbox' \in Seq(Messages)
      /\ DOMAIN inbox = 1 .. Len(inbox) /\ Len(inbox) \in Nat
      /\ DOMAIN inbox' = 1 .. Len(inbox) + 1
      /\ \A i \in DOMAIN inbox : inbox'[i] = inbox[i]
      /\ inbox'[Len(inbox) + 1] = m
  BY SaysProps DEF TypeOK
<1>2. Responses' = Responses
  BY <1>1 DEF Responses
<1>3. Underway' = Underway
  BY DEF Underway
<1>4. InOrder'
  BY <1>1, <1>2, <1>3 DEF InOrder, OneUnderway, targetVars, chainVars, Responses
<1>5. AnnouncedFirst'
  BY <1>1, <1>2 DEF AnnouncedFirst, targetVars, chainVars
<1>6. SessionsAreNumbered'
  BY <1>1 DEF SessionsAreNumbered
<1>7. SessionIsRouted'
  BY DEF SessionIsRouted, targetVars
<1> QED
  BY <1>4, <1>5, <1>6, <1>7

LEMMA OpenTabStep == ASSUME IInv, OpenTab PROVE IInv'
<1> USE DEF IInv
<1>1. Event("created", 0) \in Messages /\ Event("created", 0).type = "created"
  BY MessageTypes, TargetInitAssumption DEF SessionIds
<1>2. Says(Event("created", 0)) /\ tab = "unborn" /\ tab' = "opening"
  BY DEF OpenTab
<1>3. inbox' = <<Event("created", 0)>> /\ stage = "absent" /\ calls = {}
  BY <1>2 DEF AnnouncedFirst, Says
<1>4. UNCHANGED <<attaching, stage, issued, waiting, session, loaded, page, initiator, sessions,
                  calls, creation, command, attached, lastSession, fetched, done>>
  BY DEF OpenTab, targetVars, chainVars, clientVars
<1>5. TypeOK'
  BY <1>1, <1>2, <1>4, SaysProps DEF TypeOK, InChain
<1>6. DOMAIN inbox' = {1} /\ inbox'[1].type = "created"
  BY <1>1, <1>3
<1>7. InOrder'
  BY <1>3, <1>4 DEF InOrder
<1>8. AnnouncedFirst'
  BY <1>2, <1>3, <1>4, <1>6 DEF AnnouncedFirst, Responses
<1>9. SessionsAreNumbered' /\ SessionIsRouted'
  BY <1>4, <1>6 DEF SessionsAreNumbered, SessionIsRouted
<1> QED
  BY <1>5, <1>7, <1>8, <1>9

\* The steps of the browser that say something and leave the target alone.
LEMMA AnswerCreationStep == ASSUME IInv, AnswerCreation PROVE IInv'
<1> USE DEF IInv
<1>1. Event("creation", 0) \in Messages /\ Event("creation", 0).type = "creation"
  BY MessageTypes, TargetInitAssumption DEF SessionIds
<1>2. Says(Event("creation", 0)) /\ tab = "opening" /\ tab' = "open"
  BY DEF AnswerCreation
<1>3. UNCHANGED <<attaching, targetVars, sessions, calls, clientVars, attached, lastSession,
                  fetched, done>>
  BY DEF AnswerCreation
<1>4. TypeOK'
  BY <1>1, <1>2, <1>3, SaysProps DEF TypeOK, InChain, targetVars, chainVars, clientVars
<1> QED
  BY <1>1, <1>2, <1>3, <1>4, OtherMessage

LEMMA ListTargetsStep == ASSUME IInv, ListTargets PROVE IInv'
<1> USE DEF IInv
<1>1. Event("listed", 0) \in Messages /\ Event("listed", 0).type = "listed"
  BY MessageTypes, TargetInitAssumption DEF SessionIds
<1>2. Says(Event("listed", 0)) /\ tab \in {"opening", "open"} /\ tab' = tab
  BY DEF ListTargets
<1>3. /\ UNCHANGED <<attaching, targetVars, sessions, calls, clientVars, attached, lastSession,
                     done>>
      /\ fetched < Fetches /\ fetched' = fetched + 1
  BY DEF ListTargets
<1>4. fetched' \in 0 .. Fetches /\ fetched' # 0
  BY <1>3, TargetInitAssumption DEF TypeOK
<1>5. TypeOK'
  BY <1>1, <1>2, <1>3, <1>4, SaysProps DEF TypeOK, InChain, targetVars, chainVars, clientVars
<1> QED
  BY <1>1, <1>2, <1>3, <1>4, <1>5, OtherMessage

LEMMA AttachSessionStep == ASSUME IInv, AttachSession PROVE IInv'
<1> USE DEF IInv
<1> DEFINE s == lastSession + 1
<1>1. s \in SessionIds \ {0}
  <2>1. lastSession \in 0 .. MaxSessions
    BY DEF TypeOK, SessionIds
  <2> QED
    BY <2>1, TargetInitAssumption DEF AttachSession, SessionIds
<1>2. Event("attached", s) \in Messages /\ Event("attached", s).type = "attached"
      /\ Event("attached", s).session = s
  BY <1>1, MessageTypes
<1>3. Says(Event("attached", s)) /\ tab \in {"opening", "open"} /\ tab' = tab
  BY DEF AttachSession
<1>4. /\ UNCHANGED <<targetVars, sessions, calls, clientVars, fetched, done>>
      /\ attaching' = attaching - 1 /\ attaching > 0
      /\ lastSession' = s /\ attached' = attached \cup {s}
  BY DEF AttachSession
<1>5. TypeOK'
  BY <1>1, <1>2, <1>3, <1>4, SaysProps DEF TypeOK, InChain, targetVars, chainVars, clientVars
<1> QED
  BY <1>1, <1>2, <1>3, <1>4, <1>5, OtherMessage

LEMMA AboutSessionStep ==
  ASSUME IInv, NEW s \in attached, DetachSession(s) \/ Load(s)
  PROVE  IInv'
<1> USE DEF IInv
<1> DEFINE type == IF DetachSession(s) THEN "detached" ELSE "load"
<1>1. Event(type, s) \in Messages /\ Event(type, s).type = type
  BY MessageTypes DEF TypeOK
<1>2. Says(Event(type, s))
  BY DEF DetachSession, Load
<1>3. /\ UNCHANGED <<attaching, targetVars, sessions, calls, clientVars, tab, lastSession,
                     fetched>>
      /\ attached' \subseteq attached /\ done' \subseteq done \cup {<<"load", 0>>}
  BY DEF DetachSession, Load, browserVars
<1>4. tab # "unborn"
  BY DEF AnnouncedFirst
<1>5. TypeOK'
  <2>1. <<"load", 0>> \in (DOMAIN Commands \cup {"load"}) \X Numbers
    BY TargetInitAssumption DEF Numbers
  <2> QED
    BY <1>1, <1>2, <1>3, <2>1, SaysProps DEF TypeOK, InChain, targetVars, chainVars, clientVars
<1> QED
  BY <1>1, <1>2, <1>3, <1>4, <1>5, OtherMessage

LEMMA RespondStep == ASSUME IInv, NEW c \in calls, Respond(c) PROVE IInv'
<1> USE DEF IInv
<1>1. Answer(c) \in Messages /\ Answer(c).type = "response"
      /\ Answer(c).stage = c.stage /\ Answer(c).nr = c.nr
  BY TargetInitAssumption DEF TypeOK, Answer, Messages, SessionIds
<1>2. /\ Says(Answer(c)) /\ c \in Underway /\ calls' = calls \ {c}
      /\ done' = done \cup {<<c.stage, c.nr>>}
      /\ UNCHANGED <<attaching, stage, issued, waiting, session, loaded, page, initiator,
                     sessions, creation, command, tab, attached, lastSession, fetched>>
  BY DEF Respond, Underway, targetVars, chainVars, clientVars, browserVars
<1>3. /\ inbox' \in Seq(Messages)
      /\ DOMAIN inbox = 1 .. Len(inbox) /\ Len(inbox) \in Nat
      /\ DOMAIN inbox' = 1 .. Len(inbox) + 1
      /\ \A i \in DOMAIN inbox : inbox'[i] = inbox[i]
      /\ inbox'[Len(inbox) + 1] = Answer(c)
  BY <1>1, <1>2, SaysProps DEF TypeOK
<1>4. TypeOK'
  <2>1. <<c.stage, c.nr>> \in (DOMAIN Commands \cup {"load"}) \X Numbers
    BY <1>2 DEF Underway, TypeOK
  <2> QED
    BY <1>2, <1>3, <2>1 DEF TypeOK, InChain
<1>5. Underway' = Underway \ {c} /\ Responses' = Responses \cup {Len(inbox) + 1}
  BY <1>1, <1>2, <1>3 DEF Underway, Responses
<1>6. InOrder'
  <2> SUFFICES ASSUME stage \notin {"absent", "closing"}, fetched = 0
               PROVE  OneUnderway'
    BY <1>2 DEF InOrder
  <2> USE DEF OneUnderway
  <2>1. /\ c.stage = stage /\ c.nr = issued /\ waiting
        /\ Underway = {c} /\ Responses = {}
    BY <1>2 DEF InOrder
  <2> QED
    BY <1>1, <1>2, <1>3, <1>5, <2>1
<1>7. AnnouncedFirst'
  BY <1>1, <1>2, <1>3 DEF AnnouncedFirst
<1>8. SessionsAreNumbered' /\ SessionIsRouted'
  BY <1>1, <1>2, <1>3 DEF SessionsAreNumbered, SessionIsRouted
<1> QED
  BY <1>4, <1>6, <1>7, <1>8

\* What a closing tab says: its sessions are detached, and it is destroyed.
LEMMA ClosingInbox ==
  ASSUME IInv, CloseTab
  PROVE  /\ inbox' \in Seq(Messages)
         /\ DOMAIN inbox = 1 .. Len(inbox) /\ Len(inbox) \in Nat
         /\ Cardinality(attached) \in Nat
         /\ DOMAIN inbox' = 1 .. Len(inbox) + Cardinality(attached) + 1
         /\ \A i \in DOMAIN inbox : inbox'[i] = inbox[i]
         /\ \A i \in DOMAIN inbox' \ DOMAIN inbox : inbox'[i].type \in {"detached", "destroyed"}
<1> USE DEF IInv
<1> DEFINE n == Cardinality(attached)
           Gone(order) == [i \in 1 .. n |-> Event("detached", order[i])]
           Last == <<Event("destroyed", 0)>>
<1>1. PICK order \in [1 .. n -> attached] : inbox' = inbox \o Gone(order) \o Last
  BY DEF CloseTab
<1>2. n \in Nat
  <2>1. IsFiniteSet(0 .. MaxSessions)
    BY FS_Interval, TargetInitAssumption
  <2>2. attached \subseteq 0 .. MaxSessions
    BY DEF TypeOK, SessionIds
  <2> QED
    BY <2>1, <2>2, FS_Subset, FS_CardinalityType
<1>3. \A i \in 1 .. n : /\ Gone(order)[i] \in Messages
                         /\ Gone(order)[i].type = "detached"
  BY MessageTypes DEF TypeOK
<1>4. Gone(order) \in Seq(Messages) /\ Len(Gone(order)) = n
  <2>1. Gone(order) \in [1 .. n -> Messages]
    BY <1>3
  <2>2. Gone(order) \in Seq(Messages)
    BY <1>2, <2>1, SeqDef
  <2>3. DOMAIN Gone(order) = 1 .. n
    OBVIOUS
  <2> HIDE DEF Gone
  <2> QED
    BY <1>2, <2>2, <2>3, LenProperties
<1>5. Last \in Seq(Messages) /\ Len(Last) = 1 /\ Last[1].type = "destroyed"
  BY MessageTypes, TargetInitAssumption DEF SessionIds
<1> HIDE DEF Gone, Last
<1>6. /\ inbox' \in Seq(Messages)
      /\ DOMAIN inbox = 1 .. Len(inbox) /\ Len(inbox) \in Nat
      /\ DOMAIN inbox' = 1 .. Len(inbox) + n + 1
      /\ \A i \in DOMAIN inbox : inbox'[i] = inbox[i]
      /\ \A i \in DOMAIN inbox' \ DOMAIN inbox : inbox'[i].type \in {"detached", "destroyed"}
  <2>1. /\ inbox \o Gone(order) \in Seq(Messages)
        /\ Len(inbox \o Gone(order)) = Len(inbox) + n
        /\ \A i \in 1 .. Len(inbox) + n :
             (inbox \o Gone(order))[i] = IF i <= Len(inbox) THEN inbox[i]
                                        ELSE Gone(order)[i - Len(inbox)]
    BY <1>4, ConcatProperties DEF TypeOK
  <2> DEFINE both == inbox \o Gone(order)
  <2>2. /\ both \o Last \in Seq(Messages)
        /\ Len(both \o Last) = Len(both) + 1
        /\ \A i \in 1 .. Len(both) + 1 :
             (both \o Last)[i] = IF i <= Len(both) THEN both[i] ELSE Last[i - Len(both)]
    <3>1. both \in Seq(Messages) /\ Last \in Seq(Messages) /\ Len(Last) = 1
      BY <1>5, <2>1
    <3> HIDE DEF both
    <3>2. /\ both \o Last \in Seq(Messages)
          /\ Len(both \o Last) = Len(both) + Len(Last)
          /\ \A i \in 1 .. Len(both) + Len(Last) :
               (both \o Last)[i] = IF i <= Len(both) THEN both[i] ELSE Last[i - Len(both)]
      BY <3>1, ConcatProperties, Zenon
    <3> QED
      BY <3>1, <3>2
  <2>3. /\ inbox' \in Seq(Messages)
        /\ Len(inbox') = Len(inbox) + n + 1
        /\ \A i \in 1 .. Len(inbox) + n + 1 :
             inbox'[i] = IF i <= Len(inbox) + n THEN both[i] ELSE Last[i - (Len(inbox) + n)]
    BY <1>1, <2>1, <2>2
  <2>4. Len(inbox) \in Nat /\ DOMAIN inbox = 1 .. Len(inbox) /\ DOMAIN inbox' = 1 .. Len(inbox')
    BY <2>3, LenProperties DEF TypeOK
  <2>5. ASSUME NEW i \in DOMAIN inbox PROVE inbox'[i] = inbox[i]
    BY <1>2, <2>1, <2>3, <2>4
  <2>6. ASSUME NEW i \in DOMAIN inbox' \ DOMAIN inbox
        PROVE  inbox'[i].type \in {"detached", "destroyed"}
    <3>1. CASE i <= Len(inbox) + n
      <4>1. i - Len(inbox) \in 1 .. n /\ inbox'[i] = Gone(order)[i - Len(inbox)]
        BY <1>2, <2>1, <2>3, <2>4, <3>1
      <4> QED
        BY <1>3, <4>1
    <3>2. CASE i > Len(inbox) + n
      <4>1. i = Len(inbox) + n + 1
        BY <1>2, <2>3, <2>4, <3>2
      <4>2. i - (Len(inbox) + n) = 1 /\ ~(i <= Len(inbox) + n) /\ i \in 1 .. Len(inbox) + n + 1
        BY <1>2, <2>4, <4>1
      <4>3. inbox'[i] = Last[1]
        BY <2>3, <4>2
      <4> QED
        BY <1>5, <4>3
    <3> QED
      BY <1>2, <2>3, <2>4, <3>1, <3>2
  <2> QED
    BY <1>2, <2>3, <2>4, <2>5, <2>6
<1> QED
  BY <1>2, <1>6

LEMMA CloseTabStep == ASSUME IInv, CloseTab PROVE IInv'
<1> USE DEF IInv
<1>1. /\ tab = "open" /\ tab' = "closed" /\ attached' = {}
      /\ UNCHANGED <<attaching, stage, issued, waiting, session, loaded, page, initiator, sessions,
                     calls, creation, command, lastSession, fetched, done>>
  BY DEF CloseTab, targetVars, chainVars, clientVars
<1>2. /\ inbox' \in Seq(Messages)
      /\ DOMAIN inbox = 1 .. Len(inbox) /\ Len(inbox) \in Nat
      /\ Cardinality(attached) \in Nat
      /\ DOMAIN inbox' = 1 .. Len(inbox) + Cardinality(attached) + 1
      /\ \A i \in DOMAIN inbox : inbox'[i] = inbox[i]
      /\ \A i \in DOMAIN inbox' \ DOMAIN inbox : inbox'[i].type \in {"detached", "destroyed"}
  BY ClosingInbox
<1>3. TypeOK'
  BY <1>1, <1>2 DEF TypeOK, InChain
<1>4. Underway' = Underway /\ Responses' = Responses
  BY <1>1, <1>2 DEF Underway, Responses
<1>5. InOrder'
  BY <1>1, <1>2, <1>4 DEF InOrder, OneUnderway, Responses
<1>6. AnnouncedFirst'
  BY <1>1, <1>2, <1>4 DEF AnnouncedFirst
<1>7. SessionsAreNumbered' /\ SessionIsRouted'
  BY <1>1, <1>2 DEF SessionsAreNumbered, SessionIsRouted
<1> QED
  BY <1>3, <1>5, <1>6, <1>7

-----------------------------------------------------------------------------
(* The handler reads the socket.                                           *)

\* What is left of the inbox is no worse than the inbox.
LEMMA AfterReading ==
  ASSUME IInv, NEW type, Reads(type)
  PROVE  /\ SessionsAreNumbered'
         /\ \A i \in Responses' : i + 1 \in Responses /\ inbox'[i] = inbox[i + 1]
         /\ /\ stage' \in {stage, "absent"}
            /\ UNCHANGED <<calls, tab, fetched, attached>>
            => AnnouncedFirst'
<1> USE DEF IInv
<1>1. /\ DOMAIN inbox' = 1 .. Len(inbox) - 1 /\ Len(inbox) \in Nat
      /\ \A i \in DOMAIN inbox' : i + 1 \in DOMAIN inbox /\ inbox'[i] = inbox[i + 1]
  BY ReadProps DEF TypeOK
<1>2. SessionsAreNumbered'
  BY <1>1 DEF SessionsAreNumbered
<1>3. \A i \in Responses' : i + 1 \in Responses /\ inbox'[i] = inbox[i + 1]
  BY <1>1 DEF Responses
<1>4. ASSUME stage' \in {stage, "absent"}, UNCHANGED <<calls, tab, fetched, attached>>
      PROVE  AnnouncedFirst'
  <2>1. tab # "unborn"
    BY DEF Reads, AnnouncedFirst
  <2> SUFFICES ASSUME fetched = 0, NEW i \in DOMAIN inbox'
               PROVE  /\ inbox'[i].type # "listed"
                      /\ inbox'[i].type = "created" =>
                           /\ stage = "absent" /\ calls = {} /\ Responses' = {}
                           /\ \A j \in DOMAIN inbox' : inbox'[j].type = "created" => j = i
    BY <1>4, <2>1 DEF AnnouncedFirst
  <2>2. \A j \in DOMAIN inbox' : inbox'[j].type = "created" /\ inbox'[i].type = "created"
                                  => j + 1 = i + 1
    BY <1>1 DEF AnnouncedFirst
  <2> QED
    BY <1>1, <1>3, <2>2 DEF AnnouncedFirst
<1> QED
  BY <1>2, <1>3, <1>4

\* A message that moves no chain.
LEMMA ChainsStay ==
  ASSUME IInv, NEW type, Reads(type), UNCHANGED <<chainVars, calls, tab, fetched, attached>>
  PROVE  InOrder' /\ AnnouncedFirst' /\ SessionsAreNumbered'
<1> USE DEF IInv
<1>1. \A i \in Responses' : i + 1 \in Responses /\ inbox'[i] = inbox[i + 1] /\ i \in Nat
  BY AfterReading, ReadProps DEF TypeOK, Responses
<1>2. Underway' = Underway
  BY DEF Underway
<1>3. InOrder'
  <2> SUFFICES ASSUME stage \notin {"absent", "closing"}, fetched = 0 PROVE OneUnderway'
    BY DEF InOrder, chainVars
  <2>1. OneUnderway
    BY DEF InOrder
  <2>2. ASSUME NEW i \in Responses', NEW j \in Responses' PROVE i = j
    <3>1. i + 1 = j + 1
      BY <1>1, <2>1 DEF OneUnderway
    <3> QED
      BY <1>1, <3>1
  <2>3. Responses = {} => Responses' = {}
    BY <1>1
  <2> QED
    BY <1>1, <1>2, <2>1, <2>2, <2>3 DEF OneUnderway, chainVars
<1> QED
  BY <1>3, AfterReading DEF chainVars

\* A target is registered: it has sent nothing, and nothing it could mistake is read.
LEMMA CreatedStep ==
  ASSUME IInv, OnTargetCreatedEvent \/ OnTargetListed
  PROVE  IInv'
<1> USE DEF IInv
<1>1. Reads(Read.type) /\ Read.type \in {"created", "listed"}
  BY DEF OnTargetCreatedEvent, OnTargetListed, Reads
<1>2. /\ stage' = "attach" /\ issued' = 0 /\ waiting' = FALSE
      /\ session' = 0 /\ loaded' = FALSE /\ page' = 0 /\ initiator' = FALSE
      /\ creation' \in {creation, "canceled"} /\ command' \in {command, "canceled"}
      /\ attaching' \in {attaching, attaching + 1}
      /\ UNCHANGED <<sessions, calls, tab, attached, lastSession, fetched, done>>
  BY DEF OnTargetCreatedEvent, OnTargetListed, OnTargetCreated, Drop, browserVars
<1>3. /\ inbox' \in Seq(Messages)
      /\ DOMAIN inbox = 1 .. Len(inbox) /\ Len(inbox) \in Nat \ {0}
      /\ DOMAIN inbox' = 1 .. Len(inbox) - 1
      /\ \A i \in DOMAIN inbox' : i + 1 \in DOMAIN inbox /\ inbox'[i] = inbox[i + 1]
      /\ Read = inbox[1]
  BY <1>1, ReadProps DEF TypeOK
<1>4. ~InChain' /\ 0 \in SessionIds /\ attaching' \in Nat
  <2>1. attaching' \in Nat
    BY <1>2 DEF TypeOK
  <2>2. ~InChain'
    BY <1>2, ChainProps DEF InChain
  <2> QED
    BY <2>1, <2>2, TargetInitAssumption DEF SessionIds
<1>5. TypeOK'
  <2>1. creation' \in {"asked", "held", "page", "failed", "canceled"}
        /\ command' \in {"none", "waiting", "taken", "canceled"}
    BY <1>2 DEF TypeOK
  <2> QED
    BY <1>2, <1>3, <1>4, <2>1 DEF TypeOK
<1>6. /\ fetched = 0 => /\ inbox[1].type = "created" /\ calls = {} /\ Responses = {}
                        /\ \A j \in DOMAIN inbox : inbox[j].type = "created" => j = 1
      /\ tab # "unborn"
  BY <1>1, <1>3 DEF AnnouncedFirst
<1>7. fetched = 0 => Underway' = {} /\ Responses' = {}
  BY <1>1, <1>2, <1>6, AfterReading DEF Underway
<1>8. InOrder'
  BY <1>2, <1>7 DEF InOrder, OneUnderway
<1>9. AnnouncedFirst'
  <2>1. ASSUME fetched = 0, NEW i \in DOMAIN inbox'
        PROVE  inbox'[i].type \notin {"listed", "created"}
    <3>1. i + 1 \in DOMAIN inbox /\ i + 1 # 1 /\ inbox'[i] = inbox[i + 1]
      BY <1>3
    <3> QED
      BY <1>6, <2>1, <3>1 DEF AnnouncedFirst
  <2> QED
    BY <1>2, <1>6, <2>1 DEF AnnouncedFirst
<1>10. SessionsAreNumbered' /\ SessionIsRouted'
  BY <1>1, <1>2, AfterReading DEF SessionIsRouted
<1> QED
  BY <1>5, <1>8, <1>9, <1>10

\* Sessions come and go.
LEMMA SessionStep ==
  ASSUME IInv, OnAttachedToTarget \/ OnDetachedFromTarget
  PROVE  IInv'
<1> USE DEF IInv
<1>1. Reads(Read.type)
  BY DEF OnAttachedToTarget, OnDetachedFromTarget, Reads
<1>2. UNCHANGED <<attaching, stage, issued, waiting, loaded, page, initiator, calls, creation,
                  command, tab, attached, lastSession, fetched, done>>
  BY DEF OnAttachedToTarget, OnDetachedFromTarget, chainVars, clientVars, browserVars
<1>3. inbox' \in Seq(Messages) /\ Read \in Messages /\ Read.session \in SessionIds
  BY <1>1, ReadProps DEF TypeOK, Messages
<1>4. sessions' \subseteq SessionIds \ {0} /\ session' \in SessionIds /\ SessionIsRouted'
  <2>1. CASE OnAttachedToTarget
    <3>1. Read.session # 0
      BY <1>1, <2>1, ReadProps DEF OnAttachedToTarget, Reads, TypeOK, SessionsAreNumbered
    <3> QED
      BY <1>3, <2>1, <3>1 DEF OnAttachedToTarget, TypeOK, SessionIsRouted
  <2>2. CASE OnDetachedFromTarget
    <3>1. 0 \in SessionIds
      BY TargetInitAssumption DEF SessionIds
    <3> QED
      BY <1>3, <2>2, <3>1 DEF OnDetachedFromTarget, TypeOK, SessionIsRouted
  <2> QED
    BY <2>1, <2>2
<1>5. TypeOK'
  BY <1>2, <1>3, <1>4 DEF TypeOK, InChain
<1>6. InOrder' /\ AnnouncedFirst' /\ SessionsAreNumbered'
  BY <1>1, <1>2, ChainsStay DEF chainVars
<1> QED
  BY <1>4, <1>5, <1>6

LEMMA DestroyedStep == ASSUME IInv, OnTargetDestroyed PROVE IInv'
<1> USE DEF IInv
<1>1. /\ stage' = "absent" /\ issued' = 0 /\ waiting' = FALSE
      /\ session' = 0 /\ loaded' = FALSE /\ page' = 0 /\ initiator' = FALSE
      /\ creation' \in {creation, "canceled"} /\ command' \in {command, "canceled"}
      /\ sessions' = sessions \ {session}
      /\ UNCHANGED <<attaching, calls, tab, attached, lastSession, fetched, done>>
      /\ Reads("destroyed")
  BY DEF OnTargetDestroyed, Drop, browserVars
<1>2. inbox' \in Seq(Messages)
  BY <1>1, ReadProps DEF TypeOK
<1>3. ~InChain' /\ 0 \in SessionIds
  BY <1>1, ChainProps, TargetInitAssumption DEF InChain, SessionIds
<1>4. TypeOK'
  BY <1>1, <1>2, <1>3 DEF TypeOK
<1>5. InOrder' /\ AnnouncedFirst' /\ SessionsAreNumbered' /\ SessionIsRouted'
  BY <1>1, AfterReading DEF InOrder, SessionIsRouted
<1> QED
  BY <1>4, <1>5

LEMMA OnCreateTargetResponseStep == ASSUME IInv, OnCreateTargetResponse PROVE IInv'
<1> USE DEF IInv
<1>1. /\ Reads("creation") /\ initiator' = TRUE /\ creation' = "held"
      /\ UNCHANGED <<attaching, stage, issued, waiting, session, loaded, page, sessions, calls,
                     command, tab, attached, lastSession, fetched, done>>
  BY DEF OnCreateTargetResponse, chainVars, browserVars
<1>2. inbox' \in Seq(Messages)
  BY <1>1, ReadProps DEF TypeOK
<1>3. TypeOK'
  BY <1>1, <1>2 DEF TypeOK, InChain
<1> QED
  BY <1>1, <1>3, ChainsStay DEF chainVars, SessionIsRouted

LEMMA OnLoadStep == ASSUME IInv, OnLoad PROVE IInv'
<1> USE DEF IInv
<1>1. /\ Reads("load") /\ loaded' \in BOOLEAN
      /\ UNCHANGED <<attaching, stage, issued, waiting, session, page, initiator, sessions, calls,
                     creation, command, tab, attached, lastSession, fetched, done>>
  BY DEF OnLoad, chainVars, clientVars, browserVars, TypeOK
<1>2. inbox' \in Seq(Messages)
  BY <1>1, ReadProps DEF TypeOK
<1>3. TypeOK'
  BY <1>1, <1>2 DEF TypeOK, InChain
<1> QED
  BY <1>1, <1>3, ChainsStay DEF chainVars, SessionIsRouted

\* The answer the target waits for is the only one, so none is left when it is read.
LEMMA OnInternalResponseStep == ASSUME IInv, OnInternalResponse PROVE IInv'
<1> USE DEF IInv
<1>1. /\ Reads("response") /\ waiting' = (waiting /\ ~ReceivedResponse)
      /\ UNCHANGED <<attaching, stage, issued, session, loaded, page, initiator, sessions, calls,
                     creation, command, tab, attached, lastSession, fetched, done>>
  BY DEF OnInternalResponse, clientVars, browserVars
<1>2. /\ inbox' \in Seq(Messages) /\ 1 \in Responses
      /\ \A i \in Responses' : i + 1 \in Responses /\ i \in Nat \ {0}
  BY <1>1, ReadProps, AfterReading DEF TypeOK, Responses
<1>3. TypeOK'
  BY <1>1, <1>2 DEF TypeOK, InChain
<1>4. InOrder'
  <2> SUFFICES ASSUME OneUnderway PROVE OneUnderway'
    BY <1>1 DEF InOrder
  <2>1. Responses' = {}
    <3>1. ASSUME NEW i \in Responses' PROVE FALSE
      <4>1. i + 1 = 1 /\ i \in Nat \ {0}
        BY <1>2, <3>1 DEF OneUnderway
      <4> QED
        BY <4>1
    <3> QED
      BY <3>1
  <2>2. Underway' = {}
    BY <1>1, <1>2 DEF OneUnderway, Underway
  <2> QED
    BY <2>1, <2>2 DEF OneUnderway
<1>5. AnnouncedFirst' /\ SessionsAreNumbered'
  BY <1>1, AfterReading
<1> QED
  BY <1>1, <1>3, <1>4, <1>5 DEF SessionIsRouted

-----------------------------------------------------------------------------
(* The target is polled, a deadline passes, a client asks.                 *)

LEMMA AttachToTargetStep == ASSUME IInv, AttachToTarget PROVE IInv'
<1> USE DEF IInv
<1>1. /\ stage = "attach" /\ stage' = "frame" /\ issued' = 0 /\ waiting' = FALSE
      /\ attaching' = attaching + 1
      /\ UNCHANGED <<session, loaded, page, initiator, sessions, calls, inbox, creation, command,
                     tab, attached, lastSession, fetched, done>>
  BY DEF AttachToTarget, clientVars, browserVars
<1>2. "frame" \in DOMAIN Commands /\ "attach" \notin DOMAIN Commands
      /\ 0 \in 0 .. Commands["frame"] /\ attaching' \in Nat
  BY <1>1, ChainProps DEF TypeOK
<1>3. TypeOK'
  BY <1>1, <1>2 DEF TypeOK, InChain
<1>4. Underway' = Underway /\ Responses' = Responses
  BY <1>1 DEF Underway, Responses
<1>5. InOrder'
  <2> SUFFICES ASSUME OneUnderway PROVE OneUnderway'
    BY <1>1 DEF InOrder
  <2>1. Underway = {}
    BY <1>1, <1>2 DEF OneUnderway, Underway
  <2>2. Responses = {}
    BY <1>1, <1>2 DEF OneUnderway, TypeOK, InChain
  <2> QED
    BY <1>4, <2>1, <2>2 DEF OneUnderway
<1>6. AnnouncedFirst' /\ SessionsAreNumbered' /\ SessionIsRouted'
  BY <1>1 DEF AnnouncedFirst, SessionsAreNumbered, SessionIsRouted, Responses
<1> QED
  BY <1>3, <1>5, <1>6

\* A chain that is not waiting has nothing under way.
LEMMA NothingUnderway == ASSUME OneUnderway, ~waiting PROVE Underway = {} /\ Responses = {}
BY DEF OneUnderway

LEMMA IssueCommandStep == ASSUME IInv, IssueCommand PROVE IInv'
<1> USE DEF IInv
<1> DEFINE c == Call(stage, issued + 1)
<1>1. /\ InChain /\ ~waiting /\ issued < Commands[stage]
      /\ issued' = issued + 1 /\ waiting' = TRUE /\ calls' = calls \cup {c}
      /\ UNCHANGED <<attaching, stage, session, loaded, page, initiator, sessions, inbox, creation,
                     command, tab, attached, lastSession, fetched, done>>
  BY DEF IssueCommand, MayPoll, clientVars, browserVars
<1>2. issued + 1 \in 0 .. Commands[stage] /\ issued + 1 \in Numbers
  BY <1>1, ChainProps DEF TypeOK, InChain
<1>3. /\ c \in [stage : CallStages, nr : Numbers, on : SessionIds]
      /\ c.stage = stage /\ c.nr = issued + 1
  BY <1>1, <1>2 DEF Call, TypeOK, InChain, CallStages
<1>4. TypeOK'
  BY <1>1, <1>2, <1>3 DEF TypeOK, InChain
<1>5. Underway' = Underway \cup {c} /\ Responses' = Responses
  BY <1>1, <1>3 DEF Underway, Responses, InChain
<1>6. InOrder'
  <2> SUFFICES ASSUME OneUnderway PROVE OneUnderway'
    BY <1>1 DEF InOrder
  <2> QED
    BY <1>1, <1>3, <1>5, NothingUnderway DEF OneUnderway
<1>7. stage # "absent"
  BY <1>1, ChainProps DEF InChain
<1>8. AnnouncedFirst' /\ SessionsAreNumbered' /\ SessionIsRouted'
  BY <1>1, <1>5, <1>7 DEF AnnouncedFirst, SessionsAreNumbered, SessionIsRouted
<1> QED
  BY <1>4, <1>6, <1>8

LEMMA NextStageStep == ASSUME IInv, NextStage PROVE IInv'
<1> USE DEF IInv
<1>1. /\ InChain /\ ~waiting /\ stage' = Following(stage) /\ issued' = 0
      /\ UNCHANGED <<attaching, waiting, session, loaded, page, initiator, sessions, calls, inbox,
                     creation, command, tab, attached, lastSession, fetched, done>>
  BY DEF NextStage, MayPoll, clientVars, browserVars
<1>2. /\ stage' \in DOMAIN Commands \cup {"initialized"}
      /\ stage' \in DOMAIN Commands => 0 \in 0 .. Commands[stage']
      /\ stage \notin {"absent", "closing"}
  BY <1>1, ChainProps DEF InChain
<1>3. TypeOK'
  BY <1>1, <1>2 DEF TypeOK, InChain
<1>4. Underway' = Underway /\ Responses' = Responses
  BY <1>1 DEF Underway, Responses
<1>5. InOrder'
  BY <1>1, <1>2, <1>4, NothingUnderway DEF InOrder, OneUnderway
<1>6. AnnouncedFirst' /\ SessionsAreNumbered' /\ SessionIsRouted'
  BY <1>1, <1>2 DEF AnnouncedFirst, SessionsAreNumbered, SessionIsRouted
<1> QED
  BY <1>3, <1>5, <1>6

LEMMA OnInitializationFailedStep == ASSUME IInv, OnInitializationFailed PROVE IInv'
<1> USE DEF IInv
<1> DEFINE c == Call("close", 0)
<1>1. /\ InChain /\ stage' = "closing" /\ issued' = 0 /\ waiting' = FALSE
      /\ initiator' = FALSE /\ creation' \in {creation, "failed"} /\ calls' = calls \cup {c}
      /\ UNCHANGED <<attaching, session, loaded, page, sessions, inbox, command, tab, attached,
                     lastSession, fetched, done>>
  BY DEF OnInitializationFailed, MayPoll, browserVars
<1>2. c \in [stage : CallStages, nr : Numbers, on : SessionIds]
  BY TargetInitAssumption DEF Call, TypeOK, CallStages, Numbers
<1>3. stage # "absent" /\ ~InChain'
  BY <1>1, ChainProps DEF InChain
<1>4. TypeOK'
  BY <1>1, <1>2, <1>3 DEF TypeOK
<1>5. InOrder' /\ AnnouncedFirst' /\ SessionsAreNumbered' /\ SessionIsRouted'
  BY <1>1, <1>3 DEF InOrder, AnnouncedFirst, SessionsAreNumbered, SessionIsRouted
<1> QED
  BY <1>4, <1>5

\* The steps of the target and its clients that leave the chains, the calls and the
\* inbox alone.
LEMMA PageStep ==
  ASSUME IInv, SendPage \/ ReadPageCommand \/ GetPage \/ AskPage
  PROVE  IInv'
<1> USE DEF IInv
<1>1. /\ page' \in {page, session} /\ initiator' \in BOOLEAN /\ creation' \in {creation, "page"}
      /\ command' \in {command, "taken", "waiting"}
      /\ UNCHANGED <<attaching, stage, issued, waiting, session, loaded, sessions, calls, inbox,
                     tab, attached, lastSession, fetched, done>>
  BY DEF SendPage, ReadPageCommand, GetPage, AskPage, chainVars, targetVars, clientVars,
         browserVars, TypeOK
<1>2. TypeOK'
  BY <1>1 DEF TypeOK, InChain
<1>3. InOrder' /\ AnnouncedFirst' /\ SessionsAreNumbered' /\ SessionIsRouted'
  BY <1>1 DEF InOrder, OneUnderway, AnnouncedFirst, SessionsAreNumbered, SessionIsRouted,
              Underway, Responses
<1> QED
  BY <1>2, <1>3

-----------------------------------------------------------------------------
(* The theorems.                                                           *)

LEMMA NextKeeps == IInv /\ [Next]_vars => IInv'
<1> SUFFICES ASSUME IInv, [Next]_vars PROVE IInv'
  OBVIOUS
<1>1. CASE Browser
  BY <1>1, OpenTabStep, AnswerCreationStep, ListTargetsStep, AttachSessionStep, CloseTabStep,
     AboutSessionStep, RespondStep DEF Browser
<1>2. CASE ReadSocket
  BY <1>2, CreatedStep, SessionStep, DestroyedStep, OnCreateTargetResponseStep,
     OnInternalResponseStep, OnLoadStep DEF ReadSocket
<1>3. CASE PollTarget
  BY <1>3, AttachToTargetStep, IssueCommandStep, NextStageStep, PageStep DEF PollTarget
<1>4. CASE OnInitializationFailed
  BY <1>4, OnInitializationFailedStep
<1>5. CASE GetPage \/ AskPage
  BY <1>5, PageStep
<1>6. CASE UNCHANGED vars
  BY <1>6 DEF vars, targetVars, chainVars, clientVars, browserVars, IInv, TypeOK, InChain, InOrder,
              OneUnderway, AnnouncedFirst, SessionsAreNumbered, SessionIsRouted, Underway, Responses
<1> QED
  BY <1>1, <1>2, <1>3, <1>4, <1>5, <1>6 DEF Next

LEMMA InvariantHolds == Spec => []IInv
BY InitHolds, NextKeeps, PTL DEF Spec

\* Every variable has its type; no chain issues more commands than it has, whatever is
\* registered anew, detached or timed out (target.rs:58-95, cmd.rs:13-24).
THEOREM TargetTypeCorrect == Spec => []TypeOK
<1>1. IInv => TypeOK
  BY DEF IInv
<1> QED
  BY <1>1, InvariantHolds, PTL

\* The session a target uses is always in the handler's map of sessions, however the
\* events that attach and detach sessions, and register targets, come (mod.rs:425-480).
THEOREM SessionsAreRouted == Spec => []SessionIsRouted
<1>1. IInv => SessionIsRouted
  BY DEF IInv
<1> QED
  BY <1>1, InvariantHolds, PTL

\* A target that was registered once never has two commands of its chains under way
\* (cmd.rs:44-90, target.rs:344-440).
THEOREM ChainsRunInSequence == Spec => []ChainsAreSequential
<1>1. IInv => ChainsAreSequential
  BY DEF IInv, InOrder, OneUnderway, Underway, ChainsAreSequential
<1> QED
  BY <1>1, InvariantHolds, PTL

-----------------------------------------------------------------------------
(* The inductive invariant of what the browser has answered.               *)

\* The place of a stage among the chains.
Place == [absent |-> 0, attach |-> 0, closing |-> 0, frame |-> 1, worlds |-> 2, network |-> 3,
          page |-> 4, emulation |-> 5, initialized |-> 6]

\* The browser has answered what the n-th command of a chain asks for.
Answered(s, n) ==
  /\ \E m \in 1 .. Commands[s] : SameMethod(s, m, n) /\ <<s, m>> \in done
  /\ fetched = 0 => <<s, n>> \in done

\* The target has the n-th command of a chain behind it.
Passed(s, n) == \/ Place[s] < Place[stage]
                \/ s = stage /\ (n < issued \/ (n = issued /\ ~waiting))

PassedIsAnswered ==
  \A s \in DOMAIN Commands : \A n \in 1 .. Commands[s] : Passed(s, n) => Answered(s, n)

\* What is under way from the browser has happened there.
ToldIsDone ==
  \A i \in DOMAIN inbox :
    /\ inbox[i].type = "response" =>
         /\ inbox[i].stage \in DOMAIN Commands
         /\ inbox[i].nr \in 1 .. Commands[inbox[i].stage]
         /\ <<inbox[i].stage, inbox[i].nr>> \in done
    /\ inbox[i].type = "load" => <<"load", 0>> \in done

CallsAreCommands == \A c \in Underway : c.nr \in 1 .. Commands[c.stage]

LoadedIsTold == loaded => <<"load", 0>> \in done

AInv == /\ PassedIsAnswered /\ ToldIsDone /\ CallsAreCommands /\ LoadedIsTold
        /\ DeliveredPageIsInitialized

LEMMA PlaceProps ==
  /\ \A s \in DOMAIN Commands : Place[s] \in 1 .. 5 /\ Place[Following(s)] = Place[s] + 1
  /\ \A s, t \in DOMAIN Commands : Place[s] = Place[t] => s = t
  /\ Place["initialized"] = 6 /\ Place["frame"] = 1
  /\ \A s \in {"absent", "attach", "closing"} : Place[s] = 0
<1> DEFINE All == {"frame", "worlds", "network", "page", "emulation"}
<1>1. DOMAIN Commands = All
  BY ChainProps
<1>2. \A s \in All : Place[s] \in 1 .. 5
  BY DEF Place
<1>3. \A s, t \in All : Place[s] = Place[t] => s = t
  BY DEF Place
<1>4. /\ Place["initialized"] = 6 /\ Place["frame"] = 1
      /\ \A s \in {"absent", "attach", "closing"} : Place[s] = 0
  BY DEF Place
<1>5. ASSUME NEW s \in All PROVE Place[Following(s)] = Place[s] + 1
  <2>1. /\ DOMAIN Stages = 1 .. 5 /\ Len(Stages) = 5
        /\ \A i \in 1 .. 5 : Stages[i] \in All /\ Place[Stages[i]] = i
    BY DEF Stages, Place
  <2>2. PICK i \in DOMAIN Stages :
          Stages[i] = s /\ i = CHOOSE j \in DOMAIN Stages : Stages[j] = s
    <3>1. \E j \in DOMAIN Stages : Stages[j] = s
      BY DEF Stages
    <3> QED
      BY <3>1
  <2>3. Place[s] = i
    BY <2>1, <2>2
  <2>4. CASE i = 5
    BY <1>4, <2>1, <2>2, <2>3, <2>4 DEF Following
  <2>5. CASE i # 5
    <3>1. i + 1 \in 1 .. 5
      BY <2>1, <2>2, <2>5
    <3>2. Following(s) = Stages[i + 1]
      BY <2>1, <2>2, <2>5 DEF Following
    <3> QED
      BY <2>1, <2>3, <3>1, <3>2
  <2> QED
    BY <2>4, <2>5
<1> QED
  BY <1>1, <1>2, <1>3, <1>4, <1>5

\* An answer once given stays given, and a target is not registered anew in retrospect.
LEMMA AnsweredStays ==
  ASSUME done \subseteq done', fetched' = 0 => fetched = 0,
         NEW s \in DOMAIN Commands, NEW n \in 1 .. Commands[s], Answered(s, n)
  PROVE  Answered(s, n)'
BY DEF Answered

\* The steps that pass no command.
LEMMA ChainsStand ==
  ASSUME TypeOK, AInv, ToldIsDone', done \subseteq done', fetched' = 0 => fetched = 0,
         \/ UNCHANGED chainVars
         \/ stage' \in {"absent", "attach", "closing", "frame"} /\ issued' = 0,
         Underway' \subseteq Underway, loaded' => loaded \/ <<"load", 0>> \in done',
         creation' = "page" => creation = "page"
  PROVE  AInv'
<1> USE DEF AInv
<1>1. PassedIsAnswered'
  <2> SUFFICES ASSUME NEW s \in DOMAIN Commands, NEW n \in 1 .. Commands[s], Passed(s, n)'
               PROVE  Answered(s, n)'
    BY DEF PassedIsAnswered
  <2>1. CASE UNCHANGED chainVars
    <3>1. Answered(s, n)
      BY <2>1 DEF PassedIsAnswered, Passed, chainVars
    <3> QED
      BY <3>1, AnsweredStays
  <2>2. CASE stage' \in {"absent", "attach", "closing", "frame"} /\ issued' = 0
    <3>1. Place[stage'] \in {0, 1} /\ Place[s] \in 1 .. 5
      BY <2>2, PlaceProps
    <3>2. n \in Nat \ {0}
      BY ChainProps
    <3> QED
      BY <2>2, <3>1, <3>2 DEF Passed
  <2> QED
    BY <2>1, <2>2
<1>2. DeliveredPageIsInitialized'
  <2> SUFFICES ASSUME creation = "page"
               PROVE  /\ \A s \in DOMAIN Commands : \A n \in 1 .. Commands[s] : Answered(s, n)'
                      /\ <<"load", 0>> \in done'
    BY DEF DeliveredPageIsInitialized, Answered
  <2>1. /\ \A s \in DOMAIN Commands : \A n \in 1 .. Commands[s] : Answered(s, n)
        /\ <<"load", 0>> \in done
    BY DEF DeliveredPageIsInitialized, Answered
  <2> QED
    BY <2>1, AnsweredStays
<1>3. CallsAreCommands' /\ LoadedIsTold'
  BY DEF CallsAreCommands, LoadedIsTold
<1> QED
  BY <1>1, <1>2, <1>3

\* What is said, and what is left to be read, has happened in the browser.
LEMMA SaidIsDone ==
  ASSUME TypeOK, ToldIsDone, done \subseteq done', NEW m \in Messages, Says(m),
         m.type = "response" => /\ m.stage \in DOMAIN Commands /\ m.nr \in 1 .. Commands[m.stage]
                                /\ <<m.stage, m.nr>> \in done',
         m.type = "load" => <<"load", 0>> \in done'
  PROVE  ToldIsDone'
<1>1. /\ DOMAIN inbox = 1 .. Len(inbox) /\ Len(inbox) \in Nat
      /\ DOMAIN inbox' = 1 .. Len(inbox) + 1
      /\ \A i \in DOMAIN inbox : inbox'[i] = inbox[i]
      /\ inbox'[Len(inbox) + 1] = m
  BY SaysProps DEF TypeOK
<1> SUFFICES ASSUME NEW i \in DOMAIN inbox'
             PROVE  /\ inbox'[i].type = "response" =>
                         /\ inbox'[i].stage \in DOMAIN Commands
                         /\ inbox'[i].nr \in 1 .. Commands[inbox'[i].stage]
                         /\ <<inbox'[i].stage, inbox'[i].nr>> \in done'
                    /\ inbox'[i].type = "load" => <<"load", 0>> \in done'
  BY DEF ToldIsDone
<1>2. CASE i \in DOMAIN inbox
  BY <1>1, <1>2 DEF ToldIsDone
<1>3. CASE i = Len(inbox) + 1
  BY <1>1, <1>3
<1> QED
  BY <1>1, <1>2, <1>3

LEMMA ReadIsDone ==
  ASSUME TypeOK, ToldIsDone, done' = done, NEW type, Reads(type)
  PROVE  /\ ToldIsDone'
         /\ type = "response" => /\ Read.stage \in DOMAIN Commands
                                 /\ Read.nr \in 1 .. Commands[Read.stage]
                                 /\ <<Read.stage, Read.nr>> \in done
         /\ type = "load" => <<"load", 0>> \in done
<1>1. /\ DOMAIN inbox = 1 .. Len(inbox) /\ Len(inbox) \in Nat \ {0}
      /\ \A i \in DOMAIN inbox' : i + 1 \in DOMAIN inbox /\ inbox'[i] = inbox[i + 1]
      /\ Read = inbox[1] /\ Read.type = type
  BY ReadProps DEF TypeOK
<1>2. ToldIsDone'
  BY <1>1 DEF ToldIsDone
<1>3. 1 \in DOMAIN inbox
  BY <1>1
<1> QED
  BY <1>1, <1>2, <1>3 DEF ToldIsDone

LEMMA AnsweringInit == Init => AInv
<1> SUFFICES ASSUME Init PROVE AInv
  OBVIOUS
<1>1. PassedIsAnswered
  BY ChainProps, PlaceProps DEF Init, PassedIsAnswered, Passed
<1>2. ToldIsDone /\ CallsAreCommands /\ LoadedIsTold /\ DeliveredPageIsInitialized
  BY DEF Init, ToldIsDone, CallsAreCommands, Underway, LoadedIsTold, DeliveredPageIsInitialized
<1> QED
  BY <1>1, <1>2 DEF AInv

-----------------------------------------------------------------------------
(* What each step has to show for it.                                      *)

LEMMA BrowserAnswers == ASSUME IInv, AInv, Browser PROVE AInv'
<1> USE DEF IInv, AInv
<1>1. ASSUME OpenTab \/ AnswerCreation \/ ListTargets \/ AttachSession
             \/ \E s \in attached : DetachSession(s)
      PROVE  AInv'
  <2>1. PICK m \in Messages : Says(m) /\ m.type \notin {"response", "load"}
    <3>1. 0 \in SessionIds /\ (AttachSession => lastSession + 1 \in SessionIds)
      BY TargetInitAssumption DEF TypeOK, SessionIds, AttachSession
    <3>2. attached \subseteq SessionIds
      BY DEF TypeOK
    <3> QED
      BY <1>1, <3>1, <3>2, MessageTypes
         DEF OpenTab, AnswerCreation, ListTargets, AttachSession, DetachSession
  <2>2. done' = done /\ (fetched' = 0 => fetched = 0)
    BY <1>1 DEF OpenTab, AnswerCreation, ListTargets, AttachSession, DetachSession, TypeOK
  <2>3. UNCHANGED chainVars /\ UNCHANGED <<loaded, calls, creation>>
    BY <1>1 DEF OpenTab, AnswerCreation, ListTargets, AttachSession, DetachSession, targetVars,
                clientVars
  <2>4. ToldIsDone'
    BY <2>1, <2>2, SaidIsDone
  <2> QED
    BY <2>2, <2>3, <2>4, ChainsStand DEF Underway
<1>2. ASSUME NEW c \in calls, Respond(c) PROVE AInv'
  <2>1. /\ Says(Answer(c)) /\ c \in Underway /\ calls' = calls \ {c}
        /\ done' = done \cup {<<c.stage, c.nr>>}
        /\ UNCHANGED chainVars /\ UNCHANGED <<loaded, creation, fetched>>
    BY <1>2 DEF Respond, Underway, targetVars, clientVars
  <2>2. /\ Answer(c) \in Messages /\ Answer(c).type = "response"
        /\ Answer(c).stage = c.stage /\ Answer(c).nr = c.nr
    BY TargetInitAssumption DEF TypeOK, Answer, Messages, SessionIds
  <2>3. c.stage \in DOMAIN Commands /\ c.nr \in 1 .. Commands[c.stage]
    BY <2>1 DEF CallsAreCommands, Underway
  <2>4. ToldIsDone'
    BY <2>1, <2>2, <2>3, SaidIsDone
  <2> QED
    BY <2>1, <2>4, ChainsStand DEF Underway
<1>3. ASSUME NEW s \in attached, Load(s) PROVE AInv'
  <2>1. /\ Says(Event("load", s)) /\ done' = done \cup {<<"load", 0>>}
        /\ UNCHANGED chainVars /\ UNCHANGED <<loaded, calls, creation, fetched>>
    BY <1>3 DEF Load, targetVars, clientVars
  <2>2. Event("load", s) \in Messages /\ Event("load", s).type = "load"
    BY MessageTypes DEF TypeOK
  <2>3. ToldIsDone'
    BY <2>1, <2>2, SaidIsDone
  <2> QED
    BY <2>1, <2>3, ChainsStand DEF Underway
<1>4. ASSUME CloseTab PROVE AInv'
  <2>1. done' = done /\ UNCHANGED chainVars /\ UNCHANGED <<loaded, calls, creation, fetched>>
    BY <1>4 DEF CloseTab, targetVars, clientVars
  <2>2. ToldIsDone'
    <3>1. \A i \in DOMAIN inbox' :
            \/ i \in DOMAIN inbox /\ inbox'[i] = inbox[i]
            \/ inbox'[i].type \in {"detached", "destroyed"}
      BY <1>4, ClosingInbox
    <3> QED
      BY <2>1, <3>1 DEF ToldIsDone
  <2> QED
    BY <2>1, <2>2, ChainsStand DEF Underway
<1> QED
  BY <1>1, <1>2, <1>3, <1>4 DEF Browser

\* A response moves a chain on only if it has the method of the command the chain waits
\* for, and without a replacement it is the answer to that very command.
LEMMA ResponseAnswers == ASSUME IInv, AInv, OnInternalResponse PROVE AInv'
<1> USE DEF IInv, AInv
<1>1. /\ Reads("response") /\ waiting' = (waiting /\ ~ReceivedResponse)
      /\ UNCHANGED <<stage, issued, loaded, calls, creation, fetched, done>>
  BY DEF OnInternalResponse, clientVars, browserVars
<1>2. ToldIsDone' /\ Read.nr \in 1 .. Commands[Read.stage] /\ <<Read.stage, Read.nr>> \in done
  BY <1>1, ReadIsDone
<1>3. CASE ~ReceivedResponse
  <2>1. waiting' = waiting
    BY <1>1, <1>3 DEF TypeOK
  <2> QED
    BY <1>1, <1>2, <2>1, ChainsStand DEF chainVars, Underway
<1>4. CASE ReceivedResponse
  <2>1. /\ stage \in DOMAIN Commands /\ Read.stage = stage /\ SameMethod(stage, Read.nr, issued)
    BY <1>4 DEF ReceivedResponse, InChain
  <2>2. fetched = 0 => Read.nr = issued
    <3>1. stage \notin {"absent", "closing"}
      BY <2>1, ChainProps
    <3>2. Read = inbox[1] /\ 1 \in Responses
      BY <1>1, ReadProps DEF TypeOK, Responses
    <3> QED
      BY <3>1, <3>2 DEF InOrder, OneUnderway
  <2>3. issued \in 1 .. Commands[stage] => Answered(stage, issued)
    BY <1>2, <2>1, <2>2 DEF Answered
  <2>4. PassedIsAnswered'
    <3> SUFFICES ASSUME NEW s \in DOMAIN Commands, NEW n \in 1 .. Commands[s], Passed(s, n)'
                 PROVE  Answered(s, n)
      BY <1>1 DEF PassedIsAnswered, Answered
    <3>1. CASE s = stage /\ n = issued
      BY <2>3, <3>1
    <3>2. CASE ~(s = stage /\ n = issued)
      <4>1. Passed(s, n)
        BY <1>1, <3>2 DEF Passed
      <4> QED
        BY <4>1 DEF PassedIsAnswered
    <3> QED
      BY <3>1, <3>2
  <2>5. CallsAreCommands' /\ LoadedIsTold' /\ DeliveredPageIsInitialized'
    BY <1>1 DEF CallsAreCommands, Underway, LoadedIsTold, DeliveredPageIsInitialized
  <2> QED
    BY <1>2, <2>4, <2>5
<1> QED
  BY <1>3, <1>4

LEMMA ReadingAnswers == ASSUME IInv, AInv, ReadSocket PROVE AInv'
<1> USE DEF IInv, AInv
<1>1. CASE OnInternalResponse
  BY <1>1, ResponseAnswers
<1>2. ASSUME ReadSocket, ~OnInternalResponse PROVE AInv'
  <2>1. /\ Reads(Read.type) /\ UNCHANGED <<calls, fetched, done>>
        /\ creation' \in {creation, "canceled", "held"}
        /\ \/ UNCHANGED chainVars
           \/ stage' \in {"absent", "attach", "closing", "frame"} /\ issued' = 0
        /\ loaded' => loaded \/ Read.type = "load"
    BY <1>2 DEF ReadSocket, OnTargetCreatedEvent, OnTargetListed, OnTargetCreated, Drop,
                OnAttachedToTarget, OnDetachedFromTarget, OnTargetDestroyed,
                OnCreateTargetResponse, OnLoad, Reads, chainVars, clientVars, browserVars
  <2>2. ToldIsDone' /\ (Read.type = "load" => <<"load", 0>> \in done)
    BY <2>1, ReadIsDone
  <2> QED
    BY <2>1, <2>2, ChainsStand DEF Underway
<1> QED
  BY <1>1, <1>2

\* A chain that ends has all its commands behind it, and only then the next one begins;
\* an initialised target has them all behind it.
LEMMA PollingAnswers == ASSUME IInv, AInv, PollTarget PROVE AInv'
<1> USE DEF IInv, AInv
<1>1. ASSUME PollTarget PROVE done' = done /\ fetched' = fetched /\ inbox' = inbox /\ ToldIsDone'
  BY <1>1 DEF PollTarget, AttachToTarget, IssueCommand, NextStage, SendPage, ReadPageCommand,
              browserVars, ToldIsDone
<1>2. ASSUME AttachToTarget \/ ReadPageCommand PROVE AInv'
  <2>1. PollTarget /\ UNCHANGED <<loaded, calls, creation>>
    BY <1>2 DEF PollTarget, AttachToTarget, ReadPageCommand, targetVars, clientVars
  <2>2. UNCHANGED chainVars \/ (stage' = "frame" /\ issued' = 0)
    BY <1>2 DEF AttachToTarget, ReadPageCommand, targetVars
  <2> QED
    BY <1>1, <2>1, <2>2, ChainsStand DEF Underway
<1>3. ASSUME IssueCommand PROVE AInv'
  <2> DEFINE c == Call(stage, issued + 1)
  <2>1. /\ PollTarget /\ InChain /\ ~waiting /\ issued < Commands[stage]
        /\ issued' = issued + 1 /\ waiting' = TRUE /\ calls' = calls \cup {c}
        /\ UNCHANGED <<stage, loaded, creation>>
    BY <1>3 DEF PollTarget, IssueCommand, MayPoll, clientVars
  <2>2. /\ issued \in Nat /\ issued + 1 \in 1 .. Commands[stage]
        /\ c.stage = stage /\ c.nr = issued + 1
    BY <2>1, ChainProps DEF TypeOK, InChain, Call
  <2>3. CallsAreCommands'
    BY <2>1, <2>2 DEF CallsAreCommands, Underway
  <2>4. PassedIsAnswered'
    <3> SUFFICES ASSUME NEW s \in DOMAIN Commands, NEW n \in 1 .. Commands[s], Passed(s, n)'
                 PROVE  Answered(s, n)
      BY <1>1, <2>1 DEF PassedIsAnswered, Answered
    <3>1. n \in Nat
      BY ChainProps
    <3>2. Passed(s, n)
      BY <2>1, <2>2, <3>1 DEF Passed
    <3> QED
      BY <3>2 DEF PassedIsAnswered
  <2>5. LoadedIsTold' /\ DeliveredPageIsInitialized'
    BY <1>1, <2>1 DEF LoadedIsTold, DeliveredPageIsInitialized
  <2> QED
    BY <1>1, <2>1, <2>3, <2>4, <2>5
<1>4. ASSUME NextStage PROVE AInv'
  <2>1. /\ PollTarget /\ InChain /\ ~waiting /\ issued = Commands[stage]
        /\ stage' = Following(stage) /\ issued' = 0
        /\ UNCHANGED <<loaded, calls, creation>>
    BY <1>4 DEF PollTarget, NextStage, MayPoll, clientVars
  <2>2. /\ Place[stage] \in 1 .. 5 /\ Place[stage'] = Place[stage] + 1
    BY <2>1, PlaceProps DEF InChain
  <2>3. PassedIsAnswered'
    <3> SUFFICES ASSUME NEW s \in DOMAIN Commands, NEW n \in 1 .. Commands[s], Passed(s, n)'
                 PROVE  Answered(s, n)
      BY <1>1, <2>1 DEF PassedIsAnswered, Answered
    <3>1. n \in 1 .. Commands[s] /\ Commands[s] \in Nat /\ Place[s] \in 1 .. 5
      BY ChainProps, PlaceProps
    <3>2. Place[s] < Place[stage] \/ Place[s] = Place[stage]
      BY <2>1, <2>2, <3>1 DEF Passed
    <3>3. Place[s] = Place[stage] => s = stage
      BY <2>1, PlaceProps DEF InChain
    <3>4. Passed(s, n)
      BY <2>1, <3>1, <3>2, <3>3 DEF Passed
    <3> QED
      BY <3>4 DEF PassedIsAnswered
  <2>4. CallsAreCommands' /\ LoadedIsTold' /\ DeliveredPageIsInitialized'
    BY <1>1, <2>1 DEF CallsAreCommands, Underway, LoadedIsTold, DeliveredPageIsInitialized
  <2> QED
    BY <1>1, <2>1, <2>3, <2>4
<1>5. ASSUME SendPage PROVE AInv'
  <2>1. /\ PollTarget /\ stage = "initialized" /\ loaded
        /\ UNCHANGED <<stage, issued, waiting, loaded, calls>>
    BY <1>5 DEF PollTarget, SendPage, chainVars
  <2>2. ASSUME NEW s \in DOMAIN Commands, NEW n \in 1 .. Commands[s] PROVE Answered(s, n)
    <3>1. Passed(s, n)
      BY <2>1, PlaceProps DEF Passed
    <3> QED
      BY <3>1 DEF PassedIsAnswered
  <2>3. DeliveredPageIsInitialized'
    BY <1>1, <2>1, <2>2 DEF DeliveredPageIsInitialized, Answered, LoadedIsTold
  <2>4. PassedIsAnswered' /\ CallsAreCommands' /\ LoadedIsTold'
    BY <1>1, <2>1 DEF PassedIsAnswered, Passed, Answered, CallsAreCommands, Underway, LoadedIsTold
  <2> QED
    BY <1>1, <2>1, <2>3, <2>4
<1> QED
  BY <1>2, <1>3, <1>4, <1>5 DEF PollTarget

LEMMA NextAnswers == IInv /\ AInv /\ [Next]_vars => AInv'
<1> SUFFICES ASSUME IInv, AInv, [Next]_vars PROVE AInv'
  OBVIOUS
<1> USE DEF IInv, AInv
<1>1. ASSUME OnInitializationFailed \/ GetPage \/ AskPage \/ UNCHANGED vars PROVE AInv'
  <2>1. /\ UNCHANGED <<inbox, fetched, done, loaded>>
        /\ creation' = "page" => creation = "page"
        /\ \/ UNCHANGED chainVars
           \/ stage' = "closing" /\ issued' = 0
    BY <1>1 DEF OnInitializationFailed, GetPage, AskPage, vars, targetVars, clientVars, browserVars
  <2>2. Underway' \subseteq Underway
    <3>1. "close" \notin DOMAIN Commands
      BY ChainProps
    <3>2. calls' \subseteq calls \cup {Call("close", 0)}
      BY <1>1 DEF OnInitializationFailed, GetPage, AskPage, vars
    <3> QED
      BY <3>1, <3>2 DEF Underway, Call
  <2>3. ToldIsDone'
    BY <2>1 DEF ToldIsDone
  <2> QED
    BY <2>1, <2>2, <2>3, ChainsStand
<1> QED
  BY <1>1, BrowserAnswers, ReadingAnswers, PollingAnswers DEF Next

\* new_page is given its page only after the browser has answered every command of the
\* chains and has told of a load, for chains of any length and whatever is answered late,
\* timed out, detached or registered anew (cmd.rs:44-90, target.rs:344-480).
THEOREM PagesAreInitialized == Spec => []DeliveredPageIsInitialized
<1>1. AInv => DeliveredPageIsInitialized
  BY DEF AInv
<1>2. Spec => []AInv
  BY InvariantHolds, AnsweringInit, NextAnswers, PTL DEF Spec
<1> QED
  BY <1>1, <1>2, PTL

=============================================================================
