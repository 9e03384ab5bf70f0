------------------------------- MODULE Frames -------------------------------
(***************************************************************************)
(* The frames of one page and their execution contexts, as the             *)
(* FrameManager pieces them together from the events of the browser,       *)
(* beside the frames the browser really has.                               *)
(*                                                                         *)
(* Every event of a page travels on one session and nothing here answers   *)
(* the browser, so a browser that acts again only when its events are read *)
(* shows every order in which they can be read.  What one act of the       *)
(* browser reports is a sequence of events, read one by one.  A document   *)
(* is its load and its execution contexts.                                 *)
(***************************************************************************)
EXTENDS FrameManager, SequencesExt

CONSTANTS
  FirstMain,   \* the id the main frame has at first
  MaxActs      \* bound: acts of the page

ASSUME FramesAssumption == FirstMain \in MainIds /\ MaxActs \in Nat

VARIABLES
  step,      \* commands of the two chains of the FrameManager that were answered
  worlds,    \* frames the utility world is still to be created in
  root,      \* the browser's main frame
  tree,      \* the browser's frames
  scripted,  \* the browser creates the utility world in each new document
  acts       \* acts of the page, for the bound

browserVars == <<step, worlds, root, tree, scripted>>
vars == <<managerVars, inbox, browserVars, acts>>

-----------------------------------------------------------------------------
(* The browser (external).  Its events are sent from the step on that      *)
(* enables them: those of the frames from Page.enable on (step 1), of      *)
(* lifecycles from setLifecycleEventsEnabled on (step 3), of contexts from *)
(* Runtime.enable on (step 4).  Step 2 is the answer to getFrameTree, step *)
(* 5 the one to addScriptToEvaluateOnNewDocument.                          *)

Quiet == inbox = <<>>
FromStep(n, events) == IF step >= n THEN events ELSE <<>>
Report(events) == Quiet /\ inbox' = events

\* A context that nobody remembers is as good as a new one.
Remembered(c) ==
  \/ c \in DOMAIN contexts
  \/ \E f \in DOMAIN tree : c \in {tree[f].primary, tree[f].secondary}
  \/ \E f \in DOMAIN frames : c \in {frames[f].primary, frames[f].secondary}
Free(f, world) == {n \in 1 .. MaxContexts : ~Remembered(<<f, world, n>>)}
New(f, world) == <<f, world, CHOOSE n \in Free(f, world) : \A o \in Free(f, world) : n <= o>>
\* The bound on contexts: a new one can be told from those remembered.
Room == \A f \in FrameIds, world \in {"primary", "secondary"} : Free(f, world) # {}
Document(f, parent) ==
  [parent |-> parent, stage |-> "begun", reported |-> FALSE, told |-> {},
   primary |-> New(f, "primary"), secondary |-> IF scripted THEN New(f, "secondary") ELSE NoContext]

InContext(type, f, c) == [Event(type, f) EXCEPT !.context = c]
CreatedEvents(f, doc) ==
  <<InContext("primary", f, doc.primary)>>
  \o IF doc.secondary = NoContext THEN <<>> ELSE <<InContext("secondary", f, doc.secondary)>>
DestroyedEvents(f) ==
  (IF tree[f].secondary = NoContext THEN <<>>
   ELSE <<InContext("destroyed", NoFrame, tree[f].secondary)>>)
  \o <<InContext("destroyed", NoFrame, tree[f].primary)>>

Reported(type, f, parent) == [Event(type, f) EXCEPT !.parent = parent]
Kids(f)  == {c \in DOMAIN tree : tree[c].parent = f}
Below(f) == Kids(f) \cup UNION {Kids(c) : c \in Kids(f)}     \* frames are nested two deep

\* Orders of a set of frames in which a frame stands before those below it.
ParentsFirst(S) ==
  {s \in SetToSeqs(S) : \A i, j \in 1 .. Len(s) : tree[s[j]].parent = s[i] => i < j}
Each(s, EventsOf(_)) == FlattenSeq([i \in 1 .. Len(s) |-> EventsOf(s[i])])

DetachedEvents(s) == FromStep(1, Each(s, LAMBDA f : <<Event("detached", f)>>))

\* The frames s go with their contexts, before or after the events about those told of.
GoneEvents(s, told) ==
  LET destroyed == FromStep(4, Each(s, DestroyedEvents))
  IN {DetachedEvents(told) \o destroyed, destroyed \o DetachedEvents(told)}

Answers(events) == Report(events) /\ step' = step + 1

PageEnabled ==
  /\ step = 0 /\ Answers(<<>>)
  /\ UNCHANGED <<managerVars, worlds, root, tree, scripted>>

\* on_frame_tree attaches and navigates each frame, parents first.
FrameTreeAnswered ==
  /\ step = 1
  /\ \E s \in ParentsFirst(DOMAIN tree) :
       Answers(Each(s, LAMBDA f : <<Reported("attached", f, tree[f].parent),
                                    Reported("navigated", f, tree[f].parent)>>))
  /\ tree' = [f \in DOMAIN tree |-> [tree[f] EXCEPT !.reported = TRUE]]
  /\ UNCHANGED <<managerVars, worlds, root, scripted>>

\* The browser tells what the documents have reached.
Reached(f) ==
  (IF tree[f].stage \in {"dom", "loaded"} THEN <<Event("DOMContentLoaded", f)>> ELSE <<>>)
  \o IF tree[f].stage = "loaded" THEN <<Event("load", f)>> ELSE <<>>

LifecycleEnabled ==
  /\ step = 2
  /\ \E s \in ParentsFirst(DOMAIN tree) : Answers(Each(s, Reached))
  /\ tree' = [f \in DOMAIN tree |->
                [tree[f] EXCEPT !.told = {Reached(f)[i].type : i \in 1 .. Len(Reached(f))}]]
  /\ UNCHANGED <<managerVars, worlds, root, scripted>>

RuntimeEnabled ==
  /\ step = 3
  /\ \E s \in ParentsFirst(DOMAIN tree) :
       Answers(Each(s, LAMBDA f : CreatedEvents(f, tree[f])))
  /\ UNCHANGED <<managerVars, worlds, root, tree, scripted>>

\* The script for new documents comes first, then the world in each frame known at this
\* time, in any order.
ChainBegins ==
  /\ step = 4 /\ Quiet /\ EnsureIsolatedWorld
  /\ worlds' = DOMAIN frames
  /\ UNCHANGED <<step, root, tree, scripted>>

ScriptAdded ==
  /\ step = 4 /\ ensured /\ Answers(<<>>)
  /\ scripted' = TRUE
  /\ UNCHANGED <<managerVars, worlds, root, tree>>

\* A world that is there already is not created, in a frame that is gone there is none.
IsolatedWorldCreated(f) ==
  /\ scripted /\ f \in worlds /\ Room
  /\ worlds' = worlds \ {f}
  /\ IF f \in DOMAIN tree /\ tree[f].secondary = NoContext
     THEN /\ tree' = [tree EXCEPT ![f].secondary = New(f, "secondary")]
          /\ Report(<<InContext("secondary", f, New(f, "secondary"))>>)
     ELSE Report(<<>>) /\ UNCHANGED tree
  /\ UNCHANGED <<managerVars, step, root, scripted>>

Initialising == \/ PageEnabled \/ FrameTreeAnswered \/ LifecycleEnabled \/ RuntimeEnabled
                \/ ChainBegins \/ ScriptAdded \/ \E f \in FrameIds : IsolatedWorldCreated(f)

\* What the page does on its own.
FreshEvents(f, doc) == FromStep(3, <<Event("init", f)>>) \o FromStep(4, CreatedEvents(f, doc))

ChildAttached(c, p) ==
  /\ c \in ChildIds \ DOMAIN tree /\ p \in {root} \cup Kids(root)
  /\ tree' = [f \in DOMAIN tree \cup {c} |-> IF f = c THEN Document(c, p) ELSE tree[f]]
  /\ Report(FromStep(1, <<Reported("attached", c, p)>>) \o FreshEvents(c, Document(c, p)))
  /\ UNCHANGED <<managerVars, worlds, step, root, scripted>>

\* A frame goes with those below it: the browser tells of each of them or of it alone.
ChildDetached(c) ==
  /\ c \in ChildIds \cap DOMAIN tree
  /\ tree' = [f \in DOMAIN tree \ ({c} \cup Below(c)) |-> tree[f]]
  /\ \E s \in ParentsFirst({c} \cup Below(c)) :
       \E told \in {<<c>>, Reverse(s)} : \E events \in GoneEvents(s, told) : Report(events)
  /\ UNCHANGED <<managerVars, worlds, step, root, scripted>>

StartedLoading(f) ==
  /\ f \in DOMAIN tree
  /\ tree' = [tree EXCEPT ![f].told = {}]
  /\ Report(FromStep(1, <<Event("startedLoading", f)>>))
  /\ UNCHANGED <<managerVars, worlds, step, root, scripted>>

\* Within its document a frame may navigate to another url.
NavigatedWithin(f) ==
  /\ f \in DOMAIN tree
  /\ tree' = [tree EXCEPT ![f].reported = @ \/ step >= 1]
  /\ Report(FromStep(1, <<Event("within", f)>>))
  /\ UNCHANGED <<managerVars, worlds, step, root, scripted>>

\* The event that a frame navigated comes before or after those of its new document.
Before(navigated, fresh) == IF step = 0 THEN fresh ELSE <<navigated>> \o fresh
After(navigated, fresh)  == fresh \o FromStep(1, <<navigated>>)

\* A new document: the frames below go, with events of their own from below or without.
ChildCommitted(c) ==
  /\ c \in ChildIds \cap DOMAIN tree
  /\ LET document == [Document(c, tree[c].parent) EXCEPT !.reported = step >= 1]
         navigated == Reported("navigated", c, tree[c].parent)
         fresh == FromStep(4, DestroyedEvents(c)) \o FreshEvents(c, document)
     IN /\ tree' = [f \in DOMAIN tree \ Below(c) |-> IF f = c THEN document ELSE tree[f]]
        /\ \E s \in ParentsFirst(Below(c)) :
             \E gone \in GoneEvents(s, Reverse(s)) \cup GoneEvents(s, <<>>),
                news \in {Before(navigated, fresh), After(navigated, fresh)} : Report(gone \o news)
  /\ UNCHANGED <<managerVars, worlds, step, root, scripted>>

\* The main frame may take another id, of which the handler is told first; all its
\* contexts and those below are cleared by one event.
MainCommitted(new) ==
  /\ new = root \/ (root = FirstMain /\ new \in MainIds)
  /\ LET document == [Document(new, NoFrame) EXCEPT !.reported = step >= 1]
         navigated == Reported("navigated", new, NoFrame)
         fresh == FromStep(4, <<Event("cleared", NoFrame)>>) \o FreshEvents(new, document)
     IN /\ tree' = [f \in {new} |-> document]
        /\ \E s \in ParentsFirst(Below(root)),
              news \in {Before(navigated, fresh)}
                       \cup (IF new = root THEN {After(navigated, fresh)} ELSE {}) :
             \E told \in {<<>>, Reverse(s)} : Report(DetachedEvents(told) \o news)
  /\ root' = new
  /\ UNCHANGED <<managerVars, worlds, step, scripted>>

Reaches(f, from, to, event) ==
  /\ f \in DOMAIN tree /\ tree[f].stage = from
  /\ tree' = [tree EXCEPT ![f].stage = to,
                          ![f].told = IF step >= 3 THEN @ \cup {event} ELSE @]
  /\ Report(FromStep(3, <<Event(event, f)>>))
  /\ UNCHANGED <<managerVars, worlds, step, root, scripted>>

DomReady(f) == Reaches(f, "begun", "dom", "DOMContentLoaded")
Loaded(f)   == Reaches(f, "dom", "loaded", "load")

Page ==
  /\ acts < MaxActs /\ acts' = acts + 1 /\ Room
  /\ \/ \E c \in ChildIds, p \in FrameIds : ChildAttached(c, p)
     \/ \E c \in ChildIds : ChildDetached(c) \/ ChildCommitted(c)
     \/ \E f \in FrameIds : StartedLoading(f) \/ NavigatedWithin(f) \/ DomReady(f) \/ Loaded(f)
     \/ \E new \in MainIds : MainCommitted(new)

Init ==
  /\ ManagerInit
  /\ step = 0 /\ worlds = {} /\ root = FirstMain /\ scripted = FALSE /\ acts = 0
  /\ \E stage \in {"begun", "loaded"} :
       tree = [f \in {FirstMain} |->
                 [parent |-> NoFrame, stage |-> stage, reported |-> FALSE, told |-> {},
                  primary |-> <<FirstMain, "primary", 1>>, secondary |-> NoContext]]

Next == Page \/ (Manager /\ UNCHANGED <<browserVars, acts>>) \/ (Initialising /\ UNCHANGED acts)

Spec == Init /\ [][Next]_vars

-----------------------------------------------------------------------------
(* Properties.                                                             *)

\* Every variable has its type.
TypeOK ==
  /\ ManagerTypeOK
  /\ scripted \in BOOLEAN /\ step \in 0 .. 5 /\ worlds \subseteq FrameIds /\ acts \in 0 .. MaxActs
  /\ root \in MainIds /\ DOMAIN tree \subseteq FrameIds

\* Once the frame tree was read and whenever the events are, the frames of the handler
\* are those of the browser with their parents: none is missed because it came before
\* the tree was asked for, none stays after its parent navigated or went.
MirrorsBrowser ==
  Quiet /\ step >= 2 =>
    /\ main = root /\ DOMAIN frames = DOMAIN tree
    /\ \A f \in DOMAIN tree : frames[f].parent = tree[f].parent

\* Whenever the events are read, the worlds of a frame hold the contexts of its present
\* document, so that a script runs neither in a context that is destroyed nor in one of
\* another frame.  A main frame that changed its id is the exception: its utility world
\* is not found under the id the contexts were mapped to.
ContextsAreLive ==
  Quiet /\ step >= 4 => \A f \in DOMAIN tree :
    /\ frames[f].primary = tree[f].primary
    /\ frames[f].secondary # tree[f].secondary => f \in MainIds \ {FirstMain}

\* check_lifecycle for the event "load", over the frame and all below it.
CheckLifecycle(f) == \A x \in Subtree(frames, f) :
  \/ "load" \in frames[x].lifecycle
  \/ ~frames[x].url /\ "DOMContentLoaded" \in frames[x].lifecycle

\* Whenever the events are read, the page counts as loaded for a navigation exactly
\* when the browser told this of each of its frames since it last began to load, be it
\* in events or in the answer to setLifecycleEventsEnabled: a frame that was never
\* known to navigate need only have its DOM, one that is gone is not waited for.
CompletionIsExact ==
  Quiet /\ step >= 3 =>
    (CheckLifecycle(main) <=>
       \A f \in DOMAIN tree : \/ "load" \in tree[f].told
                              \/ ~tree[f].reported /\ "DOMContentLoaded" \in tree[f].told)

=============================================================================
