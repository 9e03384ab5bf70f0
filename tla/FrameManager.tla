---------------------------- MODULE FrameManager ----------------------------
(***************************************************************************)
(* The FrameManager of a page (src/src/handler/frame.rs, domworld.rs): the *)
(* frames and their execution contexts, pieced together from the events of *)
(* the browser.  Module Frames has the browser; here its events are any,   *)
(* within what Events says of them.  Module Navigation has the loader ids, *)
(* the watchers and the deadlines of the same component.                   *)
(***************************************************************************)
EXTENDS Naturals, Sequences, FiniteSets, Functions

CONSTANTS
  MainIds,     \* ids the main frame has, one after the other
  ChildIds,    \* frames that come and go below it
  NoFrame,     \* no frame
  MaxContexts  \* bound: contexts of a frame and world remembered at a time

FrameIds == MainIds \cup ChildIds
Contexts == FrameIds \X {"primary", "secondary"} \X (1 .. MaxContexts)
NoContext == <<>>

ASSUME ManagerAssumption ==
  MainIds \cap ChildIds = {} /\ NoFrame \notin FrameIds /\ MaxContexts \in Nat \ {0}

VARIABLES
  main,      \* FrameManager::main_frame
  frames,    \* FrameManager::frames
  contexts,  \* FrameManager::context_ids
  ensured,   \* the utility world is in FrameManager::isolated_worlds
  panicked,  \* "Main frame is tracked." was not so
  inbox      \* events on their way to the handler

managerVars == <<main, frames, contexts, ensured, panicked>>

-----------------------------------------------------------------------------
(* The map of frames.                                                      *)

NewFrame(parent) == [parent |-> parent, children |-> {}, url |-> FALSE, lifecycle |-> {},
                     primary |-> NoContext, secondary |-> NoContext]

\* The frames that can be reached from f by child_frames.
Subtree(fs, f) ==
  {x \in DOMAIN fs : \A S \in SUBSET DOMAIN fs :
     f \in S /\ (\A y \in S : fs[y].children \cap DOMAIN fs \subseteq S) => x \in S}

\* The map without the frames D, each taken out of its parent.
Without(fs, D) ==
  [x \in DOMAIN fs \ D |->
     [fs[x] EXCEPT !.children = @ \ {d \in D : fs[d].parent = x}]]

\* Mutant of RemoveFramesRecursively: the parent keeps its link.
RemoveFrameOnly(fs, f) ==
  IF f \in DOMAIN fs THEN [x \in DOMAIN fs \ Subtree(fs, f) |-> fs[x]] ELSE fs

\* Mutant of RemoveFramesRecursively: the frames below stay.
RemoveOneFrame(fs, f) == IF f \in DOMAIN fs THEN Without(fs, {f}) ELSE fs

RemoveFramesRecursively(fs, f) ==
  IF f \in DOMAIN fs THEN Without(fs, Subtree(fs, f)) ELSE fs

RemoveChildren(fs, f) ==
  LET below == Without(fs, Subtree(fs, f) \ {f})
  IN [below EXCEPT ![f].children = {}]

-----------------------------------------------------------------------------
(* The FrameManager.                                                       *)

Event(type, f) == [type |-> type, frame |-> f, parent |-> NoFrame, context |-> NoContext]

\* on_frame_attached on the map fs.
Attach(fs, f, parent) ==
  IF f \in DOMAIN fs \/ parent \notin DOMAIN fs THEN fs
  ELSE [x \in DOMAIN fs \cup {f} |->
          CASE x = f      -> NewFrame(parent)
            [] x = parent -> [fs[x] EXCEPT !.children = @ \cup {f}]
            [] OTHER      -> fs[x]]

\* on_frame_navigated for a frame with a parent.
NavigateChild(fs, f) ==
  IF f \in DOMAIN fs THEN [RemoveChildren(fs, f) EXCEPT ![f].url = TRUE] ELSE fs

\* on_frame_navigated for a frame without parent, which becomes the main frame m.
\* Mutant of NavigateMain: the main frame keeps its children.
NavigateMainOnly(fs, m, f) ==
  LET navigated == IF m = NoFrame THEN NewFrame(NoFrame) ELSE fs[m]
  IN [x \in (DOMAIN fs \ {m}) \cup {f} |->
        IF x = f THEN [navigated EXCEPT !.url = TRUE] ELSE fs[x]]

NavigateMain(fs, m, f) ==
  LET rest == IF m = NoFrame THEN fs ELSE RemoveChildren(fs, m)
      navigated == IF m = NoFrame THEN NewFrame(NoFrame) ELSE rest[m]
  IN [x \in (DOMAIN rest \ {m}) \cup {f} |->
        IF x = f THEN [navigated EXCEPT !.url = TRUE] ELSE rest[x]]

Read == Head(inbox)
Reads(type) == inbox # <<>> /\ Read.type = type /\ inbox' = Tail(inbox)

OnFrameAttached ==
  /\ Reads("attached")
  /\ frames' = Attach(frames, Read.frame, Read.parent)
  /\ UNCHANGED <<main, contexts, ensured, panicked>>

OnFrameDetached ==
  /\ Reads("detached")
  /\ frames' = RemoveFramesRecursively(frames, Read.frame)
  /\ UNCHANGED <<main, contexts, ensured, panicked>>

\* The frame the main frame is expected in the map.
NavigationPanics == main # NoFrame /\ main \notin DOMAIN frames

\* Mutant of OnFrameNavigated: a new id of the main frame is not taken over.
OnFrameNavigatedKeeps ==
  /\ Reads("navigated")
  /\ frames' = IF Read.parent # NoFrame THEN NavigateChild(frames, Read.frame)
               ELSE NavigateMain(frames, main, Read.frame)
  /\ main' = IF main = NoFrame /\ Read.parent = NoFrame THEN Read.frame ELSE main
  /\ UNCHANGED <<panicked, contexts, ensured>>

OnFrameNavigated ==
  /\ Reads("navigated")
  /\ IF Read.parent # NoFrame
     THEN frames' = NavigateChild(frames, Read.frame) /\ UNCHANGED <<main, panicked>>
     ELSE IF NavigationPanics
          THEN panicked' = TRUE /\ UNCHANGED <<main, frames>>
          ELSE /\ frames' = NavigateMain(frames, main, Read.frame)
               /\ main' = Read.frame /\ UNCHANGED panicked
  /\ UNCHANGED <<contexts, ensured>>

\* on_frame_navigated_within_document, as far as it is about the frame.
OnFrameNavigatedWithin ==
  /\ Reads("within")
  /\ frames' = IF Read.frame \in DOMAIN frames
               THEN [frames EXCEPT ![Read.frame].url = TRUE] ELSE frames
  /\ UNCHANGED <<main, contexts, ensured, panicked>>

\* on_frame_tree has the effect of the events "attached" and "navigated" for each
\* frame, parents first, which is how the response stands in the inbox.
OnFrameStartedLoading ==
  /\ Reads("startedLoading")
  /\ frames' = IF Read.frame \in DOMAIN frames
               THEN [frames EXCEPT ![Read.frame].lifecycle = {}] ELSE frames
  /\ UNCHANGED <<main, contexts, ensured, panicked>>

\* Mutant of OnLifecycleEvent: "init" does not begin a new set.
OnLifecycleEventAdds ==
  /\ \E e \in {"init", "DOMContentLoaded", "load"} :
       /\ Reads(e)
       /\ frames' = IF Read.frame \notin DOMAIN frames THEN frames
                    ELSE [frames EXCEPT ![Read.frame].lifecycle = @ \cup {e}]
  /\ UNCHANGED <<main, contexts, ensured, panicked>>

\* on_page_lifecycle_event.
OnLifecycleEvent ==
  /\ \E e \in {"init", "DOMContentLoaded", "load"} :
       /\ Reads(e)
       /\ frames' = IF Read.frame \notin DOMAIN frames THEN frames
                    ELSE [frames EXCEPT ![Read.frame].lifecycle =
                            IF e = "init" THEN {e} ELSE @ \cup {e}]
  /\ UNCHANGED <<main, contexts, ensured, panicked>>

\* The default context of a frame, or the one of its utility world.
OnContextCreated(world) ==
  /\ Reads(world)
  /\ ensured' = (ensured \/ world = "secondary")
  /\ IF Read.frame \in DOMAIN frames
     THEN /\ frames' = [frames EXCEPT ![Read.frame] =
               IF world = "primary" THEN [@ EXCEPT !.primary = Read.context]
               ELSE IF @.secondary = NoContext THEN [@ EXCEPT !.secondary = Read.context] ELSE @]
          /\ contexts' = [c \in DOMAIN contexts \cup {Read.context} |->
                            IF c = Read.context THEN Read.frame ELSE contexts[c]]
     ELSE UNCHANGED <<frames, contexts>>
  /\ UNCHANGED <<main, panicked>>

\* Frame::destroy_context.
DestroyContext(frame, c) ==
  IF frame.primary = c THEN [frame EXCEPT !.primary = NoContext]
  ELSE IF frame.secondary = c THEN [frame EXCEPT !.secondary = NoContext] ELSE frame

\* Mutant of OnContextDestroyed: only the map of contexts is brought up to date.
OnContextForgotten ==
  /\ Reads("destroyed")
  /\ contexts' = [c \in DOMAIN contexts \ {Read.context} |-> contexts[c]]
  /\ UNCHANGED <<main, frames, ensured, panicked>>

\* Mutant of OnContextDestroyed: the context stays in the map, without a frame.
OnContextUnmapped ==
  /\ Reads("destroyed")
  /\ contexts' = [c \in DOMAIN contexts |-> IF c = Read.context THEN NoFrame ELSE contexts[c]]
  /\ UNCHANGED <<main, frames, ensured, panicked>>

OnContextDestroyed ==
  /\ Reads("destroyed")
  /\ contexts' = [c \in DOMAIN contexts \ {Read.context} |-> contexts[c]]
  /\ frames' = IF Read.context \in DOMAIN contexts /\ contexts[Read.context] \in DOMAIN frames
               THEN [frames EXCEPT ![contexts[Read.context]] = DestroyContext(@, Read.context)]
               ELSE frames
  /\ UNCHANGED <<main, ensured, panicked>>

\* The frames are found by their contexts.
OnContextsCleared ==
  /\ Reads("cleared")
  /\ frames' = [f \in DOMAIN frames |->
                  IF f \in Range(contexts)
                  THEN [frames[f] EXCEPT !.primary = NoContext, !.secondary = NoContext]
                  ELSE frames[f]]
  /\ contexts' = <<>>
  /\ UNCHANGED <<main, ensured, panicked>>

Manager == \/ OnFrameAttached \/ OnFrameDetached \/ OnFrameNavigated
           \/ OnFrameNavigatedWithin \/ OnFrameStartedLoading \/ OnLifecycleEvent
           \/ OnContextCreated("primary") \/ OnContextCreated("secondary")
           \/ OnContextDestroyed \/ OnContextsCleared

\* ensure_isolated_world; the commands it returns are the browser's to answer.
EnsureIsolatedWorld ==
  /\ ~ensured /\ ensured' = TRUE
  /\ UNCHANGED <<main, frames, contexts, panicked, inbox>>

\* Any event may come.  Only frames below another are attached to one and detached, and
\* only ids of the main frame navigate without a parent.
Events ==
  {e \in [type : {"attached", "detached", "navigated", "within", "startedLoading", "init",
                  "DOMContentLoaded", "load", "primary", "secondary", "destroyed", "cleared"},
          frame : FrameIds \cup {NoFrame}, parent : FrameIds \cup {NoFrame},
          context : Contexts \cup {NoContext}] :
     /\ e.type \in {"destroyed", "cleared"} <=> e.frame = NoFrame
     /\ e.type = "attached" /\ e.parent # NoFrame => e.frame \in ChildIds
     /\ e.type = "detached" => e.frame \in ChildIds
     /\ e.type = "navigated" => (e.parent = NoFrame <=> e.frame \in MainIds)
     /\ e.type \in {"primary", "secondary", "destroyed"} <=> e.context # NoContext}

ManagerInit ==
  /\ main = NoFrame /\ frames = <<>> /\ contexts = <<>> /\ ensured = FALSE /\ panicked = FALSE
  /\ inbox = <<>>

EventArrives == \E e \in Events : inbox' = Append(inbox, e) /\ UNCHANGED managerVars

ManagerSpec ==
  ManagerInit /\ [][Manager \/ EnsureIsolatedWorld \/ EventArrives]_<<managerVars, inbox>>

-----------------------------------------------------------------------------
(* Properties.                                                             *)

FrameRecords == [parent : FrameIds \cup {NoFrame}, children : SUBSET FrameIds, url : BOOLEAN,
                 lifecycle : SUBSET {"init", "DOMContentLoaded", "load"},
                 primary : Contexts \cup {NoContext}, secondary : Contexts \cup {NoContext}]

\* Every variable has its type.
ManagerTypeOK ==
  /\ main \in MainIds \cup {NoFrame}
  /\ DOMAIN frames \subseteq FrameIds /\ \A f \in DOMAIN frames : frames[f] \in FrameRecords
  /\ DOMAIN contexts \subseteq Contexts /\ \A c \in DOMAIN contexts : contexts[c] \in FrameIds
  /\ ensured \in BOOLEAN /\ panicked \in BOOLEAN
  /\ inbox \in Seq(Events)

\* on_frame_navigated finds the main frame in the map, where it expects it, and no
\* removal of frames ever reaches it: not through a link between frames that should
\* be gone, not when the main frame takes another id.
MainFrameTracked == ~panicked /\ (main # NoFrame => main \in DOMAIN frames)

\* parent_frame and child_frames say the same, between any two events: a frame is a
\* child of the frame that is its parent and of no other, and the frames without a
\* parent are the main frame alone.  (Frame::with_parent, remove_frames_recursively.)
LinksAgree ==
  /\ \A f \in DOMAIN frames : frames[f].children \subseteq
                               {c \in DOMAIN frames : frames[c].parent = f}
  /\ \A f \in DOMAIN frames \ {main} : /\ frames[f].parent \in DOMAIN frames
                                       /\ f \in frames[frames[f].parent].children

=============================================================================
