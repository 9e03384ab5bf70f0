-------------------------- MODULE FrameManagerProof --------------------------
(***************************************************************************)
(* Whatever the browser reports, the frames of the handler are a tree with *)
(* the main frame at its root, and the main frame is always in the map.    *)
(* With the browser of Frames, the tree is the one the browser has, the    *)
(* page has loaded when the browser said so of each of its frames, and the *)
(* worlds of a frame have the contexts of its document.                    *)
(*                                                                         *)
(* First the theorems about ManagerSpec, then the types of the batches of  *)
(* events that Frames sends, then what a batch makes of the shape of the   *)
(* tree: Reshape for one event, Leads for many.  Then what a batch makes   *)
(* of the marks of the frames, their urls and lifecycles, and last of the  *)
(* contexts held for one frame.                                            *)
(***************************************************************************)
EXTENDS Frames, SequenceTheorems, FiniteSetTheorems, WellFoundedInduction, TLAPS

-----------------------------------------------------------------------------
(* The inductive invariant.                                                *)

Mains(m) == {m} \ {NoFrame}

\* LinksAgree of any map.
Linked(fs, m) ==
  /\ \A f \in DOMAIN fs : fs[f].children \subseteq {c \in DOMAIN fs : fs[c].parent = f}
  /\ \A f \in DOMAIN fs \ {m} : fs[f].parent \in DOMAIN fs /\ f \in fs[fs[f].parent].children

\* No frame is above itself: among any frames one has its parent elsewhere.
Grounded(fs) == \A S \in SUBSET DOMAIN fs : S # {} => \E x \in S : fs[x].parent \notin S

Forest(fs, m) ==
  /\ m \in MainIds \cup {NoFrame}
  /\ fs = [f \in DOMAIN fs |-> fs[f]]
  /\ DOMAIN fs \subseteq ChildIds \cup Mains(m) /\ Mains(m) \subseteq DOMAIN fs
  /\ \A f \in DOMAIN fs : fs[f] \in FrameRecords
  /\ m # NoFrame => fs[m].parent = NoFrame
  /\ Linked(fs, m)
  /\ Grounded(fs)

IInv ==
  /\ Forest(frames, main)
  /\ DOMAIN contexts \subseteq Contexts /\ \A c \in DOMAIN contexts : contexts[c] \in FrameIds
  /\ ensured \in BOOLEAN /\ panicked = FALSE
  /\ inbox \in Seq(Events)

-----------------------------------------------------------------------------
(* Removing frames.                                                        *)

\* The frames reachable from f are closed below, and all but f have their parent among
\* them.
LEMMA SubtreeProps ==
  ASSUME NEW fs, NEW m, Forest(fs, m), NEW f \in DOMAIN fs
  PROVE  /\ f \in Subtree(fs, f) /\ Subtree(fs, f) \subseteq DOMAIN fs
         /\ \A y \in Subtree(fs, f) : fs[y].children \subseteq Subtree(fs, f)
         /\ \A y \in Subtree(fs, f) \ {f} : fs[y].parent \in Subtree(fs, f)
         /\ fs[f].parent \notin Subtree(fs, f)
<1> DEFINE T == Subtree(fs, f)
           Closed(S) == \A y \in S : fs[y].children \cap DOMAIN fs \subseteq S
<1>1. f \in T /\ T \subseteq DOMAIN fs
  BY DEF Subtree
<1>2. ASSUME NEW S \in SUBSET DOMAIN fs, f \in S, Closed(S) PROVE T \subseteq S
  BY <1>2 DEF Subtree
<1>3. \A y \in DOMAIN fs : fs[y].children \subseteq DOMAIN fs
  BY DEF Forest, Linked
<1>4. ASSUME NEW y \in T PROVE fs[y].children \subseteq T
  <2> SUFFICES ASSUME NEW c \in fs[y].children PROVE c \in T
    OBVIOUS
  <2>1. y \in DOMAIN fs /\ c \in DOMAIN fs
    BY <1>1, <1>3
  <2>2. ASSUME NEW S \in SUBSET DOMAIN fs, f \in S, Closed(S) PROVE c \in S
    <3>1. y \in S
      BY <1>2, <2>2
    <3> QED BY <2>1, <2>2, <3>1
  <2> QED BY <2>1, <2>2 DEF Subtree
<1>5. ASSUME NEW y \in T \ {f} PROVE fs[y].parent \in T
  <2> DEFINE S == {x \in T : x = f \/ fs[x].parent \in T}
  <2>1. S \in SUBSET DOMAIN fs /\ f \in S
    BY <1>1
  <2>2. Closed(S)
    <3> SUFFICES ASSUME NEW x \in S, NEW c \in fs[x].children, c \in DOMAIN fs PROVE c \in S
      OBVIOUS
    <3>1. c \in T /\ x \in T
      BY <1>4
    <3>2. fs[c].parent = x
      BY <1>1, <3>1 DEF Forest, Linked
    <3> QED BY <3>1, <3>2
  <2>3. T \subseteq S
    <3> HIDE DEF S, T, Closed
    <3> QED BY <1>2, <2>1, <2>2
  <2> QED BY <2>3
<1>6. fs[f].parent \notin T
  <2> SUFFICES ASSUME fs[f].parent \in T PROVE FALSE
    OBVIOUS
  <2>1. \A x \in T : fs[x].parent \in T
    BY <1>5
  <2> HIDE DEF T
  <2> QED BY <1>1, <2>1 DEF Forest, Grounded
<1> QED BY <1>1, <1>4, <1>5, <1>6

\* The frames of D below x.
Gone(fs, D, x) == {d \in D : fs[d].parent = x}

\* What is left without the frames D.
LEMMA WithoutProps ==
  ASSUME NEW fs, NEW m, Forest(fs, m), NEW D
  PROVE  /\ DOMAIN Without(fs, D) = DOMAIN fs \ D
         /\ \A x \in DOMAIN fs \ D :
              /\ Without(fs, D)[x] \in FrameRecords /\ Without(fs, D)[x].parent = fs[x].parent
              /\ Without(fs, D)[x].children = fs[x].children \ Gone(fs, D, x)
BY DEF Without, Forest, FrameRecords, Gone

\* A set of frames none of which is the main frame, with all below them, can go.
LEMMA ForestWithout ==
  ASSUME NEW fs, NEW m, Forest(fs, m), NEW D, D \subseteq DOMAIN fs, m \notin D,
         \A y \in D : fs[y].children \subseteq D
  PROVE  Forest(Without(fs, D), m)
<1> DEFINE rest == Without(fs, D)
<1>1. /\ rest = [x \in DOMAIN rest |-> rest[x]] /\ DOMAIN rest = DOMAIN fs \ D
      /\ \A x \in DOMAIN rest :
           /\ rest[x] \in FrameRecords /\ rest[x].parent = fs[x].parent
           /\ rest[x].children = fs[x].children \ Gone(fs, D, x)
  <2>1. DOMAIN rest = DOMAIN fs \ D
    BY WithoutProps
  <2>2. rest = [x \in DOMAIN rest |-> rest[x]]
    BY DEF Without
  <2>3. \A x \in DOMAIN fs \ D :
          /\ Without(fs, D)[x] \in FrameRecords /\ Without(fs, D)[x].parent = fs[x].parent
          /\ Without(fs, D)[x].children = fs[x].children \ Gone(fs, D, x)
    BY WithoutProps
  <2> QED BY <2>1, <2>2, <2>3
<1> HIDE DEF rest
<1>2. Linked(rest, m)
  <2>1. ASSUME NEW f \in DOMAIN rest
        PROVE  rest[f].children \subseteq {c \in DOMAIN rest : rest[c].parent = f}
    BY <1>1 DEF Forest, Linked, Gone
  <2>2. ASSUME NEW f \in DOMAIN rest \ {m}
        PROVE  rest[f].parent \in DOMAIN rest /\ f \in rest[rest[f].parent].children
    <3>1. fs[f].parent \in DOMAIN fs /\ f \in fs[fs[f].parent].children
      BY <1>1 DEF Forest, Linked
    <3>2. fs[f].parent \notin D
      BY <1>1, <3>1
    <3> QED BY <1>1, <3>1, <3>2 DEF Gone
  <2> QED BY <2>1, <2>2 DEF Linked
<1>3. Grounded(rest)
  BY <1>1 DEF Forest, Grounded
<1>4. /\ m \in MainIds \cup {NoFrame}
      /\ DOMAIN rest \subseteq ChildIds \cup Mains(m) /\ Mains(m) \subseteq DOMAIN rest
      /\ m # NoFrame => rest[m].parent = NoFrame
  BY <1>1 DEF Forest, Mains
<1>5. Forest(rest, m)
  BY <1>1, <1>2, <1>3, <1>4 DEF Forest
<1> QED BY <1>5 DEF rest

\* Fields other than the links do not matter.
LEMMA ForestSameLinks ==
  ASSUME NEW fs, NEW m, Forest(fs, m), NEW gs, gs = [f \in DOMAIN gs |-> gs[f]],
         DOMAIN gs = DOMAIN fs,
         \A f \in DOMAIN fs : /\ gs[f] \in FrameRecords /\ gs[f].parent = fs[f].parent
                              /\ gs[f].children = fs[f].children
  PROVE  Forest(gs, m)
<1>1. Linked(gs, m)
  BY DEF Forest, Linked
<1>2. Grounded(gs)
  BY DEF Forest, Grounded
<1> QED BY <1>1, <1>2 DEF Forest, Mains

-----------------------------------------------------------------------------
(* The handlers of the map.                                                *)

LEMMA AttachKeepsForest ==
  ASSUME NEW fs, NEW m, Forest(fs, m), NEW f \in ChildIds, NEW p \in FrameIds \cup {NoFrame}
  PROVE  Forest(Attach(fs, f, p), m)
<1> DEFINE gs == Attach(fs, f, p)
<1>1. CASE f \in DOMAIN fs \/ p \notin DOMAIN fs
  BY <1>1 DEF Attach
<1>2. CASE f \notin DOMAIN fs /\ p \in DOMAIN fs
  <2>1. p \in FrameIds /\ f # p /\ f # NoFrame /\ f \notin Mains(m)
    BY <1>2, ManagerAssumption DEF Forest, Mains, FrameIds
  <2>2. /\ gs = [x \in DOMAIN gs |-> gs[x]] /\ DOMAIN gs = DOMAIN fs \cup {f}
        /\ gs[f] = NewFrame(p)
        /\ gs[p] = [fs[p] EXCEPT !.children = @ \cup {f}]
        /\ \A x \in DOMAIN fs \ {p} : gs[x] = fs[x]
    BY <1>2, <2>1 DEF Attach
  <2> HIDE DEF gs
  <2>3. /\ gs[f] \in FrameRecords /\ gs[f].parent = p /\ gs[f].children = {}
        /\ gs[p] \in FrameRecords /\ gs[p].parent = fs[p].parent
        /\ gs[p].children = fs[p].children \cup {f}
    BY <1>2, <2>1, <2>2 DEF NewFrame, FrameRecords, Forest, FrameIds
  <2>4. \A x \in DOMAIN fs : gs[x].parent = fs[x].parent
    BY <2>2, <2>3
  <2>5. ASSUME NEW x \in DOMAIN fs PROVE fs[x].parent # f
    <3>1. fs[x].parent = f => x # m
      BY <1>2, <2>1, ManagerAssumption DEF Forest, Mains, FrameIds
    <3> QED BY <1>2, <3>1 DEF Forest, Linked
  <2>6. Linked(gs, m)
    <3>1. ASSUME NEW x \in DOMAIN gs, NEW c \in gs[x].children
          PROVE  c \in DOMAIN gs /\ gs[c].parent = x
      <4>1. CASE x = f
        BY <2>3, <4>1
      <4>2. CASE x \in DOMAIN fs /\ c \in fs[x].children
        BY <2>2, <2>4, <4>2 DEF Forest, Linked
      <4>3. CASE x = p /\ c = f
        BY <2>2, <2>3, <4>3
      <4> QED BY <2>2, <2>3, <4>1, <4>2, <4>3
    <3>2. ASSUME NEW x \in DOMAIN gs \ {m}
          PROVE  gs[x].parent \in DOMAIN gs /\ x \in gs[gs[x].parent].children
      <4>1. CASE x = f
        BY <1>2, <2>2, <2>3, <4>1
      <4>2. CASE x \in DOMAIN fs
        <5>1. fs[x].parent \in DOMAIN fs /\ x \in fs[fs[x].parent].children
          BY <4>2 DEF Forest, Linked
        <5> QED BY <2>2, <2>3, <2>4, <4>2, <5>1
      <4> QED BY <2>2, <4>1, <4>2
    <3> QED BY <3>1, <3>2 DEF Linked
  <2>7. Grounded(gs)
    <3> SUFFICES ASSUME NEW S \in SUBSET DOMAIN gs, S # {} PROVE \E x \in S : gs[x].parent \notin S
      BY DEF Grounded
    <3>1. CASE S \subseteq {f}
      BY <2>1, <2>3, <3>1
    <3>2. CASE S \ {f} # {}
      <4>1. S \ {f} \in SUBSET DOMAIN fs
        BY <2>2
      <4>2. PICK x \in S \ {f} : fs[x].parent \notin S \ {f}
        BY <3>2, <4>1 DEF Forest, Grounded
      <4> QED BY <2>4, <2>5, <4>1, <4>2
    <3> QED BY <3>1, <3>2
  <2>8. /\ DOMAIN gs \subseteq ChildIds \cup Mains(m) /\ Mains(m) \subseteq DOMAIN gs
        /\ \A x \in DOMAIN gs : gs[x] \in FrameRecords
        /\ m \in MainIds \cup {NoFrame} /\ (m # NoFrame => gs[m].parent = NoFrame)
    BY <2>2, <2>3, <2>4 DEF Forest, Mains
  <2>9. Forest(gs, m)
    BY <2>2, <2>6, <2>7, <2>8 DEF Forest
  <2> QED BY <2>9 DEF gs
<1> QED BY <1>1, <1>2

LEMMA RemoveKeepsForest ==
  ASSUME NEW fs, NEW m, Forest(fs, m), NEW f \in ChildIds
  PROVE  Forest(RemoveFramesRecursively(fs, f), m)
<1>1. CASE f \notin DOMAIN fs
  BY <1>1 DEF RemoveFramesRecursively
<1>2. CASE f \in DOMAIN fs
  <2>1. /\ Subtree(fs, f) \subseteq DOMAIN fs
        /\ \A y \in Subtree(fs, f) : fs[y].children \subseteq Subtree(fs, f)
        /\ \A y \in Subtree(fs, f) \ {f} : fs[y].parent \in Subtree(fs, f)
    BY <1>2, SubtreeProps
  <2>2. f # m /\ NoFrame \notin DOMAIN fs
    BY ManagerAssumption DEF Forest, Mains, FrameIds
  <2>3. m \notin Subtree(fs, f)
    BY <2>1, <2>2 DEF Forest
  <2> QED BY <1>2, <2>1, <2>3, ForestWithout DEF RemoveFramesRecursively
<1> QED BY <1>1, <1>2

\* A frame loses all below it and keeps its place.
LEMMA RemoveChildrenProps ==
  ASSUME NEW fs, NEW m, Forest(fs, m), NEW f \in DOMAIN fs
  PROVE  /\ Forest(RemoveChildren(fs, f), m)
         /\ f \in DOMAIN RemoveChildren(fs, f)
         /\ RemoveChildren(fs, f)[f].children = {}
<1> DEFINE D == Subtree(fs, f) \ {f}
           below == Without(fs, D)
           gs == RemoveChildren(fs, f)
<1>1. /\ D \subseteq DOMAIN fs
      /\ \A y \in Subtree(fs, f) : fs[y].children \subseteq Subtree(fs, f)
      /\ \A y \in D : fs[y].parent \in Subtree(fs, f)
      /\ fs[f].parent \notin Subtree(fs, f) /\ f \in Subtree(fs, f)
  BY SubtreeProps
<1>2. \A y \in D : fs[y].children \subseteq D
  BY <1>1 DEF Forest, Linked
<1>3. m \notin D
  <2>1. NoFrame \notin DOMAIN fs
    BY ManagerAssumption DEF Forest, Mains, FrameIds
  <2> QED BY <1>1, <2>1 DEF Forest
<1>4. Forest(below, m)
  BY <1>1, <1>2, <1>3, ForestWithout
<1>5. f \in DOMAIN fs \ D
  OBVIOUS
<1>6. D = Subtree(fs, f) \ {f} /\ below = Without(fs, D)
  OBVIOUS
<1> HIDE DEF D
<1>7. f \in DOMAIN below /\ below[f].children = fs[f].children \ Gone(fs, D, f)
  <2>1. DOMAIN Without(fs, D) = DOMAIN fs \ D
    BY WithoutProps
  <2>2. \A x \in DOMAIN fs \ D :
          /\ Without(fs, D)[x] \in FrameRecords /\ Without(fs, D)[x].parent = fs[x].parent
          /\ Without(fs, D)[x].children = fs[x].children \ Gone(fs, D, x)
    BY WithoutProps
  <2> QED BY <1>5, <1>6, <2>1, <2>2
<1>8. fs[f].children \subseteq Gone(fs, D, f)
  <2> SUFFICES ASSUME NEW c \in fs[f].children PROVE c \in D /\ fs[c].parent = f
    BY DEF Gone
  <2>1. fs[c].parent = f /\ c \in Subtree(fs, f)
    BY <1>1 DEF Forest, Linked
  <2>2. c # f
    BY <1>1, <2>1
  <2> QED BY <1>6, <2>1, <2>2
<1>9. below[f].children = {}
  BY <1>7, <1>8
<1> HIDE DEF below
<1>10. gs = [below EXCEPT ![f].children = {}]
  BY <1>6 DEF RemoveChildren
<1>11. gs = below
  <2>1. /\ below = [x \in DOMAIN below |-> below[x]] /\ below[f] \in FrameRecords
    BY <1>4, <1>7 DEF Forest
  <2>2. [below[f] EXCEPT !.children = {}] = below[f]
    BY <1>9, <2>1 DEF FrameRecords
  <2> QED BY <1>7, <1>10, <2>1, <2>2
<1> QED BY <1>4, <1>7, <1>9, <1>11

LEMMA NavigateChildKeepsForest ==
  ASSUME NEW fs, NEW m, Forest(fs, m), NEW f
  PROVE  Forest(NavigateChild(fs, f), m)
<1>1. CASE f \notin DOMAIN fs
  BY <1>1 DEF NavigateChild
<1>2. CASE f \in DOMAIN fs
  <2> DEFINE gs == RemoveChildren(fs, f)
             hs == [gs EXCEPT ![f].url = TRUE]
  <2>1. Forest(gs, m) /\ f \in DOMAIN gs
    BY <1>2, RemoveChildrenProps
  <2> HIDE DEF gs
  <2>2. /\ hs = [x \in DOMAIN hs |-> hs[x]] /\ DOMAIN hs = DOMAIN gs
        /\ \A x \in DOMAIN gs : /\ hs[x] \in FrameRecords /\ hs[x].parent = gs[x].parent
                                /\ hs[x].children = gs[x].children
    <3>1. gs = [x \in DOMAIN gs |-> gs[x]] /\ \A x \in DOMAIN gs : gs[x] \in FrameRecords
      BY <2>1 DEF Forest
    <3>2. hs = [x \in DOMAIN gs |-> IF x = f THEN [gs[f] EXCEPT !.url = TRUE] ELSE gs[x]]
      BY <2>1, <3>1
    <3>3. LET r == [gs[f] EXCEPT !.url = TRUE]
          IN r \in FrameRecords /\ r.parent = gs[f].parent /\ r.children = gs[f].children
      BY <2>1, <3>1 DEF FrameRecords
    <3> QED BY <2>1, <3>1, <3>2, <3>3
  <2>3. Forest(hs, m)
    BY <2>1, <2>2, ForestSameLinks
  <2> QED BY <1>2, <2>3 DEF NavigateChild, gs
<1> QED BY <1>1, <1>2

LEMMA NavigateMainKeepsForest ==
  ASSUME NEW fs, NEW m, Forest(fs, m), NEW f \in MainIds
  PROVE  Forest(NavigateMain(fs, m, f), f)
<1> DEFINE rest == IF m = NoFrame THEN fs ELSE RemoveChildren(fs, m)
           old == IF m = NoFrame THEN NewFrame(NoFrame) ELSE rest[m]
           gs == [x \in (DOMAIN rest \ {m}) \cup {f} |->
                    IF x = f THEN [old EXCEPT !.url = TRUE] ELSE rest[x]]
<1>1. Forest(rest, m) /\ (m # NoFrame => m \in DOMAIN rest /\ rest[m].children = {})
  <2>1. CASE m = NoFrame
    BY <2>1
  <2>2. CASE m # NoFrame
    <3>1. m \in DOMAIN fs
      BY <2>2 DEF Forest, Mains
    <3> QED BY <2>2, <3>1, RemoveChildrenProps
  <2> QED BY <2>1, <2>2
<1>2. old \in FrameRecords /\ old.parent = NoFrame /\ old.children = {}
  <2>1. CASE m = NoFrame
    BY <2>1 DEF NewFrame, FrameRecords
  <2>2. CASE m # NoFrame
    <3> HIDE DEF rest
    <3> QED BY <1>1, <2>2 DEF Forest
  <2> QED BY <2>1, <2>2
<1> HIDE DEF rest, old
<1>3. NoFrame \notin DOMAIN rest /\ f # NoFrame
  BY <1>1, ManagerAssumption DEF Forest, Mains, FrameIds
<1>4. f \notin DOMAIN rest \ {m}
  BY <1>1, ManagerAssumption DEF Forest, Mains, FrameIds
<1>5. /\ gs = [x \in DOMAIN gs |-> gs[x]] /\ DOMAIN gs = (DOMAIN rest \ {m}) \cup {f}
      /\ gs[f] \in FrameRecords /\ gs[f].parent = NoFrame /\ gs[f].children = {}
      /\ \A x \in DOMAIN rest \ {m} : gs[x] = rest[x]
  BY <1>2, <1>4 DEF FrameRecords
<1> HIDE DEF gs
<1>6. ASSUME NEW x \in DOMAIN rest \ {m} PROVE rest[x].parent \in DOMAIN rest \ {m}
  BY <1>1, <1>3 DEF Forest, Linked
<1>7. Linked(gs, f)
  <2>1. ASSUME NEW x \in DOMAIN gs
        PROVE  gs[x].children \subseteq {c \in DOMAIN gs : gs[c].parent = x}
    <3>1. CASE x = f
      BY <1>5, <3>1
    <3>2. CASE x \in DOMAIN rest \ {m}
      <4>1. \A c \in rest[x].children : c \in DOMAIN rest /\ rest[c].parent = x
        BY <1>1, <3>2 DEF Forest, Linked
      <4>2. \A c \in rest[x].children : c # m
        BY <1>1, <1>3, <3>2, <4>1 DEF Forest
      <4> QED BY <1>5, <3>2, <4>1, <4>2
    <3> QED BY <1>5, <3>1, <3>2
  <2>2. ASSUME NEW x \in DOMAIN gs \ {f}
        PROVE  gs[x].parent \in DOMAIN gs /\ x \in gs[gs[x].parent].children
    <3>1. x \in DOMAIN rest \ {m} /\ gs[x] = rest[x]
      BY <1>5
    <3>2. rest[x].parent \in DOMAIN rest \ {m} /\ x \in rest[rest[x].parent].children
      BY <1>1, <1>6, <3>1 DEF Forest, Linked
    <3> QED BY <1>5, <3>1, <3>2
  <2> QED BY <2>1, <2>2 DEF Linked
<1>8. Grounded(gs)
  <2> SUFFICES ASSUME NEW S \in SUBSET DOMAIN gs, S # {} PROVE \E x \in S : gs[x].parent \notin S
    BY DEF Grounded
  <2>1. NoFrame \notin S
    BY <1>3, <1>5
  <2>2. CASE f \in S
    BY <1>5, <2>1, <2>2
  <2>3. CASE f \notin S
    <3>1. S \subseteq DOMAIN rest \ {m}
      BY <1>5, <2>3
    <3>2. PICK x \in S : rest[x].parent \notin S
      BY <1>1, <3>1 DEF Forest, Grounded
    <3> QED BY <1>5, <3>1, <3>2
  <2> QED BY <2>2, <2>3
<1>9. /\ DOMAIN gs \subseteq ChildIds \cup Mains(f) /\ Mains(f) \subseteq DOMAIN gs
      /\ \A x \in DOMAIN gs : gs[x] \in FrameRecords
  BY <1>1, <1>3, <1>5 DEF Forest, Mains
<1>10. Forest(gs, f)
  BY <1>5, <1>7, <1>8, <1>9 DEF Forest
<1> QED BY <1>10 DEF NavigateMain, gs, old, rest

-----------------------------------------------------------------------------
(* The events.                                                             *)

LEMMA ReadProps ==
  ASSUME IInv, inbox # <<>>, inbox' = Tail(inbox)
  PROVE  Read \in Events /\ inbox' \in Seq(Events)
BY DEF IInv, Read

LEMMA AttachedStep == ASSUME IInv, OnFrameAttached PROVE IInv'
<1>1. Read \in Events /\ inbox' \in Seq(Events) /\ Read.type = "attached"
  BY ReadProps DEF OnFrameAttached, Reads
<1>2. Read.frame \in FrameIds /\ Read.parent \in FrameIds \cup {NoFrame}
      /\ (Read.parent # NoFrame => Read.frame \in ChildIds)
  BY <1>1 DEF Events
<1>3. Forest(frames, main) /\ NoFrame \notin DOMAIN frames
  BY ManagerAssumption DEF IInv, Forest, Mains, FrameIds
<1>4. Forest(Attach(frames, Read.frame, Read.parent), main)
  <2>1. CASE Read.parent = NoFrame
    BY <1>3, <2>1 DEF Attach
  <2>2. CASE Read.parent # NoFrame
    BY <1>2, <1>3, <2>2, AttachKeepsForest
  <2> QED BY <2>1, <2>2
<1> QED BY <1>1, <1>4 DEF OnFrameAttached, IInv

LEMMA DetachedStep == ASSUME IInv, OnFrameDetached PROVE IInv'
<1>1. Read \in Events /\ inbox' \in Seq(Events) /\ Read.type = "detached"
  BY ReadProps DEF OnFrameDetached, Reads
<1>2. Read.frame \in ChildIds
  BY <1>1 DEF Events
<1>3. Forest(RemoveFramesRecursively(frames, Read.frame), main)
  BY <1>2, RemoveKeepsForest DEF IInv
<1> QED BY <1>1, <1>3 DEF OnFrameDetached, IInv

LEMMA NavigatedStep == ASSUME IInv, OnFrameNavigated PROVE IInv'
<1>1. Read \in Events /\ inbox' \in Seq(Events) /\ Read.type = "navigated"
  BY ReadProps DEF OnFrameNavigated, Reads
<1>2. Forest(frames, main)
  BY DEF IInv
<1>3. CASE Read.parent # NoFrame
  <2>1. Forest(NavigateChild(frames, Read.frame), main)
    BY <1>2, NavigateChildKeepsForest
  <2> QED BY <1>1, <1>3, <2>1 DEF OnFrameNavigated, IInv
<1>4. CASE Read.parent = NoFrame
  <2>1. Read.frame \in MainIds
    BY <1>1, <1>4 DEF Events
  <2>2. Forest(NavigateMain(frames, main, Read.frame), Read.frame)
    BY <1>2, <2>1, NavigateMainKeepsForest
  <2>3. ~NavigationPanics
    BY <1>2 DEF Forest, Mains, NavigationPanics
  <2> QED BY <1>1, <1>4, <2>2, <2>3 DEF OnFrameNavigated, IInv
<1> QED BY <1>3, <1>4

\* A frame of the map is given other fields than its links.
LEMMA FieldsStep ==
  ASSUME IInv, UNCHANGED <<main, ensured, panicked>>, inbox' \in Seq(Events),
         DOMAIN contexts' \subseteq Contexts, \A c \in DOMAIN contexts' : contexts'[c] \in FrameIds,
         frames' = [f \in DOMAIN frames |-> frames'[f]],
         \A f \in DOMAIN frames :
           /\ frames'[f] \in FrameRecords /\ frames'[f].parent = frames[f].parent
           /\ frames'[f].children = frames[f].children
  PROVE  IInv'
<1>1. DOMAIN frames' = DOMAIN frames /\ frames' = [f \in DOMAIN frames' |-> frames'[f]]
  OBVIOUS
<1>2. Forest(frames', main)
  BY <1>1, ForestSameLinks DEF IInv
<1> QED BY <1>2 DEF IInv

\* One frame of the map is given other fields than its links.
LEMMA OneFrameStep ==
  ASSUME IInv, UNCHANGED <<main, ensured, panicked>>, inbox' \in Seq(Events),
         DOMAIN contexts' \subseteq Contexts, \A c \in DOMAIN contexts' : contexts'[c] \in FrameIds,
         NEW f \in DOMAIN frames, NEW r \in FrameRecords,
         r.parent = frames[f].parent, r.children = frames[f].children,
         frames' = [frames EXCEPT ![f] = r]
  PROVE  IInv'
<1>1. frames = [x \in DOMAIN frames |-> frames[x]] /\ \A x \in DOMAIN frames : frames[x] \in FrameRecords
  BY DEF IInv, Forest
<1>2. /\ DOMAIN frames' = DOMAIN frames /\ frames' = [x \in DOMAIN frames |-> frames'[x]]
      /\ \A x \in DOMAIN frames : frames'[x] = IF x = f THEN r ELSE frames[x]
  BY <1>1
<1> QED BY <1>1, <1>2, FieldsStep

LEMMA WithinStep == ASSUME IInv, OnFrameNavigatedWithin PROVE IInv'
<1>1. inbox' \in Seq(Events)
  BY ReadProps DEF OnFrameNavigatedWithin, Reads
<1>2. CASE Read.frame \in DOMAIN frames
  <2>1. frames[Read.frame] \in FrameRecords
    BY <1>2 DEF IInv, Forest
  <2>2. frames' = [frames EXCEPT ![Read.frame] = [frames[Read.frame] EXCEPT !.url = TRUE]]
    BY <1>2 DEF OnFrameNavigatedWithin
  <2>3. LET r == [frames[Read.frame] EXCEPT !.url = TRUE]
        IN /\ r \in FrameRecords /\ r.parent = frames[Read.frame].parent
           /\ r.children = frames[Read.frame].children
    BY <2>1 DEF FrameRecords
  <2> QED BY <1>1, <1>2, <2>2, <2>3, OneFrameStep DEF OnFrameNavigatedWithin, IInv
<1>3. CASE Read.frame \notin DOMAIN frames
  BY <1>1, <1>3 DEF OnFrameNavigatedWithin, IInv
<1> QED BY <1>2, <1>3

LEMMA StartedStep == ASSUME IInv, OnFrameStartedLoading PROVE IInv'
<1>1. inbox' \in Seq(Events)
  BY ReadProps DEF OnFrameStartedLoading, Reads
<1>2. CASE Read.frame \in DOMAIN frames
  <2>1. frames[Read.frame] \in FrameRecords
    BY <1>2 DEF IInv, Forest
  <2>2. frames' = [frames EXCEPT ![Read.frame] = [frames[Read.frame] EXCEPT !.lifecycle = {}]]
    BY <1>2 DEF OnFrameStartedLoading
  <2>3. LET r == [frames[Read.frame] EXCEPT !.lifecycle = {}]
        IN /\ r \in FrameRecords /\ r.parent = frames[Read.frame].parent
           /\ r.children = frames[Read.frame].children
    BY <2>1 DEF FrameRecords
  <2> QED BY <1>1, <1>2, <2>2, <2>3, OneFrameStep DEF OnFrameStartedLoading, IInv
<1>3. CASE Read.frame \notin DOMAIN frames
  BY <1>1, <1>3 DEF OnFrameStartedLoading, IInv
<1> QED BY <1>2, <1>3

LEMMA LifecycleStep == ASSUME IInv, OnLifecycleEvent PROVE IInv'
<1> PICK e \in {"init", "DOMContentLoaded", "load"} :
       /\ Reads(e)
       /\ frames' = IF Read.frame \notin DOMAIN frames THEN frames
                    ELSE [frames EXCEPT ![Read.frame].lifecycle =
                            IF e = "init" THEN {e} ELSE @ \cup {e}]
  BY DEF OnLifecycleEvent
<1>1. inbox' \in Seq(Events)
  BY ReadProps DEF Reads
<1>2. CASE Read.frame \in DOMAIN frames
  <2> DEFINE E == IF e = "init" THEN {e} ELSE frames[Read.frame].lifecycle \cup {e}
  <2>1. frames[Read.frame] \in FrameRecords
    BY <1>2 DEF IInv, Forest
  <2>2. frames' = [frames EXCEPT ![Read.frame] = [frames[Read.frame] EXCEPT !.lifecycle = E]]
    BY <1>2
  <2>3. LET r == [frames[Read.frame] EXCEPT !.lifecycle = E]
        IN /\ r \in FrameRecords /\ r.parent = frames[Read.frame].parent
           /\ r.children = frames[Read.frame].children
    BY <2>1 DEF FrameRecords
  <2> HIDE DEF E
  <2> QED BY <1>1, <1>2, <2>2, <2>3, OneFrameStep DEF OnLifecycleEvent, IInv
<1>3. CASE Read.frame \notin DOMAIN frames
  BY <1>1, <1>3 DEF OnLifecycleEvent, IInv
<1> QED BY <1>2, <1>3

LEMMA CreatedStep ==
  ASSUME IInv, NEW world \in {"primary", "secondary"}, OnContextCreated(world) PROVE IInv'
<1>1. Read \in Events /\ inbox' \in Seq(Events) /\ Read.type = world
  BY ReadProps DEF OnContextCreated, Reads
<1>2. Read.context \in Contexts
  BY <1>1 DEF Events
<1>3. ensured' \in BOOLEAN
  BY DEF OnContextCreated, IInv
<1>4. CASE Read.frame \in DOMAIN frames
  <2> DEFINE old == frames[Read.frame]
             r == IF world = "primary" THEN [old EXCEPT !.primary = Read.context]
                  ELSE IF old.secondary = NoContext THEN [old EXCEPT !.secondary = Read.context]
                  ELSE old
  <2>1. old \in FrameRecords /\ Read.frame \in FrameIds
    BY <1>4 DEF IInv, Forest, Mains, FrameIds
  <2>2. r \in FrameRecords /\ r.parent = old.parent /\ r.children = old.children
    BY <1>2, <2>1 DEF FrameRecords
  <2>3. frames' = [frames EXCEPT ![Read.frame] = r]
    BY <1>4 DEF OnContextCreated
  <2>4. DOMAIN contexts' \subseteq Contexts /\ \A c \in DOMAIN contexts' : contexts'[c] \in FrameIds
    BY <1>2, <1>4, <2>1 DEF OnContextCreated, IInv
  <2>5. frames = [x \in DOMAIN frames |-> frames[x]] /\ \A x \in DOMAIN frames : frames[x] \in FrameRecords
    BY DEF IInv, Forest
  <2> HIDE DEF r
  <2>6. /\ DOMAIN frames' = DOMAIN frames /\ frames' = [x \in DOMAIN frames' |-> frames'[x]]
        /\ \A x \in DOMAIN frames : frames'[x] = IF x = Read.frame THEN r ELSE frames[x]
    BY <2>3, <2>5
  <2>7. Forest(frames', main)
    BY <2>2, <2>5, <2>6, ForestSameLinks DEF IInv
  <2> QED BY <1>1, <1>3, <2>4, <2>7 DEF OnContextCreated, IInv
<1>5. CASE Read.frame \notin DOMAIN frames
  BY <1>1, <1>3, <1>5 DEF OnContextCreated, IInv
<1> QED BY <1>4, <1>5

LEMMA DestroyedStep == ASSUME IInv, OnContextDestroyed PROVE IInv'
<1>1. inbox' \in Seq(Events)
  BY ReadProps DEF OnContextDestroyed, Reads
<1>2. DOMAIN contexts' \subseteq Contexts /\ \A c \in DOMAIN contexts' : contexts'[c] \in FrameIds
  BY DEF OnContextDestroyed, IInv
<1>3. CASE Read.context \in DOMAIN contexts /\ contexts[Read.context] \in DOMAIN frames
  <2> DEFINE f == contexts[Read.context]
             r == DestroyContext(frames[f], Read.context)
  <2>1. frames[f] \in FrameRecords
    BY <1>3 DEF IInv, Forest
  <2>2. r \in FrameRecords /\ r.parent = frames[f].parent /\ r.children = frames[f].children
    BY <2>1 DEF FrameRecords, DestroyContext
  <2>3. frames' = [frames EXCEPT ![f] = r]
    BY <1>3 DEF OnContextDestroyed
  <2> HIDE DEF r, f
  <2> QED BY <1>1, <1>2, <1>3, <2>2, <2>3, OneFrameStep DEF OnContextDestroyed, f
<1>4. CASE ~(Read.context \in DOMAIN contexts /\ contexts[Read.context] \in DOMAIN frames)
  BY <1>1, <1>2, <1>4 DEF OnContextDestroyed, IInv
<1> QED BY <1>3, <1>4

LEMMA ClearedStep == ASSUME IInv, OnContextsCleared PROVE IInv'
<1>1. inbox' \in Seq(Events)
  BY ReadProps DEF OnContextsCleared, Reads
<1>2. DOMAIN contexts' \subseteq Contexts /\ \A c \in DOMAIN contexts' : contexts'[c] \in FrameIds
  <2>1. contexts' = <<>>
    BY DEF OnContextsCleared
  <2>2. DOMAIN contexts' = {}
    BY <2>1
  <2> QED BY <2>2
<1>3. \A f \in DOMAIN frames : frames[f] \in FrameRecords
  BY DEF IInv, Forest
<1>4. ASSUME NEW f \in DOMAIN frames
      PROVE  /\ frames'[f] \in FrameRecords /\ frames'[f].parent = frames[f].parent
             /\ frames'[f].children = frames[f].children
  <2>1. \/ frames'[f] = frames[f]
        \/ frames'[f] = [frames[f] EXCEPT !.primary = NoContext, !.secondary = NoContext]
    BY DEF OnContextsCleared
  <2> QED BY <1>3, <2>1 DEF FrameRecords
<1>5. frames' = [f \in DOMAIN frames |-> frames'[f]]
  BY DEF OnContextsCleared
<1> QED BY <1>1, <1>2, <1>4, <1>5, FieldsStep DEF OnContextsCleared

LEMMA InitIInv == ASSUME ManagerInit PROVE IInv
<1>1. DOMAIN frames = {} /\ DOMAIN contexts = {} /\ frames = [f \in DOMAIN frames |-> frames[f]]
  BY DEF ManagerInit
<1>2. Forest(frames, main)
  BY <1>1 DEF ManagerInit, Forest, Linked, Grounded, Mains
<1>3. inbox = <<>> /\ ensured \in BOOLEAN /\ panicked = FALSE
  BY DEF ManagerInit
<1>4. inbox \in Seq(Events)
  BY <1>3
<1> QED BY <1>1, <1>2, <1>3, <1>4 DEF IInv

LEMMA NextIInv ==
  ASSUME IInv, [Manager \/ EnsureIsolatedWorld \/ EventArrives]_<<managerVars, inbox>>
  PROVE  IInv'
<1>1. CASE Manager
  BY <1>1, AttachedStep, DetachedStep, NavigatedStep, WithinStep, StartedStep, LifecycleStep,
     CreatedStep, DestroyedStep, ClearedStep DEF Manager
<1>2. CASE EnsureIsolatedWorld
  BY <1>2 DEF EnsureIsolatedWorld, IInv
<1>3. CASE EventArrives
  BY <1>3 DEF EventArrives, managerVars, IInv
<1>4. CASE UNCHANGED <<managerVars, inbox>>
  BY <1>4 DEF managerVars, IInv
<1> QED BY <1>1, <1>2, <1>3, <1>4

LEMMA Inductive == ManagerSpec => []IInv
BY InitIInv, NextIInv, PTL DEF ManagerSpec

-----------------------------------------------------------------------------
(* The results.                                                            *)

\* Every variable of the FrameManager has its type, whatever the browser reports.
THEOREM ManagerTypeCorrect == ManagerSpec => []ManagerTypeOK
<1>1. IInv => ManagerTypeOK
  BY DEF IInv, Forest, Mains, ManagerTypeOK, FrameIds
<1> QED BY <1>1, Inductive, PTL

\* The main frame that on_frame_navigated expects is in the map, for any number of
\* frames and any order of their events, as long as it is never itself detached.
THEOREM MainFrameIsTracked == ManagerSpec => []MainFrameTracked
<1>1. IInv => MainFrameTracked
  BY DEF IInv, Forest, Mains, MainFrameTracked
<1> QED BY <1>1, Inductive, PTL

\* parent_frame and child_frames agree after every event, for any number of frames and
\* any nesting.
THEOREM FramesFormATree == ManagerSpec => []LinksAgree
<1>1. IInv => LinksAgree
  BY DEF IInv, Forest, Linked, LinksAgree
<1> QED BY <1>1, Inductive, PTL

-----------------------------------------------------------------------------
(* What the browser of module Frames reports is made of events.            *)

Less == {p \in Nat \X Nat : p[1] < p[2]}

\* A set of numbers that has 0 and every successor has them all.
LEMMA SetInduction ==
  ASSUME NEW T \in SUBSET Nat, 0 \in T, \A n \in T : n + 1 \in T
  PROVE  T = Nat
<1> SUFFICES ASSUME Nat \ T # {} PROVE FALSE
  OBVIOUS
<1>1. IsWellFoundedOn(Less, Nat)
  BY NatLessThanWellFounded DEF OpToRel, Less
<1>2. PICK n \in Nat \ T : \A m \in Nat \ T : <<m, n>> \notin Less
  BY <1>1, WFMin
<1>3. n - 1 \in Nat /\ n - 1 < n
  BY <1>2
<1>4. <<n - 1, n>> \in Less
  BY <1>3 DEF Less
<1>5. n - 1 \in T /\ n - 1 + 1 = n
  BY <1>2, <1>3, <1>4
<1> QED BY <1>2, <1>5

Join(s, t) == s \o t

\* What FlattenSeq computes for the first k of the sequences.
Flattens(seqs, k, f) ==
  f = [i \in 1 .. k |-> IF i = 1 THEN seqs[i] ELSE Join(f[i - 1], seqs[i])]

LEMMA FlattensAll ==
  ASSUME NEW seqs
  PROVE  \A k \in Nat : \E f : Flattens(seqs, k, f)
<1> DEFINE T == {k \in Nat : \E f : Flattens(seqs, k, f)}
<1>1. 0 \in T
  <2> DEFINE none == [i \in {} |-> seqs[i]]
  <2>1. 1 .. 0 = {}
    OBVIOUS
  <2>2. none = [i \in 1 .. 0 |-> IF i = 1 THEN seqs[i] ELSE Join(none[i - 1], seqs[i])]
    BY <2>1
  <2> HIDE DEF none
  <2>3. Flattens(seqs, 0, none)
    BY <2>2 DEF Flattens
  <2> QED BY <2>3
<1>2. ASSUME NEW k \in T PROVE k + 1 \in T
  <2>1. PICK f : Flattens(seqs, k, f)
    OBVIOUS
  <2> DEFINE g == [i \in 1 .. k + 1 |-> IF i = 1 THEN seqs[i] ELSE Join(f[i - 1], seqs[i])]
  <2>2. ASSUME NEW i \in 1 .. k PROVE g[i] = f[i]
    BY <2>1, <2>2 DEF Flattens
  <2>3. \A i \in 1 .. k + 1 : i # 1 => i - 1 \in 1 .. k
    OBVIOUS
  <2>4. \A i \in 1 .. k + 1 : g[i] = IF i = 1 THEN seqs[i] ELSE Join(g[i - 1], seqs[i])
    BY <2>2, <2>3
  <2>5. g = [i \in 1 .. k + 1 |-> g[i]]
    OBVIOUS
  <2> HIDE DEF g
  <2>6. Flattens(seqs, k + 1, g)
    BY <2>4, <2>5 DEF Flattens
  <2> QED BY <2>6
<1>3. T = Nat
  <2> HIDE DEF T
  <2> QED BY <1>1, <1>2, SetInduction DEF T
<1> QED BY <1>3

\* Sequences of events one after the other are a sequence of events.
LEMMA FlattenTyped ==
  ASSUME NEW E, NEW seqs \in Seq(Seq(E))
  PROVE  FlattenSeq(seqs) \in Seq(E)
<1> DEFINE f == CHOOSE f : Flattens(seqs, Len(seqs), f)
           T == {k \in Nat : k \in 1 .. Len(seqs) => f[k] \in Seq(E)}
<1>1. Len(seqs) \in Nat /\ \A i \in 1 .. Len(seqs) : seqs[i] \in Seq(E)
  OBVIOUS
<1>2. Flattens(seqs, Len(seqs), f)
  BY <1>1, FlattensAll
<1>3. CASE Len(seqs) = 0
  BY <1>3 DEF FlattenSeq
<1>4. CASE Len(seqs) # 0
  <2>1. FlattenSeq(seqs) = f[Len(seqs)]
    BY <1>4 DEF FlattenSeq, Flattens, Join
  <2> HIDE DEF f
  <2>2. 0 \in T
    OBVIOUS
  <2>3. ASSUME NEW k \in T PROVE k + 1 \in T
    <3> SUFFICES ASSUME k + 1 \in 1 .. Len(seqs) PROVE f[k + 1] \in Seq(E)
      OBVIOUS
    <3>1. seqs[k + 1] \in Seq(E)
      BY <1>1
    <3>2. f[k + 1] = IF k + 1 = 1 THEN seqs[k + 1] ELSE Join(f[k + 1 - 1], seqs[k + 1])
      BY <1>2 DEF Flattens
    <3>3. CASE k = 0
      BY <3>1, <3>2, <3>3
    <3>4. CASE k # 0
      <4>1. k + 1 # 1 /\ k + 1 - 1 = k /\ k \in 1 .. Len(seqs)
        BY <1>1, <3>4
      <4>2. f[k] \in Seq(E)
        BY <4>1
      <4> QED BY <3>1, <3>2, <4>1, <4>2 DEF Join
    <3> QED BY <3>3, <3>4
  <2>4. T = Nat
    <3> HIDE DEF T
    <3> QED BY <2>2, <2>3, SetInduction DEF T
  <2>5. Len(seqs) \in T /\ Len(seqs) \in 1 .. Len(seqs)
    BY <1>1, <1>4, <2>4
  <2> QED BY <2>1, <2>5
<1> QED BY <1>3, <1>4

LEMMA ListTyped ==
  ASSUME NEW S, NEW n \in Nat, NEW g \in [1 .. n -> S]
  PROVE  g \in Seq(S)
BY SeqDef

\* The lists of a set of frames.
LEMMA OrderTyped ==
  ASSUME NEW S, IsFiniteSet(S), NEW s \in ParentsFirst(S)
  PROVE  s \in Seq(S) /\ Reverse(s) \in Seq(S)
<1>1. Cardinality(S) \in Nat
  BY FS_CardinalityType
<1>2. s \in [1 .. Cardinality(S) -> S]
  BY DEF ParentsFirst, SetToSeqs
<1>3. s \in Seq(S)
  BY <1>1, <1>2, ListTyped
<1>4. Len(s) \in Nat /\ \A i \in 1 .. Len(s) : Len(s) - i + 1 \in 1 .. Len(s)
  BY <1>3
<1>5. \A i \in 1 .. Len(s) : s[Len(s) - i + 1] \in S
  BY <1>3, <1>4
<1>6. Reverse(s) \in [1 .. Len(s) -> S]
  BY <1>5 DEF Reverse
<1> QED BY <1>3, <1>4, <1>6, ListTyped

\* A document of the browser.
Documents == [parent : FrameIds \cup {NoFrame}, stage : {"begun", "dom", "loaded"},
              reported : BOOLEAN, told : SUBSET {"DOMContentLoaded", "load"},
              primary : Contexts, secondary : Contexts \cup {NoContext}]

\* A main frame, and no other, has no parent.
Rooted(f, parent) == parent = NoFrame <=> f \in MainIds

Tree(t) ==
  /\ IsFiniteSet(DOMAIN t) /\ DOMAIN t \subseteq FrameIds
  /\ \A f \in DOMAIN t : t[f] \in Documents /\ Rooted(f, t[f].parent)

BrowserIInv ==
  /\ scripted \in BOOLEAN /\ step \in 0 .. 5 /\ worlds \subseteq FrameIds /\ acts \in 0 .. MaxActs
  /\ root \in MainIds /\ Tree(tree)

\* The events that say nothing of where a frame hangs.
Calm == {e \in Events : e.type \notin {"attached", "detached", "navigated"}}

LEMMA CalmTyped == Calm \subseteq Events /\ \A q \in Seq(Calm) : q \in Seq(Events)
<1>1. Calm \subseteq Events
  BY DEF Calm
<1>2. ASSUME NEW q \in Seq(Calm) PROVE q \in Seq(Events)
  BY <1>1, SeqMonotonic
<1> QED BY <1>1, <1>2

\* Those that are about contexts alone.
Mute == {e \in Calm : e.type \in {"primary", "secondary", "destroyed", "cleared"}}

LEMMA MuteTyped == Mute \subseteq Calm /\ \A q \in Seq(Mute) : q \in Seq(Calm)
<1>1. Mute \subseteq Calm
  BY DEF Mute
<1>2. ASSUME NEW q \in Seq(Mute) PROVE q \in Seq(Calm)
  BY <1>1, SeqMonotonic
<1> QED BY <1>1, <1>2

LEMMA PlainEvent ==
  ASSUME NEW f \in FrameIds,
         NEW type \in {"within", "startedLoading", "init", "DOMContentLoaded", "load"}
  PROVE  Event(type, f) \in Calm
<1>1. f # NoFrame /\ NoContext \in Contexts \cup {NoContext}
  BY ManagerAssumption
<1> QED BY <1>1 DEF Event, Events, Calm

LEMMA DetachedEvent == ASSUME NEW f \in ChildIds PROVE Event("detached", f) \in Events
<1>1. f # NoFrame /\ f \in FrameIds
  BY ManagerAssumption DEF FrameIds
<1> QED BY <1>1 DEF Event, Events

LEMMA ReportedEvent ==
  ASSUME NEW f \in FrameIds, NEW p \in FrameIds \cup {NoFrame}, Rooted(f, p)
  PROVE  Reported("attached", f, p) \in Events /\ Reported("navigated", f, p) \in Events
<1>1. f # NoFrame /\ (p # NoFrame => f \in ChildIds)
  BY ManagerAssumption DEF Rooted, FrameIds
<1> QED BY <1>1 DEF Reported, Event, Events, Rooted

LEMMA ContextTyped == NoContext \notin Contexts
BY DEF NoContext, Contexts

LEMMA CreatedEvent ==
  ASSUME NEW f \in FrameIds, NEW c \in Contexts, NEW type \in {"primary", "secondary"}
  PROVE  InContext(type, f, c) \in Mute
<1>1. f # NoFrame /\ c # NoContext
  BY ManagerAssumption, ContextTyped
<1> QED BY <1>1 DEF InContext, Event, Events, Calm, Mute

LEMMA DestroyedEvent ==
  ASSUME NEW c \in Contexts PROVE InContext("destroyed", NoFrame, c) \in Mute
<1>1. c # NoContext
  BY ContextTyped
<1> QED BY <1>1 DEF InContext, Event, Events, Calm, Mute

LEMMA ClearedEvent == Event("cleared", NoFrame) \in Mute
BY DEF Event, Events, Calm, Mute

LEMMA FromStepTyped ==
  ASSUME NEW E, NEW n, NEW events \in Seq(E) PROVE FromStep(n, events) \in Seq(E)
BY DEF FromStep

LEMMA DocumentEvents ==
  ASSUME NEW f \in FrameIds, NEW doc \in Documents
  PROVE  /\ CreatedEvents(f, doc) \in Seq(Mute) /\ CreatedEvents(f, doc) \in Seq(Calm)
         /\ FreshEvents(f, doc) \in Seq(Calm)
<1>1. doc.primary \in Contexts /\ doc.secondary \in Contexts \cup {NoContext}
  BY DEF Documents
<1>2. InContext("primary", f, doc.primary) \in Mute
  BY <1>1, CreatedEvent
<1>3. CreatedEvents(f, doc) \in Seq(Mute)
  <2>1. CASE doc.secondary = NoContext
    BY <1>2, <2>1 DEF CreatedEvents
  <2>2. CASE doc.secondary # NoContext
    <3>1. InContext("secondary", f, doc.secondary) \in Mute
      BY <1>1, <2>2, CreatedEvent
    <3> QED BY <1>2, <2>2, <3>1 DEF CreatedEvents
  <2> QED BY <2>1, <2>2
<1>4. Event("init", f) \in Calm
  BY PlainEvent
<1>5. <<Event("init", f)>> \in Seq(Calm) /\ CreatedEvents(f, doc) \in Seq(Calm)
  BY <1>3, <1>4, MuteTyped
<1>6. /\ FromStep(3, <<Event("init", f)>>) \in Seq(Calm)
      /\ FromStep(4, CreatedEvents(f, doc)) \in Seq(Calm)
  BY <1>5, FromStepTyped
<1> QED BY <1>3, <1>5, <1>6 DEF FreshEvents

LEMMA DestroyedTyped ==
  ASSUME BrowserIInv, NEW f \in DOMAIN tree PROVE DestroyedEvents(f) \in Seq(Mute)
<1>1. tree[f].primary \in Contexts /\ tree[f].secondary \in Contexts \cup {NoContext}
  BY DEF BrowserIInv, Tree, Documents
<1>2. InContext("destroyed", NoFrame, tree[f].primary) \in Mute
  BY <1>1, DestroyedEvent
<1>3. CASE tree[f].secondary = NoContext
  BY <1>2, <1>3 DEF DestroyedEvents
<1>4. CASE tree[f].secondary # NoContext
  <2>1. InContext("destroyed", NoFrame, tree[f].secondary) \in Mute
    BY <1>1, <1>4, DestroyedEvent
  <2> QED BY <1>2, <1>4, <2>1 DEF DestroyedEvents
<1> QED BY <1>3, <1>4

\* The events of frames that go with their contexts.
LEMMA GoneTyped ==
  ASSUME BrowserIInv, NEW S \in SUBSET DOMAIN tree, NEW s \in Seq(S), NEW told \in Seq(ChildIds)
  PROVE  /\ DetachedEvents(told) \in Seq(Events)
         /\ GoneEvents(s, told) \subseteq Seq(Events)
         /\ \A events \in GoneEvents(s, told) : \E calm \in Seq(Mute) :
              \/ events = DetachedEvents(told) \o calm
              \/ events = calm \o DetachedEvents(told)
<1>1. ASSUME NEW f \in ChildIds PROVE <<Event("detached", f)>> \in Seq(Events)
  BY DetachedEvent
<1>2. ASSUME NEW f \in DOMAIN tree PROVE DestroyedEvents(f) \in Seq(Mute)
  BY DestroyedTyped
<1>3. DetachedEvents(told) \in Seq(Events)
  <2>1. Len(told) \in Nat /\ \A i \in 1 .. Len(told) : told[i] \in ChildIds
    OBVIOUS
  <2>2. [i \in 1 .. Len(told) |-> <<Event("detached", told[i])>>]
          \in [1 .. Len(told) -> Seq(Events)]
    BY <1>1, <2>1
  <2>3. FlattenSeq([i \in 1 .. Len(told) |-> <<Event("detached", told[i])>>]) \in Seq(Events)
    BY <2>1, <2>2, ListTyped, FlattenTyped
  <2> QED BY <2>3, FromStepTyped DEF DetachedEvents, Each
<1>4. FromStep(4, Each(s, DestroyedEvents)) \in Seq(Mute)
  <2>1. Len(s) \in Nat /\ \A i \in 1 .. Len(s) : s[i] \in DOMAIN tree
    OBVIOUS
  <2>2. [i \in 1 .. Len(s) |-> DestroyedEvents(s[i])] \in [1 .. Len(s) -> Seq(Mute)]
    BY <1>2, <2>1
  <2>3. FlattenSeq([i \in 1 .. Len(s) |-> DestroyedEvents(s[i])]) \in Seq(Mute)
    BY <2>1, <2>2, ListTyped, FlattenTyped
  <2> QED BY <2>3, FromStepTyped DEF Each
<1>5. ASSUME NEW a \in Seq(Events), NEW b \in Seq(Events)
      PROVE  {a \o b, b \o a} \subseteq Seq(Events)
  BY ConcatProperties
<1>6. GoneEvents(s, told) \subseteq Seq(Events)
  BY <1>3, <1>4, <1>5, MuteTyped, CalmTyped DEF GoneEvents
<1>7. \A events \in GoneEvents(s, told) : \E calm \in Seq(Mute) :
        events = DetachedEvents(told) \o calm \/ events = calm \o DetachedEvents(told)
  BY <1>4 DEF GoneEvents
<1> QED BY <1>3, <1>6, <1>7

\* A context that is new is one of those the bound leaves room for.
LEMMA NewTyped ==
  ASSUME Room, NEW f \in FrameIds, NEW world \in {"primary", "secondary"}
  PROVE  New(f, world) \in Contexts
<1> DEFINE free == Free(f, world)
<1>1. free # {} /\ free \subseteq Nat
  <2>1. free # {} /\ free \subseteq 1 .. MaxContexts
    BY DEF Room, Free
  <2>2. 1 .. MaxContexts \subseteq Nat
    BY ManagerAssumption
  <2> QED BY <2>1, <2>2
<1>2. \E n \in free : \A o \in free : n <= o
  <2> HIDE DEF free
  <2>1. IsWellFoundedOn(Less, Nat)
    BY NatLessThanWellFounded DEF OpToRel, Less
  <2>2. PICK n \in free : \A o \in free : <<o, n>> \notin Less
    BY <1>1, <2>1, WFMin
  <2>3. ASSUME NEW o \in free PROVE n <= o
    <3>1. o \in Nat /\ n \in Nat /\ <<o, n>> \notin Less
      BY <1>1, <2>2
    <3>2. ~(o < n)
      BY <3>1 DEF Less
    <3> QED BY <3>1, <3>2
  <2> QED BY <2>2, <2>3
<1> DEFINE n == CHOOSE n \in free : \A o \in free : n <= o
<1>3. n \in free
  BY <1>2
<1>4. n \in 1 .. MaxContexts /\ New(f, world) = <<f, world, n>>
  BY <1>3 DEF New, Free
<1> HIDE DEF n
<1> QED BY <1>4 DEF Contexts

LEMMA DocumentTyped ==
  ASSUME Room, NEW f \in FrameIds, NEW parent \in FrameIds \cup {NoFrame}
  PROVE  Document(f, parent) \in Documents /\ Document(f, parent).parent = parent
<1>1. New(f, "primary") \in Contexts /\ New(f, "secondary") \in Contexts
  BY NewTyped
<1> QED BY <1>1 DEF Document, Documents

LEMMA ReportedTyped ==
  ASSUME NEW doc \in Documents
  PROVE  /\ [doc EXCEPT !.reported = step >= 1] \in Documents
         /\ [doc EXCEPT !.reported = step >= 1].parent = doc.parent
<1>1. ASSUME NEW b \in BOOLEAN
      PROVE  [doc EXCEPT !.reported = b] \in Documents /\ [doc EXCEPT !.reported = b].parent = doc.parent
  BY DEF Documents
<1>2. (step >= 1) \in BOOLEAN
  OBVIOUS
<1> QED BY <1>1, <1>2

\* The frames below a frame are frames of the tree below the main frame.
LEMMA BelowTyped ==
  ASSUME BrowserIInv, NEW f \in FrameIds
  PROVE  Below(f) \subseteq DOMAIN tree /\ Below(f) \subseteq ChildIds
<1>1. ASSUME NEW p \in FrameIds, NEW c \in Kids(p) PROVE c \in DOMAIN tree /\ c \in ChildIds
  BY ManagerAssumption DEF Kids, BrowserIInv, Tree, Rooted, FrameIds
<1>2. Kids(f) \subseteq FrameIds
  BY <1>1 DEF FrameIds
<1> QED BY <1>1, <1>2 DEF Below

-----------------------------------------------------------------------------
(* The steps of the browser.                                               *)

LEMMA EventsArrive ==
  ASSUME IInv, UNCHANGED managerVars, inbox' \in Seq(Events)
  PROVE  IInv'
BY DEF IInv, managerVars

\* The tree where one frame has another document.
LEMMA TreeExcept ==
  ASSUME BrowserIInv, NEW f \in DOMAIN tree, NEW doc \in Documents, doc.parent = tree[f].parent,
         NEW t, t = [tree EXCEPT ![f] = doc]
  PROVE  Tree(t)
<1>1. DOMAIN t = DOMAIN tree /\ \A x \in DOMAIN t : t[x] = IF x = f THEN doc ELSE tree[x]
  OBVIOUS
<1> QED BY <1>1 DEF BrowserIInv, Tree

\* The events are calm and the tree keeps its shape.
KeepsShape ==
  /\ inbox' \in Seq(Calm) /\ root' = root /\ DOMAIN tree' = DOMAIN tree
  /\ \A f \in DOMAIN tree : tree'[f].parent = tree[f].parent

LEMMA PageEnabledStep ==
  ASSUME IInv, BrowserIInv, PageEnabled, UNCHANGED acts
  PROVE  IInv' /\ BrowserIInv' /\ KeepsShape
<1>1. inbox' \in Seq(Events) /\ inbox' \in Seq(Calm)
  BY DEF PageEnabled, Answers, Report
<1>2. IInv'
  BY <1>1, EventsArrive DEF PageEnabled
<1>3. BrowserIInv'
  BY DEF PageEnabled, Answers, BrowserIInv, Tree
<1> QED BY <1>1, <1>2, <1>3 DEF KeepsShape, PageEnabled

LEMMA FrameTreeAnsweredStep ==
  ASSUME IInv, BrowserIInv, FrameTreeAnswered, UNCHANGED acts PROVE IInv' /\ BrowserIInv'
<1> DEFINE Two(f) == <<Reported("attached", f, tree[f].parent),
                       Reported("navigated", f, tree[f].parent)>>
<1>1. PICK s \in ParentsFirst(DOMAIN tree) :
        Answers(FlattenSeq([i \in 1 .. Len(s) |-> Two(s[i])]))
  BY DEF FrameTreeAnswered, Each
<1>2. s \in Seq(DOMAIN tree)
  BY OrderTyped DEF BrowserIInv, Tree
<1>3. ASSUME NEW f \in DOMAIN tree PROVE Two(f) \in Seq(Events)
  <2>1. f \in FrameIds /\ tree[f].parent \in FrameIds \cup {NoFrame} /\ Rooted(f, tree[f].parent)
    BY DEF BrowserIInv, Tree, Documents
  <2> QED BY <2>1, ReportedEvent
<1>4. inbox' \in Seq(Events)
  <2>1. Len(s) \in Nat /\ \A i \in 1 .. Len(s) : s[i] \in DOMAIN tree
    BY <1>2
  <2> HIDE DEF Two
  <2>2. [i \in 1 .. Len(s) |-> Two(s[i])] \in [1 .. Len(s) -> Seq(Events)]
    BY <1>3, <2>1
  <2>3. FlattenSeq([i \in 1 .. Len(s) |-> Two(s[i])]) \in Seq(Events)
    BY <2>1, <2>2, ListTyped, FlattenTyped
  <2> QED BY <1>1, <2>3 DEF Answers, Report
<1>5. IInv'
  BY <1>4, EventsArrive DEF FrameTreeAnswered
<1>6. tree' = [f \in DOMAIN tree |-> [tree[f] EXCEPT !.reported = TRUE]]
  BY DEF FrameTreeAnswered
<1>7. ASSUME NEW f \in DOMAIN tree
      PROVE  tree'[f] \in Documents /\ tree'[f].parent = tree[f].parent
  BY <1>6 DEF BrowserIInv, Tree, Documents
<1>8. Tree(tree')
  BY <1>6, <1>7 DEF BrowserIInv, Tree
<1>9. step = 1 /\ step' = step + 1 /\ UNCHANGED <<worlds, root, scripted>>
  BY DEF FrameTreeAnswered, Answers
<1>10. BrowserIInv'
  BY <1>8, <1>9 DEF BrowserIInv
<1> QED BY <1>5, <1>10

LEMMA ReachedTyped ==
  ASSUME NEW f \in FrameIds
  PROVE  /\ Reached(f) \in Seq(Calm)
         /\ {Reached(f)[i].type : i \in 1 .. Len(Reached(f))} \subseteq {"DOMContentLoaded", "load"}
<1> DEFINE E == {Event("DOMContentLoaded", f), Event("load", f)}
<1>1. Reached(f) \in Seq(E)
  <2> DEFINE dom == IF tree[f].stage \in {"dom", "loaded"} THEN <<Event("DOMContentLoaded", f)>> ELSE <<>>
             load == IF tree[f].stage = "loaded" THEN <<Event("load", f)>> ELSE <<>>
  <2>1. /\ <<Event("DOMContentLoaded", f)>> \in Seq(E) /\ <<Event("load", f)>> \in Seq(E)
        /\ <<>> \in Seq(E)
    OBVIOUS
  <2>2. dom \in Seq(E) /\ load \in Seq(E)
    BY <2>1, Zenon
  <2>3. Reached(f) = dom \o load
    BY DEF Reached
  <2> HIDE DEF E, dom, load
  <2> QED BY <2>2, <2>3
<1>2. E \subseteq Calm
  BY PlainEvent
<1>3. \A e \in E : e.type \in {"DOMContentLoaded", "load"}
  BY DEF Event
<1>4. \A i \in 1 .. Len(Reached(f)) : Reached(f)[i] \in E
  <2> HIDE DEF E
  <2> QED BY <1>1, ElementOfSeq
<1>5. Reached(f) \in Seq(Calm)
  <2> HIDE DEF E
  <2> QED BY <1>1, <1>2, SeqMonotonic
<1> HIDE DEF E
<1> QED BY <1>3, <1>4, <1>5

LEMMA LifecycleEnabledStep ==
  ASSUME IInv, BrowserIInv, LifecycleEnabled, UNCHANGED acts
  PROVE  IInv' /\ BrowserIInv' /\ KeepsShape
<1>1. PICK s \in ParentsFirst(DOMAIN tree) :
        Answers(FlattenSeq([i \in 1 .. Len(s) |-> Reached(s[i])]))
  BY DEF LifecycleEnabled, Each
<1>2. s \in Seq(DOMAIN tree)
  BY OrderTyped DEF BrowserIInv, Tree
<1>3. inbox' \in Seq(Calm)
  <2>1. Len(s) \in Nat /\ \A i \in 1 .. Len(s) : s[i] \in FrameIds
    BY <1>2 DEF BrowserIInv, Tree
  <2>2. [i \in 1 .. Len(s) |-> Reached(s[i])] \in [1 .. Len(s) -> Seq(Calm)]
    BY <2>1, ReachedTyped
  <2>3. FlattenSeq([i \in 1 .. Len(s) |-> Reached(s[i])]) \in Seq(Calm)
    BY <2>1, <2>2, ListTyped, FlattenTyped
  <2> QED BY <1>1, <2>3 DEF Answers, Report
<1>4. IInv'
  BY <1>3, CalmTyped, EventsArrive DEF LifecycleEnabled
<1>5. tree' = [f \in DOMAIN tree |->
                [tree[f] EXCEPT !.told = {Reached(f)[i].type : i \in 1 .. Len(Reached(f))}]]
  BY DEF LifecycleEnabled
<1>6. ASSUME NEW f \in DOMAIN tree
      PROVE  tree'[f] \in Documents /\ tree'[f].parent = tree[f].parent
  <2>1. {Reached(f)[i].type : i \in 1 .. Len(Reached(f))} \subseteq {"DOMContentLoaded", "load"}
    BY ReachedTyped DEF BrowserIInv, Tree
  <2>2. tree[f] \in Documents
    BY DEF BrowserIInv, Tree
  <2>3. PICK told \in SUBSET {"DOMContentLoaded", "load"} : tree'[f] = [tree[f] EXCEPT !.told = told]
    BY <1>5, <2>1
  <2> QED BY <2>2, <2>3 DEF Documents
<1>7. Tree(tree')
  BY <1>5, <1>6 DEF BrowserIInv, Tree
<1>8. BrowserIInv'
  BY <1>1, <1>7 DEF LifecycleEnabled, Answers, BrowserIInv
<1> QED BY <1>3, <1>4, <1>5, <1>6, <1>8 DEF KeepsShape, LifecycleEnabled

LEMMA RuntimeEnabledStep ==
  ASSUME IInv, BrowserIInv, RuntimeEnabled, UNCHANGED acts
  PROVE  IInv' /\ BrowserIInv' /\ KeepsShape
<1>1. PICK s \in ParentsFirst(DOMAIN tree) :
        Answers(FlattenSeq([i \in 1 .. Len(s) |-> CreatedEvents(s[i], tree[s[i]])]))
  BY DEF RuntimeEnabled, Each
<1>2. s \in Seq(DOMAIN tree)
  BY OrderTyped DEF BrowserIInv, Tree
<1>3. inbox' \in Seq(Calm)
  <2>1. /\ Len(s) \in Nat
        /\ \A i \in 1 .. Len(s) : s[i] \in FrameIds /\ tree[s[i]] \in Documents
    BY <1>2 DEF BrowserIInv, Tree
  <2>2. [i \in 1 .. Len(s) |-> CreatedEvents(s[i], tree[s[i]])] \in [1 .. Len(s) -> Seq(Calm)]
    BY <2>1, DocumentEvents
  <2>3. FlattenSeq([i \in 1 .. Len(s) |-> CreatedEvents(s[i], tree[s[i]])]) \in Seq(Calm)
    BY <2>1, <2>2, ListTyped, FlattenTyped
  <2> QED BY <1>1, <2>3 DEF Answers, Report
<1>4. IInv'
  BY <1>3, CalmTyped, EventsArrive DEF RuntimeEnabled
<1>5. BrowserIInv'
  BY <1>1 DEF RuntimeEnabled, Answers, BrowserIInv
<1> QED BY <1>3, <1>4, <1>5 DEF KeepsShape, RuntimeEnabled

LEMMA ChainStep ==
  ASSUME IInv, BrowserIInv, ChainBegins \/ ScriptAdded, UNCHANGED acts
  PROVE  IInv' /\ BrowserIInv' /\ KeepsShape
<1>1. CASE ChainBegins
  <2>1. IInv'
    BY <1>1 DEF ChainBegins, EnsureIsolatedWorld, IInv
  <2>2. DOMAIN frames \subseteq FrameIds
    BY DEF IInv, Forest, Mains, FrameIds
  <2>3. BrowserIInv'
    BY <1>1, <2>2 DEF ChainBegins, BrowserIInv
  <2>4. inbox' = <<>>
    BY <1>1 DEF ChainBegins, Quiet, EnsureIsolatedWorld
  <2> QED BY <1>1, <2>1, <2>3, <2>4 DEF KeepsShape, ChainBegins
<1>2. CASE ScriptAdded
  <2>1. inbox' \in Seq(Events) /\ inbox' \in Seq(Calm)
    BY <1>2 DEF ScriptAdded, Answers, Report
  <2>2. IInv'
    BY <1>2, <2>1, EventsArrive DEF ScriptAdded
  <2>3. BrowserIInv'
    BY <1>2 DEF ScriptAdded, Answers, BrowserIInv
  <2> QED BY <1>2, <2>1, <2>2, <2>3 DEF KeepsShape, ScriptAdded
<1> QED BY <1>1, <1>2

LEMMA WorldCreatedStep ==
  ASSUME IInv, BrowserIInv, UNCHANGED acts, NEW f \in FrameIds, IsolatedWorldCreated(f)
  PROVE  IInv' /\ BrowserIInv' /\ KeepsShape
<1>1. New(f, "secondary") \in Contexts
  BY NewTyped DEF IsolatedWorldCreated
<1>2. CASE f \in DOMAIN tree /\ tree[f].secondary = NoContext
  <2>1. InContext("secondary", f, New(f, "secondary")) \in Calm
    BY <1>1, CreatedEvent, MuteTyped
  <2>2. inbox' = <<InContext("secondary", f, New(f, "secondary"))>>
    BY <1>2 DEF IsolatedWorldCreated, Report
  <2>3. IInv'
    BY <2>1, <2>2, CalmTyped, EventsArrive DEF IsolatedWorldCreated
  <2>4. tree' = [tree EXCEPT ![f] = [tree[f] EXCEPT !.secondary = New(f, "secondary")]]
    BY <1>2 DEF IsolatedWorldCreated
  <2>5. tree[f] \in Documents
    BY <1>2 DEF BrowserIInv, Tree
  <2>6. /\ [tree[f] EXCEPT !.secondary = New(f, "secondary")] \in Documents
        /\ [tree[f] EXCEPT !.secondary = New(f, "secondary")].parent = tree[f].parent
    BY <1>1, <2>5 DEF Documents
  <2>7. Tree(tree')
    BY <1>2, <2>4, <2>6, TreeExcept
  <2>8. BrowserIInv'
    BY <1>2, <2>7 DEF IsolatedWorldCreated, BrowserIInv
  <2>9. KeepsShape
    BY <1>2, <2>1, <2>2, <2>4, <2>6 DEF KeepsShape, IsolatedWorldCreated
  <2> QED BY <2>3, <2>8, <2>9
<1>3. CASE ~(f \in DOMAIN tree /\ tree[f].secondary = NoContext)
  <2>1. inbox' = <<>> /\ UNCHANGED tree
    BY <1>3 DEF IsolatedWorldCreated, Report
  <2>2. IInv'
    BY <2>1, EventsArrive DEF IsolatedWorldCreated
  <2>3. BrowserIInv'
    BY <1>3, <2>1 DEF IsolatedWorldCreated, BrowserIInv
  <2>4. KeepsShape
    BY <1>3, <2>1 DEF KeepsShape, IsolatedWorldCreated
  <2> QED BY <2>2, <2>3, <2>4
<1> QED BY <1>2, <1>3

\* What the page does on its own leaves the handler's commands alone.
LEMMA PageStep ==
  ASSUME IInv, BrowserIInv, acts < MaxActs, acts' = acts + 1, inbox' \in Seq(Events),
         UNCHANGED <<managerVars, worlds, step, scripted>>, root' \in MainIds, Tree(tree')
  PROVE  IInv' /\ BrowserIInv'
<1>1. acts' \in 0 .. MaxActs
  BY FramesAssumption DEF BrowserIInv
<1> QED BY <1>1, EventsArrive DEF BrowserIInv

LEMMA AttachedTyped ==
  ASSUME IInv, BrowserIInv, Room, NEW c \in ChildIds, NEW p \in FrameIds, ChildAttached(c, p)
  PROVE  inbox' \in Seq(Events) /\ Tree(tree')
<1> DEFINE doc == Document(c, p)
           t == [f \in DOMAIN tree \cup {c} |-> IF f = c THEN doc ELSE tree[f]]
<1>1. c \in FrameIds /\ Rooted(c, p)
  BY ManagerAssumption DEF Rooted, FrameIds
<1>2. doc \in Documents /\ doc.parent = p
  BY <1>1, DocumentTyped
<1>3. Reported("attached", c, p) \in Events /\ FreshEvents(c, doc) \in Seq(Events)
  BY <1>1, <1>2, ReportedEvent, DocumentEvents, CalmTyped
<1> HIDE DEF doc
<1>4. inbox' = FromStep(1, <<Reported("attached", c, p)>>) \o FreshEvents(c, doc)
  BY DEF ChildAttached, Report, doc
<1>5. inbox' \in Seq(Events)
  <2>1. <<Reported("attached", c, p)>> \in Seq(Events)
    BY <1>3
  <2>2. FromStep(1, <<Reported("attached", c, p)>>) \in Seq(Events)
    BY <2>1, FromStepTyped
  <2> QED BY <1>3, <1>4, <2>2, ConcatProperties
<1>6. IsFiniteSet(DOMAIN tree \cup {c})
  BY FS_AddElement DEF BrowserIInv, Tree
<1>7. DOMAIN t = DOMAIN tree \cup {c} /\ \A f \in DOMAIN t : t[f] = IF f = c THEN doc ELSE tree[f]
  OBVIOUS
<1>8. tree' = t
  BY DEF ChildAttached, doc
<1> HIDE DEF t
<1>9. Tree(t)
  BY <1>1, <1>2, <1>6, <1>7 DEF BrowserIInv, Tree
<1> QED BY <1>5, <1>8, <1>9

\* A part of the tree is a tree.
LEMMA TreePart ==
  ASSUME BrowserIInv, NEW D \in SUBSET DOMAIN tree
  PROVE  Tree([f \in D |-> tree[f]])
<1>1. IsFiniteSet(D)
  BY FS_Subset DEF BrowserIInv, Tree
<1> QED BY <1>1 DEF BrowserIInv, Tree

\* What is told of frames that go.
LEMMA GoneBatch ==
  ASSUME BrowserIInv, NEW S \in SUBSET (DOMAIN tree \cap ChildIds), NEW s \in ParentsFirst(S)
  PROVE  /\ s \in Seq(DOMAIN tree) /\ Reverse(s) \in Seq(ChildIds) /\ <<>> \in Seq(ChildIds)
         /\ \A told \in Seq(ChildIds) :
              /\ DetachedEvents(told) \in Seq(Events)
              /\ GoneEvents(s, told) \subseteq Seq(Events)
              /\ \A events \in GoneEvents(s, told) : \E calm \in Seq(Mute) :
                   \/ events = DetachedEvents(told) \o calm
                   \/ events = calm \o DetachedEvents(told)
<1>1. IsFiniteSet(S)
  BY FS_Subset DEF BrowserIInv, Tree
<1>2. s \in Seq(S) /\ Reverse(s) \in Seq(S)
  BY <1>1, OrderTyped
<1>3. s \in Seq(DOMAIN tree) /\ Reverse(s) \in Seq(ChildIds)
  BY <1>2, SeqMonotonic
<1>4. \A told \in Seq(ChildIds) :
        /\ DetachedEvents(told) \in Seq(Events)
        /\ GoneEvents(s, told) \subseteq Seq(Events)
        /\ \A events \in GoneEvents(s, told) : \E calm \in Seq(Mute) :
             \/ events = DetachedEvents(told) \o calm
             \/ events = calm \o DetachedEvents(told)
  BY <1>2, GoneTyped
<1>5. <<>> \in Seq(ChildIds)
  OBVIOUS
<1> QED BY <1>3, <1>4, <1>5, Zenon

LEMMA DetachedTyped ==
  ASSUME IInv, BrowserIInv, NEW c \in ChildIds, ChildDetached(c)
  PROVE  inbox' \in Seq(Events) /\ Tree(tree')
<1> DEFINE S == {c} \cup Below(c)
<1>1. c \in FrameIds /\ c \in DOMAIN tree
  BY DEF FrameIds, ChildDetached
<1>2. S \subseteq DOMAIN tree \cap ChildIds
  BY <1>1, BelowTyped
<1>3. PICK s \in ParentsFirst(S) :
        \E told \in {<<c>>, Reverse(s)} : inbox' \in GoneEvents(s, told)
  BY DEF ChildDetached, Report
<1>4. PICK told \in {<<c>>, Reverse(s)} : inbox' \in GoneEvents(s, told)
  BY <1>3
<1> HIDE DEF S
<1>5. told \in Seq(ChildIds)
  <2>1. <<c>> \in Seq(ChildIds)
    OBVIOUS
  <2>2. Reverse(s) \in Seq(ChildIds)
    BY <1>2, GoneBatch
  <2> QED BY <2>1, <2>2
<1>6. inbox' \in Seq(Events)
  BY <1>2, <1>4, <1>5, GoneBatch
<1>7. Tree(tree')
  BY TreePart DEF ChildDetached
<1> QED BY <1>6, <1>7

LEMMA PlainTyped ==
  ASSUME IInv, BrowserIInv, NEW f \in FrameIds,
         StartedLoading(f) \/ NavigatedWithin(f) \/ DomReady(f) \/ Loaded(f)
  PROVE  inbox' \in Seq(Events) /\ Tree(tree') /\ KeepsShape
<1>1. f \in DOMAIN tree
  BY DEF StartedLoading, NavigatedWithin, DomReady, Loaded, Reaches
<1>2. tree[f] \in Documents
  BY <1>1 DEF BrowserIInv, Tree
<1>3. PICK n \in Nat, type \in {"within", "startedLoading", "DOMContentLoaded", "load"} :
        inbox' = FromStep(n, <<Event(type, f)>>)
  <2>1. CASE StartedLoading(f)
    BY <2>1 DEF StartedLoading, Report
  <2>2. CASE NavigatedWithin(f)
    BY <2>2 DEF NavigatedWithin, Report
  <2>3. CASE DomReady(f)
    BY <2>3 DEF DomReady, Reaches, Report
  <2>4. CASE Loaded(f)
    BY <2>4 DEF Loaded, Reaches, Report
  <2> QED BY <2>1, <2>2, <2>3, <2>4
<1>4. <<Event(type, f)>> \in Seq(Calm)
  BY PlainEvent
<1>5. inbox' \in Seq(Calm)
  BY <1>3, <1>4, FromStepTyped
<1>6. PICK doc \in Documents : doc.parent = tree[f].parent /\ tree' = [tree EXCEPT ![f] = doc]
  <2>1. CASE StartedLoading(f)
    <3>1. [tree[f] EXCEPT !.told = {}] \in Documents
          /\ [tree[f] EXCEPT !.told = {}].parent = tree[f].parent
      BY <1>2 DEF Documents
    <3>2. tree' = [tree EXCEPT ![f] = [tree[f] EXCEPT !.told = {}]]
      BY <2>1, <1>1 DEF StartedLoading
    <3> QED BY <3>1, <3>2
  <2>2. CASE NavigatedWithin(f)
    <3> DEFINE doc == [tree[f] EXCEPT !.reported = @ \/ step >= 1]
    <3>1. doc \in Documents /\ doc.parent = tree[f].parent
      BY <1>2 DEF Documents
    <3>2. tree' = [tree EXCEPT ![f] = doc]
      BY <2>2, <1>1 DEF NavigatedWithin
    <3> QED BY <3>1, <3>2
  <2>3. ASSUME NEW from, NEW to \in {"dom", "loaded"}, NEW e \in {"DOMContentLoaded", "load"},
               Reaches(f, from, to, e)
        PROVE  \E doc \in Documents : /\ doc.parent = tree[f].parent
                                      /\ tree' = [tree EXCEPT ![f] = doc]
    <3> DEFINE doc == [tree[f] EXCEPT !.stage = to, !.told = IF step >= 3 THEN @ \cup {e} ELSE @]
    <3>1. doc \in Documents /\ doc.parent = tree[f].parent
      BY <1>2 DEF Documents
    <3>2. tree' = [tree EXCEPT ![f] = doc]
      BY <2>3, <1>1 DEF Reaches
    <3> QED BY <3>1, <3>2
  <2> QED BY <2>1, <2>2, <2>3 DEF DomReady, Loaded
<1>7. Tree(tree')
  BY <1>1, <1>6, TreeExcept
<1>8. root' = root
  BY DEF StartedLoading, NavigatedWithin, DomReady, Loaded, Reaches
<1> QED BY <1>5, <1>6, <1>7, <1>8, CalmTyped DEF KeepsShape

\* The event that a frame navigated and those of its document.
LEMMA AroundTyped ==
  ASSUME NEW navigated, <<navigated>> \in Seq(Events), NEW fresh \in Seq(Events)
  PROVE  Before(navigated, fresh) \in Seq(Events) /\ After(navigated, fresh) \in Seq(Events)
<1>1. FromStep(1, <<navigated>>) \in Seq(Events)
  BY FromStepTyped
<1> QED BY <1>1, ConcatProperties DEF Before, After

LEMMA CommittedTyped ==
  ASSUME IInv, BrowserIInv, Room, NEW c \in ChildIds, ChildCommitted(c)
  PROVE  inbox' \in Seq(Events) /\ Tree(tree')
<1> DEFINE document == [Document(c, tree[c].parent) EXCEPT !.reported = step >= 1]
           navigated == Reported("navigated", c, tree[c].parent)
           destroyed == FromStep(4, DestroyedEvents(c))
           fresh == destroyed \o FreshEvents(c, document)
           t == [f \in DOMAIN tree \ Below(c) |-> IF f = c THEN document ELSE tree[f]]
<1>1. c \in FrameIds /\ c \in DOMAIN tree
  BY DEF FrameIds, ChildCommitted
<1>2. tree[c].parent \in FrameIds \cup {NoFrame} /\ Rooted(c, tree[c].parent)
  BY <1>1 DEF BrowserIInv, Tree, Documents
<1>3. document \in Documents /\ document.parent = tree[c].parent
  <2>1. /\ Document(c, tree[c].parent) \in Documents
        /\ Document(c, tree[c].parent).parent = tree[c].parent
    BY <1>1, <1>2, DocumentTyped
  <2> QED BY <2>1, ReportedTyped
<1>4. PICK s \in ParentsFirst(Below(c)) :
        \E gone \in GoneEvents(s, Reverse(s)) \cup GoneEvents(s, <<>>),
           news \in {Before(navigated, fresh), After(navigated, fresh)} : inbox' = gone \o news
  BY DEF ChildCommitted, Report
<1>5. tree' = t
  BY DEF ChildCommitted
<1> HIDE DEF document
<1>6. PICK gone \in GoneEvents(s, Reverse(s)) \cup GoneEvents(s, <<>>),
           news \in {Before(navigated, fresh), After(navigated, fresh)} : inbox' = gone \o news
  BY <1>4
<1>7. Below(c) \subseteq DOMAIN tree \cap ChildIds
  BY <1>1, BelowTyped
<1>8. gone \in Seq(Events)
  BY <1>6, <1>7, GoneBatch
<1>9. <<navigated>> \in Seq(Events)
  <2>1. navigated \in Events
    BY <1>1, <1>2, ReportedEvent
  <2> QED BY <2>1
<1>10. destroyed \in Seq(Events)
  BY <1>1, DestroyedTyped, MuteTyped, CalmTyped, FromStepTyped
<1>11. fresh \in Seq(Events)
  <2>1. FreshEvents(c, document) \in Seq(Events)
    BY <1>1, <1>3, DocumentEvents, CalmTyped
  <2> QED BY <1>10, <2>1, ConcatProperties
<1> HIDE DEF navigated, destroyed, fresh
<1>12. news \in Seq(Events)
  BY <1>6, <1>9, <1>11, AroundTyped
<1>13. inbox' \in Seq(Events)
  BY <1>6, <1>8, <1>12, ConcatProperties
<1>14. IsFiniteSet(DOMAIN tree \ Below(c))
  BY FS_Subset DEF BrowserIInv, Tree
<1>15. DOMAIN t = DOMAIN tree \ Below(c)
       /\ \A f \in DOMAIN t : t[f] = IF f = c THEN document ELSE tree[f]
  OBVIOUS
<1> HIDE DEF t
<1>16. Tree(t)
  BY <1>2, <1>3, <1>14, <1>15 DEF BrowserIInv, Tree
<1> QED BY <1>5, <1>13, <1>16

LEMMA MainCommittedTyped ==
  ASSUME IInv, BrowserIInv, Room, NEW new \in MainIds, MainCommitted(new)
  PROVE  inbox' \in Seq(Events) /\ Tree(tree')
<1> DEFINE document == [Document(new, NoFrame) EXCEPT !.reported = step >= 1]
           navigated == Reported("navigated", new, NoFrame)
           cleared == FromStep(4, <<Event("cleared", NoFrame)>>)
           fresh == cleared \o FreshEvents(new, document)
           t == [f \in {new} |-> document]
<1>1. new \in FrameIds /\ root \in FrameIds /\ Rooted(new, NoFrame)
  BY DEF FrameIds, BrowserIInv, Rooted
<1>2. document \in Documents /\ document.parent = NoFrame
  <2>1. Document(new, NoFrame) \in Documents /\ Document(new, NoFrame).parent = NoFrame
    BY <1>1, DocumentTyped
  <2> QED BY <2>1, ReportedTyped
<1>3. PICK s \in ParentsFirst(Below(root)) :
        \E news \in {Before(navigated, fresh), After(navigated, fresh)},
           told \in {<<>>, Reverse(s)} : inbox' = DetachedEvents(told) \o news
  BY DEF MainCommitted, Report
<1>4. tree' = t
  BY DEF MainCommitted
<1> HIDE DEF document
<1>5. PICK news \in {Before(navigated, fresh), After(navigated, fresh)},
           told \in {<<>>, Reverse(s)} : inbox' = DetachedEvents(told) \o news
  BY <1>3
<1>6. DetachedEvents(told) \in Seq(Events)
  <2>1. Below(root) \subseteq DOMAIN tree \cap ChildIds
    BY <1>1, BelowTyped
  <2> QED BY <2>1, GoneBatch
<1>7. <<navigated>> \in Seq(Events)
  <2>1. navigated \in Events
    BY <1>1, ReportedEvent
  <2> QED BY <2>1
<1>8. cleared \in Seq(Events)
  <2>1. <<Event("cleared", NoFrame)>> \in Seq(Events)
    BY ClearedEvent, MuteTyped, CalmTyped
  <2> QED BY <2>1, FromStepTyped
<1>9. fresh \in Seq(Events)
  <2>1. FreshEvents(new, document) \in Seq(Events)
    BY <1>1, <1>2, DocumentEvents, CalmTyped
  <2> QED BY <1>8, <2>1, ConcatProperties
<1> HIDE DEF navigated, cleared, fresh
<1>10. news \in Seq(Events)
  BY <1>5, <1>7, <1>9, AroundTyped
<1>11. inbox' \in Seq(Events)
  BY <1>5, <1>6, <1>10, ConcatProperties
<1>12. DOMAIN t = {new} /\ t[new] = document
  OBVIOUS
<1> HIDE DEF t
<1>13. Tree(t)
  BY <1>1, <1>2, <1>12, FS_Singleton DEF Tree
<1> QED BY <1>4, <1>11, <1>13

LEMMA BrowserNext ==
  ASSUME IInv, BrowserIInv, [Next]_vars PROVE IInv' /\ BrowserIInv'
<1>1. CASE Page
  <2>1. /\ acts < MaxActs /\ acts' = acts + 1 /\ Room
        /\ \/ \E c \in ChildIds, p \in FrameIds : ChildAttached(c, p)
           \/ \E c \in ChildIds : ChildDetached(c) \/ ChildCommitted(c)
           \/ \E f \in FrameIds : StartedLoading(f) \/ NavigatedWithin(f) \/ DomReady(f) \/ Loaded(f)
           \/ \E new \in MainIds : MainCommitted(new)
    BY <1>1 DEF Page
  <2>2. inbox' \in Seq(Events) /\ Tree(tree')
    BY <2>1, AttachedTyped, DetachedTyped, CommittedTyped, PlainTyped, MainCommittedTyped
  <2>3. UNCHANGED <<managerVars, worlds, step, scripted>>
    BY <2>1 DEF ChildAttached, ChildDetached, ChildCommitted, StartedLoading, NavigatedWithin,
                DomReady, Loaded, Reaches, MainCommitted
  <2>4. root' \in MainIds
    BY <2>1 DEF ChildAttached, ChildDetached, ChildCommitted, StartedLoading, NavigatedWithin,
                DomReady, Loaded, Reaches, MainCommitted, BrowserIInv
  <2> QED BY <2>1, <2>2, <2>3, <2>4, PageStep
<1>2. CASE Manager /\ UNCHANGED <<browserVars, acts>>
  <2>1. IInv'
    BY <1>2, NextIInv
  <2>2. BrowserIInv'
    BY <1>2 DEF browserVars, BrowserIInv
  <2> QED BY <2>1, <2>2
<1>3. CASE Initialising /\ UNCHANGED acts
  BY <1>3, PageEnabledStep, FrameTreeAnsweredStep, LifecycleEnabledStep, RuntimeEnabledStep,
     ChainStep, WorldCreatedStep DEF Initialising
<1>4. CASE UNCHANGED vars
  BY <1>4, NextIInv DEF vars, managerVars, browserVars, BrowserIInv
<1> QED BY <1>1, <1>2, <1>3, <1>4 DEF Next

LEMMA BrowserInit == ASSUME Init PROVE IInv /\ BrowserIInv
<1>1. IInv
  BY InitIInv DEF Init
<1>2. PICK stage \in {"begun", "loaded"} :
        tree = [f \in {FirstMain} |->
                 [parent |-> NoFrame, stage |-> stage, reported |-> FALSE, told |-> {},
                  primary |-> <<FirstMain, "primary", 1>>, secondary |-> NoContext]]
  BY DEF Init
<1>3. FirstMain \in FrameIds /\ FirstMain \in MainIds /\ MaxActs \in Nat
  BY FramesAssumption DEF FrameIds
<1>4. <<FirstMain, "primary", 1>> \in Contexts
  BY <1>3, ManagerAssumption DEF Contexts
<1>5. Tree(tree)
  <2>1. DOMAIN tree = {FirstMain} /\ IsFiniteSet({FirstMain})
    BY <1>2, FS_Singleton
  <2>2. tree[FirstMain] \in Documents /\ tree[FirstMain].parent = NoFrame
    BY <1>2, <1>4 DEF Documents
  <2> QED BY <1>3, <2>1, <2>2 DEF Tree, Rooted
<1>6. step = 0 /\ worlds = {} /\ root = FirstMain /\ scripted = FALSE /\ acts = 0
  BY DEF Init
<1>7. step \in 0 .. 5 /\ acts \in 0 .. MaxActs
  BY <1>3, <1>6
<1>8. scripted \in BOOLEAN
  BY <1>6
<1>9. BrowserIInv
  BY <1>3, <1>5, <1>6, <1>7, <1>8 DEF BrowserIInv
<1> QED BY <1>1, <1>9

LEMMA BrowserInductive == Spec => [](IInv /\ BrowserIInv)
BY BrowserInit, BrowserNext, PTL DEF Spec

\* Every variable of the frames and of the browser has its type, whatever the page does
\* while the handler asks for its frames, lifecycles and contexts: what the browser of
\* module Frames reports is among the events that the results above are about.
THEOREM FramesTypeCorrect == Spec => []TypeOK
<1>1. IInv /\ BrowserIInv => TypeOK
  <2>1. IInv => ManagerTypeOK
    BY DEF IInv, Forest, Mains, ManagerTypeOK, FrameIds
  <2> QED BY <2>1 DEF BrowserIInv, Tree, TypeOK
<1> QED BY <1>1, BrowserInductive, PTL

\* The results above hold of the frames beside this browser.
THEOREM PageKeepsItsTree == Spec => [](MainFrameTracked /\ LinksAgree)
<1>1. IInv => MainFrameTracked /\ LinksAgree
  BY DEF IInv, Forest, Mains, Linked, MainFrameTracked, LinksAgree
<1> QED BY <1>1, BrowserInductive, PTL

-----------------------------------------------------------------------------
(* Reading what was reported.  A relation R of triples says what an event  *)
(* makes of a state.                                                       *)

\* Reading q, one event after the other, leads from a to b.
Leads(R, a, q, b) ==
  \E g : /\ g[0] = a /\ g[Len(q)] = b
         /\ \A i \in 1 .. Len(q) : <<g[i - 1], q[i], g[i]>> \in R

LEMMA LeadsNothing == ASSUME NEW R, NEW a PROVE Leads(R, a, <<>>, a)
<1> DEFINE g == [i \in {0} |-> a]
<1>1. Len(<<>>) = 0 /\ 1 .. 0 = {}
  OBVIOUS
<1>2. g[0] = a
  OBVIOUS
<1> HIDE DEF g
<1> QED BY <1>1, <1>2 DEF Leads

LEMMA LeadsQuiet == ASSUME NEW R, NEW a, NEW b, Leads(R, a, <<>>, b) PROVE b = a
BY DEF Leads

LEMMA LeadsOne ==
  ASSUME NEW R, NEW a, NEW e, NEW b, <<a, e, b>> \in R PROVE Leads(R, a, <<e>>, b)
<1> DEFINE g == [i \in 0 .. 1 |-> IF i = 0 THEN a ELSE b]
<1>1. Len(<<e>>) = 1 /\ <<e>>[1] = e /\ \A i \in 1 .. 1 : i = 1
  OBVIOUS
<1>2. g[0] = a /\ g[1] = b
  OBVIOUS
<1> HIDE DEF g
<1>3. \A i \in 1 .. Len(<<e>>) : <<g[i - 1], <<e>>[i], g[i]>> \in R
  <2> SUFFICES ASSUME NEW i \in 1 .. Len(<<e>>) PROVE <<g[i - 1], <<e>>[i], g[i]>> \in R
    OBVIOUS
  <2>1. i = 1 /\ i - 1 = 0
    BY <1>1
  <2> QED BY <1>1, <1>2, <2>1
<1> QED BY <1>1, <1>2, <1>3 DEF Leads

LEMMA LeadsTwo ==
  ASSUME NEW R, NEW a, NEW e, NEW b, NEW d, NEW c, <<a, e, b>> \in R, <<b, d, c>> \in R
  PROVE  Leads(R, a, <<e, d>>, c)
<1> DEFINE g == [i \in 0 .. 2 |-> IF i = 0 THEN a ELSE IF i = 1 THEN b ELSE c]
<1>1. Len(<<e, d>>) = 2 /\ <<e, d>>[1] = e /\ <<e, d>>[2] = d /\ \A i \in 1 .. 2 : i \in {1, 2}
  OBVIOUS
<1>2. g[0] = a /\ g[1] = b /\ g[2] = c
  OBVIOUS
<1> HIDE DEF g
<1>3. \A i \in 1 .. 2 : <<g[i - 1], <<e, d>>[i], g[i]>> \in R
  BY <1>1, <1>2
<1> QED BY <1>1, <1>2, <1>3 DEF Leads

\* The first event is read.
LEMMA LeadsOn ==
  ASSUME NEW R, NEW E, NEW q \in Seq(E), q # <<>>, NEW a, NEW b, Leads(R, a, q, b)
  PROVE  \E c : <<a, Head(q), c>> \in R /\ Leads(R, c, Tail(q), b)
<1>1. PICK g : /\ g[0] = a /\ g[Len(q)] = b
               /\ \A i \in 1 .. Len(q) : <<g[i - 1], q[i], g[i]>> \in R
  BY DEF Leads
<1>2. Len(q) \in Nat /\ Len(q) >= 1 /\ Head(q) = q[1] /\ Len(Tail(q)) = Len(q) - 1
  OBVIOUS
<1>3. <<a, Head(q), g[1]>> \in R
  <2>1. 1 \in 1 .. Len(q) /\ 1 - 1 = 0
    BY <1>2
  <2> QED BY <1>1, <1>2, <2>1
<1> DEFINE h == [i \in 0 .. Len(q) - 1 |-> g[i + 1]]
<1>4. h[0] = g[1] /\ h[Len(q) - 1] = b
  <2>1. 0 \in 0 .. Len(q) - 1 /\ Len(q) - 1 \in 0 .. Len(q) - 1
        /\ 0 + 1 = 1 /\ Len(q) - 1 + 1 = Len(q)
    BY <1>2
  <2> QED BY <1>1, <2>1
<1>5. ASSUME NEW i \in 1 .. Len(q) - 1 PROVE <<h[i - 1], Tail(q)[i], h[i]>> \in R
  <2>1. i + 1 \in 1 .. Len(q) /\ i - 1 \in 0 .. Len(q) - 1 /\ i \in 0 .. Len(q) - 1
        /\ i + 1 - 1 = i /\ i - 1 + 1 = i
    BY <1>2
  <2>2. Tail(q)[i] = q[i + 1]
    BY <1>2, HeadTailProperties
  <2>3. h[i - 1] = g[i] /\ h[i] = g[i + 1]
    BY <2>1
  <2>4. <<g[i + 1 - 1], q[i + 1], g[i + 1]>> \in R
    BY <1>1, <2>1
  <2> QED BY <2>1, <2>2, <2>3, <2>4
<1> HIDE DEF h
<1>6. Leads(R, g[1], Tail(q), b)
  BY <1>2, <1>4, <1>5 DEF Leads
<1> QED BY <1>3, <1>6

LEMMA LeadsFurther ==
  ASSUME NEW R, NEW E, NEW p \in Seq(E), NEW q \in Seq(E), NEW a, NEW b, NEW c,
         Leads(R, a, p, b), Leads(R, b, q, c)
  PROVE  Leads(R, a, p \o q, c)
<1>1. PICK g : /\ g[0] = a /\ g[Len(p)] = b
               /\ \A i \in 1 .. Len(p) : <<g[i - 1], p[i], g[i]>> \in R
  BY DEF Leads
<1>2. PICK h : /\ h[0] = b /\ h[Len(q)] = c
               /\ \A i \in 1 .. Len(q) : <<h[i - 1], q[i], h[i]>> \in R
  BY DEF Leads
<1> DEFINE m == Len(p)
           n == Len(q)
           f == [i \in 0 .. m + n |-> IF i <= m THEN g[i] ELSE h[i - m]]
           pq == p \o q
<1>3. m \in Nat /\ n \in Nat
  OBVIOUS
<1>4. Len(pq) = m + n /\ \A i \in 1 .. m + n : pq[i] = IF i <= m THEN p[i] ELSE q[i - m]
  BY ConcatProperties
<1> HIDE DEF m, n, pq
<1>5. f[0] = a
  BY <1>1, <1>3
<1>6. f[m + n] = c
  <2>1. CASE n = 0
    BY <1>1, <1>2, <1>3, <2>1 DEF m, n
  <2>2. CASE n # 0
    <3>1. PICK k \in 0 .. m + n : k = m + n
      BY <1>3
    <3>2. ~(k <= m) /\ k - m = n
      BY <1>3, <2>2, <3>1
    <3>3. f[k] = h[n]
      BY <3>2
    <3>4. h[n] = c
      BY <1>2 DEF n
    <3> QED BY <3>1, <3>3, <3>4
  <2> QED BY <2>1, <2>2
<1>7. ASSUME NEW i \in 1 .. m + n PROVE <<f[i - 1], pq[i], f[i]>> \in R
  <2>1. i - 1 \in 0 .. m + n /\ i \in 0 .. m + n
    BY <1>3
  <2>2. CASE i <= m
    <3>1. i \in 1 .. m /\ i - 1 <= m
      BY <1>3, <2>2
    <3>2. f[i] = g[i] /\ f[i - 1] = g[i - 1] /\ pq[i] = p[i]
      BY <1>4, <2>1, <2>2, <3>1
    <3> QED BY <1>1, <3>1, <3>2 DEF m
  <2>3. CASE ~(i <= m)
    <3>1. i - m \in 1 .. n /\ f[i] = h[i - m] /\ pq[i] = q[i - m]
      BY <1>3, <1>4, <2>1, <2>3
    <3>2. f[i - 1] = h[i - m - 1]
      <4>1. CASE i - 1 = m
        <5>1. i - m - 1 = 0 /\ i - 1 <= m
          BY <1>3, <4>1
        <5> QED BY <1>1, <1>2, <2>1, <4>1, <5>1 DEF m
      <4>2. CASE i - 1 # m
        <5>1. ~(i - 1 <= m) /\ i - 1 - m = i - m - 1
          BY <1>3, <2>3, <4>2
        <5> QED BY <2>1, <5>1
      <4> QED BY <4>1, <4>2
    <3> QED BY <1>2, <3>1, <3>2 DEF n
  <2> QED BY <2>2, <2>3
<1> HIDE DEF f
<1>8. Leads(R, a, pq, c)
  BY <1>4, <1>5, <1>6, <1>7 DEF Leads
<1> QED BY <1>8 DEF pq

\* Events that change nothing.
LEMMA LeadsNowhere ==
  ASSUME NEW R, NEW E, NEW a, \A e \in E : <<a, e, a>> \in R, NEW q \in Seq(E)
  PROVE  Leads(R, a, q, a)
<1> DEFINE g == [i \in 0 .. Len(q) |-> a]
<1>1. Len(q) \in Nat /\ \A i \in 1 .. Len(q) : q[i] \in E
  OBVIOUS
<1>2. \A i \in 0 .. Len(q) : g[i] = a
  OBVIOUS
<1>3. \A i \in 1 .. Len(q) : i - 1 \in 0 .. Len(q) /\ i \in 0 .. Len(q)
  BY <1>1
<1>4. 0 \in 0 .. Len(q) /\ Len(q) \in 0 .. Len(q)
  BY <1>1
<1> HIDE DEF g
<1> QED BY <1>1, <1>2, <1>3, <1>4 DEF Leads

\* What each of the sequences leads to, all of them do one after the other.
LEMMA LeadsFlat ==
  ASSUME NEW R, NEW E, NEW seqs \in Seq(Seq(E)), NEW h,
         \A i \in 1 .. Len(seqs) : Leads(R, h[i - 1], seqs[i], h[i])
  PROVE  Leads(R, h[0], FlattenSeq(seqs), h[Len(seqs)])
<1> DEFINE f == CHOOSE f : Flattens(seqs, Len(seqs), f)
           T == {k \in Nat : k \in 1 .. Len(seqs) =>
                               f[k] \in Seq(E) /\ Leads(R, h[0], f[k], h[k])}
<1>1. Len(seqs) \in Nat /\ \A i \in 1 .. Len(seqs) : seqs[i] \in Seq(E)
  OBVIOUS
<1>2. Flattens(seqs, Len(seqs), f)
  BY <1>1, FlattensAll
<1>3. CASE Len(seqs) = 0
  <2>1. FlattenSeq(seqs) = <<>>
    BY <1>3 DEF FlattenSeq
  <2> QED BY <1>3, <2>1, LeadsNothing
<1>4. CASE Len(seqs) # 0
  <2>1. FlattenSeq(seqs) = f[Len(seqs)]
    BY <1>4 DEF FlattenSeq, Flattens, Join
  <2> HIDE DEF f
  <2>2. 0 \in T
    OBVIOUS
  <2>3. ASSUME NEW k \in T PROVE k + 1 \in T
    <3> SUFFICES ASSUME k + 1 \in 1 .. Len(seqs)
                 PROVE  f[k + 1] \in Seq(E) /\ Leads(R, h[0], f[k + 1], h[k + 1])
      OBVIOUS
    <3>1. seqs[k + 1] \in Seq(E) /\ Leads(R, h[k + 1 - 1], seqs[k + 1], h[k + 1])
      BY <1>1
    <3>2. f[k + 1] = IF k + 1 = 1 THEN seqs[k + 1] ELSE Join(f[k + 1 - 1], seqs[k + 1])
      BY <1>2 DEF Flattens
    <3>3. k + 1 - 1 = k
      OBVIOUS
    <3>4. CASE k = 0
      BY <3>1, <3>2, <3>3, <3>4
    <3>5. CASE k # 0
      <4>1. k + 1 # 1 /\ k \in 1 .. Len(seqs)
        BY <1>1, <3>5
      <4>2. f[k] \in Seq(E) /\ Leads(R, h[0], f[k], h[k])
        BY <4>1
      <4>3. f[k + 1] = f[k] \o seqs[k + 1]
        BY <3>2, <3>3, <4>1 DEF Join
      <4>4. Leads(R, h[k], seqs[k + 1], h[k + 1])
        BY <3>1, <3>3
      <4>5. Leads(R, h[0], f[k] \o seqs[k + 1], h[k + 1])
        BY <3>1, <4>2, <4>4, LeadsFurther
      <4> QED BY <3>1, <4>2, <4>3, <4>5
    <3> QED BY <3>4, <3>5
  <2>4. T = Nat
    <3> HIDE DEF T
    <3> QED BY <2>2, <2>3, SetInduction DEF T
  <2>5. Len(seqs) \in T /\ Len(seqs) \in 1 .. Len(seqs)
    BY <1>1, <1>4, <2>4
  <2> QED BY <2>1, <2>5
<1> QED BY <1>3, <1>4

-----------------------------------------------------------------------------
(* The shape of the frames: which there are and where they hang.           *)

Shape(m, fs) == [main |-> m, parent |-> [f \in DOMAIN fs |-> fs[f].parent]]

Shapes == [main : MainIds \cup {NoFrame},
           parent : UNION {[D -> FrameIds \cup {NoFrame}] : D \in SUBSET FrameIds}]

\* f and the frames below it.
From(P, f) ==
  {x \in DOMAIN P : \A S \in SUBSET DOMAIN P :
     f \in S /\ (\A y \in DOMAIN P : P[y] \in S => y \in S) => x \in S}

Reparent(a, P) == [main |-> a.main, parent |-> P]
Cut(P, D) == [x \in DOMAIN P \ D |-> P[x]]
Hang(P, f, p) == [x \in DOMAIN P \cup {f} |-> IF x = f THEN p ELSE P[x]]
MainAlone(f) == [main |-> f, parent |-> [x \in {f} |-> NoFrame]]
NoFrames == [main |-> NoFrame, parent |-> [x \in {} |-> NoFrame]]

\* What an event makes of a shape.
Reshape(a, e) ==
  CASE e.type = "attached" /\ e.frame \notin DOMAIN a.parent /\ e.parent \in DOMAIN a.parent ->
         Reparent(a, Hang(a.parent, e.frame, e.parent))
    [] e.type = "detached" /\ e.frame \in DOMAIN a.parent ->
         Reparent(a, Cut(a.parent, From(a.parent, e.frame)))
    [] e.type = "navigated" /\ e.parent = NoFrame -> MainAlone(e.frame)
    [] e.type = "navigated" /\ e.parent # NoFrame /\ e.frame \in DOMAIN a.parent ->
         Reparent(a, Cut(a.parent, From(a.parent, e.frame) \ {e.frame}))
    [] OTHER -> a

Moves == {t \in Shapes \X Events \X Shapes : t[3] = Reshape(t[1], t[2])}

\* The cases of Reshape, one by one.
LEMMA ReshapeCases ==
  ASSUME NEW a, NEW e
  PROVE  /\ e.type = "attached" =>
              Reshape(a, e) = IF e.frame \notin DOMAIN a.parent /\ e.parent \in DOMAIN a.parent
                              THEN Reparent(a, Hang(a.parent, e.frame, e.parent)) ELSE a
         /\ e.type = "detached" =>
              Reshape(a, e) = IF e.frame \in DOMAIN a.parent
                              THEN Reparent(a, Cut(a.parent, From(a.parent, e.frame))) ELSE a
         /\ e.type = "navigated" /\ e.parent = NoFrame => Reshape(a, e) = MainAlone(e.frame)
         /\ e.type = "navigated" /\ e.parent # NoFrame =>
              Reshape(a, e) = IF e.frame \in DOMAIN a.parent
                              THEN Reparent(a, Cut(a.parent, From(a.parent, e.frame) \ {e.frame}))
                              ELSE a
         /\ e.type \notin {"attached", "detached", "navigated"} => Reshape(a, e) = a
<1>1. CASE e.type = "attached"
  BY <1>1 DEF Reshape
<1>2. CASE e.type = "detached"
  BY <1>2 DEF Reshape
<1>3. CASE e.type = "navigated"
  BY <1>3 DEF Reshape
<1>4. CASE e.type \notin {"attached", "detached", "navigated"}
  BY <1>4 DEF Reshape
<1> QED BY <1>1, <1>2, <1>3, <1>4

LEMMA ShapeTyped ==
  ASSUME NEW fs, NEW m, Forest(fs, m)
  PROVE  /\ Shape(m, fs) \in Shapes /\ Shape(m, fs).main = m
         /\ DOMAIN Shape(m, fs).parent = DOMAIN fs
         /\ \A f \in DOMAIN fs : Shape(m, fs).parent[f] = fs[f].parent
<1> DEFINE P == [f \in DOMAIN fs |-> fs[f].parent]
<1>1. DOMAIN fs \subseteq FrameIds /\ m \in MainIds \cup {NoFrame}
  BY DEF Forest, Mains, FrameIds
<1>2. \A f \in DOMAIN fs : fs[f].parent \in FrameIds \cup {NoFrame}
  BY DEF Forest, FrameRecords
<1>3. P \in [DOMAIN fs -> FrameIds \cup {NoFrame}]
  BY <1>2
<1>4. P \in UNION {[D -> FrameIds \cup {NoFrame}] : D \in SUBSET FrameIds}
  BY <1>1, <1>3
<1>5. DOMAIN P = DOMAIN fs /\ \A f \in DOMAIN fs : P[f] = fs[f].parent
  OBVIOUS
<1>6. Shape(m, fs) = [main |-> m, parent |-> P]
  BY DEF Shape
<1> HIDE DEF P
<1> QED BY <1>1, <1>4, <1>5, <1>6 DEF Shapes

LEMMA SubtreeIsFrom ==
  ASSUME NEW fs, NEW m, Forest(fs, m), NEW f \in DOMAIN fs
  PROVE  Subtree(fs, f) = From(Shape(m, fs).parent, f)
<1> DEFINE P == Shape(m, fs).parent
<1>1. DOMAIN P = DOMAIN fs /\ \A x \in DOMAIN fs : P[x] = fs[x].parent
  BY ShapeTyped
<1>2. NoFrame \notin DOMAIN fs
  BY ManagerAssumption DEF Forest, Mains, FrameIds
<1>3. \A y \in DOMAIN fs : fs[y].children = {c \in DOMAIN fs : fs[c].parent = y}
  <2> SUFFICES ASSUME NEW y \in DOMAIN fs, NEW c \in DOMAIN fs, fs[c].parent = y
               PROVE  c \in fs[y].children
    BY DEF Forest, Linked
  <2>1. c # m
    BY <1>2 DEF Forest
  <2> QED BY <2>1 DEF Forest, Linked
<1>4. ASSUME NEW S \in SUBSET DOMAIN fs
      PROVE  (\A y \in S : fs[y].children \cap DOMAIN fs \subseteq S)
               <=> (\A y \in DOMAIN fs : P[y] \in S => y \in S)
  BY <1>1, <1>3
<1> HIDE DEF P
<1>5. Subtree(fs, f) = From(P, f)
  BY <1>1, <1>4 DEF Subtree, From
<1> QED BY <1>5 DEF P

\* All frames hang below the main frame.
LEMMA MainAboveAll ==
  ASSUME NEW fs, NEW m, Forest(fs, m)
  PROVE  /\ m = NoFrame => DOMAIN fs = {}
         /\ m # NoFrame => m \in DOMAIN fs /\ Subtree(fs, m) = DOMAIN fs
<1>1. CASE m = NoFrame
  <2>1. m \notin DOMAIN fs
    BY <1>1, ManagerAssumption DEF Forest, Mains, FrameIds
  <2>2. \A f \in DOMAIN fs : fs[f].parent \in DOMAIN fs
    BY <2>1 DEF Forest, Linked
  <2>3. DOMAIN fs = {}
    BY <2>2 DEF Forest, Grounded
  <2> QED BY <1>1, <2>3
<1>2. CASE m # NoFrame
  <2>1. m \in DOMAIN fs
    BY <1>2 DEF Forest, Mains
  <2>2. /\ m \in Subtree(fs, m) /\ Subtree(fs, m) \subseteq DOMAIN fs
        /\ \A y \in Subtree(fs, m) : fs[y].children \subseteq Subtree(fs, m)
    BY <2>1, SubtreeProps
  <2> DEFINE S == DOMAIN fs \ Subtree(fs, m)
  <2>3. \A x \in S : fs[x].parent \in S
    <3> SUFFICES ASSUME NEW x \in S PROVE fs[x].parent \in S
      OBVIOUS
    <3>1. x # m /\ x \in DOMAIN fs
      BY <2>2
    <3>2. fs[x].parent \in DOMAIN fs /\ x \in fs[fs[x].parent].children
      BY <3>1 DEF Forest, Linked
    <3> QED BY <2>2, <3>2
  <2>4. S = {}
    BY <2>3 DEF Forest, Grounded
  <2> QED BY <1>2, <2>1, <2>2, <2>4
<1> QED BY <1>1, <1>2

\* What is left without frames, as a shape.
LEMMA ShapeWithout ==
  ASSUME NEW fs, NEW m, Forest(fs, m), NEW D
  PROVE  Shape(m, Without(fs, D)) = Reparent(Shape(m, fs), Cut(Shape(m, fs).parent, D))
<1>1. /\ DOMAIN Without(fs, D) = DOMAIN fs \ D
      /\ \A x \in DOMAIN fs \ D : Without(fs, D)[x].parent = fs[x].parent
  BY WithoutProps
<1>2. [f \in DOMAIN Without(fs, D) |-> Without(fs, D)[f].parent]
        = Cut([f \in DOMAIN fs |-> fs[f].parent], D)
  BY <1>1 DEF Cut
<1> DEFINE P == [f \in DOMAIN fs |-> fs[f].parent]
<1>3. Shape(m, fs).main = m /\ Shape(m, fs).parent = P
  BY DEF Shape
<1> HIDE DEF P
<1>4. Reparent(Shape(m, fs), Cut(Shape(m, fs).parent, D)) = [main |-> m, parent |-> Cut(P, D)]
  BY <1>3 DEF Reparent
<1> QED BY <1>2, <1>4 DEF Shape, P

\* Frames with the same parents have the same shape.
LEMMA ShapeSame ==
  ASSUME NEW fs, NEW gs, NEW m, DOMAIN gs = DOMAIN fs,
         \A f \in DOMAIN fs : gs[f].parent = fs[f].parent
  PROVE  Shape(m, gs) = Shape(m, fs)
BY DEF Shape

\* What an action of the handler does to the shape.
ShapeNow == Shape(main, frames)
Reshaped == ShapeNow' = Reshape(ShapeNow, Read)

LEMMA AttachedReshapes == ASSUME IInv, OnFrameAttached PROVE Reshaped
<1> DEFINE f == Read.frame
           p == Read.parent
           a == ShapeNow
<1>1. Read.type = "attached" /\ main' = main /\ frames' = Attach(frames, f, p)
  BY DEF OnFrameAttached, Reads
<1>2. /\ a.main = main /\ DOMAIN a.parent = DOMAIN frames
      /\ \A x \in DOMAIN frames : a.parent[x] = frames[x].parent
  BY ShapeTyped DEF ShapeNow, IInv
<1>3. Reshape(a, Read) = IF f \notin DOMAIN a.parent /\ p \in DOMAIN a.parent
                         THEN Reparent(a, Hang(a.parent, f, p)) ELSE a
  BY <1>1, ReshapeCases
<1> HIDE DEF a
<1>4. CASE f \in DOMAIN frames \/ p \notin DOMAIN frames
  <2>1. frames' = frames /\ Reshape(a, Read) = a
    BY <1>1, <1>2, <1>3, <1>4 DEF Attach
  <2> QED BY <1>1, <2>1 DEF Reshaped, ShapeNow, a
<1>5. CASE f \notin DOMAIN frames /\ p \in DOMAIN frames
  <2>1. frames' = [x \in DOMAIN frames \cup {f} |->
                     CASE x = f -> NewFrame(p)
                       [] x = p -> [frames[x] EXCEPT !.children = @ \cup {f}]
                       [] OTHER -> frames[x]]
    BY <1>1, <1>5 DEF Attach
  <2>2. DOMAIN frames' = DOMAIN frames \cup {f}
    BY <2>1
  <2>3. \A x \in DOMAIN frames : frames[x] \in FrameRecords
    BY DEF IInv, Forest
  <2>4. frames'[f].parent = p
    <3>1. frames'[f] = NewFrame(p)
      BY <1>5, <2>1
    <3> QED BY <3>1 DEF NewFrame
  <2>5. ASSUME NEW x \in DOMAIN frames PROVE frames'[x].parent = frames[x].parent
    <3>1. x # f /\ x \in DOMAIN frames \cup {f}
      BY <1>5
    <3>2. frames'[x] = IF x = p THEN [frames[x] EXCEPT !.children = @ \cup {f}] ELSE frames[x]
      BY <2>1, <3>1
    <3> QED BY <2>3, <3>2 DEF FrameRecords
  <2>6. [x \in DOMAIN frames' |-> frames'[x].parent] = Hang(a.parent, f, p)
    BY <1>2, <1>5, <2>2, <2>4, <2>5 DEF Hang
  <2>7. Shape(main', frames') = Reparent(a, Hang(a.parent, f, p))
    BY <1>1, <1>2, <2>6 DEF Shape, Reparent
  <2>8. Reshape(a, Read) = Reparent(a, Hang(a.parent, f, p))
    BY <1>2, <1>3, <1>5
  <2> QED BY <2>7, <2>8 DEF Reshaped, ShapeNow, a
<1> QED BY <1>4, <1>5

LEMMA DetachedReshapes == ASSUME IInv, OnFrameDetached PROVE Reshaped
<1> DEFINE f == Read.frame
           a == ShapeNow
<1>1. /\ Read.type = "detached" /\ main' = main
      /\ frames' = IF f \in DOMAIN frames THEN Without(frames, Subtree(frames, f)) ELSE frames
  BY DEF OnFrameDetached, Reads, RemoveFramesRecursively
<1>2. Forest(frames, main)
  BY DEF IInv
<1>3. DOMAIN a.parent = DOMAIN frames
  BY <1>2, ShapeTyped DEF ShapeNow
<1>4. Reshape(a, Read) = IF f \in DOMAIN a.parent
                         THEN Reparent(a, Cut(a.parent, From(a.parent, f))) ELSE a
  BY <1>1, ReshapeCases
<1>5. CASE f \in DOMAIN frames
  <2>1. Subtree(frames, f) = From(a.parent, f)
    BY <1>2, <1>5, SubtreeIsFrom DEF ShapeNow
  <2>2. Shape(main, Without(frames, Subtree(frames, f)))
          = Reparent(a, Cut(a.parent, Subtree(frames, f)))
    BY <1>2, ShapeWithout DEF ShapeNow
  <2> QED BY <1>1, <1>3, <1>4, <1>5, <2>1, <2>2 DEF Reshaped, ShapeNow
<1>6. CASE f \notin DOMAIN frames
  BY <1>1, <1>3, <1>4, <1>6 DEF Reshaped, ShapeNow
<1> QED BY <1>5, <1>6

\* What is left when all below a frame went.
LEMMA ShapeWithoutChildren ==
  ASSUME NEW fs, NEW m, Forest(fs, m), NEW f \in DOMAIN fs
  PROVE  /\ DOMAIN RemoveChildren(fs, f) = DOMAIN fs \ (Subtree(fs, f) \ {f})
         /\ \A x \in DOMAIN RemoveChildren(fs, f) :
              /\ RemoveChildren(fs, f)[x] \in FrameRecords
              /\ RemoveChildren(fs, f)[x].parent = fs[x].parent
<1>0. PICK D : D = Subtree(fs, f) \ {f}
  OBVIOUS
<1>1. RemoveChildren(fs, f) = [Without(fs, D) EXCEPT ![f].children = {}]
  BY <1>0 DEF RemoveChildren
<1>2. PICK below : below = Without(fs, D)
  OBVIOUS
<1>3. /\ DOMAIN below = DOMAIN fs \ D
      /\ \A x \in DOMAIN fs \ D : below[x] \in FrameRecords /\ below[x].parent = fs[x].parent
  <2>1. DOMAIN Without(fs, D) = DOMAIN fs \ D
    BY WithoutProps
  <2>2. \A x \in DOMAIN fs \ D :
          /\ Without(fs, D)[x] \in FrameRecords /\ Without(fs, D)[x].parent = fs[x].parent
          /\ Without(fs, D)[x].children = fs[x].children \ Gone(fs, D, x)
    BY WithoutProps
  <2> QED BY <1>2, <2>1, <2>2
<1>4. ASSUME NEW r \in FrameRecords
      PROVE  /\ [r EXCEPT !.children = {}] \in FrameRecords
             /\ [r EXCEPT !.children = {}].parent = r.parent
  BY DEF FrameRecords
<1>5. /\ DOMAIN RemoveChildren(fs, f) = DOMAIN below
      /\ \A x \in DOMAIN below : RemoveChildren(fs, f)[x] =
           IF x = f THEN [below[x] EXCEPT !.children = {}] ELSE below[x]
  BY <1>1, <1>2
<1> QED BY <1>0, <1>3, <1>4, <1>5

LEMMA ChildReshapes ==
  ASSUME IInv, OnFrameNavigated, Read.parent # NoFrame PROVE Reshaped
<1> DEFINE f == Read.frame
           a == ShapeNow
           rest == RemoveChildren(frames, f)
<1>1. /\ Read.type = "navigated" /\ main' = main
      /\ frames' = IF f \in DOMAIN frames THEN [rest EXCEPT ![f].url = TRUE] ELSE frames
  BY DEF OnFrameNavigated, Reads, NavigateChild
<1>2. Forest(frames, main)
  BY DEF IInv
<1>3. /\ a.main = main /\ DOMAIN a.parent = DOMAIN frames
      /\ \A x \in DOMAIN frames : a.parent[x] = frames[x].parent
  BY <1>2, ShapeTyped DEF ShapeNow
<1>4. Reshape(a, Read) = IF f \in DOMAIN a.parent
                         THEN Reparent(a, Cut(a.parent, From(a.parent, f) \ {f})) ELSE a
  BY <1>1, ReshapeCases
<1>5. CASE f \in DOMAIN frames
  <2>1. Subtree(frames, f) = From(a.parent, f)
    BY <1>2, <1>5, SubtreeIsFrom DEF ShapeNow
  <2>2. /\ DOMAIN rest = DOMAIN frames \ (Subtree(frames, f) \ {f})
        /\ \A x \in DOMAIN rest : rest[x] \in FrameRecords /\ rest[x].parent = frames[x].parent
    BY <1>2, <1>5, ShapeWithoutChildren
  <2> HIDE DEF a, rest
  <2>3. DOMAIN frames' = DOMAIN rest
        /\ \A x \in DOMAIN rest : frames'[x] = IF x = f THEN [rest[x] EXCEPT !.url = TRUE] ELSE rest[x]
    BY <1>1, <1>5
  <2>4. \A x \in DOMAIN rest : frames'[x].parent = frames[x].parent
    BY <2>2, <2>3 DEF FrameRecords
  <2> DEFINE D == From(a.parent, f) \ {f}
  <2>5. DOMAIN frames' = DOMAIN a.parent \ D
    BY <1>3, <2>1, <2>2, <2>3
  <2>6. \A x \in DOMAIN a.parent \ D : frames'[x].parent = a.parent[x]
    BY <1>3, <2>3, <2>4, <2>5
  <2> HIDE DEF D
  <2>7. [x \in DOMAIN frames' |-> frames'[x].parent] = Cut(a.parent, D)
    BY <2>5, <2>6 DEF Cut
  <2>8. Shape(main', frames') = Reparent(a, Cut(a.parent, D))
    BY <1>1, <1>3, <2>7 DEF Shape, Reparent
  <2> QED BY <1>3, <1>4, <1>5, <2>8 DEF Reshaped, ShapeNow, a, D
<1>6. CASE f \notin DOMAIN frames
  BY <1>1, <1>3, <1>4, <1>6 DEF Reshaped, ShapeNow
<1> QED BY <1>5, <1>6

LEMMA MainReshapes ==
  ASSUME IInv, OnFrameNavigated, Read.parent = NoFrame PROVE Reshaped
<1> DEFINE f == Read.frame
           rest == IF main = NoFrame THEN frames ELSE RemoveChildren(frames, main)
           navigated == IF main = NoFrame THEN NewFrame(NoFrame) ELSE rest[main]
<1>1. Forest(frames, main)
  BY DEF IInv
<1>2. ~NavigationPanics
  BY <1>1 DEF Forest, Mains, NavigationPanics
<1>3. /\ Read.type = "navigated" /\ main' = f
      /\ frames' = [x \in (DOMAIN rest \ {main}) \cup {f} |->
                      IF x = f THEN [navigated EXCEPT !.url = TRUE] ELSE rest[x]]
  BY <1>2 DEF OnFrameNavigated, Reads, NavigateMain
<1>4. DOMAIN rest \ {main} = {}
      /\ navigated \in FrameRecords /\ navigated.parent = NoFrame
  <2>1. CASE main = NoFrame
    <3>1. DOMAIN frames = {}
      BY <1>1, <2>1, MainAboveAll
    <3>2. NewFrame(NoFrame) \in FrameRecords /\ NewFrame(NoFrame).parent = NoFrame
      BY DEF NewFrame, FrameRecords
    <3> QED BY <2>1, <3>1, <3>2
  <2>2. CASE main # NoFrame
    <3>1. main \in DOMAIN frames /\ Subtree(frames, main) = DOMAIN frames
      BY <1>1, <2>2, MainAboveAll
    <3>2. /\ DOMAIN rest = DOMAIN frames \ (Subtree(frames, main) \ {main})
          /\ \A x \in DOMAIN rest : rest[x] \in FrameRecords /\ rest[x].parent = frames[x].parent
      BY <1>1, <2>2, <3>1, ShapeWithoutChildren
    <3>3. DOMAIN rest = {main} /\ rest[main] \in FrameRecords
          /\ rest[main].parent = frames[main].parent
      BY <3>1, <3>2
    <3>4. frames[main].parent = NoFrame
      BY <1>1, <2>2 DEF Forest
    <3> QED BY <2>2, <3>3, <3>4
  <2> QED BY <2>1, <2>2
<1> HIDE DEF rest, navigated
<1>5. DOMAIN frames' = {f}
  BY <1>3, <1>4
<1>6. frames'[f].parent = NoFrame
  <2>1. frames'[f] = [navigated EXCEPT !.url = TRUE]
    BY <1>3
  <2> QED BY <1>4, <2>1 DEF FrameRecords
<1>7. [x \in DOMAIN frames' |-> frames'[x].parent] = [x \in {f} |-> NoFrame]
  BY <1>5, <1>6
<1>8. ShapeNow' = MainAlone(f)
  BY <1>3, <1>7 DEF ShapeNow, Shape, MainAlone
<1>9. Reshape(ShapeNow, Read) = MainAlone(f)
  BY <1>3, ReshapeCases
<1> QED BY <1>8, <1>9 DEF Reshaped

\* Where the links stay and the event is about something else, so does the shape.
LEMMA CalmReshapes ==
  ASSUME main' = main, DOMAIN frames' = DOMAIN frames,
         \A f \in DOMAIN frames : frames'[f].parent = frames[f].parent,
         Read.type \notin {"attached", "detached", "navigated"}
  PROVE  Reshaped
<1>1. ShapeNow' = ShapeNow
  BY DEF ShapeNow, Shape
<1>2. Reshape(ShapeNow, Read) = ShapeNow
  BY ReshapeCases
<1> QED BY <1>1, <1>2 DEF Reshaped

\* One frame has other fields than its parent.
LEMMA FieldReshapes ==
  ASSUME IInv, main' = main, NEW f, NEW r,
         frames' = IF f \in DOMAIN frames THEN [frames EXCEPT ![f] = r] ELSE frames,
         f \in DOMAIN frames => r.parent = frames[f].parent,
         Read.type \notin {"attached", "detached", "navigated"}
  PROVE  Reshaped
<1>1. DOMAIN frames' = DOMAIN frames
  OBVIOUS
<1>2. \A x \in DOMAIN frames : frames'[x].parent = frames[x].parent
  OBVIOUS
<1> QED BY <1>1, <1>2, CalmReshapes

LEMMA OthersReshape ==
  ASSUME IInv,
         \/ OnFrameNavigatedWithin \/ OnFrameStartedLoading \/ OnLifecycleEvent
         \/ OnContextCreated("primary") \/ OnContextCreated("secondary")
         \/ OnContextDestroyed \/ OnContextsCleared
  PROVE  Reshaped
<1>0. \A x \in DOMAIN frames : frames[x] \in FrameRecords
  BY DEF IInv, Forest
<1>1. CASE OnFrameNavigatedWithin
  <2>1. PICK r : r = [frames[Read.frame] EXCEPT !.url = TRUE]
    OBVIOUS
  <2>2. Read.frame \in DOMAIN frames => r.parent = frames[Read.frame].parent
    BY <1>0, <2>1 DEF FrameRecords
  <2>3. /\ frames' = IF Read.frame \in DOMAIN frames THEN [frames EXCEPT ![Read.frame] = r]
                     ELSE frames
        /\ main' = main /\ Read.type = "within"
    BY <1>1, <2>1 DEF OnFrameNavigatedWithin, Reads
  <2> QED BY <2>2, <2>3, FieldReshapes
<1>2. CASE OnFrameStartedLoading
  <2>1. PICK r : r = [frames[Read.frame] EXCEPT !.lifecycle = {}]
    OBVIOUS
  <2>2. Read.frame \in DOMAIN frames => r.parent = frames[Read.frame].parent
    BY <1>0, <2>1 DEF FrameRecords
  <2>3. /\ frames' = IF Read.frame \in DOMAIN frames THEN [frames EXCEPT ![Read.frame] = r]
                     ELSE frames
        /\ main' = main /\ Read.type = "startedLoading"
    BY <1>2, <2>1 DEF OnFrameStartedLoading, Reads
  <2> QED BY <2>2, <2>3, FieldReshapes
<1>3. CASE OnLifecycleEvent
  <2>1. PICK e \in {"init", "DOMContentLoaded", "load"} :
          /\ Reads(e)
          /\ frames' = IF Read.frame \notin DOMAIN frames THEN frames
                       ELSE [frames EXCEPT ![Read.frame].lifecycle =
                               IF e = "init" THEN {e} ELSE @ \cup {e}]
    BY <1>3 DEF OnLifecycleEvent
  <2>2. PICK told : told = IF e = "init" THEN {e} ELSE frames[Read.frame].lifecycle \cup {e}
    OBVIOUS
  <2>3. PICK r : r = [frames[Read.frame] EXCEPT !.lifecycle = told]
    OBVIOUS
  <2>4. Read.frame \in DOMAIN frames => r.parent = frames[Read.frame].parent
    BY <1>0, <2>3 DEF FrameRecords
  <2>5. frames' = IF Read.frame \in DOMAIN frames THEN [frames EXCEPT ![Read.frame] = r]
                  ELSE frames
    BY <2>1, <2>2, <2>3
  <2>6. main' = main /\ Read.type = e
    BY <1>3, <2>1 DEF OnLifecycleEvent, Reads
  <2> QED BY <2>4, <2>5, <2>6, FieldReshapes
<1>4. ASSUME NEW world \in {"primary", "secondary"}, OnContextCreated(world) PROVE Reshaped
  <2>1. main' = main /\ Read.type = world
    BY <1>4 DEF OnContextCreated, Reads
  <2>2. CASE Read.frame \in DOMAIN frames
    <3>1. PICK r : r = IF world = "primary"
                       THEN [frames[Read.frame] EXCEPT !.primary = Read.context]
                       ELSE IF frames[Read.frame].secondary = NoContext
                            THEN [frames[Read.frame] EXCEPT !.secondary = Read.context]
                            ELSE frames[Read.frame]
      OBVIOUS
    <3>2. r.parent = frames[Read.frame].parent
      BY <1>0, <2>2, <3>1 DEF FrameRecords
    <3>3. frames' = [frames EXCEPT ![Read.frame] = r]
      BY <1>4, <2>2, <3>1 DEF OnContextCreated
    <3> QED BY <2>1, <2>2, <3>2, <3>3, FieldReshapes
  <2>3. CASE Read.frame \notin DOMAIN frames
    <3>1. frames' = frames
      BY <1>4, <2>3 DEF OnContextCreated
    <3> QED BY <2>1, <3>1, CalmReshapes
  <2> QED BY <2>2, <2>3
<1>5. CASE OnContextDestroyed
  <2>1. main' = main /\ Read.type = "destroyed"
    BY <1>5 DEF OnContextDestroyed, Reads
  <2>2. CASE Read.context \in DOMAIN contexts /\ contexts[Read.context] \in DOMAIN frames
    <3>1. PICK f : f = contexts[Read.context]
      OBVIOUS
    <3>2. PICK r : r = DestroyContext(frames[f], Read.context)
      OBVIOUS
    <3>3. frames' = [frames EXCEPT ![f] = r]
      BY <1>5, <2>2, <3>1, <3>2 DEF OnContextDestroyed
    <3>4. r.parent = frames[f].parent
      BY <1>0, <2>2, <3>1, <3>2 DEF DestroyContext, FrameRecords
    <3> QED BY <2>1, <2>2, <3>1, <3>3, <3>4, FieldReshapes
  <2>3. CASE ~(Read.context \in DOMAIN contexts /\ contexts[Read.context] \in DOMAIN frames)
    <3>1. frames' = frames
      BY <1>5, <2>3 DEF OnContextDestroyed
    <3> QED BY <2>1, <3>1, CalmReshapes
  <2> QED BY <2>2, <2>3
<1>6. CASE OnContextsCleared
  <2>1. main' = main /\ Read.type = "cleared"
    BY <1>6 DEF OnContextsCleared, Reads
  <2>2. frames' = [f \in DOMAIN frames |->
                     IF f \in Range(contexts)
                     THEN [frames[f] EXCEPT !.primary = NoContext, !.secondary = NoContext]
                     ELSE frames[f]]
    BY <1>6 DEF OnContextsCleared
  <2>3. DOMAIN frames' = DOMAIN frames
    BY <2>2
  <2>4. ASSUME NEW x \in DOMAIN frames PROVE frames'[x].parent = frames[x].parent
    <3>1. \/ frames'[x] = frames[x]
          \/ frames'[x] = [frames[x] EXCEPT !.primary = NoContext, !.secondary = NoContext]
      BY <2>2
    <3> QED BY <1>0, <3>1 DEF FrameRecords
  <2> QED BY <2>1, <2>3, <2>4, CalmReshapes
<1> QED BY <1>1, <1>2, <1>3, <1>4, <1>5, <1>6

LEMMA ManagerMoves ==
  ASSUME IInv, Manager
  PROVE  /\ <<ShapeNow, Head(inbox), ShapeNow'>> \in Moves
         /\ inbox # <<>> /\ inbox' = Tail(inbox)
<1>1. inbox # <<>> /\ inbox' = Tail(inbox)
  BY DEF Manager, OnFrameAttached, OnFrameDetached, OnFrameNavigated, OnFrameNavigatedWithin,
         OnFrameStartedLoading, OnLifecycleEvent, OnContextCreated, OnContextDestroyed,
         OnContextsCleared, Reads
<1>2. IInv'
  BY NextIInv
<1>3. Read \in Events
  BY <1>1, ReadProps
<1>4. ShapeNow \in Shapes
  BY ShapeTyped DEF IInv, ShapeNow
<1>5. ShapeNow' \in Shapes
  BY <1>2, ShapeTyped DEF IInv, ShapeNow
<1>6. Reshaped
  BY AttachedReshapes, DetachedReshapes, ChildReshapes, MainReshapes, OthersReshape DEF Manager
<1> QED BY <1>1, <1>3, <1>4, <1>5, <1>6 DEF Moves, Reshaped, Read

-----------------------------------------------------------------------------
(* The shape of the browser's frames.                                      *)

\* All frames hang below the main frame, at most two deep.
Nested(t, r) ==
  /\ r \in DOMAIN t /\ r \in MainIds
  /\ \A f \in DOMAIN t \ {r} :
       /\ f \in ChildIds
       /\ \/ t[f].parent = r
          \/ t[f].parent \in DOMAIN t \ {r} /\ t[t[f].parent].parent = r

TreeShape == Shape(root, tree)

LEMMA TreeShapeTyped ==
  ASSUME NEW t, NEW r \in MainIds, Tree(t)
  PROVE  /\ Shape(r, t) \in Shapes /\ Shape(r, t).main = r
         /\ DOMAIN Shape(r, t).parent = DOMAIN t
         /\ \A f \in DOMAIN t : Shape(r, t).parent[f] = t[f].parent
<1> DEFINE P == [f \in DOMAIN t |-> t[f].parent]
<1>1. \A f \in DOMAIN t : t[f].parent \in FrameIds \cup {NoFrame}
  BY DEF Tree, Documents
<1>2. P \in [DOMAIN t -> FrameIds \cup {NoFrame}]
  BY <1>1
<1>3. P \in UNION {[D -> FrameIds \cup {NoFrame}] : D \in SUBSET FrameIds}
  BY <1>2 DEF Tree
<1>4. DOMAIN P = DOMAIN t /\ \A f \in DOMAIN t : P[f] = t[f].parent
  OBVIOUS
<1>5. Shape(r, t) = [main |-> r, parent |-> P]
  BY DEF Shape
<1> HIDE DEF P
<1> QED BY <1>3, <1>4, <1>5 DEF Shapes

LEMMA CutTyped ==
  ASSUME NEW a \in Shapes, NEW D
  PROVE  /\ Reparent(a, Cut(a.parent, D)) \in Shapes
         /\ Reparent(a, Cut(a.parent, D)).main = a.main
         /\ Reparent(a, Cut(a.parent, D)).parent = Cut(a.parent, D)
         /\ DOMAIN Cut(a.parent, D) = DOMAIN a.parent \ D
         /\ \A x \in DOMAIN a.parent \ D : Cut(a.parent, D)[x] = a.parent[x]
<1>0. PICK P : P = a.parent
  OBVIOUS
<1>1. PICK E \in SUBSET FrameIds : P = a.parent /\ P \in [E -> FrameIds \cup {NoFrame}]
  <2>1. P \in UNION {[E -> FrameIds \cup {NoFrame}] : E \in SUBSET FrameIds}
    BY <1>0 DEF Shapes
  <2> QED BY <1>0, <2>1
<1>2. Cut(P, D) \in [E \ D -> FrameIds \cup {NoFrame}] /\ DOMAIN Cut(P, D) = DOMAIN P \ D
      /\ \A x \in DOMAIN P \ D : Cut(P, D)[x] = P[x]
  BY <1>1 DEF Cut
<1>3. E \ D \in SUBSET FrameIds
  OBVIOUS
<1>4. PICK Q : Q = Cut(P, D)
  OBVIOUS
<1>5. Q \in UNION {[F -> FrameIds \cup {NoFrame}] : F \in SUBSET FrameIds}
  BY <1>2, <1>3, <1>4
<1>6. a.main \in MainIds \cup {NoFrame}
  BY DEF Shapes
<1>7. Reparent(a, Q) \in Shapes /\ Reparent(a, Q).main = a.main /\ Reparent(a, Q).parent = Q
  BY <1>5, <1>6 DEF Reparent, Shapes
<1> QED BY <1>1, <1>2, <1>4, <1>7

\* Two shapes with the same frames at the same places are one.
LEMMA ShapesEqual ==
  ASSUME NEW a \in Shapes, NEW b \in Shapes, a.main = b.main, DOMAIN a.parent = DOMAIN b.parent,
         \A x \in DOMAIN a.parent : a.parent[x] = b.parent[x]
  PROVE  a = b
<1>1. /\ a.parent = [x \in DOMAIN a.parent |-> a.parent[x]]
      /\ b.parent = [x \in DOMAIN b.parent |-> b.parent[x]]
  BY DEF Shapes
<1>2. a.parent = b.parent
  BY <1>1
<1>3. a = [main |-> a.main, parent |-> a.parent] /\ b = [main |-> b.main, parent |-> b.parent]
  BY DEF Shapes
<1> QED BY <1>2, <1>3

LEMMA AloneTyped ==
  /\ NoFrames \in Shapes /\ DOMAIN NoFrames.parent = {}
  /\ \A f \in MainIds : /\ MainAlone(f) \in Shapes /\ MainAlone(f).main = f
                        /\ DOMAIN MainAlone(f).parent = {f} /\ MainAlone(f).parent[f] = NoFrame
<1>1. ASSUME NEW D \in SUBSET FrameIds, NEW m \in MainIds \cup {NoFrame}
      PROVE  [main |-> m, parent |-> [x \in D |-> NoFrame]] \in Shapes
  <2>1. PICK P : P = [x \in D |-> NoFrame]
    OBVIOUS
  <2>2. P \in [D -> FrameIds \cup {NoFrame}]
    BY <2>1
  <2>3. P \in UNION {[F -> FrameIds \cup {NoFrame}] : F \in SUBSET FrameIds}
    BY <2>2
  <2> QED BY <2>1, <2>3 DEF Shapes
<1>2. NoFrames \in Shapes
  BY <1>1 DEF NoFrames
<1>3. DOMAIN NoFrames.parent = {}
  BY DEF NoFrames
<1>4. ASSUME NEW f \in MainIds
      PROVE  /\ MainAlone(f) \in Shapes /\ MainAlone(f).main = f
             /\ DOMAIN MainAlone(f).parent = {f} /\ MainAlone(f).parent[f] = NoFrame
  <2>1. {f} \in SUBSET FrameIds
    BY DEF FrameIds
  <2>2. MainAlone(f) \in Shapes
    BY <1>1, <2>1 DEF MainAlone
  <2> QED BY <2>2 DEF MainAlone
<1> QED BY <1>2, <1>3, <1>4

LEMMA CalmLeads ==
  ASSUME NEW a \in Shapes, NEW q \in Seq(Calm) PROVE Leads(Moves, a, q, a)
<1>1. ASSUME NEW e \in Calm PROVE <<a, e, a>> \in Moves
  <2>1. Reshape(a, e) = a /\ e \in Events
    BY ReshapeCases DEF Calm
  <2> QED BY <2>1 DEF Moves
<1> QED BY <1>1, LeadsNowhere

\* Events that say nothing of where a main frame is.
Still == {e \in Events : ~(e.type = "navigated" /\ e.parent = NoFrame)}

LEMMA StillTyped == Calm \subseteq Still /\ \A q \in Seq(Calm) : q \in Seq(Still)
<1>1. Calm \subseteq Still
  BY DEF Calm, Still
<1>2. ASSUME NEW q \in Seq(Calm) PROVE q \in Seq(Still)
  BY <1>1, SeqMonotonic
<1> QED BY <1>1, <1>2

\* They do nothing as long as there is none.
LEMMA StillLeads == ASSUME NEW q \in Seq(Still) PROVE Leads(Moves, NoFrames, q, NoFrames)
<1>1. NoFrames \in Shapes /\ DOMAIN NoFrames.parent = {}
  BY AloneTyped
<1>2. ASSUME NEW e \in Still PROVE <<NoFrames, e, NoFrames>> \in Moves
  <2>1. e \in Events /\ (e.type # "navigated" \/ e.parent # NoFrame)
    BY DEF Still
  <2>2. Reshape(NoFrames, e) = NoFrames
    BY <1>1, <2>1, ReshapeCases
  <2> QED BY <1>1, <2>1, <2>2 DEF Moves
<1> QED BY <1>2, LeadsNowhere

\* Calm events before or after make no difference.
LEMMA CalmAround ==
  ASSUME NEW a \in Shapes, NEW b \in Shapes, NEW q \in Seq(Events), Leads(Moves, a, q, b),
         NEW calm \in Seq(Calm)
  PROVE  Leads(Moves, a, calm \o q, b) /\ Leads(Moves, a, q \o calm, b)
<1>1. Leads(Moves, a, calm, a) /\ Leads(Moves, b, calm, b) /\ calm \in Seq(Events)
  BY CalmLeads, CalmTyped
<1> QED BY <1>1, LeadsFurther

LEMMA OneMove ==
  ASSUME NEW a \in Shapes, NEW e \in Events, NEW b \in Shapes, b = Reshape(a, e)
  PROVE  Leads(Moves, a, <<e>>, b)
<1>1. <<a, e, b>> \in Moves
  BY DEF Moves
<1> QED BY <1>1, LeadsOne

-----------------------------------------------------------------------------
(* Frames and those below them.                                            *)

LEMMA NestedFacts ==
  ASSUME BrowserIInv, Nested(tree, root)
  PROVE  /\ root \in FrameIds /\ tree[root].parent = NoFrame /\ NoFrame \notin DOMAIN tree
         /\ \A f \in DOMAIN tree \ {root} :
              /\ tree[f].parent \in DOMAIN tree /\ tree[f].parent # f /\ tree[f].parent # NoFrame
              /\ tree[tree[f].parent].parent # f
BY ManagerAssumption DEF BrowserIInv, Nested, Tree, Rooted, FrameIds

\* What is below a frame is what can be reached from it.
LEMMA FromIsBelow ==
  ASSUME BrowserIInv, Nested(tree, root), NEW f \in DOMAIN tree
  PROVE  /\ From(TreeShape.parent, f) = {f} \cup Below(f) /\ f \notin Below(f)
         /\ Below(f) \subseteq DOMAIN tree \ {root}
         /\ \A y \in DOMAIN tree : tree[y].parent \in {f} \cup Below(f) => y \in Below(f)
<1> DEFINE P == TreeShape.parent
           X == {f} \cup Below(f)
<1>1. DOMAIN P = DOMAIN tree /\ \A x \in DOMAIN tree : P[x] = tree[x].parent
  BY TreeShapeTyped DEF TreeShape, BrowserIInv
<1>2. Below(f) = Kids(f) \cup UNION {Kids(c) : c \in Kids(f)}
  BY DEF Below
<1>3. \A x, y : x \in Kids(y) <=> x \in DOMAIN tree /\ tree[x].parent = y
  BY DEF Kids
<1>4. \A x : x \in Below(f) <=>
              /\ x \in DOMAIN tree
              /\ \/ tree[x].parent = f
                 \/ tree[x].parent \in DOMAIN tree /\ tree[tree[x].parent].parent = f
  BY <1>2, <1>3
<1>5. f \notin Below(f) /\ Below(f) \subseteq DOMAIN tree \ {root}
  BY <1>4, NestedFacts
<1>6. ASSUME NEW y \in DOMAIN tree, tree[y].parent \in X PROVE y \in Below(f)
  <2>1. CASE tree[y].parent = f
    BY <1>4, <2>1
  <2>2. CASE tree[y].parent \in Below(f)
    <3> DEFINE p == tree[y].parent
    <3>1. p \in DOMAIN tree \ {root}
      BY <1>5, <2>2
    <3>2. y # root
      BY <3>1, NestedFacts
    <3>3. tree[p].parent = root
      BY <3>1, <3>2 DEF Nested
    <3>4. tree[p].parent = f
      <4>1. tree[root].parent # f
        BY NestedFacts
      <4> QED BY <1>4, <2>2, <3>3, <4>1
    <3> QED BY <1>4, <3>1, <3>4
  <2> QED BY <1>6, <2>1, <2>2
<1> HIDE DEF P, X
<1>7. From(P, f) \subseteq X
  <2>1. X \in SUBSET DOMAIN P /\ f \in X
    BY <1>1, <1>5 DEF X
  <2>2. \A y \in DOMAIN P : P[y] \in X => y \in X
    BY <1>1, <1>6 DEF X
  <2> QED BY <2>1, <2>2 DEF From
<1>8. X \subseteq From(P, f)
  <2> SUFFICES ASSUME NEW x \in X, NEW S \in SUBSET DOMAIN P, f \in S,
                      \A y \in DOMAIN P : P[y] \in S => y \in S
               PROVE  x \in S
    BY <1>1, <1>5 DEF From, X
  <2>1. CASE x = f
    BY <2>1
  <2>2. CASE x \in Below(f)
    <3>1. x \in DOMAIN tree
          /\ (\/ tree[x].parent = f
              \/ tree[x].parent \in DOMAIN tree /\ tree[tree[x].parent].parent = f)
      BY <1>4, <2>2
    <3>2. CASE tree[x].parent = f
      BY <1>1, <3>1, <3>2
    <3>3. CASE tree[x].parent \in DOMAIN tree /\ tree[tree[x].parent].parent = f
      <4>1. tree[x].parent \in S
        BY <1>1, <3>3
      <4> QED BY <1>1, <3>1, <4>1
    <3> QED BY <3>1, <3>2, <3>3
  <2> QED BY <2>1, <2>2 DEF X
<1> QED BY <1>5, <1>6, <1>7, <1>8 DEF P, X

\* A frame that nothing hangs below.
LEMMA FromLeaf ==
  ASSUME NEW P, NEW f \in DOMAIN P, \A y \in DOMAIN P : P[y] # f
  PROVE  From(P, f) = {f}
<1>1. {f} \in SUBSET DOMAIN P /\ f \in {f} /\ \A y \in DOMAIN P : P[y] \in {f} => y \in {f}
  OBVIOUS
<1>2. From(P, f) \subseteq {f}
  BY <1>1 DEF From
<1>3. f \in From(P, f)
  BY DEF From
<1> QED BY <1>2, <1>3

\* An order of frames has each of them once, and none before its parent.
LEMMA OrderFacts ==
  ASSUME NEW S, IsFiniteSet(S), NEW s \in ParentsFirst(S)
  PROVE  /\ s \in Seq(S) /\ Len(s) \in Nat /\ DOMAIN s = 1 .. Len(s)
         /\ \A i \in 1 .. Len(s) : s[i] \in S
         /\ \A i, j \in 1 .. Len(s) : s[i] = s[j] => i = j
         /\ \A x \in S : \E i \in 1 .. Len(s) : s[i] = x
         /\ \A i, j \in 1 .. Len(s) : tree[s[j]].parent = s[i] => i < j
<1> DEFINE n == Cardinality(S)
<1>1. n \in Nat
  BY FS_CardinalityType
<1>2. s \in [1 .. n -> S] /\ \A i, j \in 1 .. n : i # j => s[i] # s[j]
  BY DEF ParentsFirst, SetToSeqs
<1>3. s \in Seq(S)
  BY <1>1, <1>2, ListTyped
<1>4. Len(s) = n /\ DOMAIN s = 1 .. Len(s)
  BY <1>1, <1>2, <1>3
<1>5. \A i, j \in 1 .. Len(s) : tree[s[j]].parent = s[i] => i < j
  BY DEF ParentsFirst
<1>6. IsFiniteSet(1 .. n) /\ Cardinality(1 .. n) = n
  BY <1>1, FS_Interval
<1> HIDE DEF n
<1>7. s \in Injection(1 .. n, S)
  BY <1>2 DEF Injection, IsInjective
<1>8. s \in Surjection(1 .. n, S)
  BY <1>6, <1>7, FS_Injection DEF n
<1>9. \A x \in S : \E i \in 1 .. n : s[i] = x
  BY <1>8 DEF Surjection
<1> QED BY <1>1, <1>2, <1>3, <1>4, <1>5, <1>9

\* A shape without some of its frames.
Pruned(a, D) == Reparent(a, Cut(a.parent, D))

LEMMA PrunedTyped ==
  ASSUME NEW a \in Shapes, NEW D
  PROVE  /\ Pruned(a, D) \in Shapes /\ Pruned(a, D).main = a.main
         /\ DOMAIN Pruned(a, D).parent = DOMAIN a.parent \ D
         /\ \A x \in DOMAIN a.parent \ D : Pruned(a, D).parent[x] = a.parent[x]
<1>1. Pruned(a, D) = Reparent(a, Cut(a.parent, D))
  BY DEF Pruned
<1>2. /\ Reparent(a, Cut(a.parent, D)) \in Shapes
      /\ Reparent(a, Cut(a.parent, D)).main = a.main
      /\ Reparent(a, Cut(a.parent, D)).parent = Cut(a.parent, D)
      /\ DOMAIN Cut(a.parent, D) = DOMAIN a.parent \ D
      /\ \A x \in DOMAIN a.parent \ D : Cut(a.parent, D)[x] = a.parent[x]
  BY CutTyped, Zenon
<1> QED BY <1>1, <1>2

\* First without some, then without one more.
LEMMA CutAgain ==
  ASSUME NEW a \in Shapes, NEW C, NEW f
  PROVE  Pruned(Pruned(a, C), {f}) = Pruned(a, C \cup {f})
<1>1. PICK b : b = Pruned(a, C)
  OBVIOUS
<1>2. /\ b \in Shapes /\ b.main = a.main /\ DOMAIN b.parent = DOMAIN a.parent \ C
      /\ \A x \in DOMAIN a.parent \ C : b.parent[x] = a.parent[x]
  BY <1>1, PrunedTyped
<1>3. PICK c : c = Pruned(b, {f})
  OBVIOUS
<1>4. /\ c \in Shapes /\ c.main = b.main /\ DOMAIN c.parent = DOMAIN b.parent \ {f}
      /\ \A x \in DOMAIN b.parent \ {f} : c.parent[x] = b.parent[x]
  BY <1>2, <1>3, PrunedTyped
<1>5. PICK d : d = Pruned(a, C \cup {f})
  OBVIOUS
<1>6. /\ d \in Shapes /\ d.main = a.main /\ DOMAIN d.parent = DOMAIN a.parent \ (C \cup {f})
      /\ \A x \in DOMAIN a.parent \ (C \cup {f}) : d.parent[x] = a.parent[x]
  BY <1>5, PrunedTyped
<1>7. c.main = d.main /\ DOMAIN c.parent = DOMAIN d.parent
  BY <1>2, <1>4, <1>6
<1>8. \A x \in DOMAIN c.parent : c.parent[x] = d.parent[x]
  BY <1>2, <1>4, <1>6
<1>9. c = d
  BY <1>4, <1>6, <1>7, <1>8, ShapesEqual
<1> QED BY <1>1, <1>3, <1>5, <1>9

\* A shape without no frames.
LEMMA CutNothing == ASSUME NEW a \in Shapes PROVE Pruned(a, {}) = a
<1>0. PICK D : D = {}
  OBVIOUS
<1>1. PICK d : D = {} /\ d = Pruned(a, D)
  BY <1>0
<1>2. /\ d \in Shapes /\ d.main = a.main /\ DOMAIN d.parent = DOMAIN a.parent \ D
      /\ \A x \in DOMAIN a.parent \ D : d.parent[x] = a.parent[x]
  BY <1>1, PrunedTyped
<1>3. DOMAIN d.parent = DOMAIN a.parent /\ \A x \in DOMAIN d.parent : d.parent[x] = a.parent[x]
  <2>1. DOMAIN a.parent \ D = DOMAIN a.parent
    BY <1>1
  <2> QED BY <1>2, <2>1
<1>4. d = a
  BY <1>2, <1>3, ShapesEqual
<1> QED BY <1>1, <1>4

\* Frames are detached from below, one by one, until none of them is left.
LEMMA DetachLeads ==
  ASSUME BrowserIInv, Nested(tree, root), step >= 1, NEW S \in SUBSET (DOMAIN tree \ {root}),
         \A y \in DOMAIN tree : tree[y].parent \in S => y \in S, NEW s \in ParentsFirst(S)
  PROVE  Leads(Moves, TreeShape, DetachedEvents(Reverse(s)),
               Pruned(TreeShape, S))
<1>1. PICK a, r, n : a = TreeShape /\ r = Reverse(s) /\ n = Len(s)
  OBVIOUS
<1>2. /\ a \in Shapes /\ DOMAIN a.parent = DOMAIN tree
      /\ \A x \in DOMAIN tree : a.parent[x] = tree[x].parent
  BY <1>1, TreeShapeTyped DEF TreeShape, BrowserIInv
<1>3. IsFiniteSet(S)
  BY FS_Subset DEF BrowserIInv, Tree
<1>4. /\ s \in Seq(S) /\ n \in Nat
      /\ \A i \in 1 .. n : s[i] \in S
      /\ \A i, j \in 1 .. n : s[i] = s[j] => i = j
      /\ \A x \in S : \E i \in 1 .. n : s[i] = x
      /\ \A i, j \in 1 .. n : tree[s[j]].parent = s[i] => i < j
  BY <1>1, <1>3, OrderFacts
<1>5. \A i \in 1 .. n : n - i + 1 \in 1 .. n
  BY <1>4
<1>6. r \in Seq(S) /\ Len(r) = n /\ \A i \in 1 .. n : r[i] = s[n - i + 1]
  <2>1. r = [i \in 1 .. n |-> s[n - i + 1]]
    BY <1>1 DEF Reverse
  <2>2. r \in Seq(S)
    BY <1>1, <1>3, OrderTyped
  <2>3. Len(r) = n
    BY <1>4, <2>1
  <2> QED BY <2>1, <2>2, <2>3
<1>7. \A i \in 1 .. n : r[i] \in S /\ r[i] \in ChildIds
  BY <1>4, <1>5, <1>6 DEF Nested
<1>8. \A i, j \in 1 .. n : r[i] = r[j] => i = j
  <2> SUFFICES ASSUME NEW i \in 1 .. n, NEW j \in 1 .. n, r[i] = r[j] PROVE i = j
    OBVIOUS
  <2>1. PICK k \in 1 .. n, l \in 1 .. n : k = n - i + 1 /\ l = n - j + 1
    BY <1>5
  <2>2. r[i] = s[k] /\ r[j] = s[l]
    BY <1>6, <2>1
  <2>3. k = l
    BY <1>4, <2>2
  <2> QED BY <1>4, <2>1, <2>3
<1>9. \A x \in S : \E i \in 1 .. n : r[i] = x
  <2> SUFFICES ASSUME NEW x \in S PROVE \E i \in 1 .. n : r[i] = x
    OBVIOUS
  <2>1. PICK k \in 1 .. n : s[k] = x
    BY <1>4
  <2>2. n - k + 1 \in 1 .. n /\ n - (n - k + 1) + 1 = k
    BY <1>4
  <2>3. r[n - k + 1] = s[k]
    BY <1>6, <2>2
  <2> QED BY <2>1, <2>2, <2>3
<1>10. \A i, j \in 1 .. n : tree[r[j]].parent = r[i] => j < i
  <2> SUFFICES ASSUME NEW i \in 1 .. n, NEW j \in 1 .. n, tree[r[j]].parent = r[i] PROVE j < i
    OBVIOUS
  <2>1. PICK k \in 1 .. n, l \in 1 .. n : k = n - i + 1 /\ l = n - j + 1
    BY <1>5
  <2>2. r[i] = s[k] /\ r[j] = s[l]
    BY <1>6, <2>1
  <2>3. k < l
    BY <1>4, <2>2
  <2> QED BY <1>4, <2>1, <2>3
<1> DEFINE Off(i) == {r[j] : j \in 1 .. i}
           H(i) == Pruned(a, Off(i))
           seqs == [i \in 1 .. n |-> <<Event("detached", r[i])>>]
           h == [i \in 0 .. n |-> H(i)]
<1>11. ASSUME NEW i \in 1 .. n
       PROVE  Leads(Moves, H(i - 1), <<Event("detached", r[i])>>, H(i))
  <2>1. PICK f, b, e : f = r[i] /\ b = H(i - 1) /\ e = Event("detached", r[i])
    OBVIOUS
  <2>2. /\ b \in Shapes /\ DOMAIN b.parent = DOMAIN tree \ Off(i - 1)
        /\ \A x \in DOMAIN b.parent : b.parent[x] = tree[x].parent
    <3>1. /\ Pruned(a, Off(i - 1)) \in Shapes
          /\ DOMAIN Pruned(a, Off(i - 1)).parent = DOMAIN a.parent \ Off(i - 1)
          /\ \A x \in DOMAIN a.parent \ Off(i - 1) :
               Pruned(a, Off(i - 1)).parent[x] = a.parent[x]
      <4> HIDE DEF Off
      <4> QED BY <1>2, PrunedTyped
    <3> HIDE DEF Off
    <3> QED BY <1>2, <2>1, <3>1
  <2>3. f \notin Off(i - 1)
    <3>1. \A j \in 1 .. i - 1 : j \in 1 .. n /\ j # i
      BY <1>4
    <3> QED BY <1>8, <2>1, <3>1
  <2>4. f \in DOMAIN b.parent
    BY <1>7, <2>1, <2>2, <2>3
  <2>5. ASSUME NEW y \in DOMAIN b.parent, b.parent[y] = f PROVE FALSE
    <3>1. y \in DOMAIN tree /\ tree[y].parent = f /\ y \notin Off(i - 1)
      BY <2>2, <2>5
    <3>2. y \in S
      BY <1>7, <2>1, <3>1
    <3>3. PICK j \in 1 .. n : r[j] = y
      BY <1>9, <3>2
    <3>4. j < i
      BY <1>10, <2>1, <3>1, <3>3
    <3>5. j \in 1 .. i - 1
      BY <1>4, <3>4
    <3> QED BY <3>1, <3>3, <3>5
  <2>6. From(b.parent, f) = {f}
    BY <2>4, <2>5, FromLeaf
  <2>7. e \in Events /\ e.type = "detached" /\ e.frame = f
    BY <1>7, <2>1, DetachedEvent DEF Event
  <2>8. Reshape(b, e) = Pruned(b, {f})
    <3>1. e.type = "detached" =>
            Reshape(b, e) = IF e.frame \in DOMAIN b.parent
                            THEN Reparent(b, Cut(b.parent, From(b.parent, e.frame))) ELSE b
      BY ReshapeCases, Zenon
    <3> QED BY <2>4, <2>6, <2>7, <3>1 DEF Pruned
  <2>9. Off(i) = Off(i - 1) \cup {f}
    <3>1. 1 .. i = (1 .. i - 1) \cup {i}
      BY <1>4
    <3> QED BY <2>1, <3>1
  <2> HIDE DEF Off
  <2>10. Pruned(b, {f}) = H(i)
    <3>1. PICK C : C = Off(i - 1)
      OBVIOUS
    <3>2. b = Pruned(a, C) /\ H(i) = Pruned(a, C \cup {f})
      BY <2>1, <2>9, <3>1
    <3>3. Pruned(Pruned(a, C), {f}) = Pruned(a, C \cup {f})
      BY <1>2, CutAgain
    <3> QED BY <3>2, <3>3
  <2>11. H(i) \in Shapes
    BY <1>2, PrunedTyped
  <2> HIDE DEF H
  <2>12. Leads(Moves, b, <<e>>, H(i))
    BY <2>2, <2>7, <2>8, <2>10, <2>11, OneMove
  <2> QED BY <2>1, <2>12
<1>12. Off(0) = {}
  <2>1. 1 .. 0 = {}
    OBVIOUS
  <2> QED BY <2>1
<1>13. Off(n) = S
  BY <1>7, <1>9
<1> HIDE DEF Off
<1>14. H(0) = a
  BY <1>2, <1>12, CutNothing
<1>15. H(n) = Pruned(a, S)
  BY <1>13
<1> HIDE DEF H
<1>16. seqs \in Seq(Seq(Events)) /\ Len(seqs) = n
  <2>1. \A i \in 1 .. n : <<Event("detached", r[i])>> \in Seq(Events)
    BY <1>7, DetachedEvent
  <2>2. seqs \in [1 .. n -> Seq(Events)]
    BY <2>1
  <2>3. seqs \in Seq(Seq(Events))
    BY <1>4, <2>2, ListTyped
  <2>4. Len(seqs) = n
    BY <1>4
  <2> QED BY <2>3, <2>4
<1>17. ASSUME NEW i \in 1 .. n PROVE Leads(Moves, h[i - 1], seqs[i], h[i])
  <2>1. i - 1 \in 0 .. n /\ i \in 0 .. n
    BY <1>4
  <2>2. h[i - 1] = H(i - 1) /\ h[i] = H(i) /\ seqs[i] = <<Event("detached", r[i])>>
    BY <2>1
  <2> QED BY <1>11, <2>2
<1>18. h[0] = a /\ h[n] = Pruned(a, S)
  BY <1>4, <1>14, <1>15
<1>19. DetachedEvents(r) = FlattenSeq(seqs)
  BY <1>6 DEF DetachedEvents, Each, FromStep
<1> HIDE DEF h, seqs
<1>20. Leads(Moves, h[0], FlattenSeq(seqs), h[n])
  BY <1>16, <1>17, LeadsFlat
<1> QED BY <1>1, <1>18, <1>19, <1>20

\* A shape with one frame more.
Grown(a, f, p) == Reparent(a, Hang(a.parent, f, p))

LEMMA GrownTyped ==
  ASSUME NEW a \in Shapes, NEW f \in FrameIds, NEW p \in FrameIds
  PROVE  /\ Grown(a, f, p) \in Shapes /\ Grown(a, f, p).main = a.main
         /\ DOMAIN Grown(a, f, p).parent = DOMAIN a.parent \cup {f} /\ Grown(a, f, p).parent[f] = p
         /\ \A x \in DOMAIN a.parent \ {f} : Grown(a, f, p).parent[x] = a.parent[x]
<1>1. PICK P : P = a.parent
  OBVIOUS
<1>2. PICK D \in SUBSET FrameIds : P \in [D -> FrameIds \cup {NoFrame}]
  <2>1. P \in UNION {[E -> FrameIds \cup {NoFrame}] : E \in SUBSET FrameIds}
    BY <1>1 DEF Shapes
  <2> QED BY <2>1
<1>3. PICK Q : Q = [x \in D \cup {f} |-> IF x = f THEN p ELSE P[x]]
  OBVIOUS
<1>4. DOMAIN P = D /\ \A x \in D : P[x] \in FrameIds \cup {NoFrame}
  BY <1>2
<1>5. Q \in [D \cup {f} -> FrameIds \cup {NoFrame}] /\ D \cup {f} \in SUBSET FrameIds
  BY <1>3, <1>4
<1>6. Q \in UNION {[E -> FrameIds \cup {NoFrame}] : E \in SUBSET FrameIds}
  BY <1>5
<1>7. Hang(a.parent, f, p) = Q
  BY <1>1, <1>3, <1>4 DEF Hang
<1>8. Reparent(a, Q) = [main |-> a.main, parent |-> Q] /\ a.main \in MainIds \cup {NoFrame}
  BY DEF Reparent, Shapes
<1>9. Reparent(a, Q) \in Shapes /\ Reparent(a, Q).main = a.main /\ Reparent(a, Q).parent = Q
  BY <1>6, <1>8 DEF Shapes
<1>10. /\ DOMAIN Q = DOMAIN a.parent \cup {f} /\ Q[f] = p
       /\ \A x \in DOMAIN a.parent \ {f} : Q[x] = a.parent[x]
  BY <1>1, <1>3, <1>4
<1>11. Grown(a, f, p) = Reparent(a, Q)
  BY <1>7 DEF Grown
<1> QED BY <1>9, <1>10, <1>11

LEMMA TwoMoves ==
  ASSUME NEW a \in Shapes, NEW e \in Events, NEW b \in Shapes, b = Reshape(a, e),
         NEW d \in Events, NEW c \in Shapes, c = Reshape(b, d)
  PROVE  Leads(Moves, a, <<e, d>>, c)
<1>1. <<a, e, b>> \in Moves /\ <<b, d, c>> \in Moves
  BY DEF Moves
<1> QED BY <1>1, LeadsTwo

\* What a report that a frame is attached or navigated makes of a shape.
LEMMA ReportedReshapes ==
  ASSUME NEW a, NEW f, NEW p
  PROVE  /\ Reshape(a, Reported("attached", f, p)) =
               IF f \notin DOMAIN a.parent /\ p \in DOMAIN a.parent
               THEN Grown(a, f, p) ELSE a
         /\ p = NoFrame => Reshape(a, Reported("navigated", f, p)) = MainAlone(f)
         /\ p # NoFrame => Reshape(a, Reported("navigated", f, p)) =
               IF f \in DOMAIN a.parent THEN Pruned(a, From(a.parent, f) \ {f}) ELSE a
<1>1. PICK e : e = Reported("attached", f, p)
  OBVIOUS
<1>2. e.type = "attached" /\ e.frame = f /\ e.parent = p
  BY <1>1 DEF Reported, Event
<1>3. e.type = "attached" =>
        Reshape(a, e) = IF e.frame \notin DOMAIN a.parent /\ e.parent \in DOMAIN a.parent
                        THEN Reparent(a, Hang(a.parent, e.frame, e.parent)) ELSE a
  BY ReshapeCases, Zenon
<1>4. PICK d : d = Reported("navigated", f, p)
  OBVIOUS
<1>5. d.type = "navigated" /\ d.frame = f /\ d.parent = p
  BY <1>4 DEF Reported, Event
<1>6. /\ d.type = "navigated" /\ d.parent = NoFrame => Reshape(a, d) = MainAlone(d.frame)
      /\ d.type = "navigated" /\ d.parent # NoFrame =>
           Reshape(a, d) = IF d.frame \in DOMAIN a.parent
                           THEN Reparent(a, Cut(a.parent, From(a.parent, d.frame) \ {d.frame}))
                           ELSE a
  BY ReshapeCases, Zenon
<1> QED BY <1>1, <1>2, <1>3, <1>4, <1>5, <1>6 DEF Grown, Pruned

\* One frame of the answer to getFrameTree: it is attached, then navigated.
Pair(f) == <<Reported("attached", f, tree[f].parent), Reported("navigated", f, tree[f].parent)>>
PairMoves(a, f, c) ==
  /\ a \in Shapes /\ c \in Shapes /\ f \in FrameIds
  /\ Reported("attached", f, tree[f].parent) \in Events
  /\ Reported("navigated", f, tree[f].parent) \in Events
  /\ \E b \in Shapes : /\ b = Reshape(a, Reported("attached", f, tree[f].parent))
                       /\ c = Reshape(b, Reported("navigated", f, tree[f].parent))

\* The answer to getFrameTree leads from whatever was known to the tree, frame by frame.
LEMMA FrameTreePairs ==
  ASSUME BrowserIInv, Nested(tree, root), NEW start \in Shapes, NEW s \in ParentsFirst(DOMAIN tree)
  PROVE  /\ Len(s) \in Nat \ {0} /\ s[1] = root
         /\ \E h : /\ h[0] = start /\ h[Len(s)] = TreeShape
                  /\ \A i \in 1 .. Len(s) : PairMoves(h[i - 1], s[i], h[i])
<1>1. PICK a, n : a = TreeShape /\ n = Len(s)
  OBVIOUS
<1>2. /\ a \in Shapes /\ a.main = root /\ DOMAIN a.parent = DOMAIN tree
      /\ \A x \in DOMAIN tree : a.parent[x] = tree[x].parent
  BY <1>1, TreeShapeTyped DEF TreeShape, BrowserIInv
<1>3. IsFiniteSet(DOMAIN tree)
  BY DEF BrowserIInv, Tree
<1>4. /\ n \in Nat
      /\ \A i \in 1 .. n : s[i] \in DOMAIN tree
      /\ \A i, j \in 1 .. n : s[i] = s[j] => i = j
      /\ \A x \in DOMAIN tree : \E i \in 1 .. n : s[i] = x
      /\ \A i, j \in 1 .. n : tree[s[j]].parent = s[i] => i < j
  BY <1>1, <1>3, OrderFacts
<1>5. root \in DOMAIN tree /\ root \in MainIds /\ tree[root].parent = NoFrame
  BY NestedFacts DEF Nested
<1>6. n >= 1 /\ s[1] = root
  <2>1. PICK k \in 1 .. n : s[k] = root
    BY <1>4, <1>5
  <2>2. n >= 1 /\ 1 \in 1 .. n
    BY <1>4, <2>1
  <2>3. ASSUME s[1] # root PROVE FALSE
    <3>1. s[1] \in DOMAIN tree \ {root}
      BY <1>4, <2>2, <2>3
    <3>2. tree[s[1]].parent \in DOMAIN tree
      BY <3>1, NestedFacts
    <3>3. PICK j \in 1 .. n : s[j] = tree[s[1]].parent
      BY <1>4, <3>2
    <3>4. j < 1
      BY <1>4, <2>2, <3>3
    <3> QED BY <1>4, <3>4
  <2> QED BY <2>2, <2>3
<1> DEFINE Rest(i) == DOMAIN tree \ {s[j] : j \in 1 .. i}
           H(i) == IF i = 0 THEN start ELSE Pruned(a, Rest(i))
           h == [i \in 0 .. n |-> H(i)]
<1>7. ASSUME NEW i \in 1 .. n
      PROVE  /\ Pruned(a, Rest(i)) \in Shapes /\ Pruned(a, Rest(i)).main = root
             /\ DOMAIN Pruned(a, Rest(i)).parent = {s[j] : j \in 1 .. i}
             /\ \A x \in {s[j] : j \in 1 .. i} :
                   Pruned(a, Rest(i)).parent[x] = tree[x].parent
  <2>1. PICK S : S = {s[j] : j \in 1 .. i}
    OBVIOUS
  <2>2. S \subseteq DOMAIN tree
    BY <1>4, <2>1
  <2>3. PICK D, b : D = DOMAIN tree \ S /\ b = Pruned(a, D)
    OBVIOUS
  <2>4. /\ b \in Shapes /\ b.main = a.main /\ DOMAIN b.parent = DOMAIN a.parent \ D
        /\ \A x \in DOMAIN a.parent \ D : b.parent[x] = a.parent[x]
    BY <1>2, <2>3, PrunedTyped
  <2>5. DOMAIN a.parent \ D = S
    BY <1>2, <2>2, <2>3
  <2>6. /\ b \in Shapes /\ b.main = root /\ DOMAIN b.parent = S
        /\ \A x \in S : b.parent[x] = tree[x].parent
    BY <1>2, <2>2, <2>4, <2>5
  <2> QED BY <2>1, <2>3, <2>6
<1>8. ASSUME NEW i \in 1 .. n
      PROVE  /\ Reported("attached", s[i], tree[s[i]].parent) \in Events
             /\ Reported("navigated", s[i], tree[s[i]].parent) \in Events
  <2>1. s[i] \in DOMAIN tree
    BY <1>4
  <2>2. s[i] \in FrameIds /\ tree[s[i]].parent \in FrameIds \cup {NoFrame}
        /\ Rooted(s[i], tree[s[i]].parent)
    BY <2>1 DEF BrowserIInv, Tree, Documents
  <2> QED BY <2>2, ReportedEvent
<1>9. ASSUME NEW i \in 1 .. n, i = 1 PROVE PairMoves(H(i - 1), s[i], H(i))
  <2>0. PICK p : p = NoFrame
    OBVIOUS
  <2>1. PICK e, d : e = Reported("attached", root, p) /\ d = Reported("navigated", root, p)
    OBVIOUS
  <2>2. /\ H(i - 1) = start /\ H(i) = Pruned(a, Rest(i)) /\ s[i] = root /\ tree[s[i]].parent = p
        /\ e = Reported("attached", s[i], tree[s[i]].parent)
        /\ d = Reported("navigated", s[i], tree[s[i]].parent)
    BY <1>5, <1>6, <1>9, <2>0, <2>1
  <2>3. e \in Events /\ d \in Events
    BY <1>5, <1>6, <1>8, <1>9, <2>0, <2>1
  <2>4. NoFrame \notin DOMAIN start.parent
    BY ManagerAssumption DEF Shapes, FrameIds
  <2>5. Reshape(start, e) = start
    BY <2>0, <2>1, <2>4, ReportedReshapes
  <2>6. Reshape(start, d) = MainAlone(root)
    <3>1. d.type = "navigated" /\ d.parent = NoFrame => Reshape(start, d) = MainAlone(d.frame)
      BY ReshapeCases, Zenon
    <3>2. d.type = "navigated" /\ d.parent = NoFrame /\ d.frame = root
      BY <2>0, <2>1 DEF Reported, Event
    <3> QED BY <3>1, <3>2
  <2>7. MainAlone(root) = Pruned(a, Rest(i))
    <3>1. {s[j] : j \in 1 .. i} = {root}
      BY <1>6, <1>9
    <3>2. PICK b : b = Pruned(a, Rest(i))
      OBVIOUS
    <3>3. b \in Shapes /\ b.main = root /\ DOMAIN b.parent = {root} /\ b.parent[root] = NoFrame
      BY <1>5, <1>7, <3>1, <3>2
    <3>4. PICK c : c = MainAlone(root)
      OBVIOUS
    <3>5. c \in Shapes /\ c.main = root /\ DOMAIN c.parent = {root} /\ c.parent[root] = NoFrame
      BY <1>5, <3>4, AloneTyped
    <3>6. b = c
      BY <3>3, <3>5, ShapesEqual
    <3> QED BY <3>2, <3>4, <3>6
  <2>8. MainAlone(root) \in Shapes
    BY <1>5, AloneTyped
  <2>9. start = Reshape(start, e) /\ MainAlone(root) = Reshape(start, d)
    BY <2>5, <2>6
  <2>10. root \in FrameIds
    BY <1>5 DEF FrameIds
  <2> HIDE DEF Rest, H
  <2> QED BY <2>2, <2>3, <2>7, <2>8, <2>9, <2>10 DEF PairMoves
<1>10. ASSUME NEW i \in 1 .. n, i # 1 PROVE PairMoves(H(i - 1), s[i], H(i))
  <2>1. PICK f, p, b, c, e, d :
          /\ f = s[i] /\ p = tree[f].parent /\ b = Pruned(a, Rest(i - 1))
          /\ c = Pruned(a, Rest(i))
          /\ e = Reported("attached", f, p) /\ d = Reported("navigated", f, p)
    OBVIOUS
  <2>2. i - 1 \in 1 .. n /\ i - 1 # 0 /\ i # 0
    BY <1>4, <1>10
  <2>3. H(i - 1) = b /\ H(i) = c
    BY <2>1, <2>2
  <2>4. e \in Events /\ d \in Events
    BY <1>8, <2>1
  <2>5. /\ b \in Shapes /\ b.main = root /\ DOMAIN b.parent = {s[j] : j \in 1 .. i - 1}
        /\ \A x \in {s[j] : j \in 1 .. i - 1} : b.parent[x] = tree[x].parent
    <3> HIDE DEF Rest
    <3> QED BY <1>7, <2>1, <2>2
  <2>6. /\ c \in Shapes /\ c.main = root /\ DOMAIN c.parent = {s[j] : j \in 1 .. i}
        /\ \A x \in {s[j] : j \in 1 .. i} : c.parent[x] = tree[x].parent
    <3> HIDE DEF Rest
    <3> QED BY <1>7, <2>1
  <2> HIDE DEF Rest, H
  <2>7. f \in DOMAIN tree \ {root} /\ f \in FrameIds
    <3>1. f \in DOMAIN tree
      BY <1>4, <2>1
    <3>2. f # root
      BY <1>4, <1>6, <1>10, <2>1
    <3> QED BY <3>1, <3>2 DEF BrowserIInv, Tree
  <2>8. p \in DOMAIN tree /\ p # f /\ p # NoFrame /\ p \in FrameIds
    BY <2>1, <2>7, NestedFacts DEF BrowserIInv, Tree
  <2>9. f \notin DOMAIN b.parent
    <3>1. \A j \in 1 .. i - 1 : j \in 1 .. n /\ j # i
      BY <1>4
    <3> QED BY <1>4, <2>1, <2>5, <3>1
  <2>10. p \in DOMAIN b.parent
    <3>1. PICK j \in 1 .. n : s[j] = p
      BY <1>4, <2>8
    <3>2. j < i
      BY <1>4, <2>1, <3>1
    <3>3. j \in 1 .. i - 1
      BY <1>4, <3>2
    <3> QED BY <2>5, <3>1, <3>3
  <2>11. Reshape(b, e) = Grown(b, f, p)
    <3>1. Reshape(b, Reported("attached", f, p)) =
            IF f \notin DOMAIN b.parent /\ p \in DOMAIN b.parent THEN Grown(b, f, p) ELSE b
      BY ReportedReshapes, Zenon
    <3> QED BY <2>1, <2>9, <2>10, <3>1
  <2>12. Grown(b, f, p) = c
    <3>1. PICK g : g = Grown(b, f, p)
      OBVIOUS
    <3>2. /\ g \in Shapes /\ g.main = b.main /\ DOMAIN g.parent = DOMAIN b.parent \cup {f}
          /\ g.parent[f] = p
          /\ \A x \in DOMAIN b.parent \ {f} : g.parent[x] = b.parent[x]
      BY <2>5, <2>7, <2>8, <3>1, GrownTyped
    <3>3. 1 .. i = (1 .. i - 1) \cup {i}
      BY <1>4
    <3>4. DOMAIN g.parent = DOMAIN c.parent
      BY <2>1, <2>5, <2>6, <3>2, <3>3
    <3>5. ASSUME NEW x \in DOMAIN g.parent PROVE g.parent[x] = c.parent[x]
      <4>1. c.parent[x] = tree[x].parent
        BY <2>6, <3>4
      <4>2. CASE x = f
        BY <2>1, <3>2, <4>1, <4>2
      <4>3. CASE x # f
        BY <2>5, <3>2, <4>1, <4>3
      <4> QED BY <4>2, <4>3
    <3>6. g \in Shapes /\ c \in Shapes /\ g.main = c.main
      BY <2>5, <2>6, <3>2
    <3>7. g = c
      BY <3>4, <3>5, <3>6, ShapesEqual
    <3> QED BY <3>1, <3>7
  <2>13. f \in DOMAIN c.parent
    BY <2>1, <2>6
  <2>14. From(c.parent, f) = {f}
    <3>1. ASSUME NEW y \in DOMAIN c.parent, c.parent[y] = f PROVE FALSE
      <4>1. PICK j \in 1 .. i : y = s[j]
        BY <2>6
      <4>2. j \in 1 .. n /\ tree[s[j]].parent = s[i]
        BY <1>4, <2>1, <2>6, <3>1, <4>1
      <4>3. i < j
        BY <1>4, <4>2
      <4> QED BY <1>4, <4>1, <4>3
    <3> QED BY <2>13, <3>1, FromLeaf
  <2>15. Reshape(c, d) = c
    <3>1. Reshape(c, d) = Pruned(c, From(c.parent, f) \ {f})
      BY <2>1, <2>8, <2>13, ReportedReshapes
    <3>2. From(c.parent, f) \ {f} = {}
      BY <2>14
    <3>3. Pruned(c, {}) = c
      BY <2>6, CutNothing
    <3> QED BY <3>1, <3>2, <3>3
  <2>16. c = Reshape(b, e) /\ c = Reshape(c, d)
    BY <2>11, <2>12, <2>15
  <2> QED BY <2>1, <2>3, <2>4, <2>5, <2>6, <2>7, <2>16 DEF PairMoves
<1>11. H(n) = a
  <2>1. {s[j] : j \in 1 .. n} = DOMAIN tree
    BY <1>4
  <2>2. n # 0 /\ Rest(n) = {}
    BY <1>6, <2>1
  <2>3. Pruned(a, {}) = a
    BY <1>2, CutNothing
  <2> HIDE DEF Rest
  <2> QED BY <2>2, <2>3
<1>12. H(0) = start
  OBVIOUS
<1> HIDE DEF Rest, H
<1>13. ASSUME NEW i \in 1 .. n PROVE PairMoves(h[i - 1], s[i], h[i])
  <2>1. i - 1 \in 0 .. n /\ i \in 0 .. n
    BY <1>4
  <2>2. h[i - 1] = H(i - 1) /\ h[i] = H(i)
    BY <2>1
  <2> QED BY <1>9, <1>10, <2>2
<1>14. h[0] = start /\ h[n] = a
  BY <1>4, <1>11, <1>12
<1> HIDE DEF h
<1> QED BY <1>1, <1>4, <1>6, <1>13, <1>14

LEMMA PairMovesTyped ==
  ASSUME NEW a, NEW f, NEW c, PairMoves(a, f, c)
  PROVE  Pair(f) \in Seq(Events) /\ Leads(Moves, a, Pair(f), c)
<1>1. PICK e, d : /\ e = Reported("attached", f, tree[f].parent)
                  /\ d = Reported("navigated", f, tree[f].parent)
  OBVIOUS
<1>2. e \in Events /\ d \in Events /\ a \in Shapes /\ c \in Shapes
  BY <1>1 DEF PairMoves
<1>3. PICK b \in Shapes : b = Reshape(a, e) /\ c = Reshape(b, d)
  BY <1>1 DEF PairMoves
<1>4. Leads(Moves, a, <<e, d>>, c) /\ <<e, d>> \in Seq(Events)
  BY <1>2, <1>3, TwoMoves
<1> QED BY <1>1, <1>4 DEF Pair

LEMMA FrameTreeLeads ==
  ASSUME BrowserIInv, Nested(tree, root), NEW start \in Shapes, NEW s \in ParentsFirst(DOMAIN tree)
  PROVE  Leads(Moves, start, FlattenSeq([i \in 1 .. Len(s) |-> Pair(s[i])]), TreeShape)
<1>1. PICK n : n = Len(s) /\ n \in Nat
  BY FrameTreePairs
<1>2. PICK h : /\ h[0] = start /\ h[n] = TreeShape
               /\ \A i \in 1 .. n : PairMoves(h[i - 1], s[i], h[i])
  BY <1>1, FrameTreePairs
<1> DEFINE seqs == [i \in 1 .. n |-> Pair(s[i])]
<1>3. \A i \in 1 .. n : seqs[i] = Pair(s[i])
  OBVIOUS
<1>4. \A i \in 1 .. n : seqs[i] \in Seq(Events) /\ Leads(Moves, h[i - 1], seqs[i], h[i])
  BY <1>2, <1>3, PairMovesTyped
<1>5. seqs \in Seq(Seq(Events)) /\ Len(seqs) = n
  <2>1. seqs \in [1 .. n -> Seq(Events)]
    BY <1>4
  <2> QED BY <1>1, <2>1, ListTyped
<1>6. seqs = [i \in 1 .. Len(s) |-> Pair(s[i])]
  BY <1>1
<1> HIDE DEF seqs
<1>7. Leads(Moves, h[0], FlattenSeq(seqs), h[n])
  BY <1>4, <1>5, LeadsFlat
<1> QED BY <1>2, <1>6, <1>7

-----------------------------------------------------------------------------
(* The acts of the browser seen through Reshape.                           *)

\* Once its events are read, what the handler has is what there is, or nothing while the
\* frame tree was not asked for.
Settled(goal) == (goal = NoFrames /\ step <= 1) \/ (goal = TreeShape /\ step >= 1)

MirrorIInv ==
  /\ Nested(tree, root)
  /\ \E goal \in Shapes : Leads(Moves, ShapeNow, inbox, goal) /\ Settled(goal)

\* What an act of the page reports leads from the tree to the tree, or from nothing to
\* nothing or to the tree.
Follows ==
  /\ Nested(tree', root')
  /\ step >= 1 => Leads(Moves, TreeShape, inbox', TreeShape')
  /\ step <= 1 => \/ inbox' \in Seq(Still)
                  \/ step = 1 /\ Leads(Moves, NoFrames, inbox', TreeShape')

\* Two parts of a batch that leave a handler without frames alone.
LEMMA StillJoin ==
  ASSUME NEW p \in Seq(Still), NEW q \in Seq(Still) PROVE p \o q \in Seq(Still)
BY ConcatProperties

LEMMA DetachedIn ==
  ASSUME NEW E, \A f \in ChildIds : Event("detached", f) \in E, NEW told \in Seq(ChildIds)
  PROVE  DetachedEvents(told) \in Seq(E)
<1>1. ASSUME NEW f \in ChildIds PROVE <<Event("detached", f)>> \in Seq(E)
  <2>1. Event("detached", f) \in E
    OBVIOUS
  <2> QED BY <2>1
<1>2. Len(told) \in Nat /\ \A i \in 1 .. Len(told) : told[i] \in ChildIds
  OBVIOUS
<1>3. [i \in 1 .. Len(told) |-> <<Event("detached", told[i])>>] \in [1 .. Len(told) -> Seq(E)]
  BY <1>1, <1>2
<1>4. FlattenSeq([i \in 1 .. Len(told) |-> <<Event("detached", told[i])>>]) \in Seq(E)
  BY <1>2, <1>3, ListTyped, FlattenTyped
<1> QED BY <1>4, FromStepTyped DEF DetachedEvents, Each

LEMMA DetachedStill ==
  ASSUME NEW told \in Seq(ChildIds) PROVE DetachedEvents(told) \in Seq(Still)
<1>1. ASSUME NEW f \in ChildIds PROVE Event("detached", f) \in Still
  <2>1. Event("detached", f) \in Events
    BY DetachedEvent
  <2>2. Event("detached", f).type = "detached"
    BY DEF Event
  <2> QED BY <2>1, <2>2 DEF Still
<1> QED BY <1>1, DetachedIn

\* Nothing is told of no frames.
LEMMA DetachedNone ==
  ASSUME NEW a \in Shapes PROVE Leads(Moves, a, DetachedEvents(<<>>), a)
<1> DEFINE seqs == [i \in 1 .. Len(<<>>) |-> <<Event("detached", <<>>[i])>>]
           h == [i \in {0} |-> a]
<1>1. Len(<<>>) = 0 /\ 1 .. 0 = {}
  OBVIOUS
<1>2. seqs \in [1 .. 0 -> Seq(Events)]
  BY <1>1
<1>3. seqs \in Seq(Seq(Events)) /\ Len(seqs) = 0
  <2>1. 0 \in Nat
    OBVIOUS
  <2>2. seqs \in Seq(Seq(Events))
    BY <1>2, <2>1, ListTyped
  <2> QED BY <1>1, <2>2
<1>4. h[0] = a
  OBVIOUS
<1>5. DetachedEvents(<<>>) = FromStep(1, FlattenSeq(seqs))
  BY DEF DetachedEvents, Each
<1> HIDE DEF seqs, h
<1>6. \A i \in 1 .. Len(seqs) : Leads(Moves, h[i - 1], seqs[i], h[i])
  BY <1>1, <1>3
<1>7. Leads(Moves, h[0], FlattenSeq(seqs), h[Len(seqs)])
  BY <1>3, <1>6, LeadsFlat
<1>8. Leads(Moves, a, FlattenSeq(seqs), a) /\ Leads(Moves, a, <<>>, a)
  BY <1>3, <1>4, <1>7, LeadsNothing
<1> QED BY <1>5, <1>8 DEF FromStep

\* The navigation and what its document does, in both orders.
LEMMA NewsLeads ==
  ASSUME step >= 1, NEW a \in Shapes, NEW b \in Shapes, NEW e \in Events, b = Reshape(a, e),
         NEW fresh \in Seq(Calm), NEW news \in {Before(e, fresh), After(e, fresh)}
  PROVE  Leads(Moves, a, news, b)
<1>1. Leads(Moves, a, <<e>>, b) /\ <<e>> \in Seq(Events)
  BY OneMove
<1>2. Leads(Moves, a, fresh \o <<e>>, b) /\ Leads(Moves, a, <<e>> \o fresh, b)
  BY <1>1, CalmAround
<1>3. Before(e, fresh) = <<e>> \o fresh
  <2>1. step # 0
    OBVIOUS
  <2> QED BY <2>1, Zenon DEF Before
<1>4. After(e, fresh) = fresh \o <<e>>
  BY Zenon DEF After, FromStep
<1> QED BY <1>2, <1>3, <1>4

LEMMA NewsStill ==
  ASSUME step \in Nat, NEW e \in Events, step = 0 \/ e \in Still,
         NEW fresh \in Seq(Calm), NEW news \in {Before(e, fresh), After(e, fresh)}
  PROVE  news \in Seq(Still)
<1>1. fresh \in Seq(Still)
  BY StillTyped
<1>2. CASE step = 0
  <2>1. FromStep(1, <<e>>) = <<>>
    BY <1>2 DEF FromStep
  <2>2. <<>> \in Seq(Still)
    OBVIOUS
  <2>3. fresh \o <<>> \in Seq(Still)
    BY <1>1, <2>2, StillJoin
  <2>4. Before(e, fresh) = fresh /\ After(e, fresh) = fresh \o <<>>
    BY <1>2, <2>1, Zenon DEF Before, After
  <2> QED BY <1>1, <2>3, <2>4
<1>3. CASE step # 0 /\ e \in Still
  <2>1. <<e>> \in Seq(Still)
    BY <1>3
  <2>2. FromStep(1, <<e>>) \in Seq(Still)
    BY <2>1, FromStepTyped
  <2>3. fresh \o FromStep(1, <<e>>) \in Seq(Still) /\ <<e>> \o fresh \in Seq(Still)
    BY <1>1, <2>1, <2>2, StillJoin
  <2>4. Before(e, fresh) = <<e>> \o fresh
    BY <1>3, Zenon DEF Before
  <2> QED BY <2>3, <2>4 DEF After
<1> QED BY <1>2, <1>3

LEMMA TreeShapeFacts ==
  ASSUME BrowserIInv
  PROVE  /\ TreeShape \in Shapes /\ TreeShape.main = root /\ DOMAIN TreeShape.parent = DOMAIN tree
         /\ \A f \in DOMAIN tree : TreeShape.parent[f] = tree[f].parent
BY TreeShapeTyped DEF TreeShape, BrowserIInv

\* Steps that keep the shape of the tree.
LEMMA KeepsFollows ==
  ASSUME BrowserIInv, BrowserIInv', Nested(tree, root), KeepsShape
  PROVE  Follows /\ TreeShape' = TreeShape
<1>1. /\ TreeShape \in Shapes /\ TreeShape.main = root /\ DOMAIN TreeShape.parent = DOMAIN tree
      /\ \A f \in DOMAIN tree : TreeShape.parent[f] = tree[f].parent
  BY TreeShapeFacts
<1>2. /\ Shape(root', tree') \in Shapes /\ Shape(root', tree').main = root'
      /\ DOMAIN Shape(root', tree').parent = DOMAIN tree'
      /\ \A f \in DOMAIN tree' : Shape(root', tree').parent[f] = tree'[f].parent
  BY TreeShapeTyped DEF BrowserIInv
<1>3. Shape(root', tree') = TreeShape
  <2>1. PICK b : b = Shape(root', tree')
    OBVIOUS
  <2>2. b.main = TreeShape.main /\ DOMAIN b.parent = DOMAIN TreeShape.parent
    BY <1>1, <1>2, <2>1 DEF KeepsShape
  <2>3. \A x \in DOMAIN b.parent : b.parent[x] = TreeShape.parent[x]
    BY <1>1, <1>2, <2>1 DEF KeepsShape
  <2>4. b \in Shapes
    BY <1>2, <2>1
  <2>5. b = TreeShape
    BY <1>1, <2>2, <2>3, <2>4, ShapesEqual
  <2> QED BY <2>1, <2>5
<1>4. TreeShape' = TreeShape
  BY <1>3 DEF TreeShape
<1>5. Nested(tree', root')
  BY DEF Nested, KeepsShape
<1>6. inbox' \in Seq(Calm)
  BY DEF KeepsShape
<1>7. inbox' \in Seq(Still)
  BY <1>6, StillTyped
<1>8. Leads(Moves, TreeShape, inbox', TreeShape)
  BY <1>1, <1>6, CalmLeads
<1> QED BY <1>4, <1>5, <1>7, <1>8, Zenon DEF Follows

\* The document of a frame that navigated, and what the browser tells of it.
NewDocument(f, parent) == [Document(f, parent) EXCEPT !.reported = step >= 1]
ChildNews(c) == FromStep(4, DestroyedEvents(c)) \o FreshEvents(c, NewDocument(c, tree[c].parent))
MainNews(new) == FromStep(4, <<Event("cleared", NoFrame)>>)
                   \o FreshEvents(new, NewDocument(new, NoFrame))

LEMMA NewDocumentTyped ==
  ASSUME Room, NEW f \in FrameIds, NEW parent \in FrameIds \cup {NoFrame}
  PROVE  NewDocument(f, parent) \in Documents /\ NewDocument(f, parent).parent = parent
<1>1. Document(f, parent) \in Documents /\ Document(f, parent).parent = parent
  BY DocumentTyped
<1> QED BY <1>1, ReportedTyped DEF NewDocument

\* What a frame attached makes of the tree and of its shape.
LEMMA AttachedShapes ==
  ASSUME BrowserIInv, BrowserIInv', Nested(tree, root), Room, NEW c \in ChildIds, NEW p \in FrameIds,
         ChildAttached(c, p)
  PROVE  /\ c \in FrameIds /\ c \notin DOMAIN tree /\ Document(c, p) \in Documents
         /\ tree' = [f \in DOMAIN tree \cup {c} |-> IF f = c THEN Document(c, p) ELSE tree[f]]
         /\ inbox' = FromStep(1, <<Reported("attached", c, p)>>) \o FreshEvents(c, Document(c, p))
         /\ Reported("attached", c, p) \in Events
         /\ Nested(tree', root') /\ TreeShape' \in Shapes
         /\ Reshape(TreeShape, Reported("attached", c, p)) = TreeShape'
<1> DEFINE e == Reported("attached", c, p)
<1>1. c \in FrameIds /\ Rooted(c, p) /\ c \notin DOMAIN tree /\ p \in {root} \cup Kids(root)
  BY ManagerAssumption DEF Rooted, FrameIds, ChildAttached
<1>2. PICK doc : doc = Document(c, p)
  OBVIOUS
<1>3. doc \in Documents /\ doc.parent = p
  BY <1>1, <1>2, DocumentTyped
<1>4. PICK calm \in Seq(Calm) : calm = FreshEvents(c, doc)
  BY <1>1, <1>3, DocumentEvents
<1>5. e \in Events
  BY <1>1, ReportedEvent
<1>6. inbox' = FromStep(1, <<e>>) \o calm
  BY <1>2, <1>4 DEF ChildAttached, Report
<1>7. root' = root /\ DOMAIN tree' = DOMAIN tree \cup {c} /\ tree'[c].parent = p
      /\ \A f \in DOMAIN tree : tree'[f].parent = tree[f].parent
  BY <1>1, <1>2, <1>3 DEF ChildAttached
<1>8. p \in DOMAIN tree /\ (p # root => tree[p].parent = root)
  BY <1>1 DEF Kids, Nested
<1>9. Nested(tree', root')
  <2>1. root \in DOMAIN tree /\ root \in MainIds /\ c # root
    BY <1>1 DEF Nested
  <2>2. ASSUME NEW f \in DOMAIN tree \ {root}
        PROVE  /\ f \in ChildIds
               /\ \/ tree'[f].parent = root
                  \/ tree'[f].parent \in DOMAIN tree' \ {root} /\ tree'[tree'[f].parent].parent = root
    BY <1>7 DEF Nested
  <2>3. \/ p = root
        \/ p \in DOMAIN tree' \ {root} /\ tree'[p].parent = root
    BY <1>7, <1>8
  <2> QED BY <1>7, <2>1, <2>2, <2>3 DEF Nested
<1>10. /\ TreeShape \in Shapes /\ TreeShape.main = root /\ DOMAIN TreeShape.parent = DOMAIN tree
       /\ \A f \in DOMAIN tree : TreeShape.parent[f] = tree[f].parent
  BY TreeShapeFacts
<1>11. Grown(TreeShape, c, p) = TreeShape'
  <2>1. PICK b : b = Grown(TreeShape, c, p)
    OBVIOUS
  <2>2. /\ b \in Shapes /\ b.main = TreeShape.main
        /\ DOMAIN b.parent = DOMAIN TreeShape.parent \cup {c} /\ b.parent[c] = p
        /\ \A x \in DOMAIN TreeShape.parent \ {c} : b.parent[x] = TreeShape.parent[x]
    BY <1>1, <1>10, <2>1, GrownTyped
  <2>3. PICK d : d = Shape(root', tree')
    OBVIOUS
  <2>4. /\ d \in Shapes /\ d.main = root' /\ DOMAIN d.parent = DOMAIN tree'
        /\ \A f \in DOMAIN tree' : d.parent[f] = tree'[f].parent
    BY <2>3, TreeShapeTyped DEF BrowserIInv
  <2>5. b.main = d.main /\ DOMAIN b.parent = DOMAIN d.parent
    BY <1>7, <1>10, <2>2, <2>4
  <2>6. \A x \in DOMAIN b.parent : b.parent[x] = d.parent[x]
    BY <1>1, <1>7, <1>10, <2>2, <2>4
  <2>7. b = d
    BY <2>2, <2>4, <2>5, <2>6, ShapesEqual
  <2> QED BY <2>1, <2>3, <2>7 DEF TreeShape
<1>12. Reshape(TreeShape, e) = Grown(TreeShape, c, p)
  <2>1. Reshape(TreeShape, e) =
          IF c \notin DOMAIN TreeShape.parent /\ p \in DOMAIN TreeShape.parent
          THEN Grown(TreeShape, c, p) ELSE TreeShape
    BY ReportedReshapes, Zenon
  <2> QED BY <1>1, <1>8, <1>10, <2>1
<1>13. Grown(TreeShape, c, p) \in Shapes
  BY <1>1, <1>10, GrownTyped
<1>14. inbox' = FromStep(1, <<e>>) \o FreshEvents(c, doc)
  BY <1>4, <1>6
<1>15. tree' = [f \in DOMAIN tree \cup {c} |-> IF f = c THEN doc ELSE tree[f]]
  BY <1>2 DEF ChildAttached
<1> HIDE DEF e
<1> QED BY <1>1, <1>2, <1>3, <1>5, <1>9, <1>11, <1>12, <1>13, <1>14, <1>15 DEF e

LEMMA AttachedFollows ==
  ASSUME BrowserIInv, BrowserIInv', Nested(tree, root), Room, NEW c \in ChildIds, NEW p \in FrameIds,
         ChildAttached(c, p)
  PROVE  Follows /\ inbox' \in Seq(Still)
<1> DEFINE e == Reported("attached", c, p)
<1>1. PICK doc : doc = Document(c, p)
  OBVIOUS
<1>2. /\ c \in FrameIds /\ doc \in Documents /\ e \in Events
      /\ inbox' = FromStep(1, <<e>>) \o FreshEvents(c, doc)
      /\ Nested(tree', root') /\ TreeShape' \in Shapes
      /\ Reshape(TreeShape, e) = TreeShape'
  BY <1>1, AttachedShapes
<1>3. PICK calm \in Seq(Calm) : calm = FreshEvents(c, doc)
  BY <1>2, DocumentEvents
<1>4. PICK b \in Shapes : b = TreeShape'
  BY <1>2
<1>5. TreeShape \in Shapes
  BY TreeShapeFacts
<1>6. e.type = "attached"
  BY DEF Reported, Event
<1> HIDE DEF e
<1>7. ASSUME step >= 1 PROVE Leads(Moves, TreeShape, inbox', b)
  <2>1. Leads(Moves, TreeShape, <<e>>, b) /\ <<e>> \in Seq(Events)
    BY <1>2, <1>4, <1>5, OneMove
  <2>2. Leads(Moves, TreeShape, <<e>> \o calm, b)
    BY <1>4, <1>5, <2>1, CalmAround
  <2>3. FromStep(1, <<e>>) = <<e>>
    BY <1>7, Zenon DEF FromStep
  <2> QED BY <1>2, <1>3, <2>2, <2>3, Zenon
<1>8. inbox' \in Seq(Still)
  <2>1. e \in Still
    BY <1>2, <1>6 DEF Still
  <2>2. <<e>> \in Seq(Still)
    BY <2>1
  <2>3. FromStep(1, <<e>>) \in Seq(Still) /\ calm \in Seq(Still)
    BY <2>2, FromStepTyped, StillTyped
  <2> QED BY <1>2, <1>3, <2>3, StillJoin
<1> QED BY <1>2, <1>4, <1>7, <1>8, Zenon DEF Follows

\* The tree without some frames and all below them.
LEMMA LessTree ==
  ASSUME BrowserIInv, BrowserIInv', Nested(tree, root), NEW S \in SUBSET (DOMAIN tree \ {root}),
         \A y \in DOMAIN tree : tree[y].parent \in S => y \in S,
         root' = root, DOMAIN tree' = DOMAIN tree \ S,
         \A f \in DOMAIN tree' : tree'[f].parent = tree[f].parent
  PROVE  Nested(tree', root') /\ TreeShape' = Pruned(TreeShape, S) /\ Pruned(TreeShape, S) \in Shapes
<1>1. /\ TreeShape \in Shapes /\ TreeShape.main = root /\ DOMAIN TreeShape.parent = DOMAIN tree
      /\ \A f \in DOMAIN tree : TreeShape.parent[f] = tree[f].parent
  BY TreeShapeFacts
<1>2. Nested(tree', root')
  <2>1. ASSUME NEW f \in DOMAIN tree' \ {root}
        PROVE  /\ f \in ChildIds
               /\ \/ tree'[f].parent = root
                  \/ tree'[f].parent \in DOMAIN tree' \ {root} /\ tree'[tree'[f].parent].parent = root
    <3>1. f \in DOMAIN tree \ {root} /\ f \notin S /\ tree'[f].parent = tree[f].parent
      OBVIOUS
    <3>2. f \in ChildIds /\ tree[f].parent \notin S
      BY <3>1 DEF Nested
    <3>3. CASE tree[f].parent = root
      BY <3>1, <3>2, <3>3
    <3>4. CASE tree[f].parent \in DOMAIN tree \ {root} /\ tree[tree[f].parent].parent = root
      <4>1. tree[f].parent \in DOMAIN tree'
        BY <3>2, <3>4
      <4> QED BY <3>1, <3>2, <3>4, <4>1
    <3> QED BY <3>1, <3>3, <3>4 DEF Nested
  <2>2. root \in DOMAIN tree' /\ root \in MainIds
    BY DEF Nested
  <2> QED BY <2>1, <2>2 DEF Nested
<1>3. PICK b : b = Pruned(TreeShape, S)
  OBVIOUS
<1>4. /\ b \in Shapes /\ b.main = TreeShape.main /\ DOMAIN b.parent = DOMAIN TreeShape.parent \ S
      /\ \A x \in DOMAIN TreeShape.parent \ S : b.parent[x] = TreeShape.parent[x]
  BY <1>1, <1>3, PrunedTyped
<1>5. PICK d : d = Shape(root', tree')
  OBVIOUS
<1>6. /\ d \in Shapes /\ d.main = root' /\ DOMAIN d.parent = DOMAIN tree'
      /\ \A f \in DOMAIN tree' : d.parent[f] = tree'[f].parent
  BY <1>5, TreeShapeTyped DEF BrowserIInv
<1>7. b.main = d.main /\ DOMAIN b.parent = DOMAIN d.parent
  BY <1>1, <1>4, <1>6
<1>8. \A x \in DOMAIN b.parent : b.parent[x] = d.parent[x]
  BY <1>1, <1>4, <1>6
<1>9. b \in Shapes /\ d \in Shapes
  BY <1>4, <1>6
<1>10. b = d
  BY <1>7, <1>8, <1>9, ShapesEqual
<1> QED BY <1>2, <1>3, <1>4, <1>5, <1>10 DEF TreeShape

\* What goes with a frame below the main frame.
LEMMA BelowGoes ==
  ASSUME BrowserIInv, Nested(tree, root), NEW c \in ChildIds \cap DOMAIN tree
  PROVE  /\ c # root /\ c \notin Below(c) /\ From(TreeShape.parent, c) = {c} \cup Below(c)
         /\ {c} \cup Below(c) \in SUBSET (DOMAIN tree \ {root})
         /\ Below(c) \in SUBSET (DOMAIN tree \ {root})
         /\ \A y \in DOMAIN tree : tree[y].parent \in {c} \cup Below(c) => y \in Below(c)
<1>1. c # root
  BY ManagerAssumption DEF Nested
<1>2. /\ From(TreeShape.parent, c) = {c} \cup Below(c) /\ c \notin Below(c)
      /\ Below(c) \subseteq DOMAIN tree \ {root}
      /\ \A y \in DOMAIN tree : tree[y].parent \in {c} \cup Below(c) => y \in Below(c)
  BY FromIsBelow
<1> QED BY <1>1, <1>2

\* One event that a frame is detached takes those below it as well.
LEMMA DetachOne ==
  ASSUME BrowserIInv, Nested(tree, root), NEW c \in ChildIds \cap DOMAIN tree, step >= 1
  PROVE  Leads(Moves, TreeShape, DetachedEvents(<<c>>), Pruned(TreeShape, {c} \cup Below(c)))
<1>1. PICK a, b, e : /\ a = TreeShape /\ b = Pruned(TreeShape, {c} \cup Below(c))
                     /\ e = Event("detached", c)
  OBVIOUS
<1>2. a \in Shapes /\ DOMAIN a.parent = DOMAIN tree
  BY <1>1, TreeShapeFacts
<1>3. b \in Shapes
  BY <1>1, <1>2, PrunedTyped
<1>4. e \in Events /\ e.type = "detached" /\ e.frame = c
  BY <1>1, DetachedEvent DEF Event
<1>5. Reshape(a, e) = b
  <2>1. e.type = "detached" =>
          Reshape(a, e) = IF e.frame \in DOMAIN a.parent
                          THEN Reparent(a, Cut(a.parent, From(a.parent, e.frame))) ELSE a
    BY ReshapeCases, Zenon
  <2>2. From(a.parent, c) = {c} \cup Below(c)
    BY <1>1, BelowGoes
  <2> QED BY <1>1, <1>2, <1>4, <2>1, <2>2 DEF Pruned
<1>6. Leads(Moves, a, <<e>>, b)
  BY <1>2, <1>3, <1>4, <1>5, OneMove
<1> DEFINE seqs == [i \in 1 .. Len(<<c>>) |-> <<Event("detached", <<c>>[i])>>]
           h == [i \in {0, 1} |-> IF i = 0 THEN a ELSE b]
<1>7. Len(<<c>>) = 1 /\ <<c>>[1] = c /\ 1 .. 1 = {1}
  OBVIOUS
<1>8. seqs = [i \in 1 .. 1 |-> <<e>>]
  BY <1>1, <1>7
<1>9. <<e>> \in Seq(Events) /\ 1 \in Nat
  BY <1>4
<1>10. DetachedEvents(<<c>>) = FlattenSeq(seqs)
  BY DEF DetachedEvents, Each, FromStep
<1> HIDE DEF seqs
<1>11. seqs \in [1 .. 1 -> Seq(Events)] /\ Len(seqs) = 1 /\ seqs[1] = <<e>>
  BY <1>8, <1>9
<1>12. seqs \in Seq(Seq(Events))
  BY <1>9, <1>11, ListTyped
<1>13. h[0] = a /\ h[1] = b
  OBVIOUS
<1> HIDE DEF h
<1>14. \A i \in 1 .. Len(seqs) : Leads(Moves, h[i - 1], seqs[i], h[i])
  <2>1. ASSUME NEW i \in 1 .. Len(seqs) PROVE i = 1 /\ i - 1 = 0
    BY <1>11
  <2> QED BY <1>6, <1>11, <1>13, <2>1
<1>15. Leads(Moves, h[0], FlattenSeq(seqs), h[Len(seqs)])
  BY <1>12, <1>14, LeadsFlat
<1> QED BY <1>1, <1>10, <1>11, <1>13, <1>15

\* What a frame detached makes of the tree and of its shape.
LEMMA DetachedShapes ==
  ASSUME BrowserIInv, BrowserIInv', Nested(tree, root), NEW c \in ChildIds, ChildDetached(c)
  PROVE  /\ {c} \cup Below(c) \in SUBSET (DOMAIN tree \cap ChildIds)
         /\ tree' = [f \in DOMAIN tree \ ({c} \cup Below(c)) |-> tree[f]] /\ root' = root
         /\ Nested(tree', root') /\ TreeShape' \in Shapes
         /\ \E s \in ParentsFirst({c} \cup Below(c)) :
              \E told \in {<<c>>, Reverse(s)} :
                /\ inbox' \in GoneEvents(s, told) /\ told \in Seq(ChildIds)
                /\ step >= 1 => Leads(Moves, TreeShape, DetachedEvents(told), TreeShape')
<1> DEFINE S == {c} \cup Below(c)
<1>1. c \in ChildIds \cap DOMAIN tree
  BY DEF ChildDetached
<1>2. /\ c \notin Below(c) /\ S \in SUBSET (DOMAIN tree \ {root})
      /\ \A y \in DOMAIN tree : tree[y].parent \in S => y \in S
  BY <1>1, BelowGoes
<1>3. root' = root /\ DOMAIN tree' = DOMAIN tree \ S
      /\ \A f \in DOMAIN tree' : tree'[f].parent = tree[f].parent
  BY DEF ChildDetached
<1>4. PICK s \in ParentsFirst(S) : \E told \in {<<c>>, Reverse(s)} : inbox' \in GoneEvents(s, told)
  BY DEF ChildDetached, Report
<1>5. PICK told \in {<<c>>, Reverse(s)} : inbox' \in GoneEvents(s, told)
  BY <1>4
<1>6. S \in SUBSET (DOMAIN tree \cap ChildIds)
  BY <1>2 DEF Nested
<1>7. step >= 1 =>
        Leads(Moves, TreeShape, DetachedEvents(<<c>>), Pruned(TreeShape, S))
  BY <1>1, DetachOne
<1>8. tree' = [f \in DOMAIN tree \ S |-> tree[f]]
  BY DEF ChildDetached
<1> HIDE DEF S
<1>9. Nested(tree', root') /\ TreeShape' = Pruned(TreeShape, S) /\ Pruned(TreeShape, S) \in Shapes
  BY <1>2, <1>3, LessTree
<1>10. step >= 1 => Leads(Moves, TreeShape, DetachedEvents(Reverse(s)), Pruned(TreeShape, S))
  BY <1>2, DetachLeads
<1>11. step >= 1 => Leads(Moves, TreeShape, DetachedEvents(told), Pruned(TreeShape, S))
  BY <1>5, <1>7, <1>10
<1>12. told \in Seq(ChildIds)
  <2>1. <<c>> \in Seq(ChildIds)
    OBVIOUS
  <2>2. Reverse(s) \in Seq(ChildIds)
    BY <1>6, GoneBatch
  <2> QED BY <1>5, <2>1, <2>2
<1>13. /\ S \in SUBSET (DOMAIN tree \cap ChildIds)
       /\ tree' = [f \in DOMAIN tree \ S |-> tree[f]] /\ root' = root
       /\ Nested(tree', root') /\ TreeShape' \in Shapes
  BY <1>3, <1>6, <1>8, <1>9
<1>14. \E r \in ParentsFirst(S) : \E t \in {<<c>>, Reverse(r)} :
         /\ inbox' \in GoneEvents(r, t) /\ t \in Seq(ChildIds)
         /\ step >= 1 => Leads(Moves, TreeShape, DetachedEvents(t), TreeShape')
  BY <1>5, <1>9, <1>11, <1>12
<1> QED BY <1>13, <1>14 DEF S

LEMMA DetachedFollows ==
  ASSUME BrowserIInv, BrowserIInv', Nested(tree, root), NEW c \in ChildIds, ChildDetached(c)
  PROVE  Follows /\ inbox' \in Seq(Still)
<1> DEFINE S == {c} \cup Below(c)
<1>1. /\ S \in SUBSET (DOMAIN tree \cap ChildIds)
      /\ Nested(tree', root') /\ TreeShape' \in Shapes
      /\ \E s \in ParentsFirst(S) : \E told \in {<<c>>, Reverse(s)} :
           /\ inbox' \in GoneEvents(s, told) /\ told \in Seq(ChildIds)
           /\ step >= 1 => Leads(Moves, TreeShape, DetachedEvents(told), TreeShape')
  BY DetachedShapes
<1> HIDE DEF S
<1>2. PICK s \in ParentsFirst(S) : \E told \in {<<c>>, Reverse(s)} :
        /\ inbox' \in GoneEvents(s, told) /\ told \in Seq(ChildIds)
        /\ step >= 1 => Leads(Moves, TreeShape, DetachedEvents(told), TreeShape')
  BY <1>1
<1>3. PICK told \in Seq(ChildIds) :
        /\ inbox' \in GoneEvents(s, told)
        /\ step >= 1 => Leads(Moves, TreeShape, DetachedEvents(told), TreeShape')
  BY <1>2
<1>4. PICK b \in Shapes : b = TreeShape'
  BY <1>1
<1>5. PICK calm \in Seq(Calm) : \/ inbox' = DetachedEvents(told) \o calm
                               \/ inbox' = calm \o DetachedEvents(told)
  BY <1>1, <1>3, GoneBatch, MuteTyped
<1>6. DetachedEvents(told) \in Seq(Events)
  BY <1>1, <1>3, GoneBatch
<1>7. TreeShape \in Shapes
  BY TreeShapeFacts
<1>8. step >= 1 => Leads(Moves, TreeShape, inbox', b)
  <2>1. step >= 1 =>
          /\ Leads(Moves, TreeShape, calm \o DetachedEvents(told), b)
          /\ Leads(Moves, TreeShape, DetachedEvents(told) \o calm, b)
    BY <1>3, <1>4, <1>6, <1>7, CalmAround
  <2> QED BY <1>5, <2>1, Zenon
<1>9. inbox' \in Seq(Still)
  <2>1. DetachedEvents(told) \in Seq(Still) /\ calm \in Seq(Still)
    BY <1>3, DetachedStill, StillTyped
  <2>2. /\ DetachedEvents(told) \o calm \in Seq(Still)
        /\ calm \o DetachedEvents(told) \in Seq(Still)
    BY <2>1, StillJoin
  <2> QED BY <1>5, <2>2
<1> QED BY <1>1, <1>4, <1>8, <1>9, Zenon DEF Follows

\* The events of a new document, after those of the frames told of.
ChildBatch(c, e, s, told) ==
  \E gone \in GoneEvents(s, told), news \in {Before(e, ChildNews(c)), After(e, ChildNews(c))} :
    inbox' = gone \o news
MainBatch(new, e, told) ==
  \E news \in {Before(e, MainNews(new))}
               \cup (IF new = root THEN {After(e, MainNews(new))} ELSE {}) :
    inbox' = DetachedEvents(told) \o news

\* Those told of make one of the shapes X of the tree.
Detaches(told, X) ==
  /\ told \in Seq(ChildIds)
  /\ step >= 1 => \E x \in X : Leads(Moves, TreeShape, DetachedEvents(told), x)

\* What a new document below the main frame makes of the tree and of its shape.
CommittedShape(c, S, document, e) ==
  /\ c \in DOMAIN tree /\ c \in FrameIds /\ c \notin S /\ S \in SUBSET (DOMAIN tree \cap ChildIds)
  /\ tree[c].parent # NoFrame /\ document \in Documents /\ e \in Events
  /\ tree' = [f \in DOMAIN tree \ S |-> IF f = c THEN document ELSE tree[f]] /\ root' = root
  /\ Nested(tree', root') /\ TreeShape' \in Shapes
  /\ Reshape(TreeShape, e) = TreeShape' /\ Reshape(TreeShape', e) = TreeShape'
  /\ \E s \in ParentsFirst(S) : \E told \in {Reverse(s), <<>>} :
       ChildBatch(c, e, s, told) /\ Detaches(told, {TreeShape, TreeShape'})
LEMMA CommittedShapes ==
  ASSUME BrowserIInv, BrowserIInv', Nested(tree, root), Room, NEW c \in ChildIds, ChildCommitted(c),
         NEW S, S = Below(c), NEW document, document = NewDocument(c, tree[c].parent),
         NEW e, e = Reported("navigated", c, tree[c].parent)
  PROVE  CommittedShape(c, S, document, e)
<1>1. c \in ChildIds \cap DOMAIN tree /\ c \in FrameIds
  BY DEF ChildCommitted, FrameIds
<1>2. /\ c # root /\ c \notin S /\ S \in SUBSET (DOMAIN tree \ {root})
      /\ From(TreeShape.parent, c) = {c} \cup S
      /\ \A y \in DOMAIN tree : tree[y].parent \in {c} \cup S => y \in S
  BY <1>1, BelowGoes
<1>3. /\ tree[c].parent \in FrameIds \cup {NoFrame} /\ Rooted(c, tree[c].parent)
      /\ tree[c].parent # NoFrame
  <2>1. tree[c].parent # NoFrame
    BY <1>1, <1>2, NestedFacts
  <2> QED BY <1>1, <2>1 DEF BrowserIInv, Tree, Documents
<1>4. document \in Documents /\ document.parent = tree[c].parent
  BY <1>1, <1>3, NewDocumentTyped
<1>5. PICK s \in ParentsFirst(S) :
        \E gone \in GoneEvents(s, Reverse(s)) \cup GoneEvents(s, <<>>),
           news \in {Before(e, ChildNews(c)), After(e, ChildNews(c))} : inbox' = gone \o news
  BY DEF ChildCommitted, Report, ChildNews, NewDocument
<1>6. tree' = [f \in DOMAIN tree \ S |-> IF f = c THEN document ELSE tree[f]] /\ root' = root
  BY DEF ChildCommitted, NewDocument
<1>7. DOMAIN tree' = DOMAIN tree \ S /\ \A f \in DOMAIN tree' : tree'[f].parent = tree[f].parent
  BY <1>4, <1>6
<1>8. e \in Events
  BY <1>1, <1>3, ReportedEvent
<1>9. S \in SUBSET (DOMAIN tree \cap ChildIds)
  BY <1>2 DEF Nested
<1>10. Nested(tree', root') /\ TreeShape' = Pruned(TreeShape, S) /\ Pruned(TreeShape, S) \in Shapes
  BY <1>2, <1>6, <1>7, LessTree
<1>11. PICK b : b = Pruned(TreeShape, S)
  OBVIOUS
<1>12. /\ TreeShape \in Shapes /\ DOMAIN TreeShape.parent = DOMAIN tree
       /\ \A f \in DOMAIN tree : TreeShape.parent[f] = tree[f].parent
  BY TreeShapeFacts
<1>13. /\ b \in Shapes /\ DOMAIN b.parent = DOMAIN tree \ S
       /\ \A x \in DOMAIN tree \ S : b.parent[x] = tree[x].parent
  <2>1. /\ b \in Shapes /\ DOMAIN b.parent = DOMAIN TreeShape.parent \ S
        /\ \A x \in DOMAIN TreeShape.parent \ S : b.parent[x] = TreeShape.parent[x]
    BY <1>11, <1>12, PrunedTyped
  <2> QED BY <1>12, <2>1
<1>14. Reshape(TreeShape, e) = b /\ Reshape(b, e) = b
  <2>1. ASSUME NEW x \in {TreeShape, b}
        PROVE  Reshape(x, e) = IF c \in DOMAIN x.parent THEN Pruned(x, From(x.parent, c) \ {c}) ELSE x
    <3>1. tree[c].parent # NoFrame =>
            Reshape(x, Reported("navigated", c, tree[c].parent)) =
              IF c \in DOMAIN x.parent THEN Pruned(x, From(x.parent, c) \ {c}) ELSE x
      BY ReportedReshapes, Zenon
    <3> QED BY <1>3, <3>1
  <2>2. From(TreeShape.parent, c) \ {c} = S
    BY <1>2
  <2>3. Reshape(TreeShape, e) = b
    BY <1>1, <1>11, <1>12, <2>1, <2>2
  <2>4. c \in DOMAIN b.parent
    BY <1>1, <1>2, <1>13
  <2>5. \A y \in DOMAIN b.parent : b.parent[y] # c
    BY <1>2, <1>13
  <2>6. From(b.parent, c) = {c}
    BY <2>4, <2>5, FromLeaf
  <2>7. From(b.parent, c) \ {c} = {}
    BY <2>6
  <2>8. Pruned(b, {}) = b
    BY <1>13, CutNothing
  <2>9. Reshape(b, e) = b
    BY <2>1, <2>4, <2>7, <2>8
  <2> QED BY <2>3, <2>9
<1>15. ASSUME NEW told \in {Reverse(s), <<>>} PROVE Detaches(told, {TreeShape, b})
  <2>1. told \in Seq(ChildIds)
    BY <1>9, GoneBatch
  <2>2. Leads(Moves, TreeShape, DetachedEvents(<<>>), TreeShape)
    BY <1>12, DetachedNone
  <2>3. \A y \in DOMAIN tree : tree[y].parent \in S => y \in S
    BY <1>2
  <2>4. step >= 1 => Leads(Moves, TreeShape, DetachedEvents(Reverse(s)), Pruned(TreeShape, S))
    BY <1>2, <2>3, DetachLeads
  <2> QED BY <1>11, <2>1, <2>2, <2>4 DEF Detaches
<1>16. PICK told \in {Reverse(s), <<>>} : ChildBatch(c, e, s, told)
  BY <1>5 DEF ChildBatch
<1>17. TreeShape' = b
  BY <1>10, <1>11
<1>18. \E r \in ParentsFirst(S) : \E t \in {Reverse(r), <<>>} :
         ChildBatch(c, e, r, t) /\ Detaches(t, {TreeShape, TreeShape'})
  BY <1>15, <1>16, <1>17
<1> QED BY <1>1, <1>2, <1>3, <1>4, <1>6, <1>8, <1>9, <1>10, <1>13, <1>14, <1>17, <1>18
     DEF CommittedShape

LEMMA ChildNewsTyped ==
  ASSUME BrowserIInv, NEW c \in DOMAIN tree, NewDocument(c, tree[c].parent) \in Documents
  PROVE  ChildNews(c) \in Seq(Calm)
<1>1. c \in FrameIds
  BY DEF BrowserIInv, Tree
<1>2. DestroyedEvents(c) \in Seq(Calm)
  BY DestroyedTyped, MuteTyped
<1>3. FromStep(4, DestroyedEvents(c)) \in Seq(Calm)
  BY <1>2, FromStepTyped
<1>4. FreshEvents(c, NewDocument(c, tree[c].parent)) \in Seq(Calm)
  BY <1>1, DocumentEvents
<1> QED BY <1>3, <1>4, ConcatProperties DEF ChildNews

LEMMA CommittedFollows ==
  ASSUME BrowserIInv, BrowserIInv', Nested(tree, root), Room, NEW c \in ChildIds, ChildCommitted(c)
  PROVE  Follows /\ inbox' \in Seq(Still)
<1>1. PICK S, document, e :
        /\ S = Below(c) /\ document = NewDocument(c, tree[c].parent)
        /\ e = Reported("navigated", c, tree[c].parent)
  OBVIOUS
<1>2. CommittedShape(c, S, document, e)
  BY <1>1, CommittedShapes, Zenon
<1> USE DEF CommittedShape
<1>3. PICK fresh \in Seq(Calm) : fresh = ChildNews(c)
  BY <1>1, <1>2, ChildNewsTyped
<1>4. e \in Still
  <2>1. e.parent = tree[c].parent
    BY <1>1 DEF Reported, Event
  <2> QED BY <1>2, <2>1 DEF Still
<1>5. PICK b \in Shapes : b = TreeShape'
  BY <1>2
<1>6. TreeShape \in Shapes
  BY TreeShapeFacts
<1>7. PICK s \in ParentsFirst(S) : \E told \in {Reverse(s), <<>>} :
        ChildBatch(c, e, s, told) /\ Detaches(told, {TreeShape, TreeShape'})
  BY <1>2
<1>8. PICK told \in Seq(ChildIds) :
        /\ \E gone \in GoneEvents(s, told), news \in {Before(e, fresh), After(e, fresh)} :
              inbox' = gone \o news
        /\ step >= 1 => \E x \in {TreeShape, TreeShape'} :
                          Leads(Moves, TreeShape, DetachedEvents(told), x)
  BY <1>3, <1>7 DEF ChildBatch, Detaches
<1>9. PICK gone \in GoneEvents(s, told), news \in {Before(e, fresh), After(e, fresh)} :
        inbox' = gone \o news
  BY <1>8
<1>10. PICK calm \in Seq(Calm) : \/ gone = DetachedEvents(told) \o calm
                                \/ gone = calm \o DetachedEvents(told)
  BY <1>2, <1>8, GoneBatch, MuteTyped
<1>11. DetachedEvents(told) \in Seq(Events) /\ gone \in Seq(Events)
  BY <1>2, <1>8, GoneBatch
<1>12. ASSUME step >= 1 PROVE Leads(Moves, TreeShape, inbox', b)
  <2>1. PICK x \in {TreeShape, b} : Leads(Moves, TreeShape, DetachedEvents(told), x)
    BY <1>5, <1>8, <1>12
  <2>2. x \in Shapes
    BY <1>5, <1>6
  <2>3. /\ Leads(Moves, TreeShape, calm \o DetachedEvents(told), x)
        /\ Leads(Moves, TreeShape, DetachedEvents(told) \o calm, x)
    BY <1>6, <1>11, <2>1, <2>2, CalmAround
  <2>4. Leads(Moves, TreeShape, gone, x)
    BY <1>10, <2>3, Zenon
  <2>5. b = Reshape(x, e)
    BY <1>2, <1>5
  <2>6. Leads(Moves, x, news, b)
    BY <1>2, <1>5, <1>12, <2>2, <2>5, NewsLeads
  <2>7. news \in Seq(Events)
    <3>1. <<e>> \in Seq(Events) /\ fresh \in Seq(Events)
      BY <1>2, CalmTyped
    <3> QED BY <3>1, AroundTyped
  <2>8. Leads(Moves, TreeShape, gone \o news, b)
    BY <1>11, <2>4, <2>6, <2>7, LeadsFurther
  <2> QED BY <1>9, <2>8, Zenon
<1>13. inbox' \in Seq(Still)
  <2>1. DetachedEvents(told) \in Seq(Still) /\ calm \in Seq(Still)
    BY <1>8, DetachedStill, StillTyped
  <2>2. /\ DetachedEvents(told) \o calm \in Seq(Still)
        /\ calm \o DetachedEvents(told) \in Seq(Still)
    BY <2>1, StillJoin
  <2>3. gone \in Seq(Still)
    BY <1>10, <2>2
  <2>4. step \in Nat
    BY DEF BrowserIInv
  <2>5. news \in Seq(Still)
    BY <1>2, <1>4, <2>4, NewsStill
  <2> QED BY <1>9, <2>3, <2>5, StillJoin
<1> QED BY <1>2, <1>5, <1>12, <1>13, Zenon DEF Follows

\* What a new document of the main frame makes of the tree and of its shape.
MainShape(new, S, document, e) ==
  /\ new \in FrameIds /\ S \in SUBSET (DOMAIN tree \cap ChildIds)
  /\ S \in SUBSET (DOMAIN tree \ {root})
  /\ document \in Documents /\ e \in Events
  /\ tree' = [f \in {new} |-> document] /\ root' = new
  /\ Nested(tree', root') /\ TreeShape' \in Shapes
  /\ \A x : Reshape(x, e) = TreeShape'
  /\ \E s \in ParentsFirst(S) : \E told \in {<<>>, Reverse(s)} :
       MainBatch(new, e, told) /\ Detaches(told, {TreeShape, Pruned(TreeShape, S)})
LEMMA MainShapes ==
  ASSUME BrowserIInv, BrowserIInv', Nested(tree, root), Room, NEW new \in MainIds, MainCommitted(new),
         NEW S, S = Below(root), NEW document, document = NewDocument(new, NoFrame),
         NEW e, e = Reported("navigated", new, NoFrame)
  PROVE  MainShape(new, S, document, e)
<1>1. new \in FrameIds /\ Rooted(new, NoFrame) /\ root \in DOMAIN tree /\ root \in FrameIds
  BY DEF FrameIds, Rooted, Nested, BrowserIInv
<1>2. /\ S \in SUBSET (DOMAIN tree \ {root})
      /\ \A y \in DOMAIN tree : tree[y].parent \in S => y \in S
  BY <1>1, FromIsBelow
<1>3. document \in Documents /\ document.parent = NoFrame
  BY <1>1, NewDocumentTyped
<1>4. PICK s \in ParentsFirst(S) :
        \E news \in {Before(e, MainNews(new))}
                       \cup (IF new = root THEN {After(e, MainNews(new))} ELSE {}),
           told \in {<<>>, Reverse(s)} :
          inbox' = DetachedEvents(told) \o news
  BY DEF MainCommitted, Report, MainNews, NewDocument
<1>5. tree' = [f \in {new} |-> document] /\ root' = new
  BY DEF MainCommitted, NewDocument
<1>6. DOMAIN tree' = {new} /\ tree'[new].parent = NoFrame
  BY <1>3, <1>5
<1>7. e \in Events
  BY <1>1, ReportedEvent
<1>8. S \in SUBSET (DOMAIN tree \cap ChildIds)
  BY <1>2 DEF Nested
<1>9. Nested(tree', root')
  BY <1>5, <1>6 DEF Nested
<1>10. MainAlone(new) = TreeShape' /\ MainAlone(new) \in Shapes
  <2>1. PICK b, d : b = MainAlone(new) /\ d = Shape(root', tree')
    OBVIOUS
  <2>2. b \in Shapes /\ b.main = new /\ DOMAIN b.parent = {new} /\ b.parent[new] = NoFrame
    BY <2>1, AloneTyped
  <2>3. /\ d \in Shapes /\ d.main = root' /\ DOMAIN d.parent = DOMAIN tree'
        /\ \A f \in DOMAIN tree' : d.parent[f] = tree'[f].parent
    BY <2>1, TreeShapeTyped DEF BrowserIInv
  <2>4. b.main = d.main /\ DOMAIN b.parent = DOMAIN d.parent
        /\ \A x \in DOMAIN b.parent : b.parent[x] = d.parent[x]
    BY <1>5, <1>6, <2>2, <2>3
  <2>5. b \in Shapes /\ d \in Shapes
    BY <2>2, <2>3
  <2>6. b = d
    BY <2>4, <2>5, ShapesEqual
  <2> QED BY <2>1, <2>2, <2>6 DEF TreeShape
<1>11. ASSUME NEW x PROVE Reshape(x, e) = MainAlone(new)
  <2>1. e.type = "navigated" /\ e.parent = NoFrame /\ e.frame = new
    BY DEF Reported, Event
  <2>2. e.type = "navigated" /\ e.parent = NoFrame => Reshape(x, e) = MainAlone(e.frame)
    BY ReshapeCases, Zenon
  <2> QED BY <2>1, <2>2
<1>12. PICK told \in {<<>>, Reverse(s)} : MainBatch(new, e, told)
  BY <1>4 DEF MainBatch
<1>13. told \in Seq(ChildIds)
  BY <1>8, GoneBatch
<1>14. Detaches(told, {TreeShape, Pruned(TreeShape, S)})
  <2>1. TreeShape \in Shapes
    BY TreeShapeFacts
  <2>2. Leads(Moves, TreeShape, DetachedEvents(<<>>), TreeShape)
    BY <2>1, DetachedNone
  <2>3. step >= 1 => Leads(Moves, TreeShape, DetachedEvents(Reverse(s)), Pruned(TreeShape, S))
    BY <1>2, DetachLeads
  <2> QED BY <1>12, <1>13, <2>2, <2>3 DEF Detaches
<1>15. \E r \in ParentsFirst(S) : \E t \in {<<>>, Reverse(r)} :
         MainBatch(new, e, t) /\ Detaches(t, {TreeShape, Pruned(TreeShape, S)})
  BY <1>12, <1>14
<1>16. \A x : Reshape(x, e) = TreeShape'
  BY <1>10, <1>11
<1> QED BY <1>1, <1>2, <1>3, <1>5, <1>7, <1>8, <1>9, <1>10, <1>15, <1>16 DEF MainShape

LEMMA MainNewsTyped ==
  ASSUME NEW new \in FrameIds, NewDocument(new, NoFrame) \in Documents
  PROVE  MainNews(new) \in Seq(Calm)
<1>1. <<Event("cleared", NoFrame)>> \in Seq(Calm)
  BY ClearedEvent, MuteTyped
<1>2. FromStep(4, <<Event("cleared", NoFrame)>>) \in Seq(Calm)
  BY <1>1, FromStepTyped
<1>3. FreshEvents(new, NewDocument(new, NoFrame)) \in Seq(Calm)
  BY DocumentEvents
<1> QED BY <1>2, <1>3, ConcatProperties DEF MainNews

LEMMA MainFollows ==
  ASSUME BrowserIInv, BrowserIInv', Nested(tree, root), Room, NEW new \in MainIds, MainCommitted(new)
  PROVE  /\ Follows
         /\ step = 0 => inbox' \in Seq(Still)
         /\ step = 1 => Leads(Moves, NoFrames, inbox', TreeShape')
<1>1. PICK S, document, e :
        /\ S = Below(root) /\ document = NewDocument(new, NoFrame)
        /\ e = Reported("navigated", new, NoFrame)
  OBVIOUS
<1>2. MainShape(new, S, document, e)
  BY <1>1, MainShapes, Zenon
<1> USE DEF MainShape
<1>3. PICK fresh \in Seq(Calm) : fresh = MainNews(new)
  BY <1>1, <1>2, MainNewsTyped
<1>4. PICK b \in Shapes : b = TreeShape'
  BY <1>2
<1>5. TreeShape \in Shapes
  BY TreeShapeFacts
<1>6. PICK s \in ParentsFirst(S) : \E told \in {<<>>, Reverse(s)} :
        MainBatch(new, e, told) /\ Detaches(told, {TreeShape, Pruned(TreeShape, S)})
  BY <1>2
<1>7. PICK told \in Seq(ChildIds) :
        /\ \E news \in {Before(e, fresh), After(e, fresh)} : inbox' = DetachedEvents(told) \o news
        /\ step >= 1 => \E x \in {TreeShape, Pruned(TreeShape, S)} :
                          Leads(Moves, TreeShape, DetachedEvents(told), x)
  BY <1>3, <1>6 DEF MainBatch, Detaches
<1>8. PICK news \in {Before(e, fresh), After(e, fresh)} : inbox' = DetachedEvents(told) \o news
  BY <1>7
<1>9. DetachedEvents(told) \in Seq(Events)
  BY <1>2, <1>7, GoneBatch
<1>10. news \in Seq(Events)
  <2>1. <<e>> \in Seq(Events) /\ fresh \in Seq(Events)
    BY <1>2, CalmTyped
  <2> QED BY <2>1, AroundTyped
<1>11. ASSUME step >= 1, NEW a \in Shapes, NEW x \in Shapes, Leads(Moves, a, DetachedEvents(told), x)
       PROVE  Leads(Moves, a, inbox', b)
  <2>1. b = Reshape(x, e)
    BY <1>2, <1>4
  <2>2. Leads(Moves, x, news, b)
    BY <1>2, <1>4, <1>11, <2>1, NewsLeads
  <2>3. Leads(Moves, a, DetachedEvents(told) \o news, b)
    BY <1>9, <1>10, <1>11, <2>2, LeadsFurther
  <2> QED BY <1>8, <2>3, Zenon
<1>12. step >= 1 => Leads(Moves, TreeShape, inbox', b)
  <2> SUFFICES ASSUME step >= 1 PROVE Leads(Moves, TreeShape, inbox', b)
    OBVIOUS
  <2>1. Pruned(TreeShape, S) \in Shapes
    BY <1>5, PrunedTyped
  <2>2. PICK x \in Shapes : Leads(Moves, TreeShape, DetachedEvents(told), x)
    BY <1>5, <1>7, <2>1
  <2> QED BY <1>5, <1>11, <2>2
<1>13. DetachedEvents(told) \in Seq(Still)
  BY <1>7, DetachedStill
<1>14. step = 1 => Leads(Moves, NoFrames, inbox', b)
  <2> SUFFICES ASSUME step = 1 PROVE Leads(Moves, NoFrames, inbox', b)
    OBVIOUS
  <2>1. NoFrames \in Shapes
    BY AloneTyped
  <2>2. Leads(Moves, NoFrames, DetachedEvents(told), NoFrames)
    BY <1>13, StillLeads
  <2>3. step >= 1
    OBVIOUS
  <2> QED BY <1>11, <2>1, <2>2, <2>3
<1>15. step = 0 => inbox' \in Seq(Still)
  <2> SUFFICES ASSUME step = 0 PROVE inbox' \in Seq(Still)
    OBVIOUS
  <2>1. step \in Nat
    OBVIOUS
  <2>2. news \in Seq(Still)
    BY <1>2, <2>1, NewsStill
  <2> QED BY <1>8, <1>13, <2>2, StillJoin
<1>16. step <= 1 => step = 0 \/ step = 1
  BY DEF BrowserIInv
<1> QED BY <1>2, <1>4, <1>12, <1>14, <1>15, <1>16, Zenon DEF Follows


-----------------------------------------------------------------------------
(* The handler mirrors the browser.                                        *)

\* With no events to read the goal is reached.
LEMMA QuietSettles == ASSUME MirrorIInv, Quiet PROVE Settled(ShapeNow)
<1>1. PICK goal \in Shapes : Leads(Moves, ShapeNow, inbox, goal) /\ Settled(goal)
  BY DEF MirrorIInv
<1>2. Leads(Moves, ShapeNow, <<>>, goal)
  BY <1>1, Zenon DEF Quiet
<1>3. goal = ShapeNow
  BY <1>2, LeadsQuiet
<1> QED BY <1>1, <1>3

LEMMA MirrorNow ==
  ASSUME NEW goal \in Shapes, Leads(Moves, ShapeNow', inbox', goal), Nested(tree', root'),
         \/ goal = NoFrames /\ step' <= 1
         \/ goal = TreeShape' /\ step' >= 1
  PROVE  MirrorIInv'
BY DEF MirrorIInv, Settled

LEMMA ShapeStays == ASSUME UNCHANGED <<main, frames>> PROVE ShapeNow' = ShapeNow
BY DEF ShapeNow

\* An act of the page.
LEMMA PageMirrors ==
  ASSUME BrowserIInv, BrowserIInv', MirrorIInv, Quiet, Follows, UNCHANGED <<main, frames>>,
         step' = step
  PROVE  MirrorIInv'
<1>1. Settled(ShapeNow) /\ ShapeNow' = ShapeNow
  BY QuietSettles, ShapeStays
<1>2. /\ Nested(tree', root')
      /\ step >= 1 => Leads(Moves, TreeShape, inbox', TreeShape')
      /\ step <= 1 => \/ inbox' \in Seq(Still)
                      \/ step = 1 /\ Leads(Moves, NoFrames, inbox', TreeShape')
  BY Zenon DEF Follows
<1>3. PICK b : b = TreeShape'
  OBVIOUS
<1>4. b \in Shapes
  BY <1>3, TreeShapeTyped DEF BrowserIInv, TreeShape
<1>5. CASE ShapeNow = TreeShape /\ step >= 1
  <2>1. Leads(Moves, ShapeNow', inbox', b)
    BY <1>1, <1>2, <1>3, <1>5
  <2>2. b = TreeShape' /\ step' >= 1
    BY <1>3, <1>5
  <2> QED BY <1>2, <1>4, <2>1, <2>2, MirrorNow
<1>6. CASE ShapeNow = NoFrames /\ step <= 1 /\ inbox' \in Seq(Still)
  <2>1. Leads(Moves, NoFrames, inbox', NoFrames)
    BY <1>6, StillLeads
  <2>2. Leads(Moves, ShapeNow', inbox', NoFrames)
    BY <1>1, <1>6, <2>1
  <2>3. NoFrames \in Shapes /\ step' <= 1
    BY <1>6, AloneTyped
  <2> QED BY <1>2, <2>2, <2>3, MirrorNow
<1>7. CASE ShapeNow = NoFrames /\ step = 1 /\ Leads(Moves, NoFrames, inbox', TreeShape')
  <2>1. Leads(Moves, ShapeNow', inbox', b)
    BY <1>1, <1>3, <1>7
  <2>2. b = TreeShape' /\ step' >= 1
    BY <1>3, <1>7
  <2> QED BY <1>2, <1>4, <2>1, <2>2, MirrorNow
<1> QED BY <1>1, <1>2, <1>5, <1>6, <1>7, Zenon DEF Settled

\* A step of the chains that keeps the shape; the frame tree has a case of its own.
LEMMA CalmMirrors ==
  ASSUME BrowserIInv, BrowserIInv', MirrorIInv, Quiet, KeepsShape, UNCHANGED <<main, frames>>,
         step' = step \/ (step' = step + 1 /\ step # 1)
  PROVE  MirrorIInv'
<1>1. Settled(ShapeNow) /\ ShapeNow' = ShapeNow
  BY QuietSettles, ShapeStays
<1>2. Nested(tree, root)
  BY DEF MirrorIInv
<1>3. Nested(tree', root') /\ TreeShape' = TreeShape
  BY <1>2, KeepsFollows DEF Follows
<1>4. TreeShape \in Shapes /\ NoFrames \in Shapes
  BY TreeShapeFacts, AloneTyped
<1>5. ShapeNow \in Shapes
  BY <1>1, <1>4 DEF Settled
<1>6. Leads(Moves, ShapeNow', inbox', ShapeNow)
  BY <1>1, <1>5, CalmLeads DEF KeepsShape
<1>7. \/ ShapeNow = NoFrames /\ step' <= 1
      \/ ShapeNow = TreeShape' /\ step' >= 1
  <2>1. step \in 0 .. 5
    BY DEF BrowserIInv
  <2>2. CASE ShapeNow = NoFrames /\ step <= 1
    BY <2>1, <2>2
  <2>3. CASE ShapeNow = TreeShape /\ step >= 1
    BY <1>3, <2>1, <2>3
  <2> QED BY <1>1, <2>2, <2>3 DEF Settled
<1>8. PICK goal \in Shapes : goal = ShapeNow
  BY <1>5
<1> QED BY <1>3, <1>6, <1>7, <1>8, MirrorNow

\* The answer to getFrameTree leaves the frames where they are.
LEMMA FrameTreeStays ==
  ASSUME BrowserIInv, FrameTreeAnswered
  PROVE  /\ Quiet /\ step = 1 /\ step' = 2 /\ UNCHANGED <<main, frames>> /\ root' = root
         /\ tree' = [f \in DOMAIN tree |-> [tree[f] EXCEPT !.reported = TRUE]]
         /\ DOMAIN tree' = DOMAIN tree /\ TreeShape' = TreeShape
         /\ \A f \in DOMAIN tree : tree'[f].parent = tree[f].parent
         /\ \E s \in ParentsFirst(DOMAIN tree) :
              inbox' = FlattenSeq([i \in 1 .. Len(s) |-> Pair(s[i])])
<1>1. /\ Quiet /\ step = 1 /\ step' = 2 /\ UNCHANGED <<main, frames>> /\ root' = root
      /\ tree' = [f \in DOMAIN tree |-> [tree[f] EXCEPT !.reported = TRUE]]
  <2>1. Quiet /\ step = 1 /\ step' = step + 1
    BY DEF FrameTreeAnswered, Answers, Report, Each
  <2>2. /\ UNCHANGED <<managerVars, worlds, root, scripted>>
        /\ tree' = [f \in DOMAIN tree |-> [tree[f] EXCEPT !.reported = TRUE]]
    BY DEF FrameTreeAnswered, Each
  <2> QED BY <2>1, <2>2 DEF managerVars
<1>2. PICK s \in ParentsFirst(DOMAIN tree) :
        inbox' = FlattenSeq([i \in 1 .. Len(s) |-> Pair(s[i])])
  BY DEF FrameTreeAnswered, Answers, Report, Each, Pair
<1>3. DOMAIN tree' = DOMAIN tree /\ \A f \in DOMAIN tree : tree'[f].parent = tree[f].parent
  <2>1. \A f \in DOMAIN tree : tree[f] \in Documents
    BY DEF BrowserIInv, Tree
  <2> QED BY <1>1, <2>1 DEF Documents
<1>4. TreeShape' = TreeShape
  <2>1. [f \in DOMAIN tree' |-> tree'[f].parent] = [f \in DOMAIN tree |-> tree[f].parent]
    BY <1>3
  <2> QED BY <1>1, <2>1 DEF TreeShape, Shape
<1> QED BY <1>1, <1>2, <1>3, <1>4

LEMMA TreeMirrors ==
  ASSUME BrowserIInv, BrowserIInv', MirrorIInv, FrameTreeAnswered PROVE MirrorIInv'
<1>1. /\ Quiet /\ step = 1 /\ step' = 2 /\ UNCHANGED <<main, frames>> /\ root' = root
      /\ DOMAIN tree' = DOMAIN tree /\ TreeShape' = TreeShape
      /\ \A f \in DOMAIN tree : tree'[f].parent = tree[f].parent
  BY FrameTreeStays
<1>2. PICK s \in ParentsFirst(DOMAIN tree) :
        inbox' = FlattenSeq([i \in 1 .. Len(s) |-> Pair(s[i])])
  BY FrameTreeStays
<1>3. Settled(ShapeNow) /\ ShapeNow' = ShapeNow
  BY <1>1, QuietSettles, ShapeStays
<1>4. Nested(tree, root)
  BY DEF MirrorIInv
<1>5. TreeShape \in Shapes /\ NoFrames \in Shapes
  BY TreeShapeFacts, AloneTyped
<1>6. ShapeNow \in Shapes
  BY <1>3, <1>5 DEF Settled
<1>7. Leads(Moves, ShapeNow, FlattenSeq([i \in 1 .. Len(s) |-> Pair(s[i])]), TreeShape)
  BY <1>4, <1>6, FrameTreeLeads
<1>8. Leads(Moves, ShapeNow', inbox', TreeShape)
  BY <1>2, <1>3, <1>7, Zenon
<1>9. Nested(tree', root')
  BY <1>1, <1>4 DEF Nested
<1>10. PICK goal \in Shapes : goal = TreeShape
  BY <1>5
<1>11. goal = TreeShape' /\ step' >= 1
  BY <1>1, <1>10
<1> QED BY <1>8, <1>9, <1>10, <1>11, MirrorNow

\* The handler reads one event.
LEMMA ManagerMirrors ==
  ASSUME IInv, MirrorIInv, Manager, UNCHANGED browserVars PROVE MirrorIInv'
<1>1. /\ <<ShapeNow, Head(inbox), ShapeNow'>> \in Moves
      /\ inbox # <<>> /\ inbox' = Tail(inbox)
  BY ManagerMoves
<1>2. PICK goal \in Shapes : Leads(Moves, ShapeNow, inbox, goal) /\ Settled(goal)
  BY DEF MirrorIInv
<1>3. inbox \in Seq(Events)
  BY DEF IInv
<1>4. PICK c : <<ShapeNow, Head(inbox), c>> \in Moves /\ Leads(Moves, c, Tail(inbox), goal)
  BY <1>1, <1>2, <1>3, LeadsOn
<1>5. c = ShapeNow'
  BY <1>1, <1>4 DEF Moves
<1>6. Leads(Moves, ShapeNow', inbox', goal)
  BY <1>1, <1>4, <1>5
<1>7. Nested(tree', root') /\ TreeShape' = TreeShape /\ step' = step
  BY DEF MirrorIInv, browserVars, TreeShape
<1>8. \/ goal = NoFrames /\ step' <= 1
      \/ goal = TreeShape' /\ step' >= 1
  BY <1>2, <1>7 DEF Settled
<1> QED BY <1>6, <1>7, <1>8, MirrorNow


LEMMA MirrorInit == ASSUME Init PROVE MirrorIInv
<1>1. main = NoFrame /\ frames = <<>> /\ inbox = <<>> /\ step = 0 /\ root = FirstMain
  BY DEF Init, ManagerInit
<1>2. ShapeNow = NoFrames
  <2>1. DOMAIN frames = {}
    BY <1>1
  <2>2. [f \in DOMAIN frames |-> frames[f].parent] = [x \in {} |-> NoFrame]
    BY <2>1
  <2> QED BY <1>1, <2>2 DEF ShapeNow, Shape, NoFrames
<1>3. Nested(tree, root)
  <2>1. DOMAIN tree = {FirstMain}
    BY DEF Init
  <2> QED BY <1>1, <2>1, FramesAssumption DEF Nested
<1>4. Leads(Moves, ShapeNow, inbox, NoFrames) /\ Settled(NoFrames)
  BY <1>1, <1>2, LeadsNothing DEF Settled
<1> QED BY <1>3, <1>4, AloneTyped DEF MirrorIInv

LEMMA MirrorNext ==
  ASSUME IInv, BrowserIInv, BrowserIInv', MirrorIInv, [Next]_vars PROVE MirrorIInv'
<1>1. Nested(tree, root) /\ step \in 0 .. 5
  BY DEF MirrorIInv, BrowserIInv
<1>2. CASE Page
  <2>1. /\ Room
        /\ \/ \E c \in ChildIds, p \in FrameIds : ChildAttached(c, p)
           \/ \E c \in ChildIds : ChildDetached(c) \/ ChildCommitted(c)
           \/ \E f \in FrameIds : StartedLoading(f) \/ NavigatedWithin(f) \/ DomReady(f) \/ Loaded(f)
           \/ \E new \in MainIds : MainCommitted(new)
    BY <1>2 DEF Page
  <2>2. UNCHANGED <<main, frames>> /\ step' = step /\ Quiet
    <3>1. UNCHANGED <<managerVars, worlds, step, scripted>> /\ Quiet
      BY <2>1 DEF ChildAttached, ChildDetached, ChildCommitted, StartedLoading, NavigatedWithin,
                  DomReady, Loaded, Reaches, MainCommitted, Report
    <3> QED BY <3>1 DEF managerVars
  <2>3. CASE \E c \in ChildIds, p \in FrameIds : ChildAttached(c, p)
    <3>1. Follows
      BY <1>1, <2>1, <2>3, AttachedFollows
    <3> QED BY <2>2, <3>1, PageMirrors
  <2>4. CASE \E c \in ChildIds : ChildDetached(c) \/ ChildCommitted(c)
    <3>1. Follows
      BY <1>1, <2>1, <2>4, DetachedFollows, CommittedFollows
    <3> QED BY <2>2, <3>1, PageMirrors
  <2>5. CASE \E new \in MainIds : MainCommitted(new)
    <3>1. Follows
      BY <1>1, <2>1, <2>5, MainFollows
    <3> QED BY <2>2, <3>1, PageMirrors
  <2>6. CASE \E f \in FrameIds :
               StartedLoading(f) \/ NavigatedWithin(f) \/ DomReady(f) \/ Loaded(f)
    <3>1. KeepsShape
      BY <2>6, PlainTyped
    <3> QED BY <2>2, <3>1, CalmMirrors
  <2> QED BY <2>1, <2>3, <2>4, <2>5, <2>6
<1>3. CASE Manager /\ UNCHANGED <<browserVars, acts>>
  BY <1>3, ManagerMirrors
<1>4. CASE Initialising /\ UNCHANGED acts
  <2>1. CASE PageEnabled
    <3>1. KeepsShape
      BY <1>4, <2>1, PageEnabledStep
    <3>2. Quiet /\ UNCHANGED <<main, frames>> /\ step = 0 /\ step' = step + 1
      BY <2>1 DEF PageEnabled, Answers, Report, managerVars
    <3> QED BY <3>1, <3>2, CalmMirrors
  <2>2. CASE FrameTreeAnswered
    BY <2>2, TreeMirrors
  <2>3. CASE LifecycleEnabled
    <3>1. KeepsShape
      BY <1>4, <2>3, LifecycleEnabledStep
    <3>2. Quiet /\ step = 2 /\ step' = step + 1
      BY <2>3 DEF LifecycleEnabled, Answers, Report
    <3>3. UNCHANGED <<main, frames>>
      BY <2>3 DEF LifecycleEnabled, managerVars
    <3> QED BY <3>1, <3>2, <3>3, CalmMirrors
  <2>4. CASE RuntimeEnabled
    <3>1. KeepsShape
      BY <1>4, <2>4, RuntimeEnabledStep
    <3>2. Quiet /\ step = 3 /\ step' = step + 1
      BY <2>4 DEF RuntimeEnabled, Answers, Report
    <3>3. UNCHANGED <<main, frames>>
      BY <2>4 DEF RuntimeEnabled, managerVars
    <3> QED BY <3>1, <3>2, <3>3, CalmMirrors
  <2>5. CASE ChainBegins
    <3>1. KeepsShape
      BY <1>4, <2>5, ChainStep
    <3>2. Quiet /\ UNCHANGED <<main, frames>> /\ step' = step
      BY <2>5 DEF ChainBegins, EnsureIsolatedWorld
    <3> QED BY <3>1, <3>2, CalmMirrors
  <2>6. CASE ScriptAdded
    <3>1. KeepsShape
      BY <1>4, <2>6, ChainStep
    <3>2. Quiet /\ UNCHANGED <<main, frames>> /\ step = 4 /\ step' = step + 1
      BY <2>6 DEF ScriptAdded, Answers, Report, managerVars
    <3> QED BY <3>1, <3>2, CalmMirrors
  <2>7. ASSUME NEW f \in FrameIds, IsolatedWorldCreated(f) PROVE MirrorIInv'
    <3>1. KeepsShape
      BY <1>4, <2>7, WorldCreatedStep
    <3>2. Quiet /\ UNCHANGED <<main, frames>> /\ step' = step
      BY <2>7 DEF IsolatedWorldCreated, Report, managerVars
    <3> QED BY <3>1, <3>2, CalmMirrors
  <2> QED BY <1>4, <2>1, <2>2, <2>3, <2>4, <2>5, <2>6, <2>7 DEF Initialising
<1>5. CASE UNCHANGED vars
  <2>1. /\ UNCHANGED <<main, frames, inbox, root, tree, step>>
    BY <1>5 DEF vars, managerVars, browserVars
  <2>2. ShapeNow' = ShapeNow /\ TreeShape' = TreeShape
    BY <2>1 DEF ShapeNow, TreeShape
  <2>3. PICK goal \in Shapes : Leads(Moves, ShapeNow, inbox, goal) /\ Settled(goal)
    BY DEF MirrorIInv
  <2>4. Leads(Moves, ShapeNow', inbox', goal) /\ Nested(tree', root')
    BY <1>1, <2>1, <2>2, <2>3
  <2>5. \/ goal = NoFrames /\ step' <= 1
        \/ goal = TreeShape' /\ step' >= 1
    BY <2>1, <2>2, <2>3 DEF Settled
  <2> QED BY <2>4, <2>5, MirrorNow
<1> QED BY <1>2, <1>3, <1>4, <1>5 DEF Next

LEMMA MirrorFollows == ASSUME MirrorIInv, BrowserIInv PROVE MirrorsBrowser
<1> SUFFICES ASSUME Quiet, step >= 2
             PROVE  /\ main = root /\ DOMAIN frames = DOMAIN tree
                    /\ \A f \in DOMAIN tree : frames[f].parent = tree[f].parent
  BY DEF MirrorsBrowser
<1>1. ShapeNow = TreeShape
  BY QuietSettles DEF Settled, BrowserIInv
<1>2. /\ main = root
      /\ [f \in DOMAIN frames |-> frames[f].parent] = [f \in DOMAIN tree |-> tree[f].parent]
  BY <1>1 DEF ShapeNow, TreeShape, Shape
<1>3. PICK P, Q : /\ P = [f \in DOMAIN frames |-> frames[f].parent]
                  /\ Q = [f \in DOMAIN tree |-> tree[f].parent]
  OBVIOUS
<1>4. P = Q /\ DOMAIN P = DOMAIN frames /\ DOMAIN Q = DOMAIN tree
  BY <1>2, <1>3
<1>5. /\ \A f \in DOMAIN frames : P[f] = frames[f].parent
      /\ \A f \in DOMAIN tree : Q[f] = tree[f].parent
  BY <1>3
<1> QED BY <1>2, <1>4, <1>5

\* Once the frame tree was read and whenever the events are, the frames of the handler are
\* those of the browser with their parents, whatever the page does and however many frames
\* it has: on_frame_attached, on_frame_detached, on_frame_navigated and on_frame_tree make
\* of what they know exactly what the events of one act stand for, so that the events not
\* yet read always lead to the tree that the browser has.
THEOREM FramesMirrorBrowser == Spec => []MirrorsBrowser
<1>1. Init => MirrorIInv
  BY MirrorInit
<1>2. /\ IInv /\ BrowserIInv /\ (IInv /\ BrowserIInv)' /\ MirrorIInv /\ [Next]_vars
      => MirrorIInv'
  BY MirrorNext
<1>3. MirrorIInv /\ BrowserIInv => MirrorsBrowser
  BY MirrorFollows
<1> QED BY <1>1, <1>2, <1>3, BrowserInductive, PTL DEF Spec


-----------------------------------------------------------------------------
(* What the frames have reached.  A kind is a mark that a frame may carry: *)
(* that it was told to have navigated, or one of the two events of its     *)
(* lifecycle.  Frames with their marks make a view, and Remarked says what *)
(* one event makes of the marks.                                           *)

Kinds == {"url", "DOMContentLoaded", "load"}
Has(k, r) == IF k = "url" THEN r.url = TRUE ELSE k \in r.lifecycle
Marked(k, fs) == {f \in DOMAIN fs : Has(k, fs[f])}

View(a, M) == [shape |-> a, marks |-> M]
Views == {v \in [shape : Shapes, marks : SUBSET FrameIds] : v.marks \subseteq DOMAIN v.shape.parent}

\* The frame that the event marks, and the one that it unmarks.
Gains(k, e) ==
  IF e.type = k \/ (k = "url" /\ e.type \in {"navigated", "within"}) THEN {e.frame} ELSE {}
Loses(k, e) == IF k # "url" /\ e.type \in {"startedLoading", "init"} THEN {e.frame} ELSE {}
Remarked(k, a, M, e) ==
  IF e.type = "navigated" /\ e.parent = NoFrame
  THEN IF k = "url" \/ a.main \in M THEN {e.frame} ELSE {}
  ELSE ((M \cup Gains(k, e)) \ Loses(k, e)) \cap DOMAIN Reshape(a, e).parent

Marking(k) ==
  {t \in Views \X Events \X Views :
     t[3] = View(Reshape(t[1].shape, t[2]), Remarked(k, t[1].shape, t[1].marks, t[2]))}

LEMMA ShapeDomain == ASSUME NEW a \in Shapes PROVE DOMAIN a.parent \in SUBSET FrameIds
BY DEF Shapes

LEMMA ViewTyped ==
  ASSUME NEW a \in Shapes, NEW M \in SUBSET DOMAIN a.parent
  PROVE  View(a, M) \in Views /\ View(a, M).shape = a /\ View(a, M).marks = M
BY ShapeDomain DEF View, Views

LEMMA ViewsEqual ==
  ASSUME NEW a, NEW b, NEW M, NEW N, View(a, M) = View(b, N) PROVE a = b /\ M = N
<1>1. View(a, M).shape = a /\ View(b, N).shape = b /\ View(a, M).marks = M /\ View(b, N).marks = N
  BY DEF View
<1> QED BY <1>1

LEMMA MarkStep ==
  ASSUME NEW k, NEW a \in Shapes, NEW M \in SUBSET DOMAIN a.parent, NEW e \in Events,
         NEW b \in Shapes, b = Reshape(a, e), NEW N, N = Remarked(k, a, M, e)
  PROVE  N \in SUBSET DOMAIN b.parent /\ <<View(a, M), e, View(b, N)>> \in Marking(k)
<1>1. N \in SUBSET DOMAIN b.parent
  <2>1. CASE e.type = "navigated" /\ e.parent = NoFrame
    <3>1. e.type = "navigated" /\ e.parent = NoFrame => Reshape(a, e) = MainAlone(e.frame)
      BY ReshapeCases, Zenon
    <3>2. b = MainAlone(e.frame) /\ e.frame \in MainIds
      BY <2>1, <3>1 DEF Events
    <3>3. DOMAIN b.parent = {e.frame}
      BY <3>2, AloneTyped
    <3> QED BY <2>1, <3>3 DEF Remarked
  <2>2. CASE ~(e.type = "navigated" /\ e.parent = NoFrame)
    BY <2>2 DEF Remarked
  <2> QED BY <2>1, <2>2
<1>2. /\ View(a, M) \in Views /\ View(a, M).shape = a /\ View(a, M).marks = M
      /\ View(b, N) \in Views
  BY <1>1, ViewTyped
<1>3. PICK v, w : v = View(a, M) /\ w = View(b, N)
  OBVIOUS
<1>4. w = View(Reshape(v.shape, e), Remarked(k, v.shape, v.marks, e))
  BY <1>2, <1>3
<1>5. <<v, e, w>> \in Marking(k)
  BY <1>2, <1>3, <1>4 DEF Marking
<1> QED BY <1>1, <1>3, <1>5

LEMMA MarkOne ==
  ASSUME NEW k, NEW a \in Shapes, NEW M \in SUBSET DOMAIN a.parent, NEW e \in Events,
         NEW b \in Shapes, b = Reshape(a, e), NEW N, N = Remarked(k, a, M, e)
  PROVE  N \in SUBSET DOMAIN b.parent /\ Leads(Marking(k), View(a, M), <<e>>, View(b, N))
<1>1. N \in SUBSET DOMAIN b.parent /\ <<View(a, M), e, View(b, N)>> \in Marking(k)
  BY MarkStep
<1> QED BY <1>1, LeadsOne

\* Where the marks F of a shape follow from the shape, they lead where the shapes do.
LEMMA MarksLead ==
  ASSUME NEW k, NEW E \in SUBSET Events, NEW F, \A x \in Shapes : F[x] \in SUBSET DOMAIN x.parent,
         \A x \in Shapes, e \in E : Remarked(k, x, F[x], e) = F[Reshape(x, e)],
         NEW q \in Seq(E), NEW a, NEW b, Leads(Moves, a, q, b)
  PROVE  Leads(Marking(k), View(a, F[a]), q, View(b, F[b]))
<1>1. PICK g : /\ g[0] = a /\ g[Len(q)] = b
               /\ \A i \in 1 .. Len(q) : <<g[i - 1], q[i], g[i]>> \in Moves
  BY DEF Leads
<1>2. Len(q) \in Nat /\ \A i \in 1 .. Len(q) : q[i] \in E
  OBVIOUS
<1> DEFINE h == [i \in 0 .. Len(q) |-> View(g[i], F[g[i]])]
<1>3. h[0] = View(a, F[a]) /\ h[Len(q)] = View(b, F[b])
  BY <1>1, <1>2
<1>4. ASSUME NEW i \in 1 .. Len(q) PROVE <<h[i - 1], q[i], h[i]>> \in Marking(k)
  <2>1. PICK x, y, e : x = g[i - 1] /\ y = g[i] /\ e = q[i]
    OBVIOUS
  <2>2. <<x, e, y>> \in Moves
    BY <1>1, <2>1
  <2>3. x \in Shapes /\ y \in Shapes /\ e \in E /\ e \in Events /\ y = Reshape(x, e)
    BY <1>2, <2>1, <2>2 DEF Moves
  <2>4. F[x] \in SUBSET DOMAIN x.parent /\ Remarked(k, x, F[x], e) = F[y]
    BY <2>3
  <2>5. <<View(x, F[x]), e, View(y, F[y])>> \in Marking(k)
    BY <2>3, <2>4, MarkStep
  <2>6. i - 1 \in 0 .. Len(q) /\ i \in 0 .. Len(q)
    BY <1>2
  <2>7. h[i - 1] = View(x, F[x]) /\ h[i] = View(y, F[y])
    BY <2>1, <2>6
  <2> QED BY <2>1, <2>5, <2>7
<1> HIDE DEF h
<1> QED BY <1>3, <1>4 DEF Leads

\* An event that neither attaches nor marks nor unmarks a frame, and is not a new main frame.
Bland(k) == {e \in Still : e.type # "attached" /\ Gains(k, e) = {} /\ Loses(k, e) = {}}

\* Such events take the marks with the frames that go.
LEMMA BlandLeads ==
  ASSUME NEW k, NEW q \in Seq(Bland(k)), NEW a \in Shapes, NEW b \in Shapes, Leads(Moves, a, q, b),
         NEW M \in SUBSET DOMAIN a.parent
  PROVE  Leads(Marking(k), View(a, M), q, View(b, M \cap DOMAIN b.parent))
<1> DEFINE F == [x \in Shapes |-> M \cap DOMAIN x.parent]
<1>1. \A x \in Shapes : F[x] \in SUBSET DOMAIN x.parent
  OBVIOUS
<1>2. F[a] = M /\ F[b] = M \cap DOMAIN b.parent
  OBVIOUS
<1>3. Bland(k) \in SUBSET Events
  BY DEF Bland, Still
<1>4. ASSUME NEW x \in Shapes, NEW e \in Bland(k)
      PROVE  Remarked(k, x, F[x], e) = F[Reshape(x, e)]
  <2>1. PICK y : y = Reshape(x, e)
    OBVIOUS
  <2>2. y \in Shapes /\ DOMAIN y.parent \subseteq DOMAIN x.parent
    <3>1. \/ y = x
          \/ \E D : y = Reparent(x, Cut(x.parent, D))
      <4>1. e.type # "attached" /\ (e.type # "navigated" \/ e.parent # NoFrame)
        BY DEF Bland, Still
      <4>2. e.type = "detached" =>
              Reshape(x, e) = IF e.frame \in DOMAIN x.parent
                              THEN Reparent(x, Cut(x.parent, From(x.parent, e.frame))) ELSE x
        BY ReshapeCases, Zenon
      <4>3. e.type = "navigated" /\ e.parent # NoFrame =>
              Reshape(x, e) = IF e.frame \in DOMAIN x.parent
                              THEN Reparent(x, Cut(x.parent, From(x.parent, e.frame) \ {e.frame}))
                              ELSE x
        BY ReshapeCases, Zenon
      <4>4. e.type \notin {"attached", "detached", "navigated"} => Reshape(x, e) = x
        BY ReshapeCases, Zenon
      <4>5. PICK P, f : P = From(x.parent, f) /\ f = e.frame
        OBVIOUS
      <4>6. y \in {x, Reparent(x, Cut(x.parent, P)), Reparent(x, Cut(x.parent, P \ {f}))}
        BY <2>1, <4>1, <4>2, <4>3, <4>4, <4>5
      <4> QED BY <4>6
    <3>2. ASSUME NEW D, y = Reparent(x, Cut(x.parent, D))
          PROVE  y \in Shapes /\ DOMAIN y.parent \subseteq DOMAIN x.parent
      <4>1. y \in Shapes /\ y.parent = Cut(x.parent, D)
        BY <3>2, CutTyped
      <4>2. DOMAIN Cut(x.parent, D) = DOMAIN x.parent \ D
        BY CutTyped
      <4> QED BY <4>1, <4>2
    <3> QED BY <3>1, <3>2
  <2>3. Remarked(k, x, F[x], e) = F[x] \cap DOMAIN y.parent
    BY <2>1 DEF Remarked, Bland, Still
  <2>4. F[x] \cap DOMAIN y.parent = F[y]
    BY <2>2
  <2> QED BY <2>1, <2>3, <2>4
<1> HIDE DEF F
<1>5. Leads(Marking(k), View(a, F[a]), q, View(b, F[b]))
  BY <1>1, <1>3, <1>4, MarksLead
<1> QED BY <1>2, <1>5

\* No lifecycle is reached by events of other kinds.
LEMMA EmptyLeads ==
  ASSUME NEW k, k # "url", NEW q \in Seq({e \in Events : e.type # k}), NEW a, NEW b,
         Leads(Moves, a, q, b)
  PROVE  Leads(Marking(k), View(a, {}), q, View(b, {}))
<1> DEFINE E == {e \in Events : e.type # k}
<1>1. ASSUME NEW x \in Shapes, NEW e \in E PROVE Remarked(k, x, {}, e) = {}
  BY DEF Remarked, Gains
<1>2. PICK G : G = [x \in Shapes \cup {a, b} \cup {Reshape(t[1], t[2]) : t \in Shapes \X E} |-> {}]
  OBVIOUS
<1>3. \A x \in Shapes : G[x] \in SUBSET DOMAIN x.parent
  BY <1>2
<1>4. ASSUME NEW x \in Shapes, NEW e \in E PROVE Remarked(k, x, G[x], e) = G[Reshape(x, e)]
  <2>1. <<x, e>> \in Shapes \X E /\ <<x, e>>[1] = x /\ <<x, e>>[2] = e
    OBVIOUS
  <2>2. Reshape(x, e) \in {Reshape(t[1], t[2]) : t \in Shapes \X E}
    BY <2>1
  <2>3. G[x] = {} /\ G[Reshape(x, e)] = {}
    BY <1>2, <2>2
  <2> QED BY <1>1, <2>3
<1>5. E \in SUBSET Events /\ q \in Seq(E) /\ G[a] = {} /\ G[b] = {}
  BY <1>2
<1> HIDE DEF E
<1>6. Leads(Marking(k), View(a, G[a]), q, View(b, G[b]))
  BY <1>3, <1>4, <1>5, MarksLead
<1> QED BY <1>5, <1>6

LEMMA BlandTyped ==
  ASSUME NEW k \in Kinds
  PROVE  /\ \A q \in Seq(Mute) : q \in Seq(Bland(k))
         /\ \A told \in Seq(ChildIds) : DetachedEvents(told) \in Seq(Bland(k))
<1>1. Mute \subseteq Bland(k)
  BY DEF Mute, Calm, Bland, Still, Gains, Loses, Kinds
<1>2. ASSUME NEW q \in Seq(Mute) PROVE q \in Seq(Bland(k))
  BY <1>1, SeqMonotonic
<1>3. ASSUME NEW f \in ChildIds PROVE Event("detached", f) \in Bland(k)
  <2>1. Event("detached", f) \in Events
    BY DetachedEvent
  <2>2. Event("detached", f).type = "detached"
    BY DEF Event
  <2> QED BY <2>1, <2>2 DEF Bland, Still, Gains, Loses, Kinds
<1>4. ASSUME NEW told \in Seq(ChildIds) PROVE DetachedEvents(told) \in Seq(Bland(k))
  BY <1>3, DetachedIn
<1> QED BY <1>2, <1>4

LEMMA MuteMarks ==
  ASSUME NEW k \in Kinds, NEW q \in Seq(Mute), NEW a \in Shapes, NEW M \in SUBSET DOMAIN a.parent
  PROVE  Leads(Marking(k), View(a, M), q, View(a, M))
<1>1. q \in Seq(Bland(k)) /\ q \in Seq(Calm)
  BY BlandTyped, MuteTyped
<1>2. Leads(Moves, a, q, a)
  BY <1>1, CalmLeads
<1>3. M \cap DOMAIN a.parent = M
  OBVIOUS
<1> QED BY <1>1, <1>2, <1>3, BlandLeads

\* One event about a frame that keeps the shape.
LEMMA CalmMarks ==
  ASSUME NEW k, NEW e \in Calm, NEW a \in Shapes, NEW M \in SUBSET DOMAIN a.parent,
         NEW N, N = ((M \cup Gains(k, e)) \ Loses(k, e)) \cap DOMAIN a.parent
  PROVE  Leads(Marking(k), View(a, M), <<e>>, View(a, N))
<1>1. e \in Events /\ Reshape(a, e) = a /\ e.type # "navigated"
  BY ReshapeCases DEF Calm
<1>2. N = Remarked(k, a, M, e)
  BY <1>1 DEF Remarked
<1> QED BY <1>1, <1>2, MarkOne

\* The events of a new document of f unmark it.
Unmarked(k, M, f) == IF k = "url" THEN M ELSE M \ {f}
Unmarks(k, f, q) ==
  \A c \in Shapes : \A N \in SUBSET DOMAIN c.parent :
    k = "url" \/ step >= 3 \/ f \notin N =>
      Leads(Marking(k), View(c, N), q, View(c, Unmarked(k, N, f)))

LEMMA FreshUnmarks ==
  ASSUME step \in Nat, NEW k \in Kinds, NEW f \in FrameIds, NEW doc \in Documents
  PROVE  Unmarks(k, f, FreshEvents(f, doc))
<1> SUFFICES ASSUME NEW c \in Shapes, NEW N \in SUBSET DOMAIN c.parent,
                    k = "url" \/ step >= 3 \/ f \notin N
             PROVE  Leads(Marking(k), View(c, N), FreshEvents(f, doc), View(c, Unmarked(k, N, f)))
  BY DEF Unmarks
<1>1. PICK p, q : p = FromStep(3, <<Event("init", f)>>) /\ q = FromStep(4, CreatedEvents(f, doc))
  OBVIOUS
<1>2. Event("init", f) \in Calm /\ <<Event("init", f)>> \in Seq(Calm)
  BY PlainEvent
<1>3. p \in Seq(Calm)
  BY <1>1, <1>2, FromStepTyped
<1>4. q \in Seq(Mute)
  BY <1>1, DocumentEvents, FromStepTyped
<1>5. PICK M \in SUBSET DOMAIN c.parent : M = Unmarked(k, N, f)
  BY DEF Unmarked
<1>6. Leads(Marking(k), View(c, N), p, View(c, M))
  <2>1. CASE step >= 3
    <3>1. Event("init", f).type = "init" /\ Event("init", f).frame = f
      BY DEF Event
    <3>2. M = ((N \cup Gains(k, Event("init", f))) \ Loses(k, Event("init", f))) \cap DOMAIN c.parent
      BY <1>5, <3>1 DEF Unmarked, Gains, Loses, Kinds
    <3>3. Leads(Marking(k), View(c, N), <<Event("init", f)>>, View(c, M))
      BY <1>2, <3>2, CalmMarks
    <3>4. p = <<Event("init", f)>>
      BY <1>1, <2>1 DEF FromStep
    <3> QED BY <3>3, <3>4
  <2>2. CASE ~(step >= 3)
    <3>1. M = N
      BY <1>5, <2>2 DEF Unmarked
    <3>2. p = <<>>
      BY <1>1, <2>2 DEF FromStep
    <3>3. Leads(Marking(k), View(c, N), <<>>, View(c, N))
      BY LeadsNothing
    <3> QED BY <3>1, <3>2, <3>3
  <2> QED BY <2>1, <2>2
<1>7. Leads(Marking(k), View(c, M), q, View(c, M))
  BY <1>4, MuteMarks
<1>8. p \in Seq(Events) /\ q \in Seq(Events)
  BY <1>3, <1>4, CalmTyped, MuteTyped
<1>9. Leads(Marking(k), View(c, N), p \o q, View(c, M))
  BY <1>6, <1>7, <1>8, LeadsFurther
<1> QED BY <1>1, <1>5, <1>9 DEF FreshEvents

LEMMA MuteUnmarks ==
  ASSUME NEW k \in Kinds, NEW f, NEW p \in Seq(Mute), NEW q \in Seq(Calm), Unmarks(k, f, q)
  PROVE  Unmarks(k, f, p \o q)
<1> SUFFICES ASSUME NEW c \in Shapes, NEW N \in SUBSET DOMAIN c.parent,
                    k = "url" \/ step >= 3 \/ f \notin N
             PROVE  Leads(Marking(k), View(c, N), p \o q, View(c, Unmarked(k, N, f)))
  BY DEF Unmarks
<1>1. Leads(Marking(k), View(c, N), p, View(c, N))
  BY MuteMarks
<1>2. Leads(Marking(k), View(c, N), q, View(c, Unmarked(k, N, f)))
  BY DEF Unmarks
<1>3. p \in Seq(Events) /\ q \in Seq(Events)
  BY CalmTyped, MuteTyped
<1> QED BY <1>1, <1>2, <1>3, LeadsFurther

LEMMA NewsUnmark ==
  ASSUME BrowserIInv, NEW k \in Kinds
  PROVE  /\ \A c \in DOMAIN tree : NewDocument(c, tree[c].parent) \in Documents
                                     => Unmarks(k, c, ChildNews(c))
         /\ \A new \in FrameIds : NewDocument(new, NoFrame) \in Documents
                                     => Unmarks(k, new, MainNews(new))
<1>1. step \in Nat
  BY DEF BrowserIInv
<1>2. ASSUME NEW c \in DOMAIN tree, NewDocument(c, tree[c].parent) \in Documents
      PROVE  Unmarks(k, c, ChildNews(c))
  <2>1. c \in FrameIds
    BY DEF BrowserIInv, Tree
  <2>2. FromStep(4, DestroyedEvents(c)) \in Seq(Mute)
    BY DestroyedTyped, FromStepTyped
  <2>3. FreshEvents(c, NewDocument(c, tree[c].parent)) \in Seq(Calm)
    BY <1>2, <2>1, DocumentEvents
  <2>4. Unmarks(k, c, FreshEvents(c, NewDocument(c, tree[c].parent)))
    BY <1>1, <1>2, <2>1, FreshUnmarks
  <2> QED BY <2>2, <2>3, <2>4, MuteUnmarks DEF ChildNews
<1>3. ASSUME NEW new \in FrameIds, NewDocument(new, NoFrame) \in Documents
      PROVE  Unmarks(k, new, MainNews(new))
  <2>1. <<Event("cleared", NoFrame)>> \in Seq(Mute)
    BY ClearedEvent
  <2>2. FromStep(4, <<Event("cleared", NoFrame)>>) \in Seq(Mute)
    BY <2>1, FromStepTyped
  <2>3. FreshEvents(new, NewDocument(new, NoFrame)) \in Seq(Calm)
    BY <1>3, DocumentEvents
  <2>4. Unmarks(k, new, FreshEvents(new, NewDocument(new, NoFrame)))
    BY <1>1, <1>3, FreshUnmarks
  <2> QED BY <2>2, <2>3, <2>4, MuteUnmarks DEF MainNews
<1> QED BY <1>2, <1>3

\* Navigated and new: f and the frames below it in a new document.
Renewed(k, M, f) == IF k = "url" THEN M \cup {f} ELSE M \ {f}

LEMMA AroundFacts ==
  ASSUME step >= 1, step \in Nat, NEW e \in Events, NEW fresh \in Seq(Events)
  PROVE  /\ Before(e, fresh) = <<e>> \o fresh /\ After(e, fresh) = fresh \o <<e>>
         /\ <<e>> \in Seq(Events)
<1>1. step # 0
  OBVIOUS
<1>2. Before(e, fresh) = <<e>> \o fresh
  BY <1>1, Zenon DEF Before
<1>3. After(e, fresh) = fresh \o <<e>>
  BY Zenon DEF After, FromStep
<1> QED BY <1>2, <1>3

LEMMA NewsMarks ==
  ASSUME step >= 1, step \in Nat, NEW k \in Kinds, NEW f, NEW fresh \in Seq(Events),
         Unmarks(k, f, fresh), NEW e \in Events, e.type = "navigated", e.frame = f,
         e.parent # NoFrame, NEW a \in Shapes, NEW M \in SUBSET DOMAIN a.parent,
         k = "url" \/ step >= 3 \/ M = {},
         NEW b \in Shapes, b = Reshape(a, e), NEW news \in {Before(e, fresh), After(e, fresh)}
  PROVE  Leads(Marking(k), View(a, M), news, View(b, Renewed(k, M, f) \cap DOMAIN b.parent))
<1>1. /\ Before(e, fresh) = <<e>> \o fresh /\ After(e, fresh) = fresh \o <<e>>
      /\ <<e>> \in Seq(Events)
  BY AroundFacts
<1>2. Loses(k, e) = {} /\ Gains(k, e) = IF k = "url" THEN {f} ELSE {}
  BY DEF Gains, Loses, Kinds
<1>3. PICK R : R = Renewed(k, M, f) \cap DOMAIN b.parent
  OBVIOUS
<1>4. CASE news = Before(e, fresh)
  <2>1. PICK N : N = (M \cup Gains(k, e)) \cap DOMAIN b.parent
    OBVIOUS
  <2>2. N = Remarked(k, a, M, e)
    BY <1>2, <2>1 DEF Remarked
  <2>3. N \in SUBSET DOMAIN b.parent /\ Leads(Marking(k), View(a, M), <<e>>, View(b, N))
    BY <2>2, MarkOne
  <2>4. k = "url" \/ step >= 3 \/ f \notin N
    BY <1>2, <2>1
  <2>5. Leads(Marking(k), View(b, N), fresh, View(b, Unmarked(k, N, f)))
    BY <2>3, <2>4 DEF Unmarks
  <2>6. Unmarked(k, N, f) = R
    BY <1>2, <1>3, <2>1 DEF Unmarked, Renewed
  <2>7. Leads(Marking(k), View(a, M), <<e>> \o fresh, View(b, R))
    BY <1>1, <2>3, <2>5, <2>6, LeadsFurther
  <2> QED BY <1>1, <1>3, <1>4, <2>7
<1>5. CASE news = After(e, fresh)
  <2>1. PICK N : N = Unmarked(k, M, f)
    OBVIOUS
  <2>2. N \in SUBSET DOMAIN a.parent
    BY <2>1 DEF Unmarked
  <2>3. Leads(Marking(k), View(a, M), fresh, View(a, N))
    BY <2>1 DEF Unmarks
  <2>4. R = Remarked(k, a, N, e)
    BY <1>2, <1>3, <2>1 DEF Remarked, Unmarked, Renewed
  <2>5. Leads(Marking(k), View(a, N), <<e>>, View(b, R))
    BY <2>2, <2>4, MarkOne
  <2>6. Leads(Marking(k), View(a, M), fresh \o <<e>>, View(b, R))
    BY <1>1, <2>3, <2>5, LeadsFurther
  <2> QED BY <1>1, <1>3, <1>5, <2>6
<1> QED BY <1>4, <1>5

LEMMA MainNewsMarks ==
  ASSUME step >= 1, step \in Nat, NEW k \in Kinds, NEW f, NEW fresh \in Seq(Events),
         Unmarks(k, f, fresh), NEW e \in Events, e.type = "navigated", e.frame = f,
         e.parent = NoFrame, NEW a \in Shapes, NEW M \in SUBSET DOMAIN a.parent,
         k = "url" \/ step >= 3 \/ M = {},
         NEW b \in Shapes, b = Reshape(a, e), NEW news,
         news = Before(e, fresh) \/ (news = After(e, fresh) /\ a.main \in {f, NoFrame})
  PROVE  Leads(Marking(k), View(a, M), news, View(b, IF k = "url" THEN {f} ELSE {}))
<1>1. /\ Before(e, fresh) = <<e>> \o fresh /\ After(e, fresh) = fresh \o <<e>>
      /\ <<e>> \in Seq(Events)
  BY AroundFacts
<1>2. PICK R : R = IF k = "url" THEN {f} ELSE {}
  OBVIOUS
<1>3. CASE news = Before(e, fresh)
  <2>1. PICK N : N = Remarked(k, a, M, e)
    OBVIOUS
  <2>2. N \in SUBSET DOMAIN b.parent /\ Leads(Marking(k), View(a, M), <<e>>, View(b, N))
    BY <2>1, MarkOne
  <2>3. N = IF k = "url" \/ a.main \in M THEN {f} ELSE {}
    BY <2>1 DEF Remarked
  <2>4. k = "url" \/ step >= 3 \/ f \notin N
    BY <2>3
  <2>5. Leads(Marking(k), View(b, N), fresh, View(b, Unmarked(k, N, f)))
    BY <2>2, <2>4 DEF Unmarks
  <2>6. Unmarked(k, N, f) = R
    BY <1>2, <2>3 DEF Unmarked
  <2>7. Leads(Marking(k), View(a, M), <<e>> \o fresh, View(b, R))
    BY <1>1, <2>2, <2>5, <2>6, LeadsFurther
  <2> QED BY <1>1, <1>2, <1>3, <2>7
<1>4. CASE news = After(e, fresh) /\ a.main \in {f, NoFrame}
  <2>1. PICK N : N = Unmarked(k, M, f)
    OBVIOUS
  <2>2. N \in SUBSET DOMAIN a.parent
    BY <2>1 DEF Unmarked
  <2>3. Leads(Marking(k), View(a, M), fresh, View(a, N))
    BY <2>1 DEF Unmarks
  <2>4. NoFrame \notin N
    BY <2>2, ShapeDomain, ManagerAssumption
  <2>5. R = Remarked(k, a, N, e)
    BY <1>2, <1>4, <2>1, <2>4 DEF Remarked, Unmarked
  <2>6. Leads(Marking(k), View(a, N), <<e>>, View(b, R))
    BY <2>2, <2>5, MarkOne
  <2>7. Leads(Marking(k), View(a, M), fresh \o <<e>>, View(b, R))
    BY <1>1, <2>3, <2>6, LeadsFurther
  <2> QED BY <1>1, <1>2, <1>4, <2>7
<1> QED BY <1>3, <1>4

\* Nothing is marked where there are no frames.
NoView == View(NoFrames, {})
LEMMA StillMarks ==
  ASSUME NEW k, NEW q \in Seq(Still) PROVE Leads(Marking(k), NoView, q, NoView)
<1>1. NoFrames \in Shapes /\ DOMAIN NoFrames.parent = {}
  BY AloneTyped
<1>2. ASSUME NEW e \in Still PROVE <<NoView, e, NoView>> \in Marking(k)
  <2>1. e \in Events /\ (e.type # "navigated" \/ e.parent # NoFrame)
    BY DEF Still
  <2>2. Reshape(NoFrames, e) = NoFrames
    BY <1>1, <2>1, ReshapeCases
  <2>3. Remarked(k, NoFrames, {}, e) = {}
    BY <1>1, <2>1, <2>2 DEF Remarked
  <2> QED BY <1>1, <2>1, <2>2, <2>3, MarkStep DEF NoView
<1> QED BY <1>2, LeadsNowhere

-----------------------------------------------------------------------------
(* What the handler makes of the marks and contexts of its frames.         *)

\* Two records say the same of what is in a frame.
Alike(r, s) ==
  /\ r.url = s.url /\ r.lifecycle = s.lifecycle
  /\ r.primary = s.primary /\ r.secondary = s.secondary

LEMMA AlikeWithout ==
  ASSUME NEW fs, NEW m, Forest(fs, m), NEW D, NEW x \in DOMAIN fs \ D
  PROVE  Alike(Without(fs, D)[x], fs[x])
BY DEF Without, Forest, FrameRecords, Alike

LEMMA AlikeWithoutChildren ==
  ASSUME NEW fs, NEW m, Forest(fs, m), NEW f \in DOMAIN fs, NEW x \in DOMAIN RemoveChildren(fs, f)
  PROVE  x \in DOMAIN fs /\ Alike(RemoveChildren(fs, f)[x], fs[x])
<1>1. PICK D : D = Subtree(fs, f) \ {f}
  OBVIOUS
<1>2. PICK below : below = Without(fs, D)
  OBVIOUS
<1>3. RemoveChildren(fs, f) = [below EXCEPT ![f].children = {}]
  BY <1>1, <1>2 DEF RemoveChildren
<1>4. DOMAIN below = DOMAIN fs \ D
  BY <1>2, WithoutProps
<1>5. x \in DOMAIN fs \ D /\ x \in DOMAIN below
  BY <1>3, <1>4
<1>6. below[x] \in FrameRecords
  BY <1>2, <1>5, WithoutProps
<1>7. RemoveChildren(fs, f)[x] = IF x = f THEN [below[x] EXCEPT !.children = {}] ELSE below[x]
  BY <1>3, <1>5
<1>8. Alike(RemoveChildren(fs, f)[x], below[x])
  BY <1>6, <1>7 DEF Alike, FrameRecords
<1>9. Alike(below[x], fs[x])
  BY <1>2, <1>5, AlikeWithout
<1> QED BY <1>5, <1>8, <1>9 DEF Alike

LEMMA AttachedFields ==
  ASSUME IInv, OnFrameAttached
  PROVE  \A x \in DOMAIN frames' : /\ x \in DOMAIN frames => Alike(frames'[x], frames[x])
                                   /\ x \notin DOMAIN frames => Alike(frames'[x], NewFrame(NoFrame))
<1>1. PICK f, p : f = Read.frame /\ p = Read.parent
  OBVIOUS
<1>2. frames' = Attach(frames, f, p)
  BY <1>1 DEF OnFrameAttached
<1>3. \A x \in DOMAIN frames : frames[x] \in FrameRecords
  BY DEF IInv, Forest
<1>4. CASE f \in DOMAIN frames \/ p \notin DOMAIN frames
  BY <1>2, <1>4 DEF Attach, Alike
<1>5. CASE f \notin DOMAIN frames /\ p \in DOMAIN frames
  <2>1. frames' = [x \in DOMAIN frames \cup {f} |->
                     CASE x = f -> NewFrame(p)
                       [] x = p -> [frames[x] EXCEPT !.children = @ \cup {f}]
                       [] OTHER -> frames[x]]
    BY <1>2, <1>5 DEF Attach
  <2>2. DOMAIN frames' = DOMAIN frames \cup {f}
    BY <2>1
  <2>3. Alike(frames'[f], NewFrame(NoFrame))
    <3>1. frames'[f] = NewFrame(p)
      BY <1>5, <2>1
    <3> QED BY <3>1 DEF NewFrame, Alike
  <2>4. ASSUME NEW x \in DOMAIN frames PROVE Alike(frames'[x], frames[x])
    <3>1. x # f /\ x \in DOMAIN frames \cup {f}
      BY <1>5
    <3>2. frames'[x] = IF x = p THEN [frames[x] EXCEPT !.children = @ \cup {f}] ELSE frames[x]
      BY <2>1, <3>1
    <3> QED BY <1>3, <3>2 DEF FrameRecords, Alike
  <2> QED BY <2>2, <2>3, <2>4
<1> QED BY <1>4, <1>5

LEMMA DetachedFields ==
  ASSUME IInv, OnFrameDetached
  PROVE  \A x \in DOMAIN frames' : x \in DOMAIN frames /\ Alike(frames'[x], frames[x])
<1>1. PICK f, D : f = Read.frame /\ D = Subtree(frames, f)
  OBVIOUS
<1>2. frames' = IF f \in DOMAIN frames THEN Without(frames, D) ELSE frames
  BY <1>1 DEF OnFrameDetached, RemoveFramesRecursively
<1>3. Forest(frames, main)
  BY DEF IInv
<1>4. \A x \in DOMAIN frames \ D : Alike(Without(frames, D)[x], frames[x])
  BY <1>3, AlikeWithout
<1>5. DOMAIN Without(frames, D) = DOMAIN frames \ D
  BY <1>3, WithoutProps
<1>6. \A x \in DOMAIN frames : Alike(frames[x], frames[x])
  BY DEF Alike
<1> QED BY <1>2, <1>4, <1>5, <1>6

\* A new document of a frame below: it has a url, the rest is as it was.
LEMMA ChildFields ==
  ASSUME IInv, OnFrameNavigated, Read.parent # NoFrame
  PROVE  \A x \in DOMAIN frames' :
           /\ x \in DOMAIN frames
           /\ frames'[x].url = IF x = Read.frame THEN TRUE ELSE frames[x].url
           /\ frames'[x].lifecycle = frames[x].lifecycle
           /\ frames'[x].primary = frames[x].primary /\ frames'[x].secondary = frames[x].secondary
<1>1. PICK f, rest : f = Read.frame /\ rest = RemoveChildren(frames, f)
  OBVIOUS
<1>2. frames' = IF f \in DOMAIN frames THEN [rest EXCEPT ![f].url = TRUE] ELSE frames
  BY <1>1 DEF OnFrameNavigated, NavigateChild
<1>3. Forest(frames, main)
  BY DEF IInv
<1>4. CASE f \notin DOMAIN frames
  BY <1>1, <1>2, <1>4
<1>5. CASE f \in DOMAIN frames
  <2>1. ASSUME NEW x \in DOMAIN rest
        PROVE  x \in DOMAIN frames /\ Alike(rest[x], frames[x]) /\ rest[x] \in FrameRecords
    BY <1>1, <1>3, <1>5, AlikeWithoutChildren, ShapeWithoutChildren
  <2>2. DOMAIN frames' = DOMAIN rest
        /\ \A x \in DOMAIN rest : frames'[x] = IF x = f THEN [rest[x] EXCEPT !.url = TRUE] ELSE rest[x]
    BY <1>2, <1>5
  <2>3. ASSUME NEW r \in FrameRecords
        PROVE  /\ [r EXCEPT !.url = TRUE].url = TRUE
               /\ [r EXCEPT !.url = TRUE].lifecycle = r.lifecycle
               /\ [r EXCEPT !.url = TRUE].primary = r.primary
               /\ [r EXCEPT !.url = TRUE].secondary = r.secondary
    BY DEF FrameRecords
  <2>4. ASSUME NEW x \in DOMAIN rest
        PROVE  /\ frames'[x].lifecycle = frames[x].lifecycle
               /\ frames'[x].primary = frames[x].primary
               /\ frames'[x].secondary = frames[x].secondary
    <3>1. PICK r, u : r = rest[x] /\ u = [r EXCEPT !.url = TRUE]
      OBVIOUS
    <3>2. r \in FrameRecords
      BY <2>1, <3>1
    <3>3. u.lifecycle = r.lifecycle /\ u.primary = r.primary /\ u.secondary = r.secondary
      BY <2>3, <3>1, <3>2
    <3>4. frames'[x] = u \/ frames'[x] = r
      BY <2>2, <3>1
    <3>5. /\ r.lifecycle = frames[x].lifecycle
          /\ r.primary = frames[x].primary /\ r.secondary = frames[x].secondary
      BY <2>1, <3>1, Zenon DEF Alike
    <3> QED BY <3>3, <3>4, <3>5
  <2>5. ASSUME NEW x \in DOMAIN rest, x # f PROVE frames'[x].url = frames[x].url
    <3>1. frames'[x] = rest[x]
      BY <2>2, <2>5
    <3>2. rest[x].url = frames[x].url
      BY <2>1, Zenon DEF Alike
    <3> QED BY <3>1, <3>2, Zenon
  <2>6. f \in DOMAIN rest => frames'[f].url = TRUE
    BY <2>1, <2>2, <2>3
  <2>7. ASSUME NEW x \in DOMAIN rest
        PROVE  frames'[x].url = IF x = f THEN TRUE ELSE frames[x].url
    <3>1. CASE x = f
      BY <2>6, <3>1
    <3>2. CASE x # f
      BY <2>5, <3>2, Zenon
    <3> QED BY <3>1, <3>2
  <2> QED BY <1>1, <2>1, <2>2, <2>4, <2>7
<1> QED BY <1>4, <1>5

\* A new main frame takes over what the one before it had.
Inherited == IF main = NoFrame THEN NewFrame(NoFrame) ELSE frames[main]
LEMMA MainFields ==
  ASSUME IInv, OnFrameNavigated, Read.parent = NoFrame
  PROVE  /\ DOMAIN frames' = {Read.frame} /\ main' = Read.frame /\ frames'[Read.frame].url = TRUE
         /\ frames'[Read.frame].lifecycle = Inherited.lifecycle
         /\ frames'[Read.frame].primary = Inherited.primary
         /\ frames'[Read.frame].secondary = Inherited.secondary
<1>1. PICK f, rest : f = Read.frame /\ rest = IF main = NoFrame THEN frames ELSE RemoveChildren(frames, main)
  OBVIOUS
<1>2. PICK r : r = IF main = NoFrame THEN NewFrame(NoFrame) ELSE rest[main]
  OBVIOUS
<1>3. Forest(frames, main)
  BY DEF IInv
<1>4. ~NavigationPanics
  BY <1>3 DEF Forest, Mains, NavigationPanics
<1>5. /\ main' = f
      /\ frames' = [x \in (DOMAIN rest \ {main}) \cup {f} |->
                      IF x = f THEN [r EXCEPT !.url = TRUE] ELSE rest[x]]
  BY <1>1, <1>2, <1>4 DEF OnFrameNavigated, NavigateMain
<1>6. DOMAIN rest \ {main} = {} /\ r \in FrameRecords /\ Alike(r, Inherited)
  <2>1. CASE main = NoFrame
    <3>1. DOMAIN frames = {}
      BY <1>3, <2>1, MainAboveAll
    <3>2. NewFrame(NoFrame) \in FrameRecords
      BY DEF NewFrame, FrameRecords
    <3> QED BY <1>1, <1>2, <2>1, <3>1, <3>2 DEF Inherited, Alike
  <2>2. CASE main # NoFrame
    <3>1. main \in DOMAIN frames /\ Subtree(frames, main) = DOMAIN frames
      BY <1>3, <2>2, MainAboveAll
    <3>2. rest = RemoveChildren(frames, main) /\ r = rest[main]
      BY <1>1, <1>2, <2>2
    <3>3. /\ DOMAIN rest = DOMAIN frames \ (Subtree(frames, main) \ {main})
          /\ \A x \in DOMAIN rest : rest[x] \in FrameRecords
      BY <1>3, <3>1, <3>2, ShapeWithoutChildren
    <3>4. DOMAIN rest = {main} /\ r \in FrameRecords
      BY <3>1, <3>2, <3>3
    <3>5. Alike(rest[main], frames[main])
      BY <1>3, <3>1, <3>2, <3>4, AlikeWithoutChildren
    <3> QED BY <2>2, <3>2, <3>4, <3>5 DEF Inherited
  <2> QED BY <2>1, <2>2
<1>7. DOMAIN frames' = {f} /\ frames'[f] = [r EXCEPT !.url = TRUE]
  BY <1>5, <1>6
<1>8. /\ frames'[f].url = TRUE /\ frames'[f].lifecycle = r.lifecycle
      /\ frames'[f].primary = r.primary /\ frames'[f].secondary = r.secondary
  BY <1>6, <1>7 DEF FrameRecords
<1> QED BY <1>1, <1>5, <1>6, <1>7, <1>8 DEF Alike

RemarkedNow(k) == Marked(k, frames') = Remarked(k, ShapeNow, Marked(k, frames), Read)

LEMMA HasAlike ==
  ASSUME NEW k \in Kinds
  PROVE  /\ \A r, s : Alike(r, s) => (Has(k, r) <=> Has(k, s))
         /\ \A p : ~Has(k, NewFrame(p))
<1>1. ASSUME NEW r, NEW s, Alike(r, s) PROVE Has(k, r) <=> Has(k, s)
  <2>1. r.url = s.url /\ r.lifecycle = s.lifecycle
    BY <1>1, Zenon DEF Alike
  <2> QED BY <2>1, Zenon DEF Has
<1>2. ASSUME NEW p PROVE ~Has(k, NewFrame(p))
  <2>1. NewFrame(p).url = FALSE /\ NewFrame(p).lifecycle = {}
    BY DEF NewFrame
  <2> QED BY <2>1 DEF Has
<1> QED BY <1>1, <1>2

\* The marks follow from those of each frame.
LEMMA FieldsRemark ==
  ASSUME NEW k \in Kinds, Reshaped, DOMAIN ShapeNow'.parent = DOMAIN frames',
         ~(Read.type = "navigated" /\ Read.parent = NoFrame),
         \A x \in DOMAIN frames' :
           Has(k, frames'[x]) <=> /\ x \in Marked(k, frames) \cup Gains(k, Read)
                                  /\ x \notin Loses(k, Read)
  PROVE  RemarkedNow(k)
<1>1. PICK M, G, L : M = Marked(k, frames) /\ G = Gains(k, Read) /\ L = Loses(k, Read)
  OBVIOUS
<1>2. Marked(k, frames') = ((M \cup G) \ L) \cap DOMAIN frames'
  BY <1>1 DEF Marked
<1>3. Remarked(k, ShapeNow, M, Read) = ((M \cup G) \ L) \cap DOMAIN frames'
  BY <1>1, Zenon DEF Remarked, Reshaped
<1> QED BY <1>1, <1>2, <1>3 DEF RemarkedNow

LEMMA TreeRemark ==
  ASSUME IInv, NEW k \in Kinds, Reshaped, DOMAIN ShapeNow'.parent = DOMAIN frames',
         OnFrameAttached \/ OnFrameDetached \/ (OnFrameNavigated /\ Read.parent # NoFrame)
  PROVE  RemarkedNow(k)
<1>1. \A x : x \in Marked(k, frames) <=> x \in DOMAIN frames /\ Has(k, frames[x])
  BY DEF Marked
<1>2. CASE OnFrameAttached
  <2>1. Read.type = "attached"
    BY <1>2 DEF OnFrameAttached, Reads
  <2>2. Gains(k, Read) = {} /\ Loses(k, Read) = {}
    BY <2>1 DEF Gains, Loses, Kinds
  <2>3. ASSUME NEW x \in DOMAIN frames' PROVE Has(k, frames'[x]) <=> x \in Marked(k, frames)
    <3>1. CASE x \in DOMAIN frames
      <4>1. Alike(frames'[x], frames[x])
        BY <1>2, <3>1, AttachedFields
      <4> QED BY <1>1, <3>1, <4>1, HasAlike
    <3>2. CASE x \notin DOMAIN frames
      <4>1. Alike(frames'[x], NewFrame(NoFrame))
        BY <1>2, <3>2, AttachedFields
      <4> QED BY <1>1, <3>2, <4>1, HasAlike
    <3> QED BY <3>1, <3>2
  <2> QED BY <2>1, <2>2, <2>3, FieldsRemark
<1>3. CASE OnFrameDetached
  <2>1. Read.type = "detached"
    BY <1>3 DEF OnFrameDetached, Reads
  <2>2. Gains(k, Read) = {} /\ Loses(k, Read) = {}
    BY <2>1 DEF Gains, Loses, Kinds
  <2>3. ASSUME NEW x \in DOMAIN frames' PROVE Has(k, frames'[x]) <=> x \in Marked(k, frames)
    <3>1. x \in DOMAIN frames /\ Alike(frames'[x], frames[x])
      BY <1>3, DetachedFields
    <3> QED BY <1>1, <3>1, HasAlike
  <2> QED BY <2>1, <2>2, <2>3, FieldsRemark
<1>4. CASE OnFrameNavigated /\ Read.parent # NoFrame
  <2>1. Read.type = "navigated"
    BY <1>4 DEF OnFrameNavigated, Reads
  <2>2. Gains(k, Read) = (IF k = "url" THEN {Read.frame} ELSE {}) /\ Loses(k, Read) = {}
    BY <2>1 DEF Gains, Loses, Kinds
  <2>3. ASSUME NEW x \in DOMAIN frames'
        PROVE  Has(k, frames'[x]) <=> x \in Marked(k, frames) \cup Gains(k, Read)
    <3>1. /\ x \in DOMAIN frames
          /\ frames'[x].url = IF x = Read.frame THEN TRUE ELSE frames[x].url
          /\ frames'[x].lifecycle = frames[x].lifecycle
      BY <1>4, ChildFields
    <3>2. CASE k = "url"
      <4>1. Has(k, frames'[x]) <=> x = Read.frame \/ frames[x].url = TRUE
        BY <3>1, <3>2, Zenon DEF Has
      <4>2. x \in Marked(k, frames) <=> frames[x].url = TRUE
        BY <1>1, <3>1, <3>2, Zenon DEF Has
      <4> QED BY <2>2, <3>2, <4>1, <4>2
    <3>3. CASE k # "url"
      BY <1>1, <2>2, <3>1, <3>3 DEF Has
    <3> QED BY <3>2, <3>3
  <2> QED BY <1>4, <2>1, <2>2, <2>3, FieldsRemark
<1> QED BY <1>2, <1>3, <1>4

LEMMA MainRemark ==
  ASSUME IInv, NEW k \in Kinds, OnFrameNavigated, Read.parent = NoFrame PROVE RemarkedNow(k)
<1>1. Read.type = "navigated"
  BY DEF OnFrameNavigated, Reads
<1>2. PICK f : f = Read.frame
  OBVIOUS
<1>3. DOMAIN frames' = {f} /\ frames'[f].url = TRUE /\ frames'[f].lifecycle = Inherited.lifecycle
  BY <1>2, MainFields
<1>4. Forest(frames, main)
  BY DEF IInv
<1>5. ShapeNow.main = main
  BY <1>4, ShapeTyped DEF ShapeNow
<1>6. Has(k, frames'[f]) <=> k = "url" \/ main \in Marked(k, frames)
  <2>1. CASE k = "url"
    BY <1>3, <2>1, Zenon DEF Has
  <2>2. CASE k # "url" /\ main = NoFrame
    <3>1. main \notin DOMAIN frames
      BY <1>4, <2>2, MainAboveAll
    <3>2. frames'[f].lifecycle = {}
      BY <1>3, <2>2 DEF Inherited, NewFrame
    <3> QED BY <2>2, <3>1, <3>2 DEF Has, Marked
  <2>3. CASE k # "url" /\ main # NoFrame
    <3>1. main \in DOMAIN frames
      BY <1>4, <2>3, MainAboveAll
    <3>2. frames'[f].lifecycle = frames[main].lifecycle
      BY <1>3, <2>3 DEF Inherited
    <3> QED BY <2>3, <3>1, <3>2 DEF Has, Marked
  <2> QED BY <2>1, <2>2, <2>3
<1>7. Marked(k, frames') = IF k = "url" \/ main \in Marked(k, frames) THEN {f} ELSE {}
  BY <1>3, <1>6 DEF Marked
<1> QED BY <1>1, <1>2, <1>5, <1>7 DEF RemarkedNow, Remarked

LEMMA OneFrameRemark ==
  ASSUME NEW k \in Kinds, Reshaped, DOMAIN ShapeNow'.parent = DOMAIN frames',
         Read.type # "navigated", NEW f, NEW r,
         frames' = IF f \in DOMAIN frames THEN [frames EXCEPT ![f] = r] ELSE frames,
         Gains(k, Read) \subseteq {f}, Loses(k, Read) \subseteq {f},
         f \in DOMAIN frames =>
           (Has(k, r) <=> (Has(k, frames[f]) \/ Gains(k, Read) # {}) /\ Loses(k, Read) = {})
  PROVE  RemarkedNow(k)
<1>1. \A x : x \in Marked(k, frames) <=> x \in DOMAIN frames /\ Has(k, frames[x])
  BY DEF Marked
<1>2. PICK G, L : G = Gains(k, Read) /\ L = Loses(k, Read)
  OBVIOUS
<1>3. DOMAIN frames' = DOMAIN frames
  OBVIOUS
<1>4. ASSUME NEW x \in DOMAIN frames'
      PROVE  Has(k, frames'[x]) <=> x \in Marked(k, frames) \cup G /\ x \notin L
  <2>1. CASE x = f
    <3>1. frames'[x] = r /\ f \in DOMAIN frames
      BY <1>3, <2>1
    <3>2. Has(k, r) <=> (Has(k, frames[f]) \/ G # {}) /\ L = {}
      BY <1>2, <3>1
    <3>3. (G # {} <=> x \in G) /\ (L = {} <=> x \notin L)
      BY <1>2, <2>1
    <3>4. x \in Marked(k, frames) <=> Has(k, frames[f])
      BY <1>1, <2>1, <3>1
    <3> QED BY <3>1, <3>2, <3>3, <3>4
  <2>2. CASE x # f
    <3>1. frames'[x] = frames[x] /\ x \in DOMAIN frames
      BY <1>3, <2>2
    <3>2. x \notin G /\ x \notin L
      BY <1>2, <2>2
    <3> QED BY <1>1, <3>1, <3>2
  <2> QED BY <2>1, <2>2
<1> QED BY <1>2, <1>4, FieldsRemark

LEMMA EventsRemark ==
  ASSUME IInv, NEW k \in Kinds, Reshaped, DOMAIN ShapeNow'.parent = DOMAIN frames',
         OnFrameNavigatedWithin \/ OnFrameStartedLoading \/ OnLifecycleEvent
  PROVE  RemarkedNow(k)
<1>0. PICK f : f = Read.frame
  OBVIOUS
<1>1. \A x \in DOMAIN frames : frames[x] \in FrameRecords
  BY DEF IInv, Forest
<1>2. CASE OnFrameNavigatedWithin
  <2>1. PICK r : r = [frames[f] EXCEPT !.url = TRUE]
    OBVIOUS
  <2>2. /\ frames' = IF f \in DOMAIN frames THEN [frames EXCEPT ![f] = r] ELSE frames
        /\ Read.type = "within"
    BY <1>0, <1>2, <2>1 DEF OnFrameNavigatedWithin, Reads
  <2>3. Gains(k, Read) = (IF k = "url" THEN {f} ELSE {}) /\ Loses(k, Read) = {}
    BY <1>0, <2>2 DEF Gains, Loses, Kinds
  <2>4. ASSUME f \in DOMAIN frames
        PROVE  Has(k, r) <=> (Has(k, frames[f]) \/ Gains(k, Read) # {}) /\ Loses(k, Read) = {}
    <3>1. r.url = TRUE /\ r.lifecycle = frames[f].lifecycle
      BY <1>1, <2>1, <2>4 DEF FrameRecords
    <3>2. CASE k = "url"
      <4>1. Has(k, r)
        BY <3>1, <3>2, Zenon DEF Has
      <4> QED BY <2>3, <3>2, <4>1
    <3>3. CASE k # "url"
      BY <2>3, <3>1, <3>3 DEF Has
    <3> QED BY <3>2, <3>3
  <2>5. Gains(k, Read) \subseteq {f} /\ Loses(k, Read) \subseteq {f} /\ Read.type # "navigated"
    BY <2>2, <2>3
  <2> QED BY <2>2, <2>4, <2>5, OneFrameRemark
<1>3. CASE OnFrameStartedLoading
  <2>1. PICK r : r = [frames[f] EXCEPT !.lifecycle = {}]
    OBVIOUS
  <2>2. /\ frames' = IF f \in DOMAIN frames THEN [frames EXCEPT ![f] = r] ELSE frames
        /\ Read.type = "startedLoading"
    BY <1>0, <1>3, <2>1 DEF OnFrameStartedLoading, Reads
  <2>3. Gains(k, Read) = {} /\ Loses(k, Read) = IF k # "url" THEN {f} ELSE {}
    BY <1>0, <2>2 DEF Gains, Loses, Kinds
  <2>4. ASSUME f \in DOMAIN frames
        PROVE  Has(k, r) <=> (Has(k, frames[f]) \/ Gains(k, Read) # {}) /\ Loses(k, Read) = {}
    <3>1. r.url = frames[f].url /\ r.lifecycle = {}
      BY <1>1, <2>1, <2>4 DEF FrameRecords
    <3>2. CASE k = "url"
      <4>1. Has(k, r) <=> Has(k, frames[f])
        BY <3>1, <3>2, Zenon DEF Has
      <4> QED BY <2>3, <3>2, <4>1
    <3>3. CASE k # "url"
      BY <2>3, <3>1, <3>3 DEF Has
    <3> QED BY <3>2, <3>3
  <2>5. Gains(k, Read) \subseteq {f} /\ Loses(k, Read) \subseteq {f} /\ Read.type # "navigated"
    BY <2>2, <2>3
  <2> QED BY <2>2, <2>4, <2>5, OneFrameRemark
<1>4. CASE OnLifecycleEvent
  <2>1. PICK e \in {"init", "DOMContentLoaded", "load"} :
          /\ Reads(e)
          /\ frames' = IF f \notin DOMAIN frames THEN frames
                       ELSE [frames EXCEPT ![f].lifecycle = IF e = "init" THEN {e} ELSE @ \cup {e}]
    BY <1>0, <1>4 DEF OnLifecycleEvent
  <2>2. PICK told : told = IF e = "init" THEN {e} ELSE frames[f].lifecycle \cup {e}
    OBVIOUS
  <2>3. PICK r : r = [frames[f] EXCEPT !.lifecycle = told]
    OBVIOUS
  <2>4. /\ frames' = IF f \in DOMAIN frames THEN [frames EXCEPT ![f] = r] ELSE frames
        /\ Read.type = e
    BY <2>1, <2>2, <2>3 DEF Reads
  <2>5. /\ Gains(k, Read) = (IF k = e THEN {f} ELSE {})
        /\ Loses(k, Read) = (IF k # "url" /\ e = "init" THEN {f} ELSE {})
    BY <1>0, <2>4 DEF Gains, Loses, Kinds
  <2>6. ASSUME f \in DOMAIN frames
        PROVE  Has(k, r) <=> (Has(k, frames[f]) \/ Gains(k, Read) # {}) /\ Loses(k, Read) = {}
    <3>1. r.url = frames[f].url /\ r.lifecycle = told
      BY <1>1, <2>3, <2>6 DEF FrameRecords
    <3>2. CASE k = "url"
      <4>1. Has(k, r) <=> Has(k, frames[f])
        BY <3>1, <3>2, Zenon DEF Has
      <4> QED BY <2>5, <3>2, <4>1
    <3>3. CASE k # "url" /\ e = "init"
      BY <2>2, <2>5, <3>1, <3>3 DEF Has, Kinds
    <3>4. CASE k # "url" /\ e # "init"
      BY <2>2, <2>5, <3>1, <3>4 DEF Has, Kinds
    <3> QED BY <3>2, <3>3, <3>4
  <2>7. Gains(k, Read) \subseteq {f} /\ Loses(k, Read) \subseteq {f} /\ Read.type # "navigated"
    BY <2>4, <2>5
  <2> QED BY <2>4, <2>6, <2>7, OneFrameRemark
<1> QED BY <1>2, <1>3, <1>4

\* Contexts come and go without a mark.
LEMMA ContextsRemark ==
  ASSUME IInv, NEW k \in Kinds, Reshaped, DOMAIN ShapeNow'.parent = DOMAIN frames',
         DOMAIN frames' = DOMAIN frames, Read.type \in {"primary", "secondary", "destroyed", "cleared"},
         \A x \in DOMAIN frames : /\ frames'[x].url = frames[x].url
                                  /\ frames'[x].lifecycle = frames[x].lifecycle
  PROVE  RemarkedNow(k)
<1>1. Gains(k, Read) = {} /\ Loses(k, Read) = {}
  BY DEF Gains, Loses, Kinds
<1>2. ASSUME NEW x \in DOMAIN frames' PROVE Has(k, frames'[x]) <=> x \in Marked(k, frames)
  <2>1. frames'[x].url = frames[x].url /\ frames'[x].lifecycle = frames[x].lifecycle
    OBVIOUS
  <2>2. Has(k, frames'[x]) <=> Has(k, frames[x])
    BY <2>1, Zenon DEF Has
  <2> QED BY <2>2 DEF Marked
<1> QED BY <1>1, <1>2, FieldsRemark

\* Two records agree on the marks.
SameMarks(r, s) == r.url = s.url /\ r.lifecycle = s.lifecycle

LEMMA CreatedFields ==
  ASSUME IInv, NEW world \in {"primary", "secondary"}, OnContextCreated(world)
  PROVE  /\ DOMAIN frames' = DOMAIN frames /\ Read.type = world
         /\ \A x \in DOMAIN frames :
              /\ SameMarks(frames'[x], frames[x])
              /\ frames'[x].primary = IF world = "primary" /\ x = Read.frame
                                      THEN Read.context ELSE frames[x].primary
              /\ frames'[x].secondary =
                   IF world = "secondary" /\ x = Read.frame /\ frames[x].secondary = NoContext
                   THEN Read.context ELSE frames[x].secondary
<1>1. PICK f, c : f = Read.frame /\ c = Read.context
  OBVIOUS
<1>2. Read.type = world
  BY DEF OnContextCreated, Reads
<1>3. CASE f \notin DOMAIN frames
  <2>1. frames' = frames
    BY <1>1, <1>3 DEF OnContextCreated
  <2> QED BY <1>1, <1>2, <1>3, <2>1 DEF SameMarks
<1>4. CASE f \in DOMAIN frames
  <2>1. PICK s, r : /\ s = frames[f]
                    /\ r = IF world = "primary" THEN [s EXCEPT !.primary = c]
                           ELSE IF s.secondary = NoContext THEN [s EXCEPT !.secondary = c] ELSE s
    OBVIOUS
  <2>2. frames' = [frames EXCEPT ![f] = r]
    BY <1>1, <1>4, <2>1 DEF OnContextCreated
  <2>3. s \in FrameRecords
    BY <1>4, <2>1 DEF IInv, Forest
  <2>4. /\ SameMarks(r, s)
        /\ r.primary = IF world = "primary" THEN c ELSE s.primary
        /\ r.secondary = IF world = "secondary" /\ s.secondary = NoContext THEN c ELSE s.secondary
    <3>1. CASE world = "primary"
      <4>1. r = [s EXCEPT !.primary = c]
        BY <2>1, <3>1
      <4> QED BY <2>3, <3>1, <4>1 DEF FrameRecords, SameMarks
    <3>2. CASE world = "secondary" /\ s.secondary = NoContext
      <4>1. r = [s EXCEPT !.secondary = c]
        BY <2>1, <3>2
      <4> QED BY <2>3, <3>2, <4>1 DEF FrameRecords, SameMarks
    <3>3. CASE world = "secondary" /\ s.secondary # NoContext
      <4>1. r = s
        BY <2>1, <3>3
      <4> QED BY <3>3, <4>1 DEF SameMarks
    <3> QED BY <3>1, <3>2, <3>3
  <2>5. DOMAIN frames' = DOMAIN frames
    BY <2>2
  <2>6. ASSUME NEW x \in DOMAIN frames, x # f PROVE frames'[x] = frames[x] /\ SameMarks(frames'[x], frames[x])
    <3>1. frames'[x] = frames[x]
      BY <2>2, <2>6
    <3> QED BY <3>1 DEF SameMarks
  <2>7. frames'[f] = r
    BY <1>4, <2>2
  <2> QED BY <1>1, <1>2, <2>1, <2>4, <2>5, <2>6, <2>7
<1> QED BY <1>3, <1>4

LEMMA DestroyedFields ==
  ASSUME IInv, OnContextDestroyed
  PROVE  /\ DOMAIN frames' = DOMAIN frames /\ Read.type = "destroyed"
         /\ \A x \in DOMAIN frames :
              /\ SameMarks(frames'[x], frames[x])
              /\ Read.context \in DOMAIN contexts /\ contexts[Read.context] = x =>
                   Alike(frames'[x], DestroyContext(frames[x], Read.context))
              /\ ~(Read.context \in DOMAIN contexts /\ contexts[Read.context] = x) =>
                   frames'[x] = frames[x]
<1>1. PICK c : c = Read.context
  OBVIOUS
<1>2. Read.type = "destroyed"
  BY DEF OnContextDestroyed, Reads
<1>3. CASE ~(c \in DOMAIN contexts /\ contexts[c] \in DOMAIN frames)
  <2>1. frames' = frames
    BY <1>1, <1>3 DEF OnContextDestroyed
  <2>2. \A x \in DOMAIN frames : SameMarks(frames[x], frames[x])
    BY DEF SameMarks
  <2> QED BY <1>1, <1>2, <1>3, <2>1, <2>2
<1>4. CASE c \in DOMAIN contexts /\ contexts[c] \in DOMAIN frames
  <2>1. PICK f, s, r : f = contexts[c] /\ s = frames[f] /\ r = DestroyContext(s, c)
    OBVIOUS
  <2>2. frames' = [frames EXCEPT ![f] = r]
    BY <1>1, <1>4, <2>1 DEF OnContextDestroyed
  <2>3. s \in FrameRecords
    BY <1>4, <2>1 DEF IInv, Forest
  <2>4. SameMarks(r, s) /\ Alike(r, r)
    <3>1. r \in {[s EXCEPT !.primary = NoContext], [s EXCEPT !.secondary = NoContext], s}
      BY <2>1 DEF DestroyContext
    <3> QED BY <2>3, <3>1 DEF FrameRecords, SameMarks, Alike
  <2>5. DOMAIN frames' = DOMAIN frames
    BY <2>2
  <2>6. ASSUME NEW x \in DOMAIN frames, x # f PROVE frames'[x] = frames[x] /\ SameMarks(frames'[x], frames[x])
    <3>1. frames'[x] = frames[x]
      BY <2>2, <2>6
    <3> QED BY <3>1 DEF SameMarks
  <2>7. frames'[f] = r
    BY <1>4, <2>1, <2>2
  <2> QED BY <1>1, <1>2, <1>4, <2>1, <2>4, <2>5, <2>6, <2>7
<1> QED BY <1>3, <1>4

LEMMA ClearedFields ==
  ASSUME IInv, OnContextsCleared
  PROVE  /\ DOMAIN frames' = DOMAIN frames /\ Read.type = "cleared"
         /\ \A x \in DOMAIN frames :
              /\ SameMarks(frames'[x], frames[x])
              /\ x \in Range(contexts) => /\ frames'[x].primary = NoContext
                                          /\ frames'[x].secondary = NoContext
              /\ x \notin Range(contexts) => frames'[x] = frames[x]
<1>1. Read.type = "cleared"
  BY DEF OnContextsCleared, Reads
<1>2. PICK R : R = Range(contexts)
  OBVIOUS
<1>3. frames' = [f \in DOMAIN frames |->
                   IF f \in R THEN [frames[f] EXCEPT !.primary = NoContext, !.secondary = NoContext]
                   ELSE frames[f]]
  BY <1>2 DEF OnContextsCleared
<1>4. ASSUME NEW x \in DOMAIN frames
      PROVE  /\ SameMarks(frames'[x], frames[x])
             /\ x \in R => frames'[x].primary = NoContext /\ frames'[x].secondary = NoContext
             /\ x \notin R => frames'[x] = frames[x]
  <2>1. PICK s \in FrameRecords : s = frames[x]
    BY DEF IInv, Forest
  <2>2. frames'[x] = IF x \in R THEN [s EXCEPT !.primary = NoContext, !.secondary = NoContext] ELSE s
    BY <1>3, <2>1
  <2>3. PICK r : r = [s EXCEPT !.primary = NoContext, !.secondary = NoContext]
    OBVIOUS
  <2>4. SameMarks(r, s) /\ SameMarks(s, s) /\ r.primary = NoContext /\ r.secondary = NoContext
    BY <2>1, <2>3 DEF FrameRecords, SameMarks
  <2> QED BY <2>1, <2>2, <2>3, <2>4
<1>5. DOMAIN frames' = DOMAIN frames
  BY <1>3
<1> QED BY <1>1, <1>2, <1>4, <1>5

ViewNow(k) == View(ShapeNow, Marked(k, frames))

LEMMA ManagerRemarks ==
  ASSUME IInv, NEW k \in Kinds, Manager, Reshaped, DOMAIN ShapeNow'.parent = DOMAIN frames'
  PROVE  RemarkedNow(k)
<1>1. CASE OnFrameAttached \/ OnFrameDetached
  BY <1>1, TreeRemark
<1>2. CASE OnFrameNavigated
  BY <1>2, TreeRemark, MainRemark
<1>3. CASE OnFrameNavigatedWithin \/ OnFrameStartedLoading \/ OnLifecycleEvent
  BY <1>3, EventsRemark
<1>4. ASSUME NEW world \in {"primary", "secondary"}, OnContextCreated(world) PROVE RemarkedNow(k)
  <2>1. /\ DOMAIN frames' = DOMAIN frames /\ Read.type = world
        /\ \A x \in DOMAIN frames : SameMarks(frames'[x], frames[x])
    BY <1>4, CreatedFields
  <2>2. \A x \in DOMAIN frames : /\ frames'[x].url = frames[x].url
                                 /\ frames'[x].lifecycle = frames[x].lifecycle
    BY <2>1, Zenon DEF SameMarks
  <2>3. Read.type \in {"primary", "secondary", "destroyed", "cleared"}
    BY <2>1
  <2> QED BY <2>1, <2>2, <2>3, ContextsRemark
<1>5. CASE OnContextDestroyed
  <2>1. /\ DOMAIN frames' = DOMAIN frames /\ Read.type = "destroyed"
        /\ \A x \in DOMAIN frames : SameMarks(frames'[x], frames[x])
    BY <1>5, DestroyedFields
  <2>2. \A x \in DOMAIN frames : /\ frames'[x].url = frames[x].url
                                 /\ frames'[x].lifecycle = frames[x].lifecycle
    BY <2>1, Zenon DEF SameMarks
  <2>3. Read.type \in {"primary", "secondary", "destroyed", "cleared"}
    BY <2>1
  <2> QED BY <2>1, <2>2, <2>3, ContextsRemark
<1>6. CASE OnContextsCleared
  <2>1. /\ DOMAIN frames' = DOMAIN frames /\ Read.type = "cleared"
        /\ \A x \in DOMAIN frames : SameMarks(frames'[x], frames[x])
    BY <1>6, ClearedFields
  <2>2. \A x \in DOMAIN frames : /\ frames'[x].url = frames[x].url
                                 /\ frames'[x].lifecycle = frames[x].lifecycle
    BY <2>1, Zenon DEF SameMarks
  <2>3. Read.type \in {"primary", "secondary", "destroyed", "cleared"}
    BY <2>1
  <2> QED BY <2>1, <2>2, <2>3, ContextsRemark
<1> QED BY <1>1, <1>2, <1>3, <1>4, <1>5, <1>6 DEF Manager

\* Each handler makes of the marks what Remarked says.
LEMMA ManagerMarks ==
  ASSUME IInv, NEW k \in Kinds, Manager
  PROVE  <<ViewNow(k), Head(inbox), ViewNow(k)'>> \in Marking(k)
<1>1. IInv'
  BY NextIInv
<1>2. DOMAIN ShapeNow.parent = DOMAIN frames /\ DOMAIN ShapeNow'.parent = DOMAIN frames'
  BY <1>1, ShapeTyped DEF IInv, ShapeNow
<1>3. <<ShapeNow, Read, ShapeNow'>> \in Moves
  BY ManagerMoves DEF Read
<1>4. PICK a, e, b : a = ShapeNow /\ e = Read /\ b = ShapeNow'
  OBVIOUS
<1>5. a \in Shapes /\ e \in Events /\ b \in Shapes /\ b = Reshape(a, e)
  <2>1. <<a, e, b>> \in Moves
    BY <1>3, <1>4
  <2> QED BY <2>1 DEF Moves
<1>6. RemarkedNow(k)
  BY <1>2, <1>4, <1>5, ManagerRemarks DEF Reshaped
<1>7. PICK M, N : M = Marked(k, frames) /\ N = Marked(k, frames')
  OBVIOUS
<1>8. M \in SUBSET DOMAIN a.parent /\ N = Remarked(k, a, M, e)
  BY <1>2, <1>4, <1>6, <1>7 DEF Marked, RemarkedNow
<1>9. <<View(a, M), e, View(b, N)>> \in Marking(k)
  BY <1>5, <1>8, MarkStep
<1>10. ViewNow(k) = View(a, M) /\ ViewNow(k)' = View(b, N)
  BY <1>4, <1>7 DEF ViewNow
<1> QED BY <1>4, <1>9, <1>10 DEF Read

-----------------------------------------------------------------------------
(* What the browser told, as marks of its frames.                          *)

Told(k, d) == IF k = "url" THEN d.reported = TRUE ELSE k \in d.told
MarksOf(k, t) == {f \in DOMAIN t : Told(k, t[f])}
TreeView(k) == View(TreeShape, MarksOf(k, tree))

\* Nothing is told of lifecycles before they are enabled.
Untold(t, n) == n <= 2 => \A f \in DOMAIN t : t[f].told = {}

LEMMA TreeMarksFacts ==
  ASSUME BrowserIInv, Untold(tree, step), NEW k \in Kinds
  PROVE  /\ MarksOf(k, tree) \in SUBSET DOMAIN TreeShape.parent
         /\ MarksOf(k, tree) \subseteq DOMAIN tree
         /\ k = "url" \/ step >= 3 \/ MarksOf(k, tree) = {}
<1>1. DOMAIN TreeShape.parent = DOMAIN tree
  BY TreeShapeFacts
<1>2. ASSUME k # "url", ~(step >= 3) PROVE MarksOf(k, tree) = {}
  <2>1. step <= 2
    BY <1>2 DEF BrowserIInv
  <2>2. \A f \in DOMAIN tree : tree[f].told = {}
    BY <2>1 DEF Untold
  <2> QED BY <1>2, <2>2 DEF MarksOf, Told
<1> QED BY <1>1, <1>2 DEF MarksOf

\* The same of the tree after an act.
LEMMA NextDomain ==
  ASSUME BrowserIInv' PROVE TreeShape' \in Shapes /\ DOMAIN TreeShape'.parent = DOMAIN tree'
BY TreeShapeTyped DEF BrowserIInv, TreeShape

\* As Follows, with the marks of one kind.
MarksFollow(k) ==
  /\ step >= 1 => Leads(Marking(k), TreeView(k), inbox', TreeView(k)')
  /\ step <= 1 => \/ inbox' \in Seq(Still)
                  \/ step = 1 /\ Leads(Marking(k), NoView, inbox', TreeView(k)')

LEMMA NewDocumentFacts ==
  ASSUME NEW f, NEW p
  PROVE  /\ Document(f, p).reported = FALSE /\ Document(f, p).told = {}
         /\ NewDocument(f, p).reported = (step >= 1) /\ NewDocument(f, p).told = {}
BY DEF Document, NewDocument

LEMMA AttachedMarks ==
  ASSUME BrowserIInv, BrowserIInv', Nested(tree, root), Untold(tree, step), Room,
         NEW c \in ChildIds, NEW p \in FrameIds, ChildAttached(c, p), NEW k \in Kinds
  PROVE  MarksFollow(k) /\ Untold(tree', step')
<1>1. PICK doc, e : doc = Document(c, p) /\ e = Reported("attached", c, p)
  OBVIOUS
<1>2. /\ c \in FrameIds /\ c \notin DOMAIN tree /\ doc \in Documents /\ e \in Events
      /\ tree' = [f \in DOMAIN tree \cup {c} |-> IF f = c THEN doc ELSE tree[f]]
      /\ inbox' = FromStep(1, <<e>>) \o FreshEvents(c, doc)
      /\ Reshape(TreeShape, e) = TreeShape'
  BY <1>1, AttachedShapes
<1>3. doc.reported = FALSE /\ doc.told = {} /\ step' = step
  BY <1>1, NewDocumentFacts DEF ChildAttached
<1>4. Untold(tree', step')
  BY <1>2, <1>3 DEF Untold
<1>5. inbox' \in Seq(Still)
  BY AttachedFollows
<1>6. PICK a, b, M : a = TreeShape /\ b = TreeShape' /\ M = MarksOf(k, tree)
  OBVIOUS
<1>7. /\ a \in Shapes /\ b \in Shapes /\ b = Reshape(a, e) /\ M \in SUBSET DOMAIN a.parent
      /\ M \subseteq DOMAIN tree /\ DOMAIN b.parent = DOMAIN tree \cup {c}
  BY <1>2, <1>6, TreeShapeFacts, NextDomain, TreeMarksFacts
<1>8. MarksOf(k, tree') = M
  BY <1>2, <1>3, <1>6 DEF MarksOf, Told
<1>9. ASSUME step >= 1 PROVE Leads(Marking(k), View(a, M), inbox', View(b, M))
  <2>1. e.type = "attached"
    BY <1>1 DEF Reported, Event
  <2>2. M = Remarked(k, a, M, e)
    BY <1>7, <2>1 DEF Remarked, Gains, Loses, Kinds
  <2>3. M \in SUBSET DOMAIN b.parent /\ Leads(Marking(k), View(a, M), <<e>>, View(b, M))
    BY <1>2, <1>7, <2>2, MarkOne
  <2>4. c \notin M /\ Unmarked(k, M, c) = M
    BY <1>2, <1>7 DEF Unmarked
  <2>5. Unmarks(k, c, FreshEvents(c, doc))
    BY <1>2, FreshUnmarks DEF BrowserIInv
  <2>6. Leads(Marking(k), View(b, M), FreshEvents(c, doc), View(b, M))
    BY <1>7, <2>3, <2>4, <2>5 DEF Unmarks
  <2>7. FreshEvents(c, doc) \in Seq(Events) /\ <<e>> \in Seq(Events)
    BY <1>2, DocumentEvents, CalmTyped
  <2>8. Leads(Marking(k), View(a, M), <<e>> \o FreshEvents(c, doc), View(b, M))
    BY <2>3, <2>6, <2>7, LeadsFurther
  <2>9. FromStep(1, <<e>>) = <<e>>
    BY <1>9, Zenon DEF FromStep
  <2> QED BY <1>2, <2>8, <2>9, Zenon
<1>10. TreeView(k) = View(a, M) /\ TreeView(k)' = View(b, M)
  BY <1>6, <1>8 DEF TreeView
<1> QED BY <1>4, <1>5, <1>9, <1>10, Zenon DEF MarksFollow

\* The frames that go take their marks with them.
LEMMA GoneMarks ==
  ASSUME NEW k \in Kinds, NEW told \in Seq(ChildIds), NEW a \in Shapes, NEW b \in Shapes,
         Leads(Moves, a, DetachedEvents(told), b), NEW M \in SUBSET DOMAIN a.parent,
         NEW calm \in Seq(Mute), NEW gone,
         gone = DetachedEvents(told) \o calm \/ gone = calm \o DetachedEvents(told)
  PROVE  Leads(Marking(k), View(a, M), gone, View(b, M \cap DOMAIN b.parent))
<1>1. calm \in Seq(Bland(k)) /\ DetachedEvents(told) \in Seq(Bland(k)) /\ calm \in Seq(Calm)
  BY BlandTyped, MuteTyped
<1>2. DetachedEvents(told) \in Seq(Events)
  BY DetachedStill, DetachedIn, DetachedEvent
<1>3. gone \in Seq(Bland(k))
  BY <1>1, ConcatProperties
<1>4. /\ Leads(Moves, a, calm \o DetachedEvents(told), b)
      /\ Leads(Moves, a, DetachedEvents(told) \o calm, b)
  BY <1>1, <1>2, CalmAround
<1>5. Leads(Moves, a, gone, b)
  BY <1>4, Zenon
<1> QED BY <1>3, <1>5, BlandLeads

LEMMA DetachedMarks ==
  ASSUME BrowserIInv, BrowserIInv', Nested(tree, root), Untold(tree, step),
         NEW c \in ChildIds, ChildDetached(c), NEW k \in Kinds
  PROVE  MarksFollow(k) /\ Untold(tree', step')
<1> DEFINE S == {c} \cup Below(c)
<1>1. /\ S \in SUBSET (DOMAIN tree \cap ChildIds)
      /\ tree' = [f \in DOMAIN tree \ S |-> tree[f]]
      /\ \E s \in ParentsFirst(S) : \E told \in {<<c>>, Reverse(s)} :
           /\ inbox' \in GoneEvents(s, told) /\ told \in Seq(ChildIds)
           /\ step >= 1 => Leads(Moves, TreeShape, DetachedEvents(told), TreeShape')
  BY DetachedShapes
<1> HIDE DEF S
<1>2. PICK s \in ParentsFirst(S) : \E told \in {<<c>>, Reverse(s)} :
        /\ inbox' \in GoneEvents(s, told) /\ told \in Seq(ChildIds)
        /\ step >= 1 => Leads(Moves, TreeShape, DetachedEvents(told), TreeShape')
  BY <1>1
<1>3. PICK told \in Seq(ChildIds) :
        /\ inbox' \in GoneEvents(s, told)
        /\ step >= 1 => Leads(Moves, TreeShape, DetachedEvents(told), TreeShape')
  BY <1>2
<1>4. PICK calm \in Seq(Mute) : \/ inbox' = DetachedEvents(told) \o calm
                               \/ inbox' = calm \o DetachedEvents(told)
  BY <1>1, <1>3, GoneBatch
<1>5. step' = step
  BY DEF ChildDetached
<1>6. Untold(tree', step')
  BY <1>1, <1>5 DEF Untold
<1>7. inbox' \in Seq(Still)
  BY DetachedFollows
<1>8. PICK a, b, M : a = TreeShape /\ b = TreeShape' /\ M = MarksOf(k, tree)
  OBVIOUS
<1>9. /\ a \in Shapes /\ b \in Shapes /\ M \in SUBSET DOMAIN a.parent
      /\ M \subseteq DOMAIN tree /\ DOMAIN b.parent = DOMAIN tree \ S
  BY <1>1, <1>8, TreeShapeFacts, NextDomain, TreeMarksFacts
<1>10. MarksOf(k, tree') = M \cap DOMAIN b.parent
  BY <1>1, <1>8, <1>9 DEF MarksOf
<1>11. step >= 1 => Leads(Marking(k), View(a, M), inbox', View(b, M \cap DOMAIN b.parent))
  BY <1>3, <1>4, <1>8, <1>9, GoneMarks
<1>12. TreeView(k) = View(a, M) /\ TreeView(k)' = View(b, M \cap DOMAIN b.parent)
  BY <1>8, <1>10 DEF TreeView
<1> QED BY <1>6, <1>7, <1>11, <1>12, Zenon DEF MarksFollow

LEMMA CommittedMarks ==
  ASSUME BrowserIInv, BrowserIInv', Nested(tree, root), Untold(tree, step), Room,
         NEW c \in ChildIds, ChildCommitted(c), NEW k \in Kinds
  PROVE  MarksFollow(k) /\ Untold(tree', step')
<1>1. PICK S, document, e :
        /\ S = Below(c) /\ document = NewDocument(c, tree[c].parent)
        /\ e = Reported("navigated", c, tree[c].parent)
  OBVIOUS
<1>2. CommittedShape(c, S, document, e)
  BY <1>1, CommittedShapes, Zenon
<1> USE DEF CommittedShape
<1>3. PICK fresh \in Seq(Calm) : fresh = ChildNews(c)
  BY <1>1, <1>2, ChildNewsTyped
<1>4. e.type = "navigated" /\ e.frame = c /\ e.parent # NoFrame
  BY <1>1, <1>2 DEF Reported, Event
<1>5. document.reported = (step >= 1) /\ document.told = {} /\ step' = step
  BY <1>1, NewDocumentFacts DEF ChildCommitted
<1>6. Untold(tree', step')
  BY <1>2, <1>5 DEF Untold
<1>7. inbox' \in Seq(Still)
  BY CommittedFollows
<1>8. PICK a, b, M : a = TreeShape /\ b = TreeShape' /\ M = MarksOf(k, tree)
  OBVIOUS
<1>9. /\ a \in Shapes /\ b \in Shapes /\ M \in SUBSET DOMAIN a.parent
      /\ M \subseteq DOMAIN tree /\ DOMAIN b.parent = DOMAIN tree \ S
      /\ k = "url" \/ step >= 3 \/ M = {}
      /\ Reshape(a, e) = b /\ Reshape(b, e) = b
  BY <1>2, <1>8, TreeShapeFacts, NextDomain, TreeMarksFacts
<1>10. PICK R : R = Renewed(k, M, c) \cap DOMAIN b.parent
  OBVIOUS
<1>11. ASSUME step >= 1 PROVE MarksOf(k, tree') = R
  <2>1. \A f \in DOMAIN tree' : Told(k, tree'[f]) <=> f \in Renewed(k, M, c)
    BY <1>2, <1>5, <1>8, <1>11 DEF MarksOf, Told, Renewed
  <2> QED BY <1>2, <1>9, <1>10, <2>1 DEF MarksOf
<1>12. PICK s \in ParentsFirst(S) : \E told \in {Reverse(s), <<>>} :
        ChildBatch(c, e, s, told) /\ Detaches(told, {a, b})
  BY <1>2, <1>8
<1>13. PICK told \in Seq(ChildIds) :
        /\ \E gone \in GoneEvents(s, told), news \in {Before(e, fresh), After(e, fresh)} :
              inbox' = gone \o news
        /\ step >= 1 => \E x \in {a, b} : Leads(Moves, a, DetachedEvents(told), x)
  BY <1>3, <1>8, <1>12 DEF ChildBatch, Detaches
<1>14. PICK gone \in GoneEvents(s, told), news \in {Before(e, fresh), After(e, fresh)} :
         inbox' = gone \o news
  BY <1>13
<1>15. PICK calm \in Seq(Mute) : \/ gone = DetachedEvents(told) \o calm
                                \/ gone = calm \o DetachedEvents(told)
  BY <1>2, <1>13, GoneBatch
<1>16. gone \in Seq(Events)
  BY <1>2, <1>13, GoneBatch
<1>17. fresh \in Seq(Events)
  BY CalmTyped
<1>18. news \in Seq(Events)
  <2>1. <<e>> \in Seq(Events)
    BY <1>2
  <2> QED BY <1>17, <2>1, AroundTyped
<1>19. Unmarks(k, c, fresh)
  BY <1>1, <1>2, <1>3, NewsUnmark
<1>20. ASSUME step >= 1 PROVE Leads(Marking(k), View(a, M), inbox', View(b, R))
  <2>1. PICK x \in {a, b} : Leads(Moves, a, DetachedEvents(told), x)
    BY <1>13, <1>20
  <2>2. x \in Shapes /\ b = Reshape(x, e)
    BY <1>9
  <2>3. PICK N : N = M \cap DOMAIN x.parent
    OBVIOUS
  <2>4. Leads(Marking(k), View(a, M), gone, View(x, N))
    BY <1>9, <1>15, <2>1, <2>2, <2>3, GoneMarks
  <2>5. N \in SUBSET DOMAIN x.parent /\ (k = "url" \/ step >= 3 \/ N = {})
    BY <1>9, <2>3
  <2>6. Renewed(k, N, c) \cap DOMAIN b.parent = R
    BY <1>9, <1>10, <2>1, <2>3 DEF Renewed
  <2>7. step \in Nat
    BY DEF BrowserIInv
  <2>8. Leads(Marking(k), View(x, N), news, View(b, R))
    <3>1. e \in Events /\ b \in Shapes
      BY <1>2, <1>9
    <3>2. Leads(Marking(k), View(x, N), news, View(b, Renewed(k, N, c) \cap DOMAIN b.parent))
      BY <1>4, <1>17, <1>19, <1>20, <2>2, <2>5, <2>7, <3>1, NewsMarks
    <3> QED BY <2>6, <3>2
  <2>9. Leads(Marking(k), View(a, M), gone \o news, View(b, R))
    BY <1>16, <1>18, <2>4, <2>8, LeadsFurther
  <2> QED BY <1>14, <2>9, Zenon
<1>21. /\ TreeView(k) = View(a, M)
       /\ step >= 1 => TreeView(k)' = View(b, R)
  BY <1>8, <1>11 DEF TreeView
<1> QED BY <1>6, <1>7, <1>20, <1>21, Zenon DEF MarksFollow

LEMMA MainMarks ==
  ASSUME BrowserIInv, BrowserIInv', Nested(tree, root), Untold(tree, step), Room,
         NEW new \in MainIds, MainCommitted(new), NEW k \in Kinds
  PROVE  MarksFollow(k) /\ Untold(tree', step')
<1>1. PICK S, document, e :
        /\ S = Below(root) /\ document = NewDocument(new, NoFrame)
        /\ e = Reported("navigated", new, NoFrame)
  OBVIOUS
<1>2. MainShape(new, S, document, e)
  BY <1>1, MainShapes, Zenon
<1> USE DEF MainShape
<1>3. PICK fresh \in Seq(Calm) : fresh = MainNews(new)
  BY <1>1, <1>2, MainNewsTyped
<1>4. e.type = "navigated" /\ e.frame = new /\ e.parent = NoFrame
  BY <1>1 DEF Reported, Event
<1>5. document.reported = (step >= 1) /\ document.told = {} /\ step' = step
  BY <1>1, NewDocumentFacts DEF MainCommitted
<1>6. Untold(tree', step')
  BY <1>2, <1>5 DEF Untold
<1>7. PICK a, b, M : a = TreeShape /\ b = TreeShape' /\ M = MarksOf(k, tree)
  OBVIOUS
<1>8. /\ a \in Shapes /\ a.main = root /\ b \in Shapes /\ M \in SUBSET DOMAIN a.parent
      /\ k = "url" \/ step >= 3 \/ M = {}
      /\ \A x : Reshape(x, e) = b
  BY <1>2, <1>7, TreeShapeFacts, TreeMarksFacts
<1>9. PICK R : R = IF k = "url" THEN {new} ELSE {}
  OBVIOUS
<1>10. ASSUME step >= 1 PROVE MarksOf(k, tree') = R
  BY <1>2, <1>5, <1>9, <1>10 DEF MarksOf, Told
<1>11. PICK s \in ParentsFirst(S) : \E told \in {<<>>, Reverse(s)} :
         MainBatch(new, e, told) /\ Detaches(told, {a, Pruned(a, S)})
  BY <1>2, <1>7
<1>12. PICK told \in Seq(ChildIds) :
         /\ \E news \in {Before(e, fresh)} \cup (IF new = root THEN {After(e, fresh)} ELSE {}) :
              inbox' = DetachedEvents(told) \o news
         /\ step >= 1 => \E x \in {a, Pruned(a, S)} : Leads(Moves, a, DetachedEvents(told), x)
  BY <1>3, <1>7, <1>11 DEF MainBatch, Detaches
<1>13. PICK news \in {Before(e, fresh)} \cup (IF new = root THEN {After(e, fresh)} ELSE {}) :
         inbox' = DetachedEvents(told) \o news
  BY <1>12
<1>14. news = Before(e, fresh) \/ (news = After(e, fresh) /\ new = root)
  BY <1>13
<1>15. DetachedEvents(told) \in Seq(Events) /\ fresh \in Seq(Events)
  BY <1>2, <1>12, GoneBatch, CalmTyped
<1>16. news \in Seq(Events)
  <2>1. <<e>> \in Seq(Events)
    BY <1>2
  <2> QED BY <1>14, <1>15, <2>1, AroundTyped
<1>17. Unmarks(k, new, fresh)
  BY <1>1, <1>2, <1>3, NewsUnmark
<1>18. ASSUME step >= 1, NEW v, NEW x \in Shapes, NEW N \in SUBSET DOMAIN x.parent,
              k = "url" \/ step >= 3 \/ N = {}, x.main \in {root, NoFrame},
              Leads(Marking(k), v, DetachedEvents(told), View(x, N))
       PROVE  Leads(Marking(k), v, inbox', View(b, R))
  <2>1. b = Reshape(x, e) /\ step \in Nat
    BY <1>8 DEF BrowserIInv
  <2>2. news = Before(e, fresh) \/ (news = After(e, fresh) /\ x.main \in {new, NoFrame})
    BY <1>14, <1>18
  <2>3. Leads(Marking(k), View(x, N), news, View(b, R))
    BY <1>2, <1>4, <1>8, <1>9, <1>15, <1>17, <1>18, <2>1, <2>2, MainNewsMarks
  <2>4. Leads(Marking(k), v, DetachedEvents(told) \o news, View(b, R))
    BY <1>15, <1>16, <1>18, <2>3, LeadsFurther
  <2> QED BY <1>13, <2>4, Zenon
<1>19. ASSUME step >= 1 PROVE Leads(Marking(k), View(a, M), inbox', View(b, R))
  <2>1. PICK x \in {a, Pruned(a, S)} : Leads(Moves, a, DetachedEvents(told), x)
    BY <1>12, <1>19
  <2>2. x \in Shapes /\ x.main = root
    BY <1>8, PrunedTyped
  <2>3. PICK N : N = M \cap DOMAIN x.parent
    OBVIOUS
  <2>4. DetachedEvents(told) \in Seq(Bland(k))
    BY BlandTyped
  <2>5. Leads(Marking(k), View(a, M), DetachedEvents(told), View(x, N))
    BY <1>8, <2>1, <2>2, <2>3, <2>4, BlandLeads
  <2>6. N \in SUBSET DOMAIN x.parent /\ (k = "url" \/ step >= 3 \/ N = {})
    BY <1>8, <2>3
  <2> QED BY <1>18, <1>19, <2>2, <2>5, <2>6
<1>20. ASSUME step = 1 PROVE Leads(Marking(k), NoView, inbox', View(b, R))
  <2>1. NoFrames \in Shapes /\ NoFrames.main = NoFrame
    BY AloneTyped DEF NoFrames
  <2>2. Leads(Marking(k), NoView, DetachedEvents(told), View(NoFrames, {}))
    BY <1>12, DetachedStill, StillMarks DEF NoView
  <2>3. {} \in SUBSET DOMAIN NoFrames.parent /\ step >= 1
    BY <1>20
  <2> QED BY <1>18, <2>1, <2>2, <2>3
<1>21. /\ TreeView(k) = View(a, M)
       /\ step >= 1 => TreeView(k)' = View(b, R)
  BY <1>7, <1>10 DEF TreeView
<1>22. step = 0 => inbox' \in Seq(Still)
  BY MainFollows
<1>23. step <= 1 => step = 0 \/ step = 1
  BY DEF BrowserIInv
<1>24. step = 1 => step >= 1
  OBVIOUS
<1> QED BY <1>6, <1>19, <1>20, <1>21, <1>22, <1>23, <1>24, Zenon DEF MarksFollow


\* One event about a frame that stays where it is.
LEMMA PlainFollow ==
  ASSUME BrowserIInv, BrowserIInv', Nested(tree, root), Untold(tree, step), KeepsShape,
         NEW k \in Kinds, NEW n \in Nat, NEW e \in Calm, inbox' = FromStep(n, <<e>>),
         NEW M, M = MarksOf(k, tree), NEW N, N = MarksOf(k, tree'),
         step >= n => N = ((M \cup Gains(k, e)) \ Loses(k, e)) \cap DOMAIN tree,
         step >= 1 /\ ~(step >= n) => N = M
  PROVE  MarksFollow(k)
<1>1. Follows /\ TreeShape' = TreeShape
  BY KeepsFollows
<1>2. PICK a : a = TreeShape
  OBVIOUS
<1>3. a \in Shapes /\ DOMAIN a.parent = DOMAIN tree /\ M \in SUBSET DOMAIN a.parent
  BY <1>2, TreeShapeFacts, TreeMarksFacts
<1>4. TreeView(k) = View(a, M) /\ TreeView(k)' = View(a, N)
  BY <1>1, <1>2 DEF TreeView
<1>5. inbox' \in Seq(Still)
  BY StillTyped DEF KeepsShape
<1>6. ASSUME step >= 1 PROVE Leads(Marking(k), View(a, M), inbox', View(a, N))
  <2>1. CASE step >= n
    <3>1. inbox' = <<e>>
      BY <2>1, Zenon DEF FromStep
    <3>2. N = ((M \cup Gains(k, e)) \ Loses(k, e)) \cap DOMAIN a.parent
      BY <1>3, <2>1
    <3>3. Leads(Marking(k), View(a, M), <<e>>, View(a, N))
      BY <1>3, <3>2, CalmMarks
    <3> QED BY <3>1, <3>3
  <2>2. CASE ~(step >= n)
    <3>1. inbox' = <<>>
      BY <2>2, Zenon DEF FromStep
    <3>2. N = M
      BY <1>6, <2>2
    <3>3. Leads(Marking(k), View(a, M), <<>>, View(a, M))
      BY LeadsNothing
    <3> QED BY <3>1, <3>2, <3>3
  <2> QED BY <2>1, <2>2
<1> QED BY <1>4, <1>5, <1>6, Zenon DEF MarksFollow

LEMMA PlainMarks ==
  ASSUME IInv, BrowserIInv, BrowserIInv', Nested(tree, root), Untold(tree, step), NEW f \in FrameIds,
         StartedLoading(f) \/ NavigatedWithin(f) \/ DomReady(f) \/ Loaded(f), NEW k \in Kinds
  PROVE  MarksFollow(k) /\ Untold(tree', step')
<1>1. KeepsShape
  BY PlainTyped
<1>2. f \in DOMAIN tree /\ step' = step
  BY DEF StartedLoading, NavigatedWithin, DomReady, Loaded, Reaches
<1>3. \A x \in DOMAIN tree : tree[x] \in Documents
  BY DEF BrowserIInv, Tree
<1>4. PICK M, N : M = MarksOf(k, tree) /\ N = MarksOf(k, tree')
  OBVIOUS
<1>5. CASE StartedLoading(f)
  <2>1. PICK e : e = Event("startedLoading", f)
    OBVIOUS
  <2>2. e \in Calm /\ e.type = "startedLoading" /\ e.frame = f
    BY <2>1, PlainEvent DEF Event
  <2>3. inbox' = FromStep(1, <<e>>) /\ tree' = [tree EXCEPT ![f].told = {}]
    BY <1>5, <2>1 DEF StartedLoading, Report
  <2>4. /\ DOMAIN tree' = DOMAIN tree /\ tree'[f].told = {} /\ tree'[f].reported = tree[f].reported
        /\ \A x \in DOMAIN tree \ {f} : tree'[x] = tree[x]
    BY <1>2, <1>3, <2>3 DEF Documents
  <2>5. N = ((M \cup Gains(k, e)) \ Loses(k, e)) \cap DOMAIN tree
    BY <1>2, <1>4, <2>2, <2>4 DEF MarksOf, Told, Gains, Loses, Kinds
  <2>6. MarksFollow(k)
    BY <1>1, <1>4, <2>2, <2>3, <2>5, PlainFollow
  <2>7. Untold(tree', step')
    BY <1>2, <2>4 DEF Untold
  <2> QED BY <2>6, <2>7
<1>6. CASE NavigatedWithin(f)
  <2>1. PICK e : e = Event("within", f)
    OBVIOUS
  <2>2. e \in Calm /\ e.type = "within" /\ e.frame = f
    BY <2>1, PlainEvent DEF Event
  <2>3. inbox' = FromStep(1, <<e>>) /\ tree' = [tree EXCEPT ![f].reported = @ \/ step >= 1]
    BY <1>6, <2>1 DEF NavigatedWithin, Report
  <2>4. /\ DOMAIN tree' = DOMAIN tree /\ tree'[f].told = tree[f].told
        /\ step >= 1 => tree'[f].reported = TRUE
        /\ \A x \in DOMAIN tree \ {f} : tree'[x] = tree[x]
    BY <1>2, <1>3, <2>3 DEF Documents
  <2>5. step >= 1 => N = ((M \cup Gains(k, e)) \ Loses(k, e)) \cap DOMAIN tree
    BY <1>2, <1>4, <2>2, <2>4 DEF MarksOf, Told, Gains, Loses, Kinds
  <2>6. MarksFollow(k)
    BY <1>1, <1>4, <2>2, <2>3, <2>5, PlainFollow
  <2>7. Untold(tree', step')
    BY <1>2, <2>4 DEF Untold
  <2> QED BY <2>6, <2>7
<1>7. ASSUME NEW from, NEW to, NEW event \in {"DOMContentLoaded", "load"}, Reaches(f, from, to, event)
      PROVE  MarksFollow(k) /\ Untold(tree', step')
  <2>1. PICK e : e = Event(event, f)
    OBVIOUS
  <2>2. e \in Calm /\ e.type = event /\ e.frame = f
    BY <2>1, PlainEvent DEF Event
  <2>3. /\ inbox' = FromStep(3, <<e>>)
        /\ tree' = [tree EXCEPT ![f].stage = to,
                                ![f].told = IF step >= 3 THEN @ \cup {event} ELSE @]
    BY <1>7, <2>1 DEF Reaches, Report
  <2>4. /\ DOMAIN tree' = DOMAIN tree /\ tree'[f].reported = tree[f].reported
        /\ tree'[f].told = IF step >= 3 THEN tree[f].told \cup {event} ELSE tree[f].told
        /\ \A x \in DOMAIN tree \ {f} : tree'[x] = tree[x]
    BY <1>2, <1>3, <2>3 DEF Documents
  <2>5. step >= 3 => N = ((M \cup Gains(k, e)) \ Loses(k, e)) \cap DOMAIN tree
    BY <1>2, <1>4, <2>2, <2>4 DEF MarksOf, Told, Gains, Loses, Kinds
  <2>6. ~(step >= 3) => N = M
    BY <1>2, <1>4, <2>4 DEF MarksOf, Told
  <2>7. MarksFollow(k)
    BY <1>1, <1>4, <2>2, <2>3, <2>5, <2>6, PlainFollow
  <2>8. step <= 2 => ~(step >= 3)
    BY DEF BrowserIInv
  <2>9. Untold(tree', step')
    BY <1>2, <2>4, <2>8 DEF Untold
  <2> QED BY <2>7, <2>9
<1> QED BY <1>5, <1>6, <1>7 DEF DomReady, Loaded


\* The steps of the chains that say nothing of marks.
LEMMA MuteActs ==
  ASSUME IInv, BrowserIInv, Untold(tree, step), NEW k \in Kinds,
         \/ PageEnabled \/ RuntimeEnabled \/ ChainBegins \/ ScriptAdded
         \/ \E f \in FrameIds : IsolatedWorldCreated(f)
  PROVE  inbox' \in Seq(Mute) /\ MarksOf(k, tree') = MarksOf(k, tree) /\ Untold(tree', step')
<1>1. CASE PageEnabled \/ ChainBegins \/ ScriptAdded
  <2>1. inbox' = <<>> /\ tree' = tree /\ (step' = step \/ step' = step + 1)
    BY <1>1 DEF PageEnabled, ChainBegins, ScriptAdded, Answers, Report, Quiet, EnsureIsolatedWorld
  <2>2. <<>> \in Seq(Mute)
    OBVIOUS
  <2>3. Untold(tree', step')
    BY <2>1 DEF Untold, BrowserIInv
  <2> QED BY <2>1, <2>2, <2>3
<1>2. CASE RuntimeEnabled
  <2>1. PICK s \in ParentsFirst(DOMAIN tree) :
          Answers(FlattenSeq([i \in 1 .. Len(s) |-> CreatedEvents(s[i], tree[s[i]])]))
    BY <1>2 DEF RuntimeEnabled, Each
  <2>2. s \in Seq(DOMAIN tree)
    BY OrderTyped DEF BrowserIInv, Tree
  <2>3. /\ Len(s) \in Nat
        /\ \A i \in 1 .. Len(s) : s[i] \in FrameIds /\ tree[s[i]] \in Documents
    BY <2>2 DEF BrowserIInv, Tree
  <2>4. [i \in 1 .. Len(s) |-> CreatedEvents(s[i], tree[s[i]])] \in [1 .. Len(s) -> Seq(Mute)]
    BY <2>3, DocumentEvents
  <2>5. FlattenSeq([i \in 1 .. Len(s) |-> CreatedEvents(s[i], tree[s[i]])]) \in Seq(Mute)
    BY <2>3, <2>4, ListTyped, FlattenTyped
  <2>6. inbox' \in Seq(Mute)
    BY <2>1, <2>5 DEF Answers, Report
  <2>7. tree' = tree /\ step = 3 /\ step' = step + 1
    BY <1>2, <2>1 DEF RuntimeEnabled, Answers
  <2> QED BY <2>6, <2>7 DEF Untold
<1>3. ASSUME NEW f \in FrameIds, IsolatedWorldCreated(f)
      PROVE  inbox' \in Seq(Mute) /\ MarksOf(k, tree') = MarksOf(k, tree) /\ Untold(tree', step')
  <2>1. step' = step
    BY <1>3 DEF IsolatedWorldCreated
  <2>2. CASE f \in DOMAIN tree /\ tree[f].secondary = NoContext
    <3>1. New(f, "secondary") \in Contexts
      BY <1>3, NewTyped DEF IsolatedWorldCreated
    <3>2. InContext("secondary", f, New(f, "secondary")) \in Mute
      BY <3>1, CreatedEvent
    <3>3. inbox' = <<InContext("secondary", f, New(f, "secondary"))>>
      BY <1>3, <2>2 DEF IsolatedWorldCreated, Report
    <3>4. inbox' \in Seq(Mute)
      BY <3>2, <3>3
    <3>5. tree' = [tree EXCEPT ![f].secondary = New(f, "secondary")]
      BY <1>3, <2>2 DEF IsolatedWorldCreated
    <3>6. /\ DOMAIN tree' = DOMAIN tree
          /\ \A x \in DOMAIN tree : tree'[x].told = tree[x].told /\ tree'[x].reported = tree[x].reported
      BY <3>5 DEF BrowserIInv, Tree, Documents
    <3> QED BY <2>1, <3>4, <3>6 DEF MarksOf, Told, Untold
  <2>3. CASE ~(f \in DOMAIN tree /\ tree[f].secondary = NoContext)
    <3>1. inbox' = <<>> /\ tree' = tree
      BY <1>3, <2>3 DEF IsolatedWorldCreated, Report
    <3>2. <<>> \in Seq(Mute)
      OBVIOUS
    <3> QED BY <2>1, <3>1, <3>2
  <2> QED BY <2>2, <2>3
<1> QED BY <1>1, <1>2, <1>3

\* What the browser tells of a document that has got some way.
Types(f) == {Reached(f)[i].type : i \in 1 .. Len(Reached(f))}

LEMMA ReachedMarks ==
  ASSUME NEW k \in Kinds, NEW f \in FrameIds, NEW a \in Shapes, f \in DOMAIN a.parent,
         NEW N \in SUBSET DOMAIN a.parent, tree[f].stage \in {"begun", "dom", "loaded"}
  PROVE  Leads(Marking(k), View(a, N), Reached(f), View(a, IF k \in Types(f) THEN N \cup {f} ELSE N))
<1>1. PICK p, q : p = Event("DOMContentLoaded", f) /\ q = Event("load", f)
  OBVIOUS
<1>2. /\ p \in Calm /\ q \in Calm /\ p.type = "DOMContentLoaded" /\ q.type = "load"
      /\ p.frame = f /\ q.frame = f /\ <<p>> \in Seq(Events) /\ <<q>> \in Seq(Events)
  <2>1. p \in Calm /\ q \in Calm
    BY <1>1, PlainEvent
  <2>2. p \in Events /\ q \in Events
    BY <2>1, CalmTyped
  <2>3. p.type = "DOMContentLoaded" /\ q.type = "load" /\ p.frame = f /\ q.frame = f
    BY <1>1 DEF Event
  <2>4. <<p>> \in Seq(Events) /\ <<q>> \in Seq(Events)
    BY <2>2
  <2> QED BY <2>1, <2>3, <2>4
<1>3. ASSUME NEW e \in {p, q}, NEW M \in SUBSET DOMAIN a.parent
      PROVE  Leads(Marking(k), View(a, M), <<e>>, View(a, IF k = e.type THEN M \cup {f} ELSE M))
  <2>1. PICK L : L = IF k = e.type THEN M \cup {f} ELSE M
    OBVIOUS
  <2>2. L = ((M \cup Gains(k, e)) \ Loses(k, e)) \cap DOMAIN a.parent
    BY <1>2, <2>1 DEF Gains, Loses
  <2>3. e \in Calm
    BY <1>2
  <2>4. Leads(Marking(k), View(a, M), <<e>>, View(a, L))
    BY <2>2, <2>3, CalmMarks
  <2> QED BY <2>1, <2>4
<1>4. CASE tree[f].stage = "begun"
  <2>1. Reached(f) = <<>> \o <<>> /\ <<>> \o <<>> = <<>>
    BY <1>4 DEF Reached
  <2>2. Types(f) = {}
    BY <2>1 DEF Types
  <2>3. Reached(f) = <<>>
    BY <2>1
  <2> QED BY <2>2, <2>3, LeadsNothing
<1>5. CASE tree[f].stage = "dom"
  <2>1. Reached(f) = <<p>> \o <<>> /\ <<p>> \o <<>> = <<p>>
    BY <1>1, <1>5 DEF Reached
  <2>2. Reached(f) = <<p>>
    BY <2>1
  <2>3. Len(<<p>>) = 1 /\ <<p>>[1] = p /\ 1 .. 1 = {1}
    OBVIOUS
  <2>4. Types(f) = {"DOMContentLoaded"}
    BY <1>2, <2>2, <2>3 DEF Types
  <2>5. k \in Types(f) <=> k = p.type
    BY <1>2, <2>4
  <2>6. PICK M : M = IF k = p.type THEN N \cup {f} ELSE N
    OBVIOUS
  <2>7. Leads(Marking(k), View(a, N), <<p>>, View(a, M))
    BY <1>3, <2>6
  <2>8. M = IF k \in Types(f) THEN N \cup {f} ELSE N
    BY <2>5, <2>6
  <2> QED BY <2>2, <2>7, <2>8
<1>6. CASE tree[f].stage = "loaded"
  <2>1. Reached(f) = <<p>> \o <<q>>
    BY <1>1, <1>6 DEF Reached
  <2>2. PICK r, t : r = <<p>> /\ t = <<q>>
    OBVIOUS
  <2>3. /\ r \in Seq(Events) /\ t \in Seq(Events) /\ Len(r) = 1 /\ Len(t) = 1
        /\ r[1] = p /\ t[1] = q /\ Reached(f) = r \o t
    BY <1>2, <2>1, <2>2
  <2>4. Types(f) = {"DOMContentLoaded", "load"}
    <3>1. Len(Reached(f)) = 2
      BY <2>3, ConcatProperties
    <3>2. Reached(f)[1] = p /\ Reached(f)[2] = q
      BY <2>3, ConcatProperties
    <3>3. 1 .. 2 = {1, 2}
      OBVIOUS
    <3> QED BY <1>2, <3>1, <3>2, <3>3 DEF Types
  <2>5. PICK M : M = IF k = p.type THEN N \cup {f} ELSE N
    OBVIOUS
  <2>6. PICK L : L = IF k = q.type THEN M \cup {f} ELSE M
    OBVIOUS
  <2>7. M \in SUBSET DOMAIN a.parent
    BY <2>5
  <2>8. Leads(Marking(k), View(a, N), <<p>>, View(a, M))
    BY <1>3, <2>5
  <2>9. Leads(Marking(k), View(a, M), <<q>>, View(a, L))
    BY <1>3, <2>6, <2>7
  <2>10. Leads(Marking(k), View(a, N), <<p>> \o <<q>>, View(a, L))
    BY <1>2, <2>8, <2>9, LeadsFurther
  <2>11. L = IF k \in Types(f) THEN N \cup {f} ELSE N
    BY <1>2, <2>4, <2>5, <2>6
  <2> QED BY <2>1, <2>10, <2>11
<1> QED BY <1>4, <1>5, <1>6


\* The answer to setLifecycleEventsEnabled tells what each document has reached.
LEMMA LifecycleMarks ==
  ASSUME IInv, BrowserIInv, Nested(tree, root), Untold(tree, step), LifecycleEnabled,
         TreeShape' = TreeShape, NEW k \in Kinds
  PROVE  Leads(Marking(k), TreeView(k), inbox', TreeView(k)') /\ Untold(tree', step')
<1>1. PICK s \in ParentsFirst(DOMAIN tree) :
        inbox' = FlattenSeq([i \in 1 .. Len(s) |-> Reached(s[i])])
  BY DEF LifecycleEnabled, Answers, Report, Each
<1>2. step = 2 /\ step' = 3
      /\ tree' = [f \in DOMAIN tree |-> [tree[f] EXCEPT !.told = Types(f)]]
  BY DEF LifecycleEnabled, Answers, Report, Types
<1>3. \A f \in DOMAIN tree : tree[f] \in Documents /\ f \in FrameIds
  BY DEF BrowserIInv, Tree
<1>4. IsFiniteSet(DOMAIN tree)
  BY DEF BrowserIInv, Tree
<1>5. PICK n : n = Len(s) /\ n \in Nat
  BY <1>4, OrderFacts
<1>6. /\ \A i \in 1 .. n : s[i] \in DOMAIN tree
      /\ \A x \in DOMAIN tree : \E i \in 1 .. n : s[i] = x
  BY <1>4, <1>5, OrderFacts
<1>7. PICK a, M : a = TreeShape /\ M = MarksOf(k, tree)
  OBVIOUS
<1>8. a \in Shapes /\ DOMAIN a.parent = DOMAIN tree /\ M \in SUBSET DOMAIN a.parent
  BY <1>7, TreeShapeFacts, TreeMarksFacts
<1> DEFINE P == {f \in DOMAIN tree : k \in Types(f)}
           L == [i \in 0 .. n |-> M \cup {f \in P : \E j \in 1 .. i : s[j] = f}]
           h == [i \in 0 .. n |-> View(a, L[i])]
           seqs == [i \in 1 .. n |-> Reached(s[i])]
<1>9. \A i \in 0 .. n : L[i] \in SUBSET DOMAIN a.parent /\ h[i] = View(a, L[i])
  BY <1>8
<1>10. ASSUME NEW i \in 1 .. n
       PROVE  Leads(Marking(k), h[i - 1], seqs[i], h[i]) /\ seqs[i] \in Seq(Events)
  <2>1. PICK f, m : f = s[i] /\ m = i - 1
    OBVIOUS
  <2>2. f \in DOMAIN tree /\ f \in FrameIds /\ tree[f].stage \in {"begun", "dom", "loaded"}
        /\ m \in 0 .. n /\ i \in 0 .. n
    BY <1>3, <1>5, <1>6, <2>1 DEF Documents
  <2>3. L[i] = IF k \in Types(f) THEN L[m] \cup {f} ELSE L[m]
    <3>1. \A j : j \in 1 .. i <=> j \in 1 .. m \/ j = i
      BY <1>5, <2>1
    <3>2. \A x \in P : (\E j \in 1 .. i : s[j] = x) <=> (\E j \in 1 .. m : s[j] = x) \/ x = f
      BY <2>1, <3>1
    <3>3. f \in P <=> k \in Types(f)
      BY <2>2
    <3>4. L[i] = M \cup {x \in P : \E j \in 1 .. i : s[j] = x}
      BY <2>2
    <3>5. L[m] = M \cup {x \in P : \E j \in 1 .. m : s[j] = x}
      BY <2>2
    <3> HIDE DEF L, P
    <3> QED BY <3>2, <3>3, <3>4, <3>5
  <2>4. PICK N : N = L[m]
    OBVIOUS
  <2>5. N \in SUBSET DOMAIN a.parent
    BY <1>9, <2>2, <2>4
  <2>6. Leads(Marking(k), View(a, N), Reached(f), View(a, IF k \in Types(f) THEN N \cup {f} ELSE N))
    BY <1>8, <2>2, <2>5, ReachedMarks
  <2>7. Leads(Marking(k), View(a, L[m]), Reached(f), View(a, L[i]))
    BY <2>3, <2>4, <2>6
  <2>8. h[i - 1] = View(a, L[m]) /\ h[i] = View(a, L[i]) /\ seqs[i] = Reached(f)
    BY <2>1, <2>2
  <2>9. Reached(f) \in Seq(Events)
    BY <2>2, ReachedTyped, CalmTyped
  <2> HIDE DEF h, L, seqs
  <2> QED BY <2>7, <2>8, <2>9
<1>11. seqs \in Seq(Seq(Events)) /\ Len(seqs) = n
  <2>1. seqs \in [1 .. n -> Seq(Events)]
    BY <1>10
  <2> QED BY <1>5, <2>1, ListTyped
<1>12. L[0] = M /\ L[n] = M \cup P
  <2>1. 0 \in 0 .. n /\ n \in 0 .. n /\ 1 .. 0 = {}
    BY <1>5
  <2>2. L[0] = M \cup {f \in P : \E j \in 1 .. 0 : s[j] = f}
    BY <2>1
  <2>3. L[n] = M \cup {f \in P : \E j \in 1 .. n : s[j] = f}
    BY <2>1
  <2>4. \A f \in P : \E j \in 1 .. n : s[j] = f
    BY <1>6
  <2> HIDE DEF L
  <2> QED BY <2>1, <2>2, <2>3, <2>4
<1>13. MarksOf(k, tree') = M \cup P
  <2>1. /\ DOMAIN tree' = DOMAIN tree
        /\ \A f \in DOMAIN tree : tree'[f].told = Types(f) /\ tree'[f].reported = tree[f].reported
    BY <1>2, <1>3 DEF Documents
  <2>2. CASE k = "url"
    <3>1. \A f \in DOMAIN tree : "url" \notin Types(f)
      BY <1>3, ReachedTyped DEF Types
    <3> QED BY <1>7, <2>1, <2>2, <3>1 DEF MarksOf, Told
  <2>3. CASE k # "url"
    <3>1. ~(step >= 3)
      BY <1>2
    <3>2. M = {}
      BY <1>7, <2>3, <3>1, TreeMarksFacts
    <3> QED BY <2>1, <2>3, <3>2 DEF MarksOf, Told
  <2> QED BY <2>2, <2>3
<1>14. inbox' = FlattenSeq(seqs)
  BY <1>1, <1>5
<1>15. h[0] = View(a, M) /\ h[n] = View(a, M \cup P)
  <2>1. 0 \in 0 .. n /\ n \in 0 .. n
    BY <1>5
  <2> HIDE DEF L, P
  <2> QED BY <1>9, <1>12, <2>1
<1> HIDE DEF seqs, h, L, P
<1>16. Leads(Marking(k), h[0], FlattenSeq(seqs), h[n])
  BY <1>10, <1>11, LeadsFlat
<1>17. TreeView(k) = View(a, M) /\ TreeView(k)' = View(a, M \cup P)
  BY <1>7, <1>13 DEF TreeView
<1>18. Untold(tree', step')
  BY <1>2 DEF Untold
<1> QED BY <1>14, <1>15, <1>16, <1>17, <1>18


\* A frame of the answer to getFrameTree counts as navigated from then on.
LEMMA PairMarks ==
  ASSUME BrowserIInv, NEW a, NEW f \in DOMAIN tree, NEW c, PairMoves(a, f, c),
         NEW M \in SUBSET DOMAIN a.parent, tree[f].parent = NoFrame \/ M = DOMAIN a.parent
  PROVE  Leads(Marking("url"), View(a, M), Pair(f), View(c, DOMAIN c.parent))
<1>1. PICK e, d, p : /\ e = Reported("attached", f, p) /\ d = Reported("navigated", f, p)
                     /\ p = tree[f].parent
  OBVIOUS
<1>2. e \in Events /\ d \in Events /\ a \in Shapes /\ c \in Shapes /\ f \in FrameIds
  BY <1>1 DEF PairMoves
<1>3. PICK b \in Shapes : b = Reshape(a, e) /\ c = Reshape(b, d)
  BY <1>1 DEF PairMoves
<1>4. /\ e.type = "attached" /\ d.type = "navigated" /\ d.frame = f /\ d.parent = p
  BY <1>1 DEF Reported, Event
<1>5. PICK N : N = Remarked("url", a, M, e)
  OBVIOUS
<1>6. N \in SUBSET DOMAIN b.parent /\ <<View(a, M), e, View(b, N)>> \in Marking("url")
  <2>1. M \in SUBSET DOMAIN a.parent
    OBVIOUS
  <2> QED BY <1>2, <1>3, <1>5, <2>1, MarkStep
<1>7. N = M \cap DOMAIN b.parent
  <2>1. Gains("url", e) = {} /\ Loses("url", e) = {}
    BY <1>4 DEF Gains, Loses
  <2> QED BY <1>3, <1>4, <1>5, <2>1 DEF Remarked
<1>8. PICK R : R = Remarked("url", b, N, d)
  OBVIOUS
<1>9. R \in SUBSET DOMAIN c.parent /\ <<View(b, N), d, View(c, R)>> \in Marking("url")
  BY <1>2, <1>3, <1>6, <1>8, MarkStep
<1>10. R = DOMAIN c.parent
  <2>1. CASE p = NoFrame
    <3>1. c = MainAlone(f) /\ f \in MainIds
      <4>1. Reshape(b, d) = MainAlone(d.frame)
        BY <1>4, <2>1, ReshapeCases
      <4>2. c = MainAlone(f)
        BY <1>3, <1>4, <4>1
      <4>3. f \in MainIds
        BY <1>2, <1>4, <2>1 DEF Events
      <4> QED BY <4>2, <4>3
    <3>2. DOMAIN c.parent = {f}
      BY <3>1, AloneTyped
    <3>3. R = {f}
      BY <1>4, <1>8, <2>1 DEF Remarked
    <3> QED BY <3>2, <3>3
  <2>2. CASE p # NoFrame
    <3>1. DOMAIN b.parent \subseteq DOMAIN a.parent \cup {f}
      <4>1. Reshape(a, Reported("attached", f, p)) =
              IF f \notin DOMAIN a.parent /\ p \in DOMAIN a.parent THEN Grown(a, f, p) ELSE a
        BY ReportedReshapes, Zenon
      <4>2. CASE f \notin DOMAIN a.parent /\ p \in DOMAIN a.parent
        <5>1. p \in FrameIds /\ b = Grown(a, f, p)
          BY <1>1, <1>2, <1>3, <4>1, <4>2, ShapeDomain
        <5> QED BY <1>2, <5>1, GrownTyped
      <4>3. CASE ~(f \notin DOMAIN a.parent /\ p \in DOMAIN a.parent)
        BY <1>1, <1>3, <4>1, <4>3
      <4> QED BY <4>2, <4>3
    <3>2. DOMAIN c.parent \subseteq DOMAIN b.parent
      <4>1. p # NoFrame => Reshape(b, Reported("navigated", f, p)) =
              IF f \in DOMAIN b.parent THEN Pruned(b, From(b.parent, f) \ {f}) ELSE b
        BY ReportedReshapes, Zenon
      <4>2. PICK D : D = From(b.parent, f) \ {f}
        OBVIOUS
      <4>3. c = Pruned(b, D) \/ c = b
        BY <1>1, <1>3, <2>2, <4>1, <4>2
      <4>4. DOMAIN Pruned(b, D).parent = DOMAIN b.parent \ D
        BY PrunedTyped
      <4> QED BY <4>3, <4>4
    <3>3. M = DOMAIN a.parent
      BY <1>1, <2>2
    <3>4. R = (N \cup {f}) \cap DOMAIN c.parent
      BY <1>3, <1>4, <1>8, <2>2 DEF Remarked, Gains, Loses
    <3> QED BY <1>7, <3>1, <3>2, <3>3, <3>4
  <2> QED BY <2>1, <2>2
<1>11. Leads(Marking("url"), View(a, M), <<e, d>>, View(c, R))
  BY <1>6, <1>9, LeadsTwo
<1> QED BY <1>1, <1>10, <1>11 DEF Pair

LEMMA FrameTreeMarks ==
  ASSUME BrowserIInv, Nested(tree, root), Untold(tree, step), FrameTreeAnswered,
         NEW k \in Kinds, NEW start \in Shapes, NEW M \in SUBSET DOMAIN start.parent,
         k = "url" \/ M = {}
  PROVE  Leads(Marking(k), View(start, M), inbox', TreeView(k)') /\ Untold(tree', step')
<1>1. /\ step = 1 /\ step' = 2 /\ TreeShape' = TreeShape
      /\ tree' = [f \in DOMAIN tree |-> [tree[f] EXCEPT !.reported = TRUE]]
  BY FrameTreeStays
<1>2. PICK s \in ParentsFirst(DOMAIN tree) :
        inbox' = FlattenSeq([i \in 1 .. Len(s) |-> Pair(s[i])])
  BY FrameTreeStays
<1>3. /\ DOMAIN tree' = DOMAIN tree
      /\ \A f \in DOMAIN tree : tree'[f].told = tree[f].told /\ tree'[f].reported = TRUE
  BY <1>1 DEF BrowserIInv, Tree, Documents
<1>4. Untold(tree', step')
  BY <1>1, <1>3 DEF Untold
<1>5. PICK n : n = Len(s) /\ n \in Nat /\ n # 0 /\ s[1] = root
  BY FrameTreePairs
<1>6. PICK h : /\ h[0] = start /\ h[n] = TreeShape
               /\ \A i \in 1 .. n : PairMoves(h[i - 1], s[i], h[i])
  BY <1>5, FrameTreePairs
<1>7. IsFiniteSet(DOMAIN tree)
  BY DEF BrowserIInv, Tree
<1>8. \A i \in 1 .. n : s[i] \in DOMAIN tree
  BY <1>5, <1>7, OrderFacts
<1> DEFINE seqs == [i \in 1 .. n |-> Pair(s[i])]
<1>9. seqs = [i \in 1 .. Len(s) |-> Pair(s[i])] /\ \A i \in 1 .. n : seqs[i] = Pair(s[i])
  BY <1>5
<1> HIDE DEF seqs
<1>10. inbox' = FlattenSeq(seqs) /\ DOMAIN seqs = 1 .. n
  BY <1>2, <1>5, <1>9
<1>11. CASE k = "url"
  <2> DEFINE v == [i \in 0 .. n |-> View(h[i], IF i = 0 THEN M ELSE DOMAIN h[i].parent)]
  <2>1. ASSUME NEW i \in 1 .. n
        PROVE  Leads(Marking("url"), v[i - 1], seqs[i], v[i]) /\ seqs[i] \in Seq(Events)
    <3>1. PICK f, m : f = s[i] /\ m = i - 1
      OBVIOUS
    <3>2. f \in DOMAIN tree /\ m \in 0 .. n /\ i \in 0 .. n /\ i # 0 /\ PairMoves(h[m], f, h[i])
      BY <1>5, <1>6, <1>8, <3>1
    <3>3. PICK N : N = IF m = 0 THEN M ELSE DOMAIN h[m].parent
      OBVIOUS
    <3>4. N \in SUBSET DOMAIN h[m].parent
      BY <1>6, <3>3
    <3>5. tree[f].parent = NoFrame \/ N = DOMAIN h[m].parent
      <4>1. m = 0 => f = root
        BY <1>5, <3>1
      <4>2. root \in DOMAIN tree /\ root \in MainIds
        BY DEF Nested
      <4>3. m = 0 => tree[f].parent = NoFrame
        BY <4>1, <4>2 DEF BrowserIInv, Tree, Rooted
      <4> QED BY <3>3, <4>3
    <3>6. Leads(Marking("url"), View(h[m], N), Pair(f), View(h[i], DOMAIN h[i].parent))
      BY <3>2, <3>4, <3>5, PairMarks
    <3>7. v[i - 1] = View(h[m], N) /\ v[i] = View(h[i], DOMAIN h[i].parent) /\ seqs[i] = Pair(f)
      BY <1>9, <3>1, <3>2, <3>3
    <3>8. Pair(f) \in Seq(Events)
      BY <3>2, PairMovesTyped
    <3> HIDE DEF v
    <3> QED BY <3>6, <3>7, <3>8
  <2>2. seqs \in Seq(Seq(Events)) /\ Len(seqs) = n
    <3>1. seqs \in [1 .. n -> Seq(Events)]
      BY <1>9, <1>10, <2>1
    <3> QED BY <1>5, <3>1, ListTyped
  <2>3. v[0] = View(start, M) /\ v[n] = View(TreeShape, DOMAIN TreeShape.parent)
    BY <1>5, <1>6
  <2> HIDE DEF v
  <2>4. Leads(Marking("url"), v[0], FlattenSeq(seqs), v[n])
    BY <2>1, <2>2, LeadsFlat
  <2>5. MarksOf("url", tree') = DOMAIN TreeShape.parent
    BY <1>3, TreeShapeFacts DEF MarksOf, Told
  <2>6. TreeView(k)' = View(TreeShape, DOMAIN TreeShape.parent)
    BY <1>1, <1>11, <2>5 DEF TreeView
  <2> QED BY <1>4, <1>10, <1>11, <2>3, <2>4, <2>6
<1>12. CASE k # "url"
  <2> DEFINE E == {e \in Events : e.type # k}
  <2>1. ASSUME NEW i \in 1 .. n PROVE seqs[i] \in Seq(E)
    <3>1. PICK e, d : /\ e = Reported("attached", s[i], tree[s[i]].parent)
                      /\ d = Reported("navigated", s[i], tree[s[i]].parent)
      OBVIOUS
    <3>2. e \in Events /\ d \in Events
      BY <1>6, <3>1 DEF PairMoves
    <3>3. e.type = "attached" /\ d.type = "navigated"
      BY <3>1 DEF Reported, Event
    <3>4. e \in E /\ d \in E
      BY <3>2, <3>3 DEF Kinds
    <3>5. <<e, d>> \in Seq(E)
      BY <3>4
    <3> QED BY <1>9, <3>1, <3>5 DEF Pair
  <2> HIDE DEF E
  <2>2. seqs \in [1 .. n -> Seq(E)]
    BY <1>9, <1>10, <2>1
  <2>3. FlattenSeq(seqs) \in Seq(E)
    BY <1>5, <2>2, ListTyped, FlattenTyped
  <2>4. Leads(Moves, start, FlattenSeq(seqs), TreeShape)
    BY <1>9, FrameTreeLeads
  <2>5. Leads(Marking(k), View(start, {}), FlattenSeq(seqs), View(TreeShape, {}))
    BY <1>12, <2>3, <2>4, EmptyLeads DEF E
  <2>6. MarksOf(k, tree') = {}
    <3>1. \A f \in DOMAIN tree : tree'[f].told = {}
      BY <1>1, <1>3 DEF Untold
    <3> QED BY <1>3, <1>12, <3>1 DEF MarksOf, Told
  <2>7. TreeView(k)' = View(TreeShape, {})
    BY <1>1, <2>6 DEF TreeView
  <2>8. M = {}
    BY <1>12
  <2> QED BY <1>4, <1>10, <2>5, <2>7, <2>8
<1> QED BY <1>11, <1>12


-----------------------------------------------------------------------------
(* The handler's marks are what the browser told.                          *)

\* Once its events are read the marks are those of the browser, or there are no frames
\* while the frame tree was not asked for.
MarksSettle(k) ==
  \/ step <= 1 /\ Leads(Marking(k), ViewNow(k), inbox, NoView)
  \/ step >= 1 /\ Leads(Marking(k), ViewNow(k), inbox, TreeView(k))

MarksIInv == Untold(tree, step) /\ \A k \in Kinds : MarksSettle(k)

LEMMA QuietMarks ==
  ASSUME NEW k, MarksSettle(k), Quiet
  PROVE  \/ step <= 1 /\ ViewNow(k) = NoView
         \/ step >= 1 /\ ViewNow(k) = TreeView(k)
<1>1. PICK v, t : v = ViewNow(k) /\ t = TreeView(k)
  OBVIOUS
<1>2. \/ step <= 1 /\ Leads(Marking(k), v, <<>>, NoView)
      \/ step >= 1 /\ Leads(Marking(k), v, <<>>, t)
  BY <1>1, Zenon DEF MarksSettle, Quiet
<1>3. CASE step <= 1 /\ Leads(Marking(k), v, <<>>, NoView)
  BY <1>1, <1>3, LeadsQuiet
<1>4. CASE step >= 1 /\ Leads(Marking(k), v, <<>>, t)
  BY <1>1, <1>4, LeadsQuiet
<1> QED BY <1>2, <1>3, <1>4

LEMMA ViewStays ==
  ASSUME UNCHANGED <<main, frames>>, NEW k PROVE ViewNow(k)' = ViewNow(k)
BY DEF ViewNow, ShapeNow

\* An act of the page.
LEMMA PageSettles ==
  ASSUME NEW k, MarksSettle(k), Quiet, MarksFollow(k), UNCHANGED <<main, frames>>, step' = step
  PROVE  MarksSettle(k)'
<1>1. ViewNow(k)' = ViewNow(k)
  BY ViewStays
<1>2. PICK v, t, u : v = ViewNow(k) /\ t = TreeView(k) /\ u = TreeView(k)'
  OBVIOUS
<1>3. \/ step <= 1 /\ v = NoView
      \/ step >= 1 /\ v = t
  BY <1>2, QuietMarks
<1>4. /\ step >= 1 => Leads(Marking(k), t, inbox', u)
      /\ step <= 1 => \/ inbox' \in Seq(Still)
                      \/ step = 1 /\ Leads(Marking(k), NoView, inbox', u)
  BY <1>2, Zenon DEF MarksFollow
<1>5. inbox' \in Seq(Still) => Leads(Marking(k), NoView, inbox', NoView)
  BY StillMarks
<1>6. step = 1 => step >= 1
  OBVIOUS
<1>7. \/ step' <= 1 /\ Leads(Marking(k), v, inbox', NoView)
      \/ step' >= 1 /\ Leads(Marking(k), v, inbox', u)
  BY <1>3, <1>4, <1>5, <1>6
<1> QED BY <1>1, <1>2, <1>7, Zenon DEF MarksSettle

\* A step of the chains.
LEMMA ChainSettles ==
  ASSUME IInv, BrowserIInv, BrowserIInv', Nested(tree, root), Untold(tree, step), UNCHANGED acts,
         Initialising, NEW k \in Kinds, MarksSettle(k)
  PROVE  MarksSettle(k)' /\ Untold(tree', step')
<1>1. PICK a, M, t : a = TreeShape /\ M = MarksOf(k, tree) /\ t = TreeView(k)
  OBVIOUS
<1>2. a \in Shapes /\ M \in SUBSET DOMAIN a.parent /\ t = View(a, M)
  BY <1>1, TreeShapeFacts, TreeMarksFacts DEF TreeView
<1>3. NoFrames \in Shapes /\ {} \in SUBSET DOMAIN NoFrames.parent /\ NoView = View(NoFrames, {})
  BY AloneTyped DEF NoView
<1>4. step \in 0 .. 5
  BY DEF BrowserIInv
<1>5. CASE \/ PageEnabled \/ RuntimeEnabled \/ ChainBegins \/ ScriptAdded
           \/ \E f \in FrameIds : IsolatedWorldCreated(f)
  <2>1. /\ inbox' \in Seq(Mute) /\ MarksOf(k, tree') = MarksOf(k, tree) /\ Untold(tree', step')
    BY <1>5, MuteActs
  <2>2. KeepsShape
    BY <1>5, PageEnabledStep, RuntimeEnabledStep, ChainStep, WorldCreatedStep
  <2>3. TreeView(k)' = t
    BY <1>1, <2>1, <2>2, KeepsFollows DEF TreeView
  <2>4. UNCHANGED <<main, frames>> /\ Quiet /\ (step' = step \/ (step' = step + 1 /\ step # 1))
    <3>1. CASE PageEnabled \/ ScriptAdded
      BY <3>1 DEF PageEnabled, ScriptAdded, Answers, Report, managerVars
    <3>2. CASE RuntimeEnabled
      <4>1. Quiet /\ step = 3 /\ step' = step + 1
        BY <3>2 DEF RuntimeEnabled, Answers, Report
      <4>2. UNCHANGED <<main, frames>>
        BY <3>2 DEF RuntimeEnabled, managerVars
      <4> QED BY <4>1, <4>2
    <3>3. CASE ChainBegins
      BY <3>3 DEF ChainBegins, EnsureIsolatedWorld
    <3>4. ASSUME NEW f \in FrameIds, IsolatedWorldCreated(f)
          PROVE  UNCHANGED <<main, frames>> /\ Quiet /\ step' = step
      BY <3>4 DEF IsolatedWorldCreated, Report, managerVars
    <3> QED BY <1>5, <3>1, <3>2, <3>3, <3>4
  <2>5. ViewNow(k)' = ViewNow(k)
    BY <2>4, ViewStays
  <2>6. CASE step <= 1 /\ ViewNow(k) = NoView
    <3>1. Leads(Marking(k), NoView, inbox', NoView)
      BY <1>3, <2>1, MuteMarks
    <3>2. step' <= 1
      BY <1>4, <2>4, <2>6
    <3>3. Leads(Marking(k), ViewNow(k)', inbox', NoView)
      BY <2>5, <2>6, <3>1
    <3> QED BY <2>1, <3>2, <3>3 DEF MarksSettle
  <2>7. CASE step >= 1 /\ ViewNow(k) = TreeView(k)
    <3>1. Leads(Marking(k), t, inbox', t)
      BY <1>2, <2>1, MuteMarks
    <3>2. step' >= 1
      BY <1>4, <2>4, <2>7
    <3>3. Leads(Marking(k), ViewNow(k)', inbox', TreeView(k)')
      BY <1>1, <2>3, <2>5, <2>7, <3>1
    <3> QED BY <2>1, <3>2, <3>3 DEF MarksSettle
  <2> QED BY <2>4, <2>6, <2>7, QuietMarks
<1>6. CASE LifecycleEnabled
  <2>1. KeepsShape
    BY <1>6, LifecycleEnabledStep
  <2>2. TreeShape' = TreeShape
    BY <2>1, KeepsFollows
  <2>3. Leads(Marking(k), TreeView(k), inbox', TreeView(k)') /\ Untold(tree', step')
    BY <1>6, <2>2, LifecycleMarks
  <2>4. step = 2 /\ step' = 3 /\ Quiet
    BY <1>6 DEF LifecycleEnabled, Answers, Report
  <2>5. UNCHANGED <<main, frames>>
    BY <1>6 DEF LifecycleEnabled, managerVars
  <2>6. ViewNow(k)' = ViewNow(k)
    BY <2>5, ViewStays
  <2>7. ViewNow(k) = TreeView(k)
    BY <2>4, QuietMarks
  <2>8. Leads(Marking(k), ViewNow(k)', inbox', TreeView(k)') /\ step' >= 1
    BY <2>3, <2>4, <2>6, <2>7
  <2> QED BY <2>3, <2>8 DEF MarksSettle
<1>7. CASE FrameTreeAnswered
  <2>1. Quiet /\ step = 1 /\ step' = 2 /\ UNCHANGED <<main, frames>>
    BY <1>7, FrameTreeStays
  <2>2. ViewNow(k)' = ViewNow(k)
    BY <2>1, ViewStays
  <2>3. \/ ViewNow(k) = View(NoFrames, {})
        \/ ViewNow(k) = View(a, M)
    BY <1>1, <1>2, <1>3, QuietMarks, <2>1
  <2>4. k = "url" \/ M = {}
    <3>1. ~(step >= 3)
      BY <2>1
    <3> QED BY <1>1, <3>1, TreeMarksFacts
  <2>5. PICK u : u = TreeView(k)'
    OBVIOUS
  <2>6. /\ Leads(Marking(k), View(NoFrames, {}), inbox', u)
        /\ Leads(Marking(k), View(a, M), inbox', u) /\ Untold(tree', step')
    BY <1>2, <1>3, <1>7, <2>4, <2>5, FrameTreeMarks
  <2>7. Leads(Marking(k), ViewNow(k)', inbox', TreeView(k)') /\ step' >= 1
    BY <2>1, <2>2, <2>3, <2>5, <2>6
  <2> QED BY <2>6, <2>7 DEF MarksSettle
<1> QED BY <1>5, <1>6, <1>7 DEF Initialising

\* The handler reads one event.
LEMMA ManagerSettles ==
  ASSUME IInv, NEW k \in Kinds, MarksSettle(k), Manager, UNCHANGED browserVars
  PROVE  MarksSettle(k)'
<1>1. inbox # <<>> /\ inbox' = Tail(inbox) /\ inbox \in Seq(Events)
  BY ManagerMoves DEF IInv
<1>2. PICK v, w, t : v = ViewNow(k) /\ w = ViewNow(k)' /\ t = TreeView(k)
  OBVIOUS
<1>3. <<v, Head(inbox), w>> \in Marking(k)
  BY <1>2, ManagerMarks
<1>4. TreeView(k)' = t /\ step' = step
  BY <1>2 DEF browserVars, TreeView, TreeShape
<1>5. ASSUME NEW goal, Leads(Marking(k), v, inbox, goal) PROVE Leads(Marking(k), w, inbox', goal)
  <2>1. PICK c : <<v, Head(inbox), c>> \in Marking(k) /\ Leads(Marking(k), c, Tail(inbox), goal)
    BY <1>1, <1>5, LeadsOn
  <2>2. c = w
    BY <1>3, <2>1 DEF Marking
  <2> QED BY <1>1, <2>1, <2>2
<1>6. \/ step' <= 1 /\ Leads(Marking(k), w, inbox', NoView)
      \/ step' >= 1 /\ Leads(Marking(k), w, inbox', t)
  BY <1>2, <1>4, <1>5 DEF MarksSettle
<1> QED BY <1>2, <1>4, <1>6 DEF MarksSettle

LEMMA MarksInit == ASSUME Init PROVE MarksIInv
<1>1. frames = <<>> /\ inbox = <<>> /\ step = 0 /\ main = NoFrame
  BY DEF Init, ManagerInit
<1>2. Untold(tree, step)
  BY DEF Init, Untold
<1>3. ASSUME NEW k \in Kinds PROVE MarksSettle(k)
  <2>1. DOMAIN frames = {}
    BY <1>1
  <2>2. ShapeNow = NoFrames
    <3>1. [f \in DOMAIN frames |-> frames[f].parent] = [x \in {} |-> NoFrame]
      BY <2>1
    <3> QED BY <1>1, <3>1 DEF ShapeNow, Shape, NoFrames
  <2>3. ViewNow(k) = NoView
    BY <2>1, <2>2 DEF ViewNow, NoView, Marked
  <2>4. Leads(Marking(k), ViewNow(k), inbox, NoView) /\ step <= 1
    BY <1>1, <2>3, LeadsNothing
  <2> QED BY <2>4 DEF MarksSettle
<1> QED BY <1>2, <1>3 DEF MarksIInv

LEMMA MarksNext ==
  ASSUME IInv, BrowserIInv, BrowserIInv', MirrorIInv, MarksIInv, [Next]_vars PROVE MarksIInv'
<1> SUFFICES ASSUME NEW k \in Kinds PROVE MarksSettle(k)' /\ Untold(tree', step')
  BY DEF MarksIInv, Kinds
<1>1. Nested(tree, root) /\ Untold(tree, step) /\ MarksSettle(k)
  BY DEF MirrorIInv, MarksIInv
<1>2. CASE Page
  <2>1. /\ Room
        /\ \/ \E c \in ChildIds, p \in FrameIds : ChildAttached(c, p)
           \/ \E c \in ChildIds : ChildDetached(c) \/ ChildCommitted(c)
           \/ \E f \in FrameIds : StartedLoading(f) \/ NavigatedWithin(f) \/ DomReady(f) \/ Loaded(f)
           \/ \E new \in MainIds : MainCommitted(new)
    BY <1>2 DEF Page
  <2>2. UNCHANGED <<main, frames>> /\ step' = step /\ Quiet
    <3>1. UNCHANGED <<managerVars, worlds, step, scripted>> /\ Quiet
      BY <2>1 DEF ChildAttached, ChildDetached, ChildCommitted, StartedLoading, NavigatedWithin,
                  DomReady, Loaded, Reaches, MainCommitted, Report
    <3> QED BY <3>1 DEF managerVars
  <2>3. MarksFollow(k) /\ Untold(tree', step')
    BY <1>1, <2>1, AttachedMarks, DetachedMarks, CommittedMarks, PlainMarks, MainMarks
  <2> QED BY <1>1, <2>2, <2>3, PageSettles
<1>3. CASE Manager /\ UNCHANGED <<browserVars, acts>>
  <2>1. Untold(tree', step')
    BY <1>1, <1>3 DEF browserVars
  <2> QED BY <1>1, <1>3, <2>1, ManagerSettles
<1>4. CASE Initialising /\ UNCHANGED acts
  BY <1>1, <1>4, ChainSettles
<1>5. CASE UNCHANGED vars
  <2>1. UNCHANGED <<main, frames, inbox, root, tree, step>>
    BY <1>5 DEF vars, managerVars, browserVars
  <2>2. ViewNow(k)' = ViewNow(k) /\ TreeView(k)' = TreeView(k)
    BY <2>1 DEF ViewNow, ShapeNow, TreeView, TreeShape
  <2>3. MarksSettle(k)'
    BY <1>1, <2>1, <2>2 DEF MarksSettle
  <2> QED BY <1>1, <2>1, <2>3
<1> QED BY <1>2, <1>3, <1>4, <1>5 DEF Next


LEMMA MarksAgree ==
  ASSUME BrowserIInv, MirrorIInv, MarksIInv, Quiet, step >= 3, NEW k \in Kinds
  PROVE  Marked(k, frames) = MarksOf(k, tree)
<1>1. MarksSettle(k) /\ step \in 0 .. 5
  BY DEF MarksIInv, BrowserIInv
<1>2. ViewNow(k) = TreeView(k)
  BY <1>1, QuietMarks
<1>3. View(ShapeNow, Marked(k, frames)) = View(TreeShape, MarksOf(k, tree))
  BY <1>2 DEF ViewNow, TreeView
<1> QED BY <1>3, ViewsEqual

LEMMA MarksComplete ==
  ASSUME IInv, BrowserIInv, MirrorIInv, MarksIInv PROVE CompletionIsExact
<1> SUFFICES ASSUME Quiet, step >= 3
             PROVE  CheckLifecycle(main) <=>
                      \A f \in DOMAIN tree :
                        \/ "load" \in tree[f].told
                        \/ ~tree[f].reported /\ "DOMContentLoaded" \in tree[f].told
  BY DEF CompletionIsExact
<1>1. main = root /\ DOMAIN frames = DOMAIN tree
  <2>1. step >= 2
    BY DEF BrowserIInv
  <2> QED BY <2>1, MirrorFollows DEF MirrorsBrowser
<1>2. Subtree(frames, main) = DOMAIN tree
  <2>1. main # NoFrame
    BY <1>1, ManagerAssumption DEF BrowserIInv, FrameIds
  <2> QED BY <1>1, <2>1, MainAboveAll DEF IInv
<1>3. /\ Marked("url", frames) = MarksOf("url", tree)
      /\ Marked("load", frames) = MarksOf("load", tree)
      /\ Marked("DOMContentLoaded", frames) = MarksOf("DOMContentLoaded", tree)
  BY MarksAgree DEF Kinds
<1>4. ASSUME NEW f \in DOMAIN tree
      PROVE  /\ "load" \in frames[f].lifecycle <=> "load" \in tree[f].told
             /\ "DOMContentLoaded" \in frames[f].lifecycle <=> "DOMContentLoaded" \in tree[f].told
             /\ frames[f].url = tree[f].reported
  <2>1. f \in DOMAIN frames /\ frames[f] \in FrameRecords /\ tree[f] \in Documents
    BY <1>1 DEF IInv, Forest, BrowserIInv, Tree
  <2>2. frames[f].url \in BOOLEAN /\ tree[f].reported \in BOOLEAN
    BY <2>1 DEF FrameRecords, Documents
  <2>3. frames[f].url = TRUE <=> tree[f].reported = TRUE
    <3>1. frames[f].url = TRUE <=> f \in Marked("url", frames)
      BY <2>1 DEF Marked, Has
    <3>2. tree[f].reported = TRUE <=> f \in MarksOf("url", tree)
      BY DEF MarksOf, Told
    <3> QED BY <1>3, <3>1, <3>2
  <2>4. frames[f].url = tree[f].reported
    BY <2>2, <2>3
  <2>5. ASSUME NEW k \in {"load", "DOMContentLoaded"}
        PROVE  k \in frames[f].lifecycle <=> k \in tree[f].told
    <3>1. k \in frames[f].lifecycle <=> f \in Marked(k, frames)
      BY <2>1 DEF Marked, Has
    <3>2. k \in tree[f].told <=> f \in MarksOf(k, tree)
      BY DEF MarksOf, Told
    <3> QED BY <1>3, <3>1, <3>2
  <2> QED BY <2>4, <2>5
<1>5. CheckLifecycle(main) <=>
        \A f \in DOMAIN tree : \/ "load" \in frames[f].lifecycle
                               \/ ~frames[f].url /\ "DOMContentLoaded" \in frames[f].lifecycle
  BY <1>2 DEF CheckLifecycle
<1> QED BY <1>4, <1>5

\* Whenever the events are read, the page counts as loaded for a navigation exactly when the
\* browser told this of each frame that it has since that frame last began to load, whatever
\* the page does: on_page_lifecycle_event, on_frame_started_loading, on_frame_navigated and
\* the removal of frames make of the url and the lifecycle of every frame what the events of
\* one act stand for, so that a navigation neither ends early on a frame that began anew nor
\* waits for one that is gone (check_lifecycle_complete).
THEOREM CompletionFollowsBrowser == Spec => []CompletionIsExact
<1>1. Init => MirrorIInv /\ MarksIInv
  BY MirrorInit, MarksInit
<1>2. /\ IInv /\ BrowserIInv /\ (IInv /\ BrowserIInv)' /\ MirrorIInv /\ MarksIInv /\ [Next]_vars
      => MirrorIInv' /\ MarksIInv'
  BY MirrorNext, MarksNext
<1>3. IInv /\ BrowserIInv /\ MirrorIInv /\ MarksIInv => CompletionIsExact
  BY MarksComplete
<1> QED BY <1>1, <1>2, <1>3, BrowserInductive, PTL DEF Spec


-----------------------------------------------------------------------------
(* The contexts of one frame f.  It holds the contexts that are mapped to  *)
(* it, and each of its worlds has one of a set of contexts: of one, but    *)
(* where a main frame takes over the worlds of another, of any.  Becomes   *)
(* says what an event makes of what f holds, and Heard which events come.  *)

Places == Contexts \cup {NoContext}
Hold(M, P, S) == [mapped |-> M, primary |-> P, secondary |-> S]
Holds == [mapped : SUBSET Contexts, primary : SUBSET Places, secondary : SUBSET Places]
Nothing == Hold({}, {NoContext}, {NoContext})

Finds(c, X) == {IF x = NoContext THEN c ELSE x : x \in X}
Forgets(c, X) == {IF x = c THEN NoContext ELSE x : x \in X}

Becomes(f, a, h, e) ==
  CASE e.type = "attached" /\ e.frame = f /\ f \notin DOMAIN a.parent ->
         Hold(h.mapped, {NoContext}, {NoContext})
    [] e.type = "navigated" /\ e.parent = NoFrame /\ e.frame = f /\ a.main # f ->
         Hold(h.mapped, Places, Places)
    [] e.type = "primary" /\ e.frame = f ->
         Hold(h.mapped \cup {e.context}, {e.context}, h.secondary)
    [] e.type = "secondary" /\ e.frame = f ->
         Hold(h.mapped \cup {e.context}, h.primary, Finds(e.context, h.secondary))
    [] e.type = "destroyed" /\ e.context[1] = f ->
         Hold(h.mapped \ {e.context}, Forgets(e.context, h.primary), Forgets(e.context, h.secondary))
    [] e.type = "cleared" /\ h.mapped # {} -> Nothing
    [] OTHER -> h

\* A context belongs to its frame, which is there when it is created, and is known to be
\* in one of its worlds when it is destroyed.
Heard(f, a, h, e) ==
  /\ e.type \in {"primary", "secondary"} =>
       e.context[1] = e.frame /\ (e.frame = f => f \in DOMAIN a.parent)
  /\ e.type = "destroyed" /\ e.context[1] = f =>
       e.context \in h.mapped /\ e.context \notin h.primary \cap h.secondary

Sight(a, h) == [shape |-> a, hold |-> h]
Sights == [shape : Shapes, hold : Holds]
Holding(f) ==
  {t \in Sights \X Events \X Sights :
     /\ Heard(f, t[1].shape, t[1].hold, t[2])
     /\ t[3] = Sight(Reshape(t[1].shape, t[2]), Becomes(f, t[1].shape, t[1].hold, t[2]))}

LEMMA HoldFacts ==
  ASSUME NEW M, NEW P, NEW S
  PROVE  /\ Hold(M, P, S).mapped = M /\ Hold(M, P, S).primary = P /\ Hold(M, P, S).secondary = S
         /\ M \in SUBSET Contexts /\ P \in SUBSET Places /\ S \in SUBSET Places
              => Hold(M, P, S) \in Holds
BY DEF Hold, Holds

LEMMA HoldsEqual ==
  ASSUME NEW h \in Holds, NEW g \in Holds,
         h.mapped = g.mapped, h.primary = g.primary, h.secondary = g.secondary
  PROVE  h = g
BY DEF Holds

LEMMA NothingFacts ==
  /\ Nothing \in Holds /\ Nothing.mapped = {}
  /\ Nothing.primary = {NoContext} /\ Nothing.secondary = {NoContext}
BY HoldFacts DEF Nothing, Places

LEMMA SightFacts ==
  ASSUME NEW a, NEW h
  PROVE  /\ Sight(a, h).shape = a /\ Sight(a, h).hold = h
         /\ a \in Shapes /\ h \in Holds => Sight(a, h) \in Sights
BY DEF Sight, Sights

LEMMA SightsEqual ==
  ASSUME NEW a, NEW b, NEW h, NEW g, Sight(a, h) = Sight(b, g) PROVE a = b /\ h = g
BY SightFacts

\* The cases of Becomes, one by one.
LEMMA BecomesAttached ==
  ASSUME NEW f, NEW a, NEW h, NEW e,
         e.type = "attached"
  PROVE  Becomes(f, a, h, e) = IF e.frame = f /\ f \notin DOMAIN a.parent
                              THEN Hold(h.mapped, {NoContext}, {NoContext}) ELSE h
BY Zenon DEF Becomes

LEMMA BecomesNavigated ==
  ASSUME NEW f, NEW a, NEW h, NEW e,
         e.type = "navigated"
  PROVE  Becomes(f, a, h, e) = IF e.parent = NoFrame /\ e.frame = f /\ a.main # f
                              THEN Hold(h.mapped, Places, Places) ELSE h
BY Zenon DEF Becomes

LEMMA BecomesPrimary ==
  ASSUME NEW f, NEW a, NEW h, NEW e,
         e.type = "primary"
  PROVE  Becomes(f, a, h, e) = IF e.frame = f
                              THEN Hold(h.mapped \cup {e.context}, {e.context}, h.secondary) ELSE h
BY Zenon DEF Becomes

LEMMA BecomesSecondary ==
  ASSUME NEW f, NEW a, NEW h, NEW e,
         e.type = "secondary"
  PROVE  Becomes(f, a, h, e) = IF e.frame = f
                              THEN Hold(h.mapped \cup {e.context}, h.primary,
                                        Finds(e.context, h.secondary))
                              ELSE h
BY Zenon DEF Becomes

LEMMA BecomesDestroyed ==
  ASSUME NEW f, NEW a, NEW h, NEW e,
         e.type = "destroyed"
  PROVE  Becomes(f, a, h, e) = IF e.context[1] = f
                              THEN Hold(h.mapped \ {e.context}, Forgets(e.context, h.primary),
                                        Forgets(e.context, h.secondary))
                              ELSE h
BY Zenon DEF Becomes

LEMMA BecomesCleared ==
  ASSUME NEW f, NEW a, NEW h, NEW e,
         e.type = "cleared"
  PROVE  Becomes(f, a, h, e) = IF h.mapped # {} THEN Nothing ELSE h
BY Zenon DEF Becomes

LEMMA BecomesElse ==
  ASSUME NEW f, NEW a, NEW h, NEW e,
         e.type \notin {"attached", "navigated", "primary", "secondary", "destroyed", "cleared"}
  PROVE  Becomes(f, a, h, e) = h
BY Zenon DEF Becomes

LEMMA HoldStep ==
  ASSUME NEW f, NEW a \in Shapes, NEW h \in Holds, NEW e \in Events, Heard(f, a, h, e),
         NEW b \in Shapes, b = Reshape(a, e), NEW w \in Holds, w = Becomes(f, a, h, e)
  PROVE  <<Sight(a, h), e, Sight(b, w)>> \in Holding(f)
<1>1. PICK x, y : x = Sight(a, h) /\ y = Sight(b, w)
  OBVIOUS
<1>2. x \in Sights /\ y \in Sights /\ x.shape = a /\ x.hold = h
  BY <1>1, SightFacts
<1>3. Heard(f, x.shape, x.hold, e) /\ y = Sight(Reshape(x.shape, e), Becomes(f, x.shape, x.hold, e))
  BY <1>1, <1>2
<1>4. <<x, e, y>> \in Holding(f)
  BY <1>2, <1>3 DEF Holding
<1> QED BY <1>1, <1>4

LEMMA HoldOne ==
  ASSUME NEW f, NEW a \in Shapes, NEW h \in Holds, NEW e \in Events, Heard(f, a, h, e),
         NEW b \in Shapes, b = Reshape(a, e), NEW w \in Holds, w = Becomes(f, a, h, e)
  PROVE  Leads(Holding(f), Sight(a, h), <<e>>, Sight(b, w))
<1>1. <<Sight(a, h), e, Sight(b, w)>> \in Holding(f)
  BY HoldStep
<1> QED BY <1>1, LeadsOne

\* An event that is not about the contexts of f.
Foreign(f) ==
  {e \in Events :
     /\ e.type \in {"primary", "secondary"} => e.context[1] = e.frame /\ e.frame # f
     /\ e.type = "destroyed" => e.context[1] # f
     /\ e.type # "cleared"
     /\ e.type = "attached" \/ (e.type = "navigated" /\ e.parent = NoFrame) => e.frame # f}

LEMMA ForeignKeeps ==
  ASSUME NEW f, NEW e \in Foreign(f), NEW a, NEW h
  PROVE  e \in Events /\ Heard(f, a, h, e) /\ Becomes(f, a, h, e) = h
<1>1. e \in Events /\ Heard(f, a, h, e)
  BY DEF Foreign, Heard
<1>2. CASE e.type = "attached" \/ e.type = "navigated"
  <2>1. e.type = "attached" \/ (e.type = "navigated" /\ e.parent = NoFrame) => e.frame # f
    BY DEF Foreign
  <2>2. CASE e.type = "attached"
    <3>1. Becomes(f, a, h, e) = IF e.frame = f /\ f \notin DOMAIN a.parent
                                THEN Hold(h.mapped, {NoContext}, {NoContext}) ELSE h
      BY <2>2, BecomesAttached
    <3> QED BY <1>1, <2>1, <2>2, <3>1
  <2>3. CASE e.type = "navigated"
    <3>1. Becomes(f, a, h, e) = IF e.parent = NoFrame /\ e.frame = f /\ a.main # f
                                THEN Hold(h.mapped, Places, Places) ELSE h
      BY <2>3, BecomesNavigated
    <3> QED BY <1>1, <2>1, <2>3, <3>1
  <2> QED BY <1>2, <2>2, <2>3
<1>3. CASE e.type = "primary" \/ e.type = "secondary"
  <2>1. e.frame # f
    BY <1>3 DEF Foreign
  <2>2. CASE e.type = "primary"
    <3>1. Becomes(f, a, h, e) = IF e.frame = f
                                THEN Hold(h.mapped \cup {e.context}, {e.context}, h.secondary)
                                ELSE h
      BY <2>2, BecomesPrimary
    <3> QED BY <1>1, <2>1, <3>1
  <2>3. CASE e.type = "secondary"
    <3>1. Becomes(f, a, h, e) = IF e.frame = f
                                THEN Hold(h.mapped \cup {e.context}, h.primary,
                                          Finds(e.context, h.secondary))
                                ELSE h
      BY <2>3, BecomesSecondary
    <3> QED BY <1>1, <2>1, <3>1
  <2> QED BY <1>3, <2>2, <2>3
<1>4. CASE e.type = "destroyed"
  <2>1. e.context[1] # f
    BY <1>4 DEF Foreign
  <2>2. Becomes(f, a, h, e) = IF e.context[1] = f
                              THEN Hold(h.mapped \ {e.context}, Forgets(e.context, h.primary),
                                        Forgets(e.context, h.secondary))
                              ELSE h
    BY <1>4, BecomesDestroyed
  <2> QED BY <1>1, <2>1, <2>2
<1>5. CASE e.type \notin {"attached", "navigated", "primary", "secondary", "destroyed"}
  <2>1. e.type \notin {"attached", "navigated", "primary", "secondary", "destroyed", "cleared"}
    BY <1>5 DEF Foreign
  <2>2. Becomes(f, a, h, e) = h
    BY <2>1, BecomesElse
  <2> QED BY <1>1, <2>2
<1> QED BY <1>2, <1>3, <1>4, <1>5

LEMMA ForeignLeads ==
  ASSUME NEW f, NEW q \in Seq(Foreign(f)), NEW a, NEW b, Leads(Moves, a, q, b), NEW h \in Holds
  PROVE  Leads(Holding(f), Sight(a, h), q, Sight(b, h))
<1>1. PICK g : /\ g[0] = a /\ g[Len(q)] = b
               /\ \A i \in 1 .. Len(q) : <<g[i - 1], q[i], g[i]>> \in Moves
  BY DEF Leads
<1>2. Len(q) \in Nat /\ \A i \in 1 .. Len(q) : q[i] \in Foreign(f)
  OBVIOUS
<1> DEFINE H == [i \in 0 .. Len(q) |-> Sight(g[i], h)]
<1>3. H[0] = Sight(a, h) /\ H[Len(q)] = Sight(b, h)
  BY <1>1, <1>2
<1>4. ASSUME NEW i \in 1 .. Len(q) PROVE <<H[i - 1], q[i], H[i]>> \in Holding(f)
  <2>1. PICK x, y, e : x = g[i - 1] /\ y = g[i] /\ e = q[i]
    OBVIOUS
  <2>2. <<x, e, y>> \in Moves
    BY <1>1, <2>1
  <2>3. x \in Shapes /\ y \in Shapes /\ e \in Foreign(f) /\ e \in Events /\ y = Reshape(x, e)
    BY <1>2, <2>1, <2>2 DEF Moves
  <2>4. Heard(f, x, h, e) /\ h = Becomes(f, x, h, e)
    BY <2>3, ForeignKeeps
  <2>5. <<Sight(x, h), e, Sight(y, h)>> \in Holding(f)
    BY <2>3, <2>4, HoldStep
  <2>6. i - 1 \in 0 .. Len(q) /\ i \in 0 .. Len(q)
    BY <1>2
  <2>7. H[i - 1] = Sight(x, h) /\ H[i] = Sight(y, h)
    BY <2>1, <2>6
  <2> QED BY <2>1, <2>5, <2>7
<1> HIDE DEF H
<1> QED BY <1>3, <1>4 DEF Leads

LEMMA CalmForeign ==
  ASSUME NEW f, NEW q \in Seq(Foreign(f) \cap Calm), NEW a \in Shapes, NEW h \in Holds
  PROVE  /\ Leads(Holding(f), Sight(a, h), q, Sight(a, h))
         /\ q \in Seq(Foreign(f)) /\ q \in Seq(Calm) /\ q \in Seq(Events)
<1>1. q \in Seq(Foreign(f)) /\ q \in Seq(Calm)
  OBVIOUS
<1>2. Leads(Moves, a, q, a)
  BY <1>1, CalmLeads
<1> QED BY <1>1, <1>2, ForeignLeads, CalmTyped


\* What the handler has of f is as h says.
Agrees(f, h) ==
  /\ h.mapped = {c \in DOMAIN contexts : contexts[c] = f}
  /\ \A c \in h.mapped : c[1] = f
  /\ f \in DOMAIN frames => frames[f].primary \in h.primary /\ frames[f].secondary \in h.secondary

LEMMA AgreesStill ==
  ASSUME NEW f, NEW h, Agrees(f, h), contexts' = contexts,
         f \in DOMAIN frames' => /\ f \in DOMAIN frames
                                 /\ frames'[f].primary = frames[f].primary
                                 /\ frames'[f].secondary = frames[f].secondary
  PROVE  Agrees(f, h)'
BY DEF Agrees

LEMMA AgreesMapped ==
  ASSUME NEW f, NEW h \in Holds, Agrees(f, h), NEW P, NEW S, contexts' = contexts,
         f \in DOMAIN frames' => frames'[f].primary \in P /\ frames'[f].secondary \in S
  PROVE  Agrees(f, Hold(h.mapped, P, S))'
BY HoldFacts DEF Agrees

\* The events that attach, detach and navigate frames.
LEMMA TreeAgrees ==
  ASSUME IInv, IInv', NEW f \in FrameIds, NEW h \in Holds, Agrees(f, h), NEW w,
         w = Becomes(f, ShapeNow, h, Read),
         OnFrameAttached \/ OnFrameDetached \/ OnFrameNavigated
  PROVE  Agrees(f, w)'
<1>1. DOMAIN ShapeNow.parent = DOMAIN frames /\ ShapeNow.main = main
  BY ShapeTyped DEF IInv, ShapeNow
<1>2. contexts' = contexts
  BY DEF OnFrameAttached, OnFrameDetached, OnFrameNavigated
<1>3. CASE OnFrameAttached
  <2>1. Read.type = "attached"
    BY <1>3 DEF OnFrameAttached, Reads
  <2>2. w = IF Read.frame = f /\ f \notin DOMAIN ShapeNow.parent
            THEN Hold(h.mapped, {NoContext}, {NoContext}) ELSE h
    BY <2>1, BecomesAttached
  <2>3. \A x \in DOMAIN frames' : /\ x \in DOMAIN frames => Alike(frames'[x], frames[x])
                                  /\ x \notin DOMAIN frames => Alike(frames'[x], NewFrame(NoFrame))
    BY <1>3, AttachedFields
  <2>4. DOMAIN frames' \subseteq DOMAIN frames \cup {Read.frame}
    BY <1>3 DEF OnFrameAttached, Attach
  <2>5. CASE Read.frame = f /\ f \notin DOMAIN frames
    <3>1. w = Hold(h.mapped, {NoContext}, {NoContext})
      BY <1>1, <2>2, <2>5
    <3>2. f \in DOMAIN frames' => frames'[f].primary = NoContext /\ frames'[f].secondary = NoContext
      BY <2>3, <2>5 DEF Alike, NewFrame
    <3> QED BY <1>2, <3>1, <3>2, AgreesMapped
  <2>6. CASE ~(Read.frame = f /\ f \notin DOMAIN frames)
    <3>1. w = h
      BY <1>1, <2>2, <2>6
    <3>2. f \in DOMAIN frames' => f \in DOMAIN frames
      BY <2>4, <2>6
    <3> QED BY <1>2, <2>3, <3>1, <3>2, AgreesStill DEF Alike
  <2> QED BY <2>5, <2>6
<1>4. CASE OnFrameDetached
  <2>1. Read.type = "detached"
    BY <1>4 DEF OnFrameDetached, Reads
  <2>2. w = h
    <3>1. Read.type \notin {"attached", "navigated", "primary", "secondary", "destroyed", "cleared"}
      BY <2>1
    <3> QED BY <3>1, BecomesElse
  <2>3. \A x \in DOMAIN frames' : x \in DOMAIN frames /\ Alike(frames'[x], frames[x])
    BY <1>4, DetachedFields
  <2> QED BY <1>2, <2>2, <2>3, AgreesStill DEF Alike
<1>5. CASE OnFrameNavigated
  <2>1. Read.type = "navigated"
    BY <1>5 DEF OnFrameNavigated, Reads
  <2>2. w = IF Read.parent = NoFrame /\ Read.frame = f /\ ShapeNow.main # f
            THEN Hold(h.mapped, Places, Places) ELSE h
    BY <2>1, BecomesNavigated
  <2>3. CASE Read.parent # NoFrame
    <3>1. w = h
      BY <2>2, <2>3
    <3>2. \A x \in DOMAIN frames' :
            /\ x \in DOMAIN frames
            /\ frames'[x].primary = frames[x].primary /\ frames'[x].secondary = frames[x].secondary
      BY <1>5, <2>3, ChildFields
    <3> QED BY <1>2, <3>1, <3>2, AgreesStill
  <2>4. CASE Read.parent = NoFrame
    <3>1. /\ DOMAIN frames' = {Read.frame}
          /\ frames'[Read.frame].primary = Inherited.primary
          /\ frames'[Read.frame].secondary = Inherited.secondary
      BY <1>5, <2>4, MainFields
    <3>2. CASE Read.frame = f /\ main # f
      <4>1. w = Hold(h.mapped, Places, Places)
        BY <1>1, <2>2, <2>4, <3>2
      <4>2. f \in DOMAIN frames' => frames'[f].primary \in Places /\ frames'[f].secondary \in Places
        BY DEF IInv, Forest, FrameRecords, Places
      <4> QED BY <1>2, <4>1, <4>2, AgreesMapped
    <3>3. CASE Read.frame = f /\ main = f
      <4>1. w = h
        BY <1>1, <2>2, <3>3
      <4>2. f \in DOMAIN frames /\ Inherited = frames[f]
        BY <3>3, ManagerAssumption DEF IInv, Forest, Mains, Inherited, FrameIds
      <4> QED BY <1>2, <3>1, <3>3, <4>1, <4>2, AgreesStill
    <3>4. CASE Read.frame # f
      <4>1. w = h /\ f \notin DOMAIN frames'
        BY <2>2, <3>1, <3>4
      <4> QED BY <1>2, <4>1, AgreesStill
    <3> QED BY <3>2, <3>3, <3>4
  <2> QED BY <2>3, <2>4
<1> QED BY <1>3, <1>4, <1>5

\* Those about the load of a document.
LEMMA LoadAgrees ==
  ASSUME IInv, NEW f \in FrameIds, NEW h \in Holds, Agrees(f, h), NEW w,
         w = Becomes(f, ShapeNow, h, Read),
         OnFrameNavigatedWithin \/ OnFrameStartedLoading \/ OnLifecycleEvent
  PROVE  Agrees(f, w)'
<1>1. Read.type \in {"within", "startedLoading", "init", "DOMContentLoaded", "load"}
      /\ contexts' = contexts
  BY DEF OnFrameNavigatedWithin, OnFrameStartedLoading, OnLifecycleEvent, Reads
<1>2. w = h
  <2>1. Read.type \notin {"attached", "navigated", "primary", "secondary", "destroyed", "cleared"}
    BY <1>1
  <2> QED BY <2>1, BecomesElse
<1>3. \A x \in DOMAIN frames : frames[x] \in FrameRecords
  BY DEF IInv, Forest
<1>4. \A x \in DOMAIN frames' :
        /\ x \in DOMAIN frames
        /\ frames'[x].primary = frames[x].primary /\ frames'[x].secondary = frames[x].secondary
  <2>1. CASE OnFrameNavigatedWithin
    BY <1>3, <2>1 DEF OnFrameNavigatedWithin, FrameRecords
  <2>2. CASE OnFrameStartedLoading
    BY <1>3, <2>2 DEF OnFrameStartedLoading, FrameRecords
  <2>3. CASE OnLifecycleEvent
    <3>1. PICK e \in {"init", "DOMContentLoaded", "load"} :
            frames' = IF Read.frame \notin DOMAIN frames THEN frames
                      ELSE [frames EXCEPT ![Read.frame].lifecycle =
                              IF e = "init" THEN {e} ELSE @ \cup {e}]
      BY <2>3 DEF OnLifecycleEvent
    <3> QED BY <1>3, <3>1 DEF FrameRecords
  <2> QED BY <2>1, <2>2, <2>3
<1> QED BY <1>1, <1>2, <1>4, AgreesStill


LEMMA CreatedAgrees ==
  ASSUME IInv, NEW f \in FrameIds, NEW h \in Holds, Agrees(f, h), NEW w,
         w = Becomes(f, ShapeNow, h, Read), Heard(f, ShapeNow, h, Read),
         NEW world \in {"primary", "secondary"}, OnContextCreated(world)
  PROVE  Agrees(f, w)'
<1>1. /\ DOMAIN frames' = DOMAIN frames /\ Read.type = world
      /\ \A x \in DOMAIN frames :
           /\ frames'[x].primary = IF world = "primary" /\ x = Read.frame
                                   THEN Read.context ELSE frames[x].primary
           /\ frames'[x].secondary =
                IF world = "secondary" /\ x = Read.frame /\ frames[x].secondary = NoContext
                THEN Read.context ELSE frames[x].secondary
  BY CreatedFields
<1>2. DOMAIN ShapeNow.parent = DOMAIN frames
  BY ShapeTyped DEF IInv, ShapeNow
<1>3. PICK g, c : g = Read.frame /\ c = Read.context
  OBVIOUS
<1>4. c[1] = g /\ (g = f => f \in DOMAIN frames)
  BY <1>1, <1>2, <1>3 DEF Heard
<1>5. IF g \in DOMAIN frames
      THEN contexts' = [x \in DOMAIN contexts \cup {c} |-> IF x = c THEN g ELSE contexts[x]]
      ELSE contexts' = contexts
  BY <1>3 DEF OnContextCreated
<1>6. CASE g # f
  <2>1. w = h
    <3>1. CASE world = "primary"
      <4>1. w = IF Read.frame = f
                THEN Hold(h.mapped \cup {Read.context}, {Read.context}, h.secondary) ELSE h
        BY <1>1, <3>1, BecomesPrimary
      <4> QED BY <1>3, <1>6, <4>1
    <3>2. CASE world = "secondary"
      <4>1. w = IF Read.frame = f
                THEN Hold(h.mapped \cup {Read.context}, h.primary, Finds(Read.context, h.secondary))
                ELSE h
        BY <1>1, <3>2, BecomesSecondary
      <4> QED BY <1>3, <1>6, <4>1
    <3> QED BY <3>1, <3>2
  <2>2. c \notin h.mapped
    BY <1>4, <1>6 DEF Agrees
  <2>3. {x \in DOMAIN contexts' : contexts'[x] = f} = h.mapped
    BY <1>5, <1>6, <2>2 DEF Agrees
  <2>4. f \in DOMAIN frames' => /\ frames'[f].primary = frames[f].primary
                                /\ frames'[f].secondary = frames[f].secondary
    BY <1>1, <1>3, <1>6
  <2> QED BY <1>1, <2>1, <2>3, <2>4 DEF Agrees
<1>7. CASE g = f
  <2>1. {x \in DOMAIN contexts' : contexts'[x] = f} = h.mapped \cup {c}
    BY <1>4, <1>5, <1>7 DEF Agrees
  <2>2. \A x \in h.mapped \cup {c} : x[1] = f
    BY <1>4, <1>7 DEF Agrees
  <2>3. f \in DOMAIN frames
    BY <1>4, <1>7
  <2>4. CASE world = "primary"
    <3>1. w = IF Read.frame = f
              THEN Hold(h.mapped \cup {Read.context}, {Read.context}, h.secondary) ELSE h
      BY <1>1, <2>4, BecomesPrimary
    <3>2. w = Hold(h.mapped \cup {c}, {c}, h.secondary)
      BY <1>3, <1>7, <3>1
    <3>3. frames'[f].primary = c /\ frames'[f].secondary = frames[f].secondary
      BY <1>1, <1>3, <1>7, <2>3, <2>4
    <3>4. w.mapped = h.mapped \cup {c} /\ w.primary = {c} /\ w.secondary = h.secondary
      BY <3>2, HoldFacts
    <3> QED BY <1>1, <2>1, <2>2, <2>3, <3>3, <3>4 DEF Agrees
  <2>5. CASE world = "secondary"
    <3>1. w = IF Read.frame = f
              THEN Hold(h.mapped \cup {Read.context}, h.primary, Finds(Read.context, h.secondary))
              ELSE h
      BY <1>1, <2>5, BecomesSecondary
    <3>2. w = Hold(h.mapped \cup {c}, h.primary, Finds(c, h.secondary))
      BY <1>3, <1>7, <3>1
    <3>3. /\ frames'[f].primary = frames[f].primary
          /\ frames'[f].secondary = IF frames[f].secondary = NoContext THEN c ELSE frames[f].secondary
      BY <1>1, <1>3, <1>7, <2>3, <2>5
    <3>4. w.mapped = h.mapped \cup {c} /\ w.primary = h.primary /\ w.secondary = Finds(c, h.secondary)
      BY <3>2, HoldFacts
    <3>5. frames'[f].secondary \in Finds(c, h.secondary)
      BY <2>3, <3>3 DEF Agrees, Finds
    <3> QED BY <1>1, <2>1, <2>2, <2>3, <3>3, <3>4, <3>5 DEF Agrees
  <2> QED BY <2>4, <2>5
<1> QED BY <1>6, <1>7

LEMMA DestroyedAgrees ==
  ASSUME IInv, NEW f \in FrameIds, NEW h \in Holds, Agrees(f, h), NEW w,
         w = Becomes(f, ShapeNow, h, Read), Heard(f, ShapeNow, h, Read), OnContextDestroyed
  PROVE  Agrees(f, w)'
<1>1. /\ DOMAIN frames' = DOMAIN frames /\ Read.type = "destroyed"
      /\ \A x \in DOMAIN frames :
           /\ Read.context \in DOMAIN contexts /\ contexts[Read.context] = x =>
                Alike(frames'[x], DestroyContext(frames[x], Read.context))
           /\ ~(Read.context \in DOMAIN contexts /\ contexts[Read.context] = x) =>
                frames'[x] = frames[x]
  BY DestroyedFields
<1>2. PICK c : c = Read.context
  OBVIOUS
<1>3. contexts' = [x \in DOMAIN contexts \ {c} |-> contexts[x]]
  BY <1>2 DEF OnContextDestroyed
<1>4. {x \in DOMAIN contexts' : contexts'[x] = f} = h.mapped \ {c}
  BY <1>3 DEF Agrees
<1>5. w = IF Read.context[1] = f
          THEN Hold(h.mapped \ {Read.context}, Forgets(Read.context, h.primary),
                    Forgets(Read.context, h.secondary))
          ELSE h
  BY <1>1, BecomesDestroyed
<1>6. CASE c[1] # f
  <2>1. w = h
    BY <1>2, <1>5, <1>6
  <2>2. c \notin h.mapped
    BY <1>6 DEF Agrees
  <2>3. f \in DOMAIN frames => frames'[f] = frames[f]
    BY <1>1, <1>2, <2>2 DEF Agrees
  <2> QED BY <1>1, <1>4, <2>1, <2>2, <2>3 DEF Agrees
<1>7. CASE c[1] = f
  <2>1. c \in h.mapped /\ c \notin h.primary \cap h.secondary
    BY <1>1, <1>2, <1>7 DEF Heard
  <2>2. w = Hold(h.mapped \ {c}, Forgets(c, h.primary), Forgets(c, h.secondary))
    BY <1>2, <1>5, <1>7
  <2>3. /\ w.mapped = h.mapped \ {c} /\ w.primary = Forgets(c, h.primary)
        /\ w.secondary = Forgets(c, h.secondary)
    BY <2>2, HoldFacts
  <2>4. ASSUME f \in DOMAIN frames
        PROVE  frames'[f].primary \in w.primary /\ frames'[f].secondary \in w.secondary
    <3>1. Alike(frames'[f], DestroyContext(frames[f], c))
      BY <1>1, <1>2, <2>1, <2>4 DEF Agrees
    <3>2. frames[f].primary \in h.primary /\ frames[f].secondary \in h.secondary
          /\ frames[f] \in FrameRecords
      BY <2>4 DEF Agrees, IInv, Forest
    <3>3. /\ frames'[f].primary = IF frames[f].primary = c THEN NoContext ELSE frames[f].primary
          /\ frames'[f].secondary = IF frames[f].primary # c /\ frames[f].secondary = c
                                    THEN NoContext ELSE frames[f].secondary
      BY <3>1, <3>2 DEF Alike, DestroyContext, FrameRecords
    <3>4. ~(frames[f].primary = c /\ frames[f].secondary = c)
      BY <2>1, <3>2
    <3> QED BY <2>3, <3>2, <3>3, <3>4 DEF Forgets
  <2> QED BY <1>1, <1>4, <2>3, <2>4 DEF Agrees
<1> QED BY <1>6, <1>7

LEMMA ClearedAgrees ==
  ASSUME IInv, NEW f \in FrameIds, NEW h \in Holds, Agrees(f, h), NEW w,
         w = Becomes(f, ShapeNow, h, Read), OnContextsCleared
  PROVE  Agrees(f, w)'
<1>1. /\ DOMAIN frames' = DOMAIN frames /\ Read.type = "cleared"
      /\ \A x \in DOMAIN frames :
           /\ x \in Range(contexts) => /\ frames'[x].primary = NoContext
                                       /\ frames'[x].secondary = NoContext
           /\ x \notin Range(contexts) => frames'[x] = frames[x]
  BY ClearedFields
<1>2. DOMAIN contexts' = {}
  <2>1. contexts' = <<>>
    BY DEF OnContextsCleared
  <2>2. DOMAIN <<>> = {}
    OBVIOUS
  <2> QED BY <2>1, <2>2
<1>3. f \in Range(contexts) <=> h.mapped # {}
  BY DEF Agrees, Range
<1>4. w = IF h.mapped # {} THEN Nothing ELSE h
  BY <1>1, BecomesCleared
<1>5. CASE h.mapped # {}
  <2>1. w.mapped = {} /\ w.primary = {NoContext} /\ w.secondary = {NoContext}
    BY <1>4, <1>5, NothingFacts
  <2>2. {c \in DOMAIN contexts' : contexts'[c] = f} = {}
    BY <1>2
  <2>3. f \in DOMAIN frames' => frames'[f].primary = NoContext /\ frames'[f].secondary = NoContext
    BY <1>1, <1>3, <1>5
  <2> QED BY <2>1, <2>2, <2>3 DEF Agrees
<1>6. CASE h.mapped = {}
  BY <1>1, <1>2, <1>3, <1>4, <1>6 DEF Agrees
<1> QED BY <1>5, <1>6

\* Each handler makes of what f holds what Becomes says.
LEMMA ManagerAgrees ==
  ASSUME IInv, IInv', NEW f \in FrameIds, NEW h \in Holds, Agrees(f, h), NEW w, Manager,
         <<Sight(ShapeNow, h), Head(inbox), w>> \in Holding(f)
  PROVE  \E g \in Holds : w = Sight(ShapeNow', g) /\ Agrees(f, g)'
<1>1. PICK v, e : v = Sight(ShapeNow, h) /\ e = Read
  OBVIOUS
<1>2. /\ <<v, e, w>> \in Sights \X Events \X Sights
      /\ Heard(f, v.shape, v.hold, e)
      /\ w = Sight(Reshape(v.shape, e), Becomes(f, v.shape, v.hold, e))
  <2>1. <<v, e, w>> \in Holding(f)
    BY <1>1 DEF Read
  <2> QED BY <2>1 DEF Holding
<1>3. v.shape = ShapeNow /\ v.hold = h
  BY <1>1, SightFacts
<1>4. PICK g : g = Becomes(f, ShapeNow, h, Read)
  OBVIOUS
<1>5. Heard(f, ShapeNow, h, Read) /\ w = Sight(Reshape(ShapeNow, Read), g)
  BY <1>1, <1>2, <1>3, <1>4
<1>6. g \in Holds
  <2>1. w.hold = g
    BY <1>5, SightFacts
  <2> QED BY <1>2, <2>1 DEF Sights
<1>7. ShapeNow' = Reshape(ShapeNow, Read)
  <2>1. <<ShapeNow, Read, ShapeNow'>> \in Moves
    BY ManagerMoves DEF Read
  <2>2. PICK a, b : a = ShapeNow /\ b = ShapeNow'
    OBVIOUS
  <2>3. <<a, e, b>> \in Moves
    BY <1>1, <2>1, <2>2
  <2>4. b = Reshape(a, e)
    BY <2>3 DEF Moves
  <2> QED BY <1>1, <2>2, <2>4
<1>8. Agrees(f, g)'
  <2>1. CASE OnFrameAttached \/ OnFrameDetached \/ OnFrameNavigated
    BY <1>4, <2>1, TreeAgrees
  <2>2. CASE OnFrameNavigatedWithin \/ OnFrameStartedLoading \/ OnLifecycleEvent
    BY <1>4, <2>2, LoadAgrees
  <2>3. CASE OnContextCreated("primary") \/ OnContextCreated("secondary")
    BY <1>4, <1>5, <2>3, CreatedAgrees
  <2>4. CASE OnContextDestroyed
    BY <1>4, <1>5, <2>4, DestroyedAgrees
  <2>5. CASE OnContextsCleared
    BY <1>4, <2>5, ClearedAgrees
  <2> QED BY <2>1, <2>2, <2>3, <2>4, <2>5 DEF Manager
<1> QED BY <1>5, <1>6, <1>7, <1>8


-----------------------------------------------------------------------------
(* The contexts of the browser's documents.                                *)

\* One event about the contexts of f.
LEMMA CalmHolds ==
  ASSUME NEW f, NEW e \in Calm, NEW a \in Shapes, NEW h \in Holds, Heard(f, a, h, e),
         NEW w \in Holds, w = Becomes(f, a, h, e)
  PROVE  Leads(Holding(f), Sight(a, h), <<e>>, Sight(a, w))
<1>1. e \in Events /\ e.type \notin {"attached", "detached", "navigated"}
  BY DEF Calm
<1>2. a = Reshape(a, e)
  BY <1>1, ReshapeCases
<1> QED BY <1>1, <1>2, HoldOne

LEMMA InContextFacts ==
  ASSUME NEW type, NEW f, NEW c
  PROVE  /\ InContext(type, f, c).type = type /\ InContext(type, f, c).frame = f
         /\ InContext(type, f, c).context = c
BY DEF InContext, Event

LEMMA PrimaryHolds ==
  ASSUME NEW f \in FrameIds, NEW c \in Contexts, c[1] = f, NEW a \in Shapes, f \in DOMAIN a.parent,
         NEW h \in Holds, NEW w, w = Hold(h.mapped \cup {c}, {c}, h.secondary)
  PROVE  w \in Holds /\ Leads(Holding(f), Sight(a, h), <<InContext("primary", f, c)>>, Sight(a, w))
<1>1. PICK e : e = InContext("primary", f, c)
  OBVIOUS
<1>2. e \in Calm /\ e.type = "primary" /\ e.frame = f /\ e.context = c
  BY <1>1, CreatedEvent, InContextFacts DEF Mute
<1>3. Becomes(f, a, h, e) = IF e.frame = f
                            THEN Hold(h.mapped \cup {e.context}, {e.context}, h.secondary) ELSE h
  BY <1>2, BecomesPrimary
<1>4. w = Becomes(f, a, h, e)
  BY <1>2, <1>3
<1>5. Heard(f, a, h, e)
  BY <1>2 DEF Heard
<1>6. w \in Holds
  <2>1. h.mapped \cup {c} \in SUBSET Contexts /\ {c} \in SUBSET Places /\ h.secondary \in SUBSET Places
    BY DEF Holds, Places
  <2> QED BY <2>1, HoldFacts
<1> QED BY <1>1, <1>2, <1>4, <1>5, <1>6, CalmHolds

LEMMA SecondaryHolds ==
  ASSUME NEW f \in FrameIds, NEW c \in Contexts, c[1] = f, NEW a \in Shapes, f \in DOMAIN a.parent,
         NEW h \in Holds, NEW w, w = Hold(h.mapped \cup {c}, h.primary, Finds(c, h.secondary))
  PROVE  w \in Holds /\ Leads(Holding(f), Sight(a, h), <<InContext("secondary", f, c)>>, Sight(a, w))
<1>1. PICK e : e = InContext("secondary", f, c)
  OBVIOUS
<1>2. e \in Calm /\ e.type = "secondary" /\ e.frame = f /\ e.context = c
  BY <1>1, CreatedEvent, InContextFacts DEF Mute
<1>3. Becomes(f, a, h, e) =
        IF e.frame = f
        THEN Hold(h.mapped \cup {e.context}, h.primary, Finds(e.context, h.secondary)) ELSE h
  BY <1>2, BecomesSecondary
<1>4. w = Becomes(f, a, h, e)
  BY <1>2, <1>3
<1>5. Heard(f, a, h, e)
  BY <1>2 DEF Heard
<1>6. w \in Holds
  <2>1. /\ h.mapped \cup {c} \in SUBSET Contexts /\ h.primary \in SUBSET Places
        /\ Finds(c, h.secondary) \in SUBSET Places
    BY DEF Holds, Places, Finds
  <2> QED BY <2>1, HoldFacts
<1> QED BY <1>1, <1>2, <1>4, <1>5, <1>6, CalmHolds

LEMMA ForgetHolds ==
  ASSUME NEW f \in FrameIds, NEW c \in Contexts, c[1] = f, NEW a \in Shapes, NEW h \in Holds,
         c \in h.mapped, c \notin h.primary \cap h.secondary,
         NEW w, w = Hold(h.mapped \ {c}, Forgets(c, h.primary), Forgets(c, h.secondary))
  PROVE  /\ w \in Holds
         /\ Leads(Holding(f), Sight(a, h), <<InContext("destroyed", NoFrame, c)>>, Sight(a, w))
<1>1. PICK e : e = InContext("destroyed", NoFrame, c)
  OBVIOUS
<1>2. e \in Calm /\ e.type = "destroyed" /\ e.context = c
  BY <1>1, DestroyedEvent, InContextFacts DEF Mute
<1>3. Becomes(f, a, h, e) =
        IF e.context[1] = f
        THEN Hold(h.mapped \ {e.context}, Forgets(e.context, h.primary), Forgets(e.context, h.secondary))
        ELSE h
  BY <1>2, BecomesDestroyed
<1>4. w = Becomes(f, a, h, e)
  BY <1>2, <1>3
<1>5. Heard(f, a, h, e)
  BY <1>2 DEF Heard
<1>6. w \in Holds
  <2>1. /\ h.mapped \ {c} \in SUBSET Contexts /\ Forgets(c, h.primary) \in SUBSET Places
        /\ Forgets(c, h.secondary) \in SUBSET Places
    BY DEF Holds, Places, Forgets
  <2> QED BY <2>1, HoldFacts
<1> QED BY <1>1, <1>2, <1>4, <1>5, <1>6, CalmHolds

\* The contexts of a document are those of its frame, each of its world.
Own(f, doc) ==
  /\ doc.primary[1] = f /\ doc.primary[2] = "primary"
  /\ doc.secondary # NoContext => doc.secondary[1] = f /\ doc.secondary[2] = "secondary"
OwnTree(t) == \A f \in DOMAIN t : Own(f, t[f])

\* The ids that the main frame takes later.
Late == MainIds \ {FirstMain}

\* The frames hold the contexts of their documents; of the utility world of a main frame
\* that changed its id nothing is known.
Fits(f, doc, h) ==
  /\ h.mapped = {doc.primary, doc.secondary} \ {NoContext}
  /\ h.primary = {doc.primary} /\ (f \notin Late => h.secondary = {doc.secondary})
Lives(f, t, h) == IF f \in DOMAIN t THEN Fits(f, t[f], h) ELSE h.mapped = {}

LEMMA OwnFacts ==
  ASSUME NEW f, NEW doc \in Documents, Own(f, doc)
  PROVE  /\ doc.primary \in Contexts /\ doc.primary # NoContext /\ doc.primary # doc.secondary
         /\ doc.secondary # NoContext => doc.secondary \in Contexts
<1>1. doc.primary \in Contexts /\ doc.secondary \in Contexts \cup {NoContext}
  BY DEF Documents
<1>2. doc.primary # NoContext
  BY <1>1, ContextTyped
<1>3. ASSUME doc.secondary # NoContext PROVE doc.primary # doc.secondary
  BY <1>3 DEF Own
<1> QED BY <1>1, <1>2, <1>3

\* The contexts of another frame, and what its document reaches.
LEMMA OthersForeign ==
  ASSUME NEW f \in FrameIds, NEW g \in FrameIds, g # f, NEW doc \in Documents, Own(g, doc)
  PROVE  /\ CreatedEvents(g, doc) \in Seq(Foreign(f) \cap Calm)
         /\ FreshEvents(g, doc) \in Seq(Foreign(f) \cap Calm)
<1>1. \A c \in Contexts, type \in {"primary", "secondary"} :
        c[1] = g => InContext(type, g, c) \in Foreign(f) \cap Calm
  <2> SUFFICES ASSUME NEW c \in Contexts, NEW type \in {"primary", "secondary"}, c[1] = g
               PROVE  InContext(type, g, c) \in Foreign(f) \cap Calm
    OBVIOUS
  <2>1. PICK e : e = InContext(type, g, c)
    OBVIOUS
  <2>2. e \in Calm /\ e.type = type /\ e.frame = g /\ e.context = c
    BY <2>1, CreatedEvent, InContextFacts DEF Mute
  <2>3. e \in Foreign(f)
    BY <2>2 DEF Foreign, Calm
  <2> QED BY <2>1, <2>2, <2>3
<1>2. InContext("primary", g, doc.primary) \in Foreign(f) \cap Calm
  BY <1>1, OwnFacts DEF Own
<1>3. CreatedEvents(g, doc) \in Seq(Foreign(f) \cap Calm)
  <2>1. CASE doc.secondary = NoContext
    BY <1>2, <2>1 DEF CreatedEvents
  <2>2. CASE doc.secondary # NoContext
    <3>1. InContext("secondary", g, doc.secondary) \in Foreign(f) \cap Calm
      BY <1>1, <2>2, OwnFacts DEF Own
    <3> QED BY <1>2, <2>2, <3>1 DEF CreatedEvents
  <2> QED BY <2>1, <2>2
<1>4. Event("init", g) \in Foreign(f) \cap Calm
  <2>1. Event("init", g).type = "init" /\ Event("init", g) \in Calm
    BY PlainEvent DEF Event
  <2> QED BY <2>1 DEF Foreign, Calm
<1>5. <<Event("init", g)>> \in Seq(Foreign(f) \cap Calm)
  BY <1>4
<1>6. /\ FromStep(3, <<Event("init", g)>>) \in Seq(Foreign(f) \cap Calm)
      /\ FromStep(4, CreatedEvents(g, doc)) \in Seq(Foreign(f) \cap Calm)
  BY <1>3, <1>5, FromStepTyped
<1> QED BY <1>3, <1>6 DEF FreshEvents

LEMMA OthersDestroyed ==
  ASSUME BrowserIInv, NEW f \in FrameIds, NEW g \in DOMAIN tree, g # f, Own(g, tree[g])
  PROVE  DestroyedEvents(g) \in Seq(Foreign(f) \cap Calm)
<1>1. tree[g] \in Documents
  BY DEF BrowserIInv, Tree
<1>2. \A c \in Contexts : c[1] = g => InContext("destroyed", NoFrame, c) \in Foreign(f) \cap Calm
  <2> SUFFICES ASSUME NEW c \in Contexts, c[1] = g
               PROVE  InContext("destroyed", NoFrame, c) \in Foreign(f) \cap Calm
    OBVIOUS
  <2>1. PICK e : e = InContext("destroyed", NoFrame, c)
    OBVIOUS
  <2>2. e \in Calm /\ e.type = "destroyed" /\ e.context = c
    BY <2>1, DestroyedEvent, InContextFacts DEF Mute
  <2>3. e \in Foreign(f)
    BY <2>2 DEF Foreign, Calm
  <2> QED BY <2>1, <2>2, <2>3
<1>3. InContext("destroyed", NoFrame, tree[g].primary) \in Foreign(f) \cap Calm
  BY <1>1, <1>2, OwnFacts DEF Own
<1>4. CASE tree[g].secondary = NoContext
  BY <1>3, <1>4 DEF DestroyedEvents
<1>5. CASE tree[g].secondary # NoContext
  <2>1. InContext("destroyed", NoFrame, tree[g].secondary) \in Foreign(f) \cap Calm
    BY <1>1, <1>2, <1>5, OwnFacts DEF Own
  <2> QED BY <1>3, <1>5, <2>1 DEF DestroyedEvents
<1> QED BY <1>4, <1>5


\* What a document brings into a frame whose contexts are gone.
Brings(f, doc, h, w) ==
  /\ w \in Holds /\ w.mapped = {doc.primary, doc.secondary} \ {NoContext}
  /\ w.primary = {doc.primary} /\ (h.secondary = {NoContext} => w.secondary = {doc.secondary})

LEMMA CreatedHolds ==
  ASSUME NEW f \in FrameIds, NEW doc \in Documents, Own(f, doc), NEW a \in Shapes,
         f \in DOMAIN a.parent, NEW h \in Holds, h.mapped = {}
  PROVE  \E w : /\ Brings(f, doc, h, w)
                /\ Leads(Holding(f), Sight(a, h), CreatedEvents(f, doc), Sight(a, w))
<1>1. PICK p, d : p = doc.primary /\ d = doc.secondary
  OBVIOUS
<1>2. /\ p \in Contexts /\ p # NoContext /\ p # d /\ p[1] = f
      /\ d # NoContext => d \in Contexts /\ d[1] = f
  BY <1>1, OwnFacts DEF Own
<1>3. PICK v : v = Hold(h.mapped \cup {p}, {p}, h.secondary)
  OBVIOUS
<1>4. v \in Holds /\ Leads(Holding(f), Sight(a, h), <<InContext("primary", f, p)>>, Sight(a, v))
  BY <1>2, <1>3, PrimaryHolds
<1>5. v.mapped = {p} /\ v.primary = {p} /\ v.secondary = h.secondary
  BY <1>3, HoldFacts
<1>6. CASE d = NoContext
  <2>1. Brings(f, doc, h, v)
    BY <1>1, <1>2, <1>4, <1>5, <1>6 DEF Brings
  <2>2. CreatedEvents(f, doc) = <<InContext("primary", f, p)>> \o <<>>
    BY <1>1, <1>6, Zenon DEF CreatedEvents
  <2>3. <<InContext("primary", f, p)>> \in Seq(Mute)
    BY <1>2, CreatedEvent
  <2>4. CreatedEvents(f, doc) = <<InContext("primary", f, p)>>
    BY <2>2, <2>3
  <2> QED BY <1>4, <2>1, <2>4
<1>7. CASE d # NoContext
  <2>1. PICK w : w = Hold(v.mapped \cup {d}, v.primary, Finds(d, v.secondary))
    OBVIOUS
  <2>2. w \in Holds /\ Leads(Holding(f), Sight(a, v), <<InContext("secondary", f, d)>>, Sight(a, w))
    BY <1>2, <1>4, <1>7, <2>1, SecondaryHolds
  <2>3. w.mapped = {p, d} /\ w.primary = {p} /\ w.secondary = Finds(d, h.secondary)
    BY <1>5, <2>1, HoldFacts
  <2>4. h.secondary = {NoContext} => w.secondary = {d}
    BY <2>3 DEF Finds
  <2>5. Brings(f, doc, h, w)
    BY <1>1, <1>2, <1>7, <2>2, <2>3, <2>4 DEF Brings
  <2>6. /\ <<InContext("primary", f, p)>> \in Seq(Events)
        /\ <<InContext("secondary", f, d)>> \in Seq(Events)
    <3>1. InContext("primary", f, p) \in Events /\ InContext("secondary", f, d) \in Events
      BY <1>2, <1>7, CreatedEvent, MuteTyped, CalmTyped
    <3> QED BY <3>1
  <2>7. Leads(Holding(f), Sight(a, h),
              <<InContext("primary", f, p)>> \o <<InContext("secondary", f, d)>>, Sight(a, w))
    BY <1>4, <2>2, <2>6, LeadsFurther
  <2>8. CreatedEvents(f, doc) = <<InContext("primary", f, p)>> \o <<InContext("secondary", f, d)>>
    BY <1>1, <1>7, Zenon DEF CreatedEvents
  <2> QED BY <2>5, <2>7, <2>8
<1> QED BY <1>6, <1>7

LEMMA FreshHolds ==
  ASSUME step \in Nat, step >= 4, NEW f \in FrameIds, NEW doc \in Documents, Own(f, doc),
         NEW a \in Shapes,
         f \in DOMAIN a.parent, NEW h \in Holds, h.mapped = {}
  PROVE  \E w : /\ Brings(f, doc, h, w)
                /\ Leads(Holding(f), Sight(a, h), FreshEvents(f, doc), Sight(a, w))
<1>1. PICK w : /\ Brings(f, doc, h, w)
               /\ Leads(Holding(f), Sight(a, h), CreatedEvents(f, doc), Sight(a, w))
  BY CreatedHolds
<1>2. PICK e : e = Event("init", f)
  OBVIOUS
<1>3. e \in Calm /\ e.type = "init"
  BY <1>2, PlainEvent DEF Event
<1>4. Heard(f, a, h, e) /\ h = Becomes(f, a, h, e)
  <2>1. e.type \notin {"attached", "navigated", "primary", "secondary", "destroyed", "cleared"}
    BY <1>3
  <2>2. Becomes(f, a, h, e) = h
    BY <2>1, BecomesElse
  <2>3. Heard(f, a, h, e)
    BY <1>3 DEF Heard
  <2> QED BY <2>2, <2>3
<1>5. Leads(Holding(f), Sight(a, h), <<e>>, Sight(a, h))
  BY <1>3, <1>4, CalmHolds
<1>6. <<e>> \in Seq(Events) /\ CreatedEvents(f, doc) \in Seq(Events)
  <2>1. e \in Events /\ CreatedEvents(f, doc) \in Seq(Calm)
    BY <1>3, DocumentEvents DEF Calm
  <2> QED BY <2>1, CalmTyped
<1>7. Leads(Holding(f), Sight(a, h), <<e>> \o CreatedEvents(f, doc), Sight(a, w))
  BY <1>1, <1>5, <1>6, LeadsFurther
<1>8. FreshEvents(f, doc) = <<e>> \o CreatedEvents(f, doc)
  <2>1. FromStep(3, <<e>>) = <<e>> /\ FromStep(4, CreatedEvents(f, doc)) = CreatedEvents(f, doc)
    <3>1. step >= 3 /\ step >= 4
      OBVIOUS
    <3> QED BY <3>1, Zenon DEF FromStep
  <2> QED BY <1>2, <2>1, Zenon DEF FreshEvents
<1> QED BY <1>1, <1>7, <1>8

LEMMA DestroyedHolds ==
  ASSUME NEW f \in FrameIds, f \notin Late, tree[f] \in Documents, Own(f, tree[f]), NEW a \in Shapes,
         NEW h \in Holds, Fits(f, tree[f], h)
  PROVE  Leads(Holding(f), Sight(a, h), DestroyedEvents(f), Sight(a, Nothing))
<1>1. PICK p, d : p = tree[f].primary /\ d = tree[f].secondary
  OBVIOUS
<1>2. /\ p \in Contexts /\ p # NoContext /\ p # d /\ p[1] = f
      /\ d # NoContext => d \in Contexts /\ d[1] = f
  BY <1>1, OwnFacts DEF Own
<1>3. h.mapped = {p, d} \ {NoContext} /\ h.primary = {p} /\ h.secondary = {d}
  BY <1>1 DEF Fits
<1>4. ASSUME NEW g \in Holds, g.mapped = {p}, g.primary = {p}, g.secondary = {NoContext}
      PROVE  Leads(Holding(f), Sight(a, g), <<InContext("destroyed", NoFrame, p)>>, Sight(a, Nothing))
  <2>1. p \in g.mapped /\ p \notin g.primary \cap g.secondary
    BY <1>2, <1>4
  <2>2. PICK w : w = Hold(g.mapped \ {p}, Forgets(p, g.primary), Forgets(p, g.secondary))
    OBVIOUS
  <2>3. /\ w \in Holds
        /\ Leads(Holding(f), Sight(a, g), <<InContext("destroyed", NoFrame, p)>>, Sight(a, w))
    BY <1>2, <2>1, <2>2, ForgetHolds
  <2>4. w.mapped = {} /\ w.primary = {NoContext} /\ w.secondary = {NoContext}
    <3>1. Forgets(p, {p}) = {NoContext} /\ Forgets(p, {NoContext}) = {NoContext}
      BY DEF Forgets
    <3>2. /\ w.mapped = g.mapped \ {p} /\ w.primary = Forgets(p, g.primary)
          /\ w.secondary = Forgets(p, g.secondary)
      BY <2>2, HoldFacts
    <3> QED BY <1>4, <3>1, <3>2
  <2>5. w = Nothing
    BY <2>3, <2>4, NothingFacts, HoldsEqual
  <2> QED BY <2>3, <2>5
<1>5. CASE d = NoContext
  <2>1. h.mapped = {p} /\ h.secondary = {NoContext}
    BY <1>2, <1>3, <1>5
  <2>2. Leads(Holding(f), Sight(a, h), <<InContext("destroyed", NoFrame, p)>>, Sight(a, Nothing))
    BY <1>3, <1>4, <2>1
  <2>3. DestroyedEvents(f) = <<>> \o <<InContext("destroyed", NoFrame, p)>>
    BY <1>1, <1>5, Zenon DEF DestroyedEvents
  <2>4. <<InContext("destroyed", NoFrame, p)>> \in Seq(Mute)
    BY <1>2, DestroyedEvent
  <2>5. DestroyedEvents(f) = <<InContext("destroyed", NoFrame, p)>>
    BY <2>3, <2>4
  <2> QED BY <2>2, <2>5
<1>6. CASE d # NoContext
  <2>1. d \in h.mapped /\ d \notin h.primary \cap h.secondary
    BY <1>2, <1>3, <1>6
  <2>2. PICK w : w = Hold(h.mapped \ {d}, Forgets(d, h.primary), Forgets(d, h.secondary))
    OBVIOUS
  <2>3. /\ w \in Holds
        /\ Leads(Holding(f), Sight(a, h), <<InContext("destroyed", NoFrame, d)>>, Sight(a, w))
    BY <1>2, <1>6, <2>1, <2>2, ForgetHolds
  <2>4. w.mapped = {p} /\ w.primary = {p} /\ w.secondary = {NoContext}
    <3>1. Forgets(d, {p}) = {p} /\ Forgets(d, {d}) = {NoContext}
      BY <1>2 DEF Forgets
    <3>2. h.mapped \ {d} = {p}
      BY <1>2, <1>3, <1>6
    <3>3. /\ w.mapped = h.mapped \ {d} /\ w.primary = Forgets(d, h.primary)
          /\ w.secondary = Forgets(d, h.secondary)
      BY <2>2, HoldFacts
    <3> QED BY <1>3, <3>1, <3>2, <3>3
  <2>5. Leads(Holding(f), Sight(a, w), <<InContext("destroyed", NoFrame, p)>>, Sight(a, Nothing))
    BY <1>4, <2>3, <2>4
  <2>6. /\ <<InContext("destroyed", NoFrame, p)>> \in Seq(Events)
        /\ <<InContext("destroyed", NoFrame, d)>> \in Seq(Events)
    <3>1. /\ InContext("destroyed", NoFrame, p) \in Events
          /\ InContext("destroyed", NoFrame, d) \in Events
      BY <1>2, <1>6, DestroyedEvent, MuteTyped, CalmTyped
    <3> QED BY <3>1
  <2>7. Leads(Holding(f), Sight(a, h),
              <<InContext("destroyed", NoFrame, d)>> \o <<InContext("destroyed", NoFrame, p)>>,
              Sight(a, Nothing))
    BY <2>3, <2>5, <2>6, LeadsFurther
  <2>8. DestroyedEvents(f) =
          <<InContext("destroyed", NoFrame, d)>> \o <<InContext("destroyed", NoFrame, p)>>
    BY <1>1, <1>6, Zenon DEF DestroyedEvents
  <2> QED BY <2>7, <2>8
<1> QED BY <1>5, <1>6


\* Of sequences one after the other, only the one at j is about the contexts of f.
LEMMA AmongHolds ==
  ASSUME NEW f, NEW seqs \in Seq(Seq(Events)), NEW j \in 1 .. Len(seqs),
         \A i \in 1 .. Len(seqs) : i # j => seqs[i] \in Seq(Foreign(f) \cap Calm),
         NEW a \in Shapes, NEW h \in Holds, NEW w \in Holds,
         Leads(Holding(f), Sight(a, h), seqs[j], Sight(a, w))
  PROVE  Leads(Holding(f), Sight(a, h), FlattenSeq(seqs), Sight(a, w))
<1>1. PICK n : n = Len(seqs)
  OBVIOUS
<1>2. n \in Nat /\ j \in 1 .. n
  BY <1>1
<1> DEFINE L == [i \in 0 .. n |-> IF i < j THEN Sight(a, h) ELSE Sight(a, w)]
<1>3. \A i \in 0 .. n : L[i] = IF i < j THEN Sight(a, h) ELSE Sight(a, w)
  OBVIOUS
<1> HIDE DEF L
<1>4. L[0] = Sight(a, h) /\ L[n] = Sight(a, w)
  <2>1. 0 \in 0 .. n /\ n \in 0 .. n /\ 0 < j /\ ~(n < j)
    BY <1>2
  <2> QED BY <1>3, <2>1
<1>5. ASSUME NEW i \in 1 .. n PROVE Leads(Holding(f), L[i - 1], seqs[i], L[i])
  <2>1. i - 1 \in 0 .. n /\ i \in 0 .. n
    BY <1>2
  <2>2. CASE i = j
    <3>1. i - 1 < j /\ ~(i < j)
      BY <1>2, <2>2
    <3> QED BY <1>3, <2>1, <2>2, <3>1
  <2>3. CASE i # j
    <3>1. PICK g \in Holds : L[i] = Sight(a, g) /\ L[i - 1] = Sight(a, g)
      <4>1. i - 1 < j <=> i < j
        BY <1>2, <2>3
      <4> QED BY <1>3, <2>1, <4>1
    <3>2. seqs[i] \in Seq(Foreign(f) \cap Calm)
      BY <1>1, <2>3
    <3> QED BY <3>1, <3>2, CalmForeign
  <2> QED BY <2>2, <2>3
<1>6. Leads(Holding(f), L[0], FlattenSeq(seqs), L[n])
  BY <1>1, <1>5, LeadsFlat
<1> QED BY <1>4, <1>6

\* What is told of each frame of a list, where only f knows its own contexts.
LEMMA ListHolds ==
  ASSUME NEW f, NEW S, IsFiniteSet(S), NEW s \in ParentsFirst(S), NEW g,
         \A x \in S : x # f => g[x] \in Seq(Foreign(f) \cap Calm),
         NEW a \in Shapes, NEW h \in Holds, NEW w \in Holds,
         f \in S => /\ g[f] \in Seq(Events)
                    /\ Leads(Holding(f), Sight(a, h), g[f], Sight(a, w)),
         f \notin S => w = h,
         NEW q, q = FlattenSeq([i \in 1 .. Len(s) |-> g[s[i]]])
  PROVE  Leads(Holding(f), Sight(a, h), q, Sight(a, w))
<1>1. /\ Len(s) \in Nat /\ \A i \in 1 .. Len(s) : s[i] \in S
      /\ \A i, j \in 1 .. Len(s) : s[i] = s[j] => i = j
      /\ \A x \in S : \E i \in 1 .. Len(s) : s[i] = x
  BY OrderFacts
<1>2. PICK n, seqs : n = Len(s) /\ seqs = [i \in 1 .. n |-> g[s[i]]]
  OBVIOUS
<1>3. n \in Nat /\ q = FlattenSeq(seqs) /\ \A i \in 1 .. n : seqs[i] = g[s[i]]
  BY <1>1, <1>2
<1>4. ASSUME NEW E, \A i \in 1 .. n : seqs[i] \in Seq(E)
      PROVE  seqs \in Seq(Seq(E)) /\ Len(seqs) = n
  <2>1. seqs \in [1 .. n -> Seq(E)]
    BY <1>2, <1>4
  <2>2. seqs \in Seq(Seq(E))
    BY <1>3, <2>1, ListTyped
  <2>3. DOMAIN seqs = 1 .. n /\ DOMAIN seqs = 1 .. Len(seqs) /\ Len(seqs) \in Nat
    BY <2>1, <2>2
  <2> QED BY <1>3, <2>2, <2>3
<1>5. CASE f \notin S
  <2>1. \A i \in 1 .. n : seqs[i] \in Seq(Foreign(f) \cap Calm)
    BY <1>1, <1>2, <1>3, <1>5
  <2>2. q \in Seq(Foreign(f) \cap Calm)
    BY <1>3, <1>4, <2>1, FlattenTyped
  <2> QED BY <1>5, <2>2, CalmForeign
<1>6. CASE f \in S
  <2>1. PICK j \in 1 .. n : s[j] = f
    BY <1>1, <1>2, <1>6
  <2>2. \A i \in 1 .. n : i # j => seqs[i] \in Seq(Foreign(f) \cap Calm)
    BY <1>1, <1>2, <1>3, <2>1
  <2>3. seqs[j] = g[f]
    BY <1>3, <2>1
  <2>4. \A p \in Seq(Foreign(f) \cap Calm) : p \in Seq(Events)
    <3>1. Foreign(f) \cap Calm \subseteq Events
      BY DEF Calm
    <3> QED BY <3>1, SeqMonotonic
  <2>5. \A i \in 1 .. n : seqs[i] \in Seq(Events)
    BY <1>6, <2>2, <2>3, <2>4
  <2>6. seqs \in Seq(Seq(Events)) /\ Len(seqs) = n
    BY <1>4, <2>5
  <2>7. Leads(Holding(f), Sight(a, h), FlattenSeq(seqs), Sight(a, w))
    BY <1>6, <2>1, <2>2, <2>3, <2>6, AmongHolds
  <2> QED BY <1>3, <2>7
<1> QED BY <1>5, <1>6

LEMMA DetachedForeign ==
  ASSUME NEW f, NEW told \in Seq(ChildIds)
  PROVE  DetachedEvents(told) \in Seq(Foreign(f)) /\ DetachedEvents(told) \in Seq(Events)
<1>1. ASSUME NEW x \in ChildIds PROVE Event("detached", x) \in Foreign(f) \cap Events
  <2>1. Event("detached", x) \in Events /\ Event("detached", x).type = "detached"
    BY DetachedEvent DEF Event
  <2> QED BY <2>1 DEF Foreign
<1>2. DetachedEvents(told) \in Seq(Foreign(f) \cap Events)
  BY <1>1, DetachedIn
<1> QED BY <1>2, SeqMonotonic

\* The events of frames that go with their contexts.
LEMMA GoneHolds ==
  ASSUME BrowserIInv, step >= 4, OwnTree(tree), NEW f \in FrameIds, NEW h \in Holds, Lives(f, tree, h),
         NEW S \in SUBSET (DOMAIN tree \cap ChildIds), NEW s \in ParentsFirst(S),
         NEW told \in Seq(ChildIds), NEW a \in Shapes, NEW b \in Shapes,
         Leads(Moves, a, DetachedEvents(told), b), NEW gone \in GoneEvents(s, told),
         NEW w, w = IF f \in S THEN Nothing ELSE h
  PROVE  w \in Holds /\ Leads(Holding(f), Sight(a, h), gone, Sight(b, w))
<1>1. IsFiniteSet(S) /\ \A x \in S : x \in DOMAIN tree /\ x \notin Late /\ tree[x] \in Documents
  <2>1. IsFiniteSet(DOMAIN tree)
    BY DEF BrowserIInv, Tree
  <2> QED BY <2>1, FS_Subset, ManagerAssumption DEF BrowserIInv, Tree, Late
<1>2. w \in Holds
  BY NothingFacts
<1>3. PICK g : g = [x \in DOMAIN tree |-> DestroyedEvents(x)]
  OBVIOUS
<1>4. PICK q : q = FlattenSeq([i \in 1 .. Len(s) |-> g[s[i]]])
  OBVIOUS
<1>5. FromStep(4, Each(s, DestroyedEvents)) = q
  <2>1. \A i \in 1 .. Len(s) : s[i] \in DOMAIN tree
    BY <1>1, OrderFacts
  <2>2. [i \in 1 .. Len(s) |-> g[s[i]]] = [i \in 1 .. Len(s) |-> DestroyedEvents(s[i])]
    BY <1>3, <2>1
  <2>3. Each(s, DestroyedEvents) = q
    BY <1>4, <2>2 DEF Each
  <2> QED BY <2>3 DEF FromStep
<1>6. \A x \in S : x # f => g[x] \in Seq(Foreign(f) \cap Calm)
  BY <1>1, <1>3, OthersDestroyed DEF OwnTree
<1>7. ASSUME NEW c \in Shapes PROVE Leads(Holding(f), Sight(c, h), q, Sight(c, w))
  <2>1. ASSUME f \in S
        PROVE  g[f] \in Seq(Events) /\ Leads(Holding(f), Sight(c, h), g[f], Sight(c, w))
    <3>1. g[f] = DestroyedEvents(f) /\ Own(f, tree[f]) /\ Fits(f, tree[f], h) /\ w = Nothing
      BY <1>1, <1>3, <2>1 DEF OwnTree, Lives
    <3>2. Leads(Holding(f), Sight(c, h), DestroyedEvents(f), Sight(c, Nothing))
      BY <1>1, <2>1, <3>1, DestroyedHolds
    <3>3. DestroyedEvents(f) \in Seq(Events)
      BY <1>1, <2>1, DestroyedTyped, MuteTyped, CalmTyped
    <3> QED BY <3>1, <3>2, <3>3
  <2> QED BY <1>1, <1>2, <1>4, <1>6, <2>1, ListHolds
<1>8. q \in Seq(Events)
  <2>1. \A x \in S : g[x] \in Seq(Events)
    BY <1>1, <1>3, DestroyedTyped, MuteTyped, CalmTyped
  <2>2. Len(s) \in Nat /\ \A i \in 1 .. Len(s) : s[i] \in S
    BY <1>1, OrderFacts
  <2>3. [i \in 1 .. Len(s) |-> g[s[i]]] \in [1 .. Len(s) -> Seq(Events)]
    BY <2>1, <2>2
  <2> QED BY <1>4, <2>2, <2>3, ListTyped, FlattenTyped
<1>9. PICK d : d = DetachedEvents(told)
  OBVIOUS
<1>10. d \in Seq(Foreign(f)) /\ d \in Seq(Events)
  BY <1>9, DetachedForeign
<1>11. ASSUME NEW g1 \in Holds PROVE Leads(Holding(f), Sight(a, g1), d, Sight(b, g1))
  BY <1>9, <1>10, ForeignLeads
<1>12. Leads(Holding(f), Sight(a, h), d \o q, Sight(b, w))
  BY <1>7, <1>8, <1>10, <1>11, LeadsFurther
<1>13. Leads(Holding(f), Sight(a, h), q \o d, Sight(b, w))
  BY <1>2, <1>7, <1>8, <1>10, <1>11, LeadsFurther
<1>14. gone \in {d \o q, q \o d}
  BY <1>5, <1>9, Zenon DEF GoneEvents
<1> QED BY <1>2, <1>12, <1>13, <1>14


\* An act of the page leads from the contexts of its documents to the contexts of those
\* there are then.
ContextsFollow(f) ==
  \A h \in Holds : Lives(f, tree, h) =>
    \E w \in Holds : /\ Lives(f, tree', w)
                     /\ Leads(Holding(f), Sight(TreeShape, h), inbox', Sight(TreeShape', w))

LEMMA DocumentOwn ==
  ASSUME NEW f, NEW p PROVE Own(f, Document(f, p)) /\ Own(f, NewDocument(f, p))
<1>1. ASSUME NEW world PROVE New(f, world)[1] = f /\ New(f, world)[2] = world
  BY DEF New
<1>2. PICK doc : doc = Document(f, p)
  OBVIOUS
<1>3. /\ doc.primary = New(f, "primary")
      /\ doc.secondary = New(f, "secondary") \/ doc.secondary = NoContext
  BY <1>2 DEF Document
<1>4. Own(f, doc)
  BY <1>1, <1>3 DEF Own
<1>5. /\ NewDocument(f, p).primary = doc.primary
      /\ NewDocument(f, p).secondary = doc.secondary
  BY <1>2 DEF NewDocument, Document
<1> QED BY <1>2, <1>4, <1>5 DEF Own

LEMMA FreshLives ==
  ASSUME step \in Nat, step >= 4, NEW f \in FrameIds, NEW doc \in Documents, Own(f, doc),
         NEW a \in Shapes, f \in DOMAIN a.parent,
         NEW h \in Holds, h.mapped = {}, f \notin Late => h.secondary = {NoContext}
  PROVE  \E w \in Holds : /\ Fits(f, doc, w)
                          /\ Leads(Holding(f), Sight(a, h), FreshEvents(f, doc), Sight(a, w))
<1>1. PICK w : /\ Brings(f, doc, h, w)
               /\ Leads(Holding(f), Sight(a, h), FreshEvents(f, doc), Sight(a, w))
  BY FreshHolds
<1>2. w \in Holds /\ Fits(f, doc, w)
  BY <1>1 DEF Brings, Fits
<1> QED BY <1>1, <1>2

\* A navigation that leaves the contexts of f alone, before or after what is told of its
\* new document.
LEMMA NewsHolds ==
  ASSUME step \in Nat, step >= 4, NEW f, NEW a \in Shapes, NEW b \in Shapes, NEW e \in Events,
         b = Reshape(a, e), \A g \in Holds : Heard(f, a, g, e) /\ Becomes(f, a, g, e) = g,
         NEW h \in Holds, NEW fresh \in Seq(Events), NEW W \in SUBSET Holds,
         \A y \in {a, b} : \E w \in W : Leads(Holding(f), Sight(y, h), fresh, Sight(y, w)),
         NEW news \in {Before(e, fresh), After(e, fresh)}
  PROVE  \E w \in W : Leads(Holding(f), Sight(a, h), news, Sight(b, w))
<1>1. step >= 1
  OBVIOUS
<1>2. /\ Before(e, fresh) = <<e>> \o fresh /\ After(e, fresh) = fresh \o <<e>>
      /\ <<e>> \in Seq(Events)
  BY <1>1, AroundFacts
<1>3. ASSUME NEW g \in Holds PROVE Leads(Holding(f), Sight(a, g), <<e>>, Sight(b, g))
  BY HoldOne
<1>4. CASE news = Before(e, fresh)
  <2>1. PICK w \in W : Leads(Holding(f), Sight(b, h), fresh, Sight(b, w))
    OBVIOUS
  <2>2. Leads(Holding(f), Sight(a, h), <<e>> \o fresh, Sight(b, w))
    BY <1>2, <1>3, <2>1, LeadsFurther
  <2> QED BY <1>2, <1>4, <2>2
<1>5. CASE news = After(e, fresh)
  <2>1. PICK w \in W : Leads(Holding(f), Sight(a, h), fresh, Sight(a, w))
    OBVIOUS
  <2>2. Leads(Holding(f), Sight(a, w), <<e>>, Sight(b, w))
    BY <1>3
  <2>3. Leads(Holding(f), Sight(a, h), fresh \o <<e>>, Sight(b, w))
    BY <1>2, <2>1, <2>2, LeadsFurther
  <2> QED BY <1>2, <1>5, <2>3
<1> QED BY <1>4, <1>5

LEMMA AttachedContexts ==
  ASSUME BrowserIInv, BrowserIInv', Nested(tree, root), Room, OwnTree(tree), step >= 4,
         NEW c \in ChildIds, NEW p \in FrameIds, ChildAttached(c, p)
  PROVE  OwnTree(tree') /\ \A f \in FrameIds : ContextsFollow(f)
<1>1. PICK a, b, e, doc : /\ a = TreeShape /\ b = TreeShape' /\ e = Reported("attached", c, p)
                          /\ doc = Document(c, p)
  OBVIOUS
<1>2. /\ c \in FrameIds /\ c \notin DOMAIN tree /\ doc \in Documents
      /\ tree' = [f \in DOMAIN tree \cup {c} |-> IF f = c THEN doc ELSE tree[f]]
      /\ inbox' = FromStep(1, <<e>>) \o FreshEvents(c, doc)
      /\ e \in Events /\ b \in Shapes /\ Reshape(a, e) = b
  BY <1>1, AttachedShapes
<1>3. step \in Nat /\ step >= 1
  BY DEF BrowserIInv
<1>4. /\ a \in Shapes /\ DOMAIN a.parent = DOMAIN tree /\ c \notin DOMAIN a.parent
      /\ c \in DOMAIN b.parent
  <2>1. DOMAIN b.parent = DOMAIN tree' /\ DOMAIN tree' = DOMAIN tree \cup {c}
    BY <1>1, <1>2, NextDomain
  <2> QED BY <1>1, <1>2, <2>1, TreeShapeFacts
<1>5. e.type = "attached" /\ e.frame = c
  BY <1>1 DEF Reported, Event
<1>6. Own(c, doc)
  BY <1>1, DocumentOwn
<1>7. OwnTree(tree')
  BY <1>2, <1>6 DEF OwnTree
<1>8. inbox' = <<e>> \o FreshEvents(c, doc)
  <2>1. FromStep(1, <<e>>) = <<e>>
    BY <1>3, Zenon DEF FromStep
  <2> QED BY <1>2, <2>1
<1>9. <<e>> \in Seq(Events) /\ FreshEvents(c, doc) \in Seq(Events)
  BY <1>2, DocumentEvents, CalmTyped
<1>10. ASSUME NEW f \in FrameIds, NEW h \in Holds, Lives(f, tree, h)
       PROVE  \E w \in Holds : Lives(f, tree', w) /\ Leads(Holding(f), Sight(a, h), inbox', Sight(b, w))
  <2>1. CASE f # c
    <3>1. Lives(f, tree', h)
      BY <1>2, <1>10, <2>1 DEF Lives
    <3>2. e \in Foreign(f)
      BY <1>2, <1>5, <2>1 DEF Foreign
    <3>3. <<e>> \in Seq(Foreign(f)) /\ Leads(Moves, a, <<e>>, b)
      BY <1>2, <1>4, <3>2, OneMove
    <3>4. Leads(Holding(f), Sight(a, h), <<e>>, Sight(b, h))
      BY <3>3, ForeignLeads
    <3>5. Leads(Holding(f), Sight(b, h), FreshEvents(c, doc), Sight(b, h))
      BY <1>2, <1>6, <2>1, OthersForeign, CalmForeign
    <3>6. Leads(Holding(f), Sight(a, h), <<e>> \o FreshEvents(c, doc), Sight(b, h))
      BY <1>9, <3>4, <3>5, LeadsFurther
    <3> QED BY <1>8, <3>1, <3>6
  <2>2. CASE f = c
    <3>1. h.mapped = {}
      BY <1>2, <1>10, <2>2 DEF Lives
    <3>2. Becomes(f, a, h, e) = Nothing
      <4>1. Becomes(f, a, h, e) = IF e.frame = f /\ f \notin DOMAIN a.parent
                                  THEN Hold(h.mapped, {NoContext}, {NoContext}) ELSE h
        BY <1>5, BecomesAttached
      <4> QED BY <1>4, <1>5, <2>2, <3>1, <4>1 DEF Nothing
    <3>3. Heard(f, a, h, e)
      BY <1>5 DEF Heard
    <3>4. Leads(Holding(f), Sight(a, h), <<e>>, Sight(b, Nothing))
      BY <1>2, <1>4, <3>2, <3>3, NothingFacts, HoldOne
    <3>5. PICK w \in Holds : /\ Fits(f, doc, w)
                             /\ Leads(Holding(f), Sight(b, Nothing), FreshEvents(f, doc), Sight(b, w))
      BY <1>2, <1>3, <1>4, <1>6, <2>2, NothingFacts, FreshLives
    <3>6. Lives(f, tree', w)
      BY <1>2, <2>2, <3>5 DEF Lives
    <3>7. Leads(Holding(f), Sight(a, h), <<e>> \o FreshEvents(c, doc), Sight(b, w))
      BY <1>9, <2>2, <3>4, <3>5, LeadsFurther
    <3> QED BY <1>8, <3>6, <3>7
  <2> QED BY <2>1, <2>2
<1> QED BY <1>1, <1>7, <1>10 DEF ContextsFollow

LEMMA DetachedContexts ==
  ASSUME BrowserIInv, BrowserIInv', Nested(tree, root), OwnTree(tree), step >= 4,
         NEW c \in ChildIds, ChildDetached(c)
  PROVE  OwnTree(tree') /\ \A f \in FrameIds : ContextsFollow(f)
<1>1. PICK S, a, b : S = {c} \cup Below(c) /\ a = TreeShape /\ b = TreeShape'
  OBVIOUS
<1>2. /\ S \in SUBSET (DOMAIN tree \cap ChildIds)
      /\ tree' = [f \in DOMAIN tree \ S |-> tree[f]]
      /\ b \in Shapes
      /\ \E s \in ParentsFirst(S) : \E told \in {<<c>>, Reverse(s)} :
           /\ inbox' \in GoneEvents(s, told) /\ told \in Seq(ChildIds)
           /\ step >= 1 => Leads(Moves, a, DetachedEvents(told), b)
  BY <1>1, DetachedShapes
<1>3. PICK s \in ParentsFirst(S) : \E told \in {<<c>>, Reverse(s)} :
        /\ inbox' \in GoneEvents(s, told) /\ told \in Seq(ChildIds)
        /\ step >= 1 => Leads(Moves, a, DetachedEvents(told), b)
  BY <1>2
<1>4. PICK told \in Seq(ChildIds) : inbox' \in GoneEvents(s, told)
                                   /\ Leads(Moves, a, DetachedEvents(told), b)
  <2>1. step >= 1
    BY DEF BrowserIInv
  <2> QED BY <1>3, <2>1
<1>5. a \in Shapes
  BY <1>1, TreeShapeFacts
<1>6. OwnTree(tree')
  BY <1>2 DEF OwnTree
<1>7. ASSUME NEW f \in FrameIds, NEW h \in Holds, Lives(f, tree, h)
      PROVE  \E w \in Holds : Lives(f, tree', w) /\ Leads(Holding(f), Sight(a, h), inbox', Sight(b, w))
  <2>1. PICK w : w = IF f \in S THEN Nothing ELSE h
    OBVIOUS
  <2>2. w \in Holds /\ Leads(Holding(f), Sight(a, h), inbox', Sight(b, w))
    BY <1>2, <1>4, <1>5, <1>7, <2>1, GoneHolds
  <2>3. Lives(f, tree', w)
    BY <1>2, <1>7, <2>1, NothingFacts DEF Lives
  <2> QED BY <2>2, <2>3
<1> QED BY <1>1, <1>6, <1>7 DEF ContextsFollow


\* A new document below the main frame: its own contexts for those of the one before.
LEMMA ChildNewsHolds ==
  ASSUME BrowserIInv, step >= 4, OwnTree(tree), NEW c \in ChildIds \cap DOMAIN tree,
         NEW document \in Documents, document = NewDocument(c, tree[c].parent),
         NEW f \in FrameIds, NEW h \in Holds, f = c => Fits(f, tree[f], h),
         NEW W, W = {w \in Holds : IF f = c THEN Fits(f, document, w) ELSE w = h},
         NEW y \in Shapes, c \in DOMAIN y.parent
  PROVE  \E w \in W : Leads(Holding(f), Sight(y, h), ChildNews(c), Sight(y, w))
<1>1. c \in FrameIds /\ c \notin Late /\ tree[c] \in Documents /\ Own(c, tree[c]) /\ step \in Nat
  BY ManagerAssumption DEF FrameIds, Late, BrowserIInv, Tree, OwnTree
<1>2. Own(c, document)
  BY DocumentOwn
<1>3. ChildNews(c) = DestroyedEvents(c) \o FreshEvents(c, document)
  <2>1. FromStep(4, DestroyedEvents(c)) = DestroyedEvents(c)
    BY Zenon DEF FromStep
  <2> QED BY <2>1, Zenon DEF ChildNews
<1>4. DestroyedEvents(c) \in Seq(Events) /\ FreshEvents(c, document) \in Seq(Events)
  BY <1>1, DestroyedTyped, MuteTyped, DocumentEvents, CalmTyped
<1>5. CASE f = c
  <2>1. Leads(Holding(f), Sight(y, h), DestroyedEvents(f), Sight(y, Nothing))
    BY <1>1, <1>5, DestroyedHolds
  <2>2. PICK w \in Holds : /\ Fits(f, document, w)
                           /\ Leads(Holding(f), Sight(y, Nothing), FreshEvents(f, document), Sight(y, w))
    BY <1>1, <1>2, <1>5, NothingFacts, FreshLives
  <2>3. Leads(Holding(f), Sight(y, h), DestroyedEvents(c) \o FreshEvents(c, document), Sight(y, w))
    BY <1>4, <1>5, <2>1, <2>2, LeadsFurther
  <2> QED BY <1>3, <1>5, <2>2, <2>3
<1>6. CASE f # c
  <2>1. /\ DestroyedEvents(c) \in Seq(Foreign(f) \cap Calm)
        /\ FreshEvents(c, document) \in Seq(Foreign(f) \cap Calm)
    BY <1>1, <1>2, <1>6, OthersDestroyed, OthersForeign
  <2>2. /\ Leads(Holding(f), Sight(y, h), DestroyedEvents(c), Sight(y, h))
        /\ Leads(Holding(f), Sight(y, h), FreshEvents(c, document), Sight(y, h))
    BY <2>1, CalmForeign
  <2>3. Leads(Holding(f), Sight(y, h), DestroyedEvents(c) \o FreshEvents(c, document), Sight(y, h))
    BY <1>4, <2>2, LeadsFurther
  <2> QED BY <1>3, <1>6, <2>3
<1> QED BY <1>5, <1>6

LEMMA CommittedContexts ==
  ASSUME BrowserIInv, BrowserIInv', Nested(tree, root), Room, OwnTree(tree), step >= 4,
         NEW c \in ChildIds, ChildCommitted(c)
  PROVE  OwnTree(tree') /\ \A f \in FrameIds : ContextsFollow(f)
<1>1. PICK S, document, e :
        /\ S = Below(c) /\ document = NewDocument(c, tree[c].parent)
        /\ e = Reported("navigated", c, tree[c].parent)
  OBVIOUS
<1>2. CommittedShape(c, S, document, e)
  BY <1>1, CommittedShapes, Zenon
<1> USE DEF CommittedShape
<1>3. PICK fresh \in Seq(Calm) : fresh = ChildNews(c)
  BY <1>1, <1>2, ChildNewsTyped
<1>4. e.type = "navigated" /\ e.frame = c /\ e.parent # NoFrame
  BY <1>1, <1>2 DEF Reported, Event
<1>5. PICK a, b : a = TreeShape /\ b = TreeShape'
  OBVIOUS
<1>6. /\ a \in Shapes /\ b \in Shapes /\ Reshape(a, e) = b /\ Reshape(b, e) = b
      /\ c \in DOMAIN a.parent /\ c \in DOMAIN b.parent
  BY <1>2, <1>5, TreeShapeFacts, NextDomain
<1>7. step \in Nat /\ step >= 1
  BY DEF BrowserIInv
<1>8. PICK s \in ParentsFirst(S) : \E told \in {Reverse(s), <<>>} :
        ChildBatch(c, e, s, told) /\ Detaches(told, {a, b})
  BY <1>2, <1>5
<1>9. PICK told \in Seq(ChildIds) :
        /\ \E gone \in GoneEvents(s, told), news \in {Before(e, fresh), After(e, fresh)} :
              inbox' = gone \o news
        /\ \E x \in {a, b} : Leads(Moves, a, DetachedEvents(told), x)
  BY <1>3, <1>5, <1>7, <1>8 DEF ChildBatch, Detaches
<1>10. PICK gone \in GoneEvents(s, told), news \in {Before(e, fresh), After(e, fresh)} :
         inbox' = gone \o news
  BY <1>9
<1>11. PICK x \in {a, b} : Leads(Moves, a, DetachedEvents(told), x)
  BY <1>9
<1>12. gone \in Seq(Events) /\ fresh \in Seq(Events)
  BY <1>2, <1>9, GoneBatch, CalmTyped
<1>13. news \in Seq(Events)
  <2>1. <<e>> \in Seq(Events)
    BY <1>2
  <2> QED BY <1>12, <2>1, AroundTyped
<1>14. Own(c, document)
  BY <1>1, DocumentOwn
<1>15. OwnTree(tree')
  BY <1>2, <1>14 DEF OwnTree
<1>16. ASSUME NEW f \in FrameIds, NEW g \in Holds, NEW z
       PROVE  Heard(f, z, g, e) /\ Becomes(f, z, g, e) = g
  <2>1. e \in Foreign(f)
    BY <1>2, <1>4 DEF Foreign
  <2> QED BY <2>1, ForeignKeeps
<1>17. ASSUME NEW f \in FrameIds, NEW h \in Holds, Lives(f, tree, h)
       PROVE  \E w \in Holds : Lives(f, tree', w) /\ Leads(Holding(f), Sight(a, h), inbox', Sight(b, w))
  <2>1. PICK v : v = IF f \in S THEN Nothing ELSE h
    OBVIOUS
  <2>2. v \in Holds /\ Leads(Holding(f), Sight(a, h), gone, Sight(x, v))
    BY <1>2, <1>6, <1>11, <1>17, <2>1, GoneHolds
  <2>3. f = c => Fits(f, tree[f], v)
    BY <1>2, <1>17, <2>1 DEF Lives
  <2>4. PICK W : W = {w \in Holds : IF f = c THEN Fits(f, document, w) ELSE w = v}
    OBVIOUS
  <2>5. \A y \in {x, b} : \E w \in W : Leads(Holding(f), Sight(y, v), fresh, Sight(y, w))
    <3> SUFFICES ASSUME NEW y \in {x, b}
                 PROVE  \E w \in W : Leads(Holding(f), Sight(y, v), fresh, Sight(y, w))
      OBVIOUS
    <3>1. y \in Shapes /\ c \in DOMAIN y.parent
      BY <1>6, <1>11
    <3>2. c \in ChildIds \cap DOMAIN tree /\ document \in Documents
      BY <1>2
    <3>3. \E w \in W : Leads(Holding(f), Sight(y, v), ChildNews(c), Sight(y, w))
      BY <1>1, <2>2, <2>3, <2>4, <3>1, <3>2, ChildNewsHolds
    <3> QED BY <1>3, <3>3
  <2>6. \E w \in W : Leads(Holding(f), Sight(x, v), news, Sight(b, w))
    <3>1. x \in Shapes /\ b \in Shapes /\ b = Reshape(x, e) /\ e \in Events
      BY <1>2, <1>6, <1>11
    <3>2. W \in SUBSET Holds
      BY <2>4
    <3>3. \A g \in Holds : Heard(f, x, g, e) /\ Becomes(f, x, g, e) = g
      BY <1>16
    <3>4. step >= 4 /\ news \in {Before(e, fresh), After(e, fresh)}
      BY <1>10
    <3> HIDE DEF CommittedShape
    <3> QED BY <1>7, <1>12, <2>2, <2>5, <3>1, <3>2, <3>3, <3>4, NewsHolds
  <2>7. PICK w \in W : Leads(Holding(f), Sight(x, v), news, Sight(b, w))
    BY <2>6
  <2>8. w \in Holds /\ Lives(f, tree', w)
    <3>1. CASE f = c
      BY <1>2, <2>4, <2>7, <3>1 DEF Lives
    <3>2. CASE f # c
      <4>1. w = v /\ (f \in DOMAIN tree' <=> f \in DOMAIN tree \ S)
        BY <1>2, <2>4, <2>7, <3>2
      <4>2. f \in DOMAIN tree' => tree'[f] = tree[f]
        BY <1>2, <3>2
      <4> QED BY <1>17, <2>1, <2>2, <4>1, <4>2, NothingFacts DEF Lives
    <3> QED BY <3>1, <3>2
  <2>9. Leads(Holding(f), Sight(a, h), gone \o news, Sight(b, w))
    BY <1>12, <1>13, <2>2, <2>7, LeadsFurther
  <2> QED BY <1>10, <2>8, <2>9
<1> QED BY <1>5, <1>15, <1>17 DEF ContextsFollow


LEMMA ClearedHolds ==
  ASSUME NEW f, NEW a \in Shapes, NEW h \in Holds, NEW w, w = IF h.mapped # {} THEN Nothing ELSE h
  PROVE  w \in Holds /\ Leads(Holding(f), Sight(a, h), <<Event("cleared", NoFrame)>>, Sight(a, w))
<1>1. PICK e : e = Event("cleared", NoFrame)
  OBVIOUS
<1>2. e \in Calm /\ e.type = "cleared"
  BY <1>1, ClearedEvent, MuteTyped DEF Event
<1>3. Heard(f, a, h, e)
  BY <1>2 DEF Heard
<1>4. Becomes(f, a, h, e) = IF h.mapped # {} THEN Nothing ELSE h
  BY <1>2, BecomesCleared
<1>5. w \in Holds
  BY NothingFacts
<1> QED BY <1>1, <1>2, <1>3, <1>4, <1>5, CalmHolds

\* A new document of the main frame: all contexts go by one event, then its own come.
LEMMA MainNewsHolds ==
  ASSUME step \in Nat, step >= 4, NEW new \in FrameIds, NEW document \in Documents,
         document = NewDocument(new, NoFrame), NEW f \in FrameIds, NEW h \in Holds,
         f = new /\ h.mapped = {} => f \in Late,
         NEW W, W = {w \in Holds : IF f = new THEN Fits(f, document, w) ELSE w.mapped = {}},
         NEW y \in Shapes, new \in DOMAIN y.parent
  PROVE  \E w \in W : Leads(Holding(f), Sight(y, h), MainNews(new), Sight(y, w))
<1>1. Own(new, document)
  BY DocumentOwn
<1>2. PICK c : c = <<Event("cleared", NoFrame)>>
  OBVIOUS
<1>3. MainNews(new) = c \o FreshEvents(new, document)
  <2>1. FromStep(4, c) = c
    BY Zenon DEF FromStep
  <2> QED BY <1>2, <2>1, Zenon DEF MainNews
<1>4. c \in Seq(Events) /\ FreshEvents(new, document) \in Seq(Events)
  <2>1. Event("cleared", NoFrame) \in Events
    BY ClearedEvent, MuteTyped, CalmTyped
  <2>2. c \in Seq(Events)
    BY <1>2, <2>1
  <2> QED BY <2>2, DocumentEvents, CalmTyped
<1>5. PICK v : v = IF h.mapped # {} THEN Nothing ELSE h
  OBVIOUS
<1>6. v \in Holds /\ Leads(Holding(f), Sight(y, h), c, Sight(y, v))
  BY <1>2, <1>5, ClearedHolds
<1>7. v.mapped = {} /\ (h.mapped # {} => v.secondary = {NoContext})
  BY <1>5, NothingFacts
<1>8. CASE f = new
  <2>1. PICK w \in Holds : /\ Fits(f, document, w)
                           /\ Leads(Holding(f), Sight(y, v), FreshEvents(f, document), Sight(y, w))
    BY <1>1, <1>6, <1>7, <1>8, FreshLives
  <2>2. Leads(Holding(f), Sight(y, h), c \o FreshEvents(new, document), Sight(y, w))
    BY <1>4, <1>6, <1>8, <2>1, LeadsFurther
  <2> QED BY <1>3, <1>8, <2>1, <2>2
<1>9. CASE f # new
  <2>1. FreshEvents(new, document) \in Seq(Foreign(f) \cap Calm)
    BY <1>1, <1>9, OthersForeign
  <2>2. Leads(Holding(f), Sight(y, v), FreshEvents(new, document), Sight(y, v))
    BY <1>6, <2>1, CalmForeign
  <2>3. Leads(Holding(f), Sight(y, h), c \o FreshEvents(new, document), Sight(y, v))
    BY <1>4, <1>6, <2>2, LeadsFurther
  <2> QED BY <1>3, <1>6, <1>7, <1>9, <2>3
<1> QED BY <1>8, <1>9

LEMMA MainContexts ==
  ASSUME BrowserIInv, BrowserIInv', Nested(tree, root), Room, OwnTree(tree), step >= 4,
         NEW new \in MainIds, MainCommitted(new)
  PROVE  OwnTree(tree') /\ \A f \in FrameIds : ContextsFollow(f)
<1>1. PICK S, document, e :
        /\ S = Below(root) /\ document = NewDocument(new, NoFrame)
        /\ e = Reported("navigated", new, NoFrame)
  OBVIOUS
<1>2. MainShape(new, S, document, e)
  BY <1>1, MainShapes, Zenon
<1> USE DEF MainShape
<1>3. PICK fresh \in Seq(Calm) : fresh = MainNews(new)
  BY <1>1, <1>2, MainNewsTyped
<1>4. e.type = "navigated" /\ e.frame = new /\ e.parent = NoFrame
  BY <1>1 DEF Reported, Event
<1>5. PICK a, b : a = TreeShape /\ b = TreeShape'
  OBVIOUS
<1>6. /\ a \in Shapes /\ a.main = root /\ DOMAIN a.parent = DOMAIN tree
      /\ b \in Shapes /\ b.main = new /\ DOMAIN b.parent = {new} /\ \A x : Reshape(x, e) = b
  <2>1. DOMAIN b.parent = DOMAIN tree' /\ DOMAIN tree' = {new}
    BY <1>2, <1>5, NextDomain
  <2>2. b.main = new
    BY <1>2, <1>5 DEF TreeShape, Shape
  <2> QED BY <1>2, <1>5, <2>1, <2>2, TreeShapeFacts
<1>7. step \in Nat /\ step >= 1
  BY DEF BrowserIInv
<1>8. PICK s \in ParentsFirst(S) : \E told \in {<<>>, Reverse(s)} :
         MainBatch(new, e, told) /\ Detaches(told, {a, Pruned(a, S)})
  BY <1>2, <1>5
<1>9. PICK told \in Seq(ChildIds) :
         /\ \E news \in {Before(e, fresh)} \cup (IF new = root THEN {After(e, fresh)} ELSE {}) :
              inbox' = DetachedEvents(told) \o news
         /\ \E x \in {a, Pruned(a, S)} : Leads(Moves, a, DetachedEvents(told), x)
  BY <1>3, <1>5, <1>7, <1>8 DEF MainBatch, Detaches
<1>10. PICK news \in {Before(e, fresh)} \cup (IF new = root THEN {After(e, fresh)} ELSE {}) :
         inbox' = DetachedEvents(told) \o news
  BY <1>9
<1>11. PICK x \in {a, Pruned(a, S)} : Leads(Moves, a, DetachedEvents(told), x)
  BY <1>9
<1>12. x \in Shapes /\ x.main = root /\ root \in DOMAIN x.parent
  <2>1. root \in DOMAIN tree \ S
    BY <1>2 DEF Nested
  <2> QED BY <1>6, <1>11, <2>1, PrunedTyped
<1>13. DetachedEvents(told) \in Seq(Events) /\ fresh \in Seq(Events)
  BY <1>2, <1>9, GoneBatch, CalmTyped
<1>14. news \in Seq(Events)
  <2>1. <<e>> \in Seq(Events)
    BY <1>2
  <2>2. news \in {Before(e, fresh), After(e, fresh)}
    BY <1>10
  <2> QED BY <1>13, <2>1, <2>2, AroundTyped
<1>15. Own(new, document)
  BY <1>1, DocumentOwn
<1>16. OwnTree(tree')
  BY <1>2, <1>15 DEF OwnTree
<1>17. new # root => new \in Late /\ new \notin DOMAIN tree
  <2>1. new = root \/ root = FirstMain
    BY DEF MainCommitted
  <2>2. \A f \in DOMAIN tree \ {root} : f \in ChildIds
    BY DEF Nested
  <2> QED BY <2>1, <2>2, ManagerAssumption DEF Late
<1>18. ASSUME NEW f \in FrameIds, NEW h \in Holds, f = new /\ h.mapped = {} => f \in Late, NEW W,
              W = {w \in Holds : IF f = new THEN Fits(f, document, w) ELSE w.mapped = {}},
              NEW y \in Shapes, new \in DOMAIN y.parent
       PROVE  \E w \in W : Leads(Holding(f), Sight(y, h), fresh, Sight(y, w))
  <2>1. new \in FrameIds /\ document \in Documents /\ step >= 4
    BY <1>2
  <2> HIDE DEF MainShape
  <2>2. \E w \in W : Leads(Holding(f), Sight(y, h), MainNews(new), Sight(y, w))
    BY <1>1, <1>7, <1>18, <2>1, MainNewsHolds
  <2> QED BY <1>3, <2>2
<1>19. ASSUME NEW f \in FrameIds, NEW h \in Holds, Lives(f, tree, h)
       PROVE  \E w \in Holds : Lives(f, tree', w) /\ Leads(Holding(f), Sight(a, h), inbox', Sight(b, w))
  <2>1. PICK W : W = {w \in Holds : IF f = new THEN Fits(f, document, w) ELSE w.mapped = {}}
    OBVIOUS
  <2>2. \A w \in W : w \in Holds /\ Lives(f, tree', w)
    BY <1>2, <2>1 DEF Lives
  <2>3. Leads(Holding(f), Sight(a, h), DetachedEvents(told), Sight(x, h))
    BY <1>11, DetachedForeign, ForeignLeads
  <2>4. \E w \in W : Leads(Holding(f), Sight(x, h), news, Sight(b, w))
    <3>1. CASE f # new \/ new = root
      <4>1. ASSUME NEW g \in Holds PROVE Heard(f, x, g, e) /\ Becomes(f, x, g, e) = g
        <5>1. CASE f # new
          <6>1. e \in Foreign(f)
            BY <1>2, <1>4, <5>1 DEF Foreign
          <6> QED BY <6>1, ForeignKeeps
        <5>2. CASE new = root
          <6>1. Becomes(f, x, g, e) = IF e.parent = NoFrame /\ e.frame = f /\ x.main # f
                                      THEN Hold(g.mapped, Places, Places) ELSE g
            BY <1>4, BecomesNavigated
          <6>2. ~(e.frame = f /\ x.main # f)
            BY <1>4, <1>12, <5>2
          <6>3. Heard(f, x, g, e)
            BY <1>4 DEF Heard
          <6> QED BY <6>1, <6>2, <6>3
        <5> QED BY <3>1, <5>1, <5>2
      <4>2. ASSUME f = new PROVE h.mapped # {}
        <5>1. f \in DOMAIN tree /\ tree[f] \in Documents /\ Own(f, tree[f])
          BY <3>1, <4>2 DEF Nested, BrowserIInv, Tree, OwnTree
        <5>2. tree[f].primary \in h.mapped
          BY <1>19, <5>1, OwnFacts DEF Lives, Fits
        <5> QED BY <5>2
      <4>3. CASE new = root
        <5>1. \A y \in {x, b} : \E w \in W : Leads(Holding(f), Sight(y, h), fresh, Sight(y, w))
          <6> SUFFICES ASSUME NEW y \in {x, b}
                       PROVE  \E w \in W : Leads(Holding(f), Sight(y, h), fresh, Sight(y, w))
            OBVIOUS
          <6>1. y \in Shapes /\ new \in DOMAIN y.parent
            BY <1>6, <1>12, <4>3
          <6> QED BY <1>18, <2>1, <4>2, <6>1
        <5>2. news \in {Before(e, fresh), After(e, fresh)} /\ b = Reshape(x, e) /\ step >= 4
          BY <1>6, <1>10
        <5>3. W \in SUBSET Holds /\ e \in Events
          BY <1>2, <2>1
        <5> HIDE DEF MainShape
        <5> QED BY <1>6, <1>7, <1>12, <1>13, <4>1, <5>1, <5>2, <5>3, NewsHolds
      <4>4. CASE new # root
        <5>1. PICK w \in W : Leads(Holding(f), Sight(b, h), fresh, Sight(b, w))
          BY <1>6, <1>18, <2>1, <4>2
        <5>2. Leads(Holding(f), Sight(x, h), <<e>>, Sight(b, h))
          BY <1>2, <1>6, <1>12, <4>1, HoldOne
        <5>3. news = <<e>> \o fresh /\ <<e>> \in Seq(Events)
          BY <1>2, <1>7, <1>10, <1>13, <4>4, AroundFacts
        <5>4. Leads(Holding(f), Sight(x, h), <<e>> \o fresh, Sight(b, w))
          BY <1>13, <5>1, <5>2, <5>3, LeadsFurther
        <5> QED BY <5>1, <5>3, <5>4
      <4> QED BY <4>3, <4>4
    <3>2. CASE f = new /\ new # root
      <4>1. h.mapped = {} /\ f \in Late
        BY <1>17, <1>19, <3>2 DEF Lives
      <4>2. PICK v : v = Hold(h.mapped, Places, Places)
        OBVIOUS
      <4>3. v \in Holds /\ v.mapped = {}
        <5>1. h.mapped \in SUBSET Contexts /\ Places \in SUBSET Places
          BY DEF Holds
        <5> QED BY <4>1, <4>2, <5>1, HoldFacts
      <4>4. Heard(f, x, h, e) /\ Becomes(f, x, h, e) = v
        <5>1. Becomes(f, x, h, e) = IF e.parent = NoFrame /\ e.frame = f /\ x.main # f
                                    THEN Hold(h.mapped, Places, Places) ELSE h
          BY <1>4, BecomesNavigated
        <5>2. e.parent = NoFrame /\ e.frame = f /\ x.main # f
          BY <1>4, <1>12, <3>2
        <5>3. Heard(f, x, h, e)
          BY <1>4 DEF Heard
        <5> QED BY <4>2, <5>1, <5>2, <5>3
      <4>5. Leads(Holding(f), Sight(x, h), <<e>>, Sight(b, v))
        BY <1>2, <1>6, <1>12, <4>3, <4>4, HoldOne
      <4>6. PICK w \in W : Leads(Holding(f), Sight(b, v), fresh, Sight(b, w))
        BY <1>6, <1>18, <2>1, <4>1, <4>3
      <4>7. news = <<e>> \o fresh /\ <<e>> \in Seq(Events)
        BY <1>2, <1>7, <1>10, <1>13, <3>2, AroundFacts
      <4>8. Leads(Holding(f), Sight(x, h), <<e>> \o fresh, Sight(b, w))
        BY <1>13, <4>5, <4>6, <4>7, LeadsFurther
      <4> QED BY <4>6, <4>7, <4>8
    <3> QED BY <3>1, <3>2
  <2>5. PICK w \in W : Leads(Holding(f), Sight(x, h), news, Sight(b, w))
    BY <2>4
  <2>6. Leads(Holding(f), Sight(a, h), DetachedEvents(told) \o news, Sight(b, w))
    BY <1>13, <1>14, <2>3, <2>5, LeadsFurther
  <2> QED BY <1>10, <2>2, <2>5, <2>6
<1> QED BY <1>5, <1>16, <1>19 DEF ContextsFollow


\* A document that got further has the contexts it had.
LEMMA SameContexts ==
  ASSUME BrowserIInv, BrowserIInv', Nested(tree, root), OwnTree(tree), KeepsShape,
         \A x \in DOMAIN tree : /\ tree'[x].primary = tree[x].primary
                                /\ tree'[x].secondary = tree[x].secondary,
         NEW f \in FrameIds, inbox' \in Seq(Foreign(f) \cap Calm)
  PROVE  OwnTree(tree') /\ ContextsFollow(f)
<1>1. OwnTree(tree')
  BY DEF OwnTree, Own, KeepsShape
<1>2. PICK a : a = TreeShape
  OBVIOUS
<1>3. a \in Shapes /\ TreeShape' = a
  BY <1>2, KeepsFollows, TreeShapeFacts
<1>4. ASSUME NEW h \in Holds, Lives(f, tree, h)
      PROVE  Lives(f, tree', h) /\ Leads(Holding(f), Sight(a, h), inbox', Sight(a, h))
  <2>1. Leads(Holding(f), Sight(a, h), inbox', Sight(a, h))
    BY <1>3, CalmForeign
  <2>2. Lives(f, tree', h)
    BY <1>4 DEF Lives, Fits, KeepsShape
  <2> QED BY <2>1, <2>2
<1> QED BY <1>1, <1>2, <1>3, <1>4 DEF ContextsFollow

LEMMA PlainOwn ==
  ASSUME BrowserIInv, OwnTree(tree), NEW g \in FrameIds,
         StartedLoading(g) \/ NavigatedWithin(g) \/ DomReady(g) \/ Loaded(g)
  PROVE  /\ OwnTree(tree')
         /\ \A x \in DOMAIN tree : /\ tree'[x].primary = tree[x].primary
                                   /\ tree'[x].secondary = tree[x].secondary
<1>1. g \in DOMAIN tree /\ \A x \in DOMAIN tree : tree[x] \in Documents
  BY DEF StartedLoading, NavigatedWithin, DomReady, Loaded, Reaches, BrowserIInv, Tree
<1>2. \A x \in DOMAIN tree : /\ tree'[x].primary = tree[x].primary
                             /\ tree'[x].secondary = tree[x].secondary
  <2>1. CASE StartedLoading(g)
    BY <1>1, <2>1 DEF StartedLoading, Documents
  <2>2. CASE NavigatedWithin(g)
    BY <1>1, <2>2 DEF NavigatedWithin, Documents
  <2>3. CASE DomReady(g) \/ Loaded(g)
    BY <1>1, <2>3 DEF DomReady, Loaded, Reaches, Documents
  <2> QED BY <2>1, <2>2, <2>3
<1>3. DOMAIN tree' = DOMAIN tree
  BY DEF StartedLoading, NavigatedWithin, DomReady, Loaded, Reaches
<1> QED BY <1>2, <1>3 DEF OwnTree, Own

LEMMA PlainContexts ==
  ASSUME IInv, BrowserIInv, BrowserIInv', Nested(tree, root), OwnTree(tree), NEW g \in FrameIds,
         StartedLoading(g) \/ NavigatedWithin(g) \/ DomReady(g) \/ Loaded(g), NEW f \in FrameIds
  PROVE  OwnTree(tree') /\ ContextsFollow(f)
<1>1. KeepsShape
  BY PlainTyped
<1>2. \A x \in DOMAIN tree : /\ tree'[x].primary = tree[x].primary
                             /\ tree'[x].secondary = tree[x].secondary
  BY PlainOwn
<1>3. ASSUME NEW n, NEW type \in {"within", "startedLoading", "init", "DOMContentLoaded", "load"},
             inbox' = FromStep(n, <<Event(type, g)>>)
      PROVE  inbox' \in Seq(Foreign(f) \cap Calm)
  <2>1. Event(type, g) \in Calm /\ Event(type, g).type = type
    BY PlainEvent DEF Event
  <2>2. Event(type, g) \in Foreign(f)
    BY <2>1 DEF Foreign, Calm
  <2>3. <<Event(type, g)>> \in Seq(Foreign(f) \cap Calm)
    BY <2>1, <2>2
  <2> QED BY <1>3, <2>3, FromStepTyped
<1>4. inbox' \in Seq(Foreign(f) \cap Calm)
  BY <1>3 DEF StartedLoading, NavigatedWithin, DomReady, Loaded, Reaches, Report
<1> QED BY <1>1, <1>2, <1>4, SameContexts

\* The steps of the second chain.
LEMMA ChainContexts ==
  ASSUME IInv, BrowserIInv, BrowserIInv', Nested(tree, root), OwnTree(tree), UNCHANGED acts,
         ChainBegins \/ ScriptAdded \/ \E g \in FrameIds : IsolatedWorldCreated(g), NEW f \in FrameIds
  PROVE  OwnTree(tree') /\ ContextsFollow(f)
<1>1. KeepsShape
  BY ChainStep, WorldCreatedStep
<1>2. \A x \in DOMAIN tree : tree[x] \in Documents /\ x \in FrameIds
  BY DEF BrowserIInv, Tree
<1>3. ASSUME inbox' = <<>>, tree' = tree PROVE OwnTree(tree') /\ ContextsFollow(f)
  <2>1. inbox' \in Seq(Foreign(f) \cap Calm)
    BY <1>3
  <2> QED BY <1>1, <1>3, <2>1, SameContexts
<1>4. CASE ChainBegins \/ ScriptAdded
  <2>1. inbox' = <<>> /\ tree' = tree
    BY <1>4 DEF ChainBegins, ScriptAdded, Answers, Report, Quiet, EnsureIsolatedWorld
  <2> QED BY <1>3, <2>1
<1>5. ASSUME NEW g \in FrameIds, IsolatedWorldCreated(g) PROVE OwnTree(tree') /\ ContextsFollow(f)
  <2>1. CASE ~(g \in DOMAIN tree /\ tree[g].secondary = NoContext)
    <3>1. inbox' = <<>> /\ tree' = tree
      BY <1>5, <2>1 DEF IsolatedWorldCreated, Report
    <3> QED BY <1>3, <3>1
  <2>2. CASE g \in DOMAIN tree /\ tree[g].secondary = NoContext
    <3>1. PICK c : c = New(g, "secondary")
      OBVIOUS
    <3>2. c \in Contexts /\ c[1] = g /\ c[2] = "secondary" /\ c # NoContext
      <4>1. c \in Contexts
        BY <1>5, <3>1, NewTyped DEF IsolatedWorldCreated
      <4>2. c[1] = g /\ c[2] = "secondary"
        BY <3>1 DEF New
      <4> QED BY <4>1, <4>2, ContextTyped
    <3>3. /\ tree' = [tree EXCEPT ![g].secondary = c]
          /\ inbox' = <<InContext("secondary", g, c)>>
      BY <1>5, <2>2, <3>1 DEF IsolatedWorldCreated, Report
    <3>4. /\ DOMAIN tree' = DOMAIN tree /\ tree'[g].primary = tree[g].primary /\ tree'[g].secondary = c
          /\ \A x \in DOMAIN tree \ {g} : tree'[x] = tree[x]
      BY <1>2, <2>2, <3>3 DEF Documents
    <3>5. OwnTree(tree')
      <4>1. \A x \in DOMAIN tree : Own(x, tree[x])
        BY DEF OwnTree
      <4>2. Own(g, tree'[g])
        BY <2>2, <3>2, <3>4, <4>1 DEF Own
      <4> QED BY <3>4, <4>1, <4>2 DEF OwnTree
    <3>6. PICK a : a = TreeShape
      OBVIOUS
    <3>7. a \in Shapes /\ TreeShape' = a /\ DOMAIN a.parent = DOMAIN tree
      BY <1>1, <3>6, KeepsFollows, TreeShapeFacts
    <3>8. ASSUME NEW h \in Holds, Lives(f, tree, h)
          PROVE  \E w \in Holds : /\ Lives(f, tree', w)
                                  /\ Leads(Holding(f), Sight(a, h), inbox', Sight(a, w))
      <4>1. CASE f = g
        <5>1. PICK w : w = Hold(h.mapped \cup {c}, h.primary, Finds(c, h.secondary))
          OBVIOUS
        <5>2. w \in Holds /\ Leads(Holding(f), Sight(a, h), inbox', Sight(a, w))
          BY <2>2, <3>2, <3>3, <3>7, <4>1, <5>1, SecondaryHolds
        <5>3. /\ w.mapped = h.mapped \cup {c} /\ w.primary = h.primary
              /\ w.secondary = Finds(c, h.secondary)
          BY <5>1, HoldFacts
        <5>4. /\ h.mapped = {tree[g].primary} \ {NoContext} /\ h.primary = {tree[g].primary}
              /\ f \notin Late => h.secondary = {NoContext}
          BY <2>2, <3>8, <4>1 DEF Lives, Fits
        <5>5. Finds(c, {NoContext}) = {c}
          BY DEF Finds
        <5>6. w.mapped = {tree[g].primary, c} \ {NoContext}
          BY <3>2, <5>3, <5>4
        <5>7. f \notin Late => w.secondary = {c}
          BY <5>3, <5>4, <5>5
        <5>8. Fits(f, tree'[f], w)
          BY <3>4, <4>1, <5>3, <5>4, <5>6, <5>7 DEF Fits
        <5>9. Lives(f, tree', w)
          BY <2>2, <3>4, <4>1, <5>8 DEF Lives
        <5> QED BY <5>2, <5>9
      <4>2. CASE f # g
        <5>1. PICK e : e = InContext("secondary", g, c)
          OBVIOUS
        <5>2. e \in Calm /\ e.type = "secondary" /\ e.frame = g /\ e.context = c
          BY <3>2, <5>1, CreatedEvent, InContextFacts DEF Mute
        <5>3. e \in Foreign(f)
          BY <3>2, <4>2, <5>2 DEF Foreign, Calm
        <5>4. inbox' \in Seq(Foreign(f) \cap Calm)
          BY <3>3, <5>1, <5>2, <5>3
        <5>5. Leads(Holding(f), Sight(a, h), inbox', Sight(a, h))
          BY <3>7, <5>4, CalmForeign
        <5>6. Lives(f, tree', h)
          BY <3>4, <3>8, <4>2 DEF Lives
        <5> QED BY <5>5, <5>6
      <4> QED BY <4>1, <4>2
    <3> QED BY <3>5, <3>6, <3>7, <3>8 DEF ContextsFollow
  <2> QED BY <2>1, <2>2
<1> QED BY <1>4, <1>5

-----------------------------------------------------------------------------
(* The handler's contexts are those of the browser's documents.            *)

\* What the handler has of f leads, once its events are read, to the contexts of f's document.
ContextsSettle(f) ==
  \E h0, h \in Holds : /\ Agrees(f, h0) /\ Lives(f, tree, h)
                       /\ Leads(Holding(f), Sight(ShapeNow, h0), inbox, Sight(TreeShape, h))

\* Events that are not about contexts.
Loud == {e \in Events : e.type \notin {"primary", "secondary", "destroyed", "cleared"}}

\* Before contexts are enabled no frame has any and none is told of.
Barren == ~scripted /\ inbox \in Seq(Loud) /\ \A f \in FrameIds : Agrees(f, Nothing)

ContextsIInv ==
  /\ OwnTree(tree)
  /\ step <= 3 => Barren
  /\ step >= 4 => \A f \in FrameIds : ContextsSettle(f)

LEMMA QuietContexts ==
  ASSUME NEW f, ContextsSettle(f), Quiet
  PROVE  ShapeNow = TreeShape /\ \E h \in Holds : Agrees(f, h) /\ Lives(f, tree, h)
<1>1. PICK h0 \in Holds, h \in Holds :
        /\ Agrees(f, h0) /\ Lives(f, tree, h)
        /\ Leads(Holding(f), Sight(ShapeNow, h0), inbox, Sight(TreeShape, h))
  BY DEF ContextsSettle
<1>2. PICK v, t : v = Sight(ShapeNow, h0) /\ t = Sight(TreeShape, h)
  OBVIOUS
<1>3. Leads(Holding(f), v, <<>>, t)
  BY <1>1, <1>2 DEF Quiet
<1>4. Sight(ShapeNow, h0) = Sight(TreeShape, h)
  BY <1>2, <1>3, LeadsQuiet
<1>5. ShapeNow = TreeShape /\ h0 = h
  BY <1>4, SightsEqual
<1> QED BY <1>1, <1>5

\* An act of the page or a step of the chain.
LEMMA ActSettles ==
  ASSUME NEW f, ContextsSettle(f), Quiet, ContextsFollow(f), UNCHANGED <<main, frames, contexts>>
  PROVE  ContextsSettle(f)'
<1>1. ShapeNow = TreeShape
  BY QuietContexts
<1>2. PICK h \in Holds : Agrees(f, h) /\ Lives(f, tree, h)
  BY QuietContexts
<1>3. PICK w \in Holds : /\ Lives(f, tree', w)
                         /\ Leads(Holding(f), Sight(TreeShape, h), inbox', Sight(TreeShape', w))
  BY <1>2 DEF ContextsFollow
<1>4. ShapeNow' = TreeShape
  BY <1>1, ShapeStays
<1>5. Agrees(f, h)'
  BY <1>2 DEF Agrees
<1>6. Leads(Holding(f), Sight(ShapeNow', h), inbox', Sight(TreeShape', w))
  BY <1>3, <1>4
<1>7. Lives(f, tree, w)'
  BY <1>3
<1> QED BY <1>5, <1>6, <1>7 DEF ContextsSettle

\* The handler reads one event.
LEMMA ReadSettles ==
  ASSUME IInv, IInv', NEW f \in FrameIds, ContextsSettle(f), Manager, UNCHANGED browserVars
  PROVE  ContextsSettle(f)'
<1>1. inbox # <<>> /\ inbox' = Tail(inbox) /\ inbox \in Seq(Events)
  BY ManagerMoves DEF IInv
<1>2. PICK h0 \in Holds, h \in Holds :
        /\ Agrees(f, h0) /\ Lives(f, tree, h)
        /\ Leads(Holding(f), Sight(ShapeNow, h0), inbox, Sight(TreeShape, h))
  BY DEF ContextsSettle
<1>3. PICK v, t : v = Sight(ShapeNow, h0) /\ t = Sight(TreeShape, h)
  OBVIOUS
<1>4. PICK w : <<v, Head(inbox), w>> \in Holding(f) /\ Leads(Holding(f), w, Tail(inbox), t)
  BY <1>1, <1>2, <1>3, LeadsOn
<1>5. PICK g \in Holds : w = Sight(ShapeNow', g) /\ Agrees(f, g)'
  <2>1. <<Sight(ShapeNow, h0), Head(inbox), w>> \in Holding(f)
    BY <1>3, <1>4
  <2> QED BY <1>2, <2>1, ManagerAgrees
<1>6. Leads(Holding(f), Sight(ShapeNow', g), inbox', Sight(TreeShape, h))
  BY <1>1, <1>3, <1>4, <1>5
<1>7. TreeShape' = TreeShape /\ tree' = tree
  BY DEF browserVars, TreeShape
<1>8. Leads(Holding(f), Sight(ShapeNow', g), inbox', Sight(TreeShape', h))
  BY <1>6, <1>7
<1>9. Lives(f, tree, h)'
  BY <1>2, <1>7
<1> QED BY <1>5, <1>8, <1>9 DEF ContextsSettle


\* What is told before contexts are enabled.
LEMMA LoudTyped ==
  ASSUME BrowserIInv, step <= 3
  PROVE  /\ Loud \subseteq Events
         /\ \A f \in FrameIds, type \in {"within", "startedLoading", "init", "DOMContentLoaded", "load"} :
              Event(type, f) \in Loud
         /\ \A told \in Seq(ChildIds) : DetachedEvents(told) \in Seq(Loud)
         /\ \A f \in FrameIds : \A doc : FreshEvents(f, doc) \in Seq(Loud)
         /\ \A q : FromStep(4, q) = <<>>
<1>1. Loud \subseteq Events
  BY DEF Loud
<1>2. ASSUME NEW f \in FrameIds,
             NEW type \in {"within", "startedLoading", "init", "DOMContentLoaded", "load"}
      PROVE  Event(type, f) \in Loud
  <2>1. Event(type, f) \in Events /\ Event(type, f).type = type
    BY PlainEvent, CalmTyped DEF Event
  <2> QED BY <2>1 DEF Loud
<1>3. ASSUME NEW told \in Seq(ChildIds) PROVE DetachedEvents(told) \in Seq(Loud)
  <2>1. ASSUME NEW f \in ChildIds PROVE Event("detached", f) \in Loud
    <3>1. Event("detached", f) \in Events /\ Event("detached", f).type = "detached"
      BY DetachedEvent DEF Event
    <3> QED BY <3>1 DEF Loud
  <2> QED BY <2>1, DetachedIn
<1>4. ASSUME NEW q PROVE FromStep(4, q) = <<>>
  <2>1. ~(step >= 4)
    BY DEF BrowserIInv
  <2> QED BY <2>1, Zenon DEF FromStep
<1>5. ASSUME NEW f \in FrameIds, NEW doc PROVE FreshEvents(f, doc) \in Seq(Loud)
  <2>1. PICK i : i = <<Event("init", f)>>
    OBVIOUS
  <2>2. i \in Seq(Loud) /\ <<>> \in Seq(Loud)
    BY <1>2, <2>1
  <2>3. FromStep(3, i) \in Seq(Loud)
    BY <2>2, FromStepTyped
  <2>4. FreshEvents(f, doc) = FromStep(3, i) \o <<>>
    BY <1>4, <2>1, Zenon DEF FreshEvents
  <2> QED BY <2>2, <2>3, <2>4
<1> QED BY <1>1, <1>2, <1>3, <1>4, <1>5

LEMMA AroundIn ==
  ASSUME NEW E, NEW e \in E, NEW fresh \in Seq(E), NEW news \in {Before(e, fresh), After(e, fresh)}
  PROVE  news \in Seq(E)
<1>1. <<e>> \in Seq(E)
  OBVIOUS
<1>2. FromStep(1, <<e>>) \in Seq(E)
  BY <1>1, FromStepTyped
<1>3. <<e>> \o fresh \in Seq(E) /\ fresh \o FromStep(1, <<e>>) \in Seq(E)
  BY <1>1, <1>2, ConcatProperties
<1> QED BY <1>3, Zenon DEF Before, After

LEMMA GoneLoud ==
  ASSUME BrowserIInv, step <= 3, NEW s, NEW told \in Seq(ChildIds), NEW gone \in GoneEvents(s, told)
  PROVE  gone \in Seq(Loud)
<1>1. FromStep(4, Each(s, DestroyedEvents)) = <<>>
  BY LoudTyped, Zenon
<1>2. PICK d : d = DetachedEvents(told)
  OBVIOUS
<1>3. d \in Seq(Loud) /\ <<>> \in Seq(Loud)
  BY <1>2, LoudTyped
<1>4. gone \in {d \o <<>>, <<>> \o d}
  BY <1>1, <1>2, Zenon DEF GoneEvents
<1> QED BY <1>3, <1>4, ConcatProperties

\* The acts of the page.
LEMMA PageLoud ==
  ASSUME BrowserIInv, BrowserIInv', Nested(tree, root), OwnTree(tree), step <= 3, Page
  PROVE  inbox' \in Seq(Loud) /\ OwnTree(tree')
<1>1. /\ Room
      /\ \/ \E c \in ChildIds, p \in FrameIds : ChildAttached(c, p)
         \/ \E c \in ChildIds : ChildDetached(c) \/ ChildCommitted(c)
         \/ \E f \in FrameIds : StartedLoading(f) \/ NavigatedWithin(f) \/ DomReady(f) \/ Loaded(f)
         \/ \E new \in MainIds : MainCommitted(new)
  BY DEF Page
<1>2. ASSUME NEW c \in ChildIds, NEW p \in FrameIds, ChildAttached(c, p)
      PROVE  inbox' \in Seq(Loud) /\ OwnTree(tree')
  <2>1. PICK e, doc : e = Reported("attached", c, p) /\ doc = Document(c, p)
    OBVIOUS
  <2>2. /\ c \in FrameIds /\ inbox' = FromStep(1, <<e>>) \o FreshEvents(c, doc) /\ e \in Events
        /\ tree' = [f \in DOMAIN tree \cup {c} |-> IF f = c THEN doc ELSE tree[f]]
    BY <1>1, <1>2, <2>1, AttachedShapes
  <2>3. e \in Loud
    <3>1. e.type = "attached"
      BY <2>1 DEF Reported, Event
    <3> QED BY <2>2, <3>1 DEF Loud
  <2>4. <<e>> \in Seq(Loud)
    BY <2>3
  <2>5. FromStep(1, <<e>>) \in Seq(Loud) /\ FreshEvents(c, doc) \in Seq(Loud)
    BY <2>2, <2>4, FromStepTyped, LoudTyped
  <2>6. inbox' \in Seq(Loud)
    BY <2>2, <2>5, ConcatProperties
  <2>7. Own(c, doc)
    BY <2>1, DocumentOwn
  <2> QED BY <2>2, <2>6, <2>7 DEF OwnTree
<1>3. ASSUME NEW c \in ChildIds, ChildDetached(c)
      PROVE  inbox' \in Seq(Loud) /\ OwnTree(tree')
  <2>1. PICK S : S = {c} \cup Below(c)
    OBVIOUS
  <2>2. /\ tree' = [f \in DOMAIN tree \ S |-> tree[f]]
        /\ \E s \in ParentsFirst(S) : \E told \in {<<c>>, Reverse(s)} :
             inbox' \in GoneEvents(s, told) /\ told \in Seq(ChildIds)
    BY <1>3, <2>1, DetachedShapes
  <2> QED BY <2>2, GoneLoud DEF OwnTree
<1>4. ASSUME NEW c \in ChildIds, ChildCommitted(c)
      PROVE  inbox' \in Seq(Loud) /\ OwnTree(tree')
  <2>1. PICK S, document, e :
          /\ S = Below(c) /\ document = NewDocument(c, tree[c].parent)
          /\ e = Reported("navigated", c, tree[c].parent)
    OBVIOUS
  <2>2. CommittedShape(c, S, document, e)
    BY <1>1, <1>4, <2>1, CommittedShapes, Zenon
  <2> USE DEF CommittedShape
  <2>3. e \in Loud
    <3>1. e.type = "navigated"
      BY <2>1 DEF Reported, Event
    <3> QED BY <2>2, <3>1 DEF Loud
  <2>4. PICK fresh : fresh = ChildNews(c)
    OBVIOUS
  <2>5. fresh \in Seq(Loud)
    <3>1. PICK q : q = FreshEvents(c, document)
      OBVIOUS
    <3>2. q \in Seq(Loud)
      BY <2>2, <3>1, LoudTyped
    <3>3. FromStep(4, DestroyedEvents(c)) = <<>>
      BY LoudTyped, Zenon
    <3>4. fresh = <<>> \o q
      BY <2>1, <2>4, <3>1, <3>3, Zenon DEF ChildNews
    <3> QED BY <3>2, <3>4
  <2>6. PICK s \in ParentsFirst(S) : \E told \in {Reverse(s), <<>>} :
          ChildBatch(c, e, s, told) /\ told \in Seq(ChildIds)
    BY <2>2 DEF Detaches
  <2>7. PICK told \in Seq(ChildIds) : ChildBatch(c, e, s, told)
    BY <2>6
  <2>8. PICK gone \in GoneEvents(s, told), news \in {Before(e, fresh), After(e, fresh)} :
          inbox' = gone \o news
    BY <2>4, <2>7 DEF ChildBatch
  <2>9. gone \in Seq(Loud) /\ news \in Seq(Loud)
    BY <2>3, <2>5, <2>8, GoneLoud, AroundIn
  <2>10. inbox' \in Seq(Loud)
    BY <2>8, <2>9, ConcatProperties
  <2>11. Own(c, document)
    BY <2>1, DocumentOwn
  <2> QED BY <2>2, <2>10, <2>11 DEF OwnTree
<1>5. ASSUME NEW new \in MainIds, MainCommitted(new)
      PROVE  inbox' \in Seq(Loud) /\ OwnTree(tree')
  <2>1. PICK S, document, e :
          /\ S = Below(root) /\ document = NewDocument(new, NoFrame)
          /\ e = Reported("navigated", new, NoFrame)
    OBVIOUS
  <2>2. MainShape(new, S, document, e)
    BY <1>1, <1>5, <2>1, MainShapes, Zenon
  <2> USE DEF MainShape
  <2>3. e \in Loud
    <3>1. e.type = "navigated"
      BY <2>1 DEF Reported, Event
    <3> QED BY <2>2, <3>1 DEF Loud
  <2>4. PICK fresh : fresh = MainNews(new)
    OBVIOUS
  <2>5. fresh \in Seq(Loud)
    <3>1. PICK q : q = FreshEvents(new, document)
      OBVIOUS
    <3>2. q \in Seq(Loud)
      BY <2>2, <3>1, LoudTyped
    <3>3. FromStep(4, <<Event("cleared", NoFrame)>>) = <<>>
      BY LoudTyped, Zenon
    <3>4. fresh = <<>> \o q
      BY <2>1, <2>4, <3>1, <3>3, Zenon DEF MainNews
    <3> QED BY <3>2, <3>4
  <2>6. PICK s \in ParentsFirst(S) : \E told \in {<<>>, Reverse(s)} :
          MainBatch(new, e, told) /\ told \in Seq(ChildIds)
    BY <2>2 DEF Detaches
  <2>7. PICK told \in Seq(ChildIds) : MainBatch(new, e, told)
    BY <2>6
  <2>8. PICK news \in {Before(e, fresh), After(e, fresh)} : inbox' = DetachedEvents(told) \o news
    BY <2>4, <2>7 DEF MainBatch
  <2>9. DetachedEvents(told) \in Seq(Loud) /\ news \in Seq(Loud)
    BY <2>3, <2>5, <2>8, LoudTyped, AroundIn
  <2>10. inbox' \in Seq(Loud)
    BY <2>8, <2>9, ConcatProperties
  <2>11. Own(new, document)
    BY <2>1, DocumentOwn
  <2> QED BY <2>2, <2>10, <2>11 DEF OwnTree
<1>6. ASSUME NEW f \in FrameIds, StartedLoading(f) \/ NavigatedWithin(f) \/ DomReady(f) \/ Loaded(f)
      PROVE  inbox' \in Seq(Loud) /\ OwnTree(tree')
  <2>1. ASSUME NEW n, NEW type \in {"within", "startedLoading", "init", "DOMContentLoaded", "load"},
               inbox' = FromStep(n, <<Event(type, f)>>)
        PROVE  inbox' \in Seq(Loud)
    <3>1. Event(type, f) \in Loud
      BY LoudTyped
    <3>2. <<Event(type, f)>> \in Seq(Loud)
      BY <3>1
    <3> QED BY <2>1, <3>2, FromStepTyped
  <2>2. inbox' \in Seq(Loud)
    BY <1>6, <2>1 DEF StartedLoading, NavigatedWithin, DomReady, Loaded, Reaches, Report
  <2>3. OwnTree(tree')
    BY <1>6, PlainOwn
  <2> QED BY <2>2, <2>3
<1> QED BY <1>1, <1>2, <1>3, <1>4, <1>5, <1>6


\* The steps of the first chain.
LEMMA ChainLoud ==
  ASSUME BrowserIInv, OwnTree(tree), step <= 2, PageEnabled \/ FrameTreeAnswered \/ LifecycleEnabled
  PROVE  inbox' \in Seq(Loud) /\ OwnTree(tree') /\ step' <= 3
<1>1. \A f \in DOMAIN tree : tree[f] \in Documents /\ f \in FrameIds
  BY DEF BrowserIInv, Tree
<1>2. ASSUME NEW s \in ParentsFirst(DOMAIN tree), NEW l \in [1 .. Len(s) -> Seq(Loud)]
      PROVE  FlattenSeq(l) \in Seq(Loud)
  <2>1. Len(s) \in Nat
    BY OrderFacts DEF BrowserIInv, Tree
  <2>2. l \in Seq(Seq(Loud))
    BY <2>1, ListTyped
  <2> QED BY <2>2, FlattenTyped
<1>3. \A s \in ParentsFirst(DOMAIN tree) : \A i \in 1 .. Len(s) : s[i] \in DOMAIN tree
  BY OrderFacts DEF BrowserIInv, Tree
<1>4. CASE PageEnabled
  <2>1. inbox' = <<>> /\ tree' = tree /\ step = 0 /\ step' = step + 1
    BY <1>4 DEF PageEnabled, Answers, Report
  <2> QED BY <2>1
<1>5. CASE FrameTreeAnswered
  <2>1. /\ step' = 2 /\ DOMAIN tree' = DOMAIN tree
        /\ tree' = [f \in DOMAIN tree |-> [tree[f] EXCEPT !.reported = TRUE]]
        /\ \E s \in ParentsFirst(DOMAIN tree) :
             inbox' = FlattenSeq([i \in 1 .. Len(s) |-> Pair(s[i])])
    BY <1>5, FrameTreeStays
  <2>2. PICK s \in ParentsFirst(DOMAIN tree) : inbox' = FlattenSeq([i \in 1 .. Len(s) |-> Pair(s[i])])
    BY <2>1
  <2>3. ASSUME NEW f \in DOMAIN tree PROVE Pair(f) \in Seq(Loud)
    <3>1. PICK d, e : /\ d = Reported("attached", f, tree[f].parent)
                      /\ e = Reported("navigated", f, tree[f].parent)
      OBVIOUS
    <3>2. f \in FrameIds /\ tree[f].parent \in FrameIds \cup {NoFrame} /\ Rooted(f, tree[f].parent)
      BY DEF BrowserIInv, Tree, Documents
    <3>3. d \in Events /\ e \in Events
      BY <3>1, <3>2, ReportedEvent
    <3>4. d.type = "attached" /\ e.type = "navigated"
      BY <3>1 DEF Reported, Event
    <3>5. d \in Loud /\ e \in Loud
      BY <3>3, <3>4 DEF Loud
    <3>6. Pair(f) = <<d, e>>
      BY <3>1, Zenon DEF Pair
    <3> QED BY <3>5, <3>6
  <2>4. PICK l : l = [i \in 1 .. Len(s) |-> Pair(s[i])]
    OBVIOUS
  <2>5. l \in [1 .. Len(s) -> Seq(Loud)]
    BY <1>3, <2>3, <2>4
  <2>6. inbox' \in Seq(Loud)
    <3>1. FlattenSeq(l) \in Seq(Loud)
      BY <1>2, <2>5
    <3> QED BY <2>2, <2>4, <3>1, Zenon
  <2>7. OwnTree(tree')
    BY <1>1, <2>1 DEF OwnTree, Own, Documents
  <2> QED BY <2>1, <2>6, <2>7
<1>6. CASE LifecycleEnabled
  <2>1. /\ step = 2 /\ step' = step + 1
        /\ tree' = [f \in DOMAIN tree |->
                     [tree[f] EXCEPT !.told = {Reached(f)[i].type : i \in 1 .. Len(Reached(f))}]]
    BY <1>6 DEF LifecycleEnabled, Answers
  <2>2. PICK s \in ParentsFirst(DOMAIN tree) :
          inbox' = FlattenSeq([i \in 1 .. Len(s) |-> Reached(s[i])])
    BY <1>6 DEF LifecycleEnabled, Answers, Report, Each
  <2>3. ASSUME NEW f \in DOMAIN tree PROVE Reached(f) \in Seq(Loud)
    <3>1. PICK d, e : d = Event("DOMContentLoaded", f) /\ e = Event("load", f)
      OBVIOUS
    <3>2. d \in Loud /\ e \in Loud
      <4>1. f \in FrameIds /\ step <= 3
        BY <1>1 DEF BrowserIInv
      <4> QED BY <3>1, <4>1, LoudTyped
    <3>3. <<d>> \in Seq(Loud) /\ <<e>> \in Seq(Loud) /\ <<>> \in Seq(Loud)
      BY <3>2
    <3>4. PICK p, q : /\ p = IF tree[f].stage \in {"dom", "loaded"} THEN <<d>> ELSE <<>>
                      /\ q = IF tree[f].stage = "loaded" THEN <<e>> ELSE <<>>
      OBVIOUS
    <3>5. p \in Seq(Loud) /\ q \in Seq(Loud)
      BY <3>3, <3>4, Zenon
    <3>6. Reached(f) = p \o q
      BY <3>1, <3>4, Zenon DEF Reached
    <3> QED BY <3>5, <3>6, ConcatProperties
  <2>4. PICK l : l = [i \in 1 .. Len(s) |-> Reached(s[i])]
    OBVIOUS
  <2>5. l \in [1 .. Len(s) -> Seq(Loud)]
    BY <1>3, <2>3, <2>4
  <2>6. inbox' \in Seq(Loud)
    <3>1. FlattenSeq(l) \in Seq(Loud)
      BY <1>2, <2>5
    <3> QED BY <2>2, <2>4, <3>1, Zenon
  <2>7. OwnTree(tree')
    BY <1>1, <2>1 DEF OwnTree, Own, Documents
  <2> QED BY <2>1, <2>6, <2>7
<1> QED BY <1>4, <1>5, <1>6

\* The handler reads an event before contexts are enabled.
LEMMA BarrenRead ==
  ASSUME IInv, IInv', Barren, Manager, UNCHANGED browserVars PROVE Barren'
<1>1. inbox # <<>> /\ inbox' = Tail(inbox) /\ inbox \in Seq(Loud)
  BY ManagerMoves DEF Barren
<1>2. Read \in Loud /\ inbox' \in Seq(Loud)
  BY <1>1 DEF Read
<1>3. Read.type \notin {"primary", "secondary", "destroyed", "cleared"}
  BY <1>2 DEF Loud
<1>4. \/ OnFrameAttached \/ OnFrameDetached \/ OnFrameNavigated
      \/ OnFrameNavigatedWithin \/ OnFrameStartedLoading \/ OnLifecycleEvent
  BY <1>3 DEF Manager, OnContextCreated, OnContextDestroyed, OnContextsCleared, Reads
<1>5. PICK h : h = Nothing
  OBVIOUS
<1>6. h \in Holds /\ h.mapped = {} /\ h.primary = {NoContext} /\ h.secondary = {NoContext}
  BY <1>5, NothingFacts
<1>7. Hold(h.mapped, {NoContext}, {NoContext}) = h
  <2>1. PICK m, x : m = h.mapped /\ x = {NoContext}
    OBVIOUS
  <2>2. PICK w : w = Hold(m, x, x)
    OBVIOUS
  <2>3. w.mapped = m /\ w.primary = x /\ w.secondary = x
    BY <2>2, HoldFacts
  <2>4. m \in SUBSET Contexts /\ x \in SUBSET Places
    BY <1>6, <2>1 DEF Places
  <2>5. w \in Holds
    BY <2>2, <2>4, HoldFacts
  <2>6. w = h
    BY <1>6, <2>1, <2>3, <2>5, HoldsEqual
  <2> QED BY <2>1, <2>2, <2>6
<1>8. ASSUME NEW f \in FrameIds PROVE Agrees(f, h)'
  <2>1. Agrees(f, h)
    BY <1>5 DEF Barren
  <2>2. CASE ~(Read.type = "navigated" /\ Read.parent = NoFrame)
    <3>1. PICK w : w = Becomes(f, ShapeNow, h, Read)
      OBVIOUS
    <3>2. w = h
      <4>1. CASE Read.type = "attached"
        <5>1. w = IF Read.frame = f /\ f \notin DOMAIN ShapeNow.parent
                  THEN Hold(h.mapped, {NoContext}, {NoContext}) ELSE h
          BY <3>1, <4>1, BecomesAttached
        <5> QED BY <1>7, <5>1
      <4>2. CASE Read.type = "navigated"
        <5>1. w = IF Read.parent = NoFrame /\ Read.frame = f /\ ShapeNow.main # f
                  THEN Hold(h.mapped, Places, Places) ELSE h
          BY <3>1, <4>2, BecomesNavigated
        <5> QED BY <2>2, <4>2, <5>1
      <4>3. CASE Read.type \notin {"attached", "navigated"}
        <5>1. Read.type \notin {"attached", "navigated", "primary", "secondary", "destroyed", "cleared"}
          BY <1>3, <4>3
        <5> QED BY <3>1, <5>1, BecomesElse
      <4> QED BY <4>1, <4>2, <4>3
    <3>3. CASE OnFrameAttached \/ OnFrameDetached \/ OnFrameNavigated
      <4>1. Agrees(f, w)'
        BY <1>6, <2>1, <3>1, <3>3, TreeAgrees
      <4> QED BY <3>2, <4>1
    <3>4. CASE OnFrameNavigatedWithin \/ OnFrameStartedLoading \/ OnLifecycleEvent
      <4>1. Agrees(f, w)'
        BY <1>6, <2>1, <3>1, <3>4, LoadAgrees
      <4> QED BY <3>2, <4>1
    <3> QED BY <1>4, <3>3, <3>4
  <2>3. CASE Read.type = "navigated" /\ Read.parent = NoFrame
    <3>1. OnFrameNavigated
      BY <1>4, <2>3 DEF OnFrameAttached, OnFrameDetached, OnFrameNavigatedWithin,
                        OnFrameStartedLoading, OnLifecycleEvent, Reads
    <3>2. /\ DOMAIN frames' = {Read.frame}
          /\ frames'[Read.frame].primary = Inherited.primary
          /\ frames'[Read.frame].secondary = Inherited.secondary
      BY <2>3, <3>1, MainFields
    <3>3. Inherited.primary = NoContext /\ Inherited.secondary = NoContext
      <4>1. CASE main = NoFrame
        BY <4>1 DEF Inherited, NewFrame
      <4>2. CASE main # NoFrame
        <5>1. main \in DOMAIN frames /\ main \in FrameIds
          BY <4>2 DEF IInv, Forest, Mains, FrameIds
        <5>2. Agrees(main, h)
          BY <1>5, <5>1 DEF Barren
        <5>3. frames[main].primary = NoContext /\ frames[main].secondary = NoContext
          BY <1>6, <5>1, <5>2 DEF Agrees
        <5> QED BY <4>2, <5>3 DEF Inherited
      <4> QED BY <4>1, <4>2
    <3>4. contexts' = contexts
      BY <3>1 DEF OnFrameNavigated
    <3>5. f \in DOMAIN frames' => frames'[f].primary \in {NoContext} /\ frames'[f].secondary \in {NoContext}
      BY <3>2, <3>3
    <3>6. Agrees(f, Hold(h.mapped, {NoContext}, {NoContext}))'
      BY <1>6, <2>1, <3>4, <3>5, AgreesMapped
    <3> QED BY <1>7, <3>6
  <2> QED BY <2>2, <2>3
<1>9. \A f \in FrameIds : Agrees(f, Nothing)'
  BY <1>5, <1>8
<1>10. ~scripted'
  BY DEF browserVars, Barren
<1> QED BY <1>2, <1>9, <1>10 DEF Barren

\* With the answer to Runtime.enable each frame is told its contexts.
LEMMA RuntimeContexts ==
  ASSUME BrowserIInv, BrowserIInv', IInv, Nested(tree, root), MirrorIInv, OwnTree(tree), Barren,
         RuntimeEnabled, UNCHANGED acts, NEW f \in FrameIds
  PROVE  ContextsSettle(f)' /\ step' = 4 /\ tree' = tree
<1>1. Quiet /\ step = 3 /\ step' = 4 /\ tree' = tree /\ UNCHANGED <<main, frames, contexts>>
  <2>1. Quiet /\ step = 3 /\ step' = step + 1
    BY DEF RuntimeEnabled, Answers, Report, Each
  <2>2. tree' = tree /\ UNCHANGED managerVars
    BY DEF RuntimeEnabled, Each
  <2> QED BY <2>1, <2>2 DEF managerVars
<1>2. PICK s \in ParentsFirst(DOMAIN tree) :
        inbox' = FlattenSeq([i \in 1 .. Len(s) |-> CreatedEvents(s[i], tree[s[i]])])
  BY DEF RuntimeEnabled, Answers, Report, Each
<1>3. PICK a : a = TreeShape
  OBVIOUS
<1>4. a \in Shapes /\ DOMAIN a.parent = DOMAIN tree /\ ShapeNow' = a /\ TreeShape' = a
  <2>1. ShapeNow = TreeShape
    BY <1>1, QuietSettles DEF Settled
  <2>2. TreeShape' = TreeShape
    BY RuntimeEnabledStep, KeepsFollows
  <2> QED BY <1>1, <1>3, <2>1, <2>2, ShapeStays, TreeShapeFacts
<1>5. IsFiniteSet(DOMAIN tree) /\ \A x \in DOMAIN tree : /\ x \in FrameIds /\ tree[x] \in Documents
                                                        /\ Own(x, tree[x])
  BY DEF BrowserIInv, Tree, OwnTree
<1>6. PICK g : g = [x \in DOMAIN tree |-> CreatedEvents(x, tree[x])]
  OBVIOUS
<1>7. inbox' = FlattenSeq([i \in 1 .. Len(s) |-> g[s[i]]])
  <2>1. \A i \in 1 .. Len(s) : s[i] \in DOMAIN tree
    BY <1>5, OrderFacts
  <2>2. [i \in 1 .. Len(s) |-> g[s[i]]] = [i \in 1 .. Len(s) |-> CreatedEvents(s[i], tree[s[i]])]
    BY <1>6, <2>1
  <2> QED BY <1>2, <2>2
<1>8. \A x \in DOMAIN tree : x # f => g[x] \in Seq(Foreign(f) \cap Calm)
  BY <1>5, <1>6, OthersForeign
<1>9. Agrees(f, Nothing)' /\ Nothing \in Holds
  <2>1. Agrees(f, Nothing)
    BY DEF Barren
  <2> QED BY <1>1, <2>1, NothingFacts DEF Agrees
<1>10. \E w \in Holds : Lives(f, tree, w) /\ Leads(Holding(f), Sight(a, Nothing), inbox', Sight(a, w))
  <2>1. CASE f \in DOMAIN tree
    <3>1. PICK w : /\ Brings(f, tree[f], Nothing, w)
                   /\ Leads(Holding(f), Sight(a, Nothing), CreatedEvents(f, tree[f]), Sight(a, w))
      BY <1>4, <1>5, <2>1, NothingFacts, CreatedHolds
    <3>2. w \in Holds /\ Lives(f, tree, w)
      BY <2>1, <3>1, NothingFacts DEF Brings, Lives, Fits
    <3>3. g[f] \in Seq(Events) /\ Leads(Holding(f), Sight(a, Nothing), g[f], Sight(a, w))
      BY <1>5, <1>6, <2>1, <3>1, DocumentEvents, CalmTyped
    <3>4. Leads(Holding(f), Sight(a, Nothing), inbox', Sight(a, w))
      BY <1>4, <1>5, <1>7, <1>8, <1>9, <2>1, <3>2, <3>3, ListHolds
    <3> QED BY <3>2, <3>4
  <2>2. CASE f \notin DOMAIN tree
    <3>1. Lives(f, tree, Nothing)
      BY <2>2, NothingFacts DEF Lives
    <3>2. Leads(Holding(f), Sight(a, Nothing), inbox', Sight(a, Nothing))
      BY <1>4, <1>5, <1>7, <1>8, <1>9, <2>2, ListHolds
    <3> QED BY <1>9, <3>1, <3>2
  <2> QED BY <2>1, <2>2
<1>11. PICK w \in Holds :
         Lives(f, tree', w) /\ Leads(Holding(f), Sight(ShapeNow', Nothing), inbox', Sight(TreeShape', w))
  BY <1>1, <1>4, <1>10
<1>12. Lives(f, tree, w)'
  BY <1>11
<1> QED BY <1>1, <1>9, <1>11, <1>12 DEF ContextsSettle


LEMMA ContextsInit == ASSUME Init PROVE ContextsIInv
<1>1. frames = <<>> /\ inbox = <<>> /\ contexts = <<>> /\ step = 0 /\ scripted = FALSE
  BY DEF Init, ManagerInit
<1>2. OwnTree(tree)
  <2>1. PICK stage \in {"begun", "loaded"} :
          tree = [f \in {FirstMain} |->
                   [parent |-> NoFrame, stage |-> stage, reported |-> FALSE, told |-> {},
                    primary |-> <<FirstMain, "primary", 1>>, secondary |-> NoContext]]
    BY DEF Init
  <2>2. DOMAIN tree = {FirstMain}
    BY <2>1
  <2>3. tree[FirstMain].primary = <<FirstMain, "primary", 1>> /\ tree[FirstMain].secondary = NoContext
    BY <2>1
  <2> QED BY <2>2, <2>3 DEF OwnTree, Own
<1>3. ASSUME NEW f \in FrameIds PROVE Agrees(f, Nothing)
  <2>1. PICK h : h = Nothing
    OBVIOUS
  <2>2. h.mapped = {}
    BY <2>1, NothingFacts
  <2>3. DOMAIN contexts = {} /\ DOMAIN frames = {}
    BY <1>1
  <2>4. Agrees(f, h)
    BY <2>2, <2>3 DEF Agrees
  <2> QED BY <2>1, <2>4
<1>4. inbox \in Seq(Loud)
  BY <1>1
<1>5. Barren
  BY <1>1, <1>3, <1>4 DEF Barren
<1>6. ~(step >= 4)
  BY <1>1
<1> QED BY <1>2, <1>5, <1>6 DEF ContextsIInv

\* An act of the page.
LEMMA PageLives ==
  ASSUME IInv, BrowserIInv, BrowserIInv', Nested(tree, root), ContextsIInv, Page
  PROVE  ContextsIInv'
<1>1. /\ Room
      /\ \/ \E c \in ChildIds, p \in FrameIds : ChildAttached(c, p)
         \/ \E c \in ChildIds : ChildDetached(c) \/ ChildCommitted(c)
         \/ \E f \in FrameIds : StartedLoading(f) \/ NavigatedWithin(f) \/ DomReady(f) \/ Loaded(f)
         \/ \E new \in MainIds : MainCommitted(new)
  BY DEF Page
<1>2. UNCHANGED <<main, frames, contexts, scripted>> /\ step' = step /\ Quiet
  <2>1. UNCHANGED <<managerVars, worlds, step, scripted>> /\ Quiet
    BY <1>1 DEF ChildAttached, ChildDetached, ChildCommitted, StartedLoading, NavigatedWithin,
                DomReady, Loaded, Reaches, MainCommitted, Report
  <2> QED BY <2>1 DEF managerVars
<1>3. OwnTree(tree) /\ step \in 0 .. 5
  BY DEF ContextsIInv, BrowserIInv
<1>4. CASE step >= 4
  <2>1. OwnTree(tree') /\ \A f \in FrameIds : ContextsFollow(f)
    <3>1. CASE \E c \in ChildIds, p \in FrameIds : ChildAttached(c, p)
      BY <1>1, <1>3, <1>4, <3>1, AttachedContexts
    <3>2. CASE \E c \in ChildIds : ChildDetached(c)
      BY <1>3, <1>4, <3>2, DetachedContexts
    <3>3. CASE \E c \in ChildIds : ChildCommitted(c)
      BY <1>1, <1>3, <1>4, <3>3, CommittedContexts
    <3>4. CASE \E f \in FrameIds : StartedLoading(f) \/ NavigatedWithin(f) \/ DomReady(f) \/ Loaded(f)
      <4>1. PICK g \in FrameIds : StartedLoading(g) \/ NavigatedWithin(g) \/ DomReady(g) \/ Loaded(g)
        BY <3>4
      <4>2. \A f \in FrameIds : OwnTree(tree') /\ ContextsFollow(f)
        BY <1>3, <4>1, PlainContexts
      <4> QED BY <4>2 DEF BrowserIInv, FrameIds
    <3>5. CASE \E new \in MainIds : MainCommitted(new)
      BY <1>1, <1>3, <1>4, <3>5, MainContexts
    <3> QED BY <1>1, <3>1, <3>2, <3>3, <3>4, <3>5
  <2>2. ASSUME NEW f \in FrameIds PROVE ContextsSettle(f)'
    <3>1. ContextsSettle(f)
      BY <1>4 DEF ContextsIInv
    <3> QED BY <1>2, <2>1, <3>1, ActSettles
  <2>3. ~(step' <= 3)
    BY <1>2, <1>3, <1>4
  <2>4. OwnTree(tree)'
    BY <2>1
  <2> QED BY <2>2, <2>3, <2>4 DEF ContextsIInv
<1>5. CASE step <= 3
  <2>1. inbox' \in Seq(Loud) /\ OwnTree(tree')
    BY <1>3, <1>5, PageLoud
  <2>2. Barren
    BY <1>5 DEF ContextsIInv
  <2>3. Barren'
    BY <1>2, <2>1, <2>2 DEF Barren, Agrees
  <2>4. ~(step' >= 4)
    BY <1>2, <1>3, <1>5
  <2>5. OwnTree(tree)'
    BY <2>1
  <2> QED BY <2>3, <2>4, <2>5 DEF ContextsIInv
<1> QED BY <1>3, <1>4, <1>5

\* A step of the chain.
LEMMA ChainLives ==
  ASSUME IInv, BrowserIInv, BrowserIInv', MirrorIInv, ContextsIInv, Initialising, UNCHANGED acts
  PROVE  ContextsIInv'
<1>1. Nested(tree, root) /\ OwnTree(tree) /\ step \in 0 .. 5
  BY DEF MirrorIInv, ContextsIInv, BrowserIInv
<1>2. CASE PageEnabled \/ FrameTreeAnswered \/ LifecycleEnabled
  <2>1. step <= 2 /\ UNCHANGED <<frames, contexts, scripted>>
    <3>1. step \in {0, 1, 2} /\ UNCHANGED <<managerVars, scripted>>
      BY <1>2, Zenon DEF PageEnabled, FrameTreeAnswered, LifecycleEnabled
    <3> QED BY <3>1 DEF managerVars
  <2>2. inbox' \in Seq(Loud) /\ OwnTree(tree') /\ step' <= 3
    BY <1>1, <1>2, <2>1, ChainLoud
  <2>3. Barren
    BY <1>1, <2>1 DEF ContextsIInv
  <2>4. Barren'
    BY <2>1, <2>2, <2>3 DEF Barren, Agrees
  <2>5. ~(step' >= 4)
    BY <2>2 DEF BrowserIInv
  <2>6. OwnTree(tree)'
    BY <2>2
  <2> QED BY <2>4, <2>5, <2>6 DEF ContextsIInv
<1>3. CASE RuntimeEnabled
  <2>1. step = 3
    BY <1>3 DEF RuntimeEnabled
  <2>2. Barren
    BY <2>1 DEF ContextsIInv
  <2>3. \A f \in FrameIds : ContextsSettle(f)' /\ step' = 4 /\ tree' = tree
    BY <1>1, <1>3, <2>2, RuntimeContexts
  <2>4. step' = 4 /\ tree' = tree
    BY <2>3 DEF BrowserIInv, FrameIds
  <2>5. ~(step' <= 3) /\ OwnTree(tree)'
    BY <1>1, <2>4
  <2> QED BY <2>3, <2>5 DEF ContextsIInv
<1>4. CASE ChainBegins \/ ScriptAdded \/ \E g \in FrameIds : IsolatedWorldCreated(g)
  <2>1. UNCHANGED <<main, frames, contexts>> /\ Quiet /\ step' \in {step, step + 1}
    BY <1>4 DEF ChainBegins, ScriptAdded, IsolatedWorldCreated, EnsureIsolatedWorld, Answers, Report,
                managerVars
  <2>2. step >= 4
    <3>1. CASE ChainBegins \/ ScriptAdded
      BY <3>1 DEF ChainBegins, ScriptAdded
    <3>2. CASE \E g \in FrameIds : IsolatedWorldCreated(g)
      <4>1. ~Barren
        BY <3>2 DEF IsolatedWorldCreated, Barren
      <4> QED BY <1>1, <4>1 DEF ContextsIInv
    <3> QED BY <1>4, <3>1, <3>2
  <2>3. \A f \in FrameIds : OwnTree(tree') /\ ContextsFollow(f)
    BY <1>1, <1>4, ChainContexts
  <2>4. ASSUME NEW f \in FrameIds PROVE ContextsSettle(f)'
    <3>1. ContextsSettle(f) /\ ContextsFollow(f)
      BY <2>2, <2>3 DEF ContextsIInv
    <3> QED BY <2>1, <3>1, ActSettles
  <2>5. OwnTree(tree)'
    BY <2>3 DEF BrowserIInv, FrameIds
  <2>6. ~(step' <= 3)
    BY <1>1, <2>1, <2>2
  <2> QED BY <2>4, <2>5, <2>6 DEF ContextsIInv
<1> QED BY <1>2, <1>3, <1>4 DEF Initialising

LEMMA ContextsNext ==
  ASSUME IInv, IInv', BrowserIInv, BrowserIInv', MirrorIInv, ContextsIInv, [Next]_vars
  PROVE  ContextsIInv'
<1>1. CASE Page
  <2>1. Nested(tree, root)
    BY DEF MirrorIInv
  <2> QED BY <1>1, <2>1, PageLives
<1>2. CASE Manager /\ UNCHANGED <<browserVars, acts>>
  <2>1. tree' = tree /\ step' = step
    BY <1>2 DEF browserVars
  <2>2. OwnTree(tree)'
    BY <2>1 DEF ContextsIInv
  <2>3. step' <= 3 => Barren'
    BY <1>2, <2>1, BarrenRead DEF ContextsIInv
  <2>4. ASSUME NEW f \in FrameIds, step' >= 4 PROVE ContextsSettle(f)'
    <3>1. ContextsSettle(f)
      BY <2>1, <2>4 DEF ContextsIInv
    <3> QED BY <1>2, <3>1, ReadSettles
  <2> QED BY <2>2, <2>3, <2>4 DEF ContextsIInv
<1>3. CASE Initialising /\ UNCHANGED acts
  BY <1>3, ChainLives
<1>4. CASE UNCHANGED vars
  <2>1. UNCHANGED <<main, frames, contexts, inbox, root, tree, step, scripted>>
    BY <1>4 DEF vars, managerVars, browserVars
  <2>2. ShapeNow' = ShapeNow /\ TreeShape' = TreeShape
    BY <2>1 DEF ShapeNow, TreeShape
  <2>3. \A f, h : Agrees(f, h)' <=> Agrees(f, h)
    BY <2>1 DEF Agrees
  <2>4. Barren => Barren'
    BY <2>1, <2>3 DEF Barren
  <2>5. ASSUME NEW f, ContextsSettle(f) PROVE ContextsSettle(f)'
    <3>1. PICK h0 \in Holds, h \in Holds :
            /\ Agrees(f, h0) /\ Lives(f, tree, h)
            /\ Leads(Holding(f), Sight(ShapeNow, h0), inbox, Sight(TreeShape, h))
      BY <2>5 DEF ContextsSettle
    <3>2. Agrees(f, h0)'
      BY <2>3, <3>1
    <3>3. Lives(f, tree, h)'
      BY <2>1, <3>1
    <3>4. Leads(Holding(f), Sight(ShapeNow', h0), inbox', Sight(TreeShape', h))
      BY <2>1, <2>2, <3>1
    <3> QED BY <3>2, <3>3, <3>4 DEF ContextsSettle
  <2>6. OwnTree(tree)'
    BY <2>1 DEF ContextsIInv
  <2>7. step' = step
    BY <2>1
  <2>8. step' <= 3 => Barren'
    BY <2>4, <2>7 DEF ContextsIInv
  <2>9. step' >= 4 => \A f \in FrameIds : ContextsSettle(f)'
    BY <2>5, <2>7 DEF ContextsIInv
  <2> QED BY <2>6, <2>8, <2>9 DEF ContextsIInv
<1> QED BY <1>1, <1>2, <1>3, <1>4 DEF Next

LEMMA ContextsLive ==
  ASSUME BrowserIInv, MirrorIInv, ContextsIInv PROVE ContextsAreLive
<1> SUFFICES ASSUME Quiet, step >= 4, NEW f \in DOMAIN tree
             PROVE  /\ frames[f].primary = tree[f].primary
                    /\ frames[f].secondary # tree[f].secondary => f \in Late
  BY DEF ContextsAreLive, Late
<1>1. f \in FrameIds /\ ContextsSettle(f)
  BY DEF BrowserIInv, Tree, ContextsIInv
<1>2. PICK h \in Holds : Agrees(f, h) /\ Lives(f, tree, h)
  BY <1>1, QuietContexts
<1>3. f \in DOMAIN frames
  <2>1. step >= 2
    BY DEF BrowserIInv
  <2> QED BY <2>1, MirrorFollows DEF MirrorsBrowser
<1>4. frames[f].primary \in h.primary /\ frames[f].secondary \in h.secondary
  BY <1>2, <1>3 DEF Agrees
<1>5. h.primary = {tree[f].primary} /\ (f \notin Late => h.secondary = {tree[f].secondary})
  BY <1>2 DEF Lives, Fits
<1> QED BY <1>4, <1>5

\* Whenever the events are read, each frame of the handler has for its main world the context
\* of the document that the browser shows in it, and for its utility world the one that this
\* document has there, if it has one, whatever the page does: on_execution_context_created, on_execution_context_destroyed
\* and on_execution_contexts_cleared leave no context of a document that is gone or of another
\* frame (context_ids, DOMWorld::set_context, Frame::destroy_context).  Only the utility world
\* of a main frame that took another id may differ.
THEOREM ContextsFollowBrowser == Spec => []ContextsAreLive
<1>1. Init => MirrorIInv /\ ContextsIInv
  BY MirrorInit, ContextsInit
<1>2. /\ IInv /\ BrowserIInv /\ (IInv /\ BrowserIInv)' /\ MirrorIInv /\ ContextsIInv /\ [Next]_vars
      => MirrorIInv' /\ ContextsIInv'
  BY MirrorNext, ContextsNext
<1>3. IInv /\ BrowserIInv /\ MirrorIInv /\ ContextsIInv => ContextsAreLive
  BY ContextsLive
<1> QED BY <1>1, <1>2, <1>3, BrowserInductive, PTL DEF Spec

=============================================================================
