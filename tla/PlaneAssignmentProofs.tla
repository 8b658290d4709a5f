----------------------- MODULE PlaneAssignmentProofs -----------------------
(***************************************************************************)
(* What DisplayPlaneManager::ValidateLayers returns was passed by the      *)
(* kernel, every layer it scans out suits its plane, and each layer is     *)
(* shown once and in its order: for any planes, listed in any order, any   *)
(* number of layers and any answers to the test commits.  What is read     *)
(* through the dangling last_plane does not matter for any of this.        *)
(***************************************************************************)
EXTENDS PlaneAssignment, OrderLemmas

(* The indices of the layers, and the planes a composition may use.        *)
L == 0..(layers - 1)
Seen == {primary, cursorPlane} \cup {overlays[n] : n \in Nat}
States == [plane : Seen, layers : Seq(L), render : BOOLEAN, target : BOOLEAN]

Looping == pc \in {"overlay", "cursor"}

(* The frame, once there is one, and the indices of the loop.              *)
FrameInv ==
    pc \in {"primary", "overlay", "cursor", "final", "done"} =>
        /\ layers \in Nat \ {0} /\ cursors \subseteq L
        /\ demands \in [L -> Looks]
        /\ layers > 1 => cursors # {0}

LoopInv ==
    /\ index \in Nat
    /\ pc = "primary" => layerEnd = layers
    /\ pc = "overlay" =>
        /\ layerBegin \in Nat /\ layerEnd \in Nat
        /\ layerBegin <= layerEnd /\ layerEnd <= layers

(* Until the surfaces are handed out each plane is tested with the layer   *)
(* it was taken for, the first of those it stands for, and that layer      *)
(* suits it.                                                               *)
CompositionInv ==
    Looping \/ pc = "final" =>
        /\ composition \in Seq(States) /\ composition # <<>>
        /\ \A k \in DOMAIN composition :
             /\ composition[k].layers # <<>> /\ ~composition[k].target
             /\ ValidateLayer(composition[k].plane, Head(composition[k].layers))

TestedInv == Looping => Sources(composition) = commitPlanes /\ tested = commitPlanes

IInv == FrameInv /\ LoopInv /\ CompositionInv /\ TestedInv
            /\ ScannedOutWasTested /\ ScannedOutIsSupported

-----------------------------------------------------------------------------
LEMMA TopmostIsLayer ==
    ASSUME layers \in Nat \ {0}, cursors \subseteq L
    PROVE  /\ TopmostCursor \in 0..layers
           /\ cursors # {} => TopmostCursor \in L /\ TopmostCursor \in cursors
<1>1. ASSUME cursors # {} PROVE Max(cursors) \in cursors
  <2>1. layers - 1 \in Nat /\ cursors \subseteq 0..(layers - 1)
    BY DEF L
  <2> QED BY <1>1, <2>1, MaxOfNaturals
<1>2. cursors # {} => Max(cursors) \in L
  BY <1>1
<1>3. L \subseteq 0..layers
  BY DEF L
<1>4. layers \in 0..layers
  OBVIOUS
<1> QED BY <1>1, <1>2, <1>3, <1>4 DEF TopmostCursor

LEMMA FromIsLayers ==
    ASSUME layers \in Nat, NEW first \in Nat, NEW last \in Nat, first <= last, last <= layers
    PROVE  From(first, last) \in Seq(L)
<1>1. last - first \in Nat
  OBVIOUS
<1>2. From(first, last) \in [1..(last - first) -> L]
  BY DEF From, L
<1> QED BY <1>1, <1>2

(* One more plane that scans out a layer.                                  *)
LEMMA OneMorePlane ==
    ASSUME NEW comp \in Seq(States), NEW plane \in Seen, NEW l \in L
    PROVE  /\ Append(comp, ScanOut(plane, l)) \in Seq(States)
           /\ Append(comp, ScanOut(plane, l)) # <<>>
           /\ Sources(Append(comp, ScanOut(plane, l))) = Append(Sources(comp), <<plane, l>>)
           /\ \A k \in DOMAIN Append(comp, ScanOut(plane, l)) :
                Append(comp, ScanOut(plane, l))[k] =
                    IF k = Len(comp) + 1 THEN ScanOut(plane, l) ELSE comp[k]
<1>1. ScanOut(plane, l) \in States
  BY DEF ScanOut, States
<1>2. Source(ScanOut(plane, l)) = <<plane, l>>
  BY DEF Source, ScanOut
<1> DEFINE new == Append(comp, ScanOut(plane, l))
<1>3. new \in Seq(States) /\ new # <<>> /\ DOMAIN new = 1..(Len(comp) + 1) /\ DOMAIN comp = 1..Len(comp)
  BY <1>1
<1>4. \A k \in DOMAIN new : new[k] = IF k = Len(comp) + 1 THEN ScanOut(plane, l) ELSE comp[k]
  BY <1>1, <1>3
<1>5. Sources(new) = Append(Sources(comp), <<plane, l>>)
  <2>1. /\ Sources(comp) = [k \in 1..Len(comp) |-> Source(comp[k])]
        /\ Sources(new) = [k \in 1..(Len(comp) + 1) |-> Source(new[k])]
    BY <1>3 DEF Sources
  <2>2. Len(Sources(comp)) = Len(comp)
    BY <2>1
  <2>3. Append(Sources(comp), <<plane, l>>) =
            [k \in 1..(Len(comp) + 1) |-> IF k = Len(comp) + 1 THEN <<plane, l>> ELSE Source(comp[k])]
    BY <2>1, <2>2
  <2> QED BY <1>2, <1>3, <1>4, <2>1, <2>3
<1> QED BY <1>3, <1>4, <1>5

(* More layers for the last plane: it still stands for the first of them.  *)
LEMMA MoreLayers ==
    ASSUME NEW comp \in Seq(States), comp # <<>>, NEW more \in Seq(L),
           \A k \in DOMAIN comp : comp[k].layers # <<>>
    PROVE  /\ AddLayers(comp, more) \in Seq(States)
           /\ AddLayers(comp, more) # <<>>
           /\ DOMAIN AddLayers(comp, more) = DOMAIN comp
           /\ \A k \in DOMAIN comp :
                /\ AddLayers(comp, more)[k].plane = comp[k].plane
                /\ AddLayers(comp, more)[k].target = comp[k].target
                /\ AddLayers(comp, more)[k].layers # <<>>
                /\ Head(AddLayers(comp, more)[k].layers) = Head(comp[k].layers)
           /\ Sources(AddLayers(comp, more)) = Sources(comp)
<1>1. CASE more = <<>>
  BY <1>1 DEF AddLayers
<1>2. CASE more # <<>>
  <2> DEFINE n == Len(comp)
             last == [comp[n] EXCEPT !.layers = @ \o more, !.render = TRUE]
             new == AddLayers(comp, more)
  <2>1. n \in DOMAIN comp /\ comp[n] \in States
    OBVIOUS
  <2>2. /\ comp[n].layers \in Seq(L) /\ comp[n].layers # <<>>
        /\ comp[n].layers \o more \in Seq(L) /\ comp[n].layers \o more # <<>>
        /\ Head(comp[n].layers \o more) = Head(comp[n].layers)
    BY <2>1 DEF States
  <2>3. /\ last \in States /\ last.plane = comp[n].plane /\ last.target = comp[n].target
        /\ last.layers = comp[n].layers \o more
    BY <2>1, <2>2 DEF States
  <2>4. new = [comp EXCEPT ![n] = last]
    BY <1>2 DEF AddLayers
  <2>5. new \in Seq(States) /\ new # <<>> /\ DOMAIN new = DOMAIN comp
    BY <2>1, <2>3, <2>4
  <2>6. \A k \in DOMAIN comp : new[k] = IF k = n THEN last ELSE comp[k]
    BY <2>4
  <2>7. \A k \in DOMAIN comp : Source(new[k]) = Source(comp[k])
    BY <2>2, <2>3, <2>6 DEF Source
  <2>8. Sources(new) = Sources(comp)
    BY <2>5, <2>7 DEF Sources
  <2> QED BY <2>2, <2>3, <2>5, <2>6, <2>8
<1> QED BY <1>1, <1>2

-----------------------------------------------------------------------------
(* FALSE comes from FallbacktoGPU only for a layer that suits the plane.   *)
LEMMA AcceptedSuits ==
    ASSUME NEW plane, NEW l, FALSE \in FallbacktoGPU(plane, l)
    PROVE  ValidateLayer(plane, l)
BY DEF FallbacktoGPU

(* Such a layer is one the plane supports, as a layer demands nothing but  *)
(* its format and alpha.                                                   *)
LEMMA SuitsIsSupported ==
    ASSUME demands \in [L -> Looks], NEW plane, NEW l \in L, ValidateLayer(plane, l)
    PROVE  /\ demands[l] \ plane.offers \subseteq
                (IF plane.type = "overlay" THEN {} ELSE {"alpha"})
           /\ "rotation" \in plane.offers
<1>1. demands[l] \subseteq {"alpha", "format"}
  BY LooksAssumption
<1> QED BY <1>1 DEF ValidateLayer

(* What ScannedOutIsSupported says of a composition.                       *)
Supported(comp) ==
    \A k \in DOMAIN comp :
        Source(comp[k])[2] # Surface =>
            /\ demands[Source(comp[k])[2]] \ comp[k].plane.offers \subseteq
                    (IF comp[k].plane.type = "overlay" THEN {} ELSE {"alpha"})
            /\ "rotation" \in comp[k].plane.offers

(* A composition whose planes each suit the layer they show, or show their *)
(* surface, is supported.                                                  *)
LEMMA SuitableIsSupported ==
    ASSUME demands \in [L -> Looks], NEW comp \in Seq(States),
           \A k \in DOMAIN comp :
             comp[k].target \/
               /\ comp[k].layers # <<>>
               /\ ValidateLayer(comp[k].plane, Head(comp[k].layers))
    PROVE  Supported(comp)
<1> SUFFICES ASSUME NEW k \in DOMAIN comp, Source(comp[k])[2] # Surface
             PROVE  /\ demands[Source(comp[k])[2]] \ comp[k].plane.offers \subseteq
                         (IF comp[k].plane.type = "overlay" THEN {} ELSE {"alpha"})
                    /\ "rotation" \in comp[k].plane.offers
  BY DEF Supported
<1>1. ~comp[k].target /\ Source(comp[k])[2] = Head(comp[k].layers)
  BY DEF Source
<1>2. comp[k] \in States
  OBVIOUS
<1>3. comp[k].layers \in Seq(L)
  BY <1>2 DEF States
<1>4. Head(comp[k].layers) \in L
  BY <1>1, <1>3
<1> QED BY <1>1, <1>4, SuitsIsSupported

LEMMA OnPrimaryIsSupported == Supported(AllOnPrimary)
<1>1. DOMAIN AllOnPrimary = {1} /\ AllOnPrimary[1].target
  BY DEF AllOnPrimary
<1> QED BY <1>1 DEF Supported, Source

-----------------------------------------------------------------------------
LEMMA InitIInv == Init => IInv
BY DEF Init, IInv, FrameInv, LoopInv, CompositionInv, TestedInv, Looping,
       ScannedOutWasTested, ScannedOutIsSupported

LEMMA InitializeKeeps ==
    ASSUME IInv, Initialize \/ InitializeFails
    PROVE  IInv'
<1>1. pc' \in {"begin", "failed"} /\ index' = index
  BY DEF Initialize, InitializeFails, assignment
<1> QED BY <1>1 DEF IInv, FrameInv, LoopInv, CompositionInv, TestedInv, Looping,
                    ScannedOutWasTested, ScannedOutIsSupported

LEMMA BeginFrameKeeps ==
    ASSUME IInv, BeginFrame
    PROVE  IInv'
<1>1. pc' = "primary" /\ index' = index /\ layerEnd' = layers'
  BY DEF BeginFrame
<1>2. layers' \in Nat \ {0} /\ L' = 0..(layers' - 1)
  BY BoundAssumption DEF BeginFrame, L
<1>3. cursors' \subseteq L' /\ demands' \in [L' -> Looks] /\ (layers' > 1 => cursors' # {0})
  BY <1>2 DEF BeginFrame
<1> QED BY <1>1, <1>2, <1>3 DEF IInv, FrameInv, LoopInv, CompositionInv, TestedInv, Looping,
                                ScannedOutWasTested, ScannedOutIsSupported

LEMMA FrameStays ==
    ASSUME UNCHANGED inputs
    PROVE  /\ L' = L /\ Seen' = Seen /\ States' = States
           /\ UNCHANGED <<layers, demands, cursors, modeset, primary, overlays, cursorPlane>>
BY DEF inputs, planes, frame, L, Seen, States

(* What ends the choice has to be right.                                   *)
LEMMA Ends ==
    ASSUME IInv, UNCHANGED <<inputs, index>>, pc \in {"primary", "overlay", "cursor", "final"},
           pc' = "done", composition' = AllOnPrimary \/ Sources(composition') = tested',
           Supported(composition')
    PROVE  IInv'
<1>1. ScannedOutWasTested' /\ ScannedOutIsSupported'
  BY FrameStays DEF ScannedOutWasTested, ScannedOutIsSupported, Supported, Source, Sources,
                    AllOnPrimary, From
<1>2. FrameInv'
  BY FrameStays DEF IInv, FrameInv
<1> QED BY <1>1, <1>2 DEF IInv, LoopInv, CompositionInv, TestedInv, Looping

(* What goes on has to keep the invariant of the loop.                     *)
LEMMA GoesOn ==
    ASSUME IInv, UNCHANGED inputs, pc \in {"primary", "overlay", "cursor"},
           pc' \in {"overlay", "cursor", "final"},
           LoopInv', composition' \in Seq(States), composition' # <<>>,
           \A k \in DOMAIN composition' :
             /\ composition'[k].layers # <<>> /\ ~composition'[k].target
             /\ ValidateLayer(composition'[k].plane, Head(composition'[k].layers)),
           pc' # "final" => Sources(composition') = commitPlanes' /\ tested' = commitPlanes'
    PROVE  IInv'
<1>1. FrameInv'
  BY FrameStays DEF IInv, FrameInv
<1>2. CompositionInv'
  BY FrameStays DEF CompositionInv, ValidateLayer
<1>3. TestedInv'
  BY DEF TestedInv, Looping, Sources, Source
<1> QED BY <1>1, <1>2, <1>3 DEF IInv, ScannedOutWasTested, ScannedOutIsSupported

LEMMA ComposeAllKeeps ==
    ASSUME IInv, ComposeAll
    PROVE  IInv'
BY Ends, OnPrimaryIsSupported DEF ComposeAll

LEMMA ScanOutPrimaryKeeps ==
    ASSUME IInv, ScanOutPrimary
    PROVE  IInv'
<1>1. layers \in Nat \ {0} /\ cursors \subseteq L /\ demands \in [L -> Looks] /\ 0 \in L
  BY DEF IInv, FrameInv, ScanOutPrimary, L
<1>2. primary \in Seen /\ ValidateLayer(primary, 0)
  BY AcceptedSuits DEF ScanOutPrimary, Seen
<1> DEFINE comp == <<ScanOut(primary, 0)>>
<1>3. /\ comp \in Seq(States) /\ comp # <<>> /\ DOMAIN comp = {1}
      /\ comp[1].layers = <<0>> /\ ~comp[1].target /\ comp[1].plane = primary
      /\ Sources(comp) = <<<<primary, 0>>>>
  BY <1>1, <1>2 DEF ScanOut, States, Sources, Source
<1>4. /\ composition' = comp /\ commitPlanes' = <<<<primary, 0>>>> /\ tested' = commitPlanes'
      /\ layerBegin' = 1 /\ UNCHANGED <<inputs, index>>
  BY DEF ScanOutPrimary, TestCommit
<1>5. ValidateLayer(comp[1].plane, Head(comp[1].layers))
  BY <1>2, <1>3
<1>6. CASE layers = 1
  <2>1. pc' = "done"
    BY <1>6 DEF ScanOutPrimary
  <2>2. Supported(comp)
    BY <1>1, <1>3, <1>5, SuitableIsSupported
  <2> QED BY <1>3, <1>4, <2>1, <2>2, Ends DEF ScanOutPrimary
<1>7. CASE layers # 1
  <2>1. /\ layerEnd' = TopmostCursor
        /\ pc' = IF TopmostCursor = 1 THEN "cursor" ELSE "overlay"
    BY <1>7 DEF ScanOutPrimary
  <2>2. TopmostCursor \in 0..layers /\ TopmostCursor # 0
    <3>1. cursors # {0}
      BY <1>1, <1>7 DEF IInv, FrameInv, ScanOutPrimary
    <3>2. CASE cursors = {}
      BY <1>1, <3>2 DEF TopmostCursor
    <3>3. CASE cursors # {}
      <4>1. PICK c \in cursors : c # 0
        BY <3>1, <3>3
      <4>2. TopmostCursor \in 0..layers
        BY <1>1, TopmostIsLayer
      <4>3. TopmostCursor >= c
        <5>1. layers - 1 \in Nat /\ cursors \subseteq 0..(layers - 1)
          BY <1>1 DEF L
        <5> QED BY <3>3, <5>1, MaxOfNaturals DEF TopmostCursor
      <4> QED BY <1>1, <4>1, <4>2, <4>3 DEF L
    <3> QED BY <1>1, <3>2, <3>3, TopmostIsLayer
  <2>3. LoopInv'
    BY <1>1, <1>4, <2>1, <2>2, FrameStays DEF IInv, LoopInv
  <2> QED BY <1>3, <1>4, <1>5, <2>1, <2>3, GoesOn DEF ScanOutPrimary
<1> QED BY <1>6, <1>7

LEMMA UseOverlayKeeps ==
    ASSUME IInv, UseOverlay
    PROVE  IInv'
<1>1. /\ layerBegin \in Nat /\ layerBegin \in L /\ index \in Nat /\ layers \in Nat
      /\ layerEnd \in Nat /\ layerBegin < layerEnd /\ layerEnd <= layers
  BY DEF IInv, FrameInv, LoopInv, UseOverlay, L
<1>2. overlays[index] \in Seen /\ ValidateLayer(overlays[index], layerBegin)
  BY <1>1, AcceptedSuits DEF UseOverlay, Seen
<1>3. /\ composition' = Append(composition, ScanOut(overlays[index], layerBegin))
      /\ commitPlanes' = Append(commitPlanes, <<overlays[index], layerBegin>>)
      /\ tested' = commitPlanes' /\ UNCHANGED <<inputs, pc, layerEnd>>
      /\ layerBegin' = layerBegin + 1 /\ index' = index + 1 /\ pc = "overlay"
  BY DEF UseOverlay, TestCommit
<1>4. /\ composition \in Seq(States) /\ Sources(composition) = commitPlanes
      /\ \A k \in DOMAIN composition :
           /\ composition[k].layers # <<>> /\ ~composition[k].target
           /\ ValidateLayer(composition[k].plane, Head(composition[k].layers))
  BY <1>3 DEF IInv, CompositionInv, TestedInv, Looping
<1>5. /\ composition' \in Seq(States) /\ composition' # <<>>
      /\ Sources(composition') = commitPlanes'
      /\ \A k \in DOMAIN composition' : composition'[k] =
            IF k = Len(composition) + 1 THEN ScanOut(overlays[index], layerBegin) ELSE composition[k]
  BY <1>1, <1>2, <1>3, <1>4, OneMorePlane
<1>6. DOMAIN composition' = 1..(Len(composition) + 1) /\ DOMAIN composition = 1..Len(composition)
  BY <1>3, <1>4
<1>7. \A k \in DOMAIN composition' :
         /\ composition'[k].layers # <<>> /\ ~composition'[k].target
         /\ ValidateLayer(composition'[k].plane, Head(composition'[k].layers))
  BY <1>2, <1>4, <1>5, <1>6 DEF ScanOut
<1>8. LoopInv'
  BY <1>1, <1>3, FrameStays DEF LoopInv
<1> QED BY <1>3, <1>5, <1>7, <1>8, GoesOn

(* More layers for the last plane leave every plane with its layer.        *)
LEMMA MoreLayersKeep ==
    ASSUME IInv, UNCHANGED inputs, Looping,
           pc' \in {"overlay", "cursor", "final"}, NEW more \in Seq(L),
           composition' = AddLayers(composition, more), LoopInv',
           pc' # "final" => UNCHANGED <<commitPlanes, tested>>
    PROVE  IInv'
<1>1. /\ composition \in Seq(States) /\ composition # <<>> /\ Sources(composition) = commitPlanes
      /\ \A k \in DOMAIN composition :
           /\ composition[k].layers # <<>> /\ ~composition[k].target
           /\ ValidateLayer(composition[k].plane, Head(composition[k].layers))
      /\ tested = commitPlanes
  BY DEF IInv, CompositionInv, TestedInv
<1>2. /\ composition' \in Seq(States) /\ composition' # <<>>
      /\ DOMAIN composition' = DOMAIN composition
      /\ Sources(composition') = Sources(composition)
      /\ \A k \in DOMAIN composition :
           /\ composition'[k].plane = composition[k].plane
           /\ composition'[k].target = composition[k].target
           /\ composition'[k].layers # <<>>
           /\ Head(composition'[k].layers) = Head(composition[k].layers)
  BY <1>1, MoreLayers
<1>3. \A k \in DOMAIN composition' :
         /\ composition'[k].layers # <<>> /\ ~composition'[k].target
         /\ ValidateLayer(composition'[k].plane, Head(composition'[k].layers))
  BY <1>1, <1>2
<1>4. pc \in {"primary", "overlay", "cursor"}
  BY DEF Looping
<1> QED BY <1>1, <1>2, <1>3, <1>4, GoesOn

LEMMA RefuseOverlayKeeps ==
    ASSUME IInv, RefuseOverlay
    PROVE  IInv'
<1>1. /\ layerBegin \in Nat /\ layerBegin \in L /\ index \in Nat /\ layers \in Nat
      /\ layerEnd \in Nat /\ layerBegin < layerEnd /\ layerEnd <= layers
  BY DEF IInv, FrameInv, LoopInv, RefuseOverlay, L
<1>2. /\ pc = "overlay" /\ layerBegin' = layerBegin + 1
      /\ composition' = AddLayers(composition, <<layerBegin>>)
      /\ UNCHANGED <<inputs, pc, layerEnd, index, commitPlanes, tested>>
  BY DEF RefuseOverlay, PopRefused
<1>3. LoopInv'
  BY <1>1, <1>2, FrameStays DEF LoopInv
<1>4. <<layerBegin>> \in Seq(L)
  BY <1>1
<1> QED BY <1>2, <1>3, <1>4, MoreLayersKeep DEF Looping

LEMMA ComposeRemainingKeeps ==
    ASSUME IInv, ComposeRemaining
    PROVE  IInv'
<1>1. /\ pc = "overlay" /\ pc' = "cursor" /\ composition' = AddLayers(composition, Remaining)
      /\ UNCHANGED <<inputs, layerBegin, layerEnd, index, commitPlanes, tested>>
  BY DEF ComposeRemaining
<1>2. Remaining \in Seq(L)
  BY <1>1, FromIsLayers DEF IInv, FrameInv, LoopInv, Remaining
<1>3. LoopInv'
  BY <1>1 DEF IInv, LoopInv
<1> QED BY <1>1, <1>2, <1>3, MoreLayersKeep DEF Looping

(* What the loop leaves is right if nothing is left to render.             *)
LEMMA LoopEnds ==
    ASSUME IInv, pc = "cursor"
    PROVE  Sources(composition) = tested /\ Supported(composition)
<1>1. /\ composition \in Seq(States) /\ demands \in [L -> Looks]
      /\ \A k \in DOMAIN composition :
           /\ composition[k].layers # <<>>
           /\ ValidateLayer(composition[k].plane, Head(composition[k].layers))
  BY DEF IInv, CompositionInv, FrameInv, Looping
<1>2. Sources(composition) = tested
  BY DEF IInv, TestedInv, Looping
<1> QED BY <1>1, <1>2, SuitableIsSupported

LEMMA NoCursorKeeps ==
    ASSUME IInv, NoCursor
    PROVE  IInv'
<1>1. /\ pc = "cursor" /\ pc' \in {"final", "done"}
      /\ UNCHANGED <<inputs, layerBegin, layerEnd, index, composition, commitPlanes, tested>>
  BY DEF NoCursor, AfterCursor
<1>2. CASE pc' = "done"
  BY <1>1, <1>2, LoopEnds, Ends
<1>3. CASE pc' = "final"
  <2>1. LoopInv'
    BY <1>1, <1>3 DEF IInv, LoopInv
  <2>2. composition' \in Seq(States) /\ composition' # <<>>
    BY <1>1 DEF IInv, CompositionInv, Looping
  <2>3. \A k \in DOMAIN composition' :
           /\ composition'[k].layers # <<>> /\ ~composition'[k].target
           /\ ValidateLayer(composition'[k].plane, Head(composition'[k].layers))
    BY <1>1 DEF IInv, CompositionInv, Looping
  <2> QED BY <1>1, <1>3, <2>1, <2>2, <2>3, GoesOn
<1> QED BY <1>1, <1>2, <1>3

LEMMA UseCursorPlaneKeeps ==
    ASSUME IInv, UseCursorPlane
    PROVE  IInv'
<1> DEFINE l == TopmostCursor
<1>1. /\ pc = "cursor" /\ pc' \in {"final", "done"}
      /\ composition' = Append(composition, ScanOut(cursorPlane, l))
      /\ commitPlanes' = Append(commitPlanes, <<cursorPlane, l>>)
      /\ tested' = commitPlanes' /\ UNCHANGED <<inputs, layerBegin, layerEnd, index>>
  BY DEF UseCursorPlane, AfterCursor, TestCommit
<1>2. cursorPlane \in Seen /\ l \in L /\ ValidateLayer(cursorPlane, l)
  <2>1. layers \in Nat \ {0} /\ cursors \subseteq L /\ cursors # {}
    BY <1>1 DEF IInv, FrameInv, UseCursorPlane
  <2> QED BY <2>1, TopmostIsLayer, AcceptedSuits DEF UseCursorPlane, Seen
<1>3. /\ composition \in Seq(States) /\ Sources(composition) = commitPlanes
      /\ \A k \in DOMAIN composition :
           /\ composition[k].layers # <<>> /\ ~composition[k].target
           /\ ValidateLayer(composition[k].plane, Head(composition[k].layers))
  BY <1>1 DEF IInv, CompositionInv, TestedInv, Looping
<1> HIDE DEF l
<1>4. /\ composition' \in Seq(States) /\ composition' # <<>>
      /\ Sources(composition') = commitPlanes'
      /\ \A k \in DOMAIN composition' : composition'[k] =
            IF k = Len(composition) + 1 THEN ScanOut(cursorPlane, l) ELSE composition[k]
  BY <1>1, <1>2, <1>3, OneMorePlane
<1>5. DOMAIN composition' = 1..(Len(composition) + 1) /\ DOMAIN composition = 1..Len(composition)
  BY <1>1, <1>3
<1>6. \A k \in DOMAIN composition' :
         /\ composition'[k].layers # <<>> /\ ~composition'[k].target
         /\ ValidateLayer(composition'[k].plane, Head(composition'[k].layers))
  BY <1>2, <1>3, <1>4, <1>5 DEF ScanOut
<1>7. CASE pc' = "done"
  <2>1. demands \in [L -> Looks]
    BY <1>1 DEF IInv, FrameInv
  <2>2. Supported(composition')
    BY <1>4, <1>6, <2>1, SuitableIsSupported
  <2> QED BY <1>1, <1>4, <1>7, <2>2, Ends
<1>8. CASE pc' = "final"
  <2>1. LoopInv'
    BY <1>1, <1>8 DEF IInv, LoopInv
  <2> QED BY <1>1, <1>4, <1>6, <1>8, <2>1, GoesOn
<1> QED BY <1>1, <1>7, <1>8

LEMMA ComposeCursorKeeps ==
    ASSUME IInv, ComposeCursor
    PROVE  IInv'
<1>1. /\ pc = "cursor" /\ pc' = "final" /\ cursors # {}
      /\ composition' = AddLayers(composition, <<TopmostCursor>>)
      /\ UNCHANGED <<inputs, layerBegin, layerEnd, index>>
  BY DEF ComposeCursor
<1>2. layers \in Nat \ {0} /\ cursors \subseteq L
  BY <1>1 DEF IInv, FrameInv
<1>3. TopmostCursor \in L
  BY <1>1, <1>2, TopmostIsLayer
<1>4. <<TopmostCursor>> \in Seq(L)
  BY <1>3
<1>5. LoopInv'
  BY <1>1 DEF IInv, LoopInv
<1> QED BY <1>1, <1>4, <1>5, MoreLayersKeep DEF Looping

LEMMA ValidateFinalLayersKeeps ==
    ASSUME IInv, ValidateFinalLayers
    PROVE  IInv'
<1>1. /\ pc = "final" /\ pc' = "done" /\ UNCHANGED <<inputs, index>>
      /\ \/ composition' = Targeted /\ tested' = Sources(Targeted)
         \/ composition' = AllOnPrimary
  BY DEF ValidateFinalLayers
<1>2. CASE composition' = AllOnPrimary
  BY <1>1, <1>2, Ends, OnPrimaryIsSupported
<1>3. CASE composition' = Targeted /\ tested' = Sources(Targeted)
  <2>1. /\ composition \in Seq(States) /\ demands \in [L -> Looks]
        /\ \A k \in DOMAIN composition :
             /\ composition[k].layers # <<>>
             /\ ValidateLayer(composition[k].plane, Head(composition[k].layers))
    BY <1>1 DEF IInv, CompositionInv, FrameInv, Looping
  <2>2. ASSUME NEW k \in DOMAIN composition
        PROVE  LET new == [composition[k] EXCEPT !.target = composition[k].render]
               IN  new \in States /\ new.layers = composition[k].layers /\ new.plane = composition[k].plane
    <3>1. composition[k] \in States
      BY <2>1
    <3> QED BY <3>1 DEF States
  <2>3. DOMAIN Targeted = 1..Len(composition) /\ Len(composition) \in Nat
    BY <2>1 DEF Targeted
  <2>4. \A k \in DOMAIN composition :
           Targeted[k] = [composition[k] EXCEPT !.target = composition[k].render]
    BY DEF Targeted
  <2>5. Targeted \in Seq(States)
    BY <2>1, <2>2, <2>3, <2>4 DEF Targeted
  <2>6. \A k \in DOMAIN Targeted :
           /\ Targeted[k].layers # <<>>
           /\ ValidateLayer(Targeted[k].plane, Head(Targeted[k].layers))
    <3> SUFFICES ASSUME NEW k \in DOMAIN Targeted
                 PROVE  /\ Targeted[k].layers # <<>>
                        /\ ValidateLayer(Targeted[k].plane, Head(Targeted[k].layers))
      OBVIOUS
    <3>1. k \in DOMAIN composition
      BY <2>1, <2>3
    <3>2. Targeted[k].layers = composition[k].layers /\ Targeted[k].plane = composition[k].plane
      BY <2>2, <2>4, <3>1
    <3> QED BY <2>1, <3>1, <3>2
  <2>7. Supported(Targeted)
    BY <2>1, <2>5, <2>6, SuitableIsSupported
  <2> QED BY <1>1, <1>3, <2>7, Ends
<1> QED BY <1>1, <1>2, <1>3

LEMMA Inductive == Spec => []IInv
<1>1. ASSUME IInv, [Next]_vars PROVE IInv'
  <2>1. CASE UNCHANGED vars
    <3>1. UNCHANGED inputs /\ UNCHANGED <<pc, layerBegin, layerEnd, index>>
          /\ UNCHANGED <<composition, commitPlanes, tested>>
      BY <2>1 DEF vars, assignment
    <3>2. FrameInv' /\ LoopInv'
      BY <1>1, <3>1, FrameStays DEF IInv, FrameInv, LoopInv
    <3>3. CompositionInv' /\ TestedInv'
      BY <1>1, <3>1, FrameStays
         DEF IInv, CompositionInv, TestedInv, Looping, ValidateLayer, Sources, Source
    <3>4. ScannedOutWasTested'
      BY <1>1, <3>1, FrameStays
         DEF IInv, ScannedOutWasTested, AllOnPrimary, From, Sources, Source
    <3>5. ScannedOutIsSupported'
      BY <1>1, <3>1, FrameStays DEF IInv, ScannedOutIsSupported, Source
    <3> QED BY <3>2, <3>3, <3>4, <3>5 DEF IInv
  <2> QED BY <1>1, <2>1, InitializeKeeps, BeginFrameKeeps, ComposeAllKeeps, ScanOutPrimaryKeeps,
             UseOverlayKeeps, RefuseOverlayKeeps, ComposeRemainingKeeps, NoCursorKeeps,
             UseCursorPlaneKeeps, ComposeCursorKeeps, ValidateFinalLayersKeeps DEF Next
<1> QED BY <1>1, InitIInv, PTL DEF Spec

(* What ValidateLayers returns is what the kernel passed in the last test  *)
(* commit, or everything on the primary plane.                             *)
THEOREM ReturnsWhatWasTested == Spec => []ScannedOutWasTested
<1>1. IInv => ScannedOutWasTested
  BY DEF IInv
<1> QED BY <1>1, Inductive, PTL

(* A layer that is scanned out has a plane that supports it: the checks of *)
(* DisplayPlane::ValidateLayer survive every move from plane to plane.     *)
THEOREM ReturnsWhatIsSupported == Spec => []ScannedOutIsSupported
<1>1. IInv => ScannedOutIsSupported
  BY DEF IInv
<1> QED BY <1>1, Inductive, PTL

-----------------------------------------------------------------------------
(* The order of the layers, and the planes they are on.                    *)

(* The planes are where Initialize put them.                               *)
PlanesInv ==
    /\ pc = "initialize" => drmPlanes \in PlaneLists
    /\ pc \notin {"initialize", "failed"} => primary # NoPlane
    /\ \A i, j \in DOMAIN overlays : i < j => overlays[i].id < overlays[j].id

(* The planes of a composition hold consecutive runs of the layers below n. *)
RunsUpTo(comp, n) ==
    /\ comp # <<>>
    /\ \A i \in DOMAIN comp :
         /\ comp[i].layers # <<>> /\ comp[i].layers = Run(comp[i])
         /\ Head(comp[i].layers) = IF i = 1 THEN 0 ELSE Last(comp[i - 1].layers) + 1
    /\ Last(Last(comp).layers) + 1 = n

Complete(comp) ==
    \/ RunsUpTo(comp, layers)
    \/ TopmostCursor \in cursors /\ RunsUpTo(comp, TopmostCursor + 1)

Stacked(comp) == \A i, j \in DOMAIN comp : i < j => Under(comp[i].plane, comp[j].plane)
CursorsScanOut(comp) == \A i \in DOMAIN comp : comp[i].plane.type = "cursor" => ~comp[i].render

(* How far the loop has come, in layers and in planes.                     *)
StackInv ==
    /\ pc = "initialize" => layers = 0
    /\ pc \in {"initialize", "begin", "primary"} =>
         /\ composition = <<>> /\ commitPlanes = <<>> /\ tested = <<>>
         /\ layerBegin = 0 /\ index = 1
    /\ pc \in {"overlay", "cursor", "final"} =>
         ~modeset /\ Stacked(composition) /\ CursorsScanOut(composition)
    /\ pc = "overlay" =>
         /\ RunsUpTo(composition, layerBegin)
         /\ \A i \in DOMAIN composition :
              \/ composition[i].plane = primary
              \/ \E m \in 1..(index - 1) : composition[i].plane = overlays[m]
    /\ pc \in {"overlay", "cursor"} => layerEnd = TopmostCursor
    /\ pc = "cursor" =>
         /\ RunsUpTo(composition, layerEnd)
         /\ \A i \in DOMAIN composition : composition[i].plane.type # "cursor"
    /\ pc = "final" => Complete(composition)

OrderInv == TypeOK /\ PlanesInv /\ StackInv /\ LayersInOrder /\ FitsPipeline

-----------------------------------------------------------------------------
(* Consecutive layers.                                                     *)
LEMMA FromFacts ==
    ASSUME NEW a \in Nat, NEW b \in Nat, a <= b
    PROVE  /\ From(a, b) \in Seq(Nat) /\ Len(From(a, b)) = b - a
           /\ \A i \in 1..(b - a) : From(a, b)[i] = a + i - 1
           /\ a = b => From(a, b) = <<>>
           /\ a < b => From(a, b) # <<>> /\ Head(From(a, b)) = a /\ Last(From(a, b)) = b - 1
<1>1. b - a \in Nat
  OBVIOUS
<1>2. From(a, b) = [i \in 1..(b - a) |-> a + i - 1]
  BY DEF From
<1>3. From(a, b) \in [1..(b - a) -> Nat]
  BY <1>1, <1>2
<1>4. From(a, b) \in Seq(Nat) /\ Len(From(a, b)) = b - a
  BY <1>1, <1>3
<1>5. \A i \in 1..(b - a) : From(a, b)[i] = a + i - 1
  BY <1>2
<1>6. a = b => From(a, b) = <<>>
  BY <1>4
<1>7. ASSUME a < b
      PROVE  From(a, b) # <<>> /\ Head(From(a, b)) = a /\ Last(From(a, b)) = b - 1
  <2>1. From(a, b) # <<>> /\ 1 \in 1..(b - a) /\ b - a \in 1..(b - a)
    BY <1>1, <1>4, <1>7
  <2>2. Head(From(a, b)) = From(a, b)[1]
    BY <1>4, <2>1
  <2> QED BY <1>4, <1>5, <2>1, <2>2 DEF Last
<1> QED BY <1>4, <1>5, <1>6, <1>7

LEMMA FromJoins ==
    ASSUME NEW a \in Nat, NEW b \in Nat, NEW c \in Nat, a <= b, b <= c
    PROVE  From(a, b) \o From(b, c) = From(a, c)
<1> DEFINE s == From(a, b)
           t == From(b, c)
           u == From(a, c)
<1>1. /\ s \in Seq(Nat) /\ t \in Seq(Nat) /\ u \in Seq(Nat)
      /\ Len(s) = b - a /\ Len(t) = c - b /\ Len(u) = c - a
      /\ \A i \in 1..(b - a) : s[i] = a + i - 1
      /\ \A i \in 1..(c - b) : t[i] = b + i - 1
      /\ \A i \in 1..(c - a) : u[i] = a + i - 1
  <2>1. a <= c
    OBVIOUS
  <2>2. s \in Seq(Nat) /\ Len(s) = b - a /\ \A i \in 1..(b - a) : s[i] = a + i - 1
    BY FromFacts, Zenon
  <2>3. t \in Seq(Nat) /\ Len(t) = c - b /\ \A i \in 1..(c - b) : t[i] = b + i - 1
    BY FromFacts, Zenon
  <2>4. u \in Seq(Nat) /\ Len(u) = c - a /\ \A i \in 1..(c - a) : u[i] = a + i - 1
    BY <2>1, FromFacts, Zenon
  <2> QED BY <2>2, <2>3, <2>4
<1> HIDE DEF s, t, u
<1>2. s \o t \in Seq(Nat) /\ Len(s \o t) = c - a
  BY <1>1
<1>3. ASSUME NEW i \in 1..(c - a)
      PROVE  (s \o t)[i] = u[i]
  <2>1. CASE i <= b - a
    <3>1. (s \o t)[i] = s[i] /\ i \in 1..(b - a)
      BY <1>1, <2>1
    <3> QED BY <1>1, <3>1
  <2>2. CASE i > b - a
    <3>1. (s \o t)[i] = t[i - Len(s)] /\ i - (b - a) \in 1..(c - b)
      BY <1>1, <2>2, SMTT(30)
    <3>2. t[i - (b - a)] = b + (i - (b - a)) - 1
      BY <1>1, <3>1
    <3>3. b + (i - (b - a)) - 1 = a + i - 1
      OBVIOUS
    <3>4. i - Len(s) = i - (b - a) /\ u[i] = a + i - 1
      BY <1>1
    <3> QED BY <3>1, <3>2, <3>3, <3>4
  <2>3. i <= b - a \/ i > b - a
    OBVIOUS
  <2> QED BY <2>1, <2>2, <2>3, Zenon
<1>4. s \o t = u
  <2> DEFINE v == s \o t
  <2>1. v \in Seq(Nat) /\ Len(v) = Len(u) /\ \A i \in 1..Len(u) : v[i] = u[i]
    BY <1>1, <1>2, <1>3
  <2> HIDE DEF v
  <2>2. v = u
    BY <1>1, <2>1
  <2> QED BY <2>2 DEF v
<1> QED BY <1>4 DEF s, t, u

LEMMA OneLayer ==
    ASSUME NEW l \in Nat
    PROVE  <<l>> = From(l, l + 1)
<1>1. /\ From(l, l + 1) \in Seq(Nat) /\ Len(From(l, l + 1)) = 1
      /\ From(l, l + 1)[1] = l
  <2>1. l + 1 \in Nat /\ l <= l + 1 /\ (l + 1) - l = 1 /\ 1 \in 1..1 /\ l + 1 - 1 = l
    OBVIOUS
  <2>2. From(l, l + 1) \in Seq(Nat) /\ Len(From(l, l + 1)) = (l + 1) - l
    BY <2>1, FromFacts
  <2>3. \A i \in 1..((l + 1) - l) : From(l, l + 1)[i] = l + i - 1
    BY <2>1, FromFacts
  <2> QED BY <2>1, <2>2, <2>3
<1> QED BY <1>1

(* A run ends where the next one begins.                                   *)
LEMMA LastRun ==
    ASSUME layers \in Nat, NEW comp \in Seq(PlaneStates), NEW n \in Nat, RunsUpTo(comp, n)
    PROVE  /\ Len(comp) \in DOMAIN comp /\ Last(comp) = comp[Len(comp)]
           /\ Head(Last(comp).layers) \in Nat /\ Head(Last(comp).layers) < n
           /\ Last(comp).layers = From(Head(Last(comp).layers), n)
<1>1. Len(comp) \in DOMAIN comp /\ Last(comp) = comp[Len(comp)] /\ Last(comp) \in PlaneStates
  BY DEF RunsUpTo, Last
<1> DEFINE s == Last(comp).layers
<1>2. s \in Seq(0..(layers - 1)) /\ s # <<>> /\ Last(s) + 1 = n /\ s = From(Head(s), Last(s) + 1)
  BY <1>1 DEF RunsUpTo, Run, PlaneStates
<1>3. Head(s) \in Nat /\ s[Len(s)] \in Nat /\ Len(s) \in Nat \ {0} /\ Last(s) = s[Len(s)]
  <2>1. Last(s) = s[Len(s)]
    BY DEF Last
  <2>2. s \in Seq(Nat)
    BY <1>2
  <2> HIDE DEF s
  <2>3. Head(s) \in Nat /\ Len(s) \in Nat \ {0}
    BY <1>2, <2>2
  <2>4. s[Len(s)] \in Nat
    BY <2>2, <2>3
  <2> QED BY <2>1, <2>3, <2>4
<1>4. s = [i \in 1..(n - Head(s)) |-> Head(s) + i - 1]
  BY <1>2, Zenon DEF From
<1>5. DOMAIN s = 1..Len(s) /\ DOMAIN s = 1..(n - Head(s))
  <2>1. DOMAIN s = 1..Len(s)
    BY <1>2
  <2>2. DOMAIN s = 1..(n - Head(s))
    BY <1>4, Zenon
  <2> QED BY <2>1, <2>2
<1>6. Head(s) < n
  <2> HIDE DEF s
  <2> QED BY <1>3, <1>5
<1> QED BY <1>1, <1>2, <1>3, <1>6

LEMMA RunEnds ==
    ASSUME layers \in Nat, NEW comp \in Seq(PlaneStates), NEW n \in Nat, RunsUpTo(comp, n)
    PROVE  Last(Last(comp).layers) = n - 1
<1> DEFINE h == Head(Last(comp).layers)
<1>1. h \in Nat /\ h < n /\ Last(comp).layers = From(h, n)
  BY LastRun
<1> HIDE DEF h
<1>2. h <= n
  BY <1>1
<1> QED BY <1>1, <1>2, FromFacts

(* One more plane that takes the next layer.                               *)
LEMMA RunAppended ==
    ASSUME layers \in Nat, NEW comp \in Seq(PlaneStates), NEW n \in L, NEW plane \in Planes,
           RunsUpTo(comp, n)
    PROVE  /\ Append(comp, ScanOut(plane, n)) \in Seq(PlaneStates)
           /\ RunsUpTo(Append(comp, ScanOut(plane, n)), n + 1)
           /\ Len(Append(comp, ScanOut(plane, n))) = Len(comp) + 1
           /\ \A i \in 1..Len(comp) : Append(comp, ScanOut(plane, n))[i] = comp[i]
           /\ Append(comp, ScanOut(plane, n))[Len(comp) + 1] = ScanOut(plane, n)
<1> DEFINE state == ScanOut(plane, n)
           new == Append(comp, state)
<1>1. n \in Nat
  BY DEF L
<1>2. /\ state \in PlaneStates /\ state.layers = <<n>>
  BY DEF ScanOut, PlaneStates, L
<1>3. /\ <<n>> # <<>> /\ Head(<<n>>) = n /\ Last(<<n>>) = n
  BY <1>1 DEF Last
<1>4. state.layers = Run(state)
  BY <1>1, <1>2, <1>3, OneLayer DEF Run
<1> HIDE DEF state
<1>5. /\ new \in Seq(PlaneStates) /\ Len(new) = Len(comp) + 1 /\ new # <<>>
      /\ (\A i \in 1..Len(comp) : new[i] = comp[i]) /\ new[Len(comp) + 1] = state
      /\ DOMAIN new = 1..(Len(comp) + 1) /\ DOMAIN comp = 1..Len(comp) /\ Len(comp) \in Nat
  BY <1>2
<1>6. Len(comp) \in DOMAIN comp
      /\ Last(comp[Len(comp)].layers) + 1 = n
  BY <1>1, <1>5, LastRun DEF RunsUpTo
<1> HIDE DEF new
<1>7. ASSUME NEW i \in DOMAIN new
      PROVE  /\ new[i].layers # <<>> /\ new[i].layers = Run(new[i])
             /\ Head(new[i].layers) = IF i = 1 THEN 0 ELSE Last(new[i - 1].layers) + 1
  <2>1. CASE i \in 1..Len(comp)
    <3>1. new[i] = comp[i] /\ (i # 1 => new[i - 1] = comp[i - 1])
      BY <1>5, <2>1
    <3>2. /\ comp[i].layers # <<>> /\ comp[i].layers = Run(comp[i])
          /\ Head(comp[i].layers) = IF i = 1 THEN 0 ELSE Last(comp[i - 1].layers) + 1
      BY <1>5, <2>1 DEF RunsUpTo
    <3> QED BY <3>1, <3>2
  <2>2. CASE i = Len(comp) + 1
    <3>1. new[i] = state /\ i # 1 /\ i - 1 = Len(comp) /\ new[i - 1] = comp[Len(comp)]
      BY <1>5, <1>6, <2>2
    <3>2. Head(state.layers) = n /\ state.layers # <<>>
      BY <1>2, <1>3
    <3> QED BY <1>4, <1>6, <3>1, <3>2
  <2> QED BY <1>5, <2>1, <2>2
<1>8. Last(Last(new).layers) + 1 = n + 1
  <2>1. Last(new) = state
    BY <1>5 DEF Last
  <2> QED BY <1>2, <1>3, <2>1
<1>9. RunsUpTo(new, n + 1)
  BY <1>5, <1>7, <1>8 DEF RunsUpTo
<1> QED BY <1>5, <1>9 DEF new, state

(* More layers for the last plane.                                         *)
LEMMA RunExtended ==
    ASSUME layers \in Nat, NEW comp \in Seq(PlaneStates), NEW n \in Nat, NEW m \in Nat,
           RunsUpTo(comp, n), n <= m, m <= layers
    PROVE  /\ AddLayers(comp, From(n, m)) \in Seq(PlaneStates)
           /\ RunsUpTo(AddLayers(comp, From(n, m)), m)
           /\ DOMAIN AddLayers(comp, From(n, m)) = DOMAIN comp
           /\ \A i \in DOMAIN comp : AddLayers(comp, From(n, m))[i].plane = comp[i].plane
<1>1. CASE n = m
  <2>1. AddLayers(comp, From(n, m)) = comp
    BY <1>1, FromFacts DEF AddLayers
  <2> QED BY <1>1, <2>1
<1>2. CASE n < m
  <2> DEFINE more == From(n, m)
             k == Len(comp)
             last == [comp[k] EXCEPT !.layers = @ \o more, !.render = TRUE]
             new == AddLayers(comp, more)
             h == Head(Last(comp).layers)
  <2>1. more # <<>> /\ more \in Seq(L)
    BY <1>2, FromFacts, FromIsLayers
  <2>2. /\ k \in DOMAIN comp /\ Last(comp) = comp[k] /\ comp[k] \in PlaneStates
        /\ h \in Nat /\ h < n /\ comp[k].layers = From(h, n)
    BY LastRun
  <2>. HIDE DEF h
  <2>a. h <= n /\ h <= m /\ h < m
    BY <1>2, <2>2
  <2>3. comp[k].layers \o more = From(h, m)
    <3>1. From(h, n) \o From(n, m) = From(h, m)
      BY <1>2, <2>2, <2>a, FromJoins
    <3> QED BY <2>2, <3>1
  <2>4. /\ From(h, m) # <<>> /\ Head(From(h, m)) = h /\ Last(From(h, m)) = m - 1
        /\ From(h, m) \in Seq(L)
    <3>1. From(h, m) \in Seq(L)
      BY <2>2, <2>a, FromIsLayers
    <3> QED BY <2>2, <2>a, <3>1, FromFacts
  <2>5. last \in PlaneStates /\ last.layers = From(h, m) /\ last.plane = comp[k].plane
    BY <2>2, <2>3, <2>4 DEF PlaneStates, L
  <2>6. new = [comp EXCEPT ![k] = last]
    BY <2>1 DEF AddLayers
  <2> HIDE DEF last, h, more
  <2>7. /\ new \in Seq(PlaneStates) /\ new # <<>> /\ DOMAIN new = DOMAIN comp /\ Len(new) = k
        /\ \A i \in DOMAIN comp : new[i] = IF i = k THEN last ELSE comp[i]
    BY <2>2, <2>5, <2>6
  <2>8. DOMAIN comp = 1..k /\ k \in Nat /\ k >= 1
    BY <2>2
  <2>9. last.layers # <<>> /\ Last(last.layers) + 1 = m /\ last.layers = Run(last)
        /\ Head(last.layers) = h
    BY <2>4, <2>5 DEF Run
  <2> HIDE DEF new, k
  <2>10. ASSUME NEW i \in DOMAIN new
         PROVE  /\ new[i].layers # <<>> /\ new[i].layers = Run(new[i])
                /\ Head(new[i].layers) = IF i = 1 THEN 0 ELSE Last(new[i - 1].layers) + 1
    <3>1. /\ comp[i].layers # <<>> /\ comp[i].layers = Run(comp[i])
          /\ Head(comp[i].layers) = IF i = 1 THEN 0 ELSE Last(comp[i - 1].layers) + 1
      BY <2>7 DEF RunsUpTo
    <3>2. i # 1 => new[i - 1] = comp[i - 1]
      BY <2>7, <2>8
    <3>3. CASE i = k
      <4>1. new[i] = last /\ Head(comp[i].layers) = h
        BY <2>2, <2>7, <3>3 DEF h
      <4> QED BY <2>9, <3>1, <3>2, <4>1
    <3>4. CASE i # k
      <4>1. new[i] = comp[i]
        BY <2>7, <3>4
      <4> QED BY <3>1, <3>2, <4>1
    <3> QED BY <3>3, <3>4
  <2>11. Last(new) = last
    BY <2>2, <2>7 DEF Last
  <2>12. RunsUpTo(new, m)
    BY <2>7, <2>9, <2>10, <2>11 DEF RunsUpTo
  <2>13. \A i \in DOMAIN comp : new[i].plane = comp[i].plane
    BY <2>5, <2>7
  <2> QED BY <2>7, <2>12, <2>13 DEF new, more
<1> QED BY <1>1, <1>2

-----------------------------------------------------------------------------
(* What Initialize makes of the planes of a type.                          *)
OfType(type) == {p \in Planes : p.type = type}

LEMMA KeptAreOfType ==
    ASSUME drmPlanes \in PlaneLists, NEW unfit, NEW type \in PlaneTypes
    PROVE  /\ Kept(unfit, type) \subseteq 1..Len(drmPlanes) /\ Len(drmPlanes) \in Nat
           /\ \A n \in Kept(unfit, type) : drmPlanes[n] \in OfType(type)
<1>1. drmPlanes \in Seq(DrmPlanes)
  BY ListsAssumption
<1>2. \A n \in DOMAIN drmPlanes : drmPlanes[n] \in DrmPlanes
  BY <1>1
<1> QED BY <1>1, <1>2 DEF Kept, OfType, Planes

LEMMA LastIsOfType ==
    ASSUME drmPlanes \in PlaneLists, NEW unfit, NEW type \in PlaneTypes
    PROVE  LastOf(Kept(unfit, type)) \in OfType(type) \cup {NoPlane}
<1> DEFINE K == Kept(unfit, type)
<1>1. /\ K \subseteq 1..Len(drmPlanes) /\ Len(drmPlanes) \in Nat
      /\ \A n \in K : drmPlanes[n] \in OfType(type)
  BY KeptAreOfType
<1> HIDE DEF K
<1>2. CASE K = {}
  BY <1>2 DEF LastOf, K
<1>3. CASE K # {}
  <2>1. K \in SUBSET (0..Len(drmPlanes))
    BY <1>1
  <2>2. Max(K) \in K
    BY <1>1, <1>3, <2>1, MaxOfNaturals
  <2> QED BY <1>1, <1>3, <2>2 DEF LastOf, K
<1> QED BY <1>2, <1>3

LEMMA AscendingIsSorted ==
    ASSUME drmPlanes \in PlaneLists, NEW unfit, NEW type \in PlaneTypes
    PROVE  /\ Ascending(Kept(unfit, type)) \in Seq(OfType(type))
           /\ \A i, j \in DOMAIN Ascending(Kept(unfit, type)) : i < j =>
                Ascending(Kept(unfit, type))[i].id < Ascending(Kept(unfit, type))[j].id
<1> DEFINE K == Kept(unfit, type)
           S == {drmPlanes[n] : n \in K}
           f == [n \in K |-> drmPlanes[n]]
           d == [p \in S |-> p.id]
           list == Ascending(K)
<1>1. /\ K \subseteq 1..Len(drmPlanes) /\ Len(drmPlanes) \in Nat
      /\ \A n \in K : drmPlanes[n] \in OfType(type)
  BY KeptAreOfType
<1>2. IsFiniteSet(K)
  <2>1. K \in SUBSET (1..Len(drmPlanes)) /\ IsFiniteSet(1..Len(drmPlanes))
    BY <1>1, FS_Interval
  <2> QED BY <2>1, FS_Subset
<1>3. f \in Surjection(K, S)
  BY DEF Surjection
<1>4. IsFiniteSet(S)
  BY <1>2, <1>3, FS_Surjection
<1>5. S \subseteq OfType(type)
  BY <1>1
<1>6. d \in [S -> Nat]
  BY <1>5 DEF OfType, Planes, DrmPlanes
<1>7. \A x, y \in S : x # y => d[x] # d[y]
  <2> SUFFICES ASSUME NEW x \in S, NEW y \in S, x # y PROVE x.id # y.id
    OBVIOUS
  <2>1. PICK n \in K : x = drmPlanes[n]
    OBVIOUS
  <2>2. PICK m \in K : y = drmPlanes[m]
    OBVIOUS
  <2>3. n \in DOMAIN drmPlanes /\ m \in DOMAIN drmPlanes /\ n # m
    BY <2>1, <2>2 DEF Kept
  <2> QED BY <2>1, <2>2, <2>3, IdsAssumption
<1> HIDE DEF S, d
<1>8. \E s \in SetToSeqs(S) : \A i, j \in DOMAIN s : i < j => d[s[i]] < d[s[j]]
  BY <1>4, <1>6, <1>7, OrderExists
<1>9. ASSUME NEW s \in SetToSeqs(S)
      PROVE  s \in Seq(S) /\ \A i \in DOMAIN s : d[s[i]] = s[i].id
  <2>1. s \in [1..Cardinality(S) -> S] /\ Cardinality(S) \in Nat
    BY <1>4, FS_CardinalityType DEF SetToSeqs
  <2>2. s \in Seq(S) /\ \A i \in DOMAIN s : s[i] \in S
    BY <2>1
  <2> QED BY <2>2 DEF d
<1>10. \E s \in SetToSeqs(S) : \A i, j \in DOMAIN s : i < j => s[i].id < s[j].id
  <2>1. PICK s \in SetToSeqs(S) : \A i, j \in DOMAIN s : i < j => d[s[i]] < d[s[j]]
    BY <1>8
  <2> QED BY <2>1, <1>9
<1>11. list = CHOOSE s \in SetToSeqs(S) : \A i, j \in DOMAIN s : i < j => s[i].id < s[j].id
  BY DEF Ascending, S
<1> HIDE DEF list
<1>12. list \in SetToSeqs(S) /\ \A i, j \in DOMAIN list : i < j => list[i].id < list[j].id
  BY <1>10, <1>11
<1>13. list \in Seq(OfType(type))
  BY <1>5, <1>9, <1>12
<1> QED BY <1>12, <1>13 DEF list

-----------------------------------------------------------------------------
LEMMA OrderInit == Init => OrderInv
<1> SUFFICES ASSUME Init PROVE OrderInv
  OBVIOUS
<1>1. /\ layers \in 0..MaxLayers /\ demands \in [0..(layers - 1) -> Looks]
      /\ cursors \subseteq 0..(layers - 1)
  BY BoundAssumption DEF Init
<1>2. /\ composition \in Seq(PlaneStates) /\ commitPlanes \in Seq(Planes \X (0..(layers - 1)))
      /\ tested \in Seq(Planes \X ((0..(layers - 1)) \cup {Surface}))
      /\ overlays \in Seq({p \in Planes : p.type = "overlay"}) /\ Len(overlays) = 0
  BY DEF Init
<1>3. /\ primary \in {p \in Planes : p.type = "primary"} \cup {NoPlane}
      /\ cursorPlane \in {p \in Planes : p.type = "cursor"} \cup {NoPlane}
      /\ modeset \in BOOLEAN /\ renderLayers \in BOOLEAN
  BY DEF Init
<1>a. layerBegin \in 0..layers /\ layerEnd \in 0..layers /\ index \in 1..(Len(overlays) + 1)
  <2>1. layers = 0 /\ layerBegin = 0 /\ layerEnd = 0 /\ index = 1
    BY DEF Init
  <2> QED BY <1>2, <2>1
<1>4. pc \in {"initialize", "failed", "begin", "primary", "overlay", "cursor", "final", "done"}
  BY DEF Init
<1>5. TypeOK
  BY <1>1, <1>2, <1>3, <1>a, <1>4, Zenon DEF TypeOK
<1> QED BY <1>5 DEF Init, OrderInv, PlanesInv, StackInv, LayersInOrder, FitsPipeline

LEMMA InitializeOrders ==
    ASSUME OrderInv, Initialize \/ InitializeFails
    PROVE  OrderInv'
<1> USE DEF frame, assignment, inputs, planes
<1>1. CASE InitializeFails
  BY <1>1 DEF InitializeFails, OrderInv, TypeOK, PlanesInv, StackInv, LayersInOrder, FitsPipeline,
             PlaneStates
<1>2. CASE Initialize
  <2>1. PICK unfit :
          /\ primary' = LastOf(Kept(unfit, "primary"))
          /\ cursorPlane' = LastOf(Kept(unfit, "cursor"))
          /\ overlays' = Ascending(Kept(unfit, "overlay"))
    BY <1>2 DEF Initialize
  <2>2. drmPlanes \in PlaneLists
    BY <1>2 DEF Initialize, OrderInv, PlanesInv
  <2>3. primary' \in OfType("primary") \cup {NoPlane}
    BY <2>1, <2>2, LastIsOfType DEF PlaneTypes
  <2>4. cursorPlane' \in OfType("cursor") \cup {NoPlane}
    BY <2>1, <2>2, LastIsOfType DEF PlaneTypes
  <2>5. /\ overlays' \in Seq(OfType("overlay"))
        /\ \A i, j \in DOMAIN overlays' : i < j => overlays'[i].id < overlays'[j].id
    BY <2>1, <2>2, AscendingIsSorted DEF PlaneTypes
  <2>6. /\ pc = "initialize" /\ pc' = (IF primary' = NoPlane THEN "failed" ELSE "begin")
        /\ UNCHANGED <<frame, assignment>>
    BY <1>2 DEF Initialize
  <2>7. index' = 1 /\ index' \in 1..(Len(overlays') + 1)
    BY <2>5, <2>6 DEF OrderInv, StackInv
  <2>8. TypeOK'
    BY <2>3, <2>4, <2>5, <2>6, <2>7 DEF OrderInv, TypeOK, OfType, PlaneStates
  <2>9. PlanesInv'
    BY <2>5, <2>6 DEF PlanesInv
  <2>10. StackInv'
    BY <2>6 DEF OrderInv, StackInv
  <2> QED BY <2>6, <2>8, <2>9, <2>10 DEF OrderInv, LayersInOrder, FitsPipeline
<1> QED BY <1>1, <1>2

LEMMA BeginFrameOrders ==
    ASSUME OrderInv, BeginFrame
    PROVE  OrderInv'
<1>1. /\ pc = "begin" /\ pc' = "primary"
      /\ layers' \in 1..MaxLayers /\ demands' \in [0..(layers' - 1) -> Looks]
      /\ cursors' \in SUBSET (0..(layers' - 1)) /\ modeset' \in BOOLEAN /\ layerEnd' = layers'
      /\ UNCHANGED <<planes, layerBegin, index, composition, commitPlanes, renderLayers, tested>>
  BY DEF BeginFrame
<1>2. /\ composition' = <<>> /\ commitPlanes' = <<>> /\ tested' = <<>>
      /\ layerBegin' = 0 /\ index' = 1
  BY <1>1 DEF OrderInv, StackInv
<1>3. /\ layers' \in 0..MaxLayers /\ layerBegin' \in 0..layers' /\ layerEnd' \in 0..layers'
  BY <1>1, <1>2, BoundAssumption
<1>4. /\ composition' \in Seq(PlaneStates') /\ commitPlanes' \in Seq(Planes \X (0..(layers' - 1)))
      /\ tested' \in Seq(Planes \X ((0..(layers' - 1)) \cup {Surface}))
  BY <1>2
<1>5. TypeOK'
  BY <1>1, <1>3, <1>4 DEF OrderInv, TypeOK, planes
<1>6. PlanesInv'
  BY <1>1 DEF OrderInv, PlanesInv, planes
<1>7. StackInv'
  BY <1>1, <1>2 DEF StackInv
<1> QED BY <1>1, <1>5, <1>6, <1>7 DEF OrderInv, LayersInOrder, FitsPipeline

-----------------------------------------------------------------------------
LEMMA TypeStays ==
    ASSUME TypeOK, UNCHANGED inputs,
           pc' \in {"overlay", "cursor", "final", "done"},
           layerBegin' \in 0..layers, layerEnd' \in 0..layers,
           index' \in 1..(Len(overlays) + 1), composition' \in Seq(PlaneStates),
           commitPlanes' \in Seq(Planes \X L), renderLayers' \in BOOLEAN,
           tested' \in Seq(Planes \X (L \cup {Surface}))
    PROVE  TypeOK'
<1>1. /\ UNCHANGED <<layers, demands, cursors, modeset, primary, overlays, cursorPlane>>
      /\ PlaneStates' = PlaneStates /\ L' = L
  BY DEF inputs, planes, frame, PlaneStates, L
<1> QED BY <1>1 DEF TypeOK, L

LEMMA Facts ==
    ASSUME IInv, TypeOK, pc \in {"primary", "overlay", "cursor", "final"}
    PROVE  /\ layers \in Nat \ {0} /\ cursors \subseteq L /\ L = 0..(layers - 1)
           /\ L \subseteq Nat /\ TopmostCursor \in 0..layers
           /\ cursors # {} => TopmostCursor \in L /\ TopmostCursor \in cursors
           /\ cursors = {} => TopmostCursor = layers
<1>1. layers \in Nat \ {0} /\ cursors \subseteq L
  BY DEF IInv, FrameInv
<1>2. L = 0..(layers - 1) /\ L \subseteq Nat
  BY DEF L
<1>3. cursors = {} => TopmostCursor = layers
  BY DEF TopmostCursor
<1> QED BY <1>1, <1>2, <1>3, TopmostIsLayer

(* A commit may be what was tested.                                        *)
LEMMA Committed ==
    ASSUME NEW commit \in Seq(Planes \X L)
    PROVE  commit \in Seq(Planes \X (L \cup {Surface}))
<1>1. Planes \X L \subseteq Planes \X (L \cup {Surface})
  OBVIOUS
<1>2. \A S : Planes \X L \subseteq S => commit \in Seq(S)
  OBVIOUS
<1> QED BY <1>1, <1>2

LEMMA PlanesKnown ==
    ASSUME TypeOK
    PROVE  /\ primary # NoPlane => primary \in Planes /\ primary.type = "primary"
           /\ cursorPlane # NoPlane => cursorPlane \in Planes /\ cursorPlane.type = "cursor"
           /\ \A m \in 1..Len(overlays) :
                overlays[m] \in Planes /\ overlays[m].type = "overlay"
<1>1. \A m \in 1..Len(overlays) : overlays[m] \in {p \in Planes : p.type = "overlay"}
  BY DEF TypeOK
<1> QED BY <1>1 DEF TypeOK

(* What goes on, and what ends, keeps the invariant.                       *)
LEMMA Continues ==
    ASSUME OrderInv, UNCHANGED inputs, pc \in {"primary", "overlay", "cursor"},
           pc' \in {"overlay", "cursor", "final"}, TypeOK', StackInv'
    PROVE  OrderInv'
<1>1. PlanesInv'
  BY DEF OrderInv, PlanesInv, inputs, planes
<1> QED BY <1>1 DEF OrderInv, LayersInOrder, FitsPipeline

LEMMA Settles ==
    ASSUME OrderInv, UNCHANGED inputs, pc \in {"primary", "overlay", "cursor", "final"},
           pc' = "done", TypeOK', layers \in Nat,
           Complete(composition'), Stacked(composition'), CursorsScanOut(composition'),
           modeset => Len(composition') = 1
    PROVE  OrderInv'
<1>1. PlanesInv'
  BY DEF OrderInv, PlanesInv, inputs, planes
<1>2. StackInv'
  BY DEF StackInv
<1>3. UNCHANGED <<layers, cursors, modeset>> /\ TopmostCursor' = TopmostCursor
      /\ PlaneStates' = PlaneStates
  BY DEF inputs, planes, frame, TopmostCursor, PlaneStates
<1>4. FitsPipeline'
  BY <1>3 DEF FitsPipeline, CursorsScanOut
<1> DEFINE comp == composition'
<1>5. comp \in Seq(PlaneStates)
  BY <1>3 DEF TypeOK
<1>6. TopmostCursor \in cursors => TopmostCursor \in Nat
  BY DEF OrderInv, TypeOK
<1>7. /\ Last(Last(comp).layers) \in {layers - 1} \cup (cursors \cap {TopmostCursor})
      /\ \E n : RunsUpTo(comp, n)
  <2> HIDE DEF comp
  <2>1. CASE RunsUpTo(comp, layers)
    BY <1>5, <2>1, RunEnds
  <2>2. CASE TopmostCursor \in cursors /\ RunsUpTo(comp, TopmostCursor + 1)
    <3> DEFINE m == TopmostCursor + 1
    <3>1. m \in Nat /\ TopmostCursor = m - 1
      BY <1>6, <2>2
    <3> HIDE DEF m
    <3>2. RunsUpTo(comp, m)
      BY <2>2 DEF m
    <3> QED BY <1>5, <2>2, <3>1, <3>2, RunEnds
  <2>3. Complete(comp)
    BY DEF comp
  <2> QED BY <2>1, <2>2, <2>3 DEF Complete
<1>8. LayersInOrder'
  <2>1. /\ comp # <<>>
        /\ \A i \in DOMAIN comp :
             /\ comp[i].layers # <<>> /\ comp[i].layers = Run(comp[i])
             /\ Head(comp[i].layers) = IF i = 1 THEN 0 ELSE Last(comp[i - 1].layers) + 1
    BY <1>7 DEF RunsUpTo
  <2>2. \A i, j \in DOMAIN comp : i < j => Under(comp[i].plane, comp[j].plane)
    BY DEF Stacked
  <2> QED BY <1>3, <1>7, <2>1, <2>2 DEF LayersInOrder, Run
<1> QED BY <1>1, <1>2, <1>4, <1>8 DEF OrderInv

(* Everything on the primary plane is in order.                            *)
LEMMA OnPrimaryIsOrdered ==
    ASSUME TypeOK, primary # NoPlane, layers \in Nat \ {0}
    PROVE  /\ AllOnPrimary \in Seq(PlaneStates) /\ Len(AllOnPrimary) = 1
           /\ Complete(AllOnPrimary) /\ Stacked(AllOnPrimary) /\ CursorsScanOut(AllOnPrimary)
<1> DEFINE comp == AllOnPrimary
           state == [plane |-> primary, layers |-> From(0, layers), render |-> TRUE, target |-> TRUE]
<1>1. /\ From(0, layers) \in Seq(L) /\ From(0, layers) # <<>>
      /\ Head(From(0, layers)) = 0 /\ Last(From(0, layers)) = layers - 1
  <2>1. 0 \in Nat /\ 0 <= layers /\ 0 < layers /\ layers <= layers
    OBVIOUS
  <2> QED BY <2>1, FromFacts, FromIsLayers
<1>2. primary \in Planes /\ primary.type = "primary"
  BY PlanesKnown
<1>3. state \in PlaneStates
  BY <1>1, <1>2 DEF PlaneStates, L
<1>4. comp = <<state>>
  BY DEF AllOnPrimary
<1> HIDE DEF comp, state
<1>5. /\ comp \in Seq(PlaneStates) /\ Len(comp) = 1 /\ DOMAIN comp = {1} /\ comp[1] = state
      /\ comp # <<>> /\ Last(comp) = state
  BY <1>3, <1>4 DEF Last
<1>6. state.layers = From(0, layers) /\ state.plane = primary
  BY DEF state
<1>7. layers - 1 + 1 = layers
  OBVIOUS
<1>8. RunsUpTo(comp, layers)
  BY <1>1, <1>5, <1>6, <1>7 DEF RunsUpTo, Run
<1>9. Stacked(comp) /\ CursorsScanOut(comp)
  BY <1>2, <1>5, <1>6 DEF Stacked, CursorsScanOut
<1> QED BY <1>5, <1>8, <1>9 DEF Complete, comp

LEMMA ComposeAllOrders ==
    ASSUME IInv, OrderInv, ComposeAll
    PROVE  OrderInv'
<1>1. /\ pc = "primary" /\ pc' = "done" /\ commitPlanes' = <<<<primary, 0>>>>
      /\ composition' = AllOnPrimary /\ renderLayers' = TRUE
      /\ UNCHANGED <<inputs, layerBegin, layerEnd, index, tested>>
  BY DEF ComposeAll
<1>2. TypeOK /\ primary # NoPlane /\ layers \in Nat \ {0} /\ L = 0..(layers - 1)
  BY <1>1, Facts DEF OrderInv, PlanesInv
<1>3. commitPlanes' \in Seq(Planes \X L)
  <2>1. primary \in Planes /\ 0 \in L
    BY <1>2, PlanesKnown
  <2> QED BY <1>1, <2>1
<1>4. TypeOK'
  <2>1. tested' \in Seq(Planes \X (L \cup {Surface}))
    BY <1>1, <1>2 DEF TypeOK
  <2>2. layerBegin' \in 0..layers /\ layerEnd' \in 0..layers /\ index' \in 1..(Len(overlays) + 1)
    BY <1>1, <1>2 DEF TypeOK
  <2> QED BY <1>1, <1>2, <1>3, <2>1, <2>2, TypeStays, OnPrimaryIsOrdered
<1> QED BY <1>1, <1>2, <1>4, Settles, OnPrimaryIsOrdered

LEMMA ScanOutPrimaryOrders ==
    ASSUME IInv, OrderInv, ScanOutPrimary
    PROVE  OrderInv'
<1> DEFINE state == ScanOut(primary, 0)
<1>1. /\ pc = "primary" /\ commitPlanes' = <<<<primary, 0>>>> /\ tested' = commitPlanes'
      /\ composition' = <<state>> /\ layerBegin' = 1
      /\ UNCHANGED <<inputs, index, renderLayers>>
  BY DEF ScanOutPrimary, TestCommit
<1>2. /\ TypeOK /\ primary # NoPlane /\ layers \in Nat \ {0} /\ L = 0..(layers - 1)
      /\ TopmostCursor \in 0..layers /\ 0 \in L
  BY <1>1, Facts DEF OrderInv, PlanesInv
<1>3. primary \in Planes /\ primary.type = "primary"
  BY <1>2, PlanesKnown
<1>4. commitPlanes' \in Seq(Planes \X L)
  BY <1>1, <1>2, <1>3
<1>5. tested' \in Seq(Planes \X (L \cup {Surface}))
  <2>1. commitPlanes' \in Seq(Planes \X (L \cup {Surface}))
    BY <1>4, Committed
  <2> QED BY <1>1, <2>1
<1>6. /\ state \in PlaneStates /\ state.layers = <<0>> /\ state.plane = primary /\ ~state.render
  BY <1>2, <1>3 DEF ScanOut, PlaneStates
<1> HIDE DEF state
<1>7. /\ <<0>> # <<>> /\ Head(<<0>>) = 0 /\ Last(<<0>>) = 0 /\ <<0>> = From(0, 1)
  <2>1. 0 \in Nat /\ 0 + 1 = 1
    OBVIOUS
  <2>2. <<0>> = From(0, 1)
    BY <2>1, OneLayer
  <2> QED BY <2>2 DEF Last
<1> DEFINE comp == <<state>>
<1>8. /\ comp \in Seq(PlaneStates) /\ Len(comp) = 1 /\ DOMAIN comp = {1} /\ comp[1] = state
      /\ comp # <<>> /\ Last(comp) = state
  BY <1>6 DEF Last
<1> HIDE DEF comp
<1>9. RunsUpTo(comp, 1)
  <2>1. Run(state) = From(0, 1)
    BY <1>6, <1>7 DEF Run
  <2> QED BY <1>6, <1>7, <1>8, <2>1 DEF RunsUpTo
<1>10. Stacked(comp) /\ CursorsScanOut(comp)
  BY <1>6, <1>8 DEF Stacked, CursorsScanOut
<1>11. composition' = comp
  BY <1>1 DEF comp
<1>12. layerBegin' \in 0..layers /\ index' \in 1..(Len(overlays) + 1) /\ renderLayers' \in BOOLEAN
  BY <1>1, <1>2 DEF TypeOK
<1>13. CASE layers = 1
  <2>1. pc' = "done" /\ UNCHANGED layerEnd
    BY <1>13 DEF ScanOutPrimary
  <2>2. layerEnd' \in 0..layers
    BY <1>2, <2>1 DEF TypeOK
  <2>3. TypeOK'
    BY <1>1, <1>2, <1>4, <1>5, <1>8, <1>11, <1>12, <2>1, <2>2, TypeStays
  <2>4. Complete(composition')
    BY <1>9, <1>11, <1>13 DEF Complete
  <2> QED BY <1>1, <1>2, <1>8, <1>10, <1>11, <2>1, <2>3, <2>4, Settles
<1>14. CASE layers # 1
  <2>1. /\ layerEnd' = TopmostCursor
        /\ pc' = IF TopmostCursor = 1 THEN "cursor" ELSE "overlay"
    BY <1>14 DEF ScanOutPrimary
  <2>2. layerEnd' \in 0..layers /\ pc' \in {"overlay", "cursor"}
    BY <1>2, <2>1
  <2>3. TypeOK'
    BY <1>1, <1>2, <1>4, <1>5, <1>8, <1>11, <1>12, <2>2, TypeStays
  <2>4. ~modeset /\ ~modeset'
    BY <1>1, <1>2, <1>14 DEF ScanOutPrimary, MayScanOut, inputs, frame
  <2>5. TopmostCursor' = TopmostCursor /\ UNCHANGED primary
    BY <1>1 DEF TopmostCursor, inputs, frame, planes
  <2>6. \A i \in DOMAIN composition' :
          composition'[i].plane = primary' /\ composition'[i].plane.type # "cursor"
    BY <1>3, <1>6, <1>8, <1>11, <2>5
  <2>7. pc' = "cursor" => layerEnd' = 1
    BY <2>1
  <2>8. StackInv'
    BY <1>1, <1>9, <1>10, <1>11, <2>1, <2>2, <2>4, <2>5, <2>6, <2>7 DEF StackInv
  <2> QED BY <1>1, <2>2, <2>3, <2>8, Continues
<1> QED BY <1>13, <1>14

LEMMA UseOverlayOrders ==
    ASSUME IInv, OrderInv, UseOverlay
    PROVE  OrderInv'
<1> DEFINE state == ScanOut(overlays[index], layerBegin)
<1>1. /\ pc = "overlay" /\ pc' = "overlay" /\ index <= Len(overlays) /\ layerBegin < layerEnd
      /\ commitPlanes' = Append(commitPlanes, <<overlays[index], layerBegin>>)
      /\ tested' = commitPlanes' /\ composition' = Append(composition, state)
      /\ layerBegin' = layerBegin + 1 /\ index' = index + 1
      /\ UNCHANGED <<inputs, layerEnd>>
  BY DEF UseOverlay, TestCommit
<1>2. /\ TypeOK /\ layers \in Nat \ {0} /\ L = 0..(layers - 1) /\ L \subseteq Nat
      /\ ~modeset /\ Stacked(composition) /\ CursorsScanOut(composition)
      /\ RunsUpTo(composition, layerBegin) /\ layerEnd = TopmostCursor
      /\ \A i \in DOMAIN composition :
           \/ composition[i].plane = primary
           \/ \E m \in 1..(index - 1) : composition[i].plane = overlays[m]
  BY <1>1, Facts DEF OrderInv, StackInv
<1>3. /\ index \in 1..Len(overlays) /\ Len(overlays) \in Nat
      /\ layerBegin \in Nat /\ layerEnd \in Nat /\ layerEnd <= layers /\ layerBegin \in L
  <2>1. /\ index \in 1..(Len(overlays) + 1) /\ layerBegin \in 0..layers
        /\ layerEnd \in 0..layers /\ Len(overlays) \in Nat
    BY <1>2 DEF TypeOK
  <2> QED BY <1>1, <1>2, <2>1
<1>4. /\ overlays[index] \in Planes /\ overlays[index].type = "overlay"
  BY <1>2, <1>3, PlanesKnown
<1>5. commitPlanes' \in Seq(Planes \X L)
  <2>1. commitPlanes \in Seq(Planes \X L)
    BY <1>2 DEF TypeOK
  <2> QED BY <1>1, <1>3, <1>4, <2>1
<1>6. tested' \in Seq(Planes \X (L \cup {Surface}))
  <2>1. commitPlanes' \in Seq(Planes \X (L \cup {Surface}))
    BY <1>5, Committed
  <2> QED BY <1>1, <2>1
<1>7. composition \in Seq(PlaneStates)
  BY <1>2 DEF TypeOK
<1>8. /\ composition' \in Seq(PlaneStates) /\ RunsUpTo(composition', layerBegin')
      /\ Len(composition') = Len(composition) + 1
      /\ \A i \in 1..Len(composition) : composition'[i] = composition[i]
      /\ composition'[Len(composition) + 1] = state
  BY <1>1, <1>2, <1>3, <1>4, <1>7, RunAppended
<1>9. /\ state.plane = overlays[index] /\ ~state.render
  BY DEF ScanOut
<1> HIDE DEF state
<1>10. /\ DOMAIN composition' = 1..(Len(composition) + 1) /\ Len(composition) \in Nat
       /\ DOMAIN composition = 1..Len(composition)
  BY <1>7, <1>8
<1>11. UNCHANGED <<primary, overlays, modeset>> /\ TopmostCursor' = TopmostCursor
  BY <1>1 DEF inputs, planes, frame, TopmostCursor
<1>12. renderLayers' \in BOOLEAN
  <2>1. PICK render \in ReadState(composition, Len(composition)) :
            renderLayers' = (renderLayers \/ render)
    BY DEF UseOverlay
  <2> QED BY <2>1
<1>13. TypeOK'
  <2>1. layerBegin' \in 0..layers /\ layerEnd' \in 0..layers /\ index' \in 1..(Len(overlays) + 1)
    BY <1>1, <1>2, <1>3
  <2> QED BY <1>1, <1>2, <1>5, <1>6, <1>8, <1>12, <2>1, TypeStays
<1>14. ASSUME NEW i \in DOMAIN composition'
       PROVE  \/ composition'[i].plane = primary'
              \/ \E m \in 1..(index' - 1) : composition'[i].plane = overlays'[m]
  <2>1. index' - 1 = index /\ index \in 1..(index' - 1) /\ 1..(index - 1) \subseteq 1..(index' - 1)
    BY <1>1, <1>3
  <2>2. CASE i = Len(composition) + 1
    BY <1>8, <1>9, <1>11, <2>1, <2>2
  <2>3. CASE i \in 1..Len(composition)
    <3>1. composition'[i] = composition[i] /\ i \in DOMAIN composition
      BY <1>8, <1>10, <2>3
    <3> QED BY <1>2, <1>11, <2>1, <3>1
  <2> QED BY <1>10, <2>2, <2>3
<1>15. Stacked(composition')
  <2> SUFFICES ASSUME NEW i \in DOMAIN composition', NEW j \in DOMAIN composition', i < j
               PROVE  Under(composition'[i].plane, composition'[j].plane)
    BY DEF Stacked
  <2>1. i \in DOMAIN composition /\ composition'[i] = composition[i]
    BY <1>8, <1>10
  <2>2. CASE j \in DOMAIN composition
    BY <1>2, <1>8, <1>10, <2>1, <2>2 DEF Stacked
  <2>3. CASE j = Len(composition) + 1
    <3>1. composition'[j].plane = overlays[index]
      BY <1>8, <1>9, <2>3
    <3>2. CASE composition[i].plane = primary
      <4>1. primary.type = "primary"
        <5>1. primary # NoPlane
          BY <1>1 DEF OrderInv, PlanesInv
        <5> QED BY <1>2, <5>1, PlanesKnown
      <4> QED BY <1>4, <2>1, <3>1, <3>2, <4>1 DEF Under
    <3>3. ASSUME NEW m \in 1..(index - 1), composition[i].plane = overlays[m]
          PROVE  Under(composition'[i].plane, composition'[j].plane)
      <4>1. m \in DOMAIN overlays /\ index \in DOMAIN overlays /\ m < index /\ m \in 1..Len(overlays)
        BY <1>2, <1>3 DEF TypeOK
      <4>2. overlays[m].id < overlays[index].id
        BY <4>1 DEF OrderInv, PlanesInv
      <4>3. overlays[m].type = "overlay"
        BY <1>2, <4>1, PlanesKnown
      <4> QED BY <1>4, <2>1, <3>1, <3>3, <4>2, <4>3 DEF Under
    <3> QED BY <1>2, <2>1, <3>2, <3>3
  <2> QED BY <1>10, <2>2, <2>3
<1>16. CursorsScanOut(composition')
  <2> SUFFICES ASSUME NEW i \in DOMAIN composition', composition'[i].plane.type = "cursor"
               PROVE  ~composition'[i].render
    BY DEF CursorsScanOut
  <2>1. CASE i = Len(composition) + 1
    BY <1>8, <1>9, <2>1
  <2>2. CASE i \in DOMAIN composition
    BY <1>2, <1>8, <1>10, <2>2 DEF CursorsScanOut
  <2> QED BY <1>10, <2>1, <2>2
<1>17. StackInv'
  BY <1>1, <1>2, <1>8, <1>11, <1>14, <1>15, <1>16 DEF StackInv
<1> QED BY <1>1, <1>13, <1>17, Continues

(* Composing more layers into the last plane leaves the planes in order.   *)
LEMMA ComposedInOrder ==
    ASSUME layers \in Nat, NEW comp \in Seq(PlaneStates), NEW n \in Nat, NEW m \in Nat,
           n <= m, m <= layers, RunsUpTo(comp, n), Stacked(comp),
           \A i \in DOMAIN comp : comp[i].plane.type # "cursor"
    PROVE  /\ AddLayers(comp, From(n, m)) \in Seq(PlaneStates)
           /\ RunsUpTo(AddLayers(comp, From(n, m)), m)
           /\ Stacked(AddLayers(comp, From(n, m))) /\ CursorsScanOut(AddLayers(comp, From(n, m)))
           /\ DOMAIN AddLayers(comp, From(n, m)) = DOMAIN comp
           /\ \A i \in DOMAIN comp : AddLayers(comp, From(n, m))[i].plane = comp[i].plane
<1> DEFINE new == AddLayers(comp, From(n, m))
<1>1. /\ new \in Seq(PlaneStates) /\ RunsUpTo(new, m) /\ DOMAIN new = DOMAIN comp
      /\ \A i \in DOMAIN comp : new[i].plane = comp[i].plane
  BY RunExtended
<1> HIDE DEF new
<1>2. Stacked(new) /\ CursorsScanOut(new)
  BY <1>1 DEF Stacked, CursorsScanOut
<1> QED BY <1>1, <1>2 DEF new

LEMMA RefuseOverlayOrders ==
    ASSUME IInv, OrderInv, RefuseOverlay
    PROVE  OrderInv'
<1>1. /\ pc = "overlay" /\ pc' = "overlay" /\ index <= Len(overlays) /\ layerBegin < layerEnd
      /\ composition' = AddLayers(composition, <<layerBegin>>) /\ layerBegin' = layerBegin + 1
      /\ UNCHANGED <<inputs, layerEnd, index, commitPlanes, renderLayers, tested>>
  BY DEF RefuseOverlay, PopRefused
<1>2. /\ TypeOK /\ layers \in Nat \ {0} /\ L = 0..(layers - 1)
      /\ ~modeset /\ Stacked(composition)
      /\ RunsUpTo(composition, layerBegin) /\ layerEnd = TopmostCursor
      /\ \A i \in DOMAIN composition :
           \/ composition[i].plane = primary
           \/ \E m \in 1..(index - 1) : composition[i].plane = overlays[m]
  BY <1>1, Facts DEF OrderInv, StackInv
<1>3. /\ index \in 1..(Len(overlays) + 1) /\ index \in 1..Len(overlays) /\ Len(overlays) \in Nat
      /\ layerBegin \in Nat /\ layerEnd \in Nat /\ layerEnd \in 0..layers
      /\ layerBegin + 1 \in Nat /\ layerBegin <= layerBegin + 1 /\ layerBegin + 1 <= layers
  <2>1. /\ index \in 1..(Len(overlays) + 1) /\ layerBegin \in 0..layers
        /\ layerEnd \in 0..layers /\ Len(overlays) \in Nat
    BY <1>2 DEF TypeOK
  <2> QED BY <1>1, <1>2, <2>1
<1>4. primary.type = "primary" /\ \A m \in 1..(index - 1) : overlays[m].type = "overlay"
  <2>1. primary # NoPlane /\ 1..(index - 1) \subseteq 1..Len(overlays)
    BY <1>1, <1>3 DEF OrderInv, PlanesInv
  <2> QED BY <1>2, <2>1, PlanesKnown
<1>5. \A i \in DOMAIN composition : composition[i].plane.type # "cursor"
  BY <1>2, <1>4
<1>6. composition \in Seq(PlaneStates) /\ <<layerBegin>> = From(layerBegin, layerBegin + 1)
  BY <1>2, <1>3, OneLayer DEF TypeOK
<1> DEFINE next == layerBegin + 1
<1> HIDE DEF next
<1>7. /\ composition' \in Seq(PlaneStates) /\ RunsUpTo(composition', layerBegin')
      /\ Stacked(composition') /\ CursorsScanOut(composition')
      /\ DOMAIN composition' = DOMAIN composition
      /\ \A i \in DOMAIN composition : composition'[i].plane = composition[i].plane
  <2>1. /\ next \in Nat /\ layerBegin <= next /\ next <= layers /\ layerBegin' = next
        /\ composition' = AddLayers(composition, From(layerBegin, next))
    BY <1>1, <1>3, <1>6 DEF next
  <2> QED BY <1>2, <1>3, <1>5, <1>6, <2>1, ComposedInOrder
<1>8. UNCHANGED <<primary, overlays, modeset>> /\ TopmostCursor' = TopmostCursor
  BY <1>1 DEF inputs, planes, frame, TopmostCursor
<1>9. TypeOK'
  <2>1. layerBegin' \in 0..layers /\ layerEnd' \in 0..layers /\ index' \in 1..(Len(overlays) + 1)
    BY <1>1, <1>3
  <2>2. /\ commitPlanes' \in Seq(Planes \X L) /\ renderLayers' \in BOOLEAN
        /\ tested' \in Seq(Planes \X (L \cup {Surface}))
    BY <1>1, <1>2 DEF TypeOK
  <2> QED BY <1>1, <1>2, <1>7, <2>1, <2>2, TypeStays
<1>10. \A i \in DOMAIN composition' :
           \/ composition'[i].plane = primary'
           \/ \E m \in 1..(index' - 1) : composition'[i].plane = overlays'[m]
  BY <1>1, <1>2, <1>7, <1>8
<1>11. StackInv'
  BY <1>1, <1>2, <1>7, <1>8, <1>10 DEF StackInv
<1> QED BY <1>1, <1>9, <1>11, Continues

LEMMA ComposeRemainingOrders ==
    ASSUME IInv, OrderInv, ComposeRemaining
    PROVE  OrderInv'
<1>1. /\ pc = "overlay" /\ pc' = "cursor"
      /\ composition' = AddLayers(composition, From(layerBegin, layerEnd))
      /\ renderLayers' = (renderLayers \/ composition'[Len(composition')].render)
      /\ UNCHANGED <<inputs, layerBegin, layerEnd, index, commitPlanes, tested>>
  BY DEF ComposeRemaining, Remaining
<1>2. /\ TypeOK /\ layers \in Nat \ {0} /\ L = 0..(layers - 1)
      /\ ~modeset /\ Stacked(composition)
      /\ RunsUpTo(composition, layerBegin) /\ layerEnd = TopmostCursor
      /\ \A i \in DOMAIN composition :
           \/ composition[i].plane = primary
           \/ \E m \in 1..(index - 1) : composition[i].plane = overlays[m]
  BY <1>1, Facts DEF OrderInv, StackInv
<1>3. /\ index \in 1..(Len(overlays) + 1) /\ Len(overlays) \in Nat
      /\ layerBegin \in Nat /\ layerEnd \in Nat /\ layerEnd \in 0..layers
      /\ layerBegin \in 0..layers /\ layerBegin <= layerEnd /\ layerEnd <= layers
  BY <1>1, <1>2 DEF TypeOK, IInv, LoopInv
<1>4. primary.type = "primary" /\ \A m \in 1..(index - 1) : overlays[m].type = "overlay"
  <2>1. primary # NoPlane /\ 1..(index - 1) \subseteq 1..Len(overlays)
    BY <1>1, <1>3 DEF OrderInv, PlanesInv
  <2> QED BY <1>2, <2>1, PlanesKnown
<1>5. \A i \in DOMAIN composition : composition[i].plane.type # "cursor"
  BY <1>2, <1>4
<1>6. composition \in Seq(PlaneStates)
  BY <1>2 DEF TypeOK
<1>7. /\ composition' \in Seq(PlaneStates) /\ RunsUpTo(composition', layerEnd')
      /\ Stacked(composition') /\ CursorsScanOut(composition')
      /\ DOMAIN composition' = DOMAIN composition
      /\ \A i \in DOMAIN composition : composition'[i].plane = composition[i].plane
  BY <1>1, <1>2, <1>3, <1>5, <1>6, ComposedInOrder
<1>8. UNCHANGED modeset /\ TopmostCursor' = TopmostCursor
  BY <1>1 DEF inputs, planes, frame, TopmostCursor
<1>9. TypeOK'
  <2>1. layerBegin' \in 0..layers /\ layerEnd' \in 0..layers /\ index' \in 1..(Len(overlays) + 1)
    BY <1>1, <1>3
  <2>2. commitPlanes' \in Seq(Planes \X L) /\ tested' \in Seq(Planes \X (L \cup {Surface}))
    BY <1>1, <1>2 DEF TypeOK
  <2>3. renderLayers' \in BOOLEAN
    BY <1>1
  <2> QED BY <1>1, <1>2, <1>7, <2>1, <2>2, <2>3, TypeStays
<1>10. \A i \in DOMAIN composition' : composition'[i].plane.type # "cursor"
  BY <1>5, <1>7
<1>11. StackInv'
  BY <1>1, <1>2, <1>7, <1>8, <1>10 DEF StackInv
<1> QED BY <1>1, <1>9, <1>11, Continues

(* At the cursor the layers below it are placed, on other planes.          *)
LEMMA AtCursor ==
    ASSUME IInv, OrderInv, pc = "cursor"
    PROVE  /\ TypeOK /\ layers \in Nat /\ L = 0..(layers - 1) /\ L \subseteq Nat /\ ~modeset
           /\ composition \in Seq(PlaneStates) /\ commitPlanes \in Seq(Planes \X L)
           /\ renderLayers \in BOOLEAN /\ tested \in Seq(Planes \X (L \cup {Surface}))
           /\ layerBegin \in 0..layers /\ layerEnd \in 0..layers
           /\ index \in 1..(Len(overlays) + 1)
           /\ RunsUpTo(composition, TopmostCursor)
           /\ Stacked(composition) /\ CursorsScanOut(composition)
           /\ \A i \in DOMAIN composition : composition[i].plane.type # "cursor"
           /\ cursors # {} => TopmostCursor \in L /\ TopmostCursor \in cursors
           /\ cursors = {} => TopmostCursor = layers
<1>1. TypeOK /\ layers \in Nat /\ L = 0..(layers - 1) /\ L \subseteq Nat
  BY Facts DEF OrderInv
<1>2. /\ cursors # {} => TopmostCursor \in L /\ TopmostCursor \in cursors
      /\ cursors = {} => TopmostCursor = layers
  BY <1>1, Facts
<1>3. /\ ~modeset /\ Stacked(composition) /\ CursorsScanOut(composition)
      /\ RunsUpTo(composition, TopmostCursor)
      /\ \A i \in DOMAIN composition : composition[i].plane.type # "cursor"
  BY DEF OrderInv, StackInv
<1>4. /\ composition \in Seq(PlaneStates) /\ commitPlanes \in Seq(Planes \X L)
      /\ renderLayers \in BOOLEAN /\ tested \in Seq(Planes \X (L \cup {Surface}))
      /\ layerBegin \in 0..layers /\ layerEnd \in 0..layers
      /\ index \in 1..(Len(overlays) + 1)
  BY <1>1 DEF TypeOK
<1> QED BY <1>1, <1>2, <1>3, <1>4

(* Leaving the cursor with every layer placed.                             *)
LEMMA LeavesCursor ==
    ASSUME IInv, OrderInv, pc = "cursor", pc' \in {"final", "done"}, TypeOK', UNCHANGED inputs,
           Complete(composition'), Stacked(composition'), CursorsScanOut(composition')
    PROVE  OrderInv'
<1>1. layers \in Nat /\ ~modeset
  BY AtCursor
<1>2. UNCHANGED <<modeset, layers, cursors>>
  BY DEF inputs, frame
<1>3. CASE pc' = "done"
  BY <1>1, <1>3, Settles
<1>4. CASE pc' = "final"
  <2>1. StackInv'
    BY <1>1, <1>2, <1>4 DEF StackInv, Complete, TopmostCursor
  <2> QED BY <1>4, <2>1, Continues
<1> QED BY <1>3, <1>4

LEMMA NoCursorOrders ==
    ASSUME IInv, OrderInv, NoCursor
    PROVE  OrderInv'
<1>1. /\ pc = "cursor" /\ cursors = {} /\ pc' \in {"final", "done"}
      /\ UNCHANGED <<inputs, layerBegin, layerEnd, index, composition, commitPlanes,
                     renderLayers, tested>>
  BY DEF NoCursor, AfterCursor
<1>2. TypeOK'
  BY <1>1, AtCursor, TypeStays
<1>3. Complete(composition') /\ Stacked(composition') /\ CursorsScanOut(composition')
  BY <1>1, AtCursor DEF Complete
<1> QED BY <1>1, <1>2, <1>3, LeavesCursor

LEMMA UseCursorPlaneOrders ==
    ASSUME IInv, OrderInv, UseCursorPlane
    PROVE  OrderInv'
<1> DEFINE l == TopmostCursor
           state == ScanOut(cursorPlane, l)
<1>1. /\ pc = "cursor" /\ cursors # {} /\ cursorPlane # NoPlane /\ pc' \in {"final", "done"}
      /\ commitPlanes' = Append(commitPlanes, <<cursorPlane, l>>) /\ tested' = commitPlanes'
      /\ composition' = Append(composition, state)
      /\ UNCHANGED <<inputs, layerBegin, layerEnd, index, renderLayers>>
  BY DEF UseCursorPlane, AfterCursor, TestCommit
<1>2. /\ TypeOK /\ layers \in Nat /\ l \in L /\ l \in cursors /\ RunsUpTo(composition, l)
      /\ composition \in Seq(PlaneStates) /\ commitPlanes \in Seq(Planes \X L)
      /\ Stacked(composition)
      /\ \A i \in DOMAIN composition : composition[i].plane.type # "cursor"
  BY <1>1, AtCursor
<1>3. cursorPlane \in Planes /\ cursorPlane.type = "cursor"
  BY <1>1, <1>2, PlanesKnown
<1> HIDE DEF l
<1>4. commitPlanes' \in Seq(Planes \X L)
  BY <1>1, <1>2, <1>3
<1>5. tested' \in Seq(Planes \X (L \cup {Surface}))
  <2>1. commitPlanes' \in Seq(Planes \X (L \cup {Surface}))
    BY <1>4, Committed
  <2> QED BY <1>1, <2>1
<1>6. /\ composition' \in Seq(PlaneStates) /\ RunsUpTo(composition', l + 1)
      /\ Len(composition') = Len(composition) + 1
      /\ \A i \in 1..Len(composition) : composition'[i] = composition[i]
      /\ composition'[Len(composition) + 1] = state
  BY <1>1, <1>2, <1>3, RunAppended
<1>7. state.plane = cursorPlane /\ ~state.render
  BY DEF ScanOut
<1> HIDE DEF state
<1>8. /\ DOMAIN composition' = 1..(Len(composition) + 1) /\ Len(composition) \in Nat
      /\ DOMAIN composition = 1..Len(composition)
  BY <1>2, <1>6
<1>9. TypeOK'
  <2>1. /\ layerBegin' \in 0..layers /\ layerEnd' \in 0..layers
        /\ index' \in 1..(Len(overlays) + 1) /\ renderLayers' \in BOOLEAN
    BY <1>1, AtCursor
  <2> QED BY <1>1, <1>2, <1>4, <1>5, <1>6, <2>1, TypeStays
<1>10. Complete(composition')
  BY <1>2, <1>6 DEF Complete, l
<1>11. Stacked(composition')
  <2> SUFFICES ASSUME NEW i \in DOMAIN composition', NEW j \in DOMAIN composition', i < j
               PROVE  Under(composition'[i].plane, composition'[j].plane)
    BY DEF Stacked
  <2>1. i \in DOMAIN composition /\ composition'[i] = composition[i]
    BY <1>6, <1>8
  <2>2. CASE j \in DOMAIN composition
    BY <1>2, <1>6, <1>8, <2>1, <2>2 DEF Stacked
  <2>3. CASE j = Len(composition) + 1
    BY <1>2, <1>3, <1>6, <1>7, <2>1, <2>3 DEF Under
  <2> QED BY <1>8, <2>2, <2>3
<1>12. CursorsScanOut(composition')
  <2> SUFFICES ASSUME NEW i \in DOMAIN composition', composition'[i].plane.type = "cursor"
               PROVE  ~composition'[i].render
    BY DEF CursorsScanOut
  <2>1. i = Len(composition) + 1
    BY <1>2, <1>6, <1>8
  <2> QED BY <1>6, <1>7, <2>1
<1> QED BY <1>1, <1>9, <1>10, <1>11, <1>12, LeavesCursor

LEMMA ComposeCursorOrders ==
    ASSUME IInv, OrderInv, ComposeCursor
    PROVE  OrderInv'
<1> DEFINE l == TopmostCursor
<1>1. /\ pc = "cursor" /\ cursors # {} /\ pc' = "final" /\ renderLayers' = TRUE
      /\ commitPlanes' = IF cursorPlane # NoPlane
                           THEN Append(commitPlanes, <<cursorPlane, l>>)
                           ELSE commitPlanes
      /\ composition' = AddLayers(composition, <<l>>)
      /\ UNCHANGED <<inputs, layerBegin, layerEnd, index, tested>>
  BY DEF ComposeCursor
<1>2. /\ TypeOK /\ layers \in Nat /\ l \in L /\ l \in cursors /\ RunsUpTo(composition, l)
      /\ L = 0..(layers - 1)
      /\ composition \in Seq(PlaneStates) /\ commitPlanes \in Seq(Planes \X L)
      /\ Stacked(composition)
      /\ \A i \in DOMAIN composition : composition[i].plane.type # "cursor"
  BY <1>1, AtCursor
<1> HIDE DEF l
<1>3. commitPlanes' \in Seq(Planes \X L)
  <2>1. cursorPlane # NoPlane => cursorPlane \in Planes
    BY <1>2, PlanesKnown
  <2>2. CASE cursorPlane # NoPlane
    <3>1. commitPlanes' = Append(commitPlanes, <<cursorPlane, l>>)
      BY <1>1, <2>2
    <3>2. <<cursorPlane, l>> \in Planes \X L
      BY <1>2, <2>1, <2>2
    <3> QED BY <1>2, <3>1, <3>2
  <2>3. CASE cursorPlane = NoPlane
    BY <1>1, <1>2, <2>3
  <2> QED BY <2>2, <2>3
<1> DEFINE next == l + 1
<1>4. next \in Nat /\ l \in Nat /\ l <= next /\ next <= layers
  BY <1>2
<1>5. <<l>> = From(l, next)
  BY <1>4, OneLayer
<1> HIDE DEF next
<1>6. /\ composition' \in Seq(PlaneStates) /\ RunsUpTo(composition', next)
      /\ Stacked(composition') /\ CursorsScanOut(composition')
  BY <1>1, <1>2, <1>4, <1>5, ComposedInOrder
<1>7. TypeOK'
  <2>1. /\ layerBegin' \in 0..layers /\ layerEnd' \in 0..layers
        /\ index' \in 1..(Len(overlays) + 1) /\ tested' \in Seq(Planes \X (L \cup {Surface}))
    BY <1>1, AtCursor
  <2> QED BY <1>1, <1>2, <1>3, <1>6, <2>1, TypeStays
<1>8. Complete(composition')
  BY <1>2, <1>6 DEF Complete, l, next
<1> QED BY <1>1, <1>6, <1>7, <1>8, LeavesCursor

(* Handing out the surfaces moves no layer and no plane.                   *)
LEMMA TargetedInOrder ==
    ASSUME composition \in Seq(PlaneStates), layers \in Nat,
           \A k \in DOMAIN composition : composition[k].layers # <<>>
    PROVE  /\ Targeted \in Seq(PlaneStates) /\ Sources(Targeted) \in Seq(Planes \X (L \cup {Surface}))
           /\ Complete(composition) => Complete(Targeted)
           /\ Stacked(composition) => Stacked(Targeted)
           /\ CursorsScanOut(composition) => CursorsScanOut(Targeted)
<1> DEFINE new == Targeted
<1>1. /\ new = [k \in 1..Len(composition) |->
                   [composition[k] EXCEPT !.target = composition[k].render]]
      /\ DOMAIN composition = 1..Len(composition) /\ Len(composition) \in Nat
  BY DEF Targeted
<1> HIDE DEF new
<1>2. ASSUME NEW k \in 1..Len(composition)
      PROVE  /\ new[k] \in PlaneStates /\ new[k].plane = composition[k].plane
             /\ new[k].layers = composition[k].layers /\ new[k].render = composition[k].render
  <2>1. composition[k] \in PlaneStates
    BY <1>1
  <2>2. new[k] = [composition[k] EXCEPT !.target = composition[k].render]
    BY <1>1
  <2> QED BY <2>1, <2>2 DEF PlaneStates
<1>3. /\ new \in Seq(PlaneStates) /\ Len(new) = Len(composition)
      /\ DOMAIN new = 1..Len(composition)
  <2>1. DOMAIN new = 1..Len(composition) /\ \A k \in 1..Len(composition) : new[k] \in PlaneStates
    BY <1>1, <1>2
  <2>2. new = [k \in 1..Len(composition) |-> new[k]]
    BY <1>1
  <2>3. new \in [1..Len(composition) -> PlaneStates]
    BY <2>1, <2>2
  <2> QED BY <1>1, <2>1, <2>3
<1>4. Sources(new) \in Seq(Planes \X (L \cup {Surface}))
  <2>1. ASSUME NEW k \in DOMAIN new
        PROVE  Source(new[k]) \in Planes \X (L \cup {Surface})
    <3>1. new[k] \in PlaneStates /\ new[k].layers # <<>>
      BY <1>1, <1>2, <1>3
    <3>2. new[k].plane \in Planes /\ new[k].layers \in Seq(L)
      BY <3>1 DEF PlaneStates, L
    <3>3. Head(new[k].layers) \in L
      BY <3>1, <3>2
    <3> QED BY <3>2, <3>3 DEF Source
  <2> QED BY <1>1, <1>3, <2>1 DEF Sources
<1>5. ASSUME NEW n, RunsUpTo(composition, n)
      PROVE  RunsUpTo(new, n)
  <2>1. composition # <<>> /\ new # <<>> /\ Len(composition) \in 1..Len(composition)
    BY <1>1, <1>3, <1>5 DEF RunsUpTo
  <2>2. Last(new).layers = Last(composition).layers
    BY <1>2, <1>3, <2>1 DEF Last
  <2>3. ASSUME NEW k \in DOMAIN new
        PROVE  /\ new[k].layers # <<>> /\ new[k].layers = Run(new[k])
               /\ Head(new[k].layers) = IF k = 1 THEN 0 ELSE Last(new[k - 1].layers) + 1
    <3>1. /\ composition[k].layers # <<>> /\ composition[k].layers = Run(composition[k])
          /\ Head(composition[k].layers) = IF k = 1 THEN 0 ELSE Last(composition[k - 1].layers) + 1
      BY <1>1, <1>3, <1>5 DEF RunsUpTo
    <3>2. new[k].layers = composition[k].layers
      BY <1>2, <1>3
    <3>3. k # 1 => new[k - 1].layers = composition[k - 1].layers
      BY <1>1, <1>2, <1>3
    <3> QED BY <3>1, <3>2, <3>3 DEF Run
  <2> QED BY <1>5, <2>1, <2>2, <2>3 DEF RunsUpTo
<1>6. Complete(composition) => Complete(new)
  BY <1>5 DEF Complete
<1>7. /\ DOMAIN new = DOMAIN composition
      /\ \A k \in DOMAIN new : new[k].plane = composition[k].plane /\ new[k].render = composition[k].render
  BY <1>1, <1>2, <1>3
<1>8. Stacked(composition) => Stacked(new)
  <2> HIDE DEF new
  <2> QED BY <1>7, Zenon DEF Stacked
<1>9. CursorsScanOut(composition) => CursorsScanOut(new)
  <2> HIDE DEF new
  <2> QED BY <1>7, Zenon DEF CursorsScanOut
<1> QED BY <1>3, <1>4, <1>6, <1>8, <1>9 DEF new

LEMMA ValidateFinalLayersOrders ==
    ASSUME IInv, OrderInv, ValidateFinalLayers
    PROVE  OrderInv'
<1>1. /\ pc = "final" /\ pc' = "done"
      /\ \/ composition' = Targeted /\ tested' = Sources(Targeted)
         \/ composition' = AllOnPrimary /\ UNCHANGED tested
      /\ UNCHANGED <<inputs, layerBegin, layerEnd, index, commitPlanes, renderLayers>>
  BY DEF ValidateFinalLayers
<1>2. /\ TypeOK /\ primary # NoPlane /\ layers \in Nat \ {0} /\ L = 0..(layers - 1)
      /\ ~modeset /\ Complete(composition) /\ Stacked(composition) /\ CursorsScanOut(composition)
  BY <1>1, Facts DEF OrderInv, PlanesInv, StackInv
<1>3. /\ layerBegin' \in 0..layers /\ layerEnd' \in 0..layers
      /\ index' \in 1..(Len(overlays) + 1) /\ renderLayers' \in BOOLEAN
      /\ commitPlanes' \in Seq(Planes \X L) /\ tested \in Seq(Planes \X (L \cup {Surface}))
      /\ composition \in Seq(PlaneStates)
  BY <1>1, <1>2 DEF TypeOK
<1>4. CASE composition' = AllOnPrimary /\ UNCHANGED tested
  <2>1. /\ composition' \in Seq(PlaneStates) /\ Complete(composition')
        /\ Stacked(composition') /\ CursorsScanOut(composition')
    BY <1>2, <1>4, OnPrimaryIsOrdered
  <2>2. TypeOK'
    BY <1>1, <1>2, <1>3, <1>4, <2>1, TypeStays
  <2> QED BY <1>1, <1>2, <2>1, <2>2, Settles
<1>5. CASE composition' = Targeted /\ tested' = Sources(Targeted)
  <2>1. \A k \in DOMAIN composition : composition[k].layers # <<>>
    BY <1>1 DEF IInv, CompositionInv
  <2>2. /\ composition' \in Seq(PlaneStates) /\ tested' \in Seq(Planes \X (L \cup {Surface}))
        /\ Complete(composition') /\ Stacked(composition') /\ CursorsScanOut(composition')
    BY <1>2, <1>3, <1>5, <2>1, TargetedInOrder
  <2>3. TypeOK'
    BY <1>1, <1>2, <1>3, <2>2, TypeStays
  <2> QED BY <1>1, <1>2, <2>2, <2>3, Settles
<1> QED BY <1>1, <1>4, <1>5

LEMMA OrderedForever == Spec => []OrderInv
<1>1. ASSUME IInv, OrderInv, [Next]_vars PROVE OrderInv'
  <2>1. CASE UNCHANGED vars
    <3>1. /\ UNCHANGED <<drmPlanes, primary, overlays, cursorPlane>>
          /\ UNCHANGED <<layers, demands, cursors, modeset, pc>>
          /\ UNCHANGED <<layerBegin, layerEnd, index, composition, commitPlanes, renderLayers, tested>>
      BY <2>1 DEF vars, inputs, planes, frame, assignment
    <3>2. PlaneStates' = PlaneStates /\ TopmostCursor' = TopmostCursor
      BY <3>1 DEF PlaneStates, TopmostCursor
    <3>3. TypeOK'
      BY <1>1, <3>1, <3>2 DEF OrderInv, TypeOK
    <3>4. PlanesInv'
      BY <1>1, <3>1 DEF OrderInv, PlanesInv
    <3>5. StackInv'
      BY <1>1, <3>1, <3>2 DEF OrderInv, StackInv, Complete
    <3>6. LayersInOrder'
      BY <1>1, <3>1, <3>2 DEF OrderInv, LayersInOrder
    <3>7. FitsPipeline'
      BY <1>1, <3>1 DEF OrderInv, FitsPipeline
    <3> QED BY <3>3, <3>4, <3>5, <3>6, <3>7 DEF OrderInv
  <2> QED BY <1>1, <2>1, InitializeOrders, BeginFrameOrders, ComposeAllOrders,
             ScanOutPrimaryOrders, UseOverlayOrders, RefuseOverlayOrders, ComposeRemainingOrders,
             NoCursorOrders, UseCursorPlaneOrders, ComposeCursorOrders,
             ValidateFinalLayersOrders DEF Next
<1> QED BY <1>1, Inductive, OrderInit, PTL DEF Spec

(* Every variable of the choice keeps its type, whatever the kernel lists  *)
(* and answers: layer_begin and layer_end stay inside the layers, the loop *)
(* over the overlay planes inside the planes.                              *)
THEOREM TypesAreKept == Spec => []TypeOK
<1>1. OrderInv => TypeOK
  BY DEF OrderInv
<1> QED BY <1>1, OrderedForever, PTL

(* Up to the topmost cursor each layer is shown once, in the order of the  *)
(* layers, on planes the kernel stacks in that order.                      *)
THEOREM LayersKeepTheirOrder == Spec => []LayersInOrder
<1>1. OrderInv => LayersInOrder
  BY DEF OrderInv
<1> QED BY <1>1, OrderedForever, PTL

(* A modeset with several layers uses one plane, and nothing is composed   *)
(* into a cursor plane.                                                    *)
THEOREM ShapesFitPipeline == Spec => []FitsPipeline
<1>1. OrderInv => FitsPipeline
  BY DEF OrderInv
<1> QED BY <1>1, OrderedForever, PTL
=============================================================================
