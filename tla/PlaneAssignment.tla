-------------------------- MODULE PlaneAssignment --------------------------
(***************************************************************************)
(* DisplayPlaneManager finds the planes of its pipe (Initialize) and, for  *)
(* a frame, decides which plane shows which layers (ValidateLayers).       *)
(* Layers and planes are taken in z-order.  A layer gets the next plane if *)
(* the plane has the properties and the format for it and the kernel       *)
(* passes a test commit with it there; a layer refused by a plane is       *)
(* composed by the GPU into the plane below.  The topmost cursor layer is  *)
(* tried on the cursor plane.  What the driver answers to a test commit is *)
(* not predictable here, so every answer may come.                         *)
(*                                                                         *)
(* The loop keeps a reference, last_plane, into the vector composition     *)
(* while it appends to that vector.  When the vector has to grow the       *)
(* reference dangles, and what is read through it is whatever the          *)
(* allocator left there.                                                   *)
(***************************************************************************)
EXTENDS Integers, Sequences, FiniteSetsExt, SequencesExt

CONSTANTS
    PlaneLists,    \* what drmModeGetPlaneResources may list
    Looks,         \* what a layer may demand: a set of sets of features
    MaxLayers      \* bound: the layers of a frame

PlaneTypes == {"primary", "overlay", "cursor"}
Features == {"alpha", "rotation", "format"}
DrmPlanes == [id : Nat, type : PlaneTypes, pipe : BOOLEAN, offers : SUBSET Features]

ASSUME ListsAssumption == PlaneLists \subseteq Seq(DrmPlanes)
ASSUME IdsAssumption ==   \* no two objects of the kernel have the same id
    \A list \in PlaneLists : \A i, j \in DOMAIN list : i # j => list[i].id # list[j].id
ASSUME LooksAssumption == Looks \subseteq SUBSET {"alpha", "format"}
ASSUME BoundAssumption == MaxLayers \in Nat \ {0}

VARIABLES
    drmPlanes,     \* the planes the kernel lists, of every pipe
    primary,       \* primary_plane_
    overlays,      \* overlay_planes_
    cursorPlane,   \* cursor_plane_
    layers,        \* layers.size()
    demands,       \* what each layer needs of a plane
    cursors,       \* the layers whose buffer has kLayerCursor
    modeset,       \* pending_modeset
    pc,            \* how far Initialize and ValidateLayers have come
    layerBegin,    \* layer_begin, as an index
    layerEnd,      \* layer_end, as an index
    index,         \* the overlay plane the loop is at
    composition,   \* composition
    commitPlanes,  \* commit_planes: <<plane, layer>>
    renderLayers,  \* render_layers
    tested         \* the last test commit the kernel passed: <<plane, source>>

planes == <<drmPlanes, primary, overlays, cursorPlane>>
frame == <<layers, demands, cursors, modeset>>
inputs == <<planes, frame>>
assignment == <<layerBegin, layerEnd, index, composition, commitPlanes, renderLayers, tested>>
vars == <<inputs, pc, assignment>>

NoPlane == [id |-> 0, type |-> "none"]
Surface == -1      \* a plane's source when it shows its off-screen target

(* A DisplayPlaneState: the plane, source_layers_, whether state_ is       *)
(* kRender, and whether it has an off-screen target.                       *)
ScanOut(plane, layer) ==
    [plane |-> plane, layers |-> <<layer>>, render |-> FALSE, target |-> FALSE]

(* DisplayPlaneState::AddLayer, for the last plane of composition.         *)
AddLayers(comp, more) ==
    IF more = <<>> THEN comp
    ELSE [comp EXCEPT ![Len(comp)].layers = @ \o more, ![Len(comp)].render = TRUE]

(* Every layer composed into one surface on the primary plane.             *)
From(first, last) == [i \in 1..(last - first) |-> first + i - 1]
AllOnPrimary ==
    <<[plane |-> primary, layers |-> From(0, layers), render |-> TRUE, target |-> TRUE]>>

Source(state) == <<state.plane, IF state.target THEN Surface ELSE Head(state.layers)>>
Sources(comp) == [i \in DOMAIN comp |-> Source(comp[i])]

(* Whether emplace_back moves the elements of a vector that has these.     *)
Grows(comp) == Len(comp) \in {1, 2, 4, 8}
ASSUME VectorAssumption == \A list \in PlaneLists : Len(list) <= 8

(* What `last_plane.GetCompositionState() == kRender` says after the       *)
(* element at position i may have been moved away.                         *)
ReadState(comp, i) == IF Grows(comp) THEN BOOLEAN ELSE {comp[i].render}

TopmostCursor == IF cursors = {} THEN layers ELSE Max(cursors)

-----------------------------------------------------------------------------
Init ==
    /\ drmPlanes \in PlaneLists
    /\ primary = NoPlane /\ overlays = <<>> /\ cursorPlane = NoPlane
    /\ layers = 0 /\ demands = <<>> /\ cursors = {} /\ modeset = FALSE
    /\ pc = "initialize"
    /\ layerBegin = 0 /\ layerEnd = 0 /\ index = 1
    /\ composition = <<>> /\ commitPlanes = <<>>
    /\ renderLayers = FALSE
    /\ tested = <<>>

(* Initialize keeps the planes that can be used with this pipe and have    *)
(* the properties every plane needs: the last primary and the last cursor  *)
(* plane, and the overlay planes in ascending order.                       *)
LastOf(places) == IF places = {} THEN NoPlane ELSE drmPlanes[Max(places)]
AsListed(places) ==
    LET order == SetToSortSeq(places, <)
    IN  [k \in DOMAIN order |-> drmPlanes[order[k]]]
Ascending(places) ==
    CHOOSE list \in SetToSeqs({drmPlanes[n] : n \in places}) :
        \A i, j \in DOMAIN list : i < j => list[i].id < list[j].id

(* Where the list has the planes of a type to be kept.                     *)
(* DisplayPlane::Initialize fails for the planes in unfit.                 *)
Kept(unfit, type) ==
    {n \in DOMAIN drmPlanes : LET p == drmPlanes[n]
                              IN  p.pipe /\ p \notin unfit /\ p.type = type}

Initialize ==
    /\ pc = "initialize"
    /\ \E unfit \in SUBSET ToSet(drmPlanes) :
         /\ primary' = LastOf(Kept(unfit, "primary"))
         /\ cursorPlane' = LastOf(Kept(unfit, "cursor"))
         /\ overlays' = Ascending(Kept(unfit, "overlay"))
    /\ pc' = IF primary' = NoPlane THEN "failed" ELSE "begin"
    /\ drmPlanes' = <<>>
    /\ UNCHANGED <<frame, assignment>>

(* The planes or one of them cannot be read.                               *)
InitializeFails ==
    /\ pc = "initialize"
    /\ pc' = "failed"
    /\ UNCHANGED <<inputs, assignment>>

(* ValidateLayers is called with a frame.  One whose only cursor is its    *)
(* bottom layer, with others above it, sends layer_end before layer_begin; *)
(* it is not modelled.                                                     *)
BeginFrame ==
    /\ pc = "begin"
    /\ layers' \in 1..MaxLayers
    /\ demands' \in [0..(layers' - 1) -> Looks]
    /\ cursors' \in SUBSET (0..(layers' - 1))
    /\ layers' > 1 => cursors' # {0}
    /\ modeset' \in BOOLEAN
    /\ layerEnd' = layers'
    /\ pc' = "primary"
    /\ UNCHANGED <<planes, layerBegin, index, composition, commitPlanes, renderLayers, tested>>

(* DisplayPlane::ValidateLayer.  The rotation of a layer is never 0, as    *)
(* DRM_ROTATE_0 is a bit too, and only overlay planes are asked for alpha. *)
AlphaAlike(plane, l) ==
    "rotation" \in plane.offers /\ demands[l] \ {"alpha"} \subseteq plane.offers
ValidateLayer(plane, l) ==
    /\ "rotation" \in plane.offers
    /\ "format" \in demands[l] => "format" \in plane.offers
    /\ "alpha" \in demands[l] /\ plane.type = "overlay" => "alpha" \in plane.offers

(* What FallbacktoGPU may answer: a layer that is valid there may still    *)
(* get no framebuffer, or fail the test commit.                            *)
FallbacktoGPU(plane, l) == IF ValidateLayer(plane, l) THEN BOOLEAN ELSE {TRUE}

(* The kernel passes a test commit of commit_planes.                       *)
TestCommit == tested' = commitPlanes'

IgnoreModeset == TRUE
MayScanOut == ~(modeset /\ layers > 1)

(* The primary plane cannot scan out the bottom layer, or several layers   *)
(* meet a modeset: everything is composed on the primary plane.            *)
ComposeAll ==
    /\ pc = "primary"
    /\ ~MayScanOut \/ TRUE \in FallbacktoGPU(primary, 0)
    /\ commitPlanes' = <<<<primary, 0>>>>
    /\ composition' = AllOnPrimary
    /\ renderLayers' = TRUE
    /\ pc' = "done"
    /\ UNCHANGED <<inputs, layerBegin, layerEnd, index, tested>>

(* The primary plane scans out the bottom layer.  The topmost cursor layer *)
(* is set aside, and with it, as layer_end moves down to it, every layer   *)
(* above it.                                                               *)
ScanOutPrimary ==
    /\ pc = "primary"
    /\ MayScanOut /\ FALSE \in FallbacktoGPU(primary, 0)
    /\ commitPlanes' = <<<<primary, 0>>>>
    /\ TestCommit
    /\ composition' = <<ScanOut(primary, 0)>>
    /\ layerBegin' = 1
    /\ IF layers = 1
         THEN pc' = "done" /\ UNCHANGED layerEnd
         ELSE /\ layerEnd' = TopmostCursor
              /\ pc' = IF TopmostCursor = 1 THEN "cursor" ELSE "overlay"
    /\ UNCHANGED <<inputs, index, renderLayers>>

(* The next overlay plane takes the next layer.                            *)
UseOverlay ==
    /\ pc = "overlay" /\ index <= Len(overlays) /\ layerBegin < layerEnd
    /\ FALSE \in FallbacktoGPU(overlays[index], layerBegin)
    /\ commitPlanes' = Append(commitPlanes, <<overlays[index], layerBegin>>)
    /\ TestCommit
    /\ composition' = Append(composition, ScanOut(overlays[index], layerBegin))
    /\ \E render \in ReadState(composition, Len(composition)) :
         renderLayers' = (renderLayers \/ render)
    /\ layerBegin' = layerBegin + 1
    /\ index' = index + 1
    /\ UNCHANGED <<inputs, pc, layerEnd>>

(* It does not: the layer is composed into the plane below, and this plane *)
(* is offered the layer after it.                                          *)
KeepRefused == commitPlanes' = Append(commitPlanes, <<overlays[index], layerBegin>>)
PopRefused == UNCHANGED commitPlanes
RefuseOverlay ==
    /\ pc = "overlay" /\ index <= Len(overlays) /\ layerBegin < layerEnd
    /\ TRUE \in FallbacktoGPU(overlays[index], layerBegin)
    /\ composition' = AddLayers(composition, <<layerBegin>>)
    /\ PopRefused
    /\ layerBegin' = layerBegin + 1
    /\ UNCHANGED <<inputs, pc, layerEnd, index, renderLayers, tested>>

(* No layer or no overlay plane is left; the layers that are left are      *)
(* composed into the last plane.                                           *)
OneTooMany == From(layerBegin, layers + 1)
Remaining == From(layerBegin, layerEnd)
ComposeRemaining ==
    /\ pc = "overlay"
    /\ index > Len(overlays) \/ layerBegin = layerEnd
    /\ composition' = AddLayers(composition, Remaining)
    /\ renderLayers' = (renderLayers \/ composition'[Len(composition')].render)
    /\ pc' = "cursor"
    /\ UNCHANGED <<inputs, layerBegin, layerEnd, index, commitPlanes, tested>>

AfterCursor(render) == IF render THEN "final" ELSE "done"

NoCursor ==
    /\ pc = "cursor" /\ cursors = {}
    /\ pc' = AfterCursor(renderLayers)
    /\ UNCHANGED <<inputs, layerBegin, layerEnd, index, composition, commitPlanes,
                   renderLayers, tested>>

UseCursorPlane ==
    /\ pc = "cursor" /\ cursors # {} /\ cursorPlane # NoPlane
    /\ FALSE \in FallbacktoGPU(cursorPlane, TopmostCursor)
    /\ commitPlanes' = Append(commitPlanes, <<cursorPlane, TopmostCursor>>)
    /\ TestCommit
    /\ composition' = Append(composition, ScanOut(cursorPlane, TopmostCursor))
    /\ pc' = AfterCursor(renderLayers)
    /\ UNCHANGED <<inputs, layerBegin, layerEnd, index, renderLayers>>

(* No cursor plane, or it does not take the layer, which stays in          *)
(* commit_planes all the same.                                             *)
ComposeCursor ==
    /\ pc = "cursor" /\ cursors # {}
    /\ commitPlanes' = IF cursorPlane # NoPlane
                         THEN Append(commitPlanes, <<cursorPlane, TopmostCursor>>)
                         ELSE commitPlanes
    /\ composition' = AddLayers(composition, <<TopmostCursor>>)
    /\ renderLayers' = TRUE
    /\ pc' = "final"
    /\ UNCHANGED <<inputs, layerBegin, layerEnd, index, tested>>

(* ValidateFinalLayers: the planes to be rendered get their surfaces, and  *)
(* the kernel is asked once more.                                          *)
Targeted == [i \in DOMAIN composition |->
                [composition[i] EXCEPT !.target = composition[i].render]]

ValidateFinalLayers ==
    /\ pc = "final"
    /\ \/ composition' = Targeted /\ tested' = Sources(Targeted)
       \/ composition' = AllOnPrimary /\ UNCHANGED tested
    /\ pc' = "done"
    /\ UNCHANGED <<inputs, layerBegin, layerEnd, index, commitPlanes, renderLayers>>

Next ==
    \/ Initialize
    \/ InitializeFails
    \/ BeginFrame
    \/ ComposeAll
    \/ ScanOutPrimary
    \/ UseOverlay
    \/ RefuseOverlay
    \/ ComposeRemaining
    \/ NoCursor
    \/ UseCursorPlane
    \/ ComposeCursor
    \/ ValidateFinalLayers

Spec == Init /\ [][Next]_vars

-----------------------------------------------------------------------------
Planes == {p \in DrmPlanes : p.pipe}
PlaneStates == [plane : Planes, layers : Seq(0..(layers - 1)),
                render : BOOLEAN, target : BOOLEAN]

(* Every variable holds a value of its type; the planes are where their    *)
(* types put them.                                                         *)
TypeOK ==
    /\ primary \in {p \in Planes : p.type = "primary"} \cup {NoPlane}
    /\ overlays \in Seq({p \in Planes : p.type = "overlay"})
    /\ cursorPlane \in {p \in Planes : p.type = "cursor"} \cup {NoPlane}
    /\ layers \in 0..MaxLayers /\ demands \in [0..(layers - 1) -> Looks]
    /\ cursors \subseteq 0..(layers - 1) /\ modeset \in BOOLEAN
    /\ pc \in {"initialize", "failed", "begin", "primary", "overlay", "cursor", "final", "done"}
    /\ layerBegin \in 0..layers /\ layerEnd \in 0..layers
    /\ index \in 1..(Len(overlays) + 1)
    /\ composition \in Seq(PlaneStates)
    /\ commitPlanes \in Seq(Planes \X (0..(layers - 1)))
    /\ renderLayers \in BOOLEAN
    /\ tested \in Seq(Planes \X ((0..(layers - 1)) \cup {Surface}))

(* The kernel stacks the planes of a pipe like this.                       *)
Under(p, q) ==
    \/ p.type = "primary" /\ q.type # "primary"
    \/ p.type # "cursor" /\ q.type = "cursor"
    \/ p.type = q.type /\ p.id < q.id

(* Each layer up to the topmost cursor is shown exactly once and none is   *)
(* drawn over a layer it should be under, in whatever order the kernel     *)
(* lists its planes: the planes, from the bottom up, hold consecutive runs *)
(* of the layers.                                                          *)
Run(state) == From(Head(state.layers), Last(state.layers) + 1)
LayersInOrder ==
    pc = "done" =>
        /\ composition # <<>>
        /\ \A i \in DOMAIN composition :
             /\ composition[i].layers # <<>> /\ composition[i].layers = Run(composition[i])
             /\ Head(composition[i].layers) =
                    IF i = 1 THEN 0 ELSE Last(composition[i - 1].layers) + 1
        /\ Last(Last(composition).layers) \in {layers - 1} \cup (cursors \cap {TopmostCursor})
        /\ \A i, j \in DOMAIN composition :
             i < j => Under(composition[i].plane, composition[j].plane)

(* What Present will put on the planes is what the kernel passed in the    *)
(* last test commit, however many tries came before, or else everything is *)
(* on the primary plane.                                                   *)
ScannedOutWasTested ==
    pc = "done" => composition = AllOnPrimary \/ Sources(composition) = tested

(* Several layers meet a modeset on the primary plane alone, and the       *)
(* cursor plane is never drawn to: the shapes FramePipeline allows.        *)
FitsPipeline ==
    pc = "done" =>
        /\ modeset => Len(composition) = 1
        /\ \A i \in DOMAIN composition :
             composition[i].plane.type = "cursor" => ~composition[i].render

(* However the layers moved from plane to plane, one that is scanned out   *)
(* is on a plane that has its format and can rotate, and a translucent one *)
(* is blended by the GPU or by a plane with the alpha property; only the   *)
(* primary and the cursor plane may show it opaque.                        *)
ScannedOutIsSupported ==
    pc = "done" => \A i \in DOMAIN composition :
        LET plane == composition[i].plane
            l == Source(composition[i])[2]
        IN  l # Surface =>
              /\ demands[l] \ plane.offers \subseteq
                    (IF plane.type = "overlay" THEN {} ELSE {"alpha"})
              /\ "rotation" \in plane.offers

(* A plane that stands for layers the GPU has to compose has a surface     *)
(* they are composed into.                                                 *)
RenderedPlanesGetTargets ==
    pc = "done" => \A i \in DOMAIN composition :
                      composition[i].render => composition[i].target

=============================================================================
