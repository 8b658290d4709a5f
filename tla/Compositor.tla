----------------------------- MODULE Compositor -----------------------------
(***************************************************************************)
(* Compositor::Draw: of the planes of a composition, from the bottom up,   *)
(* those the GPU composes are drawn into their off-screen targets.  The    *)
(* layers of such a plane, together with those that the planes just below  *)
(* it scan out by themselves, are cut into regions by get_draw_regions     *)
(* (DisjointLayers); each region is drawn as one quad that blends its      *)
(* layers from the top down.                                               *)
(***************************************************************************)
EXTENDS DisjointLayers

CONSTANT Compositions   \* the compositions a run looks at: [frames, opaque, planes]

(* Draw is given what ValidateLayers returns: planes that have layers,     *)
(* each layer once, and in the order of the planes from the bottom up      *)
(* (LayersInOrder).                                                        *)
InOrder(plan) ==
    \A p, q \in DOMAIN plan : \A i \in DOMAIN plan[p].sources, j \in DOMAIN plan[q].sources :
        p < q \/ (p = q /\ i < j) => plan[p].sources[i] < plan[q].sources[j]
Plans(n) == Seq([state : {"kScanout", "kRender"}, sources : Seq(1..n) \ {<<>>}])

ASSUME CompositionsAssumption ==
    \A c \in Compositions :
        c.frames \in Seq(Rects) /\ c.planes \in Plans(Len(c.frames)) /\ InOrder(c.planes)

VARIABLES
    frames,     \* display_frame: the rectangle of each layer
    opaque,     \* the layers with kBlendingNone
    planes,     \* comp_planes: [state, sources], sources in the order of layers
    at,         \* the plane Draw has come to; 0 when it has failed
    dedicated,  \* dedicated_layers
    target      \* the off-screen target of each plane: the layers blended at
                \* each cell, from the top; <<>> before it is drawn

composition == <<frames, opaque, planes>>
regions == <<rects, todo, active, out>>
drawVars == <<composition, at, dedicated, target, regions>>

DrawInit ==
    /\ \E c \in Compositions : frames = c.frames /\ opaque = c.opaque /\ planes = c.planes
    /\ at = 1 /\ dedicated = <<>>
    /\ target = [p \in DOMAIN planes |-> <<>>]
    /\ rects = <<>> /\ todo = {} /\ active = <<>> /\ out = <<>>

Cutting == rects # <<>>
Here(state) == at \in DOMAIN planes /\ planes[at].state = state

-----------------------------------------------------------------------------
(* A plane that scans out its layer.                                       *)
KeepDedicated ==
    /\ Here("kScanout")
    /\ dedicated' = dedicated \o planes[at].sources
    /\ at' = at + 1
    /\ UNCHANGED <<composition, target, regions>>

(* SeparateLayers, up to its call of get_draw_regions.                     *)
SeparateLayers ==
    /\ Here("kRender") /\ ~Cutting
    /\ LET layers == dedicated \o planes[at].sources
       IN  rects' = [i \in DOMAIN layers |-> frames[layers[i]]]
    /\ todo' = Edges(rects')
    /\ UNCHANGED <<composition, at, dedicated, target, active, out>>

GetDrawRegions ==
    /\ NextEdge
    /\ UNCHANGED <<composition, at, dedicated, target>>

(* The plane's own layers of a region.  Those that belong below a layer    *)
(* scanned out there are left out.                                         *)
Offset == Len(dedicated)
WithDedicated(ids) == {(dedicated \o planes[at].sources)[i] : i \in ids}
Composed(ids) ==
    LET own == {planes[at].sources[i - Offset] : i \in {j \in ids : j > Offset}}
        below == {dedicated[i] : i \in {j \in ids : j <= Offset}}
    IN  {l \in own : \A d \in below : l > d}

(* comp_regions: of the pieces cut those with a layer left to compose.     *)
CompositionRegions == {k \in DOMAIN out : Composed(out[k].ids) # {}}

(* ConstructState: the layers that one quad blends, down to an opaque one. *)
DownToBottom(ls) == ByRank([l \in ls |-> Cardinality({m \in ls : m > l})])
DownToOpaque(ls) ==
    LET Hidden(l) == \E m \in ls \cap opaque : m > l
    IN  DownToBottom({l \in ls : ~Hidden(l)})

(* Render: the quads with most layers are drawn first.  A cell shows what  *)
(* was drawn there last, and is clear if nothing was.                      *)
Painted(cell) ==
    LET Quad(k) == DownToOpaque(Composed(out[k].ids))
        over == {k \in CompositionRegions : Covers(out[k].rect, cell)}
        Later(j, k) == Len(Quad(j)) < Len(Quad(k)) \/ (Len(Quad(j)) = Len(Quad(k)) /\ j >= k)
    IN  IF over = {} THEN <<>>
        ELSE Quad(CHOOSE j \in over : \A k \in over : Later(j, k))

(* Without any region the target is left as it was.                        *)
Render ==
    /\ Here("kRender") /\ Cutting /\ todo = {}
    /\ target' = IF CompositionRegions = {} THEN target
                 ELSE [target EXCEPT ![at] = [cell \in Cells |-> Painted(cell)]]
    /\ dedicated' = <<>> /\ at' = at + 1
    /\ rects' = <<>> /\ active' = <<>> /\ out' = <<>>
    /\ UNCHANGED <<composition, todo>>

(* There is no GL context, or the layers cannot be made textures, or the   *)
(* target cannot be drawn to.                                              *)
DrawFails ==
    /\ \/ at = 1 /\ ~Cutting
       \/ Here("kRender") /\ Cutting /\ todo = {}
    /\ at' = 0
    /\ rects' = <<>> /\ active' = <<>> /\ out' = <<>>
    /\ UNCHANGED <<composition, dedicated, target, todo>>

DrawNext == KeepDedicated \/ SeparateLayers \/ GetDrawRegions \/ Render \/ DrawFails
DrawSpec == DrawInit /\ [][DrawNext]_drawVars

-----------------------------------------------------------------------------
(* Every variable holds a value of its type; rectangles are never empty.   *)
DrawTypeOK ==
    /\ RegionsTypeOK
    /\ at \in 0..(Len(planes) + 1)
    /\ ToSet(dedicated) \subseteq DOMAIN frames
    /\ \A p \in DOMAIN planes : target[p] = <<>> \/ DOMAIN target[p] = Cells

(* A target that was drawn shows, at every cell, the plane's own layers    *)
(* there from the top down to the first opaque one, each once, and is      *)
(* clear elsewhere; a Draw that succeeds has drawn every target.           *)
TargetsAreExact ==
    /\ \A p \in DOMAIN planes : target[p] # <<>> =>
         \A cell \in Cells :
            LET there == {l \in ToSet(planes[p].sources) : Covers(frames[l], cell)}
                shows == target[p][cell]
            IN  /\ \A i, j \in DOMAIN shows : i < j => shows[i] > shows[j]
                /\ ToSet(shows) = {l \in there : \A m \in there \cap opaque : m <= l}
    /\ at > Len(planes) =>
         \A p \in DOMAIN planes : planes[p].state = "kRender" => target[p] # <<>>
=============================================================================
