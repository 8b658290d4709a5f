--------------------------- MODULE DisjointLayers ---------------------------
(***************************************************************************)
(* get_draw_regions: a vertical line sweeps over the rectangles of a       *)
(* plane's layers, stops at each left and right edge (a POI), and cuts     *)
(* their union into disjoint rectangles that carry the set of layers to be *)
(* blended there.  The compositor draws one quad per rectangle.            *)
(***************************************************************************)
EXTENDS Integers, FiniteSets, Sequences, SequencesExt

CONSTANTS
    Width, Height,   \* bound: coordinates are 0..Width and 0..Height
    Inputs           \* the sequences of rectangles a run looks at

Rects == {r \in [left : 0..Width, top : 0..Height, right : 0..Width, bottom : 0..Height] :
            r.left < r.right /\ r.top < r.bottom}

ASSUME BoundsAssumption == Width \in Nat /\ Height \in Nat
ASSUME InputsAssumption == Inputs \subseteq Seq(Rects)

VARIABLES
    rects,    \* the rectangles; layer i is rects[i]
    todo,     \* the POIs the line has yet to stop at
    active,   \* active_regions: [sx, points, ids]
    out       \* the cut: [ids, rect]

vars == <<rects, todo, active, out>>

(* POIs come in order of x.  The comparison of POI answers <= where the    *)
(* set expects <, so that of two with the same x the one inserted later    *)
(* comes first: the layers' edges from the last to the first, and of one   *)
(* layer the left edge before the right.                                   *)
Edge(rs, i, kind) ==
    [kind |-> kind, id |-> i, x |-> IF kind = "START" THEN rs[i].left ELSE rs[i].right,
     top |-> rs[i].top, bot |-> rs[i].bottom]
Edges(rs) == {Edge(rs, i, kind) : i \in DOMAIN rs, kind \in {"START", "END"}}
Before(p, q) == p.x < q.x \/ (p.x = q.x /\ p.id > q.id)

Init ==
    /\ rects \in Inputs
    /\ todo = Edges(rects)
    /\ active = <<>> /\ out = <<>>

-----------------------------------------------------------------------------
MinY(region) == Min({p.y : p \in region.points})
MaxY(region) == Max({p.y : p \in region.points})

Span(id, top, bot) ==
    {[kind |-> "START", id |-> id, y |-> top], [kind |-> "END", id |-> id, y |-> bot]}

NewRegion(poi) ==
    [sx |-> poi.x, points |-> Span(poi.id, poi.top, poi.bot), ids |-> {poi.id}]

Meets(region, poi) == poi.bot > MinY(region) /\ poi.top < MaxY(region)

(* A set in the order of a std::set: an element has its place behind as    *)
(* many as its rank.                                                       *)
ByRank(rank) ==
    [i \in 1..Cardinality(DOMAIN rank) |-> CHOOSE p \in DOMAIN rank : rank[p] = i - 1]

Above(p, q) == p.y < q.y \/ (p.y = q.y /\ p.id < q.id)
FromTop(points) == ByRank([p \in points |-> Cardinality({q \in points : Above(q, p)})])

(* GenerateOutLayers: from the region's left edge to x, one rectangle for  *)
(* each stretch of y between two points, with the layers alive in it.      *)
AddOnly(ids, p) == ids \cup {p.id}
Toggle(ids, p) == IF p.kind = "START" THEN ids \cup {p.id} ELSE ids \ {p.id}

Stop(region, x, acc, p) ==
    IF acc.ids = {}
      THEN [acc EXCEPT !.top = p.y, !.ids = {p.id}]
    ELSE IF acc.top = p.y
      THEN [acc EXCEPT !.ids = Toggle(@, p)]
    ELSE [ids |-> Toggle(acc.ids, p), top |-> p.y,
          cut |-> Append(acc.cut,
                    [ids |-> acc.ids,
                     rect |-> [left |-> region.sx, top |-> acc.top,
                               right |-> x, bottom |-> p.y]])]

GenerateOutLayers(region, x) ==
    LET stops == FromTop(region.points)
        walk[i \in 0..Len(stops)] ==
            IF i = 0 THEN [ids |-> {}, top |-> 0, cut |-> <<>>]
            ELSE Stop(region, x, walk[i - 1], stops[i])
    IN  walk[Len(stops)].cut

(* The regions the line meets are cut at x, except those that begin there. *)
CutAll(hit, x) ==
    FlattenSeq([k \in DOMAIN active |->
        IF k \in hit THEN GenerateOutLayers(active[k], x) ELSE <<>>])
Cut(hit, x) ==
    FlattenSeq([k \in DOMAIN active |->
        IF k \in hit /\ active[k].sx # x THEN GenerateOutLayers(active[k], x) ELSE <<>>])

-----------------------------------------------------------------------------
(* How the height of a layer is shared out among the regions it meets: the *)
(* highest has it from its top, each next one from the bottom of the one   *)
(* above, the lowest to its bottom.                                        *)
ShareWhole(poi, hit) == [k \in hit |-> Span(poi.id, poi.top, poi.bot)]
Share(poi, hit) ==
    LET Higher(k) == {MaxY(active[j]) : j \in {i \in hit : MinY(active[i]) < MinY(active[k])}}
        Lower(k)  == {j \in hit : MinY(active[j]) > MinY(active[k])}
        From(k) == IF Higher(k) = {} THEN poi.top ELSE Max(Higher(k))
        To(k) == IF Lower(k) = {} THEN poi.bot ELSE MaxY(active[k])
    IN  [k \in hit |-> Span(poi.id, From(k), To(k))]

(* A left edge joins the layer to every region it meets, or opens a region *)
(* of its own.                                                             *)
Start(poi, hit) ==
    active' = IF hit = {} THEN Append(active, NewRegion(poi))
              ELSE [k \in DOMAIN active |->
                      IF k \notin hit THEN active[k]
                      ELSE [sx |-> poi.x, ids |-> active[k].ids \cup {poi.id},
                            points |-> active[k].points \cup Share(poi, hit)[k]]]

(* The layers a right edge takes out of each region: its own and the later *)
(* ones that end at the same x.  A region that begins at x is left alone.  *)
EndingAlone(poi, hit) == [k \in {j \in hit : active[j].sx # poi.x} |-> {poi.id}]
Ending(poi, hit) == [k \in {j \in hit : active[j].sx # poi.x} |-> {poi.id} \cup
    {q.id : q \in {p \in todo : p.kind = "END" /\ p.x = poi.x /\ Before(poi, p)
                                  /\ Meets(active[k], p)}}]

(* A region without layers is dropped.                                     *)
End(poi, hit) ==
    LET gone == Ending(poi, hit)
        After(k) == IF k \notin DOMAIN gone THEN active[k]
                    ELSE [sx |-> poi.x, ids |-> active[k].ids \ gone[k],
                          points |-> {p \in active[k].points : p.id \notin gone[k]}]
    IN  \E left \in SetToSeqs({k \in DOMAIN active : After(k).ids # {}}) :
            /\ \A i, j \in DOMAIN left : i < j => left[i] < left[j]
            /\ active' = [i \in DOMAIN left |-> After(left[i])]

(* The line moves to the next edge.                                        *)
NextEdge ==
    \E poi \in todo :
        /\ \A other \in todo \ {poi} : Before(poi, other)
        /\ todo' = todo \ {poi}
        /\ LET hit == {k \in DOMAIN active : Meets(active[k], poi)} IN
              /\ out' = out \o Cut(hit, poi.x)
              /\ IF poi.kind = "START" THEN Start(poi, hit) ELSE End(poi, hit)
        /\ UNCHANGED rects

Next == NextEdge
Spec == Init /\ [][Next]_vars

-----------------------------------------------------------------------------
Cells == (0..(Width - 1)) \X (0..(Height - 1))
Covers(r, cell) == r.left <= cell[1] /\ cell[1] < r.right /\ r.top <= cell[2] /\ cell[2] < r.bottom

(* Every variable holds a value of its type, and no piece is empty.        *)
RegionsTypeOK ==
    /\ rects \in Seq(Rects)
    /\ todo \subseteq Edges(rects)
    /\ \A k \in DOMAIN active :
          active[k].sx \in 0..Width /\ active[k].ids \subseteq DOMAIN rects
    /\ \A k \in DOMAIN out : out[k].ids \subseteq DOMAIN rects /\ out[k].rect \in Rects

(* The compositor blends, at every point, exactly the layers that are      *)
(* there, and blends them once.                                            *)
CutIsExact ==
    todo = {} =>
        \A cell \in Cells :
            LET here == {i \in DOMAIN rects : Covers(rects[i], cell)}
                cuts == {k \in DOMAIN out : Covers(out[k].rect, cell)}
            IN  IF here = {} THEN cuts = {}
                ELSE \E k \in cuts : cuts = {k} /\ out[k].ids = here

(* Regions never overlap: a left edge that meets several of them shares    *)
(* its height out among them.                                              *)
RegionsDisjoint ==
    \A j, k \in DOMAIN active :
        j # k => MaxY(active[j]) <= MinY(active[k]) \/ MaxY(active[k]) <= MinY(active[j])

(* When the line has passed a layer's right edge no region holds the       *)
(* layer: what is cut from then on is cut without it.                      *)
EndedLayersLeave ==
    \A k \in DOMAIN active, i \in DOMAIN rects :
        i \in active[k].ids => \E poi \in todo : poi.id = i /\ poi.kind = "END"
=============================================================================
