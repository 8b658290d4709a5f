-------------------------- MODULE CompositorProofs --------------------------
(***************************************************************************)
(* The regions get_draw_regions cuts, seen while Draw goes through the     *)
(* planes, for any number of layers and planes and any size of screen: the *)
(* active regions never overlap, and what is cut lies on the screen.  If   *)
(* no layer begins where one below it ends, no region holds a layer whose  *)
(* right edge the line has passed, the cut covers every point of the       *)
(* layers once, with exactly the layers there, and the targets show what   *)
(* they should.                                                            *)
(***************************************************************************)
EXTENDS Compositor, OrderLemmas

Points == [kind : {"START", "END"}, id : Nat, y : 0..Height]
Regions == [sx : 0..Width, points : SUBSET Points, ids : SUBSET Nat]
Pieces ==
    [ids : SUBSET Nat,
     rect : [left : 0..Width, top : 0..Height, right : 0..Width, bottom : 0..Height]]

(* Every layer of a region has its height, or the share of it the region   *)
(* got, between two points of its own, and every point is of some layer.   *)
Held(region, i) ==
    \E p, q \in region.points :
        /\ p.id = i /\ p.kind = "START" /\ q.id = i /\ q.kind = "END"
        /\ rects[i].top <= p.y /\ p.y < q.y /\ q.y <= rects[i].bottom
        /\ \A s \in region.points : s.id = i => s = p \/ s = q
Whole(region) ==
    /\ region.ids # {} /\ region.ids \subseteq DOMAIN rects
    /\ \A i \in region.ids : Held(region, i)
    /\ \A p \in region.points : p.id \in region.ids

Upon(r, s) == \A p \in r.points, q \in s.points : p.y <= q.y

(* What Draw hands to the line.                                            *)
FrameInv ==
    /\ frames \in Seq(Rects) /\ planes \in Plans(Len(frames)) /\ InOrder(planes)
    /\ at \in Nat
    /\ dedicated \in Seq(DOMAIN frames)
    /\ \A i, j \in DOMAIN dedicated : i < j => dedicated[i] < dedicated[j]
    /\ \A p \in DOMAIN planes : p >= at /\ at # 0 =>
          \A i \in DOMAIN dedicated, j \in DOMAIN planes[p].sources :
              dedicated[i] < planes[p].sources[j]

SweepInv ==
    /\ rects \in Seq(Rects) /\ todo \subseteq Edges(rects) /\ active \in Seq(Regions)
    /\ ~Cutting => todo = {} /\ active = <<>> /\ out = <<>>
    /\ \A k \in DOMAIN active : Whole(active[k])
    /\ \A k \in DOMAIN active : \A i \in active[k].ids : Edge(rects, i, "START") \notin todo
    /\ \A j, k \in DOMAIN active :
          j # k => Upon(active[j], active[k]) \/ Upon(active[k], active[j])

(* A layer leaves the regions at its right edge, at the latest.            *)
NoneTouches ==
    \A c \in Compositions : \A i, j \in DOMAIN c.frames :
        i < j => c.frames[i].right # c.frames[j].left
EdgeInv ==
    /\ \A i, j \in DOMAIN frames : i < j => frames[i].right # frames[j].left
    /\ \A i, j \in DOMAIN rects : i < j => rects[i].right # rects[j].left
    /\ \A i \in DOMAIN rects : Edge(rects, i, "START") \in todo => Edge(rects, i, "END") \in todo
    /\ \A k \in DOMAIN active : \A i \in active[k].ids :
          Edge(rects, i, "END") \in todo /\ active[k].sx < rects[i].right

(* A region begins where the line last met it, and what is cut ends where  *)
(* the line is.                                                            *)
Passed == Edges(rects) \ todo
LineInv ==
    /\ \A e \in Passed, f \in todo : e.x <= f.x
    /\ \A k \in DOMAIN active :
          /\ \A f \in todo : active[k].sx <= f.x
          /\ \A e \in Passed : Meets(active[k], e) => e.x <= active[k].sx
PiecesInv ==
    /\ out \in Seq(Pieces)
    /\ \A n \in DOMAIN out :
          /\ out[n].ids \subseteq DOMAIN rects /\ out[n].rect \in Rects
          /\ \A f \in todo : out[n].rect.right <= f.x

(* The layers a region blends at y, and the heights it is responsible for. *)
Alive(region, y) ==
    {i \in region.ids : \E p, q \in region.points :
        /\ p.id = i /\ p.kind = "START" /\ q.id = i /\ q.kind = "END"
        /\ p.y <= y /\ y < q.y}
Across(region, y) == MinY(region) <= y /\ y < MaxY(region)

(* A layer the line is inside of is blended at each of its heights, unless *)
(* the line is at its right edge and has taken it out already.             *)
Inside(i) == Edge(rects, i, "START") \notin todo /\ Edge(rects, i, "END") \in todo
ShareInv ==
    \A i \in DOMAIN rects, y \in 0..Height :
        Inside(i) /\ rects[i].top <= y /\ y < rects[i].bottom =>
            \/ \E k \in DOMAIN active : i \in Alive(active[k], y)
            \/ /\ \E e \in Passed : rects[i].right <= e.x
               /\ \A k \in DOMAIN active : Across(active[k], y) => rects[i].right <= active[k].sx

(* Left of the line a cell is blended as it should be, or waits for the    *)
(* region that it is in to be cut.                                         *)
LayersAt(cell) == {i \in DOMAIN rects : Covers(rects[i], cell)}
PiecesAt(cell) == {n \in DOMAIN out : Covers(out[n].rect, cell)}
Waits(cell) == \E k \in DOMAIN active : active[k].sx <= cell[1] /\ Across(active[k], cell[2])
ExactAt(cell) ==
    IF LayersAt(cell) = {} THEN PiecesAt(cell) = {}
    ELSE \E n \in PiecesAt(cell) : PiecesAt(cell) = {n} /\ out[n].ids = LayersAt(cell)
ExactInv ==
    \A cell \in Cells :
        (\A f \in todo : cell[1] < f.x) =>
            IF Waits(cell) THEN PiecesAt(cell) = {} ELSE ExactAt(cell)

(* Draw has a target for each plane, and a drawn one has all its cells.    *)
PlaceInv ==
    /\ at <= Len(planes) + 1
    /\ DOMAIN target = DOMAIN planes
    /\ \A p \in DOMAIN planes : target[p] = <<>> \/ DOMAIN target[p] = Cells

(* What the line cuts are the layers of the plane Draw has come to.        *)
LayersInv ==
    Cutting => /\ Here("kRender")
               /\ rects = [i \in DOMAIN (dedicated \o planes[at].sources) |->
                              frames[(dedicated \o planes[at].sources)[i]]]

(* The layers of a plane at a cell, and how they are to be shown.          *)
There(p, cell) == {l \in ToSet(planes[p].sources) : Covers(frames[l], cell)}
Shows(s, ls) ==
    /\ \A i, j \in DOMAIN s : i < j => s[i] > s[j]
    /\ ToSet(s) = {l \in ls : \A m \in ls \cap opaque : m <= l}
TargetInv ==
    /\ \A p \in DOMAIN planes : target[p] # <<>> =>
          \A cell \in Cells : Shows(target[p][cell], There(p, cell))
    /\ at # 0 => \A p \in DOMAIN planes :
          p < at /\ planes[p].state = "kRender" => target[p] # <<>>

-----------------------------------------------------------------------------
(* How far a region reaches.                                               *)
LEMMA Extent ==
    ASSUME NEW r \in Regions, r.points # {}
    PROVE  /\ MinY(r) \in 0..Height /\ MaxY(r) \in 0..Height /\ Height \in Nat
           /\ \A p \in r.points : p.y \in 0..Height /\ MinY(r) <= p.y /\ p.y <= MaxY(r)
           /\ \E p \in r.points : p.y = MinY(r)
           /\ \E p \in r.points : p.y = MaxY(r)
<1> DEFINE ys == {p.y : p \in r.points}
<1>1. Height \in Nat
  BY BoundsAssumption
<1>2. \A p \in r.points : p.y \in 0..Height
  BY DEF Regions, Points
<1>3. ys \in SUBSET (0..Height) /\ ys \in SUBSET Nat /\ ys # {}
  BY <1>1, <1>2
<1>4. MinY(r) = Min(ys) /\ MaxY(r) = Max(ys)
  BY DEF MinY, MaxY
<1>5. \A p \in r.points : p.y \in ys
  OBVIOUS
<1>6. \A y \in ys : \E p \in r.points : p.y = y
  OBVIOUS
<1> HIDE DEF ys
<1>7. MinY(r) \in ys /\ \A y \in ys : MinY(r) <= y
  BY <1>3, <1>4, MinOfNaturals
<1>8. MaxY(r) \in ys /\ \A y \in ys : y <= MaxY(r)
  BY <1>1, <1>3, <1>4, MaxOfNaturals
<1> QED BY <1>1, <1>2, <1>3, <1>5, <1>6, <1>7, <1>8

LEMMA UponIsAbove ==
    ASSUME NEW r \in Regions, NEW s \in Regions, r.points # {}, s.points # {}
    PROVE  Upon(r, s) <=> MaxY(r) <= MinY(s)
<1>1. /\ MaxY(r) \in Nat /\ MinY(s) \in Nat
      /\ \A p \in r.points : p.y \in Nat /\ p.y <= MaxY(r)
      /\ \A q \in s.points : q.y \in Nat /\ MinY(s) <= q.y
  <2>1. 0..Height \subseteq Nat
    OBVIOUS
  <2> QED BY <2>1, Extent
<1>2. PICK p \in r.points : p.y = MaxY(r)
  BY Extent
<1>3. PICK q \in s.points : q.y = MinY(s)
  BY Extent
<1>4. Upon(r, s) => MaxY(r) <= MinY(s)
  BY <1>2, <1>3 DEF Upon
<1>5. ASSUME MaxY(r) <= MinY(s) PROVE Upon(r, s)
  BY <1>1, <1>5 DEF Upon
<1> QED BY <1>4, <1>5

LEMMA RectFacts ==
    ASSUME rects \in Seq(Rects), NEW i \in DOMAIN rects
    PROVE  /\ rects[i].left \in 0..Width /\ rects[i].right \in 0..Width
           /\ rects[i].top \in 0..Height /\ rects[i].bottom \in 0..Height
           /\ rects[i].left < rects[i].right /\ rects[i].top < rects[i].bottom
           /\ Width \in Nat /\ Height \in Nat /\ i \in Nat
<1>1. rects[i] \in Rects /\ i \in Nat
  OBVIOUS
<1> QED BY <1>1, BoundsAssumption DEF Rects

LEMMA WholeReaches ==
    ASSUME rects \in Seq(Rects), NEW r \in Regions, Whole(r)
    PROVE  /\ r.points # {} /\ MinY(r) < MaxY(r)
           /\ \A i \in r.ids : MinY(r) < rects[i].bottom /\ rects[i].top < MaxY(r)
<1>1. PICK i \in r.ids : i \in DOMAIN rects /\ Held(r, i)
  BY DEF Whole
<1>2. r.points # {}
  BY <1>1 DEF Held
<1>3. ASSUME NEW j \in r.ids
      PROVE  MinY(r) < MaxY(r) /\ MinY(r) < rects[j].bottom /\ rects[j].top < MaxY(r)
  <2>1. j \in DOMAIN rects /\ Held(r, j)
    BY DEF Whole
  <2>2. PICK p, q \in r.points :
            rects[j].top <= p.y /\ p.y < q.y /\ q.y <= rects[j].bottom
    BY <2>1 DEF Held
  <2>3. /\ p.y \in 0..Height /\ q.y \in 0..Height /\ MinY(r) \in 0..Height /\ MaxY(r) \in 0..Height
        /\ MinY(r) <= p.y /\ q.y <= MaxY(r)
    BY <1>2, Extent
  <2>4. rects[j].top \in 0..Height /\ rects[j].bottom \in 0..Height
    BY <2>1, RectFacts
  <2> QED BY <2>2, <2>3, <2>4
<1> QED BY <1>1, <1>2, <1>3

LEMMA EdgeFacts ==
    ASSUME rects \in Seq(Rects), NEW poi \in Edges(rects)
    PROVE  /\ poi.id \in DOMAIN rects /\ poi.id \in Nat /\ poi.kind \in {"START", "END"}
           /\ poi = Edge(rects, poi.id, poi.kind)
           /\ poi.x = (IF poi.kind = "START" THEN rects[poi.id].left ELSE rects[poi.id].right)
           /\ poi.x \in 0..Width
           /\ poi.top = rects[poi.id].top /\ poi.bot = rects[poi.id].bottom
           /\ poi.top \in 0..Height /\ poi.bot \in 0..Height /\ poi.top < poi.bot
<1>1. PICK i \in DOMAIN rects, kind \in {"START", "END"} : poi = Edge(rects, i, kind)
  BY DEF Edges
<1>2. /\ poi.id = i /\ poi.kind = kind /\ poi.top = rects[i].top /\ poi.bot = rects[i].bottom
      /\ poi.x = (IF kind = "START" THEN rects[i].left ELSE rects[i].right)
  BY <1>1 DEF Edge
<1> QED BY <1>1, <1>2, RectFacts

LEMMA EdgeOf ==
    ASSUME NEW i \in DOMAIN rects, NEW kind \in {"START", "END"}
    PROVE  /\ Edge(rects, i, kind).id = i /\ Edge(rects, i, kind).kind = kind
           /\ Edge(rects, i, kind).top = rects[i].top /\ Edge(rects, i, kind).bot = rects[i].bottom
           /\ Edge(rects, i, kind).x = (IF kind = "START" THEN rects[i].left ELSE rects[i].right)
BY DEF Edge

-----------------------------------------------------------------------------
(* A region that takes a layer in, with the share of height it gets.       *)
Join(r, poi, top, bot) ==
    [sx |-> poi.x, ids |-> r.ids \cup {poi.id}, points |-> r.points \cup Span(poi.id, top, bot)]

LEMMA SpanIsPoints ==
    ASSUME NEW i \in Nat, NEW top \in 0..Height, NEW bot \in 0..Height
    PROVE  /\ Span(i, top, bot) \subseteq Points
           /\ \A p \in Span(i, top, bot) : p.id = i /\ (p.y = top \/ p.y = bot)
           /\ \E p, q \in Span(i, top, bot) :
                /\ p.id = i /\ p.kind = "START" /\ q.id = i /\ q.kind = "END"
                /\ p.y = top /\ q.y = bot
                /\ \A s \in Span(i, top, bot) : s = p \/ s = q
<1> DEFINE p == [kind |-> "START", id |-> i, y |-> top]
           q == [kind |-> "END", id |-> i, y |-> bot]
<1>1. /\ p \in Points /\ q \in Points /\ p.y = top /\ q.y = bot /\ p.id = i /\ q.id = i
      /\ p.kind = "START" /\ q.kind = "END"
  BY DEF Points
<1>2. Span(i, top, bot) = {p, q}
  BY DEF Span
<1> HIDE DEF p, q
<1> QED BY <1>1, <1>2

LEMMA JoinIsWhole ==
    ASSUME rects \in Seq(Rects), NEW poi \in Edges(rects), NEW r \in Regions, Whole(r),
           poi.id \notin r.ids, NEW top \in 0..Height, NEW bot \in 0..Height,
           poi.top <= top, top < bot, bot <= poi.bot
    PROVE  Join(r, poi, top, bot) \in Regions /\ Whole(Join(r, poi, top, bot))
<1> DEFINE s == Join(r, poi, top, bot)
           new == Span(poi.id, top, bot)
<1>1. /\ poi.id \in DOMAIN rects /\ poi.id \in Nat /\ poi.x \in 0..Width
      /\ poi.top = rects[poi.id].top /\ poi.bot = rects[poi.id].bottom
  BY EdgeFacts
<1>2. /\ new \subseteq Points
      /\ \A p \in new : p.id = poi.id
      /\ \E p, q \in new :
            /\ p.id = poi.id /\ p.kind = "START" /\ q.id = poi.id /\ q.kind = "END"
            /\ p.y = top /\ q.y = bot
            /\ \A o \in new : o = p \/ o = q
  <2> DEFINE i == poi.id
  <2>1. i \in Nat
    BY <1>1
  <2> HIDE DEF i
  <2>2. /\ Span(i, top, bot) \subseteq Points
        /\ \A p \in Span(i, top, bot) : p.id = i
    BY <2>1, SpanIsPoints
  <2>3. \E p, q \in Span(i, top, bot) :
            /\ p.id = i /\ p.kind = "START" /\ q.id = i /\ q.kind = "END"
            /\ p.y = top /\ q.y = bot
            /\ \A o \in Span(i, top, bot) : o = p \/ o = q
    BY <2>1, SpanIsPoints
  <2> QED BY <2>2, <2>3 DEF i
<1>3. s.sx = poi.x /\ s.ids = r.ids \cup {poi.id} /\ s.points = r.points \cup new
  BY DEF Join
<1>4. s \in Regions
  <2>1. r.ids \in SUBSET Nat /\ r.points \in SUBSET Points
    BY DEF Regions
  <2>2. r.ids \cup {poi.id} \in SUBSET Nat /\ r.points \cup new \in SUBSET Points
    BY <1>1, <1>2, <2>1
  <2> QED BY <1>1, <2>2 DEF Join, Regions
<1> HIDE DEF s, new
<1>5. \A p \in r.points : p.id \in r.ids
  BY DEF Whole
<1>6. Held(s, poi.id)
  BY <1>1, <1>2, <1>3, <1>5 DEF Held
<1>7. ASSUME NEW i \in r.ids PROVE Held(s, i)
  <2>1. PICK p, q \in r.points :
            /\ p.id = i /\ p.kind = "START" /\ q.id = i /\ q.kind = "END"
            /\ rects[i].top <= p.y /\ p.y < q.y /\ q.y <= rects[i].bottom
            /\ \A o \in r.points : o.id = i => o = p \/ o = q
    BY DEF Held, Whole
  <2>2. \A o \in s.points : o.id = i => o = p \/ o = q
    BY <1>2, <1>3, <2>1
  <2> QED BY <1>3, <2>1, <2>2 DEF Held
<1>8. \A p \in s.points : p.id \in s.ids
  BY <1>2, <1>3, <1>5
<1>9. Whole(s)
  BY <1>1, <1>3, <1>6, <1>7, <1>8 DEF Whole
<1> QED BY <1>4, <1>9 DEF s

(* A region that loses some layers but not all.                            *)
Shrink(r, x, gone) ==
    [sx |-> x, ids |-> r.ids \ gone, points |-> {p \in r.points : p.id \notin gone}]

LEMMA ShrinkIsWhole ==
    ASSUME NEW r \in Regions, Whole(r), NEW gone, NEW x \in 0..Width, r.ids \ gone # {}
    PROVE  Shrink(r, x, gone) \in Regions /\ Whole(Shrink(r, x, gone))
<1> DEFINE s == Shrink(r, x, gone)
<1>1. s.sx = x /\ s.ids = r.ids \ gone /\ s.points = {p \in r.points : p.id \notin gone}
  BY DEF Shrink
<1>2. s \in Regions
  <2>1. r.ids \ gone \in SUBSET Nat /\ {p \in r.points : p.id \notin gone} \in SUBSET Points
    BY DEF Regions
  <2> QED BY <2>1 DEF Shrink, Regions
<1> HIDE DEF s
<1>3. ASSUME NEW i \in s.ids PROVE Held(s, i)
  <2>1. i \in r.ids /\ i \notin gone /\ Held(r, i)
    BY <1>1 DEF Whole
  <2>2. PICK p, q \in r.points :
            /\ p.id = i /\ p.kind = "START" /\ q.id = i /\ q.kind = "END"
            /\ rects[i].top <= p.y /\ p.y < q.y /\ q.y <= rects[i].bottom
            /\ \A o \in r.points : o.id = i => o = p \/ o = q
    BY <2>1 DEF Held
  <2>3. p \in s.points /\ q \in s.points
    BY <1>1, <2>1, <2>2
  <2>4. \A o \in s.points : o.id = i => o = p \/ o = q
    BY <1>1, <2>2
  <2> QED BY <2>2, <2>3, <2>4 DEF Held
<1>4. Whole(s)
  BY <1>1, <1>3 DEF Whole
<1> QED BY <1>2, <1>4 DEF s

-----------------------------------------------------------------------------
(* What the regions in the way of an edge are offered of its height.       *)
Shares(poi, hit, F, T) ==
    /\ F \in [hit -> 0..Height] /\ T \in [hit -> 0..Height]
    /\ Share(poi, hit) = [k \in hit |-> Span(poi.id, F[k], T[k])]
    /\ \A k \in hit : poi.top <= F[k] /\ F[k] < T[k] /\ T[k] <= poi.bot
    /\ \A j, k \in hit : MaxY(active[j]) <= MinY(active[k]) /\ j # k =>
          T[j] = MaxY(active[j]) /\ MaxY(active[j]) <= F[k]
    /\ \A y \in Nat : poi.top <= y /\ y < poi.bot /\ hit # {} =>
          \E k \in hit : F[k] <= y /\ y < T[k]

Hit(poi) == {k \in DOMAIN active : Meets(active[k], poi)}

LEMMA ActiveFacts ==
    ASSUME SweepInv, NEW k \in DOMAIN active
    PROVE  /\ active[k] \in Regions /\ Whole(active[k]) /\ active[k].points # {}
           /\ MinY(active[k]) \in 0..Height /\ MaxY(active[k]) \in 0..Height
           /\ MinY(active[k]) < MaxY(active[k]) /\ Height \in Nat
           /\ \A j \in DOMAIN active : j # k =>
                MaxY(active[k]) <= MinY(active[j]) \/ MaxY(active[j]) <= MinY(active[k])
<1>1. ASSUME NEW j \in DOMAIN active
      PROVE  active[j] \in Regions /\ Whole(active[j]) /\ active[j].points # {}
  <2>1. active[j] \in Regions /\ Whole(active[j]) /\ rects \in Seq(Rects)
    BY DEF SweepInv
  <2> QED BY <2>1, WholeReaches
<1>2. /\ MinY(active[k]) \in 0..Height /\ MaxY(active[k]) \in 0..Height /\ Height \in Nat
      /\ MinY(active[k]) < MaxY(active[k])
  <2>1. rects \in Seq(Rects)
    BY DEF SweepInv
  <2>2. MinY(active[k]) \in 0..Height /\ MaxY(active[k]) \in 0..Height /\ Height \in Nat
    BY <1>1, Extent
  <2>3. MinY(active[k]) < MaxY(active[k])
    BY <1>1, <2>1, WholeReaches
  <2> QED BY <2>2, <2>3
<1>3. ASSUME NEW j \in DOMAIN active, j # k
      PROVE  MaxY(active[k]) <= MinY(active[j]) \/ MaxY(active[j]) <= MinY(active[k])
  <2>1. Upon(active[k], active[j]) \/ Upon(active[j], active[k])
    BY <1>3 DEF SweepInv
  <2> QED BY <1>1, <2>1, UponIsAbove
<1> QED BY <1>1, <1>2, <1>3

LEMMA SharesFit ==
    ASSUME SweepInv, NEW poi \in Edges(rects)
    PROVE  \E F, T : Shares(poi, Hit(poi), F, T)
<1> DEFINE hit == Hit(poi)
           lo == [k \in hit |-> MinY(active[k])]
           hi == [k \in hit |-> MaxY(active[k])]
           Higher(k) == {hi[j] : j \in {i \in hit : lo[i] < lo[k]}}
           Lower(k) == {j \in hit : lo[j] > lo[k]}
           F == [k \in hit |-> IF Higher(k) = {} THEN poi.top ELSE Max(Higher(k))]
           T == [k \in hit |-> IF Lower(k) = {} THEN poi.bot ELSE hi[k]]
<1>1. /\ poi.top \in 0..Height /\ poi.bot \in 0..Height /\ poi.top < poi.bot /\ Height \in Nat
  BY EdgeFacts, BoundsAssumption DEF SweepInv
<1>2. ASSUME NEW k \in hit
      PROVE  /\ k \in DOMAIN active /\ lo[k] \in 0..Height /\ hi[k] \in 0..Height /\ lo[k] < hi[k]
             /\ poi.bot > lo[k] /\ poi.top < hi[k]
  <2>1. k \in DOMAIN active /\ poi.bot > MinY(active[k]) /\ poi.top < MaxY(active[k])
    BY DEF Hit, Meets
  <2> QED BY <2>1, ActiveFacts
<1>3. ASSUME NEW j \in hit, NEW k \in hit, j # k
      PROVE  hi[j] <= lo[k] \/ hi[k] <= lo[j]
  <2>1. j \in DOMAIN active /\ k \in DOMAIN active
    BY <1>2
  <2> QED BY <1>3, <2>1, ActiveFacts
<1>4. Share(poi, hit) = [k \in hit |-> Span(poi.id, F[k], T[k])]
  <2>1. \A k \in hit : {MaxY(active[j]) : j \in {i \in hit : MinY(active[i]) < MinY(active[k])}}
                          = Higher(k)
    OBVIOUS
  <2>2. \A k \in hit : {j \in hit : MinY(active[j]) > MinY(active[k])} = Lower(k)
    OBVIOUS
  <2> HIDE DEF hit, Higher, Lower
  <2>3. \A k \in hit : hi[k] = MaxY(active[k])
    OBVIOUS
  <2> QED BY <2>1, <2>2, <2>3 DEF Share
<1> HIDE DEF lo, hi, hit
<1>5. ASSUME NEW k \in hit, Higher(k) # {}
      PROVE  /\ Max(Higher(k)) \in 0..Height /\ Max(Higher(k)) <= lo[k] /\ poi.top <= Max(Higher(k))
             /\ \A j \in hit : lo[j] < lo[k] => hi[j] <= Max(Higher(k))
  <2>1. Higher(k) \in SUBSET (0..Height)
    BY <1>2
  <2>2. \A j \in hit : lo[j] < lo[k] => hi[j] \in Higher(k)
    OBVIOUS
  <2>3. \A y \in Higher(k) : y <= lo[k] /\ poi.top <= y
    <3> SUFFICES ASSUME NEW j \in hit, lo[j] < lo[k] PROVE hi[j] <= lo[k] /\ poi.top <= hi[j]
      OBVIOUS
    <3>1. j # k
      BY <1>2
    <3>2. hi[j] <= lo[k] \/ hi[k] <= lo[j]
      BY <1>3, <3>1
    <3> QED BY <1>1, <1>2, <3>2
  <2> HIDE DEF Higher
  <2>4. Max(Higher(k)) \in Higher(k) /\ \A y \in Higher(k) : y <= Max(Higher(k))
    BY <1>1, <1>5, <2>1, MaxOfNaturals
  <2> QED BY <2>1, <2>2, <2>3, <2>4
<1>6. ASSUME NEW k \in hit
      PROVE  /\ F[k] \in 0..Height /\ T[k] \in 0..Height
             /\ poi.top <= F[k] /\ F[k] < T[k] /\ T[k] <= poi.bot
  <2>1. F[k] \in 0..Height /\ poi.top <= F[k] /\ (Higher(k) # {} => F[k] <= lo[k])
        /\ (Higher(k) = {} => F[k] = poi.top)
    <3> HIDE DEF Higher
    <3> QED BY <1>1, <1>5
  <2>2. T[k] \in 0..Height /\ T[k] <= poi.bot /\ (T[k] = poi.bot \/ T[k] = hi[k])
    <3>1. ASSUME NEW j \in hit, lo[j] > lo[k] PROVE hi[k] <= poi.bot
      <4>1. j # k
        BY <1>2, <3>1
      <4>2. hi[j] <= lo[k] \/ hi[k] <= lo[j]
        BY <1>3, <4>1
      <4> QED BY <1>1, <1>2, <3>1, <4>2
    <3> QED BY <1>1, <1>2, <3>1
  <2> HIDE DEF F, T, Higher
  <2>3. F[k] < T[k]
    BY <1>1, <1>2, <2>1, <2>2
  <2> QED BY <2>1, <2>2, <2>3
<1>7. ASSUME NEW j \in hit, NEW k \in hit, hi[j] <= lo[k], j # k
      PROVE  T[j] = hi[j] /\ hi[j] <= F[k]
  <2>1. lo[j] < lo[k]
    BY <1>2, <1>7
  <2>2. k \in Lower(j) /\ hi[j] \in Higher(k)
    BY <1>2, <2>1
  <2>3. T[j] = hi[j]
    BY <2>2
  <2>4. hi[j] <= F[k]
    <3>1. F[k] = Max(Higher(k))
      BY <2>2
    <3> QED BY <1>5, <2>1, <2>2, <3>1
  <2> QED BY <2>3, <2>4
<1>11. ASSUME NEW y \in Nat, poi.top <= y, y < poi.bot, hit # {}
       PROVE  \E k \in hit : F[k] <= y /\ y < T[k]
  <2> DEFINE los == {lo[k] : k \in hit}
             S == {k \in hit : y < T[k]}
             firsts == {lo[k] : k \in S}
  <2>1. \E low \in hit : \A j \in hit : ~(lo[j] > lo[low])
    <3>1. los \in SUBSET (0..Height) /\ los # {}
      BY <1>2, <1>11
    <3>2. (\A m \in los : \E k \in hit : lo[k] = m) /\ \A k \in hit : lo[k] \in los
      OBVIOUS
    <3> HIDE DEF los
    <3>3. Max(los) \in los /\ \A m \in los : m <= Max(los)
      BY <1>1, <3>1, MaxOfNaturals
    <3>4. PICK low \in hit : lo[low] = Max(los)
      BY <3>2, <3>3
    <3>5. \A j \in hit : lo[j] <= lo[low]
      BY <3>2, <3>3, <3>4
    <3> QED BY <1>2, <3>5
  <2>2. PICK low \in hit : \A j \in hit : ~(lo[j] > lo[low])
    BY <2>1
  <2>3. T[low] = poi.bot
    BY <2>2
  <2>4. \E k \in S : \A j \in S : lo[k] <= lo[j]
    <3>1. low \in S
      BY <1>11, <2>3
    <3>2. (\A k \in S : k \in hit /\ lo[k] \in firsts) /\ \A m \in firsts : \E k \in S : lo[k] = m
      OBVIOUS
    <3> HIDE DEF S
    <3>3. firsts \in SUBSET Nat /\ firsts # {}
      BY <1>2, <3>1, <3>2
    <3> HIDE DEF firsts
    <3>4. Min(firsts) \in firsts /\ \A m \in firsts : Min(firsts) <= m
      BY <3>3, MinOfNaturals
    <3> QED BY <3>2, <3>4
  <2>5. PICK k \in S : \A j \in S : lo[k] <= lo[j]
    BY <2>4
  <2>6. k \in hit /\ y < T[k] /\ \A j \in hit : y < T[j] => lo[k] <= lo[j]
    BY <2>5
  <2>7. F[k] <= y
    <3>1. CASE Higher(k) = {}
      BY <1>11, <2>6, <3>1
    <3>2. CASE Higher(k) # {}
      <4> DEFINE M == Higher(k)
      <4>1. M \in SUBSET (0..Height)
        BY <1>2
      <4>2. \A m \in M : \E j \in hit : lo[j] < lo[k] /\ hi[j] = m
        OBVIOUS
      <4>3. M # {} /\ F[k] = Max(M)
        BY <2>6, <3>2
      <4> HIDE DEF M
      <4>4. Max(M) \in M
        BY <1>1, <4>1, <4>3, MaxOfNaturals
      <4>5. PICK j \in hit : lo[j] < lo[k] /\ hi[j] = F[k]
        BY <4>2, <4>3, <4>4
      <4>6. k \in Lower(j)
        BY <1>2, <2>6, <4>5
      <4>7. T[j] = hi[j]
        BY <4>6
      <4>8. ~(y < hi[j])
        <5>1. y < T[j] => lo[k] <= lo[j]
          BY <2>6
        <5>2. lo[k] \in Nat /\ lo[j] \in Nat
          BY <1>2, <2>6
        <5> HIDE DEF F, T, Lower
        <5> QED BY <4>5, <4>7, <5>1, <5>2
      <4>9. hi[j] \in Nat
        BY <1>2
      <4> HIDE DEF F
      <4> QED BY <1>11, <4>5, <4>8, <4>9
    <3> QED BY <3>1, <3>2
  <2> QED BY <2>6, <2>7
<1>8. F \in [hit -> 0..Height] /\ T \in [hit -> 0..Height]
  BY <1>6
<1>9. \A k \in hit : lo[k] = MinY(active[k]) /\ hi[k] = MaxY(active[k])
  BY DEF lo, hi
<1> HIDE DEF F, T
<1>10. Shares(poi, hit, F, T)
  BY <1>4, <1>6, <1>7, <1>8, <1>9, <1>11 DEF Shares
<1> QED BY <1>10 DEF hit

(* A region the edge does not meet is above it, and above all those it     *)
(* meets, or below.                                                        *)
LEMMA Beside ==
    ASSUME SweepInv, NEW poi \in Edges(rects), NEW k \in DOMAIN active, k \notin Hit(poi)
    PROVE  \/ /\ MaxY(active[k]) <= poi.top
              /\ \A j \in Hit(poi) : MaxY(active[k]) <= MinY(active[j])
           \/ /\ poi.bot <= MinY(active[k])
              /\ \A j \in Hit(poi) : MaxY(active[j]) <= MinY(active[k])
<1>1. poi.top \in 0..Height /\ poi.bot \in 0..Height
  BY EdgeFacts DEF SweepInv
<1>2. MinY(active[k]) \in 0..Height /\ MaxY(active[k]) \in 0..Height /\ MinY(active[k]) < MaxY(active[k])
  BY ActiveFacts
<1>3. MaxY(active[k]) <= poi.top \/ poi.bot <= MinY(active[k])
  BY <1>1, <1>2 DEF Hit, Meets
<1>4. ASSUME NEW j \in Hit(poi)
      PROVE  /\ MinY(active[j]) \in 0..Height /\ MaxY(active[j]) \in 0..Height
             /\ MinY(active[j]) < MaxY(active[j])
             /\ poi.bot > MinY(active[j]) /\ poi.top < MaxY(active[j])
             /\ MaxY(active[k]) <= MinY(active[j]) \/ MaxY(active[j]) <= MinY(active[k])
  <2>1. j \in DOMAIN active /\ j # k /\ poi.bot > MinY(active[j]) /\ poi.top < MaxY(active[j])
    BY DEF Hit, Meets
  <2> QED BY <2>1, ActiveFacts
<1>5. CASE MaxY(active[k]) <= poi.top
  <2>1. ASSUME NEW j \in Hit(poi) PROVE MaxY(active[k]) <= MinY(active[j])
    BY <1>1, <1>2, <1>4, <1>5
  <2> QED BY <1>5, <2>1
<1>6. CASE poi.bot <= MinY(active[k])
  <2>1. ASSUME NEW j \in Hit(poi) PROVE MaxY(active[j]) <= MinY(active[k])
    BY <1>1, <1>2, <1>4, <1>6
  <2> QED BY <1>6, <2>1
<1> QED BY <1>3, <1>5, <1>6

(* The regions once a left edge has been shared out.                       *)
Taken(poi, F, T, k) ==
    IF k \notin Hit(poi) THEN active[k] ELSE Join(active[k], poi, F[k], T[k])

LEMMA TakenReach ==
    ASSUME SweepInv, NEW poi \in Edges(rects), NEW F, NEW T, Shares(poi, Hit(poi), F, T),
           NEW k \in Hit(poi), NEW m \in Nat
    PROVE  /\ MaxY(active[k]) <= m /\ T[k] <= m => \A p \in Taken(poi, F, T, k).points : p.y <= m
           /\ m <= MinY(active[k]) /\ m <= F[k] => \A p \in Taken(poi, F, T, k).points : m <= p.y
<1>1. k \in DOMAIN active
  BY DEF Hit
<1>2. F[k] \in 0..Height /\ T[k] \in 0..Height /\ F[k] < T[k]
  BY DEF Shares
<1>3. poi.id \in Nat
  BY EdgeFacts DEF SweepInv
<1>4. Taken(poi, F, T, k).points = active[k].points \cup Span(poi.id, F[k], T[k])
  BY DEF Taken, Join
<1>5. \A p \in Span(poi.id, F[k], T[k]) : p.y = F[k] \/ p.y = T[k]
  BY DEF Span
<1>6. /\ \A p \in active[k].points :
           p.y \in 0..Height /\ MinY(active[k]) <= p.y /\ p.y <= MaxY(active[k])
      /\ MinY(active[k]) \in 0..Height /\ MaxY(active[k]) \in 0..Height
  BY <1>1, ActiveFacts, Extent
<1>7. \A y \in 0..Height : y \in Nat
  OBVIOUS
<1>8. ASSUME MaxY(active[k]) <= m, T[k] <= m, NEW p \in Taken(poi, F, T, k).points
      PROVE  p.y <= m
  BY <1>2, <1>4, <1>5, <1>6, <1>7, <1>8
<1>9. ASSUME m <= MinY(active[k]), m <= F[k], NEW p \in Taken(poi, F, T, k).points
      PROVE  m <= p.y
  BY <1>2, <1>4, <1>5, <1>6, <1>7, <1>9
<1> QED BY <1>8, <1>9

LEMMA TakenApart ==
    ASSUME SweepInv, NEW poi \in Edges(rects), NEW F, NEW T, Shares(poi, Hit(poi), F, T),
           NEW j \in DOMAIN active, NEW k \in DOMAIN active, j # k
    PROVE  \/ Upon(Taken(poi, F, T, j), Taken(poi, F, T, k))
           \/ Upon(Taken(poi, F, T, k), Taken(poi, F, T, j))
<1> DEFINE New(n) == Taken(poi, F, T, n)
<1>1. ASSUME NEW n \in Nat, NEW a, NEW b, \A p \in New(a).points : p.y \in Nat /\ p.y <= n,
             \A p \in New(b).points : p.y \in Nat /\ n <= p.y
      PROVE  Upon(New(a), New(b))
  BY <1>1 DEF Upon
<1>2. ASSUME NEW n \in DOMAIN active
      PROVE  /\ MinY(active[n]) \in Nat /\ MaxY(active[n]) \in Nat
             /\ \A p \in New(n).points : p.y \in Nat
             /\ n \notin Hit(poi) => New(n) = active[n]
                   /\ \A p \in New(n).points : MinY(active[n]) <= p.y /\ p.y <= MaxY(active[n])
  <2>1. MinY(active[n]) \in Nat /\ MaxY(active[n]) \in Nat
        /\ active[n] \in Regions /\ active[n].points # {}
    BY ActiveFacts
  <2>2. \A p \in active[n].points : p.y \in Nat /\ MinY(active[n]) <= p.y /\ p.y <= MaxY(active[n])
    BY <2>1, Extent
  <2>3. n \notin Hit(poi) => New(n) = active[n]
    BY DEF Taken
  <2>4. CASE n \in Hit(poi)
    <3>1. F[n] \in Nat /\ T[n] \in Nat
      BY <2>4 DEF Shares
    <3>2. New(n).points = active[n].points \cup Span(poi.id, F[n], T[n])
      BY <2>4 DEF Taken, Join
    <3>3. \A p \in Span(poi.id, F[n], T[n]) : p.y = F[n] \/ p.y = T[n]
      BY DEF Span
    <3> QED BY <2>1, <2>2, <2>4, <3>1, <3>2, <3>3
  <2> QED BY <2>1, <2>2, <2>3, <2>4
<1>3. ASSUME NEW n \in Hit(poi)
      PROVE  /\ n \in DOMAIN active /\ F[n] \in Nat /\ T[n] \in Nat /\ poi.top \in Nat /\ poi.bot \in Nat
             /\ poi.top <= F[n] /\ F[n] < T[n] /\ T[n] <= poi.bot
  <2>1. poi.top \in 0..Height /\ poi.bot \in 0..Height /\ F[n] \in 0..Height /\ T[n] \in 0..Height
    BY EdgeFacts DEF SweepInv, Shares
  <2> QED BY <2>1 DEF Hit, Shares
<1>4. ASSUME NEW a \in DOMAIN active, NEW b \in Hit(poi), a \notin Hit(poi)
      PROVE  Upon(New(a), New(b)) \/ Upon(New(b), New(a))
  <2>1. /\ MinY(active[a]) \in Nat /\ MaxY(active[a]) \in Nat
        /\ MinY(active[b]) \in Nat /\ MaxY(active[b]) \in Nat
    BY <1>2, <1>3
  <2>2. CASE MaxY(active[a]) <= poi.top /\ MaxY(active[a]) <= MinY(active[b])
    <3>1. MaxY(active[a]) <= F[b]
      BY <1>3, <2>1, <2>2
    <3>2. \A p \in New(b).points : MaxY(active[a]) <= p.y
      BY <2>1, <2>2, <3>1, TakenReach
    <3> HIDE DEF New
    <3> QED BY <1>1, <1>2, <1>3, <1>4, <2>1, <3>2
  <2>3. CASE poi.bot <= MinY(active[a]) /\ MaxY(active[b]) <= MinY(active[a])
    <3>1. T[b] <= MinY(active[a])
      BY <1>3, <2>1, <2>3
    <3>2. \A p \in New(b).points : p.y <= MinY(active[a])
      BY <2>1, <2>3, <3>1, TakenReach
    <3> HIDE DEF New
    <3> QED BY <1>1, <1>2, <1>3, <1>4, <2>1, <3>2
  <2> QED BY <1>4, <2>2, <2>3, Beside
<1>5. ASSUME NEW a \in Hit(poi), NEW b \in Hit(poi), a # b, MaxY(active[a]) <= MinY(active[b])
      PROVE  Upon(New(a), New(b))
  <2>1. MaxY(active[a]) \in Nat
    BY <1>2, <1>3
  <2>2. T[a] = MaxY(active[a]) /\ MaxY(active[a]) <= F[b]
    BY <1>5 DEF Shares
  <2>3. \A p \in New(a).points : p.y <= MaxY(active[a])
    BY <2>1, <2>2, TakenReach
  <2>4. \A p \in New(b).points : MaxY(active[a]) <= p.y
    BY <1>5, <2>1, <2>2, TakenReach
  <2> HIDE DEF New
  <2> QED BY <1>1, <1>2, <1>3, <2>1, <2>3, <2>4
<1>6. CASE j \notin Hit(poi) /\ k \notin Hit(poi)
  <2>1. New(j) = active[j] /\ New(k) = active[k]
    BY <1>2, <1>6
  <2>2. Upon(active[j], active[k]) \/ Upon(active[k], active[j])
    BY DEF SweepInv
  <2> QED BY <2>1, <2>2
<1>7. CASE j \in Hit(poi) /\ k \in Hit(poi)
  <2>1. MaxY(active[j]) <= MinY(active[k]) \/ MaxY(active[k]) <= MinY(active[j])
    BY ActiveFacts
  <2> QED BY <1>5, <1>7, <2>1
<1> HIDE DEF New
<1> HIDE DEF New
<1>8. CASE j \notin Hit(poi) /\ k \in Hit(poi)
  BY <1>4, <1>8 DEF New
<1>9. CASE j \in Hit(poi) /\ k \notin Hit(poi)
  BY <1>4, <1>9 DEF New
<1> QED BY <1>6, <1>7, <1>8, <1>9 DEF New

(* A left edge keeps the regions whole and apart.                          *)
LEMMA StartKeeps ==
    ASSUME SweepInv, NEW poi \in Edges(rects), rects # <<>>, poi \in todo, poi.kind = "START",
           todo' = todo \ {poi}, Start(poi, Hit(poi)), UNCHANGED rects
    PROVE  SweepInv'
<1>1. rects \in Seq(Rects) /\ active \in Seq(Regions)
  BY DEF SweepInv
<1>2. rects' \in Seq(Rects) /\ todo' \subseteq Edges(rects') /\ Cutting'
  BY DEF SweepInv, Cutting, Edges, Edge
<1>3. /\ poi.id \in DOMAIN rects /\ poi = Edge(rects, poi.id, "START")
      /\ \A k \in DOMAIN active : \A i \in active[k].ids :
            i # poi.id /\ Edge(rects, i, "START") \notin todo'
  <2>1. poi.id \in DOMAIN rects /\ poi = Edge(rects, poi.id, "START")
    BY <1>1, EdgeFacts
  <2> QED BY <2>1 DEF SweepInv
<1>4. ASSUME \A k \in DOMAIN active' : \A i \in active'[k].ids :
                i = poi.id \/ \E n \in DOMAIN active : i \in active[n].ids
      PROVE  (\A k \in DOMAIN active : \A i \in active[k].ids : Edge(rects, i, "START") \notin todo)'
  <2>1. \A k \in DOMAIN active' : \A i \in active'[k].ids : Edge(rects, i, "START") \notin todo'
    BY <1>3, <1>4
  <2> QED BY <2>1 DEF Edge
<1>5. ASSUME \A k \in DOMAIN active' : Whole(active'[k])
      PROVE  (\A k \in DOMAIN active : Whole(active[k]))'
  BY <1>5 DEF Whole, Held
<1>6. CASE Hit(poi) = {}
  <2> DEFINE new == NewRegion(poi)
             n == Len(active)
  <2>1. /\ poi.id \in DOMAIN rects /\ poi.id \in Nat /\ poi.x \in 0..Width
        /\ poi.top = rects[poi.id].top /\ poi.bot = rects[poi.id].bottom
        /\ poi.top \in 0..Height /\ poi.bot \in 0..Height /\ poi.top < poi.bot
    BY <1>1, EdgeFacts
  <2>2. /\ new.points \subseteq Points /\ \A p \in new.points : p.y = poi.top \/ p.y = poi.bot
        /\ \A p \in new.points : p.id = poi.id
        /\ \E p, q \in new.points :
              /\ p.id = poi.id /\ p.kind = "START" /\ q.id = poi.id /\ q.kind = "END"
              /\ p.y = poi.top /\ q.y = poi.bot
              /\ \A o \in new.points : o = p \/ o = q
    <3> DEFINE i == poi.id
               top == poi.top
               bot == poi.bot
    <3>1. i \in Nat /\ top \in 0..Height /\ bot \in 0..Height
      BY <2>1
    <3>2. new.points = Span(i, top, bot)
      BY DEF NewRegion
    <3> HIDE DEF i, top, bot
    <3>3. /\ Span(i, top, bot) \subseteq Points
          /\ \A p \in Span(i, top, bot) : p.id = i /\ (p.y = top \/ p.y = bot)
          /\ \E p, q \in Span(i, top, bot) :
                /\ p.id = i /\ p.kind = "START" /\ q.id = i /\ q.kind = "END"
                /\ p.y = top /\ q.y = bot
                /\ \A o \in Span(i, top, bot) : o = p \/ o = q
      BY <3>1, SpanIsPoints
    <3> QED BY <3>2, <3>3 DEF i, top, bot
  <2>3. new.sx = poi.x /\ new.ids = {poi.id}
    BY DEF NewRegion
  <2>4. new \in Regions
    <3>1. new.points \in SUBSET Points /\ new.ids \in SUBSET Nat
      BY <2>1, <2>2, <2>3
    <3> QED BY <2>1, <3>1 DEF NewRegion, Regions
  <2> HIDE DEF new
  <2>5. Whole(new)
    BY <2>1, <2>2, <2>3 DEF Whole, Held
  <2>6. ASSUME NEW k \in DOMAIN active PROVE Upon(active[k], new) \/ Upon(new, active[k])
    <3>1. MaxY(active[k]) <= poi.top \/ poi.bot <= MinY(active[k])
      BY <1>6, Beside
    <3>2. MaxY(active[k]) \in Nat /\ MinY(active[k]) \in Nat /\ active[k] \in Regions /\ active[k].points # {}
      BY ActiveFacts
    <3>3. \A p \in active[k].points : p.y \in Nat /\ MinY(active[k]) <= p.y /\ p.y <= MaxY(active[k])
      BY <3>2, Extent
    <3>4. poi.top \in Nat /\ poi.bot \in Nat
      BY <2>1
    <3>5. CASE MaxY(active[k]) <= poi.top
      BY <2>1, <2>2, <3>2, <3>3, <3>4, <3>5 DEF Upon
    <3>6. CASE poi.bot <= MinY(active[k])
      BY <2>1, <2>2, <3>2, <3>3, <3>4, <3>6 DEF Upon
    <3> QED BY <3>1, <3>5, <3>6
  <2>7. active' = Append(active, new)
    BY <1>6 DEF Start, new
  <2>8. /\ active' \in Seq(Regions) /\ n \in Nat /\ DOMAIN active = 1..n /\ DOMAIN active' = 1..(n + 1)
        /\ active'[n + 1] = new /\ \A k \in DOMAIN active : active'[k] = active[k]
    BY <1>1, <2>4, <2>7
  <2> HIDE DEF n
  <2>9. \A k \in DOMAIN active' : k \in DOMAIN active \/ k = n + 1
    BY <2>8
  <2>10. \A k \in DOMAIN active' : Whole(active'[k])
    BY <2>5, <2>8, <2>9 DEF SweepInv
  <2>11. \A k \in DOMAIN active' : \A i \in active'[k].ids :
            i = poi.id \/ \E o \in DOMAIN active : i \in active[o].ids
    BY <2>3, <2>8, <2>9
  <2>12. \A j, k \in DOMAIN active' :
            j # k => Upon(active'[j], active'[k]) \/ Upon(active'[k], active'[j])
    BY <2>6, <2>8, <2>9 DEF SweepInv
  <2> QED BY <1>2, <1>5, <1>4, <2>11, <2>8, <2>10, <2>12 DEF SweepInv, Upon
<1>7. CASE Hit(poi) # {}
  <2>1. PICK F, T : Shares(poi, Hit(poi), F, T)
    BY SharesFit
  <2>2. active' = [k \in DOMAIN active |-> Taken(poi, F, T, k)]
    <3>1. \A k \in Hit(poi) : Share(poi, Hit(poi))[k] = Span(poi.id, F[k], T[k])
      BY <2>1 DEF Shares
    <3>2. active' = [k \in DOMAIN active |->
                      IF k \notin Hit(poi) THEN active[k]
                      ELSE [sx |-> poi.x, ids |-> active[k].ids \cup {poi.id},
                            points |-> active[k].points \cup Share(poi, Hit(poi))[k]]]
      BY <1>7 DEF Start
    <3> QED BY <3>1, <3>2 DEF Taken, Join
  <2>3. ASSUME NEW k \in DOMAIN active
        PROVE  Taken(poi, F, T, k) \in Regions /\ Whole(Taken(poi, F, T, k))
    <3>1. active[k] \in Regions /\ Whole(active[k])
      BY ActiveFacts
    <3>2. CASE k \in Hit(poi)
      <4> DEFINE r == active[k]
                 top == F[k]
                 bot == T[k]
      <4>1. /\ top \in 0..Height /\ bot \in 0..Height
            /\ poi.top <= top /\ top < bot /\ bot <= poi.bot
        BY <2>1, <3>2 DEF Shares
      <4>2. Taken(poi, F, T, k) = Join(r, poi, top, bot)
        BY <3>2 DEF Taken
      <4>3. r \in Regions /\ Whole(r) /\ poi.id \notin r.ids
        BY <1>3, <3>1
      <4> HIDE DEF r, top, bot
      <4>4. Join(r, poi, top, bot) \in Regions /\ Whole(Join(r, poi, top, bot))
        BY <1>1, <4>1, <4>3, JoinIsWhole
      <4> QED BY <4>2, <4>4
    <3>3. CASE k \notin Hit(poi)
      BY <3>1, <3>3 DEF Taken
    <3> QED BY <3>2, <3>3
  <2>4. active' \in Seq(Regions) /\ DOMAIN active' = DOMAIN active
    BY <1>1, <2>2, <2>3
  <2>5. \A k \in DOMAIN active' : Whole(active'[k])
    BY <2>2, <2>3
  <2>6. \A j, k \in DOMAIN active' :
            j # k => Upon(active'[j], active'[k]) \/ Upon(active'[k], active'[j])
    BY <2>1, <2>2, TakenApart
  <2>7. \A k \in DOMAIN active' : \A i \in active'[k].ids :
            i = poi.id \/ \E n \in DOMAIN active : i \in active[n].ids
    BY <2>2 DEF Taken, Join
  <2> QED BY <1>2, <1>5, <1>4, <2>4, <2>5, <2>6, <2>7 DEF SweepInv, Upon
<1> QED BY <1>6, <1>7

(* What a right edge leaves of a region.                                   *)
Left(poi, k) ==
    IF k \in Hit(poi) /\ active[k].sx # poi.x
      THEN Shrink(active[k], poi.x, Ending(poi, Hit(poi))[k])
      ELSE active[k]

(* The regions a right edge keeps: those it leaves a layer, each once.      *)
Leaves(poi, left) ==
    /\ \A i, j \in DOMAIN left : i # j => left[i] # left[j]
    /\ \A i \in DOMAIN left : Left(poi, left[i]).ids # {}
    /\ \A k \in DOMAIN active : Left(poi, k).ids # {} => \E i \in DOMAIN left : left[i] = k
    /\ active' = [i \in DOMAIN left |-> Left(poi, left[i])]

LEMMA EndLeaves ==
    ASSUME active \in Seq(Regions), NEW poi, End(poi, Hit(poi))
    PROVE  \E left \in Seq(DOMAIN active) : Leaves(poi, left)
<1> DEFINE gone == Ending(poi, Hit(poi))
           After(k) == IF k \notin DOMAIN gone THEN active[k]
                       ELSE [sx |-> poi.x, ids |-> active[k].ids \ gone[k],
                             points |-> {p \in active[k].points : p.id \notin gone[k]}]
           S == {k \in DOMAIN active : After(k).ids # {}}
<1>1. PICK left \in SetToSeqs(S) : active' = [i \in DOMAIN left |-> After(left[i])]
  BY DEF End
<1>2. DOMAIN gone = {k \in Hit(poi) : active[k].sx # poi.x}
  BY DEF Ending
<1> HIDE DEF gone
<1>3. \A k : After(k) = Left(poi, k)
  BY <1>2 DEF Left, Shrink, gone
<1>4. IsFiniteSet(S)
  <2>1. DOMAIN active = 1..Len(active) /\ Len(active) \in Nat
    OBVIOUS
  <2>2. IsFiniteSet(DOMAIN active)
    BY <2>1, FS_Interval
  <2>3. S \subseteq DOMAIN active
    OBVIOUS
  <2> HIDE DEF S
  <2> QED BY <2>2, <2>3, FS_Subset
<1>5. \A k \in S : k \in DOMAIN active /\ After(k).ids # {}
  OBVIOUS
<1>12. \A k \in DOMAIN active : After(k).ids # {} => k \in S
  OBVIOUS
<1> HIDE DEF S, After
<1>6. Cardinality(S) \in Nat
  BY <1>4, FS_CardinalityType
<1>7. left \in [1..Cardinality(S) -> S] /\ \A i, j \in 1..Cardinality(S) : i # j => left[i] # left[j]
  BY <1>1 DEF SetToSeqs
<1>8. left \in Seq(DOMAIN active) /\ DOMAIN left = 1..Cardinality(S)
  BY <1>5, <1>6, <1>7
<1>9. \A i \in DOMAIN left : left[i] \in S
  BY <1>7
<1>10. \A i \in DOMAIN left : Left(poi, left[i]).ids # {}
  BY <1>3, <1>5, <1>9
<1>11. active' = [i \in DOMAIN left |-> Left(poi, left[i])]
  BY <1>1, <1>3
<1>13. \A k \in S : \E i \in DOMAIN left : left[i] = k
  <2> DEFINE n == Cardinality(S)
             D == 1..n
  <2>1. IsFiniteSet(D) /\ Cardinality(D) = n
    <3> HIDE DEF n
    <3>1. n \in Nat /\ 1 \in Int /\ n \in Int
      BY <1>6 DEF n
    <3> QED BY <3>1, FS_Interval
  <2>2. left \in [D -> S] /\ \A i, j \in D : i # j => left[i] # left[j]
    BY <1>7
  <2> HIDE DEF D
  <2>3. left \in Injection(D, S)
    BY <2>2 DEF Injection, IsInjective
  <2>4. left \in Surjection(D, S)
    BY <1>4, <2>1, <2>3, FS_Injection DEF n
  <2> QED BY <1>8, <2>4 DEF Surjection, D
<1>14. \A k \in DOMAIN active : Left(poi, k).ids # {} => \E i \in DOMAIN left : left[i] = k
  BY <1>3, <1>12, <1>13
<1>15. \A i, j \in DOMAIN left : i # j => left[i] # left[j]
  BY <1>7, <1>8
<1>16. Leaves(poi, left)
  BY <1>10, <1>11, <1>14, <1>15 DEF Leaves
<1> QED BY <1>8, <1>16

LEMMA LeftIsWhole ==
    ASSUME SweepInv, NEW poi \in Edges(rects), NEW k \in DOMAIN active, Left(poi, k).ids # {}
    PROVE  Left(poi, k) \in Regions /\ Whole(Left(poi, k))
<1>1. poi.x \in 0..Width
  BY EdgeFacts DEF SweepInv
<1>2. active[k] \in Regions /\ Whole(active[k])
  BY ActiveFacts
<1>3. CASE k \in Hit(poi) /\ active[k].sx # poi.x
  <2> DEFINE r == active[k]
             x == poi.x
             gone == Ending(poi, Hit(poi))[k]
  <2>1. Left(poi, k) = Shrink(r, x, gone)
    BY <1>3 DEF Left
  <2>2. r \in Regions /\ Whole(r) /\ x \in 0..Width
    BY <1>1, <1>2
  <2> HIDE DEF r, x, gone
  <2>3. r.ids \ gone # {}
    BY <2>1 DEF Shrink
  <2> QED BY <2>1, <2>2, <2>3, ShrinkIsWhole
<1>4. CASE ~(k \in Hit(poi) /\ active[k].sx # poi.x)
  BY <1>2, <1>4 DEF Left
<1> QED BY <1>3, <1>4

(* A right edge keeps the regions whole and apart.                         *)
LEMMA EndKeeps ==
    ASSUME SweepInv, NEW poi \in Edges(rects), rects # <<>>, todo' \subseteq todo,
           End(poi, Hit(poi)), UNCHANGED rects
    PROVE  SweepInv'
<1>1. rects \in Seq(Rects) /\ active \in Seq(Regions) /\ poi.x \in 0..Width
  BY EdgeFacts DEF SweepInv
<1>2. rects' \in Seq(Rects) /\ todo' \subseteq Edges(rects') /\ Cutting'
  BY DEF SweepInv, Cutting, Edges, Edge
<1>3. ASSUME \A k \in DOMAIN active' : Whole(active'[k])
      PROVE  (\A k \in DOMAIN active : Whole(active[k]))'
  BY <1>3 DEF Whole, Held
<1>0. PICK left \in Seq(DOMAIN active) : Leaves(poi, left)
  BY <1>1, EndLeaves
<1>4. /\ \A i, j \in DOMAIN left : i # j => left[i] # left[j]
      /\ \A i \in DOMAIN left : Left(poi, left[i]).ids # {}
      /\ \A k \in DOMAIN active : Left(poi, k).ids # {} => \E i \in DOMAIN left : left[i] = k
      /\ active' = [i \in DOMAIN left |-> Left(poi, left[i])]
  BY <1>0 DEF Leaves
<1>5. ASSUME NEW k \in DOMAIN active, Left(poi, k).ids # {}
      PROVE  Left(poi, k) \in Regions /\ Whole(Left(poi, k))
  BY <1>5, LeftIsWhole
<1>6. ASSUME NEW k \in DOMAIN active PROVE Left(poi, k).points \subseteq active[k].points
  BY DEF Left, Shrink
<1>7. DOMAIN active' = DOMAIN left /\ \A i \in DOMAIN left : left[i] \in DOMAIN active
  BY <1>4
<1>8. active' \in Seq(Regions)
  <2>1. DOMAIN left = 1..Len(left) /\ Len(left) \in Nat
    BY <1>4
  <2>2. \A i \in DOMAIN left : Left(poi, left[i]) \in Regions
    BY <1>4, <1>5, <1>7
  <2> QED BY <1>4, <2>1, <2>2
<1>9. \A k \in DOMAIN active' : Whole(active'[k])
  BY <1>4, <1>5, <1>7
<1>10. (\A k \in DOMAIN active : \A i \in active[k].ids : Edge(rects, i, "START") \notin todo)'
  <2>1. ASSUME NEW k \in DOMAIN active', NEW i \in active'[k].ids
        PROVE  Edge(rects, i, "START") \notin todo'
    <3>1. left[k] \in DOMAIN active /\ active'[k] = Left(poi, left[k])
      BY <1>4, <1>7
    <3>2. i \in active[left[k]].ids
      BY <2>1, <3>1 DEF Left, Shrink
    <3> QED BY <3>1, <3>2 DEF SweepInv
  <2> QED BY <2>1 DEF Edge
<1>11. ASSUME NEW j \in DOMAIN left, NEW k \in DOMAIN left, j # k
       PROVE  Upon(active'[j], active'[k]) \/ Upon(active'[k], active'[j])
  <2>1. left[j] \in DOMAIN active /\ left[k] \in DOMAIN active /\ left[j] # left[k]
    BY <1>4, <1>7, <1>11
  <2>2. Upon(active[left[j]], active[left[k]]) \/ Upon(active[left[k]], active[left[j]])
    BY <2>1 DEF SweepInv
  <2>3. active'[j].points \subseteq active[left[j]].points /\ active'[k].points \subseteq active[left[k]].points
    BY <1>4, <1>6, <1>7
  <2> QED BY <2>2, <2>3 DEF Upon
<1> QED BY <1>2, <1>3, <1>10, <1>7, <1>8, <1>9, <1>11 DEF SweepInv, Upon

(* So does the line's move to the next edge.                               *)
LEMMA NextEdgeKeeps ==
    ASSUME SweepInv, NextEdge
    PROVE  SweepInv'
<1>1. PICK poi \in todo :
        /\ todo' = todo \ {poi} /\ UNCHANGED rects
        /\ IF poi.kind = "START" THEN Start(poi, Hit(poi)) ELSE End(poi, Hit(poi))
  BY DEF NextEdge, Hit
<1>2. poi \in Edges(rects) /\ rects # <<>> /\ todo' \subseteq todo
  BY <1>1 DEF SweepInv, Cutting
<1>3. CASE poi.kind = "START"
  BY <1>1, <1>2, <1>3, StartKeeps
<1>4. CASE poi.kind # "START"
  BY <1>1, <1>2, <1>4, EndKeeps
<1> QED BY <1>3, <1>4

-----------------------------------------------------------------------------
(* The layers of a plane with those kept for it, in their order.           *)
LEMMA LayersAscend ==
    ASSUME FrameInv, at \in DOMAIN planes
    PROVE  /\ dedicated \o planes[at].sources \in Seq(DOMAIN frames)
           /\ \A i, j \in DOMAIN (dedicated \o planes[at].sources) : i < j =>
                (dedicated \o planes[at].sources)[i] < (dedicated \o planes[at].sources)[j]
           /\ \A p \in DOMAIN planes : p > at =>
                \A i \in DOMAIN (dedicated \o planes[at].sources), j \in DOMAIN planes[p].sources :
                    (dedicated \o planes[at].sources)[i] < planes[p].sources[j]
<1> DEFINE own == planes[at].sources
           layers == dedicated \o own
           n == Len(dedicated)
<1>1. /\ own \in Seq(DOMAIN frames) /\ dedicated \in Seq(DOMAIN frames)
      /\ DOMAIN planes \subseteq Nat /\ at # 0
  <2>1. planes \in Plans(Len(frames)) /\ frames \in Seq(Rects)
    BY DEF FrameInv
  <2> DEFINE Plan == [state : {"kScanout", "kRender"}, sources : Seq(1..Len(frames)) \ {<<>>}]
  <2>2. planes \in Seq(Plan)
    BY <2>1 DEF Plans
  <2>3. \A plan \in Plan : plan.sources \in Seq(1..Len(frames))
    OBVIOUS
  <2> HIDE DEF Plan
  <2>4. DOMAIN frames = 1..Len(frames) /\ DOMAIN planes \subseteq Nat \ {0} /\ planes[at] \in Plan
    BY <2>1, <2>2
  <2>5. own \in Seq(DOMAIN frames)
    BY <2>3, <2>4
  <2>6. dedicated \in Seq(DOMAIN frames)
    BY DEF FrameInv
  <2> QED BY <2>4, <2>5, <2>6
<1>2. /\ \A i, j \in DOMAIN dedicated : i < j => dedicated[i] < dedicated[j]
      /\ \A i, j \in DOMAIN own : i < j => own[i] < own[j]
      /\ \A i \in DOMAIN dedicated, j \in DOMAIN own : dedicated[i] < own[j]
  <2>1. at >= at
    BY <1>1
  <2>2. \A i, j \in DOMAIN dedicated : i < j => dedicated[i] < dedicated[j]
    BY DEF FrameInv
  <2>3. \A i, j \in DOMAIN own : i < j => own[i] < own[j]
    BY DEF FrameInv, InOrder
  <2>4. \A i \in DOMAIN dedicated, j \in DOMAIN own : dedicated[i] < own[j]
    BY <1>1, <2>1 DEF FrameInv
  <2> QED BY <2>2, <2>3, <2>4
<1>3. \A p \in DOMAIN planes : p > at =>
         /\ \A i \in DOMAIN dedicated, j \in DOMAIN planes[p].sources : dedicated[i] < planes[p].sources[j]
         /\ \A i \in DOMAIN own, j \in DOMAIN planes[p].sources : own[i] < planes[p].sources[j]
  <2> SUFFICES ASSUME NEW p \in DOMAIN planes, p > at
      PROVE /\ \A i \in DOMAIN dedicated, j \in DOMAIN planes[p].sources : dedicated[i] < planes[p].sources[j]
            /\ \A i \in DOMAIN own, j \in DOMAIN planes[p].sources : own[i] < planes[p].sources[j]
    OBVIOUS
  <2>1. p >= at /\ at < p
    BY <1>1
  <2> QED BY <1>1, <2>1 DEF FrameInv, InOrder
<1> HIDE DEF own
<1>4. /\ layers \in Seq(DOMAIN frames) /\ n \in Nat /\ Len(own) \in Nat
      /\ DOMAIN layers = 1..(n + Len(own)) /\ DOMAIN own = 1..Len(own) /\ DOMAIN dedicated = 1..n
      /\ \A i \in DOMAIN layers : layers[i] = IF i <= n THEN dedicated[i] ELSE own[i - n]
  BY <1>1
<1> HIDE DEF layers, n
<1>5. \A i \in DOMAIN layers :
         \/ i \in DOMAIN dedicated /\ layers[i] = dedicated[i]
         \/ i > n /\ i - n \in DOMAIN own /\ layers[i] = own[i - n]
  BY <1>4
<1>6. ASSUME NEW i \in DOMAIN layers, NEW j \in DOMAIN layers, i < j PROVE layers[i] < layers[j]
  <2>1. CASE j \in DOMAIN dedicated
    <3>1. i \in DOMAIN dedicated
      BY <1>4, <1>6, <2>1
    <3> QED BY <1>2, <1>4, <1>6, <2>1, <3>1
  <2>2. CASE i \in DOMAIN dedicated /\ j > n /\ j - n \in DOMAIN own
    BY <1>2, <1>4, <2>2
  <2>3. CASE i > n /\ i - n \in DOMAIN own /\ j > n /\ j - n \in DOMAIN own
    <3>1. i - n < j - n
      BY <1>4, <1>6
    <3>2. layers[i] = own[i - n] /\ layers[j] = own[j - n]
      BY <1>4, <2>3
    <3> QED BY <1>2, <2>3, <3>1, <3>2
  <2> QED BY <1>5, <2>1, <2>2, <2>3
<1>7. \A p \in DOMAIN planes : p > at =>
         \A i \in DOMAIN layers, j \in DOMAIN planes[p].sources : layers[i] < planes[p].sources[j]
  BY <1>3, <1>5
<1> QED BY <1>4, <1>6, <1>7 DEF layers, own

LEMMA DrawStarts == DrawInit => FrameInv /\ SweepInv
<1> SUFFICES ASSUME DrawInit PROVE FrameInv /\ SweepInv
  OBVIOUS
<1>1. PICK c \in Compositions : frames = c.frames /\ opaque = c.opaque /\ planes = c.planes
  BY DEF DrawInit
<1>2. FrameInv
  BY <1>1, CompositionsAssumption DEF DrawInit, FrameInv
<1>3. SweepInv
  BY DEF DrawInit, SweepInv, Cutting
<1> QED BY <1>2, <1>3

LEMMA DrawKeeps == FrameInv /\ SweepInv /\ [DrawNext]_drawVars => FrameInv' /\ SweepInv'
<1> SUFFICES ASSUME FrameInv, SweepInv, [DrawNext]_drawVars PROVE FrameInv' /\ SweepInv'
  OBVIOUS
<1>1. ASSUME UNCHANGED regions PROVE SweepInv'
  BY <1>1 DEF regions, SweepInv, Cutting, Edges, Edge, Whole, Held, Upon
<1>2. CASE KeepDedicated
  <2>1. at \in DOMAIN planes /\ at' = at + 1 /\ dedicated' = dedicated \o planes[at].sources
        /\ UNCHANGED <<composition, regions>>
    BY <1>2 DEF KeepDedicated, Here
  <2>2. dedicated' \in Seq(DOMAIN frames)
        /\ (\A i, j \in DOMAIN dedicated' : i < j => dedicated'[i] < dedicated'[j])
        /\ \A p \in DOMAIN planes : p > at =>
                \A i \in DOMAIN dedicated', j \in DOMAIN planes[p].sources :
                    dedicated'[i] < planes[p].sources[j]
    BY <2>1, LayersAscend
  <2>3. at \in Nat /\ planes \in Seq([state : {"kScanout", "kRender"}, sources : Seq(1..Len(frames)) \ {<<>>}])
    BY DEF FrameInv, Plans
  <2>4. \A p \in DOMAIN planes : p >= at' => p > at
    BY <2>1, <2>3
  <2>5. frames' = frames /\ planes' = planes /\ at' \in Nat
    BY <2>1, <2>3 DEF composition
  <2>6. frames' \in Seq(Rects) /\ planes' \in Plans(Len(frames')) /\ InOrder(planes')
    BY <2>5 DEF FrameInv
  <2> DEFINE kept == dedicated'
  <2>7. /\ kept \in Seq(DOMAIN frames) /\ \A i, j \in DOMAIN kept : i < j => kept[i] < kept[j]
        /\ \A p \in DOMAIN planes : p >= at' =>
              \A i \in DOMAIN kept, j \in DOMAIN planes[p].sources : kept[i] < planes[p].sources[j]
    BY <2>2, <2>4
  <2>8. InOrder(planes)'
    BY <2>5, <2>6 DEF InOrder
  <2>9. Plans(Len(frames))' = Plans(Len(frames'))
    BY DEF Plans
  <2>10. FrameInv'
    BY <2>5, <2>6, <2>7, <2>8, <2>9 DEF FrameInv
  <2> QED BY <1>1, <2>1, <2>10
<1>3. CASE SeparateLayers
  <2>1. FrameInv'
    BY <1>3 DEF SeparateLayers, FrameInv, composition, InOrder, Plans
  <2> DEFINE layers == dedicated \o planes[at].sources
  <2>2. /\ rects' = [i \in DOMAIN layers |-> frames[layers[i]]] /\ todo' = Edges(rects')
        /\ active' = active /\ active = <<>> /\ out' = <<>> /\ at \in DOMAIN planes
    BY <1>3 DEF SeparateLayers, Here, SweepInv, Cutting
  <2>3. frames \in Seq(Rects) /\ layers \in Seq(DOMAIN frames)
    BY <2>2, LayersAscend DEF FrameInv
  <2> HIDE DEF layers
  <2>4. rects' \in Seq(Rects)
    <3>1. DOMAIN layers = 1..Len(layers) /\ Len(layers) \in Nat /\ \A i \in DOMAIN layers : frames[layers[i]] \in Rects
      BY <2>3
    <3> QED BY <2>2, <3>1
  <2>5. rects' = <<>> => todo' = {}
    BY <2>2 DEF Edges
  <2>6. SweepInv'
    BY <2>2, <2>4, <2>5 DEF SweepInv, Cutting, Edges, Edge
  <2> QED BY <2>1, <2>6
<1>4. CASE GetDrawRegions
  <2>1. FrameInv'
    BY <1>4 DEF GetDrawRegions, FrameInv, composition, InOrder, Plans
  <2> QED BY <1>4, <2>1, NextEdgeKeeps DEF GetDrawRegions
<1>5. CASE Render
  <2>1. /\ at' = at + 1 /\ dedicated' = <<>> /\ rects' = <<>> /\ active' = <<>> /\ out' = <<>> /\ todo' = {}
        /\ UNCHANGED composition
    BY <1>5 DEF Render
  <2>2. at \in Nat
    BY DEF FrameInv
  <2>3. FrameInv'
    BY <2>1, <2>2 DEF FrameInv, composition, InOrder, Plans
  <2>4. SweepInv'
    BY <2>1 DEF SweepInv, Cutting
  <2> QED BY <2>3, <2>4
<1>6. CASE DrawFails
  <2>1. /\ at' = 0 /\ rects' = <<>> /\ active' = <<>> /\ out' = <<>> /\ todo' = {} /\ UNCHANGED <<composition, dedicated>>
    BY <1>6 DEF DrawFails, SweepInv
  <2>2. FrameInv'
    BY <2>1 DEF FrameInv, composition, InOrder, Plans
  <2>3. SweepInv'
    BY <2>1 DEF SweepInv, Cutting
  <2> QED BY <2>2, <2>3
<1>7. CASE UNCHANGED drawVars
  <2>1. FrameInv'
    BY <1>7 DEF drawVars, composition, FrameInv, InOrder, Plans
  <2> QED BY <1>1, <1>7, <2>1 DEF drawVars
<1> QED BY <1>2, <1>3, <1>4, <1>5, <1>6, <1>7 DEF DrawNext

(* get_draw_regions, called for every plane the GPU composes, keeps its    *)
(* active regions apart however the layers of the plane overlap.           *)
THEOREM RegionsStayDisjoint == DrawSpec => []RegionsDisjoint
<1>1. SweepInv => RegionsDisjoint
  BY ActiveFacts DEF RegionsDisjoint
<1> QED BY <1>1, DrawStarts, DrawKeeps, PTL DEF DrawSpec

-----------------------------------------------------------------------------
(* A region meets the edges of the layers it holds.                        *)
LEMMA MeetsItsEdges ==
    ASSUME SweepInv, NEW k \in DOMAIN active, NEW i \in active[k].ids
    PROVE  i \in DOMAIN rects /\ Meets(active[k], Edge(rects, i, "END"))
<1>1. active[k] \in Regions /\ Whole(active[k]) /\ rects \in Seq(Rects)
  BY ActiveFacts DEF SweepInv
<1>2. i \in DOMAIN rects
  BY <1>1 DEF Whole
<1>3. MinY(active[k]) < rects[i].bottom /\ rects[i].top < MaxY(active[k])
  BY <1>1, WholeReaches
<1>4. /\ MinY(active[k]) \in 0..Height /\ MaxY(active[k]) \in 0..Height
      /\ rects[i].top \in 0..Height /\ rects[i].bottom \in 0..Height
  BY <1>1, <1>2, ActiveFacts, RectFacts
<1> QED BY <1>2, <1>3, <1>4, EdgeOf DEF Meets

(* Past a left edge, no region has come to the right edge of one of its    *)
(* layers.                                                                 *)
LEMMA StartInTime ==
    ASSUME SweepInv, EdgeInv, NEW poi \in todo, poi.kind = "START",
           \A other \in todo \ {poi} : Before(poi, other),
           NEW k \in DOMAIN active, NEW i \in active[k].ids
    PROVE  poi.x < rects[i].right
<1>1. rects \in Seq(Rects) /\ i \in DOMAIN rects /\ poi \in Edges(rects)
  BY MeetsItsEdges DEF SweepInv
<1>2. Edge(rects, i, "END") \in todo /\ Edge(rects, i, "END") # poi
  BY <1>1, EdgeOf DEF EdgeInv
<1>3. Before(poi, Edge(rects, i, "END"))
  BY <1>2
<1>4. /\ Edge(rects, i, "END").x = rects[i].right /\ Edge(rects, i, "END").id = i
  BY <1>1, EdgeOf
<1>5. poi.x < rects[i].right \/ (poi.x = rects[i].right /\ poi.id > i)
  BY <1>3, <1>4 DEF Before
<1>6. poi.id \in DOMAIN rects /\ poi.x = rects[poi.id].left
  BY <1>1, EdgeFacts
<1>7. ~(poi.x = rects[i].right /\ poi.id > i)
  BY <1>1, <1>6 DEF EdgeInv
<1> QED BY <1>5, <1>7

LEMMA StartKeepsEdges ==
    ASSUME SweepInv, EdgeInv, NEW poi \in todo, poi.kind = "START",
           \A other \in todo \ {poi} : Before(poi, other), todo' = todo \ {poi},
           Start(poi, Hit(poi)), UNCHANGED <<rects, frames>>
    PROVE  EdgeInv'
<1> DEFINE Ends(i) == Edge(rects, i, "END")
<1>1. rects \in Seq(Rects) /\ poi \in Edges(rects) /\ active \in Seq(Regions)
  BY DEF SweepInv
<1>2. /\ poi.id \in DOMAIN rects /\ poi.x = rects[poi.id].left /\ poi = Edge(rects, poi.id, "START")
      /\ rects[poi.id].left < rects[poi.id].right
  BY <1>1, EdgeFacts, RectFacts
<1>3. \A i \in DOMAIN rects : Ends(i) # poi
  BY EdgeOf
<1> HIDE DEF Ends
<1>4. ASSUME NEW i \in DOMAIN rects, Ends(i) \in todo PROVE Ends(i) \in todo'
  BY <1>3, <1>4
<1>5. \A i \in DOMAIN rects : Edge(rects, i, "START") \in todo' => Ends(i) \in todo'
  BY <1>4 DEF EdgeInv, Ends
<1>6. Ends(poi.id) \in todo'
  BY <1>2, <1>4 DEF EdgeInv, Ends
<1>7. ASSUME NEW k \in DOMAIN active, NEW i \in active[k].ids
      PROVE  Ends(i) \in todo' /\ active[k].sx < rects[i].right /\ poi.x < rects[i].right
  <2>1. i \in DOMAIN rects
    BY MeetsItsEdges
  <2>2. Ends(i) \in todo /\ active[k].sx < rects[i].right
    BY DEF EdgeInv, Ends
  <2> QED BY <1>4, <2>1, <2>2, StartInTime
<1>8. ASSUME NEW k \in DOMAIN active', NEW i \in active'[k].ids
      PROVE  Ends(i) \in todo' /\ active'[k].sx < rects[i].right
  <2>1. CASE Hit(poi) = {}
    <3>1. active' = Append(active, NewRegion(poi))
      BY <2>1 DEF Start
    <3>2. (k \in DOMAIN active /\ active'[k] = active[k]) \/ active'[k] = NewRegion(poi)
      BY <1>1, <3>1
    <3>3. CASE k \in DOMAIN active /\ active'[k] = active[k]
      BY <1>7, <1>8, <3>3
    <3>4. CASE active'[k] = NewRegion(poi)
      <4>1. active'[k].sx = poi.x /\ i = poi.id
        BY <1>8, <3>4 DEF NewRegion
      <4> QED BY <1>2, <1>6, <4>1
    <3> QED BY <3>2, <3>3, <3>4
  <2>2. CASE Hit(poi) # {}
    <3>1. active' = [n \in DOMAIN active |->
                      IF n \notin Hit(poi) THEN active[n]
                      ELSE [sx |-> poi.x, ids |-> active[n].ids \cup {poi.id},
                            points |-> active[n].points \cup Share(poi, Hit(poi))[n]]]
      BY <2>2 DEF Start
    <3>2. k \in DOMAIN active
      BY <3>1
    <3>3. CASE k \notin Hit(poi)
      <4>1. active'[k] = active[k]
        BY <3>1, <3>2, <3>3
      <4> QED BY <1>7, <1>8, <3>2, <4>1
    <3>4. CASE k \in Hit(poi)
      <4>1. active'[k].sx = poi.x /\ active'[k].ids = active[k].ids \cup {poi.id}
        BY <3>1, <3>2, <3>4
      <4>2. i \in active[k].ids \/ i = poi.id
        BY <1>8, <4>1
      <4> QED BY <1>2, <1>6, <1>7, <3>2, <4>1, <4>2
    <3> QED BY <3>3, <3>4
  <2> QED BY <2>1, <2>2
<1> QED BY <1>5, <1>8 DEF EdgeInv, Ends, Edge

LEMMA EndKeepsEdges ==
    ASSUME SweepInv, EdgeInv, NEW poi \in todo, poi.kind = "END",
           \A other \in todo \ {poi} : Before(poi, other), todo' = todo \ {poi},
           End(poi, Hit(poi)), UNCHANGED <<rects, frames>>
    PROVE  EdgeInv'
<1> DEFINE Ends(i) == Edge(rects, i, "END")
           Starts(i) == Edge(rects, i, "START")
<1>1. rects \in Seq(Rects) /\ poi \in Edges(rects) /\ active \in Seq(Regions)
  BY DEF SweepInv
<1>2. /\ poi.id \in DOMAIN rects /\ poi.x = rects[poi.id].right /\ poi = Ends(poi.id)
      /\ rects[poi.id].left \in 0..Width /\ rects[poi.id].right \in 0..Width
      /\ rects[poi.id].left < rects[poi.id].right /\ poi.id \in Nat
  BY <1>1, EdgeFacts, RectFacts
<1>3. \A i \in DOMAIN rects : /\ Ends(i).id = i /\ Ends(i).kind = "END" /\ Ends(i).x = rects[i].right
                              /\ Starts(i).id = i /\ Starts(i).kind = "START" /\ Starts(i).x = rects[i].left
  BY EdgeOf
<1>4. \A k \in DOMAIN active : \A i \in active[k].ids :
         i \in DOMAIN rects /\ Meets(active[k], Ends(i)) /\ Ends(i) \in todo
            /\ active[k].sx < rects[i].right
  BY MeetsItsEdges DEF EdgeInv
<1>5. \A i \in DOMAIN rects : Starts(i) \in todo => Ends(i) \in todo
  BY DEF EdgeInv
<1>6. ASSUME \A i \in DOMAIN rects : Starts(i) \in todo' => Ends(i) \in todo',
             \A k \in DOMAIN active' : \A i \in active'[k].ids :
                 Ends(i) \in todo' /\ active'[k].sx < rects[i].right
      PROVE  EdgeInv'
  BY <1>6 DEF EdgeInv, Edge
<1> HIDE DEF Ends, Starts
<1>7. ASSUME NEW i \in DOMAIN rects, i # poi.id, Ends(i) \in todo PROVE Ends(i) \in todo'
  BY <1>2, <1>3, <1>7
<1>8. Starts(poi.id) \notin todo
  <2>1. Starts(poi.id) # poi
    BY <1>2, <1>3
  <2>2. ~Before(poi, Starts(poi.id))
    BY <1>2, <1>3 DEF Before
  <2> QED BY <2>1, <2>2
<1>9. ASSUME NEW i \in DOMAIN rects, Starts(i) \in todo' PROVE Ends(i) \in todo'
  BY <1>5, <1>7, <1>8, <1>9
<1>0. PICK left \in Seq(DOMAIN active) : Leaves(poi, left)
  BY <1>1, EndLeaves
<1>10. active' = [n \in DOMAIN left |-> Left(poi, left[n])]
  BY <1>0 DEF Leaves
<1>11. ASSUME NEW k \in DOMAIN active, NEW i \in Left(poi, k).ids
       PROVE  Ends(i) \in todo' /\ Left(poi, k).sx < rects[i].right
  <2>1. i \in active[k].ids
    BY <1>11 DEF Left, Shrink
  <2>2. i \in DOMAIN rects /\ Meets(active[k], Ends(i)) /\ Ends(i) \in todo /\ active[k].sx < rects[i].right
    BY <1>4, <2>1
  <2>3. CASE k \in Hit(poi) /\ active[k].sx # poi.x
    <3>1. /\ Left(poi, k).sx = poi.x /\ i \notin Ending(poi, Hit(poi))[k]
      BY <1>11, <2>3 DEF Left, Shrink
    <3>2. Ending(poi, Hit(poi))[k] = {poi.id} \cup
            {q.id : q \in {p \in todo : p.kind = "END" /\ p.x = poi.x /\ Before(poi, p)
                                          /\ Meets(active[k], p)}}
      BY <2>3 DEF Ending
    <3>3. i # poi.id
      BY <3>1, <3>2
    <3>4. Ends(i) # poi
      BY <1>3, <2>2, <3>3
    <3>5. Before(poi, Ends(i))
      BY <2>2, <3>4
    <3>6. poi.x # rects[i].right
      <4> SUFFICES ASSUME poi.x = rects[i].right PROVE FALSE
        OBVIOUS
      <4>1. Ends(i).kind = "END" /\ Ends(i).x = poi.x /\ Ends(i).id = i
        BY <1>3, <2>2
      <4>2. Ends(i) \in {p \in todo : p.kind = "END" /\ p.x = poi.x /\ Before(poi, p)
                                     /\ Meets(active[k], p)}
        BY <2>2, <3>5, <4>1
      <4>3. i \in Ending(poi, Hit(poi))[k]
        BY <3>2, <4>1, <4>2
      <4> QED BY <3>1, <4>3
    <3>7. poi.x < rects[i].right
      BY <1>3, <2>2, <3>5, <3>6 DEF Before
    <3> QED BY <1>7, <2>2, <3>1, <3>3, <3>7
  <2>4. CASE ~(k \in Hit(poi) /\ active[k].sx # poi.x)
    <3>1. Left(poi, k) = active[k]
      BY <2>4 DEF Left
    <3>2. i # poi.id
      <4> SUFFICES ASSUME i = poi.id PROVE FALSE
        OBVIOUS
      <4>1. k \in Hit(poi)
        BY <1>2, <2>2 DEF Hit
      <4>2. active[k].sx # poi.x
        <5>1. active[k].sx \in 0..Width
          <6>1. active[k] \in Regions
            BY ActiveFacts
          <6> QED BY <6>1 DEF Regions
        <5>2. active[k].sx < poi.x /\ poi.x \in 0..Width
          BY <1>2, <2>2
        <5> QED BY <5>1, <5>2
      <4> QED BY <2>4, <4>1, <4>2
    <3> QED BY <1>7, <2>2, <3>1, <3>2
  <2> QED BY <2>3, <2>4
<1>12. \A k \in DOMAIN active' : \A i \in active'[k].ids :
          Ends(i) \in todo' /\ active'[k].sx < rects[i].right
  BY <1>10, <1>11
<1> QED BY <1>6, <1>9, <1>12

LEMMA EdgesStart == NoneTouches /\ DrawInit => EdgeInv
<1> SUFFICES ASSUME NoneTouches, DrawInit PROVE EdgeInv
  OBVIOUS
<1>1. PICK c \in Compositions : frames = c.frames
  BY DEF DrawInit
<1>2. \A i, j \in DOMAIN frames : i < j => frames[i].right # frames[j].left
  BY <1>1 DEF NoneTouches
<1> QED BY <1>2 DEF DrawInit, EdgeInv

LEMMA EdgesKept == FrameInv /\ SweepInv /\ EdgeInv /\ [DrawNext]_drawVars => EdgeInv'
<1> SUFFICES ASSUME FrameInv, SweepInv, EdgeInv, [DrawNext]_drawVars PROVE EdgeInv'
  OBVIOUS
<1>1. ASSUME UNCHANGED <<composition, regions>> PROVE EdgeInv'
  BY <1>1 DEF composition, regions, EdgeInv, Edge
<1>2. ASSUME rects' = <<>>, active' = <<>>, UNCHANGED composition PROVE EdgeInv'
  BY <1>2 DEF composition, EdgeInv
<1>3. CASE KeepDedicated
  BY <1>1, <1>3 DEF KeepDedicated
<1>4. CASE SeparateLayers
  <2> DEFINE layers == dedicated \o planes[at].sources
  <2>1. /\ rects' = [i \in DOMAIN layers |-> frames[layers[i]]] /\ todo' = Edges(rects')
        /\ active' = <<>> /\ frames' = frames /\ at \in DOMAIN planes
    BY <1>4 DEF SeparateLayers, Here, SweepInv, Cutting, composition
  <2>2. layers \in Seq(DOMAIN frames) /\ \A i, j \in DOMAIN layers : i < j => layers[i] < layers[j]
    BY <2>1, LayersAscend
  <2> HIDE DEF layers
  <2>3. \A i, j \in DOMAIN rects' : i < j => rects'[i].right # rects'[j].left
    <3>1. \A i \in DOMAIN layers : layers[i] \in DOMAIN frames
      BY <2>2
    <3> QED BY <2>1, <2>2, <3>1 DEF EdgeInv
  <2>4. \A i \in DOMAIN rects' : Edge(rects', i, "END") \in todo'
    BY <2>1 DEF Edges
  <2> QED BY <2>1, <2>3, <2>4 DEF EdgeInv, Edge
<1>5. CASE GetDrawRegions
  <2>1. PICK poi \in todo :
          /\ \A other \in todo \ {poi} : Before(poi, other)
          /\ todo' = todo \ {poi} /\ UNCHANGED <<rects, frames>>
          /\ IF poi.kind = "START" THEN Start(poi, Hit(poi)) ELSE End(poi, Hit(poi))
    BY <1>5 DEF GetDrawRegions, NextEdge, Hit, composition
  <2>2. poi.kind \in {"START", "END"}
    BY EdgeFacts DEF SweepInv
  <2>3. CASE poi.kind = "START"
    BY <2>1, <2>3, StartKeepsEdges
  <2>4. CASE poi.kind = "END"
    BY <2>1, <2>4, EndKeepsEdges
  <2> QED BY <2>2, <2>3, <2>4
<1>6. CASE Render
  BY <1>2, <1>6 DEF Render
<1>7. CASE DrawFails
  BY <1>2, <1>7 DEF DrawFails
<1>8. CASE UNCHANGED drawVars
  BY <1>1, <1>8 DEF drawVars
<1> QED BY <1>3, <1>4, <1>5, <1>6, <1>7, <1>8 DEF DrawNext

(* Unless some layer begins at the very x where one below it ends, no      *)
(* region holds a layer whose right edge the line has passed: the layers   *)
(* that end together are taken out together, whatever the order of their   *)
(* edges.                                                                  *)
THEOREM EndedLayersAreGone ==
    ASSUME NoneTouches PROVE DrawSpec => []EndedLayersLeave
<1>1. EdgeInv => EndedLayersLeave
  BY EdgeOf DEF EdgeInv, EndedLayersLeave
<1>2. DrawInit => EdgeInv
  BY EdgesStart
<1> QED BY <1>1, <1>2, DrawStarts, DrawKeeps, EdgesKept, PTL DEF DrawSpec
-----------------------------------------------------------------------------
(* The cut of a region: GenerateOutLayers walks down its points.           *)

(* A set ranked by a strict order is listed in that order.                 *)
LEMMA RankedInOrder ==
    ASSUME NEW S, IsFiniteSet(S), NEW R, Orders(R, S)
    PROVE  LET s == ByRank(Ranking(S, R))
               N == Cardinality(S)
           IN  /\ N \in Nat /\ s \in [1..N -> S]
               /\ \A i, j \in 1..N : i < j => <<s[i], s[j]>> \in R
               /\ \A x \in S : \E i \in 1..N : s[i] = x
<1> DEFINE N == Cardinality(S)
           rank == Ranking(S, R)
           s == ByRank(rank)
<1>1. /\ N \in Nat /\ rank \in [S -> 0..(N - 1)]
      /\ \A x, y \in S : rank[x] < rank[y] => <<x, y>> \in R
      /\ \A x, y \in S : rank[x] = rank[y] => x = y
      /\ \A i \in 1..N : \E x \in S : rank[x] = i - 1
  BY RanksArePlaces
<1> HIDE DEF rank
<1>2. s = [i \in 1..N |-> CHOOSE x \in S : rank[x] = i - 1]
  <2>1. DOMAIN rank = S
    BY <1>1
  <2> QED BY <2>1 DEF ByRank
<1> HIDE DEF N, s
<1>3. \A i \in 1..N : s[i] \in S /\ rank[s[i]] = i - 1
  <2> SUFFICES ASSUME NEW i \in 1..N PROVE s[i] \in S /\ rank[s[i]] = i - 1
    OBVIOUS
  <2>1. \E x \in S : rank[x] = i - 1
    BY <1>1
  <2>2. s[i] = CHOOSE x \in S : rank[x] = i - 1
    BY <1>2
  <2> QED BY <2>1, <2>2, Zenon
<1>4. s \in [1..N -> S]
  BY <1>2, <1>3
<1>5. ASSUME NEW i \in 1..N, NEW j \in 1..N, i < j PROVE <<s[i], s[j]>> \in R
  <2>1. i - 1 < j - 1
    BY <1>1, <1>5
  <2>2. rank[s[i]] < rank[s[j]] /\ s[i] \in S /\ s[j] \in S
    BY <1>3, <2>1
  <2> QED BY <1>1, <2>2
<1>6. ASSUME NEW x \in S PROVE \E i \in 1..N : s[i] = x
  <2>1. rank[x] \in 0..(N - 1)
    BY <1>1
  <2> DEFINE i == rank[x] + 1
  <2>2. i \in 1..N /\ i - 1 = rank[x]
    BY <1>1, <2>1
  <2>3. s[i] \in S /\ rank[s[i]] = rank[x]
    BY <1>3, <2>2
  <2>4. s[i] = x
    BY <1>1, <2>3
  <2> QED BY <2>2, <2>4
<1> QED BY <1>1, <1>4, <1>5, <1>6 DEF N, s, rank

-----------------------------------------------------------------------------
(* The points of a region in their order: where each layer begins and      *)
(* where it ends.                                                          *)
Ordered(s, N, ids, B, E) ==
    /\ \A i \in ids :
          /\ B[i] \in 1..N /\ E[i] \in 1..N /\ B[i] < E[i]
          /\ s[B[i]].id = i /\ s[B[i]].kind = "START" /\ s[E[i]].id = i /\ s[E[i]].kind = "END"
    /\ \A m \in 1..N :
          /\ s[m].id \in ids /\ s[m].y \in 0..Height
          /\ \/ s[m].kind = "START" /\ B[s[m].id] = m
             \/ s[m].kind = "END" /\ E[s[m].id] = m
    /\ \A m, n \in 1..N : m < n => s[m].y <= s[n].y

LEMMA PointsAreFinite ==
    ASSUME rects \in Seq(Rects), NEW r \in Regions, Whole(r)
    PROVE  IsFiniteSet(r.points)
<1> DEFINE L == Len(rects)
           f == [p \in r.points |-> 2 * p.id + IF p.kind = "START" THEN 0 ELSE 1]
           T == 0..(2 * L + 1)
<1>1. L \in Nat /\ \A p \in r.points : p.id \in 1..L /\ p.kind \in {"START", "END"}
  <2>1. L \in Nat /\ DOMAIN rects = 1..L
    OBVIOUS
  <2>2. \A p \in r.points : p.kind \in {"START", "END"}
    BY DEF Regions, Points
  <2> QED BY <2>1, <2>2 DEF Whole
<1>2. ASSUME NEW p \in r.points, NEW q \in r.points, p.id = q.id, p.kind = q.kind PROVE p = q
  <2>1. Held(r, p.id)
    BY DEF Whole
  <2> QED BY <1>2, <2>1 DEF Held
<1> HIDE DEF L
<1>3. ASSUME NEW p \in r.points PROVE f[p] \in T
  BY <1>1
<1>4. ASSUME NEW p \in r.points, NEW q \in r.points, f[p] = f[q] PROVE p = q
  <2>1. p.id = q.id /\ p.kind = q.kind
    BY <1>1, <1>4
  <2> QED BY <1>2, <2>1
<1>5. f \in [r.points -> T]
  BY <1>3
<1> HIDE DEF f
<1>6. f \in Injection(r.points, T)
  BY <1>4, <1>5 DEF Injection, IsInjective
<1>7. IsFiniteSet(T)
  <2>1. 0 \in Int /\ 2 * L + 1 \in Int
    BY <1>1
  <2> QED BY <2>1, FS_Interval
<1> HIDE DEF T
<1> QED BY <1>6, <1>7, FS_Injection

(* FromTop lists the points of a region by height, so that a layer begins  *)
(* before it ends.                                                         *)
LEMMA StopsAreOrdered ==
    ASSUME rects \in Seq(Rects), NEW r \in Regions, Whole(r)
    PROVE  \E N \in Nat : \E B, E :
              /\ FromTop(r.points) \in [1..N -> Points] /\ Ordered(FromTop(r.points), N, r.ids, B, E)
              /\ \A i \in r.ids : FromTop(r.points)[B[i]] \in r.points /\ FromTop(r.points)[E[i]] \in r.points
<1> DEFINE S == r.points
           R == {pq \in S \X S : Above(pq[1], pq[2])}
           rank == Ranking(S, R)
           N == Cardinality(S)
           s == FromTop(S)
<1>1. IsFiniteSet(S)
  BY PointsAreFinite
<1>2. \A p, q \in S : <<p, q>> \in R <=> Above(p, q)
  OBVIOUS
<1>3. \A p \in S : /\ p \in Points /\ p.id \in Nat /\ p.y \in 0..Height /\ p.id \in r.ids
                   /\ p.kind \in {"START", "END"} /\ Held(r, p.id)
  BY DEF Regions, Points, Whole
<1>4. Height \in Nat
  BY BoundsAssumption
<1>5. s = ByRank(rank)
  <2>1. \A x \in S : {y \in S : <<y, x>> \in R} = {y \in S : Above(y, x)}
    OBVIOUS
  <2> HIDE DEF R
  <2>2. rank = [x \in S |-> Cardinality({y \in S : Above(y, x)})]
    BY <2>1 DEF Ranking
  <2> HIDE DEF rank
  <2> QED BY <2>2 DEF FromTop
<1> HIDE DEF R, S
<1>6. Orders(R, S)
  <2>1. ASSUME NEW p \in S PROVE ~Above(p, p)
    BY <1>3, <1>4 DEF Above
  <2>2. ASSUME NEW p \in S, NEW q \in S, p # q PROVE Above(p, q) \/ Above(q, p)
    <3>1. p.id # q.id \/ p.y # q.y
      <4> SUFFICES ASSUME p.id = q.id PROVE p.y # q.y
        OBVIOUS
      <4>1. PICK a, b \in S : a.y < b.y /\ \A o \in S : o.id = p.id => o = a \/ o = b
        BY <1>3 DEF Held, S
      <4>2. a.y \in 0..Height /\ b.y \in 0..Height
        BY <1>3
      <4> QED BY <2>2, <4>1, <4>2
    <3> QED BY <1>3, <1>4, <3>1 DEF Above
  <2>3. ASSUME NEW p \in S, NEW q \in S, NEW o \in S, Above(p, q), Above(q, o) PROVE Above(p, o)
    BY <1>3, <1>4, <2>3 DEF Above
  <2> QED BY <1>2, <2>1, <2>2, <2>3 DEF Orders
<1>7. /\ N \in Nat /\ s \in [1..N -> S]
      /\ \A i, j \in 1..N : i < j => <<s[i], s[j]>> \in R
      /\ \A x \in S : \E i \in 1..N : s[i] = x
  <2> HIDE DEF s
  <2>1. s = ByRank(Ranking(S, R))
    BY <1>5
  <2> QED BY <1>1, <1>6, <2>1, RankedInOrder
<1> HIDE DEF N, s, rank
<1> DEFINE B == [i \in r.ids |-> CHOOSE m \in 1..N : s[m].id = i /\ s[m].kind = "START"]
           E == [i \in r.ids |-> CHOOSE m \in 1..N : s[m].id = i /\ s[m].kind = "END"]
<1>8. \A m \in 1..N : s[m] \in S
  BY <1>7
<1>9. \A m, n \in 1..N : m < n => Above(s[m], s[n])
  BY <1>2, <1>7, <1>8
<1>10. ASSUME NEW i \in r.ids
       PROVE  /\ \E m \in 1..N : s[m].id = i /\ s[m].kind = "START"
              /\ \E m \in 1..N : s[m].id = i /\ s[m].kind = "END"
              /\ \A m, n \in 1..N : s[m].id = i /\ s[n].id = i /\ s[m].kind = "START" /\ s[n].kind = "END"
                    => s[m].y < s[n].y
              /\ \A m, n \in 1..N : s[m].id = i /\ s[n].id = i /\ s[m].kind = s[n].kind => s[m] = s[n]
  <2>1. PICK a, b \in S : /\ a.id = i /\ a.kind = "START" /\ b.id = i /\ b.kind = "END" /\ a.y < b.y
                          /\ \A o \in S : o.id = i => o = a \/ o = b
    BY DEF Whole, Held, S
  <2>2. \A m \in 1..N : s[m].id = i => s[m] = a \/ s[m] = b
    BY <1>8, <2>1
  <2>3. (\E m \in 1..N : s[m] = a) /\ (\E m \in 1..N : s[m] = b)
    BY <1>7
  <2> QED BY <2>1, <2>2, <2>3
<1>11. ASSUME NEW i \in r.ids
       PROVE  /\ B[i] \in 1..N /\ s[B[i]].id = i /\ s[B[i]].kind = "START"
              /\ E[i] \in 1..N /\ s[E[i]].id = i /\ s[E[i]].kind = "END"
  <2>1. \E m \in 1..N : s[m].id = i /\ s[m].kind = "START"
    BY <1>10
  <2>2. \E m \in 1..N : s[m].id = i /\ s[m].kind = "END"
    BY <1>10
  <2>3. B[i] = CHOOSE m \in 1..N : s[m].id = i /\ s[m].kind = "START"
    OBVIOUS
  <2>4. E[i] = CHOOSE m \in 1..N : s[m].id = i /\ s[m].kind = "END"
    OBVIOUS
  <2> HIDE DEF B, E
  <2> QED BY <2>1, <2>2, <2>3, <2>4, Zenon
<1> HIDE DEF B, E
<1>12. ASSUME NEW m \in 1..N, NEW n \in 1..N, s[m] = s[n] PROVE m = n
  <2>1. m < n \/ n < m \/ m = n
    BY <1>7
  <2>2. ~Above(s[m], s[m])
    BY <1>3, <1>8 DEF Above
  <2> QED BY <1>9, <1>12, <2>1, <2>2
<1>13. \A m, n \in 1..N : m < n => s[m].y <= s[n].y
  <2> SUFFICES ASSUME NEW m \in 1..N, NEW n \in 1..N, m < n PROVE s[m].y <= s[n].y
    OBVIOUS
  <2>1. s[m].y \in 0..Height /\ s[n].y \in 0..Height
    BY <1>3, <1>8
  <2> QED BY <1>9, <2>1 DEF Above
<1>14. ASSUME NEW i \in r.ids PROVE B[i] < E[i]
  <2>1. s[B[i]].y < s[E[i]].y
    BY <1>10, <1>11
  <2>2. B[i] \in 1..N /\ E[i] \in 1..N /\ s[B[i]].y \in 0..Height /\ s[E[i]].y \in 0..Height
    BY <1>3, <1>8, <1>11
  <2>3. ~(E[i] < B[i]) /\ E[i] # B[i]
    BY <1>13, <2>1, <2>2
  <2> QED BY <1>7, <2>2, <2>3
<1>15. ASSUME NEW m \in 1..N
       PROVE  /\ s[m].id \in r.ids /\ s[m].y \in 0..Height
              /\ \/ s[m].kind = "START" /\ B[s[m].id] = m
                 \/ s[m].kind = "END" /\ E[s[m].id] = m
  <2>1. s[m].id \in r.ids /\ s[m].y \in 0..Height /\ s[m].kind \in {"START", "END"}
    BY <1>3, <1>8
  <2>2. s[m].kind = "START" => s[B[s[m].id]] = s[m]
    BY <1>10, <1>11, <2>1
  <2>3. s[m].kind = "END" => s[E[s[m].id]] = s[m]
    BY <1>10, <1>11, <2>1
  <2> QED BY <1>11, <1>12, <2>1, <2>2, <2>3
<1>16. Ordered(s, N, r.ids, B, E)
  BY <1>11, <1>13, <1>14, <1>15 DEF Ordered
<1>17. s \in [1..N -> Points]
  BY <1>3, <1>7, <1>8
<1>18. \A i \in r.ids : s[B[i]] \in r.points /\ s[E[i]] \in r.points
  BY <1>8, <1>11 DEF S
<1> QED BY <1>7, <1>16, <1>17, <1>18 DEF s, S

Walks == [ids : SUBSET Nat, top : 0..Height, cut : Seq(Pieces)]
Standing == [ids |-> {}, top |-> 0, cut |-> <<>>]

(* Before each point the walk holds the layers that are alive, how far down *)
(* it has come and what it has cut.                                        *)
LEMMA StopWalks ==
    ASSUME NEW r \in Regions, NEW x \in 0..Width, NEW acc \in Walks, NEW p \in Points
    PROVE  Stop(r, x, acc, p) \in Walks
<1>1. r.sx \in 0..Width /\ acc.ids \in SUBSET Nat /\ acc.top \in 0..Height /\ acc.cut \in Seq(Pieces)
      /\ p.id \in Nat /\ p.y \in 0..Height
  BY DEF Regions, Walks, Points
<1> DEFINE ids == Toggle(acc.ids, p)
           piece == [ids |-> acc.ids, rect |-> [left |-> r.sx, top |-> acc.top, right |-> x, bottom |-> p.y]]
<1>2. ids \in SUBSET Nat
  BY <1>1 DEF Toggle
<1>3. piece \in Pieces
  BY <1>1 DEF Pieces
<1> HIDE DEF ids
<1>4. CASE acc.ids = {}
  <2>1. Stop(r, x, acc, p) = [acc EXCEPT !.top = p.y, !.ids = {p.id}]
    BY <1>4 DEF Stop
  <2> QED BY <1>1, <2>1 DEF Walks
<1>5. CASE acc.ids # {} /\ acc.top = p.y
  <2>1. Stop(r, x, acc, p) = [acc EXCEPT !.ids = ids]
    BY <1>5 DEF Stop, ids
  <2> QED BY <1>1, <1>2, <2>1 DEF Walks
<1>6. CASE acc.ids # {} /\ acc.top # p.y
  <2>1. Stop(r, x, acc, p) = [ids |-> ids, top |-> p.y, cut |-> Append(acc.cut, piece)]
    BY <1>6 DEF Stop, ids
  <2> HIDE DEF piece
  <2>2. Append(acc.cut, piece) \in Seq(Pieces)
    BY <1>1, <1>3
  <2> QED BY <1>1, <1>2, <2>1, <2>2 DEF Walks
<1> QED BY <1>4, <1>5, <1>6

(* The cut is what a walk over the points leaves.                          *)
Walked(w, r, x, s, N) ==
    /\ w[0] = Standing /\ \A i \in 1..N : w[i] = Stop(r, x, w[i - 1], s[i])
    /\ \A i \in 0..N : w[i] \in Walks

LEMMA WalkExists ==
    ASSUME NEW r \in Regions, NEW x \in 0..Width, NEW N \in Nat,
           FromTop(r.points) \in [1..N -> Points]
    PROVE  \E w : Walked(w, r, x, FromTop(r.points), N) /\ GenerateOutLayers(r, x) = w[N].cut
<1> DEFINE s == FromTop(r.points)
           step == [i \in 1..N |-> [acc \in Walks |-> Stop(r, x, acc, s[i])]]
           walk == CHOOSE w : w = [i \in 0..N |-> IF i = 0 THEN [ids |-> {}, top |-> 0, cut |-> <<>>]
                                                   ELSE Stop(r, x, w[i - 1], s[i])]
<1>1. Len(s) = N
  OBVIOUS
<1>2. GenerateOutLayers(r, x) = walk[N].cut
  BY <1>1 DEF GenerateOutLayers
<1>3. Standing \in Walks
  BY BoundsAssumption DEF Standing, Walks
<1>4. \A i \in 1..N : s[i] \in Points
  OBVIOUS
<1> HIDE DEF s
<1>5. step \in [1..N -> [Walks -> Walks]]
  BY <1>4, StopWalks
<1>6. \A i \in 1..N : \A acc \in Walks : step[i][acc] = Stop(r, x, acc, s[i])
  OBVIOUS
<1> HIDE DEF step
<1>7. PICK f \in [0..N -> Walks] : Recurs(f, N, Standing, step)
  BY <1>3, <1>5, RecursionExists
<1>8. f[0] = Standing /\ \A i \in 1..N : f[i] = Stop(r, x, f[i - 1], s[i])
  <2>1. \A i \in 1..N : f[i - 1] \in Walks
    OBVIOUS
  <2> QED BY <1>6, <1>7, <2>1 DEF Recurs
<1>9. f = [i \in 0..N |-> IF i = 0 THEN [ids |-> {}, top |-> 0, cut |-> <<>>]
                           ELSE Stop(r, x, f[i - 1], s[i])]
  <2>1. \A i \in 0..N : i # 0 => i \in 1..N
    OBVIOUS
  <2> QED BY <1>8, <2>1 DEF Standing
<1>10. walk = [i \in 0..N |-> IF i = 0 THEN [ids |-> {}, top |-> 0, cut |-> <<>>]
                               ELSE Stop(r, x, walk[i - 1], s[i])]
  BY <1>9, Zenon
<1> HIDE DEF walk
<1>11. walk[0] = Standing /\ \A i \in 1..N : walk[i] = Stop(r, x, walk[i - 1], s[i])
  <2>1. \A i \in 0..N : walk[i] = IF i = 0 THEN [ids |-> {}, top |-> 0, cut |-> <<>>]
                                  ELSE Stop(r, x, walk[i - 1], s[i])
    BY <1>10
  <2>2. 0 \in 0..N /\ \A i \in 1..N : i \in 0..N /\ i # 0
    OBVIOUS
  <2> QED BY <2>1, <2>2, Zenon DEF Standing
<1> DEFINE bad == {m \in 0..N : walk[m] \notin Walks}
<1>12. bad = {}
  <2> SUFFICES ASSUME bad # {} PROVE FALSE
    OBVIOUS
  <2> DEFINE m == Min(bad)
  <2>1. bad \in SUBSET Nat
    OBVIOUS
  <2>2. \A i \in 0..N : i \in bad <=> walk[i] \notin Walks
    OBVIOUS
  <2>3. \A i \in bad : i \in 0..N
    OBVIOUS
  <2> HIDE DEF bad
  <2>4. m \in bad /\ \A i \in bad : m <= i
    BY <2>1, MinOfNaturals
  <2> HIDE DEF m
  <2>5. m \in 0..N /\ m # 0
    BY <1>3, <1>11, <2>2, <2>3, <2>4
  <2>6. m \in 1..N /\ m - 1 \in 0..N /\ ~(m <= m - 1)
    BY <2>5
  <2>7. walk[m - 1] \in Walks
    BY <2>2, <2>4, <2>6
  <2>8. walk[m] = Stop(r, x, walk[m - 1], s[m]) /\ s[m] \in Points
    BY <1>4, <1>11, <2>6
  <2>9. walk[m] \in Walks
    BY <2>7, <2>8, StopWalks
  <2> QED BY <2>2, <2>4, <2>5, <2>9
<1>13. \A i \in 0..N : walk[i] \in Walks
  BY <1>12
<1> QED BY <1>2, <1>11, <1>13 DEF Walked, s

(* The layers that have begun and not ended when m points are passed.      *)
Live(ids, B, E, m) == {i \in ids : B[i] <= m /\ m < E[i]}

(* A point changes who is alive as Toggle does.                            *)
LEMMA LiveSteps ==
    ASSUME NEW N \in Nat, NEW ids, NEW s, NEW B, NEW E, Ordered(s, N, ids, B, E), NEW m \in 1..N
    PROVE  /\ Live(ids, B, E, m) = Toggle(Live(ids, B, E, m - 1), s[m])
           /\ Live(ids, B, E, m - 1) = {} => Live(ids, B, E, m) = {s[m].id}
<1> DEFINE j == s[m].id
<1>1. j \in ids /\ \/ s[m].kind = "START" /\ B[j] = m
                   \/ s[m].kind = "END" /\ E[j] = m
  BY DEF Ordered
<1>2. \A i \in ids : B[i] \in Nat /\ E[i] \in Nat /\ B[i] < E[i]
                     /\ (B[i] = m => i = j /\ s[m].kind = "START")
                     /\ (E[i] = m => i = j /\ s[m].kind = "END")
  BY DEF Ordered
<1>3. m \in Nat
  OBVIOUS
<1> HIDE DEF j
<1>4. CASE s[m].kind = "START" /\ B[j] = m
  <2>1. \A i \in ids : B[i] <= m /\ m < E[i] <=> (B[i] <= m - 1 /\ m - 1 < E[i]) \/ i = j
    <3> SUFFICES ASSUME NEW i \in ids
        PROVE B[i] <= m /\ m < E[i] <=> (B[i] <= m - 1 /\ m - 1 < E[i]) \/ i = j
      OBVIOUS
    <3>1. E[i] # m
      BY <1>2, <1>4
    <3>2. B[i] = m <=> i = j
      BY <1>2, <1>4
    <3> QED BY <1>2, <1>3, <3>1, <3>2
  <2>2. Live(ids, B, E, m) = Live(ids, B, E, m - 1) \cup {j}
    BY <1>1, <2>1 DEF Live
  <2> QED BY <1>4, <2>2 DEF Toggle, j
<1>5. CASE s[m].kind = "END" /\ E[j] = m
  <2>1. \A i \in ids : B[i] <= m /\ m < E[i] <=> (B[i] <= m - 1 /\ m - 1 < E[i]) /\ i # j
    <3> SUFFICES ASSUME NEW i \in ids
        PROVE B[i] <= m /\ m < E[i] <=> (B[i] <= m - 1 /\ m - 1 < E[i]) /\ i # j
      OBVIOUS
    <3>1. B[i] # m
      BY <1>2, <1>5
    <3>2. E[i] = m <=> i = j
      BY <1>2, <1>5
    <3> QED BY <1>2, <1>3, <3>1, <3>2
  <2>2. Live(ids, B, E, m) = Live(ids, B, E, m - 1) \ {j}
    BY <2>1 DEF Live
  <2>3. j \in Live(ids, B, E, m - 1)
    BY <1>1, <1>2, <1>3, <1>5 DEF Live
  <2> QED BY <1>5, <2>2, <2>3 DEF Toggle, j
<1> QED BY <1>1, <1>4, <1>5

(* Between two points those are alive that have begun and not ended.       *)
LEMMA LiveBetween ==
    ASSUME NEW r \in Regions, NEW N \in Nat, NEW s, NEW B, NEW E, Ordered(s, N, r.ids, B, E),
           Whole(r), \A i \in r.ids : s[B[i]] \in r.points /\ s[E[i]] \in r.points,
           NEW m \in 0..N, NEW y \in Nat, m # 0 => s[m].y <= y, m # N => y < s[m + 1].y
    PROVE  Alive(r, y) = Live(r.ids, B, E, m)
<1>1. ASSUME NEW i \in r.ids PROVE i \in Alive(r, y) <=> s[B[i]].y <= y /\ y < s[E[i]].y
  <2>1. /\ s[B[i]].id = i /\ s[B[i]].kind = "START" /\ s[E[i]].id = i /\ s[E[i]].kind = "END"
    BY DEF Ordered
  <2>2. \A p \in r.points : /\ p.id = i /\ p.kind = "START" => p = s[B[i]]
                            /\ p.id = i /\ p.kind = "END" => p = s[E[i]]
    <3>1. PICK a, b \in r.points : /\ a.kind = "START" /\ b.kind = "END"
                                  /\ \A o \in r.points : o.id = i => o = a \/ o = b
      BY DEF Whole, Held
    <3> QED BY <2>1, <3>1
  <2> QED BY <2>1, <2>2 DEF Alive
<1>2. ASSUME NEW n \in 1..N PROVE s[n].y <= y <=> n <= m
  <2>1. s[n].y \in Nat
    BY DEF Ordered
  <2>2. CASE n <= m
    <3>1. m \in 1..N /\ m # 0
      BY <2>2
    <3>2. s[n].y <= s[m].y
      <4>1. s[m].y \in Nat
        BY <3>1 DEF Ordered
      <4> QED BY <2>1, <2>2, <3>1, <4>1 DEF Ordered
    <3>3. s[m].y \in Nat
      BY <3>1 DEF Ordered
    <3> QED BY <2>1, <2>2, <3>1, <3>2, <3>3
  <2>3. CASE ~(n <= m)
    <3>1. m # N /\ m + 1 \in 1..N /\ (n = m + 1 \/ m + 1 < n)
      BY <2>3
    <3>2. s[m + 1].y \in Nat
      BY <3>1 DEF Ordered
    <3>3. s[m + 1].y <= s[n].y
      BY <2>1, <3>1, <3>2 DEF Ordered
    <3> QED BY <2>1, <2>3, <3>1, <3>2, <3>3
  <2> QED BY <2>2, <2>3
<1>3. ASSUME NEW i \in r.ids PROVE s[B[i]].y <= y /\ y < s[E[i]].y <=> B[i] <= m /\ m < E[i]
  <2>1. B[i] \in 1..N /\ E[i] \in 1..N /\ s[E[i]].y \in Nat
    BY DEF Ordered
  <2>2. (s[B[i]].y <= y <=> B[i] <= m) /\ (s[E[i]].y <= y <=> E[i] <= m)
    BY <1>2, <2>1
  <2> QED BY <2>1, <2>2
<1> QED BY <1>1, <1>3 DEF Alive, Live

(* A region is cut, down to a height, into pieces with the layers alive    *)
(* there: at each height one of them, and none where no layer is.          *)
Rows(cut, y) == {n \in DOMAIN cut : cut[n].rect.top <= y /\ y < cut[n].rect.bottom}
RowExact(r, cut, y) ==
    IF Alive(r, y) = {} THEN Rows(cut, y) = {}
    ELSE \E n \in Rows(cut, y) : Rows(cut, y) = {n} /\ cut[n].ids = Alive(r, y)
Fits(r, x, piece) ==
    /\ piece.rect.left = r.sx /\ piece.rect.right = x /\ piece.rect.top < piece.rect.bottom
    /\ piece.ids \subseteq r.ids
CutTo(r, x, cut, top) ==
    /\ \A n \in DOMAIN cut : Fits(r, x, cut[n]) /\ cut[n].rect.bottom <= top
    /\ \A y \in Nat : y < top => RowExact(r, cut, y)

(* A stop of the walk cuts what lies above it.                             *)
LEMMA StopCuts ==
    ASSUME NEW r \in Regions, NEW x \in 0..Width, NEW acc \in Walks, NEW p \in Points,
           acc.top <= p.y, acc.ids \subseteq r.ids, CutTo(r, x, acc.cut, acc.top),
           \A y \in Nat : acc.top <= y /\ y < p.y => Alive(r, y) = acc.ids
    PROVE  /\ CutTo(r, x, Stop(r, x, acc, p).cut, p.y)
           /\ Stop(r, x, acc, p).top = p.y
           /\ Stop(r, x, acc, p).ids = IF acc.ids = {} THEN {p.id} ELSE Toggle(acc.ids, p)
<1> DEFINE cut == acc.cut
           top == acc.top
           bot == p.y
<1>1. /\ r.sx \in 0..Width /\ acc.ids \in SUBSET Nat /\ top \in Nat /\ bot \in Nat
      /\ cut \in Seq(Pieces) /\ top <= bot
  BY DEF Regions, Walks, Points
<1>2. \A n \in DOMAIN cut : /\ cut[n].rect.top \in Nat /\ cut[n].rect.bottom \in Nat
                            /\ Fits(r, x, cut[n]) /\ cut[n].rect.bottom <= top
  <2>1. \A n \in DOMAIN cut : cut[n] \in Pieces
    BY <1>1
  <2>2. \A piece \in Pieces : piece.rect.top \in Nat /\ piece.rect.bottom \in Nat
    BY DEF Pieces
  <2> QED BY <2>1, <2>2 DEF CutTo
<1>3. \A y \in Nat : /\ y < top => RowExact(r, cut, y)
                     /\ top <= y => Rows(cut, y) = {}
                     /\ top <= y /\ y < bot => Alive(r, y) = acc.ids
  <2>1. \A y \in Nat : top <= y => Rows(cut, y) = {}
    <3> HIDE DEF cut, top
    <3> QED BY <1>1, <1>2 DEF Rows
  <2> QED BY <2>1 DEF CutTo
<1>4. CASE acc.ids = {} \/ top = bot
  <2>1. ASSUME NEW y \in Nat, y < bot PROVE RowExact(r, cut, y)
    <3>1. CASE y < top
      BY <1>3, <3>1
    <3>2. CASE ~(y < top)
      <4>1. top <= y /\ acc.ids = {}
        BY <1>1, <1>4, <2>1, <3>2
      <4> QED BY <1>3, <2>1, <4>1 DEF RowExact
    <3> QED BY <3>1, <3>2
  <2>2. \A n \in DOMAIN cut : cut[n].rect.bottom <= bot
    <3> HIDE DEF cut, top, bot
    <3> QED BY <1>1, <1>2
  <2>3. CutTo(r, x, cut, bot)
    BY <1>2, <2>1, <2>2 DEF CutTo
  <2>4. CASE acc.ids = {}
    <3>1. Stop(r, x, acc, p) = [acc EXCEPT !.top = p.y, !.ids = {p.id}]
      BY <2>4 DEF Stop
    <3>2. Stop(r, x, acc, p).cut = cut /\ Stop(r, x, acc, p).top = p.y /\ Stop(r, x, acc, p).ids = {p.id}
      BY <3>1 DEF Walks
    <3> QED BY <2>3, <2>4, <3>2
  <2>5. CASE acc.ids # {} /\ top = bot
    <3>1. Stop(r, x, acc, p) = [acc EXCEPT !.ids = Toggle(@, p)]
      BY <2>5 DEF Stop
    <3>2. Stop(r, x, acc, p).cut = cut /\ Stop(r, x, acc, p).top = top
          /\ Stop(r, x, acc, p).ids = Toggle(acc.ids, p)
      BY <3>1 DEF Walks
    <3> QED BY <2>3, <2>5, <3>2
  <2> QED BY <1>4, <2>4, <2>5
<1>5. CASE acc.ids # {} /\ top # bot
  <2> DEFINE piece == [ids |-> acc.ids, rect |-> [left |-> r.sx, top |-> top, right |-> x, bottom |-> bot]]
             more == Append(cut, piece)
             N == Len(cut)
  <2>1. Stop(r, x, acc, p) = [ids |-> Toggle(acc.ids, p), top |-> bot, cut |-> more]
    BY <1>5 DEF Stop
  <2>2. /\ piece.rect.top = top /\ piece.rect.bottom = bot /\ piece.ids = acc.ids
        /\ piece.rect.left = r.sx /\ piece.rect.right = x
    OBVIOUS
  <2>3. top < bot
    BY <1>1, <1>5
  <2>4. Fits(r, x, piece)
    BY <2>2, <2>3 DEF Fits
  <2> HIDE DEF piece, cut, top, bot
  <2>5. /\ N \in Nat /\ DOMAIN cut = 1..N /\ DOMAIN more = 1..(N + 1)
        /\ more[N + 1] = piece /\ \A n \in DOMAIN cut : more[n] = cut[n]
    BY <1>1
  <2> HIDE DEF N, more
  <2>6. \A n \in DOMAIN more : n \in DOMAIN cut \/ n = N + 1
    BY <2>5
  <2>7. DOMAIN cut \subseteq DOMAIN more /\ N + 1 \in DOMAIN more /\ N + 1 \notin DOMAIN cut
    BY <2>5
  <2>8. \A n \in DOMAIN more : Fits(r, x, more[n]) /\ more[n].rect.bottom <= bot
    <3>1. \A n \in DOMAIN cut : Fits(r, x, cut[n]) /\ cut[n].rect.bottom <= bot
      BY <1>1, <1>2
    <3>2. bot <= bot
      BY <1>1
    <3> QED BY <2>2, <2>4, <2>5, <2>6, <3>1, <3>2
  <2>9. ASSUME NEW y \in Nat, y < bot PROVE RowExact(r, more, y)
    <3>1. CASE y < top
      <4>1. ~(top <= y)
        BY <1>1, <3>1
      <4>2. Rows(more, y) = Rows(cut, y)
        BY <2>2, <2>5, <2>6, <2>7, <4>1 DEF Rows
      <4>3. \A n \in Rows(cut, y) : more[n] = cut[n]
        BY <2>5 DEF Rows
      <4>4. RowExact(r, cut, y)
        BY <1>3, <3>1
      <4> QED BY <4>2, <4>3, <4>4 DEF RowExact
    <3>2. CASE ~(y < top)
      <4>1. top <= y
        BY <1>1, <3>2
      <4>2. Rows(cut, y) = {} /\ Alive(r, y) = acc.ids
        BY <1>3, <2>9, <4>1
      <4>3. Rows(more, y) = {N + 1}
        BY <2>2, <2>5, <2>6, <2>7, <2>9, <4>1, <4>2 DEF Rows
      <4>4. more[N + 1].ids = acc.ids
        BY <2>2, <2>5
      <4> QED BY <1>5, <4>2, <4>3, <4>4 DEF RowExact
    <3> QED BY <3>1, <3>2
  <2>10. CutTo(r, x, more, bot)
    BY <2>8, <2>9 DEF CutTo
  <2> QED BY <1>5, <2>1, <2>10 DEF bot
<1> QED BY <1>4, <1>5

(* GenerateOutLayers cuts a region from its top to its bottom exactly.     *)
LEMMA CutOfRegion ==
    ASSUME rects \in Seq(Rects), NEW r \in Regions, Whole(r), NEW x \in 0..Width
    PROVE  /\ GenerateOutLayers(r, x) \in Seq(Pieces)
           /\ \A n \in DOMAIN GenerateOutLayers(r, x) : Fits(r, x, GenerateOutLayers(r, x)[n])
           /\ \A y \in Nat : RowExact(r, GenerateOutLayers(r, x), y)
<1> DEFINE s == FromTop(r.points)
           cut == GenerateOutLayers(r, x)
           ids == r.ids
<1>0. PICK N \in Nat : \E B, E :
          /\ s \in [1..N -> Points] /\ Ordered(s, N, ids, B, E)
          /\ \A i \in ids : s[B[i]] \in r.points /\ s[E[i]] \in r.points
  BY StopsAreOrdered
<1>1. PICK B, E :
          /\ s \in [1..N -> Points] /\ Ordered(s, N, ids, B, E)
          /\ \A i \in ids : s[B[i]] \in r.points /\ s[E[i]] \in r.points
  BY <1>0
<1>2. PICK w : Walked(w, r, x, s, N) /\ cut = w[N].cut
  BY <1>1, WalkExists
<1> HIDE DEF s, cut
<1>3. /\ w[0] = Standing /\ \A i \in 1..N : w[i] = Stop(r, x, w[i - 1], s[i])
      /\ \A i \in 0..N : w[i] \in Walks
  BY <1>2 DEF Walked
<1>4. \A m \in 1..N : s[m] \in Points /\ s[m].y \in Nat
  <2>1. \A p \in Points : p.y \in Nat
    BY DEF Points
  <2> QED BY <1>1, <2>1
<1>14. ASSUME NEW m \in 0..N, NEW y \in Nat, m # 0 => s[m].y <= y, m # N => y < s[m + 1].y
       PROVE  Alive(r, y) = Live(ids, B, E, m)
  <2>1. Ordered(s, N, r.ids, B, E) /\ \A i \in r.ids : s[B[i]] \in r.points /\ s[E[i]] \in r.points
    BY <1>1
  <2>2. /\ r \in Regions /\ N \in Nat /\ Whole(r) /\ m \in 0..N /\ y \in Nat
        /\ (m # 0 => s[m].y <= y) /\ (m # N => y < s[m + 1].y)
    BY <1>14
  <2>3. Alive(r, y) = Live(r.ids, B, E, m)
    BY <2>1, <2>2, LiveBetween
  <2> QED BY <2>3
<1> DEFINE Upto(m) == IF m = 0 THEN 0 ELSE s[m].y
           Good(m) == /\ w[m].ids = Live(ids, B, E, m) /\ w[m].top = Upto(m)
                      /\ CutTo(r, x, w[m].cut, Upto(m))
           bad == {m \in 0..N : ~Good(m)}
<1>5. Good(0)
  <2>1. w[0].ids = {} /\ w[0].top = 0 /\ w[0].cut = <<>>
    BY <1>3 DEF Standing
  <2>2. Live(ids, B, E, 0) = {}
    BY <1>1 DEF Ordered, Live
  <2>3. CutTo(r, x, <<>>, 0)
    BY DEF CutTo
  <2> QED BY <2>1, <2>2, <2>3
<1>6. ASSUME NEW m \in 1..N, Good(m - 1) PROVE Good(m)
  <2> DEFINE acc == w[m - 1]
             p == s[m]
  <2>1. m - 1 \in 0..N /\ m # 0 /\ (m - 1) + 1 = m /\ (m - 1 # 0 => m - 1 \in 1..N /\ m - 1 < m) /\ m - 1 # N
    OBVIOUS
  <2>2. acc \in Walks /\ p \in Points /\ p.y \in Nat
    BY <1>3, <1>4, <2>1
  <2>3. acc.ids = Live(ids, B, E, m - 1) /\ acc.top = Upto(m - 1) /\ CutTo(r, x, acc.cut, acc.top)
    BY <1>6
  <2>4. acc.top <= p.y
    <3>1. CASE m - 1 = 0
      BY <2>2, <2>3, <3>1
    <3>2. CASE m - 1 # 0
      <4>1. acc.top = s[m - 1].y
        BY <2>3, <3>2
      <4> QED BY <1>1, <2>1, <3>2, <4>1 DEF Ordered
    <3> QED BY <3>1, <3>2
  <2>5. acc.ids \subseteq r.ids
    BY <2>3 DEF Live
  <2>6. ASSUME NEW y \in Nat, acc.top <= y, y < p.y PROVE Alive(r, y) = acc.ids
    <3> DEFINE n == m - 1
    <3>1. n \in 0..N /\ (n # 0 => s[n].y <= y) /\ (n # N => y < s[n + 1].y)
      BY <2>1, <2>3, <2>6
    <3> HIDE DEF n
    <3>2. Alive(r, y) = Live(ids, B, E, n)
      BY <1>14, <3>1
    <3> QED BY <2>3, <3>2 DEF n
  <2>7. w[m] = Stop(r, x, acc, p)
    BY <1>3
  <2>8. /\ Live(ids, B, E, m) = Toggle(Live(ids, B, E, m - 1), p)
        /\ Live(ids, B, E, m - 1) = {} => Live(ids, B, E, m) = {p.id}
    <3>1. Ordered(s, N, ids, B, E)
      BY <1>1
    <3> HIDE DEF ids
    <3> QED BY <3>1, LiveSteps
  <2> HIDE DEF acc, p
  <2>9. /\ CutTo(r, x, w[m].cut, p.y) /\ w[m].top = p.y
        /\ w[m].ids = IF acc.ids = {} THEN {p.id} ELSE Toggle(acc.ids, p)
    <3>1. CutTo(r, x, acc.cut, acc.top)
      BY <2>3
    <3>2. \A y \in Nat : acc.top <= y /\ y < p.y => Alive(r, y) = acc.ids
      BY <2>6
    <3>3. /\ CutTo(r, x, Stop(r, x, acc, p).cut, p.y) /\ Stop(r, x, acc, p).top = p.y
          /\ Stop(r, x, acc, p).ids = IF acc.ids = {} THEN {p.id} ELSE Toggle(acc.ids, p)
      BY <2>2, <2>4, <2>5, <3>1, <3>2, StopCuts
    <3> QED BY <2>7, <3>3
  <2>10. w[m].ids = Live(ids, B, E, m)
    BY <2>3, <2>8, <2>9
  <2>11. Upto(m) = p.y
    BY <2>1 DEF p
  <2> QED BY <2>9, <2>10, <2>11
<1> HIDE DEF Good
<1>7. bad = {}
  <2> SUFFICES ASSUME bad # {} PROVE FALSE
    OBVIOUS
  <2> DEFINE m == Min(bad)
  <2>1. bad \in SUBSET Nat
    OBVIOUS
  <2>2. \A i \in 0..N : i \in bad <=> ~Good(i)
    OBVIOUS
  <2>3. \A i \in bad : i \in 0..N
    OBVIOUS
  <2> HIDE DEF bad
  <2>4. m \in bad /\ \A i \in bad : m <= i
    BY <2>1, MinOfNaturals
  <2> HIDE DEF m
  <2>5. m \in 0..N /\ m # 0
    BY <1>5, <2>2, <2>3, <2>4
  <2>6. m \in 1..N /\ m - 1 \in 0..N /\ ~(m <= m - 1)
    BY <2>5
  <2>7. Good(m - 1)
    BY <2>2, <2>4, <2>6
  <2>8. Good(m)
    BY <1>6, <2>6, <2>7
  <2> QED BY <2>2, <2>4, <2>5, <2>8
<1>8. Good(N)
  BY <1>7
<1>9. CutTo(r, x, cut, Upto(N))
  BY <1>2, <1>8 DEF Good
<1>10. cut \in Seq(Pieces)
  <2>1. w[N] \in Walks
    BY <1>3
  <2> QED BY <1>2, <2>1 DEF Walks
<1>11. Upto(N) \in Nat /\ (N # 0 => Upto(N) = s[N].y)
  BY <1>4
<1> HIDE DEF Upto
<1>12. ASSUME NEW y \in Nat PROVE RowExact(r, cut, y)
  <2>1. CASE y < Upto(N)
    BY <1>9, <2>1 DEF CutTo
  <2>2. CASE Upto(N) <= y
    <3>1. Alive(r, y) = Live(r.ids, B, E, N)
      <4>1. N \in 0..N /\ (N # 0 => s[N].y <= y) /\ (N # N => y < s[N + 1].y)
        BY <1>11, <2>2
      <4> QED BY <1>14, <4>1
    <3>2. Live(ids, B, E, N) = {}
      BY <1>1 DEF Ordered, Live
    <3>3. Rows(cut, y) = {}
      <4>1. \A n \in DOMAIN cut : cut[n].rect.bottom \in Nat /\ cut[n].rect.bottom <= Upto(N)
        <5>1. \A n \in DOMAIN cut : cut[n] \in Pieces
          BY <1>10
        <5>2. \A piece \in Pieces : piece.rect.bottom \in Nat
          BY DEF Pieces
        <5> QED BY <1>9, <5>1, <5>2 DEF CutTo
      <4> QED BY <1>11, <2>2, <4>1 DEF Rows
    <3> QED BY <3>1, <3>2, <3>3 DEF RowExact
  <2> QED BY <1>11, <2>1, <2>2
<1>13. \A n \in DOMAIN cut : Fits(r, x, cut[n])
  BY <1>9 DEF CutTo
<1> QED BY <1>10, <1>12, <1>13 DEF cut
-----------------------------------------------------------------------------
(* What an edge cuts, and what it leaves.                                  *)

(* A region spans the heights at which it has a layer, and at a height there *)
(* is one region only.                                                     *)
LEMMA AliveIsAcross ==
    ASSUME NEW r \in Regions, NEW y \in Nat, Alive(r, y) # {}
    PROVE  Across(r, y)
<1>1. PICK p, q \in r.points : p.y <= y /\ y < q.y
  BY DEF Alive
<1>2. /\ MinY(r) \in 0..Height /\ MaxY(r) \in 0..Height
      /\ p.y \in 0..Height /\ MinY(r) <= p.y /\ q.y \in 0..Height /\ q.y <= MaxY(r)
  BY <1>1, Extent
<1> QED BY <1>1, <1>2 DEF Across

LEMMA OneAcross ==
    ASSUME SweepInv, NEW j \in DOMAIN active, NEW k \in DOMAIN active, NEW y \in Nat,
           Across(active[j], y), Across(active[k], y)
    PROVE  j = k
<1>1. /\ MinY(active[j]) \in Nat /\ MaxY(active[j]) \in Nat
      /\ MinY(active[k]) \in Nat /\ MaxY(active[k]) \in Nat
      /\ j # k => MaxY(active[k]) <= MinY(active[j]) \/ MaxY(active[j]) <= MinY(active[k])
  <2>1. 0..Height \subseteq Nat
    OBVIOUS
  <2> QED BY <2>1, ActiveFacts
<1> QED BY <1>1 DEF Across

(* What is cut at an edge.                                                 *)
Severed(hit, x) == {k \in DOMAIN active : k \in hit /\ active[k].sx # x}

(* Only the regions that are hit and have a width are cut, each exactly.   *)
LEMMA CutRows ==
    ASSUME SweepInv, NEW hit, NEW x \in 0..Width
    PROVE  /\ Cut(hit, x) \in Seq(Pieces)
           /\ \A n \in DOMAIN Cut(hit, x) : \E k \in Severed(hit, x) :
                /\ Fits(active[k], x, Cut(hit, x)[n])
                /\ \A y \in Nat : n \in Rows(Cut(hit, x), y) => Across(active[k], y)
           /\ \A k \in Severed(hit, x), y \in Nat :
                Across(active[k], y) => RowExact(active[k], Cut(hit, x), y)
<1> DEFINE seqs == [k \in DOMAIN active |->
                      IF k \in hit /\ active[k].sx # x THEN GenerateOutLayers(active[k], x) ELSE <<>>]
           cut == Cut(hit, x)
           off == Severed(hit, x)
           N == Len(active)
<1>1. active \in Seq(Regions) /\ N \in Nat /\ DOMAIN active = 1..N /\ rects \in Seq(Rects)
  BY DEF SweepInv
<1>2. \A k \in DOMAIN active : k \in off <=> k \in hit /\ active[k].sx # x
  BY DEF Severed
<1>3. off \subseteq DOMAIN active
  BY DEF Severed
<1>4. \A k \in off : /\ seqs[k] = GenerateOutLayers(active[k], x)
  BY <1>2, <1>3
<1>5. ASSUME NEW k \in off
      PROVE  /\ seqs[k] \in Seq(Pieces) /\ active[k] \in Regions
             /\ \A n \in DOMAIN seqs[k] : Fits(active[k], x, seqs[k][n])
             /\ \A y \in Nat : RowExact(active[k], seqs[k], y)
  <2> DEFINE r == active[k]
  <2>1. r \in Regions /\ Whole(r)
    BY <1>3, ActiveFacts
  <2> HIDE DEF r
  <2>2. /\ GenerateOutLayers(r, x) \in Seq(Pieces)
        /\ \A n \in DOMAIN GenerateOutLayers(r, x) : Fits(r, x, GenerateOutLayers(r, x)[n])
        /\ \A y \in Nat : RowExact(r, GenerateOutLayers(r, x), y)
    BY <1>1, <2>1, CutOfRegion
  <2>3. seqs[k] = GenerateOutLayers(r, x)
    BY <1>4 DEF r
  <2> HIDE DEF seqs
  <2>4. /\ seqs[k] \in Seq(Pieces) /\ \A n \in DOMAIN seqs[k] : Fits(r, x, seqs[k][n])
        /\ \A y \in Nat : RowExact(r, seqs[k], y)
    BY <2>2, <2>3
  <2> QED BY <2>1, <2>4 DEF r
<1>6. \A k \in DOMAIN active : k \notin off => seqs[k] = <<>>
  BY <1>2
<1>7. cut = FlattenSeq(seqs) /\ DOMAIN seqs = 1..N
  BY <1>1 DEF Cut
<1> HIDE DEF seqs, cut, off, N
<1>8. seqs \in Seq(Seq(Pieces)) /\ Len(seqs) = N
  <2>1. \A k \in 1..N : seqs[k] \in Seq(Pieces)
    <3>1. <<>> \in Seq(Pieces)
      OBVIOUS
    <3> QED BY <1>1, <1>5, <1>6, <3>1
  <2>2. seqs = [k \in 1..N |-> seqs[k]]
    BY <1>7 DEF seqs
  <2> DEFINE A == Seq(Pieces)
  <2>3. \A k \in 1..N : seqs[k] \in A
    BY <2>1
  <2> HIDE DEF A
  <2>4. seqs \in [1..N -> A]
    BY <2>2, <2>3
  <2>5. seqs \in Seq(A) /\ Len(seqs) = N
    BY <1>1, <2>4
  <2> QED BY <2>5 DEF A
<1>9. cut \in Seq(Pieces) /\ Lists(cut, seqs, N)
  <2> DEFINE A == Pieces
  <2>1. seqs \in Seq(Seq(A))
    BY <1>8
  <2> HIDE DEF A
  <2>2. FlattenSeq(seqs) \in Seq(A) /\ Lists(FlattenSeq(seqs), seqs, Len(seqs))
    BY <2>1, FlattenLists
  <2> QED BY <1>7, <1>8, <2>2 DEF A
<1>10. PICK a, b : Origins(a, b, cut, seqs, N)
  BY <1>9 DEF Lists
<1>11. /\ \A n \in DOMAIN cut : a[n] \in 1..N /\ b[n] \in DOMAIN seqs[a[n]] /\ cut[n] = seqs[a[n]][b[n]]
       /\ \A n, o \in DOMAIN cut : a[n] = a[o] /\ b[n] = b[o] => n = o
       /\ \A k \in 1..N : \A j \in DOMAIN seqs[k] : \E n \in DOMAIN cut : a[n] = k /\ b[n] = j
  BY <1>10 DEF Origins
<1>12. ASSUME NEW n \in DOMAIN cut
       PROVE  /\ a[n] \in off /\ Fits(active[a[n]], x, cut[n])
              /\ \A y \in Nat : n \in Rows(cut, y) => b[n] \in Rows(seqs[a[n]], y) /\ Across(active[a[n]], y)
  <2> DEFINE k == a[n]
             j == b[n]
  <2>1. k \in DOMAIN active /\ j \in DOMAIN seqs[k] /\ cut[n] = seqs[k][j]
    BY <1>1, <1>11
  <2> HIDE DEF k, j
  <2>2. k \in off
    <3>1. DOMAIN <<>> = {}
      OBVIOUS
    <3> QED BY <1>6, <2>1, <3>1
  <2>3. Fits(active[k], x, cut[n])
    BY <1>5, <2>1, <2>2
  <2>4. ASSUME NEW y \in Nat, n \in Rows(cut, y) PROVE j \in Rows(seqs[k], y) /\ Across(active[k], y)
    <3>1. j \in Rows(seqs[k], y)
      BY <2>1, <2>4 DEF Rows
    <3>2. RowExact(active[k], seqs[k], y) /\ active[k] \in Regions
      BY <1>5, <2>2
    <3>3. Alive(active[k], y) # {}
      BY <3>1, <3>2 DEF RowExact
    <3> QED BY <3>1, <3>2, <3>3, AliveIsAcross
  <2> QED BY <2>2, <2>3, <2>4 DEF k, j
<1>13. ASSUME NEW k \in off, NEW y \in Nat, Across(active[k], y)
       PROVE  RowExact(active[k], cut, y)
  <2>1. RowExact(active[k], seqs[k], y) /\ k \in DOMAIN active /\ k \in 1..N
    BY <1>1, <1>3, <1>5
  <2>2. ASSUME NEW n \in Rows(cut, y) PROVE n \in DOMAIN cut /\ a[n] = k /\ b[n] \in Rows(seqs[k], y)
    <3>1. n \in DOMAIN cut
      BY DEF Rows
    <3>2. a[n] \in off /\ b[n] \in Rows(seqs[a[n]], y) /\ Across(active[a[n]], y)
      BY <1>12, <3>1
    <3>3. a[n] = k
      <4> DEFINE i == a[n]
      <4>1. i \in DOMAIN active /\ Across(active[i], y)
        BY <1>3, <3>2
      <4> HIDE DEF i
      <4>2. i = k
        BY <1>13, <2>1, <4>1, OneAcross
      <4> QED BY <4>2 DEF i
    <3> QED BY <3>1, <3>2, <3>3
  <2>3. CASE Alive(active[k], y) = {}
    <3>1. Rows(seqs[k], y) = {}
      BY <2>1, <2>3 DEF RowExact
    <3> QED BY <2>2, <2>3, <3>1 DEF RowExact
  <2>4. CASE Alive(active[k], y) # {}
    <3>1. PICK j \in Rows(seqs[k], y) : Rows(seqs[k], y) = {j} /\ seqs[k][j].ids = Alive(active[k], y)
      BY <2>1, <2>4 DEF RowExact
    <3>2. j \in DOMAIN seqs[k]
      BY DEF Rows
    <3>3. PICK n \in DOMAIN cut : a[n] = k /\ b[n] = j
      BY <1>11, <2>1, <3>2
    <3>4. cut[n] = seqs[k][j]
      BY <1>11, <3>3
    <3>5. n \in Rows(cut, y)
      BY <3>4 DEF Rows
    <3>6. \A o \in Rows(cut, y) : o = n
      BY <1>11, <2>2, <3>1, <3>3
    <3>7. Rows(cut, y) = {n} /\ cut[n].ids = Alive(active[k], y)
      BY <3>1, <3>4, <3>5, <3>6
    <3> QED BY <2>4, <3>5, <3>7 DEF RowExact
  <2> QED BY <2>3, <2>4
<1>14. \A n \in DOMAIN cut : \E k \in off :
          Fits(active[k], x, cut[n]) /\ \A y \in Nat : n \in Rows(cut, y) => Across(active[k], y)
  BY <1>12
<1> QED BY <1>9, <1>13, <1>14 DEF cut, off

(* The line's move to an edge.                                             *)
MovesTo(poi) ==
    /\ poi \in todo /\ \A other \in todo \ {poi} : Before(poi, other)
    /\ todo' = todo \ {poi} /\ rects' = rects
    /\ out' = out \o Cut(Hit(poi), poi.x)
    /\ IF poi.kind = "START" THEN Start(poi, Hit(poi)) ELSE End(poi, Hit(poi))

(* An edge is the first of those to come.                                  *)
LEMMA LineFacts ==
    ASSUME SweepInv, NEW poi, MovesTo(poi)
    PROVE  /\ poi \in Edges(rects) /\ poi.kind \in {"START", "END"}
           /\ \A f \in todo : poi.x <= f.x
           /\ \A f \in Edges(rects) : f.x \in Nat /\ f.x \in 0..Width
           /\ Edges(rects)' = Edges(rects) /\ Passed' = Passed \cup {poi} /\ poi \notin Passed
           /\ \A k \in DOMAIN active : active[k].sx \in Nat
<1>1. rects \in Seq(Rects) /\ todo \subseteq Edges(rects) /\ poi \in todo
  BY DEF SweepInv, MovesTo
<1>2. \A f \in Edges(rects) : f.x \in 0..Width /\ f.kind \in {"START", "END"}
  BY <1>1, EdgeFacts
<1>3. \A x \in 0..Width : x \in Nat
  OBVIOUS
<1>4. ASSUME NEW f \in todo PROVE poi.x <= f.x
  <2>1. f = poi \/ Before(poi, f)
    BY DEF MovesTo
  <2> QED BY <1>1, <1>2, <1>3, <2>1 DEF Before
<1>5. Edges(rects)' = Edges(rects)
  BY DEF MovesTo, Edges, Edge
<1>6. Passed' = Passed \cup {poi} /\ poi \notin Passed
  BY <1>1, <1>5 DEF Passed, MovesTo
<1>7. \A k \in DOMAIN active : active[k].sx \in Nat
  <2>1. \A r \in Regions : r.sx \in Nat
    BY DEF Regions
  <2> QED BY <2>1, ActiveFacts
<1> QED BY <1>1, <1>2, <1>3, <1>4, <1>5, <1>6, <1>7

(* At a left edge the regions give their shares away.                      *)
LEMMA StartTakes ==
    ASSUME SweepInv, NEW poi \in Edges(rects), Start(poi, Hit(poi))
    PROVE  IF Hit(poi) = {} THEN active' = Append(active, NewRegion(poi))
           ELSE \E F, T : Shares(poi, Hit(poi), F, T)
                            /\ active' = [k \in DOMAIN active |-> Taken(poi, F, T, k)]
<1>1. CASE Hit(poi) = {}
  BY <1>1 DEF Start
<1>2. CASE Hit(poi) # {}
  <2>1. PICK F, T : Shares(poi, Hit(poi), F, T)
    BY SharesFit
  <2>2. \A k \in Hit(poi) : Share(poi, Hit(poi))[k] = Span(poi.id, F[k], T[k])
    BY <2>1 DEF Shares
  <2>3. active' = [k \in DOMAIN active |->
                    IF k \notin Hit(poi) THEN active[k]
                    ELSE [sx |-> poi.x, ids |-> active[k].ids \cup {poi.id},
                          points |-> active[k].points \cup Share(poi, Hit(poi))[k]]]
    BY <1>2 DEF Start
  <2>4. active' = [k \in DOMAIN active |-> Taken(poi, F, T, k)]
    BY <2>2, <2>3 DEF Taken, Join
  <2> QED BY <1>2, <2>1, <2>4
<1> QED BY <1>1, <1>2

(* The regions the line does not meet stay; the others begin where it is.  *)
LEMMA RegionsMove ==
    ASSUME SweepInv, NEW poi, MovesTo(poi)
    PROVE  /\ \A k \in DOMAIN active' :
                active'[k].sx = poi.x \/ \E j \in DOMAIN active \ Hit(poi) : active'[k] = active[j]
           /\ \A j \in DOMAIN active \ Hit(poi) : \E k \in DOMAIN active' : active'[k] = active[j]
<1>1. poi \in Edges(rects) /\ poi.kind \in {"START", "END"} /\ active \in Seq(Regions)
  BY LineFacts DEF SweepInv
<1>2. CASE poi.kind = "START"
  <2>1. Start(poi, Hit(poi))
    BY <1>2 DEF MovesTo
  <2>2. CASE Hit(poi) = {}
    <3> DEFINE new == NewRegion(poi)
    <3>1. new.sx = poi.x
      BY DEF NewRegion
    <3>2. active' = Append(active, new)
      BY <1>1, <2>1, <2>2, StartTakes
    <3> HIDE DEF new
    <3>3. /\ DOMAIN active' = 1..(Len(active) + 1) /\ DOMAIN active = 1..Len(active) /\ Len(active) \in Nat
          /\ active'[Len(active) + 1] = new /\ \A k \in DOMAIN active : active'[k] = active[k]
      BY <1>1, <3>2
    <3>4. \A k \in DOMAIN active' : k \in DOMAIN active \/ k = Len(active) + 1
      BY <3>3
    <3>5. DOMAIN active \subseteq DOMAIN active'
      BY <3>3
    <3> QED BY <2>2, <3>1, <3>3, <3>4, <3>5
  <2>3. CASE Hit(poi) # {}
    <3>1. PICK F, T : active' = [k \in DOMAIN active |-> Taken(poi, F, T, k)]
      BY <1>1, <2>1, <2>3, StartTakes
    <3>2. DOMAIN active' = DOMAIN active /\ \A k \in DOMAIN active : active'[k] = Taken(poi, F, T, k)
      BY <3>1
    <3>3. \A k \in DOMAIN active : IF k \in Hit(poi) THEN Taken(poi, F, T, k).sx = poi.x
                                   ELSE Taken(poi, F, T, k) = active[k]
      BY DEF Taken, Join
    <3> QED BY <3>2, <3>3
  <2> QED BY <2>2, <2>3
<1>3. CASE poi.kind = "END"
  <2>1. End(poi, Hit(poi))
    BY <1>3 DEF MovesTo
  <2>0. PICK left \in Seq(DOMAIN active) : Leaves(poi, left)
    BY <1>1, <2>1, EndLeaves
  <2>2. /\ \A i, j \in DOMAIN left : i # j => left[i] # left[j]
        /\ \A i \in DOMAIN left : Left(poi, left[i]).ids # {}
        /\ \A k \in DOMAIN active : Left(poi, k).ids # {} => \E i \in DOMAIN left : left[i] = k
        /\ active' = [i \in DOMAIN left |-> Left(poi, left[i])]
    BY <2>0 DEF Leaves
  <2>3. \A k \in DOMAIN left : left[k] \in DOMAIN active
    OBVIOUS
  <2>4. \A k \in DOMAIN active : \/ k \in Hit(poi) /\ Left(poi, k).sx = poi.x
                                 \/ k \notin Hit(poi) /\ Left(poi, k) = active[k]
    BY DEF Left, Shrink
  <2>5. \A k \in DOMAIN active : active[k].ids # {}
    BY ActiveFacts DEF Whole
  <2>6. ASSUME NEW k \in DOMAIN active'
        PROVE  active'[k].sx = poi.x \/ \E j \in DOMAIN active \ Hit(poi) : active'[k] = active[j]
    <3>1. k \in DOMAIN left /\ active'[k] = Left(poi, left[k])
      BY <2>2
    <3> QED BY <2>3, <2>4, <3>1
  <2>7. ASSUME NEW j \in DOMAIN active \ Hit(poi) PROVE \E k \in DOMAIN active' : active'[k] = active[j]
    <3>1. Left(poi, j) = active[j] /\ Left(poi, j).ids # {}
      BY <2>4, <2>5
    <3> QED BY <2>2, <3>1
  <2> QED BY <2>6, <2>7
<1> QED BY <1>1, <1>2, <1>3

(* The line keeps the regions and the pieces behind it.                    *)
LEMMA LineStays ==
    ASSUME SweepInv, LineInv, NEW poi, MovesTo(poi)
    PROVE  LineInv'
<1>1. /\ poi \in Edges(rects) /\ poi \in todo /\ todo' = todo \ {poi} /\ todo \subseteq Edges(rects)
      /\ \A f \in todo : poi.x <= f.x
      /\ \A f \in Edges(rects) : f.x \in Nat
      /\ Passed' = Passed \cup {poi} /\ Passed \subseteq Edges(rects)
      /\ \A k \in DOMAIN active : active[k].sx \in Nat
  BY LineFacts DEF MovesTo, SweepInv, Passed
<1>2. ASSUME NEW e \in Passed', NEW f \in todo' PROVE e.x <= f.x
  BY <1>1 DEF LineInv
<1>3. ASSUME NEW e \in Passed' PROVE e.x <= poi.x
  BY <1>1 DEF LineInv
<1>4. ASSUME NEW k \in DOMAIN active', active'[k].sx = poi.x
      PROVE  /\ \A f \in todo' : active'[k].sx <= f.x
             /\ \A e \in Passed' : Meets(active'[k], e) => e.x <= active'[k].sx
  BY <1>1, <1>3, <1>4
<1>5. ASSUME NEW k \in DOMAIN active', NEW j \in DOMAIN active \ Hit(poi), active'[k] = active[j]
      PROVE  /\ \A f \in todo' : active'[k].sx <= f.x
             /\ \A e \in Passed' : Meets(active'[k], e) => e.x <= active'[k].sx
  <2>1. ~Meets(active[j], poi)
    BY DEF Hit
  <2>2. ASSUME NEW f \in todo' PROVE active'[k].sx <= f.x
    BY <1>1, <1>5 DEF LineInv
  <2>3. ASSUME NEW e \in Passed', Meets(active'[k], e) PROVE e.x <= active'[k].sx
    BY <1>1, <1>5, <2>1, <2>3 DEF LineInv
  <2> QED BY <2>2, <2>3
<1>6. \A k \in DOMAIN active' : /\ \A f \in todo' : active'[k].sx <= f.x
                                /\ \A e \in Passed' : Meets(active'[k], e) => e.x <= active'[k].sx
  BY <1>4, <1>5, RegionsMove
<1> QED BY <1>2, <1>6 DEF LineInv, Meets, MinY, MaxY

LEMMA PiecesStay ==
    ASSUME SweepInv, LineInv, PiecesInv, NEW poi, MovesTo(poi)
    PROVE  PiecesInv'
<1> DEFINE cut == Cut(Hit(poi), poi.x)
           off == Severed(Hit(poi), poi.x)
<1>1. /\ poi \in todo /\ todo' = todo \ {poi} /\ todo \subseteq Edges(rects) /\ rects' = rects
      /\ \A f \in todo : poi.x <= f.x /\ f.x \in Nat
      /\ poi.x \in 0..Width
      /\ out' = out \o cut
  BY LineFacts DEF MovesTo, SweepInv
<1>2. cut \in Seq(Pieces) /\ \A n \in DOMAIN cut : \E k \in off : Fits(active[k], poi.x, cut[n])
  BY <1>1, CutRows
<1>3. \A k \in off : k \in DOMAIN active /\ active[k].sx # poi.x
  BY DEF Severed
<1> HIDE DEF cut, off
<1>4. ASSUME NEW n \in DOMAIN cut
      PROVE  /\ cut[n].ids \subseteq DOMAIN rects /\ cut[n].rect \in Rects
             /\ \A f \in todo' : cut[n].rect.right <= f.x
  <2>1. PICK k \in off : Fits(active[k], poi.x, cut[n])
    BY <1>2
  <2>2. active[k].ids \subseteq DOMAIN rects /\ active[k].sx \in 0..Width /\ active[k].sx <= poi.x
    <3>1. k \in DOMAIN active /\ active[k] \in Regions /\ Whole(active[k])
      BY <1>3, ActiveFacts
    <3>2. active[k].sx <= poi.x
      BY <1>1, <3>1 DEF LineInv
    <3> QED BY <3>1, <3>2 DEF Whole, Regions
  <2>3. active[k].sx < poi.x
    BY <1>1, <1>3, <2>2
  <2>4. cut[n] \in Pieces
    BY <1>2
  <2>5. cut[n].rect.left < cut[n].rect.right /\ cut[n].rect.top < cut[n].rect.bottom
        /\ cut[n].rect.right = poi.x /\ cut[n].ids \subseteq DOMAIN rects
    BY <2>1, <2>2, <2>3 DEF Fits
  <2>6. cut[n].rect \in Rects
    BY <2>4, <2>5 DEF Pieces, Rects
  <2> QED BY <1>1, <2>5, <2>6
<1>5. /\ out' \in Seq(Pieces)
      /\ \A n \in DOMAIN out' : \/ n \in DOMAIN out /\ out'[n] = out[n]
                                \/ n - Len(out) \in DOMAIN cut /\ out'[n] = cut[n - Len(out)]
  <2>1. out \in Seq(Pieces)
    BY DEF PiecesInv
  <2> QED BY <1>1, <1>2, <2>1
<1>6. ASSUME NEW n \in DOMAIN out'
      PROVE  /\ out'[n].ids \subseteq DOMAIN rects /\ out'[n].rect \in Rects
             /\ \A f \in todo' : out'[n].rect.right <= f.x
  <2>1. CASE n \in DOMAIN out /\ out'[n] = out[n]
    BY <1>1, <2>1 DEF PiecesInv
  <2>2. CASE n - Len(out) \in DOMAIN cut /\ out'[n] = cut[n - Len(out)]
    BY <1>4, <2>2
  <2> QED BY <1>5, <2>1, <2>2
<1> QED BY <1>1, <1>5, <1>6 DEF PiecesInv, Pieces

LEMMA LineStarts == DrawInit => LineInv /\ PiecesInv /\ PlaceInv
<1> SUFFICES ASSUME DrawInit PROVE LineInv /\ PiecesInv /\ PlaceInv
  OBVIOUS
<1>1. rects = <<>> /\ todo = {} /\ active = <<>> /\ out = <<>> /\ at = 1
      /\ target = [p \in DOMAIN planes |-> <<>>]
  BY DEF DrawInit
<1>2. Edges(rects) = {}
  BY <1>1 DEF Edges
<1>3. LineInv
  BY <1>1, <1>2 DEF LineInv, Passed
<1>4. PiecesInv
  BY <1>1 DEF PiecesInv
<1>5. Len(planes) \in Nat
  BY DrawStarts DEF FrameInv, Plans
<1>6. PlaceInv
  BY <1>1, <1>5 DEF PlaceInv
<1> QED BY <1>3, <1>4, <1>6

LEMMA LineKept ==
    FrameInv /\ SweepInv /\ LineInv /\ PiecesInv /\ [DrawNext]_drawVars => LineInv' /\ PiecesInv'
<1> SUFFICES ASSUME FrameInv, SweepInv, LineInv, PiecesInv, [DrawNext]_drawVars
    PROVE  LineInv' /\ PiecesInv'
  OBVIOUS
<1>1. ASSUME UNCHANGED regions PROVE LineInv' /\ PiecesInv'
  BY <1>1 DEF regions, LineInv, PiecesInv, Passed, Edges, Edge, Meets, MinY, MaxY, Pieces
<1>2. ASSUME active' = <<>>, out' = <<>>, todo' = Edges(rects') PROVE LineInv' /\ PiecesInv'
  <2>1. Passed' = {}
    BY <1>2 DEF Passed, Edges, Edge
  <2> QED BY <1>2, <2>1 DEF LineInv, PiecesInv
<1>3. ASSUME rects' = <<>>, active' = <<>>, out' = <<>>, todo' = {} PROVE LineInv' /\ PiecesInv'
  <2>1. todo' = Edges(rects')
    BY <1>3 DEF Edges
  <2> QED BY <1>2, <1>3, <2>1
<1>4. CASE KeepDedicated
  BY <1>1, <1>4 DEF KeepDedicated
<1>5. CASE SeparateLayers
  BY <1>2, <1>5 DEF SeparateLayers, SweepInv
<1>6. CASE GetDrawRegions
  <2>1. PICK poi : MovesTo(poi)
    BY <1>6 DEF GetDrawRegions, NextEdge, MovesTo, Hit
  <2> QED BY <2>1, LineStays, PiecesStay
<1>7. CASE Render
  BY <1>3, <1>7 DEF Render
<1>8. CASE DrawFails
  BY <1>3, <1>8 DEF DrawFails, SweepInv
<1>9. CASE UNCHANGED drawVars
  BY <1>1, <1>9 DEF drawVars
<1> QED BY <1>4, <1>5, <1>6, <1>7, <1>8, <1>9 DEF DrawNext

LEMMA PlaceKept == FrameInv /\ PlaceInv /\ [DrawNext]_drawVars => PlaceInv'
<1> SUFFICES ASSUME FrameInv, PlaceInv, [DrawNext]_drawVars PROVE PlaceInv'
  OBVIOUS
<1>1. at \in Nat /\ DOMAIN planes = 1..Len(planes) /\ Len(planes) \in Nat
  BY DEF FrameInv, Plans
<1>2. ASSUME UNCHANGED <<planes, at, target>> PROVE PlaceInv'
  BY <1>2 DEF PlaceInv, Cells
<1>3. CASE KeepDedicated
  BY <1>1, <1>3 DEF KeepDedicated, Here, PlaceInv, Cells, composition
<1>4. CASE SeparateLayers
  BY <1>2, <1>4 DEF SeparateLayers, composition
<1>5. CASE GetDrawRegions
  BY <1>2, <1>5 DEF GetDrawRegions, composition
<1>6. CASE Render
  <2>1. at \in 1..Len(planes) /\ at' = at + 1 /\ planes' = planes
    BY <1>1, <1>6 DEF Render, Here, composition
  <2> DEFINE drawn == [cell \in Cells |-> Painted(cell)]
  <2>2. target' = target \/ target' = [target EXCEPT ![at] = drawn]
    BY <1>6 DEF Render
  <2>3. DOMAIN drawn = Cells
    OBVIOUS
  <2> HIDE DEF drawn
  <2>4. DOMAIN target' = DOMAIN planes /\ \A p \in DOMAIN planes : target'[p] = target[p] \/ target'[p] = drawn
    BY <2>2 DEF PlaceInv
  <2> QED BY <1>1, <2>1, <2>3, <2>4 DEF PlaceInv, Cells
<1>7. CASE DrawFails
  BY <1>1, <1>7 DEF DrawFails, PlaceInv, Cells, composition
<1>8. CASE UNCHANGED drawVars
  BY <1>2, <1>8 DEF drawVars, composition
<1> QED BY <1>3, <1>4, <1>5, <1>6, <1>7, <1>8 DEF DrawNext

(* Whatever the compositor is given, every piece of the cut is a rectangle *)
(* that is not empty and lies on the screen, with layers of the plane, and *)
(* a target that was drawn has a content at every cell.                    *)
THEOREM DrawIsTyped == DrawSpec => []DrawTypeOK
<1>1. FrameInv /\ SweepInv /\ LineInv /\ PiecesInv /\ PlaceInv => DrawTypeOK
  <2> SUFFICES ASSUME FrameInv, SweepInv, PiecesInv, PlaceInv PROVE DrawTypeOK
    OBVIOUS
  <2>1. \A k \in DOMAIN active : active[k].sx \in 0..Width /\ active[k].ids \subseteq DOMAIN rects
    <3>1. \A r \in Regions : r.sx \in 0..Width
      BY DEF Regions
    <3> QED BY <3>1, ActiveFacts DEF Whole
  <2>2. RegionsTypeOK
    BY <2>1 DEF SweepInv, PiecesInv, RegionsTypeOK
  <2>3. at \in 0..(Len(planes) + 1)
    <3>1. Len(planes) \in Nat /\ at \in Nat
      BY DEF FrameInv, Plans
    <3> QED BY <3>1 DEF PlaceInv
  <2>4. ToSet(dedicated) \subseteq DOMAIN frames
    BY DEF FrameInv, ToSet
  <2> QED BY <2>2, <2>3, <2>4 DEF PlaceInv, DrawTypeOK
<1> QED BY <1>1, DrawStarts, DrawKeeps, LineStarts, LineKept, PlaceKept, PTL DEF DrawSpec
-----------------------------------------------------------------------------
(* Each layer between its edges stays with a region.                       *)

(* Who is alive in a region is alive in one with more points, and in one   *)
(* with less if the layer is not among those that leave.                   *)
LEMMA AliveInMore ==
    ASSUME NEW r, NEW s, r.ids \subseteq s.ids, r.points \subseteq s.points, NEW y
    PROVE  Alive(r, y) \subseteq Alive(s, y)
BY DEF Alive

LEMMA AliveInRest ==
    ASSUME NEW r, NEW x, NEW gone, NEW y, NEW i \in Alive(r, y), i \notin gone
    PROVE  i \in Alive(Shrink(r, x, gone), y)
<1> DEFINE s == Shrink(r, x, gone)
<1>1. s.ids = r.ids \ gone /\ s.points = {p \in r.points : p.id \notin gone}
  BY DEF Shrink
<1>2. PICK p, q \in r.points :
        /\ p.id = i /\ p.kind = "START" /\ q.id = i /\ q.kind = "END" /\ p.y <= y /\ y < q.y
  BY DEF Alive
<1>3. i \in r.ids
  BY DEF Alive
<1> HIDE DEF s
<1>4. p \in s.points /\ q \in s.points /\ i \in s.ids
  BY <1>1, <1>2, <1>3
<1>5. i \in Alive(s, y)
  BY <1>2, <1>4 DEF Alive
<1> QED BY <1>5 DEF s

LEMMA AcrossMore ==
    ASSUME NEW r \in Regions, NEW s \in Regions, s.points # {}, s.points \subseteq r.points,
           NEW y \in Nat, Across(s, y)
    PROVE  Across(r, y)
<1>1. r.points # {}
  OBVIOUS
<1>2. PICK p \in s.points : p.y = MinY(s)
  BY Extent
<1>3. PICK q \in s.points : q.y = MaxY(s)
  BY Extent
<1>4. /\ MinY(r) \in Nat /\ MaxY(r) \in Nat /\ MinY(r) <= p.y /\ q.y <= MaxY(r)
      /\ MinY(s) \in Nat /\ MaxY(s) \in Nat
  <2>1. 0..Height \subseteq Nat
    OBVIOUS
  <2>2. p \in r.points /\ q \in r.points
    OBVIOUS
  <2>3. MinY(r) \in 0..Height /\ MaxY(r) \in 0..Height /\ MinY(r) <= p.y /\ q.y <= MaxY(r)
    BY <1>1, <2>2, Extent
  <2>4. MinY(s) \in 0..Height /\ MaxY(s) \in 0..Height
    BY Extent
  <2> QED BY <2>1, <2>3, <2>4
<1> QED BY <1>2, <1>3, <1>4 DEF Across

(* A left edge: the new layer has all of its height, the others keep what  *)
(* they have.                                                              *)
LEMMA StartIsShared ==
    ASSUME SweepInv, NEW poi \in Edges(rects), Start(poi, Hit(poi))
    PROVE  /\ \A k \in DOMAIN active : \A y : \E n \in DOMAIN active' :
                Alive(active[k], y) \subseteq Alive(active'[n], y)
           /\ \A y \in Nat : poi.top <= y /\ y < poi.bot =>
                \E n \in DOMAIN active' : poi.id \in Alive(active'[n], y)
<1>1. active \in Seq(Regions)
  BY DEF SweepInv
<1>2. CASE Hit(poi) = {}
  <2> DEFINE new == NewRegion(poi)
             N == Len(active)
  <2>1. active' = Append(active, new)
    BY <1>2, StartTakes
  <2>2. new.ids = {poi.id} /\ new.points = Span(poi.id, poi.top, poi.bot)
    BY DEF NewRegion
  <2> HIDE DEF new
  <2>3. /\ DOMAIN active \subseteq DOMAIN active' /\ N + 1 \in DOMAIN active'
        /\ active'[N + 1] = new /\ \A k \in DOMAIN active : active'[k] = active[k]
    BY <1>1, <2>1
  <2> HIDE DEF N
  <2>4. ASSUME NEW y \in Nat, poi.top <= y, y < poi.bot PROVE poi.id \in Alive(new, y)
    BY <2>2, <2>4 DEF Alive, Span
  <2> QED BY <2>3, <2>4
<1>3. CASE Hit(poi) # {}
  <2>1. PICK F, T : Shares(poi, Hit(poi), F, T) /\ active' = [k \in DOMAIN active |-> Taken(poi, F, T, k)]
    BY <1>3, StartTakes
  <2>2. DOMAIN active' = DOMAIN active /\ \A k \in DOMAIN active : active'[k] = Taken(poi, F, T, k)
    BY <2>1
  <2>3. ASSUME NEW k \in DOMAIN active, NEW y PROVE Alive(active[k], y) \subseteq Alive(active'[k], y)
    <3> DEFINE r == active[k]
               s == active'[k]
    <3>1. r.ids \subseteq s.ids /\ r.points \subseteq s.points
      BY <2>2 DEF Taken, Join
    <3> HIDE DEF r, s
    <3>2. Alive(r, y) \subseteq Alive(s, y)
      BY <3>1, AliveInMore
    <3> QED BY <3>2 DEF r, s
  <2>4. ASSUME NEW y \in Nat, poi.top <= y, y < poi.bot
        PROVE  \E n \in DOMAIN active' : poi.id \in Alive(active'[n], y)
    <3>1. PICK k \in Hit(poi) : F[k] <= y /\ y < T[k]
      BY <1>3, <2>1, <2>4 DEF Shares
    <3>2. k \in DOMAIN active
      BY DEF Hit
    <3>3. /\ active'[k].ids = active[k].ids \cup {poi.id}
          /\ active'[k].points = active[k].points \cup Span(poi.id, F[k], T[k])
      BY <2>2, <3>2 DEF Taken, Join
    <3>4. poi.id \in Alive(active'[k], y)
      <4> DEFINE p == [kind |-> "START", id |-> poi.id, y |-> F[k]]
                 q == [kind |-> "END", id |-> poi.id, y |-> T[k]]
      <4>1. p \in active'[k].points /\ q \in active'[k].points
        BY <3>3 DEF Span
      <4>2. /\ p.id = poi.id /\ p.kind = "START" /\ q.id = poi.id /\ q.kind = "END"
            /\ p.y = F[k] /\ q.y = T[k]
        OBVIOUS
      <4>3. poi.id \in active'[k].ids
        BY <3>3
      <4> HIDE DEF p, q
      <4> QED BY <3>1, <4>1, <4>2, <4>3 DEF Alive
    <3> QED BY <2>2, <3>2, <3>4
  <2> QED BY <2>2, <2>3, <2>4
<1> QED BY <1>2, <1>3

(* A right edge: a layer stays where it is, or ends here.                  *)
LEMMA EndIsShared ==
    ASSUME SweepInv, NEW poi \in Edges(rects), End(poi, Hit(poi))
    PROVE  /\ \A k \in DOMAIN active, y \in Nat : \A i \in Alive(active[k], y) :
                \/ \E n \in DOMAIN active' : i \in Alive(active'[n], y)
                \/ /\ k \in Hit(poi) /\ active[k].sx # poi.x
                   /\ i = poi.id \/ (i \in DOMAIN rects /\ rects[i].right = poi.x)
           /\ \A n \in DOMAIN active', y \in Nat : Across(active'[n], y) =>
                \E k \in DOMAIN active : Across(active[k], y) /\ active'[n] = Left(poi, k)
<1>1. active \in Seq(Regions) /\ rects \in Seq(Rects) /\ todo \subseteq Edges(rects)
  BY DEF SweepInv
<1>0. PICK left \in Seq(DOMAIN active) : Leaves(poi, left)
  BY <1>1, EndLeaves
<1>2. /\ \A i, j \in DOMAIN left : i # j => left[i] # left[j]
      /\ \A i \in DOMAIN left : Left(poi, left[i]).ids # {}
      /\ \A k \in DOMAIN active : Left(poi, k).ids # {} => \E i \in DOMAIN left : left[i] = k
      /\ active' = [i \in DOMAIN left |-> Left(poi, left[i])]
  BY <1>0 DEF Leaves
<1>3. DOMAIN active' = DOMAIN left
      /\ \A n \in DOMAIN left : left[n] \in DOMAIN active /\ active'[n] = Left(poi, left[n])
  BY <1>2
<1>4. ASSUME NEW k \in DOMAIN active, NEW y \in Nat, NEW i \in Alive(active[k], y),
             i \in Alive(Left(poi, k), y)
      PROVE  \E n \in DOMAIN active' : i \in Alive(active'[n], y)
  <2>1. Left(poi, k).ids # {}
    BY <1>4 DEF Alive
  <2>2. PICK n \in DOMAIN left : left[n] = k
    BY <1>2, <2>1
  <2> QED BY <1>3, <1>4, <2>2
<1>5. ASSUME NEW k \in DOMAIN active, NEW y \in Nat, NEW i \in Alive(active[k], y),
             ~ \E n \in DOMAIN active' : i \in Alive(active'[n], y)
      PROVE  /\ k \in Hit(poi) /\ active[k].sx # poi.x
             /\ i = poi.id \/ (i \in DOMAIN rects /\ rects[i].right = poi.x)
  <2>1. i \notin Alive(Left(poi, k), y)
    BY <1>4, <1>5
  <2>2. k \in Hit(poi) /\ active[k].sx # poi.x
    BY <2>1 DEF Left
  <2> DEFINE gone == Ending(poi, Hit(poi))[k]
             r == active[k]
             x == poi.x
  <2>3. i \in gone
    <3>1. Left(poi, k) = Shrink(r, x, gone) /\ i \in Alive(r, y)
      BY <2>2 DEF Left
    <3> HIDE DEF gone, r, x
    <3> QED BY <2>1, <3>1, AliveInRest
  <2>4. gone = {poi.id} \cup {q.id : q \in {p \in todo : p.kind = "END" /\ p.x = poi.x
                                                  /\ Before(poi, p) /\ Meets(active[k], p)}}
    BY <2>2 DEF Ending
  <2> HIDE DEF gone
  <2>5. ASSUME i # poi.id PROVE i \in DOMAIN rects /\ rects[i].right = poi.x
    <3>1. PICK q \in todo : q.id = i /\ q.kind = "END" /\ q.x = poi.x
      BY <2>3, <2>4, <2>5
    <3>2. q \in Edges(rects)
      BY <1>1
    <3> QED BY <1>1, <3>1, <3>2, EdgeFacts
  <2> QED BY <2>2, <2>5
<1>6. ASSUME NEW n \in DOMAIN active', NEW y \in Nat, Across(active'[n], y)
      PROVE  \E k \in DOMAIN active : Across(active[k], y) /\ active'[n] = Left(poi, k)
  <2> DEFINE k == left[n]
             r == active[k]
             s == Left(poi, k)
  <2>1. k \in DOMAIN active /\ active'[n] = s /\ s.ids # {}
    BY <1>2, <1>3
  <2>2. s \in Regions /\ Whole(s)
    <3> HIDE DEF k
    <3> QED BY <2>1, LeftIsWhole
  <2>3. s.points # {}
    <3> HIDE DEF s
    <3> QED BY <1>1, <2>2, WholeReaches
  <2>4. s.points \subseteq r.points
    BY DEF Left, Shrink
  <2>5. r \in Regions
    <3> HIDE DEF k
    <3> QED BY <2>1, ActiveFacts
  <2> HIDE DEF r, s
  <2>6. Across(r, y)
    BY <1>6, <2>1, <2>2, <2>3, <2>4, <2>5, AcrossMore
  <2> HIDE DEF k
  <2> QED BY <2>1, <2>6 DEF r, s
<1> QED BY <1>4, <1>5, <1>6

(* Each layer between its edges stays with the region of its height.       *)
LEMMA ShareStays ==
    ASSUME SweepInv, EdgeInv, LineInv, ShareInv, NEW poi, MovesTo(poi)
    PROVE  ShareInv'
<1> DEFINE Starts(i) == Edge(rects, i, "START")
           Ends(i) == Edge(rects, i, "END")
           Has(i, y) == \E k \in DOMAIN active' : i \in Alive(active'[k], y)
           Done(i, y) ==
              /\ \E e \in Passed' : rects[i].right <= e.x
              /\ \A k \in DOMAIN active' : Across(active'[k], y) => rects[i].right <= active'[k].sx
<1>1. /\ rects \in Seq(Rects) /\ rects' = rects
      /\ poi \in Edges(rects) /\ poi \in todo /\ todo' = todo \ {poi} /\ todo \subseteq Edges(rects)
      /\ poi.kind \in {"START", "END"}
      /\ \A f \in todo : poi.x <= f.x
      /\ \A f \in Edges(rects) : f.x \in Nat
      /\ Passed' = Passed \cup {poi} /\ Passed \subseteq Edges(rects)
      /\ \A k \in DOMAIN active : active[k].sx \in Nat
  BY LineFacts DEF MovesTo, SweepInv, Passed
<1>2. /\ poi.id \in DOMAIN rects /\ poi = Edge(rects, poi.id, poi.kind)
      /\ poi.top = rects[poi.id].top /\ poi.bot = rects[poi.id].bottom
      /\ poi.x = IF poi.kind = "START" THEN rects[poi.id].left ELSE rects[poi.id].right
  BY <1>1, EdgeFacts
<1>3. \A i \in DOMAIN rects :
        /\ Starts(i).id = i /\ Starts(i).kind = "START" /\ Starts(i).x = rects[i].left
        /\ Ends(i).id = i /\ Ends(i).kind = "END" /\ Ends(i).x = rects[i].right
        /\ Ends(i) \in Edges(rects)
  BY EdgeOf DEF Edges
<1>4. ASSUME NEW i \in DOMAIN rects, NEW y \in 0..Height, Inside(i),
             rects[i].top <= y, y < rects[i].bottom
      PROVE  \/ \E k \in DOMAIN active : i \in Alive(active[k], y)
             \/ /\ \E e \in Passed : rects[i].right <= e.x
                /\ \A k \in DOMAIN active : Across(active[k], y) => rects[i].right <= active[k].sx
  BY <1>4 DEF ShareInv
<1>5. \A i \in DOMAIN rects : rects[i].right \in Nat
  BY <1>1, <1>3
<1>6. \A y \in 0..Height : y \in Nat
  OBVIOUS
<1>7. \A i \in DOMAIN rects : Starts(i) \notin todo /\ Ends(i) \in todo => Inside(i)
  BY DEF Inside
<1> HIDE DEF Starts, Ends
<1>8. CASE poi.kind = "START"
  <2>1. /\ \A k \in DOMAIN active : \A y : \E n \in DOMAIN active' :
                Alive(active[k], y) \subseteq Alive(active'[n], y)
        /\ \A y \in Nat : poi.top <= y /\ y < poi.bot =>
                \E n \in DOMAIN active' : poi.id \in Alive(active'[n], y)
    <3>1. Start(poi, Hit(poi))
      BY <1>8 DEF MovesTo
    <3> QED BY <1>1, <3>1, StartIsShared
  <2>2. ASSUME NEW i \in DOMAIN rects, NEW y \in 0..Height, Starts(i) \notin todo', Ends(i) \in todo',
               rects[i].top <= y, y < rects[i].bottom
        PROVE  Has(i, y)
    <3>1. CASE i = poi.id
      BY <1>2, <1>6, <2>1, <2>2, <3>1
    <3>2. CASE i # poi.id
      <4>1. Starts(i) # poi /\ Ends(i) # poi
        BY <1>3, <3>2
      <4>2. Starts(i) \notin todo /\ Ends(i) \in todo
        BY <1>1, <2>2, <4>1
      <4>3. Before(poi, Ends(i))
        BY <4>1, <4>2 DEF MovesTo
      <4>4. poi.x < rects[i].right
        <5>1. poi.x < rects[i].right \/ (poi.x = rects[i].right /\ poi.id > i)
          BY <1>3, <4>3 DEF Before
        <5>2. ~(poi.x = rects[i].right /\ poi.id > i)
          BY <1>1, <1>2, <1>8 DEF EdgeInv
        <5> QED BY <5>1, <5>2
      <4>5. ~ \E e \in Passed : rects[i].right <= e.x
        <5>1. \A e \in Passed : e.x <= poi.x
          BY <1>1 DEF LineInv
        <5> QED BY <1>1, <1>5, <4>4, <5>1
      <4>6. \E k \in DOMAIN active : i \in Alive(active[k], y)
        BY <1>4, <1>7, <2>2, <4>2, <4>5
      <4> QED BY <2>1, <4>6
    <3> QED BY <3>1, <3>2
  <2> QED BY <1>1, <2>2 DEF ShareInv, Inside, Starts, Ends, Edge, Alive
<1>9. CASE poi.kind = "END"
  <2>1. /\ \A k \in DOMAIN active, y \in Nat : \A i \in Alive(active[k], y) :
                \/ \E n \in DOMAIN active' : i \in Alive(active'[n], y)
                \/ /\ k \in Hit(poi) /\ active[k].sx # poi.x
                   /\ i = poi.id \/ (i \in DOMAIN rects /\ rects[i].right = poi.x)
        /\ \A n \in DOMAIN active', y \in Nat : Across(active'[n], y) =>
                \E k \in DOMAIN active : Across(active[k], y) /\ active'[n] = Left(poi, k)
    <3>1. End(poi, Hit(poi))
      BY <1>9 DEF MovesTo
    <3> QED BY <1>1, <3>1, EndIsShared
  <2>2. \A k \in DOMAIN active : \/ k \in Hit(poi) /\ Left(poi, k).sx = poi.x
                                 \/ k \notin Hit(poi) /\ Left(poi, k) = active[k]
    BY DEF Left, Shrink
  <2>3. \A k \in DOMAIN active : active[k].sx <= poi.x
    BY <1>1 DEF LineInv
  <2>4. ASSUME NEW i \in DOMAIN rects, NEW y \in 0..Height, Starts(i) \notin todo', Ends(i) \in todo',
               rects[i].top <= y, y < rects[i].bottom
        PROVE  Has(i, y) \/ Done(i, y)
    <3>1. i # poi.id
      <4>1. Ends(poi.id) = poi
        BY <1>2, <1>9 DEF Ends
      <4> QED BY <1>1, <2>4, <4>1
    <3>2. Starts(i) # poi
      BY <1>3, <3>1
    <3>3. Starts(i) \notin todo /\ Ends(i) \in todo /\ y \in Nat
      BY <1>1, <1>6, <2>4, <3>2
    <3>4. ASSUME NEW k \in DOMAIN active, i \in Alive(active[k], y), ~Has(i, y) PROVE Done(i, y)
      <4>1. k \in Hit(poi) /\ rects[i].right = poi.x
        BY <2>1, <3>1, <3>3, <3>4
      <4>2. poi \in Passed' /\ rects[i].right <= poi.x
        BY <1>1, <1>5, <4>1
      <4>3. ASSUME NEW n \in DOMAIN active', Across(active'[n], y) PROVE active'[n].sx = poi.x
        <5>1. PICK j \in DOMAIN active : Across(active[j], y) /\ active'[n] = Left(poi, j)
          BY <2>1, <3>3, <4>3
        <5>2. Across(active[k], y)
          <6> DEFINE r == active[k]
          <6>1. r \in Regions /\ Alive(r, y) # {}
            BY <3>4, ActiveFacts
          <6> HIDE DEF r
          <6>2. Across(r, y)
            BY <3>3, <6>1, AliveIsAcross
          <6> QED BY <6>2 DEF r
        <5>3. j = k
          BY <3>3, <5>1, <5>2, OneAcross
        <5> QED BY <2>2, <4>1, <5>1, <5>3
      <4> QED BY <4>2, <4>3
    <3>5. ASSUME \E e \in Passed : rects[i].right <= e.x,
                 \A k \in DOMAIN active : Across(active[k], y) => rects[i].right <= active[k].sx
          PROVE  Done(i, y)
      <4>1. ASSUME NEW n \in DOMAIN active', Across(active'[n], y) PROVE rects[i].right <= active'[n].sx
        <5>1. PICK j \in DOMAIN active : Across(active[j], y) /\ active'[n] = Left(poi, j)
          BY <2>1, <3>3, <4>1
        <5>2. rects[i].right <= active[j].sx /\ active[j].sx <= poi.x
          BY <2>3, <3>5, <5>1
        <5>3. active'[n].sx = active[j].sx \/ active'[n].sx = poi.x
          BY <2>2, <5>1
        <5>4. active[j].sx \in Nat /\ poi.x \in Nat
          BY <1>1
        <5> QED BY <1>5, <5>2, <5>3, <5>4
      <4> QED BY <1>1, <3>5, <4>1
    <3> HIDE DEF Has, Done
    <3> QED BY <1>4, <1>7, <2>4, <3>3, <3>4, <3>5
  <2> QED BY <1>1, <2>4 DEF ShareInv, Inside, Starts, Ends, Edge, Alive, Across, MinY, MaxY
<1> QED BY <1>1, <1>8, <1>9

(* Between the line's stops a region blends, where it is, the layers that  *)
(* are there.                                                              *)
LEMMA RegionIsExact ==
    ASSUME SweepInv, EdgeInv, LineInv, ShareInv, NEW cell \in Cells, \A f \in todo : cell[1] < f.x,
           NEW k \in DOMAIN active, active[k].sx <= cell[1], Across(active[k], cell[2])
    PROVE  Alive(active[k], cell[2]) = LayersAt(cell)
<1> DEFINE x == cell[1]
           y == cell[2]
           r == active[k]
<1>1. x \in Nat /\ y \in Nat /\ y \in 0..Height
  BY BoundsAssumption DEF Cells
<1>2. rects \in Seq(Rects) /\ todo \subseteq Edges(rects) /\ r \in Regions /\ Whole(r) /\ r.sx \in Nat
      /\ MinY(r) \in Nat /\ MaxY(r) \in Nat
  <2>1. \A s \in Regions : s.sx \in Nat
    BY DEF Regions
  <2>2. 0..Height \subseteq Nat
    OBVIOUS
  <2> QED BY <2>1, <2>2, ActiveFacts DEF SweepInv
<1>3. \A f \in todo : x < f.x
  OBVIOUS
<1>4. r.sx <= x /\ MinY(r) <= y /\ y < MaxY(r)
  BY DEF Across
<1>5. ASSUME NEW i \in DOMAIN rects
      PROVE  /\ rects[i].left \in Nat /\ rects[i].right \in Nat /\ rects[i].top \in Nat
             /\ rects[i].bottom \in Nat
             /\ Edge(rects, i, "START") \in Edges(rects) /\ Edge(rects, i, "END") \in Edges(rects)
             /\ Edge(rects, i, "START").x = rects[i].left /\ Edge(rects, i, "END").x = rects[i].right
             /\ \A kind \in {"START", "END"} : Meets(r, Edge(rects, i, kind)) <=>
                    rects[i].bottom > MinY(r) /\ rects[i].top < MaxY(r)
  <2>1. \A v \in 0..Width : v \in Nat
    OBVIOUS
  <2>2. \A v \in 0..Height : v \in Nat
    OBVIOUS
  <2>3. Edge(rects, i, "START") \in Edges(rects) /\ Edge(rects, i, "END") \in Edges(rects)
    BY DEF Edges
  <2>4. \A kind \in {"START", "END"} : Meets(r, Edge(rects, i, kind)) <=>
                    rects[i].bottom > MinY(r) /\ rects[i].top < MaxY(r)
    BY EdgeOf DEF Meets
  <2>5. Edge(rects, i, "START").x = rects[i].left /\ Edge(rects, i, "END").x = rects[i].right
    BY EdgeOf
  <2> QED BY <1>2, <2>1, <2>2, <2>3, <2>4, <2>5, RectFacts
<1>6. \A i \in DOMAIN rects : i \in LayersAt(cell) <=>
        rects[i].left <= x /\ x < rects[i].right /\ rects[i].top <= y /\ y < rects[i].bottom
  BY DEF LayersAt, Covers
<1>7. \A e \in Edges(rects) : e \in Passed <=> e \notin todo
  BY DEF Passed
<1>8. \A e \in Passed : Meets(r, e) => e.x <= r.sx
  BY DEF LineInv
<1>9. ASSUME NEW i \in Alive(r, y) PROVE i \in LayersAt(cell)
  <2>1. i \in r.ids /\ i \in DOMAIN rects /\ Held(r, i)
    BY <1>2 DEF Alive, Whole
  <2>2. rects[i].top <= y /\ y < rects[i].bottom
    <3>1. PICK p, q \in r.points :
            /\ p.id = i /\ p.kind = "START" /\ q.id = i /\ q.kind = "END" /\ p.y <= y /\ y < q.y
      BY DEF Alive
    <3>2. PICK a, b \in r.points :
            /\ a.kind = "START" /\ b.kind = "END"
            /\ rects[i].top <= a.y /\ b.y <= rects[i].bottom
            /\ \A s \in r.points : s.id = i => s = a \/ s = b
      BY <2>1 DEF Held
    <3>3. p = a /\ q = b
      BY <3>1, <3>2
    <3>4. p.y \in Nat /\ q.y \in Nat
      BY <1>2 DEF Regions, Points
    <3> QED BY <1>1, <1>5, <2>1, <3>1, <3>2, <3>3, <3>4
  <2>3. rects[i].left <= x
    <3>1. Edge(rects, i, "START") \in Passed
      BY <1>5, <1>7, <2>1 DEF SweepInv
    <3>2. rects[i].bottom > MinY(r) /\ rects[i].top < MaxY(r)
      BY <1>1, <1>2, <1>4, <1>5, <2>1, <2>2
    <3>3. rects[i].left <= r.sx
      BY <1>5, <1>8, <2>1, <3>1, <3>2
    <3> QED BY <1>1, <1>2, <1>4, <1>5, <2>1, <3>3
  <2>4. x < rects[i].right
    <3>1. Edge(rects, i, "END") \in todo
      BY <2>1 DEF EdgeInv
    <3> QED BY <1>3, <1>5, <2>1, <3>1
  <2> QED BY <1>6, <2>1, <2>2, <2>3, <2>4
<1>10. ASSUME NEW i \in LayersAt(cell) PROVE i \in Alive(r, y)
  <2>1. i \in DOMAIN rects
    BY DEF LayersAt
  <2>2. rects[i].left <= x /\ x < rects[i].right /\ rects[i].top <= y /\ y < rects[i].bottom
    BY <1>6, <2>1
  <2>3. Edge(rects, i, "START") \notin todo
    BY <1>1, <1>3, <1>5, <2>1, <2>2
  <2>4. ~(rects[i].right <= r.sx)
    BY <1>1, <1>2, <1>4, <1>5, <2>1, <2>2
  <2>5. Edge(rects, i, "END") \in todo
    <3>1. rects[i].bottom > MinY(r) /\ rects[i].top < MaxY(r)
      BY <1>1, <1>2, <1>4, <1>5, <2>1, <2>2
    <3>2. Meets(r, Edge(rects, i, "END"))
      BY <1>5, <2>1, <3>1
    <3> QED BY <1>5, <1>7, <1>8, <2>1, <2>4, <3>2
  <2>6. \/ \E j \in DOMAIN active : i \in Alive(active[j], y)
        \/ \A j \in DOMAIN active : Across(active[j], y) => rects[i].right <= active[j].sx
    BY <1>1, <2>1, <2>2, <2>3, <2>5 DEF ShareInv, Inside
  <2>7. PICK j \in DOMAIN active : i \in Alive(active[j], y)
    BY <2>4, <2>6
  <2>8. Across(active[j], y)
    <3> DEFINE s == active[j]
    <3>1. s \in Regions /\ Alive(s, y) # {}
      BY <2>7, ActiveFacts
    <3> HIDE DEF s
    <3>2. Across(s, y)
      BY <1>1, <3>1, AliveIsAcross
    <3> QED BY <3>2 DEF s
  <2>9. j = k
    BY <1>1, <2>8, OneAcross
  <2> QED BY <2>7, <2>9
<1> QED BY <1>9, <1>10 DEF Alive, LayersAt
-----------------------------------------------------------------------------
(* The cut is exact behind the line.                                       *)

Spots(pieces, cell) == {n \in DOMAIN pieces : Covers(pieces[n].rect, cell)}

(* The pieces at a cell, of two cuts joined.                               *)
LEMMA SpotsOfBoth ==
    ASSUME NEW a \in Seq(Pieces), NEW b \in Seq(Pieces), NEW cell
    PROVE  /\ Spots(b, cell) = {} =>
                Spots(a \o b, cell) = Spots(a, cell) /\ \A n \in Spots(a, cell) : (a \o b)[n] = a[n]
           /\ \A m : Spots(a, cell) = {} /\ Spots(b, cell) = {m} =>
                \E n : Spots(a \o b, cell) = {n} /\ (a \o b)[n] = b[m]
<1> DEFINE c == a \o b
           N == Len(a)
<1>1. /\ N \in Nat /\ DOMAIN a = 1..N /\ Len(b) \in Nat /\ DOMAIN b = 1..Len(b)
      /\ DOMAIN c = 1..(N + Len(b))
      /\ \A n \in DOMAIN a : c[n] = a[n]
      /\ \A n \in DOMAIN c : n \notin DOMAIN a => n - N \in DOMAIN b /\ c[n] = b[n - N]
      /\ \A n \in DOMAIN b : n + N \in DOMAIN c /\ n + N \notin DOMAIN a /\ (n + N) - N = n
  OBVIOUS
<1> HIDE DEF c, N
<1>2. DOMAIN a \subseteq DOMAIN c
  BY <1>1
<1>3. ASSUME Spots(b, cell) = {}
      PROVE  Spots(c, cell) = Spots(a, cell) /\ \A n \in Spots(a, cell) : c[n] = a[n]
  <2>1. \A n \in DOMAIN c : n \notin DOMAIN a => ~Covers(c[n].rect, cell)
    BY <1>1, <1>3 DEF Spots
  <2> QED BY <1>1, <1>2, <2>1 DEF Spots
<1>4. ASSUME NEW m, Spots(a, cell) = {}, Spots(b, cell) = {m}
      PROVE  \E n : Spots(c, cell) = {n} /\ c[n] = b[m]
  <2>1. m \in DOMAIN b /\ Covers(b[m].rect, cell) /\ \A n \in DOMAIN b : Covers(b[n].rect, cell) => n = m
    BY <1>4 DEF Spots
  <2> DEFINE n == m + N
  <2>2. n \in DOMAIN c /\ n \notin DOMAIN a /\ n - N = m
    BY <1>1, <2>1
  <2>3. c[n] = b[m]
    BY <1>1, <2>2
  <2>4. ASSUME NEW o \in Spots(c, cell) PROVE o = n
    <3>1. o \in DOMAIN c /\ Covers(c[o].rect, cell)
      BY DEF Spots
    <3>2. o \notin DOMAIN a
      BY <1>1, <1>4, <3>1 DEF Spots
    <3>3. o - N = m
      BY <1>1, <2>1, <3>1, <3>2
    <3>4. o \in Nat
      BY <1>1, <3>1
    <3> QED BY <1>1, <3>3, <3>4
  <2>5. n \in Spots(c, cell)
    BY <2>1, <2>2, <2>3 DEF Spots
  <2> HIDE DEF n
  <2>6. Spots(c, cell) = {n}
    BY <2>4, <2>5
  <2> QED BY <2>3, <2>6
<1> QED BY <1>3, <1>4 DEF c

(* What an edge cuts at a cell is what the region across it blends.        *)
LEMMA CutAtCell ==
    ASSUME SweepInv, NEW hit, NEW x \in 0..Width, NEW cell \in Cells, cell[1] < x
    PROVE  /\ Spots(Cut(hit, x), cell) # {} =>
                \E k \in Severed(hit, x) : active[k].sx <= cell[1] /\ Across(active[k], cell[2])
           /\ \A k \in Severed(hit, x) : active[k].sx <= cell[1] /\ Across(active[k], cell[2]) =>
                /\ Spots(Cut(hit, x), cell) = Rows(Cut(hit, x), cell[2])
                /\ RowExact(active[k], Cut(hit, x), cell[2])
<1> DEFINE cut == Cut(hit, x)
           off == Severed(hit, x)
           y == cell[2]
<1>1. /\ \A n \in DOMAIN cut : \E k \in off :
              /\ Fits(active[k], x, cut[n])
              /\ \A yy \in Nat : n \in Rows(cut, yy) => Across(active[k], yy)
      /\ \A k \in off, yy \in Nat : Across(active[k], yy) => RowExact(active[k], cut, yy)
  BY CutRows
<1>2. y \in Nat
  BY BoundsAssumption DEF Cells
<1>3. off \subseteq DOMAIN active
  BY DEF Severed
<1> HIDE DEF cut, off
<1>4. \A n \in DOMAIN cut : Covers(cut[n].rect, cell) <=>
          cut[n].rect.left <= cell[1] /\ cell[1] < cut[n].rect.right /\ n \in Rows(cut, y)
  BY DEF Covers, Rows
<1>5. \A n \in Rows(cut, y) : n \in DOMAIN cut
  BY DEF Rows
<1> HIDE DEF y
<1>6. ASSUME Spots(cut, cell) # {}
      PROVE  \E k \in off : active[k].sx <= cell[1] /\ Across(active[k], y)
  <2>1. PICK n \in DOMAIN cut : Covers(cut[n].rect, cell)
    BY <1>6 DEF Spots
  <2>2. PICK k \in off : Fits(active[k], x, cut[n])
                         /\ \A yy \in Nat : n \in Rows(cut, yy) => Across(active[k], yy)
    BY <1>1
  <2> QED BY <1>2, <1>4, <2>1, <2>2 DEF Fits
<1>7. ASSUME NEW k \in off, active[k].sx <= cell[1], Across(active[k], y)
      PROVE  Spots(cut, cell) = Rows(cut, y) /\ RowExact(active[k], cut, y)
  <2>1. ASSUME NEW n \in Rows(cut, y) PROVE n \in Spots(cut, cell)
    <3>1. n \in DOMAIN cut
      BY <1>5
    <3>2. PICK j \in off : Fits(active[j], x, cut[n])
                           /\ \A yy \in Nat : n \in Rows(cut, yy) => Across(active[j], yy)
      BY <1>1, <3>1
    <3>3. Across(active[j], y)
      BY <1>2, <3>2
    <3>4. j = k
      BY <1>2, <1>3, <1>7, <3>3, OneAcross
    <3> QED BY <1>4, <1>7, <3>1, <3>2, <3>4 DEF Fits, Spots
  <2>2. ASSUME NEW n \in Spots(cut, cell) PROVE n \in Rows(cut, y)
    BY <1>4 DEF Spots
  <2>3. RowExact(active[k], cut, y)
    BY <1>1, <1>2, <1>7
  <2> QED BY <2>1, <2>2, <2>3
<1> QED BY <1>6, <1>7 DEF cut, off, y

LEMMA SweepStays ==
    ASSUME SweepInv, NEW poi, MovesTo(poi)
    PROVE  SweepInv' /\ \A k \in DOMAIN active' : active'[k] \in Regions
<1>1. NextEdge
  BY DEF NextEdge, MovesTo, Hit
<1>2. SweepInv'
  BY <1>1, NextEdgeKeeps
<1>3. active' \in Seq(Regions)
  BY <1>2 DEF SweepInv, Regions, Points
<1> QED BY <1>2, <1>3

(* An edge keeps the cut exact behind the line: a cell not yet cut waits on *)
(* a region that is across it.                                             *)
LEMMA ExactStays ==
    ASSUME SweepInv, EdgeInv, LineInv, PiecesInv, ShareInv, ExactInv, NEW poi, MovesTo(poi)
    PROVE  ExactInv'
<1> DEFINE cut == Cut(Hit(poi), poi.x)
           off == Severed(Hit(poi), poi.x)
           Old(cell) == Spots(out, cell)
           New(cell) == Spots(out', cell)
           WaitsOn(cell) == \E k \in DOMAIN active' :
                              active'[k].sx <= cell[1] /\ Across(active'[k], cell[2])
           Exact(cell) == IF LayersAt(cell) = {} THEN New(cell) = {}
                          ELSE \E n \in New(cell) : New(cell) = {n} /\ out'[n].ids = LayersAt(cell)
<1>1. /\ rects \in Seq(Rects) /\ rects' = rects
      /\ poi \in Edges(rects) /\ poi \in todo /\ todo' = todo \ {poi} /\ todo \subseteq Edges(rects)
      /\ poi.x \in 0..Width /\ poi.x \in Nat
      /\ \A f \in todo : poi.x <= f.x
      /\ \A f \in Edges(rects) : f.x \in Nat
      /\ Passed' = Passed \cup {poi} /\ Passed \subseteq Edges(rects)
      /\ \A k \in DOMAIN active : active[k].sx \in Nat
      /\ out' = out \o cut
  BY LineFacts DEF MovesTo, SweepInv, Passed
<1>2. \A k \in DOMAIN active : k \in off <=> k \in Hit(poi) /\ active[k].sx # poi.x
  BY DEF Severed
<1>3. off \subseteq DOMAIN active
  BY DEF Severed
<1>4. out \in Seq(Pieces) /\ cut \in Seq(Pieces)
  BY <1>1, CutRows DEF PiecesInv
<1>5. \A cell \in Cells : cell[1] \in Nat /\ cell[2] \in Nat /\ cell[2] \in 0..Height
  BY BoundsAssumption DEF Cells
<1>6. /\ \A k \in DOMAIN active' :
            active'[k].sx = poi.x \/ \E j \in DOMAIN active \ Hit(poi) : active'[k] = active[j]
      /\ \A j \in DOMAIN active \ Hit(poi) : \E k \in DOMAIN active' : active'[k] = active[j]
  BY RegionsMove
<1>7. ASSUME NEW cell \in Cells, \A f \in todo : cell[1] < f.x
      PROVE  IF Waits(cell) THEN Old(cell) = {}
             ELSE IF LayersAt(cell) = {} THEN Old(cell) = {}
                  ELSE \E n \in Old(cell) : Old(cell) = {n} /\ out[n].ids = LayersAt(cell)
  BY <1>7 DEF ExactInv, ExactAt, PiecesAt, Spots
<1> HIDE DEF cut, off
<1>8. ASSUME NEW cell \in Cells, \A f \in todo : cell[1] < f.x
      PROVE  IF WaitsOn(cell) THEN New(cell) = {} ELSE Exact(cell)
  <2>1. cell[1] < poi.x
    BY <1>1, <1>8
  <2>2. /\ Spots(cut, cell) # {} =>
              \E k \in off : active[k].sx <= cell[1] /\ Across(active[k], cell[2])
        /\ \A k \in off : active[k].sx <= cell[1] /\ Across(active[k], cell[2]) =>
              /\ Spots(cut, cell) = Rows(cut, cell[2]) /\ RowExact(active[k], cut, cell[2])
    BY <1>1, <2>1, CutAtCell DEF cut, off
  <2>3. /\ Spots(cut, cell) = {} =>
              New(cell) = Old(cell) /\ \A n \in Old(cell) : out'[n] = out[n]
        /\ \A m : Old(cell) = {} /\ Spots(cut, cell) = {m} =>
              \E n : New(cell) = {n} /\ out'[n] = cut[m]
    <3> DEFINE both == out \o cut
    <3>1. /\ Spots(cut, cell) = {} =>
                Spots(both, cell) = Spots(out, cell) /\ \A n \in Spots(out, cell) : both[n] = out[n]
          /\ \A m : Spots(out, cell) = {} /\ Spots(cut, cell) = {m} =>
                \E n : Spots(both, cell) = {n} /\ both[n] = cut[m]
      BY <1>4, SpotsOfBoth
    <3>2. out' = both
      BY <1>1
    <3> HIDE DEF both
    <3> QED BY <3>1, <3>2
  <2>4. ASSUME NEW k \in DOMAIN active', active'[k].sx <= cell[1]
        PROVE  \E j \in DOMAIN active \ Hit(poi) : active'[k] = active[j]
    BY <1>1, <1>5, <1>6, <2>1, <2>4
  <2>5. CASE ~Waits(cell)
    <3>1. Spots(cut, cell) = {}
      BY <1>3, <2>2, <2>5 DEF Waits
    <3>2. ~WaitsOn(cell)
      BY <2>4, <2>5 DEF Waits
    <3> HIDE DEF Old, New, WaitsOn
    <3>3. New(cell) = Old(cell) /\ \A n \in Old(cell) : out'[n] = out[n]
      BY <2>3, <3>1
    <3> QED BY <1>7, <1>8, <2>5, <3>2, <3>3
  <2>6. CASE Waits(cell)
    <3>1. Old(cell) = {}
      BY <1>7, <1>8, <2>6
    <3>2. PICK k \in DOMAIN active : active[k].sx <= cell[1] /\ Across(active[k], cell[2])
      BY <2>6 DEF Waits
    <3>3. ASSUME NEW j \in DOMAIN active, Across(active[j], cell[2]) PROVE j = k
      BY <1>5, <3>2, <3>3, OneAcross
    <3>4. CASE k \in Hit(poi)
      <4>1. active[k].sx # poi.x
        BY <1>1, <1>5, <2>1, <3>2
      <4>2. k \in off
        BY <1>2, <3>4, <4>1
      <4>3. Spots(cut, cell) = Rows(cut, cell[2]) /\ RowExact(active[k], cut, cell[2])
        BY <2>2, <3>2, <4>2
      <4>4. Alive(active[k], cell[2]) = LayersAt(cell)
        BY <1>8, <3>2, RegionIsExact
      <4>5. ~WaitsOn(cell)
        <5> SUFFICES ASSUME NEW o \in DOMAIN active', active'[o].sx <= cell[1],
                            Across(active'[o], cell[2])
            PROVE FALSE
          OBVIOUS
        <5>1. PICK j \in DOMAIN active \ Hit(poi) : active'[o] = active[j]
          BY <2>4
        <5> QED BY <3>3, <3>4, <5>1
      <4> HIDE DEF Old, New, WaitsOn
      <4>6. CASE LayersAt(cell) = {}
        <5>1. Spots(cut, cell) = {}
          BY <4>3, <4>4, <4>6 DEF RowExact
        <5>2. New(cell) = {}
          BY <2>3, <3>1, <5>1
        <5> QED BY <4>5, <4>6, <5>2
      <4>7. CASE LayersAt(cell) # {}
        <5>1. PICK m : Spots(cut, cell) = {m} /\ cut[m].ids = LayersAt(cell)
          BY <4>3, <4>4, <4>7 DEF RowExact
        <5>2. PICK n : New(cell) = {n} /\ out'[n] = cut[m]
          BY <2>3, <3>1, <5>1
        <5>3. Exact(cell)
          BY <4>7, <5>1, <5>2
        <5> QED BY <4>5, <5>3
      <4> QED BY <4>6, <4>7
    <3>5. CASE k \notin Hit(poi)
      <4>1. WaitsOn(cell)
        BY <1>6, <3>2, <3>5
      <4>2. Spots(cut, cell) = {}
        <5> SUFFICES ASSUME Spots(cut, cell) # {} PROVE FALSE
          OBVIOUS
        <5>1. PICK j \in off : Across(active[j], cell[2])
          BY <2>2
        <5>2. j \in DOMAIN active /\ j \in Hit(poi)
          BY <1>2, <1>3
        <5> QED BY <3>3, <3>5, <5>1, <5>2
      <4> HIDE DEF Old, New, WaitsOn
      <4> QED BY <2>3, <3>1, <4>1, <4>2
    <3> QED BY <3>4, <3>5
  <2> QED BY <2>5, <2>6
<1>9. PiecesInv' /\ LineInv' /\ ShareInv' /\ SweepInv' /\ \A k \in DOMAIN active' : active'[k] \in Regions
  BY PiecesStay, LineStays, ShareStays, SweepStays
<1>10. ASSUME NEW cell \in Cells, \A f \in todo' : cell[1] < f.x, ~(cell[1] < poi.x)
       PROVE  IF WaitsOn(cell) THEN New(cell) = {} ELSE Exact(cell)
  <2> DEFINE x == cell[1]
             y == cell[2]
  <2>1. x \in Nat /\ y \in Nat /\ y \in 0..Height /\ poi.x <= x
    BY <1>1, <1>5, <1>10
  <2>2. New(cell) = {}
    <3>1. Old(cell) = {}
      <4>1. \A n \in DOMAIN out : out[n].rect.right \in Nat /\ out[n].rect.right <= poi.x
        <5>1. \A n \in DOMAIN out : out[n] \in Pieces
          BY <1>4
        <5>2. \A piece \in Pieces : piece.rect.right \in Nat
          BY DEF Pieces
        <5> QED BY <1>1, <5>1, <5>2 DEF PiecesInv
      <4>2. \A n \in DOMAIN out : ~(x < out[n].rect.right)
        BY <1>1, <2>1, <4>1
      <4> QED BY <4>2 DEF Spots, Covers
    <3>2. Spots(cut, cell) = {}
      <4>1. \A n \in DOMAIN cut : cut[n].rect.right = poi.x
        BY <1>1, CutRows DEF Fits, cut
      <4>2. ~(x < poi.x)
        BY <1>10
      <4> QED BY <4>1, <4>2 DEF Spots, Covers
    <3> QED BY <1>1, <1>4, <3>1, <3>2, SpotsOfBoth
  <2>3. ASSUME ~WaitsOn(cell) PROVE LayersAt(cell) = {}
    <3> SUFFICES ASSUME NEW i \in LayersAt(cell) PROVE FALSE
      OBVIOUS
    <3>1. i \in DOMAIN rects /\ rects[i].left <= x /\ x < rects[i].right
          /\ rects[i].top <= y /\ y < rects[i].bottom
      BY DEF LayersAt, Covers
    <3> DEFINE s == Edge(rects, i, "START")
               e == Edge(rects, i, "END")
    <3>2. s \in Edges(rects) /\ e \in Edges(rects) /\ s.x = rects[i].left /\ e.x = rects[i].right
      BY <3>1, EdgeOf DEF Edges
    <3>3. \A d \in Passed' : d.x <= poi.x /\ d.x \in Nat
      <4>1. \A d \in Passed : d.x <= poi.x
        BY <1>1 DEF LineInv
      <4> QED BY <1>1, <4>1
    <3>4. s \notin todo' /\ e \in todo'
      <4> HIDE DEF s, e
      <4>1. rects[i].left \in Nat /\ rects[i].right \in Nat
        BY <1>1, <3>2
      <4>2. s \notin todo'
        BY <1>10, <2>1, <3>1, <3>2, <4>1
      <4>3. e \notin todo' => e \in Passed'
        BY <1>1, <3>2 DEF Passed
      <4> QED BY <1>1, <2>1, <3>1, <3>2, <3>3, <4>1, <4>2, <4>3
    <3>5. \/ \E k \in DOMAIN active' : i \in Alive(active'[k], y)
          \/ \E d \in Passed' : rects[i].right <= d.x
      <4>1. (Inside(i) /\ rects[i].top <= y /\ y < rects[i].bottom =>
                \/ \E k \in DOMAIN active : i \in Alive(active[k], y)
                \/ \E d \in Passed : rects[i].right <= d.x)'
        BY <1>1, <1>9, <2>1, <3>1 DEF ShareInv, Alive
      <4>2. Inside(i)'
        BY <1>1, <3>4 DEF Inside, Edge
      <4> QED BY <1>1, <3>1, <4>1, <4>2 DEF Alive
    <3>6. ~ \E d \in Passed' : rects[i].right <= d.x
      <4>1. rects[i].right \in Nat
        BY <1>1, <3>2
      <4> QED BY <1>1, <2>1, <3>1, <3>3, <4>1
    <3>7. PICK k \in DOMAIN active' : i \in Alive(active'[k], y)
      BY <3>5, <3>6
    <3>8. Across(active'[k], y)
      <4> DEFINE r == active'[k]
      <4>1. r \in Regions /\ Alive(r, y) # {}
        BY <1>9, <3>7
      <4> HIDE DEF r
      <4>2. Across(r, y)
        BY <2>1, <4>1, AliveIsAcross
      <4> QED BY <4>2 DEF r
    <3>9. active'[k].sx <= x
      <4>1. active'[k].sx = poi.x \/ \E j \in DOMAIN active : active'[k] = active[j]
        BY <1>6
      <4>2. \A j \in DOMAIN active : active[j].sx <= poi.x /\ active[j].sx \in Nat
        BY <1>1 DEF LineInv
      <4> QED BY <1>1, <2>1, <4>1, <4>2
    <3> QED BY <2>3, <3>8, <3>9
  <2> HIDE DEF New, WaitsOn
  <2> QED BY <2>2, <2>3
<1>11. ASSUME NEW cell \in Cells, \A f \in todo' : cell[1] < f.x
       PROVE  IF WaitsOn(cell) THEN New(cell) = {} ELSE Exact(cell)
  <2>1. CASE cell[1] < poi.x
    <3>1. \A f \in todo : cell[1] < f.x
      BY <1>1, <1>11, <2>1
    <3> QED BY <1>8, <3>1
  <2>2. CASE ~(cell[1] < poi.x)
    BY <1>10, <1>11, <2>2
  <2> QED BY <2>1, <2>2
<1>12. \A cell \in Cells : LayersAt(cell)' = LayersAt(cell) /\ PiecesAt(cell)' = New(cell)
                           /\ (Waits(cell)' <=> WaitsOn(cell))
  BY <1>1 DEF LayersAt, PiecesAt, Spots, Waits, Covers, Across, MinY, MaxY
<1>13. \A cell \in Cells : (\A f \in todo' : cell[1] < f.x) =>
          IF Waits(cell)' THEN PiecesAt(cell)' = {}
          ELSE IF LayersAt(cell)' = {} THEN PiecesAt(cell)' = {}
               ELSE \E n \in PiecesAt(cell)' : PiecesAt(cell)' = {n} /\ out'[n].ids = LayersAt(cell)'
  <2> HIDE DEF New, WaitsOn
  <2> QED BY <1>11, <1>12
<1> QED BY <1>13 DEF ExactInv, ExactAt, Cells

(* When a plane is begun nothing is cut and nothing has to be.             *)
LEMMA NothingCut ==
    ASSUME rects' \in Seq(Rects), active' = <<>>, out' = <<>>, todo' = Edges(rects')
    PROVE  ShareInv' /\ ExactInv'
<1>1. \A i \in DOMAIN rects' : Edge(rects', i, "START") \in todo'
  BY DEF Edges
<1>2. ShareInv'
  BY <1>1 DEF ShareInv, Inside, Edge
<1>3. ASSUME NEW cell \in Cells, \A f \in todo' : cell[1] < f.x PROVE LayersAt(cell)' = {}
  <2> SUFFICES ASSUME NEW i \in DOMAIN rects', rects'[i].left <= cell[1] PROVE FALSE
    BY DEF LayersAt, Covers
  <2>1. Edge(rects', i, "START").x = rects'[i].left
    BY DEF Edge
  <2>2. cell[1] < rects'[i].left
    BY <1>1, <1>3, <2>1
  <2>3. rects'[i].left \in Nat /\ cell[1] \in Nat
    <3>1. \A r \in Rects : r.left \in Nat
      BY DEF Rects
    <3> QED BY <3>1, BoundsAssumption DEF Cells
  <2> QED BY <2>2, <2>3
<1>4. \A cell \in Cells : ~Waits(cell)' /\ PiecesAt(cell)' = {}
  BY DEF Waits, PiecesAt
<1>5. ExactInv'
  BY <1>3, <1>4 DEF ExactInv, ExactAt, Cells
<1> QED BY <1>2, <1>5

LEMMA ExactStarts == DrawInit => ShareInv /\ ExactInv
<1> SUFFICES ASSUME DrawInit PROVE ShareInv /\ ExactInv
  OBVIOUS
<1>1. rects = <<>> /\ active = <<>> /\ out = <<>>
  BY DEF DrawInit
<1>2. ShareInv
  BY <1>1 DEF ShareInv
<1>3. \A cell \in Cells : LayersAt(cell) = {} /\ PiecesAt(cell) = {} /\ ~Waits(cell)
  BY <1>1 DEF LayersAt, PiecesAt, Waits
<1>4. ExactInv
  BY <1>3 DEF ExactInv, ExactAt
<1> QED BY <1>2, <1>4

LEMMA ExactKept ==
    FrameInv /\ SweepInv /\ EdgeInv /\ LineInv /\ PiecesInv /\ ShareInv /\ ExactInv
        /\ [DrawNext]_drawVars => ShareInv' /\ ExactInv'
<1> SUFFICES ASSUME FrameInv, SweepInv, EdgeInv, LineInv, PiecesInv, ShareInv, ExactInv,
                    [DrawNext]_drawVars
    PROVE  ShareInv' /\ ExactInv'
  OBVIOUS
<1>1. ASSUME UNCHANGED regions PROVE ShareInv' /\ ExactInv'
  <2>1. ShareInv'
    BY <1>1 DEF regions, ShareInv, Inside, Passed, Edges, Edge, Alive, Across, MinY, MaxY
  <2>2. \A cell \in Cells : /\ LayersAt(cell)' = LayersAt(cell) /\ PiecesAt(cell)' = PiecesAt(cell)
                            /\ Waits(cell)' <=> Waits(cell)
    BY <1>1 DEF regions, LayersAt, PiecesAt, Waits, Covers, Across, MinY, MaxY
  <2>3. todo' = todo /\ out' = out
    BY <1>1 DEF regions
  <2>4. ExactInv'
    BY <2>2, <2>3 DEF ExactInv, ExactAt, Cells
  <2> QED BY <2>1, <2>4
<1>2. rects' \in Seq(Rects)
  BY DrawKeeps DEF SweepInv, Rects
<1>3. ASSUME rects' = <<>>, active' = <<>>, out' = <<>>, todo' = {} PROVE ShareInv' /\ ExactInv'
  <2>1. todo' = Edges(rects')
    BY <1>3 DEF Edges
  <2> QED BY <1>2, <1>3, <2>1, NothingCut
<1>4. CASE KeepDedicated
  BY <1>1, <1>4 DEF KeepDedicated
<1>5. CASE SeparateLayers
  BY <1>2, <1>5, NothingCut DEF SeparateLayers, SweepInv
<1>6. CASE GetDrawRegions
  <2>1. PICK poi : MovesTo(poi)
    BY <1>6 DEF GetDrawRegions, NextEdge, MovesTo, Hit
  <2> QED BY <2>1, ShareStays, ExactStays
<1>7. CASE Render
  BY <1>3, <1>7 DEF Render
<1>8. CASE DrawFails
  BY <1>3, <1>8 DEF DrawFails, SweepInv
<1>9. CASE UNCHANGED drawVars
  BY <1>1, <1>9 DEF drawVars
<1> QED BY <1>4, <1>5, <1>6, <1>7, <1>8, <1>9 DEF DrawNext

(* When no edge is left nothing waits any more.                            *)
LEMMA AllIsCut ==
    ASSUME SweepInv, EdgeInv, ExactInv, todo = {}
    PROVE  \A cell \in Cells : ExactAt(cell)
<1>1. active = <<>>
  <2> SUFFICES ASSUME active # <<>> PROVE FALSE
    OBVIOUS
  <2>1. 1 \in DOMAIN active
    BY DEF SweepInv
  <2>2. active[1].ids # {}
    BY <2>1, ActiveFacts DEF Whole
  <2> QED BY <2>1, <2>2 DEF EdgeInv
<1>2. \A cell \in Cells : ~Waits(cell)
  BY <1>1 DEF Waits
<1> QED BY <1>2 DEF ExactInv

(* However the layers of a plane overlap, if none begins at the very x     *)
(* where one below it ends, what get_draw_regions cuts covers every point  *)
(* where a layer is, with exactly the layers that are there, and covers it *)
(* once.                                                                   *)
THEOREM CutsAreExact ==
    ASSUME NoneTouches PROVE DrawSpec => []CutIsExact
<1>1. SweepInv /\ EdgeInv /\ ExactInv => CutIsExact
  BY AllIsCut DEF CutIsExact, ExactAt, LayersAt, PiecesAt
<1>2. DrawInit => EdgeInv
  BY EdgesStart
<1> QED BY <1>1, <1>2, DrawStarts, DrawKeeps, EdgesKept, LineStarts, LineKept, ExactStarts, ExactKept,
           PTL DEF DrawSpec
-----------------------------------------------------------------------------
(* Draw paints each target from the cut of its plane.                      *)

LEMMA SourcesFacts ==
    ASSUME FrameInv, NEW p \in DOMAIN planes
    PROVE  /\ planes[p].sources \in Seq(DOMAIN frames) /\ planes[p].sources # <<>>
           /\ DOMAIN planes = 1..Len(planes) /\ Len(planes) \in Nat
           /\ DOMAIN frames = 1..Len(frames) /\ Len(frames) \in Nat
           /\ \A l \in DOMAIN frames : frames[l] \in Rects
<1> DEFINE Plan == [state : {"kScanout", "kRender"}, sources : Seq(1..Len(frames)) \ {<<>>}]
<1>1. planes \in Seq(Plan) /\ frames \in Seq(Rects)
  BY DEF FrameInv, Plans
<1>2. \A plan \in Plan : plan.sources \in Seq(1..Len(frames)) /\ plan.sources # <<>>
  OBVIOUS
<1> HIDE DEF Plan
<1>3. planes[p] \in Plan /\ DOMAIN planes = 1..Len(planes) /\ Len(planes) \in Nat
      /\ DOMAIN frames = 1..Len(frames) /\ Len(frames) \in Nat
      /\ \A l \in DOMAIN frames : frames[l] \in Rects
  BY <1>1
<1> QED BY <1>2, <1>3

(* The layers from the top down to the first opaque one, each once.        *)
LEMMA OpaqueIsLast ==
    ASSUME NEW n \in Nat, NEW ls \in SUBSET (1..n)
    PROVE  Shows(DownToOpaque(ls), ls)
<1> DEFINE S == {l \in ls : ~ \E m \in ls \cap opaque : m > l}
           R == {ab \in S \X S : ab[1] > ab[2]}
           s == DownToOpaque(ls)
           N == Cardinality(S)
<1>1. S \subseteq 1..n
  OBVIOUS
<1>2. IsFiniteSet(S)
  <2>1. IsFiniteSet(1..n)
    BY FS_Interval
  <2> HIDE DEF S
  <2> QED BY <1>1, <2>1, FS_Subset
<1>3. s = DownToBottom(S)
  BY DEF DownToOpaque
<1>4. S = {l \in ls : \A m \in ls \cap opaque : m <= l}
  <2>1. \A l, m \in ls : ~(m > l) <=> m <= l
    <3>1. \A l \in ls : l \in Nat
      OBVIOUS
    <3> QED BY <3>1
  <2> QED BY <2>1
<1>5. \A a, b \in S : <<a, b>> \in R <=> a > b
  OBVIOUS
<1> HIDE DEF R, S
<1>6. \A x \in S : x \in Nat
  BY <1>1
<1>7. Orders(R, S)
  BY <1>5, <1>6 DEF Orders
<1>8. s = ByRank(Ranking(S, R))
  <2>1. \A x \in S : {y \in S : <<y, x>> \in R} = {y \in S : y > x}
    BY <1>5
  <2>2. Ranking(S, R) = [x \in S |-> Cardinality({y \in S : y > x})]
    BY <2>1 DEF Ranking
  <2> HIDE DEF s
  <2> QED BY <1>3, <2>2 DEF DownToBottom
<1> HIDE DEF s
<1>9. /\ N \in Nat /\ s \in [1..N -> S]
      /\ \A i, j \in 1..N : i < j => <<s[i], s[j]>> \in R
      /\ \A x \in S : \E i \in 1..N : s[i] = x
  BY <1>2, <1>7, <1>8, RankedInOrder
<1> HIDE DEF N
<1>10. DOMAIN s = 1..N /\ \A i \in DOMAIN s : s[i] \in S
  BY <1>9
<1>11. \A i, j \in DOMAIN s : i < j => s[i] > s[j]
  BY <1>5, <1>9, <1>10
<1>12. ToSet(s) = S
  BY <1>9, <1>10 DEF ToSet
<1> QED BY <1>4, <1>11, <1>12 DEF Shows, s

(* Of the layers of a cell the plane composes its own: those scanned out   *)
(* below it are below all of them.                                         *)
LEMMA ComposedIsThere ==
    ASSUME FrameInv, LayersInv, Cutting, NEW cell
    PROVE  Composed(LayersAt(cell)) = There(at, cell)
<1> DEFINE own == planes[at].sources
           layers == dedicated \o own
           ids == LayersAt(cell)
           mine == {own[i - Offset] : i \in {j \in ids : j > Offset}}
           below == {dedicated[i] : i \in {j \in ids : j <= Offset}}
<1>1. at \in DOMAIN planes /\ rects = [i \in DOMAIN layers |-> frames[layers[i]]]
  BY DEF LayersInv, Here
<1>2. own \in Seq(DOMAIN frames) /\ dedicated \in Seq(DOMAIN frames)
  BY <1>1, SourcesFacts DEF FrameInv
<1>3. \A i \in DOMAIN dedicated, j \in DOMAIN own : dedicated[i] < own[j]
  <2>1. at \in Nat /\ at # 0 /\ at >= at
    BY <1>1, SourcesFacts DEF FrameInv
  <2> QED BY <1>1, <2>1 DEF FrameInv
<1>4. Composed(ids) = {l \in mine : \A d \in below : l > d}
  BY DEF Composed
<1> HIDE DEF own
<1>5. /\ Offset \in Nat /\ DOMAIN dedicated = 1..Offset
      /\ DOMAIN own = 1..Len(own) /\ Len(own) \in Nat
      /\ DOMAIN layers = 1..(Offset + Len(own))
      /\ \A i \in DOMAIN layers : layers[i] = IF i <= Offset THEN dedicated[i] ELSE own[i - Offset]
  BY <1>2 DEF Offset
<1> HIDE DEF layers
<1>6. \A i \in ids : i \in DOMAIN layers /\ Covers(frames[layers[i]], cell)
  BY <1>1 DEF LayersAt
<1>7. \A i \in DOMAIN layers : Covers(frames[layers[i]], cell) => i \in ids
  BY <1>1 DEF LayersAt
<1> HIDE DEF ids
<1>8. ASSUME NEW l \in mine PROVE l \in There(at, cell)
  <2>1. PICK i \in ids : i > Offset /\ l = own[i - Offset]
    OBVIOUS
  <2>2. i \in DOMAIN layers /\ Covers(frames[layers[i]], cell)
    BY <1>6
  <2>3. i - Offset \in DOMAIN own /\ layers[i] = l
    BY <1>5, <2>1, <2>2
  <2> QED BY <2>1, <2>2, <2>3 DEF There, ToSet, own
<1>9. ASSUME NEW l \in There(at, cell) PROVE l \in mine
  <2>1. PICK m \in DOMAIN own : l = own[m] /\ Covers(frames[l], cell)
    BY DEF There, ToSet, own
  <2> DEFINE i == m + Offset
  <2>2. i \in DOMAIN layers /\ i > Offset /\ i - Offset = m /\ layers[i] = own[m]
    BY <1>5
  <2> HIDE DEF i
  <2>3. i \in ids
    BY <1>7, <2>1, <2>2
  <2>4. own[i - Offset] \in mine
    BY <2>2, <2>3
  <2> QED BY <2>1, <2>2, <2>4
<1>10. ASSUME NEW l \in mine, NEW d \in below PROVE l > d
  <2>1. PICK i \in ids : i > Offset /\ l = own[i - Offset]
    OBVIOUS
  <2>2. PICK j \in ids : j <= Offset /\ d = dedicated[j]
    OBVIOUS
  <2>3. i - Offset \in DOMAIN own /\ j \in DOMAIN dedicated
    BY <1>5, <1>6, <2>1, <2>2
  <2>4. d < l
    BY <1>3, <2>1, <2>2, <2>3
  <2>5. d \in Nat /\ l \in Nat
    <3>1. DOMAIN frames \subseteq Nat
      BY <1>1, SourcesFacts
    <3> QED BY <1>2, <2>1, <2>2, <2>3, <3>1
  <2> QED BY <2>4, <2>5
<1> HIDE DEF mine, below
<1> QED BY <1>4, <1>8, <1>9, <1>10 DEF ids

(* A cell is covered by one piece, whose quad is then the one drawn there. *)
LEMMA CellIsPainted ==
    ASSUME FrameInv, LayersInv, Cutting, PiecesInv, NEW cell \in Cells, ExactAt(cell)
    PROVE  /\ Shows(Painted(cell), There(at, cell))
           /\ There(at, cell) # {} => CompositionRegions # {}
<1> DEFINE Quad(k) == DownToOpaque(Composed(out[k].ids))
           over == {k \in CompositionRegions : Covers(out[k].rect, cell)}
           Later(j, k) == Len(Quad(j)) < Len(Quad(k)) \/ (Len(Quad(j)) = Len(Quad(k)) /\ j >= k)
           ls == There(at, cell)
<1>1. Composed(LayersAt(cell)) = ls
  BY ComposedIsThere
<1>2. Painted(cell) = IF over = {} THEN <<>>
                      ELSE Quad(CHOOSE j \in over : \A k \in over : Later(j, k))
  BY DEF Painted
<1>3. \A k : k \in over <=> k \in PiecesAt(cell) /\ Composed(out[k].ids) # {}
  BY DEF CompositionRegions, PiecesAt
<1>4. over \subseteq CompositionRegions
  OBVIOUS
<1>5. \E n \in Nat : ls \in SUBSET (1..n)
  <2>1. at \in DOMAIN planes
    BY DEF LayersInv, Here
  <2> DEFINE own == planes[at].sources
  <2>2. own \in Seq(DOMAIN frames) /\ DOMAIN frames = 1..Len(frames) /\ Len(frames) \in Nat
    BY <2>1, SourcesFacts
  <2>3. ls \subseteq DOMAIN frames
    BY <2>2 DEF There, ToSet
  <2> QED BY <2>2, <2>3
<1>6. Shows(DownToOpaque(ls), ls)
  BY <1>5, OpaqueIsLast
<1> HIDE DEF over, ls
<1>7. CASE ls = {}
  <2>1. over = {}
    <3> SUFFICES ASSUME NEW k \in over PROVE FALSE
      OBVIOUS
    <3>1. k \in PiecesAt(cell) /\ Composed(out[k].ids) # {}
      BY <1>3
    <3>2. out[k].ids = LayersAt(cell)
      BY <3>1 DEF ExactAt
    <3> QED BY <1>1, <1>7, <3>1, <3>2
  <2>2. Painted(cell) = <<>>
    BY <1>2, <2>1
  <2>3. Shows(<<>>, ls)
    BY <1>7 DEF Shows, ToSet
  <2> QED BY <1>7, <2>2, <2>3 DEF ls
<1>8. CASE ls # {}
  <2>1. LayersAt(cell) # {}
    BY <1>1, <1>8 DEF Composed
  <2>2. PICK n \in PiecesAt(cell) : PiecesAt(cell) = {n} /\ out[n].ids = LayersAt(cell)
    BY <2>1 DEF ExactAt
  <2>3. over = {n}
    BY <1>1, <1>3, <1>8, <2>2
  <2>4. n \in Nat
    BY <2>2 DEF PiecesAt, PiecesInv
  <2>5. Later(n, n)
    BY <2>4
  <2> HIDE DEF Later
  <2>6. (CHOOSE j \in over : \A k \in over : Later(j, k)) = n
    <3>1. \E j \in over : \A k \in over : Later(j, k)
      BY <2>3, <2>5
    <3> DEFINE j == CHOOSE j \in over : \A k \in over : Later(j, k)
    <3>2. j \in over
      BY <3>1
    <3> HIDE DEF j
    <3>3. j = n
      BY <2>3, <3>2
    <3> QED BY <3>3 DEF j
  <2>7. Painted(cell) = Quad(n)
    <3> HIDE DEF Quad
    <3> QED BY <1>2, <2>3, <2>6
  <2>8. Quad(n) = DownToOpaque(ls)
    BY <1>1, <2>2
  <2>9. CompositionRegions # {}
    BY <1>4, <2>3
  <2> HIDE DEF Quad
  <2> QED BY <1>6, <2>7, <2>8, <2>9 DEF ls
<1> QED BY <1>7, <1>8

LEMMA TargetsStart == DrawInit => LayersInv /\ TargetInv
<1> SUFFICES ASSUME DrawInit PROVE LayersInv /\ TargetInv
  OBVIOUS
<1>1. rects = <<>> /\ at = 1 /\ target = [p \in DOMAIN planes |-> <<>>]
  BY DEF DrawInit
<1>2. \A p \in DOMAIN planes : p \in Nat /\ ~(p < at)
  <2>1. FrameInv
    BY DrawStarts
  <2>2. \A p \in DOMAIN planes : p \in 1..Len(planes)
    BY <2>1, SourcesFacts
  <2> QED BY <1>1, <2>2
<1> QED BY <1>1, <1>2 DEF LayersInv, Cutting, TargetInv

LEMMA LayersKept == FrameInv /\ SweepInv /\ LayersInv /\ [DrawNext]_drawVars => LayersInv'
<1> SUFFICES ASSUME FrameInv, SweepInv, LayersInv, [DrawNext]_drawVars PROVE LayersInv'
  OBVIOUS
<1>1. ASSUME UNCHANGED <<rects, at, dedicated, composition>> PROVE LayersInv'
  BY <1>1 DEF LayersInv, Cutting, Here, composition
<1>2. ASSUME rects' = <<>> PROVE LayersInv'
  BY <1>2 DEF LayersInv, Cutting
<1>3. CASE KeepDedicated
  <2>1. rects = <<>> /\ rects' = rects
    BY <1>3 DEF KeepDedicated, LayersInv, Cutting, Here, regions
  <2> QED BY <1>2, <2>1
<1>4. CASE SeparateLayers
  BY <1>4 DEF SeparateLayers, LayersInv, Here, composition
<1>5. CASE GetDrawRegions
  BY <1>1, <1>5 DEF GetDrawRegions, NextEdge
<1>6. CASE Render
  BY <1>2, <1>6 DEF Render
<1>7. CASE DrawFails
  BY <1>2, <1>7 DEF DrawFails
<1>8. CASE UNCHANGED drawVars
  BY <1>1, <1>8 DEF drawVars, regions
<1> QED BY <1>3, <1>4, <1>5, <1>6, <1>7, <1>8 DEF DrawNext

(* Every plane has a layer, and every layer a cell.                        *)
LEMMA SomewhereThere ==
    ASSUME FrameInv, NEW p \in DOMAIN planes
    PROVE  \E cell \in Cells : There(p, cell) # {}
<1> DEFINE own == planes[p].sources
           l == own[1]
           r == frames[l]
<1>1. own \in Seq(DOMAIN frames) /\ own # <<>> /\ \A k \in DOMAIN frames : frames[k] \in Rects
  BY SourcesFacts
<1> HIDE DEF own
<1>2. 1 \in DOMAIN own /\ l \in DOMAIN frames
  BY <1>1
<1>3. l \in ToSet(own)
  BY <1>2 DEF ToSet
<1> HIDE DEF l
<1>4. r \in Rects
  BY <1>1, <1>2
<1> HIDE DEF r
<1> DEFINE cell == <<r.left, r.top>>
<1>5. r.left \in 0..Width /\ r.right \in 0..Width /\ r.top \in 0..Height /\ r.bottom \in 0..Height
      /\ r.left < r.right /\ r.top < r.bottom
  BY <1>4 DEF Rects
<1>6. cell \in Cells
  <2>1. r.left \in 0..(Width - 1) /\ r.top \in 0..(Height - 1)
    BY <1>5, BoundsAssumption
  <2> QED BY <2>1 DEF Cells
<1>7. Covers(r, cell)
  BY <1>5 DEF Covers
<1> HIDE DEF cell
<1>8. l \in There(p, cell)
  BY <1>3, <1>7 DEF There, own, r
<1> QED BY <1>6, <1>8

(* Render draws the target of its plane and no other.                      *)
LEMMA TargetsKept ==
    FrameInv /\ SweepInv /\ EdgeInv /\ PiecesInv /\ ExactInv /\ LayersInv /\ PlaceInv /\ TargetInv
        /\ [DrawNext]_drawVars => TargetInv'
<1> SUFFICES ASSUME FrameInv, SweepInv, EdgeInv, PiecesInv, ExactInv, LayersInv, PlaceInv, TargetInv,
                    [DrawNext]_drawVars
    PROVE  TargetInv'
  OBVIOUS
<1>1. /\ at \in Nat /\ \A p \in DOMAIN planes : p \in Nat
  BY SourcesFacts DEF FrameInv
<1>2. ASSUME UNCHANGED composition
      PROVE  /\ planes' = planes
             /\ \A s, ls : Shows(s, ls)' <=> Shows(s, ls)
             /\ \A p, cell : There(p, cell)' = There(p, cell)
  BY <1>2 DEF composition, Shows, There
<1>3. ASSUME UNCHANGED <<composition, at, target>> PROVE TargetInv'
  BY <1>3 DEF TargetInv, Shows, There, composition, Cells
<1>4. CASE KeepDedicated
  <2>1. /\ at' = at + 1 /\ target' = target /\ planes[at].state = "kScanout"
        /\ UNCHANGED composition
    BY <1>4 DEF KeepDedicated, Here
  <2>2. at # 0
    BY <1>4, SourcesFacts DEF KeepDedicated, Here
  <2>3. \A p \in DOMAIN planes : p < at' /\ planes[p].state = "kRender" => target'[p] # <<>>
    <3> SUFFICES ASSUME NEW p \in DOMAIN planes, p < at', planes[p].state = "kRender"
        PROVE target[p] # <<>>
      BY <2>1
    <3>1. p # at
      BY <2>1
    <3>2. p < at
      BY <1>1, <2>1, <3>1
    <3> QED BY <2>2, <3>2 DEF TargetInv
  <2>4. (\A p \in DOMAIN planes : target[p] # <<>> =>
            \A cell \in Cells : Shows(target[p][cell], There(p, cell)))'
    <3>1. /\ planes' = planes
          /\ \A p \in DOMAIN planes : \A cell \in Cells :
                Shows(target[p][cell], There(p, cell)) => Shows(target[p][cell], There(p, cell))'
      BY <2>1 DEF composition, Shows, There
    <3> QED BY <2>1, <3>1 DEF TargetInv, Cells
  <2> QED BY <2>1, <2>3, <2>4 DEF TargetInv, composition
<1>5. CASE SeparateLayers
  BY <1>3, <1>5 DEF SeparateLayers
<1>6. CASE GetDrawRegions
  BY <1>3, <1>6 DEF GetDrawRegions
<1>7. CASE Render
  <2> DEFINE drawn == [cell \in Cells |-> Painted(cell)]
  <2>1. /\ at \in DOMAIN planes /\ Cutting /\ todo = {} /\ at' = at + 1 /\ UNCHANGED composition
        /\ target' = IF CompositionRegions = {} THEN target ELSE [target EXCEPT ![at] = drawn]
    BY <1>7 DEF Render, Here
  <2>2. \A cell \in Cells : ExactAt(cell)
    BY <2>1, AllIsCut
  <2>3. \A cell \in Cells : /\ Shows(Painted(cell), There(at, cell))
                            /\ There(at, cell) # {} => CompositionRegions # {}
    BY <2>1, <2>2, CellIsPainted
  <2>4. PICK somewhere \in Cells : There(at, somewhere) # {}
    BY <2>1, SomewhereThere
  <2>5. CompositionRegions # {}
    BY <2>3, <2>4
  <2>6. DOMAIN drawn = Cells /\ \A cell \in Cells : drawn[cell] = Painted(cell)
    OBVIOUS
  <2>7. target' = [target EXCEPT ![at] = drawn]
    BY <2>1, <2>5
  <2> HIDE DEF drawn
  <2>8. drawn # <<>>
    <3>1. DOMAIN <<>> = {}
      OBVIOUS
    <3> QED BY <2>4, <2>6, <3>1
  <2>9. \A p \in DOMAIN planes : target'[p] = IF p = at THEN drawn ELSE target[p]
    BY <2>7 DEF PlaceInv
  <2>10. \A p \in DOMAIN planes : target'[p] # <<>> =>
            \A cell \in Cells : Shows(target'[p][cell], There(p, cell))
    <3> SUFFICES ASSUME NEW p \in DOMAIN planes, target'[p] # <<>>, NEW cell \in Cells
        PROVE Shows(target'[p][cell], There(p, cell))
      OBVIOUS
    <3>1. CASE p = at
      BY <2>3, <2>6, <2>9, <3>1
    <3>2. CASE p # at
      BY <2>9, <3>2 DEF TargetInv
    <3> QED BY <3>1, <3>2
  <2>11. \A p \in DOMAIN planes : p < at' /\ planes[p].state = "kRender" => target'[p] # <<>>
    <3> SUFFICES ASSUME NEW p \in DOMAIN planes, p < at', planes[p].state = "kRender"
        PROVE target'[p] # <<>>
      OBVIOUS
    <3>1. CASE p = at
      BY <2>8, <2>9, <3>1
    <3>2. CASE p # at
      <4>1. p < at /\ at # 0
        BY <1>1, <2>1, <3>2
      <4> QED BY <2>9, <3>2, <4>1 DEF TargetInv
    <3> QED BY <3>1, <3>2
  <2>12. (\A p \in DOMAIN planes : target[p] # <<>> =>
            \A cell \in Cells : Shows(target[p][cell], There(p, cell)))'
    <3>1. /\ planes' = planes
          /\ \A p \in DOMAIN planes : \A cell \in Cells :
                Shows(target'[p][cell], There(p, cell)) => Shows(target[p][cell], There(p, cell))'
      BY <2>1 DEF composition, Shows, There
    <3> QED BY <2>10, <3>1 DEF Cells
  <2> QED BY <2>1, <2>11, <2>12 DEF TargetInv, composition
<1>8. CASE DrawFails
  <2>1. at' = 0 /\ target' = target /\ UNCHANGED composition
    BY <1>8 DEF DrawFails
  <2> QED BY <2>1 DEF TargetInv, Shows, There, composition, Cells
<1>9. CASE UNCHANGED drawVars
  BY <1>3, <1>9 DEF drawVars
<1> QED BY <1>4, <1>5, <1>6, <1>7, <1>8, <1>9 DEF DrawNext

(* Every target Draw has drawn shows at every cell the plane's own layers  *)
(* there, from the top down to the first opaque one, each once, and        *)
(* nothing where the plane has none; and a Draw that comes to its end has  *)
(* drawn them all.  As for the cut, no layer begins where one below it     *)
(* ends.                                                                   *)
THEOREM TargetsShowTheirLayers ==
    ASSUME NoneTouches PROVE DrawSpec => []TargetsAreExact
<1>1. FrameInv /\ TargetInv => TargetsAreExact
  <2> SUFFICES ASSUME FrameInv, TargetInv PROVE TargetsAreExact
    OBVIOUS
  <2>1. \A p \in DOMAIN planes : target[p] # <<>> => \A cell \in Cells :
          LET there == {l \in ToSet(planes[p].sources) : Covers(frames[l], cell)}
              shows == target[p][cell]
          IN  /\ \A i, j \in DOMAIN shows : i < j => shows[i] > shows[j]
              /\ ToSet(shows) = {l \in there : \A m \in there \cap opaque : m <= l}
    BY DEF TargetInv, Shows, There
  <2>2. at > Len(planes) => \A p \in DOMAIN planes : p < at /\ at # 0
    <3>1. at \in Nat
      BY DEF FrameInv
    <3>2. \A p \in DOMAIN planes : p \in 1..Len(planes) /\ Len(planes) \in Nat
      BY SourcesFacts
    <3> QED BY <3>1, <3>2
  <2> QED BY <2>1, <2>2 DEF TargetInv, TargetsAreExact
<1>2. DrawInit => EdgeInv
  BY EdgesStart
<1> QED BY <1>1, <1>2, DrawStarts, DrawKeeps, EdgesKept, LineStarts, LineKept, PlaceKept, ExactStarts,
           ExactKept, TargetsStart, LayersKept, TargetsKept, PTL DEF DrawSpec
=============================================================================
