---------------------------- MODULE MCCompositor ----------------------------
(* Compositor for TLC: small compositions with every arrangement of their  *)
(* layers.                                                                 *)
EXTENDS Compositor

(* No layer begins where a layer before it in the list ends.               *)
Apart(rs) == \A i, j \in DOMAIN rs : i < j => rs[i].right # rs[j].left
Arranged(n, rectangles) == {rs \in [1..n -> rectangles] : Apart(rs)}

Scanout(l) == [state |-> "kScanout", sources |-> <<l>>]
Compose(ls) == [state |-> "kRender", sources |-> ls]

Of(arrangements, blended, plan) ==
    [frames : arrangements, opaque : blended, planes : plan]

Low == {r \in Rects : r.bottom <= 1}

(* Three layers in every arrangement, on one plane or on two; in a row, on *)
(* several.  One or two layers.                                            *)
SmallCompositions ==
    Of(Arranged(3, Rects), {{2}}, {<<Compose(<<1, 2, 3>>)>>, <<Scanout(1), Compose(<<2, 3>>)>>})
    \cup Of(Arranged(3, Low), SUBSET (1..3),
            {<<Compose(<<1, 2>>), Scanout(3)>>, <<Compose(<<1>>), Compose(<<2, 3>>)>>,
             <<Scanout(1), Compose(<<2>>), Compose(<<3>>)>>,
             <<Scanout(1), Scanout(2), Compose(<<3>>)>>, <<Compose(<<1, 2, 3>>)>>})
    \cup Of(Arranged(2, Rects), SUBSET (1..2), {<<Compose(<<1, 2>>)>>, <<Scanout(1), Compose(<<2>>)>>})
    \cup Of(Arranged(1, Rects), SUBSET {1}, {<<Compose(<<1>>)>>})

NoInputs == {}
=============================================================================
