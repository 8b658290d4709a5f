-------------------------- MODULE MCDisjointLayers --------------------------
(* DisjointLayers for TLC: every arrangement of up to two layers.          *)
EXTENDS DisjointLayers

AnyTwo == UNION {[1..n -> Rects] : n \in 1..2}
=============================================================================
