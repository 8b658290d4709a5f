-------------------------- MODULE MCFramePipeline --------------------------
(* FramePipeline for TLC: what may happen in each run.                     *)
EXTENDS FramePipeline

NoEvents == {}
Disturbances == AllEvents

(* Bound: a behaviour in which a framebuffer could not be created is       *)
(* followed until the pool takes a third surface.                          *)
BrokenInSmallPool == (\E s \in 1..pool : ~fbOk[s]) => pool <= 2
=============================================================================
