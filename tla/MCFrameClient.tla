--------------------------- MODULE MCFrameClient ---------------------------
(* FrameClient for TLC: displays come and go, nothing else goes wrong.     *)
EXTENDS FrameClient

Interruptions == {"shutdown"}
=============================================================================
