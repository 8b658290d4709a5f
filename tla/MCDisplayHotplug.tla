-------------------------- MODULE MCDisplayHotplug --------------------------
EXTENDS DisplayHotplug

(* Every CRTC can feed every connector; the last connector has a second    *)
(* encoder.                                                                *)
LastHasTwo ==
    [c \in Connectors |-> IF c = NumConnectors THEN <<Displays, Displays>> ELSE <<Displays>>]
=============================================================================
