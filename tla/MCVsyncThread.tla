--------------------------- MODULE MCVsyncThread ---------------------------
(* VsyncThread for TLC.                                                    *)
EXTENDS VsyncThread

CONSTANTS t1, t2, f1, f2, w1, w2
=============================================================================
