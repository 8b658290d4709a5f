-------------------------- MODULE DisplayContract --------------------------
(***************************************************************************)
(* What a NativeDisplay promises the caller of Present, whatever fails in  *)
(* between: a Present that succeeds puts exactly its own frame in the      *)
(* queue, one that fails leaves the screen as it is; frames reach the      *)
(* screen whole, in the order they were queued, and none is skipped; and   *)
(* the only frame whose buffers are held back is the one queued last.      *)
(***************************************************************************)
CONSTANTS Frames, NoFrame

VARIABLES
    shown,   \* the frame on the screen
    next,    \* the frame that replaces it at the next vblank
    held     \* the frame whose release fences are not signalled

Init == shown = NoFrame /\ next = NoFrame /\ held = NoFrame

(* A frame is queued: it alone is held back from now on.                   *)
Queue(f) ==
    /\ next = NoFrame /\ f # shown
    /\ next' = f /\ held' = f
    /\ UNCHANGED shown

(* The frame that carries a modeset is on the screen when Present returns, *)
(* and gets no release fence.                                              *)
Set(f) ==
    /\ next = NoFrame /\ held = NoFrame
    /\ shown' = f
    /\ UNCHANGED <<next, held>>

Vblank ==
    /\ next # NoFrame
    /\ shown' = next /\ next' = NoFrame
    /\ UNCHANGED held

(* The display is connected or shut down.                                  *)
Restart == shown' = NoFrame /\ next' = NoFrame /\ held' = NoFrame

Next == \/ \E f \in Frames : Queue(f) \/ Set(f)
        \/ Vblank
        \/ Restart

Spec == Init /\ [][Next]_<<shown, next, held>>
=============================================================================
