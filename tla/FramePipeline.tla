--------------------------- MODULE FramePipeline ---------------------------
(***************************************************************************)
(* One physical display: InternalDisplay::Present and everything it calls  *)
(* in DisplayPlaneManager, the pool of off-screen NativeSurfaces, the      *)
(* framebuffers of the client's buffers, the NativeSync behind the release *)
(* fences, and the kernel mode-setting driver that flips frames onto the   *)
(* screen.  Present holds the display's spin lock from beginning to end,   *)
(* so Connect, ShutDown and SetDpmsMode (which take it too) run between    *)
(* two Presents; the kernel flips at any time.                             *)
(*                                                                         *)
(* Present is cut where the kernel, the GPU or a failure can be observed:  *)
(*   idle -> validate -> (primary | final -> test) -> draw -> apply        *)
(*        -> commit -> (wait -> retry) -> idle                             *)
(***************************************************************************)
EXTENDS Integers, FiniteSets

CONSTANTS
    Planes,        \* the planes of the pipe, numbered in z-order; 0 is the primary plane
    Cursor,        \* the cursor plane, or a number outside Planes
    MaxSurfaces,   \* bound: the off-screen surfaces a run may create
    Frames,        \* names of frames; a name nothing refers to is used again
    NoFrame,       \* no frame: an fd of -1, a null unique_ptr, an empty vector
    Torn,          \* what the screen shows of a picture that is being drawn to
    Buffers,       \* the client's sets of layers (frames[2] of the test clients)
    NoBuffer,
    PrimaryArgb,   \* whether the primary plane scans out ARGB8888
    HasOutFence,   \* whether the CRTC has the OUT_FENCE_PTR property
    Events         \* the failures and the calls of other threads that may happen

Primary == 0
Surfaces == 1..MaxSurfaces

(* What a plane scans out: nothing, the framebuffer imported for the       *)
(* client's layer, a surface still to be chosen, or surface s (s > 0).     *)
Off == 0
ClientBuffer == -1
Untargeted == -2
Sources == {Off, ClientBuffer} \cup Surfaces
Choices == Sources \cup {Untargeted}

AllEvents == {"import", "draw", "alloc", "modeset", "props", "commit",
              "timeout", "fb", "shutdown", "disable", "reconnect", "dpms"}

ASSUME PlanesAssumption == Planes \subseteq Nat /\ Primary \in Planes /\ IsFiniteSet(Planes)
ASSUME CursorAssumption == Cursor \in Nat \ {Primary}
ASSUME MaxSurfacesAssumption == MaxSurfaces \in Nat
ASSUME FramesAssumption == NoFrame \notin Frames /\ Torn \notin Frames \cup {NoFrame}
ASSUME BuffersAssumption == NoBuffer \notin Buffers
ASSUME OptionsAssumption == PrimaryArgb \in BOOLEAN /\ HasOutFence \in BOOLEAN
ASSUME EventsAssumption == Events \subseteq AllEvents

VARIABLES
    poweredOff,    \* is_powered_off_
    modeset,       \* kModeset is set in pending_operations_
    dpms,          \* dpms_mode_
    outFence,      \* out_fence_: the frame whose flip signals it
    pool,          \* surfaces_.size()
    ref,           \* NativeSurface::ref_count_
    inFlight,      \* NativeSurface::in_flight_
    format,        \* NativeSurface::framebuffer_format_ (0 before the first target)
    fbOk,          \* the surface's framebuffer exists (fb_id_ # 0)
    flightSurfaces,\* in_flight_surfaces_
    flightBuffers, \* in_flight_buffers_: the frame they were imported for
    shownBuffers,  \* displayed_buffers_: the frame they were imported for
    sync,          \* current_sync_: the frame whose release fences it holds back
    enabled,       \* the planes with enabled_ set
    pc,            \* how far Present has come
    frame,         \* Present's sync_object and the frame it stands for
    buffer,        \* the client's layers Present was given
    needsModeset,  \* Present's needs_modeset
    comp,          \* Present's current_composition_planes: plane -> source
    crtc,          \* kernel: no mode set, set but inactive, scanning out
    current,       \* kernel: the last accepted commit
    front,         \* kernel: what is being scanned out
    flipPending,   \* kernel: current is waiting for vblank
    releaseFence   \* release_fence of the client's layers: the frame that holds it

displayVars == <<poweredOff, modeset, dpms>>
surfaceVars == <<pool, ref, inFlight, format, fbOk, flightSurfaces>>
bufferVars == <<flightBuffers, shownBuffers>>
localVars == <<frame, buffer, needsModeset, comp>>
kernelVars == <<crtc, current, front, flipPending>>
vars == <<displayVars, outFence, surfaceVars, bufferVars, sync, enabled, pc,
          localVars, kernelVars, releaseFence>>

Formats == {"none", "argb", "xrgb"}
Stages == {"idle", "validate", "primary", "final", "test", "draw", "apply",
           "commit", "wait", "retry"}

AllOff == [p \in Planes |-> Off]
BlankScreen == [frame |-> NoFrame, buffer |-> NoBuffer, src |-> AllOff]

-----------------------------------------------------------------------------
(* Kernel.  Outside the repository: drmModeAtomicCommit, drmModeRmFB, the  *)
(* DPMS connector property and the vblank that completes a flip.           *)

(* The frames somebody still refers to; their names cannot be used again.  *)
Live == {current.frame, front.frame, outFence, flightBuffers, shownBuffers, sync}
           \cup {releaseFence[b] : b \in Buffers}

SurfacesOf(screen) == {screen.src[p] : p \in Planes} \cap Surfaces
ScannedOut == SurfacesOf(current) \cup SurfacesOf(front)

(* drmModeRmFB of the framebuffers imported for frame f: a plane of the    *)
(* last commit that shows one of them is turned off, after the flip.       *)
Shows(f) == f # NoFrame /\ current.frame = f /\ \E p \in Planes : current.src[p] = ClientBuffer
Without(screen, sources) ==
    [screen EXCEPT !.src = [p \in Planes |-> IF @[p] \in sources THEN Off ELSE @[p]]]

RmFB(f) ==
    IF Shows(f)
      THEN /\ current' = Without(current, {ClientBuffer})
           /\ front' = current'
           /\ flipPending' = FALSE
      ELSE UNCHANGED <<current, front, flipPending>>

(* The vblank at which a non-blocking commit reaches the screen.           *)
Flip ==
    /\ flipPending
    /\ front' = current
    /\ flipPending' = FALSE
    /\ UNCHANGED <<displayVars, outFence, surfaceVars, bufferVars, sync, enabled,
                   pc, localVars, crtc, current, releaseFence>>

Signalled(f) == ~(flipPending /\ current.frame = f)

-----------------------------------------------------------------------------
Init ==
    /\ poweredOff = TRUE /\ modeset = FALSE /\ dpms = "ON"
    /\ outFence = NoFrame
    /\ pool = 0
    /\ ref = [s \in Surfaces |-> 0]
    /\ inFlight = [s \in Surfaces |-> FALSE]
    /\ format = [s \in Surfaces |-> "none"]
    /\ fbOk = [s \in Surfaces |-> FALSE]
    /\ flightSurfaces = {}
    /\ flightBuffers = NoFrame /\ shownBuffers = NoFrame
    /\ sync = NoFrame
    /\ enabled = {Primary}
    /\ pc = "idle"
    /\ frame = NoFrame /\ buffer = NoBuffer /\ needsModeset = FALSE
    /\ comp = AllOff
    /\ crtc = "unset"
    /\ current = BlankScreen /\ front = BlankScreen /\ flipPending = FALSE
    /\ releaseFence = [b \in Buffers |-> NoFrame]

(* Present returns: its locals go out of scope, and with them a sync object *)
(* that CommitFrame did not keep.                                           *)
Return ==
    /\ pc' = "idle"
    /\ frame' = NoFrame /\ buffer' = NoBuffer /\ needsModeset' = FALSE
    /\ comp' = AllOff

(* BeginFrameUpdate marks the overlay and cursor planes unused.             *)
MarkNothing == UNCHANGED enabled
MarkPlanesUnused == enabled' = enabled \cap {Primary}

(* Present reads kModeset and leaves it set until it is applied.            *)
TakeModeset == needsModeset' = modeset /\ modeset' = FALSE
ReadModeset == needsModeset' = modeset /\ UNCHANGED modeset

(* Present up to and including BeginFrameUpdate: the layers give up their   *)
(* fences, the buffers in in_flight_buffers_ (those shown before the last   *)
(* commit, after the swap in EndFrameUpdate) are freed, the new imported.   *)
(* A Present that finds the display off, or cannot open a timeline, changes *)
(* nothing.  The bound leaves room for a new surface on every plane.        *)
BeginPresent(b) ==
    /\ pc = "idle" /\ ~poweredOff
    /\ Frames \ Live # {}
    /\ pool + Cardinality(Planes \ {Cursor}) <= MaxSurfaces
    /\ releaseFence' = [releaseFence EXCEPT ![b] = NoFrame]
    /\ MarkPlanesUnused
    /\ RmFB(flightBuffers)
    /\ LET f == CHOOSE f \in Frames : f \notin Live IN
          /\ frame' = f
          /\ flightBuffers' = f
    /\ buffer' = b
    /\ ReadModeset
    /\ comp' = AllOff
    /\ flightSurfaces' = {}
    /\ pc' = "validate"
    /\ UNCHANGED <<poweredOff, dpms, outFence, pool, ref, inFlight, format, fbOk,
                   shownBuffers, sync, crtc>>

(* ImportBuffer fails for some layer: BeginFrameUpdate gives up before it   *)
(* clears in_flight_surfaces_.  What was imported has no framebuffer yet.   *)
ImportFails(b) ==
    /\ "import" \in Events
    /\ pc = "idle" /\ ~poweredOff
    /\ releaseFence' = [releaseFence EXCEPT ![b] = NoFrame]
    /\ MarkPlanesUnused
    /\ RmFB(flightBuffers)
    /\ flightBuffers' = NoFrame
    /\ UNCHANGED <<displayVars, outFence, surfaceVars, shownBuffers, sync, pc,
                   localVars, crtc>>

(* ValidateLayers.  Which layer goes to which plane is the subject of       *)
(* PlaneAssignment; here any outcome of the shapes it can return: all       *)
(* layers composed into one surface on the primary plane (always, when      *)
(* several layers meet a pending modeset); or each plane in use shows one   *)
(* client buffer or, unless it is the cursor plane, a surface.              *)
ComposeOnPrimary ==
    /\ pc = "validate"
    /\ comp' = [AllOff EXCEPT ![Primary] = Untargeted]
    /\ pc' = "primary"
    /\ UNCHANGED <<displayVars, outFence, surfaceVars, bufferVars, sync, enabled,
                   frame, buffer, needsModeset, kernelVars, releaseFence>>

UsePlanes(used, rendered) ==
    /\ pc = "validate"
    /\ Primary \in used /\ rendered \subseteq used \ {Cursor}
    /\ needsModeset => used = {Primary} /\ rendered = {}
    /\ comp' = [p \in Planes |-> IF p \in rendered THEN Untargeted
                                  ELSE IF p \in used THEN ClientBuffer ELSE Off]
    /\ pc' = IF rendered = {} THEN "draw" ELSE "final"
    /\ UNCHANGED <<displayVars, outFence, surfaceVars, bufferVars, sync, enabled,
                   frame, buffer, needsModeset, kernelVars, releaseFence>>

InUseOnce(s) == ref[s] > 2 \/ inFlight[s]
InUseThrice(s) == ref[s] > 0 \/ inFlight[s]
InUseCommitted(s) == ref[s] > 1
InUse(s) == ref[s] > 1 \/ inFlight[s]

(* The first surface that is not in use, else a new one.                    *)
Picks(s) ==
    IF \E t \in 1..pool : ~InUse(t)
      THEN s <= pool /\ ~InUse(s) /\ \A t \in 1..(s - 1) : InUse(t)
      ELSE s = pool + 1

(* GetFormatForFrameBuffer of the format the surface's buffer has now.      *)
FormatFor(p, s) ==
    IF p = Primary /\ ~PrimaryArgb THEN "xrgb"
    ELSE IF format[s] = "none" THEN "argb" ELSE format[s]

(* SetPlaneTarget: surface s becomes what plane p scans out.  The format is *)
(* recorded before the framebuffer is created, and a failure to create it   *)
(* goes unnoticed.                                                          *)
SetPlaneTarget(p, s) ==
    /\ format' = [format EXCEPT ![s] = FormatFor(p, s)]
    /\ \E created \in {TRUE} \cup (IF "fb" \in Events THEN {FALSE} ELSE {}) :
         fbOk' = [fbOk EXCEPT ![s] = IF format[s] = FormatFor(p, s) THEN @ ELSE created]
    /\ inFlight' = [inFlight EXCEPT ![s] = TRUE]
    /\ comp' = [comp EXCEPT ![p] = s]

(* EnsureOffScreenTarget for the next plane that needs a surface.           *)
EnsureOffScreenTarget ==
    /\ pc \in {"primary", "final"}
    /\ \E p \in Planes, s \in Surfaces :
         /\ comp[p] = Untargeted
         /\ \A q \in Planes : comp[q] = Untargeted => p <= q
         /\ Picks(s)
         /\ pool' = IF s > pool THEN s ELSE pool
         /\ SetPlaneTarget(p, s)
         /\ flightSurfaces' = flightSurfaces \cup {s}
         /\ pc' = IF \E q \in Planes \ {p} : comp[q] = Untargeted THEN pc
                  ELSE IF pc = "primary" THEN "draw" ELSE "test"
    /\ UNCHANGED <<displayVars, outFence, ref, bufferVars, sync, enabled, frame,
                   buffer, needsModeset, kernelVars, releaseFence>>

(* The kernel refuses a plane without a framebuffer.                        *)
Broken == \E p \in Planes : comp[p] \in Surfaces /\ ~fbOk[comp[p]]

(* The end of ValidateFinalLayers: in_flight_ is reset, and when the test   *)
(* commit fails everything is composed on the primary plane instead.        *)
ValidateFinalLayers ==
    /\ pc = "test"
    /\ inFlight' = [s \in Surfaces |-> s \notin flightSurfaces /\ inFlight[s]]
    /\ \/ ~Broken /\ pc' = "draw" /\ UNCHANGED <<flightSurfaces, comp>>
       \/ /\ flightSurfaces' = {}
          /\ comp' = [AllOff EXCEPT ![Primary] = Untargeted]
          /\ pc' = "primary"
    /\ UNCHANGED <<displayVars, outFence, pool, ref, format, fbOk, bufferVars, sync,
                   enabled, frame, buffer, needsModeset, kernelVars, releaseFence>>

(* Compositor::BeginFrame and Draw: the GPU writes the targets.             *)
Targets == {comp[p] : p \in Planes} \cap Surfaces

Draw ==
    /\ pc = "draw"
    /\ pc' = "apply"
    /\ UNCHANGED <<displayVars, outFence, surfaceVars, bufferVars, sync, enabled,
                   localVars, kernelVars, releaseFence>>

DrawFails ==
    /\ "draw" \in Events
    /\ pc = "draw"
    /\ Return
    /\ UNCHANGED <<displayVars, outFence, surfaceVars, bufferVars, sync, enabled,
                   kernelVars, releaseFence>>

(* The property set cannot be allocated; or the layers have their release   *)
(* fences already and ApplyPendingModeset fails.                            *)
ApplyFails ==
    /\ pc = "apply"
    /\ \/ "alloc" \in Events /\ UNCHANGED releaseFence
       \/ "modeset" \in Events /\ releaseFence' = [releaseFence EXCEPT ![buffer] = frame]
    /\ Return
    /\ UNCHANGED <<displayVars, outFence, surfaceVars, bufferVars, sync, enabled,
                   kernelVars>>

(* The release fences are created, and the pending modeset goes into the    *)
(* property set and is forgotten: the commit has yet to succeed.            *)
ApplyPendingModeset ==
    /\ pc = "apply"
    /\ releaseFence' = [releaseFence EXCEPT ![buffer] = frame]
    /\ modeset' = IF needsModeset THEN FALSE ELSE modeset
    /\ pc' = "commit"
    /\ UNCHANGED <<poweredOff, dpms, outFence, surfaceVars, bufferVars, sync,
                   enabled, localVars, kernelVars>>

-----------------------------------------------------------------------------
Used == {p \in Planes : comp[p] # Off}

(* What the property set makes of the screen: the planes of the composition *)
(* show their sources, the overlay and cursor planes that are not enabled   *)
(* are disabled, any other plane keeps what it shows.                       *)
Committed ==
    [frame |-> frame, buffer |-> buffer,
     src |-> [p \in Planes |->
                IF p \in Used THEN comp[p]
                ELSE IF p \in enabled \/ p = Primary THEN current.src[p] ELSE Off]]

(* CommitFrame or its caller gives up: Present takes back the release       *)
(* fences of the layers.                                                    *)
CommitFails ==
    /\ releaseFence' = [releaseFence EXCEPT ![buffer] = NoFrame]
    /\ Return
    /\ UNCHANGED <<displayVars, surfaceVars, bufferVars, sync, kernelVars>>

(* UpdateProperties fails for a plane: those before it are enabled.         *)
UpdatePropertiesFails ==
    /\ "props" \in Events
    /\ pc = "commit"
    /\ \E p \in Used : enabled' = enabled \cup {q \in Used : q < p}
    /\ CommitFails
    /\ UNCHANGED outFence

(* The kernel takes the commit, and EndFrameUpdate follows.                 *)
Acceptable == ~Broken /\ (needsModeset \/ crtc = "active")

SetInUseWraps(s) == IF s \in flightSurfaces THEN 3 ELSE ref[s] - 1
SetInUse(s) == IF s \in flightSurfaces THEN 3 ELSE IF ref[s] > 0 THEN ref[s] - 1 ELSE 0

KeepBuffers == shownBuffers' = flightBuffers /\ UNCHANGED flightBuffers
SwapBuffers == shownBuffers' = flightBuffers /\ flightBuffers' = shownBuffers

EndFrameUpdate ==
    /\ ref' = [s \in Surfaces |-> SetInUse(s)]
    /\ inFlight' = [s \in Surfaces |-> FALSE]
    /\ SwapBuffers
    /\ UNCHANGED <<pool, format, fbOk, flightSurfaces>>

(* A blocking modeset: it waits for the flip before it and is on the screen *)
(* when it returns.  The sync object dies with Present, the layers get no   *)
(* release fences.                                                          *)
ModesetAccepted ==
    /\ needsModeset /\ Acceptable /\ ~flipPending
    /\ current' = Committed /\ front' = Committed
    /\ crtc' = "active"
    /\ outFence' = NoFrame
    /\ releaseFence' = [releaseFence EXCEPT ![buffer] = NoFrame]
    /\ EndFrameUpdate
    /\ Return
    /\ UNCHANGED <<displayVars, sync, flipPending>>

(* current_sync_ takes over the sync object, out_fence_ the flip's fence.   *)
HoldFirst == sync' = IF sync = NoFrame THEN frame ELSE sync
HoldFrame == sync' = frame
LoseOutFence == outFence' = NoFrame
KeepOutFence == outFence' = IF HasOutFence THEN frame ELSE NoFrame

(* A non-blocking commit: the flip is pending, this frame's sync object     *)
(* replaces the one before it, which signals the release fences it held.    *)
FlipAccepted ==
    /\ ~needsModeset /\ Acceptable /\ ~flipPending
    /\ current' = Committed
    /\ flipPending' = TRUE
    /\ HoldFrame
    /\ KeepOutFence
    /\ EndFrameUpdate
    /\ Return
    /\ UNCHANGED <<displayVars, crtc, front, releaseFence>>

(* drmModeAtomicCommit returns an error; out_fence_ is closed all the same. *)
Rejected ==
    /\ ~Acceptable \/ "commit" \in Events
    /\ outFence' = NoFrame
    /\ CommitFails

Busy == ~needsModeset /\ Acceptable /\ flipPending

(* EBUSY: wait for the fence of the flip before, if there is one, and retry. *)
AwaitFlip ==
    /\ Busy
    /\ pc' = IF outFence # NoFrame THEN "wait" ELSE "retry"
    /\ UNCHANGED <<displayVars, outFence, surfaceVars, bufferVars, sync,
                   localVars, kernelVars, releaseFence>>

CommitFrame ==
    /\ pc = "commit"
    /\ enabled' = enabled \cup Used
    /\ \/ ModesetAccepted
       \/ FlipAccepted
       \/ Rejected
       \/ AwaitFlip

(* What Present waits for when the kernel is busy.                          *)
OwnFlipDone == sync = frame
FlipDone == Signalled(outFence)

(* NativeSync::Wait on the fence of the flip before, up to a second.        *)
WaitForFlip ==
    /\ pc = "wait"
    /\ FlipDone
    /\ pc' = "retry"
    /\ UNCHANGED <<displayVars, outFence, surfaceVars, bufferVars, sync, enabled,
                   localVars, kernelVars, releaseFence>>

WaitTimesOut ==
    /\ "timeout" \in Events
    /\ pc = "wait"
    /\ ~FlipDone
    /\ CommitFails
    /\ UNCHANGED <<outFence, enabled>>

(* The second and last attempt: an EBUSY is now an error like any other.    *)
RetryCommit ==
    /\ pc = "retry"
    /\ UNCHANGED enabled
    /\ \/ FlipAccepted
       \/ Rejected
       \/ Busy /\ outFence' = NoFrame /\ CommitFails

-----------------------------------------------------------------------------
(* The manager and everything it owns is destroyed: its framebuffers are    *)
(* removed, so that a plane that still shows one of them goes dark, and     *)
(* current_sync_ signals its fences.                                        *)
FreshManager ==
    /\ pool' = 0
    /\ ref' = [s \in Surfaces |-> 0]
    /\ inFlight' = [s \in Surfaces |-> FALSE]
    /\ format' = [s \in Surfaces |-> "none"]
    /\ fbOk' = [s \in Surfaces |-> FALSE]
    /\ flightSurfaces' = {}
    /\ flightBuffers' = NoFrame /\ shownBuffers' = NoFrame
    /\ sync' = NoFrame
    /\ enabled' = {Primary}
    /\ current' = BlankScreen /\ front' = BlankScreen

(* Connect, called by the hotplug thread for a display that is off, or that *)
(* moves to another connector.  Setting DPMS blocks until the flip is done. *)
(* A Connect whose manager does not initialise is DisplayHotplug's subject. *)
Connect ==
    /\ pc = "idle" /\ ~flipPending
    /\ poweredOff \/ "reconnect" \in Events
    /\ poweredOff' = FALSE
    /\ modeset' = TRUE
    /\ dpms' = "ON"
    /\ crtc' = IF crtc = "inactive" THEN "active" ELSE crtc
    /\ FreshManager
    /\ UNCHANGED <<outFence, pc, localVars, flipPending, releaseFence>>

(* ShutDown: DPMS off, then the pipe is disabled and the manager destroyed, *)
(* unless the property set cannot be made ("disable").                      *)
ShutDown ==
    /\ "shutdown" \in Events
    /\ pc = "idle" /\ ~poweredOff /\ ~flipPending
    /\ poweredOff' = TRUE
    /\ dpms' = "OFF"
    /\ crtc' = IF crtc = "active" THEN "inactive" ELSE crtc
    /\ \/ FreshManager
       \/ "disable" \in Events /\ UNCHANGED <<surfaceVars, bufferVars, sync, enabled, current, front>>
    /\ UNCHANGED <<modeset, outFence, pc, localVars, flipPending, releaseFence>>

(* SetDpmsMode: the kernel is told when the cached mode changes.            *)
SetDpmsMode(mode) ==
    /\ "dpms" \in Events
    /\ pc = "idle" /\ ~flipPending
    /\ dpms # mode
    /\ dpms' = mode
    /\ crtc' = CASE mode = "ON"  /\ crtc = "inactive" -> "active"
                 [] mode = "OFF" /\ crtc = "active"   -> "inactive"
                 [] OTHER -> crtc
    /\ UNCHANGED <<poweredOff, modeset, outFence, surfaceVars, bufferVars, sync, enabled,
                   pc, localVars, current, front, flipPending, releaseFence>>

-----------------------------------------------------------------------------
(* What Present does once it has begun.                                     *)
PresentStep ==
    \/ ComposeOnPrimary
    \/ \E used, rendered \in SUBSET Planes : UsePlanes(used, rendered)
    \/ EnsureOffScreenTarget
    \/ ValidateFinalLayers
    \/ Draw
    \/ DrawFails
    \/ ApplyFails
    \/ ApplyPendingModeset
    \/ UpdatePropertiesFails
    \/ CommitFrame
    \/ WaitForFlip
    \/ WaitTimesOut
    \/ RetryCommit

Next ==
    \/ \E b \in Buffers : BeginPresent(b) \/ ImportFails(b)
    \/ PresentStep
    \/ Flip
    \/ Connect
    \/ ShutDown
    \/ \E mode \in {"ON", "OFF"} : SetDpmsMode(mode)

Spec == Init /\ [][Next]_vars

(* The display's thread does not stop inside Present, and vblanks go on.   *)
Fairness == WF_vars(PresentStep) /\ WF_vars(Flip)
FairSpec == Spec /\ Fairness

-----------------------------------------------------------------------------
(* Properties.                                                             *)

Screens == [frame : Frames \cup {NoFrame}, buffer : Buffers \cup {NoBuffer},
            src : [Planes -> Choices]]

(* Every variable holds a value of its type.                               *)
TypeOK ==
    /\ poweredOff \in BOOLEAN /\ modeset \in BOOLEAN /\ dpms \in {"ON", "OFF"}
    /\ outFence \in Frames \cup {NoFrame}
    /\ pool \in 0..MaxSurfaces
    /\ ref \in [Surfaces -> 0..3]
    /\ inFlight \in [Surfaces -> BOOLEAN]
    /\ format \in [Surfaces -> Formats]
    /\ fbOk \in [Surfaces -> BOOLEAN]
    /\ flightSurfaces \subseteq Surfaces
    /\ flightBuffers \in Frames \cup {NoFrame}
    /\ shownBuffers \in Frames \cup {NoFrame}
    /\ sync \in Frames \cup {NoFrame}
    /\ enabled \subseteq Planes
    /\ pc \in Stages
    /\ frame \in Frames \cup {NoFrame}
    /\ buffer \in Buffers \cup {NoBuffer}
    /\ needsModeset \in BOOLEAN
    /\ comp \in [Planes -> Choices]
    /\ crtc \in {"unset", "inactive", "active"}
    /\ current \in Screens /\ front \in Screens
    /\ flipPending \in BOOLEAN
    /\ releaseFence \in [Buffers -> Frames \cup {NoFrame}]

(* The surfaces Present hands to the GPU are neither on the screen nor in   *)
(* the commit that is about to be: ref_count_ keeps the surfaces of the     *)
(* last two commits out of EnsureOffScreenTarget's reach.                   *)
TargetsOffScreen == Targets \cap ScannedOut = {}

(* Two planes of one composition never share a surface.                     *)
TargetsDistinct ==
    \A p, q \in Planes : p # q /\ comp[p] \in Surfaces => comp[p] # comp[q]

(* A commit the kernel takes leaves the screen showing this composition and *)
(* nothing else: no overlay or cursor plane survives from an earlier frame, *)
(* whatever happened to the Presents in between.                            *)
CommitShowsComposition ==
    [][current'.frame # current.frame /\ current'.frame # NoFrame
         => current'.frame = frame /\ current'.src = comp]_vars

(* Between two commits the screen is left alone, until the manager itself   *)
(* is destroyed: the framebuffers BeginFrameUpdate frees are never those of *)
(* the last commit, after any number of failed Presents.                    *)
OnlyCommitsChangeScreen ==
    [][current' # current => pc \in {"commit", "retry"} \/ current' = BlankScreen]_vars

(* While a flip is pending Present holds the fence to wait for, so that the *)
(* second attempt at a commit is never turned down as busy.                 *)
BusyHasFence ==
    /\ flipPending /\ pc # "retry" => outFence = current.frame
    /\ pc = "retry" => ~flipPending

(* The pool stops growing at three surfaces for each plane that can show    *)
(* one: two commits' worth are kept back, a third is being drawn.           *)
PoolBounded == pool <= 3 * Cardinality(Planes \ {Cursor})

(* A CRTC that the display believes on is scanning out, or the modeset that *)
(* will make it so is pending or under way.  Only a commit that fails after *)
(* it took the modeset loses it: not the Presents that fail before that, a  *)
(* ShutDown, a Connect or DPMS in whatever order.                           *)
ModesetAtHand ==
    ~poweredOff => \/ modeset \/ needsModeset
                   \/ crtc # "unset" /\ (dpms = "ON" => crtc = "active")
ModesetNotForgotten ==
    [][ModesetAtHand /\ ~ModesetAtHand' => needsModeset /\ pc = "commit"]_vars

(* Refinement of DisplayContract.  A picture is torn while a surface it     *)
(* consists of is a target of the composition under way.                    *)
Picture(screen) == IF SurfacesOf(screen) \cap Targets = {} THEN screen.frame ELSE Torn

Contract == INSTANCE DisplayContract WITH
    shown <- Picture(front),
    next <- IF flipPending THEN Picture(current) ELSE NoFrame,
    held <- sync

(* What the caller of Present is promised holds step by step.               *)
ImplementsContract == Contract!Spec

(* Every Present returns.                                                   *)
PresentReturns == pc # "idle" ~> pc = "idle"

=============================================================================
