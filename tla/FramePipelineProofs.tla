------------------------ MODULE FramePipelineProofs ------------------------
(***************************************************************************)
(* Proofs about FramePipeline, for any set of planes, number of surfaces,  *)
(* frames and buffers, and with every failure and interruption.            *)
(***************************************************************************)
EXTENDS FramePipeline, FiniteSetTheorems, TLAPS

USE PlanesAssumption, FramesAssumption, BuffersAssumption, OptionsAssumption,
    MaxSurfacesAssumption

-----------------------------------------------------------------------------
(* Type correctness.                                                       *)

LEMMA BlankIsScreen == BlankScreen \in Screens
  BY DEF BlankScreen, Screens, AllOff, Choices, Sources, Off

LEMMA WithoutIsScreen ==
  ASSUME NEW screen \in Screens, NEW sources
  PROVE  Without(screen, sources) \in Screens
  BY DEF Without, Screens, Choices, Sources, Off

LEMMA RmFBType ==
  ASSUME NEW f, RmFB(f), current \in Screens, front \in Screens, flipPending \in BOOLEAN
  PROVE  current' \in Screens /\ front' \in Screens /\ flipPending' \in BOOLEAN
  BY WithoutIsScreen DEF RmFB

(* Returning leaves Present's locals with values of their types.           *)
LEMMA ReturnType ==
  ASSUME Return
  PROVE  /\ pc' \in Stages /\ frame' \in Frames \cup {NoFrame}
         /\ buffer' \in Buffers \cup {NoBuffer} /\ needsModeset' \in BOOLEAN
         /\ comp' \in [Planes -> Choices]
  BY DEF Return, Stages, AllOff, Choices, Sources, Off

LEMMA EndFrameUpdateType ==
  ASSUME TypeOK, EndFrameUpdate
  PROVE  /\ pool' \in 0..MaxSurfaces
         /\ ref' \in [Surfaces -> 0..3]
         /\ inFlight' \in [Surfaces -> BOOLEAN]
         /\ format' \in [Surfaces -> Formats]
         /\ fbOk' \in [Surfaces -> BOOLEAN]
         /\ flightSurfaces' \subseteq Surfaces
         /\ flightBuffers' \in Frames \cup {NoFrame}
         /\ shownBuffers' \in Frames \cup {NoFrame}
  BY DEF TypeOK, EndFrameUpdate, SetInUse, SwapBuffers

LEMMA CommittedIsScreen ==
  ASSUME TypeOK
  PROVE  Committed \in Screens
  BY DEF TypeOK, Committed, Screens, Choices, Sources, Off

LEMMA FreshManagerType ==
  ASSUME FreshManager
  PROVE  /\ pool' \in 0..MaxSurfaces
         /\ ref' \in [Surfaces -> 0..3]
         /\ inFlight' \in [Surfaces -> BOOLEAN]
         /\ format' \in [Surfaces -> Formats]
         /\ fbOk' \in [Surfaces -> BOOLEAN]
         /\ flightSurfaces' \subseteq Surfaces
         /\ flightBuffers' \in Frames \cup {NoFrame}
         /\ shownBuffers' \in Frames \cup {NoFrame}
         /\ sync' \in Frames \cup {NoFrame}
         /\ enabled' \subseteq Planes
         /\ current' \in Screens /\ front' \in Screens
  BY BlankIsScreen DEF FreshManager, Formats, Primary

LEMMA ModesetAcceptedType ==
  ASSUME TypeOK, ModesetAccepted, enabled' \subseteq Planes
  PROVE  TypeOK'
  BY ReturnType, EndFrameUpdateType, CommittedIsScreen
     DEF TypeOK, ModesetAccepted, displayVars

LEMMA FlipAcceptedType ==
  ASSUME TypeOK, FlipAccepted, enabled' \subseteq Planes
  PROVE  TypeOK'
  BY ReturnType, EndFrameUpdateType, CommittedIsScreen
     DEF TypeOK, FlipAccepted, HoldFrame, KeepOutFence, displayVars

LEMMA CommitFailsType ==
  ASSUME TypeOK, CommitFails, enabled' \subseteq Planes, outFence' \in Frames \cup {NoFrame}
  PROVE  TypeOK'
  BY ReturnType
     DEF TypeOK, CommitFails, displayVars, surfaceVars, bufferVars, kernelVars

LEMMA TypeInit == Init => TypeOK
<1> SUFFICES ASSUME Init PROVE TypeOK
  OBVIOUS
<1>1. /\ pool \in 0..MaxSurfaces /\ ref \in [Surfaces -> 0..3]
      /\ format \in [Surfaces -> Formats] /\ enabled \subseteq Planes /\ pc \in Stages
      /\ current \in Screens /\ front \in Screens
  BY BlankIsScreen DEF Init, Stages, Formats
<1>2. comp \in [Planes -> Choices]
  BY DEF Init, AllOff, Choices, Sources
<1>. QED
  BY <1>1, <1>2, Zenon DEF Init, TypeOK

LEMMA TypeStep ==
  ASSUME TypeOK, [Next]_vars
  PROVE  TypeOK'
<1> USE DEF displayVars, surfaceVars, bufferVars, localVars, kernelVars
<1>1. ASSUME NEW b \in Buffers, BeginPresent(b) PROVE TypeOK'
  <2>1. frame' \in Frames /\ flightBuffers' \in Frames
    BY <1>1 DEF BeginPresent
  <2>2. current' \in Screens /\ front' \in Screens /\ flipPending' \in BOOLEAN
    BY <1>1, RmFBType DEF BeginPresent, TypeOK
  <2>. QED
    BY <1>1, <2>1, <2>2
       DEF BeginPresent, TypeOK, MarkPlanesUnused, ReadModeset, Stages, AllOff,
           Choices, Sources, Off
<1>2. ASSUME NEW b \in Buffers, ImportFails(b) PROVE TypeOK'
  <2>1. current' \in Screens /\ front' \in Screens /\ flipPending' \in BOOLEAN
    BY <1>2, RmFBType DEF ImportFails, TypeOK
  <2>. QED
    BY <1>2, <2>1 DEF ImportFails, TypeOK, MarkPlanesUnused
<1>3. CASE ComposeOnPrimary
  BY <1>3 DEF ComposeOnPrimary, TypeOK, Stages, AllOff, Choices, Sources, Off
<1>4. ASSUME NEW used \in SUBSET Planes, NEW rendered \in SUBSET Planes, UsePlanes(used, rendered)
      PROVE  TypeOK'
  BY <1>4 DEF UsePlanes, TypeOK, Stages, Choices, Sources, Off
<1>5. CASE EnsureOffScreenTarget
  <2>1. PICK p \in Planes, s \in Surfaces :
            /\ pool' = IF s > pool THEN s ELSE pool
            /\ SetPlaneTarget(p, s)
            /\ flightSurfaces' = flightSurfaces \cup {s}
    BY <1>5 DEF EnsureOffScreenTarget
  <2>2. pool' \in 0..MaxSurfaces /\ flightSurfaces' \subseteq Surfaces
    BY <2>1 DEF TypeOK, Surfaces
  <2>3. PICK created \in BOOLEAN :
          fbOk' = [fbOk EXCEPT ![s] = IF format[s] = FormatFor(p, s) THEN @ ELSE created]
    BY <2>1 DEF SetPlaneTarget
  <2>4. /\ format' \in [Surfaces -> Formats]
        /\ inFlight' \in [Surfaces -> BOOLEAN]
        /\ comp' \in [Planes -> Choices]
    BY <2>1 DEF SetPlaneTarget, FormatFor, Formats, TypeOK, Choices, Sources
  <2>5. fbOk' \in [Surfaces -> BOOLEAN]
    BY <2>3 DEF TypeOK
  <2>6. pc' \in Stages
    BY <1>5 DEF EnsureOffScreenTarget, TypeOK, Stages
  <2>. QED
    BY <1>5, <2>2, <2>4, <2>5, <2>6 DEF EnsureOffScreenTarget, TypeOK
<1>6. CASE ValidateFinalLayers
  BY <1>6 DEF ValidateFinalLayers, TypeOK, Stages, AllOff, Choices, Sources, Off
<1>7. CASE Draw
  BY <1>7 DEF Draw, TypeOK, Stages
<1>8. CASE DrawFails
  BY <1>8, ReturnType DEF DrawFails, TypeOK
<1>9. CASE ApplyFails
  <2>1. releaseFence' \in [Buffers -> Frames \cup {NoFrame}]
    BY <1>9 DEF ApplyFails, TypeOK
  <2>. QED
    BY <1>9, <2>1, ReturnType DEF ApplyFails, TypeOK
<1>10. CASE ApplyPendingModeset
  <2>1. modeset' \in BOOLEAN
    BY <1>10, Zenon DEF ApplyPendingModeset, TypeOK
  <2>2. releaseFence' \in [Buffers -> Frames \cup {NoFrame}] /\ pc' \in Stages
    BY <1>10 DEF ApplyPendingModeset, TypeOK, Stages
  <2>3. /\ UNCHANGED <<poweredOff, dpms, outFence, pool, ref, inFlight, format, fbOk>>
        /\ UNCHANGED <<flightSurfaces, flightBuffers, shownBuffers, sync, enabled>>
        /\ UNCHANGED <<frame, buffer, needsModeset, comp, crtc, current, front, flipPending>>
    BY <1>10 DEF ApplyPendingModeset
  <2>. QED
    BY <2>1, <2>2, <2>3 DEF TypeOK
<1>11. CASE UpdatePropertiesFails
  <2>1. enabled' \subseteq Planes
    BY <1>11 DEF UpdatePropertiesFails, TypeOK, Used
  <2>. QED
    BY <1>11, <2>1, CommitFailsType DEF UpdatePropertiesFails, TypeOK
<1>12. CASE CommitFrame
  <2>1. enabled' \subseteq Planes
    BY <1>12 DEF CommitFrame, TypeOK, Used
  <2>2. CASE Rejected
    BY <2>1, <2>2, CommitFailsType DEF Rejected
  <2>3. CASE ModesetAccepted \/ FlipAccepted
    BY <2>1, <2>3, ModesetAcceptedType, FlipAcceptedType
  <2>4. CASE AwaitFlip
    BY <2>1, <2>4 DEF AwaitFlip, TypeOK, Stages
  <2>. QED
    BY <1>12, <2>2, <2>3, <2>4 DEF CommitFrame
<1>13. CASE WaitForFlip
  BY <1>13 DEF WaitForFlip, TypeOK, Stages
<1>14. CASE WaitTimesOut
  BY <1>14, CommitFailsType DEF WaitTimesOut, TypeOK
<1>15. CASE RetryCommit
  <2>1. enabled' \subseteq Planes
    BY <1>15 DEF RetryCommit, TypeOK
  <2>2. CASE FlipAccepted
    BY <2>1, <2>2, FlipAcceptedType
  <2>3. CASE CommitFails /\ outFence' = NoFrame
    BY <2>1, <2>3, CommitFailsType
  <2>. QED
    BY <1>15, <2>2, <2>3 DEF RetryCommit, Rejected
<1>16. CASE Flip
  <2>1. flipPending' \in BOOLEAN
    BY <1>16 DEF Flip
  <2>2. front' \in Screens
    BY <1>16 DEF Flip, TypeOK
  <2>3. /\ UNCHANGED <<poweredOff, modeset, dpms, outFence, pool, ref, inFlight, format, fbOk>>
        /\ UNCHANGED <<flightSurfaces, flightBuffers, shownBuffers, sync, enabled, pc>>
        /\ UNCHANGED <<frame, buffer, needsModeset, comp, crtc, current, releaseFence>>
    BY <1>16 DEF Flip
  <2>. QED
    BY <2>1, <2>2, <2>3 DEF TypeOK
<1>17. CASE Connect
  BY <1>17, FreshManagerType DEF Connect, TypeOK
<1>18. CASE ShutDown
  BY <1>18, FreshManagerType DEF ShutDown, TypeOK
<1>19. ASSUME NEW mode \in {"ON", "OFF"}, SetDpmsMode(mode) PROVE TypeOK'
  BY <1>19 DEF SetDpmsMode, TypeOK
<1>20. CASE UNCHANGED vars
  BY <1>20 DEF vars, TypeOK
<1>. QED
  BY <1>1, <1>2, <1>3, <1>4, <1>5, <1>6, <1>7, <1>8, <1>9, <1>10, <1>11, <1>12,
     <1>13, <1>14, <1>15, <1>16, <1>17, <1>18, <1>19, <1>20 DEF Next, PresentStep

(* Every variable keeps a value of its type: FramePipeline's TypeOK.       *)
THEOREM TypeCorrect == Spec => []TypeOK
<1>1. Init => TypeOK
  BY TypeInit
<1>2. TypeOK /\ [Next]_vars => TypeOK'
  BY TypeStep
<1>. QED
  BY <1>1, <1>2, PTL DEF Spec

-----------------------------------------------------------------------------
(* The inductive invariant behind the safety properties.                   *)

(* The reference counts tell what the screen may show: 3 for a surface of  *)
(* the last commit, at least 2 for one of the frame it is to replace.      *)
ScreenHeld ==
    /\ \A s \in SurfacesOf(current) : ref[s] = 3
    /\ \A s \in SurfacesOf(front) : ref[s] >= 2
    /\ ~flipPending => front = current

(* A surface that was ever counted or handed out has been created.         *)
PoolCovers ==
    /\ flightSurfaces \subseteq 1..pool
    /\ \A s \in Surfaces : ref[s] > 0 => s <= pool

(* The targets are in flight, and none is of the last two commits.         *)
TargetsFresh ==
    \A p \in Planes :
        comp[p] \in Surfaces => comp[p] \in flightSurfaces /\ ref[comp[p]] <= 1

(* From BeginFrameUpdate to the commit only planes of this composition are *)
(* marked as used, and the primary plane is one of them.                   *)
PlanesMarked ==
    /\ pc = "idle" => comp = AllOff
    /\ pc \notin {"idle", "validate"} => comp[Primary] # Off
    /\ pc \notin {"idle", "wait", "retry"} => enabled \subseteq {Primary}
    /\ pc \in {"wait", "retry"} => enabled \subseteq {Primary} \cup Used

(* The framebuffers in in_flight_buffers_ were imported for this frame, or, *)
(* between two Presents, for one that is not that of the last commit.       *)
FrameFresh ==
    /\ pc # "idle" => /\ frame \in Frames /\ flightBuffers = frame
                      /\ frame \notin {current.frame, front.frame, shownBuffers}
    /\ pc = "idle" /\ flightBuffers # NoFrame => flightBuffers # current.frame

SafetyInv == ScreenHeld /\ PoolCovers /\ TargetsFresh /\ PlanesMarked /\ FrameFresh

(* A source that is no surface.                                            *)
LEMMA NoSurface == Off \notin Surfaces /\ ClientBuffer \notin Surfaces /\ Untargeted \notin Surfaces
  BY DEF Off, ClientBuffer, Untargeted, Surfaces

LEMMA BlankHasNoSurface == SurfacesOf(BlankScreen) = {}
  BY NoSurface DEF SurfacesOf, BlankScreen, AllOff

(* What is committed is the composition: no plane that is not part of it   *)
(* is left enabled.                                                        *)
LEMMA CommittedIsComp ==
  ASSUME TypeOK, PlanesMarked, pc \in {"commit", "retry"}
  PROVE  Committed.src = comp /\ Committed.frame = frame
<1>1. ASSUME NEW p \in Planes, p \notin Used PROVE p \notin enabled /\ p # Primary /\ comp[p] = Off
  BY <1>1 DEF PlanesMarked, Used
<1>2. Committed.src = [p \in Planes |-> comp[p]]
  BY <1>1 DEF Committed
<1>3. comp = [p \in Planes |-> comp[p]]
  BY DEF TypeOK
<1>. QED
  BY <1>2, <1>3 DEF Committed

(* A surface EnsureOffScreenTarget picks is in neither of two commits.     *)
LEMMA PickedIsFree ==
  ASSUME TypeOK, PoolCovers, NEW s \in Surfaces, Picks(s)
  PROVE  ref[s] <= 1
  BY DEF TypeOK, PoolCovers, Picks, InUse, Surfaces

(* BeginFrameUpdate frees no framebuffer of the last commit.               *)
LEMMA RmFBHarmless ==
  ASSUME FrameFresh, pc = "idle", RmFB(flightBuffers)
  PROVE  UNCHANGED <<current, front, flipPending>>
  BY DEF FrameFresh, RmFB, Shows

(* A Present that fails leaves everything but its locals as it was.        *)
LEMMA ReturnSafe ==
  ASSUME SafetyInv, pc # "idle", Return, UNCHANGED <<surfaceVars, bufferVars, kernelVars>>
  PROVE  SafetyInv'
<1> USE DEF surfaceVars, bufferVars, kernelVars
<1>1. ScreenHeld' /\ PoolCovers'
  BY DEF SafetyInv, ScreenHeld, PoolCovers, SurfacesOf
<1>2. TargetsFresh'
  BY NoSurface DEF Return, TargetsFresh, AllOff
<1>3. PlanesMarked'
  BY DEF Return, PlanesMarked, AllOff
<1>4. FrameFresh'
  BY DEF SafetyInv, Return, FrameFresh
<1>. QED
  BY <1>1, <1>2, <1>3, <1>4 DEF SafetyInv

(* A commit the kernel takes.                                              *)
LEMMA AcceptedSafe ==
  ASSUME TypeOK, SafetyInv, pc \in {"commit", "retry"}, ModesetAccepted \/ FlipAccepted
  PROVE  SafetyInv'
<1>1. /\ EndFrameUpdate /\ Return
      /\ ~flipPending /\ current' = Committed
      /\ \/ front' = Committed /\ flipPending' = FALSE
         \/ front' = front /\ flipPending' = TRUE
  BY DEF ModesetAccepted, FlipAccepted
<1>2. Committed.src = comp /\ Committed.frame = frame
  BY CommittedIsComp DEF SafetyInv
<1>3. \A s \in SurfacesOf(Committed) : ref'[s] = 3
  BY <1>1, <1>2 DEF SurfacesOf, SafetyInv, TargetsFresh, EndFrameUpdate, SetInUse
<1>4. \A s \in SurfacesOf(front) : ref'[s] >= 2
  <2> SUFFICES ASSUME NEW s \in SurfacesOf(front) PROVE ref'[s] >= 2
    OBVIOUS
  <2>1. s \in Surfaces /\ ref[s] = 3
    BY <1>1 DEF SafetyInv, ScreenHeld, SurfacesOf
  <2>. QED
    BY <1>1, <2>1 DEF EndFrameUpdate, SetInUse
<1>5. ScreenHeld'
  <2>1. \A s \in SurfacesOf(current') : ref'[s] = 3
    BY <1>1, <1>3
  <2>2. \A s \in SurfacesOf(front') : ref'[s] >= 2
    BY <1>1, <1>3, <1>4
  <2>3. ~flipPending' => front' = current'
    BY <1>1
  <2>. QED
    BY <2>1, <2>2, <2>3 DEF ScreenHeld, SurfacesOf
<1>6. PoolCovers'
  BY <1>1 DEF SafetyInv, PoolCovers, EndFrameUpdate, SetInUse, TypeOK
<1>7. TargetsFresh' /\ PlanesMarked'
  BY <1>1, NoSurface DEF Return, TargetsFresh, PlanesMarked, AllOff
<1>8. FrameFresh'
  BY <1>1, <1>2 DEF SafetyInv, FrameFresh, EndFrameUpdate, SwapBuffers, Return
<1>. QED
  BY <1>5, <1>6, <1>7, <1>8 DEF SafetyInv

(* Connect and ShutDown when they destroy the manager.                     *)
LEMMA FreshManagerSafe ==
  ASSUME SafetyInv, pc = "idle", ~flipPending, FreshManager, UNCHANGED <<pc, localVars, flipPending>>
  PROVE  SafetyInv'
<1> USE DEF localVars
<1>1. ScreenHeld'
  <2>1. SurfacesOf(current') = {} /\ SurfacesOf(front') = {}
    BY BlankHasNoSurface DEF FreshManager
  <2>. QED
    BY <2>1 DEF FreshManager, ScreenHeld, SurfacesOf
<1>2. PoolCovers'
  BY DEF FreshManager, PoolCovers
<1>3. TargetsFresh'
  BY NoSurface DEF SafetyInv, PlanesMarked, TargetsFresh, AllOff
<1>4. PlanesMarked' /\ FrameFresh'
  BY DEF SafetyInv, PlanesMarked, FrameFresh, FreshManager, AllOff
<1>. QED
  BY <1>1, <1>2, <1>3, <1>4 DEF SafetyInv

LEMMA SafetyInit == Init => SafetyInv
<1> SUFFICES ASSUME Init PROVE SafetyInv
  OBVIOUS
<1>1. ScreenHeld
  BY BlankHasNoSurface DEF Init, ScreenHeld
<1>2. PoolCovers
  BY DEF Init, PoolCovers
<1>3. TargetsFresh
  BY NoSurface DEF Init, TargetsFresh, AllOff
<1>4. PlanesMarked /\ FrameFresh
  BY DEF Init, PlanesMarked, FrameFresh, AllOff
<1>. QED
  BY <1>1, <1>2, <1>3, <1>4 DEF SafetyInv

LEMMA SafetyStep ==
  ASSUME TypeOK, SafetyInv, [Next]_vars
  PROVE  SafetyInv'
<1> USE DEF displayVars, surfaceVars, bufferVars, localVars, kernelVars
<1>1. ASSUME NEW b \in Buffers, BeginPresent(b) PROVE SafetyInv'
  <2>1. UNCHANGED <<current, front, flipPending, ref, pool>> /\ flightSurfaces' = {}
    BY <1>1, RmFBHarmless DEF BeginPresent, SafetyInv
  <2>2. ScreenHeld' /\ PoolCovers'
    BY <2>1 DEF SafetyInv, ScreenHeld, PoolCovers, SurfacesOf
  <2>3. TargetsFresh'
    BY <1>1, NoSurface DEF BeginPresent, TargetsFresh, AllOff
  <2>4. PlanesMarked'
    BY <1>1 DEF BeginPresent, PlanesMarked, MarkPlanesUnused
  <2>5. FrameFresh'
    <3>1. frame' \in Frames /\ frame' \notin Live /\ flightBuffers' = frame' /\ pc' # "idle"
      BY <1>1 DEF BeginPresent
    <3>. QED
      BY <1>1, <2>1, <3>1 DEF BeginPresent, FrameFresh, Live
  <2>. QED
    BY <2>2, <2>3, <2>4, <2>5 DEF SafetyInv
<1>2. ASSUME NEW b \in Buffers, ImportFails(b) PROVE SafetyInv'
  <2>1. UNCHANGED <<current, front, flipPending>>
    BY <1>2, RmFBHarmless DEF ImportFails, SafetyInv
  <2>2. ScreenHeld' /\ PoolCovers' /\ TargetsFresh'
    BY <1>2, <2>1 DEF ImportFails, SafetyInv, ScreenHeld, PoolCovers, TargetsFresh, SurfacesOf
  <2>3. PlanesMarked' /\ FrameFresh'
    BY <1>2 DEF ImportFails, SafetyInv, PlanesMarked, FrameFresh, AllOff
  <2>. QED
    BY <2>2, <2>3 DEF SafetyInv
<1>3. CASE ComposeOnPrimary
  <2>1. ScreenHeld' /\ PoolCovers' /\ FrameFresh'
    BY <1>3 DEF ComposeOnPrimary, SafetyInv, ScreenHeld, PoolCovers, FrameFresh, SurfacesOf
  <2>2. TargetsFresh' /\ PlanesMarked'
    BY <1>3, NoSurface
       DEF ComposeOnPrimary, SafetyInv, TargetsFresh, PlanesMarked, AllOff, Primary, Off, Untargeted
  <2>. QED
    BY <2>1, <2>2 DEF SafetyInv
<1>4. ASSUME NEW used \in SUBSET Planes, NEW rendered \in SUBSET Planes, UsePlanes(used, rendered)
      PROVE  SafetyInv'
  <2>1. ScreenHeld' /\ PoolCovers' /\ FrameFresh'
    BY <1>4 DEF UsePlanes, SafetyInv, ScreenHeld, PoolCovers, FrameFresh, SurfacesOf
  <2>2. TargetsFresh' /\ PlanesMarked'
    BY <1>4, NoSurface
       DEF UsePlanes, SafetyInv, TargetsFresh, PlanesMarked, Off, Untargeted, ClientBuffer
  <2>. QED
    BY <2>1, <2>2 DEF SafetyInv
<1>5. CASE EnsureOffScreenTarget
  <2>1. PICK p \in Planes, s \in Surfaces :
            /\ Picks(s)
            /\ pool' = IF s > pool THEN s ELSE pool
            /\ comp' = [comp EXCEPT ![p] = s]
            /\ flightSurfaces' = flightSurfaces \cup {s}
    BY <1>5 DEF EnsureOffScreenTarget, SetPlaneTarget
  <2>2. ref[s] <= 1
    BY <2>1, PickedIsFree DEF SafetyInv
  <2>3. ScreenHeld' /\ FrameFresh'
    BY <1>5 DEF EnsureOffScreenTarget, SafetyInv, ScreenHeld, FrameFresh, SurfacesOf
  <2>4. PoolCovers'
    BY <1>5, <2>1 DEF EnsureOffScreenTarget, SafetyInv, PoolCovers, TypeOK, Surfaces
  <2>5. TargetsFresh'
    BY <1>5, <2>1, <2>2 DEF EnsureOffScreenTarget, SafetyInv, TargetsFresh, TypeOK
  <2>6. PlanesMarked'
    BY <1>5, <2>1, NoSurface DEF EnsureOffScreenTarget, SafetyInv, PlanesMarked, TypeOK
  <2>. QED
    BY <2>3, <2>4, <2>5, <2>6 DEF SafetyInv
<1>6. CASE ValidateFinalLayers
  <2>1. ScreenHeld' /\ PoolCovers' /\ FrameFresh'
    BY <1>6 DEF ValidateFinalLayers, SafetyInv, ScreenHeld, PoolCovers, FrameFresh, SurfacesOf
  <2>2. TargetsFresh' /\ PlanesMarked'
    BY <1>6, NoSurface
       DEF ValidateFinalLayers, SafetyInv, TargetsFresh, PlanesMarked, AllOff, Primary, Off, Untargeted
  <2>. QED
    BY <2>1, <2>2 DEF SafetyInv
<1>7. CASE Draw
  BY <1>7 DEF Draw, SafetyInv, ScreenHeld, PoolCovers, TargetsFresh, PlanesMarked, FrameFresh, SurfacesOf
<1>8. CASE DrawFails
  BY <1>8, ReturnSafe DEF DrawFails
<1>9. CASE ApplyFails
  BY <1>9, ReturnSafe DEF ApplyFails
<1>10. CASE ApplyPendingModeset
  BY <1>10
     DEF ApplyPendingModeset, SafetyInv, ScreenHeld, PoolCovers, TargetsFresh, PlanesMarked,
         FrameFresh, SurfacesOf
<1>11. CASE UpdatePropertiesFails
  BY <1>11, ReturnSafe DEF UpdatePropertiesFails, CommitFails
<1>12. CASE CommitFrame
  <2>1. CASE ModesetAccepted \/ FlipAccepted
    BY <1>12, <2>1, AcceptedSafe DEF CommitFrame
  <2>2. CASE Rejected
    BY <1>12, <2>2, ReturnSafe DEF CommitFrame, Rejected, CommitFails
  <2>3. CASE AwaitFlip
    <3>1. ScreenHeld' /\ PoolCovers' /\ TargetsFresh' /\ FrameFresh'
      BY <1>12, <2>3
         DEF CommitFrame, AwaitFlip, SafetyInv, ScreenHeld, PoolCovers, TargetsFresh, FrameFresh, SurfacesOf
    <3>2. PlanesMarked'
      BY <1>12, <2>3 DEF CommitFrame, AwaitFlip, SafetyInv, PlanesMarked, Used
    <3>. QED
      BY <3>1, <3>2 DEF SafetyInv
  <2>. QED
    BY <1>12, <2>1, <2>2, <2>3 DEF CommitFrame
<1>13. CASE WaitForFlip
  BY <1>13
     DEF WaitForFlip, SafetyInv, ScreenHeld, PoolCovers, TargetsFresh, PlanesMarked, FrameFresh,
         SurfacesOf, Used
<1>14. CASE WaitTimesOut
  BY <1>14, ReturnSafe DEF WaitTimesOut, CommitFails
<1>15. CASE RetryCommit
  <2>1. CASE FlipAccepted
    BY <1>15, <2>1, AcceptedSafe DEF RetryCommit
  <2>2. CASE CommitFails
    BY <1>15, <2>2, ReturnSafe DEF RetryCommit, CommitFails
  <2>. QED
    BY <1>15, <2>1, <2>2 DEF RetryCommit, Rejected
<1>16. CASE Flip
  <2>1. ScreenHeld'
    BY <1>16 DEF Flip, SafetyInv, ScreenHeld, SurfacesOf
  <2>2. PoolCovers' /\ TargetsFresh' /\ PlanesMarked' /\ FrameFresh'
    BY <1>16 DEF Flip, SafetyInv, PoolCovers, TargetsFresh, PlanesMarked, FrameFresh, Used
  <2>. QED
    BY <2>1, <2>2 DEF SafetyInv
<1>17. CASE Connect
  BY <1>17, FreshManagerSafe DEF Connect
<1>18. CASE ShutDown
  <2>1. CASE FreshManager
    BY <1>18, <2>1, FreshManagerSafe DEF ShutDown
  <2>2. CASE UNCHANGED <<surfaceVars, bufferVars, sync, enabled, current, front>>
    BY <1>18, <2>2
       DEF ShutDown, SafetyInv, ScreenHeld, PoolCovers, TargetsFresh, PlanesMarked, FrameFresh,
           SurfacesOf, Used
  <2>. QED
    BY <1>18, <2>1, <2>2 DEF ShutDown
<1>19. ASSUME NEW mode \in {"ON", "OFF"}, SetDpmsMode(mode) PROVE SafetyInv'
  BY <1>19
     DEF SetDpmsMode, SafetyInv, ScreenHeld, PoolCovers, TargetsFresh, PlanesMarked, FrameFresh,
         SurfacesOf, Used
<1>20. CASE UNCHANGED vars
  BY <1>20
     DEF vars, SafetyInv, ScreenHeld, PoolCovers, TargetsFresh, PlanesMarked, FrameFresh,
         SurfacesOf, Used
<1>. QED
  BY <1>1, <1>2, <1>3, <1>4, <1>5, <1>6, <1>7, <1>8, <1>9, <1>10, <1>11, <1>12,
     <1>13, <1>14, <1>15, <1>16, <1>17, <1>18, <1>19, <1>20 DEF Next, PresentStep

(* The steps that change what is on the screen, what replaces it and whose  *)
(* fences are held back.                                                    *)
LEMMA ScreenSteps ==
  ASSUME SafetyInv, [Next]_vars
  PROVE  \/ UNCHANGED <<current, front, flipPending, sync>>
         \/ Flip
         \/ pc \in {"commit", "retry"} /\ (ModesetAccepted \/ FlipAccepted)
         \/ FreshManager /\ ~flipPending /\ UNCHANGED flipPending
<1> USE DEF displayVars, surfaceVars, bufferVars, localVars, kernelVars
<1>1. ASSUME NEW b \in Buffers, BeginPresent(b) \/ ImportFails(b)
      PROVE  UNCHANGED <<current, front, flipPending, sync>>
  BY <1>1, RmFBHarmless DEF BeginPresent, ImportFails, SafetyInv
<1>2. CASE CommitFrame \/ RetryCommit
  BY <1>2 DEF CommitFrame, RetryCommit, Rejected, CommitFails, AwaitFlip
<1>3. CASE Connect \/ ShutDown
  BY <1>3 DEF Connect, ShutDown
<1>. QED
  BY <1>1, <1>2, <1>3
     DEF Next, PresentStep, ComposeOnPrimary, UsePlanes, EnsureOffScreenTarget, ValidateFinalLayers,
         Draw, DrawFails, ApplyFails, ApplyPendingModeset, UpdatePropertiesFails, CommitFails,
         WaitForFlip, WaitTimesOut, SetDpmsMode, vars

LEMMA Safe == Spec => []SafetyInv
<1>1. Init => SafetyInv
  BY SafetyInit
<1>2. TypeOK /\ SafetyInv /\ [Next]_vars => SafetyInv'
  BY SafetyStep
<1>. QED
  BY <1>1, <1>2, TypeCorrect, PTL DEF Spec

LEMMA TargetsNotShown ==
  ASSUME TypeOK, SafetyInv
  PROVE  TargetsOffScreen
<1> SUFFICES ASSUME NEW s \in Targets, s \in ScannedOut PROVE FALSE
  BY DEF TargetsOffScreen
<1>1. s \in Surfaces /\ ref[s] <= 1
  BY DEF SafetyInv, TargetsFresh, Targets
<1>2. ref[s] >= 2
  BY DEF SafetyInv, ScreenHeld, ScannedOut
<1>. QED
  BY <1>1, <1>2 DEF TypeOK

(* The GPU never writes a surface the display shows or is about to show.   *)
THEOREM TargetsStayOffScreen == Spec => []TargetsOffScreen
<1>1. TypeOK /\ SafetyInv => TargetsOffScreen
  BY TargetsNotShown
<1>. QED
  BY <1>1, TypeCorrect, Safe, PTL

(* No overlay or cursor plane survives from an earlier frame: see          *)
(* CommitShowsComposition in FramePipeline.                                *)
THEOREM CommitsShowCompositions == Spec => CommitShowsComposition
<1>1. TypeOK /\ SafetyInv /\ [Next]_vars
        => [current'.frame # current.frame /\ current'.frame # NoFrame
              => current'.frame = frame /\ current'.src = comp]_vars
  <2> SUFFICES ASSUME TypeOK, SafetyInv, [Next]_vars,
                      current'.frame # current.frame, current'.frame # NoFrame
               PROVE  current'.frame = frame /\ current'.src = comp
    OBVIOUS
  <2>1. current' # current /\ current' # BlankScreen
    BY DEF BlankScreen
  <2>2. pc \in {"commit", "retry"} /\ (ModesetAccepted \/ FlipAccepted)
    BY <2>1, ScreenSteps DEF Flip, FreshManager
  <2>3. current' = Committed
    BY <2>2 DEF ModesetAccepted, FlipAccepted
  <2>. QED
    BY <2>2, <2>3, CommittedIsComp DEF SafetyInv
<1>. QED
  BY <1>1, TypeCorrect, Safe, PTL DEF Spec, CommitShowsComposition

(* Failed Presents never take anything off the screen.                     *)
THEOREM ScreenChangesWithCommits == Spec => OnlyCommitsChangeScreen
<1>1. SafetyInv /\ [Next]_vars
        => [current' # current => pc \in {"commit", "retry"} \/ current' = BlankScreen]_vars
  BY ScreenSteps DEF Flip, FreshManager
<1>. QED
  BY <1>1, Safe, PTL DEF Spec, OnlyCommitsChangeScreen

-----------------------------------------------------------------------------
(* FramePipeline implements DisplayContract.                               *)

(* While a modeset is pending no fence is held back, so that the frame that *)
(* carries it finds none to take over; a flip is always that of a frame.    *)
HeldInv ==
    /\ modeset \/ needsModeset => sync = NoFrame
    /\ needsModeset => pc # "idle"
    /\ pc # "idle" /\ modeset => needsModeset
    /\ flipPending => current.frame \in Frames

LEMMA HeldStep ==
  ASSUME TypeOK, SafetyInv, HeldInv, [Next]_vars
  PROVE  HeldInv'
<1> USE DEF displayVars, surfaceVars, bufferVars, localVars, kernelVars
<1>1. ASSUME NEW b \in Buffers, BeginPresent(b) \/ ImportFails(b) PROVE HeldInv'
  <2>1. UNCHANGED <<current, front, flipPending, sync>>
    BY <1>1, RmFBHarmless DEF BeginPresent, ImportFails, SafetyInv
  <2>. QED
    BY <1>1, <2>1 DEF BeginPresent, ImportFails, ReadModeset, HeldInv
<1>2. CASE ApplyPendingModeset
  BY <1>2 DEF ApplyPendingModeset, HeldInv
<1>3. CASE pc \in {"commit", "retry"} /\ (ModesetAccepted \/ FlipAccepted)
  <2>1. Committed.frame \in Frames
    BY <1>3, CommittedIsComp DEF SafetyInv, FrameFresh
  <2>. QED
    BY <1>3, <2>1 DEF ModesetAccepted, FlipAccepted, HoldFrame, Return, HeldInv
<1>4. CASE CommitFrame \/ RetryCommit
  BY <1>3, <1>4 DEF CommitFrame, RetryCommit, Rejected, CommitFails, AwaitFlip, Return, HeldInv
<1>5. CASE Connect \/ ShutDown
  BY <1>5 DEF Connect, ShutDown, FreshManager, HeldInv
<1>6. CASE DrawFails \/ ApplyFails \/ UpdatePropertiesFails \/ WaitTimesOut
  BY <1>6 DEF DrawFails, ApplyFails, UpdatePropertiesFails, WaitTimesOut, CommitFails, Return, HeldInv
<1>7. CASE ComposeOnPrimary \/ EnsureOffScreenTarget \/ ValidateFinalLayers \/ Draw \/ WaitForFlip
  BY <1>7 DEF ComposeOnPrimary, EnsureOffScreenTarget, ValidateFinalLayers, Draw, WaitForFlip, HeldInv
<1>8. ASSUME NEW used \in SUBSET Planes, NEW rendered \in SUBSET Planes, UsePlanes(used, rendered)
      PROVE  HeldInv'
  BY <1>8 DEF UsePlanes, HeldInv
<1>9. CASE Flip
  BY <1>9 DEF Flip, HeldInv
<1>10. ASSUME NEW mode \in {"ON", "OFF"}, SetDpmsMode(mode) PROVE HeldInv'
  BY <1>10 DEF SetDpmsMode, HeldInv
<1>11. CASE UNCHANGED vars
  BY <1>11 DEF vars, HeldInv
<1>. QED
  BY <1>1, <1>2, <1>4, <1>5, <1>6, <1>7, <1>8, <1>9, <1>10, <1>11 DEF Next, PresentStep

LEMMA HeldInit == Init => HeldInv
  BY DEF Init, HeldInv

LEMMA Held == Spec => []HeldInv
<1>1. Init => HeldInv
  BY HeldInit
<1>2. TypeOK /\ SafetyInv /\ HeldInv /\ [Next]_vars => HeldInv'
  BY HeldStep
<1>. QED
  BY <1>1, <1>2, TypeCorrect, Safe, PTL DEF Spec

(* No picture is ever torn, so that the abstract state is this one.        *)
Whole == Picture(front) = front.frame /\ Picture(current) = current.frame

LEMMA WholePictures ==
  ASSUME TypeOK, SafetyInv
  PROVE  Whole
<1>1. TargetsOffScreen
  BY TargetsNotShown
<1>. QED
  BY <1>1 DEF Whole, Picture, TargetsOffScreen, ScannedOut

(* Each step is one the abstract display may take, or none.                *)
LEMMA StepRefines ==
  ASSUME TypeOK, SafetyInv, HeldInv, Whole, Whole', [Next]_vars
  PROVE  [Contract!Next]_<<Picture(front), IF flipPending THEN Picture(current) ELSE NoFrame, sync>>
<1>1. /\ Picture(front) = front.frame /\ Picture(current) = current.frame
      /\ Picture(front)' = front'.frame /\ Picture(current)' = current'.frame
  BY DEF Whole
<1>2. CASE UNCHANGED <<current, front, flipPending, sync>>
  BY <1>1, <1>2
<1>3. CASE Flip
  <2>1. Contract!Vblank
    BY <1>1, <1>3 DEF Flip, Contract!Vblank, HeldInv
  <2>. QED
    BY <2>1 DEF Contract!Next
<1>4. CASE pc \in {"commit", "retry"} /\ FlipAccepted
  <2>1. /\ current'.frame = frame /\ frame \in Frames /\ frame # front.frame
        /\ ~flipPending /\ flipPending' = TRUE /\ front' = front /\ sync' = frame
    BY <1>4, CommittedIsComp DEF FlipAccepted, HoldFrame, SafetyInv, FrameFresh
  <2>2. Contract!Queue(frame)
    BY <1>1, <2>1 DEF Contract!Queue
  <2>. QED
    BY <2>1, <2>2 DEF Contract!Next
<1>5. CASE pc \in {"commit", "retry"} /\ ModesetAccepted
  <2>1. /\ front'.frame = frame /\ frame \in Frames /\ sync = NoFrame
        /\ ~flipPending /\ flipPending' = flipPending /\ sync' = sync
    BY <1>5, CommittedIsComp DEF ModesetAccepted, SafetyInv, FrameFresh, HeldInv
  <2>2. Contract!Set(frame)
    BY <1>1, <2>1 DEF Contract!Set
  <2>. QED
    BY <2>1, <2>2 DEF Contract!Next
<1>6. CASE FreshManager /\ ~flipPending /\ UNCHANGED flipPending
  <2>1. Contract!Restart
    BY <1>1, <1>6 DEF FreshManager, BlankScreen, Contract!Restart
  <2>. QED
    BY <2>1 DEF Contract!Next
<1>. QED
  BY <1>2, <1>3, <1>4, <1>5, <1>6, ScreenSteps

(* A Present that succeeds shows its own frame, whole and in turn; one that *)
(* fails changes nothing on the screen: FramePipeline is a DisplayContract. *)
THEOREM RefinesContract == Spec => ImplementsContract
<1>1. Init => Contract!Init
  <2> SUFFICES ASSUME Init PROVE Contract!Init
    OBVIOUS
  <2>1. SurfacesOf(front) = {} /\ SurfacesOf(current) = {}
    BY BlankHasNoSurface DEF Init
  <2>. QED
    BY <2>1 DEF Init, Contract!Init, Picture, BlankScreen
<1>2. TypeOK /\ SafetyInv => Whole
  BY WholePictures
<1>3. TypeOK /\ SafetyInv /\ HeldInv /\ Whole /\ Whole' /\ [Next]_vars
        => [Contract!Next]_<<Picture(front), IF flipPending THEN Picture(current) ELSE NoFrame, sync>>
  BY StepRefines
<1>. QED
  BY <1>1, <1>2, <1>3, TypeCorrect, Safe, Held, PTL DEF Spec, ImplementsContract, Contract!Spec

-----------------------------------------------------------------------------
(* Four more facts, on the ground of these invariants: in_flight_ keeps    *)
(* the targets of one composition apart, out_fence_ is the fence of the    *)
(* pending flip, a pending modeset is lost in one way only, and the pool   *)
(* of surfaces stops growing.                                              *)

(* While targets are still handed out the ones already handed out have     *)
(* in_flight_ set.                                                         *)
TargetsTaken ==
    pc \in {"validate", "primary", "final"} =>
        \A p \in Planes : comp[p] \in Surfaces => comp[p] <= pool /\ inFlight[comp[p]]

LEMMA PickedIsNotTaken ==
  ASSUME TypeOK, TargetsTaken, pc \in {"primary", "final"}, NEW s \in Surfaces, Picks(s),
         NEW p \in Planes
  PROVE  comp[p] # s
<1>1. s > pool \/ ~inFlight[s]
  BY DEF TypeOK, Picks, InUse, Surfaces
<1>2. s \in Nat /\ pool \in Nat
  BY DEF TypeOK, Surfaces
<1>3. comp[p] \in Surfaces => comp[p] <= pool /\ inFlight[comp[p]]
  BY DEF TargetsTaken
<1>. QED
  BY <1>1, <1>2, <1>3

(* A Present that returns has no targets.                                  *)
LEMMA ReturnApart ==
  ASSUME Return
  PROVE  TargetsDistinct' /\ TargetsTaken'
BY NoSurface DEF Return, TargetsDistinct, TargetsTaken, AllOff

LEMMA ApartStep ==
  ASSUME TypeOK, SafetyInv, TargetsDistinct, TargetsTaken, [Next]_vars
  PROVE  TargetsDistinct' /\ TargetsTaken'
<1> USE DEF displayVars, surfaceVars, bufferVars, localVars, kernelVars
<1>1. ASSUME NEW b \in Buffers, BeginPresent(b) \/ ImportFails(b)
      PROVE  TargetsDistinct' /\ TargetsTaken'
  <2>1. CASE BeginPresent(b)
    BY <2>1, NoSurface DEF BeginPresent, TargetsDistinct, TargetsTaken, AllOff
  <2>2. CASE ImportFails(b)
    BY <2>2 DEF ImportFails, TargetsDistinct, TargetsTaken
  <2>. QED
    BY <1>1, <2>1, <2>2
<1>2. CASE ComposeOnPrimary
  <2>1. \A p \in Planes : comp'[p] \notin Surfaces
    BY <1>2, NoSurface DEF ComposeOnPrimary, AllOff
  <2>. QED
    BY <2>1 DEF TargetsDistinct, TargetsTaken
<1>3. ASSUME NEW used \in SUBSET Planes, NEW rendered \in SUBSET Planes, UsePlanes(used, rendered)
      PROVE  TargetsDistinct' /\ TargetsTaken'
  <2>1. \A p \in Planes : comp'[p] \notin Surfaces
    BY <1>3, NoSurface DEF UsePlanes
  <2>. QED
    BY <2>1 DEF TargetsDistinct, TargetsTaken
<1>4. CASE EnsureOffScreenTarget
  <2>1. PICK p \in Planes, s \in Surfaces :
            /\ Picks(s)
            /\ pool' = IF s > pool THEN s ELSE pool
            /\ comp' = [comp EXCEPT ![p] = s]
            /\ inFlight' = [inFlight EXCEPT ![s] = TRUE]
    BY <1>4 DEF EnsureOffScreenTarget, SetPlaneTarget
  <2>2. pc \in {"primary", "final"}
    BY <1>4 DEF EnsureOffScreenTarget
  <2>3. \A q \in Planes : comp[q] # s
    BY <2>1, <2>2, PickedIsNotTaken
  <2>4. comp'[p] = s /\ \A q \in Planes \ {p} : comp'[q] = comp[q]
    BY <2>1 DEF TypeOK
  <2>5. TargetsDistinct'
    BY <2>3, <2>4 DEF TargetsDistinct
  <2>6. s <= pool' /\ pool <= pool' /\ inFlight'[s] /\ \A t \in Surfaces : inFlight[t] => inFlight'[t]
    BY <2>1 DEF TypeOK, Surfaces
  <2>7. TargetsTaken'
    <3> SUFFICES ASSUME NEW q \in Planes, comp'[q] \in Surfaces
                 PROVE  comp'[q] <= pool' /\ inFlight'[comp'[q]]
      BY DEF TargetsTaken
    <3>1. CASE q = p
      BY <2>4, <2>6, <3>1
    <3>2. CASE q # p
      <4>1. comp'[q] = comp[q] /\ comp[q] <= pool /\ inFlight[comp[q]]
        BY <2>2, <2>4, <3>2 DEF TargetsTaken
      <4>. QED
        BY <2>1, <2>6, <4>1 DEF TypeOK, Surfaces
    <3>. QED
      BY <3>1, <3>2
  <2>. QED
    BY <2>5, <2>7
<1>5. CASE ValidateFinalLayers
  <2>1. \/ comp' = comp /\ pc' = "draw"
        \/ \A p \in Planes : comp'[p] \notin Surfaces
    BY <1>5, NoSurface DEF ValidateFinalLayers, AllOff
  <2>. QED
    BY <2>1 DEF TargetsDistinct, TargetsTaken
<1>6. CASE Draw \/ ApplyPendingModeset \/ WaitForFlip
  BY <1>6 DEF Draw, ApplyPendingModeset, WaitForFlip, TargetsDistinct, TargetsTaken
<1>7. CASE DrawFails \/ ApplyFails \/ UpdatePropertiesFails \/ WaitTimesOut
  BY <1>7, ReturnApart DEF DrawFails, ApplyFails, UpdatePropertiesFails, WaitTimesOut, CommitFails
<1>8. CASE CommitFrame \/ RetryCommit
  <2>1. Return \/ AwaitFlip
    BY <1>8 DEF CommitFrame, RetryCommit, ModesetAccepted, FlipAccepted, Rejected, CommitFails
  <2>2. CASE AwaitFlip
    BY <2>2 DEF AwaitFlip, TargetsDistinct, TargetsTaken
  <2>. QED
    BY <2>1, <2>2, ReturnApart
<1>9. CASE Flip
  BY <1>9 DEF Flip, TargetsDistinct, TargetsTaken
<1>10. ASSUME Connect \/ ShutDown \/ \E mode \in {"ON", "OFF"} : SetDpmsMode(mode)
       PROVE  TargetsDistinct' /\ TargetsTaken'
  BY <1>10 DEF Connect, ShutDown, SetDpmsMode, TargetsDistinct, TargetsTaken
<1>11. CASE UNCHANGED vars
  BY <1>11 DEF vars, TargetsDistinct, TargetsTaken
<1>. QED
  BY <1>1, <1>2, <1>3, <1>4, <1>5, <1>6, <1>7, <1>8, <1>9, <1>10, <1>11 DEF Next, PresentStep

(* EnsureOffScreenTarget never gives one NativeSurface to two planes of a  *)
(* composition, whatever failed before: in_flight_ holds back what         *)
(* ref_count_ does not count yet.                                          *)
THEOREM TargetsStayApart == Spec => []TargetsDistinct
<1>1. Init => TargetsDistinct /\ TargetsTaken
  BY NoSurface DEF Init, TargetsDistinct, TargetsTaken, AllOff
<1>2. TypeOK /\ SafetyInv /\ TargetsDistinct /\ TargetsTaken /\ [Next]_vars
        => TargetsDistinct' /\ TargetsTaken'
  BY ApartStep
<1>. QED
  BY <1>1, <1>2, TypeCorrect, Safe, PTL DEF Spec

-----------------------------------------------------------------------------
(* Nothing fails: displays may still come, go and move to another          *)
(* connector.                                                              *)
NothingFails == Events \subseteq {"shutdown", "reconnect"}

(* Without failures every surface with a target has its framebuffer, the   *)
(* CRTC scans out once its modeset was taken, and the pending flip is the  *)
(* one that out_fence_ belongs to.                                         *)
SteadyInv ==
    /\ \A s \in Surfaces : format[s] # "none" => fbOk[s]
    /\ \A p \in Planes : comp[p] \in Surfaces => format[comp[p]] # "none"
    /\ ~poweredOff => modeset \/ needsModeset \/ crtc = "active"
    /\ pc # "idle" => ~poweredOff
    /\ pc = "idle" => ~needsModeset
    /\ pc # "idle" /\ modeset => needsModeset
    /\ flipPending => current.frame \in Frames
    /\ pc \in {"wait", "retry"} => ~needsModeset
    /\ BusyHasFence

LEMMA SteadyInit == Init => SteadyInv
  BY NoSurface DEF Init, SteadyInv, BusyHasFence, AllOff

LEMMA SteadyAcceptable ==
  ASSUME SteadyInv, pc \in {"commit", "retry"}
  PROVE  Acceptable
BY DEF SteadyInv, Acceptable, Broken

LEMMA SteadyStep ==
  ASSUME NothingFails, HasOutFence, TypeOK, SafetyInv, SteadyInv, [Next]_vars
  PROVE  SteadyInv'
<1> USE DEF NothingFails, displayVars, surfaceVars, bufferVars, localVars, kernelVars
<1>1. ASSUME NEW b \in Buffers, BeginPresent(b)
      PROVE  SteadyInv'
  <2>1. UNCHANGED <<current, front, flipPending>>
    BY <1>1, RmFBHarmless DEF BeginPresent, SafetyInv
  <2>. QED
    BY <1>1, <2>1, NoSurface DEF BeginPresent, ReadModeset, SteadyInv, BusyHasFence, AllOff, TypeOK
<1>2. CASE ComposeOnPrimary
  <2>1. \A p \in Planes : comp'[p] \notin Surfaces
    BY <1>2, NoSurface DEF ComposeOnPrimary, AllOff
  <2>. QED
    BY <1>2, <2>1 DEF ComposeOnPrimary, SteadyInv, BusyHasFence
<1>3. ASSUME NEW used \in SUBSET Planes, NEW rendered \in SUBSET Planes, UsePlanes(used, rendered)
      PROVE  SteadyInv'
  <2>1. \A p \in Planes : comp'[p] \notin Surfaces
    BY <1>3, NoSurface DEF UsePlanes
  <2>. QED
    BY <1>3, <2>1 DEF UsePlanes, SteadyInv, BusyHasFence
<1>4. CASE EnsureOffScreenTarget
  <2>1. PICK p \in Planes, s \in Surfaces : SetPlaneTarget(p, s)
    BY <1>4 DEF EnsureOffScreenTarget
  <2>2. /\ format' = [format EXCEPT ![s] = FormatFor(p, s)]
        /\ fbOk' = [fbOk EXCEPT ![s] = IF format[s] = FormatFor(p, s) THEN @ ELSE TRUE]
        /\ comp' = [comp EXCEPT ![p] = s]
    BY <2>1 DEF SetPlaneTarget
  <2>3. FormatFor(p, s) # "none"
    BY DEF FormatFor
  <2>4. \A t \in Surfaces : format'[t] # "none" => fbOk'[t]
    BY <2>2, <2>3 DEF SteadyInv, TypeOK
  <2>5. \A q \in Planes : comp'[q] \in Surfaces => format'[comp'[q]] # "none"
    BY <2>2, <2>3 DEF SteadyInv, TypeOK
  <2>6. pc \in {"primary", "final"} /\ pc' \in {"primary", "final", "draw", "test"}
    BY <1>4 DEF EnsureOffScreenTarget
  <2>. QED
    BY <1>4, <2>4, <2>5, <2>6 DEF EnsureOffScreenTarget, SteadyInv, BusyHasFence
<1>5. CASE ValidateFinalLayers
  <2>1. pc' \in {"draw", "primary"} /\ pc = "test"
    BY <1>5 DEF ValidateFinalLayers
  <2>2. comp' = comp \/ \A p \in Planes : comp'[p] \notin Surfaces
    BY <1>5, NoSurface DEF ValidateFinalLayers, AllOff
  <2>. QED
    BY <1>5, <2>1, <2>2 DEF ValidateFinalLayers, SteadyInv, BusyHasFence
<1>6. CASE Draw \/ ApplyPendingModeset
  <2>1. CASE Draw
    BY <2>1 DEF Draw, SteadyInv, BusyHasFence
  <2>2. CASE ApplyPendingModeset
    <3>1. modeset' => modeset /\ ~needsModeset
      BY <2>2 DEF ApplyPendingModeset
    <3>2. modeset /\ pc = "apply" => needsModeset
      BY DEF SteadyInv
    <3>3. /\ pc = "apply" /\ pc' = "commit"
          /\ UNCHANGED <<poweredOff, outFence, format, fbOk, comp, needsModeset, crtc,
                        current, flipPending>>
      BY <2>2 DEF ApplyPendingModeset
    <3>4. ~poweredOff' => modeset' \/ needsModeset' \/ crtc' = "active"
      BY <3>2, <3>3 DEF SteadyInv
    <3>5. ~modeset'
      BY <3>1, <3>2, <3>3
    <3>. QED
      BY <3>3, <3>4, <3>5 DEF SteadyInv, BusyHasFence
  <2>. QED
    BY <1>6, <2>1, <2>2
<1>7. CASE WaitForFlip
  BY <1>7 DEF WaitForFlip, FlipDone, Signalled, SteadyInv, BusyHasFence
<1>8. CASE DrawFails \/ ApplyFails \/ UpdatePropertiesFails \/ WaitTimesOut
  BY <1>8 DEF DrawFails, ApplyFails, UpdatePropertiesFails, WaitTimesOut
<1>9. CASE CommitFrame \/ RetryCommit
  <2>1. pc \in {"commit", "retry"} /\ Acceptable /\ ~Rejected
    BY <1>9, SteadyAcceptable DEF CommitFrame, RetryCommit, Rejected
  <2>2. CASE AwaitFlip
    <3>1. outFence # NoFrame /\ ~needsModeset
      <4>1. Busy /\ pc = "commit"
        BY <1>9, <2>2 DEF CommitFrame, RetryCommit, AwaitFlip, ModesetAccepted, FlipAccepted,
                          Rejected, CommitFails, Return
      <4>. QED
        BY <4>1, FramesAssumption DEF Busy, SteadyInv, BusyHasFence
    <3>. QED
      BY <2>1, <2>2, <3>1 DEF AwaitFlip, SteadyInv, BusyHasFence
  <2>3. CASE ModesetAccepted
    <3>1. \A p \in Planes : comp'[p] \notin Surfaces
      BY <2>3, NoSurface DEF ModesetAccepted, Return, AllOff
    <3>. QED
      BY <2>3, <3>1 DEF ModesetAccepted, Return, EndFrameUpdate, SteadyInv, BusyHasFence
  <2>4. CASE FlipAccepted
    <3>1. \A p \in Planes : comp'[p] \notin Surfaces
      BY <2>4, NoSurface DEF FlipAccepted, Return, AllOff
    <3>2. current'.frame = frame /\ frame \in Frames /\ outFence' = frame
      BY <2>1, <2>4, CommittedIsComp
         DEF FlipAccepted, KeepOutFence, SafetyInv, FrameFresh
    <3>3. crtc = "active" /\ ~needsModeset
      BY <2>4 DEF FlipAccepted, Acceptable
    <3>. QED
      BY <2>4, <3>1, <3>2, <3>3 DEF FlipAccepted, Return, EndFrameUpdate, SteadyInv, BusyHasFence
  <2>. QED
    BY <1>9, <2>1, <2>2, <2>3, <2>4
       DEF CommitFrame, RetryCommit, Busy, SteadyInv, BusyHasFence
<1>10. CASE Flip
  BY <1>10 DEF Flip, SteadyInv, BusyHasFence
<1>11. CASE Connect \/ ShutDown
  <2>1. FreshManager /\ pc = "idle" /\ ~flipPending /\ UNCHANGED <<pc, localVars, flipPending>>
    BY <1>11 DEF Connect, ShutDown
  <2>2. \A p \in Planes : comp'[p] \notin Surfaces
    BY <2>1, NoSurface DEF SafetyInv, PlanesMarked, AllOff
  <2>3. ~poweredOff' => modeset'
    BY <1>11 DEF Connect, ShutDown
  <2>. QED
    BY <2>1, <2>2, <2>3 DEF FreshManager, SteadyInv, BusyHasFence
<1>12. ASSUME \/ \E mode \in {"ON", "OFF"} : SetDpmsMode(mode)
              \/ \E b \in Buffers : ImportFails(b)
       PROVE  SteadyInv'
  BY <1>12 DEF SetDpmsMode, ImportFails
<1>13. CASE UNCHANGED vars
  BY <1>13 DEF vars, SteadyInv, BusyHasFence
<1>. QED
  BY <1>1, <1>2, <1>3, <1>4, <1>5, <1>6, <1>7, <1>8, <1>9, <1>10, <1>11, <1>12, <1>13
     DEF Next, PresentStep

(* With an OUT_FENCE_PTR and nothing failing, a CommitFrame that the       *)
(* kernel turns down as busy has the right fence to wait for, and its      *)
(* second attempt is never busy, however displays come and go meanwhile.   *)
THEOREM BusyIsWaitedFor ==
  ASSUME NothingFails, HasOutFence
  PROVE  Spec => []BusyHasFence
<1>1. Init => SteadyInv
  BY SteadyInit
<1>2. TypeOK /\ SafetyInv /\ SteadyInv /\ [Next]_vars => SteadyInv'
  BY SteadyStep
<1>3. SteadyInv => BusyHasFence
  BY DEF SteadyInv
<1>. QED
  BY <1>1, <1>2, <1>3, TypeCorrect, Safe, PTL DEF Spec

-----------------------------------------------------------------------------
(* Present's copy of kModeset stands for a modeset that is still pending,  *)
(* up to the commit.                                                       *)
CopyInv ==
    /\ pc = "idle" => ~needsModeset
    /\ pc \notin {"idle", "commit"} /\ needsModeset => modeset
    /\ pc \in {"wait", "retry"} => ~needsModeset

(* What a step may do to the modeset.                                      *)
ModesetKept == ModesetAtHand /\ ~ModesetAtHand' => needsModeset /\ pc = "commit"

LEMMA CopyStep ==
  ASSUME TypeOK, CopyInv, [Next]_vars
  PROVE  CopyInv' /\ ModesetKept
<1> USE DEF displayVars, surfaceVars, bufferVars, localVars, kernelVars, CopyInv,
            ModesetKept, ModesetAtHand
<1>1. ASSUME NEW b \in Buffers, BeginPresent(b)
      PROVE  CopyInv' /\ ModesetKept
  BY <1>1 DEF BeginPresent, ReadModeset
<1>2. ASSUME NEW b \in Buffers, ImportFails(b)
      PROVE  CopyInv' /\ ModesetKept
  BY <1>2 DEF ImportFails
<1>3. CASE \/ ComposeOnPrimary \/ Draw \/ EnsureOffScreenTarget \/ ValidateFinalLayers
           \/ \E used, rendered \in SUBSET Planes : UsePlanes(used, rendered)
  <2>1. /\ UNCHANGED <<poweredOff, modeset, dpms, needsModeset, crtc>>
        /\ pc \in {"validate", "primary", "final", "test", "draw"}
        /\ pc' \in {"primary", "draw", "final", "test", "apply"}
    BY <1>3 DEF ComposeOnPrimary, UsePlanes, EnsureOffScreenTarget, ValidateFinalLayers, Draw
  <2>. QED
    BY <2>1
<1>4. CASE DrawFails \/ ApplyFails \/ UpdatePropertiesFails \/ WaitTimesOut
  <2>1. /\ UNCHANGED <<poweredOff, modeset, dpms, crtc>> /\ pc # "idle"
        /\ pc' = "idle" /\ ~needsModeset'
    BY <1>4 DEF DrawFails, ApplyFails, UpdatePropertiesFails, WaitTimesOut, CommitFails, Return
  <2>. QED
    BY <2>1
<1>5. CASE ApplyPendingModeset
  BY <1>5 DEF ApplyPendingModeset
<1>6. CASE CommitFrame \/ RetryCommit
  <2>1. UNCHANGED <<poweredOff, modeset, dpms>> /\ pc \in {"commit", "retry"}
    BY <1>6 DEF CommitFrame, RetryCommit, ModesetAccepted, FlipAccepted, Rejected, CommitFails,
                AwaitFlip
  <2>2. \/ crtc' \in {crtc, "active"} /\ pc' = "idle" /\ ~needsModeset'
        \/ crtc' = crtc /\ pc' \in {"wait", "retry"} /\ needsModeset' = needsModeset /\ ~needsModeset
    BY <1>6 DEF CommitFrame, RetryCommit, ModesetAccepted, FlipAccepted, Rejected, CommitFails,
                AwaitFlip, Return, Busy
  <2>. QED
    BY <2>1, <2>2
<1>7. CASE WaitForFlip \/ Flip
  BY <1>7 DEF WaitForFlip, Flip
<1>8. CASE Connect \/ ShutDown
  BY <1>8 DEF Connect, ShutDown
<1>9. ASSUME NEW mode \in {"ON", "OFF"}, SetDpmsMode(mode)
      PROVE  CopyInv' /\ ModesetKept
  BY <1>9 DEF SetDpmsMode, TypeOK
<1>10. CASE UNCHANGED vars
  BY <1>10 DEF vars
<1>. QED
  BY <1>1, <1>2, <1>3, <1>4, <1>5, <1>6, <1>7, <1>8, <1>9, <1>10 DEF Next, PresentStep

(* Of all that can happen to a display that is on, failing Presents,       *)
(* ShutDown, Connect and DPMS included, only a failing commit that has     *)
(* taken kModeset leaves its CRTC without a modeset to come.               *)
THEOREM ModesetsAreKept == Spec => ModesetNotForgotten
<1>1. Init => CopyInv
  BY DEF Init, CopyInv
<1>2. TypeOK /\ CopyInv /\ [Next]_vars => CopyInv'
  BY CopyStep
<1>3. TypeOK /\ CopyInv /\ [Next]_vars
        => [ModesetAtHand /\ ~ModesetAtHand' => needsModeset /\ pc = "commit"]_vars
  BY CopyStep DEF ModesetKept
<1>. QED
  BY <1>1, <1>2, <1>3, TypeCorrect, PTL DEF Spec, ModesetNotForgotten

-----------------------------------------------------------------------------
(* The planes that can show a surface.                                     *)
Room == Cardinality(Planes \ {Cursor})

(* The surfaces with a reference count of n, and the planes that are yet   *)
(* to be given one.                                                        *)
Counted(n) == {s \in Surfaces : ref[s] = n}
Awaiting == {p \in Planes : comp[p] = Untargeted}

(* A surface is kept from EnsureOffScreenTarget by the last commit, by the *)
(* one before it or by the composition under way, and each of them has one *)
(* surface at most for each plane.                                         *)
PoolInv ==
    /\ pc \in {"idle", "validate"} => \A s \in Surfaces : ~inFlight[s]
    /\ \A s \in Surfaces : inFlight[s] => s \in flightSurfaces
    /\ pc = "validate" => flightSurfaces = {}
    /\ Awaiting \subseteq Planes \ {Cursor}
    /\ Cardinality(flightSurfaces) + Cardinality(Awaiting) <= Room
    /\ Cardinality(Counted(3)) <= Room /\ Cardinality(Counted(2)) <= Room
    /\ PoolBounded

LEMMA PoolSizes ==
  /\ Room \in Nat /\ Room >= 1
  /\ \A S \in SUBSET Surfaces : IsFiniteSet(S) /\ Cardinality(S) \in Nat
  /\ \A P \in SUBSET (Planes \ {Cursor}) :
       IsFiniteSet(P) /\ Cardinality(P) \in Nat /\ Cardinality(P) <= Room
  /\ Cardinality({}) = 0
<1>1. IsFiniteSet(Surfaces)
  <2>1. 1 \in Int /\ MaxSurfaces \in Int
    BY MaxSurfacesAssumption
  <2> QED
    BY ONLY <2>1, FS_Interval DEF Surfaces
<1>2. IsFiniteSet(Planes \ {Cursor})
  <2>1. IsFiniteSet(Planes) /\ Planes \ {Cursor} \in SUBSET Planes
    BY PlanesAssumption
  <2> QED
    BY ONLY <2>1, FS_Subset
<1>3. \A S \in SUBSET Surfaces : IsFiniteSet(S) /\ Cardinality(S) \in Nat
  BY <1>1, FS_Subset, FS_CardinalityType
<1>4. Room \in Nat
  BY <1>2, FS_CardinalityType DEF Room
<1>5. \A P \in SUBSET (Planes \ {Cursor}) :
         IsFiniteSet(P) /\ Cardinality(P) \in Nat /\ Cardinality(P) <= Room
  BY <1>2, FS_Subset, FS_CardinalityType DEF Room
<1>6. {Primary} \in SUBSET (Planes \ {Cursor}) /\ Cardinality({Primary}) = 1
  <2>1. Primary \in Planes /\ Primary # Cursor
    BY PlanesAssumption, CursorAssumption
  <2>2. Cardinality({Primary}) = 1
    BY ONLY FS_Singleton
  <2> QED
    BY <2>1, <2>2
<1>7. Room >= 1
  BY <1>4, <1>5, <1>6
<1> QED
  BY <1>3, <1>4, <1>5, <1>7, FS_EmptySet

(* When every surface of the pool is in use, the two last commits and the  *)
(* targets handed out account for all of them.                             *)
LEMMA InUseIsHeld ==
  ASSUME TypeOK, PoolInv, \A t \in 1..pool : InUse(t)
  PROVE  pool <= Cardinality(Counted(3)) + Cardinality(Counted(2)) + Cardinality(flightSurfaces)
<1>1. 1..pool \subseteq Counted(3) \cup Counted(2) \cup flightSurfaces
  <2> SUFFICES ASSUME NEW t \in 1..pool, t \notin flightSurfaces
               PROVE  t \in Counted(3) \cup Counted(2)
    OBVIOUS
  <2>1. t \in Surfaces /\ ref[t] \in 0..3
    BY MaxSurfacesAssumption DEF TypeOK, Surfaces
  <2>2. ref[t] > 1
    BY <2>1 DEF PoolInv, InUse
  <2>3. ref[t] = 3 \/ ref[t] = 2
    BY <2>1, <2>2
  <2> QED
    BY <2>1, <2>3 DEF Counted
<1>2. Counted(3) \in SUBSET Surfaces /\ Counted(2) \in SUBSET Surfaces
  BY DEF Counted
<1> DEFINE A == Counted(3) \cup Counted(2)
           B == A \cup flightSurfaces
<1>3. /\ IsFiniteSet(Counted(3)) /\ IsFiniteSet(Counted(2)) /\ IsFiniteSet(flightSurfaces)
      /\ IsFiniteSet(A) /\ IsFiniteSet(B)
      /\ Cardinality(Counted(3)) \in Nat /\ Cardinality(Counted(2)) \in Nat
      /\ Cardinality(flightSurfaces) \in Nat /\ Cardinality(A) \in Nat /\ Cardinality(B) \in Nat
      /\ Cardinality(Counted(3) \cap Counted(2)) \in Nat
      /\ Cardinality(A \cap flightSurfaces) \in Nat
  <2>1. /\ A \in SUBSET Surfaces /\ B \in SUBSET Surfaces
        /\ Counted(3) \cap Counted(2) \in SUBSET Surfaces
        /\ A \cap flightSurfaces \in SUBSET Surfaces
        /\ flightSurfaces \in SUBSET Surfaces
    BY <1>2 DEF TypeOK
  <2> QED
    BY <1>2, <2>1, PoolSizes
<1>4. Cardinality(A) = Cardinality(Counted(3)) + Cardinality(Counted(2))
                         - Cardinality(Counted(3) \cap Counted(2))
  BY <1>3, FS_Union
<1>5. Cardinality(B) = Cardinality(A) + Cardinality(flightSurfaces)
                         - Cardinality(A \cap flightSurfaces)
  BY <1>3, FS_Union
<1>6. Cardinality(1..pool) = pool /\ pool \in Nat
  BY FS_Interval DEF TypeOK
<1>7. pool <= Cardinality(B)
  <2>1. 1..pool \in SUBSET B
    BY <1>1
  <2> QED
    BY <1>3, <1>6, <2>1, FS_Subset
<1> HIDE DEF A, B
<1> QED
  BY <1>3, <1>4, <1>5, <1>6, <1>7, SMTT(30)

(* A step that leaves the counts, the targets and the pool alone.          *)
LEMMA PoolStays ==
  ASSUME TypeOK, PoolInv, UNCHANGED <<ref, inFlight, pool>>,
         comp' = AllOff \/ comp' = comp,
         flightSurfaces' = flightSurfaces \/ (pc = "idle" /\ flightSurfaces' = {}),
         pc' \in {"idle", "validate"} => pc \in {"idle", "validate"},
         pc' = "validate" => flightSurfaces' = {}
  PROVE  PoolInv'
<1>1. Counted(3)' = Counted(3) /\ Counted(2)' = Counted(2)
  BY DEF Counted
<1>2. Awaiting' = {} \/ Awaiting' = Awaiting
  <2>1. CASE comp' = AllOff
    <3>1. \A p \in Planes : comp'[p] # Untargeted
      BY <2>1 DEF AllOff, Off, Untargeted
    <3>. QED
      BY <3>1 DEF Awaiting
  <2>2. CASE comp' = comp
    BY <2>2 DEF Awaiting
  <2>. QED
    BY <2>1, <2>2
<1>3. /\ Room \in Nat /\ Cardinality({}) = 0
      /\ Cardinality(flightSurfaces) \in Nat /\ Cardinality(Awaiting) \in Nat
      /\ Cardinality(Awaiting) <= Room
  BY PoolSizes DEF PoolInv, TypeOK
<1>4. Cardinality(flightSurfaces') = Cardinality(flightSurfaces) \/ Cardinality(flightSurfaces') = 0
  BY <1>3
<1>5. Cardinality(Awaiting') = Cardinality(Awaiting) \/ Cardinality(Awaiting') = 0
  BY <1>2, <1>3
<1>6. Cardinality(flightSurfaces') + Cardinality(Awaiting') <= Room
  BY <1>3, <1>4, <1>5 DEF PoolInv
<1>7. Room' = Room
  BY DEF Room
<1>8. /\ Cardinality(Counted(3)') = Cardinality(Counted(3))
      /\ Cardinality(Counted(2)') = Cardinality(Counted(2))
  BY <1>1
<1>9. Awaiting' \subseteq Planes \ {Cursor}
  BY <1>2 DEF PoolInv
<1>10. PoolBounded'
  BY DEF PoolInv, PoolBounded
<1>11. \A s \in Surfaces : inFlight'[s] => s \in flightSurfaces'
  BY DEF PoolInv
<1>12. pc' \in {"idle", "validate"} => \A s \in Surfaces : ~inFlight'[s]
  BY DEF PoolInv
<1> QED
  BY <1>6, <1>7, <1>8, <1>9, <1>10, <1>11, <1>12 DEF PoolInv

(* EndFrameUpdate moves the surfaces of the last commit down by one.       *)
LEMMA PoolCounted ==
  ASSUME TypeOK, PoolInv, EndFrameUpdate, Return
  PROVE  PoolInv'
<1>1. Counted(3)' = flightSurfaces /\ Counted(2)' \in SUBSET Counted(3)
  BY DEF TypeOK, EndFrameUpdate, SetInUse, Counted
<1>2. Awaiting' = {}
  BY DEF Return, Awaiting, AllOff, Off, Untargeted
<1>3. /\ Room \in Nat /\ Cardinality({}) = 0
      /\ Cardinality(flightSurfaces) \in Nat /\ Cardinality(Awaiting) \in Nat
  BY PoolSizes DEF PoolInv, TypeOK
<1>4. Cardinality(flightSurfaces) <= Room
  BY <1>3 DEF PoolInv
<1>5. Cardinality(Counted(2)') <= Cardinality(Counted(3)) /\ Cardinality(Counted(2)') \in Nat
      /\ Cardinality(Counted(3)) \in Nat
  <2>1. Counted(3) \in SUBSET Surfaces
    BY DEF Counted
  <2>2. Counted(2)' \in SUBSET Surfaces
    BY <1>1, <2>1
  <2>3. IsFiniteSet(Counted(3))
    BY <2>1, PoolSizes
  <2>4. Cardinality(Counted(3)) \in Nat /\ Cardinality(Counted(2)') \in Nat
    BY <2>1, <2>2, PoolSizes
  <2>5. Cardinality(Counted(2)') <= Cardinality(Counted(3))
    BY <1>1, <2>3, FS_Subset
  <2> QED
    BY <2>4, <2>5
<1>6. Cardinality(Counted(3)') = Cardinality(flightSurfaces)
  BY <1>1
<1>7. Cardinality(Awaiting') = 0
  BY <1>2, <1>3
<1>8. /\ pc' = "idle" /\ flightSurfaces' = flightSurfaces /\ pool' = pool
      /\ \A s \in Surfaces : ~inFlight'[s]
  BY DEF EndFrameUpdate, Return
<1>9. Room' = Room /\ PoolBounded'
  BY <1>8 DEF Room, PoolInv, PoolBounded
<1>10. Cardinality(Counted(3)') <= Room /\ Cardinality(Counted(2)') <= Room
  BY <1>3, <1>4, <1>5, <1>6 DEF PoolInv
<1>11. Cardinality(flightSurfaces') + Cardinality(Awaiting') <= Room
  BY <1>3, <1>4, <1>7, <1>8
<1> QED
  BY <1>2, <1>8, <1>9, <1>10, <1>11 DEF PoolInv

(* A surface is handed out, a new one when the whole pool is in use.       *)
LEMMA PoolHandedOut ==
  ASSUME TypeOK, PoolInv, EnsureOffScreenTarget
  PROVE  PoolInv'
<1>1. PICK p \in Planes, s \in Surfaces :
         /\ comp[p] = Untargeted /\ Picks(s)
         /\ pool' = IF s > pool THEN s ELSE pool
         /\ SetPlaneTarget(p, s)
         /\ flightSurfaces' = flightSurfaces \cup {s}
  BY DEF EnsureOffScreenTarget
<1>2. /\ ref' = ref /\ pc \in {"primary", "final"} /\ pc' \in {"primary", "final", "draw", "test"}
      /\ comp' = [comp EXCEPT ![p] = s] /\ inFlight' = [inFlight EXCEPT ![s] = TRUE]
  BY <1>1 DEF EnsureOffScreenTarget, SetPlaneTarget
<1>3. Awaiting' = Awaiting \ {p} /\ p \in Awaiting
  BY <1>1, <1>2, NoSurface DEF Awaiting, TypeOK
<1>4. /\ Room \in Nat /\ IsFiniteSet(Awaiting) /\ Cardinality(Awaiting) \in Nat
      /\ IsFiniteSet(flightSurfaces) /\ Cardinality(flightSurfaces) \in Nat
      /\ Cardinality(flightSurfaces') \in Nat
  <2>1. flightSurfaces \in SUBSET Surfaces /\ flightSurfaces' \in SUBSET Surfaces
    BY <1>1 DEF TypeOK
  <2> QED
    BY <2>1, PoolSizes DEF PoolInv
<1>5. Cardinality(Awaiting') = Cardinality(Awaiting) - 1
  BY <1>3, <1>4, FS_RemoveElement
<1>6. Cardinality(flightSurfaces') <= Cardinality(flightSurfaces) + 1
  <2>1. Cardinality(flightSurfaces \cup {s}) =
           IF s \in flightSurfaces THEN Cardinality(flightSurfaces)
           ELSE Cardinality(flightSurfaces) + 1
    BY <1>4, FS_AddElement
  <2> QED
    BY <1>1, <1>4, <2>1
<1>7. Cardinality(Awaiting) >= 1
  BY <1>3, <1>4, FS_EmptySet
<1>8. Cardinality(flightSurfaces') + Cardinality(Awaiting') <= Room
  BY <1>4, <1>5, <1>6 DEF PoolInv
<1>9. Counted(3)' = Counted(3) /\ Counted(2)' = Counted(2)
  BY <1>2 DEF Counted
<1>10. /\ Cardinality(Counted(3)') = Cardinality(Counted(3))
       /\ Cardinality(Counted(2)') = Cardinality(Counted(2))
  BY <1>9
<1>11. pool' <= 3 * Room
  <2>1. CASE \E t \in 1..pool : ~InUse(t)
    <3>1. pool' = pool
      BY <1>1, <2>1 DEF Picks, TypeOK, Surfaces
    <3> QED
      BY <3>1 DEF PoolInv, PoolBounded, Room
  <2>2. CASE \A t \in 1..pool : InUse(t)
    <3>1. pool' = pool + 1 /\ pool \in Nat
      BY <1>1, <2>2 DEF Picks, TypeOK, Surfaces
    <3>2. pool <= Cardinality(Counted(3)) + Cardinality(Counted(2)) + Cardinality(flightSurfaces)
      BY <2>2, InUseIsHeld
    <3>3. Counted(3) \in SUBSET Surfaces /\ Counted(2) \in SUBSET Surfaces
      BY DEF Counted
    <3>4. Cardinality(Counted(3)) \in Nat /\ Cardinality(Counted(2)) \in Nat
      BY <3>3, PoolSizes
    <3>5. /\ Cardinality(Counted(3)) <= Room /\ Cardinality(Counted(2)) <= Room
          /\ Cardinality(flightSurfaces) + Cardinality(Awaiting) <= Room
      BY DEF PoolInv
    <3> QED
      BY <1>4, <1>7, <3>1, <3>2, <3>4, <3>5
  <2> QED
    BY <2>1, <2>2
<1>12. Room' = Room
  BY DEF Room
<1>13. PoolBounded'
  BY <1>11 DEF PoolBounded, Room
<1>14. \A t \in Surfaces : inFlight'[t] => t \in flightSurfaces'
  BY <1>1, <1>2 DEF PoolInv, TypeOK
<1>15. Awaiting' \subseteq Planes \ {Cursor}
  BY <1>3 DEF PoolInv
<1>16. Cardinality(Counted(3)') <= Room /\ Cardinality(Counted(2)') <= Room
  BY <1>10 DEF PoolInv
<1> QED
  BY <1>2, <1>8, <1>12, <1>13, <1>14, <1>15, <1>16 DEF PoolInv

(* The planes of a new composition that wait for a surface, none of which  *)
(* has been handed out.                                                    *)
LEMMA PoolAwaits ==
  ASSUME TypeOK, PoolInv, UNCHANGED <<ref, pool>>,
         \A s \in Surfaces : ~inFlight'[s],
         flightSurfaces' = {},
         Awaiting' \in SUBSET (Planes \ {Cursor}),
         pc' # "validate"
  PROVE  PoolInv'
<1>1. Counted(3)' = Counted(3) /\ Counted(2)' = Counted(2)
  BY DEF Counted
<1>2. /\ Cardinality(Counted(3)') = Cardinality(Counted(3))
      /\ Cardinality(Counted(2)') = Cardinality(Counted(2))
  BY <1>1
<1>3. /\ Cardinality(flightSurfaces') = 0 /\ Room \in Nat
      /\ Cardinality(Awaiting') \in Nat /\ Cardinality(Awaiting') <= Room
  BY PoolSizes
<1>4. Room' = Room /\ PoolBounded'
  BY DEF Room, PoolInv, PoolBounded
<1>5. Cardinality(flightSurfaces') + Cardinality(Awaiting') <= Room
  BY <1>3
<1>6. Cardinality(Counted(3)') <= Room /\ Cardinality(Counted(2)') <= Room
  BY <1>2 DEF PoolInv
<1> QED
  BY <1>4, <1>5, <1>6 DEF PoolInv

LEMMA PoolInit == Init => PoolInv
<1> SUFFICES ASSUME Init PROVE PoolInv
  OBVIOUS
<1>1. Room \in Nat /\ Cardinality({}) = 0
  BY PoolSizes
<1>2. Counted(3) = {} /\ Counted(2) = {} /\ Awaiting = {} /\ flightSurfaces = {}
  BY DEF Init, Counted, Awaiting, AllOff, Off, Untargeted
<1>3. PoolBounded /\ (\A s \in Surfaces : ~inFlight[s])
  BY <1>1 DEF Init, PoolBounded, Room
<1>4. /\ Cardinality(Counted(3)) <= Room /\ Cardinality(Counted(2)) <= Room
      /\ Cardinality(flightSurfaces) + Cardinality(Awaiting) <= Room
  <2>1. /\ Cardinality(Counted(3)) = 0 /\ Cardinality(Counted(2)) = 0
        /\ Cardinality(Awaiting) = 0 /\ Cardinality(flightSurfaces) = 0
    BY <1>1, <1>2
  <2> QED
    BY <1>1, <2>1
<1> QED
  BY <1>2, <1>3, <1>4 DEF PoolInv

(* A manager that has just been made owns no surface.                      *)
LEMMA PoolFresh ==
  ASSUME FreshManager, UNCHANGED <<comp, pc>>, comp = AllOff
  PROVE  PoolInv'
<1>1. Room \in Nat /\ Cardinality({}) = 0 /\ Room' = Room
  BY PoolSizes DEF Room
<1>2. Counted(3)' = {} /\ Counted(2)' = {} /\ Awaiting' = {} /\ flightSurfaces' = {}
  BY DEF FreshManager, Counted, Awaiting, AllOff, Off, Untargeted
<1>3. PoolBounded' /\ (\A s \in Surfaces : ~inFlight'[s])
  BY <1>1 DEF FreshManager, PoolBounded, Room
<1>4. /\ Cardinality(Counted(3)') = 0 /\ Cardinality(Counted(2)') = 0
      /\ Cardinality(Awaiting') = 0 /\ Cardinality(flightSurfaces') = 0
  BY <1>1, <1>2
<1> QED
  BY <1>1, <1>2, <1>3, <1>4 DEF PoolInv

LEMMA PoolStep ==
  ASSUME NothingFails, HasOutFence, TypeOK, SafetyInv, SteadyInv, PoolInv, [Next]_vars
  PROVE  PoolInv'
<1> USE DEF NothingFails, displayVars, surfaceVars, bufferVars, localVars, kernelVars
<1>1. ASSUME NEW b \in Buffers, BeginPresent(b)
      PROVE  PoolInv'
  <2>1. /\ UNCHANGED <<ref, inFlight, pool>> /\ comp' = AllOff /\ flightSurfaces' = {}
        /\ pc = "idle" /\ pc' = "validate"
    BY <1>1 DEF BeginPresent
  <2> QED
    BY <2>1, PoolStays
<1>2. CASE ComposeOnPrimary
  <2>1. /\ UNCHANGED <<ref, inFlight, pool, flightSurfaces>> /\ pc = "validate" /\ pc' = "primary"
        /\ comp' = [AllOff EXCEPT ![Primary] = Untargeted]
    BY <1>2 DEF ComposeOnPrimary
  <2>2. Awaiting' \in SUBSET (Planes \ {Cursor})
    <3>1. \A p \in Planes \ {Primary} : comp'[p] # Untargeted
      BY <2>1 DEF AllOff, Off, Untargeted
    <3>. QED
      BY <3>1, CursorAssumption DEF Awaiting
  <2>3. flightSurfaces' = {} /\ \A s \in Surfaces : ~inFlight'[s]
    BY <2>1 DEF PoolInv
  <2> QED
    BY <2>1, <2>2, <2>3, PoolAwaits
<1>3. ASSUME NEW used \in SUBSET Planes, NEW rendered \in SUBSET Planes, UsePlanes(used, rendered)
      PROVE  PoolInv'
  <2>1. /\ UNCHANGED <<ref, inFlight, pool, flightSurfaces>> /\ pc = "validate"
        /\ pc' \in {"draw", "final"} /\ rendered \subseteq used \ {Cursor}
        /\ comp' = [p \in Planes |-> IF p \in rendered THEN Untargeted
                                      ELSE IF p \in used THEN ClientBuffer ELSE Off]
    BY <1>3 DEF UsePlanes
  <2>2. Awaiting' \in SUBSET (Planes \ {Cursor})
    <3>1. Off # Untargeted /\ ClientBuffer # Untargeted
      BY DEF Off, Untargeted, ClientBuffer
    <3>2. \A p \in Planes : comp'[p] = Untargeted => p \in rendered
      BY <2>1, <3>1, Zenon
    <3>. QED
      BY <2>1, <3>2 DEF Awaiting
  <2>3. flightSurfaces' = {} /\ \A s \in Surfaces : ~inFlight'[s]
    BY <2>1 DEF PoolInv
  <2> QED
    BY <2>1, <2>2, <2>3, PoolAwaits
<1>4. CASE EnsureOffScreenTarget
  BY <1>4, PoolHandedOut
<1>5. CASE ValidateFinalLayers
  <2>1. /\ UNCHANGED <<ref, pool>> /\ pc = "test" /\ pc' \in {"draw", "primary"}
        /\ inFlight' = [s \in Surfaces |-> s \notin flightSurfaces /\ inFlight[s]]
        /\ \/ UNCHANGED <<flightSurfaces, comp>>
           \/ flightSurfaces' = {} /\ comp' = [AllOff EXCEPT ![Primary] = Untargeted]
    BY <1>5 DEF ValidateFinalLayers
  <2>2. \A s \in Surfaces : ~inFlight'[s]
    BY <2>1 DEF PoolInv
  <2>3. CASE UNCHANGED <<flightSurfaces, comp>>
    <3>1. Counted(3)' = Counted(3) /\ Counted(2)' = Counted(2) /\ Awaiting' = Awaiting
      BY <2>1, <2>3 DEF Counted, Awaiting
    <3>2. /\ Cardinality(Counted(3)') = Cardinality(Counted(3))
          /\ Cardinality(Counted(2)') = Cardinality(Counted(2))
          /\ Cardinality(Awaiting') = Cardinality(Awaiting)
          /\ Cardinality(flightSurfaces') = Cardinality(flightSurfaces)
      BY <2>3, <3>1
    <3>3. Room' = Room /\ PoolBounded'
      BY <2>1 DEF Room, PoolInv, PoolBounded
    <3> QED
      BY <2>1, <2>2, <2>3, <3>1, <3>2, <3>3 DEF PoolInv
  <2>4. CASE flightSurfaces' = {} /\ comp' = [AllOff EXCEPT ![Primary] = Untargeted]
    <3>1. Awaiting' \in SUBSET (Planes \ {Cursor})
      BY <2>4, CursorAssumption DEF Awaiting, AllOff, Off, Untargeted
    <3> QED
      BY <2>1, <2>2, <2>4, <3>1, PoolAwaits
  <2> QED
    BY <2>1, <2>3, <2>4
<1>6. CASE Draw \/ ApplyPendingModeset \/ WaitForFlip \/ Flip
  <2>1. /\ UNCHANGED <<ref, inFlight, pool, comp, flightSurfaces>>
        /\ pc' = pc \/ pc' \in {"apply", "commit", "retry"}
    BY <1>6 DEF Draw, ApplyPendingModeset, WaitForFlip, Flip
  <2>2. pc' = "validate" => flightSurfaces' = {}
    BY <2>1 DEF PoolInv
  <2> QED
    BY <2>1, <2>2, PoolStays
<1>7. CASE DrawFails \/ ApplyFails \/ UpdatePropertiesFails \/ WaitTimesOut
  BY <1>7 DEF DrawFails, ApplyFails, UpdatePropertiesFails, WaitTimesOut
<1>8. CASE CommitFrame \/ RetryCommit
  <2>1. pc \in {"commit", "retry"} /\ Acceptable /\ ~Rejected
    BY <1>8, SteadyAcceptable DEF CommitFrame, RetryCommit, Rejected
  <2>2. pc = "retry" => ~Busy
    BY DEF Busy, SteadyInv, BusyHasFence
  <2>3. CASE AwaitFlip
    <3>1. UNCHANGED <<ref, inFlight, pool, comp, flightSurfaces>> /\ pc' \in {"wait", "retry"}
      BY <2>3 DEF AwaitFlip
    <3> QED
      BY <3>1, PoolStays
  <2>4. CASE ModesetAccepted \/ FlipAccepted
    BY <2>4, PoolCounted DEF ModesetAccepted, FlipAccepted
  <2> QED
    BY <1>8, <2>1, <2>2, <2>3, <2>4 DEF CommitFrame, RetryCommit
<1>9. CASE Connect \/ ShutDown
  <2>1. FreshManager /\ pc = "idle" /\ UNCHANGED <<pc, comp>>
    BY <1>9 DEF Connect, ShutDown
  <2>2. comp = AllOff
    BY <2>1 DEF SafetyInv, PlanesMarked
  <2> QED
    BY <2>1, <2>2, PoolFresh
<1>10. ASSUME \/ \E mode \in {"ON", "OFF"} : SetDpmsMode(mode)
              \/ \E b \in Buffers : ImportFails(b)
       PROVE  PoolInv'
  BY <1>10 DEF SetDpmsMode, ImportFails
<1>11. CASE UNCHANGED vars
  <2>1. UNCHANGED <<ref, inFlight, pool, comp, flightSurfaces, pc>>
    BY <1>11 DEF vars
  <2>2. pc' = "validate" => flightSurfaces' = {}
    BY <2>1 DEF PoolInv
  <2> QED
    BY <2>1, <2>2, PoolStays
<1> QED
  BY <1>1, <1>2, <1>3, <1>4, <1>5, <1>6, <1>7, <1>8, <1>9, <1>10, <1>11 DEF Next, PresentStep

(* With an OUT_FENCE_PTR and nothing failing, the pool of off-screen       *)
(* surfaces stops growing at three for each plane that can show one: a new *)
(* one is made only when all the others are counted for the two last       *)
(* commits or in flight for this one.                                      *)
THEOREM PoolStopsGrowing ==
  ASSUME NothingFails, HasOutFence
  PROVE  Spec => []PoolBounded
<1>1. Init => PoolInv
  BY PoolInit
<1>2. TypeOK /\ SafetyInv /\ SteadyInv /\ PoolInv /\ [Next]_vars => PoolInv'
  BY PoolStep
<1>3. PoolInv => PoolBounded
  BY DEF PoolInv
<1>4. Init => SteadyInv
  BY SteadyInit
<1>5. TypeOK /\ SafetyInv /\ SteadyInv /\ [Next]_vars => SteadyInv'
  BY SteadyStep
<1>. QED
  BY <1>1, <1>2, <1>3, <1>4, <1>5, TypeCorrect, Safe, PTL DEF Spec
=============================================================================
