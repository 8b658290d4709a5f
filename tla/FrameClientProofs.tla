------------------------- MODULE FrameClientProofs -------------------------
(***************************************************************************)
(* Proofs about FrameClient: the display seen by the render loop that      *)
(* drives it.  The invariants of FramePipelineProofs carry over, since all *)
(* the client does to the display's state between two Presents is to give  *)
(* up a release fence.                                                     *)
(***************************************************************************)
EXTENDS FrameClient, FramePipelineProofs, SequenceTheorems

USE FramesAssumption, BuffersAssumption

-----------------------------------------------------------------------------
(* The client's steps as steps of the display.                             *)

(* Every step of the client's system is one of the display, or none, or    *)
(* the client lets go of the fence it has waited for.                      *)
LEMMA DisplaySteps ==
  ASSUME turn \in Buffers, [ClientNext]_allVars
  PROVE  [Next]_vars \/ WaitRelease
<1>1. CASE CallPresent
  <2>1. (\E b \in Buffers : BeginPresent(b) \/ ImportFails(b)) \/ UNCHANGED vars
    BY <1>1 DEF CallPresent
  <2>. QED
    BY <2>1 DEF Next
<1>2. CASE InPresent \/ ClientFlip \/ OtherThreads
  BY <1>2 DEF InPresent, ClientFlip, OtherThreads, Next
<1>3. CASE QueueDrawing \/ StartDrawing \/ FinishDrawing \/ UNCHANGED allVars
  BY <1>3 DEF QueueDrawing, StartDrawing, FinishDrawing, allVars
<1>. QED
  BY <1>1, <1>2, <1>3 DEF ClientNext

LEMMA WaitReleaseType ==
  ASSUME TypeOK, WaitRelease
  PROVE  TypeOK'
<1>1. releaseFence' \in [Buffers -> Frames \cup {NoFrame}]
  BY DEF WaitRelease, TypeOK
<1>. QED
  BY <1>1 DEF WaitRelease, TypeOK, displayVars, surfaceVars, bufferVars, localVars, kernelVars

LEMMA WaitReleaseSafe ==
  ASSUME WaitRelease
  PROVE  (SafetyInv => SafetyInv') /\ (HeldInv => HeldInv') /\ (SteadyInv => SteadyInv')
<1>1. UNCHANGED <<displayVars, outFence, surfaceVars, bufferVars, sync, enabled, pc, localVars, kernelVars>>
  BY DEF WaitRelease
<1> USE DEF displayVars, surfaceVars, bufferVars, localVars, kernelVars
<1>2. SafetyInv => SafetyInv'
  BY <1>1 DEF SafetyInv, ScreenHeld, PoolCovers, TargetsFresh, PlanesMarked, FrameFresh, SurfacesOf, Used
<1>3. HeldInv => HeldInv'
  BY <1>1 DEF HeldInv
<1>4. SteadyInv => SteadyInv'
  BY <1>1 DEF SteadyInv, BusyHasFence
<1>. QED
  BY <1>2, <1>3, <1>4

-----------------------------------------------------------------------------
(* Type correctness.                                                       *)

Drawings == [buffer : Buffers, wait : Frames \cup {NoFrame}]

(* The next set of layers is another one.                                  *)
LEMMA TurnMovesOn ==
  ASSUME NEW b \in Buffers
  PROVE  (b + 1) % Cardinality(Buffers) \in Buffers /\ (b + 1) % Cardinality(Buffers) # b
<1> DEFINE n == Cardinality(Buffers)
<1>1. n \in Nat /\ n > 1 /\ b \in 0..(n - 1)
  BY TurnsAssumption
<1> HIDE DEF n
<1>2. CASE b + 1 = n
  <2>1. n % n = 0
    BY <1>1
  <2>. QED
    BY <1>1, <1>2, <2>1, TurnsAssumption DEF n
<1>3. CASE b + 1 < n
  <2>1. (b + 1) % n = b + 1
    BY <1>1, <1>3
  <2>. QED
    BY <1>1, <1>3, <2>1, TurnsAssumption DEF n
<1>. QED
  BY <1>1, <1>2, <1>3

(* The flip clears the waits of the drawings that are queued.              *)
LEMMA ClearedWaits ==
  ASSUME gpu \in Seq(Drawings), gpu' = [i \in DOMAIN gpu |-> [gpu[i] EXCEPT !.wait = Done(@)]]
  PROVE  /\ gpu' \in Seq(Drawings) /\ Len(gpu') = Len(gpu) /\ DOMAIN gpu' = DOMAIN gpu
         /\ \A i \in DOMAIN gpu : gpu'[i].buffer = gpu[i].buffer /\ gpu'[i].wait = Done(gpu[i].wait)
<1>1. Len(gpu) \in Nat /\ DOMAIN gpu = 1..Len(gpu) /\ \A i \in 1..Len(gpu) : gpu[i] \in Drawings
  BY LenProperties, ElementOfSeq
<1>2. \A i \in DOMAIN gpu : gpu'[i] = [gpu[i] EXCEPT !.wait = Done(@)]
  OBVIOUS
<1>3. \A i \in DOMAIN gpu : /\ gpu'[i] \in Drawings
                            /\ gpu'[i].buffer = gpu[i].buffer /\ gpu'[i].wait = Done(gpu[i].wait)
  BY <1>1, <1>2 DEF Done, Drawings
<1>4. gpu' \in [1..Len(gpu) -> Drawings]
  BY <1>1, <1>3
<1>5. gpu' \in Seq(Drawings)
  BY <1>1, <1>4, SeqDef
<1>6. Len(gpu') = Len(gpu)
  <2>1. Len(gpu') \in Nat /\ 1..Len(gpu') = 1..Len(gpu)
    BY <1>4, <1>5, LenProperties
  <2>. QED
    BY <1>1, <2>1
<1>. QED
  BY <1>1, <1>3, <1>5, <1>6

(* A drawing the GPU executes is in its queue.                             *)
RunningIsQueued == running => gpu # <<>>

LEMMA ClientTypeStep ==
  ASSUME ClientTypeOK, RunningIsQueued, [ClientNext]_allVars
  PROVE  ClientTypeOK' /\ RunningIsQueued'
<1> USE DEF ClientTypeOK, RunningIsQueued
<1>0. TypeOK'
  BY DisplaySteps, WaitReleaseType, TypeStep
<1>1. CASE WaitRelease
  BY <1>0, <1>1 DEF WaitRelease
<1>2. CASE QueueDrawing
  <2>1. [buffer |-> turn, wait |-> glWait] \in Drawings
    BY DEF Drawings
  <2>2. gpu' \in Seq(Drawings)
    BY <1>2, <2>1 DEF QueueDrawing, Drawings
  <2>3. gpu' # <<>>
    BY <1>2 DEF QueueDrawing
  <2>. QED
    BY <1>0, <1>2, <2>2, <2>3 DEF QueueDrawing, Drawings
<1>3. CASE CallPresent
  BY <1>0, <1>3, TurnMovesOn DEF CallPresent, NextRound
<1>4. CASE InPresent
  <2>1. turn' \in Buffers /\ step' \in {"wait", "draw", "present", "presenting"}
    BY <1>4, TurnMovesOn DEF InPresent, NextRound
  <2>2. glWait' \in Frames \cup {NoFrame}
    BY <1>0, <1>4 DEF InPresent, InsertFence, TypeOK
  <2>3. inFence' \in BOOLEAN
    BY <1>4 DEF InPresent, Queued
  <2>. QED
    BY <1>0, <1>4, <2>1, <2>2, <2>3 DEF InPresent
<1>5. CASE StartDrawing
  BY <1>0, <1>5 DEF StartDrawing
<1>6. CASE FinishDrawing
  <2>1. Tail(gpu) \in Seq(Drawings)
    BY <1>6, HeadTailProperties DEF FinishDrawing, Drawings
  <2>. QED
    BY <1>0, <1>6, <2>1 DEF FinishDrawing, Drawings
<1>7. CASE ClientFlip
  <2>1. gpu' \in Seq(Drawings) /\ (running => gpu' # <<>>)
    BY <1>7, ClearedWaits DEF ClientFlip, Drawings
  <2>2. glWait' \in Frames \cup {NoFrame}
    BY <1>7 DEF ClientFlip, Done
  <2>. QED
    BY <1>0, <1>7, <2>1, <2>2 DEF ClientFlip, Drawings
<1>8. CASE OtherThreads
  BY <1>0, <1>8 DEF OtherThreads, clientVars
<1>9. CASE UNCHANGED allVars
  BY <1>0, <1>9 DEF allVars, clientVars
<1>. QED
  BY <1>1, <1>2, <1>3, <1>4, <1>5, <1>6, <1>7, <1>8, <1>9 DEF ClientNext

LEMMA ClientTypeInit == ClientInit => ClientTypeOK /\ RunningIsQueued
<1> SUFFICES ASSUME ClientInit PROVE ClientTypeOK /\ RunningIsQueued
  OBVIOUS
<1>1. TypeOK
  BY TypeInit DEF ClientInit
<1>2. turn \in Buffers
  BY TurnsAssumption DEF ClientInit
<1>3. gpu \in Seq(Drawings)
  BY EmptySeq DEF ClientInit
<1>. QED
  BY <1>1, <1>2, <1>3 DEF ClientInit, ClientTypeOK, RunningIsQueued, Drawings

(* Every variable of the client and of the GPU, and of the display they    *)
(* use, keeps a value of its type: FrameClient's ClientTypeOK.             *)
THEOREM ClientTypeCorrect == ClientSpec => []ClientTypeOK
<1>1. ClientInit => ClientTypeOK /\ RunningIsQueued
  BY ClientTypeInit
<1>2. ClientTypeOK /\ RunningIsQueued /\ [ClientNext]_allVars => ClientTypeOK' /\ RunningIsQueued'
  BY ClientTypeStep
<1>. QED
  BY <1>1, <1>2, PTL DEF ClientSpec

-----------------------------------------------------------------------------
(* The display's own invariants, while the client drives it.               *)
DisplayInv == ClientTypeOK /\ RunningIsQueued /\ SafetyInv /\ HeldInv /\ SteadyInv

LEMMA DisplayInvHolds ==
  ASSUME NothingFails, HasOutFence
  PROVE  ClientSpec => []DisplayInv
<1>1. ClientInit => DisplayInv
  BY ClientTypeInit, SafetyInit, HeldInit, SteadyInit DEF ClientInit, DisplayInv
<1>2. DisplayInv /\ [ClientNext]_allVars => DisplayInv'
  <2> SUFFICES ASSUME DisplayInv, [ClientNext]_allVars PROVE DisplayInv'
    OBVIOUS
  <2>1. ClientTypeOK' /\ RunningIsQueued'
    BY ClientTypeStep DEF DisplayInv
  <2>2. [Next]_vars \/ WaitRelease
    BY DisplaySteps DEF DisplayInv, ClientTypeOK
  <2>3. SafetyInv' /\ HeldInv' /\ SteadyInv'
    BY <2>2, WaitReleaseSafe, SafetyStep, HeldStep, SteadyStep DEF DisplayInv, ClientTypeOK
  <2>. QED
    BY <2>1, <2>3 DEF DisplayInv
<1>. QED
  BY <1>1, <1>2, PTL DEF ClientSpec

-----------------------------------------------------------------------------
(* Present in the client's thread: it goes on, or its modeset is on the    *)
(* screen, or its flip is queued; without failures it ends in no other way. *)
PresentGoesOn ==
    /\ pc # "idle" /\ pc' # "idle"
    /\ UNCHANGED <<poweredOff, sync, frame, buffer, needsModeset, current, front, flipPending>>
    /\ UNCHANGED <<step, turn, glWait, gpu, running, inFence>>
    /\ modeset => modeset' \/ needsModeset
    /\ releaseFence' \in {releaseFence, [releaseFence EXCEPT ![buffer] = frame]}

ModesetIsShown ==
    /\ pc = "commit" /\ ModesetAccepted /\ NextRound
    /\ ~Queued(buffer)
    /\ UNCHANGED <<glWait, gpu, running, inFence>>

FlipIsQueued ==
    /\ pc \in {"commit", "retry"} /\ FlipAccepted /\ NextRound
    /\ glWait' = frame
    /\ inFence' = ~Queued(buffer)
    /\ UNCHANGED <<gpu, running>>

LEMMA InPresentSteps ==
  ASSUME NothingFails, HasOutFence, DisplayInv, InPresent
  PROVE  PresentGoesOn \/ ModesetIsShown \/ FlipIsQueued
<1> USE DEF displayVars, surfaceVars, bufferVars, localVars, kernelVars
<1>1. CASE \/ ComposeOnPrimary \/ EnsureOffScreenTarget \/ ValidateFinalLayers \/ Draw
           \/ \E used, rendered \in SUBSET Planes : UsePlanes(used, rendered)
           \/ WaitForFlip
  <2>1. /\ pc # "idle" /\ pc' # "idle"
        /\ UNCHANGED <<poweredOff, modeset, sync, frame, buffer, needsModeset>>
        /\ UNCHANGED <<current, front, flipPending, releaseFence>>
    BY <1>1 DEF ComposeOnPrimary, EnsureOffScreenTarget, ValidateFinalLayers, Draw, UsePlanes,
                WaitForFlip
  <2>. QED
    BY <2>1 DEF InPresent, Flips, PresentGoesOn
<1>4. CASE ApplyPendingModeset
  <2>1. /\ pc # "idle" /\ pc' # "idle"
        /\ UNCHANGED <<poweredOff, sync, frame, buffer, needsModeset>>
        /\ UNCHANGED <<current, front, flipPending>>
        /\ modeset => modeset' \/ needsModeset
        /\ releaseFence' = [releaseFence EXCEPT ![buffer] = frame]
    BY <1>4 DEF ApplyPendingModeset
  <2>. QED
    BY <2>1 DEF InPresent, Flips, PresentGoesOn
<1>2. CASE DrawFails \/ ApplyFails \/ UpdatePropertiesFails \/ WaitTimesOut
  BY <1>2 DEF NothingFails, DrawFails, ApplyFails, UpdatePropertiesFails, WaitTimesOut
<1>3. CASE CommitFrame \/ RetryCommit
  <2>1. pc \in {"commit", "retry"} /\ SteadyInv /\ SafetyInv
    BY <1>3 DEF CommitFrame, RetryCommit, DisplayInv
  <2>2. Acceptable /\ ~Rejected /\ ~(pc = "retry" /\ (Busy \/ needsModeset))
    BY <2>1, SteadyAcceptable DEF Rejected, NothingFails, Busy, SteadyInv, BusyHasFence
  <2>3. \/ ModesetAccepted /\ pc = "commit"
        \/ FlipAccepted
        \/ AwaitFlip /\ pc = "commit"
    BY <1>3, <2>2 DEF CommitFrame, RetryCommit
  <2>4. CASE AwaitFlip /\ pc = "commit"
    BY <2>4 DEF AwaitFlip, InPresent, Flips, PresentGoesOn
  <2>5. CASE ModesetAccepted /\ pc = "commit"
    BY <2>5 DEF ModesetAccepted, Return, InPresent, Flips, ModesetIsShown
  <2>6. CASE FlipAccepted
    <3>1. outFence' = frame /\ frame # NoFrame /\ pc' = "idle" /\ flipPending' /\ ~flipPending
      BY <2>1, <2>6 DEF FlipAccepted, KeepOutFence, Return, SafetyInv, FrameFresh
    <3>2. Flips
      BY <3>1 DEF Flips
    <3>. QED
      BY <2>1, <2>6, <3>1, <3>2 DEF InPresent, InsertFence, FlipIsQueued
  <2>. QED
    BY <2>3, <2>4, <2>5, <2>6
<1>. QED
  BY <1>1, <1>2, <1>3, <1>4 DEF InPresent, PresentStep

-----------------------------------------------------------------------------
(* The inductive invariant behind the client's safety properties.          *)

(* The display shows, or is about to show, something of the client's.      *)
Lit == current.buffer # NoBuffer

(* The client is in Present while Present runs, with the layers of its turn. *)
PresentIsClients ==
    /\ (step = "presenting") <=> (pc # "idle")
    /\ pc # "idle" => buffer = turn /\ frame # sync
    /\ pc = "idle" => frame = NoFrame

(* A display is lit by a modeset and dark when it goes off; the turn is    *)
(* that of the layers after those it shows.                                *)
TurnFollowsScreen ==
    /\ flipPending => Lit
    /\ Lit => /\ ~poweredOff
              /\ current.buffer \in Buffers
              /\ turn = (current.buffer + 1) % Cardinality(Buffers)
    /\ ~Lit => poweredOff \/ modeset \/ needsModeset

(* What waits, waits for the pending flip of other layers.                 *)
WaitsForFlip ==
    /\ glWait = IF flipPending THEN current.frame ELSE NoFrame
    /\ \A i \in DOMAIN gpu :
          gpu[i].wait # NoFrame => /\ flipPending /\ gpu[i].wait = current.frame
                                   /\ gpu[i].buffer # current.buffer

(* A drawing that waits for nothing is not of the layers on the screen.    *)
DrawnOffScreen ==
    /\ \A i \in DOMAIN gpu : gpu[i].wait = NoFrame => gpu[i].buffer # front.buffer
    /\ running => gpu[1].wait = NoFrame

(* The drawing of the layers that are presented is the last in the queue.  *)
OwnIsLast ==
    step \in {"present", "presenting"} /\ gpu # <<>> => gpu[Len(gpu)].buffer = turn

(* While the display is lit at most two drawings are queued: that of the   *)
(* layers presented last, until it is finished and the flip may happen,    *)
(* and that of the layers whose turn it is.                                *)
QueueShort ==
    Lit => /\ \A i \in DOMAIN gpu : gpu[i].buffer \in {turn, current.buffer}
           /\ \A i, j \in DOMAIN gpu : i # j => gpu[i].buffer # gpu[j].buffer
           /\ step \in {"wait", "draw"} => ~Queued(turn)
           /\ ~flipPending \/ inFence => ~Queued(current.buffer)

(* An unsignalled release fence is of the layers presented last, or of     *)
(* those being presented.                                                  *)
FencesFollow ==
    \A b \in Buffers :
        releaseFence[b] # NoFrame => /\ releaseFence[b] = sync => b = current.buffer
                                     /\ releaseFence[b] = frame => b = turn

ClientInv == PresentIsClients /\ TurnFollowsScreen /\ WaitsForFlip /\ DrawnOffScreen
                /\ OwnIsLast /\ QueueShort /\ FencesFollow

(* The layers whose turn it is are not those of the last commit.           *)
LEMMA TurnIsAnother ==
  ASSUME ClientTypeOK, TurnFollowsScreen
  PROVE  current.buffer # turn
<1>1. CASE Lit
  BY <1>1, TurnMovesOn DEF TurnFollowsScreen
<1>2. CASE ~Lit
  BY <1>2 DEF Lit, ClientTypeOK
<1>. QED
  BY <1>1, <1>2

LEMMA QueueFacts ==
  ASSUME ClientTypeOK
  PROVE  /\ gpu \in Seq(Drawings) /\ Len(gpu) \in Nat /\ DOMAIN gpu = 1..Len(gpu)
         /\ \A i \in DOMAIN gpu : gpu[i].buffer \in Buffers /\ gpu[i].wait \in Frames \cup {NoFrame}
         /\ gpu # <<>> => Len(gpu) \in DOMAIN gpu /\ 1 \in DOMAIN gpu
<1>1. gpu \in Seq(Drawings)
  BY DEF ClientTypeOK, Drawings
<1>2. Len(gpu) \in Nat /\ DOMAIN gpu = 1..Len(gpu)
  BY <1>1, LenProperties
<1>3. \A i \in DOMAIN gpu : gpu[i] \in Drawings
  BY <1>1, <1>2, ElementOfSeq
<1>4. gpu # <<>> => Len(gpu) > 0
  BY <1>1, EmptySeq
<1>. QED
  BY <1>1, <1>2, <1>3, <1>4 DEF Drawings

LEMMA WaitReleaseClient ==
  ASSUME DisplayInv, ClientInv, WaitRelease
  PROVE  ClientInv'
<1> USE DEF displayVars, surfaceVars, bufferVars, localVars, kernelVars
<1>1. /\ step = "wait" /\ step' = "draw"
      /\ UNCHANGED <<poweredOff, modeset, sync, pc, frame, buffer, needsModeset>>
      /\ UNCHANGED <<current, front, flipPending, turn, glWait, gpu, running, inFence>>
  BY DEF WaitRelease
<1>2. /\ PresentIsClients' /\ TurnFollowsScreen' /\ WaitsForFlip' /\ DrawnOffScreen'
      /\ OwnIsLast' /\ QueueShort'
  BY <1>1 DEF ClientInv, PresentIsClients, TurnFollowsScreen, Lit, WaitsForFlip, DrawnOffScreen,
              OwnIsLast, QueueShort, Queued
<1>3. FencesFollow'
  <2>1. \A b \in Buffers : releaseFence'[b] # NoFrame => releaseFence'[b] = releaseFence[b]
    BY DEF WaitRelease, DisplayInv, ClientTypeOK, TypeOK
  <2>. QED
    BY <1>1, <2>1 DEF ClientInv, FencesFollow
<1>. QED
  BY <1>2, <1>3 DEF ClientInv

LEMMA QueueDrawingClient ==
  ASSUME DisplayInv, ClientInv, QueueDrawing
  PROVE  ClientInv'
<1> DEFINE d == [buffer |-> turn, wait |-> glWait]
           n == Len(gpu) + 1
<1>1. /\ step = "draw" /\ step' = "present" /\ gpu' = Append(gpu, d)
      /\ UNCHANGED vars /\ UNCHANGED <<turn, glWait, running, inFence>>
  BY DEF QueueDrawing
<1>2. /\ UNCHANGED <<poweredOff, modeset, sync, pc, frame, buffer, needsModeset>>
      /\ UNCHANGED <<current, front, flipPending, releaseFence>>
  BY <1>1 DEF vars, displayVars, localVars, kernelVars
<1>3. ClientTypeOK /\ d \in Drawings
  BY DEF DisplayInv, ClientTypeOK, Drawings
<1>4. /\ Len(gpu') = n /\ DOMAIN gpu' = DOMAIN gpu \cup {n} /\ n \notin DOMAIN gpu
      /\ gpu'[n] = d /\ \A i \in DOMAIN gpu : gpu'[i] = gpu[i]
  BY <1>1, <1>3, QueueFacts
<1>5. current.buffer # turn /\ d.buffer = turn /\ d.wait = glWait
  BY <1>3, TurnIsAnother DEF ClientInv
<1> HIDE DEF d, n
<1>6. PresentIsClients' /\ TurnFollowsScreen' /\ FencesFollow'
  BY <1>1, <1>2 DEF ClientInv, PresentIsClients, TurnFollowsScreen, Lit, FencesFollow
<1>7. WaitsForFlip'
  BY <1>1, <1>2, <1>4, <1>5 DEF ClientInv, WaitsForFlip
<1>8. DrawnOffScreen'
  <2>1. glWait = NoFrame => front = current
    BY DEF ClientInv, WaitsForFlip, DisplayInv, HeldInv, SafetyInv, ScreenHeld
  <2>2. running => 1 \in DOMAIN gpu
    BY <1>3, QueueFacts DEF DisplayInv, RunningIsQueued
  <2>. QED
    BY <1>1, <1>2, <1>4, <1>5, <2>1, <2>2 DEF ClientInv, DrawnOffScreen
<1>9. OwnIsLast'
  BY <1>1, <1>4, <1>5 DEF OwnIsLast
<1>10. QueueShort'
  <2>1. Lit => ~Queued(turn)
    BY <1>1 DEF ClientInv, QueueShort
  <2>. QED
    BY <1>1, <1>2, <1>4, <1>5, <2>1 DEF ClientInv, QueueShort, Queued, Lit
<1>. QED
  BY <1>6, <1>7, <1>8, <1>9, <1>10 DEF ClientInv

LEMMA CallPresentClient ==
  ASSUME NothingFails, DisplayInv, ClientInv, CallPresent
  PROVE  ClientInv'
<1>1. UNCHANGED <<glWait, gpu, running, inFence>> /\ step = "present"
  BY DEF CallPresent
<1>2. CASE BeginPresent(turn) /\ step' = "presenting" /\ UNCHANGED turn
  <2>1. UNCHANGED <<current, front, flipPending>>
    BY <1>2, RmFBHarmless DEF BeginPresent, DisplayInv, SafetyInv
  <2>2. /\ pc = "idle" /\ pc' # "idle" /\ buffer' = turn
        /\ frame' \in Frames /\ frame' \notin Live
        /\ needsModeset' = modeset
        /\ UNCHANGED <<poweredOff, modeset, sync>>
        /\ releaseFence' = [releaseFence EXCEPT ![turn] = NoFrame]
    BY <1>2 DEF BeginPresent, ReadModeset
  <2>3. PresentIsClients'
    BY <1>2, <2>2 DEF PresentIsClients, Live
  <2>4. TurnFollowsScreen'
    BY <1>2, <2>1, <2>2 DEF ClientInv, DisplayInv, SteadyInv, TurnFollowsScreen, Lit
  <2>5. WaitsForFlip' /\ DrawnOffScreen' /\ OwnIsLast' /\ QueueShort'
    BY <1>1, <1>2, <2>1
       DEF ClientInv, WaitsForFlip, DrawnOffScreen, OwnIsLast, QueueShort, Queued, Lit
  <2>6. FencesFollow'
    <3>1. \A b \in Buffers : releaseFence'[b] # NoFrame => releaseFence'[b] = releaseFence[b]
      BY <2>2 DEF DisplayInv, ClientTypeOK, TypeOK
    <3>2. \A b \in Buffers : releaseFence[b] # frame'
      BY <2>2 DEF Live
    <3>. QED
      BY <2>1, <2>2, <3>1, <3>2 DEF ClientInv, FencesFollow
  <2>. QED
    BY <2>3, <2>4, <2>5, <2>6 DEF ClientInv
<1>3. CASE poweredOff /\ pc = "idle" /\ NextRound /\ UNCHANGED vars
  <2>1. /\ UNCHANGED <<poweredOff, modeset, sync, pc, frame, buffer, needsModeset>>
        /\ UNCHANGED <<current, front, flipPending, releaseFence>>
        /\ step' = "wait"
    BY <1>3 DEF vars, displayVars, localVars, kernelVars, NextRound
  <2>2. ~Lit /\ ~flipPending
    BY <1>3 DEF ClientInv, TurnFollowsScreen
  <2>3. PresentIsClients' /\ TurnFollowsScreen' /\ FencesFollow'
    BY <1>3, <2>1, <2>2
       DEF ClientInv, PresentIsClients, TurnFollowsScreen, Lit, FencesFollow
  <2>4. WaitsForFlip' /\ DrawnOffScreen' /\ OwnIsLast' /\ QueueShort'
    BY <1>1, <2>1, <2>2
       DEF ClientInv, WaitsForFlip, DrawnOffScreen, OwnIsLast, QueueShort, Queued, Lit
  <2>. QED
    BY <2>3, <2>4 DEF ClientInv
<1>4. ~ImportFails(turn)
  BY DEF ImportFails, NothingFails
<1>. QED
  BY <1>2, <1>3, <1>4 DEF CallPresent

LEMMA GoesOnClient ==
  ASSUME DisplayInv, ClientInv, PresentGoesOn
  PROVE  ClientInv'
<1>1. /\ PresentIsClients' /\ TurnFollowsScreen' /\ WaitsForFlip' /\ DrawnOffScreen'
      /\ OwnIsLast' /\ QueueShort'
  BY DEF PresentGoesOn, ClientInv, PresentIsClients, TurnFollowsScreen, Lit, WaitsForFlip,
         DrawnOffScreen, OwnIsLast, QueueShort, Queued
<1>2. FencesFollow'
  <2>1. \A b \in Buffers :
          releaseFence'[b] = releaseFence[b] \/ (b = turn /\ releaseFence'[b] = frame)
    <3>1. buffer = turn
      BY DEF PresentGoesOn, ClientInv, PresentIsClients
    <3>2. releaseFence \in [Buffers -> Frames \cup {NoFrame}]
      BY DEF DisplayInv, ClientTypeOK, TypeOK
    <3>3. releaseFence' \in {releaseFence, [releaseFence EXCEPT ![turn] = frame]}
      BY <3>1 DEF PresentGoesOn
    <3>4. CASE releaseFence' = releaseFence
      BY <3>4
    <3>5. CASE releaseFence' = [releaseFence EXCEPT ![turn] = frame]
      BY <3>2, <3>5
    <3>. QED
      BY <3>3, <3>4, <3>5
  <2>2. frame # sync
    BY DEF PresentGoesOn, ClientInv, PresentIsClients
  <2>. QED
    BY <2>1, <2>2 DEF PresentGoesOn, ClientInv, FencesFollow
<1>. QED
  BY <1>1, <1>2 DEF ClientInv

(* After the commit the next round's layers are others.                    *)
LEMMA RoundEnds ==
  ASSUME DisplayInv, ClientInv, pc \in {"commit", "retry"}, NextRound, Return, current' = Committed
  PROVE  /\ step = "presenting" /\ buffer = turn /\ turn \in Buffers
         /\ current'.buffer = turn /\ current'.frame = frame /\ frame \in Frames /\ frame # sync
         /\ turn' = (turn + 1) % Cardinality(Buffers) /\ turn' # turn /\ step' = "wait"
         /\ pc' = "idle" /\ frame' = NoFrame
<1>1. step = "presenting" /\ buffer = turn /\ turn \in Buffers /\ frame # sync
  BY DEF ClientInv, PresentIsClients, DisplayInv, ClientTypeOK
<1>2. Committed.buffer = buffer /\ Committed.frame = frame /\ frame \in Frames
  BY DEF Committed, DisplayInv, SafetyInv, FrameFresh
<1>. QED
  BY <1>1, <1>2, TurnMovesOn DEF NextRound, Return

LEMMA ModesetShownClient ==
  ASSUME DisplayInv, ClientInv, ModesetIsShown
  PROVE  ClientInv'
<1>1. /\ current' = Committed /\ front' = Committed /\ Return /\ NextRound
      /\ pc = "commit" /\ ~flipPending /\ ~flipPending' /\ sync' = sync
      /\ UNCHANGED <<poweredOff, glWait, gpu, running, inFence>>
      /\ releaseFence' = [releaseFence EXCEPT ![buffer] = NoFrame]
  BY DEF ModesetIsShown, ModesetAccepted, displayVars
<1>2. /\ step = "presenting" /\ buffer = turn /\ turn \in Buffers
      /\ current'.buffer = turn /\ current'.frame = frame /\ frame \in Frames
      /\ turn' = (turn + 1) % Cardinality(Buffers) /\ turn' # turn /\ step' = "wait"
      /\ pc' = "idle" /\ frame' = NoFrame
  BY <1>1, RoundEnds
<1>3. gpu = <<>>
  BY <1>2, QueueFacts
     DEF ModesetIsShown, Queued, ClientInv, OwnIsLast, DisplayInv
<1>4. DOMAIN gpu = {} /\ ~running
  BY <1>3, QueueFacts, EmptySeq DEF DisplayInv, RunningIsQueued
<1>5. PresentIsClients'
  BY <1>2 DEF PresentIsClients
<1>6. TurnFollowsScreen'
  BY <1>1, <1>2 DEF TurnFollowsScreen, Lit, DisplayInv, SteadyInv
<1>7. WaitsForFlip' /\ DrawnOffScreen' /\ OwnIsLast' /\ QueueShort'
  BY <1>1, <1>2, <1>4
     DEF ClientInv, WaitsForFlip, DrawnOffScreen, OwnIsLast, QueueShort, Queued
<1>8. FencesFollow'
  BY <1>1, <1>2 DEF FencesFollow, ModesetIsShown, ModesetAccepted, DisplayInv, HeldInv
<1>. QED
  BY <1>5, <1>6, <1>7, <1>8 DEF ClientInv

LEMMA FlipQueuedClient ==
  ASSUME DisplayInv, ClientInv, FlipIsQueued
  PROVE  ClientInv'
<1>1. /\ current' = Committed /\ Return /\ NextRound
      /\ pc \in {"commit", "retry"} /\ ~flipPending /\ flipPending' /\ sync' = frame
      /\ glWait' = frame /\ inFence' = ~Queued(buffer) /\ ~needsModeset
      /\ UNCHANGED <<front, poweredOff, gpu, running, releaseFence>>
  BY DEF FlipIsQueued, FlipAccepted, HoldFrame, displayVars
<1>2. /\ step = "presenting" /\ buffer = turn /\ turn \in Buffers
      /\ current'.buffer = turn /\ current'.frame = frame /\ frame \in Frames /\ frame # sync
      /\ turn' = (turn + 1) % Cardinality(Buffers) /\ turn' # turn /\ step' = "wait"
      /\ pc' = "idle" /\ frame' = NoFrame
  BY <1>1, RoundEnds
<1>3. ~poweredOff /\ ~modeset
  BY <1>1 DEF DisplayInv, SteadyInv
<1>4. Lit /\ Lit'
  BY <1>1, <1>2, <1>3 DEF ClientInv, TurnFollowsScreen, Lit
<1>5. \A i \in DOMAIN gpu : gpu[i].buffer = turn
  BY <1>1, <1>4 DEF ClientInv, QueueShort, Queued
<1>6. PresentIsClients'
  BY <1>2 DEF PresentIsClients
<1>7. TurnFollowsScreen'
  BY <1>1, <1>2, <1>3, <1>4 DEF TurnFollowsScreen
<1>8. WaitsForFlip' /\ DrawnOffScreen' /\ OwnIsLast'
  BY <1>1, <1>2 DEF ClientInv, WaitsForFlip, DrawnOffScreen, OwnIsLast
<1>9. QueueShort'
  <2>1. \A i, j \in DOMAIN gpu : i # j => gpu[i].buffer # gpu[j].buffer
    BY <1>4 DEF ClientInv, QueueShort
  <2>2. Queued(turn)' <=> Queued(turn')
    BY <1>1 DEF Queued
  <2>3. ~Queued(turn')
    BY <1>2, <1>5 DEF Queued
  <2>4. inFence' => ~Queued(current.buffer)'
    BY <1>1, <1>2 DEF Queued
  <2>. QED
    BY <1>1, <1>2, <1>5, <2>1, <2>2, <2>3, <2>4 DEF QueueShort
<1>10. FencesFollow'
  BY <1>1, <1>2 DEF ClientInv, FencesFollow
<1>. QED
  BY <1>6, <1>7, <1>8, <1>9, <1>10 DEF ClientInv

LEMMA StartDrawingClient ==
  ASSUME DisplayInv, ClientInv, StartDrawing
  PROVE  ClientInv'
<1>1. /\ gpu[1].wait = NoFrame /\ UNCHANGED vars
      /\ UNCHANGED <<step, turn, glWait, gpu, inFence>>
  BY DEF StartDrawing
<1>2. /\ UNCHANGED <<poweredOff, modeset, sync, pc, frame, buffer, needsModeset>>
      /\ UNCHANGED <<current, front, flipPending, releaseFence>>
  BY <1>1 DEF vars, displayVars, localVars, kernelVars
<1>. QED
  BY <1>1, <1>2 DEF ClientInv, PresentIsClients, TurnFollowsScreen, Lit, WaitsForFlip,
                    DrawnOffScreen, OwnIsLast, QueueShort, Queued, FencesFollow

LEMMA FinishDrawingClient ==
  ASSUME DisplayInv, ClientInv, FinishDrawing
  PROVE  ClientInv'
<1>1. /\ running /\ ~running' /\ gpu' = Tail(gpu) /\ UNCHANGED vars
      /\ inFence' = (inFence \/ gpu[1].buffer = current.buffer)
      /\ UNCHANGED <<step, turn, glWait>>
  BY DEF FinishDrawing
<1>2. /\ UNCHANGED <<poweredOff, modeset, sync, pc, frame, buffer, needsModeset>>
      /\ UNCHANGED <<current, front, flipPending, releaseFence>>
  BY <1>1 DEF vars, displayVars, localVars, kernelVars
<1>3. ClientTypeOK /\ ClientTypeOK' /\ gpu # <<>>
  BY <1>1, ClientTypeStep DEF DisplayInv, RunningIsQueued, ClientNext
<1>4. /\ Len(gpu') = Len(gpu) - 1 /\ 1 \in DOMAIN gpu
      /\ \A i \in DOMAIN gpu' : i + 1 \in DOMAIN gpu /\ i + 1 # 1 /\ gpu'[i] = gpu[i + 1]
      /\ \A i, j \in DOMAIN gpu' : i # j => i + 1 # j + 1
  <2>1. gpu \in Seq(Drawings) /\ DOMAIN gpu = 1..Len(gpu) /\ Len(gpu) \in Nat /\ 1 \in DOMAIN gpu
    BY <1>3, QueueFacts
  <2>2. Len(gpu') = Len(gpu) - 1 /\ \A i \in 1..Len(gpu') : gpu'[i] = gpu[i + 1]
    BY <1>1, <1>3, <2>1, HeadTailProperties
  <2>3. DOMAIN gpu' = 1..Len(gpu')
    BY <1>3, LenProperties DEF ClientTypeOK
  <2>. QED
    BY <2>1, <2>2, <2>3
<1>5. PresentIsClients' /\ TurnFollowsScreen' /\ FencesFollow'
  BY <1>1, <1>2 DEF ClientInv, PresentIsClients, TurnFollowsScreen, Lit, FencesFollow
<1>6. WaitsForFlip' /\ DrawnOffScreen'
  BY <1>1, <1>2, <1>4 DEF ClientInv, WaitsForFlip, DrawnOffScreen
<1>7. OwnIsLast'
  <2>1. gpu' # <<>> => Len(gpu') \in DOMAIN gpu'
    BY <1>1, <1>3, LenProperties, EmptySeq DEF ClientTypeOK
  <2>2. gpu' # <<>> => gpu'[Len(gpu')] = gpu[Len(gpu)]
    BY <1>3, <1>4, <2>1, QueueFacts
  <2>. QED
    BY <1>1, <1>3, <2>2 DEF ClientInv, OwnIsLast
<1>8. QueueShort'
  <2> SUFFICES ASSUME Lit PROVE QueueShort'
    BY <1>2 DEF QueueShort, Lit
  <2>1. /\ \A i \in DOMAIN gpu' : gpu'[i].buffer \in {turn, current.buffer}
        /\ \A i, j \in DOMAIN gpu' : i # j => gpu'[i].buffer # gpu'[j].buffer
        /\ \A i \in DOMAIN gpu' : gpu'[i].buffer # gpu[1].buffer
    BY <1>4 DEF ClientInv, QueueShort
  <2>2. \A b : Queued(b)' => Queued(b)
    BY <1>4 DEF Queued
  <2>3. gpu[1].buffer = current.buffer => ~Queued(current.buffer)'
    BY <1>2, <2>1 DEF Queued
  <2>. QED
    BY <1>1, <1>2, <2>1, <2>2, <2>3 DEF ClientInv, QueueShort, Lit
<1>. QED
  BY <1>5, <1>6, <1>7, <1>8 DEF ClientInv

LEMMA FlipClient ==
  ASSUME DisplayInv, ClientInv, ClientFlip
  PROVE  ClientInv'
<1>1. /\ inFence /\ flipPending /\ ~flipPending' /\ front' = current
      /\ UNCHANGED <<poweredOff, modeset, sync, pc, frame, buffer, needsModeset, current, releaseFence>>
      /\ UNCHANGED <<step, turn, running, inFence>> /\ glWait' = Done(glWait)
  BY DEF ClientFlip, Flip, displayVars, localVars
<1>2. /\ DOMAIN gpu' = DOMAIN gpu /\ Len(gpu') = Len(gpu) /\ gpu' \in Seq(Drawings)
      /\ \A i \in DOMAIN gpu : gpu'[i].buffer = gpu[i].buffer /\ gpu'[i].wait = Done(gpu[i].wait)
  BY ClearedWaits, QueueFacts DEF ClientFlip, DisplayInv
<1>3. \A i \in DOMAIN gpu : Done(gpu[i].wait) = NoFrame
  BY DEF ClientInv, WaitsForFlip, Done
<1>4. Lit /\ ~Queued(current.buffer)
  BY <1>1 DEF ClientInv, TurnFollowsScreen, QueueShort
<1>5. PresentIsClients' /\ TurnFollowsScreen' /\ FencesFollow'
  BY <1>1 DEF ClientInv, PresentIsClients, TurnFollowsScreen, Lit, FencesFollow
<1>6. WaitsForFlip'
  BY <1>1, <1>2, <1>3 DEF ClientInv, WaitsForFlip, Done
<1>7. DrawnOffScreen'
  <2>1. running => 1 \in DOMAIN gpu
    BY QueueFacts DEF DisplayInv, RunningIsQueued
  <2>. QED
    BY <1>1, <1>2, <1>3, <1>4, <2>1 DEF DrawnOffScreen, Queued
<1>8. OwnIsLast'
  <2>1. gpu' # <<>> => gpu # <<>> /\ Len(gpu) \in DOMAIN gpu
    BY <1>2, QueueFacts, EmptySeq DEF DisplayInv
  <2>. QED
    BY <1>1, <1>2, <2>1 DEF ClientInv, OwnIsLast
<1>9. QueueShort'
  BY <1>1, <1>2, <1>4 DEF ClientInv, QueueShort, Queued, Lit
<1>. QED
  BY <1>5, <1>6, <1>7, <1>8, <1>9 DEF ClientInv

LEMMA OtherThreadsClient ==
  ASSUME NothingFails, DisplayInv, ClientInv, OtherThreads
  PROVE  ClientInv'
<1>1. UNCHANGED clientVars /\ (Connect \/ ShutDown)
  BY DEF OtherThreads, SetDpmsMode, NothingFails
<1>2. /\ pc = "idle" /\ ~flipPending /\ FreshManager
      /\ UNCHANGED <<pc, frame, buffer, needsModeset, flipPending, releaseFence>>
      /\ poweredOff' \/ modeset'
  BY <1>1 DEF Connect, ShutDown, NothingFails, localVars
<1>3. /\ current'.buffer = NoBuffer /\ front'.buffer = NoBuffer /\ sync' = NoFrame
  BY <1>2 DEF FreshManager, BlankScreen
<1>4. UNCHANGED <<step, turn, glWait, gpu, running, inFence>>
  BY <1>1 DEF clientVars
<1>5. PresentIsClients' /\ TurnFollowsScreen' /\ FencesFollow'
  BY <1>2, <1>3, <1>4 DEF ClientInv, PresentIsClients, TurnFollowsScreen, Lit, FencesFollow
<1>6. WaitsForFlip' /\ OwnIsLast' /\ QueueShort'
  BY <1>2, <1>3, <1>4 DEF ClientInv, WaitsForFlip, OwnIsLast, QueueShort, Lit
<1>7. DrawnOffScreen'
  BY <1>3, <1>4, QueueFacts DEF ClientInv, DrawnOffScreen, DisplayInv
<1>. QED
  BY <1>5, <1>6, <1>7 DEF ClientInv

LEMMA ClientStep ==
  ASSUME NothingFails, HasOutFence, DisplayInv, ClientInv, [ClientNext]_allVars
  PROVE  ClientInv'
<1>1. CASE InPresent
  BY <1>1, InPresentSteps, GoesOnClient, ModesetShownClient, FlipQueuedClient
<1>2. CASE UNCHANGED allVars
  <2>1. /\ UNCHANGED <<poweredOff, modeset, sync, pc, frame, buffer, needsModeset>>
        /\ UNCHANGED <<current, front, flipPending, releaseFence>>
        /\ UNCHANGED <<step, turn, glWait, gpu, running, inFence>>
    BY <1>2 DEF allVars, vars, clientVars, displayVars, localVars, kernelVars
  <2>. QED
    BY <2>1 DEF ClientInv, PresentIsClients, TurnFollowsScreen, Lit, WaitsForFlip, DrawnOffScreen,
                OwnIsLast, QueueShort, Queued, FencesFollow
<1>. QED
  BY <1>1, <1>2, WaitReleaseClient, QueueDrawingClient, CallPresentClient, StartDrawingClient,
     FinishDrawingClient, FlipClient, OtherThreadsClient DEF ClientNext

LEMMA ClientInvInit == ClientInit => ClientInv
<1> SUFFICES ASSUME ClientInit PROVE ClientInv
  OBVIOUS
<1>1. DOMAIN gpu = {} /\ Init
  BY QueueFacts, ClientTypeInit DEF ClientInit
<1>2. /\ current.buffer = NoBuffer /\ front = current /\ ~flipPending /\ poweredOff
      /\ pc = "idle" /\ frame = NoFrame /\ \A b \in Buffers : releaseFence[b] = NoFrame
  BY <1>1 DEF Init, BlankScreen
<1>. QED
  BY <1>1, <1>2
     DEF ClientInit, ClientInv, PresentIsClients, TurnFollowsScreen, Lit, WaitsForFlip,
         DrawnOffScreen, OwnIsLast, QueueShort, FencesFollow

LEMMA ClientInvHolds ==
  ASSUME NothingFails, HasOutFence
  PROVE  ClientSpec => [](DisplayInv /\ ClientInv)
<1>1. ClientInit => ClientInv
  BY ClientInvInit
<1>2. DisplayInv /\ ClientInv /\ [ClientNext]_allVars => ClientInv'
  BY ClientStep
<1>. QED
  BY <1>1, <1>2, DisplayInvHolds, PTL DEF ClientSpec

(* With an OUT_FENCE_PTR and nothing failing, the GPU never draws into the *)
(* layers on the screen, however many drawings it has queued, whenever     *)
(* vblanks come and displays come and go: the wait that InsertFence queues *)
(* is for the flip that takes those layers off the screen.                 *)
THEOREM ClientNeverTears ==
  ASSUME NothingFails, HasOutFence
  PROVE  ClientSpec => []NoTearing
<1>1. DisplayInv /\ ClientInv => NoTearing
  <2> SUFFICES ASSUME DisplayInv, ClientInv, running PROVE gpu[1].buffer # front.buffer
    BY DEF NoTearing
  <2>1. 1 \in DOMAIN gpu
    BY QueueFacts DEF DisplayInv, RunningIsQueued
  <2>. QED
    BY <2>1 DEF ClientInv, DrawnOffScreen
<1>. QED
  BY <1>1, ClientInvHolds, PTL

(* The client never waits for a release fence: the layers it comes back to *)
(* were let go by the Present of those after them.                         *)
THEOREM ClientNeverWaits ==
  ASSUME NothingFails, HasOutFence
  PROVE  ClientSpec => []ReleaseNeverBlocks
<1>1. DisplayInv /\ ClientInv => ReleaseNeverBlocks
  <2> SUFFICES ASSUME DisplayInv, ClientInv, step = "wait" PROVE Released(releaseFence[turn])
    BY DEF ReleaseNeverBlocks
  <2>1. frame = NoFrame
    BY DEF ClientInv, PresentIsClients
  <2>2. turn \in Buffers /\ turn # current.buffer
    BY TurnIsAnother DEF DisplayInv, ClientTypeOK, ClientInv
  <2>3. releaseFence[turn] # NoFrame => releaseFence[turn] # sync
    BY <2>2 DEF ClientInv, FencesFollow
  <2>. QED
    BY <2>1, <2>3 DEF Released
<1>. QED
  BY <1>1, ClientInvHolds, PTL

=============================================================================
