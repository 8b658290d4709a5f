---------------------------- MODULE FrameClient ----------------------------
(***************************************************************************)
(* FramePipeline with the render loop of the test clients (kmscube,        *)
(* jsonlayerstest): a single thread that takes its sets of layers in turn, *)
(* waits for their release fence, queues the drawing on the GPU and calls  *)
(* Present; and with the GPU, which runs what is queued in order and whose *)
(* completion is the acquire fence that holds back the flip.               *)
(***************************************************************************)
EXTENDS FramePipeline, Sequences

CONSTANT MaxQueued  \* bound: the drawings that may be waiting for the GPU

VARIABLES
    step,      \* where the client's loop is
    turn,      \* the layers of this round: frames[i % 2]
    glWait,    \* the flip that InsertFence made the GL context wait for
    gpu,       \* the drawings queued on the GPU: [buffer, wait]
    running,   \* the first of them is being executed
    inFence    \* kernel: the acquire fences of the last commit are signalled

clientVars == <<step, turn, glWait, gpu, running, inFence>>

ASSUME MaxQueuedAssumption == MaxQueued \in Nat \ {0}
(* frames[2]: the client has more than one set of layers, numbered from 0. *)
ASSUME TurnsAssumption ==
    /\ Cardinality(Buffers) \in Nat \ {0, 1}
    /\ Buffers = 0..(Cardinality(Buffers) - 1)

ClientInit ==
    /\ Init
    /\ step = "wait" /\ turn = 0
    /\ glWait = NoFrame /\ gpu = <<>> /\ running = FALSE
    /\ inFence = TRUE

Queued(b) == \E i \in DOMAIN gpu : gpu[i].buffer = b

(* A fence is unsignalled as long as its NativeSync lives.                 *)
Released(f) == f \notin {sync, frame} \ {NoFrame}

(* sync_wait on the release fence of the layers, which are then free.      *)
WaitRelease ==
    /\ step = "wait"
    /\ Released(releaseFence[turn])
    /\ releaseFence' = [releaseFence EXCEPT ![turn] = NoFrame]
    /\ step' = "draw"
    /\ UNCHANGED <<displayVars, outFence, surfaceVars, bufferVars, sync, enabled, pc,
                   localVars, kernelVars, turn, glWait, gpu, running, inFence>>

(* The GL context waits for the flip it was told of before it draws.       *)
QueueDrawing ==
    /\ step = "draw" /\ Len(gpu) < MaxQueued
    /\ gpu' = Append(gpu, [buffer |-> turn, wait |-> glWait])
    /\ step' = "present"
    /\ UNCHANGED <<vars, turn, glWait, running, inFence>>

StartDrawing ==
    /\ gpu # <<>> /\ ~running /\ gpu[1].wait = NoFrame
    /\ running' = TRUE
    /\ UNCHANGED <<vars, step, turn, glWait, gpu, inFence>>

FinishDrawing ==
    /\ running
    /\ running' = FALSE
    /\ gpu' = Tail(gpu)
    /\ inFence' = (inFence \/ gpu[1].buffer = current.buffer)
    /\ UNCHANGED <<vars, step, turn, glWait>>

NextRound == step' = "wait" /\ turn' = (turn + 1) % Cardinality(Buffers)

CallPresent ==
    /\ step = "present"
    /\ \/ BeginPresent(turn) /\ step' = "presenting" /\ UNCHANGED turn
       \/ ImportFails(turn) /\ NextRound
       \/ poweredOff /\ pc = "idle" /\ NextRound /\ UNCHANGED vars
    /\ UNCHANGED <<glWait, gpu, running, inFence>>

(* Present runs in the client's thread.  A commit hands the kernel the     *)
(* acquire fences; a modeset returns when they are signalled and the frame *)
(* is on the screen; after a flip InsertFence queues a wait for it in the  *)
(* GL context that is current, which Draw has restored to the client's.    *)
KeepGlWait == UNCHANGED glWait
InsertFence == glWait' = outFence'

Flips == flipPending' /\ ~flipPending

InPresent ==
    /\ PresentStep
    /\ pc = "commit" /\ needsModeset => ~Queued(buffer)
    /\ IF pc' = "idle" THEN NextRound ELSE UNCHANGED <<step, turn>>
    /\ IF Flips /\ outFence' # NoFrame THEN InsertFence ELSE UNCHANGED glWait
    /\ inFence' = IF Flips THEN ~Queued(buffer) ELSE inFence
    /\ UNCHANGED <<gpu, running>>

(* The flip signals the fences that wait for it.                           *)
Done(f) == IF f = current.frame THEN NoFrame ELSE f

ClientFlip ==
    /\ inFence
    /\ Flip
    /\ glWait' = Done(glWait)
    /\ gpu' = [i \in DOMAIN gpu |-> [gpu[i] EXCEPT !.wait = Done(@)]]
    /\ UNCHANGED <<step, turn, running, inFence>>

OtherThreads ==
    /\ Connect \/ ShutDown \/ \E mode \in {"ON", "OFF"} : SetDpmsMode(mode)
    /\ UNCHANGED clientVars

ClientNext ==
    \/ WaitRelease \/ QueueDrawing \/ CallPresent \/ InPresent
    \/ StartDrawing \/ FinishDrawing
    \/ ClientFlip \/ OtherThreads

allVars == <<vars, clientVars>>

(* The client, the GPU and the vblanks go on; displays need not come or go. *)
ClientSpec ==
    /\ ClientInit /\ [][ClientNext]_allVars
    /\ WF_allVars(WaitRelease \/ QueueDrawing \/ CallPresent \/ InPresent)
    /\ WF_allVars(StartDrawing \/ FinishDrawing)
    /\ WF_allVars(ClientFlip)

-----------------------------------------------------------------------------
(* Every variable holds a value of its type.                               *)
ClientTypeOK ==
    /\ TypeOK
    /\ step \in {"wait", "draw", "present", "presenting"}
    /\ turn \in Buffers
    /\ glWait \in Frames \cup {NoFrame}
    /\ gpu \in Seq([buffer : Buffers, wait : Frames \cup {NoFrame}])
    /\ running \in BOOLEAN /\ inFence \in BOOLEAN

(* The GPU never draws into a buffer the display is scanning out.  The      *)
(* release fence alone does not see to it: it is signalled when the next    *)
(* frame is queued, a vblank before that frame replaces this one.           *)
NoTearing ==
    running => ~(front.buffer = gpu[1].buffer /\ \E p \in Planes : front.src[p] = ClientBuffer)

(* With two sets of layers and no failure the client's thread never blocks  *)
(* on a release fence: the set it returns to was let go by the Present of   *)
(* the other one.                                                           *)
ReleaseNeverBlocks == step = "wait" => Released(releaseFence[turn])

(* Client, GPU and display never wait for each other in a circle: what is   *)
(* presented on a display that stays on reaches the screen.                 *)
PresentedIsShown ==
    \A b \in Buffers :
        (step = "presenting" /\ turn = b) ~> (front.buffer = b \/ poweredOff)
=============================================================================
