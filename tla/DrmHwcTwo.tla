----------------------------- MODULE DrmHwcTwo -----------------------------
(***************************************************************************)
(* The Android front end: HwcDisplay keeps the layers SurfaceFlinger       *)
(* creates, validates how they are to be composed, and presents them in    *)
(* z-order to the display below it.  That is an internal display, of which *)
(* only what DisplayContract promises is used, the headless one, or the    *)
(* virtual one, which draws into a buffer it is given.  SurfaceFlinger     *)
(* calls in from one thread; it and the applications whose buffers the     *)
(* layers show are modelled from what the hooks expect of them.            *)
(* SurfaceFlinger passes an application's fence on to the buffer that the  *)
(* one just presented replaces.                                            *)
(***************************************************************************)
EXTENDS Integers, FiniteSetsExt, SequencesExt

CONSTANTS
    MaxLayers,     \* bound: the layers ever created
    NumBuffers,    \* the buffers of an application's queue
    Kinds,         \* what the display below may be
    Frames, NoFrame

ASSUME SizesAssumption == MaxLayers \in Nat /\ NumBuffers \in Nat
ASSUME KindsAssumption == Kinds \subseteq {"internal", "headless", "virtual"}
ASSUME FramesAssumption == NoFrame \notin Frames

VARIABLES
    kind,          \* the class of display_
    created,       \* displays_ holds the HwcDisplay
    layers,        \* the keys of layers_
    layerIdx,      \* layer_idx_
    sfType,        \* sf_type_
    validatedType, \* validated_type_
    zOrder,        \* z_order_
    nativeHandle,  \* native_handle_.handle_: the layer's buffer, 0 for none
    releaseFence,  \* the layers with a release_fence of the last frame
    shown, next, held, \* the display: DisplayContract
    presented,     \* the frames' layers and buffers, from the bottom up
    outputHandle,  \* output_handle_ of the virtual display, 0 before the first
    drawn,         \* what the virtual display has drawn into each output buffer
    phase,         \* SurfaceFlinger: how far this refresh has come
    given,         \* the layers whose type, and whose buffer, HWC was given
    told,          \* the composition type SurfaceFlinger goes by
    latched,       \* the buffer of each layer it shows
    replaced,      \* the buffer that one took the place of
    buffer,        \* what the application does with each buffer
    guarded        \* the buffers that the fence of the last frame guards

deviceVars == <<kind, created>>
idVars == <<deviceVars, layers, layerIdx>>
layerVars == <<layers, layerIdx, sfType, validatedType, zOrder, nativeHandle, releaseFence>>
outputVars == <<outputHandle, drawn>>
displayVars == <<shown, next, held, presented, outputVars>>
appVars == <<buffer, guarded>>
refreshVars == <<phase, given, told, latched, replaced>>
vars == <<deviceVars, layerVars, displayVars, refreshVars, appVars>>

ClientLayer == 0   \* client_layer_
Layers == 1..MaxLayers
Handles == 1..NumBuffers
Targets == {1, 2}
Types == {"Invalid", "Client", "Device", "SolidColor"}

Display == INSTANCE DisplayContract

Init ==
    /\ kind \in Kinds /\ created = FALSE
    /\ layers = {} /\ layerIdx = 0
    /\ sfType = [l \in Layers |-> "Invalid"]
    /\ validatedType = [l \in Layers |-> "Invalid"]
    /\ zOrder = [l \in Layers |-> 0]
    /\ nativeHandle = [l \in Layers \cup {ClientLayer} |-> 0]
    /\ releaseFence = {}
    /\ Display!Init
    /\ presented = [f \in Frames |-> <<>>]
    /\ outputHandle = 0 /\ drawn = [k \in Targets |-> <<>>]
    /\ phase = "idle" /\ given = [l \in Layers |-> {}]
    /\ told = [l \in Layers |-> "Invalid"]
    /\ latched = [l \in Layers |-> 0] /\ replaced = [l \in Layers |-> 0]
    /\ buffer = [l \in Layers |-> [k \in Handles |-> "free"]]
    /\ guarded = {}

-----------------------------------------------------------------------------
(* The applications and the display.                                       *)

(* An application draws into a buffer that was returned to it, once the    *)
(* fence that came with it is signalled, and queues it.  The buffers it    *)
(* may use are alike: it takes the first.                                  *)
Drawable(l) == {k \in Handles : buffer[l][k] = "free" /\ <<l, k>> \notin guarded}
StartDrawing(l, k) ==
    /\ l \in layers
    /\ k \in Drawable(l) /\ k = Min(Drawable(l))
    /\ \A j \in Handles : buffer[l][j] \notin {"drawing", "queued"}
    /\ buffer' = [buffer EXCEPT ![l][k] = "drawing"]
    /\ UNCHANGED <<deviceVars, layerVars, displayVars, refreshVars, guarded>>

FinishDrawing(l, k) ==
    /\ buffer[l][k] = "drawing"
    /\ buffer' = [buffer EXCEPT ![l][k] = "queued"]
    /\ UNCHANGED <<deviceVars, layerVars, displayVars, refreshVars, guarded>>

Vblank ==
    /\ Display!Vblank
    /\ presented' = [f \in Frames |-> IF f = shown THEN <<>> ELSE presented[f]]
    /\ UNCHANGED <<deviceVars, layerVars, outputVars, refreshVars, appVars>>

-----------------------------------------------------------------------------
(* SurfaceFlinger between two refreshes.                                   *)
(* HwcDisplay::Init gets the display it is to work on for good: the first  *)
(* one of the device, which is headless when no monitor is connected.      *)
HwcDisplayInit ==
    /\ ~created /\ created' = TRUE
    /\ UNCHANGED <<kind, layerVars, displayVars, refreshVars, appVars>>

HookDevOpen == kind # "virtual" /\ HwcDisplayInit

(* A virtual display comes and goes.  The VirtualDisplay below it, and     *)
(* with it output_handle_, outlives it.                                    *)
CreateVirtualDisplay == kind = "virtual" /\ HwcDisplayInit

DestroyVirtualDisplay ==
    /\ kind = "virtual" /\ created /\ phase = "idle"
    /\ created' = FALSE
    /\ layers' = {} /\ layerIdx' = 0
    /\ sfType' = [l \in Layers |-> "Invalid"]
    /\ validatedType' = [l \in Layers |-> "Invalid"]
    /\ zOrder' = [l \in Layers |-> 0]
    /\ nativeHandle' = [l \in Layers \cup {ClientLayer} |-> 0]
    /\ releaseFence' = {}
    /\ told' = [l \in Layers |-> "Invalid"]
    /\ latched' = [l \in Layers |-> 0]
    /\ buffer' = [l \in Layers |-> [k \in Handles |-> "free"]]
    /\ UNCHANGED <<kind, displayVars, phase, given, replaced, guarded>>

(* A layer is created and given its place.                                 *)
SameIdx == layerIdx
NextIdx == layerIdx + 1
CreateLayer(z) ==
    /\ created /\ phase = "idle" /\ layerIdx < MaxLayers
    /\ \A l \in layers : zOrder[l] # z
    /\ layerIdx' = NextIdx
    /\ layers' = layers \cup {layerIdx + 1}
    /\ zOrder' = [zOrder EXCEPT ![layerIdx + 1] = z]
    /\ UNCHANGED <<deviceVars, sfType, validatedType, nativeHandle, releaseFence, displayVars,
                   refreshVars, appVars>>

(* The layer goes, and with it its fence.                                  *)
DestroyLayer(l) ==
    /\ phase = "idle" /\ l \in layers
    /\ layers' = layers \ {l}
    /\ releaseFence' = releaseFence \ {l}
    /\ buffer' = [buffer EXCEPT ![l] = [k \in Handles |-> "free"]]
    /\ guarded' = {b \in guarded : b[1] # l}
    /\ latched' = [latched EXCEPT ![l] = 0]
    /\ sfType' = [sfType EXCEPT ![l] = "Invalid"] /\ told' = [told EXCEPT ![l] = "Invalid"]
    /\ validatedType' = [validatedType EXCEPT ![l] = "Invalid"]
    /\ zOrder' = [zOrder EXCEPT ![l] = 0] /\ nativeHandle' = [nativeHandle EXCEPT ![l] = 0]
    /\ UNCHANGED <<deviceVars, layerIdx, displayVars, phase, given, replaced>>

(* A refresh begins, for a new buffer or for any other reason.             *)
BeginRefresh ==
    /\ phase = "idle" /\ layers # {}
    /\ phase' = "setup"
    /\ UNCHANGED <<deviceVars, layerVars, displayVars, given, told, latched, replaced, appVars>>

-----------------------------------------------------------------------------
(* A refresh.  One layer after the other gets its type and then its        *)
(* buffer: the newest, or the one before once more.  A layer without any   *)
(* has a colour.                                                           *)
Current == Min({l \in layers : given[l] # {"type", "buffer"}} \cup {MaxLayers + 1})
HasContent(l) == latched[l] # 0 \/ \E k \in Handles : buffer[l][k] = "queued"

SetLayerCompositionType(l, t) ==
    /\ phase = "setup" /\ l = Current /\ given[l] = {}
    /\ t \in (IF HasContent(l) THEN {"Device", "Client"} ELSE {"SolidColor"})
    /\ sfType' = [sfType EXCEPT ![l] = t]
    /\ told' = [told EXCEPT ![l] = t]
    /\ given' = [given EXCEPT ![l] = {"type"}]
    /\ UNCHANGED <<idVars, validatedType, zOrder, nativeHandle, releaseFence,
                   displayVars, phase, latched, replaced, appVars>>

(* The layer has a colour in place of a buffer.  SetLayerColor leaves it   *)
(* to the client, as if that had been asked for.                           *)
SetLayerColor(l) ==
    /\ phase = "setup" /\ l = Current /\ given[l] = {"type"} /\ told[l] = "SolidColor"
    /\ sfType' = [sfType EXCEPT ![l] = "Client"]
    /\ given' = [given EXCEPT ![l] = {"type", "buffer"}]
    /\ UNCHANGED <<idVars, validatedType, zOrder, nativeHandle, releaseFence, displayVars,
                   phase, told, latched, replaced, appVars>>

(* SetLayerBuffer ignores the buffer of a layer that it will not show.     *)
WasElsewhere(l) == validatedType[l] \in {"Client", "SolidColor"}
Elsewhere(l) == sfType[l] \in {"Client", "SolidColor"}

Newest(l, k) ==
    IF \E j \in Handles : buffer[l][j] = "queued" THEN buffer[l][k] = "queued" ELSE k = latched[l]

SetLayerBuffer(l, k) ==
    /\ phase = "setup" /\ l = Current /\ given[l] = {"type"} /\ told[l] # "SolidColor"
    /\ Newest(l, k)
    /\ nativeHandle' = IF Elsewhere(l) THEN nativeHandle ELSE [nativeHandle EXCEPT ![l] = k]
    /\ given' = [given EXCEPT ![l] = {"type", "buffer"}]
    /\ latched' = [latched EXCEPT ![l] = k]
    /\ replaced' = [replaced EXCEPT ![l] = IF latched[l] = k THEN 0 ELSE latched[l]]
    /\ buffer' = [buffer EXCEPT ![l][k] = "latched"]
    /\ UNCHANGED <<idVars, sfType, validatedType, zOrder, releaseFence,
                   displayVars, phase, told, guarded>>

(* Colours, and everything on a virtual display, are left to the client.   *)
AnswerPhysical(l) == IF sfType[l] = "SolidColor" THEN "Client" ELSE sfType[l]
Answer(l) == IF kind = "virtual" \/ sfType[l] = "SolidColor" THEN "Client" ELSE sfType[l]

ValidateDisplay ==
    /\ phase = "setup" /\ \A l \in layers : given[l] = {"type", "buffer"}
    /\ validatedType' = [l \in Layers |->
            IF l \in layers THEN Answer(l) ELSE validatedType[l]]
    /\ phase' = "validated"
    /\ UNCHANGED <<idVars, sfType, zOrder, nativeHandle, releaseFence,
                   displayVars, given, told, latched, replaced, appVars>>

(* GetChangedCompositionTypes names the layers whose type was changed, and *)
(* AcceptDisplayChanges makes the change theirs.                           *)
Drawn == IF kind = "virtual" THEN "output" ELSE "present"
TypeChanged(l) == sfType[l] # validatedType[l]
AcceptDisplayChanges ==
    /\ phase = "validated"
    /\ told' = [l \in Layers |-> IF l \in layers /\ TypeChanged(l) THEN validatedType[l] ELSE told[l]]
    /\ sfType' = [l \in Layers |-> IF l \in layers THEN validatedType[l] ELSE sfType[l]]
    /\ phase' = IF \E l \in layers : told'[l] = "Client" THEN "target" ELSE Drawn
    /\ UNCHANGED <<idVars, validatedType, zOrder, nativeHandle, releaseFence,
                   displayVars, given, latched, replaced, appVars>>

(* SurfaceFlinger draws its layers into the other of its targets, in the   *)
(* GL context that InsertFence made wait for the flip before.              *)
GlWaited == next = NoFrame

SetClientTarget(k) ==
    /\ phase = "target"
    /\ k \in Targets \ {nativeHandle[ClientLayer]}
    /\ GlWaited
    /\ nativeHandle' = [nativeHandle EXCEPT ![ClientLayer] = k]
    /\ phase' = Drawn
    /\ UNCHANGED <<idVars, sfType, validatedType, zOrder, releaseFence,
                   displayVars, given, told, latched, replaced, appVars>>

(* A virtual display is given the buffer to draw into.                     *)
SetOutputBuffer(k) ==
    /\ phase = "output"
    /\ outputHandle' = k
    /\ phase' = "present"
    /\ UNCHANGED <<deviceVars, layerVars, shown, next, held, presented, drawn,
                   given, told, latched, replaced, appVars>>

(* The layers the display is to show, each as <<layer, buffer>>: the       *)
(* Device layers, and the client's target in the place of the highest      *)
(* Client layer, in z-order.  Of two at one z-order the first is kept.     *)
ClientLayers == {l \in layers : validatedType[l] = "Client"}
DeviceLayers == {l \in layers : validatedType[l] = "Device"}
ClientZOrder == Max({zOrder[l] : l \in ClientLayers})

Depth(l) == IF l = ClientLayer THEN ClientZOrder ELSE zOrder[l]
Candidates ==
    DeviceLayers \cup
        (IF ClientLayers # {} /\ nativeHandle[ClientLayer] # 0 THEN {ClientLayer} ELSE {})
Kept == {l \in Candidates : \A m \in Candidates \ {l} :
            Depth(m) = Depth(l) => l # ClientLayer /\ (l < m \/ m = ClientLayer)}
ZMap == CHOOSE s \in SetToSeqs(Kept) :
            \A i, j \in DOMAIN s : i < j => Depth(s[i]) < Depth(s[j])
Picture == [i \in DOMAIN ZMap |-> <<ZMap[i], nativeHandle[ZMap[i]]>>]

(* A new frame signals the fences of the one before.                       *)
FencesSignalled == guarded' = {}

(* InternalDisplay::Present: the first frame carries the modeset and gets  *)
(* no release fences, all others are queued.                               *)
PresentOnScreen ==
    \E f \in Frames \ {shown, next} :
        /\ \A g \in Frames \ {shown, next} : f <= g
        /\ presented' = [presented EXCEPT ![f] = Picture]
        /\ IF shown = NoFrame
             THEN /\ Display!Set(f)
                  /\ releaseFence' = releaseFence \ ToSet(ZMap)
                  /\ UNCHANGED guarded
             ELSE /\ Display!Queue(f)
                  /\ releaseFence' = releaseFence \cup ToSet(ZMap)
                  /\ FencesSignalled
        /\ UNCHANGED outputVars

(* Compositor::DrawOffscreen draws the layers into the output buffer, or   *)
(* finds nothing to draw: nobody has told the virtual display where the    *)
(* client's target goes, as SetActiveConfig fails on it.                   *)
DrawOffscreen == drawn' \in {drawn, [drawn EXCEPT ![outputHandle] = Picture]}

(* VirtualDisplay::Present takes the layers' fences and gives none.        *)
PresentOffscreen ==
    /\ DrawOffscreen
    /\ releaseFence' = releaseFence \ ToSet(ZMap)
    /\ UNCHANGED <<shown, next, held, presented, outputHandle, guarded>>

(* With no layers Present is not called, and Headless::Present is empty.   *)
PresentDisplay ==
    /\ phase = "present"
    /\ phase' = "fences"
    /\ IF Picture = <<>> \/ kind = "headless"
         THEN UNCHANGED <<displayVars, releaseFence, guarded>>
         ELSE \/ kind = "internal" /\ PresentOnScreen
              \/ kind = "virtual" /\ PresentOffscreen
    /\ UNCHANGED <<idVars, sfType, validatedType, zOrder, nativeHandle,
                   given, told, latched, replaced, buffer>>

(* GetReleaseFences hands each layer's fence over.  It guards the buffer   *)
(* that was replaced, which goes back to its application, or else the one  *)
(* that stays.                                                             *)
Fenced(l) == <<l, IF replaced[l] # 0 THEN replaced[l] ELSE latched[l]>>
NoneHanded == {}
HandedOver == releaseFence \cap layers

GetReleaseFences ==
    /\ phase = "fences"
    /\ releaseFence' = releaseFence \ layers
    /\ guarded' = guarded \cup {Fenced(l) : l \in HandedOver}
    /\ buffer' = [l \in Layers |-> [k \in Handles |-> IF replaced[l] = k THEN "free" ELSE buffer[l][k]]]
    /\ replaced' = [l \in Layers |-> 0]
    /\ phase' = "idle" /\ given' = [l \in Layers |-> {}]
    /\ UNCHANGED <<idVars, sfType, validatedType, zOrder, nativeHandle,
                   displayVars, told, latched>>

-----------------------------------------------------------------------------
Refresh ==
    \/ \E l \in Layers, t \in Types : SetLayerCompositionType(l, t)
    \/ \E l \in Layers : SetLayerColor(l)
    \/ \E l \in Layers, k \in Handles : SetLayerBuffer(l, k)
    \/ ValidateDisplay
    \/ AcceptDisplayChanges
    \/ \E k \in Targets : SetClientTarget(k) \/ SetOutputBuffer(k)
    \/ PresentDisplay
    \/ GetReleaseFences

Next ==
    \/ \E l \in Layers, k \in Handles : StartDrawing(l, k) \/ FinishDrawing(l, k)
    \/ Vblank
    \/ HookDevOpen
    \/ CreateVirtualDisplay
    \/ DestroyVirtualDisplay
    \/ \E z \in 1..MaxLayers : CreateLayer(z)
    \/ \E l \in Layers : DestroyLayer(l)
    \/ BeginRefresh
    \/ Refresh

Spec == Init /\ [][Next]_vars

-----------------------------------------------------------------------------
Pictures == Seq((Layers \cup {ClientLayer}) \X Nat)

(* Every variable has its type; each layer has a key that was given out,   *)
(* and no layer is validated as a colour.                                  *)
TypeOK ==
    /\ kind \in Kinds /\ created \in BOOLEAN
    /\ layers \subseteq 1..layerIdx /\ layerIdx \in 0..MaxLayers
    /\ sfType \in [Layers -> Types] /\ validatedType \in [Layers -> Types \ {"SolidColor"}]
    /\ zOrder \in [Layers -> 0..MaxLayers]
    /\ nativeHandle \in [Layers \cup {ClientLayer} -> Nat]
    /\ releaseFence \subseteq Layers \cup {ClientLayer}
    /\ {shown, next, held} \subseteq Frames \cup {NoFrame}
    /\ presented \in [Frames -> Pictures]
    /\ outputHandle \in Targets \cup {0} /\ drawn \in [Targets -> Pictures]
    /\ phase \in {"idle", "setup", "validated", "target", "output", "present", "fences"}
    /\ given \in [Layers -> SUBSET {"type", "buffer"}]
    /\ told \in [Layers -> Types]
    /\ latched \in [Layers -> 0..NumBuffers] /\ replaced \in [Layers -> 0..NumBuffers]
    /\ buffer \in [Layers -> [Handles -> {"free", "drawing", "queued", "latched"}]]
    /\ guarded \subseteq Layers \X Handles

Newer == IF next # NoFrame THEN next ELSE shown
Places(l) == {i \in DOMAIN presented[Newer] : presented[Newer][i][1] = l}
JustPresented == phase = "fences" /\ kind = "internal" /\ Picture # <<>>

(* What a refresh presents is what SurfaceFlinger composed it for: each    *)
(* layer it left to the display once, with its newest buffer, none that it *)
(* drew itself, in z-order, and its target above every layer in it.        *)
ShownAsAgreed ==
    JustPresented =>
        LET pic == presented[Newer]
        IN  /\ \A l \in layers :
                 /\ told[l] = "Device" =>
                        \E i \in Places(l) : Places(l) = {i} /\ pic[i][2] = latched[l]
                 /\ told[l] = "Client" => Places(l) = {} /\ Places(ClientLayer) # {}
            /\ \A i, j \in DOMAIN pic : i < j =>
                 LET below == IF pic[i][1] = ClientLayer
                                THEN {l \in layers : told[l] = "Client"} ELSE {pic[i][1]}
                 IN  pic[j][1] # ClientLayer => \A l \in below : zOrder[l] < zOrder[pic[j][1]]

(* A layer that SurfaceFlinger leaves to the display as a colour is shown, *)
(* or SurfaceFlinger has been told to draw it.                             *)
ColoursAreComposed ==
    JustPresented => \A l \in layers : told[l] = "SolidColor" => Places(l) # {}

(* VirtualDisplay::Present keeps pointers into a vector that moves when it *)
(* gets a second layer.  Whatever layers there are and however their types *)
(* have changed, it is given the client's target and nothing else, and no  *)
(* buffer of an application reaches an output buffer directly.             *)
OneLayerOffscreen ==
    kind = "virtual" =>
        /\ phase = "present" => Len(Picture) <= 1
        /\ \A k \in Targets : \A i \in DOMAIN drawn[k] : drawn[k][i][1] = ClientLayer

InPicture(f, b) == f # NoFrame /\ \E i \in DOMAIN presented[f] : presented[f][i] = b
LayerInPicture(f, l) == f # NoFrame /\ \E i \in DOMAIN presented[f] : presented[f][i][1] = l

(* No application draws into a buffer that is on the screen or about to    *)
(* be.  The one exception is a layer SurfaceFlinger has just taken over:   *)
(* it is in no frame that could give it a fence, and free until the        *)
(* vblank removes it from the screen.  Nor is a client target that is      *)
(* shown ever drawn into.                                                  *)
NoTearing ==
    /\ \A l \in layers, k \in Handles :
         buffer[l][k] = "drawing" =>
            /\ ~InPicture(next, <<l, k>>)
            /\ InPicture(shown, <<l, k>>) => next # NoFrame /\ ~LayerInPicture(next, l)
    /\ phase = "present" /\ (\E l \in layers : told[l] = "Client") =>
         ~InPicture(shown, <<ClientLayer, nativeHandle[ClientLayer]>>)

=============================================================================
