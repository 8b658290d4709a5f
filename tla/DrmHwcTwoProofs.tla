-------------------------- MODULE DrmHwcTwoProofs --------------------------
(***************************************************************************)
(* Proofs about DrmHwcTwo, for any number of layers and buffers and every  *)
(* kind of display: what a refresh presents is what SurfaceFlinger was     *)
(* told, nobody draws into a buffer that is on the screen, and the virtual *)
(* display gets one layer.                                                 *)
(***************************************************************************)
EXTENDS DrmHwcTwo, OrderLemmas

USE SizesAssumption, KindsAssumption, FramesAssumption

-----------------------------------------------------------------------------
(* The z-order of a refresh.                                               *)

(* The client's target stands where the highest of its layers is.          *)
LEMMA ClientZOrderIsHighest ==
  ASSUME TypeOK, ClientLayers # {}
  PROVE  /\ ClientZOrder \in Nat
         /\ \E l \in ClientLayers : zOrder[l] = ClientZOrder
         /\ \A l \in ClientLayers : zOrder[l] <= ClientZOrder
<1> DEFINE S == {zOrder[l] : l \in ClientLayers}
<1>1. layers \subseteq Layers
  BY DEF TypeOK, Layers
<1>2. S \in SUBSET (0..MaxLayers)
  BY <1>1 DEF TypeOK, ClientLayers
<1>3. S # {}
  OBVIOUS
<1> HIDE DEF S
<1>4. Max(S) \in S /\ \A y \in S : y <= Max(S)
  BY <1>2, <1>3, MaxOfNaturals
<1> USE DEF S
<1>5. ClientZOrder = Max(S)
  BY DEF ClientZOrder
<1>. QED
  BY <1>2, <1>4, <1>5

LEMMA KeptType ==
  ASSUME TypeOK
  PROVE  /\ layers \subseteq Layers
         /\ Kept \subseteq layers \cup {ClientLayer}
         /\ Kept \subseteq Layers \cup {ClientLayer}
         /\ IsFiniteSet(Kept)
         /\ \A l \in Candidates : Depth(l) \in Nat
         /\ \A l, m \in Kept : l # m => Depth(l) # Depth(m)
<1>1. layers \subseteq Layers
  BY DEF TypeOK, Layers
<1>2. Candidates \subseteq layers \cup {ClientLayer}
  BY DEF Candidates, DeviceLayers
<1>3. Kept \subseteq Candidates
  BY DEF Kept
<1>4. Kept \in SUBSET (0..MaxLayers)
  BY <1>1, <1>2, <1>3 DEF Layers, ClientLayer
<1>5. IsFiniteSet(0..MaxLayers)
  BY FS_Interval
<1>6. IsFiniteSet(Kept)
  BY <1>4, <1>5, FS_Subset
<1>7. ASSUME NEW l \in Candidates
      PROVE  Depth(l) \in Nat
  <2>1. CASE l = ClientLayer
    <3>1. ClientLayers # {}
      BY <2>1, <1>1 DEF Candidates, DeviceLayers, ClientLayer, Layers
    <3>. QED
      BY <2>1, <3>1, ClientZOrderIsHighest DEF Depth
  <2>2. CASE l # ClientLayer
    BY <1>1, <1>2, <2>2 DEF Depth, TypeOK
  <2>. QED
    BY <2>1, <2>2
<1>8. ASSUME NEW l \in Kept, NEW m \in Kept, l # m
      PROVE  Depth(l) # Depth(m)
  <2>1. SUFFICES ASSUME Depth(l) = Depth(m) PROVE FALSE
    OBVIOUS
  <2>2. /\ l # ClientLayer /\ (l < m \/ m = ClientLayer)
        /\ m # ClientLayer /\ (m < l \/ l = ClientLayer)
    BY <2>1, <1>3, <1>8 DEF Kept
  <2>. QED
    BY <2>2, <1>4
<1>. QED
  BY <1>1, <1>2, <1>3, <1>4, <1>6, <1>7, <1>8 DEF Layers, ClientLayer

(* What the picture of a refresh holds: each layer that is kept, once,     *)
(* with its buffer, and the deeper ones first.                             *)
PictureHolds ==
    /\ Picture \in Pictures
    /\ DOMAIN Picture = 1..Len(Picture) /\ Len(Picture) = Cardinality(Kept) /\ Len(Picture) \in Nat
    /\ ToSet(ZMap) = Kept
    /\ \A i \in DOMAIN Picture :
          Picture[i][1] \in Kept /\ Picture[i] = <<Picture[i][1], nativeHandle[Picture[i][1]]>>
    /\ \A l \in Kept : \E i \in DOMAIN Picture : Picture[i] = <<l, nativeHandle[l]>>
    /\ \A i, j \in DOMAIN Picture : i < j => Depth(Picture[i][1]) < Depth(Picture[j][1])

LEMMA PictureIsSorted ==
  ASSUME TypeOK
  PROVE  PictureHolds
<1> DEFINE n == Cardinality(Kept)
           d == [l \in Kept |-> Depth(l)]
<1>1. n \in Nat
  BY KeptType, FS_CardinalityType
<1>2. Kept \subseteq Candidates
  BY DEF Kept
<1>3. d \in [Kept -> Nat] /\ \A x, y \in Kept : x # y => d[x] # d[y]
  BY <1>2, KeptType
<1>4. \E s \in SetToSeqs(Kept) : \A i, j \in DOMAIN s : i < j => d[s[i]] < d[s[j]]
  <2> HIDE DEF d
  <2>. QED
    BY <1>3, KeptType, OrderExists
<1>5. \A s \in SetToSeqs(Kept) : s \in [1..n -> Kept] /\ \A i, j \in 1..n : i # j => s[i] # s[j]
  BY DEF SetToSeqs
<1>6. \E s \in SetToSeqs(Kept) : \A i, j \in DOMAIN s : i < j => Depth(s[i]) < Depth(s[j])
  BY <1>4, <1>5
<1>7. ZMap \in SetToSeqs(Kept) /\ \A i, j \in DOMAIN ZMap : i < j => Depth(ZMap[i]) < Depth(ZMap[j])
  BY <1>6 DEF ZMap
<1>8. ZMap \in [1..n -> Kept] /\ DOMAIN ZMap = 1..n /\ \A i, j \in 1..n : i # j => ZMap[i] # ZMap[j]
  BY <1>5, <1>7
<1> HIDE DEF d
<1>9. ZMap \in Surjection(1..n, Kept)
  <2>1. ZMap \in Injection(1..n, Kept)
    BY <1>8 DEF Injection, IsInjective
  <2>2. IsFiniteSet(Kept) /\ Cardinality(1..n) = n
    BY <1>1, KeptType, FS_Interval
  <2>. QED
    BY <2>1, <2>2, FS_Injection
<1>10. \A l \in Kept : \E i \in 1..n : ZMap[i] = l
  BY <1>9 DEF Surjection
<1>11. Picture = [i \in 1..n |-> <<ZMap[i], nativeHandle[ZMap[i]]>>]
  BY <1>8 DEF Picture
<1>12. \A l \in Kept : l \in Layers \cup {ClientLayer} /\ nativeHandle[l] \in Nat
  BY KeptType DEF TypeOK
<1> HIDE DEF n
<1>13. Picture \in [1..n -> (Layers \cup {ClientLayer}) \X Nat]
  BY <1>8, <1>11, <1>12
<1>14. Picture \in Pictures
  BY <1>1, <1>13 DEF Pictures
<1>15. Len(Picture) = n /\ DOMAIN Picture = 1..n
  BY <1>1, <1>13, <1>14 DEF Pictures
<1>16. \A i \in 1..n : Picture[i] = <<ZMap[i], nativeHandle[ZMap[i]]>> /\ Picture[i][1] = ZMap[i] /\ ZMap[i] \in Kept
  BY <1>8, <1>11
<1>17. ToSet(ZMap) = Kept
  BY <1>8, <1>10 DEF ToSet
<1>18. /\ \A i \in 1..n : Picture[i][1] \in Kept /\ Picture[i] = <<Picture[i][1], nativeHandle[Picture[i][1]]>>
       /\ \A l \in Kept : \E i \in 1..n : Picture[i] = <<l, nativeHandle[l]>>
  BY <1>10, <1>16
<1>19. \A i, j \in 1..n : i < j => Depth(Picture[i][1]) < Depth(Picture[j][1])
  BY <1>7, <1>8, <1>16
<1>. QED
  BY <1>1, <1>14, <1>15, <1>17, <1>18, <1>19 DEF PictureHolds, n

-----------------------------------------------------------------------------
(* Type correctness.                                                       *)

(* A layer with a fence has a buffer for it to guard.                      *)
FencesHaveBuffers == \A l \in Layers \cap releaseFence : latched[l] # 0

LEMMA TypeInit ==
  ASSUME Init
  PROVE  TypeOK
<1>1. <<>> \in Pictures
  BY DEF Pictures
<1>2. /\ kind \in Kinds /\ created \in BOOLEAN
      /\ phase \in {"idle", "setup", "validated", "target", "output", "present", "fences"}
  BY DEF Init
<1>8. layers \subseteq 1..layerIdx /\ layerIdx \in 0..MaxLayers
  BY DEF Init
<1>7. {shown, next, held} \subseteq Frames \cup {NoFrame}
  BY DEF Init, Display!Init
<1>3. /\ sfType \in [Layers -> Types] /\ validatedType \in [Layers -> Types \ {"SolidColor"}]
      /\ told \in [Layers -> Types]
  BY DEF Init, Types
<1>4. /\ zOrder \in [Layers -> 0..MaxLayers] /\ nativeHandle \in [Layers \cup {ClientLayer} -> Nat]
      /\ latched \in [Layers -> 0..NumBuffers] /\ replaced \in [Layers -> 0..NumBuffers]
  BY DEF Init
<1>5. /\ presented \in [Frames -> Pictures]
      /\ outputHandle \in Targets \cup {0} /\ drawn \in [Targets -> Pictures]
  BY <1>1 DEF Init
<1>6. /\ buffer \in [Layers -> [Handles -> {"free", "drawing", "queued", "latched"}]]
      /\ given \in [Layers -> SUBSET {"type", "buffer"}]
      /\ releaseFence \subseteq Layers \cup {ClientLayer} /\ guarded \subseteq Layers \X Handles
  BY DEF Init
<1>. QED
  BY <1>2, <1>3, <1>4, <1>5, <1>6, <1>7, <1>8 DEF TypeOK

LEMMA TypeSurface ==
  ASSUME TypeOK,
         \/ \E l \in Layers, k \in Handles : StartDrawing(l, k) \/ FinishDrawing(l, k)
         \/ HwcDisplayInit \/ DestroyVirtualDisplay
         \/ \E z \in 1..MaxLayers : CreateLayer(z)
         \/ \E l \in Layers : DestroyLayer(l)
         \/ BeginRefresh
  PROVE  TypeOK'
<1> USE DEF TypeOK, Pictures, deviceVars, idVars, layerVars, outputVars, displayVars, appVars, refreshVars
<1>1. ASSUME NEW l \in Layers, NEW k \in Handles, StartDrawing(l, k) \/ FinishDrawing(l, k)
      PROVE  TypeOK'
  <2>1. buffer' \in [Layers -> [Handles -> {"free", "drawing", "queued", "latched"}]]
    <3>1. PICK t \in {"drawing", "queued"} : buffer' = [buffer EXCEPT ![l][k] = t]
      BY <1>1 DEF StartDrawing, FinishDrawing
    <3>. QED
      BY <3>1
  <2>2. UNCHANGED <<deviceVars, layerVars, displayVars, refreshVars, guarded>>
    BY <1>1 DEF StartDrawing, FinishDrawing
  <2>. QED
    BY <2>1, <2>2
<1>2. CASE HwcDisplayInit
  BY <1>2 DEF HwcDisplayInit
<1>3. CASE DestroyVirtualDisplay
  <2>1. /\ layers' \subseteq 1..layerIdx' /\ layerIdx' \in 0..MaxLayers
        /\ sfType' \in [Layers -> Types] /\ validatedType' \in [Layers -> Types \ {"SolidColor"}]
        /\ told' \in [Layers -> Types]
    BY <1>3 DEF DestroyVirtualDisplay, Types
  <2>2. /\ zOrder' \in [Layers -> 0..MaxLayers] /\ nativeHandle' \in [Layers \cup {ClientLayer} -> Nat]
        /\ latched' \in [Layers -> 0..NumBuffers]
        /\ releaseFence' \subseteq Layers \cup {ClientLayer}
    BY <1>3 DEF DestroyVirtualDisplay
  <2>3. buffer' \in [Layers -> [Handles -> {"free", "drawing", "queued", "latched"}]]
    BY <1>3 DEF DestroyVirtualDisplay
  <2>4. created' \in BOOLEAN /\ UNCHANGED <<kind, displayVars, phase, given, replaced, guarded>>
    BY <1>3 DEF DestroyVirtualDisplay
  <2>. QED
    BY <2>1, <2>2, <2>3, <2>4
<1>4. ASSUME NEW z \in 1..MaxLayers, CreateLayer(z)
      PROVE  TypeOK'
  <2>1. layers' \subseteq 1..layerIdx' /\ layerIdx' \in 0..MaxLayers
    BY <1>4 DEF CreateLayer, NextIdx
  <2>2. zOrder' \in [Layers -> 0..MaxLayers]
    <3>1. zOrder' = [zOrder EXCEPT ![layerIdx + 1] = z] /\ z \in 0..MaxLayers
      BY <1>4 DEF CreateLayer
    <3>. QED
      BY <3>1
  <2>. QED
    BY <1>4, <2>1, <2>2 DEF CreateLayer
<1>5. ASSUME NEW l \in Layers, DestroyLayer(l)
      PROVE  TypeOK'
  <2>1. /\ sfType' \in [Layers -> Types] /\ validatedType' \in [Layers -> Types \ {"SolidColor"}]
        /\ told' \in [Layers -> Types]
    BY <1>5 DEF DestroyLayer, Types
  <2>2. /\ zOrder' \in [Layers -> 0..MaxLayers] /\ nativeHandle' \in [Layers \cup {ClientLayer} -> Nat]
        /\ latched' \in [Layers -> 0..NumBuffers]
    BY <1>5, SMTT(30) DEF DestroyLayer
  <2>3. buffer' \in [Layers -> [Handles -> {"free", "drawing", "queued", "latched"}]]
    BY <1>5 DEF DestroyLayer
  <2>4. /\ layers' \subseteq 1..layerIdx' /\ releaseFence' \subseteq Layers \cup {ClientLayer}
        /\ guarded' \subseteq Layers \X Handles
    BY <1>5 DEF DestroyLayer
  <2>5. UNCHANGED <<deviceVars, layerIdx, displayVars, phase, given, replaced>>
    BY <1>5 DEF DestroyLayer
  <2>. QED
    BY <2>1, <2>2, <2>3, <2>4, <2>5
<1>6. CASE BeginRefresh
  BY <1>6 DEF BeginRefresh
<1>. QED
  BY <1>1, <1>2, <1>3, <1>4, <1>5, <1>6

LEMMA TypeSetup ==
  ASSUME TypeOK,
         \/ \E l \in Layers, t \in Types : SetLayerCompositionType(l, t)
         \/ \E l \in Layers : SetLayerColor(l)
         \/ \E l \in Layers, k \in Handles : SetLayerBuffer(l, k)
         \/ ValidateDisplay \/ AcceptDisplayChanges
         \/ \E k \in Targets : SetClientTarget(k) \/ SetOutputBuffer(k)
  PROVE  TypeOK'
<1> USE DEF TypeOK, Pictures, deviceVars, idVars, layerVars, outputVars, displayVars, appVars, refreshVars
<1>1. ASSUME NEW l \in Layers, NEW t \in Types, SetLayerCompositionType(l, t)
      PROVE  TypeOK'
  BY <1>1 DEF SetLayerCompositionType, Types
<1>2. ASSUME NEW l \in Layers, SetLayerColor(l)
      PROVE  TypeOK'
  BY <1>2 DEF SetLayerColor, Types
<1>3. ASSUME NEW l \in Layers, NEW k \in Handles, SetLayerBuffer(l, k)
      PROVE  TypeOK'
  BY <1>3, SMTT(30) DEF SetLayerBuffer, Handles
<1>4. CASE ValidateDisplay
  BY <1>4 DEF ValidateDisplay, Answer, Types
<1>5. CASE AcceptDisplayChanges
  BY <1>5 DEF AcceptDisplayChanges, Drawn, Types
<1>6. ASSUME NEW k \in Targets, SetClientTarget(k) \/ SetOutputBuffer(k)
      PROVE  TypeOK'
  <2>1. CASE SetClientTarget(k)
    <3>1. nativeHandle' \in [Layers \cup {ClientLayer} -> Nat]
      BY <2>1 DEF SetClientTarget, Targets
    <3>2. phase' \in {"output", "present"}
      BY <2>1 DEF SetClientTarget, Drawn
    <3>. QED
      BY <2>1, <3>1, <3>2 DEF SetClientTarget
  <2>2. CASE SetOutputBuffer(k)
    BY <2>2 DEF SetOutputBuffer
  <2>. QED
    BY <1>6, <2>1, <2>2
<1>. QED
  BY <1>1, <1>2, <1>3, <1>4, <1>5, <1>6

LEMMA TypePresent ==
  ASSUME TypeOK, FencesHaveBuffers, Vblank \/ PresentDisplay \/ GetReleaseFences
  PROVE  TypeOK'
<1> USE DEF deviceVars, idVars, layerVars, outputVars, displayVars, appVars, refreshVars
<1>1. CASE Vblank
  BY <1>1 DEF Vblank, Display!Vblank, TypeOK, Pictures
<1>2. CASE PresentDisplay
  <2>1. Picture \in Pictures /\ ToSet(ZMap) = Kept /\ Kept \subseteq Layers \cup {ClientLayer}
    BY PictureIsSorted, KeptType DEF PictureHolds
  <2>2. CASE UNCHANGED <<displayVars, releaseFence, guarded>>
    BY <1>2, <2>2 DEF PresentDisplay, TypeOK
  <2>3. CASE kind = "internal" /\ PresentOnScreen
    BY <1>2, <2>1, <2>3
       DEF PresentDisplay, PresentOnScreen, Display!Set, Display!Queue, FencesSignalled, TypeOK
  <2>4. CASE kind = "virtual" /\ PresentOffscreen
    <3>1. drawn' \in [Targets -> Pictures]
      BY <2>1, <2>4 DEF PresentOffscreen, DrawOffscreen, TypeOK
    <3>. QED
      BY <1>2, <2>1, <2>4, <3>1 DEF PresentDisplay, PresentOffscreen, TypeOK
  <2>. QED
    BY <1>2, <2>2, <2>3, <2>4 DEF PresentDisplay
<1>3. CASE GetReleaseFences
  <2>1. \A l \in HandedOver : Fenced(l) \in Layers \X Handles
    <3> SUFFICES ASSUME NEW l \in HandedOver PROVE Fenced(l) \in Layers \X Handles
      OBVIOUS
    <3>1. l \in Layers /\ l \in releaseFence
      BY KeptType DEF HandedOver
    <3>2. latched[l] \in 0..NumBuffers /\ latched[l] # 0 /\ replaced[l] \in 0..NumBuffers
      BY <3>1 DEF FencesHaveBuffers, TypeOK
    <3>. QED
      BY <3>1, <3>2 DEF Fenced, Handles
  <2>. QED
    BY <1>3, <2>1 DEF GetReleaseFences, TypeOK, Pictures
<1>. QED
  BY <1>1, <1>2, <1>3

-----------------------------------------------------------------------------
(* A refresh as SurfaceFlinger and HWC agree on it.                        *)

Full(l) == given[l] = {"type", "buffer"}
Asked == phase \notin {"idle", "setup"}
Accepted == phase \notin {"idle", "setup", "validated"}

(* A layer's type is the one SurfaceFlinger goes by, but for the layers    *)
(* with a colour.                                                          *)
Agreed(l, type) ==
    /\ told[l] \in {"Device", "Client", "SolidColor"}
    /\ type = IF told[l] = "SolidColor" THEN "Client" ELSE told[l]

ZOrdersDiffer == \A l, m \in layers : l # m => zOrder[l] # zOrder[m]

GivenInTurn ==
    /\ phase = "idle" => \A l \in Layers : given[l] = {}
    /\ Asked => \A l \in layers : Full(l)

TypesFollow ==
    /\ ~Accepted => \A l \in layers :
         /\ given[l] = {"type"} => sfType[l] = told[l] /\ told[l] \in {"Device", "Client", "SolidColor"}
         /\ Full(l) => Agreed(l, sfType[l])
    /\ phase = "validated" =>
         \A l \in layers : validatedType[l] = IF kind = "virtual" THEN "Client" ELSE sfType[l]
    /\ Accepted => \A l \in layers : Agreed(l, validatedType[l])

OnlyTheClient == Asked /\ kind = "virtual" => \A l \in layers : validatedType[l] = "Client"

(* The display is given the newest buffer of a layer that is left to it.   *)
BuffersFollow ==
    \A l \in layers :
        Full(l) /\ (IF Asked THEN validatedType[l] ELSE sfType[l]) = "Device" =>
            nativeHandle[l] = latched[l] /\ latched[l] # 0

LatchedIsKept == \A l \in Layers : latched[l] # 0 => buffer[l][latched[l]] = "latched"

ReplacedIsOld ==
    \A l \in Layers : replaced[l] # 0 => replaced[l] # latched[l] /\ Full(l) /\ told[l] # "SolidColor"

TargetIsSet ==
    phase \in {"output", "present", "fences"} /\ (\E l \in layers : told[l] = "Client") =>
        nativeHandle[ClientLayer] # 0

RefreshInv ==
    /\ FencesHaveBuffers /\ ZOrdersDiffer /\ GivenInTurn /\ TypesFollow /\ OnlyTheClient
    /\ BuffersFollow /\ LatchedIsKept /\ ReplacedIsOld /\ TargetIsSet

LEMMA RefreshInit ==
  ASSUME Init
  PROVE  RefreshInv
  BY DEF Init, RefreshInv, FencesHaveBuffers, ZOrdersDiffer, GivenInTurn, TypesFollow, OnlyTheClient,
         BuffersFollow, LatchedIsKept, ReplacedIsOld, TargetIsSet, Full, Asked, Accepted

(* What the applications and the display do is no concern of the refresh.  *)
LEMMA RefreshApart ==
  ASSUME TypeOK, RefreshInv,
         UNCHANGED <<kind, layers, layerVars, phase, given, told, latched, replaced>>,
         \A l \in Layers, k \in Handles : buffer[l][k] = "latched" => buffer'[l][k] = "latched"
  PROVE  RefreshInv'
<1> USE DEF layerVars
<1>1. LatchedIsKept'
  <2> SUFFICES ASSUME NEW l \in Layers, latched[l] # 0 PROVE buffer'[l][latched[l]] = "latched"
    BY DEF LatchedIsKept
  <2>1. latched[l] \in Handles
    BY DEF TypeOK, Handles
  <2>. QED
    BY <2>1 DEF RefreshInv, LatchedIsKept
<1>2. UNCHANGED Asked /\ UNCHANGED Accepted
  BY DEF Asked, Accepted
<1>3. TypesFollow' /\ OnlyTheClient' /\ BuffersFollow'
  BY <1>2 DEF RefreshInv, TypesFollow, OnlyTheClient, BuffersFollow, Full, Agreed
<1>4. FencesHaveBuffers' /\ ZOrdersDiffer' /\ GivenInTurn' /\ ReplacedIsOld' /\ TargetIsSet'
  BY <1>2 DEF RefreshInv, FencesHaveBuffers, ZOrdersDiffer, GivenInTurn, ReplacedIsOld, TargetIsSet, Full
<1>. QED
  BY <1>1, <1>3, <1>4 DEF RefreshInv

LEMMA RefreshSurface ==
  ASSUME TypeOK, RefreshInv,
         \/ \E l \in Layers, k \in Handles : StartDrawing(l, k) \/ FinishDrawing(l, k)
         \/ HwcDisplayInit \/ Vblank
  PROVE  RefreshInv'
<1> USE DEF deviceVars, layerVars, outputVars, displayVars, appVars, refreshVars
<1>1. ASSUME NEW l \in Layers, NEW k \in Handles, StartDrawing(l, k)
      PROVE  RefreshInv'
  <2>1. buffer[l][k] = "free" /\ buffer' = [buffer EXCEPT ![l][k] = "drawing"]
    BY <1>1 DEF StartDrawing, Drawable
  <2>2. \A m \in Layers, j \in Handles : buffer[m][j] = "latched" => buffer'[m][j] = "latched"
    BY <2>1 DEF TypeOK
  <2>3. UNCHANGED <<kind, layers, layerVars, phase, given, told, latched, replaced>>
    BY <1>1 DEF StartDrawing
  <2>. QED
    BY <2>2, <2>3, RefreshApart
<1>2. ASSUME NEW l \in Layers, NEW k \in Handles, FinishDrawing(l, k)
      PROVE  RefreshInv'
  <2>1. buffer[l][k] = "drawing" /\ buffer' = [buffer EXCEPT ![l][k] = "queued"]
    BY <1>2 DEF FinishDrawing
  <2>2. \A m \in Layers, j \in Handles : buffer[m][j] = "latched" => buffer'[m][j] = "latched"
    BY <2>1 DEF TypeOK
  <2>3. UNCHANGED <<kind, layers, layerVars, phase, given, told, latched, replaced>>
    BY <1>2 DEF FinishDrawing
  <2>. QED
    BY <2>2, <2>3, RefreshApart
<1>3. CASE HwcDisplayInit
  <2>1. UNCHANGED <<kind, layers, layerVars, phase, given, told, latched, replaced, buffer>>
    BY <1>3 DEF HwcDisplayInit
  <2>. QED
    BY <2>1, RefreshApart
<1>4. CASE Vblank
  <2>1. UNCHANGED <<kind, layers, layerVars, phase, given, told, latched, replaced, buffer>>
    BY <1>4 DEF Vblank
  <2>. QED
    BY <2>1, RefreshApart
<1>. QED
  BY <1>1, <1>2, <1>3, <1>4

(* Between two refreshes nothing has been given to HWC, and little is left *)
(* to show.                                                                *)
LEMMA RefreshIdle ==
  ASSUME TypeOK, RefreshInv,
         \/ DestroyVirtualDisplay
         \/ \E z \in 1..MaxLayers : CreateLayer(z)
         \/ \E l \in Layers : DestroyLayer(l)
         \/ BeginRefresh
  PROVE  RefreshInv'
<1> USE DEF deviceVars, layerVars, outputVars, displayVars, appVars, refreshVars
<1>1. /\ phase = "idle" /\ phase' \in {"idle", "setup"} /\ UNCHANGED <<given, replaced>>
      /\ \A l \in Layers : given[l] = {} /\ replaced[l] = 0
  <2>1. phase = "idle" /\ phase' \in {"idle", "setup"} /\ UNCHANGED <<given, replaced>>
    BY DEF DestroyVirtualDisplay, CreateLayer, DestroyLayer, BeginRefresh
  <2>2. \A l \in Layers : given[l] = {}
    BY <2>1 DEF RefreshInv, GivenInTurn
  <2>. QED
    BY <2>1, <2>2 DEF RefreshInv, ReplacedIsOld, Full
<1>2. layers \subseteq Layers /\ layers' \subseteq Layers
  <2>1. TypeOK'
    BY TypeSurface
  <2>2. layers' \subseteq 1..layerIdx' /\ layerIdx' \in 0..MaxLayers
    BY <2>1 DEF TypeOK
  <2>. QED
    BY <2>2, KeptType DEF Layers
<1>3. GivenInTurn' /\ TypesFollow' /\ OnlyTheClient' /\ BuffersFollow' /\ ReplacedIsOld' /\ TargetIsSet'
  BY <1>1, <1>2 DEF GivenInTurn, TypesFollow, OnlyTheClient, BuffersFollow, ReplacedIsOld, TargetIsSet,
                    Asked, Accepted, Full
<1>4. ZOrdersDiffer'
  <2>1. CASE DestroyVirtualDisplay
    BY <2>1 DEF DestroyVirtualDisplay, ZOrdersDiffer
  <2>2. ASSUME NEW z \in 1..MaxLayers, CreateLayer(z)
        PROVE  ZOrdersDiffer'
    <3>1. /\ \A l \in layers : zOrder[l] # z
          /\ layers' = layers \cup {layerIdx + 1}
          /\ zOrder' = [zOrder EXCEPT ![layerIdx + 1] = z]
      BY <2>2 DEF CreateLayer
    <3>2. layerIdx + 1 \notin layers /\ layerIdx + 1 \in Layers
      BY <2>2 DEF CreateLayer, TypeOK, Layers
    <3>3. zOrder'[layerIdx + 1] = z /\ \A l \in layers : zOrder'[l] = zOrder[l]
      BY <1>2, <3>1, <3>2 DEF TypeOK
    <3>. QED
      BY <3>1, <3>3 DEF RefreshInv, ZOrdersDiffer
  <2>3. ASSUME NEW l \in Layers, DestroyLayer(l)
        PROVE  ZOrdersDiffer'
    BY <1>2, <2>3 DEF DestroyLayer, RefreshInv, ZOrdersDiffer, TypeOK
  <2>4. CASE BeginRefresh
    BY <2>4 DEF BeginRefresh, RefreshInv, ZOrdersDiffer
  <2>. QED
    BY <2>1, <2>2, <2>3, <2>4
<1>5. FencesHaveBuffers' /\ LatchedIsKept'
  <2>1. CASE DestroyVirtualDisplay
    BY <2>1 DEF DestroyVirtualDisplay, FencesHaveBuffers, LatchedIsKept
  <2>2. ASSUME NEW z \in 1..MaxLayers, CreateLayer(z)
        PROVE  FencesHaveBuffers' /\ LatchedIsKept'
    BY <2>2 DEF CreateLayer, RefreshInv, FencesHaveBuffers, LatchedIsKept
  <2>3. ASSUME NEW l \in Layers, DestroyLayer(l)
        PROVE  FencesHaveBuffers' /\ LatchedIsKept'
    BY <2>3 DEF DestroyLayer, RefreshInv, FencesHaveBuffers, LatchedIsKept, TypeOK
  <2>4. CASE BeginRefresh
    BY <2>4 DEF BeginRefresh, RefreshInv, FencesHaveBuffers, LatchedIsKept
  <2>. QED
    BY <2>1, <2>2, <2>3, <2>4
<1>. QED
  BY <1>3, <1>4, <1>5 DEF RefreshInv

LEMMA RefreshType ==
  ASSUME TypeOK, RefreshInv, NEW l \in Layers, NEW t \in Types, SetLayerCompositionType(l, t)
  PROVE  RefreshInv'
<1> USE DEF idVars, deviceVars, layerVars, outputVars, displayVars, appVars, refreshVars
<1>1. /\ phase = "setup" /\ given[l] = {} /\ t \in {"Device", "Client", "SolidColor"}
      /\ sfType' = [sfType EXCEPT ![l] = t] /\ told' = [told EXCEPT ![l] = t]
      /\ given' = [given EXCEPT ![l] = {"type"}]
  BY DEF SetLayerCompositionType
<1>2. UNCHANGED <<kind, layers, zOrder, validatedType, nativeHandle, releaseFence, phase,
                  latched, replaced, buffer>>
  BY DEF SetLayerCompositionType
<1>3. layers \subseteq Layers
  BY KeptType
<1>4. /\ sfType'[l] = t /\ told'[l] = t /\ given'[l] = {"type"} /\ ~Full(l)
      /\ \A m \in Layers : m # l => /\ sfType'[m] = sfType[m] /\ told'[m] = told[m]
                                    /\ given'[m] = given[m] /\ (Full(m)' <=> Full(m))
      /\ ~Full(l)'
  <2>1. /\ sfType'[l] = t /\ told'[l] = t /\ given'[l] = {"type"}
        /\ \A m \in Layers : m # l =>
              sfType'[m] = sfType[m] /\ told'[m] = told[m] /\ given'[m] = given[m]
    BY <1>1 DEF TypeOK
  <2>2. {"type"} # {"type", "buffer"} /\ {} # {"type", "buffer"}
    OBVIOUS
  <2>. QED
    BY <1>1, <2>1, <2>2 DEF Full
<1>5. TypesFollow'
  BY <1>1, <1>2, <1>3, <1>4 DEF RefreshInv, TypesFollow, Agreed, Accepted
<1>6. BuffersFollow' /\ ReplacedIsOld'
  BY <1>1, <1>2, <1>3, <1>4 DEF RefreshInv, BuffersFollow, ReplacedIsOld, Asked
<1>7. /\ FencesHaveBuffers' /\ ZOrdersDiffer' /\ GivenInTurn' /\ OnlyTheClient' /\ LatchedIsKept'
      /\ TargetIsSet'
  BY <1>1, <1>2 DEF RefreshInv, FencesHaveBuffers, ZOrdersDiffer, GivenInTurn, OnlyTheClient,
                    LatchedIsKept, TargetIsSet, Asked
<1>. QED
  BY <1>5, <1>6, <1>7 DEF RefreshInv

LEMMA RefreshColor ==
  ASSUME TypeOK, RefreshInv, NEW l \in Layers, SetLayerColor(l)
  PROVE  RefreshInv'
<1> USE DEF idVars, deviceVars, layerVars, outputVars, displayVars, appVars, refreshVars
<1>1. /\ phase = "setup" /\ given[l] = {"type"} /\ told[l] = "SolidColor"
      /\ sfType' = [sfType EXCEPT ![l] = "Client"]
      /\ given' = [given EXCEPT ![l] = {"type", "buffer"}]
  BY DEF SetLayerColor
<1>2. UNCHANGED <<kind, layers, zOrder, validatedType, nativeHandle, releaseFence, phase,
                  told, latched, replaced, buffer>>
  BY DEF SetLayerColor
<1>3. layers \subseteq Layers
  BY KeptType
<1>4. /\ sfType'[l] = "Client" /\ given'[l] = {"type", "buffer"} /\ ~Full(l)
      /\ \A m \in Layers : m # l => /\ sfType'[m] = sfType[m]
                                    /\ given'[m] = given[m] /\ (Full(m)' <=> Full(m))
  BY <1>1 DEF TypeOK, Full
<1>5. TypesFollow'
  BY <1>1, <1>2, <1>3, <1>4 DEF RefreshInv, TypesFollow, Agreed, Accepted
<1>6. BuffersFollow' /\ ReplacedIsOld'
  BY <1>1, <1>2, <1>3, <1>4 DEF RefreshInv, BuffersFollow, ReplacedIsOld, Asked
<1>7. /\ FencesHaveBuffers' /\ ZOrdersDiffer' /\ GivenInTurn' /\ OnlyTheClient' /\ LatchedIsKept'
      /\ TargetIsSet'
  BY <1>1, <1>2 DEF RefreshInv, FencesHaveBuffers, ZOrdersDiffer, GivenInTurn, OnlyTheClient,
                    LatchedIsKept, TargetIsSet, Asked
<1>. QED
  BY <1>5, <1>6, <1>7 DEF RefreshInv

LEMMA RefreshBuffer ==
  ASSUME TypeOK, RefreshInv, NEW l \in Layers, NEW k \in Handles, SetLayerBuffer(l, k)
  PROVE  RefreshInv'
<1> USE DEF idVars, deviceVars, layerVars, outputVars, displayVars, appVars, refreshVars
<1>1. /\ phase = "setup" /\ given[l] = {"type"} /\ told[l] # "SolidColor"
      /\ nativeHandle' = IF Elsewhere(l) THEN nativeHandle ELSE [nativeHandle EXCEPT ![l] = k]
      /\ given' = [given EXCEPT ![l] = {"type", "buffer"}]
      /\ latched' = [latched EXCEPT ![l] = k]
      /\ replaced' = [replaced EXCEPT ![l] = IF latched[l] = k THEN 0 ELSE latched[l]]
      /\ buffer' = [buffer EXCEPT ![l][k] = "latched"]
  BY DEF SetLayerBuffer
<1>2. UNCHANGED <<kind, layers, zOrder, sfType, validatedType, releaseFence, phase, told>>
  BY DEF SetLayerBuffer
<1>3. layers \subseteq Layers /\ k \in Nat /\ k # 0
  BY KeptType DEF Handles
<1>4. /\ given'[l] = {"type", "buffer"} /\ ~Full(l) /\ latched'[l] = k
      /\ replaced'[l] = IF latched[l] = k THEN 0 ELSE latched[l]
      /\ nativeHandle'[l] = IF Elsewhere(l) THEN nativeHandle[l] ELSE k
      /\ \A m \in Layers : m # l => /\ latched'[m] = latched[m] /\ replaced'[m] = replaced[m]
                                    /\ nativeHandle'[m] = nativeHandle[m]
                                    /\ given'[m] = given[m] /\ (Full(m)' <=> Full(m))
  BY <1>1 DEF TypeOK, Full
<1>5. TypesFollow'
  BY <1>1, <1>2, <1>3, <1>4 DEF RefreshInv, TypesFollow, Agreed, Accepted
<1>6. BuffersFollow'
  BY <1>1, <1>2, <1>3, <1>4 DEF RefreshInv, BuffersFollow, Asked, Elsewhere
<1>7. ReplacedIsOld'
  <2>1. Full(l)'
    BY <1>4 DEF Full
  <2>. QED
    BY <1>1, <1>2, <1>4, <2>1 DEF RefreshInv, ReplacedIsOld
<1>8. LatchedIsKept'
  <2>1. \A m \in Layers, j \in Handles :
           buffer'[m][j] = IF m = l /\ j = k THEN "latched" ELSE buffer[m][j]
    BY <1>1 DEF TypeOK
  <2> SUFFICES ASSUME NEW m \in Layers, latched'[m] # 0 PROVE buffer'[m][latched'[m]] = "latched"
    BY DEF LatchedIsKept
  <2>2. CASE m = l
    BY <1>4, <2>1, <2>2
  <2>3. CASE m # l
    <3>1. latched'[m] = latched[m] /\ latched[m] \in Handles
      BY <1>4, <2>3 DEF TypeOK, Handles
    <3>. QED
      BY <2>1, <2>3, <3>1 DEF RefreshInv, LatchedIsKept
  <2>. QED
    BY <2>2, <2>3
<1>9. FencesHaveBuffers'
  BY <1>2, <1>3, <1>4 DEF RefreshInv, FencesHaveBuffers
<1>10. ZOrdersDiffer' /\ GivenInTurn' /\ OnlyTheClient' /\ TargetIsSet'
  BY <1>1, <1>2 DEF RefreshInv, ZOrdersDiffer, GivenInTurn, OnlyTheClient, TargetIsSet, Asked
<1>. QED
  BY <1>5, <1>6, <1>7, <1>8, <1>9, <1>10 DEF RefreshInv

LEMMA RefreshValidate ==
  ASSUME TypeOK, RefreshInv, ValidateDisplay
  PROVE  RefreshInv'
<1> USE DEF idVars, deviceVars, layerVars, outputVars, displayVars, appVars, refreshVars
<1>1. /\ phase = "setup" /\ phase' = "validated" /\ \A l \in layers : Full(l)
      /\ validatedType' = [l \in Layers |-> IF l \in layers THEN Answer(l) ELSE validatedType[l]]
  BY DEF ValidateDisplay, Full
<1>2. UNCHANGED <<kind, layers, zOrder, sfType, nativeHandle, releaseFence,
                  given, told, latched, replaced, buffer>>
  BY DEF ValidateDisplay
<1>3. layers \subseteq Layers
  BY KeptType
<1>4. \A l \in layers : sfType[l] \in {"Device", "Client"} /\ Agreed(l, sfType[l])
  BY <1>1 DEF RefreshInv, TypesFollow, Agreed, Accepted
<1>5. \A l \in layers : validatedType'[l] = IF kind = "virtual" THEN "Client" ELSE sfType[l]
  BY <1>1, <1>3, <1>4 DEF Answer
<1>6. TypesFollow'
  <2>1. \A l \in layers : Agreed(l, sfType[l])'
    BY <1>2, <1>4 DEF Agreed
  <2>2. \A l \in layers : given[l] # {"type"}
    BY <1>1 DEF Full
  <2>. QED
    BY <1>1, <1>2, <1>5, <2>1, <2>2 DEF TypesFollow, Accepted
<1>7. OnlyTheClient' /\ BuffersFollow'
  BY <1>1, <1>2, <1>5 DEF RefreshInv, OnlyTheClient, BuffersFollow, Asked, Full
<1>8. GivenInTurn' /\ TargetIsSet'
  BY <1>1, <1>2 DEF GivenInTurn, TargetIsSet, Full
<1>9. FencesHaveBuffers' /\ ZOrdersDiffer' /\ LatchedIsKept' /\ ReplacedIsOld'
  BY <1>2 DEF RefreshInv, FencesHaveBuffers, ZOrdersDiffer, LatchedIsKept, ReplacedIsOld, Full
<1>. QED
  BY <1>6, <1>7, <1>8, <1>9 DEF RefreshInv

LEMMA RefreshAccept ==
  ASSUME TypeOK, RefreshInv, AcceptDisplayChanges
  PROVE  RefreshInv'
<1> USE DEF idVars, deviceVars, layerVars, outputVars, displayVars, appVars, refreshVars
<1>1. /\ phase = "validated"
      /\ told' = [l \in Layers |-> IF l \in layers /\ TypeChanged(l) THEN validatedType[l] ELSE told[l]]
      /\ sfType' = [l \in Layers |-> IF l \in layers THEN validatedType[l] ELSE sfType[l]]
      /\ phase' = IF \E l \in layers : told'[l] = "Client" THEN "target" ELSE Drawn
  BY DEF AcceptDisplayChanges
<1>2. UNCHANGED <<kind, layers, zOrder, validatedType, nativeHandle, releaseFence,
                  given, latched, replaced, buffer>>
  BY DEF AcceptDisplayChanges
<1>3. layers \subseteq Layers
  BY KeptType
<1>4. \A l \in layers : Full(l) /\ Agreed(l, sfType[l])
                        /\ validatedType[l] = IF kind = "virtual" THEN "Client" ELSE sfType[l]
  BY <1>1 DEF RefreshInv, GivenInTurn, TypesFollow, Asked, Accepted
<1>5. phase' \in {"target", "output", "present"}
  BY <1>1 DEF Drawn
<1>6. TypesFollow'
  <2>1. \A l \in layers : Agreed(l, validatedType[l])'
    BY <1>1, <1>2, <1>3, <1>4 DEF Agreed, TypeChanged
  <2>. QED
    BY <1>2, <1>5, <2>1 DEF TypesFollow, Accepted
<1>7. GivenInTurn' /\ OnlyTheClient' /\ BuffersFollow'
  BY <1>1, <1>2, <1>5 DEF RefreshInv, GivenInTurn, OnlyTheClient, BuffersFollow, Asked, Full
<1>8. ReplacedIsOld'
  BY <1>1, <1>2, <1>4 DEF RefreshInv, ReplacedIsOld, Full, TypeOK
<1>9. TargetIsSet'
  BY <1>1, <1>2 DEF TargetIsSet, Drawn
<1>10. FencesHaveBuffers' /\ ZOrdersDiffer' /\ LatchedIsKept'
  BY <1>2 DEF RefreshInv, FencesHaveBuffers, ZOrdersDiffer, LatchedIsKept
<1>. QED
  BY <1>6, <1>7, <1>8, <1>9, <1>10 DEF RefreshInv

LEMMA RefreshTarget ==
  ASSUME TypeOK, RefreshInv, NEW k \in Targets, SetClientTarget(k) \/ SetOutputBuffer(k)
  PROVE  RefreshInv'
<1> USE DEF idVars, deviceVars, layerVars, outputVars, displayVars, appVars, refreshVars
<1>1. /\ phase \in {"target", "output"} /\ phase' \in {"output", "present"}
      /\ UNCHANGED <<kind, layers, zOrder, sfType, validatedType, releaseFence,
                     given, told, latched, replaced, buffer>>
      /\ phase = "target" => nativeHandle' = [nativeHandle EXCEPT ![ClientLayer] = k]
      /\ phase = "output" => UNCHANGED nativeHandle
  BY DEF SetClientTarget, SetOutputBuffer, Drawn
<1>2. \A l \in layers : nativeHandle'[l] = nativeHandle[l]
  <2>1. \A l \in layers : l \in Layers /\ l # ClientLayer
    BY KeptType DEF ClientLayer, Layers
  <2>2. CASE phase = "target"
    BY <1>1, <2>1, <2>2 DEF TypeOK
  <2>3. CASE phase = "output"
    BY <1>1, <2>3
  <2>. QED
    BY <1>1, <2>2, <2>3
<1>3. phase = "target" => nativeHandle'[ClientLayer] # 0
  BY <1>1 DEF TypeOK, Targets
<1>4. TargetIsSet'
  BY <1>1, <1>3 DEF RefreshInv, TargetIsSet
<1>5. GivenInTurn' /\ TypesFollow' /\ OnlyTheClient' /\ BuffersFollow' /\ ReplacedIsOld'
  BY <1>1, <1>2 DEF RefreshInv, GivenInTurn, TypesFollow, OnlyTheClient, BuffersFollow,
                    ReplacedIsOld, Asked, Accepted, Full, Agreed
<1>6. FencesHaveBuffers' /\ ZOrdersDiffer' /\ LatchedIsKept'
  BY <1>1 DEF RefreshInv, FencesHaveBuffers, ZOrdersDiffer, LatchedIsKept
<1>. QED
  BY <1>4, <1>5, <1>6 DEF RefreshInv

LEMMA RefreshPresent ==
  ASSUME TypeOK, RefreshInv, PresentDisplay
  PROVE  RefreshInv'
<1> USE DEF idVars, deviceVars, layerVars, outputVars, displayVars, appVars, refreshVars
<1>1. /\ phase = "present" /\ phase' = "fences"
      /\ UNCHANGED <<kind, layers, zOrder, sfType, validatedType, nativeHandle,
                     given, told, latched, replaced, buffer>>
  BY DEF PresentDisplay
<1>2. releaseFence' \subseteq releaseFence \cup ToSet(ZMap)
  BY DEF PresentDisplay, PresentOnScreen, PresentOffscreen
<1>3. \A l \in Kept \cap Layers : latched[l] # 0
  <2> SUFFICES ASSUME NEW l \in Kept \cap Layers PROVE latched[l] # 0
    OBVIOUS
  <2>1. l \in layers /\ validatedType[l] = "Device"
    BY DEF Kept, Candidates, DeviceLayers, Layers, ClientLayer
  <2>. QED
    BY <1>1, <2>1 DEF RefreshInv, GivenInTurn, BuffersFollow, Asked
<1>4. FencesHaveBuffers'
  BY <1>1, <1>2, <1>3, PictureIsSorted DEF PictureHolds, RefreshInv, FencesHaveBuffers
<1>5. GivenInTurn' /\ TypesFollow' /\ OnlyTheClient' /\ BuffersFollow' /\ ReplacedIsOld' /\ TargetIsSet'
  BY <1>1 DEF RefreshInv, GivenInTurn, TypesFollow, OnlyTheClient, BuffersFollow,
              ReplacedIsOld, TargetIsSet, Asked, Accepted, Full, Agreed
<1>6. ZOrdersDiffer' /\ LatchedIsKept'
  BY <1>1 DEF RefreshInv, ZOrdersDiffer, LatchedIsKept
<1>. QED
  BY <1>4, <1>5, <1>6 DEF RefreshInv

LEMMA RefreshFences ==
  ASSUME TypeOK, RefreshInv, GetReleaseFences
  PROVE  RefreshInv'
<1> USE DEF idVars, deviceVars, layerVars, outputVars, displayVars, appVars, refreshVars
<1>1. /\ phase' = "idle" /\ given' = [l \in Layers |-> {}] /\ replaced' = [l \in Layers |-> 0]
      /\ releaseFence' = releaseFence \ layers
      /\ buffer' = [l \in Layers |-> [k \in Handles |-> IF replaced[l] = k THEN "free" ELSE buffer[l][k]]]
      /\ UNCHANGED <<layers, zOrder, latched>>
  BY DEF GetReleaseFences
<1>2. layers \subseteq Layers
  BY KeptType
<1>3. LatchedIsKept'
  <2> SUFFICES ASSUME NEW l \in Layers, latched[l] # 0 PROVE buffer'[l][latched[l]] = "latched"
    BY <1>1 DEF LatchedIsKept
  <2>1. latched[l] \in Handles
    BY DEF TypeOK, Handles
  <2>2. replaced[l] # latched[l]
    BY DEF RefreshInv, ReplacedIsOld
  <2>. QED
    BY <1>1, <2>1, <2>2 DEF RefreshInv, LatchedIsKept
<1>4. FencesHaveBuffers' /\ ZOrdersDiffer'
  BY <1>1 DEF RefreshInv, FencesHaveBuffers, ZOrdersDiffer
<1>5. GivenInTurn' /\ TypesFollow' /\ OnlyTheClient' /\ BuffersFollow' /\ ReplacedIsOld' /\ TargetIsSet'
  BY <1>1, <1>2 DEF GivenInTurn, TypesFollow, OnlyTheClient, BuffersFollow,
                    ReplacedIsOld, TargetIsSet, Asked, Accepted, Full
<1>. QED
  BY <1>3, <1>4, <1>5 DEF RefreshInv

LEMMA RefreshStep ==
  ASSUME TypeOK, RefreshInv, Next
  PROVE  RefreshInv'
<1>1. ASSUME NEW l \in Layers, NEW t \in Types, SetLayerCompositionType(l, t)
      PROVE  RefreshInv'
  BY <1>1, RefreshType
<1>2. ASSUME NEW l \in Layers, SetLayerColor(l)
      PROVE  RefreshInv'
  BY <1>2, RefreshColor
<1>3. ASSUME NEW l \in Layers, NEW k \in Handles, SetLayerBuffer(l, k)
      PROVE  RefreshInv'
  BY <1>3, RefreshBuffer
<1>4. ASSUME NEW k \in Targets, SetClientTarget(k) \/ SetOutputBuffer(k)
      PROVE  RefreshInv'
  BY <1>4, RefreshTarget
<1>5. CASE Refresh
  BY <1>1, <1>2, <1>3, <1>4, <1>5, RefreshValidate, RefreshAccept, RefreshPresent, RefreshFences
     DEF Refresh
<1>. QED
  BY <1>5, RefreshSurface, RefreshIdle DEF Next, HookDevOpen, CreateVirtualDisplay

LEMMA TypeStep ==
  ASSUME TypeOK, RefreshInv, Next
  PROVE  TypeOK'
<1>1. FencesHaveBuffers
  BY DEF RefreshInv
<1>2. CASE Refresh
  BY <1>1, <1>2, TypeSetup, TypePresent DEF Refresh
<1>. QED
  BY <1>1, <1>2, TypeSurface, TypePresent DEF Next, HookDevOpen, CreateVirtualDisplay

LEMMA RefreshStutter ==
  ASSUME UNCHANGED vars
  PROVE  (TypeOK => TypeOK') /\ (RefreshInv => RefreshInv')
<1> USE DEF vars, deviceVars, layerVars, outputVars, displayVars, appVars, refreshVars
<1>1. TypeOK => TypeOK'
  BY DEF TypeOK, Pictures
<1>2. ASSUME RefreshInv PROVE RefreshInv'
  <2>1. FencesHaveBuffers' /\ ZOrdersDiffer' /\ GivenInTurn' /\ OnlyTheClient' /\ LatchedIsKept'
    BY <1>2 DEF RefreshInv, FencesHaveBuffers, ZOrdersDiffer, GivenInTurn, OnlyTheClient, LatchedIsKept,
                Asked, Full
  <2>2. TypesFollow' /\ BuffersFollow' /\ ReplacedIsOld' /\ TargetIsSet'
    BY <1>2 DEF RefreshInv, TypesFollow, BuffersFollow, ReplacedIsOld, TargetIsSet,
                Asked, Accepted, Full, Agreed
  <2>. QED
    BY <2>1, <2>2 DEF RefreshInv
<1>. QED
  BY <1>1, <1>2

(* However many layers SurfaceFlinger creates, and whatever it does with   *)
(* them, the state keeps its type: the layers' keys are those given out,   *)
(* no layer is validated as a colour, and the fences that are handed over  *)
(* guard buffers there are.                                                *)
THEOREM TypeCorrect == Spec => []TypeOK
<1>1. Init => TypeOK /\ RefreshInv
  BY TypeInit, RefreshInit
<1>2. TypeOK /\ RefreshInv /\ [Next]_vars => TypeOK' /\ RefreshInv'
  BY TypeStep, RefreshStep, RefreshStutter
<1>. QED
  BY <1>1, <1>2, PTL DEF Spec

-----------------------------------------------------------------------------
(* The virtual display.                                                    *)

LEMMA OneLayerPresented ==
  ASSUME TypeOK, RefreshInv, kind = "virtual", phase = "present"
  PROVE  Len(Picture) <= 1 /\ \A i \in DOMAIN Picture : Picture[i][1] = ClientLayer
<1>1. DeviceLayers = {}
  BY DEF RefreshInv, OnlyTheClient, Asked, DeviceLayers
<1>2. Kept \in SUBSET {ClientLayer}
  BY <1>1 DEF Kept, Candidates
<1>3. Cardinality(Kept) <= 1
  <2>1. IsFiniteSet({ClientLayer}) /\ Cardinality({ClientLayer}) = 1
    BY FS_Singleton
  <2>. QED
    BY <1>2, <2>1, FS_Subset
<1>. QED
  BY <1>2, <1>3, PictureIsSorted DEF PictureHolds

OnlyTargetsDrawn == \A k \in Targets : \A i \in DOMAIN drawn[k] : drawn[k][i][1] = ClientLayer

LEMMA OnlyTargetsStep ==
  ASSUME TypeOK, RefreshInv, kind = "virtual" => OnlyTargetsDrawn, [Next]_vars
  PROVE  (kind = "virtual" => OnlyTargetsDrawn)'
<1> USE DEF idVars, deviceVars, layerVars, outputVars, displayVars, appVars, refreshVars
<1>1. CASE PresentDisplay
  <2>1. UNCHANGED kind /\ phase = "present"
    BY <1>1 DEF PresentDisplay
  <2>2. CASE kind = "virtual" /\ PresentOffscreen
    <3>1. \A i \in DOMAIN Picture : Picture[i][1] = ClientLayer
      BY <2>1, <2>2, OneLayerPresented
    <3>. QED
      BY <2>1, <2>2, <3>1 DEF PresentOffscreen, DrawOffscreen, OnlyTargetsDrawn, TypeOK
  <2>3. CASE UNCHANGED drawn
    BY <2>1, <2>3 DEF OnlyTargetsDrawn
  <2>. QED
    BY <1>1, <2>2, <2>3 DEF PresentDisplay, PresentOnScreen
<1>2. CASE ~PresentDisplay
  <2>1. UNCHANGED <<kind, drawn>>
    BY <1>2 DEF Next, Refresh, StartDrawing, FinishDrawing, Vblank, HookDevOpen, CreateVirtualDisplay,
       HwcDisplayInit, DestroyVirtualDisplay, CreateLayer, DestroyLayer, BeginRefresh,
       SetLayerCompositionType, SetLayerColor, SetLayerBuffer, ValidateDisplay, AcceptDisplayChanges,
       SetClientTarget, SetOutputBuffer, GetReleaseFences, vars
  <2>. QED
    BY <2>1 DEF OnlyTargetsDrawn
<1>. QED
  BY <1>1, <1>2

(* Whatever layers there are and however their types have changed, the     *)
(* virtual display is given at most one layer, so that the pointers        *)
(* VirtualDisplay::Present keeps into its vector stay good, and only the   *)
(* client's target reaches an output buffer.                               *)
THEOREM VirtualGetsOneLayer == Spec => []OneLayerOffscreen
<1>1. Init => TypeOK /\ RefreshInv /\ (kind = "virtual" => OnlyTargetsDrawn)
  <2>1. Init => OnlyTargetsDrawn
    BY DEF Init, OnlyTargetsDrawn
  <2>. QED
    BY <2>1, TypeInit, RefreshInit
<1>2. /\ TypeOK /\ RefreshInv /\ (kind = "virtual" => OnlyTargetsDrawn) /\ [Next]_vars
      => TypeOK' /\ RefreshInv' /\ (kind = "virtual" => OnlyTargetsDrawn)'
  BY TypeStep, RefreshStep, RefreshStutter, OnlyTargetsStep
<1>3. TypeOK /\ RefreshInv /\ (kind = "virtual" => OnlyTargetsDrawn) => OneLayerOffscreen
  BY OneLayerPresented DEF OneLayerOffscreen, OnlyTargetsDrawn
<1>. QED
  BY <1>1, <1>2, <1>3, PTL DEF Spec

-----------------------------------------------------------------------------
(* The screen.                                                             *)

(* No two layers are at one depth, so every candidate is kept.             *)
LEMMA KeptIsCandidates ==
  ASSUME TypeOK, ZOrdersDiffer
  PROVE  Kept = Candidates
<1> SUFFICES ASSUME NEW l \in Candidates, NEW m \in Candidates, l # m
             PROVE  Depth(l) # Depth(m)
  BY DEF Kept
<1>1. layers \subseteq Layers /\ ClientLayer \notin layers
  BY KeptType DEF Layers, ClientLayer
<1>2. ASSUME NEW x \in Candidates, x # ClientLayer, ClientLayer \in Candidates
      PROVE  Depth(x) # Depth(ClientLayer)
  <2>1. x \in DeviceLayers /\ ClientLayers # {}
    BY <1>1, <1>2 DEF Candidates, DeviceLayers
  <2>2. PICK c \in ClientLayers : zOrder[c] = ClientZOrder
    BY <2>1, ClientZOrderIsHighest
  <2>3. x \in layers /\ c \in layers /\ x # c
    BY <2>1, <2>2 DEF DeviceLayers, ClientLayers
  <2>. QED
    BY <1>2, <2>2, <2>3 DEF ZOrdersDiffer, Depth
<1>3. CASE l = ClientLayer \/ m = ClientLayer
  BY <1>2, <1>3
<1>4. CASE l # ClientLayer /\ m # ClientLayer
  <2>1. l \in layers /\ m \in layers
    BY <1>4 DEF Candidates, DeviceLayers
  <2>. QED
    BY <1>4, <2>1 DEF ZOrdersDiffer, Depth
<1>. QED
  BY <1>3, <1>4

LEMMA PictureStays ==
  ASSUME UNCHANGED <<layers, validatedType, zOrder, nativeHandle>>
  PROVE  UNCHANGED Picture
<1>1. UNCHANGED ClientLayers /\ UNCHANGED DeviceLayers
  BY DEF ClientLayers, DeviceLayers
<1>2. UNCHANGED ClientZOrder
  BY <1>1 DEF ClientZOrder
<1>3. \A l : Depth(l)' = Depth(l)
  BY <1>2 DEF Depth
<1>4. UNCHANGED Kept
  BY <1>1, <1>3 DEF Kept, Candidates
<1>5. UNCHANGED ZMap
  BY <1>3, <1>4 DEF ZMap
<1>. QED
  BY <1>5 DEF Picture

LEMMA PresentedType ==
  ASSUME TypeOK, NEW f \in Frames, NEW i \in DOMAIN presented[f]
  PROVE  /\ presented[f][i] = <<presented[f][i][1], presented[f][i][2]>>
         /\ presented[f][i][1] \in 0..MaxLayers /\ presented[f][i][2] \in Nat
<1>1. presented[f] \in Pictures
  BY DEF TypeOK
<1>2. presented[f][i] \in (Layers \cup {ClientLayer}) \X Nat
  BY <1>1 DEF Pictures
<1>. QED
  BY <1>2 DEF Layers, ClientLayer

ClientDraws == \E l \in layers : told[l] = "Client"

(* Only the internal display has a screen, and only the virtual one an     *)
(* output buffer.                                                          *)
ScreenIsInternal ==
    /\ kind # "internal" => shown = NoFrame /\ next = NoFrame
    /\ phase = "output" => kind = "virtual"

FramesDiffer == next # NoFrame => next # shown

PicturesAreOld ==
    \A f \in {shown, next} \ {NoFrame} : \A i \in DOMAIN presented[f] : presented[f][i][1] <= layerIdx

(* HWC holds on to the buffers of the frame that comes next, and to those  *)
(* of the one on the screen when none comes.                               *)
ShownIsLatched ==
    next = NoFrame =>
        \A l \in layers, k \in Handles : InPicture(shown, <<l, k>>) => buffer[l][k] = "latched"
NextIsLatched ==
    \A l \in layers, k \in Handles : InPicture(next, <<l, k>>) => buffer[l][k] = "latched"

(* A buffer on the screen that an application may draw into is about to    *)
(* leave it, and its layer with it.                                        *)
FreeIsLeaving ==
    \A l \in layers, k \in Handles :
        /\ buffer[l][k] = "drawing" \/ (buffer[l][k] = "free" /\ <<l, k>> \notin guarded)
        /\ InPicture(shown, <<l, k>>)
        => next # NoFrame /\ ~LayerInPicture(next, l)

(* The buffer a refresh has replaced is not in its frame, and the layer's  *)
(* fence guards it until that is on the screen.                            *)
ReplacedIsGuarded ==
    phase = "fences" =>
        /\ \A l \in layers, k \in Handles : InPicture(Newer, <<l, k>>) => replaced[l] # k
        /\ next # NoFrame =>
             \A l \in layers : LayerInPicture(next, l) /\ replaced[l] # 0 => l \in releaseFence

(* The client's target is the one that is shown, until SurfaceFlinger has  *)
(* drawn another, and that is not shown.                                   *)
TargetFollows ==
    /\ phase = "target" => ClientDraws
    /\ IF phase = "present" /\ ClientDraws
         THEN next = NoFrame /\ ~InPicture(shown, <<ClientLayer, nativeHandle[ClientLayer]>>)
         ELSE \A j \in Nat : InPicture(Newer, <<ClientLayer, j>>) => j = nativeHandle[ClientLayer]

NewestIsPicture == JustPresented => Newer \in Frames /\ presented[Newer] = Picture

ScreenInv ==
    /\ ScreenIsInternal /\ FramesDiffer /\ PicturesAreOld
    /\ ShownIsLatched /\ NextIsLatched /\ FreeIsLeaving /\ ReplacedIsGuarded
    /\ TargetFollows /\ NewestIsPicture

LEMMA ScreenInit ==
  ASSUME Init
  PROVE  ScreenInv
<1>1. phase = "idle" /\ shown = NoFrame /\ next = NoFrame
  BY DEF Init, Display!Init
<1>. QED
  BY <1>1 DEF ScreenInv, ScreenIsInternal, FramesDiffer, PicturesAreOld, ShownIsLatched, NextIsLatched,
              FreeIsLeaving, ReplacedIsGuarded, TargetFollows, NewestIsPicture, JustPresented,
              InPicture, LayerInPicture, Newer

(* A buffer of an application changes hands, or a layer comes or goes.     *)
BuffersStay ==
    \A l \in layers', k \in Handles :
        \/ ~InPicture(shown, <<l, k>>) /\ ~InPicture(next, <<l, k>>)
        \/ /\ l \in layers
           /\ buffer[l][k] = "latched" => buffer'[l][k] = "latched"
           /\ buffer'[l][k] = "drawing" \/ (buffer'[l][k] = "free" /\ <<l, k>> \notin guarded') =>
                buffer[l][k] = "drawing" \/ (buffer[l][k] = "free" /\ <<l, k>> \notin guarded)

(* As long as the display does not change, what is on the screen depends   *)
(* on what becomes of the buffers.                                         *)
LEMMA ScreenRests ==
  ASSUME TypeOK, ScreenInv, UNCHANGED <<kind, shown, next, presented>>,
         layerIdx' \in Nat, kind = "internal" => layerIdx <= layerIdx',
         kind = "internal" => BuffersStay,
         phase' # "fences", ScreenIsInternal', TargetFollows'
  PROVE  ScreenInv'
<1>1. \A b : /\ InPicture(shown, b)' <=> InPicture(shown, b)
             /\ InPicture(next, b)' <=> InPicture(next, b)
             /\ LayerInPicture(next, b)' <=> LayerInPicture(next, b)
  BY DEF InPicture, LayerInPicture
<1>2. FramesDiffer' /\ ReplacedIsGuarded' /\ NewestIsPicture'
  BY DEF ScreenInv, FramesDiffer, ReplacedIsGuarded, NewestIsPicture, JustPresented
<1>3. PicturesAreOld'
  <2>1. CASE kind = "internal"
    <3>1. {shown, next} \ {NoFrame} \subseteq Frames /\ layerIdx \in Nat
      BY DEF TypeOK
    <3> SUFFICES ASSUME NEW f \in {shown, next} \ {NoFrame}, NEW i \in DOMAIN presented[f]
                 PROVE  presented[f][i][1] <= layerIdx'
      BY DEF PicturesAreOld
    <3>2. presented[f][i][1] <= layerIdx /\ presented[f][i][1] \in Nat
      BY <3>1, PresentedType DEF ScreenInv, PicturesAreOld
    <3>. QED
      BY <2>1, <3>1, <3>2
  <2>2. CASE kind # "internal"
    BY <2>2 DEF ScreenInv, ScreenIsInternal, PicturesAreOld
  <2>. QED
    BY <2>1, <2>2
<1>4. ShownIsLatched' /\ NextIsLatched' /\ FreeIsLeaving'
  <2>1. CASE kind = "internal"
    <3> SUFFICES ASSUME NEW l \in layers', NEW k \in Handles
                 PROVE  /\ next = NoFrame /\ InPicture(shown, <<l, k>>) => buffer'[l][k] = "latched"
                        /\ InPicture(next, <<l, k>>) => buffer'[l][k] = "latched"
                        /\ /\ buffer'[l][k] = "drawing" \/ (buffer'[l][k] = "free" /\ <<l, k>> \notin guarded')
                           /\ InPicture(shown, <<l, k>>)
                           => next # NoFrame /\ ~LayerInPicture(next, l)
      BY <1>1 DEF ShownIsLatched, NextIsLatched, FreeIsLeaving
    <3>. QED
      BY <2>1 DEF BuffersStay, ScreenInv, ShownIsLatched, NextIsLatched, FreeIsLeaving
  <2>2. CASE kind # "internal"
    BY <1>1, <2>2 DEF ScreenInv, ScreenIsInternal, ShownIsLatched, NextIsLatched, FreeIsLeaving,
                      InPicture
  <2>. QED
    BY <2>1, <2>2
<1>. QED
  BY <1>2, <1>3, <1>4 DEF ScreenInv

(* Nor does it while an application draws.                                 *)
LEMMA ScreenDrawing ==
  ASSUME TypeOK, ScreenInv, NEW l \in Layers, NEW k \in Handles,
         StartDrawing(l, k) \/ FinishDrawing(l, k)
  PROVE  ScreenInv'
<1> USE DEF deviceVars, layerVars, outputVars, displayVars, appVars, refreshVars
<1>1. /\ UNCHANGED <<deviceVars, layerVars, displayVars, refreshVars, guarded>>
      /\ \/ buffer[l][k] = "free" /\ <<l, k>> \notin guarded /\ buffer' = [buffer EXCEPT ![l][k] = "drawing"]
         \/ buffer[l][k] = "drawing" /\ buffer' = [buffer EXCEPT ![l][k] = "queued"]
  BY DEF StartDrawing, FinishDrawing, Drawable
<1>2. /\ \A m \in Layers, j \in Handles : m # l \/ j # k => buffer'[m][j] = buffer[m][j]
      /\ \/ buffer[l][k] = "free" /\ <<l, k>> \notin guarded /\ buffer'[l][k] = "drawing"
         \/ buffer[l][k] = "drawing" /\ buffer'[l][k] = "queued"
  BY <1>1 DEF TypeOK
<1>3. layers \subseteq Layers
  BY KeptType
<1>4. \A b : /\ InPicture(shown, b)' <=> InPicture(shown, b)
             /\ InPicture(next, b)' <=> InPicture(next, b)
             /\ InPicture(Newer, b)' <=> InPicture(Newer, b)
             /\ LayerInPicture(next, b)' <=> LayerInPicture(next, b)
  BY <1>1 DEF InPicture, LayerInPicture, Newer
<1>5. ShownIsLatched'
  BY <1>1, <1>2, <1>3, <1>4 DEF ScreenInv, ShownIsLatched
<1>6. NextIsLatched'
  BY <1>1, <1>2, <1>3, <1>4 DEF ScreenInv, NextIsLatched
<1>7. FreeIsLeaving'
  BY <1>1, <1>2, <1>3, <1>4 DEF ScreenInv, FreeIsLeaving
<1>8. ScreenIsInternal' /\ FramesDiffer' /\ PicturesAreOld' /\ ReplacedIsGuarded'
  BY <1>1, <1>4 DEF ScreenInv, ScreenIsInternal, FramesDiffer, PicturesAreOld, ReplacedIsGuarded
<1>9. TargetFollows'
  BY <1>1, <1>4 DEF ScreenInv, TargetFollows, ClientDraws
<1>10. NewestIsPicture'
  BY <1>1, PictureStays DEF ScreenInv, NewestIsPicture, JustPresented, Newer
<1>. QED
  BY <1>5, <1>6, <1>7, <1>8, <1>9, <1>10 DEF ScreenInv

LEMMA ScreenVblank ==
  ASSUME TypeOK, ScreenInv, Vblank
  PROVE  ScreenInv'
<1> USE DEF deviceVars, layerVars, outputVars, displayVars, appVars, refreshVars
<1>1. /\ next # NoFrame /\ next # shown /\ shown' = next /\ next' = NoFrame /\ next \in Frames
      /\ presented' = [f \in Frames |-> IF f = shown THEN <<>> ELSE presented[f]]
      /\ UNCHANGED <<deviceVars, layerVars, outputVars, refreshVars, appVars>>
  BY DEF Vblank, Display!Vblank, ScreenInv, FramesDiffer, TypeOK
<1>2. presented'[next] = presented[next] /\ Newer = next /\ Newer' = next
  BY <1>1 DEF Newer
<1>3. \A b : /\ InPicture(shown, b)' <=> InPicture(next, b)
             /\ InPicture(Newer, b)' <=> InPicture(Newer, b)
             /\ ~InPicture(next, b)'
  BY <1>1, <1>2 DEF InPicture
<1>4. ShownIsLatched' /\ NextIsLatched'
  BY <1>1, <1>3 DEF ScreenInv, ShownIsLatched, NextIsLatched
<1>5. FreeIsLeaving'
  BY <1>1, <1>3 DEF ScreenInv, FreeIsLeaving, NextIsLatched
<1>6. ScreenIsInternal' /\ FramesDiffer' /\ PicturesAreOld'
  BY <1>1, <1>2 DEF ScreenInv, ScreenIsInternal, FramesDiffer, PicturesAreOld
<1>7. ReplacedIsGuarded'
  BY <1>1, <1>3 DEF ScreenInv, ReplacedIsGuarded
<1>8. TargetFollows'
  BY <1>1, <1>3 DEF ScreenInv, TargetFollows, ClientDraws
<1>9. NewestIsPicture'
  BY <1>1, <1>2, PictureStays DEF ScreenInv, NewestIsPicture, JustPresented
<1>. QED
  BY <1>4, <1>5, <1>6, <1>7, <1>8, <1>9 DEF ScreenInv

LEMMA ScreenStutter ==
  ASSUME TypeOK, ScreenInv,
         UNCHANGED <<kind, layerVars, shown, next, presented, refreshVars, appVars>>
  PROVE  ScreenInv'
<1> USE DEF layerVars, appVars, refreshVars
<1>1. \A b : /\ InPicture(shown, b)' <=> InPicture(shown, b)
             /\ InPicture(next, b)' <=> InPicture(next, b)
             /\ InPicture(Newer, b)' <=> InPicture(Newer, b)
             /\ LayerInPicture(next, b)' <=> LayerInPicture(next, b)
  BY DEF InPicture, LayerInPicture, Newer
<1>2. ShownIsLatched' /\ NextIsLatched' /\ FreeIsLeaving'
  BY <1>1 DEF ScreenInv, ShownIsLatched, NextIsLatched, FreeIsLeaving
<1>3. ScreenIsInternal' /\ FramesDiffer' /\ PicturesAreOld' /\ ReplacedIsGuarded'
  BY <1>1 DEF ScreenInv, ScreenIsInternal, FramesDiffer, PicturesAreOld, ReplacedIsGuarded
<1>4. TargetFollows'
  BY <1>1 DEF ScreenInv, TargetFollows, ClientDraws
<1>5. NewestIsPicture'
  BY PictureStays DEF ScreenInv, NewestIsPicture, JustPresented, Newer
<1>. QED
  BY <1>2, <1>3, <1>4, <1>5 DEF ScreenInv

(* The target stays shown as long as SurfaceFlinger does not draw.         *)
LEMMA TargetRests ==
  ASSUME ScreenInv, UNCHANGED <<shown, next, presented>>,
         nativeHandle'[ClientLayer] = nativeHandle[ClientLayer],
         phase # "present", phase' \notin {"target", "present"}
  PROVE  TargetFollows'
<1>1. \A b : InPicture(Newer, b)' <=> InPicture(Newer, b)
  BY DEF InPicture, Newer
<1>. QED
  BY <1>1 DEF ScreenInv, TargetFollows

LEMMA ScreenIdle ==
  ASSUME TypeOK, RefreshInv, ScreenInv,
         \/ DestroyVirtualDisplay
         \/ \E z \in 1..MaxLayers : CreateLayer(z)
         \/ \E l \in Layers : DestroyLayer(l)
         \/ BeginRefresh
  PROVE  ScreenInv'
<1> USE DEF deviceVars, layerVars, outputVars, displayVars, appVars, refreshVars
<1>1. /\ phase = "idle" /\ phase' \in {"idle", "setup"} /\ UNCHANGED <<kind, shown, next, presented>>
  BY DEF DestroyVirtualDisplay, CreateLayer, DestroyLayer, BeginRefresh
<1>2. nativeHandle'[ClientLayer] = nativeHandle[ClientLayer] \/ kind = "virtual"
  BY DEF DestroyVirtualDisplay, CreateLayer, DestroyLayer, BeginRefresh, TypeOK, ClientLayer, Layers
<1>3. TargetFollows'
  <2>1. CASE kind = "virtual"
    BY <1>1, <2>1 DEF ScreenInv, ScreenIsInternal, TargetFollows, InPicture, Newer
  <2>2. CASE kind # "virtual"
    BY <1>1, <1>2, <2>2, TargetRests
  <2>. QED
    BY <2>1, <2>2
<1>4. layers \subseteq Layers /\ layerIdx \in Nat
  BY KeptType DEF TypeOK
<1>5. ScreenIsInternal'
  BY <1>1 DEF ScreenInv, ScreenIsInternal
<1>6. ASSUME layerIdx' \in Nat, kind = "internal" => layerIdx <= layerIdx' /\ BuffersStay
      PROVE  ScreenInv'
  BY <1>1, <1>3, <1>5, <1>6, ScreenRests
<1>7. CASE DestroyVirtualDisplay
  BY <1>6, <1>7 DEF DestroyVirtualDisplay
<1>8. ASSUME NEW z \in 1..MaxLayers, CreateLayer(z)
      PROVE  ScreenInv'
  <2>1. layerIdx' = layerIdx + 1 /\ layers' = layers \cup {layerIdx + 1} /\ UNCHANGED <<buffer, guarded>>
    BY <1>8 DEF CreateLayer, NextIdx
  <2>2. \A k \in Handles : ~InPicture(shown, <<layerIdx + 1, k>>) /\ ~InPicture(next, <<layerIdx + 1, k>>)
    BY <1>4 DEF ScreenInv, PicturesAreOld, InPicture
  <2>3. BuffersStay
    BY <2>1, <2>2 DEF BuffersStay
  <2>. QED
    BY <1>4, <1>6, <2>1, <2>3
<1>9. ASSUME NEW l \in Layers, DestroyLayer(l)
      PROVE  ScreenInv'
  <2>1. /\ layerIdx' = layerIdx /\ layers' = layers \ {l}
        /\ buffer' = [buffer EXCEPT ![l] = [k \in Handles |-> "free"]]
        /\ guarded' = {b \in guarded : b[1] # l}
    BY <1>9 DEF DestroyLayer
  <2>2. \A m \in layers', k \in Handles :
           /\ buffer'[m][k] = buffer[m][k]
           /\ <<m, k>> \in guarded' <=> <<m, k>> \in guarded
    BY <1>4, <2>1 DEF TypeOK
  <2>3. BuffersStay
    BY <2>1, <2>2, ZenonT(30) DEF BuffersStay
  <2>. QED
    BY <1>4, <1>6, <2>1, <2>3
<1>10. CASE BeginRefresh
  <2>1. UNCHANGED <<layers, layerIdx, buffer, guarded>>
    BY <1>10 DEF BeginRefresh
  <2>2. BuffersStay
    BY <2>1 DEF BuffersStay
  <2>. QED
    BY <1>4, <1>6, <2>1, <2>2
<1>. QED
  BY <1>7, <1>8, <1>9, <1>10

LEMMA ScreenSetup ==
  ASSUME TypeOK, RefreshInv, ScreenInv,
         \/ \E l \in Layers, t \in Types : SetLayerCompositionType(l, t)
         \/ \E l \in Layers : SetLayerColor(l)
         \/ \E l \in Layers, k \in Handles : SetLayerBuffer(l, k)
         \/ ValidateDisplay
  PROVE  ScreenInv'
<1> USE DEF idVars, deviceVars, layerVars, outputVars, displayVars, appVars, refreshVars
<1>1. /\ phase = "setup" /\ phase' \in {"setup", "validated"}
      /\ UNCHANGED <<kind, shown, next, presented, layers, layerIdx, guarded>>
  BY DEF SetLayerCompositionType, SetLayerColor, SetLayerBuffer, ValidateDisplay
<1>2. nativeHandle'[ClientLayer] = nativeHandle[ClientLayer]
  BY DEF SetLayerCompositionType, SetLayerColor, SetLayerBuffer, ValidateDisplay, TypeOK, ClientLayer, Layers
<1>3. TargetFollows' /\ ScreenIsInternal'
  BY <1>1, <1>2, TargetRests DEF ScreenInv, ScreenIsInternal
<1>4. \A l \in Layers, k \in Handles : buffer'[l][k] \in {buffer[l][k], "latched"}
  <2>1. ASSUME NEW l \in Layers, NEW k \in Handles, SetLayerBuffer(l, k)
        PROVE  \A m \in Layers, j \in Handles : buffer'[m][j] \in {buffer[m][j], "latched"}
    <3>1. buffer' = [buffer EXCEPT ![l][k] = "latched"]
      BY <2>1 DEF SetLayerBuffer
    <3>. QED
      BY <3>1 DEF TypeOK
  <2>2. CASE UNCHANGED buffer
    BY <2>2
  <2>. QED
    BY <2>1, <2>2 DEF SetLayerCompositionType, SetLayerColor, ValidateDisplay
<1>5. BuffersStay
  BY <1>1, <1>4, KeptType DEF BuffersStay
<1>6. layerIdx \in Nat
  BY DEF TypeOK
<1>. QED
  BY <1>1, <1>3, <1>5, <1>6, ScreenRests

LEMMA ScreenAccept ==
  ASSUME TypeOK, RefreshInv, ScreenInv,
         \/ AcceptDisplayChanges
         \/ \E k \in Targets : SetClientTarget(k) \/ SetOutputBuffer(k)
  PROVE  ScreenInv'
<1> USE DEF idVars, deviceVars, layerVars, outputVars, displayVars, appVars, refreshVars
<1>1. /\ phase \in {"validated", "target", "output"} /\ phase' \in {"target", "output", "present"}
      /\ UNCHANGED <<kind, shown, next, presented, layers, layerIdx, buffer, guarded>>
      /\ phase' = "output" => kind = "virtual" \/ phase = "output"
  BY DEF AcceptDisplayChanges, SetClientTarget, SetOutputBuffer, Drawn
<1>2. ScreenIsInternal'
  BY <1>1 DEF ScreenInv, ScreenIsInternal
<1>3. BuffersStay /\ layerIdx \in Nat
  BY <1>1 DEF BuffersStay, TypeOK
<1>4. \A b : /\ InPicture(shown, b)' <=> InPicture(shown, b)
             /\ InPicture(Newer, b)' <=> InPicture(Newer, b)
  BY <1>1 DEF InPicture, Newer
<1>5. CASE AcceptDisplayChanges
  <2>1. /\ UNCHANGED nativeHandle /\ phase = "validated"
        /\ phase' = "target" => ClientDraws'
        /\ phase' = "present" => ~ClientDraws'
    <3>1. /\ UNCHANGED <<nativeHandle, layers>> /\ phase = "validated"
          /\ phase' = IF \E l \in layers : told'[l] = "Client" THEN "target" ELSE Drawn
      BY <1>1, <1>5 DEF AcceptDisplayChanges
    <3>. QED
      BY <3>1 DEF ClientDraws, Drawn
  <2>2. TargetFollows'
    BY <1>4, <2>1 DEF ScreenInv, TargetFollows
  <2>. QED
    BY <1>1, <1>2, <1>3, <2>2, ScreenRests
<1>6. ASSUME NEW k \in Targets, SetClientTarget(k)
      PROVE  ScreenInv'
  <2>1. /\ phase = "target" /\ phase' = Drawn /\ next = NoFrame /\ UNCHANGED <<told, layers>>
        /\ k # nativeHandle[ClientLayer] /\ nativeHandle' = [nativeHandle EXCEPT ![ClientLayer] = k]
    BY <1>6 DEF SetClientTarget, GlWaited
  <2>2. nativeHandle'[ClientLayer] = k /\ k \in Nat
    BY <2>1 DEF TypeOK, Targets
  <2>3. ClientDraws /\ ClientDraws'
    BY <2>1 DEF ScreenInv, TargetFollows, ClientDraws
  <2>4. ~InPicture(shown, <<ClientLayer, k>>)
    BY <2>1, <2>2 DEF ScreenInv, TargetFollows, Newer
  <2>5. CASE phase' = "present"
    BY <1>1, <1>2, <1>3, <1>4, <2>1, <2>2, <2>3, <2>4, <2>5, ScreenRests DEF TargetFollows
  <2>6. CASE phase' = "output"
    <3>1. Newer' = NoFrame
      BY <1>1, <2>1, <2>6 DEF ScreenInv, ScreenIsInternal, Drawn, Newer
    <3>2. TargetFollows'
      BY <2>6, <3>1 DEF TargetFollows, InPicture
    <3>. QED
      BY <1>1, <1>2, <1>3, <3>2, ScreenRests
  <2>. QED
    BY <2>1, <2>5, <2>6 DEF Drawn
<1>7. ASSUME NEW k \in Targets, SetOutputBuffer(k)
      PROVE  ScreenInv'
  <2>1. phase = "output" /\ phase' = "present"
    BY <1>7 DEF SetOutputBuffer
  <2>2. shown' = NoFrame /\ next' = NoFrame
    BY <1>1, <2>1 DEF ScreenInv, ScreenIsInternal
  <2>3. TargetFollows'
    BY <2>1, <2>2 DEF TargetFollows, InPicture, Newer
  <2>. QED
    BY <1>1, <1>2, <1>3, <2>3, ScreenRests
<1>. QED
  BY <1>5, <1>6, <1>7

(* A refresh with nothing to present has only layers with a colour.        *)
LEMMA NothingPresented ==
  ASSUME TypeOK, RefreshInv, phase = "present", Picture = <<>>
  PROVE  \A l \in layers : told[l] = "SolidColor" /\ replaced[l] = 0
<1>1. Kept = {}
  <2>1. \A i \in DOMAIN Picture : FALSE
    OBVIOUS
  <2>. QED
    BY <2>1, PictureIsSorted DEF PictureHolds
<1>2. Candidates = {}
  BY <1>1, KeptIsCandidates DEF RefreshInv
<1> SUFFICES ASSUME NEW l \in layers PROVE told[l] = "SolidColor" /\ replaced[l] = 0
  OBVIOUS
<1>3. Agreed(l, validatedType[l])
  BY DEF RefreshInv, TypesFollow, Accepted
<1>4. told[l] # "Device"
  BY <1>2, <1>3 DEF Agreed, Candidates, DeviceLayers
<1>5. told[l] # "Client"
  BY <1>2, <1>3 DEF Agreed, Candidates, ClientLayers, RefreshInv, TargetIsSet
<1>6. told[l] = "SolidColor"
  BY <1>3, <1>4, <1>5 DEF Agreed
<1>. QED
  BY <1>6, KeptType DEF RefreshInv, ReplacedIsOld

LEMMA ScreenPresented ==
  ASSUME TypeOK, RefreshInv, ScreenInv, PresentDisplay, kind = "internal", PresentOnScreen
  PROVE  ScreenInv'
<1> USE DEF idVars, deviceVars, layerVars, outputVars, displayVars, appVars, refreshVars
<1>1. /\ phase = "present" /\ phase' = "fences"
      /\ UNCHANGED <<idVars, validatedType, zOrder, nativeHandle, told, latched, replaced, buffer>>
  BY DEF PresentDisplay
<1>2. PICK f \in Frames \ {shown, next} :
         /\ presented' = [presented EXCEPT ![f] = Picture]
         /\ IF shown = NoFrame
              THEN Display!Set(f)
              ELSE /\ Display!Queue(f)
                   /\ releaseFence' = releaseFence \cup ToSet(ZMap)
                   /\ FencesSignalled
  BY DEF PresentOnScreen
<1>3. /\ f \in Frames /\ f # NoFrame /\ f # shown /\ next = NoFrame
      /\ presented'[f] = Picture /\ \A g \in Frames \ {f} : presented'[g] = presented[g]
      /\ \/ shown' = f /\ next' = NoFrame
         \/ /\ shown \in Frames /\ shown' = shown /\ next' = f
            /\ Kept \subseteq releaseFence' /\ guarded' = {}
  BY <1>2, PictureIsSorted
     DEF TypeOK, Display!Set, Display!Queue, FencesSignalled, PictureHolds
<1>4. Newer' = f
  BY <1>3 DEF Newer
<1>5. layers \subseteq Layers /\ layers \subseteq 1..layerIdx /\ layerIdx \in Nat /\ ClientLayer \notin layers
  BY KeptType DEF TypeOK, Layers, ClientLayer
<1>6. ASSUME NEW l \in layers, NEW k \in Handles, InPicture(f, <<l, k>>)'
      PROVE  l \in Kept /\ k = latched[l] /\ buffer[l][k] = "latched" /\ replaced[l] # k
  <2>1. PICK i \in DOMAIN Picture : Picture[i] = <<l, k>>
    BY <1>3, <1>6 DEF InPicture
  <2>2. l \in Kept /\ k = nativeHandle[l]
    BY <2>1, PictureIsSorted DEF PictureHolds
  <2>3. validatedType[l] = "Device" /\ Full(l)
    BY <1>1, <1>5, <2>2 DEF Kept, Candidates, DeviceLayers, RefreshInv, GivenInTurn, Asked
  <2>4. k = latched[l] /\ latched[l] # 0
    BY <1>1, <2>2, <2>3 DEF RefreshInv, BuffersFollow, Asked
  <2>. QED
    BY <1>5, <2>2, <2>4 DEF RefreshInv, LatchedIsKept, ReplacedIsOld
<1>7. ASSUME NEW l \in layers, LayerInPicture(f, l)'
      PROVE  l \in Kept
  BY <1>3, <1>7, PictureIsSorted DEF LayerInPicture, PictureHolds
<1>8. shown \in Frames /\ shown' = shown =>
        \A b : InPicture(shown, b)' <=> InPicture(shown, b)
  BY <1>3 DEF InPicture
<1>9. ShownIsLatched' /\ NextIsLatched'
  <2>1. CASE shown' = f /\ next' = NoFrame
    <3>1. \A b : (InPicture(shown, b)' <=> InPicture(f, b)') /\ ~InPicture(next, b)'
      BY <2>1 DEF InPicture
    <3>. QED
      BY <1>1, <1>6, <3>1 DEF ShownIsLatched, NextIsLatched
  <2>2. CASE next' = f
    <3>1. \A b : InPicture(next, b)' <=> InPicture(f, b)'
      BY <2>2 DEF InPicture
    <3>. QED
      BY <1>1, <1>3, <1>6, <2>2, <3>1 DEF ShownIsLatched, NextIsLatched
  <2>. QED
    BY <1>3, <2>1, <2>2
<1>10. FreeIsLeaving'
  <2>1. \A l \in layers, k \in Handles : InPicture(shown, <<l, k>>)' => buffer[l][k] = "latched"
    <3>1. CASE shown' = f
      <4>1. \A b : InPicture(shown, b)' <=> InPicture(f, b)'
        BY <3>1 DEF InPicture
      <4>. QED
        BY <1>6, <4>1
    <3>2. CASE shown \in Frames /\ shown' = shown
      BY <1>3, <1>8, <3>2 DEF ScreenInv, ShownIsLatched
    <3>. QED
      BY <1>3, <3>1, <3>2
  <2>. QED
    BY <1>1, <2>1 DEF FreeIsLeaving
<1>11. ReplacedIsGuarded'
  <2>1. \A l \in layers, k \in Handles : InPicture(Newer, <<l, k>>)' => replaced[l] # k
    <3>1. \A b : InPicture(Newer, b)' <=> InPicture(f, b)'
      BY <1>4 DEF InPicture
    <3>. QED
      BY <1>6, <3>1
  <2>2. next' # NoFrame => \A l \in layers : LayerInPicture(next, l)' => l \in releaseFence'
    <3>1. next' = f => \A l : LayerInPicture(next, l)' <=> LayerInPicture(f, l)'
      BY DEF LayerInPicture
    <3>. QED
      BY <1>3, <1>7, <3>1
  <2>. QED
    BY <1>1, <2>1, <2>2 DEF ReplacedIsGuarded
<1>12. TargetFollows'
  <2>1. ASSUME NEW j \in Nat, InPicture(Newer, <<ClientLayer, j>>)'
        PROVE  j = nativeHandle'[ClientLayer]
    <3>1. PICK i \in DOMAIN Picture : Picture[i] = <<ClientLayer, j>>
      BY <1>3, <1>4, <2>1 DEF InPicture
    <3>. QED
      BY <1>1, <3>1, PictureIsSorted DEF PictureHolds
  <2>. QED
    BY <1>1, <2>1 DEF TargetFollows
<1>13. ScreenIsInternal' /\ FramesDiffer'
  BY <1>1, <1>3 DEF ScreenIsInternal, FramesDiffer
<1>14. PicturesAreOld'
  <2>1. \A i \in DOMAIN Picture : Picture[i][1] <= layerIdx
    <3>1. \A l \in layers \cup {ClientLayer} : l <= layerIdx
      BY <1>5 DEF ClientLayer
    <3>2. \A i \in DOMAIN Picture : Picture[i][1] \in layers \cup {ClientLayer}
      BY KeptType, PictureIsSorted DEF PictureHolds
    <3>. QED
      BY <3>1, <3>2
  <2> SUFFICES ASSUME NEW g \in {shown', next'} \ {NoFrame}, NEW i \in DOMAIN presented'[g]
               PROVE  presented'[g][i][1] <= layerIdx
    BY <1>1 DEF PicturesAreOld
  <2>2. CASE g = f
    BY <1>3, <2>1, <2>2
  <2>3. CASE g # f
    <3>1. g = shown /\ g \in Frames /\ presented'[g] = presented[g]
      BY <1>3, <2>3
    <3>. QED
      BY <3>1 DEF ScreenInv, PicturesAreOld
  <2>. QED
    BY <2>2, <2>3
<1>15. NewestIsPicture'
  BY <1>1, <1>3, <1>4, PictureStays DEF NewestIsPicture
<1>. QED
  BY <1>9, <1>10, <1>11, <1>12, <1>13, <1>14, <1>15 DEF ScreenInv

LEMMA ScreenPresent ==
  ASSUME TypeOK, RefreshInv, ScreenInv, PresentDisplay
  PROVE  ScreenInv'
<1> USE DEF idVars, deviceVars, layerVars, outputVars, displayVars, appVars, refreshVars
<1>1. /\ phase = "present" /\ phase' = "fences"
      /\ UNCHANGED <<idVars, validatedType, zOrder, nativeHandle, told, latched, replaced, buffer>>
  BY DEF PresentDisplay
<1>2. CASE kind = "internal" /\ PresentOnScreen
  BY <1>2, ScreenPresented
<1>3. CASE kind # "internal" /\ UNCHANGED <<shown, next>>
  <2>1. shown' = NoFrame /\ next' = NoFrame /\ kind' # "internal"
    BY <1>1, <1>3 DEF ScreenInv, ScreenIsInternal
  <2>. QED
    BY <1>1, <2>1 DEF ScreenInv, ScreenIsInternal, FramesDiffer, PicturesAreOld, ShownIsLatched,
       NextIsLatched, FreeIsLeaving, ReplacedIsGuarded, TargetFollows, NewestIsPicture, JustPresented,
       InPicture, LayerInPicture, Newer
<1>4. CASE Picture = <<>> /\ UNCHANGED <<displayVars, releaseFence, guarded>>
  <2>1. \A l \in layers : told[l] = "SolidColor" /\ replaced[l] = 0
    BY <1>1, <1>4, NothingPresented
  <2>2. \A b : /\ InPicture(shown, b)' <=> InPicture(shown, b)
               /\ InPicture(next, b)' <=> InPicture(next, b)
               /\ InPicture(Newer, b)' <=> InPicture(Newer, b)
               /\ LayerInPicture(next, b)' <=> LayerInPicture(next, b)
    BY <1>4 DEF InPicture, LayerInPicture, Newer
  <2>3. ShownIsLatched' /\ NextIsLatched' /\ FreeIsLeaving'
    BY <1>1, <1>4, <2>2 DEF ScreenInv, ShownIsLatched, NextIsLatched, FreeIsLeaving
  <2>4. ScreenIsInternal' /\ FramesDiffer' /\ PicturesAreOld'
    BY <1>1, <1>4 DEF ScreenInv, ScreenIsInternal, FramesDiffer, PicturesAreOld
  <2>5. ReplacedIsGuarded'
    BY <1>1, <2>1 DEF ReplacedIsGuarded, Handles
  <2>6. TargetFollows'
    <3>1. ~ClientDraws
      BY <2>1 DEF ClientDraws
    <3>. QED
      BY <1>1, <2>2, <3>1 DEF ScreenInv, TargetFollows
  <2>7. NewestIsPicture'
    <3>1. Picture' = <<>>
      BY <1>1, <1>4, PictureStays
    <3>. QED
      BY <3>1 DEF NewestIsPicture, JustPresented
  <2>. QED
    BY <2>3, <2>4, <2>5, <2>6, <2>7 DEF ScreenInv
<1>. QED
  BY <1>2, <1>3, <1>4 DEF PresentDisplay, PresentOffscreen

LEMMA ScreenFences ==
  ASSUME TypeOK, RefreshInv, ScreenInv, GetReleaseFences
  PROVE  ScreenInv'
<1> USE DEF idVars, deviceVars, layerVars, outputVars, displayVars, appVars, refreshVars
<1>1. /\ phase = "fences" /\ phase' = "idle"
      /\ guarded' = guarded \cup {Fenced(l) : l \in HandedOver}
      /\ buffer' = [l \in Layers |-> [k \in Handles |-> IF replaced[l] = k THEN "free" ELSE buffer[l][k]]]
      /\ UNCHANGED <<idVars, nativeHandle, displayVars>>
  BY DEF GetReleaseFences
<1>2. \A b : /\ InPicture(shown, b)' <=> InPicture(shown, b)
             /\ InPicture(next, b)' <=> InPicture(next, b)
             /\ LayerInPicture(next, b)' <=> LayerInPicture(next, b)
             /\ InPicture(Newer, b) <=> IF next # NoFrame THEN InPicture(next, b) ELSE InPicture(shown, b)
  BY <1>1 DEF InPicture, LayerInPicture, Newer
<1>3. layers \subseteq Layers
  BY KeptType
<1>4. \A l \in layers, k \in Handles : buffer'[l][k] = IF replaced[l] = k THEN "free" ELSE buffer[l][k]
  BY <1>1, <1>3
<1>5. \A l \in layers, k \in Handles : InPicture(Newer, <<l, k>>) => replaced[l] # k
  BY <1>1 DEF ScreenInv, ReplacedIsGuarded
<1>6. ShownIsLatched' /\ NextIsLatched'
  <2>1. ASSUME NEW l \in layers, NEW k \in Handles, InPicture(Newer, <<l, k>>)
        PROVE  buffer'[l][k] = buffer[l][k]
    BY <1>4, <1>5, <2>1
  <2>2. ShownIsLatched'
    <3>1. next = NoFrame => \A b : InPicture(Newer, b) <=> InPicture(shown, b)
      BY <1>2
    <3>. QED
      BY <1>1, <1>2, <2>1, <3>1, SMTT(30) DEF ScreenInv, ShownIsLatched
  <2>3. NextIsLatched'
    <3>1. \A b : InPicture(next, b) => InPicture(Newer, b)
      BY <1>2 DEF InPicture
    <3>. QED
      BY <1>1, <1>2, <2>1, <3>1, SMTT(30) DEF ScreenInv, NextIsLatched
  <2>. QED
    BY <2>2, <2>3
<1>7. FreeIsLeaving'
  <2> SUFFICES ASSUME NEW l \in layers, NEW k \in Handles, InPicture(shown, <<l, k>>),
                      buffer'[l][k] = "drawing" \/ (buffer'[l][k] = "free" /\ <<l, k>> \notin guarded')
               PROVE  next # NoFrame /\ ~LayerInPicture(next, l)
    BY <1>1, <1>2 DEF FreeIsLeaving
  <2>1. CASE replaced[l] # k
    BY <1>1, <1>4, <2>1 DEF ScreenInv, FreeIsLeaving
  <2>2. CASE replaced[l] = k
    <3>1. next # NoFrame
      BY <1>2, <1>5, <2>2
    <3>2. l \in releaseFence => <<l, k>> \in guarded'
      BY <1>1, <2>2 DEF HandedOver, Fenced, Handles
    <3>3. l \notin releaseFence
      BY <1>4, <2>2, <3>2
    <3>. QED
      BY <1>1, <2>2, <3>1, <3>3 DEF ScreenInv, ReplacedIsGuarded, Handles
  <2>. QED
    BY <2>1, <2>2
<1>8. TargetFollows'
  BY <1>1, TargetRests
<1>9. ScreenIsInternal' /\ FramesDiffer' /\ PicturesAreOld' /\ ReplacedIsGuarded' /\ NewestIsPicture'
  BY <1>1 DEF ScreenInv, ScreenIsInternal, FramesDiffer, PicturesAreOld, ReplacedIsGuarded,
              NewestIsPicture, JustPresented
<1>. QED
  BY <1>6, <1>7, <1>8, <1>9 DEF ScreenInv

LEMMA ScreenStep ==
  ASSUME TypeOK, RefreshInv, ScreenInv, [Next]_vars
  PROVE  ScreenInv'
<1>1. CASE Refresh
  BY <1>1, ScreenSetup, ScreenAccept, ScreenPresent, ScreenFences DEF Refresh
<1>2. CASE HwcDisplayInit \/ UNCHANGED vars
  <2>1. UNCHANGED <<kind, layerVars, shown, next, presented, refreshVars, appVars>>
    BY <1>2 DEF HwcDisplayInit, displayVars, deviceVars, vars
  <2>. QED
    BY <2>1, ScreenStutter
<1>3. CASE \E l \in Layers, k \in Handles : StartDrawing(l, k) \/ FinishDrawing(l, k)
  BY <1>3, ScreenDrawing
<1>. QED
  BY <1>1, <1>2, <1>3, ScreenVblank, ScreenIdle DEF Next, HookDevOpen, CreateVirtualDisplay

-----------------------------------------------------------------------------
(* The results.                                                            *)

LEMMA AgreedFromScreen ==
  ASSUME TypeOK, RefreshInv, ScreenInv
  PROVE  ShownAsAgreed
<1> SUFFICES ASSUME JustPresented
             PROVE  LET pic == presented[Newer]
                    IN  /\ \A l \in layers :
                             /\ told[l] = "Device" =>
                                    \E i \in Places(l) : Places(l) = {i} /\ pic[i][2] = latched[l]
                             /\ told[l] = "Client" => Places(l) = {} /\ Places(ClientLayer) # {}
                        /\ \A i, j \in DOMAIN pic : i < j =>
                             LET below == IF pic[i][1] = ClientLayer
                                            THEN {l \in layers : told[l] = "Client"} ELSE {pic[i][1]}
                             IN  pic[j][1] # ClientLayer => \A l \in below : zOrder[l] < zOrder[pic[j][1]]
  BY DEF ShownAsAgreed
<1>1. presented[Newer] = Picture
  BY DEF ScreenInv, NewestIsPicture
<1>2. phase = "fences"
  BY DEF JustPresented
<1>3. Kept = Candidates
  BY KeptIsCandidates DEF RefreshInv
<1>4. PictureHolds
  BY PictureIsSorted
<1>5. layers \subseteq Layers /\ ClientLayer \notin layers /\ \A l \in Kept : Depth(l) \in Nat
  BY <1>3, KeptType DEF Layers, ClientLayer
<1>6. \A l : Places(l) = {i \in DOMAIN Picture : Picture[i][1] = l}
  BY <1>1 DEF Places
<1>7. \A i, j \in DOMAIN Picture : Picture[i][1] = Picture[j][1] => i = j
  <2> SUFFICES ASSUME NEW i \in DOMAIN Picture, NEW j \in DOMAIN Picture, i # j
               PROVE  Picture[i][1] # Picture[j][1]
    OBVIOUS
  <2>1. i < j \/ j < i
    BY <1>4 DEF PictureHolds
  <2>2. /\ i < j => Depth(Picture[i][1]) < Depth(Picture[j][1])
        /\ j < i => Depth(Picture[j][1]) < Depth(Picture[i][1])
        /\ Depth(Picture[i][1]) \in Nat
    BY <1>4, <1>5 DEF PictureHolds
  <2>. QED
    BY <2>1, <2>2
<1>8. \A l \in layers : Agreed(l, validatedType[l]) /\ Full(l)
  BY <1>2 DEF RefreshInv, TypesFollow, GivenInTurn, Accepted, Asked
<1>9. ASSUME NEW l \in layers, told[l] = "Device"
      PROVE  \E i \in Places(l) : Places(l) = {i} /\ Picture[i][2] = latched[l]
  <2>1. validatedType[l] = "Device"
    BY <1>8, <1>9 DEF Agreed
  <2>2. l \in Kept
    BY <1>3, <2>1 DEF Candidates, DeviceLayers
  <2>3. nativeHandle[l] = latched[l]
    BY <1>2, <1>8, <2>1 DEF RefreshInv, BuffersFollow, Asked
  <2>4. PICK i \in DOMAIN Picture : Picture[i] = <<l, nativeHandle[l]>>
    BY <1>4, <2>2 DEF PictureHolds
  <2>5. Places(l) = {i}
    BY <1>6, <1>7, <2>4
  <2>. QED
    BY <2>3, <2>4, <2>5
<1>10. ASSUME NEW l \in layers, told[l] = "Client"
       PROVE  Places(l) = {} /\ Places(ClientLayer) # {}
  <2>1. validatedType[l] = "Client"
    BY <1>8, <1>10 DEF Agreed
  <2>2. l \notin Kept
    BY <1>3, <1>5, <2>1 DEF Candidates, DeviceLayers
  <2>3. nativeHandle[ClientLayer] # 0
    BY <1>2, <1>10 DEF RefreshInv, TargetIsSet
  <2>4. ClientLayer \in Kept
    BY <1>3, <2>1, <2>3 DEF Candidates, ClientLayers
  <2>5. PICK i \in DOMAIN Picture : Picture[i] = <<ClientLayer, nativeHandle[ClientLayer]>>
    BY <1>4, <2>4 DEF PictureHolds
  <2>6. i \in Places(ClientLayer)
    BY <1>6, <2>5
  <2>. QED
    BY <1>4, <1>6, <2>2, <2>6 DEF PictureHolds
<1>11. ASSUME NEW i \in DOMAIN Picture, NEW j \in DOMAIN Picture, i < j, Picture[j][1] # ClientLayer,
              NEW l \in (IF Picture[i][1] = ClientLayer
                           THEN {m \in layers : told[m] = "Client"} ELSE {Picture[i][1]})
       PROVE  zOrder[l] < zOrder[Picture[j][1]]
  <2>1. Depth(Picture[i][1]) < zOrder[Picture[j][1]] /\ Picture[j][1] \in Kept
    BY <1>4, <1>11 DEF PictureHolds, Depth
  <2>2. CASE Picture[i][1] # ClientLayer
    BY <1>11, <2>1, <2>2 DEF Depth
  <2>3. CASE Picture[i][1] = ClientLayer
    <3>1. l \in layers /\ told[l] = "Client"
      BY <2>3
    <3>2. l \in ClientLayers
      BY <1>8, <3>1 DEF Agreed, ClientLayers
    <3>3. zOrder[l] <= ClientZOrder /\ ClientZOrder \in Nat
      BY <3>2, ClientZOrderIsHighest
    <3>4. zOrder[l] \in Nat /\ zOrder[Picture[j][1]] \in Nat
      <4>1. \A m \in layers : zOrder[m] \in Nat
        BY <1>5 DEF TypeOK
      <4>2. Picture[j][1] \in layers
        BY <1>11, <2>1, KeptType
      <4>. QED
        BY <3>1, <4>1, <4>2
    <3>. QED
      BY <2>1, <2>3, <3>3, <3>4 DEF Depth
  <2>. QED
    BY <2>2, <2>3
<1>12. \A i, j \in DOMAIN Picture : i < j /\ Picture[j][1] # ClientLayer =>
         \A l \in (IF Picture[i][1] = ClientLayer
                     THEN {m \in layers : told[m] = "Client"} ELSE {Picture[i][1]}) :
            zOrder[l] < zOrder[Picture[j][1]]
  BY <1>11
<1>. QED
  BY <1>1, <1>9, <1>10, <1>12

LEMMA NoTearingFromScreen ==
  ASSUME ScreenInv
  PROVE  NoTearing
<1>1. ASSUME NEW l \in layers, NEW k \in Handles, buffer[l][k] = "drawing"
      PROVE  /\ ~InPicture(next, <<l, k>>)
             /\ InPicture(shown, <<l, k>>) => next # NoFrame /\ ~LayerInPicture(next, l)
  BY <1>1 DEF ScreenInv, NextIsLatched, FreeIsLeaving
<1>2. phase = "present" /\ (\E l \in layers : told[l] = "Client") =>
        ~InPicture(shown, <<ClientLayer, nativeHandle[ClientLayer]>>)
  BY DEF ScreenInv, TargetFollows, ClientDraws
<1>. QED
  BY <1>1, <1>2 DEF NoTearing

LEMMA Invariants == Spec => [](TypeOK /\ RefreshInv /\ ScreenInv)
<1>1. Init => TypeOK /\ RefreshInv /\ ScreenInv
  BY TypeInit, RefreshInit, ScreenInit
<1>2. TypeOK /\ RefreshInv /\ ScreenInv /\ [Next]_vars => TypeOK' /\ RefreshInv' /\ ScreenInv'
  BY TypeStep, RefreshStep, RefreshStutter, ScreenStep
<1>. QED
  BY <1>1, <1>2, PTL DEF Spec

(* What a refresh presents is what SurfaceFlinger composed it for: each    *)
(* layer it left to the display once, with its newest buffer, none that it *)
(* drew itself, in z-order, and its target above every layer in it.        *)
THEOREM PresentsWhatWasAgreed == Spec => []ShownAsAgreed
  BY Invariants, AgreedFromScreen, PTL

(* No application draws into a buffer that is on the screen or about to be *)
(* unless its layer is leaving the screen, and SurfaceFlinger never draws  *)
(* into the target that is shown, in whatever order frames reach the       *)
(* screen, fences are signalled, and layers come and go.                   *)
THEOREM ApplicationsNeverTear == Spec => []NoTearing
  BY Invariants, NoTearingFromScreen, PTL

=============================================================================
