------------------------ MODULE DisplayHotplugProofs ------------------------
(***************************************************************************)
(* Safety of DisplayHotplug for any number of connectors, encoders,        *)
(* displays, changes and failing calls.  The list is right between two     *)
(* updates because is_connected_ says throughout an update which displays  *)
(* it has listed, and the pass that shuts displays down goes by it.        *)
(***************************************************************************)
EXTENDS DisplayHotplug, FiniteSetTheorems, TLAPS

(* No update is under way.                                                 *)
Settled == pc \in {"idle", "update", "listen"}

(* Where the start of the device and an update can be.                     *)
ControlInv ==
    /\ stage \in {"closed", "failed"} => pc = "idle" /\ ~worker
    /\ stage = "starting" => pc # "idle" /\ ~worker
    /\ stage = "ready" => pc # "listen"
    /\ Settled \/ pc = "scan" => d = 1
    /\ pc = "encoders" => i \in Connectors
    /\ events <= changes

(* is_connected_ says what is listed and keeps a display on; the displays  *)
(* that ShutDown has passed, and between two updates all, are on only if   *)
(* it says so.                                                             *)
PowerInv ==
    \A x \in Displays :
        /\ ~poweredOff[x] => manager[x] # "none"
        /\ isConnected[x] => ~poweredOff[x]
        /\ isConnected[x] => x \in Range(connected) \/ manager[x] = "broken"
        /\ x \in Range(connected) => isConnected[x]
        /\ Settled \/ (pc = "shutdown" /\ x < d) => isConnected[x] \/ poweredOff[x]

(* A device that started has a display to hand out between two updates.    *)
ServedInv ==
    pc = "listen" \/ (stage = "ready" /\ pc \in {"idle", "update"}) =>
        (headless # Nobody <=> connected = <<>>)

(* What the client was given.                                              *)
ClientInv ==
    /\ stage \in {"starting", "ready"} => Displays \subseteq alive
    /\ IsFiniteSet(alive)
    /\ headless \in alive \cup {Nobody}
    /\ stage = "closed" => headless = Nobody
    /\ ~registered => ~asking /\ clientDisplays = <<>>
    /\ registered \/ clientDisplay # Nobody => stage = "ready"
    /\ clientDisplay \in alive \cup {Nobody}
    /\ Settled /\ connected # <<>> => clientDisplays \in {<<>>, connected}

IInv == TypeOK /\ ControlInv /\ PowerInv /\ ServedInv /\ ClientInv

-----------------------------------------------------------------------------
LEMMA DisplaysAreNumbers == Displays \subseteq Nat /\ IsFiniteSet(Displays) /\ Nobody \notin Nat
<1>1. NumDisplays \in Nat
  BY SizesAssumption
<1> QED BY <1>1, FS_Interval, NobodyAssumption DEF Displays

LEMMA Bounds ==
    /\ 1 \in 1..(NumConnectors + 1) /\ 1 \in 1..(NumDisplays + 1)
    /\ \A c \in Connectors : c + 1 \in 1..(NumConnectors + 1)
    /\ \A x \in Displays : x + 1 \in 1..(NumDisplays + 1) /\ x \in Nat
    /\ \A n \in 1..(NumDisplays + 1) : n > NumDisplays => \A x \in Displays : x < n
    /\ \A n \in 1..(NumConnectors + 1) : ~(n > NumConnectors) => n \in Connectors
    /\ 0 \in 0..MaxChanges /\ 0 \in 0..MaxFaults
    /\ \A n \in 0..MaxChanges : n < MaxChanges => n + 1 \in 0..MaxChanges
    /\ \A n \in 0..MaxChanges : n > 0 => n - 1 \in 0..MaxChanges
    /\ \A x \in Displays : ~(x < 1)
    /\ \A n \in 0..MaxFaults : n < MaxFaults => n + 1 \in 0..MaxFaults
BY SizesAssumption, BoundAssumption DEF Connectors, Displays

LEMMA AppendToList ==
    ASSUME NEW s \in Seq(Displays), NEW x \in Displays
    PROVE  /\ Append(s, x) \in Seq(Displays)
           /\ Range(Append(s, x)) = Range(s) \cup {x}
<1>1. Append(s, x) \in Seq(Displays)
  OBVIOUS
<1>2. Range(Append(s, x)) \subseteq Range(s) \cup {x}
  BY DEF Range
<1>3. Range(s) \subseteq Range(Append(s, x))
  <2> SUFFICES ASSUME NEW k \in DOMAIN s PROVE s[k] \in Range(Append(s, x))
    BY DEF Range
  <2>1. k \in DOMAIN Append(s, x) /\ Append(s, x)[k] = s[k]
    OBVIOUS
  <2> QED BY <2>1 DEF Range
<1>4. x \in Range(Append(s, x))
  <2>1. Len(s) + 1 \in DOMAIN Append(s, x) /\ Append(s, x)[Len(s) + 1] = x
    OBVIOUS
  <2> QED BY <2>1 DEF Range
<1> QED BY <1>1, <1>2, <1>3, <1>4

LEMMA ListedAreDisplays ==
    ASSUME NEW s \in Seq(Displays)
    PROVE  /\ Range(s) \subseteq Displays
           /\ s # <<>> => Head(s) \in Displays
BY DEF Range

LEMMA InitIInv == Init => IInv
<1> SUFFICES ASSUME Init PROVE IInv
  OBVIOUS
<1>1. TypeOK
  <2>1. isConnected \in [Displays -> BOOLEAN]
    BY DEF Init, AllDisconnected
  <2>2. faults \in 0..MaxFaults /\ events \in 0..MaxChanges /\ changes \in 0..MaxChanges
    BY Bounds DEF Init
  <2>3. /\ poweredOff \in [Displays -> BOOLEAN] /\ modeset \in [Displays -> BOOLEAN]
        /\ connector \in [Displays -> Connectors \cup {Nobody}]
        /\ manager \in [Displays -> {"none", "ready", "broken"}]
        /\ \A x \in Displays : poweredOff[x]
    BY DEF Init
  <2>4. i \in 1..(NumConnectors + 1) /\ j \in Nat /\ d \in 1..(NumDisplays + 1)
    BY Bounds DEF Init
  <2>5. connected \in Seq(Displays) /\ clientDisplays \in Seq(Displays)
    BY DEF Init
  <2> QED BY <2>1, <2>2, <2>3, <2>4, <2>5 DEF Init, TypeOK
<1>2. ControlInv
  BY BoundAssumption DEF Init, ControlInv, Settled
<1>3. PowerInv
  BY DEF Init, PowerInv, Settled, AllDisconnected, Range
<1>4. ServedInv
  BY DEF Init, ServedInv
<1>5. ClientInv
  BY FS_EmptySet DEF Init, ClientInv
<1> QED BY <1>1, <1>2, <1>3, <1>4, <1>5 DEF IInv

LEMMA PlugOrUnplugKeeps ==
    ASSUME IInv, NEW c \in Connectors, PlugOrUnplug(c)
    PROVE  IInv'
<1> USE DEF PlugOrUnplug, kernelVars, deviceVars, displayVars, loopVars, listVars, clientVars, ghostVars
<1>1. TypeOK'
  <2>1. events' \in 0..MaxChanges /\ changes' \in 0..MaxChanges
    BY BoundAssumption DEF IInv, TypeOK, ControlInv
  <2>2. plugged' \subseteq Connectors /\ unseen' \subseteq Connectors
    BY DEF IInv, TypeOK
  <2> QED BY <2>1, <2>2 DEF IInv, TypeOK
<1>2. ControlInv'
  BY DEF IInv, TypeOK, ControlInv, Settled
<1>3. PowerInv'
  BY DEF IInv, TypeOK, ControlInv, PowerInv, Settled
<1>4. ServedInv'
  BY DEF IInv, ControlInv, ServedInv
<1>5. ClientInv'
  BY DEF IInv, ControlInv, ClientInv, Settled
<1> QED BY <1>1, <1>2, <1>3, <1>4, <1>5 DEF IInv

LEMMA InitializeKeeps ==
    ASSUME IInv, Initialize
    PROVE  IInv'
<1> USE DEF Initialize, Success, Fault, kernelVars, deviceVars, displayVars, loopVars, listVars, clientVars, ghostVars
<1>1. TypeOK'
  BY Bounds, DisplaysAreNumbers DEF IInv, TypeOK, ControlInv, Settled
<1>2. ControlInv'
  BY DEF IInv, TypeOK, ControlInv, Settled
<1>3. PowerInv'
  BY DEF IInv, TypeOK, ControlInv, PowerInv, Settled
<1>4. ServedInv'
  BY DEF IInv, ControlInv, ServedInv
<1>5. ClientInv'
  BY DisplaysAreNumbers DEF IInv, ControlInv, ClientInv, Settled
<1> QED BY <1>1, <1>2, <1>3, <1>4, <1>5 DEF IInv

LEMMA ServedAtListen == IInv /\ pc = "listen" => (headless # Nobody <=> connected = <<>>)
BY Zenon DEF IInv, ServedInv

LEMMA ListenKeeps ==
    ASSUME IInv, Listen
    PROVE  IInv'
<1> USE DEF Listen, Success, Fault, kernelVars, deviceVars, displayVars, loopVars, listVars, clientVars, ghostVars
<1>1. TypeOK'
  BY Bounds DEF IInv, TypeOK, ControlInv, Settled
<1>2. ControlInv'
  BY DEF IInv, TypeOK, ControlInv, Settled
<1>3. PowerInv'
  BY DEF IInv, TypeOK, ControlInv, PowerInv, Settled
<1>4. ServedInv'
  <2>1. headless' = headless /\ connected' = connected /\ pc = "listen"
    OBVIOUS
  <2>2. headless # Nobody <=> connected = <<>>
    BY <2>1, ServedAtListen
  <2> QED BY <2>1, <2>2, Zenon DEF ServedInv
<1>5. ClientInv'
  <2>1. pc = "listen" /\ stage = "starting"
    BY DEF IInv, TypeOK, ControlInv
  <2> QED BY <2>1 DEF IInv, ClientInv, Settled
<1> QED BY <1>1, <1>2, <1>3, <1>4, <1>5 DEF IInv

LEMMA EventKeeps ==
    ASSUME IInv, HotPlugEventHandler
    PROVE  IInv'
<1> USE DEF HotPlugEventHandler, kernelVars, deviceVars, displayVars, loopVars, listVars, clientVars, ghostVars
<1>1. TypeOK'
  <2>1. events' \in 0..MaxChanges
    BY Bounds DEF IInv, TypeOK
  <2> QED BY <2>1 DEF IInv, TypeOK
<1>2. ControlInv'
  BY DEF IInv, TypeOK, ControlInv, Settled
<1>3. PowerInv'
  BY DEF IInv, TypeOK, ControlInv, PowerInv, Settled
<1>4. ServedInv'
  BY DEF IInv, ControlInv, ServedInv
<1>5. ClientInv'
  BY DEF IInv, ControlInv, ClientInv, Settled
<1> QED BY <1>1, <1>2, <1>3, <1>4, <1>5 DEF IInv

LEMMA DropEventKeeps ==
    ASSUME IInv, DropEvent
    PROVE  IInv'
<1> USE DEF DropEvent, kernelVars, deviceVars, displayVars, loopVars, listVars, clientVars, ghostVars
<1>1. TypeOK'
  <2>1. events' \in 0..MaxChanges
    BY Bounds DEF IInv, TypeOK
  <2> QED BY <2>1 DEF IInv, TypeOK
<1>2. ControlInv'
  BY DEF IInv, TypeOK, ControlInv, Settled
<1>3. PowerInv'
  BY DEF IInv, TypeOK, ControlInv, PowerInv, Settled
<1>4. ServedInv'
  BY DEF IInv, ControlInv, ServedInv
<1>5. ClientInv'
  BY DEF IInv, ControlInv, ClientInv, Settled
<1> QED BY <1>1, <1>2, <1>3, <1>4, <1>5 DEF IInv

LEMMA ReadFailsKeeps ==
    ASSUME IInv, ReadFails
    PROVE  IInv'
<1> USE DEF ReadFails, Fault, kernelVars, deviceVars, displayVars, loopVars, listVars, clientVars, ghostVars
<1>1. TypeOK'
  BY Bounds DEF IInv, TypeOK, ControlInv, Settled
<1>2. ControlInv'
  BY DEF IInv, TypeOK, ControlInv, Settled
<1>3. PowerInv'
  BY DEF IInv, TypeOK, ControlInv, PowerInv, Settled
<1>4. ServedInv'
  BY DEF IInv, ControlInv, ServedInv
<1>5. ClientInv'
  BY DEF IInv, ControlInv, ClientInv, Settled
<1> QED BY <1>1, <1>2, <1>3, <1>4, <1>5 DEF IInv

LEMMA NoResourcesKeeps ==
    ASSUME IInv, NoResources
    PROVE  IInv'
<1> USE DEF NoResources, Fault, kernelVars, deviceVars, displayVars, loopVars, listVars, clientVars, ghostVars
<1>1. TypeOK'
  BY Bounds DEF IInv, TypeOK, ControlInv, Settled
<1>2. ControlInv'
  BY DEF IInv, TypeOK, ControlInv, Settled
<1>3. PowerInv'
  BY DEF IInv, TypeOK, ControlInv, PowerInv, Settled
<1>4. ServedInv'
  BY DEF IInv, ControlInv, ServedInv
<1>5. ClientInv'
  BY DEF IInv, ControlInv, ClientInv, Settled
<1> QED BY <1>1, <1>2, <1>3, <1>4, <1>5 DEF IInv

LEMMA BeginUpdateKeeps ==
    ASSUME IInv, BeginUpdate
    PROVE  IInv'
<1> USE DEF BeginUpdate, DisConnectAll, ClearList, AllDisconnected, Range, kernelVars, deviceVars, displayVars, loopVars, listVars, clientVars, ghostVars
<1>1. TypeOK'
  BY Bounds DEF IInv, TypeOK, ControlInv, Settled
<1>2. ControlInv'
  BY DEF IInv, TypeOK, ControlInv, Settled
<1>3. PowerInv'
  BY DEF IInv, TypeOK, ControlInv, PowerInv, Settled
<1>4. ServedInv'
  BY DEF IInv, ControlInv, ServedInv
<1>5. ClientInv'
  BY DEF IInv, ControlInv, ClientInv, Settled
<1> QED BY <1>1, <1>2, <1>3, <1>4, <1>5 DEF IInv

LEMMA SkipConnectorKeeps ==
    ASSUME IInv, SkipConnector
    PROVE  IInv'
<1> USE DEF SkipConnector, Success, Fault, Read, kernelVars, deviceVars, displayVars, loopVars, listVars, clientVars, ghostVars
<1>1. TypeOK'
  BY Bounds, ZenonT(30) DEF IInv, TypeOK, ControlInv, Settled
<1>2. ControlInv'
  BY DEF IInv, TypeOK, ControlInv, Settled
<1>3. PowerInv'
  BY DEF IInv, TypeOK, ControlInv, PowerInv, Settled
<1>4. ServedInv'
  BY DEF IInv, ControlInv, ServedInv
<1>5. ClientInv'
  BY DEF IInv, ControlInv, ClientInv, Settled
<1> QED BY <1>1, <1>2, <1>3, <1>4, <1>5 DEF IInv

LEMMA BeginEncodersKeeps ==
    ASSUME IInv, BeginEncoders
    PROVE  IInv'
<1> USE DEF BeginEncoders, Read, kernelVars, deviceVars, displayVars, loopVars, listVars, clientVars, ghostVars
<1>1. TypeOK'
  BY Bounds DEF IInv, TypeOK, ControlInv, Settled
<1>2. ControlInv'
  BY DEF IInv, TypeOK, ControlInv, Settled
<1>3. PowerInv'
  BY DEF IInv, TypeOK, ControlInv, PowerInv, Settled
<1>4. ServedInv'
  BY DEF IInv, ControlInv, ServedInv
<1>5. ClientInv'
  BY DEF IInv, ControlInv, ClientInv, Settled
<1> QED BY <1>1, <1>2, <1>3, <1>4, <1>5 DEF IInv

LEMMA SkipDisplayKeeps ==
    ASSUME IInv, SkipDisplay
    PROVE  IInv'
<1> USE DEF SkipDisplay, Success, Fault, NextDisplay, NextEncoder, kernelVars, deviceVars, displayVars, loopVars, listVars, clientVars, ghostVars
<1>1. TypeOK'
  <2>1. j' \in Nat /\ d' \in 1..(NumDisplays + 1)
    BY Bounds DEF IInv, TypeOK
  <2>2. faults' \in 0..MaxFaults
    BY Bounds DEF IInv, TypeOK
  <2> QED BY <2>1, <2>2 DEF IInv, TypeOK
<1>2. ControlInv'
  BY DEF IInv, TypeOK, ControlInv, Settled
<1>3. PowerInv'
  BY DEF IInv, TypeOK, ControlInv, PowerInv, Settled
<1>4. ServedInv'
  BY DEF IInv, ControlInv, ServedInv
<1>5. ClientInv'
  BY DEF IInv, ControlInv, ClientInv, Settled
<1> QED BY <1>1, <1>2, <1>3, <1>4, <1>5 DEF IInv

LEMMA EndEncodersKeeps ==
    ASSUME IInv, EndEncoders
    PROVE  IInv'
<1> USE DEF EndEncoders, kernelVars, deviceVars, displayVars, loopVars, listVars, clientVars, ghostVars
<1>1. TypeOK'
  BY Bounds DEF IInv, TypeOK, ControlInv, Settled
<1>2. ControlInv'
  BY DEF IInv, TypeOK, ControlInv, Settled
<1>3. PowerInv'
  BY DEF IInv, TypeOK, ControlInv, PowerInv, Settled
<1>4. ServedInv'
  BY DEF IInv, ControlInv, ServedInv
<1>5. ClientInv'
  BY DEF IInv, ControlInv, ClientInv, Settled
<1> QED BY <1>1, <1>2, <1>3, <1>4, <1>5 DEF IInv

LEMMA EndScanKeeps ==
    ASSUME IInv, EndScan
    PROVE  IInv'
<1> USE DEF EndScan, Success, Fault, kernelVars, deviceVars, displayVars, loopVars, listVars, clientVars, ghostVars
<1>1. TypeOK'
  BY Bounds, ZenonT(30) DEF IInv, TypeOK, ControlInv, Settled
<1>2. ControlInv'
  BY DEF IInv, TypeOK, ControlInv, Settled
<1>3. PowerInv'
  BY Bounds DEF IInv, TypeOK, ControlInv, PowerInv, Settled
<1>4. ServedInv'
  BY DEF IInv, ControlInv, ServedInv
<1>5. ClientInv'
  BY DEF IInv, ControlInv, ClientInv, Settled
<1> QED BY <1>1, <1>2, <1>3, <1>4, <1>5 DEF IInv

LEMMA ShutDownKeeps ==
    ASSUME IInv, ShutDown
    PROVE  IInv'
<1> USE DEF ShutDown, Unused, kernelVars, deviceVars, displayVars, loopVars, listVars, clientVars, ghostVars
<1>1. TypeOK'
  BY Bounds, ZenonT(30) DEF IInv, TypeOK, ControlInv, Settled
<1>2. ControlInv'
  BY DEF IInv, TypeOK, ControlInv, Settled
<1>3. PowerInv'
  <2> SUFFICES ASSUME NEW x \in Displays PROVE PowerInv!(x)'
    BY DEF PowerInv
  <2>1. d \in Nat /\ x \in Nat
    BY Bounds
  <2>2. x < d' => x < d \/ x = d
    BY <2>1
  <2> QED BY <2>1, <2>2 DEF IInv, TypeOK, ControlInv, PowerInv, Settled
<1>4. ServedInv'
  BY DEF IInv, ControlInv, ServedInv
<1>5. ClientInv'
  BY DEF IInv, ControlInv, ClientInv, Settled
<1> QED BY <1>1, <1>2, <1>3, <1>4, <1>5 DEF IInv

LEMMA RegisterKeeps ==
    ASSUME IInv, RegisterHotPlugEventCallback
    PROVE  IInv'
<1> USE DEF RegisterHotPlugEventCallback, LockFree, kernelVars, deviceVars, displayVars, loopVars, listVars, clientVars, ghostVars
<1>1. TypeOK'
  BY Bounds DEF IInv, TypeOK, ControlInv, Settled
<1>2. ControlInv'
  BY DEF IInv, TypeOK, ControlInv, Settled
<1>3. PowerInv'
  BY DEF IInv, TypeOK, ControlInv, PowerInv, Settled
<1>4. ServedInv'
  BY DEF IInv, ControlInv, ServedInv
<1>5. ClientInv'
  BY DEF IInv, ControlInv, ClientInv, Settled
<1> QED BY <1>1, <1>2, <1>3, <1>4, <1>5 DEF IInv

LEMMA GetDisplayKeeps ==
    ASSUME IInv, GetDisplay
    PROVE  IInv'
<1> USE DEF GetDisplay, LockFree, kernelVars, deviceVars, displayVars, loopVars, listVars, clientVars, ghostVars
<1>1. TypeOK'
  <2>1. clientDisplay' \in Nat \cup {Nobody}
    BY ListedAreDisplays, DisplaysAreNumbers DEF IInv, TypeOK, ControlInv, ServedInv
  <2> QED BY <2>1 DEF IInv, TypeOK
<1>2. ControlInv'
  BY DEF IInv, TypeOK, ControlInv, Settled
<1>3. PowerInv'
  BY DEF IInv, TypeOK, ControlInv, PowerInv, Settled
<1>4. ServedInv'
  BY DEF IInv, ControlInv, ServedInv
<1>5. ClientInv'
  BY ListedAreDisplays DEF IInv, TypeOK, ControlInv, ServedInv, ClientInv, Settled
<1> QED BY <1>1, <1>2, <1>3, <1>4, <1>5 DEF IInv

LEMMA PresentLayersKeeps ==
    ASSUME IInv, PresentLayers
    PROVE  IInv'
<1> USE DEF PresentLayers, kernelVars, deviceVars, displayVars, loopVars, listVars, clientVars, ghostVars
<1>1. TypeOK'
  BY Bounds DEF IInv, TypeOK, ControlInv, Settled
<1>2. ControlInv'
  BY DEF IInv, TypeOK, ControlInv, Settled
<1>3. PowerInv'
  BY DEF IInv, TypeOK, ControlInv, PowerInv, Settled
<1>4. ServedInv'
  BY DEF IInv, ControlInv, ServedInv
<1>5. ClientInv'
  BY DEF IInv, ControlInv, ClientInv, Settled
<1> QED BY <1>1, <1>2, <1>3, <1>4, <1>5 DEF IInv

LEMMA GetConnectedKeeps ==
    ASSUME IInv, GetConnectedPhysicalDisplays
    PROVE  IInv'
<1> USE DEF GetConnectedPhysicalDisplays, NotLocked, kernelVars, deviceVars, displayVars, loopVars, listVars, clientVars, ghostVars
<1>1. TypeOK'
  BY Bounds, ZenonT(30) DEF IInv, TypeOK, ControlInv, Settled
<1>2. ControlInv'
  BY DEF IInv, TypeOK, ControlInv, Settled
<1>3. PowerInv'
  BY DEF IInv, TypeOK, ControlInv, PowerInv, Settled
<1>4. ServedInv'
  BY DEF IInv, ControlInv, ServedInv
<1>5. ClientInv'
  BY DEF IInv, ControlInv, ClientInv, Settled
<1> QED BY <1>1, <1>2, <1>3, <1>4, <1>5 DEF IInv

LEMMA PresentKeeps ==
    ASSUME IInv, NEW x \in Displays, Present(x)
    PROVE  IInv'
<1> USE DEF Present, kernelVars, deviceVars, displayVars, loopVars, listVars, clientVars, ghostVars
<1>0. stage = "ready" /\ pc # "crashed"
  BY DEF IInv, ClientInv, Range
<1>1. TypeOK'
  <2>1. route' \in [Connectors -> Displays \cup {Nobody}]
    BY DEF IInv, TypeOK
  <2>2. modeset' \in [Displays -> BOOLEAN]
    BY DEF IInv, TypeOK
  <2>3. pc' \in {pc, "crashed"}
    OBVIOUS
  <2> QED BY <2>1, <2>2, <2>3 DEF IInv, TypeOK
<1>2. ControlInv'
  BY <1>0 DEF IInv, TypeOK, ControlInv, Settled
<1>3. PowerInv'
  BY DEF IInv, TypeOK, ControlInv, PowerInv, Settled
<1>4. ServedInv'
  BY DEF IInv, ControlInv, ServedInv
<1>5. ClientInv'
  BY DEF IInv, ControlInv, ClientInv, Settled
<1> QED BY <1>1, <1>2, <1>3, <1>4, <1>5 DEF IInv

LEMMA StutterKeeps ==
    ASSUME IInv, UNCHANGED vars
    PROVE  IInv'
<1> USE DEF vars, kernelVars, deviceVars, displayVars, loopVars, listVars, clientVars, ghostVars
<1>1. TypeOK'
  BY Bounds DEF IInv, TypeOK, ControlInv, Settled
<1>2. ControlInv'
  BY DEF IInv, TypeOK, ControlInv, Settled
<1>3. PowerInv'
  BY DEF IInv, TypeOK, ControlInv, PowerInv, Settled
<1>4. ServedInv'
  BY DEF IInv, ControlInv, ServedInv
<1>5. ClientInv'
  BY DEF IInv, ControlInv, ClientInv, Settled
<1> QED BY <1>1, <1>2, <1>3, <1>4, <1>5 DEF IInv

LEMMA EndUpdateKeeps ==
    ASSUME IInv, EndUpdate
    PROVE  IInv'
<1> USE DEF EndUpdate, Release, Tells, Queued, kernelVars, deviceVars, displayVars, loopVars, listVars, clientVars, ghostVars
<1>a. /\ pc' = IF stage = "starting" THEN "listen" ELSE "idle"
      /\ stage' = stage /\ connected' = connected /\ asking' = asking
      /\ registered' = registered /\ clientDisplay' = clientDisplay /\ d' = 1
  OBVIOUS
<1>b. stage \in {"starting", "ready"}
  BY DEF IInv, TypeOK, ControlInv
<1>c. \A x \in Displays : isConnected[x] \/ poweredOff[x]
  BY Bounds DEF IInv, TypeOK, PowerInv
<1>d. NewHeadless \in Nat
  <2>1. IsFiniteSet(alive \ Displays)
    BY FS_Difference DEF IInv, ClientInv
  <2>2. Cardinality(alive \ Displays) \in Nat
    BY <2>1, FS_CardinalityType
  <2> QED BY <2>2, SizesAssumption DEF NewHeadless
<1>e. IsFiniteSet(alive \cup {NewHeadless})
  BY FS_AddElement DEF IInv, ClientInv
<1>f. \/ connected = <<>> /\ headless' \in Nat /\ headless' \in alive'
           /\ alive \subseteq alive' /\ alive' \subseteq Nat /\ IsFiniteSet(alive')
      \/ connected # <<>> /\ headless' = Nobody /\ alive' = alive
  <2>1. CASE connected = <<>> /\ headless = Nobody
    BY <1>d, <1>e, <2>1 DEF IInv, TypeOK, ClientInv
  <2>2. CASE connected = <<>> /\ headless # Nobody
    BY <2>2 DEF IInv, TypeOK, ClientInv
  <2>3. CASE connected # <<>>
    BY <2>3
  <2> QED BY <2>1, <2>2, <2>3
<1>g. IsFiniteSet(alive') /\ alive' \subseteq Nat
  BY <1>f DEF IInv, TypeOK, ClientInv
<1>1. TypeOK'
  <2>1. headless' \in Nat \cup {Nobody}
    BY <1>f
  <2>2. clientDisplays' \in Seq(Displays)
    BY DEF IInv, TypeOK
  <2>3. d' \in 1..(NumDisplays + 1) /\ pc' \in {"listen", "idle"}
    BY Bounds
  <2> QED BY <1>g, <2>1, <2>2, <2>3 DEF IInv, TypeOK
<1>2. ControlInv'
  BY DEF IInv, TypeOK, ControlInv, Settled
<1>3. PowerInv'
  BY <1>a, <1>c DEF IInv, PowerInv
<1>4. ServedInv'
  <2>1. headless' # Nobody <=> connected' = <<>>
    BY <1>a, <1>f, DisplaysAreNumbers
  <2> QED BY <2>1, Zenon DEF ServedInv
<1>5. ClientInv'
  <2>1. Displays \subseteq alive'
    BY <1>b, <1>f DEF IInv, ClientInv
  <2>2. headless' \in alive' \cup {Nobody} /\ clientDisplay' \in alive' \cup {Nobody}
    BY <1>f DEF IInv, ClientInv
  <2>3. ~registered' => ~asking' /\ clientDisplays' = <<>>
    BY <1>a DEF IInv, ClientInv
  <2>4. connected' # <<>> => clientDisplays' \in {<<>>, connected'}
    BY <1>a DEF IInv, ClientInv
  <2>5. stage' # "closed" /\ (registered' \/ clientDisplay' # Nobody => stage' = "ready")
    BY <1>a, <1>b DEF IInv, ClientInv
  <2> QED BY <1>g, <2>1, <2>2, <2>3, <2>4, <2>5 DEF ClientInv
<1> QED BY <1>1, <1>2, <1>3, <1>4, <1>5 DEF IInv

(* Connect and ConnectFails, from whichever loop: what they do to the      *)
(* displays and the list.                                                  *)
LEMMA ConnectKeeps ==
    ASSUME IInv, pc \in {"scan", "encoders"}, pc' \in {"scan", "encoders"}, d' \in Nat,
           NEW x \in Displays, NEW c \in Connectors, Connect(x, c) \/ ConnectFails(x, c)
    PROVE  /\ isConnected' \in [Displays -> BOOLEAN]
           /\ poweredOff' \in [Displays -> BOOLEAN]
           /\ connector' \in [Displays -> Connectors \cup {Nobody}]
           /\ \A y \in Displays : poweredOff'[y] \/ connector'[y] \in Connectors
           /\ modeset' \in [Displays -> BOOLEAN]
           /\ manager' \in [Displays -> {"none", "ready", "broken"}]
           /\ connected' \in Seq(Displays)
           /\ faults' \in 0..MaxFaults
           /\ PowerInv'
<1>1. CASE Connect(x, c)
  <2>1. /\ isConnected' = [isConnected EXCEPT ![x] = TRUE]
        /\ connected' = Append(connected, x) /\ faults' = faults
    BY <1>1 DEF Connect, Success
  <2>2. connected' \in Seq(Displays) /\ Range(connected') = Range(connected) \cup {x}
    BY <2>1, AppendToList DEF IInv, TypeOK
  <2>3. CASE AlreadyConnected(x, c)
    BY <1>1, <2>1, <2>2, <2>3
       DEF Connect, AlreadyConnected, IInv, TypeOK, PowerInv, Settled
  <2>4. CASE ~AlreadyConnected(x, c)
    <3>1. /\ connector' = [connector EXCEPT ![x] = c]
          /\ poweredOff' = [poweredOff EXCEPT ![x] = FALSE]
          /\ manager' = [manager EXCEPT ![x] = "ready"]
          /\ modeset' = [modeset EXCEPT ![x] = TRUE]
      BY <1>1, <2>4 DEF Connect, TakeConnector, NeedModeset
    <3> QED BY <2>1, <2>2, <3>1 DEF IInv, TypeOK, PowerInv, Settled
  <2> QED BY <2>3, <2>4
<1>2. CASE ConnectFails(x, c)
  <2>1. /\ connector' = [connector EXCEPT ![x] = c]
        /\ modeset' = modeset /\ connected' = connected
        /\ faults' \in 0..MaxFaults
    BY <1>2, Bounds DEF ConnectFails, TakeConnector, Fault, IInv, TypeOK
  <2>2. CASE UNCHANGED <<isConnected, poweredOff, manager>>
    BY <2>1, <2>2 DEF IInv, TypeOK, PowerInv, Settled
  <2>3. CASE ~UNCHANGED <<isConnected, poweredOff, manager>>
    <3>1. /\ isConnected' = [isConnected EXCEPT ![x] = TRUE]
          /\ poweredOff' = [poweredOff EXCEPT ![x] = FALSE]
          /\ manager' = [manager EXCEPT ![x] = "broken"]
      BY <1>2, <2>3 DEF ConnectFails
    <3> QED BY <2>1, <3>1 DEF IInv, TypeOK, PowerInv, Settled
  <2> QED BY <2>2, <2>3
<1> QED BY <1>1, <1>2

LEMMA ConnectAttachedKeeps ==
    ASSUME IInv, ConnectAttached
    PROVE  IInv'
<1> USE DEF ConnectAttached, Read, kernelVars, deviceVars, clientVars
<1>1. i \in Connectors /\ route[i] \in Displays
  BY DEF IInv, TypeOK
<1>2. d' = d /\ d \in Nat
  BY DEF IInv, TypeOK
<1>3. /\ isConnected' \in [Displays -> BOOLEAN]
      /\ poweredOff' \in [Displays -> BOOLEAN]
      /\ connector' \in [Displays -> Connectors \cup {Nobody}]
      /\ \A y \in Displays : poweredOff'[y] \/ connector'[y] \in Connectors
      /\ modeset' \in [Displays -> BOOLEAN]
      /\ manager' \in [Displays -> {"none", "ready", "broken"}]
      /\ connected' \in Seq(Displays)
      /\ faults' \in 0..MaxFaults
      /\ PowerInv'
  BY <1>1, <1>2, ConnectKeeps
<1>4. TypeOK'
  <2>1. i' \in 1..(NumConnectors + 1) /\ unseen' \subseteq Connectors
    BY <1>1, Bounds DEF IInv, TypeOK
  <2> QED BY <1>2, <1>3, <2>1 DEF IInv, TypeOK
<1>5. ControlInv' /\ ServedInv' /\ ClientInv'
  BY DEF IInv, TypeOK, ControlInv, ServedInv, ClientInv, Settled
<1> QED BY <1>3, <1>4, <1>5 DEF IInv

LEMMA ConnectDisplayKeeps ==
    ASSUME IInv, ConnectDisplay
    PROVE  IInv'
<1> USE DEF ConnectDisplay, Break, NextDisplay, NextEncoder,
            kernelVars, deviceVars, clientVars, ghostVars
<1>1. i \in Connectors /\ d \in Displays
  BY DEF IInv, ControlInv
<1>2. d' \in 1..(NumDisplays + 1) /\ d' \in Nat /\ j' \in Nat
  BY <1>1, Bounds DEF IInv, TypeOK
<1>3. Connect(d, i) \/ ConnectFails(d, i)
  OBVIOUS
<1>4. /\ isConnected' \in [Displays -> BOOLEAN]
      /\ poweredOff' \in [Displays -> BOOLEAN]
      /\ connector' \in [Displays -> Connectors \cup {Nobody}]
      /\ \A y \in Displays : poweredOff'[y] \/ connector'[y] \in Connectors
      /\ modeset' \in [Displays -> BOOLEAN]
      /\ manager' \in [Displays -> {"none", "ready", "broken"}]
      /\ connected' \in Seq(Displays)
      /\ faults' \in 0..MaxFaults
      /\ PowerInv'
  BY <1>1, <1>2, <1>3, ConnectKeeps
<1>5. TypeOK'
  BY <1>2, <1>4, SMTT(30) DEF IInv, TypeOK
<1>6. ControlInv' /\ ServedInv' /\ ClientInv'
  BY DEF IInv, TypeOK, ControlInv, ServedInv, ClientInv, Settled
<1> QED BY <1>4, <1>5, <1>6 DEF IInv

-----------------------------------------------------------------------------
(* IInv is inductive.                                                      *)
LEMMA NextKeeps ==
    ASSUME IInv, [Next]_vars
    PROVE  IInv'
<1>1. CASE UpdateDisplayState
  BY <1>1, NoResourcesKeeps, BeginUpdateKeeps, SkipConnectorKeeps, ConnectAttachedKeeps,
     BeginEncodersKeeps, ConnectDisplayKeeps, SkipDisplayKeeps, EndEncodersKeeps,
     EndScanKeeps, ShutDownKeeps, EndUpdateKeeps
     DEF UpdateDisplayState
<1>2. CASE HotPlugEventHandler \/ DropEvent \/ Listen \/ ReadFails \/ Initialize
  BY <1>2, EventKeeps, DropEventKeeps, ListenKeeps, ReadFailsKeeps, InitializeKeeps
<1>3. CASE \/ RegisterHotPlugEventCallback \/ GetDisplay \/ PresentLayers
           \/ GetConnectedPhysicalDisplays
  BY <1>3, RegisterKeeps, GetDisplayKeeps, PresentLayersKeeps, GetConnectedKeeps
<1>4. CASE \E c \in Connectors : PlugOrUnplug(c)
  BY <1>4, PlugOrUnplugKeeps
<1>5. CASE \E x \in Displays : Present(x)
  BY <1>5, PresentKeeps
<1>6. CASE UNCHANGED vars
  BY <1>6, StutterKeeps
<1> QED BY <1>1, <1>2, <1>3, <1>4, <1>5, <1>6 DEF Next, HotplugThread

LEMMA Inductive == Spec => []IInv
<1>1. IInv /\ [Next]_vars => IInv'
  BY NextKeeps
<1> QED BY <1>1, InitIInv, PTL DEF Spec

(* Every step of the device, the kernel and the client keeps the values in *)
(* their types.                                                            *)
THEOREM TypeCorrect == Spec => []TypeOK
<1>1. IInv => TypeOK
  BY DEF IInv
<1> QED BY <1>1, Inductive, PTL

(* Between two updates the displays UpdateDisplayState listed are those    *)
(* that are on, each with a manager, and a device that started has one to  *)
(* hand out, whichever calls of the scan failed.                           *)
THEOREM ListedIsPowered == Spec => []ListMatchesPower
<1>1. IInv => ListMatchesPower
  <2> SUFFICES ASSUME IInv, stage = "ready", pc = "idle" PROVE ListMatchesPower
    BY DEF ListMatchesPower
  <2>1. headless # Nobody <=> connected = <<>>
    BY Zenon DEF IInv, ServedInv
  <2>2. ASSUME NEW x \in Displays
        PROVE  /\ x \in Range(connected) => ~poweredOff[x]
               /\ ~poweredOff[x] => x \in Range(connected) \/ manager[x] = "broken"
               /\ ~poweredOff[x] => manager[x] # "none"
    BY DEF IInv, TypeOK, PowerInv, Settled
  <2> QED BY <2>1, <2>2 DEF ListMatchesPower
<1> QED BY <1>1, Inductive, PTL

(* Between two updates the client's list is the manager's or none, however *)
(* its unlocked read and the updates were interleaved.                     *)
THEOREM ClientIsCurrent == Spec => []ClientSeesList
<1>1. IInv => ClientSeesList
  BY DEF IInv, ClientInv, ClientSeesList, Settled
<1> QED BY <1>1, Inductive, PTL

(* No display the client holds is ever deleted.                            *)
THEOREM HandedOutLives == Spec => []HandedOutStaysAlive
<1>1. IInv => HandedOutStaysAlive
  <2> SUFFICES ASSUME IInv PROVE HandedOutStaysAlive
    OBVIOUS
  <2>1. Range(clientDisplays) \subseteq Displays
    BY ListedAreDisplays DEF IInv, TypeOK
  <2>2. Range(clientDisplays) \subseteq alive
    <3>1. CASE registered
      BY <2>1, <3>1 DEF IInv, ClientInv
    <3>2. CASE ~registered
      BY <3>2 DEF IInv, ClientInv, Range
    <3> QED BY <3>1, <3>2
  <2> QED BY <2>2 DEF IInv, ClientInv, HandedOutStaysAlive
<1> QED BY <1>1, Inductive, PTL

-----------------------------------------------------------------------------
(* In a device that started and lost nothing, whatever changed will still  *)
(* be read: by the update that a uevent asks for, or by the scan that has  *)
(* not come to its connector.                                              *)
SeenInv ==
    /\ pc \notin {"scan", "encoders", "crashed"} => i = 1
    /\ stage = "ready" /\ ~lost =>
        /\ worker
        /\ \/ events > 0
           \/ pc \in {"update", "crashed"}
           \/ unseen = {}
           \/ pc = "scan" /\ \A c \in unseen : c >= i
           \/ pc = "encoders" /\ \A c \in unseen : c > i

LEMMA SeenKept ==
    ASSUME IInv, SeenInv, [Next]_vars
    PROVE  SeenInv'
<1> USE DEF SeenInv, kernelVars, deviceVars, displayVars, loopVars, listVars, clientVars, ghostVars
<1>0. /\ events \in Nat /\ i \in Nat /\ unseen \subseteq Connectors
      /\ Connectors = 1..NumConnectors /\ NumConnectors \in Nat
      /\ stage \in {"closed", "failed"} => pc = "idle" /\ ~worker
  BY SizesAssumption, BoundAssumption DEF IInv, TypeOK, ControlInv, Connectors
<1>1. ASSUME NEW c \in Connectors, PlugOrUnplug(c) PROVE SeenInv'
  BY <1>0, <1>1 DEF PlugOrUnplug
<1>2. CASE Initialize \/ NoResources
  BY <1>0, <1>2 DEF Initialize, NoResources, Success, Fault
<1>3. CASE Listen
  BY <1>0, <1>3 DEF Listen, Success, Fault
<1>4. CASE HotPlugEventHandler \/ DropEvent \/ ReadFails
  BY <1>0, <1>4 DEF HotPlugEventHandler, DropEvent, ReadFails, Fault
<1>5. CASE BeginUpdate
  BY <1>0, <1>5 DEF BeginUpdate
<1>6. CASE SkipConnector \/ ConnectAttached
  <2>1. /\ pc = "scan" /\ pc' = pc /\ i' = i + 1 /\ unseen' = unseen \ {i}
        /\ stage' = stage /\ worker' = worker /\ events' = events /\ lost' = lost
    BY <1>6 DEF SkipConnector, ConnectAttached, Read
  <2>2. (\A c \in unseen : c >= i) => \A c \in unseen' : c >= i'
    BY <1>0, <2>1
  <2>3. unseen = {} => unseen' = {}
    BY <2>1
  <2> QED BY <2>1, <2>2, <2>3
<1>7. CASE BeginEncoders
  BY <1>0, <1>7 DEF BeginEncoders, Read
<1>8. CASE ConnectDisplay \/ SkipDisplay
  BY <1>0, <1>8 DEF ConnectDisplay, SkipDisplay
<1>9. CASE EndEncoders
  BY <1>0, <1>9 DEF EndEncoders
<1>10. CASE EndScan
  BY <1>0, <1>10 DEF EndScan, Success, Fault
<1>11. CASE ShutDown
  BY <1>0, <1>11 DEF ShutDown
<1>12. CASE EndUpdate
  BY <1>0, <1>12 DEF EndUpdate, Queued
<1>13. CASE \/ RegisterHotPlugEventCallback \/ GetDisplay \/ PresentLayers
            \/ GetConnectedPhysicalDisplays
  BY <1>0, <1>13 DEF RegisterHotPlugEventCallback, GetDisplay, PresentLayers,
                     GetConnectedPhysicalDisplays
<1>14. ASSUME NEW x \in Displays, Present(x) PROVE SeenInv'
  BY <1>0, <1>14 DEF Present
<1>15. CASE UNCHANGED vars
  BY <1>15 DEF vars
<1> QED
  BY <1>1, <1>2, <1>3, <1>4, <1>5, <1>6, <1>7, <1>8, <1>9, <1>10, <1>11, <1>12, <1>13,
     <1>14, <1>15 DEF Next, HotplugThread, UpdateDisplayState

(* When the hotplug thread has nothing left to do every change was seen,   *)
(* unless a failing call, a uevent from before the device listened or the  *)
(* netlink handler lost it.                                                *)
THEOREM ChangesAreSeen == Spec => []NoChangeOverlooked
<1>1. Init => SeenInv
  BY DEF Init, SeenInv
<1>2. IInv /\ SeenInv /\ [Next]_vars => SeenInv'
  BY SeenKept
<1>3. SeenInv => NoChangeOverlooked
  BY DEF SeenInv, NoChangeOverlooked
<1> QED BY <1>1, <1>2, <1>3, Inductive, PTL DEF Spec

-----------------------------------------------------------------------------
(* The kernel lists an encoder at least for every connector.               *)
EveryConnectorHasEncoder == \A c \in Connectors : Encoders[c] # <<>>

(* The displays this update has found for a connector.                     *)
Taken(c) == {x \in Displays : isConnected[x] /\ manager[x] = "ready" /\ connector[x] = c}

(* An update begins with none, looks at a connector once, and takes one    *)
(* display at most for each of its encoders; it may take a display from    *)
(* the connector that had found it before.                                 *)
TakenInv ==
    /\ \A x \in Displays : poweredOff[x] => manager[x] = "none"
    /\ pc \notin {"encoders", "crashed"} => j = 1
    /\ \A c \in Connectors :
         /\ pc = "scan" /\ i <= c => Taken(c) = {}
         /\ pc = "encoders" /\ i < c => Taken(c) = {}
         /\ pc = "encoders" /\ i = c => Cardinality(Taken(c)) <= j - 1 /\ j <= Len(Encoders[c]) + 1
         /\ Settled \/ pc = "shutdown" \/ (pc \in {"scan", "encoders"} /\ c < i) =>
              Cardinality(Taken(c)) <= Len(Encoders[c])

LEMMA TakenFinite ==
    ASSUME NEW T \in SUBSET Displays
    PROVE  IsFiniteSet(T) /\ Cardinality(T) \in Nat
BY DisplaysAreNumbers, FS_Subset, FS_CardinalityType

LEMMA EncodersListed ==
    ASSUME EveryConnectorHasEncoder, NEW c \in Connectors
    PROVE  Len(Encoders[c]) \in Nat /\ Len(Encoders[c]) >= 1
<1>1. Encoders[c] \in Seq(SUBSET Displays)
  BY EncodersAssumption
<1> QED BY <1>1 DEF EveryConnectorHasEncoder

(* Nothing but the search for displays changes which connector has which.  *)
LEMMA TakenStays ==
    ASSUME IInv, TakenInv, EveryConnectorHasEncoder,
           \A c \in Connectors : Taken(c)' \subseteq Taken(c),
           \A x \in Displays : poweredOff'[x] => manager'[x] = "none",
           pc' \notin {"encoders", "crashed"} => j' = 1,
           \/ UNCHANGED <<pc, i, j>>
           \/ pc' = "crashed"
           \/ /\ Settled \/ pc = "shutdown"
              /\ pc' \in {"idle", "update", "listen", "shutdown"}
    PROVE  TakenInv'
<1>1. \A c \in Connectors :
         /\ Cardinality(Taken(c)') <= Cardinality(Taken(c))
         /\ Cardinality(Taken(c)') \in Nat /\ Cardinality(Taken(c)) \in Nat
         /\ Taken(c) = {} => Taken(c)' = {}
         /\ Len(Encoders[c]) \in Nat
  <2> SUFFICES ASSUME NEW c \in Connectors
               PROVE  /\ Cardinality(Taken(c)') <= Cardinality(Taken(c))
                      /\ Cardinality(Taken(c)') \in Nat /\ Cardinality(Taken(c)) \in Nat
                      /\ Taken(c) = {} => Taken(c)' = {}
                      /\ Len(Encoders[c]) \in Nat
    OBVIOUS
  <2>1. Taken(c) \in SUBSET Displays /\ Taken(c)' \in SUBSET Taken(c)
    BY DEF Taken
  <2>2. IsFiniteSet(Taken(c)) /\ Cardinality(Taken(c)) \in Nat /\ Cardinality(Taken(c)') \in Nat
    BY <2>1, TakenFinite
  <2>3. Cardinality(Taken(c)') <= Cardinality(Taken(c))
    BY <2>1, <2>2, FS_Subset
  <2> QED BY <2>1, <2>2, <2>3, EncodersListed
<1>2. j \in Nat
  BY DEF IInv, TypeOK
<1>3. CASE UNCHANGED <<pc, i, j>>
  <2>1. Settled' <=> Settled
    BY <1>3 DEF Settled
  <2>2. \A c \in Connectors :
           /\ pc = "scan" /\ i <= c => Taken(c)' = {}
           /\ pc = "encoders" /\ i < c => Taken(c)' = {}
           /\ pc = "encoders" /\ i = c => Cardinality(Taken(c)') <= j - 1 /\ j <= Len(Encoders[c]) + 1
           /\ Settled \/ pc = "shutdown" \/ (pc \in {"scan", "encoders"} /\ c < i) =>
                Cardinality(Taken(c)') <= Len(Encoders[c])
    BY <1>1, <1>2 DEF TakenInv
  <2> QED BY <1>3, <2>1, <2>2 DEF TakenInv
<1>4. CASE pc' = "crashed"
  BY <1>4 DEF TakenInv, Settled
<1>5. CASE (Settled \/ pc = "shutdown") /\ pc' \in {"idle", "update", "listen", "shutdown"}
  BY <1>1, <1>5 DEF TakenInv, Settled
<1> QED BY <1>3, <1>4, <1>5

(* What a display that is tried adds to the connector it is tried for.     *)
LEMMA ConnectTakes ==
    ASSUME IInv, TakenInv, NEW x \in Displays, NEW c \in Connectors,
           Connect(x, c) \/ ConnectFails(x, c)
    PROVE  /\ Taken(c)' \subseteq Taken(c) \cup {x}
           /\ ConnectFails(x, c) /\ ~isConnected[x] => Taken(c)' \subseteq Taken(c)
           /\ \A b \in Connectors \ {c} : Taken(b)' \subseteq Taken(b)
           /\ \A y \in Displays : poweredOff'[y] => manager'[y] = "none"
<1>1. /\ isConnected \in [Displays -> BOOLEAN] /\ poweredOff \in [Displays -> BOOLEAN]
      /\ connector \in [Displays -> Connectors \cup {Nobody}]
      /\ manager \in [Displays -> {"none", "ready", "broken"}]
      /\ \A y \in Displays : poweredOff[y] => manager[y] = "none"
  BY DEF IInv, TypeOK, TakenInv
<1>2. CASE Connect(x, c)
  <2>1. isConnected' = [isConnected EXCEPT ![x] = TRUE]
    BY <1>2 DEF Connect
  <2>2. CASE AlreadyConnected(x, c)
    <3>1. UNCHANGED <<poweredOff, connector, manager>> /\ connector[x] = c
      BY <1>2, <2>2 DEF Connect, AlreadyConnected
    <3>2. \A y \in Displays \ {x} : isConnected'[y] = isConnected[y]
      BY <1>1, <2>1
    <3>3. ~ConnectFails(x, c)
      BY <2>2 DEF ConnectFails
    <3> QED BY <1>1, <3>1, <3>2, <3>3 DEF Taken
  <2>3. CASE ~AlreadyConnected(x, c)
    <3>1. /\ connector' = [connector EXCEPT ![x] = c]
          /\ poweredOff' = [poweredOff EXCEPT ![x] = FALSE]
          /\ manager' = [manager EXCEPT ![x] = "ready"]
      BY <1>2, <2>3 DEF Connect, TakeConnector
    <3>2. /\ connector'[x] = c /\ isConnected'[x] /\ ~poweredOff'[x] /\ manager'[x] = "ready"
          /\ \A y \in Displays \ {x} :
                /\ connector'[y] = connector[y] /\ isConnected'[y] = isConnected[y]
                /\ poweredOff'[y] = poweredOff[y] /\ manager'[y] = manager[y]
      BY <1>1, <2>1, <3>1
    <3>3. ~ConnectFails(x, c)
      <4>1. ConnectFails(x, c) => UNCHANGED connected
        BY DEF ConnectFails
      <4>2. connected' = Append(connected, x) /\ connected \in Seq(Displays)
        BY <1>2 DEF Connect, IInv, TypeOK
      <4>3. Len(Append(connected, x)) = Len(connected) + 1 /\ Len(connected) \in Nat
        BY <4>2
      <4>4. connected' # connected
        BY <4>2, <4>3
      <4> QED BY <4>1, <4>4
    <3> QED BY <1>1, <3>2, <3>3 DEF Taken
  <2> QED BY <2>2, <2>3
<1>3. CASE ConnectFails(x, c)
  <2>1. connector' = [connector EXCEPT ![x] = c]
    BY <1>3 DEF ConnectFails, TakeConnector
  <2>2. connector'[x] = c /\ \A y \in Displays \ {x} : connector'[y] = connector[y]
    BY <1>1, <2>1
  <2>3. CASE UNCHANGED <<isConnected, poweredOff, manager>>
    BY <1>1, <2>2, <2>3 DEF Taken
  <2>4. CASE ~UNCHANGED <<isConnected, poweredOff, manager>>
    <3>1. /\ isConnected' = [isConnected EXCEPT ![x] = TRUE]
          /\ poweredOff' = [poweredOff EXCEPT ![x] = FALSE]
          /\ manager' = [manager EXCEPT ![x] = "broken"]
      BY <1>3, <2>4 DEF ConnectFails
    <3>2. /\ ~poweredOff'[x] /\ manager'[x] = "broken"
          /\ \A y \in Displays \ {x} :
                /\ isConnected'[y] = isConnected[y]
                /\ poweredOff'[y] = poweredOff[y] /\ manager'[y] = manager[y]
      BY <1>1, <3>1
    <3> QED BY <1>1, <2>2, <3>2 DEF Taken
  <2> QED BY <2>3, <2>4
<1> QED BY <1>2, <1>3

LEMMA TakenAttached ==
    ASSUME IInv, TakenInv, EveryConnectorHasEncoder, ConnectAttached,
           NEW n \in Connectors, n = i, NEW x \in Displays, x = route[n]
    PROVE  TakenInv'
<1>1. /\ pc = "scan" /\ pc' = "scan" /\ i' = n + 1 /\ j' = j
      /\ Connect(x, n) \/ ConnectFails(x, n)
  BY DEF ConnectAttached
<1>2. n \in Nat /\ Connectors \subseteq Nat
  BY DEF Connectors
<1>3. /\ Taken(n)' \subseteq Taken(n) \cup {x}
      /\ \A b \in Connectors \ {n} : Taken(b)' \subseteq Taken(b)
      /\ \A y \in Displays : poweredOff'[y] => manager'[y] = "none"
  BY <1>1, ConnectTakes
<1>4. Cardinality(Taken(n)') <= Len(Encoders[n])
  <2>1. Taken(n)' \in SUBSET {x}
    BY <1>1, <1>2, <1>3 DEF TakenInv
  <2>2. IsFiniteSet({x}) /\ Cardinality({x}) = 1
    BY FS_Singleton
  <2>3. Cardinality(Taken(n)') <= 1 /\ Cardinality(Taken(n)') \in Nat
    BY <2>1, <2>2, FS_Subset, FS_CardinalityType
  <2> QED BY <2>3, EncodersListed
<1>5. \A b \in Connectors \ {n} :
         /\ Taken(b) = {} => Taken(b)' = {}
         /\ Cardinality(Taken(b)') <= Cardinality(Taken(b))
         /\ Cardinality(Taken(b)') \in Nat /\ Cardinality(Taken(b)) \in Nat
         /\ Len(Encoders[b]) \in Nat
  <2> SUFFICES ASSUME NEW b \in Connectors \ {n}
               PROVE  /\ Taken(b) = {} => Taken(b)' = {}
                      /\ Cardinality(Taken(b)') <= Cardinality(Taken(b))
                      /\ Cardinality(Taken(b)') \in Nat /\ Cardinality(Taken(b)) \in Nat
                      /\ Len(Encoders[b]) \in Nat
    OBVIOUS
  <2>1. Taken(b) \in SUBSET Displays /\ Taken(b)' \in SUBSET Taken(b)
    BY <1>3 DEF Taken
  <2>2. IsFiniteSet(Taken(b)) /\ Cardinality(Taken(b)) \in Nat /\ Cardinality(Taken(b)') \in Nat
    BY <2>1, TakenFinite
  <2> QED BY <2>1, <2>2, FS_Subset, EncodersListed
<1>6. \A c \in Connectors :
         /\ n + 1 <= c => Taken(c)' = {}
         /\ c < n + 1 => Cardinality(Taken(c)') <= Len(Encoders[c])
  <2> SUFFICES ASSUME NEW c \in Connectors
               PROVE  /\ n + 1 <= c => Taken(c)' = {}
                      /\ c < n + 1 => Cardinality(Taken(c)') <= Len(Encoders[c])
    OBVIOUS
  <2>1. CASE c = n
    BY <1>2, <1>4, <2>1
  <2>2. CASE c # n
    <3>1. /\ n + 1 <= c => n <= c
          /\ c < n + 1 => c < n
      BY <1>2, <2>2
    <3> QED BY <1>1, <1>5, <2>2, <3>1 DEF TakenInv
  <2> QED BY <2>1, <2>2
<1> QED BY <1>1, <1>3, <1>6 DEF TakenInv, Settled

LEMMA TakenSearched ==
    ASSUME IInv, TakenInv, EveryConnectorHasEncoder, ConnectDisplay,
           NEW n \in Connectors, n = i, NEW x \in Displays, x = d
    PROVE  TakenInv'
<1>1. /\ pc = "encoders" /\ pc' = "encoders" /\ i' = n
      /\ j <= Len(Encoders[n]) /\ ~isConnected[x]
      /\ \/ Connect(x, n) /\ j' = j + 1
         \/ ConnectFails(x, n) /\ j' = j
  BY DEF ConnectDisplay, Suits, Break, NextEncoder, NextDisplay
<1>2. n \in Nat /\ j \in Nat /\ Connectors \subseteq Nat
  BY DEF IInv, TypeOK, Connectors
<1>3. /\ Taken(n)' \subseteq Taken(n) \cup {x}
      /\ ConnectFails(x, n) => Taken(n)' \subseteq Taken(n)
      /\ \A b \in Connectors \ {n} : Taken(b)' \subseteq Taken(b)
      /\ \A y \in Displays : poweredOff'[y] => manager'[y] = "none"
  BY <1>1, ConnectTakes
<1>4. /\ Taken(n) \in SUBSET Displays /\ IsFiniteSet(Taken(n)) /\ Cardinality(Taken(n)) \in Nat
      /\ IsFiniteSet(Taken(n) \cup {x}) /\ Cardinality(Taken(n) \cup {x}) <= Cardinality(Taken(n)) + 1
      /\ Cardinality(Taken(n) \cup {x}) \in Nat
  <2>1. Taken(n) \in SUBSET Displays
    BY DEF Taken
  <2>2. IsFiniteSet(Taken(n)) /\ Cardinality(Taken(n)) \in Nat
    BY <2>1, TakenFinite
  <2>3. Taken(n) \cup {x} \in SUBSET Displays
    BY <2>1
  <2> QED BY <2>1, <2>2, <2>3, TakenFinite, FS_AddElement
<1>5. Len(Encoders[n]) \in Nat
  BY EncodersListed
<1>6. Cardinality(Taken(n)') <= j' - 1 /\ j' <= Len(Encoders[n]) + 1
  <2>1. Cardinality(Taken(n)) <= j - 1
    BY <1>1, <1>2 DEF TakenInv
  <2>2. CASE Connect(x, n) /\ j' = j + 1
    <3>1. Taken(n)' \in SUBSET (Taken(n) \cup {x})
      BY <1>3
    <3>2. Cardinality(Taken(n)') <= Cardinality(Taken(n) \cup {x}) /\ Cardinality(Taken(n)') \in Nat
      BY <1>4, <3>1, FS_Subset, FS_CardinalityType
    <3> QED BY <1>1, <1>2, <1>4, <1>5, <2>1, <2>2, <3>2
  <2>3. CASE ConnectFails(x, n) /\ j' = j
    <3>1. Taken(n)' \in SUBSET Taken(n)
      BY <1>3, <2>3
    <3>2. Cardinality(Taken(n)') <= Cardinality(Taken(n)) /\ Cardinality(Taken(n)') \in Nat
      BY <1>4, <3>1, FS_Subset, FS_CardinalityType
    <3> QED BY <1>1, <1>2, <1>4, <1>5, <2>1, <2>3, <3>2
  <2> QED BY <1>1, <2>2, <2>3
<1>7. \A c \in Connectors \ {n} :
         /\ n < c => Taken(c)' = {}
         /\ c < n => Cardinality(Taken(c)') <= Len(Encoders[c])
  <2> SUFFICES ASSUME NEW c \in Connectors \ {n}
               PROVE  /\ n < c => Taken(c)' = {}
                      /\ c < n => Cardinality(Taken(c)') <= Len(Encoders[c])
    OBVIOUS
  <2>1. Taken(c) \in SUBSET Displays /\ Taken(c)' \in SUBSET Taken(c)
    BY <1>3 DEF Taken
  <2>2. IsFiniteSet(Taken(c)) /\ Cardinality(Taken(c)) \in Nat /\ Cardinality(Taken(c)') \in Nat
    BY <2>1, TakenFinite
  <2>3. Cardinality(Taken(c)') <= Cardinality(Taken(c)) /\ Len(Encoders[c]) \in Nat
    BY <2>1, <2>2, FS_Subset, EncodersListed
  <2> QED BY <1>1, <2>1, <2>2, <2>3 DEF TakenInv
<1>8. ~Settled'
  BY <1>1 DEF Settled
<1>9. \A c \in Connectors :
         /\ n < c => Taken(c)' = {}
         /\ n = c => Cardinality(Taken(c)') <= j' - 1 /\ j' <= Len(Encoders[c]) + 1
         /\ c < n => Cardinality(Taken(c)') <= Len(Encoders[c])
  <2> SUFFICES ASSUME NEW c \in Connectors
               PROVE  /\ n < c => Taken(c)' = {}
                      /\ n = c => Cardinality(Taken(c)') <= j' - 1 /\ j' <= Len(Encoders[c]) + 1
                      /\ c < n => Cardinality(Taken(c)') <= Len(Encoders[c])
    OBVIOUS
  <2>1. CASE c = n
    BY <1>2, <1>6, <2>1
  <2>2. CASE c # n
    BY <1>7, <2>2
  <2> QED BY <2>1, <2>2
<1> QED BY <1>1, <1>3, <1>8, <1>9 DEF TakenInv

LEMMA TakenKept ==
    ASSUME IInv, TakenInv, EveryConnectorHasEncoder, [Next]_vars
    PROVE  TakenInv'
<1> USE DEF kernelVars, deviceVars, displayVars, loopVars, listVars, clientVars, ghostVars
<1>0. /\ i \in Nat /\ j \in Nat /\ Connectors \subseteq Nat /\ Connectors = 1..NumConnectors
      /\ NumConnectors \in Nat
      /\ \A c \in Connectors : Len(Encoders[c]) \in Nat /\ Len(Encoders[c]) >= 1
      /\ \A c \in Connectors : Cardinality(Taken(c)) \in Nat
  <2>1. \A c \in Connectors : Taken(c) \in SUBSET Displays
    BY DEF Taken
  <2> QED BY <2>1, SizesAssumption, EncodersListed, TakenFinite DEF IInv, TypeOK, Connectors
<1>a. (UNCHANGED <<isConnected, manager, connector>>) => \A c \in Connectors : Taken(c)' = Taken(c)
  BY DEF Taken
<1>b. ASSUME NEW c \in Connectors, Taken(c)' = {}
      PROVE  Cardinality(Taken(c)') = 0
  <2>1. Cardinality({}) = 0
    BY FS_EmptySet
  <2> QED BY ONLY <1>b, <2>1
<1>c. ASSUME UNCHANGED <<isConnected, manager, connector>>, NEW c \in Connectors
      PROVE  Cardinality(Taken(c)') = Cardinality(Taken(c))
  <2>1. Taken(c)' = Taken(c)
    BY <1>a, <1>c
  <2> QED BY ONLY <2>1
<1>1. CASE \/ \E c \in Connectors : PlugOrUnplug(c)
           \/ DropEvent \/ ReadFails
           \/ RegisterHotPlugEventCallback \/ GetDisplay \/ PresentLayers
           \/ GetConnectedPhysicalDisplays \/ UNCHANGED vars
  <2>1. UNCHANGED <<isConnected, manager, connector, poweredOff, pc, i, j>>
    BY <1>1 DEF PlugOrUnplug, DropEvent, ReadFails, RegisterHotPlugEventCallback, GetDisplay,
                PresentLayers, GetConnectedPhysicalDisplays, vars
  <2> QED BY <1>a, <2>1, TakenStays DEF TakenInv
<1>2. CASE Initialize \/ Listen \/ HotPlugEventHandler \/ NoResources \/ EndUpdate
  <2>1. /\ UNCHANGED <<isConnected, manager, connector, poweredOff, i, j>>
        /\ Settled \/ pc = "shutdown"
        /\ pc' \in {"idle", "update", "listen", "shutdown"}
    BY <1>2 DEF Initialize, Listen, HotPlugEventHandler, NoResources, EndUpdate, Settled,
                IInv, ControlInv
  <2>2. j = 1
    BY <2>1 DEF TakenInv, Settled
  <2> QED BY <1>a, <2>1, <2>2, TakenStays DEF TakenInv
<1>3. ASSUME NEW x \in Displays, Present(x) PROVE TakenInv'
  <2>1. /\ UNCHANGED <<isConnected, manager, connector, poweredOff, i, j>>
        /\ pc' = "crashed" \/ pc' = pc
    BY <1>3 DEF Present
  <2> QED BY <1>a, <2>1, TakenStays DEF TakenInv
<1>4. CASE BeginUpdate
  <2>1. /\ pc = "update" /\ pc' = "scan" /\ UNCHANGED <<manager, poweredOff, i, j>>
        /\ isConnected' = AllDisconnected
    BY <1>4 DEF BeginUpdate, DisConnectAll
  <2>2. \A c \in Connectors : Taken(c)' = {}
    BY <2>1 DEF Taken, AllDisconnected
  <2>3. j' = 1 /\ (\A x \in Displays : poweredOff'[x] => manager'[x] = "none")
    BY <2>1 DEF TakenInv
  <2>4. \A c \in Connectors : Cardinality(Taken(c)') <= Len(Encoders[c])
    BY <1>0, <1>b, <2>2
  <2> QED BY <2>1, <2>2, <2>3, <2>4 DEF TakenInv, Settled
<1>5. CASE SkipConnector
  <2>1. /\ pc = "scan" /\ pc' = "scan" /\ i' = i + 1
        /\ UNCHANGED <<isConnected, manager, connector, poweredOff, j>>
    BY <1>5 DEF SkipConnector
  <2>2. j' = 1 /\ (\A x \in Displays : poweredOff'[x] => manager'[x] = "none")
    BY <2>1 DEF TakenInv
  <2>3. \A c \in Connectors :
           /\ i <= c => Taken(c)' = {} /\ Cardinality(Taken(c)') <= Len(Encoders[c])
           /\ c < i => Cardinality(Taken(c)') <= Len(Encoders[c])
    <3> SUFFICES ASSUME NEW c \in Connectors
                 PROVE  /\ i <= c => Taken(c)' = {} /\ Cardinality(Taken(c)') <= Len(Encoders[c])
                        /\ c < i => Cardinality(Taken(c)') <= Len(Encoders[c])
      OBVIOUS
    <3>1. i <= c => Taken(c)' = {}
      BY <1>a, <2>1 DEF TakenInv
    <3>2. c < i => Cardinality(Taken(c)) <= Len(Encoders[c])
      BY <2>1 DEF TakenInv
    <3>3. Cardinality(Taken(c)') = Cardinality(Taken(c))
      BY <1>c, <2>1
    <3>4. Taken(c)' = {} => Cardinality(Taken(c)') = 0
      BY <1>b
    <3>5. Len(Encoders[c]) >= 0
      BY <1>0
    <3> QED BY <3>1, <3>2, <3>3, <3>4, <3>5
  <2>4. \A c \in Connectors :
           /\ i' <= c => Taken(c)' = {}
           /\ c < i' => Cardinality(Taken(c)') <= Len(Encoders[c])
    BY <1>0, <2>1, <2>3
  <2> QED BY <2>1, <2>2, <2>4 DEF TakenInv, Settled
<1>6. CASE ConnectAttached
  <2>1. PICK n \in Connectors : n = i
    BY <1>6 DEF ConnectAttached, IInv, TypeOK
  <2>2. PICK x \in Displays : x = route[n]
    BY <1>6, <2>1 DEF ConnectAttached, IInv, TypeOK
  <2> QED BY <1>6, <2>1, <2>2, TakenAttached
<1>7. CASE BeginEncoders
  <2>1. /\ pc = "scan" /\ pc' = "encoders"
        /\ UNCHANGED <<isConnected, manager, connector, poweredOff, i, j>>
    BY <1>7 DEF BeginEncoders
  <2>2. j = 1 /\ (\A x \in Displays : poweredOff'[x] => manager'[x] = "none")
    BY <2>1 DEF TakenInv
  <2>3. \A c \in Connectors :
           /\ i <= c => Taken(c)' = {} /\ Cardinality(Taken(c)') = 0 /\ 1 <= Len(Encoders[c]) + 1
           /\ c < i => Cardinality(Taken(c)') <= Len(Encoders[c])
    <3> SUFFICES ASSUME NEW c \in Connectors
                 PROVE  /\ i <= c => /\ Taken(c)' = {} /\ Cardinality(Taken(c)') = 0
                                     /\ 1 <= Len(Encoders[c]) + 1
                        /\ c < i => Cardinality(Taken(c)') <= Len(Encoders[c])
      OBVIOUS
    <3>1. i <= c => Taken(c)' = {}
      BY <1>a, <2>1 DEF TakenInv
    <3>2. c < i => Cardinality(Taken(c)) <= Len(Encoders[c])
      BY <2>1 DEF TakenInv
    <3>3. Cardinality(Taken(c)') = Cardinality(Taken(c))
      BY <1>c, <2>1
    <3>4. Taken(c)' = {} => Cardinality(Taken(c)') = 0
      BY <1>b
    <3> QED BY <1>0, <3>1, <3>2, <3>3, <3>4
  <2>4. \A c \in Connectors :
           /\ i < c => Taken(c)' = {}
           /\ i = c => Cardinality(Taken(c)') <= j' - 1 /\ j' <= Len(Encoders[c]) + 1
           /\ c < i => Cardinality(Taken(c)') <= Len(Encoders[c])
    BY <1>0, <2>1, <2>2, <2>3
  <2> QED BY <2>1, <2>2, <2>4 DEF TakenInv, Settled
<1>8. CASE ConnectDisplay
  <2>1. PICK n \in Connectors : n = i
    BY <1>8 DEF ConnectDisplay, IInv, ControlInv
  <2>2. PICK x \in Displays : x = d
    BY <1>8 DEF ConnectDisplay
  <2> QED BY <1>8, <2>1, <2>2, TakenSearched
<1>9. CASE SkipDisplay
  <2>1. /\ pc = "encoders" /\ pc' = "encoders" /\ j' \in {j, j + 1} /\ j <= Len(Encoders[i])
        /\ UNCHANGED <<isConnected, manager, connector, poweredOff, i>>
    BY <1>9 DEF SkipDisplay, NextDisplay, NextEncoder
  <2> QED BY <1>0, <1>a, <2>1 DEF TakenInv, Settled
<1>10. CASE EndEncoders
  <2>1. /\ pc = "encoders" /\ pc' = "scan" /\ i' = i + 1 /\ j' = 1 /\ j > Len(Encoders[i])
        /\ UNCHANGED <<isConnected, manager, connector, poweredOff>>
    BY <1>10 DEF EndEncoders
  <2>2. i \in Connectors
    BY <2>1 DEF IInv, ControlInv
  <2> QED BY <1>0, <1>a, <2>1, <2>2 DEF TakenInv, Settled
<1>11. CASE EndScan
  <2>1. /\ pc = "scan" /\ pc' = "shutdown" /\ i' = 1
        /\ UNCHANGED <<isConnected, manager, connector, poweredOff, j>>
    BY <1>11 DEF EndScan
  <2>2. \A c \in Connectors : i <= c \/ c < i
    BY <1>0
  <2>3. j' = 1 /\ (\A x \in Displays : poweredOff'[x] => manager'[x] = "none")
    BY <2>1 DEF TakenInv
  <2>4. \A c \in Connectors :
           /\ i <= c => Cardinality(Taken(c)') <= Len(Encoders[c])
           /\ c < i => Cardinality(Taken(c)') <= Len(Encoders[c])
    <3> SUFFICES ASSUME NEW c \in Connectors
                 PROVE  /\ i <= c => Cardinality(Taken(c)') <= Len(Encoders[c])
                        /\ c < i => Cardinality(Taken(c)') <= Len(Encoders[c])
      OBVIOUS
    <3>1. i <= c => Taken(c)' = {}
      BY <1>a, <2>1 DEF TakenInv
    <3>2. c < i => Cardinality(Taken(c)) <= Len(Encoders[c])
      BY <2>1 DEF TakenInv
    <3>3. Cardinality(Taken(c)') = Cardinality(Taken(c))
      BY <1>c, <2>1
    <3>4. Taken(c)' = {} => Cardinality(Taken(c)') = 0
      BY <1>b
    <3>5. Len(Encoders[c]) >= 0
      BY <1>0
    <3> QED BY <3>1, <3>2, <3>3, <3>4, <3>5
  <2> QED BY <2>1, <2>2, <2>3, <2>4 DEF TakenInv, Settled
<1>12. CASE ShutDown
  <2>1. /\ pc = "shutdown" /\ pc' \in {"shutdown", "crashed"}
        /\ UNCHANGED <<isConnected, connector, i, j>>
        /\ d \in Displays
        /\ \/ /\ ~isConnected[d]
              /\ poweredOff' = [poweredOff EXCEPT ![d] = TRUE]
              /\ manager' = [manager EXCEPT ![d] = "none"]
           \/ UNCHANGED <<poweredOff, manager>>
    BY <1>12 DEF ShutDown, Unused
  <2>2. \A c \in Connectors : Taken(c)' \subseteq Taken(c)
    BY <2>1 DEF Taken, IInv, TypeOK
  <2>3. \A x \in Displays : poweredOff'[x] => manager'[x] = "none"
    BY <2>1 DEF TakenInv, IInv, TypeOK
  <2>4. j' = 1
    BY <2>1 DEF TakenInv
  <2> QED BY <2>1, <2>2, <2>3, <2>4, TakenStays
<1> QED
  BY <1>1, <1>2, <1>3, <1>4, <1>5, <1>6, <1>7, <1>8, <1>9, <1>10, <1>11, <1>12
     DEF Next, HotplugThread, UpdateDisplayState

(* Between two updates no connector drives more displays than it has       *)
(* encoders, whichever displays UpdateDisplayState found for it before,    *)
(* took for another connector or failed to connect.                        *)
THEOREM EncodersAreNotShared ==
    ASSUME EveryConnectorHasEncoder
    PROVE  Spec => []OneDisplayPerEncoder
<1>1. Init => TakenInv
  <2> SUFFICES ASSUME Init PROVE TakenInv
    OBVIOUS
  <2>1. \A c \in Connectors : Taken(c) = {}
    BY DEF Init, AllDisconnected, Taken
  <2>2. \A c \in Connectors : Cardinality(Taken(c)) <= Len(Encoders[c])
    BY <2>1, FS_EmptySet, EncodersListed
  <2>3. pc = "idle" /\ j = 1 /\ (\A x \in Displays : poweredOff[x] => manager[x] = "none")
    BY DEF Init
  <2> QED BY <2>1, <2>2, <2>3 DEF TakenInv
<1>2. IInv /\ TakenInv /\ [Next]_vars => TakenInv'
  BY TakenKept
<1>3. IInv /\ TakenInv => OneDisplayPerEncoder
  <2> SUFFICES ASSUME IInv, TakenInv, pc = "idle", NEW c \in Connectors
               PROVE  Cardinality({x \in Displays : manager[x] = "ready" /\ connector[x] = c})
                          <= Len(Encoders[c])
    BY DEF OneDisplayPerEncoder
  <2>1. \A x \in Displays : manager[x] = "ready" => isConnected[x]
    BY DEF IInv, TypeOK, PowerInv, TakenInv, Settled
  <2>2. {x \in Displays : manager[x] = "ready" /\ connector[x] = c} = Taken(c)
    BY <2>1 DEF Taken
  <2> QED BY <2>2 DEF TakenInv, Settled
<1> QED BY <1>1, <1>2, <1>3, Inductive, PTL DEF Spec
=============================================================================
