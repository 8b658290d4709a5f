--------------------------- MODULE DisplayHotplug ---------------------------
(***************************************************************************)
(* GpuDevice and its DisplayManager: the start of the device and the       *)
(* connection state of its displays.  The hotplug thread runs              *)
(* UpdateDisplayState for the uevents it receives, holding the manager's   *)
(* spin lock; connectors are plugged and unplugged at any time, and a      *)
(* client presents to the displays it was told of and reads                *)
(* connected_displays_ without the lock.  The displays are InternalDisplay *)
(* objects, of which only the fields Connect, DisConnect and ShutDown work *)
(* on are kept; FramePipeline models the rest of each.  Both builds are    *)
(* modelled, the one that listens to udev and the one that reads uevents   *)
(* from a netlink socket, and the calls that may fail.                     *)
(***************************************************************************)
EXTENDS Integers, Sequences, FiniteSets, Functions

CONSTANTS
    NumConnectors, \* the connectors the kernel lists
    NumDisplays,   \* displays_: one for each CRTC
    Encoders,      \* connector -> the possible_crtcs of its encoders, in order
    MaxChanges,    \* bound: how often a connector is plugged or unplugged
    MaxFaults,     \* bound: how many calls fail
    Nobody         \* no display, no connector

Connectors == 1..NumConnectors
Displays == 1..NumDisplays

ASSUME SizesAssumption == NumConnectors \in Nat /\ NumDisplays \in Nat
ASSUME EncodersAssumption == Encoders \in [Connectors -> Seq(SUBSET Displays)]
ASSUME BoundAssumption == MaxChanges \in Nat /\ MaxFaults \in Nat
ASSUME NobodyAssumption == Nobody \notin Int

VARIABLES
    plugged,       \* the connectors with a monitor
    route,         \* kernel: connector -> the CRTC its encoder is attached to
    events,        \* uevents the hotplug thread has not received
    changes,       \* how often a connector was plugged or unplugged
    faults,        \* how many calls have failed
    build,         \* "udev" or "netlink": UDEV_SUPPORT
    stage,         \* how far Initialize has come
    worker,        \* the hotplug thread runs, and hears the uevents
    acted,         \* netlink: drm_event and hotplug_event
    isConnected,   \* is_connected_ of each display
    poweredOff,    \* is_powered_off_
    connector,     \* connector_
    modeset,       \* kModeset is pending
    manager,       \* display_plane_manager_: "none", "ready" or "broken"
    pc,            \* how far UpdateDisplayState has come
    i, j, d,       \* the connector, encoder and display its loops are at, or 1
    connected,     \* connected_displays_
    headless,      \* headless_: the object it owns
    alive,         \* the display objects that exist
    registered,    \* the client's callback is registered
    asking,        \* the client holds its own lock to ask for the list
    clientDisplays,\* connected_displays_ of the client
    clientDisplay, \* the display GetDisplay gave the client
    unseen,        \* the connectors that changed since a scan last read them
    lost           \* a change may not be announced any more

kernelVars == <<plugged, route, events, changes>>
deviceVars == <<build, stage, worker, acted>>
displayVars == <<isConnected, poweredOff, connector, modeset, manager>>
loopVars == <<i, j, d>>
listVars == <<connected, headless, alive>>
clientVars == <<registered, asking, clientDisplays, clientDisplay>>
ghostVars == <<unseen, lost>>
vars == <<kernelVars, faults, deviceVars, displayVars, pc, loopVars, listVars,
          clientVars, ghostVars>>

(* Start of assuming no displays are connected.                            *)
AllDisconnected == [x \in Displays |-> FALSE]

(* The firmware may have left connectors attached to CRTCs.                *)
Init ==
    /\ plugged \in SUBSET Connectors
    /\ route \in [Connectors -> Displays \cup {Nobody}]
    /\ events = 0 /\ changes = 0 /\ faults = 0
    /\ build \in {"udev", "netlink"}
    /\ stage = "closed" /\ worker = FALSE /\ acted = FALSE
    /\ isConnected = AllDisconnected
    /\ poweredOff = [x \in Displays |-> TRUE]
    /\ connector = [x \in Displays |-> Nobody]
    /\ modeset = [x \in Displays |-> FALSE]
    /\ manager = [x \in Displays |-> "none"]
    /\ pc = "idle" /\ i = 1 /\ j = 1 /\ d = 1
    /\ connected = <<>> /\ headless = Nobody /\ alive = {}
    /\ registered = FALSE /\ asking = FALSE
    /\ clientDisplays = <<>> /\ clientDisplay = Nobody
    /\ unseen = {} /\ lost = FALSE

(* A call fails, or all of them succeed.                                   *)
Fault == faults < MaxFaults /\ faults' = faults + 1
Success == UNCHANGED faults

-----------------------------------------------------------------------------
(* A monitor is plugged in or out; the kernel sends a uevent, which        *)
(* reaches the device once it listens.  The CRTC stays attached to the     *)
(* connector until somebody detaches it.                                   *)
PlugOrUnplug(c) ==
    /\ stage # "closed" /\ changes < MaxChanges
    /\ plugged' = IF c \in plugged THEN plugged \ {c} ELSE plugged \cup {c}
    /\ events' = IF worker THEN events + 1 ELSE events
    /\ changes' = changes + 1
    /\ unseen' = unseen \cup {c}
    /\ UNCHANGED <<route, faults, deviceVars, displayVars, pc, loopVars, listVars,
                   clientVars, lost>>

(* The first Initialize makes the displays and begins the first update.    *)
(* A CRTC may not answer; a second call then finds the device initialized  *)
(* and does nothing.                                                       *)
Initialize ==
    /\ stage = "closed"
    /\ \/ Success /\ stage' = "starting" /\ pc' = "update" /\ alive' = Displays
       \/ Fault /\ stage' = "failed" /\ UNCHANGED <<pc, alive>>
    /\ UNCHANGED <<kernelVars, build, worker, acted, displayVars, loopVars, connected,
                   headless, clientVars, ghostVars>>

(* After the first update the device begins to listen; nobody will tell it *)
(* what has changed since the update read it.  Without a socket or a       *)
(* thread Init succeeds all the same.                                      *)
Listen ==
    /\ pc = "listen"
    /\ stage' = "ready" /\ pc' = "idle"
    /\ \/ Success /\ worker' = TRUE /\ lost' = (lost \/ unseen # {})
       \/ Fault /\ worker' = FALSE /\ lost' = TRUE
    /\ UNCHANGED <<kernelVars, build, acted, displayVars, loopVars, listVars, clientVars,
                   unseen>>

(* HotPlugEventHandler receives a uevent.  The netlink handler does not    *)
(* return: after the event it acts on it reads on, and drops the others.   *)
HotPlugEventHandler ==
    /\ pc = "idle" /\ worker /\ events > 0 /\ ~acted
    /\ events' = events - 1
    /\ acted' = (build = "netlink")
    /\ pc' = "update"
    /\ UNCHANGED <<plugged, route, changes, faults, build, stage, worker, displayVars,
                   loopVars, listVars, clientVars, ghostVars>>

DropEvent ==
    /\ pc = "idle" /\ acted /\ events > 0
    /\ events' = events - 1
    /\ lost' = TRUE
    /\ UNCHANGED <<plugged, route, changes, faults, deviceVars, displayVars, pc, loopVars,
                   listVars, clientVars, unseen>>

(* A read fails: the netlink handler returns, to be called anew.           *)
ReadFails ==
    /\ pc = "idle" /\ acted
    /\ Fault
    /\ acted' = FALSE
    /\ UNCHANGED <<kernelVars, build, stage, worker, displayVars, pc, loopVars, listVars,
                   clientVars, ghostVars>>

-----------------------------------------------------------------------------
(* UpdateDisplayState gives up when the kernel does not list its           *)
(* resources: the start fails, or the uevent is used up.                   *)
NoResources ==
    /\ pc = "update"
    /\ Fault
    /\ pc' = "idle"
    /\ stage' = IF stage = "starting" THEN "failed" ELSE stage
    /\ lost' = TRUE
    /\ UNCHANGED <<kernelVars, build, worker, acted, displayVars, loopVars, listVars,
                   clientVars, unseen>>

(* Otherwise it takes the lock, which it holds to the end.                 *)
KeepConnected == UNCHANGED isConnected
DisConnectAll == isConnected' = AllDisconnected
ClearList == connected' = <<>>

BeginUpdate ==
    /\ pc = "update"
    /\ DisConnectAll
    /\ ClearList
    /\ pc' = "scan"
    /\ UNCHANGED <<kernelVars, faults, deviceVars, poweredOff, connector, modeset, manager,
                   loopVars, headless, alive, clientVars, ghostVars>>

(* InternalDisplay::Connect: nothing to do when the display runs on this   *)
(* connector; else a new manager, and a modeset to come.                   *)
AlreadyConnected(x, c) == connector[x] = c /\ ~poweredOff[x]
NeedModeset(x) == modeset' = [modeset EXCEPT ![x] = TRUE]
KeepConnector(x, c) == UNCHANGED connector
TakeConnector(x, c) == connector' = [connector EXCEPT ![x] = c]

Connect(x, c) ==
    /\ Success
    /\ isConnected' = [isConnected EXCEPT ![x] = TRUE]
    /\ IF AlreadyConnected(x, c)
         THEN UNCHANGED <<poweredOff, connector, modeset, manager>>
         ELSE /\ TakeConnector(x, c)
              /\ poweredOff' = [poweredOff EXCEPT ![x] = FALSE]
              /\ manager' = [manager EXCEPT ![x] = "ready"]
              /\ NeedModeset(x)
    /\ connected' = Append(connected, x)

(* Connect fails: the connector has no properties, or the manager finds no *)
(* primary plane.  What was set before that stays.                         *)
ConnectFails(x, c) ==
    /\ Fault
    /\ ~AlreadyConnected(x, c)
    /\ TakeConnector(x, c)
    /\ \/ UNCHANGED <<isConnected, poweredOff, manager>>
       \/ /\ isConnected' = [isConnected EXCEPT ![x] = TRUE]
          /\ poweredOff' = [poweredOff EXCEPT ![x] = FALSE]
          /\ manager' = [manager EXCEPT ![x] = "broken"]
    /\ UNCHANGED <<modeset, connected>>

(* A connector is read.  One that drives nothing now is passed over, and   *)
(* so is one whose encoder cannot be read.                                 *)
Read(c) == unseen' = unseen \ {c}

SkipConnector ==
    /\ pc = "scan" /\ i \in Connectors
    /\ \/ i \notin plugged /\ Success
       \/ i \in plugged /\ route[i] # Nobody /\ Fault
    /\ Read(i)
    /\ i' = i + 1
    /\ UNCHANGED <<kernelVars, deviceVars, displayVars, pc, j, d, listVars, clientVars, lost>>

(* The connector's encoder is attached to a CRTC: its display is taken.    *)
ConnectAttached ==
    /\ pc = "scan" /\ i \in plugged /\ route[i] # Nobody
    /\ Read(i)
    /\ Connect(route[i], i) \/ ConnectFails(route[i], i)
    /\ i' = i + 1
    /\ UNCHANGED <<kernelVars, deviceVars, pc, j, d, headless, alive, clientVars, lost>>

(* Try to find an encoder for the connector.                               *)
BeginEncoders ==
    /\ pc = "scan" /\ i \in plugged /\ route[i] = Nobody
    /\ Read(i)
    /\ pc' = "encoders"
    /\ UNCHANGED <<kernelVars, faults, deviceVars, displayVars, loopVars, listVars, clientVars, lost>>

Suits(x) == ~isConnected[x] /\ x \in Encoders[i][j]

NextDisplay == d' = d + 1 /\ UNCHANGED j
NextEncoder == j' = j + 1 /\ d' = 1

(* An encoder that cannot be read is passed over, a display that does not  *)
(* suit too.  When one does the search among the displays ends, the one    *)
(* among the encoders goes on.                                             *)
NoBreak == NextDisplay
Break == NextEncoder

ConnectDisplay ==
    /\ pc = "encoders" /\ j <= Len(Encoders[i]) /\ d \in Displays
    /\ Suits(d)
    /\ \/ Connect(d, i) /\ Break
       \/ ConnectFails(d, i) /\ NextDisplay
    /\ UNCHANGED <<kernelVars, deviceVars, pc, i, headless, alive, clientVars, ghostVars>>

SkipDisplay ==
    /\ pc = "encoders" /\ j <= Len(Encoders[i])
    /\ \/ d \in Displays /\ ~Suits(d) /\ NextDisplay /\ Success
       \/ d \notin Displays /\ NextEncoder /\ Success
       \/ d = 1 /\ NextEncoder /\ Fault
    /\ UNCHANGED <<kernelVars, deviceVars, displayVars, pc, i, listVars, clientVars,
                   ghostVars>>

EndEncoders ==
    /\ pc = "encoders" /\ j > Len(Encoders[i])
    /\ pc' = "scan" /\ i' = i + 1 /\ j' = 1 /\ d' = 1
    /\ UNCHANGED <<kernelVars, faults, deviceVars, displayVars, listVars, clientVars, ghostVars>>

(* All connectors were looked at, or one of them could not be read.        *)
EndScan ==
    /\ pc = "scan"
    /\ \/ i > NumConnectors /\ Success /\ UNCHANGED lost
       \/ i <= NumConnectors /\ Fault /\ lost' = TRUE
    /\ pc' = "shutdown" /\ i' = 1
    /\ UNCHANGED <<kernelVars, deviceVars, displayVars, j, d, listVars, clientVars, unseen>>

(* The displays that did not find a connector are shut down.  A manager    *)
(* without its primary plane does not survive that.                        *)
Unused(x) == ~isConnected[x]
ShutDown ==
    /\ pc = "shutdown" /\ d \in Displays
    /\ IF Unused(d) /\ ~poweredOff[d]
         THEN /\ poweredOff' = [poweredOff EXCEPT ![d] = TRUE]
              /\ manager' = [manager EXCEPT ![d] = "none"]
              /\ pc' = IF manager[d] = "broken" THEN "crashed" ELSE pc
         ELSE UNCHANGED <<poweredOff, manager, pc>>
    /\ d' = d + 1
    /\ UNCHANGED <<kernelVars, faults, deviceVars, isConnected, connector, modeset, i, j,
                   listVars, clientVars, ghostVars>>

(* The headless display comes and goes; the manager gives it up without    *)
(* deleting it.                                                            *)
NewHeadless == NumDisplays + Cardinality(alive \ Displays) + 1
Delete == alive \ {headless}
Release == alive

(* The client is called back, which takes its own lock for that, and the   *)
(* manager's lock is released.                                             *)
TellsOnce == registered /\ connected # <<>> /\ clientDisplays = <<>>
Tells == registered /\ connected # <<>>

(* The uevents that came during the update are still to be received.       *)
Drained == 0
Queued == events

EndUpdate ==
    /\ pc = "shutdown" /\ d > NumDisplays
    /\ \/ connected = <<>> /\ headless = Nobody
            /\ headless' = NewHeadless /\ alive' = alive \cup {NewHeadless}
       \/ connected = <<>> /\ headless # Nobody /\ UNCHANGED <<headless, alive>>
       \/ connected # <<>> /\ headless' = Nobody /\ alive' = Release
    /\ Tells => ~asking
    /\ clientDisplays' = IF Tells THEN connected ELSE clientDisplays
    /\ events' = Queued
    /\ pc' = IF stage = "starting" THEN "listen" ELSE "idle"
    /\ d' = 1
    /\ UNCHANGED <<plugged, route, changes, faults, deviceVars, displayVars, i, j,
                   connected, registered, asking, clientDisplay, ghostVars>>

-----------------------------------------------------------------------------
(* The client, once Initialize has returned.  GetDisplay and               *)
(* RegisterHotPlugEventCallback take the manager's lock.                   *)
LockFree == pc \in {"idle", "update"}

RegisterHotPlugEventCallback ==
    /\ stage = "ready" /\ LockFree /\ ~registered
    /\ registered' = TRUE
    /\ UNCHANGED <<kernelVars, faults, deviceVars, displayVars, pc, loopVars, listVars,
                   asking, clientDisplays, clientDisplay, ghostVars>>

(* The headless display goes before the first of the list.                 *)
GetDisplay ==
    /\ stage = "ready" /\ LockFree /\ clientDisplay = Nobody
    /\ clientDisplay' = IF headless # Nobody THEN headless ELSE Head(connected)
    /\ UNCHANGED <<kernelVars, faults, deviceVars, displayVars, pc, loopVars, listVars,
                   registered, asking, clientDisplays, ghostVars>>

(* The client draws a frame, its own lock held.  Without a list it asks    *)
(* for it first.  GetConnectedPhysicalDisplays does not take the manager's *)
(* lock: the list may be half made.                                        *)
PresentLayers ==
    /\ registered /\ ~asking /\ clientDisplays = <<>> /\ pc # "crashed"
    /\ asking' = TRUE
    /\ UNCHANGED <<kernelVars, faults, deviceVars, displayVars, pc, loopVars, listVars,
                   registered, clientDisplays, clientDisplay, ghostVars>>

Locked == LockFree
NotLocked == pc # "crashed"

GetConnectedPhysicalDisplays ==
    /\ asking
    /\ NotLocked
    /\ clientDisplays' = connected
    /\ asking' = FALSE
    /\ UNCHANGED <<kernelVars, faults, deviceVars, displayVars, pc, loopVars, listVars,
                   registered, clientDisplay, ghostVars>>

(* Present applies a pending modeset and forgets it.  If the kernel takes  *)
(* it the connector is attached to the CRTC.  A manager without a primary  *)
(* plane has none to begin with.                                           *)
Present(x) ==
    /\ ~asking /\ x \in Range(clientDisplays) /\ pc # "crashed"
    /\ ~poweredOff[x]
    /\ \/ /\ manager[x] = "broken"
          /\ pc' = "crashed" /\ UNCHANGED <<modeset, route>>
       \/ /\ manager[x] = "ready" /\ modeset[x]
          /\ modeset' = [modeset EXCEPT ![x] = FALSE]
          /\ route' \in {route, [route EXCEPT ![connector[x]] = x]}
          /\ UNCHANGED pc
    /\ UNCHANGED <<plugged, events, changes, faults, deviceVars, isConnected, poweredOff,
                   connector, manager, loopVars, listVars, clientVars, ghostVars>>

-----------------------------------------------------------------------------
UpdateDisplayState ==
    \/ NoResources
    \/ BeginUpdate
    \/ SkipConnector
    \/ ConnectAttached
    \/ BeginEncoders
    \/ ConnectDisplay
    \/ SkipDisplay
    \/ EndEncoders
    \/ EndScan
    \/ ShutDown
    \/ EndUpdate

HotplugThread ==
    \/ HotPlugEventHandler
    \/ DropEvent
    \/ Listen
    \/ UpdateDisplayState

Next ==
    \/ Initialize
    \/ HotplugThread
    \/ ReadFails
    \/ \E c \in Connectors : PlugOrUnplug(c)
    \/ RegisterHotPlugEventCallback
    \/ GetDisplay
    \/ PresentLayers
    \/ GetConnectedPhysicalDisplays
    \/ \E x \in Displays : Present(x)

Spec == Init /\ [][Next]_vars

(* The hotplug thread keeps receiving events and finishes its updates; a   *)
(* client that asked for the list gets it and lets its lock go.            *)
FairSpec ==
    Spec /\ WF_vars(HotplugThread) /\ WF_vars(GetConnectedPhysicalDisplays)

-----------------------------------------------------------------------------

(* Every variable holds a value of its type; a display that is on has a    *)
(* connector.                                                              *)
TypeOK ==
    /\ plugged \subseteq Connectors /\ unseen \subseteq Connectors
    /\ route \in [Connectors -> Displays \cup {Nobody}]
    /\ events \in 0..MaxChanges /\ changes \in 0..MaxChanges
    /\ faults \in 0..MaxFaults
    /\ build \in {"udev", "netlink"}
    /\ stage \in {"closed", "starting", "ready", "failed"}
    /\ worker \in BOOLEAN /\ acted \in BOOLEAN /\ lost \in BOOLEAN
    /\ isConnected \in [Displays -> BOOLEAN]
    /\ poweredOff \in [Displays -> BOOLEAN]
    /\ connector \in [Displays -> Connectors \cup {Nobody}]
    /\ \A x \in Displays : poweredOff[x] \/ connector[x] \in Connectors
    /\ modeset \in [Displays -> BOOLEAN]
    /\ manager \in [Displays -> {"none", "ready", "broken"}]
    /\ pc \in {"idle", "update", "scan", "encoders", "shutdown", "listen", "crashed"}
    /\ i \in 1..(NumConnectors + 1) /\ j \in Nat /\ d \in 1..(NumDisplays + 1)
    /\ connected \in Seq(Displays)
    /\ headless \in Nat \cup {Nobody} /\ alive \subseteq Nat
    /\ registered \in BOOLEAN /\ asking \in BOOLEAN
    /\ clientDisplays \in Seq(Displays)
    /\ clientDisplay \in Nat \cup {Nobody}

(* Between two updates a device that started hands out the displays that   *)
(* are on, and there is one to hand out: no display is left scanning out   *)
(* with nobody presenting to it, and none that is listed is off or has     *)
(* lost its manager.  Only a display whose manager has failed to           *)
(* initialise is on without being listed.                                  *)
ListMatchesPower ==
    stage = "ready" /\ pc = "idle" =>
        /\ \A x \in Displays :
             /\ x \in Range(connected) => ~poweredOff[x]
             /\ ~poweredOff[x] => x \in Range(connected) \/ manager[x] = "broken"
             /\ ~poweredOff[x] => manager[x] # "none"
        /\ headless # Nobody <=> connected = <<>>

(* Between two updates a client that has a list has the current one, even  *)
(* if it read the list without the lock while it was being made; after the *)
(* last display is gone it keeps the list it had.                          *)
ClientSeesList ==
    pc = "idle" /\ connected # <<>> => clientDisplays \in {<<>>, connected}

(* Between two updates no more displays drive a connector than it has      *)
(* encoders, although each connector looks for displays anew every time:   *)
(* one for most, two where the search goes on after the first.             *)
OneDisplayPerEncoder ==
    pc = "idle" =>
        \A c \in Connectors :
            Cardinality({x \in Displays : manager[x] = "ready" /\ connector[x] = c})
                <= Len(Encoders[c])

(* A display that was handed to a client exists as long as the client may  *)
(* use it, the headless one after it has been replaced, too.               *)
HandedOutStaysAlive ==
    Range(clientDisplays) \cup ({clientDisplay} \ {Nobody}) \subseteq alive

(* When there is nothing left to do every change was seen, whenever it     *)
(* came, unless it came before the device listened, a call failed, or the  *)
(* netlink handler dropped its uevent.                                     *)
NoChangeOverlooked ==
    stage = "ready" /\ pc = "idle" /\ events = 0 => unseen = {} \/ lost

(* A display does not stay on for a connector without a monitor, unless    *)
(* the change is lost in one of these ways.  The hotplug thread calls the  *)
(* client with the manager's lock held, and the client asks for the list   *)
(* with its own: neither waits for the other for ever.                     *)
UnpluggedGoesDark ==
    \A x \in Displays :
        (~poweredOff[x] /\ connector[x] \notin plugged)
            ~> (poweredOff[x] \/ connector[x] \in plugged \/ lost \/ pc = "crashed")

=============================================================================
