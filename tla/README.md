# Verification of hwcomposer

TLA+ models of hwcomposer, the library that puts a client's layers on the
displays of a DRM device: it decides which layers the planes of a display's
pipe scan out and which the GPU composes, commits the result atomically, and
tells the client through fences when its buffers are free. The modules model
the library's control, TLC checks them on small instances, and TLAPS proves the
central safety properties for every instance.

Paths below are relative to the repository; `core/`, `display/`, `compositor/`
and `utils/` are under `src/common/`.

## 1. The system

| component | state | operations | modelled by |
|---|---|---|---|
| **InternalDisplay** (`core/internaldisplay.cpp`) | `is_powered_off_`, `is_connected_`, `pending_operations_`, `dpms_mode_`, `out_fence_`, `connector_`; the manager | `Present`, `ApplyPendingModeset`, `Connect`, `DisConnect`, `ShutDown`, `SetDpmsMode` | FramePipeline, DisplayHotplug |
| **DisplayPlaneManager** (`display/displayplanemanager.cpp`) | planes and their `enabled_`, `surfaces_`, `in_flight_surfaces_`, `in_flight_buffers_`, `displayed_buffers_`, `current_sync_` | `BeginFrameUpdate`, `ValidateLayers`, `EnsureOffScreenTarget`, `ValidateFinalLayers`, `CommitFrame`, `EndFrameUpdate`, `DisablePipe`, `Initialize` | FramePipeline, PlaneAssignment |
| **DisplayPlane** (`display/displayplane.cpp`) | `type_`, its properties and formats, `enabled_` | `Initialize`, `ValidateLayer`, `UpdateProperties`, `Disable` | PlaneAssignment, FramePipeline |
| **NativeSurface** (`compositor/nativesurface.cpp`) | `ref_count_`, `in_flight_`, `framebuffer_format_` | `SetInUse`, `InUse`, `SetPlaneTarget`, `ResetInFlightMode` | FramePipeline |
| **OverlayBuffer / OverlayLayer / HwcLayer** | framebuffer id, the fences of a layer | import, `CreateFrameBuffer`, removal | FramePipeline |
| **NativeSync, NativeFence** | a sw_sync timeline that signals when it is destroyed | `CreateNextTimelineFence`, `Wait` | FramePipeline, FrameClient |
| **Compositor, RenderState, disjoint_layers** | draw regions, render states | `BeginFrame`, `Draw`, `SeparateLayers`, `get_draw_regions`, `Render` | Compositor, DisjointLayers; one step of FramePipeline |
| **GL backend** | shader programs, textures, surfaces | `Draw`, `InsertFence` | FrameClient (the wait and the order of execution) |
| **PageFlipEventHandler, HWCThread** | `enabled_`, `callback_`, `initialized_` | `VSyncControl`, `RegisterCallback`, `InitWorker`, `Routine`, `HandlePageFlipEvent` | VsyncThread |
| **GpuDevice, DisplayManager** (`core/gpudevice.cpp`) | `displays_`, `connected_displays_`, `headless_`, the client's callback | `Initialize`, `UpdateDisplayState`, the hotplug handlers of both builds, `GetDisplay`, `RegisterHotPlugEventCallback`, `GetConnectedPhysicalDisplays` | DisplayHotplug |
| **Test clients** (`src/tests/apps`) | two sets of layers, the list of displays | the render loop, the hotplug callback | FrameClient, DisplayHotplug |
| **VirtualDisplay, Headless** (`core/virtualdisplay.cpp`, `core/headless.cpp`) | `output_handle_` | `Present` into a buffer, `SetOutputBuffer`; an empty `Present` | DrmHwcTwo, DisplayHotplug |
| **DrmHwcTwo** (`src/os/android`) | `layers_`, `client_layer_`, each layer's types, z-order, buffer and release fence | the HWC2 entry points of layers, refreshes and virtual displays | DrmHwcTwo |
| buffer handlers, DRM wrappers, tracing | none | I/O | no |

How they interact. A client thread calls `Present`, which takes the display's
spin lock and keeps it to the end; inside, the manager assigns planes, the
compositor draws into surfaces, the kernel is given one atomic commit. The
kernel completes the flip at a vblank of its own choosing and signals
`out_fence_`. The hotplug thread holds the manager's lock while it scans the
connectors and calls `Connect` and `ShutDown` of the displays, which take the
display's lock, and then the client's callback, which in the test clients takes
the client's lock. On Android the client is SurfaceFlinger, which goes through
the hooks of DrmHwcTwo: a type and a buffer for each layer, validate, accept,
present, release fences. One worker per display waits for vblanks and calls the
client back with the handler's spin lock held.

What is hard here, and what makes each part correct:

- **Two frames in the air.** At any time the screen shows one frame and the
  kernel may hold a second. Neither the surfaces nor the framebuffers of either
  may be drawn to or removed, although the code counts only its own
  `EndFrameUpdate`s (`ref_count_` = 3, 2, 1, 0) and never asks the kernel.
- **Failure at any step of `Present`.** Every early return leaves
  `in_flight_buffers_`, `in_flight_surfaces_`, `enabled_` and `in_flight_` as
  the failed frame left them; the next `Present` must still do the right thing.
- **Release fences come early.** The fences of frame N are signalled when frame
  N+1 is *accepted*, while N is still on the screen. The wait that
  `InsertFence` queues in the client's GL context makes up for it.
- **Busy kernel.** `EBUSY` is answered by waiting for the fence of the flip
  before; this needs `out_fence_` to be exactly that one.
- **Other threads between two Presents**: shutdown, reconnection, DPMS. The
  modeset that is then needed must not be forgotten.
- **Plane assignment** is one loop over two iterators and a reference into a
  vector; layers must not be lost, doubled or reordered.
- **The sweep line** of `get_draw_regions` and its treatment of edges with
  equal coordinates.
- **Vsync**: the worker reads `enabled_`, sleeps until the vblank, and only then
  looks again; clients turn reports off in between.
- **The HWC2 protocol** keeps two types for each layer, and hands out with one
  frame the fences that guard the buffers of the frame before.
- **Colours and virtual displays** change the types of layers behind the
  protocol's back.
- **Hotplug**: a scan marks all displays disconnected and finds them again one
  by one while clients go on presenting; any of its calls may fail; the client
  is called with one lock held and calls in with another.
- **Events** announce a change once: what is plugged before the device listens,
  while it scans or after a failed scan must not be overlooked.

The line at which each of these bites is in `PROJECT.json`, under `hazards`.

## 2. The modules

```
DisplayContract        what a display promises the caller of Present
      ^ implements
FramePipeline          one display: Present, the pool, the kernel
      ^ extends
FrameClient            + the client's render loop and the GPU
DrmHwcTwo              the Android front end, on DisplayContract
PlaneAssignment        Initialize and ValidateLayers, one step per try
DisjointLayers         get_draw_regions, one step per edge
      ^ extends
Compositor             Draw: the off-screen target of every plane
VsyncThread            PageFlipEventHandler and its worker
DisplayHotplug         DisplayManager, the displays' connection state, a client
```

Every state machine has a module of proofs: FramePipelineProofs and, on top of
it, FrameClientProofs; VsyncThreadProofs, DisplayHotplugProofs,
PlaneAssignmentProofs, DrmHwcTwoProofs, and CompositorProofs, which also covers
DisjointLayers. OrderLemmas holds what several of them need: a bounded set of
numbers has a maximum and a minimum, a finite set can be sorted, and lists the
elements by their ranks, a recursion over 0..n defines a function, a flattened
sequence holds what its parts held.

`MC*` modules give the sets that a `.cfg` cannot spell.

### FramePipeline

`Present` runs under a lock, so its interior is visible only to the kernel, the
GPU and a failure. It is cut there and nowhere else:

    idle -> validate -> (primary | final -> test) -> draw -> apply
         -> commit -> (wait -> retry) -> idle

| action | code |
|---|---|
| `BeginPresent`, `ImportFails` | `Present` up to and including `BeginFrameUpdate` |
| `ComposeOnPrimary`, `UsePlanes` | the shapes `ValidateLayers` can return (see PlaneAssignment) |
| `EnsureOffScreenTarget`, `ValidateFinalLayers` | the same, with the reset of `in_flight_` and the fallback to the primary plane |
| `Draw`, `DrawFails`, `ApplyFails`, `ApplyPendingModeset` | drawing, the release fences, the property set |
| `CommitFrame`, `UpdatePropertiesFails`, `WaitForFlip`, `WaitTimesOut`, `RetryCommit` | `CommitFrame`, with `EndFrameUpdate` and the end of `Present` where the kernel accepts |
| `Flip` | the kernel's vblank |
| `Connect`, `ShutDown`, `SetDpmsMode` | the calls of other threads |

A composition (`comp`) maps each plane to what it scans out: nothing, the
framebuffer of a client's layer, a surface still to be chosen, or surface s.
A frame is named when `Present` begins; the same name stands for the sync
object, the framebuffers imported for it and the flip that shows it. Names are
used again once nothing refers to them, so that TLC needs few while runs go on
for ever. The kernel is external and modelled from how the code uses it: a
commit is refused without a framebuffer or with the CRTC off, is busy while a
flip is pending, blocks when it carries a modeset; removing a framebuffer that
the last commit shows turns its plane off.

`DisplayContract` is what a caller may rely on, in three variables: the frame
on the screen, the one queued, the one whose fences are held back. The mapping
calls a picture torn while one of its surfaces is being drawn to, so that the
refinement says at once: no tearing, frames whole and in order, none skipped,
failures invisible, only the newest frame held back.

### FrameClient

Extends FramePipeline by the loop of `kmscube.cpp` and `jsonlayerstest.cpp`
(wait for the release fence, draw, present, with two sets of layers) and by the
GPU, which executes what is queued in order, honours the wait `InsertFence` put
in the context, and signals the acquire fence the flip waits for.

### DrmHwcTwo

One action per hook. The display below is an internal one, the headless one or
a virtual one (`kind`). The internal one is an instance of DisplayContract,
which FramePipeline implements, so that nothing of the pipeline has to be
modelled again: `PresentDisplay` is the contract's `Set` for the first frame,
which carries the modeset, and `Queue` after that. The headless one does
nothing. The virtual one draws into the output buffer it was given, or not at
all (`DrawOffscreen`): its `SetActiveConfig` is the headless one's and fails,
so that the client's layer never gets its place on the display.
SurfaceFlinger (one thread; `phase`, `told`, `latched`, `replaced`) and the
applications with their buffers (`buffer`, `guarded`) are external: they follow
the hooks' order, latch the newest queued buffer, and pass the fence of a layer
on with the buffer that was replaced. A layer that has no buffer yet is a
colour. A fence is signalled by the next frame (`guarded' = {}`), and the wait
of `InsertFence` holds SurfaceFlinger's GL drawing back to the flip
(`GlWaited`). `Kept` are the layers that the map by z-order in `PresentDisplay`
is left with, where a second layer with a z-order already in it is dropped, and
`ZMap` is that map's order. `presented` remembers what each frame consists of. The keys of
`layers_` count from 1, for 0 is the client's layer.

### PlaneAssignment

`Initialize` reads the planes the kernel lists, in any order and with planes of
other pipes among them, and keeps the fit ones by type; a plane whose
properties cannot be read is left out (`unfit`). `ValidateLayers` is a state
machine: each iteration of the overlay loop is a step that takes the next plane
or merges the layer into the plane below. `FallbacktoGPU` refuses what
`DisplayPlane::ValidateLayer` refuses, by what the layer demands (alpha, a
format; every layer demands a rotation, as `DRM_ROTATE_0` is a bit) and what
the plane offers; else the driver's answer to the test commit is arbitrary.
`composition` is a vector: when it grows, what `last_plane` refers to is gone
and reading it gives either value. No two objects of the kernel have the same id
(`IdsAssumption`), by which the overlay planes are sorted. `LayersInOrder` says
that the planes of the result, in the order the kernel stacks them, hold
consecutive runs of the layers from the first to the last or to the topmost
cursor. `FitsPipeline` states the shapes that
FramePipeline's `UsePlanes` and `ComposeOnPrimary` allow.

### DisjointLayers

One step per edge (POI). The order of the edges is the one `std::set` gives
with the code's `<=` comparison: edges at the same x come last inserted first.
`FromTop` is the order of a region's `y_points`, and `GenerateOutLayers` goes
down it: `Stop` is one turn of its loop, with the layers alive (`ids`), where
they became so (`top`) and what is cut so far.

### Compositor

Extends DisjointLayers by what `Draw` does around it: the loop over the planes,
which remembers the layers of planes that scan out (`dedicated`) until the next
plane that is composed; `SeparateLayers`, which cuts both kinds together and
then takes the dedicated ones out again, with what belongs below them; the
render states, which stop at an opaque layer, and the order in which they are
drawn. `target` holds, for each cell of a target, the layers blended there.
Draw may fail at its start and at every plane. Draw is given what
`ValidateLayers` returns, so that the layers of a composition come in the order
of its planes (`CompositionsAssumption`; `LayersInOrder` is what PlaneAssignment
shows of that result), and a plane in use has a layer.

### VsyncThread

Critical sections are steps; the unlocked read of `enabled_` in `VSyncControl`
and of `initialized_` in `InitWorker` are steps of their own, the callback runs
between two steps with the lock held, and `enabled_` starts with either value,
because no constructor sets it. `promise` records what the calls that returned
add up to and is read by no action.

### DisplayHotplug

`Initialize` and then `UpdateDisplayState` loop by loop (connectors, encoders,
displays, shutdowns) under the manager's lock. `build` chooses the handler that
reads one uevent from udev, or the one that reads a netlink socket: that one
does not return after it has acted (`acted`), and drops what it reads
afterwards until a read fails. Every call of the kernel may fail: the CRTCs, the
resources, a connector, an encoder, `Connect` before and after it made its
manager. A manager without a primary plane is `"broken"`, and using it ends the
behaviour (`pc = "crashed"`). `headless` and `alive` are objects: the code
releases the headless one without deleting it. A client registers, is called
back while the manager's lock is held, asks for the list with a lock of its own
held, gets a display for good (`clientDisplay`, as DrmHwcTwo does), and
presents, which applies pending modesets and so attaches connectors to CRTCs.
`unseen` and `lost` are read by no action: they record which connectors changed
since a scan read them, and whether the code has let an announcement go.

## 3. What is checked

| run | instance | shows |
|---|---|---|
| `steady` | 2 planes that can both show surfaces, 8 surfaces, 4 frame names, no failure | planes share no surface; the pool stays at 3 surfaces per plane; a busy kernel always has a fence to wait for; `Present` returns |
| `disturbed` | primary without ARGB and cursor plane, 4 surfaces, 5 frame names; every step may fail; shutdown, failing disable, reconnection, DPMS | targets are never on the screen; DisplayContract; an accepted commit shows exactly its composition; the screen changes only by commits; a needed modeset is lost only by a commit that fails after taking it |
| `client` | 1 plane, 2 sets of layers, 3 queued drawings, shutdowns | the GPU never draws into a scanned out buffer; the loop never blocks on its release fence; what is presented is shown |
| `regions` | up to 3 layers on up to 3 planes, one row or a 3 by 3 grid, in every arrangement in which none begins where one before it ends; opaque layers | the cut is exact and disjoint; every target shows its plane's layers and no others |
| `vsync` | 2 threads (one registers), 2 callbacks, 2 possible workers, 5 calls | silence after `VSyncControl(false)`; a replaced callback is not called; one worker; reports come |
| `planes` | primary, 3 overlay planes of different abilities in every order, a cursor plane, a plane of another pipe; up to 4 layers with any demand, any cursors, any answers | order, completeness, what is scanned out is supported and was tested, the shapes of FramePipeline |
| `hotplug` | 2 connectors, one with 2 encoders, 2 displays, 2 plug events and 1 failing call, both builds, any state the firmware left | list, power and the client's copy agree; no connector drives more displays than it has encoders; nothing handed out is deleted; no change is overlooked; an unplugged display goes dark |
| `android` | 2 layers created and destroyed, 2 buffers each, 2 client targets, 2 output buffers, the three kinds of display | each refresh shows what was agreed with SurfaceFlinger; one layer at most goes to a virtual display; no buffer on the screen is drawn into |
| `regions_touching`, `vsync_locked`, `planes_stale`, `android_colour` | the smallest that show it | the four findings below |

Why the bounds are enough.

- *Surfaces*: the guard of `BeginPresent` asks for a free slot per plane that
  can show a surface. In `steady` the pool never exceeds 6 (`PoolBounded`), and
  8 slots leave room for every plane to take one more: the guard never blocks.
  With failing draws the pool has no bound in the code either: each failed
  `Present` leaves its surfaces in flight until the next success. `disturbed`
  stops such a series after 4 surfaces, one more than two commits and a target
  hold.
- *Frames*: the state refers to at most 5 frames with one set of layers (last
  commit, screen, two lists of framebuffers, fences); in `steady` these
  coincide and 4 names suffice: the run checks deadlock and liveness, so a
  shortage of names would show.
- *Planes*: two planes give every relation between planes (one keeps a client's
  buffer, the other a surface; sharing a surface; one disabled); the theorems
  cover any number.
- *Rectangles and planes*: three allow a region with two layers to be met by a third and
  two regions to be joined; 3 by 3 allows nested, equal and crossing spans. The
  plans with two targets or several dedicated layers use one row of the grid.
- *Layers and planes*: the vector `composition` grows at 1, 2 and 4 elements;
  with four layers the first two occur, and a third overlay plane is left when
  one has refused its layer. The three overlay planes offer everything, all but
  alpha, all but a format; the primary plane may lack the rotation.
- *Calls and plug events*: 5 calls allow on, off, on with a registration
  between; 2 plug events allow a connector to go and come back during one scan,
  or the two to change places, from every initial combination of monitors and
  routes. One failing call meets every one of the calls; the theorems cover any
  number of all of these.
- *Android*: two layers give every order in depth of two of Device, Client and
  the target; with two buffers an application draws into one while the other is
  shown. At most two frames are alive, so two names are enough. Two buffers are
  too few for the system to make progress (a fence is signalled by the next
  frame, which may need the buffer), so no liveness is claimed here.
- *Broken framebuffers*: `disturbed` follows a behaviour in which a framebuffer
  could not be created until the pool takes a third surface
  (`BrokenInSmallPool`); without such a failure it goes on.
- `MaxQueued`, `MaxCalls`, `MaxChanges`, `MaxFaults`, `MaxLayers`,
  `NumBuffers`, `MaxSurfaces`, `Width` and `Height` are all the bounds there
  are.

`CHECK_DEADLOCK FALSE` is given where the system may rest: a display that was
never connected (`disturbed`; also the cut-off above), a
client that makes no more calls (`vsync`), no more plug events (`hotplug`), no
more layers (`android`),
algorithms that end (`regions`, `planes`). `steady` and `client` check deadlock.

Fairness. `Present` goes on once it has begun (`PresentStep`): it runs in a
thread the scheduler runs, holds its lock, and waits only for the kernel.
Vblanks go on (`Flip`): the hardware sees to it once the acquire fences are
signalled, which in FrameClient the GPU's own fairness provides. The client's
loop has no other exit. Nothing is assumed of hotplug, shutdown, DPMS or plug
events: they need not happen. In VsyncThread a call that was made goes on, the
worker runs, and the vblank wait succeeds again and again if it is tried again
and again (strong fairness, since the same wait may also fail); calls themselves
are not fair. In DisplayHotplug the hotplug thread runs, and a client that has
asked for the list gets it unless something holds it up; that it is never held
up for ever is what `UnpluggedGoesDark` would show violated, since the thread
waits for the client's lock in its callback. The kernel and the user owe
nothing.

## 4. What is proved

| module | theorem | property |
|---|---|---|
| FramePipelineProofs | `TypeCorrect` | `TypeOK` |
| | `TargetsStayOffScreen` | a surface given to the GPU is neither on the screen nor in the pending flip |
| | `CommitsShowCompositions` | an accepted commit leaves exactly its own composition on the screen |
| | `ScreenChangesWithCommits` | between commits only the destruction of the manager changes the screen |
| | `RefinesContract` | FramePipeline implements DisplayContract |
| | `TargetsStayApart` | two planes of a composition share no surface |
| | `BusyIsWaitedFor` | `BusyHasFence`: a pending flip's fence is at hand |
| | `PoolStopsGrowing` | `PoolBounded`: three surfaces for each plane that can show one are enough |
| | `ModesetsAreKept` | only a commit that fails after taking the modeset loses it |
| FrameClientProofs | `ClientTypeCorrect` | `ClientTypeOK` |
| | `ClientNeverTears` | `NoTearing`: the GPU never draws into a buffer on the screen |
| | `ClientNeverWaits` | `ReleaseNeverBlocks`: the fence the client waits for is signalled |
| VsyncThreadProofs | `OffIsSilent` | no report after `VSyncControl(false)` has returned |
| | `ReplacedIsSilent` | no call of a callback after it was replaced |
| | `OneRegistrantOneWorker` | one registering thread gets one worker |
| DisplayHotplugProofs | `TypeCorrect` | `TypeOK` |
| | `ListedIsPowered` | the list, the displays' power and the headless display agree between updates |
| | `ClientIsCurrent` | the client's copy is the current list |
| | `HandedOutLives` | no display handed out is deleted |
| | `ChangesAreSeen` | no change is overlooked |
| | `EncodersAreNotShared` | a connector drives no more displays than it has encoders |
| PlaneAssignmentProofs | `ReturnsWhatWasTested` | what is scanned out was passed by the last test commit |
| | `ReturnsWhatIsSupported` | a layer that is scanned out suits its plane |
| | `TypesAreKept` | `TypeOK` |
| | `LayersKeepTheirOrder` | `LayersInOrder`: each layer is shown once, in its order |
| | `ShapesFitPipeline` | `FitsPipeline`: the shapes FramePipeline takes from `ValidateLayers` are all there are |
| DrmHwcTwoProofs | `TypeCorrect` | `TypeOK` |
| | `VirtualGetsOneLayer` | `OneLayerOffscreen` |
| | `PresentsWhatWasAgreed` | `ShownAsAgreed`: the layers both sides agreed on, once each, in z-order, with this refresh's buffers |
| | `ApplicationsNeverTear` | `NoTearing`, with its exception of a layer that has just changed sides |
| CompositorProofs | `RegionsStayDisjoint` | `RegionsDisjoint`: the regions of the sweep line never overlap |
| | `EndedLayersAreGone` | `EndedLayersLeave`: no region holds a layer whose right edge has been passed |
| | `DrawIsTyped` | `DrawTypeOK`: each piece of the cut is on the screen and not empty |
| | `CutsAreExact` | `CutIsExact`: the cut covers each point of the layers once, with exactly the layers there |
| | `TargetsShowTheirLayers` | `TargetsAreExact`: each target shows its plane's layers, down to an opaque one, and nothing else |

They hold for every value of the constants: any finite set of planes, any
number of surfaces, frames and buffers, of queued drawings, and every choice of
failures and interruptions; any threads, callbacks and workers; any connectors,
encoders, displays and failing calls; any planes the kernel may list, in any
order, and any layers; any Android layers and buffers; any non-empty rectangles on a
screen of any size. The assumptions are those the modules name: in FramePipeline
planes are natural numbers, 0 is the primary plane, the cursor is another,
`NoFrame` and `Torn` are no frames, and `NoBuffer` is no buffer; in FrameClient
there is more than one set of layers; in DisplayHotplug every encoder reaches
some of the displays; in PlaneAssignment a list has at most eight planes, with
different ids; in Compositor the layers come in the order of the planes and
each plane has one. A set of layers is a set there and not the 64 bits of
`RectIDs`, so what is proved of more than 64 rectangles is not what the code
does (section 7).

Some theorems assume more, each time because the property is false of the code
otherwise:

- `BusyIsWaitedFor`, `PoolStopsGrowing`, `ClientNeverTears` and
  `ClientNeverWaits`: the CRTC has `OUT_FENCE_PTR` and no call fails
  (`NothingFails`: of the events that may happen, `Events` has at most shutdowns
  and reconnections). Without the out-fence, or after a commit that failed, there
  is nothing that `CommitFrame` or the GPU could wait for, and Presents that fail
  in a row take new surfaces each time. `steady` and `client` are instances;
- `OneRegistrantOneWorker`: one thread registers callbacks;
- `EncodersAreNotShared`: each connector has an encoder. `hotplug` is an instance;
- `EndedLayersAreGone`, `CutsAreExact` and `TargetsShowTheirLayers`: no layer
  begins at the x where one below it ends (`NoneTouches`). `regions` is an
  instance, and `regions_touching` (finding 1) shows what happens without it.

None of the properties is inductive.

**FramePipeline.** `TargetsOffScreen` at the moment of the draw depends on
counts set two commits ago. The invariant `SafetyInv` says how:

- `ScreenHeld`: the surfaces of the last commit have `ref_count_` 3 and those
  of the frame still on the screen at least 2, and without a pending flip these
  two are one frame;
- `PoolCovers`: a surface with a count is in the pool, where
  `EnsureOffScreenTarget` looks before it makes a new one;
- `TargetsFresh`: what the composition under way has taken counts at most 1 and
  is in `in_flight_surfaces_`, so that `EndFrameUpdate` sets it to 3;
- `PlanesMarked`: from `BeginFrameUpdate` to the commit only planes of this
  composition are marked as used, so that all others are disabled by the commit;
- `FrameFresh`: between two Presents `in_flight_buffers_` are not those of the
  last commit, which is why freeing them turns no plane off, whatever failed.

`EndFrameUpdate` takes every count down by one and accepts a new commit only
after the flip of the one before: the counts 3, 2, 1 are exactly the last
commit, the one before it, and anything older. `RefinesContract` adds `HeldInv`:
while a modeset is pending no fence is held back. `BusyIsWaitedFor` rests on
`SteadyInv` (without failures every target has its framebuffer and the CRTC is
on once its modeset was taken, so that no commit is ever rejected and
`out_fence_` never dropped), `ModesetsAreKept` on `CopyInv` (the copy of
`kModeset` that `Present` takes stands for a modeset still pending, up to the
commit). `PoolStopsGrowing` counts (`PoolInv`): a surface that
`EnsureOffScreenTarget` finds in use has `ref_count_` 3, or 2, or is in flight;
the first two kinds are each no more than the planes that can show a surface,
and those in flight together with the planes still waiting for one are no more
than that either. So when all are in use and a plane still waits, there are
fewer than three for each plane.

**FrameClient.** Every step of the client's system is a step of the display, or
leaves the display alone, or gives up a release fence, so the invariants of
FramePipeline carry over (`DisplayInv`). `ClientInv` ties the three together:
the layers whose turn it is are never those of the last commit
(`TurnFollowsScreen`); a drawing that is queued with a fence waits for the flip
that is pending, and one without is not of the layers on the screen
(`WaitsForFlip`, `DrawnOffScreen`); at most two drawings are queued once the
display is lit, the last of them of the layers under way (`QueueShort`,
`OwnIsLast`); a fence that is still held belongs to the last commit or to the
Present under way (`FencesFollow`), and the loop comes back to neither.

**VsyncThread.** `LockInv`: while the callback runs, reports are on and the
callback is the one registered, since both change only under the lock that is
held. `PromiseInv`: the calls that returned add up to "off" only if `enabled_`
is off; the unlocked read may make `VSyncControl` return early, but not with
the wrong value, as the value it compares with is the one it would set.
`WorkerInv`: with one registering thread nobody else is between the look at
`initialized_` and the creation.

**DisplayHotplug.** `PowerInv` is the reason the list and the power agree:
throughout an update `is_connected_` says what was listed, keeps its display
on, and decides in the last loop what is shut down, so that behind `d` a display
is on only if it is listed or its manager broke. `ServedInv` and `ClientInv` add
that there is always a display to hand out and that the client's copy is either
empty or the whole list between updates. `SeenInv` says where a change can be: in
a uevent, in an update that has not begun to scan, or at a connector the scan
has still to read. `TakenInv` counts the displays that an update has found for a
connector: none before the scan comes to it, at most one for each encoder it has
tried, and a later connector can only take displays away.

**PlaneAssignment.** `TestedInv`: in the loop the sources of `composition`,
`commit_planes` and the last passed test are the same sequence, because a
refused layer is taken out again. `CompositionInv`: each plane stands first for
the layer it was tested with, and that layer suits it; layers merged in later
come behind it and ask for a target instead. For the order of the layers the
invariant says how far the loop has come (`StackInv`): the planes of
`composition` hold consecutive runs of the layers up to `layerBegin`, on overlay
planes before the one that is next, and after the loop up to the topmost cursor.
That planes which come later in the list lie higher is what the sort by ids
gives (`PlanesInv`, `OrderExists`).

**DrmHwcTwo.** `RefreshInv` follows a refresh: between validate and present the
types SurfaceFlinger goes by and those the layers keep agree (`TypesFollow`,
`OnlyTheClient` for a virtual display), and what a layer holds is the buffer
latched for it (`BuffersFollow`, `LatchedIsKept`). With `PicturesAreOld`,
`ShownIsLatched`, `NextIsLatched` and `FreeIsLeaving` of `ScreenInv` it says
whose buffers can be in a frame: those still latched, those handed back with a
fence that this frame's successor signals, and those of a layer that has left
the display's frames. This is where DisplayContract is used: only the newest
frame is held back, and a frame that is queued replaces the one shown.

**Compositor.** `SweepInv` strengthens the disjointness of the regions by what
makes it last: each layer of a region has a stretch of y of its own between two
of the region's points (`Whole`), so that a region always meets the edges of its
layers and has a height. A left edge that meets regions is then shared out so
that each share lies beside its region and clear of the others (`SharesFit`,
`TakenApart`); a right edge only takes points away. `EdgeInv` adds that a
region's layers still have their right edges to come and that the region begins
to the left of all of them, so that the END event finds the region, and does not
skip it as one that begins there. At a left edge this needs `NoneTouches`: among
edges at the same x the later layer's comes first. `FrameInv` carries the order
of the layers from the composition to the list that `SeparateLayers` cuts.

That the cut is exact takes three steps.

- *One region* (`CutOfRegion`). The points of a region are taken from the top,
  each layer's START before its END (`StopsAreOrdered`). Before each point the
  walk of `GenerateOutLayers` holds the layers that have begun and not ended
  (`LiveSteps`), and those are the layers whose share of the region holds the
  heights up to that point (`Alive`, `LiveBetween`); so at each height it cuts one rectangle with
  exactly the layers alive there, or none if there are none (`RowExact`). That
  `if (rect_ids.isEmpty())` does not look whether the point is a START is
  right: an END never comes to a walk that holds no layer.
- *One height.* `LineInv`: a region begins where the last edge that met it was,
  and no edge behind the line is still to come. `ShareInv`: at each of its
  heights a layer between its two edges is alive in the region that is there;
  the only exception is a layer whose right edge the line is at and that was
  taken out with another one, and then what is there begins at that x and is
  not cut before it. Regions are disjoint, so that the one across a height
  blends just the layers the line is in (`RegionIsExact`).
- *One cell* (`ExactInv`). Left of the line a cell has the right piece and no
  other, or it has none and waits for the region across it, which began to the
  left of it. An edge cuts the regions it meets, and where they are that ends
  the wait (`CutAtCell`, `ExactStays`). With no edge left nothing waits.

`PiecesInv` keeps the pieces behind the line, `PlaceInv` the targets with their
planes; they give `DrawTypeOK` without any condition. For the targets
`LayersInv` says that what is being cut are the layers remembered for the plane
and its own, in this order, so that what `Composed` takes out of a piece are the
layers of the plane at that cell (`ComposedIsThere`): the dedicated layers are
all below them. A cell is then covered by one quad, whatever the order in which
quads are drawn (`CellIsPainted`), which lists its layers down to the first
opaque one (`OpaqueIsLast`), and as every plane has a layer, no target is left
undrawn (`SomewhereThere`, `TargetInv`).

Data structures that a loop builds (the list of points, the walk, the flattened
cut) are functions over the positions of a sequence. The library's induction
theorems are out of reach here; where a fact holds at every position the proofs
take the least one at which it fails (`MinOfNaturals`).

TLC checked these invariants on the instances of section 3 before they were
proved.

Model-checked only: liveness (`PresentReturns`, `PresentedIsShown`,
`ReportsCome`, `UnpluggedGoesDark`), which is out of reach of the provers. Every
safety property of a passing run is a theorem.

## 5. Findings

1. **A touching rectangle keeps an ended layer alive** (`regions_touching`). An
   END event at the x where a region begins is skipped before the region loses
   the layer, against the comment at `utils/disjoint_layers.cpp:207-210`. The
   region then carries the layer to its end.
2. **The vsync hook runs under the handler's lock** (`vsync_locked`). The
   comment at `display/pageflipeventhandler.h:47-49` says the callback is a
   shared pointer because it is called outside the lock. A client that takes a
   lock of its own in the callback and around its calls deadlocks.
3. **A dangling reference may skip the composition** (`planes_stale`).
   `last_plane` refers into `composition` and is read after `emplace_back`
   (`display/displayplanemanager.cpp:207`). If what it reads is not `kRender`,
   layers merged into that plane get no target and are not shown.
4. **A colour is composed by nobody** (`android_colour`). `SetLayerColor`
   (`src/os/android/drmhwctwo.cpp:598`) overwrites the type SurfaceFlinger
   asked for, which the comment at `src/os/android/drmhwctwo.h:100-101` says
   `sf_type_` keeps. `ValidateDisplay` then finds no change to report:
   SurfaceFlinger believes the display shows the colour, and the display
   believes SurfaceFlinger draws it.

Not expressed as a finding because no text of the repository claims otherwise,
but met while modelling:

- `SetPlaneTarget` stores the format a plane recommends in the surface's buffer
  and asks the next plane for that format, so that a surface first used on a
  primary plane without ARGB hides what is below it when an overlay plane gets
  it later.
- A commit that fails loses the pending modeset and, if a flip was pending, the
  fence to wait for; Presents that fail in a row take new surfaces each time.
- `VSyncControl` and `InitWorker` read shared fields without the lock.
- `DRM_ROTATE_0` is not 0: a plane without the rotation property takes no layer.
  Alpha is asked of overlay planes only.
- A `Connect` whose manager finds no primary plane leaves a display that is on,
  with a manager whose next use dereferences no plane. A connector with two
  encoders takes two displays. The netlink handler reads its socket for ever
  and acts on one event. What is plugged before the device listens is not seen.
- The headless display is released without being deleted: nothing dangles, and
  each change of monitors leaks one. The client keeps its list after the last
  display is gone, and DrmHwcTwo its display for ever.
- On Android a layer that SurfaceFlinger takes over from the display gets its
  last buffer back without a fence, up to a vblank too early (`NoTearing` of
  DrmHwcTwo exempts it), and so does every layer after a `Present` that failed;
  each acquire fence is duplicated and one of the two is never closed; nobody
  tells a virtual display's client layer its place, nor waits for the drawing
  of its output buffer.

## 6. What is left

The frame pipeline with its contract and its client, plane assignment, the
compositor, vsync, hotplug and the Android front end are modelled and checked,
and their safety is proved. In the order of their worth, what could follow:

1. *Abstract specifications* of vsync (no report after off) and of the display
   list, with VsyncThread and DisplayHotplug as implementations.
2. *Android front end*: Presents that fail, with a model of what SurfaceFlinger
   then does; the hotplug and power hooks.
3. *Descriptors*: that every fence handed over is closed once. The code leaks
   one at every call, so the property has nothing to hold.

## 7. What is not modelled

- Pixels, geometry, transforms, formats other than with and without alpha, GL
  programs and textures: no property depends on them.
- The acquire fences of layers the GPU composes: the code hands them to nobody,
  so there is no behaviour to model beyond that.
- More than 64 rectangles in `SeparateLayers` (`compositor/compositor.cpp:199-204`
  wraps an unsigned count and writes past the vector), and shader programs that
  do not link (`GLRenderer::Draw` leaves their quads out).
- Rectangles that are empty or not on the screen. `Rects` are on-screen and
  not empty, so the filter at `utils/disjoint_layers.cpp:139-141`, the conversion
  of negative coordinates to `uint64_t` (145-152) and a region that ends at 0,
  which `cur_y == 0` (291) takes for none, are never exercised: the three
  theorems about the cut and the targets speak of rectangles on the screen only.
  Nor does a plane occur whose rectangles are all empty; `Draw` skips it
  (`compositor/compositor.cpp:88-89`) and its target is shown as it was before.
- Failing sw_sync ioctls and the ownership of descriptors.
- The memory `VirtualDisplay::Present` points into (`core/virtualdisplay.cpp:82`):
  `OneLayerOffscreen` shows that under the Android front end there is never a
  second layer to move the first; other callers do not exist.
- Properties that `DisplayPlane::UpdateProperties` fails to add after an earlier
  success or before a later one: `success` is overwritten at
  `display/displayplane.cpp:190` and the failure goes unnoticed. It needs the
  process to run out of memory.
- The 1000 ms after which the client gives up its wait for a release fence and
  ends (`kmscube.cpp:733-738`): with the events of `client` the wait never lasts,
  as `ReleaseNeverBlocks` shows.
- A `ShutDown` that runs out of memory and so keeps its manager in
  DisplayHotplug (`core/internaldisplay.cpp:131-143`); FramePipeline has it
  (`"disable"`).
- `drmOpen` that fails, where `GpuDevice::Initialize` returns `-ENODEV` as a
  `bool` and so `true` (`core/gpudevice.cpp:455-458`); a `drmModeGetResources`
  that returns nothing at initialisation (115, read unchecked at 122); a uevent
  that udev fails to hand over (229-236), which is not read.
- On Android, layers of type Cursor (`PresentDisplay` treats them as Device,
  `drmhwctwo.cpp:396-397`) and Sideband (`ValidateDisplay` treats them as
  SolidColor, 533-534), and a `SetLayerZOrder` that changes the order a layer
  got when it was created.
- Buffer handlers, DRM wrappers and tracing: I/O and log macros without state.
- Builds with `DISABLE_EXPLICIT_SYNC` or `DISABLE_OVERLAY_USAGE`; explicit sync
  and overlays are the default.
- A frame of several layers whose only cursor is the bottom one: the code runs
  its iterators past each other, and nothing is defined after that.
- The end of the process: the vsync worker is killed by signal, not joined.
