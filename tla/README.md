# Verification of MeridianUI

MeridianUI is an SKSE plugin that shows web pages as interfaces in Skyrim: Chromium (CEF) paints
off screen, the plugin puts the pixels into the game's swap chain, sends input and focus the other
way, and lets other plugins (consumers) bind native functions to the pages. What is hard about it
is not any one algorithm but five threads, a second process and an engine with three task queues
that all hold on to the same browser.

This directory holds TLA+ models of that concurrency, the TLC runs that check them on small
instances, and TLAPS proofs of the parts that matter most for all instances. All paths below are
relative to the repository.

## 1. Inventory

### 1.1 Who runs where

| thread | runs | enters through |
| --- | --- | --- |
| application (game main) thread | initialises and shuts CEF down, SKSE tasks (`AddTask`), UI tasks (`AddUITask`), the engine's menu messages | `UIPlatformService`, `FocusMenu`, `FocusArbiter` |
| CEF UI thread (`TID_UI`) | every `MeridianCefClient` handler; consumer callbacks run inside it; paints | `MeridianCefClient`, `DefaultBrowser`, the render layers' `OnPaint` |
| render thread | `RenderHost::OnPresent` once per frame | the Present hook |
| engine input thread | batches of input events | `InputRouter`, `ControllerInputService` |
| consumer threads | any call of the C++ APIs | `PublicAPIController`, `ViewAPIController`, ... |
| renderer process | V8 bindings, promises | `CEFSubprocess` |

### 1.2 Components

For each component: its state, its operations, what makes it correct. `PROJECT.json` repeats the list
with the source files and says what is modelled.

**CEF service** (`Services/CEFService.cpp`). State: a lifecycle phase, per client a record
(creation pending, close requested, live browsers), one flag for the drain barrier. Operations:
initialise, create a browser, hear that CEF created or closed one, close one client, close all and
wait, shut down. Called by menus (any thread), CEF's callbacks, and the platform service. Hard:
CEF answers a creation long after the request, from another thread, and may refuse it; the last
`OnBeforeClose` is still on CEF's stack when the books become empty. Correct when CEF is never
stopped under a live browser or callback, and the drain always reaches a verdict.

**CEF client** (`CEF/MeridianCefClient.cpp`). State: the browser reference, the quiesce and close
flags, the recursive dispatch mutex. Every handler passes the gate before it calls a listener.
Correct when, after `BeginShutdown` has returned, no callback of the client runs, although
`BeginShutdown` may itself be called from one.

**Browser** (`CEF/DefaultBrowser.cpp`), the object the APIs hand out. Three concerns that share
little state: *promises* (`PromiseRouter`, one-shot resolvers), *bindings* (four caches of functions,
removals, promise functions and scripts that a page load replays under `m_urlMutex`), and *focus and
text input*. Correct when each promise gets its own call's answer, a binding lives until it is removed
or cleared, scripts run in order.

**Focus** (`Menus/FocusArbiter.cpp`, `WeakFocusOwner.h`, `FocusSessionState.h`,
`TextInputLeaseState.h`, `FocusMenu.cpp`, `CursorMenuHooks.cpp`). State: the owner, the session's
generation and captured movement mode, the text-input wish. The owner changes under one mutex on any
thread; menu, cursor, text-input count and movement mode follow later, through SKSE tasks, UI tasks and
menu messages. Correct when, after everything has drained, they agree with the owner.

**Frames** (`Render/FrameTransport.cpp`, `CpuFrameBuffer.cpp`, `CpuTextureSurface.cpp`,
`CEFRingRenderLayer.cpp`, `CEFCpuRenderLayer.cpp`, `CEFSyncCopyRenderLayer.cpp`, `RenderHost.cpp`).
Three ways from CEF's paint to the game's back buffer: a ring of shared textures with keyed mutexes,
an upload from memory with dirty rectangles, and a copy for which CEF's UI thread waits. Correct when
the game samples whole frames in order, no dirty pixel is lost, neither thread blocks the other for
ever.

**Callback storage** (`JS/JSFunctionStorage.cpp`). Admission, in-flight count, and a drain that must
not wait for its own callback.

**Public, View and render-layer APIs** (`Controllers/*APIController.cpp`). Reference counts per
browser name, names that are closing, views and their tokens, native surfaces; an admission lock around
everything and a fixed order of shutdown. Correct when a name never reaches a browser that is going
away and shutdown leaves no layer behind.

**Keyboard and mouse** (`Services/InputRouter.cpp`, `Hooks/InputDispatchHook.cpp`,
`Converters/KeyInputConverter.cpp`, `Common/InputDispatchFilter.h`, `CEF/DefaultBrowser.cpp`). State: what
is down in Chromium per browser, what the game believes down, the keys a focus session opened with.
Operations: route a batch, take or forward each event, release what a lost focus leaves down. Hard: the
press and the release of one key may meet two owners. Correct when game and page each see releases
exactly of what they saw pressed.

**Controller** (`Services/ControllerInputService.cpp`, `Input/Controller*.h`,
`CEF/ControllerBrowserInput.cpp`). State: the ledger of controls, an entry and a delivery epoch per view,
bounded queues of deliveries to CEF's thread, shortcuts waiting for a game task. Operations: configure,
page requests, register, route, reset a delivery. Every call leaves the service's mutex half way. Correct
when presses and releases pair on both sides, a press that opens a view never acts in it, and nothing of a
destroyed view stays behind.

**NIF previews and scenes** (`Controllers/Nif*APIController.cpp`, `Render/Nif*.cpp`,
`Render/SkyrimNifExtractor.cpp`, `Render/PackedGeometryDecoder.h`). State: per surface a requested
generation, what was handed over, a scene with its toggles, a camera and a status that three threads
write. Operations: load, replace, clear, toggle, pose; resolve records, demand models, extract, weight,
compose, draw. Hard: loads overtake each other and the render thread, and game data is malformed in many
ways. Correct when a stale load never replaces a newer one, and a scene is shown whole or not at all.

**Renderer process** (`CEFSubprocess/`). The promise registry, the function queue, the bindings, the
watch over the game process.

**Pure parts**: `Scheme/ModSchemePath.cpp`, `Menus/CompositorMath.h`, `Render/PackedGeometryDecoder.h`,
`Render/NifTexturePath.h`, `Controllers/NifModelPath.h`, `Controllers/NifArmorModelPath.h`,
`Input/InputPolicy.h`.

**Left out on purpose**: floating-point geometry, lighting and tints, conversions of values and key codes,
settings, hook installation, device creation, cursor drawing, demonstrations, build files.

### 1.3 How they meet

A consumer asks `PublicAPIController` for a browser; that builds a `CEFMenu` (layer) with its
`DefaultBrowser` and `MeridianCefClient`, and adds it to `RenderHost`. `CEFMenu::LoadBrowser` asks
`CEFService` to create the browser. CEF then calls the client on `TID_UI`; what passes the gate reaches
`DefaultBrowser`, which calls consumers, posts promise answers and bindings to the renderer process,
and talks to `FocusArbiter`. Paints go to the layer's renderer and, on the render thread, into the
frame. At the end `PublicAPIController` stops admitting calls, then `RenderHost`, the NIF controllers,
the View and render-layer controllers shut down, consumers are told, and `UIPlatformService::Shutdown`
closes all browsers with a ten-second limit and stops CEF only if they closed.

The hazards this leads to are listed in `PROJECT.json`, each at the line where it bites.

## 2. Modules and plan

| | module | models | abstract spec | proofs |
| --- | --- | --- | --- | --- |
| done | `CefLifecycle` | CEF service, client gate, menu's create/close, final drain | `BrowserDrain` | `CefLifecycle_proofs`: everything safe, and the refinement |
| done | `PromiseRouting` | promises in page, browser and consumer | – | `PromiseRouting_proofs`: answers and routes |
| done | `PageBindings` | the caches across page loads | – | `JsCallbacks_proofs`: everything safe |
| done | `FocusSession` | focus, menu, cursor, lease, movement mode | – | `FocusSession_proofs`: everything safe |
| done | `FrameTransport`, `CpuUpload`, `SyncCopy`, composed in `RenderLoop` | the three renderers under one present loop | the ring alone (`RingSpec`) | `RenderLoop_proofs`: everything safe |
| done | `JsCallbacks` | callback storage, dispatch mutex and owners of a menu | – | `JsCallbacks_proofs`: everything safe |
| done | `LayerList`, `BrowserHandles`, `Surfaces`, composed in `PlatformShutdown` | the list of layers, the books of the three API controllers, the platform's shutdown | – | `PlatformShutdown_proofs`: everything safe |
| done | `ControllerLedger` (pure), `ControllerInput` | controller: ledger, routing, deliveries, shortcuts | – | `FocusSession_proofs`: everything safe but `PageFollowsOwner` |
| done | `InputDispatch` | keyboard and mouse: a batch from the hook to game and Chromium | – | `InputDispatch_proofs`: everything safe |
| done | `NifLoads` | loads, clears and toggles of one surface over three threads | – | `NifPreviews_proofs`: everything safe |
| done | `ResourcePaths`, `NifRequests`, `PackedGeometry`, `NifMaterials`, `PreviewMesh` (pure), `NifExtraction`, composed in `NifPipeline` | one request from the mod's call to the scene on screen | – | `NifPreviews_proofs`: everything safe |
| left | the page's `meridian-input.js` as a receiver with state, the renderer's parent watch, the mod scheme | | | |

No module declares a RECURSIVE operator, so each can be proved about: the code's recursive walks are
stacks in a variable (`NifPipeline`), and its loops over lists are recursive functions on the places of
the list. Parameters are CONSTANTS with named assumptions; each operation is
one action; the `MC*` modules only give TLC values. Where two components share a module of proofs, one
of them gives its specification a name of its own: `PageInit`, `PageNext`, `PageSpec` in `PageBindings`,
`InputInit`, `InputNext`, `InputSpec` in `ControllerInput`; `PipelineInit`, `PipelineNext`, `PipelineSpec`
in `NifPipeline`.

A definition whose comment says "the fault ..." or "Mutant of ..." (for example `DrainInside` next to
`DrainBehind`), or that describes a component that forgets something (`TakeEveryRelease`), is not part of
the specification: it is the mistake that the property at stake would catch, kept beside the right version
and used to confirm that the property is able to fail.

## 3. What each module says, and how it maps to the code

`PROJECT.json`'s `map` names the lines behind every definition. What follows is what a reader needs to
follow them.

### 3.1 CefLifecycle and BrowserDrain

*State.* `state`, `pending`, `closeReq`, `registered`, `barrierPosted` are `CEFService`'s statics.
`quiesced`, `closeGate`, `held`, `closeOnce` are the client's and the browser object's flags. `cef` and
`barrierTask` are CEF's. `ui`/`uiClient` is the callback on the UI thread's stack, `at`/`on` the call
each thread is in.

*Actions.* A step is one critical section, one call into CEF outside them, or the wait for the dispatch
mutex. So `CreateBrowser`, `HostCreate`, `CreationRefused`, `PostAfterRefusal` are the four pieces of
`CEFService::CreateBrowser`; `BeforeClose`, `OnBrowserBeforeClose`, `PostFromCallback`,
`BeforeCloseReturn` those of the last callback of a browser. CEF may refuse a creation or a posted task.

*Abstract specification.* `BrowserDrain` knows browsers only as open or not and a phase. The refinement
(`Drain == INSTANCE ...`) maps "open" to "creation pending, or CEF may still call back".

*Simplifications.* Any consumer thread may create; the admission lock of the public API restricts this
further. `IsGameClosing` is not looked at. `CloseAllBrowsersAndWait` runs once
(`UIPlatformService::m_isShuttingDown.exchange`). Early returns for a wrong thread, and for calls in
phases in which nothing happens, change nothing and are no steps.

*Run `cef`*: two clients, one worker thread, the application thread, the UI thread. Two clients are
needed for "the last browser" to differ from "a browser"; one worker beside the application and the UI
thread gives the refused creation that races the drain. Deadlock is checked: `Rest` names the states in
which the program may stop.

*Fairness.* A thread inside a call goes on (weak). CEF finishes what it accepted and runs its queue in
order, so page messages cannot starve it (strong, for each kind of queued work). No fairness for new
calls, page messages, pages closing themselves, or the ten-second limit: `DrainReachesVerdict` therefore
says the drain itself ends, not that the limit rescues it.

### 3.2 PromiseRouting

A call is registered in the renderer (`MakeCall`), admitted through the gate and routed on `TID_UI`
(`AdmitCall`, `RouteCall`, `RejectUnbound`), settled by any author in three steps (`BeginSettle`,
`TakeRoute`, `Send`), and its result is taken or ignored in the renderer. The release of a browser shuts
the gate three times (`RemoveSubMenu`, the menu's destructor, `RequestClose`), and each round drops the
routes of a browser it still has. Ids are per process, so with two processes (`OneEach`) they collide.

*Assumed.* The release runs off `TID_UI`. The destructor's own, fourth round finds nothing the third
missed. A crashed renderer is not replaced: nothing in this code loads a page after a crash. Calls from
documents that are not trusted are dropped before anything happens, and are not modelled.

*Run `promise_own`*: two browsers, two calls, two authors, one process that may die, one release. Every
promise gets the first answer to its own call and is never left waiting once settled, and no route
outlives its browser. The last is checked with `Overlap = {}`: a browser does not close on its own during
its release (section 6 says what happens if it does).

*Fairness.* Messages sent are delivered, threads that have begun go on. Nobody need call, settle,
navigate or release.

### 3.3 PageBindings

Every operation is one section of `m_urlMutex`. The renderer commits documents and receives messages in
order; those on the way at a commit may be lost. `owed` is the history the property needs: what was
registered and not since removed or cleared. Callback identity and data, persistent scripts, event
functions and the cached focus are left out: none changes which cache a name is in. `Settled` is a page
whose load has ended and whose messages have arrived.

*Run `page_keep`*: two names, one of them a promise function, four calls, three documents. Three
documents are one more than a binding needs to be registered in one, re-sent in the next and lost in a
third. `Habits` says whether the consumer's loads clear and whether the page navigates by itself; the
run has either, and section 5 says what both together do.

### 3.4 FocusSession

*State.* The arbiter's three holders, and the three queues (`gameTasks`, `uiTasks`, `messages`) between
it and what the player sees (`menu`, `cursor`, `textEntries`, `running`). Two threads: the main thread,
which runs one call, task or message at a time, and the CEF thread.

*Actions.* A call is split where the code leaves a mutex: `Claim`, then `Granted` (reads the text state),
then `QueueTextInputDesired`. `HideMenu` lets the engine write any movement mode, as the comment at the
sink says it does. The engine may refuse a text-input lease.

*Assumed.* The browser's page is loaded. Setting the wish and queueing its task is one step: the tasks
are told apart by generation. The player cannot change the movement mode in a session. `late` records
that a session began before the one before had been wound up.

*Run `focus_keep`*: two browsers (symmetric), four calls; the properties speak of states at rest, with
every queue empty. Four calls are two sessions, or one session with an owner taking over and a text
field opening. The run has no fairness: the hide of the cursor is asked for by a hook that need not run,
so `ScreenFollowsOwner` says of the cursor only that it is never left hidden.

### 3.5 RenderLoop: FrameTransport, CpuUpload, SyncCopy

`RenderLoop` extends the three and lets one layer, of the renderer chosen at the start, go through
`RenderHost::OnPresent` step by step (`present`: Prepare, Draw, SpriteBatch End, AfterDraw) while CEF
paints and any thread shows, hides, resizes or removes the layer or shuts the host down. `OnPresent` works
on a snapshot of the list, so a layer already removed may be drawn once more.

*FrameTransport.* A section of `m_ringMutex` is one step; the copy is outside it, under the slot's keyed
mutex, whose driver side is external: it is acquired only by the key it was last released with, and a copy
between different sizes does nothing. A rebuild empties all slots and may fail at any of them.
*CpuUpload.* Tiles of the image stand for pixels; a dirty rectangle is the smallest interval that covers
the tiles; an epoch separates sizes and resets. *SyncCopy.* CEF's paint waits until its frame is consumed
or the layer or the game is closing.

*A rebuild that fails.* Nothing keeps a frame from coming in the size the ring had before, and it then
goes into slots that are half made. The history `halfUsed` records that it has happened; the properties of
the ring claim nothing from then on, and section 5 (item 7) says what happens.

*Run `frames`*: three slots (the code's `kSlotCount`), two sizes, four frames so that the ring wraps,
one failing rebuild; three tiles, so that a bounding interval covers a tile nobody painted; three paints
(full, partial in a snapshot, partial during the upload); three lent frames. The failing rebuild may be
followed by frames of either size.

*Fairness.* The game presents while it is not closing; a submission that is tried for ever succeeds
(strong: `SpriteBatch::End` does not throw every time); `OnAcceleratedPaint` polls every 10 ms; whoever
has begun to take a layer down goes on. Nobody need paint.

*Not modelled.* Loss of the device (rendering is then dead until a restart), the deferred-context
renderer, the second surface of a drop-down, z-order, resolution changes, saved device state.

### 3.6 JsCallbacks

*State.* Per browser: `funcs`, `drain`, `cleared`, `active` are `JSFunctionStorage`'s map, drain state,
flag and in-flight count, `quiesced` the client's flag, `holders` the owners of the `shared_ptr<CEFMenu>`
(the list of layers, the render thread's snapshot, a thread that took it off the list). Per thread: one
callback frame (`inside`, `fn`, `stage`) and one `BeginShutdown` (`at`, `on`). `fenced` is history.

*Actions.* A page message runs an inline function on `TID_UI` under the dispatch mutex, or queues a task
for the game thread (`Receive`, `StartTask`). `TryBegin`, `Lookup`, `Return` are the pieces of
`ExecuteAdmittedFunctionCallback`. A menu is shut down by whoever takes it off the list (`RemoveSubMenu`,
`Sweep`) and again by its destructor, on whichever thread drops the last reference (`DropReference`):
that may be the render thread. `BeginShutdown`, `PassGate`, `BeginDrain`, `FinishDrain`, `AwaitDrained`
are its sections and waits. A thread has at most one callback on its stack, so the depth is 0 or 1.
`OnCefBrowserBeforeClose` does not drain and is no step here.

*The consumers' discipline* `MayRelease` says from inside which callbacks which browsers may be released.
The author guide wants releases on the game thread; a function on CEF's thread may also close its own
browser. Without it two threads, each inside a callback of the browser the other releases, wait for one
another. `EveryShutdownReturns` therefore assumes it; the theorems and `CallbacksQuiet` do not need it.

*Run `callbacks`*: two browsers, so that a release can cross a callback; one inline and one queued
function; one waiting task; the bindings of one browser may change during the drain.

*Fairness.* A thread inside a callback or a shutdown goes on, and the render thread lets its snapshot go.
None for messages, tasks, releases.

### 3.7 PlatformShutdown: LayerList, BrowserHandles, Surfaces

*State.* `LayerList` is `RenderHost`'s list: `layers` by name, `running` the menus that were listed and
not shut down since, and each thread's frame (`frame`). `BrowserHandles` holds the books of
`PublicAPIController` (`refs`, `browser`, `closing`, its two locks) and `ViewAPIController` (names, views,
the releases deferred to a game task), `Surfaces` those of `RenderLayerAPIController`. A call that creates
something has a number, and menus and handles are known by it.

*Actions.* A step is one critical section or what lies between two. `AddOrGetBrowser` keeps both locks
while it builds a menu (`Acquire`, `Build`); a release erases the name, shuts the menu, and only then lets
the name be used again (`DropHandle`, `RemoveSubMenu`, `ForgetClosing`). `PlatformShutdown` composes the
three with `PublicAPIController::Shutdown`: gates, first sweep, views, surfaces, consumers' functions,
clearing, second and third sweep, in the code's order, while every other thread may be in any call. Each
thread may give `RegisterOnShutdown` a function; the histories `asked` and `told` say which were given and
how often each was called, on the list taken by the shutdown or at once by a caller that finds it over.

*Simplifications.* To shut one menu down is one step: what it waits for is `JsCallbacks` and `RenderLoop`.
The token of a view and the controller's initialisation are one step. Left out:
`m_initPlatformServiceMutex` (the platform is initialised), NIF controllers and input services, the drain
of CEF (`CefLifecycle`). Consumers release handles they were given, not those a view keeps. What a
consumer's shutdown function calls is what the other threads call meanwhile.

*Run `platform`*: the application thread, `TID_UI` and one worker; one plain name, one view, one surface;
three creating calls. Three calls put each kind in the way of the others, or one name through
create, release, create. Deadlock is checked.

### 3.8 ControllerInput and ControllerLedger

*State.* `ledger` is `ControllerState`: per control its raw value, whether it is blocked, seen by the
game or armed for the page, with owner and generation; its operations are the pure `ControllerLedger`.
`entries`, `shortcut`, `sequence` and the flags are `ControllerInputService`'s, `epoch`, `pending`,
`releaseQueued` and `tasks` are `ControllerDeliveryState` and the deliveries of `DefaultBrowser` on their
way to CEF's thread, `page` what `meridian-input.js` of each view has made of them. `phys` and `game`
are the device and the engine. `since` and `lost` are history.

*Actions.* Every call leaves the service's mutex half way, so a call is a program of steps, `todo[t]`:
its begin (`Configure`, `RegisterShortcut`, `PageRequest`, `DestroyView`, ...) looks views up without the
mutex and says what is left to do; `CallStep` does the next piece. The input thread routes a batch in
`Snapshot` (views and epochs), `Look` (who is eligible), `Decide` (the whole locked part of `Route`), and
then its deliveries one by one. Between any two of these another thread may configure, destroy, reload,
focus or release. `RunTask` is CEF's thread taking the oldest delivery, dropped if its epoch is old.

*Simplifications.* A view that is hidden counts as one without focus. Modifiers of the shortcut, dead
zones and repeat rates are left out; sticks are 0 or 1. The gameplay gate is open. Seeding at
`Initialize` is assumed done, `CefPostTask` does not fail. A packet and its receipt are one step, as are a
change of epoch and the release it posts. `DestroyView`'s deferred release is in `BrowserHandles`.

*Run `controller`*: an accept button, a toggle that is also the shortcut, a stick; two views, one in
cursor and one in navigation mode; a queue of two slots and packets of two events, so that both overflow.
`Mixes` bounds a behaviour to two calls, or one call and two batches, or three batches: a call between a
press and its release, and any two calls against each other, both happen.

### 3.9 NifLoads

*State.* `requested`, `status`, `pending`, `clearDue`, `toggles`, `camera`, `dirty`, `model`,
`visibility` are the members of `NifPreviewRenderer`; `next` the process-wide generation counter; `tasks`
and `task` the game's task queue; `prep` where `Prepare` is and what it took; `view` what the surface
shows. Three threads share them: mods' threads begin and clear, the game's task thread loads and submits,
the render thread prepares. `graphics` says whether the frames are drawn on the game's own device
(`gameDeviceNifRendering`, DXVK) or on the platform's and cross through a `FrameTransport`, and `lent`
whether that transport has given its one view away.

*Actions.* `TakesGeneration` and `BeginLoad` are separate, as in the code, so a generation is not the
order of the requests. `Prepare` takes what was handed over under its lock (`PrepareTakes`), checks,
builds and draws outside it, and meets the lock again for its toggles and its checks; the status is
stored without it. `PrepareShows` is `NativeSurfaceMenu::Prepare` after that: it asks for the view, and
shows the checkerboard if there is none. With a transport the view is what `ConsumeSRV` lends, which lends
one slot at a time; only the layers of pages give a slot back, so from the second present on there is no
view (section 5, item 9).

*Simplifications.* Failed stands for Unsupported. The size of the surface is only seen in `Prepare`'s
decision, where it may have changed at every present; a new size, whose ring cannot be built while a slot
is lent, may fail (`RenderFails`), as may any other step of drawing. The camera is one bit of
turn and one of zoom; `SetCamera`'s write and its flag are one step; `FrameModel` at the end of a build is
part of `BuildSucceeds`. The task interface is there. The interfaces shut down after the surface, as in `PublicAPIController::Shutdown`.
`raced` (Prepare stored its status over a newer request's) and `strays` (a toggle met another scene)
record the cases of section 6 and 5.1, which the other properties leave out.

*Run `nif`*: two threads load, one of them clears too, two loads, one object, two toggles, cameras or framings;
either device.
Two loads are enough for each of the five places a load can be in to be overtaken by the other.

*Fairness.* A call begun goes on, the game runs its tasks, the surface is presented, a shutdown begun
ends. Nobody has to call.

### 3.10 NifPipeline and its parts

`NifPipeline` takes one request from the mod's call to the screen, alone: `Ask`, `TaskResolves` (records
to parts), `TaskDemands`, `PrepareStarts`, `Collect` (transforms), `WalkStarts`, `Walk` (one object per
step), `PartExtracted` or a failure, `ComposeScene`, `Publish`. The parts are pure, one per file group:

- `ResourcePaths`: paths as sequences of components, with the code's checks and prefixes;
- `NifRequests`: what is refused at once, and what records resolve to (race, seen addons, blank models,
  texture swaps; biped slots, face and skin of an actor);
- `PackedGeometry`: what layout and buffer a piece may be read with, byte by byte;
- `NifMaterials`: material, override, and the texture cache with its key;
- `NifExtraction`: one shape, rigid or skinned, and what a visit adds;
- `PreviewMesh`: appending, weighting and composing meshes.

Vertices are where they come from (part, shape, piece, number), so that "draws its own geometry" can be
said; a read-back that fails is chosen per piece.

*Simplifications.* Positions, tints, bounds and the numbers in a material are left out; the limits (nodes,
depth, bones, vertices) are constants. `AppendMesh` is one step. `FailLoad` and the next `Prepare`'s
clearing are one step. `ReplaceArmorScene` passes no blocked biped slots. Null pointers and short
structures are not requests. Recursion is a stack.

*Run `geometry`*: two requests after each other, out of a couple of dozen: five that are good and others
that each go wrong in their own way, with limits just above the good ones. Two requests show that nothing
of the first is left in the second. One of the good models (`mixed`) has shapes that cannot be extracted
next to one that can; `leftOut` is the history of the shapes a request goes without.

### 3.11 InputDispatch

*State.* `cur` the devices, `batch` the events of a poll, `taken` those a browser consumed; `owner` and
`opening` the focus session with its opening keys; `pressed`, `last` the ledger of `KeyInputConverter`,
`inside` the flag `m_lastMouseInside`; `held` and `hover` what Chromium was told of keys and mouse, `game`
what the engine was told.

*Actions.* `Poll` is the hook at the head of a dispatch; then each event goes through `ProcessToggleKeys`,
the layers from the top (`Layer`, `ProcessEvent`), `ConsumeOpeningKeyRelease`, and at the end `Forward`
gives the engine what is left. A move of the mouse is sent (`ProcessEvent`) before the flag is written
(`NoteMouse`). `OnFocusRevoked` runs under no mutex and on whichever thread took the focus, so it is three
steps (`FocusRevoked`): the keys, the mouse if the flag says that it is inside, the flag. Between any two
of all these steps the CEF thread may go on with a change of focus, a crash or a close, the main thread with
the batch, and the application with a shutdown.

*Simplifications.* Gamepad events are in `ControllerInput`. Language switch, modifiers and layouts, the
wheel and other buttons, the visibility keys, the order of other sinks, `SetFocus` of Chromium and the
installation of the hooks are left out; the platform refuses to start without both layers of the hook
(`UIPlatformService.cpp:60`). A weak pointer to a live browser is valid.

*What the properties leave out.* `ChromiumKeysBalanced` makes no exception for a change of owner within a
dispatch, but for `strays`, what Chromium was told that no later loss of the focus is sure to undo: a press
sent after the browser has lost the focus, a repeat of a key no ledger has, and a mouse that moved in after
the loss or between the two looks that a loss under way takes at the flag (section 5, item 10).
`GameKeysReleased` leaves out what `raced` records, a change of owner by the CEF thread in a dispatch
(section 6).

*Run `input`*: two browsers, one with a focus key, an ordinary key, the mouse and its button; five events
in batches of two are press, toggle, toggle, release and one more; one act of the CEF thread, the window
or the shutdown.

## 4. What is checked and what is proved

| run | expects | properties |
| --- | --- | --- |
| `cef` | pass | `NoBrowserOutlivesDrain`, `BooksMatchCef`, `CallbackFence`, `ImplementsBrowserDrain`; live: `DrainReachesVerdict`, `CloseIsHonoured` |
| `promise_own` | pass | `AnswersMatch`, `NoRouteOutlivesBrowser`; live: `SettleReachesPage` |
| `page_keep` | pass | `BindingsSurvive`, `ScriptsRunInOrder` |
| `focus_keep` | pass | `ScreenFollowsOwner`, `LeaseBalanced`, `MovementModeKept` |
| `callbacks` | pass | `CallbacksQuiet`; live: `EveryShutdownReturns` |
| `platform` | pass | `HeldLayersLive`, `NamesComeBack`, `ShutdownLeavesNothing` |
| `frames` | pass | `SampledFrameIsWhole`, `HandoverNeverBlocks`, `ViewIsFresh`, `LentFrameIsAlive`; live: `EveryPaintReturns`, `PublishedFrameIsShown` |
| `controller` | pass | `GamePaired`, `PressIsFresh`, `PageFollowsOwner`, `NothingOfDeadViews` |
| `nif` | pass | `SettledScene`, `ViewTellsScene`, `ToggleKept`, `OrderKept`; live: `LoadAnswered` |
| `geometry` | pass | `WholeOrNothing`, `DrawsOwnGeometry`, `ShapesOnce`, `TexturesAsAsked` |
| `input` | pass | `ChromiumKeysBalanced`, `GameKeysReleased` |
| `nif_toggle` | violation | `ToggleSurvivesLoad`, section 5 |

Deadlock is left unchecked where the bounds on calls, frames and documents stop the model, which is where
the program merely waits for the next one. Each state module has a `TypeOK`; it is no property of a run,
because it says nothing about the program, but holds at the bounds of the runs, is a theorem where 4.1 and
4.3 say so, and is part of the invariants of the other proofs.

### 4.1 CefLifecycle_proofs

For any set of clients and of worker threads: `TypeCorrect`, `DrainIsComplete`, `BooksAgree`,
`OneBarrier`, `FenceHolds`, `HandleIsOpen`, and `Implements`: the service with its locks implements
`BrowserDrain`. Assumed: the named threads differ (`ThreadAssumption`).

The invariant is `IInv`. `NoBrowserOutlivesDrain` is not inductive: that nothing is left when the barrier
runs depends on the books being complete (`Books`: what CEF has done and which call is creating it decide
who is in them), on `OnBeforeClose` being on the stack exactly while a browser is being destroyed
(`Frames`), and on nothing being outstanding while a barrier is in flight (`Barrier`: otherwise a creation
admitted late would slip in behind it). `Drained` then follows when the barrier fires between callbacks.
`Fence` adds that a closing thread has quiesced its client before it waits: this is why the callback it
waits for is the last. There is one lemma per group of actions; the refinement reuses `IInv`.

### 4.2 RenderLoop_proofs

`LayerUsesRing` shows first that every behaviour of the whole loop is one of the ring alone
(`Spec => RingSpec`): presents, removals and the other renderers are stutters or ring steps. The rest is
then proved of the ring, for any number of slots from three, any sizes, frames and failures:
`SamplesWholeFrames`, `NeverBlocks`, `DrawsInOrder`, each until a frame has gone into a ring that a failed
rebuild left half made (`halfUsed`; the code does not rule it out, section 5, item 7).

The invariant is `RingInv`: the slot being written is neither published nor held (`Apart`, whose
preservation is `FreeSlotExists`: with three slots one is always free), the key of each slot follows from
where the two sides are (`Keys`), what is published or held is whole and what is being copied is torn
(`Contents`), and the published frame is no older than the one on the screen (`Order`). `Sound` is the
part that stops at `halfUsed`: before it, a ring that is not whole is unpublished, unread and unused until
it is rebuilt.

`LentFrameLives`: a frame being copied is alive, whichever way layer and game close. The invariant ties
the frame's state to the call that waits.

`DrawsFreshImage` (`ViewIsFresh`): for any number of tiles, sizes, paints and pop-ups. The property is not
inductive: that a tile of the texture is current says nothing of a snapshot taken before the last paint.
`CpuInv` adds that there is one snapshot at a time, between the halves of a `Prepare` (`OneUpdate`); that
texture, snapshot and image are of epochs in this order, and of one size if of one epoch (`Epochs`); and
that each tile is in the texture, in the snapshot or waiting, a snapshot's pixels being the image's unless
the tile waits again (`Accounted`). It needs nothing of the ring.

### 4.3 JsCallbacks_proofs

For any browsers and functions, any discipline of releases, any bound on the task queue, given that the
three threads differ (`CallbackAssumption`): `TypeCorrect`, `QuietAfterShutdown`, `NoDrainForgotten`.

The invariant is `IInv`. The type alone is not inductive, for `active` must not be decremented at 0: `Counts`
equates it with the number of threads inside. `CallbacksQuiet` then needs that whoever returns from
`BeginShutdown` knows that others are out: the owner of the drain has waited for that, a later caller finds
`drained`, and a caller inside its own callback finds `draining`. In the last case the drain's owner may
still be waiting. `Owners` rules this out: a browser is shut down by one thread at a time, so the owner
has returned before (`DrainIsOwned`), and then the only threads inside are those already fenced.

### 4.4 NifPreviews_proofs: loads

`ScenesFollowRequests` (`OrderKept`): for any callers, loads, objects and scenes, the scenes a surface
builds follow the order in which their loads were begun. Assumed: `BoundsAssumption`, `OffersAssumption`.

`OrderKept` alone is not inductive: nothing in it says that what `Prepare` holds was not built before.
The invariant adds that a load is in one place at a time (`OnePlace`: with its caller, in the queue,
with the game's task, handed over, taken by `Prepare`), that it was begun once (`Begun`), that what is
on its way is not what was built last (`NotBuilt`), and that what is being built was begun after all
that was built before (`Chosen`). The requested load is the one begun last, so everything built before
was begun before it. Generations are compared only for equality, as in the code: their order carries
nothing.

`SettlesOnLastScene`, `ViewIsOfScene`, `TogglesSurvive` (`SettledScene`, `ViewTellsScene`, `ToggleKept`) speak of
a surface at rest, and so need an invariant of the surface at work: `SInv`, on top of the first one. A
status Loading has its load on the way (`Coming`, `Answered`); a scene other than the requested one has a
clear or its successor ahead (`Replaced`), also when it is still being built; a clear is never due while
the requested load is on its way (`Handover`), so it cannot take the new scene; what was drawn last is
the scene unless a frame is due (`FrameTells`), and the view is that frame, or the checkerboard if the
transport's view is lent, unless a `Prepare` is due (`ViewTells`); the last toggle of an object is queued, in `Prepare`'s hands for this generation, or applied
(`Toggles`). The last is what the putting back of a toggle that found no scene has to keep.

### 4.5 NifPreviews_proofs: geometry

`ReadsInBounds`, `StreamReadsInBounds`: for any descriptor, buffer length and number of vertices, what
`DecodePackedGeometry` accepts it reads within the buffer; with tangents that includes the byte of the
normal, three past its offset. The argument is the arithmetic of `LayoutIsValid`: each attribute ends
within the stride, and the vertices' strides within the bytes.

`AppendedIsSound`, `AppendedShowsTheSame`: for sound meshes of any size, `AppendMesh` leaves every index
naming a vertex and every draw its own indices, and each draw of either mesh shows, corner by corner, the
vertices it did before.

`PipelineInvariant` and what follows from it, `PipelineShowsEveryPart`, `EveryDrawShowsItsOwn`,
`ShapesAreExtractedOnce`, `EveryTextureIsAsAsked` (`EveryPartShows`, the first half of `WholeOrNothing`;
`DrawsOwnGeometry`, `ShapesOnce`, `TexturesAsAsked`): for any requests and records, any graph of objects
(shared children and cycles included), any shapes, materials, overrides and files, any limits, and any
read-back that fails. The second half, that every shape of a part is shown whole or was counted as skipped,
is only model-checked.

None of the four is inductive: each speaks of the scene on screen, which says nothing of how it came to
be. `PipelineInv` follows a request from the call to the screen:

- `Accepted`: what is worked on was accepted, and `parts` is what it resolves to, a list of models and
  actors that is not empty. That each way of resolving gives such a list is a lemma of its own
  (`ArmorsKeep`, `RootsAreListed`);
- `PartByPart`: the meshes so far are those of the parts before the one in hand, in their order, each
  with its object and visibility, drawing only pieces of shapes under its own roots (`UnderPart`), none
  of them twice (`Honest`); `HalfDone` says the same of a low endpoint whose high one is being extracted;
- `Collecting`, `Walking`: the objects that have a transform have their children on the stack or already
  done, so that all that is walked has one; what was visited has been drawn or counted, and lies under
  the part. The high endpoint of a weighted model is walked too, but nothing of it is drawn, so of its
  objects no more than that is said;
- `Drawable`: what is on screen draws pieces, each once, each draw with the textures its material asks
  for; `Shows`: a scene that is Ready is composed of all parts, and one that failed is none.

What a step does to a mesh is said once, by `AppendedFollows`: behind a mesh that draws pieces of one set
of parts, shapes and pieces, a mesh of a disjoint set leaves both honest. It is used for a piece behind
the pieces of its shape, a shape behind the shapes of its part and a part behind the parts before it. Of
the texture cache it is enough that what it holds is what would be read (`IsTrue`): the key tells the
colour space and the dimension, so a hit is what a miss would have given.

Each recursive function of the model (`Picked`, `AppendAddons`, `AppendResolvedArmorParts`, `Partitions`,
`LoadTextures`, `BuildMeshResources`, `ComposeScene`, `Reach`) is unfolded by a lemma that gives it a value
at every place (`PickOnFold` to `DescendFold`); an induction over those places is over a concrete set of
numbers (`Upwards`).

Assumed: `RequestsAssumption`, `RecordsAssumption` (a request names its kind, and lists are lists),
`FilesAssumption` (no file has the empty path), `GraphAssumption` (there are finitely many objects, and the
children of one are objects), `ShapesAssumption` (the pieces of a shape and their indices are lists, and a
shape without skin is one piece).

### 4.6 InputDispatch_proofs

`GameGetsReleases` (`GameKeysReleased`): for any browsers, toggle keys, keys, batches and number of events
(`InputAssumption`). The property speaks of rest; a dispatch has to be followed event by event. `IInv`
says of every key the game holds that it is still down or that its release is in the batch (`Answered`),
that this release is taken by nobody because it is the session's opening key or was passed without a
session (`Spared`), that a session leaves the game no new press (`Withheld`), and that the owner is not
missed on the way through the layers (`Offering`). `Polled` is what makes one release per key enough.

`ChromiumGetsReleases` (`ChromiumKeysBalanced`), for the same parameters: `BInv` ties the keys Chromium was
told of to the converter's ledger (`Told`) and the page's mouse to the flag (`Inside`), both apart from
`strays`. It says that only the owner's ledger, or that of a browser whose `OnFocusRevoked` is still to do
its part, has keys or the mouse (`Ledgers`, `Inside`), that a key in the owner's ledger is down or its
release has yet to be offered (`Down`), and that the reset of the flag forgets no mouse but one that is
about to be noted (`Forgets`). A ledger is emptied without telling Chromium only when the CEF browser is
gone (`Gone`). Nothing is asked of `raced`: the CEF thread may change the owner at any point.

### 4.7 PromiseRouting_proofs

`AnswersAreOwn` (`AnswersMatch`): for any browsers, any assignment of browsers to renderer processes, any
calls and authors. A result names a process and an id, never a call, and processes die and pages leave
while it travels. `IInv` says that a call which exists has an id its process gave to no other, dead or not
(`Numbers`: the counter only grows); that it is in one inbox, once, or on the UI thread, before it has a
resolver (`Inboxes`, `Fresh`); that the first author is decided once and is the one who is in `Settle`
(`Settlers`); so that a result on its way is one of a settled call (`Delivery`), which its process and id
determine. Assumed: the parties differ (`PartiesAssumption`, `NobodyAssumption`).

`RoutesEndWithBrowser` (`NoRouteOutlivesBrowser`), given `Overlap = {}` as in the run: section 6 says what
happens otherwise. The second round of a release finds the gate shut and no call in dispatch, so what it
drops does not come back (`Gates`, `Routes`); a browser closed before its release is dropped in
`OnCefBrowserBeforeClose`.

### 4.8 FocusSession_proofs

`MenuFollowsFocus`, `LeaseIsBalanced`, `ModeIsKept` (`ScreenFollowsOwner`, `LeaseBalanced`, `MovementModeKept`):
for any browsers and any number of calls (`FocusAssumption`). All three speak of states at rest; between
them lie three queues and two threads.

- *Menu.* `Screen`: the command queued last, looked for among the UI tasks, then the menu's messages, then
  in the menu itself, is to open exactly if there is an owner. `Alternate`: while no browser has been
  destroyed, open and close take turns in the queues, so each open finds its own session's way of pausing
  (`Pausing`). `Cursor`: without an owner a hidden cursor has a task coming that shows it.
- *Lease.* `Lease`: the engine's count is what the lease has applied, up to the call the game's task is in.
  Applied and no longer desired, it has a task coming whose generation is still current, so it is undone.
- *Movement mode.* A session is active exactly if owned (`Active`). While no session began too early
  (`late`), `WInv`: the menu is opened once a session (`Once`), and a session whose menu is or will be open
  has captured the player's mode and keeps the focus or leaves its ticket (`Ticket`); during the teardown,
  which may write any mode, the ticket is there and nobody has the focus (`Torn`); a restore in the queue is
  the last session's, with the player's mode (`Restored`); so any other mode is about to be restored
  (`Mode`).

The model has many steps and each conjunct cares about few: each step is first put into one of a few
classes by what it does to the menu and the mode (`Class`: opens, closes, passes a message, restores, or is
quiet), and each conjunct is shown to survive each class.

### 4.9 PlatformShutdown_proofs

`HeldIsLive`, `NamesAreReturned`, `NothingIsLeft` (`HeldLayersLive`, `NamesComeBack`, `ShutdownLeavesNothing`):
for any number of threads, calls, names and consumers' functions, given that the threads differ, the kinds
of names are disjoint and `None` is none of them (`NamesAssumption`). None of the three is inductive: the first two stop at the
shutdown, the last two say something of rest only, and what lies between is any number of half-done calls.

- *Always* (`Throughout`). Who builds a browser has both locks and a free name (`Locks`); only the
  application thread shuts down, and how far it is follows from its frame (`MainIs`). A layer that runs is
  listed or in the hands of a thread that goes to shut it (`Hands`): this makes the last sweep enough. What
  each part of the shutdown has emptied stays empty (`Ended`), because gates are closed before it; a call
  that finds its gate closed gives back its name itself (`Reserved`). A function that was given waits, is
in the shutdown's hands or has been called, one of the three and once (`Notified`). The number of a call that has made
  nothing yet names nothing (`Fresh`), so what it makes is not confused with what is there.
- *Until views are closed* (`ViewBook`). A view owns its handle: it is in the book of browsers, and no
  release of it is in a call or a task; so does the thread that is about to enter one.
- *Until the shutdown begins* (`Book`). A listed layer runs, under one name, and is in nobody's hands but
  the ones that take it off the list under that name (`Named`). A name without handles has no layer,
  listed or running, unless one thread is ending its browser, and then the name is closing (`Browsers`:
  this is why the next browser of a name does not meet the last). A surface's name belongs to a surface or
  to one thread that makes or unmakes it (`SurfaceBook`).

That `~publicClosing` is what the second and third part hang on is itself a finding about the code: after
the first sweep the books of views and surfaces name layers that are no longer there, and only the closing
of those books in turn makes the state orderly again (section 5, item 6).

Each way an action can end has a lemma with one step for each part.

### 4.10 JsCallbacks_proofs: PageBindings

`FunctionsReachThePage` (`BindingsSurvive`) and `ScriptsRunInCallOrder` (`ScriptsRunInOrder`): for any
names, promise functions, calls, documents and messages on their way (`BindingsAssumption`).

- *Bindings.* The property speaks of a settled page, and most behaviours never settle for long. `KInv`
  follows a name through the caches: what is owed is stored or waits, what waits for removal is neither
  (`Books`: this is why `AddFunctionCallback` takes an earlier removal back); nothing waits while a page
  is loaded (`Emptied`); and once a load has been told of, every stored name is bound in the document or on
  its way with no removal behind it (`Sent`, `Will`). `ApartAssumption`, a hypothesis of this theorem, is
  what the run's `Habits` say: no behaviour mixes clearing loads with navigations of the page's own. With
  it a document that clears is one that the consumer asked for (`Stages`), so what it clears is not owed
  any more. Without it the property is false: section 5, item 3.
- *Scripts.* `SInv`: the numbers of the scripts grow from those that ran, over those on their way, to those
  that wait (`Ordered`), and none is greater than the calls made (`Scheduled`). No hypothesis is needed:
  a commit empties `ran` and may lose the channel, which keeps both.

### 4.11 FocusSession_proofs: ControllerInput

`GameIsPaired`, `PressesAreFresh`, `DeadViewsAreForgotten` (`GamePaired`, `PressIsFresh`,
`NothingOfDeadViews`): for any finite sets of controls and views, any threads, roles, limits and number of
batches (`LedgerAssumption`, `InputAssumption`; finite, because a batch lists its controls).

- *Batches* (`PInv`). Between batches the ledger holds what the device held when the last one was routed,
  a control that the game believes down is down in it, and a control that is held and not blocked was
  pressed in the ledger's generation (`Device`). A batch answers its events one after the other, and each
  may change the ledger, the mode and the packet. `Goes` says what holds of a batch that has gone through
  some of its controls: for those the ledger holds what the device holds now, a control consumed although
  the game believes it down is still down, presses in the packet are of this generation; for the others it
  is as before. `OneEvent` is one step, `AllEvents` the whole list. `SetOwner` begins a new generation and
  blocks what is held, so that a press older than the owner is never in the packet (`Owning`).
- *Destroyed views* (`VInv`). A call looks its view up, may lose it, and then puts an entry or a shortcut
  in. `Shape`: such a step stands at the head of its program with the second look behind it. `Covered`: if
  something is left of a view that is gone, the next step of some thread, a reset perhaps before it, is to
  forget that view; `ForgetView` leaves nothing. `Silenced`: after the shutdown nothing can be put in. The
  second look that forgets nothing (`StaysAnyway`) breaks exactly `Covered`.

The induction over the events is over a concrete recursive function (`AfterEvents`), not over a scheme: the
number of events for which the claim fails would have a least member (`Upwards`, from
`NatLessThanWellFounded`), and the one before it is contradicted by `OneEvent`.

### 4.12 Only model-checked

Every liveness property: fairness and ENABLED are beyond the prover.

`PageFollowsOwner` of ControllerInput: it needs, for each view, that the packet the page will have received
last tells it where it stands, over every delivery that may be on its way, invalidated, refused by a full
queue or overtaken by a reset between two critical sections. The invariant relates the entry's `dirty`, the
delivery's epoch, the order of the tasks and the program of each thread; the run checks the property, the
invariant has not been worked out.

## 5. Promises the code does not keep

The first is a run that TLC ends with a counterexample. The others are stated in their modules and refuted
by TLC when the constants of the module's run are changed as said (and the definition is the INVARIANT).

1. A toggle made while a scene is being replaced by one with the same object is applied to the old scene
   and lost for the new one, although the comment at `NifPreviewRenderer.cpp:571` says that the intent is
   preserved until the object arrives (`:561`, `:566`). Run `nif_toggle`, `ToggleSurvivesLoad`.
2. A URL asked for before the first page has loaded stays in the cache for good (`DefaultBrowser.cpp:691`
   against `docs/MeridianUI-AuthorGuide.md:281`, "replay it at the next load"). `PageBindings`,
   `CachedUrlIsLoaded`.
3. The flag of a clearing load outlives it, and a later navigation by the page clears bindings registered
   since (`DefaultBrowser.cpp:690` against `MeridianUIAPI/IBrowser.h:16`). `PageBindings`,
   `BindingsSurvive` with `Habits <- Together`.
4. A session that begins while the previous one is being wound up loses the player's movement mode
   (`FocusSessionState.h:30` against `README.md:94`). `FocusSession`, `MovementModeRestored` with
   `Browsers = {b1}`.
5. The text-input lease can be taken after the focus has gone (`FocusArbiter.cpp:111`). `FocusSession`,
   `LeaseHasOwner`.
6. The shutdown takes browsers down before it calls the functions that tell consumers to stop using them
   (`PublicAPIController.cpp:129` against `MeridianUIAPI/API.h:64`). `PlatformShutdown`, `UsableUntilTold`
   with `Workers = {}`, `PlainNames = {p}`, no views or surfaces, `MaxCalls = 1`.
7. After a rebuild that failed half way a frame of the old size uses the half-made ring
   (`FrameTransport.cpp:62` against `CEFRingRenderLayer.h:11`). `EverySampledFrameIsWhole` of
   `FrameTransport`, in `RenderLoop` with the constants of `frames`; `MaxFrames = 3`, `ImageSizes = {"small"}`, `TileCount = 1`,
   `MaxPaints = 0`, `MaxLent = 0` suffice.
8. The controller's mouse button stays down in Chromium when its release is merged into a release task
   queued in front of the press (`ControllerBrowserInput.cpp:65` against
   `docs/MeridianInput-AuthorGuide.md:145`, "one balanced CEF mouse sequence"). `ControllerInput`,
   `PointerReleased` with `Controls = {a, t}`, `Sticks = {}`, `Views = {v1}`, `Starts <- PointerStarts`,
   `Mixes <- PointerMixes`.
9. A scene drawn through a `FrameTransport` (every device but DXVK outside Wine, `RenderHost.cpp:105`) is on
   screen for one present. `ConsumeSRV` lends a slot and gives no other while it is out
   (`FrameTransport.cpp:260`); only `CEFRingRenderLayer::AfterDraw` gives one back, so at the next present
   `GetSurfaceView` is null although the status is Ready, and `NativeSurfaceMenu::Prepare` shows the
   checkerboard (`NativeSurfaceMenu.cpp:106`) for good. `docs/testing/MERIDIAN_NIF_VIEW_1_RUNTIME_GATE.md:59`
   says that the mesh replaces the checkerboard. The lent slot also keeps the ring from being built for
   another size (`FrameTransport.cpp:36`), which fails a Ready scene. `NifLoads`, `ViewTellsEveryScene`
   with the constants of `nif_toggle`.
10. A page that lost the focus may keep a key or the mouse, although `OnFocusRevoked` is there to balance
   them ("Chromium must see balancing key-ups while it still owns focus", `DefaultBrowser.cpp:546`): it reads
   the flag of the mouse, tells Chromium and resets the flag in three places (550, 552, 560), under no
   mutex. A claim and a move of the mouse on the main thread in between leave Chromium with the mouse in a
   page whose flag says that it is not; the next loss does not tell it. So do a press and a move that are
   sent after the focus was lost in the middle of a batch. `InputDispatch`, `NoStraysEither` with the
   constants of `input`.
11. An armor model with shapes that cannot be used, next to one that can, is shown without them and the
   request is Ready (`SkyrimNifExtractor.cpp:846`, `:941`); `docs/MeridianView-AuthorGuide.md:386` says that a
   missing, malformed or unsupported model fails the request rather than give an incomplete outfit.
   `NifPipeline`, `OutfitIsComplete` with the constants of `geometry`: the armor "rags" with the model
   `mixed`. `WholeOrNothing` says what the code does keep: the shapes that are missing are those its
   extraction counted as skipped, and none is missing by half.

## 6. Seen while modelling, not among the runs

*Browsers and focus*

- a browser that closes on its own during its release keeps a route that nothing drops
  (`DefaultBrowser.cpp:411`); it leaks, no wrong answer follows. `PromiseRouting` shows it with
  `Overlap = {b1}`;
- two releases that cross, each from a callback on another thread of the browser the other releases,
  wait for each other: `JsCallbacks` with such a `MayRelease`;
- a view destroyed from inside a listener gives its name back before the deferred release runs, so a new
  view of the same name gets the old browser and its page (`ViewAPIController.cpp:470`);
- `CreateView` uses the browser after the locks of `AddOrGetBrowser` are gone
  (`ViewAPIController.cpp:110`);
- a function removed during a load stays bound in the page (`DefaultBrowser.cpp:799`); after a renderer
  crash `LoadBrowserURL` only caches (`DefaultBrowser.cpp:165`); a focus grant can reach CEF after the
  release (`FocusArbiter.cpp:110`); the movement-mode restore checks and writes in two steps
  (`FocusArbiter.cpp:196`);
- a copy that fails in `CEFSyncCopyRenderLayer` loses its dirty region; a dropped frame of a new size is
  not asked for again (`FrameTransport.cpp:199`).

*Keyboard, mouse and controller*

- `README.md:80` promises balanced key releases on closure and shutdown, but `BeginShutdown` stores
  `m_shutdownStarted` before it gives the focus up (`DefaultBrowser.cpp:404`), so `SendKeyEventIfAlive`
  (`:324`) drops the releases; only a page that is going away would have seen them;
- `OnFocusRevoked` on the CEF thread after a re-claim takes Chromium's focus from the
  owner;
- a mouse button pressed in the page and released outside it is not released in Chromium; one held when
  the focus was granted and released inside the page is not released for the game;
- a `Configure` that overtakes a batch can leave a page believing itself active; a full delivery queue
  loses the packet that would have told it otherwise; `ToggleCursor` captures accept even when it is not
  held, which swallows the next one (`ControllerInputService.cpp:443`).

*NIF*

- a `Clear` or a failure that comes while `Prepare` extracts is overwritten by its Ready
  (`NifPreviewRenderer.cpp:520`): the resources go at the next `Prepare`, nothing is drawn any more, and
  the last frame stays on screen (`raced` in `NifLoads`); a toggle put back after a newer `BeginLoad`
  waits for an object that may never come;
- a live actor's roots are read at the present, not in the task, and roots that have gone are
  skipped;
- `ApplyTextureOverride` replaces the normal map and leaves `modelSpaceNormal`; a packed tangent is read
  with a byte of the normal even if there is no normal (it is within the buffer, `ReadsInBounds`); the
  endpoints of a weight are matched by topology alone; a read-back that fails for one endpoint only makes
  the request Unsupported.

## 7. Not modelled and why

The CEF app and its command line, settings, hook installation and the plugin's entry, the demonstrations
and the build run once or keep no state of their own. Device creation, the drawn cursor and everything
Direct3D does with a draw are external. The conversion of values between V8 and CEF, key codes and
layouts, and the log are data without control. The mod scheme is a pure path check behind one file
read, and the renderer's parent watch one loop over one handle: both could be added without touching the
rest. The page's `meridian-input.js` is modelled only as far as it decides which packets are current.
