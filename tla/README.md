# Formal model of OpenRCT2: multiplayer sessions, background work and the way of a frame to the screen

This directory holds TLA+ models of the parts of OpenRCT2 whose correctness depends on the order in which
machines, threads and packets act. TLC checks them on small instances, TLAPS proves some of their properties for
every instance. Paths below are relative to `src/src/openrct2/` unless they start with `src/`.

    tlasany M.tla                         parse
    tlc -workers 2 -config X.cfg MCM.tla  check a run
    tlapm M.tla                           check the proofs of a module

`PROJECT.json` lists the components, the runs with their properties, a mutation of the code for each property that
must break it, the source lines behind each definition, the hazards and the theorems.

## 1. Inventory

### The core

OpenRCT2 is a deterministic simulation. A multiplayer session replicates it by *lockstep*: nothing of the park is
sent while playing, only ticks and the game actions to execute at them. Everything that changes the park runs on
one thread per machine; what is concurrent is the set of machines and their packets, and, inside a machine, a pool
of worker threads that the tick and the publication of frames use.

| component | state | operations | talks to |
|---|---|---|---|
| lockstep (`GameState.cpp`, `actions/GameActionRunner.cpp`, `network/NetworkBase.cpp`) | current tick, `gGamePaused`, action queue; client: `_serverState`, `_serverTickData`; host: connections | `gameStateTick`, `gameStateUpdateLogic`, `ProcessQueue`, `Network::Tick`, handlers of TICK, GAME_ACTION, MAP, BEGINMAP, MAPREQUEST, OBJECTS_LIST | packets over TCP; game actions change the park |
| player list (`NetworkBase.cpp`, `network/NetworkPlayer.cpp`) | `player_list`, `_pendingPlayerLists`, `_playerListInvalidated`, connections that are to go | `AddPlayer`, `RemovePlayer`, `KickPlayer`, `PostTick`, `ProcessPlayerList`, PLAYERLIST handler | actions name their author by player id |
| pickup (`actions/peep/PeepPickupAction.cpp`, `entity/Peep.cpp`, `src/openrct2-ui/windows/Guest.cpp`) | the peep's state, `pickupPeep` of a player, the tool of a machine's UI | pickup, place, cancel; `ToolSet`, `ToolCancel`, callbacks | lockstep orders the actions, lists replace players |
| job pool (`core/JobPool.cpp`) | `_pending` by priority, `_processing`, `_completed`, task groups, `nextIndex` of a loop, `_shouldStop` | `AddTask`, `Wait`, `Join`, `ParallelFor`, `ProcessQueue`, destructor | simulation, presentation, object loading |
| background worker (`core/BackgroundWorker.hpp`) | `_jobs`, `_pending`, the flags `_stopSource`, `_valid`, `_completed` of a job | `addJob`, `dispatchCompleted`, `cancel`, `shutdown` | windows, once a frame |
| object downloader (`src/openrct2-ui/windows/ObjectDownloader.cpp`, `ObjectLoadError.cpp`) | `_entries`, `_currentDownloadIndex`, `_requestJob`, `_activeDownloader`, status box | `Begin`, `Cancel`, `Update`, completions of the two requests | HTTP, background worker |
| frame mailbox and render worker (`src/openrct2-renderer/gpu/GpuFrameMailbox.h`, `src/openrct2-ui/drawing/engines/vulkan/VulkanDrawingEngine.cpp`) | `_newest`, `_stopping`, `_workerError`, requests of a packet | `BeginDraw`, `EndDraw`, `Screenshot`, `DrainFrameTimings`, `StopRenderWorker`, `RenderWorkerMain` | main thread, GPU backend, sprite atlas |
| sprite atlas cache (`src/openrct2-renderer/gpu/GpuTextureCache.cpp`) | allocations, pins, pending uploads, residency of sealed frames, leases | load, bind, evict, `InvalidateImage`, `SealFrame`, `AbortFrame`, `RetireFrame`, leases | painting, terrain catalog, render worker |
| offscreen rendering (`drawing/RenderService.cpp`) | a scene and its pixels | render a map to an image | job pool |
| presentation snapshots (`drawing/PresentationScene.cpp`) | immutable generations | publish from a job | job pool, mailbox |
| path topology cache (`world/MapTopology.cpp`, `MapPathTopology.cpp`, `MapPathRouteCache.cpp`) | chunks, generations of a chunk and its neighbours | query, invalidate, rebuild | guests, map edits |
| connections (`network/NetworkConnection.cpp`, `Socket.cpp`) | `_inboundBuffer`, `_outboundBuffer` | `queuePacket` (front or back), `SendQueuedData`, `readPacket` | lockstep |
| handshake (`network/NetworkBase.cpp`, `NetworkConnection.cpp`) | `authStatus` and `shouldDisconnect` of both ends, `player_id`, `_clientMapLoaded` | TOKEN, AUTH, OBJECTSLIST, MAP handlers; accept, kick, close, timeout | player list |

The remaining parts (rides, guests, map, finance, objects, park files, scripting, windows, audio, platform, ...)
are listed in `PROJECT.json` with the reason why each is not modelled: they are sequential parts of one
deterministic update, which the lockstep model represents by one step, or input and output.

### What is hard

* A frame of a client finds any prefix of what was sent: a tick, its actions, a pause and a map fall into one frame
  or several. The order of polling, updating and executing differs between a running and a paused frame.
* The map a client gets was saved while actions for it were already on their way behind it.
* Player ids are reused while actions and lists that use them are under way; a list must take effect at its tick.
* That a peep is carried is kept in three places with different lifetimes: park, player list, tool of a UI.
* Loops capture the caller's stack: an exception, a retired task or a late worker must not outlive the call. Join
  sleeps on a condition on the whole pool, Wait on one of its group; both may be changed by other callers.
* A job of the background worker may be cancelled while it is queued, works, is ready, or has been collected behind
  the completion that cancels it. The completions run without the lock and may add and cancel jobs.
* A request of a batch that was aborted, replaced or whose window was closed is still on the worker while the next
  batch runs, and comes back among its answers.
* A sprite's pixels are uploaded with the first frame that draws it, but that frame may be replaced by a newer one before it
  is taken, skipped because the swapchain is busy, or lost with the renderer. Meanwhile others are recorded that draw
  the sprite as well, images are replaced, surfaces evict each other and slots are used again.
* The render worker may fail at any point of a frame, with the main thread waiting for an answer that rides on that
  frame or on the one behind it.
* Both ends of a connection judge a packet by an `authStatus` of their own; either may break off between any two
  packets, before a player exists and after he is gone.

### What makes the components correct

| component | property |
|---|---|
| lockstep | a client's simulation is the host's at an earlier moment; it never passes the host; no action comes too late; no desync alarm without a desync; a client that stays catches up |
| player list | an action finds its author, on every machine; a client ends each tick with the list the host ended it with |
| pickup | simulations agree on who is in the air, and on who carries whom; nobody is put down that the host has in the air; whoever is in the air can be put down |
| job pool | indices run exactly once; no task outlives its call; exceptions reach the call they belong to and no other; calls return; destruction leaves nothing behind |
| background worker | a job that is not cancelled is answered, and once; every job is forgotten in the end by list, queue, threads and batch; `shutdown` returns |
| object downloader | an answer is taken only for what was asked last; no request goes on that nobody waits for; a batch never stands still, and ends; a status box has a download |
| sprite atlas cache | a presented frame samples the pixels it was recorded with, or newer ones of the same image, never what the slot held before |
| frame mailbox and render worker | each sealed frame gives back what it pinned, once; a screenshot is not older than what it was asked for; who waits for the worker is answered |
| handshake | nothing that needs authentication is dropped or gets a client thrown out; a client knows its own id; whoever connects plays, is refused or asked; seats become free |
| connections | packets arrive whole and in order (they do not: see `stream_split`) |

## 2. Modules

| module | what it is |
|---|---|
| `SimLog` | abstract: a server with a history of steps, replicas that hold a prefix of it |
| `Lockstep` | the session: frames, packets, queue, pauses, joining |
| `LockstepProofs` | types, that no client passes the server, and that a session paused at most once implements `SimLog` |
| `Players` | player ids, lists and authors of actions |
| `PlayersProofs` | types, that the lists are in step, and that authors are known until the first pause |
| `Pickup` | carrying peeps |
| `PickupProofs` | types, that the simulations agree on who is in the air and who carries whom, and that carried peeps have a carrier |
| `JobPool` | the pool, its producers, batchers and destructor |
| `JobPoolProofs` | types, counters, lifetime of captures, every index once, exceptions, the end of the pool |
| `BackgroundWorker` | cancellable jobs, their completions on the main thread, shutdown |
| `BackgroundWorkerProofs` | types, no job lost, none run or answered twice |
| `ObjectDownloader` | the download window on top of an instance of `BackgroundWorker` |
| `ObjectDownloaderProofs` | types; answers are current, no request is forgotten, batches go on |
| `Handshake` | both ends of each connection from connect to the loaded map or to the end |
| `HandshakeProofs` | types, nothing before authentication, clients know themselves |
| `Stream` | the bytes of one connection, in one direction |
| `TextureCache` | the slots of the sprite atlas and what the frames under way hold of them |
| `FramePresentation` | extends it by the mailbox, the render worker, requests, and the GPU's atlas and canvas |
| `FramePresentationProofs` | what each operation of the cache keeps; types, frames accounted once, screenshots, and that what is presented is what was drawn |
| `MC...` | instances for TLC: symmetry, loops, logins |

### Lockstep

`pc[m]` is where the thread of machine `m` is in `gameStateTick`: between two frames (`"frame"`, where the UI
issues actions), in `Network::Tick` (`"poll"`, one handler at a time) or in `ProcessQueue` (`"queue"`, one action
at a time). `left` counts the updates the frame still makes. A frame is

| code | action |
|---|---|
| `gameStateTick`: number of updates, paused branch | `BeginFrame`, `NumUpdates`, `Stopped` |
| a frame that makes no update returns | `EndIdlePoll` |
| `gameStateUpdateLogic` on the host: send TICK, update | `UpdateHost` |
| the same on a client: nothing if the server is no further, else check the checksum and update | `SkipUpdate`, `UpdateClient`; `UpdateOldPark` while it waits for its map |
| `ProcessQueue`, one queued action; its end | `Execute`, `EndQueue` |
| packet handlers | `Handle...` |
| `GameActions::Execute` of a player | `HostIssues`, `ClientIssues` |
| the ride window pausing for a track design | `ToggleTrackSave` |
| connection authenticated, connection lost | `Join`, `Leave` |

The park is the sequence `log` of the steps that led to it: updates and executed actions. Two machines agree if
they took the same steps in the same order, and the checksum of a TICK is the log it was taken of. An action is a
model value in one of three sets, by what a paused game does with it. `Sim` maps the host's `log` to `SimLog`'s
history and each client's to its replica; `SimSpec` says that each step of the session is a step of the abstract
one or changes neither.

### Players

The frame is split at the calls whose order matters: an update polls, runs the queue, then `PostTick`; a paused
frame runs `PostTick`, then the queue, then polls. What the host sends waits in `outbox` until a flush. An element of
`Client` is one connection; whoever comes back is another one, so that an id changes hands. `sent` records the
host's list at the end of each tick for the property `ListsInStep`. A machine whose connection has gone is cleared
(`Closed`, the code's `Close`): it takes no further part.

### Pickup

Lockstep is taken for granted here: clients execute what the host executed, in its order. `park`, `holds`/`known`,
`tool`, `open` and `clicked` are the peep's state, `pickupPeep`/`pickupPeepOldX`, the active tool, the windows of peeps and
their `_pickedPeepX`. Players click as the windows let them (`ClickPickup`, `ClickPark`, `ClickAway`, `CloseWindow`, `OpenWindow`):
also on a peep that is in the air, their own or another's, and before earlier clicks have come back.
`HostExecutes` and `ClientExecutes` are a whole execution: the action, `CancelConcurrentPickups`,
`ToolCancel` with the cancel it sends, and the callback on the machine that issued it. `HostRefuses` is an action
that the host's query or execution turns down (a placement, for instance, on a tile that is not free).

Four variables are history, which only properties read. `renewed`: the list of players has changed since the session began.
`cleared`: machines on which `CancelConcurrentPickups` has cleared its player's entry. `stranded`: peeps the host has put back,
by a cancel or another pickup, without a place to put them to. `crossed`: a player has gone after a peep another one was
after, or has clicked ahead of the answers to his own clicks.

### JobPool

An action is what a thread does between taking and releasing one of the mutexes, and the notification right after.
A thread that waits on a condition variable sleeps until somebody notifies it and then tests again, so that a
missing notification shows. Tasks of one owner are alike and are kept as counts. Producers call `ParallelFor` or
fill a group and wait for it; batchers use `AddTask` with completions and `Join`; the owner destroys the pool.

### BackgroundWorker

The two threads go through `Worker(w)` of the code (`TakeJob`, `SkipCancelled`, `StartWork`, `FinishWork`, `Sleep`), an action per
critical section or access to an atomic flag. The main thread is in a frame, in `dispatchCompleted` (`Collect`, then
for each collected job `Answer`/`Answered` or `PassOver`, then `EndDispatch`) or in `shutdown`. While a completion
runs (`main = "completion"`) it adds and cancels jobs as a frame does. `answers` counts calls of a completion.

### ObjectDownloader

`Bg == INSTANCE BackgroundWorker` is the worker below: every step of this module is a step of `Bg` or leaves it alone. Where `Bg` lets the main thread run code, the controller acts: `Begin`, `NextDownload`,
`EndBatch`, `RefreshStatus` from the window's update; `LinkFound`, `RequestFailed`, `ObjectInstalled` as the completion between `Bg!Answer` and
`Bg!Answered`; `CloseWindow`, `Reinitialise`, `CloseStatusBox` from the user. `asked[j]` records what a job was asked for, so
that `AnswersAreCurrent` and `NoRequestForgotten` can compare it with what the controller waits for.

### Handshake

For each client: `sAuth`, `sStop`, `player` on the server, `cAuth`, `cStop`, `cId`, `dialog`, `mapLoaded` on the client, and
the packets between them in both directions. The handlers are `ServerHandle...` and `ClientHandle...`, one packet each;
a second AUTH of an admitted client is read without effect (`Judges`), and a packet that needs authentication ends a connection
that lacks it (`ServerHandleSession`). `Drop` is the removal of a connection in `ProcessDisconnectedClients`, `Kick` a kick by a player or the host, `KickCrashes` the kick while some connection has no player
yet, which the code does not survive (`network/NetworkBase.cpp:938`): the model ends the host there. What is on the way
when an end gives up may be lost; nothing is reordered or repeated, as TCP has it.

### Stream

Packets are rows of cells, a send takes any number of them. The reader finds a packet's length in its first cell. Something
in that place which is not a header is a packet of the old format or malformed.

### TextureCache and FramePresentation

`TextureCache` has the variables and operations of the code's class of that name, each operation a formula that
`FramePresentation` places in a step of the main thread. An allocation is one use of a slot and is known by its place in
`alloc`; `retiring` are those that wait for their pins, `residency[n]` is the token that the frame sealed as the `n`th leaves
behind, `assets[l]` what the catalog's `l`th lease holds. Only the recording thread changes the cache; the worker queues
`retirements` and `dropped` leases, which the next `BeginFrame` applies (`DrainFrames`, `DrainLeases`, two critical sections).

`ui` is where the main thread is: between frames, in the parts of `BeginDraw`, recording (`Paint`, `UseCatalog`,
`RebuildCatalog`, `Replace`), waiting for an answer, or stopping the worker. `worker` goes through `RenderWorkerMain`: take the
newest packet, begin (or `skips`), `Submit` (uploads reach `atlas`), `Present` (the frame becomes the `canvas`), `Retire`,
`CompleteBoundary`, `CompleteReadback`, `Recycle`; `Fail` may replace any call of the backend and leads through `Abandon`,
`StoreWorkerError` and `StopMailbox` to the end of the thread. The threads test what they wait for under the lock and each change of it
is followed by a notification, so a wait is a guard. `BeginDraw` may happen whenever the main thread is between frames:
the frame loop asks `CanBeginFrame` first, the drawing of progress does not. Each entry of `draws` carries `since`, the picture the
image had when the frame first used it, for `PresentedAsDrawn` only. `Publish` hands the waiting requests of the packet it
replaces on to its own; with one main thread, which waits for its answer, there never are any.

## 3. Runs

| run | instance | what it shows |
|---|---|---|
| `lockstep_follows` | a client, an action of each kind, speed 2, the host stops without clients | `TypeOK`, `SimSpec`, `NoFalseDesync`, `NoActionBehindTick`: the client replays the host through joining, lag, a pause and catching up, and no action comes too late |
| `lockstep_live` | a toggle, track design saving at any moment, fair | `CatchesUp` |
| `lockstep_resume` | two toggles and an action | *violation* of `ReplicaFollowsServer`: a paused client that finds the resume and a later action of the tick in one poll executes both before an update the host made between them |
| `players_session` | two connections, three ids, four ticks | `TypeOK`, `AuthorKnown`, `ListsInStep` |
| `players_paused` | the same with actions *and* pauses in one session | *violation* of `AuthorKnown`: a paused frame of the host drops a player before it executes the action that arrived with it |
| `pickup_carry` | two clients and the host, two peeps, up to four clicks and joins in any order, leaves, lists | `TypeOK`, `SimulationsAgree`, `CarriersAgree`, `NobodyPutDownEarly`, `NoPeepLeftInTheAir` |
| `pool_calls` | two workers, a producer, a batcher, the owner, exceptions, fair | `TypeOK`, `NoIndexTwice`, `EveryIndexRuns`, `ErrorsStayAtHome`, `CapturesOutliveTasks`, `NothingLeftAtStop`, `EveryCallReturns`: a missing notification would break the last |
| `worker_jobs` | two threads, three jobs, cancels anywhere, shutdown, fair | `TypeOK`, `NothingLost`, `OnceEach`, `EveryJobEnds`, `ShutdownReturns` |
| `download_batches` | two batches of one or two objects, five requests, fair | `TypeOK`, `AnswersAreCurrent`, `NoRequestForgotten`, `BatchNeverStalls`, `EveryBatchEnds` |
| `handshake_joins` | two clients at a server with a password, one trouble, fair | `TypeOK`, `AuthFirst`, `ClientKnowsItself`, `Settles`, `SeatsAreFreed` |
| `frames_presented` | an image that is replaced and in the catalog, two text surfaces that share a place, two frames, fair | `TypeOK`, `PresentedAsDrawn`, `FramesAreAccounted`, `CaptureIsCurrent`, `WaitsEnd` |
| `stream_split` | a packet too large for one send, another, and a ping | *violation* of `PacketsArriveWhole`: a ping goes to the front of the buffer, before the rest of a packet that is partly sent (`network/NetworkConnection.cpp:193`) |

The violations quote the line of the repository they disagree with under `findings`.

Some properties hold under a condition that a parameter of the model expresses, and fail without it; the runs that
pass set it, and these settings reproduce what happens otherwise:

* `MaySaveTrack = TRUE` breaks `ReplicaFollowsServer`: the scenery selection of a track design pauses the updates of
  one machine of the session but not its queue (`src/openrct2-ui/windows/Ride.cpp:5762`). `lockstep_live` runs
  with it: clients catch up nevertheless; and `ClientsStayBehind`, which does not restrict it, says that no action comes too late.
* More than one `TogglePause` together with a `Setting` breaks `NoFalseDesync`: a paused host repeats the checksum
  of its tick, a client keeps the first, and actions of the pause change the state (`network/NetworkBase.cpp:3142`).
  `lockstep_follows` has one toggle, so its host pauses and does not resume.
* `MapAlone = TRUE` breaks `NoActionBehindTick`, and with it the assertion at `actions/GameActionRunner.cpp:108`, and
  `NeverAheadOfServer` (`GameState.cpp:313`): a map that is the last packet a poll finds leaves the client past the
  server tick it knows; it runs ahead and then gets an action of a past tick. `FALSE` states that a poll that finds a
  map finds the tick behind it, which every theorem about `Lockstep` but `TypeCorrect` assumes.
* `NumIds = MaxPlayers` with an invisible host breaks `ClientKnowsItself` and `Settles`: `AddPlayer` finds no id for a client
  that has been admitted (`network/NetworkBase.cpp:2207`).
* `Mixed = TRUE` with a paused *client* breaks `AuthorKnown` in the same way as on the host: it installs the list
  without a player before it executes that player's action (`network/NetworkBase.cpp:1903`). `players_session` therefore has
  sessions with actions and sessions with pauses.
* `Toggles = 3` (with `Mixed = FALSE`, one client, `MaxActions = 0`, `MaxTick = 3`, `MaxInFlight = 4`) breaks `AuthorKnown`
  without any action of a player. A paused frame of the host executes a resume and then, in its `Network::Tick`,
  admits a client; the next update's poll sends the map before the client's first list, and a third toggle executed in that
  update reaches the client ahead of the list too. `AuthorsAreKnown` and `BeforeAnyPause` (section 4) therefore
  stop at the first toggle.

The properties of `Pickup` need no parameter, but stop at an event of the session. Each of these events is reached in
`pickup_carry`, and without the condition the property fails there:

* Once a list is sent again (`renewed`) `SimulationsAgree` and `CarriersAgree` no longer hold: `Player::read` leaves `pickupPeep` null, so
  a client does not put down the peep that the host does (`network/NetworkBase.cpp:2035`). `NobodyPutDownEarly` says
  what remains true.
* Once a concurrent pickup is cancelled (`cleared`) `SimulationsAgree` no longer holds. `CancelConcurrentPickups` clears the entry of its
  own machine only, to keep the cancel from moving the peep (`actions/peep/PeepPickupAction.cpp:201`); the host executes
  that cancel with the entry still set. Which of the machines then puts which peep back may differ. `CarriersAgree` says
  that the entries of everybody else are not touched by it.
* `NobodyPutDownEarly` stops when players get in each other's way or ahead of themselves (`crossed`). If a list has made a client
  forget a carry, the next pickup of the same peep by the same player is a put-back for the host and a pickup for the client, and the
  one after that the reverse.
* `NoPeepLeftInTheAir` leaves out peeps in `stranded`. One player is enough: with a peep in hand, two more clicks on its button
  before the first of them has come back put it back and then, as the tool is set a second time, send a cancel whose
  `_pickedPeepX` was read from a peep in the air (`src/openrct2-ui/windows/Guest.cpp:650`). The second pickup is executed before that cancel, which then
  has no place to put the peep to: it stays in the air and nobody carries it. Once the tool is put away, another pickup and a placement end that.
  No document of the repository says anything about it.
* It also stops when somebody leaves: the host cancels in its own name (`network/NetworkBase.cpp:2165`), so that the peep the
  player carried stays in the air.

### Bounds

* *Lockstep.* `MaxTick` stops the host, `MaxInFlight` lets it start a frame only while fewer packets are on
  their way; a client may lag by all of them. `CatchUpLimit` 2 and `HistoryLimit` 3 stand for 10 and 100: small
  enough that a client meets both. Clients interact only through the host's queue, and the proofs are for any
  number of them, so that the runs have one. Each command is issued once.
* *Players.* Four ticks are the least for a list of a later tick to reach a client that has not finished an earlier
  one while an id changes hands. `MaxInFlight` 1 keeps the host from running ahead of undelivered packets; what a
  client has received and not yet executed is bounded only by `MaxTick`. Three ids serve host and two connections. The
  proofs are for any number of each.
* *Pickup.* Four clicks, joins included. Three players can be after one peep, or each after two; one player can pick up, pick
  up again twice and put down. Every exception above takes at most four. With one client, five clicks were checked too; the proofs are
  for any number of players, peeps and clicks.
* *JobPool.* A loop of three indices in batches of two has a short last batch and more runners than batches; a
  group of two tasks lets one fail while the other is queued. One producer and one batcher are enough for a worker to
  serve a group whose caller is not the one that wakes it; the proofs are for any number of them.
* *BackgroundWorker.* Three jobs: one that works, one behind it in the queue or in the batch, and one that a completion
  adds. Two threads are what the code has.
* *ObjectDownloader.* Five requests let a batch be replaced while its request is on the worker, and the next one go
  through both stages of both of its entries.
* *Handshake.* Two clients compete for one seat (`MaxPlayers` counts a visible host). Each may end once in every way
  the code has without trouble; one trouble is a broken connection, a kick or somebody leaving at any moment. `MaxSends` is
  one packet of the session from anybody. All clients come with a good key; of the refusals the wrong password
  and the full server show.
* *Stream.* The ping has to meet one packet of which a part has been sent.

* *FramePresentation.* Two frames: the first may be superseded, skipped, lost or still under way when the second is recorded and
  relies on its uploads. Three allocations in two slots, so that a slot is used again; one place for text surfaces (`MaxSurfaces`,
  256 in the code), so that one evicts the other. Two leases: the catalog's is made anew once after its image was replaced. One
  request, for a screenshot or for the end of the work. A replacement of an image without an allocation changes
  nothing and is left out.

### Fairness

* `Lockstep`: weak fairness of every thread's frame and update (a process is scheduled), strong fairness of a
  packet's handling (TCP delivers; polls come and go, so that handling is enabled again and again). Players are never
  obliged to act and a connection may be lost at any time.
* `JobPool`: weak fairness of each thread's steps: the scheduler runs every thread, and work ends. Nobody is
  obliged to call the pool or to destroy it.
* `BackgroundWorker`, `ObjectDownloader`: weak fairness of the threads (work returns; an HTTP request ends, at the latest
  with an error) and of the dispatch, strong fairness of the window's update, as each frame has both.
* `Handshake`: weak fairness of accepting, reading and dropping at both ends; an end that is gone is noticed (the
  socket reports it or the timeout strikes). Nobody has to connect, send, kick, close or answer the dialog.

* `FramePresentation`: weak fairness of the render worker (it runs, and calls of the backend return) and of the main
  thread's waking up once what it waits for has come. Nobody has to draw, ask or stop.

## 4. Proofs

`LockstepProofs`, for any sets of clients and commands and any bounds:

* `TypeCorrect`: `Spec => []TypeOK`.
* `ClientsStayBehind`: `~MapAlone => (Spec => [](LockstepInv /\ NoActionBehindTick /\ NeverAheadOfServer))`. Neither
  property is inductive alone: what makes an action come in time is the order in the channel. `LockstepInv` adds
  that the ticked packets of a channel are in tick order, that none is older than the tick the client was told or
  has loaded, nor newer than the host's, that a map is announced by BEGINMAP, which empties the queue, and that a client in
  mid-update has been told of a later tick. `HostStepSafe`, `ClientFrameSafe`, `ClientHandlesSafe` and `PlayerSafe` prove
  that the steps keep it; the channel lemmas (`AppendKeeps`, `TailKeeps`, ...) say what sending and receiving do.
* `SessionIsConsistent`: `~MapAlone => (Spec => []LockstepInv)`, the invariant itself, which no run checks.
* `SessionImplementsSimLog`, `ClientsFollow`, `AlarmsAreTrue`: under `~MapAlone` and `PausedOnce`, `Spec` implies `SimSpec`,
  `[]ReplicaFollowsServer` and `[]NoFalseDesync`. `PausedOnce` is `~MaySaveTrack` and at most one `TogglePause`: the
  setting of `lockstep_follows`. Without it the three are false, as section 3 says: `lockstep_resume` shows what a resume
  does, and the repeated checksum of a pause is a false alarm. Clients, builds, settings, the speed, the limits,
  the lag and the order of joins and losses of connection are arbitrary.

  That a client's simulation is a prefix of the host's is far from inductive: the next step of a client must be the host's, so
  the invariant says what is still to come. `FollowInv` has four parts. *The host* (`HostLog`): it updates each tick once, in
  order, and executes each command once; `Once` says why, a command is with one player, in one channel, in the queue or done.
  *What waits* (`Follows`): for a client, the actions in its queue and in its channel (`Waiting`) are exactly the actions
  of the host's log behind the client's own, in the same order (`Ordered`), each under the tick of the updates around it
  (`Timed`), the missing updates are those from the client's tick on (`UpdatesFit`), and nothing is updated or built behind
  the pause (`PauseIsLast`, `PausedRightly`). `FollowsHost` says so of every loaded client and of every map on its way,
  against what is behind the map. *Joining* (`JoinsOnce`): object list, request and map follow each other, so BEGINMAP never empties the
  queue of a loaded client. *Checksums* (`ChecksumsFit`): each one stored or on its way is of the host's state before the
  update of its tick.

  The proof has two layers. `HostUpdates`, `HostRuns`, `HostPauses`, `HostClocks` and their counterparts `ClientUpdates`,
  `ClientRuns`, `ClientPauses`, `ClientClocks` say of any two simulations and any set of items what a step of one
  of them does to `Follows`; the two about a client's log also yield that its step is the host's. The `Waiting...` lemmas say what
  moving the channel does. Above it one lemma per action (`...Followed`) shows `FollowInv'`, and `StepIsAbstract` maps the
  action to `Advance`, `Follow`, `Load`, `Drop` or a stutter. Actions in which one client takes part share
  `OthersFollow`, those of the host `ReplicasSent`.

`PlayersProofs`, for any connections, ids and bounds:

* `TypeCorrect`.
* `ListsAreSynchronized` (`Spec => []ListsInv`, which no run checks) and from it `ClientsHaveTheList` (`Spec => ListsInStep`), with joins, leaves,
  kicks and pauses at any time. What a client's list will be at the end of a tick depends on what it has, on the lists that are pending and on
  those in its channel and the host's outbox; `Fits` says that the latest of them due by then (`LatestIs`) is what the
  host had or, for the ticks not over yet, has, unless the host is about to send a new one. A connection asks for
  one map only (`OneRequest`), so a second one never overwrites a list, and whoever is connected is in the host's list (`HostFits`).
* `BeforeAnyPause` (`Spec => [](toggled = 0 => AuthorKnown)`) and `AuthorsAreKnown` (`Toggles = 0` implies `Spec => []AuthorKnown`), from
  `UntilToggled`: `ListsInv`, and `RunInv` as long as nobody has paused. Every frame is an update then. An action names an author that is
  in the host's list at the end of the tick before the one the host executes it in (`Meant`), the same list that the executing machine has installed last
  (`ParkFits`). The rest says why a client gets there: a map finds the lists of the ticks before its own, installed or before it
  (`MapFits`); the queue is in tick order and BEGINMAP empties it (`QueueFits`); a connection says nothing before its first list
  is on the way (`SeatFits`).

`ListsInv` and `RunInv` were checked by TLC with the bounds of `players_session` and its neighbours before they were proved.

`JobPoolProofs`, for any number of workers, producers, batchers, tasks and any loops:

* `CountersAreRight`: `Spec => []PoolInv` (proved only). A group's `Remaining` is the number of its tasks that are queued, held by a
  worker, just retired by the caller or about to be queued; `_processing` is the number of busy workers.
* `TypeCorrect`: in particular no counter is decremented below zero, which follows from the counts.
* `CapturesAreSafe`: `Spec => []CapturesOutliveTasks`: an idle producer has `Remaining` 0, so nothing of it is left.
* `EachIndexOnce`: `Spec => []NoIndexTwice`, from: everything claimed or run lies below `nextIndex`, and the claims of two
  threads are disjoint.
* `LoopsAreComplete`: `Spec => []EveryIndexRuns`. By `CoverInv`, unless something threw, each index below `nextIndex` has run or
  is held by a thread; so `nextIndex` must have got to the count. A loop that the caller works on ends because the caller itself claims
  until it has; for one that only workers run, `ReachInv` counts: `nextIndex`, and a chunk for every task that has still to be added or
  to claim, together reach the count, and at the return no such task is left.
* `ErrorsReachTheirCaller`: `Spec => []ErrorsStayAtHome`. By `ErrorInv`: a call has thrown exactly if its caller or its group has the
  exception or a worker is about to hand it over, and the same of the batch with whoever holds `_batchMutex`.
* `NothingIsLeftBehind`: `Spec => []NothingLeftAtStop`. By `StopInv`: the destructor begins when producers and batchers
  are idle, and from the end of its join on nothing is queued, run or completed.

`BackgroundWorkerProofs`, for any number of threads and jobs:

* `TypeCorrect`, `JobsAreKept` (`NothingLost`) and `JobsRunOnce` (`OnceEach`), all from
  `WorkerInv`: a job that is known and neither cancelled nor done with is queued, held by exactly one thread, or
  complete, and a collected job has been answered at most by the completion that is running.

`ObjectDownloaderProofs`, for any number of entries and batches:

* `AnswersCome` (`AnswersAreCurrent`), `RequestsAreKept` (`NoRequestForgotten`), `BatchesGoOn` (`BatchNeverStalls`), `BoxIsCurrent`
  (`BoxBelongsToDownload`, proved only): from `ControllerInv`, which adds that every job but the last request of a running batch is
  cancelled or answered. The lemma `KeptStep` shows that each step below is one of the worker's specification, so that the worker's
  invariants can be used.
* `TypeCorrect`: the controller's types (`ControllerType`) are kept together with `ControllerInv`, which says of an answer that
  arrives that a batch waits for it.

`HandshakeProofs`, for any set of clients, credentials and bounds:

* `TypeCorrect`.
* `AuthorizedFirst`: `Spec => []AuthFirst`. By `ExchangeInv`: of the exchange at most one packet is on the way at a time, in one
  of the two directions, and what both ends have noted tells which; the server sends nothing that needs
  authentication before the reply that admits.
* `PlayersKnowThemselves`: `MaxPlayers < NumIds => (Spec => []ClientKnowsItself)`. By `KnowInv`: the reply on the way carries
  the id of the player; counting the players shows that an id is free when a client is admitted.

`PickupProofs`, for any number of clients, peeps and clicks, in any order and with any joins and leaves:

* `TypeCorrect`.
* `NobodyLeftInTheAir` (`NoPeepLeftInTheAir`). What the host executes is taken apart by the lemmas about `Outcome`: a peep that an
  owner's entry lets go of is on the ground, or has been recorded in `stranded`.
* `ParksAgree` (`SimulationsAgree`) and `EntriesAgree` (`CarriersAgree`), from `FollowInv`. `After` is what an action makes of a machine's park and
  list as a function of both, without the tool, the callback and concurrent pickups (`OutcomeFollows` says that a machine that
  clears nothing does just that). `Runs` says that the actions of a sequence take one value to another. The invariant: as long as the first
  list holds, the actions on the way to a client take its park and list (`View`) to the host's if nothing has been cleared (`ViewsRun`), and
  each player's entry at the client to that at the host whatever has been cleared, unless it is the client's own or the host's (`EntriesRun`).
  `RunsAppend` and `RunsTail` are the steps of the host and of the client. The per-player part is an invariant of its own because
  a cleared entry changes what later actions of its owner do to the park, but not what they do to anybody's entry.

`FramePresentationProofs`, for any textures, slots, numbers of frames, leases, requests and replacements:

* `CacheInv` (one lemma per operation of the cache): pins count the frames and leases that hold an allocation, what is pinned is
  live, a slot has one live allocation, what retires has pins left, a texture's place is its one live allocation that does not
  retire, and what a frame draws is no older than what it has drawn.
* `TypeCorrect` and `EveryFrameIsAccounted` (`FramesAreAccounted`), from `Base`: `CacheInv`, where the tokens of sealed frames
  are (`Once`), what each stage of the two threads leaves behind (`Stages`), and that a lease has a holder or is queued (`LeasesHeld`).
* `ScreenshotsAreCurrent` (`CaptureIsCurrent`), from `RequestInv`: a request is on one packet at most, and that packet's frame, or the
  canvas once it is presented, is no older than what the screenshot wants.
* `FramesShowWhatWasDrawn` (`PresentedAsDrawn`), from `FlightInv` and `ReadyInv`. `ReadyInv`: what a frame may sample is in the GPU's
  atlas or still waits for a frame to carry it. `FlightInv`: what a packet samples is pinned by its token or lease, and is among
  its own uploads or in the atlas; and what a presented frame uploaded is there as long as it lives. Only the three together
  are inductive: `Submit` overwrites slots, and no slot that matters is lost because whatever is held is live (`Base`) and live
  allocations have slots of their own.


Only model-checked: `AuthorKnown` in a session with a pause and a resume, as in `players_session`, which has players' actions or
pauses, not both; `BeforeAnyPause` covers it up to the pause. `NobodyPutDownEarly`, which needs to follow a carry through lists, actions under
way and the clicks behind them. Liveness
(`CatchesUp`, `EveryCallReturns`, `EveryJobEnds`, `ShutdownReturns`, `EveryBatchEnds`, `Settles`, `SeatsAreFreed`, `WaitsEnd`) is out of
the prover's reach and stays with TLC.

## 5. Not modelled, and the plan

Inside the modelled parts: for `Lockstep` the handshake is one step (`Join`), which `Handshake` takes apart; maps always load; reconnecting and loading another park
during a session are left out; a lost connection is noticed at any later moment instead of after a timeout; integers
have no width. Replay of actions and `PLAYERINFO` change nothing the properties are about.
The cheat that lets a paused game accept building (`actions/GameActionRunner.cpp:160`) is left out: what a pause accepts depends on the kind of
the action alone. `Players` has more behaviours than the code: a machine may poll between the `PostTick` of its last update and its first
paused frame, and a pause executes every action. In `Handshake` the client's map always loads (`network/NetworkBase.cpp:2871`). In `Pickup` the
permissions of a group do not change, so that no cancel is refused.

For `FramePresentation`: what a change of size, palette or HDR does to the backend, the diagnostics of frames, the second allocation
of a sprite with zero pixels, and decoding. A worker that fails while nobody waits is noticed by the next `BeginDraw`; but the frame loop asks
`CanBeginFrame` first, and that is false for good once the mailbox has stopped (`src/openrct2-renderer/gpu/GpuFrameMailbox.h:291`), so
that it neither draws nor reports the error. No document promises otherwise, so this is a hazard without a property.

The modelled code is a small share of the repository. Most of the rest is data and sequential computation without a
protocol: track paint code and vehicle tables, importers, generated and vendored sources, windows' layout. The update of the park
is a deterministic function that the lockstep model represents by one step; modelling its parts (rides, guests, peep
pathfinding, finance) as state machines would add cases but no interleaving.

In the order of importance:

1. Presentation snapshots (`drawing/PresentationScene.cpp`): generations published from a job while the simulation goes on.
2. `PathTopology`: generations of chunks and neighbours against edits and rebuilds.
3. `Lockstep` with reconnecting from the toolbar and with another park loaded by the host, the two hazards of stale session state.
4. Offscreen rendering on the job pool.
5. Theorems: `AuthorKnown` behind a pause and its resume, with the condition that nobody joins in between.
