------------------------------ MODULE Lockstep ------------------------------
(***************************************************************************)
(* The multiplayer lockstep of OpenRCT2: a host and its clients each run   *)
(* the same simulation, and the host tells the clients which tick to run   *)
(* to and which game actions to execute at which tick.                     *)
(*                                                                         *)
(* Every machine runs one thread, whose frame is gameStateTick             *)
(* (GameState.cpp).  pc is the place of the thread in that frame:          *)
(*   "frame"  between two calls of gameStateTick, where the UI runs;       *)
(*   "poll"   in Network::Tick, handling the packets that have arrived;    *)
(*   "queue"  in GameActions::ProcessQueue.                                *)
(* left is the number of gameStateUpdateLogic calls the frame still has to *)
(* make, 0 in a frame that makes none (paused, or nothing to catch up).    *)
(*                                                                         *)
(* The state of a simulation is the sequence log of the steps it executed  *)
(* that change the park: logical updates and game actions, but not pauses, *)
(* which are in paused and saving.                                         *)
(* A connection is two FIFO channels (TCP); the authentication handshake   *)
(* before the object list is one step, Join.                               *)
(***************************************************************************)
EXTENDS Integers, Sequences, FiniteSets

CONSTANTS
  Client,        \* machines that may join the host's session
  Host,          \* the machine that runs the server
  Build,         \* game actions a paused game refuses
  Setting,       \* game actions with Flags::AllowWhilePaused
  TogglePause,   \* PauseToggleAction, also allowed while paused
  Speed,         \* GetGameSpeedMultiplier on the host
  CatchUpLimit,  \* updates per frame of a client that is behind (10 in the code)
  HistoryLimit,  \* entries of _serverTickData (100 in the code)
  PauseServerIfNoClients,   \* config, effective on a headless host
  MaySaveTrack,  \* may a player open the scenery selection of a track design?
  MapAlone,      \* may MAP be the last packet a client finds in a Network::Tick?
  MaxTick,       \* bound: the host starts no update in a frame past this tick
  MaxInFlight    \* bound: the host starts a frame only below this backlog

Machine == Client \union {Host}
Command == Build \union Setting \union TogglePause

ASSUME MachineAssumption == Host \notin Client
ASSUME BoundAssumption ==
  /\ Speed \in Nat \ {0}
  /\ CatchUpLimit \in Nat \ {0}
  /\ HistoryLimit \in Nat \ {0}
  /\ MaxTick \in Nat
  /\ MaxInFlight \in Nat \ {0}
ASSUME SwitchAssumption ==
  {PauseServerIfNoClients, MaySaveTrack, MapAlone} \subseteq BOOLEAN

VARIABLES
  pc,          \* place of each machine's thread
  left,        \* updates left in its frame
  tick,        \* gameState.currentTicks
  paused,      \* GAME_PAUSED_NORMAL
  saving,      \* GAME_PAUSED_SAVING_TRACK
  log,         \* the steps its simulation executed
  queue,       \* _actionQueue
  nextUid,     \* _nextUniqueId
  conn,        \* client: "none", "joining" (map awaited) or "loaded"
  serverTick,  \* client: _serverState.tick
  tickData,    \* client: _serverTickData
  desynced,    \* client: _serverState.state = desynced
  toClient,    \* packets on their way to each client
  toHost,      \* packets on their way to the host from each client
  unsent       \* bound: commands no player has issued yet

simulation == <<tick, paused, saving, log, queue, nextUid>>
session == <<conn, serverTick, tickData, desynced>>
network == <<toClient, toHost>>
vars == <<pc, left, simulation, session, network, unsent>>

-----------------------------------------------------------------------------
Logic(t) == [type |-> "logic", tick |-> t]
Run(cmd) == [type |-> "run", cmd |-> cmd]

QueuedAction == [tick : Nat, uid : Nat, cmd : Command]

\* The order of the multiset: by tick, then by arrival.
IsFirst(e, q) ==
  \A f \in q : e.tick < f.tick \/ (e.tick = f.tick /\ e.uid <= f.uid)

Connected == {c \in Client : conn[c] # "none"}

\* SendPacketToClients: every connection that is authenticated gets the packet.
Broadcast(packet) ==
  toClient' = [c \in Client |-> IF c \in Connected THEN Append(toClient[c], packet) ELSE toClient[c]]

\* gGamePaused # 0
GameIsPaused(m) == paused[m] \/ saving[m]

\* The frame takes the paused branch of gameStateTick.
Stopped(m) ==
  GameIsPaused(m) \/ (m = Host /\ PauseServerIfNoClients /\ Connected = {})

\* CheckActionInPausedMode
Allowed(m, cmd) == GameIsPaused(m) => cmd \notin Build

\* _suspended, from BeginClient until the map is loaded
Suspended(m) == m \in Client /\ conn[m] # "loaded"

Smaller(a, b) == IF a < b THEN a ELSE b

\* Mutant: the client stops one tick short of the server's.
NumUpdatesShort(m) ==
  IF m = Host
    THEN {IF tick[m] < MaxTick THEN Speed ELSE 0}
    ELSE IF Suspended(m) THEN 0 .. CatchUpLimit
         ELSE IF serverTick[m] <= tick[m] THEN {0}
         ELSE {Smaller(serverTick[m] - tick[m] - 1, CatchUpLimit)}

(***************************************************************************)
(* std::clamp<uint32_t>(serverTick - currentTicks, 0, 10): the difference  *)
(* is unsigned, so a client ahead of the server gets the upper limit.  A   *)
(* client that waits for the map updates the park it had before, whose     *)
(* tick has nothing to do with the server's: any number of times.          *)
(***************************************************************************)
NumUpdates(m) ==
  IF m = Host
    THEN {IF tick[m] < MaxTick THEN Speed ELSE 0}
    ELSE IF Suspended(m) THEN 0 .. CatchUpLimit
         ELSE IF serverTick[m] < tick[m] THEN {CatchUpLimit}
         ELSE {Smaller(serverTick[m] - tick[m], CatchUpLimit)}

TickPacket == [type |-> "tick", tick |-> tick[Host], sum |-> log[Host]]

-----------------------------------------------------------------------------
Init ==
  /\ pc = [m \in Machine |-> "frame"]
  /\ left = [m \in Machine |-> 0]
  /\ tick = [m \in Machine |-> 0]
  /\ paused = [m \in Machine |-> FALSE]
  /\ saving = [m \in Machine |-> FALSE]
  /\ log = [m \in Machine |-> <<>>]
  /\ queue = [m \in Machine |-> {}]
  /\ nextUid = [m \in Machine |-> 0]
  /\ conn = [c \in Client |-> "none"]
  /\ serverTick = [c \in Client |-> 0]
  /\ tickData = [c \in Client |-> {}]
  /\ desynced = [c \in Client |-> FALSE]
  /\ toClient = [c \in Client |-> <<>>]
  /\ toHost = [c \in Client |-> <<>>]
  /\ unsent = Command

(***************************************************************************)
(* gameStateTick up to its first packet or action.  In the paused branch   *)
(* the host sends its tick, actions are processed and then the network is  *)
(* polled; otherwise every update polls the network first.                 *)
(***************************************************************************)
BeginFrame(m) ==
  /\ pc[m] = "frame"
  /\ m \in Client => conn[m] # "none"
  /\ m = Host => \A c \in Client : Len(toClient[c]) < MaxInFlight
  /\ IF Stopped(m)
       THEN /\ pc' = [pc EXCEPT ![m] = "queue"]
            /\ left' = [left EXCEPT ![m] = 0]
            /\ IF m = Host THEN Broadcast(TickPacket) ELSE UNCHANGED toClient
       ELSE /\ pc' = [pc EXCEPT ![m] = "poll"]
            /\ \E n \in NumUpdates(m) : left' = [left EXCEPT ![m] = n]
            /\ UNCHANGED toClient
  /\ UNCHANGED <<simulation, session, toHost, unsent>>

(***************************************************************************)
(* An update has returned.  The loop stops early when the game was just    *)
(* paused, and when the player scrolls or holds the mouse (any time).      *)
(***************************************************************************)
AfterUpdate(m) ==
  \E rest \in {0} \union (IF GameIsPaused(m) THEN {} ELSE {left[m] - 1}) :
    /\ left' = [left EXCEPT ![m] = rest]
    /\ pc' = [pc EXCEPT ![m] = IF rest = 0 THEN "frame" ELSE "poll"]

(***************************************************************************)
(* The environment's choice when Network::Tick returns: unless MapAlone, a *)
(* client that found MAP has also found the tick of that map, which a      *)
(* running host sends behind it and a paused host before it.               *)
(***************************************************************************)
MayStopReading(m) ==
  m \in Client => MapAlone \/ conn[m] # "loaded" \/ serverTick[m] >= tick[m]

\* Network::Tick of a frame without updates returns, and the frame ends.
EndIdlePoll(m) ==
  /\ pc[m] = "poll"
  /\ left[m] = 0
  /\ MayStopReading(m)
  /\ pc' = [pc EXCEPT ![m] = "frame"]
  /\ UNCHANGED <<left, simulation, session, network, unsent>>

\* Mutant: the checksum is taken after the world is updated.
UpdateHostLateChecksum ==
  /\ pc[Host] = "poll"
  /\ left[Host] > 0
  /\ log' = [log EXCEPT ![Host] = Append(@, Logic(tick[Host]))]
  /\ Broadcast([type |-> "tick", tick |-> tick[Host], sum |-> log'[Host]])
  /\ pc' = [pc EXCEPT ![Host] = "queue"]
  /\ UNCHANGED <<left, tick, paused, saving, queue, nextUid, session, toHost, unsent>>

(***************************************************************************)
(* gameStateUpdateLogic after Network::Tick, on the host: the tick is sent *)
(* with the checksum of the state before the world is updated.             *)
(***************************************************************************)
UpdateHost ==
  /\ pc[Host] = "poll"
  /\ left[Host] > 0
  /\ Broadcast(TickPacket)
  /\ log' = [log EXCEPT ![Host] = Append(@, Logic(tick[Host]))]
  /\ pc' = [pc EXCEPT ![Host] = "queue"]
  /\ UNCHANGED <<left, tick, paused, saving, queue, nextUid, session, toHost, unsent>>

\* An update of the park a client has until the map arrives.
UpdateOldPark(c) ==
  /\ pc[c] = "poll"
  /\ left[c] > 0
  /\ Suspended(c)
  /\ AfterUpdate(c)
  /\ UNCHANGED <<simulation, session, network, unsent>>

\* "Don't run past the server": the update returns at once.
SkipUpdate(c) ==
  /\ pc[c] = "poll"
  /\ left[c] > 0
  /\ ~Suspended(c)
  /\ MayStopReading(c)
  /\ serverTick[c] = tick[c]
  /\ AfterUpdate(c)
  /\ UNCHANGED <<simulation, session, network, unsent>>

(***************************************************************************)
(* gameStateUpdateLogic after Network::Tick, on a client: the state is     *)
(* compared with the checksum the host sent for the tick (CheckSRAND takes *)
(* the entry out), then the world is updated.                              *)
(***************************************************************************)
UpdateClient(c) ==
  /\ pc[c] = "poll"
  /\ left[c] > 0
  /\ ~Suspended(c)
  /\ MayStopReading(c)
  /\ serverTick[c] # tick[c]
  /\ LET stored == {d \in tickData[c] : d.tick = tick[c]} IN
     IF desynced[c]
       THEN UNCHANGED <<tickData, desynced>>
       ELSE /\ tickData' = [tickData EXCEPT ![c] = @ \ stored]
            /\ desynced' = [desynced EXCEPT ![c] = \E d \in stored : d.sum # log[c]]
  /\ log' = [log EXCEPT ![c] = Append(@, Logic(tick[c]))]
  /\ pc' = [pc EXCEPT ![c] = "queue"]
  /\ UNCHANGED <<left, tick, paused, saving, queue, nextUid, conn, serverTick, network, unsent>>

\* ProcessQueue executes it now: a client leaves actions of later ticks queued.
Due(m, e) == m \in Client => e.tick <= tick[m]

(***************************************************************************)
(* One turn of ProcessQueue: the first action is executed, and a host that *)
(* executed it relays it to every client with its own tick.  An action the *)
(* paused game refuses has no effect and is not relayed.                   *)
(***************************************************************************)
Execute(m) ==
  /\ pc[m] = "queue"
  /\ ~Suspended(m)
  /\ \E e \in queue[m] :
       /\ IsFirst(e, queue[m])
       /\ Due(m, e)
       /\ queue' = [queue EXCEPT ![m] = @ \ {e}]
       /\ IF Allowed(m, e.cmd)
            THEN /\ IF e.cmd \in TogglePause
                      THEN paused' = [paused EXCEPT ![m] = ~@] /\ UNCHANGED log
                      ELSE log' = [log EXCEPT ![m] = Append(@, Run(e.cmd))] /\ UNCHANGED paused
                 /\ IF m = Host
                      THEN Broadcast([type |-> "action", tick |-> tick[Host], cmd |-> e.cmd])
                      ELSE UNCHANGED toClient
            ELSE UNCHANGED <<log, paused, toClient>>
  /\ UNCHANGED <<pc, left, tick, saving, nextUid, session, toHost, unsent>>

\* Mutant: the paused branch counts as an update.
EndQueueAlwaysTicks(m) ==
  /\ pc[m] = "queue"
  /\ Suspended(m) \/ \A e \in queue[m] : ~Due(m, e)
  /\ tick' = [tick EXCEPT ![m] = @ + 1]
  /\ AfterUpdate(m)
  /\ UNCHANGED <<paused, saving, log, queue, nextUid, session, network, unsent>>

(***************************************************************************)
(* ProcessQueue returns: the paused branch goes on to poll the network, an *)
(* update ends with currentTicks++.                                        *)
(***************************************************************************)
EndQueue(m) ==
  /\ pc[m] = "queue"
  /\ Suspended(m) \/ \A e \in queue[m] : ~Due(m, e)
  /\ IF left[m] = 0
       THEN /\ pc' = [pc EXCEPT ![m] = "poll"]
            /\ UNCHANGED <<left, tick>>
       ELSE /\ tick' = [tick EXCEPT ![m] = @ + 1]
            /\ AfterUpdate(m)
  /\ UNCHANGED <<paused, saving, log, queue, nextUid, session, network, unsent>>

-----------------------------------------------------------------------------
Enqueue(m, t, cmd) ==
  /\ queue' = [queue EXCEPT ![m] = @ \union {[tick |-> t, uid |-> nextUid[m], cmd |-> cmd]}]
  /\ nextUid' = [nextUid EXCEPT ![m] = @ + 1]

\* The packet at the head of a channel is handled during Network::Tick.
ClientReceives(c, type) ==
  /\ pc[c] = "poll"
  /\ toClient[c] # <<>>
  /\ Head(toClient[c]).type = type
  /\ toClient' = [toClient EXCEPT ![c] = Tail(@)]

HostReceives(c, type) ==
  /\ pc[Host] = "poll"
  /\ toHost[c] # <<>>
  /\ Head(toHost[c]).type = type
  /\ toHost' = [toHost EXCEPT ![c] = Tail(@)]

\* Client_Handle_OBJECTS_LIST answers with the request for the map.
HandleObjectsList(c) ==
  /\ ClientReceives(c, "objects")
  /\ toHost' = [toHost EXCEPT ![c] = Append(@, [type |-> "mapRequest"])]
  /\ UNCHANGED <<pc, left, simulation, session, unsent>>

\* ServerHandleMapRequest: BEGINMAP, then the park as it is now.
HandleMapRequest(c) ==
  /\ HostReceives(c, "mapRequest")
  /\ toClient' = [toClient EXCEPT ![c] = @ \o
       <<[type |-> "beginMap"],
         [type |-> "map", tick |-> tick[Host], paused |-> paused[Host], log |-> log[Host]]>>]
  /\ UNCHANGED <<pc, left, simulation, session, unsent>>

\* Mutant: the actions received before the map stay queued.
HandleBeginMapKeepsQueue(c) ==
  /\ ClientReceives(c, "beginMap")
  /\ UNCHANGED <<pc, left, simulation, session, toHost, unsent>>

\* Client_Handle_BEGINMAP: what is queued is part of the park that follows.
HandleBeginMap(c) ==
  /\ ClientReceives(c, "beginMap")
  /\ queue' = [queue EXCEPT ![c] = {}]
  /\ UNCHANGED <<pc, left, tick, paused, saving, log, nextUid, session, toHost, unsent>>

\* Client_Handle_MAP: serverState.tick and the stored checksums stay.
HandleMap(c) ==
  /\ ClientReceives(c, "map")
  /\ LET m == Head(toClient[c]) IN
     /\ tick' = [tick EXCEPT ![c] = m.tick]
     /\ paused' = [paused EXCEPT ![c] = m.paused]
     /\ log' = [log EXCEPT ![c] = m.log]
  /\ conn' = [conn EXCEPT ![c] = "loaded"]
  /\ desynced' = [desynced EXCEPT ![c] = FALSE]
  /\ UNCHANGED <<pc, left, saving, queue, nextUid, serverTick, tickData, toHost, unsent>>

\* The newest entries, few enough to leave room for one.
Newest(data) ==
  {d \in data : Cardinality({e \in data : e.tick > d.tick}) < HistoryLimit - 1}

\* Client_Handle_TICK: emplace keeps the entry a tick already has.
HandleTick(c) ==
  /\ ClientReceives(c, "tick")
  /\ LET m == Head(toClient[c])
         kept == Newest(tickData[c])
         known == \E d \in kept : d.tick = m.tick
     IN /\ serverTick' = [serverTick EXCEPT ![c] = m.tick]
        /\ tickData' = [tickData EXCEPT ![c] =
             IF known THEN kept ELSE kept \union {[tick |-> m.tick, sum |-> m.sum]}]
  /\ UNCHANGED <<pc, left, simulation, conn, desynced, toHost, unsent>>

\* Client_Handle_GAME_ACTION
HandleRelayedAction(c) ==
  /\ ClientReceives(c, "action")
  /\ LET m == Head(toClient[c]) IN Enqueue(c, m.tick, m.cmd)
  /\ UNCHANGED <<pc, left, tick, paused, saving, log, session, toHost, unsent>>

(***************************************************************************)
(* ServerHandleGameAction: a client's pause is dropped, permissions and    *)
(* cooldowns may drop any other action, the rest waits for ProcessQueue    *)
(* under the tick the client was at.                                       *)
(***************************************************************************)
HandleClientAction(c) ==
  /\ HostReceives(c, "action")
  /\ LET m == Head(toHost[c]) IN
     \/ UNCHANGED <<queue, nextUid>>
     \/ m.cmd \notin TogglePause /\ Enqueue(Host, m.tick, m.cmd)
  /\ UNCHANGED <<pc, left, tick, paused, saving, log, session, toClient, unsent>>

-----------------------------------------------------------------------------
\* The host's UI executes an action between two frames: it waits in the queue.
HostIssues(cmd) ==
  /\ pc[Host] = "frame"
  /\ cmd \in unsent
  /\ Allowed(Host, cmd)
  /\ unsent' = unsent \ {cmd}
  /\ Enqueue(Host, tick[Host], cmd)
  /\ UNCHANGED <<pc, left, tick, paused, saving, log, session, network>>

\* A client's UI executes an action: it is sent to the host.
ClientIssues(c, cmd) ==
  /\ pc[c] = "frame"
  /\ conn[c] = "loaded"
  /\ cmd \in unsent
  /\ Allowed(c, cmd)
  /\ unsent' = unsent \ {cmd}
  /\ toHost' = [toHost EXCEPT ![c] = Append(@, [type |-> "action", tick |-> tick[c], cmd |-> cmd])]
  /\ UNCHANGED <<pc, left, simulation, session, toClient>>

\* SetupScenerySelection and CancelScenerySelection of the ride window.
ToggleTrackSave(m) ==
  /\ MaySaveTrack
  /\ pc[m] = "frame"
  /\ m \in Client => conn[m] = "loaded"
  /\ saving' = [saving EXCEPT ![m] = ~@]
  /\ UNCHANGED <<pc, left, tick, paused, log, queue, nextUid, session, network, unsent>>

(***************************************************************************)
(* BeginClient up to ServerHandleAuth accepting: the host sends the object *)
(* list.  The client keeps the park it has, which may be paused.           *)
(***************************************************************************)
Join(c) ==
  /\ pc[Host] = "poll"
  /\ conn[c] = "none"
  /\ conn' = [conn EXCEPT ![c] = "joining"]
  /\ tickData' = [tickData EXCEPT ![c] = {}]
  /\ \E p \in BOOLEAN : paused' = [paused EXCEPT ![c] = p]
  /\ toClient' = [toClient EXCEPT ![c] = <<[type |-> "objects"]>>]
  /\ UNCHANGED <<pc, left, tick, saving, log, queue, nextUid, serverTick, desynced, toHost, unsent>>

(***************************************************************************)
(* The client closes (Close clears queue and checksums, serverState stays) *)
(* or the connection breaks: what is in flight is lost in both directions. *)
(* The park the client goes on with alone is not modelled.                 *)
(***************************************************************************)
Leave(c) ==
  /\ pc[c] \in {"frame", "poll"}
  /\ conn[c] # "none"
  /\ conn' = [conn EXCEPT ![c] = "none"]
  /\ pc' = [pc EXCEPT ![c] = "frame"]
  /\ left' = [left EXCEPT ![c] = 0]
  /\ queue' = [queue EXCEPT ![c] = {}]
  /\ tickData' = [tickData EXCEPT ![c] = {}]
  /\ saving' = [saving EXCEPT ![c] = FALSE]
  /\ toClient' = [toClient EXCEPT ![c] = <<>>]
  /\ toHost' = [toHost EXCEPT ![c] = <<>>]
  /\ tick' = [tick EXCEPT ![c] = 0]
  /\ paused' = [paused EXCEPT ![c] = FALSE]
  /\ log' = [log EXCEPT ![c] = <<>>]
  /\ desynced' = [desynced EXCEPT ![c] = FALSE]
  /\ UNCHANGED <<nextUid, serverTick, unsent>>

-----------------------------------------------------------------------------
Frame(m) == BeginFrame(m) \/ EndIdlePoll(m) \/ Execute(m) \/ EndQueue(m)

ClientUpdate(c) == UpdateOldPark(c) \/ SkipUpdate(c) \/ UpdateClient(c)

ClientHandles(c) ==
  HandleObjectsList(c) \/ HandleBeginMap(c) \/ HandleMap(c) \/ HandleTick(c)
    \/ HandleRelayedAction(c)

HostHandles(c) == HandleMapRequest(c) \/ HandleClientAction(c)

Next ==
  \/ \E m \in Machine : Frame(m) \/ ToggleTrackSave(m)
  \/ UpdateHost
  \/ \E c \in Client : ClientUpdate(c) \/ ClientHandles(c) \/ HostHandles(c)
  \/ \E cmd \in Command : HostIssues(cmd) \/ \E c \in Client : ClientIssues(c, cmd)
  \/ \E c \in Client : Join(c) \/ Leave(c)

Spec == Init /\ [][Next]_vars

(***************************************************************************)
(* Threads keep running, and TCP delivers: a packet that is waiting at     *)
(* poll after poll is eventually handled.                                  *)
(***************************************************************************)
Fairness ==
  /\ \A m \in Machine : WF_vars(Frame(m))
  /\ WF_vars(UpdateHost)
  /\ \A c \in Client :
       WF_vars(ClientUpdate(c)) /\ SF_vars(ClientHandles(c)) /\ SF_vars(HostHandles(c))

FairSpec == Spec /\ Fairness

-----------------------------------------------------------------------------
Entry == [type : {"logic"}, tick : Nat] \union [type : {"run"}, cmd : Command]

ClientPacket ==
  [type : {"objects", "beginMap"}]
    \union [type : {"map"}, tick : Nat, paused : BOOLEAN, log : Seq(Entry)]
    \union [type : {"tick"}, tick : Nat, sum : Seq(Entry)]
    \union [type : {"action"}, tick : Nat, cmd : Command]

HostPacket ==
  [type : {"mapRequest"}] \union [type : {"action"}, tick : Nat, cmd : Command]

(***************************************************************************)
(* The type invariant of the session: threads, simulations and channels    *)
(* (GameState.cpp, GameActionRunner.cpp, NetworkBase.h).                   *)
(***************************************************************************)
TypeOK ==
  /\ pc \in [Machine -> {"frame", "poll", "queue"}]
  /\ left \in [Machine -> Nat]
  /\ tick \in [Machine -> Nat]
  /\ paused \in [Machine -> BOOLEAN]
  /\ saving \in [Machine -> BOOLEAN]
  /\ log \in [Machine -> Seq(Entry)]
  /\ queue \in [Machine -> SUBSET QueuedAction]
  /\ nextUid \in [Machine -> Nat]
  /\ conn \in [Client -> {"none", "joining", "loaded"}]
  /\ serverTick \in [Client -> Nat]
  /\ tickData \in [Client -> SUBSET [tick : Nat, sum : Seq(Entry)]]
  /\ desynced \in [Client -> BOOLEAN]
  /\ toClient \in [Client -> Seq(ClientPacket)]
  /\ toHost \in [Client -> Seq(HostPacket)]
  /\ unsent \in SUBSET Command

Loaded == {c \in Client : conn[c] = "loaded"}

(***************************************************************************)
(* "This should never happen": the assertion of ProcessQueue.  A client    *)
(* never holds an action for a tick it has already gone past, however it   *)
(* joined, lagged, caught up or paused.                                    *)
(***************************************************************************)
NoActionBehindTick ==
  \A c \in Loaded : \A e \in queue[c] : e.tick >= tick[c]

(***************************************************************************)
(* A client does not run past the server: the tick of its simulation is    *)
(* one the host has reached.                                               *)
(***************************************************************************)
NeverAheadOfServer == \A c \in Loaded : tick[c] <= tick[Host]

(***************************************************************************)
(* Why the two above hold, when no client stops reading between a map and  *)
(* the tick behind it: the ticked packets of a channel are in the order of *)
(* their ticks, none is older than what the client has been told or has    *)
(* loaded or newer than the host, a map arrives at an empty queue, and a   *)
(* client only updates when it has been told of a later tick.              *)
(***************************************************************************)
Ticked(p) == p.type \in {"tick", "action", "map"}

InTickOrder(s) ==
  \A i, j \in 1 .. Len(s) :
    i < j /\ Ticked(s[i]) /\ Ticked(s[j]) => s[i].tick <= s[j].tick

Within(s, low, high) ==
  \A i \in 1 .. Len(s) : Ticked(s[i]) => low <= s[i].tick /\ s[i].tick <= high

MapsAnnounced(s) ==
  \A i \in 2 .. Len(s) : s[i].type = "map" => s[i - 1].type = "beginMap"

ChannelInv(c) ==
  /\ InTickOrder(toClient[c])
  /\ Within(toClient[c], serverTick[c], tick[Host])
  /\ conn[c] = "loaded" => Within(toClient[c], tick[c], tick[Host])
  /\ MapsAnnounced(toClient[c])
  /\ toClient[c] # <<>> /\ Head(toClient[c]).type = "map" => queue[c] = {}

ClientInv(c) ==
  /\ serverTick[c] <= tick[Host]
  /\ pc[c] = "queue" /\ left[c] > 0 => conn[c] = "loaded" /\ tick[c] < serverTick[c]
  /\ conn[c] = "loaded" => tick[c] <= tick[Host] /\ \A e \in queue[c] : e.tick >= tick[c]

LockstepInv == \A c \in Client : ChannelInv(c) /\ ClientInv(c)

(***************************************************************************)
(* Lockstep: a client's simulation is the host's at an earlier moment, the *)
(* same updates and the same actions in the same order.                    *)
(***************************************************************************)
Sim == INSTANCE SimLog WITH
  Replica <- Client,
  Step <- Entry,
  history <- log[Host],
  member <- Loaded,
  replica <- [c \in Client |-> log[c]]

ReplicaFollowsServer == Sim!EveryReplicaIsAPrefix

(***************************************************************************)
(* The session implements the abstract one: every step of a client's       *)
(* simulation is the step the host took there, a map is a state the host   *)
(* was in, and nothing else changes a client's simulation.                 *)
(***************************************************************************)
SimSpec == Sim!SimSpec

(***************************************************************************)
(* The desync report is only raised for a client whose simulation differs  *)
(* from the host's (CheckSRAND raises no false alarm).                     *)
(***************************************************************************)
NoFalseDesync ==
  \A c \in Loaded : desynced[c] => ~Sim!Prefix(log[c], log[Host])

(***************************************************************************)
(* A client that stays in the session catches up: it reaches every tick    *)
(* the host has gone past, unless its player sits in the selection of      *)
(* scenery for a track design, which holds its own simulation.             *)
(***************************************************************************)
CatchesUp ==
  \A c \in Client : \A t \in 0 .. MaxTick :
    (conn[c] = "loaded" /\ tick[Host] > t)
      ~> (conn[c] # "loaded" \/ saving[c] \/ tick[c] >= t)
=============================================================================
