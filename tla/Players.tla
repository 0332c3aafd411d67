------------------------------- MODULE Players -------------------------------
(***************************************************************************)
(* The player list of a multiplayer session (NetworkBase.cpp).  The host   *)
(* owns the list, sends it whole at the end of a tick that changed it, and *)
(* a client installs it at the end of the same tick of its simulation: an  *)
(* action names its author by player id, ids are reused, and the action    *)
(* must find the same player on every machine.                             *)
(*                                                                         *)
(* The calls of a frame of a machine's thread (GameState.cpp) are, in this *)
(* order:                                                                  *)
(*   "update"  Network::Tick, ProcessQueue, PostTick, then currentTicks++; *)
(*   "paused"  PostTick, ProcessQueue, Network::Tick.                      *)
(* pc is the call the thread is in.  "poll" is Network::Tick with the UI   *)
(* between two frames, which both only add to what is queued; frames that  *)
(* only poll are part of it.  What the host sends leaves with a flush.     *)
(*                                                                         *)
(* The lockstep itself is the subject of Lockstep; here a frame makes one  *)
(* update, and an element of Client is one connection: a machine that      *)
(* comes back is another element.  A client that closes its end stops      *)
(* acting, and the host finds out sooner or later (Disconnect).            *)
(***************************************************************************)
EXTENDS Integers, Sequences, FiniteSets

CONSTANTS
  Client,       \* connections, each with the player that makes it
  Host,         \* the machine that runs the server, and its player
  MaxPlayers,   \* ids AddPlayer may give out (255 in the code)
  MaxActions,   \* bound: actions the players issue
  Toggles,      \* bound: pauses and resumes of the host
  Mixed,        \* bound: may a session have both actions and pauses?
  MaxTick,      \* bound: the host starts no update past this tick
  MaxInFlight   \* bound: the host starts a frame only below this backlog

Machine == Client \union {Host}

ASSUME PlayersAssumption ==
  /\ Host \notin Client
  /\ MaxPlayers \in Nat \ {0}
  /\ {MaxActions, Toggles, MaxTick, MaxInFlight} \subseteq Nat
  /\ Mixed \in BOOLEAN

VARIABLES
  pc, frame,    \* place in the frame, and its kind
  tick,         \* gameState.currentTicks
  paused,       \* gGamePaused
  roster,       \* player_list: who has which id
  queue,        \* _actionQueue
  invalidated,  \* host: _playerListInvalidated
  conn,         \* "none", "joining", "loaded" or "gone"
  leaving,      \* host: connections with shouldDisconnect
  outbox,       \* host: _outboundBuffer of each connection
  toClient,     \* packets on their way to each client
  toHost,       \* packets on their way to the host from each client
  serverTick,   \* client: _serverState.tick
  pending,      \* client: _pendingPlayerLists
  sent,         \* history: the player list the host had after each of its ticks
  issued, toggled   \* bounds: what the players did so far

thread == <<pc, frame>>
park == <<tick, paused, queue>>
server == <<invalidated, leaving, sent>>
network == <<outbox, toClient, toHost>>
client == <<serverTick, pending>>
bounds == <<issued, toggled>>
vars == <<thread, park, roster, server, conn, network, client, bounds>>

Ids == 0 .. MaxPlayers - 1
HostId == 0
Roster == SUBSET [id : Ids, who : Machine]

-----------------------------------------------------------------------------
\* Connections SendPacketToClients reaches: authenticated and not yet erased.
Connected == {c \in Client : conn[c] \in {"joining", "loaded"}}

WithPacket(boxes, recipients, packet) ==
  [c \in Client |-> IF c \in recipients THEN Append(boxes[c], packet) ELSE boxes[c]]

\* Network::Flush; what is on its way to a connection that went is of no concern.
Flush(boxes) ==
  /\ toClient' = [c \in Client |-> IF c \in Connected THEN toClient[c] \o boxes[c] ELSE <<>>]
  /\ outbox' = [c \in Client |-> <<>>]

TickPacket == [type |-> "tick", tick |-> tick[Host]]

IdOf(who, list) == (CHOOSE p \in list : p.who = who).id

Free(list) == {i \in Ids : \A p \in list : p.id # i}

\* Mutant: ids are counted from one, with no look at what is free.
LowestFreeAfterCount(list) == Cardinality(list) + 1

\* "Find first unused player id"
LowestFree(list) == CHOOSE i \in Free(list) : \A j \in Free(list) : i <= j

Init ==
  /\ pc = [m \in Machine |-> "poll"]
  /\ frame = [m \in Machine |-> "update"]
  /\ tick = [m \in Machine |-> 0]
  /\ paused = [m \in Machine |-> FALSE]
  /\ roster = [m \in Machine |-> IF m = Host THEN {[id |-> HostId, who |-> Host]} ELSE {}]
  /\ queue = [m \in Machine |-> <<>>]
  /\ invalidated = FALSE
  /\ conn = [c \in Client |-> "none"]
  /\ leaving = {}
  /\ outbox = [c \in Client |-> <<>>]
  /\ toClient = [c \in Client |-> <<>>]
  /\ toHost = [c \in Client |-> <<>>]
  /\ serverTick = [c \in Client |-> 0]
  /\ pending = [c \in Client |-> {}]
  /\ sent = <<>>
  /\ issued = 0
  /\ toggled = 0

-----------------------------------------------------------------------------
Go(m, kind, call) ==
  /\ frame' = [frame EXCEPT ![m] = kind]
  /\ pc' = [pc EXCEPT ![m] = call]

(***************************************************************************)
(* The host goes on from Network::Tick: in an update it sends its tick and *)
(* processes the queue; in the paused branch it ends the frame, which      *)
(* flushes, and the next one starts by sending the tick.                   *)
(***************************************************************************)
HostUpdates ==
  /\ pc[Host] = "poll"
  /\ frame[Host] = "update"
  /\ ~paused[Host]
  /\ tick[Host] < MaxTick
  /\ \A c \in Connected : Len(toClient[c]) < MaxInFlight
  /\ outbox' = WithPacket(outbox, Connected, TickPacket)
  /\ pc' = [pc EXCEPT ![Host] = "queue"]
  /\ UNCHANGED <<frame, park, roster, server, conn, toClient, toHost, client, bounds>>

HostPauses ==
  /\ pc[Host] = "poll"
  /\ frame[Host] = "update"
  /\ paused[Host]
  /\ \A c \in Connected : Len(toClient[c]) < MaxInFlight
  /\ outbox' = WithPacket(outbox, Connected, TickPacket)
  /\ pc' = [pc EXCEPT ![Host] = "post"]
  /\ frame' = [frame EXCEPT ![Host] = "paused"]
  /\ UNCHANGED <<park, roster, server, conn, toClient, toHost, client, bounds>>

HostEndsPausedFrame ==
  /\ pc[Host] = "poll"
  /\ frame[Host] = "paused"
  /\ Flush(outbox)
  /\ frame' = [frame EXCEPT ![Host] = "update"]
  /\ UNCHANGED <<pc, park, roster, server, conn, toHost, client, bounds>>

(***************************************************************************)
(* A client goes on from Network::Tick.  It updates when the server is at  *)
(* another tick ("Don't run past the server"); as in Lockstep, a map is    *)
(* found together with the tick it was sent with.                          *)
(***************************************************************************)
ClientGoesOn(c) ==
  /\ pc[c] = "poll"
  /\ conn[c] = "loaded"
  /\ serverTick[c] >= tick[c]
  /\ IF paused[c]
       THEN Go(c, "paused", "post")
       ELSE serverTick[c] # tick[c] /\ Go(c, "update", "queue")
  /\ UNCHANGED <<park, roster, server, conn, network, client, bounds>>

Due(m) ==
  /\ pc[m] = "queue"
  /\ queue[m] # <<>>
  /\ m = Host \/ Head(queue[m]).tick <= tick[m]

(***************************************************************************)
(* One turn of ProcessQueue.  The host relays what it executed under its   *)
(* own tick.  The order of the host's queue among different players is of  *)
(* no concern here: queue is in order of arrival.                          *)
(***************************************************************************)
Execute(m) ==
  /\ Due(m)
  /\ LET a == Head(queue[m]) IN
     /\ queue' = [queue EXCEPT ![m] = Tail(@)]
     /\ paused' = [paused EXCEPT ![m] = IF a.toggle THEN ~@ ELSE @]
     /\ IF m = Host
          THEN outbox' = WithPacket(outbox, Connected,
                           [type |-> "action", action |-> [a EXCEPT !.tick = tick[Host]]])
          ELSE UNCHANGED outbox
  /\ UNCHANGED <<thread, tick, roster, server, conn, toClient, toHost, client, bounds>>

EndQueue(m) ==
  /\ pc[m] = "queue"
  /\ ~Due(m)
  /\ IF frame[m] = "update"
       THEN Go(m, "update", "post")
       ELSE Go(m, IF m = Host THEN "paused" ELSE "update", "poll")
  /\ UNCHANGED <<park, roster, server, conn, network, client, bounds>>

\* Mutant: the list is only sent when a player joined.
SomebodyJoined(list) == invalidated

\* _playerListInvalidated once the connections to go are dropped.
ListChanged(list) == invalidated \/ list # roster[Host]

\* Close: a machine whose connection goes is out of the session, with nothing left of it.
Closed(f, nothing) == [m \in DOMAIN f |-> IF m \in leaving THEN nothing ELSE f[m]]

(***************************************************************************)
(* PostTick on the host: ProcessDisconnectedClients drops the connections  *)
(* that are to go with their players, then ProcessPlayerList sends the     *)
(* list if it changed since the last one.  An update then flushes and      *)
(* counts its tick; the paused branch goes on to ProcessQueue.             *)
(***************************************************************************)
HostPostTick ==
  /\ pc[Host] = "post"
  /\ LET stay == Connected \ leaving
         list == {p \in roster[Host] : p.who \notin leaving}
         full == IF ListChanged(list)
                   THEN WithPacket(outbox, stay, [type |-> "list", tick |-> tick[Host], list |-> list])
                   ELSE outbox
     IN /\ roster' = [Closed(roster, {}) EXCEPT ![Host] = list]
        /\ IF frame[Host] = "update"
             THEN /\ Flush(full)
                  /\ sent' = Append(sent, list)
                  /\ tick' = [Closed(tick, 0) EXCEPT ![Host] = @ + 1]
                  /\ pc' = [Closed(pc, "poll") EXCEPT ![Host] = "poll"]
             ELSE /\ outbox' = full
                  /\ tick' = Closed(tick, 0)
                  /\ pc' = [Closed(pc, "poll") EXCEPT ![Host] = "queue"]
                  /\ toClient' = Closed(toClient, <<>>)
                  /\ UNCHANGED sent
  /\ leaving' = {}
  /\ invalidated' = FALSE
  /\ conn' = Closed(conn, "gone")
  /\ frame' = Closed(frame, "update")
  /\ paused' = Closed(paused, FALSE)
  /\ queue' = Closed(queue, <<>>)
  /\ toHost' = Closed(toHost, <<>>)
  /\ serverTick' = Closed(serverTick, 0)
  /\ pending' = Closed(pending, {})
  /\ UNCHANGED bounds

\* Mutant: a list is installed as soon as it has arrived.
InstallListsAtOnce(c, t) ==
  /\ pending' = [pending EXCEPT ![c] = {}]
  /\ roster' = [roster EXCEPT ![c] =
       IF pending[c] = {} THEN @
       ELSE (CHOOSE l \in pending[c] : \A k \in pending[c] : k.tick <= l.tick).list]

(***************************************************************************)
(* ProcessPlayerList on a client at tick t: the pending lists up to that   *)
(* tick are installed in order, each replacing all of the one before.      *)
(***************************************************************************)
InstallLists(c, t) ==
  LET due == {l \in pending[c] : l.tick <= t} IN
  /\ pending' = [pending EXCEPT ![c] = @ \ due]
  /\ roster' = [roster EXCEPT ![c] =
       IF due = {} THEN @ ELSE (CHOOSE l \in due : \A k \in due : k.tick <= l.tick).list]

\* PostTick on a client
ClientPostTick(c) ==
  /\ pc[c] = "post"
  /\ InstallLists(c, tick[c])
  /\ IF frame[c] = "update"
       THEN /\ pc' = [pc EXCEPT ![c] = "poll"]
            /\ tick' = [tick EXCEPT ![c] = @ + 1]
       ELSE /\ pc' = [pc EXCEPT ![c] = "queue"]
            /\ UNCHANGED tick
  /\ UNCHANGED <<frame, paused, queue, server, conn, network, serverTick, bounds>>

(***************************************************************************)
(* A frame of a client that waits for the map: its queue is suspended and  *)
(* PostTick uses the tick of the park it still has, which is any number.   *)
(***************************************************************************)
OldParkPostTick(c) ==
  /\ pc[c] = "poll"
  /\ conn[c] = "joining"
  /\ \E t \in 0 .. MaxTick : InstallLists(c, t)
  /\ UNCHANGED <<thread, park, server, conn, network, serverTick, bounds>>

-----------------------------------------------------------------------------
(***************************************************************************)
(* Packets a client handles in Network::Tick.                              *)
(***************************************************************************)
ClientReceives(c, type) ==
  /\ pc[c] = "poll"
  /\ c \in Connected
  /\ toClient[c] # <<>>
  /\ Head(toClient[c]).type = type
  /\ toClient' = [toClient EXCEPT ![c] = Tail(@)]

HandleObjectsList(c) ==
  /\ ClientReceives(c, "objects")
  /\ toHost' = [toHost EXCEPT ![c] = Append(@, [type |-> "mapRequest"])]
  /\ UNCHANGED <<thread, park, roster, server, conn, outbox, client, bounds>>

HandleBeginMap(c) ==
  /\ ClientReceives(c, "beginMap")
  /\ queue' = [queue EXCEPT ![c] = <<>>]
  /\ UNCHANGED <<thread, tick, paused, roster, server, conn, outbox, toHost, client, bounds>>

\* Client_Handle_MAP: the lists up to the tick of the map are installed at once.
HandleMap(c) ==
  /\ ClientReceives(c, "map")
  /\ LET m == Head(toClient[c]) IN
     /\ tick' = [tick EXCEPT ![c] = m.tick]
     /\ paused' = [paused EXCEPT ![c] = m.paused]
     /\ InstallLists(c, m.tick)
  /\ conn' = [conn EXCEPT ![c] = "loaded"]
  /\ UNCHANGED <<thread, queue, server, outbox, toHost, serverTick, bounds>>

HandleTick(c) ==
  /\ ClientReceives(c, "tick")
  /\ serverTick' = [serverTick EXCEPT ![c] = Head(toClient[c]).tick]
  /\ UNCHANGED <<thread, park, roster, server, conn, outbox, toHost, pending, bounds>>

\* Client_Handle_PLAYERLIST: a list replaces one of the same tick.
HandlePlayerList(c) ==
  /\ ClientReceives(c, "list")
  /\ LET m == Head(toClient[c]) IN
     pending' = [pending EXCEPT ![c] =
       {l \in @ : l.tick # m.tick} \union {[tick |-> m.tick, list |-> m.list]}]
  /\ UNCHANGED <<thread, park, roster, server, conn, outbox, toHost, serverTick, bounds>>

HandleRelayedAction(c) ==
  /\ ClientReceives(c, "action")
  /\ queue' = [queue EXCEPT ![c] = Append(@, Head(toClient[c]).action)]
  /\ UNCHANGED <<thread, tick, paused, roster, server, conn, outbox, toHost, client, bounds>>

-----------------------------------------------------------------------------
(***************************************************************************)
(* Packets the host handles in Network::Tick, of connections that are      *)
(* still valid.                                                            *)
(***************************************************************************)
HostReceives(c, type) ==
  /\ pc[Host] = "poll"
  /\ c \in Connected \ leaving
  /\ toHost[c] # <<>>
  /\ Head(toHost[c]).type = type
  /\ toHost' = [toHost EXCEPT ![c] = Tail(@)]

(***************************************************************************)
(* ServerHandleAuth accepts a client: AddPlayer gives it an id, the object *)
(* list is queued.                                                         *)
(***************************************************************************)
Join(c) ==
  /\ pc[Host] = "poll"
  /\ conn[c] = "none"
  /\ Free(roster[Host]) # {}
  /\ conn' = [conn EXCEPT ![c] = "joining"]
  /\ roster' = [roster EXCEPT ![Host] = @ \union {[id |-> LowestFree(@), who |-> c]}]
  /\ invalidated' = TRUE
  /\ outbox' = [outbox EXCEPT ![c] = Append(@, [type |-> "objects"])]
  /\ UNCHANGED <<thread, park, leaving, sent, toClient, toHost, client, bounds>>

HandleMapRequest(c) ==
  /\ HostReceives(c, "mapRequest")
  /\ outbox' = [outbox EXCEPT ![c] = @ \o
       <<[type |-> "beginMap"], [type |-> "map", tick |-> tick[Host], paused |-> paused[Host]]>>]
  /\ UNCHANGED <<thread, park, roster, server, conn, toClient, client, bounds>>

\* ServerHandleGameAction: the author is the player of the connection.
HandleClientAction(c) ==
  /\ HostReceives(c, "action")
  /\ queue' = [queue EXCEPT ![Host] = Append(@,
       [tick |-> Head(toHost[c]).tick, id |-> IdOf(c, roster[Host]), who |-> c, toggle |-> FALSE])]
  /\ UNCHANGED <<thread, tick, paused, roster, server, conn, outbox, toClient, client, bounds>>

(***************************************************************************)
(* The host gives a connection up: TickServer finds it closed, silent or   *)
(* misbehaving, or an executed PlayerKickAction names its player.          *)
(***************************************************************************)
Disconnect(c) ==
  /\ pc[Host] \in {"poll", "queue"}
  /\ c \in Connected \ leaving
  /\ leaving' = leaving \union {c}
  /\ UNCHANGED <<thread, park, roster, invalidated, sent, conn, network, client, bounds>>

-----------------------------------------------------------------------------
HostIssues(toggle) ==
  /\ pc[Host] = "poll"
  /\ IF toggle
       THEN /\ toggled < Toggles
            /\ Mixed \/ issued = 0
            /\ toggled' = toggled + 1
            /\ UNCHANGED issued
       ELSE /\ issued < MaxActions
            /\ Mixed \/ toggled = 0
            /\ issued' = issued + 1
            /\ UNCHANGED toggled
  /\ queue' = [queue EXCEPT ![Host] = Append(@,
       [tick |-> tick[Host], id |-> HostId, who |-> Host, toggle |-> toggle])]
  /\ UNCHANGED <<thread, tick, paused, roster, server, conn, network, client>>

ClientIssues(c) ==
  /\ pc[c] = "poll"
  /\ conn[c] = "loaded"
  /\ issued < MaxActions
  /\ Mixed \/ toggled = 0
  /\ issued' = issued + 1
  /\ toHost' = [toHost EXCEPT ![c] = Append(@, [type |-> "action", tick |-> tick[c]])]
  /\ UNCHANGED <<thread, park, roster, server, conn, outbox, toClient, client, toggled>>

-----------------------------------------------------------------------------
HostRuns ==
  HostUpdates \/ HostPauses \/ HostEndsPausedFrame \/ Execute(Host) \/ EndQueue(Host) \/ HostPostTick

ClientRuns(c) ==
  c \in Connected
    /\ (ClientGoesOn(c) \/ OldParkPostTick(c) \/ Execute(c) \/ EndQueue(c) \/ ClientPostTick(c))

Next ==
  \/ HostRuns
  \/ \E toggle \in BOOLEAN : HostIssues(toggle)
  \/ \E c \in Client :
       \/ ClientRuns(c)
       \/ HandleObjectsList(c) \/ HandleBeginMap(c) \/ HandleMap(c)
       \/ HandleTick(c) \/ HandlePlayerList(c) \/ HandleRelayedAction(c)
       \/ Join(c) \/ HandleMapRequest(c) \/ HandleClientAction(c)
       \/ Disconnect(c) \/ ClientIssues(c)

Spec == Init /\ [][Next]_vars

-----------------------------------------------------------------------------
Action == [tick : Nat, id : Ids, who : Machine, toggle : BOOLEAN]

ClientPacket ==
  [type : {"objects", "beginMap"}]
    \union [type : {"map"}, tick : Nat, paused : BOOLEAN]
    \union [type : {"tick"}, tick : Nat]
    \union [type : {"list"}, tick : Nat, list : Roster]
    \union [type : {"action"}, action : Action]

HostPacket == [type : {"mapRequest"}] \union [type : {"action"}, tick : Nat]

(***************************************************************************)
(* The type invariant of the player list synchronisation (NetworkBase.h):  *)
(* among others, every id in use is one AddPlayer may give out.            *)
(***************************************************************************)
TypeOK ==
  /\ pc \in [Machine -> {"poll", "queue", "post"}]
  /\ frame \in [Machine -> {"update", "paused"}]
  /\ tick \in [Machine -> Nat]
  /\ paused \in [Machine -> BOOLEAN]
  /\ \A m \in Machine : roster[m] \subseteq [id : Ids, who : Machine]
  /\ queue \in [Machine -> Seq(Action)]
  /\ invalidated \in BOOLEAN
  /\ conn \in [Client -> {"none", "joining", "loaded", "gone"}]
  /\ leaving \subseteq Client
  /\ {outbox, toClient} \subseteq [Client -> Seq(ClientPacket)]
  /\ toHost \in [Client -> Seq(HostPacket)]
  /\ serverTick \in [Client -> Nat]
  /\ \A c \in Client : pending[c] \subseteq [tick : Nat, list : Roster]
  /\ sent \in Seq(Roster)
  /\ issued \in 0 .. MaxActions /\ toggled \in 0 .. Toggles

(***************************************************************************)
(* "Unable to find player %u for game action %u", the assertion of         *)
(* ExecuteInternal: the author of an action that is executed is in the     *)
(* list of the machine, and the id still means the player it meant,        *)
(* whoever joins, leaves, is kicked or takes over an id meanwhile.         *)
(***************************************************************************)
AuthorKnown ==
  \A m \in Machine :
    Due(m) => LET a == Head(queue[m]) IN [id |-> a.id, who |-> a.who] \in roster[m]

(***************************************************************************)
(* When a client has finished a tick its list is the one the host had when *)
(* it finished that tick, whoever joined, left or took over an id, and     *)
(* however often the host was paused in between.                           *)
(***************************************************************************)
ListsInStep ==
  [][\A c \in Client :
       (conn[c] = "loaded" /\ tick'[c] = tick[c] + 1) => roster'[c] = sent'[tick'[c]]]_vars
=============================================================================
