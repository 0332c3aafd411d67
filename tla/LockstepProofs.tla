--------------------------- MODULE LockstepProofs ---------------------------
(***************************************************************************)
(* Safety of the lockstep for any number of clients, any commands and any  *)
(* bounds.                                                                 *)
(***************************************************************************)
EXTENDS Lockstep, TLAPS

LEMMA BroadcastType ==
  ASSUME TypeOK, NEW packet \in ClientPacket, Broadcast(packet)
  PROVE  toClient' \in [Client -> Seq(ClientPacket)]
  BY DEF TypeOK, Broadcast

LEMMA TickPacketType ==
  ASSUME TypeOK
  PROVE  TickPacket \in ClientPacket
  BY DEF TypeOK, TickPacket, ClientPacket, Machine

LEMMA NumUpdatesType ==
  ASSUME TypeOK, NEW m \in Machine
  PROVE  NumUpdates(m) \subseteq Nat
  BY BoundAssumption DEF TypeOK, NumUpdates, Smaller, Machine

LEMMA AfterUpdateType ==
  ASSUME TypeOK, NEW m \in Machine, left[m] > 0, AfterUpdate(m)
  PROVE  /\ left' \in [Machine -> Nat]
         /\ pc' \in [Machine -> {"frame", "poll", "queue"}]
  BY DEF TypeOK, AfterUpdate

LEMMA EnqueueType ==
  ASSUME TypeOK, NEW m \in Machine, NEW t \in Nat, NEW cmd \in Command, Enqueue(m, t, cmd)
  PROVE  /\ queue' \in [Machine -> SUBSET QueuedAction]
         /\ nextUid' \in [Machine -> Nat]
  <1>1. [tick |-> t, uid |-> nextUid[m], cmd |-> cmd] \in QueuedAction
    BY DEF TypeOK, QueuedAction
  <1>2. QED
    BY <1>1 DEF TypeOK, Enqueue

(***************************************************************************)
(* What a handler finds at the head of a channel has the fields of its     *)
(* type, and the rest of the channel is still a channel.                   *)
(***************************************************************************)
LEMMA ReceivedPacket ==
  ASSUME TypeOK, NEW c \in Client, NEW type, ClientReceives(c, type)
  PROVE  /\ Head(toClient[c]) \in ClientPacket
         /\ toClient' \in [Client -> Seq(ClientPacket)]
         /\ type = "map" => /\ Head(toClient[c]).tick \in Nat
                            /\ Head(toClient[c]).paused \in BOOLEAN
                            /\ Head(toClient[c]).log \in Seq(Entry)
         /\ type = "tick" => /\ Head(toClient[c]).tick \in Nat
                             /\ Head(toClient[c]).sum \in Seq(Entry)
         /\ type = "action" => /\ Head(toClient[c]).tick \in Nat
                               /\ Head(toClient[c]).cmd \in Command
  <1>1. toClient[c] \in Seq(ClientPacket) /\ toClient[c] # <<>>
    BY DEF TypeOK, ClientReceives
  <1>2. Head(toClient[c]) \in ClientPacket /\ Tail(toClient[c]) \in Seq(ClientPacket)
    BY <1>1
  <1>3. toClient' \in [Client -> Seq(ClientPacket)]
    BY <1>2 DEF TypeOK, ClientReceives
  <1>4. QED
    BY <1>2, <1>3 DEF ClientReceives, ClientPacket

LEMMA ReceivedByHost ==
  ASSUME TypeOK, NEW c \in Client, NEW type, HostReceives(c, type)
  PROVE  /\ toHost' \in [Client -> Seq(HostPacket)]
         /\ type = "action" => /\ Head(toHost[c]).tick \in Nat
                               /\ Head(toHost[c]).cmd \in Command
  <1>1. toHost[c] \in Seq(HostPacket) /\ toHost[c] # <<>>
    BY DEF TypeOK, HostReceives
  <1>2. Head(toHost[c]) \in HostPacket /\ Tail(toHost[c]) \in Seq(HostPacket)
    BY <1>1
  <1>3. toHost' \in [Client -> Seq(HostPacket)]
    BY <1>2 DEF TypeOK, HostReceives
  <1>4. QED
    BY <1>2, <1>3 DEF HostReceives, HostPacket

-----------------------------------------------------------------------------
LEMMA FrameType ==
  ASSUME TypeOK, NEW m \in Machine, Frame(m)
  PROVE  TypeOK'
  <1> USE DEF simulation, session, network
  <1>1. ASSUME BeginFrame(m) PROVE TypeOK'
    <2>1. toClient' \in [Client -> Seq(ClientPacket)]
      BY <1>1, BroadcastType, TickPacketType DEF BeginFrame, TypeOK
    <2>2. NumUpdates(m) \subseteq Nat
      BY NumUpdatesType
    <2>3. /\ pc' \in [Machine -> {"frame", "poll", "queue"}]
          /\ left' \in [Machine -> Nat]
      <3>1. \/ pc' = [pc EXCEPT ![m] = "queue"] /\ left' = [left EXCEPT ![m] = 0]
            \/ /\ pc' = [pc EXCEPT ![m] = "poll"]
               /\ \E n \in NumUpdates(m) : left' = [left EXCEPT ![m] = n]
        BY <1>1 DEF BeginFrame
      <3>2. pc \in [Machine -> {"frame", "poll", "queue"}] /\ left \in [Machine -> Nat]
        BY DEF TypeOK
      <3>3. QED
        BY <2>2, <3>1, <3>2
    <2>4. QED
      BY <1>1, <2>1, <2>3 DEF BeginFrame, TypeOK
  <1>2. ASSUME EndIdlePoll(m) PROVE TypeOK'
    BY <1>2 DEF EndIdlePoll, TypeOK
  <1>3. ASSUME Execute(m) PROVE TypeOK'
    <2> PICK e \in queue[m] :
          /\ Due(m, e)
          /\ queue' = [queue EXCEPT ![m] = @ \ {e}]
          /\ IF Allowed(m, e.cmd)
               THEN /\ IF e.cmd \in TogglePause
                         THEN paused' = [paused EXCEPT ![m] = ~@] /\ UNCHANGED log
                         ELSE log' = [log EXCEPT ![m] = Append(@, Run(e.cmd))] /\ UNCHANGED paused
                    /\ IF m = Host
                         THEN Broadcast([type |-> "action", tick |-> tick[Host], cmd |-> e.cmd])
                         ELSE UNCHANGED toClient
               ELSE UNCHANGED <<log, paused, toClient>>
      BY <1>3 DEF Execute
    <2>1. e \in QueuedAction /\ e.cmd \in Command
      BY DEF TypeOK, QueuedAction
    <2>2. [type |-> "action", tick |-> tick[Host], cmd |-> e.cmd] \in ClientPacket
      BY <2>1 DEF ClientPacket, TypeOK, Machine
    <2>3. toClient' \in [Client -> Seq(ClientPacket)]
      BY <2>2, BroadcastType DEF TypeOK
    <2>4. log' \in [Machine -> Seq(Entry)]
      <3>1. Run(e.cmd) \in Entry
        BY <2>1 DEF Run, Entry
      <3>2. Append(log[m], Run(e.cmd)) \in Seq(Entry)
        BY <3>1 DEF TypeOK
      <3>3. QED
        BY <3>2 DEF TypeOK
    <2>5. /\ queue' \in [Machine -> SUBSET QueuedAction]
          /\ paused' \in [Machine -> BOOLEAN]
      BY DEF TypeOK
    <2>6. QED
      BY <1>3, <2>3, <2>4, <2>5 DEF Execute, TypeOK
  <1>4. ASSUME EndQueue(m) PROVE TypeOK'
    <2>1. CASE left[m] = 0
      BY <1>4, <2>1 DEF EndQueue, TypeOK
    <2>2. CASE left[m] # 0
      <3>1. left[m] > 0 /\ AfterUpdate(m)
        BY <1>4, <2>2 DEF EndQueue, TypeOK
      <3>2. tick' \in [Machine -> Nat]
        <4>1. tick[m] + 1 \in Nat /\ tick' = [tick EXCEPT ![m] = @ + 1]
          BY <1>4, <2>2 DEF EndQueue, TypeOK
        <4>2. QED
          BY <4>1 DEF TypeOK
      <3>3. QED
        BY <1>4, <3>1, <3>2, AfterUpdateType DEF EndQueue, TypeOK
    <2>3. QED
      BY <2>1, <2>2
  <1>5. QED
    BY <1>1, <1>2, <1>3, <1>4 DEF Frame

LEMMA UpdateType ==
  ASSUME TypeOK, UpdateHost \/ \E c \in Client : ClientUpdate(c)
  PROVE  TypeOK'
  <1> USE DEF simulation, session, network
  <1>1. ASSUME UpdateHost PROVE TypeOK'
    <2>1. toClient' \in [Client -> Seq(ClientPacket)]
      BY <1>1, BroadcastType, TickPacketType DEF UpdateHost
    <2>2. Host \in Machine /\ Logic(tick[Host]) \in Entry
      BY DEF Machine, TypeOK, Logic, Entry
    <2>3. log' \in [Machine -> Seq(Entry)]
      <3>1. Append(log[Host], Logic(tick[Host])) \in Seq(Entry)
        BY <2>2 DEF TypeOK
      <3>2. QED
        BY <1>1, <3>1 DEF UpdateHost, TypeOK
    <2>4. QED
      BY <1>1, <2>1, <2>3 DEF UpdateHost, TypeOK
  <1>2. ASSUME NEW c \in Client, SkipUpdate(c) \/ UpdateOldPark(c) PROVE TypeOK'
    BY <1>2, AfterUpdateType DEF SkipUpdate, UpdateOldPark, TypeOK, Machine
  <1>3. ASSUME NEW c \in Client, UpdateClient(c) PROVE TypeOK'
    <2>1. c \in Machine /\ Logic(tick[c]) \in Entry
      BY DEF Machine, TypeOK, Logic, Entry
    <2>2. log' \in [Machine -> Seq(Entry)]
      <3>1. Append(log[c], Logic(tick[c])) \in Seq(Entry)
        BY <2>1 DEF TypeOK
      <3>2. QED
        BY <1>3, <3>1 DEF UpdateClient, TypeOK
    <2>3. /\ tickData' \in [Client -> SUBSET [tick : Nat, sum : Seq(Entry)]]
          /\ desynced' \in [Client -> BOOLEAN]
      <3> DEFINE stored == {d \in tickData[c] : d.tick = tick[c]}
                 alarm == \E d \in stored : d.sum # log[c]
      <3>1. CASE desynced[c]
        BY <1>3, <3>1 DEF UpdateClient, TypeOK
      <3>2. CASE ~desynced[c]
        <4>1. /\ tickData' = [tickData EXCEPT ![c] = @ \ stored]
              /\ desynced' = [desynced EXCEPT ![c] = alarm]
          BY <1>3, <3>2 DEF UpdateClient
        <4>2. alarm \in BOOLEAN
          OBVIOUS
        <4> HIDE DEF stored, alarm
        <4>3. QED
          BY <4>1, <4>2 DEF TypeOK
      <3>3. QED
        BY <3>1, <3>2
    <2>4. QED
      BY <1>3, <2>2, <2>3 DEF UpdateClient, TypeOK
  <1>4. QED
    BY <1>1, <1>2, <1>3 DEF ClientUpdate

LEMMA HandlerType ==
  ASSUME TypeOK, NEW c \in Client, ClientHandles(c) \/ HostHandles(c)
  PROVE  TypeOK'
  <1> USE DEF simulation, session, network
  <1> c \in Machine /\ Host \in Machine
    BY DEF Machine
  <1>1. ASSUME HandleObjectsList(c) PROVE TypeOK'
    <2>1. [type |-> "mapRequest"] \in HostPacket
      BY DEF HostPacket
    <2>2. Append(toHost[c], [type |-> "mapRequest"]) \in Seq(HostPacket)
      BY <2>1 DEF TypeOK
    <2>3. toHost' \in [Client -> Seq(HostPacket)]
      BY <1>1, <2>2 DEF HandleObjectsList, TypeOK
    <2>4. QED
      BY <1>1, <2>3, ReceivedPacket DEF HandleObjectsList, TypeOK
  <1>2. ASSUME HandleBeginMap(c) PROVE TypeOK'
    BY <1>2, ReceivedPacket DEF HandleBeginMap, TypeOK
  <1>3. ASSUME HandleMap(c) PROVE TypeOK'
    BY <1>3, ReceivedPacket DEF HandleMap, TypeOK
  <1>4. ASSUME HandleTick(c) PROVE TypeOK'
    <2> DEFINE p == Head(toClient[c])
               kept == Newest(tickData[c])
               data == kept \union {[tick |-> p.tick, sum |-> p.sum]}
    <2>1. p.tick \in Nat /\ p.sum \in Seq(Entry) /\ toClient' \in [Client -> Seq(ClientPacket)]
      BY <1>4, ReceivedPacket DEF HandleTick
    <2>2. kept \subseteq tickData[c]
      BY DEF Newest
    <2>3. /\ kept \in SUBSET [tick : Nat, sum : Seq(Entry)]
          /\ data \in SUBSET [tick : Nat, sum : Seq(Entry)]
      BY <2>1, <2>2 DEF TypeOK
    <2>4. /\ serverTick' = [serverTick EXCEPT ![c] = p.tick]
          /\ \/ tickData' = [tickData EXCEPT ![c] = kept]
             \/ tickData' = [tickData EXCEPT ![c] = data]
      BY <1>4 DEF HandleTick
    <2> HIDE DEF p, kept, data
    <2>5. /\ serverTick' \in [Client -> Nat]
          /\ tickData' \in [Client -> SUBSET [tick : Nat, sum : Seq(Entry)]]
      BY <2>1, <2>3, <2>4 DEF TypeOK
    <2>6. QED
      BY <1>4, <2>1, <2>5 DEF HandleTick, TypeOK
  <1>5. ASSUME HandleRelayedAction(c) PROVE TypeOK'
    BY <1>5, ReceivedPacket, EnqueueType DEF HandleRelayedAction, TypeOK
  <1>6. ASSUME HandleMapRequest(c) PROVE TypeOK'
    <2>1. /\ [type |-> "beginMap"] \in ClientPacket
          /\ [type |-> "map", tick |-> tick[Host], paused |-> paused[Host], log |-> log[Host]]
               \in ClientPacket
      BY DEF ClientPacket, TypeOK
    <2>2. toClient' \in [Client -> Seq(ClientPacket)]
      BY <1>6, <2>1 DEF HandleMapRequest, TypeOK
    <2>3. QED
      BY <1>6, <2>2, ReceivedByHost DEF HandleMapRequest, TypeOK
  <1>7. ASSUME HandleClientAction(c) PROVE TypeOK'
    BY <1>7, ReceivedByHost, EnqueueType DEF HandleClientAction, TypeOK
  <1>8. QED
    BY <1>1, <1>2, <1>3, <1>4, <1>5, <1>6, <1>7 DEF ClientHandles, HostHandles

LEMMA PlayerType ==
  ASSUME TypeOK,
         \/ \E m \in Machine : ToggleTrackSave(m)
         \/ \E cmd \in Command : HostIssues(cmd)
         \/ \E cmd \in Command, c \in Client : ClientIssues(c, cmd)
         \/ \E c \in Client : Join(c) \/ Leave(c)
  PROVE  TypeOK'
  <1> USE DEF simulation, session, network
  <1>1. ASSUME NEW m \in Machine, ToggleTrackSave(m) PROVE TypeOK'
    BY <1>1 DEF ToggleTrackSave, TypeOK
  <1>2. ASSUME NEW cmd \in Command, HostIssues(cmd) PROVE TypeOK'
    <2>1. Host \in Machine /\ tick[Host] \in Nat
      BY DEF Machine, TypeOK
    <2>2. QED
      BY <1>2, <2>1, EnqueueType DEF HostIssues, TypeOK
  <1>3. ASSUME NEW cmd \in Command, NEW c \in Client, ClientIssues(c, cmd) PROVE TypeOK'
    <2>1. [type |-> "action", tick |-> tick[c], cmd |-> cmd] \in HostPacket
      BY DEF HostPacket, TypeOK, Machine
    <2>2. toHost' \in [Client -> Seq(HostPacket)]
      BY <1>3, <2>1 DEF ClientIssues, TypeOK
    <2>3. QED
      BY <1>3, <2>2 DEF ClientIssues, TypeOK
  <1>4. ASSUME NEW c \in Client, Join(c) PROVE TypeOK'
    <2>1. <<[type |-> "objects"]>> \in Seq(ClientPacket)
      BY DEF ClientPacket
    <2>2. toClient' \in [Client -> Seq(ClientPacket)]
      BY <1>4, <2>1 DEF Join, TypeOK
    <2>3. paused' \in [Machine -> BOOLEAN]
      BY <1>4 DEF Join, TypeOK
    <2>4. QED
      BY <1>4, <2>2, <2>3 DEF Join, TypeOK
  <1>5. ASSUME NEW c \in Client, Leave(c) PROVE TypeOK'
    <2>1. /\ pc' \in [Machine -> {"frame", "poll", "queue"}]
          /\ left' \in [Machine -> Nat]
          /\ tick' \in [Machine -> Nat]
          /\ paused' \in [Machine -> BOOLEAN]
          /\ saving' \in [Machine -> BOOLEAN]
      BY <1>5 DEF Leave, TypeOK
    <2>2. log' \in [Machine -> Seq(Entry)]
      <3>1. <<>> \in Seq(Entry) /\ log' = [log EXCEPT ![c] = <<>>]
        BY <1>5 DEF Leave
      <3>2. QED
        BY <3>1 DEF TypeOK
    <2>3. queue' \in [Machine -> SUBSET QueuedAction]
      BY <1>5 DEF Leave, TypeOK
    <2>4. /\ conn' \in [Client -> {"none", "joining", "loaded"}]
          /\ tickData' \in [Client -> SUBSET [tick : Nat, sum : Seq(Entry)]]
          /\ desynced' \in [Client -> BOOLEAN]
      BY <1>5 DEF Leave, TypeOK
    <2>5. /\ toClient' \in [Client -> Seq(ClientPacket)]
          /\ toHost' \in [Client -> Seq(HostPacket)]
      <3>1. <<>> \in Seq(ClientPacket) /\ <<>> \in Seq(HostPacket)
        OBVIOUS
      <3>2. QED
        BY <1>5, <3>1 DEF Leave, TypeOK
    <2>6. QED
      BY <1>5, <2>1, <2>2, <2>3, <2>4, <2>5 DEF Leave, TypeOK
  <1>6. QED
    BY <1>1, <1>2, <1>3, <1>4, <1>5

LEMMA TypeInit == Init => TypeOK
  BY DEF Init, TypeOK

LEMMA TypeStep == TypeOK /\ [Next]_vars => TypeOK'
  <1> SUFFICES ASSUME TypeOK, [Next]_vars PROVE TypeOK'
    OBVIOUS
  <1>1. CASE UNCHANGED vars
    BY <1>1 DEF TypeOK, vars, simulation, session, network
  <1>2. CASE Next
    BY <1>2, FrameType, UpdateType, HandlerType, PlayerType DEF Next
  <1>3. QED
    BY <1>1, <1>2

(***************************************************************************)
(* Threads, simulations and channels stay well formed in every session.    *)
(***************************************************************************)
THEOREM TypeCorrect == Spec => []TypeOK
  BY TypeInit, TypeStep, PTL DEF Spec

-----------------------------------------------------------------------------
(***************************************************************************)
(* Channels: what the invariant says of a sequence of packets is kept when *)
(* the first is handled and when one is sent.                              *)
(***************************************************************************)
LEMMA TickedType ==
  ASSUME NEW p \in ClientPacket, Ticked(p)
  PROVE  p.tick \in Nat
  BY DEF ClientPacket, Ticked

LEMMA TailKeeps ==
  ASSUME NEW s \in Seq(ClientPacket), s # <<>>, InTickOrder(s), MapsAnnounced(s)
  PROVE  /\ InTickOrder(Tail(s))
         /\ MapsAnnounced(Tail(s))
         /\ \A low, high : Within(s, low, high) => Within(Tail(s), low, high)
         /\ Tail(s) # <<>> /\ Head(Tail(s)).type = "map" => Head(s).type = "beginMap"
  <1>1. /\ Tail(s) \in Seq(ClientPacket)
        /\ Len(Tail(s)) = Len(s) - 1
        /\ \A i \in 1 .. Len(Tail(s)) : Tail(s)[i] = s[i + 1]
    OBVIOUS
  <1>2. InTickOrder(Tail(s))
    BY <1>1 DEF InTickOrder
  <1>3. MapsAnnounced(Tail(s))
    BY <1>1 DEF MapsAnnounced
  <1>4. ASSUME NEW low, NEW high, Within(s, low, high)
        PROVE  Within(Tail(s), low, high)
    BY <1>1, <1>4 DEF Within
  <1>5. ASSUME Tail(s) # <<>>, Head(Tail(s)).type = "map"
        PROVE  Head(s).type = "beginMap"
    BY <1>1, <1>5 DEF MapsAnnounced
  <1>6. QED
    BY <1>2, <1>3, <1>4, <1>5

\* Everything behind a ticked packet is at least as late as that packet.
LEMMA TailWithin ==
  ASSUME NEW s \in Seq(ClientPacket), s # <<>>, InTickOrder(s), Ticked(Head(s)),
         NEW low, NEW high, Within(s, low, high)
  PROVE  /\ Within(Tail(s), Head(s).tick, high)
         /\ low <= Head(s).tick /\ Head(s).tick <= high
  <1>1. /\ Len(Tail(s)) = Len(s) - 1
        /\ \A i \in 1 .. Len(Tail(s)) : Tail(s)[i] = s[i + 1]
        /\ Len(s) \in Nat /\ 1 \in 1 .. Len(s) /\ Head(s) = s[1]
    OBVIOUS
  <1>2. QED
    BY <1>1 DEF InTickOrder, Within

LEMMA AppendKeeps ==
  ASSUME NEW s \in Seq(ClientPacket), InTickOrder(s), MapsAnnounced(s),
         NEW p \in ClientPacket, NEW low \in Nat, NEW high \in Nat,
         Within(s, low, high), low <= high, Ticked(p) => p.tick = high,
         p.type = "map" => s # <<>> /\ s[Len(s)].type = "beginMap"
  PROVE  /\ InTickOrder(Append(s, p))
         /\ MapsAnnounced(Append(s, p))
         /\ Within(Append(s, p), low, high)
         /\ Head(Append(s, p)).type = "map" => s # <<>> /\ Head(s).type = "map"
  <1> DEFINE r == Append(s, p)
  <1>1. /\ Len(r) = Len(s) + 1 /\ Len(s) \in Nat
        /\ r[Len(s) + 1] = p
        /\ \A i \in 1 .. Len(s) : r[i] = s[i]
        /\ Head(r) = r[1]
        /\ s # <<>> => Len(s) > 0 /\ Head(s) = s[1]
        /\ s = <<>> => Len(s) = 0
    OBVIOUS
  <1>2. \A i \in 1 .. Len(s) : s[i] \in ClientPacket
    OBVIOUS
  <1> HIDE DEF r
  <1>3. InTickOrder(r)
    <2> SUFFICES ASSUME NEW i \in 1 .. Len(r), NEW j \in 1 .. Len(r), i < j,
                        Ticked(r[i]), Ticked(r[j])
                 PROVE  r[i].tick <= r[j].tick
      BY DEF InTickOrder
    <2>1. i \in 1 .. Len(s) /\ r[i] = s[i]
      BY <1>1
    <2>2. CASE j = Len(s) + 1
      BY <1>1, <2>1, <2>2 DEF Within
    <2>3. CASE j # Len(s) + 1
      BY <1>1, <2>1, <2>3 DEF InTickOrder
    <2>4. QED
      BY <2>2, <2>3
  <1>4. MapsAnnounced(r)
    <2> SUFFICES ASSUME NEW i \in 2 .. Len(r), r[i].type = "map"
                 PROVE  r[i - 1].type = "beginMap"
      BY DEF MapsAnnounced
    <2>1. i \in Nat /\ i - 1 \in 1 .. Len(s) /\ r[i - 1] = s[i - 1]
      BY <1>1
    <2>2. CASE i = Len(s) + 1
      BY <1>1, <2>1, <2>2
    <2>3. CASE i # Len(s) + 1
      BY <1>1, <2>1, <2>3 DEF MapsAnnounced
    <2>4. QED
      BY <2>2, <2>3
  <1>5. Within(r, low, high)
    <2> SUFFICES ASSUME NEW i \in 1 .. Len(r), Ticked(r[i])
                 PROVE  low <= r[i].tick /\ r[i].tick <= high
      BY DEF Within
    <2>1. CASE i = Len(s) + 1
      BY <1>1, <2>1
    <2>2. CASE i # Len(s) + 1
      BY <1>1, <2>2 DEF Within
    <2>3. QED
      BY <2>1, <2>2
  <1>6. Head(r).type = "map" => s # <<>> /\ Head(s).type = "map"
    BY <1>1
  <1>7. QED
    BY <1>3, <1>4, <1>5, <1>6 DEF r

LEMMA WithinRaised ==
  ASSUME NEW s \in Seq(ClientPacket), NEW low \in Nat, NEW high \in Nat, NEW higher \in Nat,
         high <= higher, Within(s, low, high)
  PROVE  Within(s, low, higher)
  <1>1. \A i \in 1 .. Len(s) : s[i] \in ClientPacket
    OBVIOUS
  <1>2. QED
    BY <1>1, TickedType DEF Within
-----------------------------------------------------------------------------
(***************************************************************************)
(* The safety of the session, client by client.                            *)
(***************************************************************************)
InStep(c) == ChannelInv(c) /\ ClientInv(c)

Safe == TypeOK /\ LockstepInv

(***************************************************************************)
(* What leaves a client's side of the session alone keeps it in step: the  *)
(* host's clock may go on, and queued actions may be taken out.            *)
(***************************************************************************)
LEMMA Undisturbed ==
  ASSUME Safe, TypeOK', NEW c \in Client,
         tick[Host] <= tick'[Host],
         conn'[c] = conn[c], serverTick'[c] = serverTick[c], toClient'[c] = toClient[c],
         tick'[c] = tick[c], left'[c] = left[c], pc'[c] = pc[c],
         queue'[c] \subseteq queue[c]
  PROVE  InStep(c)'
  <1>1. /\ toClient[c] \in Seq(ClientPacket)
        /\ serverTick[c] \in Nat /\ tick[c] \in Nat /\ tick[Host] \in Nat /\ tick'[Host] \in Nat
    BY DEF Safe, TypeOK, Machine
  <1>2. ChannelInv(c) /\ ClientInv(c)
    BY DEF Safe, LockstepInv
  <1>3. ChannelInv(c)'
    <2>1. InTickOrder(toClient'[c]) /\ MapsAnnounced(toClient'[c])
      BY <1>2 DEF ChannelInv
    <2>2. Within(toClient'[c], serverTick'[c], tick'[Host])
      BY <1>1, <1>2, WithinRaised DEF ChannelInv
    <2>3. conn'[c] = "loaded" => Within(toClient'[c], tick'[c], tick'[Host])
      BY <1>1, <1>2, WithinRaised DEF ChannelInv
    <2>4. toClient'[c] # <<>> /\ Head(toClient'[c]).type = "map" => queue'[c] = {}
      BY <1>2 DEF ChannelInv
    <2>5. QED
      BY <2>1, <2>2, <2>3, <2>4 DEF ChannelInv
  <1>4. ClientInv(c)'
    BY <1>1, <1>2 DEF ClientInv
  <1>5. QED
    BY <1>3, <1>4 DEF InStep

(***************************************************************************)
(* What the host broadcasts under its own tick goes behind everything that *)
(* is on its way, at a moment when no client has gone past that tick.      *)
(***************************************************************************)
LEMMA BroadcastKeeps ==
  ASSUME Safe, TypeOK', NEW packet \in ClientPacket, Broadcast(packet),
         packet.type \in {"tick", "action"}, packet.tick = tick[Host],
         tick' = tick, conn' = conn, serverTick' = serverTick,
         \A c \in Client : left'[c] = left[c] /\ pc'[c] = pc[c] /\ queue'[c] = queue[c]
  PROVE  LockstepInv'
  <1> SUFFICES ASSUME NEW c \in Client PROVE InStep(c)'
    BY DEF LockstepInv, InStep
  <1>1. /\ toClient[c] \in Seq(ClientPacket)
        /\ serverTick[c] \in Nat /\ tick[c] \in Nat /\ tick[Host] \in Nat
    BY DEF Safe, TypeOK, Machine
  <1>2. ChannelInv(c) /\ ClientInv(c)
    BY DEF Safe, LockstepInv
  <1>3. ClientInv(c)'
    BY <1>1, <1>2 DEF ClientInv
  <1>4. CASE toClient'[c] = toClient[c]
    BY <1>1, <1>4, Undisturbed
  <1>5. CASE toClient'[c] = Append(toClient[c], packet)
    <2>1. serverTick[c] <= tick[Host] /\ (conn[c] = "loaded" => tick[c] <= tick[Host])
      BY <1>2 DEF ClientInv
    <2>2. packet.type # "map"
      OBVIOUS
    <2>3. /\ InTickOrder(toClient'[c])
          /\ MapsAnnounced(toClient'[c])
          /\ Within(toClient'[c], serverTick[c], tick[Host])
          /\ Head(toClient'[c]).type = "map" =>
               toClient[c] # <<>> /\ Head(toClient[c]).type = "map"
      BY <1>1, <1>2, <1>5, <2>1, <2>2, AppendKeeps DEF ChannelInv
    <2>4. conn[c] = "loaded" => Within(toClient'[c], tick[c], tick[Host])
      BY <1>1, <1>2, <1>5, <2>1, <2>2, AppendKeeps DEF ChannelInv
    <2>5. ChannelInv(c)'
      BY <1>2, <2>3, <2>4 DEF ChannelInv
    <2>6. QED
      BY <1>3, <2>5 DEF InStep
  <1>6. QED
    BY <1>4, <1>5 DEF Broadcast

(***************************************************************************)
(* A received packet: the channel that is left is in order, and a ticked   *)
(* packet lies between what the client knows and where the host is.        *)
(***************************************************************************)
LEMMA ReceiveKeeps ==
  ASSUME Safe, NEW c \in Client, NEW type, ClientReceives(c, type)
  PROVE  /\ InTickOrder(toClient'[c])
         /\ MapsAnnounced(toClient'[c])
         /\ Within(toClient'[c], serverTick[c], tick[Host])
         /\ conn[c] = "loaded" => Within(toClient'[c], tick[c], tick[Host])
         /\ toClient'[c] # <<>> /\ Head(toClient'[c]).type = "map" => type = "beginMap"
         /\ type \in {"tick", "action", "map"} =>
              LET p == Head(toClient[c]) IN
              /\ p.tick \in Nat
              /\ Within(toClient'[c], p.tick, tick[Host])
              /\ serverTick[c] <= p.tick /\ p.tick <= tick[Host]
              /\ conn[c] = "loaded" => tick[c] <= p.tick
         /\ type = "map" => queue[c] = {}
  <1>1. /\ toClient[c] \in Seq(ClientPacket) /\ toClient[c] # <<>>
        /\ Head(toClient[c]).type = type /\ Head(toClient[c]) \in ClientPacket
        /\ toClient'[c] = Tail(toClient[c])
    BY DEF ClientReceives, Safe, TypeOK
  <1>2. ChannelInv(c)
    BY DEF Safe, LockstepInv
  <1>3. /\ InTickOrder(toClient'[c])
        /\ MapsAnnounced(toClient'[c])
        /\ Within(toClient'[c], serverTick[c], tick[Host])
        /\ conn[c] = "loaded" => Within(toClient'[c], tick[c], tick[Host])
        /\ toClient'[c] # <<>> /\ Head(toClient'[c]).type = "map" => type = "beginMap"
    BY <1>1, <1>2, TailKeeps DEF ChannelInv
  <1>4. ASSUME type \in {"tick", "action", "map"}
        PROVE  LET p == Head(toClient[c]) IN
               /\ p.tick \in Nat
               /\ Within(toClient'[c], p.tick, tick[Host])
               /\ serverTick[c] <= p.tick /\ p.tick <= tick[Host]
               /\ conn[c] = "loaded" => tick[c] <= p.tick
    <2>1. Ticked(Head(toClient[c]))
      BY <1>1, <1>4 DEF Ticked
    <2>2. QED
      BY <1>1, <1>2, <2>1, TailWithin, TickedType DEF ChannelInv
  <1>5. type = "map" => queue[c] = {}
    BY <1>1, <1>2 DEF ChannelInv
  <1>6. QED
    BY <1>3, <1>4, <1>5
-----------------------------------------------------------------------------
LEMMA HostStepSafe ==
  ASSUME Safe, TypeOK',
         \/ Frame(Host)
         \/ UpdateHost
         \/ \E c \in Client : HostHandles(c)
         \/ \E cmd \in Command : HostIssues(cmd)
  PROVE  LockstepInv'
  <1> USE DEF simulation, session, network
  <1> Host \in Machine /\ \A c \in Client : c # Host
    BY MachineAssumption DEF Machine
  <1>t. /\ tick[Host] \in Nat
        /\ pc \in [Machine -> {"frame", "poll", "queue"}] /\ left \in [Machine -> Nat]
        /\ queue \in [Machine -> SUBSET QueuedAction] /\ tick \in [Machine -> Nat]
    BY DEF Safe, TypeOK
  <1>p. TickPacket \in ClientPacket /\ TickPacket.type = "tick" /\ TickPacket.tick = tick[Host]
    BY TickPacketType DEF Safe, TickPacket
  <1>1. ASSUME BeginFrame(Host) PROVE LockstepInv'
    <2>1. /\ tick' = tick /\ conn' = conn /\ serverTick' = serverTick /\ queue' = queue
          /\ \A c \in Client : left'[c] = left[c] /\ pc'[c] = pc[c]
      <3>1. \/ pc' = [pc EXCEPT ![Host] = "queue"] /\ left' = [left EXCEPT ![Host] = 0]
            \/ pc' = [pc EXCEPT ![Host] = "poll"] /\ \E n : left' = [left EXCEPT ![Host] = n]
        BY <1>1 DEF BeginFrame
      <3>2. \A c \in Client : left'[c] = left[c] /\ pc'[c] = pc[c]
        BY <1>t, <3>1 DEF Machine
      <3>3. QED
        BY <1>1, <3>2 DEF BeginFrame
    <2>2. CASE Stopped(Host)
      <3>1. Broadcast(TickPacket)
        BY <1>1, <2>2 DEF BeginFrame
      <3>2. QED
        BY <1>p, <2>1, <3>1, BroadcastKeeps
    <2>3. CASE ~Stopped(Host)
      <3>1. toClient' = toClient
        BY <1>1, <2>3 DEF BeginFrame
      <3>2. QED
        BY <1>t, <2>1, <3>1, Undisturbed DEF LockstepInv, InStep, Machine
    <2>4. QED
      BY <2>2, <2>3
  <1>2. ASSUME EndIdlePoll(Host) PROVE LockstepInv'
    <2>1. /\ tick' = tick /\ conn' = conn /\ serverTick' = serverTick /\ queue' = queue
          /\ toClient' = toClient
          /\ \A c \in Client : left'[c] = left[c] /\ pc'[c] = pc[c]
      BY <1>2, <1>t DEF EndIdlePoll
    <2>2. QED
      BY <1>t, <2>1, Undisturbed DEF LockstepInv, InStep, Machine
  <1>3. ASSUME Execute(Host) PROVE LockstepInv'
    <2> PICK e \in queue[Host] :
          /\ queue' = [queue EXCEPT ![Host] = @ \ {e}]
          /\ IF Allowed(Host, e.cmd)
               THEN Broadcast([type |-> "action", tick |-> tick[Host], cmd |-> e.cmd])
               ELSE UNCHANGED toClient
      BY <1>3 DEF Execute
    <2> DEFINE p == [type |-> "action", tick |-> tick[Host], cmd |-> e.cmd]
    <2>1. p \in ClientPacket /\ p.type = "action" /\ p.tick = tick[Host]
      BY <1>t DEF ClientPacket, QueuedAction
    <2>2. /\ tick' = tick /\ conn' = conn /\ serverTick' = serverTick
          /\ \A c \in Client : left'[c] = left[c] /\ pc'[c] = pc[c] /\ queue'[c] = queue[c]
      BY <1>3, <1>t DEF Execute
    <2>3. CASE Allowed(Host, e.cmd)
      <3>1. Broadcast(p)
        BY <2>3
      <3> HIDE DEF p
      <3>2. QED
        BY <2>1, <2>2, <3>1, BroadcastKeeps
    <2>4. CASE ~Allowed(Host, e.cmd)
      <3>1. toClient' = toClient
        BY <2>4
      <3>2. QED
        BY <1>t, <2>2, <3>1, Undisturbed DEF LockstepInv, InStep, Machine
    <2>5. QED
      BY <2>3, <2>4
  <1>4. ASSUME EndQueue(Host) PROVE LockstepInv'
    <2>1. /\ tick' = tick \/ tick' = [tick EXCEPT ![Host] = @ + 1]
          /\ conn' = conn /\ serverTick' = serverTick /\ queue' = queue /\ toClient' = toClient
          /\ \A c \in Client : left'[c] = left[c] /\ pc'[c] = pc[c]
      <3>1. \/ left' = left /\ pc' = [pc EXCEPT ![Host] = "poll"]
            \/ \E rest : /\ left' = [left EXCEPT ![Host] = rest]
                         /\ pc' = [pc EXCEPT ![Host] = IF rest = 0 THEN "frame" ELSE "poll"]
        BY <1>4 DEF EndQueue, AfterUpdate
      <3>2. \A c \in Client : left'[c] = left[c] /\ pc'[c] = pc[c]
        BY <1>t, <3>1 DEF Machine
      <3>3. QED
        BY <1>4, <3>2 DEF EndQueue
    <2>2. tick[Host] <= tick'[Host] /\ \A c \in Client : tick'[c] = tick[c]
      BY <1>t, <2>1 DEF Machine
    <2>3. QED
      BY <2>1, <2>2, Undisturbed DEF LockstepInv, InStep
  <1>5. ASSUME UpdateHost PROVE LockstepInv'
    <2>1. /\ tick' = tick /\ conn' = conn /\ serverTick' = serverTick /\ queue' = queue
          /\ Broadcast(TickPacket)
          /\ \A c \in Client : left'[c] = left[c] /\ pc'[c] = pc[c]
      BY <1>5, <1>t DEF UpdateHost
    <2>2. QED
      BY <1>p, <2>1, BroadcastKeeps
  <1>6. ASSUME NEW c \in Client, HandleMapRequest(c) PROVE LockstepInv'
    <2> SUFFICES ASSUME NEW d \in Client PROVE InStep(d)'
      BY DEF LockstepInv, InStep
    <2>1. /\ tick' = tick /\ conn' = conn /\ serverTick' = serverTick /\ queue' = queue
          /\ left' = left /\ pc' = pc
      BY <1>6 DEF HandleMapRequest
    <2>2. CASE d # c
      <3>1. toClient'[d] = toClient[d]
        BY <1>6, <2>2 DEF HandleMapRequest, Safe, TypeOK
      <3>2. QED
        BY <1>t, <2>1, <3>1, Undisturbed
    <2>3. CASE d = c
      <3> DEFINE begin == [type |-> "beginMap"]
                 map == [type |-> "map", tick |-> tick[Host], paused |-> paused[Host], log |-> log[Host]]
                 s == toClient[c]
                 r == Append(s, begin)
      <3>1. begin \in ClientPacket /\ map \in ClientPacket
        BY DEF ClientPacket, Safe, TypeOK
      <3>2. /\ begin.type = "beginMap" /\ ~Ticked(begin)
            /\ map.type = "map" /\ map.tick = tick[Host]
        BY DEF Ticked
      <3>3. s \in Seq(ClientPacket) /\ serverTick[c] \in Nat /\ tick[c] \in Nat
        BY DEF Safe, TypeOK, Machine
      <3>4. ChannelInv(c) /\ ClientInv(c)
        BY DEF Safe, LockstepInv
      <3>5. toClient'[c] = Append(r, map)
        <4>1. toClient'[c] = s \o <<begin, map>>
          BY <1>6 DEF HandleMapRequest, Safe, TypeOK
        <4> HIDE DEF begin, map, s
        <4>2. s \o <<begin, map>> = Append(Append(s, begin), map)
          BY <3>1, <3>3
        <4>3. QED
          BY <4>1, <4>2
      <3>6. r \in Seq(ClientPacket) /\ r # <<>> /\ r[Len(r)].type = "beginMap" /\ r[Len(r)] = begin
        BY <3>1, <3>3
      <3>7. serverTick[c] <= tick[Host] /\ (conn[c] = "loaded" => tick[c] <= tick[Host])
        BY <3>4 DEF ClientInv
      <3> HIDE DEF begin, map, s
      <3>8. /\ InTickOrder(r) /\ MapsAnnounced(r)
            /\ Within(r, serverTick[c], tick[Host])
            /\ Head(r).type = "map" => s # <<>> /\ Head(s).type = "map"
        BY <1>t, <3>1, <3>2, <3>3, <3>4, <3>7, AppendKeeps DEF ChannelInv, s
      <3>9. conn[c] = "loaded" => Within(r, tick[c], tick[Host])
        BY <1>t, <3>1, <3>2, <3>3, <3>4, <3>7, AppendKeeps DEF ChannelInv, s
      <3> HIDE DEF r
      <3>10. /\ InTickOrder(toClient'[c]) /\ MapsAnnounced(toClient'[c])
             /\ Within(toClient'[c], serverTick[c], tick[Host])
             /\ Head(toClient'[c]).type = "map" => r # <<>> /\ Head(r).type = "map"
        BY <1>t, <3>1, <3>2, <3>3, <3>5, <3>6, <3>7, <3>8, AppendKeeps
      <3>11. conn[c] = "loaded" => Within(toClient'[c], tick[c], tick[Host])
        BY <1>t, <3>1, <3>2, <3>3, <3>5, <3>6, <3>7, <3>8, <3>9, AppendKeeps
      <3>12. ChannelInv(c)'
        BY <2>1, <3>4, <3>8, <3>10, <3>11 DEF ChannelInv, s
      <3>13. ClientInv(c)'
        BY <2>1, <3>4 DEF ClientInv
      <3>14. QED
        BY <2>3, <3>12, <3>13 DEF InStep
    <2>4. QED
      BY <2>2, <2>3
  <1>7. ASSUME NEW c \in Client, HandleClientAction(c) PROVE LockstepInv'
    <2>1. /\ tick' = tick /\ conn' = conn /\ serverTick' = serverTick /\ toClient' = toClient
          /\ left' = left /\ pc' = pc /\ \A d \in Client : queue'[d] = queue[d]
      <3>1. \/ queue' = queue
            \/ \E new : queue' = [queue EXCEPT ![Host] = new]
        BY <1>7 DEF HandleClientAction, Enqueue
      <3>2. \A d \in Client : queue'[d] = queue[d]
        BY <1>t, <3>1 DEF Machine
      <3>3. QED
        BY <1>7, <3>2 DEF HandleClientAction
    <2>2. QED
      BY <1>t, <2>1, Undisturbed DEF LockstepInv, InStep
  <1>8. ASSUME NEW cmd \in Command, HostIssues(cmd) PROVE LockstepInv'
    <2>1. /\ tick' = tick /\ conn' = conn /\ serverTick' = serverTick /\ toClient' = toClient
          /\ left' = left /\ pc' = pc /\ \A d \in Client : queue'[d] = queue[d]
      BY <1>8, <1>t DEF HostIssues, Enqueue
    <2>2. QED
      BY <1>t, <2>1, Undisturbed DEF LockstepInv, InStep
  <1>9. QED
    BY <1>1, <1>2, <1>3, <1>4, <1>5, <1>6, <1>7, <1>8 DEF Frame, HostHandles
-----------------------------------------------------------------------------
LEMMA OthersUndisturbed ==
  ASSUME Safe, TypeOK', NEW c \in Client, tick'[Host] = tick[Host],
         \A d \in Client \ {c} :
           /\ conn'[d] = conn[d] /\ serverTick'[d] = serverTick[d] /\ toClient'[d] = toClient[d]
           /\ tick'[d] = tick[d] /\ left'[d] = left[d] /\ pc'[d] = pc[d] /\ queue'[d] = queue[d],
         InStep(c)'
  PROVE  LockstepInv'
  <1>1. ASSUME NEW d \in Client \ {c} PROVE InStep(d)'
    <2>1. tick[Host] \in Nat /\ queue'[d] \subseteq queue[d]
      BY DEF Safe, TypeOK, Machine
    <2>2. QED
      BY <2>1, Undisturbed
  <1>2. QED
    BY <1>1 DEF LockstepInv, InStep

\* What is known of a client's own variables before its step.
LEMMA ClientFacts ==
  ASSUME Safe, NEW c \in Client
  PROVE  /\ c \in Machine /\ Host \in Machine /\ c # Host
         /\ pc \in [Machine -> {"frame", "poll", "queue"}] /\ left \in [Machine -> Nat]
         /\ tick \in [Machine -> Nat] /\ queue \in [Machine -> SUBSET QueuedAction]
         /\ conn \in [Client -> {"none", "joining", "loaded"}]
         /\ serverTick \in [Client -> Nat]
         /\ toClient \in [Client -> Seq(ClientPacket)]
         /\ tick[Host] \in Nat /\ tick[c] \in Nat /\ serverTick[c] \in Nat /\ left[c] \in Nat
         /\ ChannelInv(c) /\ ClientInv(c)
  BY MachineAssumption DEF Safe, TypeOK, Machine, LockstepInv

(***************************************************************************)
(* The frame of a client: only the end of an update moves its clock, and   *)
(* an update only begins, unless a map came alone, when the server is ahead.*)
(***************************************************************************)
LEMMA ClientFrameSafe ==
  ASSUME Safe, TypeOK', ~MapAlone, NEW c \in Client, Frame(c) \/ ClientUpdate(c)
  PROVE  LockstepInv'
  <1> USE DEF simulation, session, network
  <1>t. /\ c \in Machine /\ Host \in Machine /\ c # Host
        /\ pc \in [Machine -> {"frame", "poll", "queue"}] /\ left \in [Machine -> Nat]
        /\ tick \in [Machine -> Nat] /\ queue \in [Machine -> SUBSET QueuedAction]
        /\ tick[Host] \in Nat /\ tick[c] \in Nat /\ serverTick[c] \in Nat /\ left[c] \in Nat
        /\ ChannelInv(c) /\ ClientInv(c)
    BY ClientFacts
  <1>1. ASSUME BeginFrame(c) PROVE LockstepInv'
    <2>1. /\ tick' = tick /\ conn' = conn /\ serverTick' = serverTick /\ queue' = queue
          /\ toClient' = toClient
      BY <1>1, <1>t DEF BeginFrame
    <2>2. \/ pc' = [pc EXCEPT ![c] = "queue"] /\ left' = [left EXCEPT ![c] = 0]
          \/ pc' = [pc EXCEPT ![c] = "poll"] /\ \E n : left' = [left EXCEPT ![c] = n]
      BY <1>1 DEF BeginFrame
    <2>3. \A d \in Client \ {c} : left'[d] = left[d] /\ pc'[d] = pc[d]
      BY <1>t, <2>2 DEF Machine
    <2>4. ClientInv(c)'
      BY <1>t, <2>1, <2>2 DEF ClientInv
    <2>5. ChannelInv(c)'
      BY <1>t, <2>1 DEF ChannelInv
    <2>6. QED
      BY <2>1, <2>3, <2>4, <2>5, OthersUndisturbed DEF InStep
  <1>2. ASSUME EndIdlePoll(c) PROVE LockstepInv'
    <2>1. /\ tick' = tick /\ conn' = conn /\ serverTick' = serverTick /\ queue' = queue
          /\ toClient' = toClient /\ left' = left /\ pc' = [pc EXCEPT ![c] = "frame"]
      BY <1>2, <1>t DEF EndIdlePoll
    <2>2. \A d \in Client \ {c} : pc'[d] = pc[d]
      BY <1>t, <2>1 DEF Machine
    <2>3. ClientInv(c)' /\ ChannelInv(c)'
      BY <1>t, <2>1 DEF ClientInv, ChannelInv
    <2>4. QED
      BY <2>1, <2>2, <2>3, OthersUndisturbed DEF InStep
  <1>3. ASSUME Execute(c) PROVE LockstepInv'
    <2>1. /\ tick' = tick /\ conn' = conn /\ serverTick' = serverTick /\ toClient' = toClient
          /\ left' = left /\ pc' = pc /\ \E e : queue' = [queue EXCEPT ![c] = @ \ {e}]
      BY <1>3, <1>t DEF Execute
    <2>2. queue'[c] \subseteq queue[c] /\ \A d \in Client \ {c} : queue'[d] = queue[d]
      BY <1>t, <2>1 DEF Machine
    <2>3. InStep(c)'
      BY <1>t, <2>1, <2>2, Undisturbed
    <2>4. QED
      BY <2>1, <2>2, <2>3, OthersUndisturbed
  <1>4. ASSUME EndQueue(c) PROVE LockstepInv'
    <2>1. /\ conn' = conn /\ serverTick' = serverTick /\ queue' = queue /\ toClient' = toClient
      BY <1>4, <1>t DEF EndQueue
    <2>2. CASE left[c] = 0
      <3>1. tick' = tick /\ left' = left /\ pc' = [pc EXCEPT ![c] = "poll"]
        BY <1>4, <2>2 DEF EndQueue
      <3>2. \A d \in Client \ {c} : pc'[d] = pc[d]
        BY <1>t, <3>1 DEF Machine
      <3>3. ClientInv(c)' /\ ChannelInv(c)'
        BY <1>t, <2>1, <3>1 DEF ClientInv, ChannelInv
      <3>4. QED
        BY <2>1, <3>1, <3>2, <3>3, OthersUndisturbed DEF InStep
    <2>3. CASE left[c] # 0
      <3>1. /\ conn[c] = "loaded"
            /\ tick[c] < serverTick[c] /\ serverTick[c] <= tick[Host]
            /\ \A e \in queue[c] : e.tick > tick[c] /\ e.tick \in Nat
        <4>1. conn[c] = "loaded" /\ tick[c] < serverTick[c] /\ serverTick[c] <= tick[Host]
          BY <1>4, <1>t, <2>3 DEF EndQueue, ClientInv
        <4>2. \A e \in queue[c] : ~Due(c, e)
          BY <1>4, <4>1 DEF EndQueue, Suspended
        <4>3. \A e \in queue[c] : e.tick \in Nat
          BY <1>t DEF QueuedAction
        <4>4. QED
          BY <1>t, <4>1, <4>2, <4>3 DEF Due
      <3>2. tick' = [tick EXCEPT ![c] = @ + 1] /\ AfterUpdate(c)
        BY <1>4, <2>3 DEF EndQueue
      <3>3. \E rest : /\ left' = [left EXCEPT ![c] = rest]
                      /\ pc' = [pc EXCEPT ![c] = IF rest = 0 THEN "frame" ELSE "poll"]
        BY <3>2 DEF AfterUpdate
      <3>4. pc'[c] # "queue" /\ \A d \in Client \ {c} : left'[d] = left[d] /\ pc'[d] = pc[d]
        BY <1>t, <3>3 DEF Machine
      <3>5. /\ tick'[c] = tick[c] + 1 /\ tick'[Host] = tick[Host]
            /\ \A d \in Client \ {c} : tick'[d] = tick[d]
        BY <1>t, <3>2 DEF Machine
      <3>6. ClientInv(c)'
        BY <1>t, <2>1, <3>1, <3>4, <3>5 DEF ClientInv
      <3>7. Within(toClient[c], tick[c] + 1, tick[Host])
        <4>1. \A i \in 1 .. Len(toClient[c]) : toClient[c][i] \in ClientPacket
          BY DEF Safe, TypeOK
        <4>2. QED
          BY <1>t, <3>1, <4>1, TickedType DEF ChannelInv, Within
      <3>8. ChannelInv(c)'
        BY <1>t, <2>1, <3>5, <3>7 DEF ChannelInv
      <3>9. QED
        BY <2>1, <3>4, <3>5, <3>6, <3>8, OthersUndisturbed DEF InStep
    <2>4. QED
      BY <2>2, <2>3
  <1>5. ASSUME SkipUpdate(c) \/ UpdateOldPark(c) PROVE LockstepInv'
    <2>1. /\ tick' = tick /\ conn' = conn /\ serverTick' = serverTick /\ queue' = queue
          /\ toClient' = toClient /\ left[c] > 0
          /\ \E rest : /\ left' = [left EXCEPT ![c] = rest]
                       /\ pc' = [pc EXCEPT ![c] = IF rest = 0 THEN "frame" ELSE "poll"]
      BY <1>5, <1>t DEF SkipUpdate, UpdateOldPark, AfterUpdate
    <2>2. pc'[c] # "queue" /\ \A d \in Client \ {c} : left'[d] = left[d] /\ pc'[d] = pc[d]
      BY <1>t, <2>1 DEF Machine
    <2>3. ClientInv(c)' /\ ChannelInv(c)'
      BY <1>t, <2>1, <2>2 DEF ClientInv, ChannelInv
    <2>4. QED
      BY <2>1, <2>2, <2>3, OthersUndisturbed DEF InStep
  <1>6. ASSUME UpdateClient(c) PROVE LockstepInv'
    <2>1. /\ tick' = tick /\ conn' = conn /\ serverTick' = serverTick /\ queue' = queue
          /\ toClient' = toClient /\ left' = left /\ pc' = [pc EXCEPT ![c] = "queue"]
      BY <1>6, <1>t DEF UpdateClient
    <2>2. \A d \in Client \ {c} : pc'[d] = pc[d]
      BY <1>t, <2>1 DEF Machine
    <2>3. conn[c] = "loaded" /\ tick[c] < serverTick[c]
      <3>1. ~Suspended(c) /\ MayStopReading(c) /\ serverTick[c] # tick[c]
        BY <1>6 DEF UpdateClient
      <3>2. conn[c] = "loaded"
        BY <3>1 DEF Suspended
      <3>3. QED
        BY <1>t, <3>1, <3>2 DEF MayStopReading
    <2>4. ClientInv(c)' /\ ChannelInv(c)'
      BY <1>t, <2>1, <2>3 DEF ClientInv, ChannelInv
    <2>5. QED
      BY <2>1, <2>2, <2>4, OthersUndisturbed DEF InStep
  <1>7. QED
    BY <1>1, <1>2, <1>3, <1>4, <1>5, <1>6 DEF Frame, ClientUpdate
(***************************************************************************)
(* What a client handles in Network::Tick.                                 *)
(***************************************************************************)
LEMMA ClientHandlesSafe ==
  ASSUME Safe, TypeOK', NEW c \in Client, ClientHandles(c)
  PROVE  LockstepInv'
  <1> USE DEF simulation, session, network
  <1>t. /\ c \in Machine /\ Host \in Machine /\ c # Host
        /\ tick \in [Machine -> Nat] /\ queue \in [Machine -> SUBSET QueuedAction]
        /\ conn \in [Client -> {"none", "joining", "loaded"}]
        /\ serverTick \in [Client -> Nat]
        /\ toClient \in [Client -> Seq(ClientPacket)]
        /\ tick[Host] \in Nat /\ tick[c] \in Nat /\ serverTick[c] \in Nat
        /\ ChannelInv(c) /\ ClientInv(c)
    BY ClientFacts
  <1>1. ASSUME HandleObjectsList(c) PROVE LockstepInv'
    <2>1. /\ tick' = tick /\ conn' = conn /\ serverTick' = serverTick /\ queue' = queue
          /\ left' = left /\ pc' = pc /\ ClientReceives(c, "objects")
      BY <1>1 DEF HandleObjectsList
    <2>2. \A d \in Client \ {c} : toClient'[d] = toClient[d]
      BY <1>t, <2>1 DEF ClientReceives
    <2>3. ChannelInv(c)'
      BY <2>1, ReceiveKeeps DEF ChannelInv
    <2>4. ClientInv(c)'
      BY <1>t, <2>1 DEF ClientInv
    <2>5. QED
      BY <2>1, <2>2, <2>3, <2>4, OthersUndisturbed DEF InStep
  <1>2. ASSUME HandleBeginMap(c) PROVE LockstepInv'
    <2>1. /\ tick' = tick /\ conn' = conn /\ serverTick' = serverTick
          /\ queue' = [queue EXCEPT ![c] = {}]
          /\ left' = left /\ pc' = pc /\ ClientReceives(c, "beginMap")
      BY <1>2 DEF HandleBeginMap
    <2>2. \A d \in Client \ {c} : toClient'[d] = toClient[d] /\ queue'[d] = queue[d]
      BY <1>t, <2>1 DEF ClientReceives, Machine
    <2>3. queue'[c] = {}
      BY <1>t, <2>1
    <2>4. ChannelInv(c)'
      BY <2>1, <2>3, ReceiveKeeps DEF ChannelInv
    <2>5. ClientInv(c)'
      BY <1>t, <2>1, <2>3 DEF ClientInv
    <2>6. QED
      BY <2>1, <2>2, <2>4, <2>5, OthersUndisturbed DEF InStep
  <1>3. ASSUME HandleMap(c) PROVE LockstepInv'
    <2> DEFINE t == Head(toClient[c]).tick
    <2>1. /\ tick' = [tick EXCEPT ![c] = t] /\ conn' = [conn EXCEPT ![c] = "loaded"]
          /\ serverTick' = serverTick /\ queue' = queue
          /\ left' = left /\ pc' = pc /\ ClientReceives(c, "map")
      BY <1>3 DEF HandleMap
    <2>2. /\ t \in Nat /\ serverTick[c] <= t /\ t <= tick[Host]
          /\ Within(toClient'[c], t, tick[Host]) /\ queue[c] = {}
      BY <2>1, ReceiveKeeps
    <2>3. /\ tick'[c] = t /\ tick'[Host] = tick[Host] /\ conn'[c] = "loaded"
          /\ \A d \in Client \ {c} :
               toClient'[d] = toClient[d] /\ tick'[d] = tick[d] /\ conn'[d] = conn[d]
      BY <1>t, <2>1 DEF ClientReceives, Machine
    <2>4. pc[c] = "poll"
      BY <2>1 DEF ClientReceives
    <2> HIDE DEF t
    <2>5. ChannelInv(c)'
      BY <2>1, <2>2, <2>3, ReceiveKeeps DEF ChannelInv
    <2>6. ClientInv(c)'
      BY <1>t, <2>1, <2>2, <2>3, <2>4 DEF ClientInv
    <2>7. QED
      BY <2>1, <2>3, <2>5, <2>6, OthersUndisturbed DEF InStep
  <1>4. ASSUME HandleTick(c) PROVE LockstepInv'
    <2> DEFINE t == Head(toClient[c]).tick
    <2>1. /\ tick' = tick /\ conn' = conn /\ queue' = queue
          /\ serverTick' = [serverTick EXCEPT ![c] = t]
          /\ left' = left /\ pc' = pc /\ ClientReceives(c, "tick")
      BY <1>4 DEF HandleTick
    <2>2. /\ t \in Nat /\ serverTick[c] <= t /\ t <= tick[Host]
          /\ Within(toClient'[c], t, tick[Host])
          /\ conn[c] = "loaded" => tick[c] <= t
      BY <2>1, ReceiveKeeps
    <2>3. /\ serverTick'[c] = t
          /\ \A d \in Client \ {c} : toClient'[d] = toClient[d] /\ serverTick'[d] = serverTick[d]
      BY <1>t, <2>1 DEF ClientReceives
    <2>4. pc[c] = "poll"
      BY <2>1 DEF ClientReceives
    <2> HIDE DEF t
    <2>5. ChannelInv(c)'
      BY <2>1, <2>2, <2>3, ReceiveKeeps DEF ChannelInv
    <2>6. ClientInv(c)'
      BY <1>t, <2>1, <2>2, <2>3, <2>4 DEF ClientInv
    <2>7. QED
      BY <2>1, <2>3, <2>5, <2>6, OthersUndisturbed DEF InStep
  <1>5. ASSUME HandleRelayedAction(c) PROVE LockstepInv'
    <2> DEFINE t == Head(toClient[c]).tick
               e == [tick |-> t, uid |-> nextUid[c], cmd |-> Head(toClient[c]).cmd]
    <2>1. /\ tick' = tick /\ conn' = conn /\ serverTick' = serverTick
          /\ queue' = [queue EXCEPT ![c] = @ \union {e}]
          /\ left' = left /\ pc' = pc /\ ClientReceives(c, "action")
      BY <1>5 DEF HandleRelayedAction, Enqueue
    <2>2. t \in Nat /\ (conn[c] = "loaded" => tick[c] <= t) /\ e.tick = t
      BY <2>1, ReceiveKeeps
    <2> HIDE DEF e, t
    <2>3. /\ queue'[c] = queue[c] \union {e}
          /\ \A d \in Client \ {c} : toClient'[d] = toClient[d] /\ queue'[d] = queue[d]
      BY <1>t, <2>1 DEF ClientReceives, Machine
    <2>4. ChannelInv(c)'
      BY <2>1, ReceiveKeeps DEF ChannelInv
    <2>5. ClientInv(c)'
      BY <1>t, <2>1, <2>2, <2>3 DEF ClientInv
    <2>6. QED
      BY <2>1, <2>3, <2>4, <2>5, OthersUndisturbed DEF InStep
  <1>6. QED
    BY <1>1, <1>2, <1>3, <1>4, <1>5 DEF ClientHandles

LEMMA PlayerSafe ==
  ASSUME Safe, TypeOK',
         \/ \E m \in Machine : ToggleTrackSave(m)
         \/ \E cmd \in Command, c \in Client : ClientIssues(c, cmd)
         \/ \E c \in Client : Join(c) \/ Leave(c)
  PROVE  LockstepInv'
  <1> USE DEF simulation, session, network
  <1>1. ASSUME \/ \E m \in Machine : ToggleTrackSave(m)
               \/ \E cmd \in Command, c \in Client : ClientIssues(c, cmd)
        PROVE  LockstepInv'
    <2>1. /\ tick' = tick /\ conn' = conn /\ serverTick' = serverTick /\ queue' = queue
          /\ left' = left /\ pc' = pc /\ toClient' = toClient
      BY <1>1 DEF ToggleTrackSave, ClientIssues
    <2>2. tick[Host] \in Nat
      BY DEF Safe, TypeOK, Machine
    <2>3. QED
      BY <2>1, <2>2, Undisturbed DEF LockstepInv, InStep
  <1>2. ASSUME NEW c \in Client, Join(c) PROVE LockstepInv'
    <2>t. /\ conn \in [Client -> {"none", "joining", "loaded"}]
          /\ toClient \in [Client -> Seq(ClientPacket)]
          /\ left[c] \in Nat /\ ChannelInv(c) /\ ClientInv(c)
      BY ClientFacts
    <2>1. /\ tick' = tick /\ serverTick' = serverTick /\ queue' = queue /\ left' = left /\ pc' = pc
          /\ conn[c] = "none" /\ conn' = [conn EXCEPT ![c] = "joining"]
          /\ toClient' = [toClient EXCEPT ![c] = <<[type |-> "objects"]>>]
      BY <1>2 DEF Join
    <2>2. /\ conn'[c] = "joining"
          /\ \A d \in Client \ {c} : toClient'[d] = toClient[d] /\ conn'[d] = conn[d]
      BY <2>t, <2>1
    <2>3. /\ Len(toClient'[c]) = 1 /\ toClient'[c][1].type = "objects"
          /\ Head(toClient'[c]).type = "objects"
      BY <2>t, <2>1
    <2>4. ChannelInv(c)'
      BY <2>2, <2>3 DEF ChannelInv, InTickOrder, Within, MapsAnnounced, Ticked
    <2>5. ClientInv(c)'
      BY <2>t, <2>1, <2>2 DEF ClientInv
    <2>6. QED
      BY <2>1, <2>2, <2>4, <2>5, OthersUndisturbed DEF InStep
  <1>3. ASSUME NEW c \in Client, Leave(c) PROVE LockstepInv'
    <2>t. /\ c \in Machine /\ Host \in Machine /\ c # Host
          /\ pc \in [Machine -> {"frame", "poll", "queue"}] /\ left \in [Machine -> Nat]
          /\ tick \in [Machine -> Nat] /\ queue \in [Machine -> SUBSET QueuedAction]
          /\ conn \in [Client -> {"none", "joining", "loaded"}]
          /\ toClient \in [Client -> Seq(ClientPacket)]
          /\ ClientInv(c)
      BY ClientFacts
    <2>1. /\ serverTick' = serverTick /\ conn' = [conn EXCEPT ![c] = "none"]
          /\ pc' = [pc EXCEPT ![c] = "frame"] /\ left' = [left EXCEPT ![c] = 0]
          /\ queue' = [queue EXCEPT ![c] = {}] /\ tick' = [tick EXCEPT ![c] = 0]
          /\ toClient' = [toClient EXCEPT ![c] = <<>>]
      BY <1>3 DEF Leave
    <2>2. /\ conn'[c] = "none" /\ pc'[c] = "frame" /\ left'[c] = 0
          /\ queue'[c] = {} /\ toClient'[c] = <<>> /\ tick'[Host] = tick[Host]
      BY <2>t, <2>1
    <2>3. \A d \in Client \ {c} :
            /\ conn'[d] = conn[d] /\ toClient'[d] = toClient[d] /\ tick'[d] = tick[d]
            /\ left'[d] = left[d] /\ pc'[d] = pc[d] /\ queue'[d] = queue[d]
      BY <2>t, <2>1 DEF Machine
    <2>4. ChannelInv(c)'
      BY <2>2 DEF ChannelInv, InTickOrder, Within, MapsAnnounced
    <2>5. ClientInv(c)'
      BY <2>t, <2>1, <2>2 DEF ClientInv
    <2>6. QED
      BY <2>1, <2>2, <2>3, <2>4, <2>5, OthersUndisturbed DEF InStep
  <1>4. QED
    BY <1>1, <1>2, <1>3

(***************************************************************************)
(* In a session where no client stops reading between a map and the tick   *)
(* behind it, clients stay behind the server and never hold an action of a *)
(* past tick: the assertion of ProcessQueue holds, for any number of       *)
(* clients and any speed, lag, pauses, joins and losses of connection.     *)
(***************************************************************************)
THEOREM ClientsStayBehind ==
  ASSUME ~MapAlone
  PROVE  Spec => [](LockstepInv /\ NoActionBehindTick /\ NeverAheadOfServer)
  <1>1. Init => Safe
    <2> SUFFICES ASSUME Init PROVE LockstepInv
      BY TypeInit DEF Safe
    <2> SUFFICES ASSUME NEW c \in Client PROVE ChannelInv(c) /\ ClientInv(c)
      BY DEF LockstepInv
    <2>1. /\ toClient[c] = <<>> /\ tick[c] = 0 /\ tick[Host] = 0 /\ serverTick[c] = 0
          /\ left[c] = 0 /\ queue[c] = {}
      BY DEF Init, Machine
    <2>2. QED
      BY <2>1 DEF ChannelInv, ClientInv, InTickOrder, Within, MapsAnnounced
  <1>2. Safe /\ [Next]_vars => Safe'
    <2> SUFFICES ASSUME Safe, [Next]_vars, TypeOK' PROVE LockstepInv'
      BY TypeStep DEF Safe
    <2>2. CASE UNCHANGED vars
      BY <2>2 DEF vars, simulation, session, network, Safe, TypeOK, LockstepInv, ChannelInv,
                  ClientInv
    <2>3. CASE Next
      <3>1. CASE \E m \in Machine : Frame(m)
        BY <3>1, HostStepSafe, ClientFrameSafe DEF Machine
      <3>2. CASE UpdateHost \/ \E c \in Client : HostHandles(c) \/ \E cmd \in Command : HostIssues(cmd)
        BY <3>2, HostStepSafe
      <3>3. CASE \E c \in Client : ClientUpdate(c) \/ ClientHandles(c)
        BY <3>3, ClientFrameSafe, ClientHandlesSafe
      <3>4. CASE \/ \E m \in Machine : ToggleTrackSave(m)
                 \/ \E cmd \in Command, c \in Client : ClientIssues(c, cmd)
                 \/ \E c \in Client : Join(c) \/ Leave(c)
        BY <3>4, PlayerSafe
      <3>5. QED
        BY <2>3, <3>1, <3>2, <3>3, <3>4, HostStepSafe DEF Next
    <2>4. QED
      BY <2>2, <2>3
  <1>3. Safe => LockstepInv /\ NoActionBehindTick /\ NeverAheadOfServer
    BY DEF Safe, LockstepInv, ClientInv, NoActionBehindTick, NeverAheadOfServer, Loaded
  <1>4. QED
    BY <1>1, <1>2, <1>3, PTL DEF Spec

(***************************************************************************)
(* The tick a client knows, the queue and the packets on the way to it fit *)
(* together, in every session of that kind.                                *)
(***************************************************************************)
THEOREM SessionIsConsistent ==
  ASSUME ~MapAlone
  PROVE  Spec => []LockstepInv
  <1>1. LockstepInv /\ NoActionBehindTick /\ NeverAheadOfServer => LockstepInv
    OBVIOUS
  <1>2. Spec => [](LockstepInv /\ NoActionBehindTick /\ NeverAheadOfServer)
    BY ClientsStayBehind
  <1>3. QED
    BY <1>1, <1>2, PTL

-----------------------------------------------------------------------------
(***************************************************************************)
(* The clients follow the host in a session that is paused at most once    *)
(* and where no window holds the simulation of one machine: what a client  *)
(* has not executed yet waits in its queue or is on its way to it, in the  *)
(* order in which the host executed it.                                    *)
(***************************************************************************)
PausedOnce == ~MaySaveTrack /\ \A x, y \in TogglePause : x = y

(***************************************************************************)
(* A simulation, the host's or a client's: mid in an update, after the     *)
(* world's and before the clock's.                                         *)
(***************************************************************************)
Simulation == [log : Seq(Entry), tick : Nat, paused : BOOLEAN, mid : BOOLEAN]

Updating(m) == pc[m] = "queue" /\ left[m] > 0

\* The queue is processed without an update.
Idling(m) == pc[m] = "queue" /\ left[m] = 0

View(m) == [log |-> log[m], tick |-> tick[m], paused |-> paused[m], mid |-> Updating(m)]

\* The simulation a client has loaded from a map.
Loads(p) == [log |-> p.log, tick |-> p.tick, paused |-> p.paused, mid |-> FALSE]

Steps(h) == 1 .. Len(h.log)
RunAt(h, i, cmd) == h.log[i].type = "run" /\ h.log[i].cmd = cmd
LogicAt(h, i, t) == h.log[i].type = "logic" /\ h.log[i].tick = t

\* The world has been updated at that tick.
Updated(h, t) == t < h.tick \/ (t = h.tick /\ h.mid)

Prefix(s, t) == Sim!Prefix(s, t)

(***************************************************************************)
(* The host's own steps.                                                   *)
(***************************************************************************)
HostLog(h) ==
  /\ \A i \in Steps(h), t \in Nat : LogicAt(h, i, t) => Updated(h, t)
  /\ \A i, j \in Steps(h), t, u \in Nat : i < j /\ LogicAt(h, i, t) /\ LogicAt(h, j, u) => t < u
  /\ \A i, j \in Steps(h), cmd \in Command : RunAt(h, i, cmd) /\ RunAt(h, j, cmd) => i = j
  /\ \A i \in Steps(h), cmd \in TogglePause : ~RunAt(h, i, cmd)

HostFrame ==
  /\ \A m \in Machine : ~saving[m]
  /\ paused[Host] /\ pc[Host] = "poll" => left[Host] = 0
  /\ Idling(Host) => paused[Host] \/ Connected = {}

\* Where a command is on its way to the host's simulation.
Holds(t, cmd) == \E i \in 1 .. Len(t) : t[i].type = "action" /\ t[i].cmd = cmd
OnceSent(t) ==
  \A i, j \in 1 .. Len(t) :
    t[i].type = "action" /\ t[j].type = "action" /\ t[i].cmd = t[j].cmd => i = j

Sent(c, cmd) == Holds(toHost[c], cmd)
Asked(cmd) == \E e \in queue[Host] : e.cmd = cmd
Done(h, cmd) == (\E i \in Steps(h) : RunAt(h, i, cmd)) \/ (cmd \in TogglePause /\ h.paused)

Once ==
  /\ \A cmd \in unsent : ~Asked(cmd) /\ ~Done(View(Host), cmd) /\ \A c \in Client : ~Sent(c, cmd)
  /\ \A c \in Client, cmd \in Command : Sent(c, cmd) => ~Asked(cmd) /\ ~Done(View(Host), cmd)
  /\ \A c, d \in Client, cmd \in Command : Sent(c, cmd) /\ Sent(d, cmd) => c = d
  /\ \A c \in Client : OnceSent(toHost[c])
  /\ \A e, f \in queue[Host] : e.cmd = f.cmd => e = f
  /\ \A e \in queue[Host] : ~Done(View(Host), e.cmd)

(***************************************************************************)
(* What a client has still to execute: at is 0 in its queue, otherwise the *)
(* place in the channel.                                                   *)
(***************************************************************************)
Item == [tick : Nat, cmd : Command, at : Nat, uid : Nat]

InQueue(e) == [tick |-> e.tick, cmd |-> e.cmd, at |-> 0, uid |-> e.uid]
InChannel(p, i) == [tick |-> p.tick, cmd |-> p.cmd, at |-> i, uid |-> 0]

\* With the queue q, behind the first k packets of s.
Waiting(q, s, k) ==
  {InQueue(e) : e \in q}
    \union {InChannel(s[i], i) : i \in {j \in 1 .. Len(s) : k < j /\ s[j].type = "action"}}

Earlier(a, b) ==
  \/ a.at < b.at
  \/ a.at = 0 /\ b.at = 0 /\ (a.tick < b.tick \/ (a.tick = b.tick /\ a.uid < b.uid))

(***************************************************************************)
(* The simulation r of a client, for which the items of W wait, repeats    *)
(* that of the host, h.                                                    *)
(***************************************************************************)
\* What waits was executed by the host behind r, and the other way round.
Expected(h, r, W) ==
  \A a \in W : a.cmd \notin TogglePause => \E i \in Steps(h) : Len(r.log) < i /\ RunAt(h, i, a.cmd)

Announced(h, r, W) ==
  \A i \in Steps(h), cmd \in Command :
    Len(r.log) < i /\ RunAt(h, i, cmd) => \E a \in W : a.cmd = cmd

\* In the same order, and under the tick of the updates around it.
Ordered(h, W) ==
  \A a, b \in W : Earlier(a, b) =>
    \A i, j \in Steps(h) : RunAt(h, i, a.cmd) /\ RunAt(h, j, b.cmd) => i < j

Timed(h, W) ==
  \A a \in W :
    /\ a.tick <= h.tick /\ (a.tick < h.tick \/ h.mid \/ h.paused)
    /\ \A i, j \in Steps(h), t \in Nat : RunAt(h, i, a.cmd) /\ LogicAt(h, j, t) =>
         (j < i => t <= a.tick) /\ (i < j => a.tick < t)

\* The updates the client has still to make are those from its tick on.
Missing(r, t) == r.tick < t \/ (r.tick = t /\ ~r.mid)

UpdatesFit(h, r) ==
  /\ \A j \in Steps(h), t \in Nat : Len(r.log) < j /\ LogicAt(h, j, t) => Missing(r, t)
  /\ \A t \in Nat : Updated(h, t) /\ Missing(r, t) => \E j \in Steps(h) : Len(r.log) < j /\ LogicAt(h, j, t)

\* Nothing is updated after the pause, and nothing built.
PauseIsLast(h, W) ==
  \A a \in W : a.cmd \in TogglePause =>
    /\ h.paused
    /\ \A j \in Steps(h), t \in Nat : LogicAt(h, j, t) => t <= a.tick
    /\ \A b \in W : b.cmd \in Build => b.cmd \in TogglePause \/ Earlier(b, a)
    /\ \A b \in W : b.cmd \in TogglePause => a = b

PausedRightly(h, r, W) ==
  r.paused => /\ h.paused
              /\ \A j \in Steps(h), t \in Nat : Len(r.log) < j => ~LogicAt(h, j, t)
              /\ \A a \in W : a.cmd \notin Build \union TogglePause

Follows(h, r, W) ==
  /\ Prefix(r.log, h.log)
  /\ Expected(h, r, W) /\ Announced(h, r, W) /\ Ordered(h, W) /\ Timed(h, W)
  /\ UpdatesFit(h, r) /\ PauseIsLast(h, W) /\ PausedRightly(h, r, W)

FollowsHost(c) ==
  /\ conn[c] = "loaded" => Follows(View(Host), View(c), Waiting(queue[c], toClient[c], 0))
  /\ \A k \in 1 .. Len(toClient[c]) : toClient[c][k].type = "map" =>
       Follows(View(Host), Loads(toClient[c][k]), Waiting({}, toClient[c], k))
  /\ conn[c] = "loaded" /\ Idling(c) => paused[c]

(***************************************************************************)
(* A client joins once: the object list, the request and the map follow    *)
(* each other.                                                             *)
(***************************************************************************)
NoJoining(s) == \A i \in 1 .. Len(s) : s[i].type \notin {"objects", "beginMap", "map"}
NoRequest(s) == \A i \in 1 .. Len(s) : s[i].type # "mapRequest"

\* With s on its way to the client and t on its way to the host.
Joining(s, t) ==
  /\ NoJoining(s) \/ NoRequest(t)
  /\ \A i, j \in 1 .. Len(t) : t[i].type = "mapRequest" /\ t[j].type = "mapRequest" => i = j
  /\ \A i, j \in 1 .. Len(s) :
       s[i].type \in {"objects", "map"} /\ s[j].type \in {"objects", "map"} => i = j
  /\ \A i \in 1 .. Len(s) : s[i].type = "beginMap" => i + 1 \in 1 .. Len(s) /\ s[i + 1].type = "map"

JoinsOnce(c) ==
  /\ conn[c] = "none" => toClient[c] = <<>> /\ toHost[c] = <<>> /\ tickData[c] = {}
  /\ conn[c] = "loaded" => NoJoining(toClient[c]) /\ NoRequest(toHost[c])
  /\ Joining(toClient[c], toHost[c])

\* The queue of a client is in the order of arrival.
QueueInOrder(c) ==
  /\ \A e \in queue[c] : e.uid < nextUid[c] /\ e.tick <= tick[Host]
  /\ \A e, f \in queue[c] : e.uid = f.uid => e = f
  /\ \A e \in queue[c] : \A i \in 1 .. Len(toClient[c]) :
       toClient[c][i].type = "action" => e.tick <= toClient[c][i].tick

\* A checksum is that of the state before the update of its tick.
Rightful(h, d) ==
  /\ d.tick <= h.tick /\ (d.tick < h.tick \/ h.mid \/ h.paused)
  /\ \A j \in Steps(h) : LogicAt(h, j, d.tick) => Len(d.sum) = j - 1 /\ Prefix(d.sum, h.log)

ChecksumsFit(c) ==
  /\ \A d \in tickData[c] : Rightful(View(Host), d)
  /\ \A i \in 1 .. Len(toClient[c]) : toClient[c][i].type = "tick" => Rightful(View(Host), toClient[c][i])
  /\ conn[c] = "loaded" => ~desynced[c]

ReplicaInv(c) == FollowsHost(c) /\ JoinsOnce(c) /\ QueueInOrder(c) /\ ChecksumsFit(c)

FollowInv == HostLog(View(Host)) /\ HostFrame /\ Once /\ \A c \in Client : ReplicaInv(c)

-----------------------------------------------------------------------------
(***************************************************************************)
(* The host's log, and what is said of a client when it grows.             *)
(***************************************************************************)
LEMMA StepForms ==
  ASSUME NEW h \in Simulation
  PROVE  /\ h.log \in Seq(Entry) /\ Len(h.log) \in Nat /\ h.tick \in Nat
         /\ h.mid \in BOOLEAN /\ h.paused \in BOOLEAN
         /\ \A i \in Steps(h) : \/ \E t \in Nat : LogicAt(h, i, t)
                                \/ \E cmd \in Command : RunAt(h, i, cmd)
         /\ \A i \in Steps(h) : \A t : LogicAt(h, i, t) => h.log[i] = Logic(t)
         /\ \A i \in Steps(h) : \A cmd : RunAt(h, i, cmd) => h.log[i] = Run(cmd)
  <1>1. h.log \in Seq(Entry) /\ Len(h.log) \in Nat
    BY DEF Simulation
  <1>2. \A i \in Steps(h) : h.log[i] \in Entry
    BY <1>1 DEF Steps
  <1>3. QED
    BY <1>1, <1>2 DEF Entry, LogicAt, RunAt, Logic, Run, Simulation

\* A step is executed.
LEMMA LogGrows ==
  ASSUME NEW h \in Simulation, NEW g \in Simulation, NEW x \in Entry, g.log = Append(h.log, x)
  PROVE  /\ Steps(g) = Steps(h) \union {Len(h.log) + 1} /\ Len(h.log) + 1 \notin Steps(h)
         /\ \A i \in Steps(h) : i \in Nat /\ i < Len(h.log) + 1 /\ g.log[i] = h.log[i]
         /\ \A i \in Steps(h) : \A cmd : RunAt(g, i, cmd) <=> RunAt(h, i, cmd)
         /\ \A i \in Steps(h) : \A t : LogicAt(g, i, t) <=> LogicAt(h, i, t)
         /\ g.log[Len(h.log) + 1] = x
         /\ Len(g.log) = Len(h.log) + 1 /\ Len(h.log) \in Nat
         /\ \A l \in Seq(Entry) : Prefix(l, h.log) => Prefix(l, g.log) /\ Len(l) < Len(h.log) + 1
  <1>1. h.log \in Seq(Entry) /\ Len(h.log) \in Nat
    BY StepForms
  <1>2. /\ Len(g.log) = Len(h.log) + 1
        /\ \A i \in 1 .. Len(h.log) : g.log[i] = h.log[i]
        /\ g.log[Len(h.log) + 1] = x
    BY <1>1
  <1>3. ASSUME NEW l \in Seq(Entry), Prefix(l, h.log)
        PROVE  Prefix(l, g.log) /\ Len(l) < Len(h.log) + 1
    <2>1. Len(l) \in Nat
      OBVIOUS
    <2>2. QED
      BY <1>1, <1>2, <1>3, <2>1 DEF Prefix, Sim!Prefix
  <1>4. QED
    BY <1>1, <1>2, <1>3 DEF Steps, RunAt, LogicAt

LEMMA EarlierOrders ==
  ASSUME NEW a \in Item, NEW b \in Item
  PROVE  ~Earlier(a, a) /\ ~(Earlier(a, b) /\ Earlier(b, a))
  BY DEF Earlier, Item

LEMMA UpdateLogged ==
  ASSUME NEW h \in Simulation, NEW g \in Simulation, NEW t \in Nat, g.log = Append(h.log, Logic(t))
  PROVE  LET new == Len(h.log) + 1 IN
         /\ \A cmd : ~RunAt(g, new, cmd)
         /\ \A x : LogicAt(g, new, x) <=> x = t
  <1>1. Logic(t) \in Entry
    BY DEF Logic, Entry
  <1>2. g.log[Len(h.log) + 1] = Logic(t)
    BY <1>1, LogGrows
  <1>3. QED
    BY <1>2 DEF RunAt, LogicAt, Logic

LEMMA RunLogged ==
  ASSUME NEW h \in Simulation, NEW g \in Simulation, NEW cmd \in Command, g.log = Append(h.log, Run(cmd))
  PROVE  LET new == Len(h.log) + 1 IN
         /\ \A x : RunAt(g, new, x) <=> x = cmd
         /\ \A t : ~LogicAt(g, new, t)
  <1>1. Run(cmd) \in Entry
    BY DEF Run, Entry
  <1>2. g.log[Len(h.log) + 1] = Run(cmd)
    BY <1>1, LogGrows
  <1>3. QED
    BY <1>2 DEF RunAt, LogicAt, Run

(***************************************************************************)
(* The host updates its world.                                             *)
(***************************************************************************)
LEMMA HostUpdates ==
  ASSUME NEW h \in Simulation, NEW g \in Simulation, NEW r \in Simulation, NEW W \in SUBSET Item,
         Follows(h, r, W), Missing(r, h.tick),
         g.log = Append(h.log, Logic(h.tick)), g.tick = h.tick,
         ~h.paused, ~g.paused, ~h.mid, g.mid
  PROVE  Follows(g, r, W)
  <1> DEFINE new == Len(h.log) + 1
  <1>0. Logic(h.tick) \in Entry /\ h.tick \in Nat /\ r.log \in Seq(Entry)
    BY StepForms DEF Logic, Entry
  <1>1. /\ Steps(g) = Steps(h) \union {new} /\ new \notin Steps(h)
        /\ \A i \in Steps(h) : i \in Nat /\ i < new
        /\ \A i \in Steps(h) : \A cmd : RunAt(g, i, cmd) <=> RunAt(h, i, cmd)
        /\ \A i \in Steps(h) : \A x : LogicAt(g, i, x) <=> LogicAt(h, i, x)
    BY <1>0, LogGrows
  <1>a. Prefix(r.log, g.log) /\ Len(r.log) < new /\ new \in Nat
    <2>1. Prefix(r.log, h.log) /\ Len(h.log) \in Nat
      BY StepForms DEF Follows
    <2> DEFINE x == Logic(h.tick)
    <2>2. x \in Entry /\ g.log = Append(h.log, x)
      BY <1>0
    <2> HIDE DEF x
    <2>3. \A l \in Seq(Entry) : Prefix(l, h.log) => Prefix(l, g.log) /\ Len(l) < new
      BY <2>2, LogGrows
    <2>4. QED
      BY <1>0, <2>1, <2>3
  <1>2. /\ \A cmd : ~RunAt(g, new, cmd)
        /\ \A x : LogicAt(g, new, x) <=> x = h.tick
    BY <1>0, UpdateLogged
  <1> HIDE DEF new
  <1>3. Expected(g, r, W)
    BY <1>1, <1>a DEF Follows, Expected
  <1>4. Announced(g, r, W) /\ Ordered(g, W)
    BY <1>1, <1>a, <1>2 DEF Follows, Announced, Ordered
  <1>5. Timed(g, W)
    <2>1. \A b \in W :
            /\ b.tick \in Nat /\ b.tick < h.tick
            /\ \A i, j \in Steps(h), t \in Nat : RunAt(h, i, b.cmd) /\ LogicAt(h, j, t) =>
                 (j < i => t <= b.tick) /\ (i < j => b.tick < t)
      BY DEF Follows, Timed, Item
    <2>2. ASSUME NEW b \in W, NEW i \in Steps(g), NEW j \in Steps(g), NEW t \in Nat,
                 RunAt(g, i, b.cmd), LogicAt(g, j, t)
          PROVE  (j < i => t <= b.tick) /\ (i < j => b.tick < t)
      BY <1>0, <1>1, <1>a, <1>2, <2>1, <2>2
    <2>3. QED
      BY <1>0, <2>1, <2>2 DEF Timed
  <1>6. UpdatesFit(g, r)
    <2>1. \A x \in Nat : Updated(g, x) => Updated(h, x) \/ x = h.tick
      BY <1>0 DEF Updated
    <2>2. QED
      BY <1>1, <1>a, <1>2, <2>1 DEF Follows, UpdatesFit
  <1>7. PauseIsLast(g, W) /\ PausedRightly(g, r, W)
    BY DEF Follows, PauseIsLast, PausedRightly
  <1>8. QED
    BY <1>1, <1>a, <1>3, <1>4, <1>5, <1>6, <1>7 DEF Follows

(***************************************************************************)
(* The host executes an action, which is sent to the clients.              *)
(***************************************************************************)
LEMMA HostRuns ==
  ASSUME NEW h \in Simulation, NEW g \in Simulation, NEW r \in Simulation, NEW W \in SUBSET Item,
         Follows(h, r, W), HostLog(h), NEW x \in Item,
         x.tick = h.tick, \A a \in W : Earlier(a, x),
         x.cmd \notin TogglePause, ~Done(h, x.cmd), h.paused => x.cmd \notin Build,
         g.log = Append(h.log, Run(x.cmd)), g.tick = h.tick,
         g.paused = h.paused, g.mid = h.mid, h.mid \/ h.paused
  PROVE  Follows(g, r, W \union {x})
  <1> DEFINE new == Len(h.log) + 1
             V == W \union {x}
  <1>0. Run(x.cmd) \in Entry /\ x.cmd \in Command /\ h.tick \in Nat /\ r.log \in Seq(Entry)
    BY StepForms DEF Run, Entry, Item
  <1>1. /\ Steps(g) = Steps(h) \union {new} /\ new \notin Steps(h)
        /\ \A i \in Steps(h) : i \in Nat /\ i < new
        /\ \A i \in Steps(h) : \A cmd : RunAt(g, i, cmd) <=> RunAt(h, i, cmd)
        /\ \A i \in Steps(h) : \A t : LogicAt(g, i, t) <=> LogicAt(h, i, t)
    BY <1>0, LogGrows
  <1>a. Prefix(r.log, g.log) /\ Len(r.log) < new /\ new \in Nat
    <2>1. Prefix(r.log, h.log) /\ Len(h.log) \in Nat
      BY StepForms DEF Follows
    <2>2. \A l \in Seq(Entry) : Prefix(l, h.log) => Prefix(l, g.log) /\ Len(l) < new
      BY <1>0, LogGrows
    <2>3. QED
      BY <1>0, <2>1, <2>2
  <1>2. /\ \A cmd : RunAt(g, new, cmd) <=> cmd = x.cmd
        /\ \A t : ~LogicAt(g, new, t)
    BY <1>0, RunLogged
  <1>3. /\ \A a \in W : Earlier(a, x) /\ a \in Item /\ ~Earlier(x, a)
        /\ ~Earlier(x, x)
    BY EarlierOrders
  <1>4. \A i \in Steps(h) : ~RunAt(h, i, x.cmd)
    BY DEF Done
  <1>5. \A a \in W : a.cmd # x.cmd
    BY <1>4 DEF Follows, Expected
  <1> HIDE DEF new
  <1>6. Expected(g, r, V)
    BY <1>1, <1>a, <1>2 DEF Follows, Expected
  <1>7. Announced(g, r, V)
    BY <1>1, <1>a, <1>2 DEF Follows, Announced
  <1>8. Ordered(g, V)
    <2> SUFFICES ASSUME NEW a \in V, NEW b \in V, Earlier(a, b), NEW i \in Steps(g), NEW j \in Steps(g),
                        RunAt(g, i, a.cmd), RunAt(g, j, b.cmd)
                 PROVE  i < j
      BY DEF Ordered
    <2>1. a \in W /\ i \in Steps(h)
      BY <1>1, <1>2, <1>3, <1>5
    <2>2. CASE b = x
      BY <1>1, <1>4, <2>1, <2>2
    <2>3. CASE b \in W
      BY <1>1, <1>2, <1>5, <2>1, <2>3 DEF Follows, Ordered
    <2>4. QED
      BY <2>2, <2>3
  <1>9. Timed(g, V)
    <2>1. \A j \in Steps(h), t \in Nat : LogicAt(h, j, t) => t <= h.tick
      BY <1>0 DEF HostLog, Updated
    <2>2. \A a \in W :
            /\ a.tick <= h.tick /\ (a.tick < h.tick \/ h.mid \/ h.paused)
            /\ \A i, j \in Steps(h), t \in Nat : RunAt(h, i, a.cmd) /\ LogicAt(h, j, t) =>
                 (j < i => t <= a.tick) /\ (i < j => a.tick < t)
      BY DEF Follows, Timed
    <2>3. ASSUME NEW a \in V
          PROVE  a.tick <= g.tick /\ (a.tick < g.tick \/ g.mid \/ g.paused)
      BY <1>0, <2>2
    <2>4. ASSUME NEW a \in V, NEW i \in Steps(g), NEW j \in Steps(g), NEW t \in Nat,
                 RunAt(g, i, a.cmd), LogicAt(g, j, t)
          PROVE  (j < i => t <= a.tick) /\ (i < j => a.tick < t)
      <3>1. CASE a \in W
        BY <1>1, <1>2, <1>5, <2>2, <2>4, <3>1
      <3>2. CASE a = x
        BY <1>0, <1>1, <1>a, <1>2, <1>4, <2>1, <2>4, <3>2
      <3>3. QED
        BY <3>1, <3>2
    <2>5. QED
      BY <2>3, <2>4 DEF Timed
  <1>10. UpdatesFit(g, r)
    <2>1. \A t \in Nat : Updated(g, t) <=> Updated(h, t)
      BY DEF Updated
    <2>2. QED
      BY <1>1, <1>a, <1>2, <2>1 DEF Follows, UpdatesFit
  <1>11. PauseIsLast(g, V) /\ PausedRightly(g, r, V)
    BY <1>1, <1>a, <1>2 DEF Follows, PauseIsLast, PausedRightly
  <1>12. QED
    BY <1>1, <1>a, <1>6, <1>7, <1>8, <1>9, <1>10, <1>11 DEF Follows

(***************************************************************************)
(* The host pauses.                                                        *)
(***************************************************************************)
LEMMA HostPauses ==
  ASSUME NEW h \in Simulation, NEW g \in Simulation, NEW r \in Simulation, NEW W \in SUBSET Item,
         Follows(h, r, W), HostLog(h), NEW x \in Item,
         x.tick = h.tick, \A a \in W : Earlier(a, x),
         x.cmd \in TogglePause, ~h.paused, h.mid,
         g.log = h.log, g.tick = h.tick, g.paused, g.mid = h.mid
  PROVE  Follows(g, r, W \union {x})
  <1> DEFINE V == W \union {x}
  <1>0. x.cmd \in Command /\ h.tick \in Nat /\ ~r.paused
    BY StepForms DEF Item, Follows, PausedRightly
  <1>1. /\ Steps(g) = Steps(h)
        /\ \A i, cmd : RunAt(g, i, cmd) <=> RunAt(h, i, cmd)
        /\ \A i, t : LogicAt(g, i, t) <=> LogicAt(h, i, t)
        /\ \A t : Updated(g, t) <=> Updated(h, t)
    BY DEF Steps, RunAt, LogicAt, Updated
  <1>2. \A i \in Steps(h) : ~RunAt(h, i, x.cmd)
    BY DEF HostLog
  <1>3. Prefix(r.log, g.log) /\ Expected(g, r, V) /\ Announced(g, r, V)
    BY <1>1 DEF Follows, Expected, Announced
  <1>4. Ordered(g, V)
    BY <1>1, <1>2 DEF Follows, Ordered
  <1>5. Timed(g, V)
    BY <1>0, <1>1, <1>2 DEF Follows, Timed
  <1>6. UpdatesFit(g, r)
    BY <1>1 DEF Follows, UpdatesFit
  <1>7. \A j \in Steps(h), t \in Nat : LogicAt(h, j, t) => t <= x.tick
    BY <1>0 DEF HostLog, Updated
  <1>8. \A a \in W : a.cmd \notin TogglePause
    BY DEF Follows, PauseIsLast
  <1>9. PauseIsLast(g, V) /\ PausedRightly(g, r, V)
    BY <1>0, <1>1, <1>7, <1>8 DEF PauseIsLast, PausedRightly
  <1>10. QED
    BY <1>3, <1>4, <1>5, <1>6, <1>9 DEF Follows

(***************************************************************************)
(* The host's clock goes on.                                               *)
(***************************************************************************)
LEMMA HostClocks ==
  ASSUME NEW h \in Simulation, NEW g \in Simulation, NEW r \in Simulation, NEW W \in SUBSET Item,
         Follows(h, r, W), h.mid, ~g.mid, g.log = h.log, g.tick = h.tick + 1, g.paused = h.paused
  PROVE  Follows(g, r, W)
  <1>0. h.tick \in Nat
    BY StepForms
  <1>1. /\ Steps(g) = Steps(h)
        /\ \A i, cmd : RunAt(g, i, cmd) <=> RunAt(h, i, cmd)
        /\ \A i, t : LogicAt(g, i, t) <=> LogicAt(h, i, t)
        /\ \A t \in Nat : Updated(g, t) <=> Updated(h, t)
    BY <1>0 DEF Steps, RunAt, LogicAt, Updated
  <1>2. Prefix(r.log, g.log) /\ Expected(g, r, W) /\ Announced(g, r, W) /\ Ordered(g, W)
    BY <1>1 DEF Follows, Expected, Announced, Ordered
  <1>3. Timed(g, W)
    <2>1. \A a \in W : a.tick \in Nat
      BY DEF Item
    <2>2. QED
      BY <1>0, <1>1, <2>1 DEF Follows, Timed
  <1>4. UpdatesFit(g, r)
    BY <1>1 DEF Follows, UpdatesFit
  <1>5. PauseIsLast(g, W) /\ PausedRightly(g, r, W)
    BY <1>1 DEF Follows, PauseIsLast, PausedRightly
  <1>6. QED
    BY <1>2, <1>3, <1>4, <1>5 DEF Follows


(***************************************************************************)
(* The client updates its world, at a tick the host has updated: the       *)
(* update is the host's next step behind what the client executed.         *)
(***************************************************************************)
LEMMA ClientUpdates ==
  ASSUME NEW h \in Simulation, NEW r \in Simulation, NEW s \in Simulation, NEW W \in SUBSET Item,
         Follows(h, r, W), HostLog(h), \A a \in W : r.tick <= a.tick,
         Updated(h, r.tick), ~r.mid,
         s.log = Append(r.log, Logic(r.tick)), s.tick = r.tick, s.paused = r.paused, s.mid
  PROVE  /\ Follows(h, s, W) /\ ~r.paused
         /\ Len(r.log) + 1 \in Steps(h) /\ LogicAt(h, Len(r.log) + 1, r.tick)
         /\ h.log[Len(r.log) + 1] = Logic(r.tick)
  <1> DEFINE n == Len(r.log) + 1
  <1>0. /\ Logic(r.tick) \in Entry /\ r.tick \in Nat /\ r.log \in Seq(Entry) /\ s.log \in Seq(Entry)
        /\ Len(r.log) \in Nat /\ Len(h.log) \in Nat
    BY StepForms DEF Logic, Entry
  <1>1. PICK k \in Steps(h) : Len(r.log) < k /\ LogicAt(h, k, r.tick)
    BY <1>0 DEF Follows, UpdatesFit, Missing
  <1>2. ~r.paused
    BY <1>0, <1>1 DEF Follows, PausedRightly
  <1>3. n \in Steps(h) /\ k \in Nat
    BY <1>0, <1>1 DEF Steps
  <1>4. k = n
    <2> SUFFICES ASSUME n < k PROVE FALSE
      BY <1>0, <1>1, <1>3
    <2>1. CASE \E u \in Nat : LogicAt(h, n, u)
      <3>1. PICK u \in Nat : LogicAt(h, n, u)
        BY <2>1
      <3>2. Missing(r, u)
        BY <1>0, <1>3, <3>1 DEF Follows, UpdatesFit
      <3>3. u < r.tick
        BY <1>0, <1>1, <1>3, <3>1 DEF HostLog
      <3>4. QED
        BY <1>0, <3>2, <3>3 DEF Missing
    <2>2. CASE \E cmd \in Command : RunAt(h, n, cmd)
      <3>1. PICK cmd \in Command : RunAt(h, n, cmd)
        BY <2>2
      <3>2. PICK a \in W : a.cmd = cmd
        BY <1>0, <1>3, <3>1 DEF Follows, Announced
      <3>3. a.tick < r.tick
        BY <1>0, <1>1, <1>3, <3>1, <3>2 DEF Follows, Timed
      <3>4. a.tick \in Nat /\ r.tick <= a.tick
        BY DEF Item
      <3>5. QED
        BY <1>0, <3>3, <3>4
    <2>3. QED
      BY <1>3, <2>1, <2>2, StepForms
  <1>5. LogicAt(h, n, r.tick) /\ h.log[n] = Logic(r.tick)
    BY <1>0, <1>1, <1>3, <1>4, StepForms
  <1>6. Len(s.log) = n /\ n \in Nat
    BY <1>0
  <1>7. Prefix(s.log, h.log)
    <2>1. Prefix(r.log, h.log)
      BY DEF Follows
    <2>2. \A i \in 1 .. Len(r.log) : s.log[i] = r.log[i]
      BY <1>0
    <2>3. s.log[n] = Logic(r.tick)
      BY <1>0
    <2>4. QED
      BY <1>0, <1>3, <1>5, <1>6, <2>1, <2>2, <2>3 DEF Prefix, Sim!Prefix, Steps
  <1>8. \A i \in Steps(h) : Len(s.log) < i => Len(r.log) < i /\ i # n
    BY <1>0, <1>6 DEF Steps
  <1>9. \A i \in Steps(h) : Len(r.log) < i /\ i # n => Len(s.log) < i
    BY <1>0, <1>6 DEF Steps
  <1> HIDE DEF n
  <1>10. \A cmd : ~RunAt(h, n, cmd)
    BY <1>5 DEF RunAt, LogicAt
  <1>11. Expected(h, s, W)
    BY <1>9, <1>10 DEF Follows, Expected
  <1>12. Announced(h, s, W)
    BY <1>8 DEF Follows, Announced
  <1>13. \A t \in Nat : Missing(s, t) <=> r.tick < t
    BY <1>0 DEF Missing
  <1>14. UpdatesFit(h, s)
    <2>1. ASSUME NEW j \in Steps(h), NEW t \in Nat, Len(s.log) < j, LogicAt(h, j, t)
          PROVE  Missing(s, t)
      <3>1. n < j
        BY <1>6, <2>1
      <3>2. r.tick < t
        BY <1>0, <1>3, <1>5, <2>1, <3>1 DEF HostLog
      <3>3. QED
        BY <1>13, <3>2
    <2>2. ASSUME NEW t \in Nat, Updated(h, t), Missing(s, t)
          PROVE  \E j \in Steps(h) : Len(s.log) < j /\ LogicAt(h, j, t)
      <3>1. Missing(r, t) /\ r.tick < t
        BY <1>0, <1>13, <2>2 DEF Missing
      <3>2. PICK j \in Steps(h) : Len(r.log) < j /\ LogicAt(h, j, t)
        BY <2>2, <3>1 DEF Follows, UpdatesFit
      <3>3. j # n
        BY <1>0, <1>5, <3>1, <3>2 DEF LogicAt
      <3>4. QED
        BY <1>9, <3>2, <3>3
    <2>3. QED
      BY <2>1, <2>2 DEF UpdatesFit
  <1>15. PausedRightly(h, s, W)
    BY <1>2 DEF PausedRightly
  <1>16. QED
    BY <1>2, <1>3, <1>5, <1>7, <1>11, <1>12, <1>14, <1>15 DEF Follows, n

\* The client's clock goes on.
LEMMA ClientClocks ==
  ASSUME NEW h \in Simulation, NEW r \in Simulation, NEW s \in Simulation, NEW W \in SUBSET Item,
         Follows(h, r, W), r.mid, ~s.mid, s.log = r.log, s.tick = r.tick + 1, s.paused = r.paused
  PROVE  Follows(h, s, W)
  <1>1. r.tick \in Nat
    BY StepForms
  <1>2. \A t \in Nat : Missing(s, t) <=> Missing(r, t)
    BY <1>1 DEF Missing
  <1>3. UpdatesFit(h, s)
    BY <1>2 DEF Follows, UpdatesFit
  <1>4. Expected(h, s, W) /\ Announced(h, s, W) /\ PausedRightly(h, s, W)
    BY DEF Follows, Expected, Announced, PausedRightly
  <1>5. QED
    BY <1>3, <1>4 DEF Follows

(***************************************************************************)
(* The client executes the first action that waits for it, which is not a  *)
(* pause: it is the host's next step.                                      *)
(***************************************************************************)
LEMMA ClientRuns ==
  ASSUME NEW h \in Simulation, NEW r \in Simulation, NEW s \in Simulation, NEW W \in SUBSET Item,
         Follows(h, r, W), HostLog(h), NEW x \in W, x.tick = r.tick, x.cmd \notin TogglePause,
         \A b \in W \ {x} : Earlier(x, b), r.mid \/ r.paused,
         s.log = Append(r.log, Run(x.cmd)), s.tick = r.tick, s.paused = r.paused, s.mid = r.mid
  PROVE  /\ Follows(h, s, W \ {x})
         /\ Len(r.log) + 1 \in Steps(h) /\ h.log[Len(r.log) + 1] = Run(x.cmd)
  <1> DEFINE n == Len(r.log) + 1
             V == W \ {x}
  <1>0. /\ Run(x.cmd) \in Entry /\ x.cmd \in Command /\ r.tick \in Nat
        /\ r.log \in Seq(Entry) /\ s.log \in Seq(Entry)
        /\ Len(r.log) \in Nat /\ Len(h.log) \in Nat
    BY StepForms DEF Run, Entry, Item
  <1>1. PICK k \in Steps(h) : Len(r.log) < k /\ RunAt(h, k, x.cmd)
    BY DEF Follows, Expected
  <1>3. n \in Steps(h) /\ k \in Nat
    BY <1>0, <1>1 DEF Steps
  <1>4. k = n
    <2> SUFFICES ASSUME n < k PROVE FALSE
      BY <1>0, <1>1, <1>3
    <2>1. CASE \E u \in Nat : LogicAt(h, n, u)
      <3>1. PICK u \in Nat : LogicAt(h, n, u)
        BY <2>1
      <3>2. Missing(r, u)
        BY <1>0, <1>3, <3>1 DEF Follows, UpdatesFit
      <3>3. u <= r.tick
        BY <1>0, <1>1, <1>3, <3>1 DEF Follows, Timed
      <3>4. r.paused
        BY <1>0, <3>2, <3>3 DEF Missing
      <3>5. QED
        BY <1>0, <1>3, <3>1, <3>4 DEF Follows, PausedRightly
    <2>2. CASE \E cmd \in Command : RunAt(h, n, cmd)
      <3>1. PICK cmd \in Command : RunAt(h, n, cmd)
        BY <2>2
      <3>2. PICK a \in W : a.cmd = cmd
        BY <1>0, <1>3, <3>1 DEF Follows, Announced
      <3>3. a # x
        BY <1>0, <1>1, <1>3, <3>1, <3>2 DEF HostLog
      <3>4. k < n
        BY <1>1, <1>3, <3>1, <3>2, <3>3 DEF Follows, Ordered
      <3>5. QED
        BY <1>0, <1>3, <3>4
    <2>3. QED
      BY <1>3, <2>1, <2>2, StepForms
  <1>5. RunAt(h, n, x.cmd) /\ h.log[n] = Run(x.cmd)
    BY <1>0, <1>1, <1>3, <1>4, StepForms
  <1>6. Len(s.log) = n /\ n \in Nat
    BY <1>0
  <1>7. Prefix(s.log, h.log)
    <2>1. Prefix(r.log, h.log)
      BY DEF Follows
    <2>2. \A i \in 1 .. Len(r.log) : s.log[i] = r.log[i]
      BY <1>0
    <2>3. s.log[n] = Run(x.cmd)
      BY <1>0
    <2>4. QED
      BY <1>0, <1>3, <1>5, <1>6, <2>1, <2>2, <2>3 DEF Prefix, Sim!Prefix, Steps
  <1>8. \A i \in Steps(h) : Len(s.log) < i => Len(r.log) < i /\ i # n
    BY <1>0, <1>6 DEF Steps
  <1>9. \A i \in Steps(h) : Len(r.log) < i /\ i # n => Len(s.log) < i
    BY <1>0, <1>6 DEF Steps
  <1> HIDE DEF n
  <1>10. \A t : ~LogicAt(h, n, t)
    BY <1>5 DEF RunAt, LogicAt
  <1>11. Expected(h, s, V)
    <2> SUFFICES ASSUME NEW a \in V, a.cmd \notin TogglePause
                 PROVE  \E i \in Steps(h) : Len(s.log) < i /\ RunAt(h, i, a.cmd)
      BY DEF Expected
    <2>1. PICK i \in Steps(h) : Len(r.log) < i /\ RunAt(h, i, a.cmd)
      BY DEF Follows, Expected
    <2>2. n < i
      BY <1>3, <1>5, <2>1 DEF Follows, Ordered
    <2>3. QED
      BY <1>6, <2>1, <2>2
  <1>12. Announced(h, s, V)
    <2> SUFFICES ASSUME NEW i \in Steps(h), NEW cmd \in Command, Len(s.log) < i, RunAt(h, i, cmd)
                 PROVE  \E a \in V : a.cmd = cmd
      BY DEF Announced
    <2>1. PICK a \in W : a.cmd = cmd
      BY <1>8 DEF Follows, Announced
    <2>2. a # x
      BY <1>0, <1>3, <1>5, <1>8, <2>1 DEF HostLog
    <2>3. QED
      BY <2>1, <2>2
  <1>13. Ordered(h, V) /\ Timed(h, V)
    BY DEF Follows, Ordered, Timed
  <1>14. UpdatesFit(h, s)
    <2>1. \A t \in Nat : Missing(s, t) <=> Missing(r, t)
      BY DEF Missing
    <2>2. QED
      BY <1>8, <1>9, <1>10, <2>1 DEF Follows, UpdatesFit
  <1>15. PauseIsLast(h, V) /\ PausedRightly(h, s, V)
    BY <1>8 DEF Follows, PauseIsLast, PausedRightly
  <1>16. QED
    BY <1>3, <1>5, <1>7, <1>11, <1>12, <1>13, <1>14, <1>15 DEF Follows, n

\* The client pauses, where the host did.
LEMMA ClientPauses ==
  ASSUME NEW h \in Simulation, NEW r \in Simulation, NEW s \in Simulation, NEW W \in SUBSET Item,
         Follows(h, r, W), HostLog(h), NEW x \in W, x.tick = r.tick, x.cmd \in TogglePause,
         \A b \in W \ {x} : Earlier(x, b), r.mid \/ r.paused,
         s.log = r.log, s.tick = r.tick, s.paused, s.mid = r.mid
  PROVE  Follows(h, s, W \ {x}) /\ ~r.paused
  <1> DEFINE V == W \ {x}
  <1>1. ~r.paused /\ r.mid /\ r.tick \in Nat
    BY StepForms DEF Follows, PausedRightly
  <1>2. \A t \in Nat : Missing(s, t) <=> r.tick < t
    BY <1>1 DEF Missing
  <1>3. \A t \in Nat : Missing(r, t) <=> r.tick < t
    BY <1>1 DEF Missing
  <1>4. Expected(h, s, V) /\ Announced(h, s, V)
    <2>1. \A i \in Steps(h) : ~RunAt(h, i, x.cmd)
      BY DEF HostLog
    <2>2. QED
      BY <2>1 DEF Follows, Expected, Announced
  <1>5. Ordered(h, V) /\ Timed(h, V) /\ PauseIsLast(h, V)
    BY DEF Follows, Ordered, Timed, PauseIsLast
  <1>6. UpdatesFit(h, s)
    BY <1>2, <1>3 DEF Follows, UpdatesFit
  <1>7. PausedRightly(h, s, V)
    <2>1. /\ h.paused
          /\ \A j \in Steps(h), t \in Nat : LogicAt(h, j, t) => t <= x.tick
          /\ \A b \in W : b.cmd \in Build => b.cmd \in TogglePause \/ Earlier(b, x)
          /\ \A b \in W : b.cmd \in TogglePause => x = b
      BY DEF Follows, PauseIsLast
    <2>2. \A j \in Steps(h), t \in Nat : Len(r.log) < j => ~LogicAt(h, j, t)
      BY <1>1, <1>3, <2>1 DEF Follows, UpdatesFit
    <2>3. \A a \in V : a.cmd \notin Build \union TogglePause
      BY <2>1, EarlierOrders
    <2>4. QED
      BY <2>1, <2>2, <2>3 DEF PausedRightly
  <1>8. QED
    BY <1>1, <1>4, <1>5, <1>6, <1>7 DEF Follows

\* An action that the paused game would refuse does not wait for the client.
LEMMA ClientAllows ==
  ASSUME NEW h, NEW r, NEW W, Follows(h, r, W), NEW x \in W, r.paused
  PROVE  x.cmd \notin Build
  BY DEF Follows, PausedRightly


-----------------------------------------------------------------------------
(***************************************************************************)
(* What waits for a client when a channel moves.                           *)
(***************************************************************************)
\* The same items at other places, in the same order.
LEMMA FollowsTwins ==
  ASSUME NEW h, NEW r, NEW V, NEW W, NEW f \in [V -> W],
         \A a \in V : f[a].tick = a.tick /\ f[a].cmd = a.cmd,
         \A b \in W : \E a \in V : f[a] = b,
         \A a, b \in V : f[a] = f[b] => a = b,
         \A a, b \in V : Earlier(a, b) <=> Earlier(f[a], f[b]),
         Follows(h, r, W)
  PROVE  Follows(h, r, V)
  <1>1. \A a \in V : f[a] \in W
    OBVIOUS
  <1>2. Expected(h, r, V)
    BY <1>1 DEF Follows, Expected
  <1>3. Announced(h, r, V)
    <2> SUFFICES ASSUME NEW i \in Steps(h), NEW cmd \in Command, Len(r.log) < i, RunAt(h, i, cmd)
                 PROVE  \E a \in V : a.cmd = cmd
      BY DEF Announced
    <2>1. PICK b \in W : b.cmd = cmd
      BY DEF Follows, Announced
    <2>2. PICK a \in V : f[a] = b
      OBVIOUS
    <2>3. QED
      BY <2>1, <2>2
  <1>4. Ordered(h, V)
    BY <1>1 DEF Follows, Ordered
  <1>5. Timed(h, V)
    <2>1. ASSUME NEW a \in V PROVE Timed(h, {a})
      BY <1>1 DEF Follows, Timed
    <2>2. QED
      BY <2>1 DEF Timed
  <1>6. PauseIsLast(h, V)
    <2> SUFFICES ASSUME NEW a \in V, a.cmd \in TogglePause
                 PROVE  /\ h.paused
                        /\ \A j \in Steps(h), t \in Nat : LogicAt(h, j, t) => t <= a.tick
                        /\ \A b \in V : b.cmd \in Build => b.cmd \in TogglePause \/ Earlier(b, a)
                        /\ \A b \in V : b.cmd \in TogglePause => a = b
      BY DEF PauseIsLast
    <2>1. f[a] \in W /\ f[a].cmd \in TogglePause /\ f[a].tick = a.tick
      BY <1>1
    <2>2. /\ h.paused
          /\ \A j \in Steps(h), t \in Nat : LogicAt(h, j, t) => t <= a.tick
          /\ \A b \in W : b.cmd \in Build => b.cmd \in TogglePause \/ Earlier(b, f[a])
          /\ \A b \in W : b.cmd \in TogglePause => f[a] = b
      BY <2>1 DEF Follows, PauseIsLast
    <2>3. QED
      BY <1>1, <2>2
  <1>7. PausedRightly(h, r, V)
    <2> SUFFICES ASSUME r.paused
                 PROVE  /\ h.paused
                        /\ \A j \in Steps(h), t \in Nat : Len(r.log) < j => ~LogicAt(h, j, t)
                        /\ \A a \in V : a.cmd \notin Build \union TogglePause
      BY DEF PausedRightly
    <2>1. QED
      BY <1>1 DEF Follows, PausedRightly
  <1>8. QED
    BY <1>2, <1>3, <1>4, <1>5, <1>6, <1>7 DEF Follows

LEMMA WaitingType ==
  ASSUME NEW q \in SUBSET QueuedAction, NEW s \in Seq(ClientPacket), NEW k \in Nat
  PROVE  /\ Waiting(q, s, k) \in SUBSET Item
         /\ \A a \in Waiting(q, s, k) :
              \/ \E e \in q : a = InQueue(e) /\ e.tick = a.tick /\ e.cmd = a.cmd
              \/ /\ a.at \in 1 .. Len(s) /\ k < a.at /\ s[a.at].type = "action"
                 /\ a = InChannel(s[a.at], a.at) /\ a.tick = s[a.at].tick /\ a.cmd = s[a.at].cmd
  <1>1. \A e \in q : InQueue(e) \in Item
    BY DEF InQueue, Item, QueuedAction
  <1>2. \A i \in 1 .. Len(s) : s[i].type = "action" => InChannel(s[i], i) \in Item
    <2>1. \A i \in 1 .. Len(s) : s[i] \in ClientPacket
      OBVIOUS
    <2>2. QED
      BY <2>1 DEF InChannel, Item, ClientPacket
  <1>3. \A e \in q : InQueue(e).tick = e.tick /\ InQueue(e).cmd = e.cmd
    BY DEF InQueue
  <1>4. \A i \in Nat : \A p : /\ InChannel(p, i).at = i
                              /\ InChannel(p, i).tick = p.tick /\ InChannel(p, i).cmd = p.cmd
    BY DEF InChannel
  <1>5. QED
    BY <1>1, <1>2, <1>3, <1>4 DEF Waiting

\* Another packet is sent.
LEMMA WaitingSent ==
  ASSUME NEW q \in SUBSET QueuedAction, NEW s \in Seq(ClientPacket), NEW p \in ClientPacket,
         NEW k \in 0 .. Len(s)
  PROVE  Waiting(q, Append(s, p), k) =
           IF p.type = "action" THEN Waiting(q, s, k) \union {InChannel(p, Len(s) + 1)}
                                ELSE Waiting(q, s, k)
  <1> DEFINE t == Append(s, p)
  <1>1. /\ Len(t) = Len(s) + 1 /\ Len(s) \in Nat /\ t[Len(s) + 1] = p
        /\ \A i \in 1 .. Len(s) : t[i] = s[i]
    OBVIOUS
  <1> HIDE DEF t
  <1>2. 1 .. Len(t) = (1 .. Len(s)) \union {Len(s) + 1} /\ k < Len(s) + 1
    BY <1>1
  <1>3. {InChannel(t[i], i) : i \in {j \in 1 .. Len(t) : k < j /\ t[j].type = "action"}} =
          {InChannel(s[i], i) : i \in {j \in 1 .. Len(s) : k < j /\ s[j].type = "action"}}
            \union (IF p.type = "action" THEN {InChannel(p, Len(s) + 1)} ELSE {})
    BY <1>1, <1>2
  <1>4. QED
    BY <1>3 DEF Waiting, t

LEMMA SentIsLast ==
  ASSUME NEW q \in SUBSET QueuedAction, NEW s \in Seq(ClientPacket), NEW k \in Nat, NEW p
  PROVE  \A a \in Waiting(q, s, k) : Earlier(a, InChannel(p, Len(s) + 1))
  <1>1. \A a \in Waiting(q, s, k) : a.at < Len(s) + 1
    <2>1. \A e \in q : InQueue(e).at = 0
      BY DEF InQueue
    <2>2. QED
      BY <2>1, WaitingType
  <1>2. InChannel(p, Len(s) + 1).at = Len(s) + 1
    BY DEF InChannel
  <1>3. QED
    BY <1>1, <1>2 DEF Earlier


\* The first packet is handled: what is behind it moves up.
LEMMA WaitingMovesUp ==
  ASSUME NEW q \in SUBSET QueuedAction, NEW s \in Seq(ClientPacket), s # <<>>, NEW k \in Nat,
         NEW h, NEW r, Follows(h, r, Waiting(q, s, k + 1))
  PROVE  Follows(h, r, Waiting(q, Tail(s), k))
  <1> DEFINE V == Waiting(q, Tail(s), k)
             W == Waiting(q, s, k + 1)
             f == [a \in V |-> IF a.at = 0 THEN a ELSE InChannel(s[a.at + 1], a.at + 1)]
  <1>1. /\ Tail(s) \in Seq(ClientPacket) /\ Len(s) \in Nat /\ Len(Tail(s)) = Len(s) - 1
        /\ \A i \in 1 .. Len(Tail(s)) : Tail(s)[i] = s[i + 1]
    OBVIOUS
  <1>2. \A e \in q : InQueue(e) \in V /\ InQueue(e) \in W /\ InQueue(e).at = 0
    BY DEF Waiting, InQueue
  <1>3. \A i \in 1 .. Len(Tail(s)) : k < i /\ Tail(s)[i].type = "action" =>
          InChannel(s[i + 1], i) \in V /\ InChannel(s[i + 1], i + 1) \in W
    <2>1. \A i \in 1 .. Len(Tail(s)) : i + 1 \in 1 .. Len(s) /\ (k < i => k + 1 < i + 1)
      BY <1>1
    <2>2. QED
      BY <1>1, <2>1 DEF Waiting
  <1>4. \A a \in V : \/ a \in W /\ a.at = 0
                     \/ /\ a.at \in 1 .. Len(Tail(s)) /\ k < a.at /\ s[a.at + 1].type = "action"
                        /\ a = InChannel(s[a.at + 1], a.at)
    <2> SUFFICES ASSUME NEW a \in V
                 PROVE  \/ a \in W /\ a.at = 0
                        \/ /\ a.at \in 1 .. Len(Tail(s)) /\ k < a.at /\ s[a.at + 1].type = "action"
                           /\ a = InChannel(s[a.at + 1], a.at)
      OBVIOUS
    <2>1. \/ \E e \in q : a = InQueue(e)
          \/ /\ a.at \in 1 .. Len(Tail(s)) /\ k < a.at /\ Tail(s)[a.at].type = "action"
             /\ a = InChannel(Tail(s)[a.at], a.at)
      BY <1>1, WaitingType
    <2>2. QED
      BY <1>1, <1>2, <2>1
  <1>5. \A b \in W : \/ b \in V /\ b.at = 0
                     \/ /\ b.at \in 1 .. Len(s) /\ k + 1 < b.at /\ s[b.at].type = "action"
                        /\ b = InChannel(s[b.at], b.at)
    <2>1. k + 1 \in Nat
      OBVIOUS
    <2>2. QED
      BY <1>2, <2>1, WaitingType
  <1>6. \A i \in Nat : \A p : /\ InChannel(p, i).at = i
                              /\ InChannel(p, i).tick = p.tick /\ InChannel(p, i).cmd = p.cmd
    BY DEF InChannel
  <1>7. V \subseteq Item /\ W \subseteq Item
    <2>1. k + 1 \in Nat
      OBVIOUS
    <2>2. V \in SUBSET Item
      BY <1>1, WaitingType
    <2>3. W \in SUBSET Item
      BY <2>1, WaitingType
    <2>4. QED
      BY <2>2, <2>3
  <1> HIDE DEF V, W
  <1>8. \A a \in V : IF a.at = 0 THEN f[a] = a
                                 ELSE f[a] = InChannel(s[a.at + 1], a.at + 1) /\ f[a].at = a.at + 1
    BY <1>6, <1>7 DEF Item
  <1>9. f \in [V -> W]
    BY <1>1, <1>3, <1>4
  <1> HIDE DEF f
  <1>10. \A a \in V : f[a].tick = a.tick /\ f[a].cmd = a.cmd
    BY <1>4, <1>6, <1>8
  <1>11. ASSUME NEW b \in W PROVE \E a \in V : f[a] = b
    <2>1. CASE b \in V /\ b.at = 0
      BY <1>8, <2>1
    <2>2. CASE b.at \in 1 .. Len(s) /\ k + 1 < b.at /\ s[b.at].type = "action" /\ b = InChannel(s[b.at], b.at)
      <3> DEFINE i == b.at - 1
      <3>1. i \in 1 .. Len(Tail(s)) /\ k < i /\ i + 1 = b.at /\ i # 0 /\ i \in Nat
        BY <1>1, <2>2
      <3>2. InChannel(s[i + 1], i) \in V
        BY <1>1, <1>3, <2>2, <3>1
      <3>3. f[InChannel(s[i + 1], i)] = b
        BY <1>6, <1>8, <2>2, <3>1, <3>2
      <3>4. QED
        BY <3>2, <3>3
    <2>3. QED
      BY <1>5, <2>1, <2>2
  <1>12. \A a, b \in V : f[a] = f[b] => a = b
    <2> SUFFICES ASSUME NEW a \in V, NEW b \in V, f[a] = f[b] PROVE a = b
      OBVIOUS
    <2>1. CASE a.at = 0 \/ b.at = 0
      BY <1>7, <1>8, <2>1 DEF Item
    <2>2. CASE a.at # 0 /\ b.at # 0
      <3>1. a.at = b.at
        BY <1>7, <1>8, <2>2 DEF Item
      <3>2. QED
        BY <1>4, <2>2, <3>1
    <2>3. QED
      BY <2>1, <2>2
  <1>13. \A a, b \in V : Earlier(a, b) <=> Earlier(f[a], f[b])
    <2> SUFFICES ASSUME NEW a \in V, NEW b \in V PROVE Earlier(a, b) <=> Earlier(f[a], f[b])
      OBVIOUS
    <2>1. a.at \in Nat /\ b.at \in Nat
      BY <1>7 DEF Item
    <2>2. CASE a.at = 0 /\ b.at = 0
      BY <1>8, <2>2
    <2>3. CASE ~(a.at = 0 /\ b.at = 0)
      <3>1. Earlier(a, b) <=> a.at < b.at
        BY <2>1, <2>3 DEF Earlier
      <3>2. ~(f[a].at = 0 /\ f[b].at = 0)
        BY <1>8, <2>1, <2>3
      <3>3. Earlier(f[a], f[b]) <=> f[a].at < f[b].at
        BY <3>2 DEF Earlier
      <3>4. a.at < b.at <=> f[a].at < f[b].at
        BY <1>8, <2>1, <2>3
      <3>5. QED
        BY <3>1, <3>3, <3>4
    <2>4. QED
      BY <2>2, <2>3
  <1>14. QED
    BY <1>9, <1>10, <1>11, <1>12, <1>13, FollowsTwins DEF V, W

LEMMA WaitingSkips ==
  ASSUME NEW q \in SUBSET QueuedAction, NEW s \in Seq(ClientPacket), s # <<>>,
         Head(s).type # "action"
  PROVE  Waiting(q, s, 0) = Waiting(q, s, 1)
  <1>1. \A j \in 1 .. Len(s) : s[j].type = "action" => j # 1
    OBVIOUS
  <1>2. \A j \in 1 .. Len(s) : s[j].type = "action" => (0 < j <=> 1 < j)
    BY <1>1
  <1>3. {j \in 1 .. Len(s) : 0 < j /\ s[j].type = "action"} = {j \in 1 .. Len(s) : 1 < j /\ s[j].type = "action"}
    BY <1>2
  <1>4. QED
    BY <1>3 DEF Waiting

(***************************************************************************)
(* An action at the head is put into the queue: e is later than what is    *)
(* queued, and earlier than what is still on its way.                      *)
(***************************************************************************)
LEMMA WaitingQueued ==
  ASSUME NEW q \in SUBSET QueuedAction, NEW s \in Seq(ClientPacket), s # <<>>,
         Head(s).type = "action", NEW e \in QueuedAction,
         e.tick = Head(s).tick, e.cmd = Head(s).cmd,
         \A x \in q : x.uid < e.uid /\ x.tick <= e.tick
  PROVE  \A h, r : Follows(h, r, Waiting(q, s, 0)) => Follows(h, r, Waiting(q \union {e}, s, 1))
  <1> DEFINE V == Waiting(q \union {e}, s, 1)
             W == Waiting(q, s, 0)
             new == InQueue(e)
             old == InChannel(s[1], 1)
             f == [a \in V |-> IF a = new THEN old ELSE a]
  <1>1. Head(s) = s[1] /\ 1 \in 1 .. Len(s) /\ Len(s) \in Nat
    OBVIOUS
  <1>2. /\ new.at = 0 /\ new.tick = e.tick /\ new.cmd = e.cmd /\ new.uid = e.uid
        /\ old.at = 1 /\ old.tick = e.tick /\ old.cmd = e.cmd
    BY <1>1 DEF InQueue, InChannel
  <1>3. new \in V /\ old \in W
    BY <1>1 DEF Waiting
  <1>4. \A a \in V : a = new \/ (a \in W /\ a # old)
    <2>1. \A i \in 1 .. Len(s) : 1 < i => InChannel(s[i], i).at # 1 /\ 0 < i
      BY DEF InChannel
    <2>2. \A x \in q : InQueue(x).at # 1
      BY DEF InQueue
    <2>3. QED
      BY <1>2, <2>1, <2>2 DEF Waiting
  <1>5. \A b \in W : b = old \/ b \in V
    <2>1. \A i \in 1 .. Len(s) : 0 < i => i = 1 \/ 1 < i
      OBVIOUS
    <2>2. QED
      BY <2>1 DEF Waiting
  <1>6. \A a \in V : a # new => \/ \E x \in q : a = InQueue(x) /\ a.at = 0 /\ a.tick = x.tick /\ a.uid = x.uid
                                \/ 1 < a.at
    <2>1. \A x \in q : InQueue(x).at = 0 /\ InQueue(x).tick = x.tick /\ InQueue(x).uid = x.uid
      BY DEF InQueue
    <2>2. \A i \in Nat : InChannel(s[i], i).at = i
      BY DEF InChannel
    <2>3. QED
      BY <2>1, <2>2 DEF Waiting
  <1>7. V \subseteq Item /\ W \subseteq Item /\ new \in Item /\ old \in Item
    BY <1>3, WaitingType
  <1>8. new \notin W
    <2>1. \A x \in q : InQueue(x).uid # e.uid
      <3>1. \A x \in q : InQueue(x).uid = x.uid /\ x.uid \in Nat /\ e.uid \in Nat
        BY DEF InQueue, QueuedAction
      <3>2. QED
        BY <3>1
    <2>2. \A i \in 1 .. Len(s) : InChannel(s[i], i).at # 0
      BY DEF InChannel
    <2>3. QED
      BY <1>2, <2>1, <2>2 DEF Waiting
  <1> HIDE DEF V, W, new, old
  <1>9. \A a \in V : f[a] = IF a = new THEN old ELSE a
    OBVIOUS
  <1>10. f \in [V -> W]
    BY <1>3, <1>4
  <1> HIDE DEF f
  <1>11. \A a \in V : f[a].tick = a.tick /\ f[a].cmd = a.cmd
    BY <1>2, <1>9
  <1>12. \A b \in W : \E a \in V : f[a] = b
    BY <1>3, <1>5, <1>8, <1>9
  <1>13. \A a, b \in V : f[a] = f[b] => a = b
    BY <1>4, <1>9
  <1>14. \A a, b \in V : Earlier(a, b) <=> Earlier(f[a], f[b])
    <2> SUFFICES ASSUME NEW a \in V, NEW b \in V PROVE Earlier(a, b) <=> Earlier(f[a], f[b])
      OBVIOUS
    <2>1. CASE a # new /\ b # new
      BY <1>9, <2>1
    <2>2. CASE a = new /\ b = new
      BY <1>7, <1>9, <2>2, EarlierOrders
    <2>3. CASE a = new /\ b # new
      <3>1. f[a] = old /\ f[b] = b
        BY <1>9, <2>3
      <3>2. CASE 1 < b.at
        <4>1. b.at \in Nat
          BY <1>7 DEF Item
        <4>2. QED
          BY <1>2, <2>3, <3>1, <3>2, <4>1 DEF Earlier
      <3>3. CASE \E x \in q : b.at = 0 /\ b.tick = x.tick /\ b.uid = x.uid
        <4>1. PICK x \in q : b.at = 0 /\ b.tick = x.tick /\ b.uid = x.uid
          BY <3>3
        <4>2. x.uid < e.uid /\ x.tick <= e.tick /\ x.uid \in Nat /\ x.tick \in Nat /\ e.uid \in Nat /\ e.tick \in Nat
          BY DEF QueuedAction
        <4>3. QED
          BY <1>2, <2>3, <3>1, <4>1, <4>2 DEF Earlier
      <3>4. QED
        BY <1>6, <2>3, <3>2, <3>3
    <2>4. CASE a # new /\ b = new
      <3>1. f[b] = old /\ f[a] = a
        BY <1>9, <2>4
      <3>2. CASE 1 < a.at
        <4>1. a.at \in Nat
          BY <1>7 DEF Item
        <4>2. QED
          BY <1>2, <2>4, <3>1, <3>2, <4>1 DEF Earlier
      <3>3. CASE \E x \in q : a.at = 0 /\ a.tick = x.tick /\ a.uid = x.uid
        <4>1. PICK x \in q : a.at = 0 /\ a.tick = x.tick /\ a.uid = x.uid
          BY <3>3
        <4>2. x.uid < e.uid /\ x.tick <= e.tick /\ x.uid \in Nat /\ x.tick \in Nat /\ e.uid \in Nat /\ e.tick \in Nat
          BY DEF QueuedAction
        <4>3. QED
          BY <1>2, <2>4, <3>1, <4>1, <4>2 DEF Earlier
      <3>4. QED
        BY <1>6, <2>4, <3>2, <3>3
    <2>5. QED
      BY <2>1, <2>2, <2>3, <2>4
  <1>15. ASSUME NEW h, NEW r, Follows(h, r, W)
         PROVE  Follows(h, r, V)
    BY <1>10, <1>11, <1>12, <1>13, <1>14, <1>15, FollowsTwins
  <1>16. QED
    BY <1>15 DEF V, W

\* An action is taken out of the queue.
LEMMA WaitingTaken ==
  ASSUME NEW q \in SUBSET QueuedAction, NEW s \in Seq(ClientPacket), NEW e \in q,
         IsFirst(e, q), \A x, y \in q : x.uid = y.uid => x = y
  PROVE  /\ Waiting(q \ {e}, s, 0) = Waiting(q, s, 0) \ {InQueue(e)}
         /\ InQueue(e) \in Waiting(q, s, 0)
         /\ \A b \in Waiting(q, s, 0) \ {InQueue(e)} : Earlier(InQueue(e), b)
  <1>1. \A x \in q : /\ InQueue(x).at = 0 /\ InQueue(x).uid = x.uid /\ InQueue(x).tick = x.tick
                     /\ x.uid \in Nat /\ x.tick \in Nat
    BY DEF InQueue, QueuedAction
  <1>2. \A i \in 1 .. Len(s) : InChannel(s[i], i).at = i /\ i # 0 /\ 0 < i
    BY DEF InChannel
  <1>3. Waiting(q \ {e}, s, 0) = Waiting(q, s, 0) \ {InQueue(e)}
    BY <1>1, <1>2 DEF Waiting
  <1>4. InQueue(e) \in Waiting(q, s, 0)
    BY DEF Waiting
  <1>5. ASSUME NEW b \in Waiting(q, s, 0) \ {InQueue(e)}
        PROVE  Earlier(InQueue(e), b)
    <2>1. CASE \E i \in 1 .. Len(s) : b = InChannel(s[i], i)
      BY <1>1, <1>2, <2>1 DEF Earlier
    <2>2. CASE \E x \in q : b = InQueue(x)
      <3>1. PICK x \in q : b = InQueue(x)
        BY <2>2
      <3>2. x.uid # e.uid
        BY <3>1
      <3>3. e.tick < x.tick \/ (e.tick = x.tick /\ e.uid < x.uid)
        BY <1>1, <3>2 DEF IsFirst
      <3>4. QED
        BY <1>1, <3>1, <3>3 DEF Earlier
    <2>3. QED
      BY <2>1, <2>2 DEF Waiting
  <1>6. QED
    BY <1>3, <1>4, <1>5


-----------------------------------------------------------------------------
(***************************************************************************)
(* The host's log and the checksums, when the host goes on.                *)
(***************************************************************************)
LEMMA LogUpdates ==
  ASSUME NEW h \in Simulation, NEW g \in Simulation, HostLog(h), ~h.mid, g.mid,
         g.log = Append(h.log, Logic(h.tick)), g.tick = h.tick
  PROVE  HostLog(g)
  <1> DEFINE new == Len(h.log) + 1
  <1>0. Logic(h.tick) \in Entry /\ h.tick \in Nat
    BY StepForms DEF Logic, Entry
  <1>1. /\ Steps(g) = Steps(h) \union {new} /\ new \notin Steps(h)
        /\ \A i \in Steps(h) : i \in Nat /\ i < new
        /\ \A i \in Steps(h) : \A cmd : RunAt(g, i, cmd) <=> RunAt(h, i, cmd)
        /\ \A i \in Steps(h) : \A x : LogicAt(g, i, x) <=> LogicAt(h, i, x)
        /\ new \in Nat
    BY <1>0, LogGrows
  <1>2. /\ \A cmd : ~RunAt(g, new, cmd)
        /\ \A x : LogicAt(g, new, x) <=> x = h.tick
    BY <1>0, UpdateLogged
  <1> HIDE DEF new
  <1>3. \A t \in Nat : Updated(h, t) => t < h.tick /\ Updated(g, t)
    BY <1>0 DEF Updated
  <1>4. Updated(g, h.tick)
    BY <1>0 DEF Updated
  <1>5. \A i \in Steps(g), t \in Nat : LogicAt(g, i, t) => Updated(g, t)
    BY <1>1, <1>2, <1>3, <1>4 DEF HostLog
  <1>6. ASSUME NEW i \in Steps(g), NEW j \in Steps(g), NEW t \in Nat, NEW u \in Nat,
               i < j, LogicAt(g, i, t), LogicAt(g, j, u)
        PROVE  t < u
    <2>1. i \in Steps(h)
      BY <1>1, <1>6
    <2>2. CASE j = new
      BY <1>1, <1>2, <1>3, <1>6, <2>1, <2>2 DEF HostLog
    <2>3. CASE j \in Steps(h)
      BY <1>1, <1>6, <2>1, <2>3 DEF HostLog
    <2>4. QED
      BY <1>1, <2>2, <2>3
  <1>7. /\ \A i, j \in Steps(g), cmd \in Command : RunAt(g, i, cmd) /\ RunAt(g, j, cmd) => i = j
        /\ \A i \in Steps(g), cmd \in TogglePause : ~RunAt(g, i, cmd)
    BY <1>1, <1>2 DEF HostLog
  <1>8. QED
    BY <1>5, <1>6, <1>7 DEF HostLog

LEMMA LogRuns ==
  ASSUME NEW h \in Simulation, NEW g \in Simulation, HostLog(h), NEW x \in Command,
         x \notin TogglePause, ~Done(h, x),
         g.log = Append(h.log, Run(x)), g.tick = h.tick, g.mid = h.mid
  PROVE  HostLog(g)
  <1> DEFINE new == Len(h.log) + 1
  <1>0. Run(x) \in Entry
    BY DEF Run, Entry
  <1>1. /\ Steps(g) = Steps(h) \union {new} /\ new \notin Steps(h)
        /\ \A i \in Steps(h) : \A cmd : RunAt(g, i, cmd) <=> RunAt(h, i, cmd)
        /\ \A i \in Steps(h) : \A t : LogicAt(g, i, t) <=> LogicAt(h, i, t)
    BY <1>0, LogGrows
  <1>2. /\ \A cmd : RunAt(g, new, cmd) <=> cmd = x
        /\ \A t : ~LogicAt(g, new, t)
    BY <1>0, RunLogged
  <1>3. \A i \in Steps(h) : ~RunAt(h, i, x)
    BY DEF Done
  <1>4. \A t : Updated(g, t) <=> Updated(h, t)
    BY DEF Updated
  <1> HIDE DEF new
  <1>5. /\ \A i \in Steps(g), t \in Nat : LogicAt(g, i, t) => Updated(g, t)
        /\ \A i, j \in Steps(g), t, u \in Nat : i < j /\ LogicAt(g, i, t) /\ LogicAt(g, j, u) => t < u
    BY <1>1, <1>2, <1>4 DEF HostLog
  <1>6. /\ \A i, j \in Steps(g), cmd \in Command : RunAt(g, i, cmd) /\ RunAt(g, j, cmd) => i = j
        /\ \A i \in Steps(g), cmd \in TogglePause : ~RunAt(g, i, cmd)
    BY <1>1, <1>2, <1>3 DEF HostLog
  <1>7. QED
    BY <1>5, <1>6 DEF HostLog

\* The log does not grow.
LEMMA LogStays ==
  ASSUME NEW h \in Simulation, NEW g \in Simulation, HostLog(h), g.log = h.log,
         \/ g.tick = h.tick /\ g.mid = h.mid
         \/ g.tick = h.tick + 1 /\ h.mid /\ ~g.mid
  PROVE  HostLog(g)
  <1>1. /\ Steps(g) = Steps(h)
        /\ \A i, cmd : RunAt(g, i, cmd) <=> RunAt(h, i, cmd)
        /\ \A i, t : LogicAt(g, i, t) <=> LogicAt(h, i, t)
    BY DEF Steps, RunAt, LogicAt
  <1>2. \A t \in Nat : Updated(g, t) <=> Updated(h, t)
    BY StepForms DEF Updated
  <1>3. QED
    BY <1>1, <1>2 DEF HostLog

IsChecksum(d) == d.tick \in Nat /\ d.sum \in Seq(Entry)

\* The checksum that the host sends with its tick, in an update and while it is paused.
LEMMA UpdateRightful ==
  ASSUME NEW h \in Simulation, NEW g \in Simulation, HostLog(h), ~h.mid, g.mid,
         g.log = Append(h.log, Logic(h.tick)), g.tick = h.tick,
         NEW d, d.tick = h.tick, d.sum = h.log
  PROVE  Rightful(g, d)
  <1> DEFINE new == Len(h.log) + 1
  <1>0. Logic(h.tick) \in Entry /\ h.tick \in Nat /\ h.log \in Seq(Entry) /\ Len(h.log) \in Nat
    BY StepForms DEF Logic, Entry
  <1>1. /\ Steps(g) = Steps(h) \union {new}
        /\ \A i \in Steps(h) : \A x : LogicAt(g, i, x) <=> LogicAt(h, i, x)
    BY <1>0, LogGrows
  <1>2. \A i \in Steps(h) : ~LogicAt(h, i, h.tick)
    BY <1>0 DEF HostLog, Updated
  <1>3. Prefix(h.log, g.log)
    <2>1. Prefix(h.log, h.log)
      BY <1>0 DEF Prefix, Sim!Prefix
    <2>2. \A l \in Seq(Entry) : Prefix(l, h.log) => Prefix(l, g.log)
      BY <1>0, LogGrows
    <2>3. QED
      BY <1>0, <2>1, <2>2
  <1>4. new - 1 = Len(d.sum)
    BY <1>0
  <1> HIDE DEF new
  <1>5. \A j \in Steps(g) : LogicAt(g, j, d.tick) => j = new
    BY <1>1, <1>2
  <1>6. QED
    BY <1>0, <1>3, <1>4, <1>5 DEF Rightful

LEMMA PauseRightful ==
  ASSUME NEW h \in Simulation, HostLog(h), ~h.mid, h.paused, NEW d, d.tick = h.tick
  PROVE  Rightful(h, d)
  <1>1. h.tick \in Nat
    BY StepForms
  <1>2. \A i \in Steps(h) : ~LogicAt(h, i, h.tick)
    BY <1>1 DEF HostLog, Updated
  <1>3. QED
    BY <1>1, <1>2 DEF Rightful

\* The host goes on: what it does concerns no checksum it has sent.
LEMMA RightfulGrows ==
  ASSUME NEW h \in Simulation, NEW g \in Simulation, NEW x \in Entry, g.log = Append(h.log, x),
         NEW d, IsChecksum(d), Rightful(h, d), ~(x.type = "logic" /\ x.tick = d.tick),
         g.tick = h.tick, h.mid => g.mid, h.paused => g.paused
  PROVE  Rightful(g, d)
  <1> DEFINE new == Len(h.log) + 1
  <1>1. /\ Steps(g) = Steps(h) \union {new}
        /\ \A i \in Steps(h) : \A t : LogicAt(g, i, t) <=> LogicAt(h, i, t)
        /\ g.log[new] = x
    BY LogGrows
  <1>2. \A l \in Seq(Entry) : Prefix(l, h.log) => Prefix(l, g.log)
    BY LogGrows
  <1>3. ~LogicAt(g, new, d.tick)
    BY <1>1 DEF LogicAt
  <1>4. d.sum \in Seq(Entry)
    BY DEF IsChecksum
  <1> HIDE DEF new
  <1>5. QED
    BY <1>1, <1>2, <1>3, <1>4 DEF Rightful

LEMMA RightfulStays ==
  ASSUME NEW h \in Simulation, NEW g \in Simulation, g.log = h.log,
         NEW d, IsChecksum(d), Rightful(h, d),
         \/ g.tick = h.tick /\ (h.mid => g.mid) /\ (h.paused => g.paused)
         \/ g.tick = h.tick + 1
  PROVE  Rightful(g, d)
  <1>1. Steps(g) = Steps(h) /\ \A i : LogicAt(g, i, d.tick) <=> LogicAt(h, i, d.tick)
    BY DEF Steps, LogicAt
  <1>2. d.tick \in Nat /\ h.tick \in Nat
    BY StepForms DEF IsChecksum
  <1>3. QED
    BY <1>1, <1>2 DEF Rightful

\* Two states that the host was in, of the same length, are the same.
LEMMA SamePrefix ==
  ASSUME NEW s \in Seq(Entry), NEW t \in Seq(Entry), NEW l \in Seq(Entry),
         Prefix(s, l), Prefix(t, l), Len(s) = Len(t)
  PROVE  s = t
  BY DEF Prefix, Sim!Prefix


-----------------------------------------------------------------------------
(***************************************************************************)
(* The packets of a client that joins.                                     *)
(***************************************************************************)
LEMMA TailForms ==
  ASSUME NEW S, NEW s \in Seq(S), s # <<>>
  PROVE  /\ Tail(s) \in Seq(S) /\ Len(s) \in Nat /\ Len(s) > 0 /\ Len(Tail(s)) = Len(s) - 1
         /\ \A i \in 1 .. Len(Tail(s)) : Tail(s)[i] = s[i + 1] /\ i + 1 \in 1 .. Len(s) /\ i + 1 # 1 /\ i \in Nat
         /\ Head(s) = s[1] /\ 1 \in 1 .. Len(s)
         /\ \A i \in 1 .. Len(s) : i # 1 => i - 1 \in 1 .. Len(Tail(s)) /\ Tail(s)[i - 1] = s[i]
  OBVIOUS

LEMMA AppendForms ==
  ASSUME NEW S, NEW s \in Seq(S), NEW x \in S
  PROVE  /\ Append(s, x) \in Seq(S) /\ Len(s) \in Nat /\ Len(Append(s, x)) = Len(s) + 1
         /\ Append(s, x)[Len(s) + 1] = x
         /\ 1 .. Len(Append(s, x)) = (1 .. Len(s)) \union {Len(s) + 1}
         /\ \A i \in 1 .. Len(s) : Append(s, x)[i] = s[i] /\ i < Len(s) + 1 /\ i \in Nat
         /\ Append(s, x) # <<>> /\ (s # <<>> => Head(Append(s, x)) = Head(s))
         /\ s = <<>> => Head(Append(s, x)) = x
  OBVIOUS

LEMMA JoiningTail ==
  ASSUME NEW s \in Seq(ClientPacket), s # <<>>, NEW t \in Seq(HostPacket), Joining(s, t)
  PROVE  /\ Joining(Tail(s), t)
         /\ NoJoining(s) => NoJoining(Tail(s))
         /\ Head(s).type \in {"objects", "map"} => NoJoining(Tail(s)) /\ NoRequest(t)
  <1>1. /\ Len(s) \in Nat /\ Len(s) > 0 /\ Len(Tail(s)) = Len(s) - 1
        /\ \A i \in 1 .. Len(Tail(s)) : Tail(s)[i] = s[i + 1] /\ i + 1 \in 1 .. Len(s) /\ i + 1 # 1 /\ i \in Nat
        /\ Head(s) = s[1] /\ 1 \in 1 .. Len(s)
    BY TailForms
  <1>2. NoJoining(s) => NoJoining(Tail(s))
    BY <1>1 DEF NoJoining
  <1>3. \A i, j \in 1 .. Len(Tail(s)) :
          Tail(s)[i].type \in {"objects", "map"} /\ Tail(s)[j].type \in {"objects", "map"} => i = j
    <2> SUFFICES ASSUME NEW i \in 1 .. Len(Tail(s)), NEW j \in 1 .. Len(Tail(s)),
                        Tail(s)[i].type \in {"objects", "map"}, Tail(s)[j].type \in {"objects", "map"}
                 PROVE  i = j
      OBVIOUS
    <2>1. i + 1 = j + 1 /\ i \in Nat /\ j \in Nat
      BY <1>1 DEF Joining
    <2>2. QED
      BY <2>1
  <1>4. \A i \in 1 .. Len(Tail(s)) : Tail(s)[i].type = "beginMap" =>
          i + 1 \in 1 .. Len(Tail(s)) /\ Tail(s)[i + 1].type = "map"
    <2> SUFFICES ASSUME NEW i \in 1 .. Len(Tail(s)), Tail(s)[i].type = "beginMap"
                 PROVE  i + 1 \in 1 .. Len(Tail(s)) /\ Tail(s)[i + 1].type = "map"
      OBVIOUS
    <2>1. i + 1 + 1 \in 1 .. Len(s) /\ s[i + 1 + 1].type = "map"
      BY <1>1 DEF Joining
    <2>2. i + 1 \in 1 .. Len(Tail(s))
      BY <1>1, <2>1
    <2>3. QED
      BY <1>1, <2>1, <2>2
  <1>5. ASSUME Head(s).type \in {"objects", "map"}
        PROVE  NoJoining(Tail(s)) /\ NoRequest(t)
    <2>1. ~NoJoining(s)
      BY <1>1, <1>5 DEF NoJoining
    <2>2. \A i \in 1 .. Len(s) : s[i].type \in {"objects", "map"} => i = 1
      BY <1>1, <1>5 DEF Joining
    <2>3. \A i \in 1 .. Len(s) : s[i].type # "beginMap"
      BY <1>1, <2>2 DEF Joining
    <2>4. QED
      BY <1>1, <2>1, <2>2, <2>3 DEF NoJoining, Joining
  <1>6. QED
    BY <1>2, <1>3, <1>4, <1>5 DEF Joining

\* The host handles the first packet of the client.
LEMMA JoiningHandled ==
  ASSUME NEW s \in Seq(ClientPacket), NEW t \in Seq(HostPacket), t # <<>>, Joining(s, t)
  PROVE  /\ Joining(s, Tail(t))
         /\ NoRequest(t) => NoRequest(Tail(t))
         /\ Head(t).type = "mapRequest" => NoJoining(s) /\ NoRequest(Tail(t))
  <1>1. /\ Len(t) \in Nat /\ Len(t) > 0 /\ Len(Tail(t)) = Len(t) - 1
        /\ \A i \in 1 .. Len(Tail(t)) : Tail(t)[i] = t[i + 1] /\ i + 1 \in 1 .. Len(t) /\ i + 1 # 1 /\ i \in Nat
        /\ Head(t) = t[1] /\ 1 \in 1 .. Len(t)
    BY TailForms
  <1>2. NoRequest(t) => NoRequest(Tail(t))
    BY <1>1 DEF NoRequest
  <1>3. \A i, j \in 1 .. Len(Tail(t)) :
          Tail(t)[i].type = "mapRequest" /\ Tail(t)[j].type = "mapRequest" => i = j
    <2> SUFFICES ASSUME NEW i \in 1 .. Len(Tail(t)), NEW j \in 1 .. Len(Tail(t)),
                        Tail(t)[i].type = "mapRequest", Tail(t)[j].type = "mapRequest"
                 PROVE  i = j
      OBVIOUS
    <2>1. i + 1 = j + 1 /\ i \in Nat /\ j \in Nat
      BY <1>1 DEF Joining
    <2>2. QED
      BY <2>1
  <1>4. ASSUME Head(t).type = "mapRequest"
        PROVE  NoJoining(s) /\ NoRequest(Tail(t))
    <2>1. ~NoRequest(t)
      BY <1>1, <1>4 DEF NoRequest
    <2>2. \A i \in 1 .. Len(t) : t[i].type = "mapRequest" => i = 1
      BY <1>1, <1>4 DEF Joining
    <2>3. QED
      BY <1>1, <2>1, <2>2 DEF NoRequest, Joining
  <1>5. QED
    BY <1>2, <1>3, <1>4 DEF Joining

\* The host broadcasts a packet.
LEMMA JoiningSent ==
  ASSUME NEW s \in Seq(ClientPacket), NEW t \in Seq(HostPacket), Joining(s, t),
         NEW p \in ClientPacket, p.type \in {"tick", "action"}
  PROVE  Joining(Append(s, p), t) /\ (NoJoining(s) => NoJoining(Append(s, p)))
  <1> DEFINE u == Append(s, p)
  <1>1. /\ Len(s) \in Nat /\ u[Len(s) + 1] = p
        /\ 1 .. Len(u) = (1 .. Len(s)) \union {Len(s) + 1}
        /\ \A i \in 1 .. Len(s) : u[i] = s[i]
    BY AppendForms
  <1> HIDE DEF u
  <1>2. NoJoining(s) => NoJoining(u)
    BY <1>1 DEF NoJoining
  <1>3. QED
    BY <1>1, <1>2 DEF Joining, u

\* The client sends a packet: an action, or the request when there is none.
LEMMA JoiningAsks ==
  ASSUME NEW s \in Seq(ClientPacket), NEW t \in Seq(HostPacket), Joining(s, t),
         NEW p \in HostPacket, p.type = "action" \/ (NoJoining(s) /\ NoRequest(t))
  PROVE  Joining(s, Append(t, p)) /\ (p.type = "action" /\ NoRequest(t) => NoRequest(Append(t, p)))
  <1> DEFINE u == Append(t, p)
  <1>1. /\ Len(t) \in Nat /\ u[Len(t) + 1] = p
        /\ 1 .. Len(u) = (1 .. Len(t)) \union {Len(t) + 1}
        /\ \A i \in 1 .. Len(t) : u[i] = t[i]
    BY AppendForms
  <1> HIDE DEF u
  <1>2. p.type = "action" /\ NoRequest(t) => NoRequest(u)
    BY <1>1 DEF NoRequest
  <1>3. \A i, j \in 1 .. Len(u) : u[i].type = "mapRequest" /\ u[j].type = "mapRequest" => i = j
    BY <1>1 DEF Joining, NoRequest
  <1>4. QED
    BY <1>2, <1>3 DEF Joining, u

\* The host answers the request.
LEMMA JoiningAnswers ==
  ASSUME NEW s \in Seq(ClientPacket), NEW t \in Seq(HostPacket), NoJoining(s), NoRequest(t),
         NEW a \in ClientPacket, a.type = "beginMap", NEW b \in ClientPacket, b.type = "map"
  PROVE  Joining(s \o <<a, b>>, t)
  <1> DEFINE u == s \o <<a, b>>
  <1>1. /\ Len(s) \in Nat /\ Len(u) = Len(s) + 2
        /\ u[Len(s) + 1] = a /\ u[Len(s) + 2] = b
        /\ \A i \in 1 .. Len(s) : u[i] = s[i]
    OBVIOUS
  <1> HIDE DEF u
  <1>2. \A i \in 1 .. Len(u) : i \in 1 .. Len(s) \/ i = Len(s) + 1 \/ i = Len(s) + 2
    BY <1>1
  <1>3. \A i \in 1 .. Len(u) : u[i].type \in {"objects", "map"} => i = Len(s) + 2
    BY <1>1, <1>2 DEF NoJoining
  <1>4. \A i \in 1 .. Len(u) : u[i].type = "beginMap" => i = Len(s) + 1
    BY <1>1, <1>2 DEF NoJoining
  <1>5. \A i \in 1 .. Len(u) : u[i].type = "beginMap" => i + 1 \in 1 .. Len(u) /\ u[i + 1].type = "map"
    BY <1>1, <1>4
  <1>6. QED
    BY <1>3, <1>5 DEF Joining, NoRequest, u


-----------------------------------------------------------------------------
(***************************************************************************)
(* A client, while the host or another client acts.                        *)
(***************************************************************************)
LEMMA ViewType ==
  ASSUME TypeOK, NEW m \in Machine
  PROVE  View(m) \in Simulation
  BY DEF TypeOK, View, Simulation, Updating

LEMMA ViewTypeNext ==
  ASSUME TypeOK', NEW m \in Machine
  PROVE  View(m)' \in Simulation
  BY DEF TypeOK, View, Simulation, Updating

LEMMA ViewFields ==
  ASSUME NEW m \in Machine
  PROVE  /\ View(m).log = log[m] /\ View(m).tick = tick[m] /\ View(m).paused = paused[m]
         /\ View(m).mid = Updating(m)
  BY DEF View

LEMMA ViewFieldsNext ==
  ASSUME NEW m \in Machine
  PROVE  /\ View(m)'.log = log'[m] /\ View(m)'.tick = tick'[m] /\ View(m)'.paused = paused'[m]
         /\ View(m)'.mid = Updating(m)'
  BY DEF View

LEMMA SideTypes ==
  ASSUME TypeOK, NEW c \in Client
  PROVE  /\ c \in Machine /\ Host \in Machine /\ c # Host
         /\ toClient[c] \in Seq(ClientPacket) /\ toHost[c] \in Seq(HostPacket)
         /\ queue[c] \in SUBSET QueuedAction /\ queue[Host] \in SUBSET QueuedAction
         /\ tick[c] \in Nat /\ tick[Host] \in Nat /\ nextUid[c] \in Nat /\ serverTick[c] \in Nat
         /\ left[c] \in Nat /\ left[Host] \in Nat
         /\ log[c] \in Seq(Entry) /\ log[Host] \in Seq(Entry)
         /\ \A i \in 1 .. Len(toClient[c]) : toClient[c][i] \in ClientPacket
         /\ \A d \in tickData[c] : IsChecksum(d)
  <1>1. c \in Machine /\ Host \in Machine /\ c # Host
    BY MachineAssumption DEF Machine
  <1>2. toClient[c] \in Seq(ClientPacket) /\ toHost[c] \in Seq(HostPacket)
    BY DEF TypeOK
  <1>3. \A i \in 1 .. Len(toClient[c]) : toClient[c][i] \in ClientPacket
    BY <1>2
  <1>4. \A d \in tickData[c] : IsChecksum(d)
    BY DEF TypeOK, IsChecksum
  <1>5. QED
    BY <1>1, <1>2, <1>3, <1>4 DEF TypeOK

LEMMA PacketFields ==
  ASSUME NEW p \in ClientPacket
  PROVE  /\ p.type = "map" => Loads(p) \in Simulation /\ Loads(p).tick = p.tick /\ ~Loads(p).mid
         /\ p.type = "tick" => IsChecksum(p)
         /\ p.type \in {"tick", "action", "map"} => p.tick \in Nat
         /\ p.type = "action" => p.cmd \in Command
  BY DEF ClientPacket, Loads, Simulation, IsChecksum

\* What the client's side consists of, apart from its thread and its channels.
OwnKept(c) ==
  /\ View(c)' = View(c) /\ queue'[c] = queue[c] /\ conn'[c] = conn[c]
  /\ tickData'[c] = tickData[c] /\ desynced'[c] = desynced[c]
  /\ nextUid'[c] = nextUid[c]
  /\ conn[c] = "loaded" /\ Idling(c)' => paused'[c]

OwnSame(c) == OwnKept(c) /\ toHost'[c] = toHost[c]

\* The host does nothing that concerns a client that has received everything.
HostKeeps ==
  /\ tick[Host] <= tick'[Host]
  /\ \A r \in Simulation : \A W \in SUBSET Item :
       Follows(View(Host), r, W) => Follows(View(Host)', r, W)
  /\ \A d : IsChecksum(d) /\ Rightful(View(Host), d) => Rightful(View(Host)', d)

LEMMA SameHostKeeps ==
  ASSUME TypeOK, View(Host)' = View(Host)
  PROVE  HostKeeps
  <1>1. Host \in Machine
    BY DEF Machine
  <1>2. tick'[Host] = tick[Host] /\ tick[Host] \in Nat
    BY <1>1, ViewFields, ViewFieldsNext DEF TypeOK
  <1>3. QED
    BY <1>2 DEF HostKeeps

LEMMA ReplicaKept ==
  ASSUME TypeOK, TypeOK', NEW c \in Client, ReplicaInv(c), OwnKept(c), toClient'[c] = toClient[c], HostKeeps,
         JoinsOnce(c)'
  PROVE  ReplicaInv(c)'
  <1>0. /\ c \in Machine /\ Host \in Machine /\ View(c) \in Simulation
        /\ toClient[c] \in Seq(ClientPacket) /\ queue[c] \in SUBSET QueuedAction
        /\ tick[Host] \in Nat /\ tick'[Host] \in Nat
        /\ \A i \in 1 .. Len(toClient[c]) : toClient[c][i] \in ClientPacket
        /\ \A d \in tickData[c] : IsChecksum(d)
    BY SideTypes, ViewType DEF TypeOK
  <1>1. FollowsHost(c)'
    <2>1. conn'[c] = "loaded" => Follows(View(Host)', View(c)', Waiting(queue'[c], toClient'[c], 0))
      <3>1. Waiting(queue[c], toClient[c], 0) \in SUBSET Item
        BY <1>0, WaitingType
      <3>2. QED
        BY <1>0, <3>1 DEF ReplicaInv, FollowsHost, OwnKept, HostKeeps
    <2>2. ASSUME NEW k \in 1 .. Len(toClient'[c]), toClient'[c][k].type = "map"
          PROVE  Follows(View(Host)', Loads(toClient'[c][k]), Waiting({}, toClient'[c], k))
      <3>1. k \in Nat /\ {} \in SUBSET QueuedAction
        BY <1>0
      <3>2. Waiting({}, toClient[c], k) \in SUBSET Item
        BY <1>0, <3>1, WaitingType
      <3>3. Loads(toClient[c][k]) \in Simulation
        BY <1>0, <2>2, PacketFields
      <3>4. Follows(View(Host), Loads(toClient[c][k]), Waiting({}, toClient[c], k))
        BY <2>2 DEF ReplicaInv, FollowsHost
      <3>5. QED
        BY <3>2, <3>3, <3>4 DEF HostKeeps
    <2>3. QED
      BY <2>1, <2>2 DEF FollowsHost, OwnKept
  <1>2. QueueInOrder(c)'
    <2>1. \A e \in queue[c] : e.tick \in Nat
      BY <1>0 DEF QueuedAction
    <2>2. QED
      BY <1>0, <2>1 DEF ReplicaInv, QueueInOrder, OwnKept, HostKeeps
  <1>3. ChecksumsFit(c)'
    <2>1. \A d \in tickData[c] : Rightful(View(Host)', d)
      BY <1>0 DEF ReplicaInv, ChecksumsFit, HostKeeps
    <2>2. \A i \in 1 .. Len(toClient[c]) : toClient[c][i].type = "tick" => Rightful(View(Host)', toClient[c][i])
      BY <1>0, PacketFields DEF ReplicaInv, ChecksumsFit, HostKeeps
    <2>3. QED
      BY <2>1, <2>2 DEF ReplicaInv, ChecksumsFit, OwnKept
  <1>4. QED
    BY <1>1, <1>2, <1>3 DEF ReplicaInv

LEMMA ReplicaStill ==
  ASSUME TypeOK, TypeOK', NEW c \in Client, ReplicaInv(c), OwnSame(c), toClient'[c] = toClient[c], HostKeeps
  PROVE  ReplicaInv(c)'
  <1>1. JoinsOnce(c)'
    BY DEF ReplicaInv, JoinsOnce, OwnSame, OwnKept
  <1>2. QED
    BY <1>1, ReplicaKept DEF OwnSame

\* Nothing concerns a client that is not connected, but the host's clock.
LEMMA ReplicaAbsent ==
  ASSUME TypeOK, TypeOK', NEW c \in Client, ReplicaInv(c), OwnSame(c), conn[c] = "none",
         toClient'[c] = toClient[c], tick[Host] <= tick'[Host]
  PROVE  ReplicaInv(c)'
  <1>1. /\ toClient[c] = <<>> /\ tickData[c] = {}
        /\ tick[Host] \in Nat /\ tick'[Host] \in Nat
        /\ \A e \in queue[c] : e.tick \in Nat
    <2>1. \A e \in queue[c] : e.tick \in Nat
      BY SideTypes DEF QueuedAction
    <2>2. QED
      BY <2>1, SideTypes DEF ReplicaInv, JoinsOnce, TypeOK
  <1>2. FollowsHost(c)' /\ ChecksumsFit(c)' /\ QueueInOrder(c)'
    BY <1>1 DEF ReplicaInv, QueueInOrder, FollowsHost, ChecksumsFit, OwnSame, OwnKept
  <1>3. JoinsOnce(c)'
    BY DEF ReplicaInv, JoinsOnce, OwnSame, OwnKept
  <1>4. QED
    BY <1>2, <1>3 DEF ReplicaInv

(***************************************************************************)
(* The host broadcasts p, and its own step fits what p adds to what waits. *)
(***************************************************************************)
Adds(p, n, W) == IF p.type = "action" THEN W \union {InChannel(p, n)} ELSE W

HostSends(p) ==
  /\ p \in ClientPacket /\ p.type \in {"tick", "action"} /\ p.tick = tick[Host]
  /\ tick'[Host] = tick[Host]
  /\ \A r \in Simulation : \A W \in SUBSET Item : \A n \in Nat :
       Follows(View(Host), r, W) /\ Missing(r, tick[Host]) /\ (\A a \in W : Earlier(a, InChannel(p, n)))
       => Follows(View(Host)', r, Adds(p, n, W))
  /\ \A d : IsChecksum(d) /\ Rightful(View(Host), d) => Rightful(View(Host)', d)
  /\ p.type = "tick" => Rightful(View(Host)', p)

LEMMA ReplicaSent ==
  ASSUME Safe, TypeOK', NEW c \in Client, ReplicaInv(c), OwnSame(c), NEW p, HostSends(p),
         toClient'[c] = Append(toClient[c], p)
  PROVE  conn[c] # "none" => ReplicaInv(c)'
  <1> SUFFICES ASSUME conn[c] # "none" PROVE ReplicaInv(c)'
    OBVIOUS
  <1> DEFINE s == toClient[c]
             u == Append(toClient[c], p)
             n == Len(toClient[c]) + 1
  <1>0. /\ TypeOK /\ ChannelInv(c) /\ ClientInv(c)
        /\ c \in Machine /\ Host \in Machine /\ View(c) \in Simulation
        /\ s \in Seq(ClientPacket) /\ queue[c] \in SUBSET QueuedAction
        /\ tick[Host] \in Nat /\ tick'[Host] \in Nat /\ tick[c] \in Nat /\ serverTick[c] \in Nat
        /\ \A i \in 1 .. Len(s) : s[i] \in ClientPacket
        /\ \A d \in tickData[c] : IsChecksum(d)
        /\ p \in ClientPacket
    BY SideTypes, ViewType DEF TypeOK, Safe, LockstepInv, HostSends
  <1>1. /\ Len(s) \in Nat /\ u[n] = p /\ n \in Nat
        /\ 1 .. Len(u) = (1 .. Len(s)) \union {n}
        /\ \A i \in 1 .. Len(s) : u[i] = s[i]
    BY <1>0, AppendForms
  <1>2. FollowsHost(c)'
    <2>1. ASSUME conn'[c] = "loaded"
          PROVE  Follows(View(Host)', View(c)', Waiting(queue'[c], u, 0))
      <3>1. Waiting(queue[c], s, 0) \in SUBSET Item
        BY <1>0, WaitingType
      <3>2. \A a \in Waiting(queue[c], s, 0) : Earlier(a, InChannel(p, n))
        BY <1>0, SentIsLast
      <3>3. Missing(View(c), tick[Host])
        <4>1. tick[c] <= tick[Host] /\ (Updating(c) => tick[c] < tick[Host])
          BY <1>0, <2>1 DEF ClientInv, Updating, OwnSame, OwnKept
        <4>2. View(c).tick = tick[c] /\ View(c).mid = Updating(c)
          BY <1>0, ViewFields
        <4>3. QED
          BY <1>0, <4>1, <4>2 DEF Missing
      <3>4. Follows(View(Host), View(c), Waiting(queue[c], s, 0))
        BY <2>1 DEF ReplicaInv, FollowsHost, OwnSame, OwnKept
      <3>5. Follows(View(Host)', View(c), Adds(p, n, Waiting(queue[c], s, 0)))
        BY <1>0, <1>1, <3>1, <3>2, <3>3, <3>4 DEF HostSends
      <3>6. Waiting(queue[c], u, 0) = Adds(p, n, Waiting(queue[c], s, 0))
        <4>1. 0 \in 0 .. Len(s)
          BY <1>1
        <4>2. QED
          BY <1>0, <4>1, WaitingSent DEF Adds
      <3>7. QED
        BY <3>5, <3>6 DEF OwnSame, OwnKept
    <2>2. ASSUME NEW k \in 1 .. Len(u), u[k].type = "map"
          PROVE  Follows(View(Host)', Loads(u[k]), Waiting({}, u, k))
      <3>0. k \in 1 .. Len(s) /\ u[k] = s[k] /\ k \in Nat /\ {} \in SUBSET QueuedAction /\ k \in 0 .. Len(s)
        BY <1>1, <2>2 DEF HostSends
      <3>1. Waiting({}, s, k) \in SUBSET Item
        BY <1>0, <3>0, WaitingType
      <3>2. \A a \in Waiting({}, s, k) : Earlier(a, InChannel(p, n))
        BY <1>0, <3>0, SentIsLast
      <3>3. Loads(s[k]) \in Simulation /\ Loads(s[k]).tick = s[k].tick /\ ~Loads(s[k]).mid
        BY <1>0, <2>2, <3>0, PacketFields
      <3>4. s[k].tick \in Nat /\ s[k].tick <= tick[Host]
        BY <1>0, <2>2, <3>0, PacketFields DEF ChannelInv, Within, Ticked
      <3>5. Missing(Loads(s[k]), tick[Host])
        BY <1>0, <3>3, <3>4 DEF Missing
      <3>6. Follows(View(Host), Loads(s[k]), Waiting({}, s, k))
        BY <2>2, <3>0 DEF ReplicaInv, FollowsHost
      <3>7. Follows(View(Host)', Loads(s[k]), Adds(p, n, Waiting({}, s, k)))
        BY <1>1, <3>1, <3>2, <3>3, <3>5, <3>6 DEF HostSends
      <3>8. Waiting({}, u, k) = Adds(p, n, Waiting({}, s, k))
        BY <1>0, <1>1, <3>0, WaitingSent DEF Adds
      <3>9. QED
        BY <3>0, <3>7, <3>8
    <2>3. QED
      BY <2>1, <2>2 DEF FollowsHost, OwnSame, OwnKept
  <1>3. JoinsOnce(c)'
    <2>1. /\ Joining(u, toHost[c])
          /\ NoJoining(s) => NoJoining(u)
      BY <1>0, SideTypes, JoiningSent DEF ReplicaInv, JoinsOnce, HostSends
    <2>2. QED
      BY <2>1 DEF ReplicaInv, JoinsOnce, OwnSame, OwnKept
  <1>4. QueueInOrder(c)'
    <2>1. \A e \in queue[c] : \A i \in 1 .. Len(u) : u[i].type = "action" => e.tick <= u[i].tick
      BY <1>0, <1>1 DEF ReplicaInv, QueueInOrder, HostSends
    <2>2. QED
      BY <2>1 DEF ReplicaInv, QueueInOrder, OwnSame, OwnKept, HostSends
  <1>5. ChecksumsFit(c)'
    <2>1. \A d \in tickData[c] : Rightful(View(Host)', d)
      BY <1>0 DEF ReplicaInv, ChecksumsFit, HostSends
    <2>2. \A i \in 1 .. Len(s) : s[i].type = "tick" => Rightful(View(Host)', s[i])
      BY <1>0, PacketFields DEF ReplicaInv, ChecksumsFit, HostSends
    <2>3. \A i \in 1 .. Len(u) : u[i].type = "tick" => Rightful(View(Host)', u[i])
      BY <1>1, <2>2 DEF HostSends
    <2>4. QED
      BY <2>1, <2>3 DEF ReplicaInv, ChecksumsFit, OwnSame, OwnKept
  <1>6. QED
    BY <1>2, <1>3, <1>4, <1>5 DEF ReplicaInv

LEMMA ReplicasSent ==
  ASSUME Safe, TypeOK', \A c \in Client : ReplicaInv(c) /\ OwnSame(c), NEW p, Broadcast(p),
         Connected # {} => HostSends(p), tick[Host] <= tick'[Host]
  PROVE  \A c \in Client : ReplicaInv(c)'
  <1> SUFFICES ASSUME NEW c \in Client PROVE ReplicaInv(c)'
    OBVIOUS
  <1>1. CASE conn[c] = "none"
    <2>1. toClient'[c] = toClient[c]
      BY <1>1 DEF Broadcast, Connected
    <2>2. QED
      BY <1>1, <2>1, ReplicaAbsent DEF Safe
  <1>2. CASE conn[c] # "none"
    <2>1. c \in Connected /\ toClient'[c] = Append(toClient[c], p)
      BY <1>2 DEF Broadcast, Connected
    <2>2. QED
      BY <1>2, <2>1, ReplicaSent
  <1>3. QED
    BY <1>1, <1>2


-----------------------------------------------------------------------------
(***************************************************************************)
(* The host's own side.                                                    *)
(***************************************************************************)
HostSide == HostLog(View(Host)) /\ HostFrame /\ Once

Following == Safe /\ FollowInv

LEMMA FollowingFacts ==
  ASSUME Following
  PROVE  /\ Safe /\ TypeOK /\ Host \in Machine /\ View(Host) \in Simulation
         /\ HostLog(View(Host)) /\ HostFrame /\ Once /\ \A c \in Client : ReplicaInv(c)
         /\ View(Host).log = log[Host] /\ View(Host).tick = tick[Host]
         /\ View(Host).paused = paused[Host] /\ View(Host).mid = Updating(Host)
  <1>1. Safe /\ TypeOK /\ Host \in Machine
    BY DEF Following, Safe, Machine
  <1>2. QED
    BY <1>1, ViewType, ViewFields DEF Following, FollowInv

LEMMA DoneUpdates ==
  ASSUME NEW h \in Simulation, NEW g \in Simulation, NEW t \in Nat,
         g.log = Append(h.log, Logic(t)), g.paused = h.paused
  PROVE  \A cmd \in Command : Done(g, cmd) => Done(h, cmd)
  <1>1. Logic(t) \in Entry
    BY DEF Logic, Entry
  <1>2. /\ Steps(g) = Steps(h) \union {Len(h.log) + 1}
        /\ \A i \in Steps(h) : \A cmd : RunAt(g, i, cmd) <=> RunAt(h, i, cmd)
    BY <1>1, LogGrows
  <1>3. \A cmd : ~RunAt(g, Len(h.log) + 1, cmd)
    BY UpdateLogged
  <1>4. QED
    BY <1>2, <1>3 DEF Done

LEMMA DoneRuns ==
  ASSUME NEW h \in Simulation, NEW g \in Simulation, NEW x \in Command,
         g.log = Append(h.log, Run(x)), g.paused = h.paused
  PROVE  \A cmd \in Command : Done(g, cmd) => Done(h, cmd) \/ cmd = x
  <1>1. Run(x) \in Entry
    BY DEF Run, Entry
  <1>2. /\ Steps(g) = Steps(h) \union {Len(h.log) + 1}
        /\ \A i \in Steps(h) : \A cmd : RunAt(g, i, cmd) <=> RunAt(h, i, cmd)
    BY <1>1, LogGrows
  <1>3. \A cmd : RunAt(g, Len(h.log) + 1, cmd) <=> cmd = x
    BY RunLogged
  <1>4. QED
    BY <1>2, <1>3 DEF Done

LEMMA DonePauses ==
  ASSUME PausedOnce, NEW h, NEW g, NEW x \in TogglePause, g.log = h.log
  PROVE  \A cmd \in Command : Done(g, cmd) => Done(h, cmd) \/ cmd = x
  <1>1. Steps(g) = Steps(h) /\ \A i, cmd : RunAt(g, i, cmd) <=> RunAt(h, i, cmd)
    BY DEF Steps, RunAt
  <1>2. QED
    BY <1>1 DEF Done, PausedOnce

\* Nothing more is done than what is taken out of the host's queue.
LEMMA OnceTaken ==
  ASSUME TypeOK, Once, NEW x, queue'[Host] = queue[Host] \ {x}, unsent' = unsent, toHost' = toHost,
         \A cmd \in Command : Done(View(Host)', cmd) => Done(View(Host), cmd) \/ (x \in queue[Host] /\ cmd = x.cmd)
  PROVE  Once'
  <1>0. /\ \A e \in queue[Host] : e.cmd \in Command
        /\ unsent \subseteq Command
    BY DEF TypeOK, QueuedAction, Machine
  <1>1. \A cmd : Asked(cmd)' => Asked(cmd)
    BY DEF Asked
  <1>2. \A c, cmd : Sent(c, cmd)' <=> Sent(c, cmd)
    BY DEF Sent
  <1>3. \A cmd \in Command : ~Asked(cmd) /\ ~Done(View(Host), cmd) => ~Asked(cmd)' /\ ~Done(View(Host)', cmd)
    BY <1>1 DEF Asked
  <1>4. \A e \in queue'[Host] : ~Done(View(Host)', e.cmd)
    <2>1. \A e \in queue'[Host] : e \in queue[Host] /\ (x \in queue[Host] => e.cmd # x.cmd)
      BY DEF Once
    <2>2. QED
      BY <1>0, <2>1 DEF Once
  <1>5. QED
    BY <1>0, <1>2, <1>3, <1>4 DEF Once

LEMMA OnceStays ==
  ASSUME TypeOK, Once, queue'[Host] = queue[Host], unsent' = unsent, toHost' = toHost,
         \A cmd \in Command : Done(View(Host)', cmd) => Done(View(Host), cmd)
  PROVE  Once'
  <1>1. PICK x : x \notin queue[Host]
    BY NoSetContainsEverything
  <1>2. queue'[Host] = queue[Host] \ {x}
    BY <1>1
  <1>3. QED
    BY <1>1, <1>2, OnceTaken

LEMMA OwnStill ==
  ASSUME NEW c \in Client, ReplicaInv(c),
         pc'[c] = pc[c], left'[c] = left[c], log'[c] = log[c], tick'[c] = tick[c],
         paused'[c] = paused[c], queue'[c] = queue[c], conn'[c] = conn[c],
         tickData'[c] = tickData[c], desynced'[c] = desynced[c], nextUid'[c] = nextUid[c],
         toHost'[c] = toHost[c]
  PROVE  OwnSame(c)
  BY DEF OwnSame, OwnKept, View, Updating, Idling, ReplicaInv, FollowsHost

\* A step of the host's thread that no client takes part in.
LEMMA OwnWhileHost ==
  ASSUME Following, TypeOK', NEW c \in Client,
         pc' = [pc EXCEPT ![Host] = pc'[Host]], left' = [left EXCEPT ![Host] = left'[Host]],
         log' = [log EXCEPT ![Host] = log'[Host]], tick' = [tick EXCEPT ![Host] = tick'[Host]],
         paused' = [paused EXCEPT ![Host] = paused'[Host]],
         queue' = [queue EXCEPT ![Host] = queue'[Host]],
         nextUid' = [nextUid EXCEPT ![Host] = nextUid'[Host]], UNCHANGED <<session, toHost>>
  PROVE  OwnSame(c)
  <1>1. c # Host /\ c \in Machine /\ ReplicaInv(c) /\ TypeOK
    BY FollowingFacts, SideTypes
  <1>2. /\ pc'[c] = pc[c] /\ left'[c] = left[c] /\ log'[c] = log[c] /\ tick'[c] = tick[c]
        /\ paused'[c] = paused[c] /\ queue'[c] = queue[c] /\ nextUid'[c] = nextUid[c]
    BY <1>1 DEF TypeOK
  <1>3. conn' = conn /\ tickData' = tickData /\ desynced' = desynced /\ toHost' = toHost
    BY DEF session
  <1>4. QED
    BY <1>1, <1>2, <1>3, OwnStill

LEMMA FollowInvFrom ==
  ASSUME HostLog(View(Host))', HostFrame', Once', \A c \in Client : ReplicaInv(c)'
  PROVE  FollowInv'
  BY DEF FollowInv


-----------------------------------------------------------------------------
(***************************************************************************)
(* The steps of the host's thread.                                         *)
(***************************************************************************)
LEMMA HostBeginsFrame ==
  ASSUME Following, TypeOK', BeginFrame(Host)
  PROVE  FollowInv'
  <1> USE DEF simulation, session
  <1>0. pc[Host] = "frame" /\ UNCHANGED <<tick, paused, saving, log, queue, nextUid, session, toHost, unsent>>
    BY DEF BeginFrame
  <1>1. \/ /\ Stopped(Host) /\ Broadcast(TickPacket)
           /\ pc' = [pc EXCEPT ![Host] = "queue"] /\ left' = [left EXCEPT ![Host] = 0]
        \/ /\ ~Stopped(Host) /\ UNCHANGED toClient
           /\ pc' = [pc EXCEPT ![Host] = "poll"]
           /\ \E n \in NumUpdates(Host) : left' = [left EXCEPT ![Host] = n]
    BY DEF BeginFrame
  <1>2. ~Updating(Host) /\ Updating(Host)' = Updating(Host) /\ (Idling(Host)' => Stopped(Host)) /\ (pc'[Host] = "poll" => ~Stopped(Host))
    <2>1. pc \in [Machine -> {"frame", "poll", "queue"}] /\ left \in [Machine -> Nat] /\ Host \in Machine
      BY FollowingFacts DEF TypeOK
    <2>2. QED
      BY <1>0, <1>1, <2>1 DEF Updating, Idling
  <1>3. View(Host)' = View(Host)
    BY <1>0, <1>2 DEF View
  <1>4. HostLog(View(Host))' /\ Once'
    BY <1>0, <1>3, FollowingFacts, OnceStays
  <1>5. Stopped(Host) => paused[Host] \/ Connected = {}
    BY FollowingFacts DEF HostFrame, Stopped, GameIsPaused
  <1>6. HostFrame'
    <2>1. paused[Host] => Stopped(Host)
      BY DEF Stopped, GameIsPaused
    <2>2. QED
      BY <1>0, <1>2, <1>5, <2>1, FollowingFacts DEF HostFrame, Connected
  <1>7. \A c \in Client : OwnSame(c)
    <2>1. /\ pc' = [pc EXCEPT ![Host] = pc'[Host]] /\ left' = [left EXCEPT ![Host] = left'[Host]]
          /\ log' = [log EXCEPT ![Host] = log'[Host]] /\ tick' = [tick EXCEPT ![Host] = tick'[Host]]
          /\ paused' = [paused EXCEPT ![Host] = paused'[Host]]
          /\ queue' = [queue EXCEPT ![Host] = queue'[Host]]
          /\ nextUid' = [nextUid EXCEPT ![Host] = nextUid'[Host]]
      BY <1>0, <1>1, FollowingFacts DEF TypeOK
    <2>2. QED
      BY <1>0, <2>1, OwnWhileHost
  <1>8. \A c \in Client : ReplicaInv(c)'
    <2>1. CASE Broadcast(TickPacket) /\ Stopped(Host)
      <3>1. HostKeeps
        BY <1>3, FollowingFacts, SameHostKeeps
      <3>2. Connected # {} => Rightful(View(Host)', TickPacket)
        <4>1. Connected # {} => View(Host).paused
          BY <1>5, <2>1, FollowingFacts
        <4>2. TickPacket.tick = View(Host).tick /\ ~View(Host).mid
          BY <1>2, FollowingFacts DEF TickPacket
        <4>3. QED
          BY <1>3, <4>1, <4>2, FollowingFacts, PauseRightful
      <3>3. /\ TickPacket \in ClientPacket /\ TickPacket.type = "tick" /\ TickPacket.tick = tick[Host]
            /\ tick'[Host] = tick[Host]
        BY <1>0, FollowingFacts, TickPacketType DEF TickPacket
      <3>4. Connected # {} => HostSends(TickPacket)
        BY <3>1, <3>2, <3>3 DEF HostSends, HostKeeps, Adds
      <3>5. tick[Host] <= tick'[Host]
        BY <3>1 DEF HostKeeps
      <3>6. QED
        BY <1>7, <2>1, <3>4, <3>5, FollowingFacts, ReplicasSent
    <2>2. CASE toClient' = toClient
      BY <1>3, <1>7, <2>2, FollowingFacts, SameHostKeeps, ReplicaStill
    <2>3. QED
      BY <1>1, <2>1, <2>2
  <1>9. QED
    BY <1>4, <1>6, <1>8, FollowInvFrom

LEMMA HostEndsPoll ==
  ASSUME Following, TypeOK', EndIdlePoll(Host)
  PROVE  FollowInv'
  <1> USE DEF simulation, session, network
  <1>0. /\ pc[Host] = "poll" /\ left[Host] = 0 /\ pc' = [pc EXCEPT ![Host] = "frame"] /\ left' = left
        /\ UNCHANGED <<tick, paused, saving, log, queue, nextUid, session, toHost, toClient, unsent>>
    BY DEF EndIdlePoll
  <1>1. pc'[Host] = "frame"
    BY <1>0, FollowingFacts DEF TypeOK
  <1>2. View(Host)' = View(Host)
    BY <1>0, <1>1 DEF View, Updating
  <1>3. HostLog(View(Host))' /\ Once' /\ HostFrame'
    BY <1>0, <1>1, <1>2, FollowingFacts, OnceStays DEF HostFrame, Idling
  <1>4. \A c \in Client : OwnSame(c)
    <2>1. /\ pc' = [pc EXCEPT ![Host] = pc'[Host]] /\ left' = [left EXCEPT ![Host] = left'[Host]]
          /\ log' = [log EXCEPT ![Host] = log'[Host]] /\ tick' = [tick EXCEPT ![Host] = tick'[Host]]
          /\ paused' = [paused EXCEPT ![Host] = paused'[Host]]
          /\ queue' = [queue EXCEPT ![Host] = queue'[Host]]
          /\ nextUid' = [nextUid EXCEPT ![Host] = nextUid'[Host]]
      BY <1>0, FollowingFacts DEF TypeOK
    <2>2. QED
      BY <1>0, <2>1, OwnWhileHost
  <1>5. \A c \in Client : ReplicaInv(c)'
    BY <1>0, <1>2, <1>4, FollowingFacts, SameHostKeeps, ReplicaStill
  <1>6. QED
    BY <1>3, <1>5, FollowInvFrom

LEMMA HostUpdatesFollowed ==
  ASSUME Following, TypeOK', UpdateHost
  PROVE  FollowInv'
  <1> USE DEF simulation, session
  <1> DEFINE h == View(Host)
             g == View(Host)'
  <1>0. /\ pc[Host] = "poll" /\ left[Host] > 0 /\ pc' = [pc EXCEPT ![Host] = "queue"]
        /\ Broadcast(TickPacket) /\ log' = [log EXCEPT ![Host] = Append(@, Logic(tick[Host]))]
        /\ UNCHANGED <<left, tick, paused, saving, queue, nextUid, session, toHost, unsent>>
    BY DEF UpdateHost
  <1>1. pc'[Host] = "queue" /\ log'[Host] = Append(log[Host], Logic(tick[Host]))
    BY <1>0, FollowingFacts DEF TypeOK
  <1>2. ~paused[Host] /\ tick[Host] \in Nat
    BY <1>0, FollowingFacts DEF HostFrame, TypeOK
  <1>3. /\ h \in Simulation /\ g \in Simulation /\ ~h.mid /\ g.mid
        /\ ~h.paused /\ ~g.paused /\ g.paused = h.paused
        /\ g.log = Append(h.log, Logic(h.tick)) /\ g.tick = h.tick
        /\ h.tick = tick[Host] /\ h.log = log[Host] /\ HostLog(h) /\ h.tick \in Nat
    <2>1. ~Updating(Host) /\ Updating(Host)'
      BY <1>0, <1>1 DEF Updating
    <2>2. /\ g.log = log'[Host] /\ g.tick = tick'[Host] /\ g.paused = paused'[Host] /\ g.mid = Updating(Host)'
          /\ g \in Simulation
      BY FollowingFacts, ViewFieldsNext, ViewTypeNext
    <2>3. QED
      BY <1>0, <1>1, <1>2, <2>1, <2>2, FollowingFacts
  <1>4. HostLog(g)
    BY <1>3, LogUpdates
  <1>5. Once'
    <2>1. \A cmd \in Command : Done(g, cmd) => Done(h, cmd)
      BY <1>3, DoneUpdates
    <2>2. QED
      BY <1>0, <2>1, FollowingFacts, OnceStays
  <1>6. HostFrame'
    BY <1>0, <1>1, <1>2, FollowingFacts DEF HostFrame, Idling
  <1>7. \A c \in Client : OwnSame(c)
    <2>1. /\ pc' = [pc EXCEPT ![Host] = pc'[Host]] /\ left' = [left EXCEPT ![Host] = left'[Host]]
          /\ log' = [log EXCEPT ![Host] = log'[Host]] /\ tick' = [tick EXCEPT ![Host] = tick'[Host]]
          /\ paused' = [paused EXCEPT ![Host] = paused'[Host]]
          /\ queue' = [queue EXCEPT ![Host] = queue'[Host]]
          /\ nextUid' = [nextUid EXCEPT ![Host] = nextUid'[Host]]
      BY <1>0, FollowingFacts DEF TypeOK
    <2>2. QED
      BY <1>0, <2>1, OwnWhileHost
  <1>8. HostSends(TickPacket)
    <2>1. /\ TickPacket \in ClientPacket /\ TickPacket.type = "tick" /\ TickPacket.tick = tick[Host]
          /\ TickPacket.sum = log[Host] /\ tick'[Host] = tick[Host]
      BY <1>0, FollowingFacts, TickPacketType DEF TickPacket
    <2> HIDE DEF h, g
    <2>2. ASSUME NEW r \in Simulation, NEW W \in SUBSET Item, Follows(h, r, W), Missing(r, tick[Host])
          PROVE  Follows(g, r, W)
      BY <1>3, <2>2, HostUpdates
    <2>3. ASSUME NEW d, IsChecksum(d), Rightful(h, d)
          PROVE  Rightful(g, d)
      <3>1. Logic(h.tick) \in Entry /\ Logic(h.tick).tick = h.tick
        BY <1>3 DEF Logic, Entry
      <3>2. d.tick < h.tick /\ d.tick \in Nat
        BY <1>3, <2>3 DEF Rightful, IsChecksum
      <3>3. h.tick # d.tick
        BY <1>3, <3>2
      <3>4. QED
        BY <1>3, <2>3, <3>1, <3>3, RightfulGrows
    <2>4. Rightful(g, TickPacket)
      BY <1>3, <2>1, UpdateRightful
    <2>5. QED
      BY <2>1, <2>2, <2>3, <2>4 DEF HostSends, Adds, h, g
  <1>9. \A c \in Client : ReplicaInv(c)'
    <2>1. tick[Host] <= tick'[Host]
      BY <1>0, <1>2
    <2>2. QED
      BY <1>0, <1>7, <1>8, <2>1, FollowingFacts, ReplicasSent
  <1>10. QED
    BY <1>4, <1>5, <1>6, <1>9, FollowInvFrom


LEMMA HostExecutes ==
  ASSUME PausedOnce, Following, TypeOK', Execute(Host)
  PROVE  FollowInv'
  <1> USE DEF simulation, session
  <1> DEFINE h == View(Host)
             g == View(Host)'
  <1>0. pc[Host] = "queue" /\ UNCHANGED <<pc, left, tick, saving, nextUid, session, toHost, unsent>>
    BY DEF Execute
  <1> PICK e \in queue[Host] :
        /\ queue' = [queue EXCEPT ![Host] = @ \ {e}]
        /\ IF Allowed(Host, e.cmd)
             THEN /\ IF e.cmd \in TogglePause
                       THEN paused' = [paused EXCEPT ![Host] = ~@] /\ UNCHANGED log
                       ELSE log' = [log EXCEPT ![Host] = Append(@, Run(e.cmd))] /\ UNCHANGED paused
                  /\ Broadcast([type |-> "action", tick |-> tick[Host], cmd |-> e.cmd])
             ELSE UNCHANGED <<log, paused, toClient>>
    BY DEF Execute
  <1> DEFINE p == [type |-> "action", tick |-> tick[Host], cmd |-> e.cmd]
  <1>1. e.cmd \in Command /\ tick[Host] \in Nat /\ queue'[Host] = queue[Host] \ {e}
    BY FollowingFacts DEF TypeOK, QueuedAction
  <1>2. /\ h \in Simulation /\ g \in Simulation /\ HostLog(h)
        /\ h.log = log[Host] /\ h.tick = tick[Host] /\ h.paused = paused[Host] /\ h.mid = Updating(Host)
        /\ g.log = log'[Host] /\ g.tick = tick[Host] /\ g.paused = paused'[Host] /\ g.mid = h.mid
    <2>1. Updating(Host)' = Updating(Host)
      BY <1>0 DEF Updating
    <2>2. /\ g.log = log'[Host] /\ g.tick = tick'[Host] /\ g.paused = paused'[Host] /\ g.mid = Updating(Host)'
          /\ g \in Simulation
      BY FollowingFacts, ViewFieldsNext, ViewTypeNext
    <2>3. QED
      BY <1>0, <2>1, <2>2, FollowingFacts
  <1>3. ~Done(h, e.cmd)
    BY FollowingFacts DEF Once
  <1>4. \A c \in Client : OwnSame(c)
    <2>1. /\ pc' = [pc EXCEPT ![Host] = pc'[Host]] /\ left' = [left EXCEPT ![Host] = left'[Host]]
          /\ log' = [log EXCEPT ![Host] = log'[Host]] /\ tick' = [tick EXCEPT ![Host] = tick'[Host]]
          /\ paused' = [paused EXCEPT ![Host] = paused'[Host]]
          /\ queue' = [queue EXCEPT ![Host] = queue'[Host]]
          /\ nextUid' = [nextUid EXCEPT ![Host] = nextUid'[Host]]
      BY <1>0, FollowingFacts DEF TypeOK
    <2>2. QED
      BY <1>0, <2>1, OwnWhileHost
  <1>5. Connected # {} => h.mid \/ h.paused
    <2>1. Connected # {} /\ Idling(Host) => paused[Host]
      BY FollowingFacts DEF HostFrame
    <2>2. Idling(Host) \/ Updating(Host)
      BY <1>0, FollowingFacts DEF Idling, Updating, TypeOK
    <2>3. QED
      BY <1>2, <2>1, <2>2
  <1>6. tick[Host] <= tick'[Host] /\ tick'[Host] = tick[Host]
    BY <1>0, <1>1
  <1>7. p \in ClientPacket /\ p.type = "action" /\ p.tick = tick[Host] /\ p.cmd = e.cmd
    BY <1>1 DEF ClientPacket
  <1>8. CASE ~Allowed(Host, e.cmd)
    <2>1. UNCHANGED <<log, paused, toClient>>
      BY <1>8
    <2>2. View(Host)' = View(Host)
      BY <1>0, <2>1 DEF View, Updating
    <2>3. HostLog(View(Host))'
      BY <1>2, <2>2
    <2>4. HostFrame'
      BY <1>0, <2>1, FollowingFacts DEF HostFrame, Idling, Connected
    <2>5. Once'
      BY <1>0, <1>1, <2>2, FollowingFacts, OnceTaken
    <2>6. \A c \in Client : ReplicaInv(c)'
      BY <1>4, <2>1, <2>2, FollowingFacts, SameHostKeeps, ReplicaStill
    <2>7. QED
      BY <2>3, <2>4, <2>5, <2>6, FollowInvFrom
  <1>9. CASE Allowed(Host, e.cmd) /\ e.cmd \in TogglePause
    <2>1. /\ paused' = [paused EXCEPT ![Host] = ~@] /\ log' = log /\ Broadcast(p)
      BY <1>9
    <2>2. ~h.paused /\ g.paused /\ g.log = h.log
      <3>1. ~h.paused
        BY <1>3, <1>9 DEF Done
      <3>2. paused'[Host]
        BY <1>2, <2>1, <3>1, FollowingFacts DEF TypeOK
      <3>3. QED
        BY <1>2, <2>1, <3>1, <3>2
    <2>3. HostLog(g)
      BY <1>2, <2>2, LogStays
    <2>4. HostFrame'
      BY <1>0, <1>2, <2>2, FollowingFacts DEF HostFrame, Idling
    <2>5. Once'
      <3>1. \A cmd \in Command : Done(g, cmd) => Done(h, cmd) \/ cmd = e.cmd
        BY <1>9, <2>2, DonePauses
      <3>2. QED
        BY <1>0, <1>1, <3>1, FollowingFacts, OnceTaken
    <2>6. ASSUME Connected # {} PROVE HostSends(p)
      <3> HIDE DEF h, g, p
      <3>1. ASSUME NEW r \in Simulation, NEW W \in SUBSET Item, NEW n \in Nat, Follows(h, r, W),
                   \A a \in W : Earlier(a, InChannel(p, n))
            PROVE  Follows(g, r, W \union {InChannel(p, n)})
        <4>1. /\ InChannel(p, n) \in Item
              /\ InChannel(p, n).tick = h.tick /\ InChannel(p, n).cmd = e.cmd
          BY <1>1, <1>2, <1>7 DEF InChannel, Item
        <4>2. h.mid
          BY <1>5, <2>2, <2>6
        <4>3. QED
          BY <1>2, <1>9, <2>2, <3>1, <4>1, <4>2, HostPauses
      <3>2. ASSUME NEW d, IsChecksum(d), Rightful(h, d)
            PROVE  Rightful(g, d)
        BY <1>2, <2>2, <3>2, RightfulStays
      <3>3. QED
        BY <1>6, <1>7, <3>1, <3>2 DEF HostSends, Adds, h, g
    <2>7. \A c \in Client : ReplicaInv(c)'
      BY <1>4, <1>6, <2>1, <2>6, FollowingFacts, ReplicasSent
    <2>8. QED
      BY <2>3, <2>4, <2>5, <2>7, FollowInvFrom
  <1>10. CASE Allowed(Host, e.cmd) /\ e.cmd \notin TogglePause
    <2>1. /\ log' = [log EXCEPT ![Host] = Append(@, Run(e.cmd))] /\ paused' = paused /\ Broadcast(p)
      BY <1>10
    <2>2. g.paused = h.paused /\ g.log = Append(h.log, Run(e.cmd))
      BY <1>2, <2>1, FollowingFacts DEF TypeOK
    <2>3. HostLog(g)
      BY <1>1, <1>2, <1>3, <1>10, <2>2, LogRuns
    <2>4. HostFrame'
      BY <1>0, <2>1, FollowingFacts DEF HostFrame, Idling, Connected
    <2>5. Once'
      <3>1. \A cmd \in Command : Done(g, cmd) => Done(h, cmd) \/ cmd = e.cmd
        BY <1>1, <1>2, <2>2, DoneRuns
      <3>2. QED
        BY <1>0, <1>1, <3>1, FollowingFacts, OnceTaken
    <2>6. ASSUME Connected # {} PROVE HostSends(p)
      <3>0. h.paused => e.cmd \notin Build
        BY <1>2, <1>10 DEF Allowed, GameIsPaused
      <3> HIDE DEF h, g, p
      <3>1. ASSUME NEW r \in Simulation, NEW W \in SUBSET Item, NEW n \in Nat, Follows(h, r, W),
                   \A a \in W : Earlier(a, InChannel(p, n))
            PROVE  Follows(g, r, W \union {InChannel(p, n)})
        <4>1. /\ InChannel(p, n) \in Item
              /\ InChannel(p, n).tick = h.tick /\ InChannel(p, n).cmd = e.cmd
          BY <1>1, <1>2, <1>7 DEF InChannel, Item
        <4>2. h.mid \/ h.paused
          BY <1>5, <2>6
        <4> DEFINE x == InChannel(p, n)
        <4>3. /\ x \in Item /\ x.tick = h.tick /\ \A a \in W : Earlier(a, x)
              /\ x.cmd \notin TogglePause /\ ~Done(h, x.cmd) /\ (h.paused => x.cmd \notin Build)
              /\ g.log = Append(h.log, Run(x.cmd)) /\ g.tick = h.tick
          BY <1>2, <1>3, <1>10, <2>2, <3>0, <3>1, <4>1
        <4> HIDE DEF x
        <4>4. Follows(g, r, W \union {x})
          BY <1>2, <2>2, <3>1, <4>2, <4>3, HostRuns
        <4>5. QED
          BY <4>4 DEF x
      <3>2. ASSUME NEW d, IsChecksum(d), Rightful(h, d)
            PROVE  Rightful(g, d)
        <4>1. Run(e.cmd) \in Entry /\ Run(e.cmd).type # "logic"
          BY <1>1 DEF Run, Entry
        <4>2. QED
          BY <1>2, <2>2, <3>2, <4>1, RightfulGrows
      <3>3. QED
        BY <1>6, <1>7, <3>1, <3>2 DEF HostSends, Adds, h, g
    <2>7. \A c \in Client : ReplicaInv(c)'
      BY <1>4, <1>6, <2>1, <2>6, FollowingFacts, ReplicasSent
    <2>8. QED
      BY <2>3, <2>4, <2>5, <2>7, FollowInvFrom
  <1>11. QED
    BY <1>8, <1>9, <1>10

LEMMA HostEndsQueue ==
  ASSUME Following, TypeOK', EndQueue(Host)
  PROVE  FollowInv'
  <1> USE DEF simulation, session, network
  <1> DEFINE h == View(Host)
             g == View(Host)'
  <1>0. /\ pc[Host] = "queue"
        /\ UNCHANGED <<paused, saving, log, queue, nextUid, session, toHost, toClient, unsent>>
    BY DEF EndQueue
  <1>1. \/ /\ left[Host] = 0 /\ pc' = [pc EXCEPT ![Host] = "poll"] /\ left' = left /\ tick' = tick
        \/ /\ left[Host] > 0 /\ tick' = [tick EXCEPT ![Host] = @ + 1] /\ AfterUpdate(Host)
    <2>1. left[Host] \in Nat
      BY FollowingFacts DEF TypeOK
    <2>2. QED
      BY <2>1 DEF EndQueue
  <1>2. pc' = [pc EXCEPT ![Host] = pc'[Host]] /\ left' = [left EXCEPT ![Host] = left'[Host]]
        /\ tick' = [tick EXCEPT ![Host] = tick'[Host]] /\ pc'[Host] \in {"frame", "poll"}
    BY <1>1, FollowingFacts DEF AfterUpdate, TypeOK
  <1>3. paused[Host] /\ pc'[Host] = "poll" => left'[Host] = 0
    <2>1. CASE left[Host] = 0 /\ left' = left
      BY <2>1
    <2>2. CASE left[Host] > 0 /\ AfterUpdate(Host)
      <3>1. PICK rest \in {0} \union (IF GameIsPaused(Host) THEN {} ELSE {left[Host] - 1}) :
              left' = [left EXCEPT ![Host] = rest]
        BY <2>2 DEF AfterUpdate
      <3>2. paused[Host] => rest = 0
        BY DEF GameIsPaused
      <3>3. left'[Host] = rest
        BY <3>1, FollowingFacts DEF TypeOK
      <3>4. QED
        BY <3>2, <3>3
    <2>3. QED
      BY <1>1, <2>1, <2>2
  <1>4. HostFrame'
    BY <1>0, <1>2, <1>3, FollowingFacts DEF HostFrame, Idling
  <1>5. \A c \in Client : OwnSame(c)
    <2>1. /\ log' = [log EXCEPT ![Host] = log'[Host]]
          /\ paused' = [paused EXCEPT ![Host] = paused'[Host]]
          /\ queue' = [queue EXCEPT ![Host] = queue'[Host]]
          /\ nextUid' = [nextUid EXCEPT ![Host] = nextUid'[Host]]
      BY <1>0, FollowingFacts DEF TypeOK
    <2>2. QED
      BY <1>0, <1>2, <2>1, OwnWhileHost
  <1>6. /\ h \in Simulation /\ g \in Simulation /\ HostLog(h) /\ g.log = h.log /\ g.paused = h.paused
        /\ h.tick = tick[Host] /\ h.tick \in Nat /\ g.tick = tick'[Host]
        /\ h.mid = (left[Host] > 0) /\ ~g.mid
    <2>1. Updating(Host) = (left[Host] > 0) /\ ~Updating(Host)'
      BY <1>0, <1>2 DEF Updating
    <2>2. /\ g.log = log'[Host] /\ g.tick = tick'[Host] /\ g.paused = paused'[Host] /\ g.mid = Updating(Host)'
          /\ g \in Simulation
      BY FollowingFacts, ViewFieldsNext, ViewTypeNext
    <2>3. QED
      BY <1>0, <2>1, <2>2, FollowingFacts DEF TypeOK
  <1>7. \/ g.tick = h.tick /\ ~h.mid /\ left[Host] = 0
        \/ g.tick = h.tick + 1 /\ h.mid
    <2>1. left[Host] = 0 => tick'[Host] = tick[Host]
      BY <1>1
    <2>2. left[Host] > 0 => tick'[Host] = tick[Host] + 1
      BY <1>1, FollowingFacts DEF TypeOK
    <2>3. left[Host] = 0 \/ left[Host] > 0
      BY <1>1
    <2> HIDE DEF h, g
    <2>4. QED
      BY <1>6, <2>1, <2>2, <2>3
  <1>8. HostLog(g)
    <2>1. ~h.mid => g.mid = h.mid
      BY <1>6 DEF Simulation
    <2>2. QED
      BY <1>6, <1>7, <2>1, LogStays
  <1>9. Once'
    <2>1. \A cmd \in Command : Done(g, cmd) => Done(h, cmd)
      BY <1>6 DEF Done, Steps, RunAt
    <2>2. QED
      BY <1>0, <2>1, FollowingFacts, OnceStays
  <1>10. HostKeeps
    <2>1. CASE g.tick = h.tick /\ ~h.mid /\ left[Host] = 0
      <3>1. View(Host)' = View(Host)
        BY <1>0, <1>1, <1>2, <2>1 DEF View, Updating
      <3>2. QED
        BY <3>1, FollowingFacts, SameHostKeeps
    <2>2. CASE g.tick = h.tick + 1 /\ h.mid
      <3> HIDE DEF h, g
      <3>1. ASSUME NEW r \in Simulation, NEW W \in SUBSET Item, Follows(h, r, W)
            PROVE  Follows(g, r, W)
        BY <1>6, <2>2, <3>1, HostClocks
      <3>2. ASSUME NEW d, IsChecksum(d), Rightful(h, d)
            PROVE  Rightful(g, d)
        BY <1>6, <2>2, <3>2, RightfulStays
      <3>3. tick[Host] <= tick'[Host]
        BY <1>6, <2>2
      <3>4. QED
        BY <3>1, <3>2, <3>3 DEF HostKeeps, h, g
    <2>3. QED
      BY <1>7, <2>1, <2>2
  <1>11. \A c \in Client : ReplicaInv(c)'
    BY <1>0, <1>5, <1>10, FollowingFacts, ReplicaStill
  <1>12. QED
    BY <1>4, <1>8, <1>9, <1>11, FollowInvFrom


-----------------------------------------------------------------------------
(***************************************************************************)
(* A client acts, or the host on what a client sent.                       *)
(***************************************************************************)
LEMMA HoldsTail ==
  ASSUME NEW t \in Seq(HostPacket), t # <<>>
  PROVE  /\ \A cmd : Holds(Tail(t), cmd) => Holds(t, cmd)
         /\ OnceSent(t) => OnceSent(Tail(t))
         /\ Head(t).type = "action" =>
              Holds(t, Head(t).cmd) /\ (OnceSent(t) => ~Holds(Tail(t), Head(t).cmd))
  <1>1. /\ Len(t) \in Nat /\ Len(t) > 0 /\ Len(Tail(t)) = Len(t) - 1
        /\ \A i \in 1 .. Len(Tail(t)) : Tail(t)[i] = t[i + 1] /\ i + 1 \in 1 .. Len(t) /\ i + 1 # 1 /\ i \in Nat
        /\ Head(t) = t[1] /\ 1 \in 1 .. Len(t)
    BY TailForms
  <1>2. \A cmd : Holds(Tail(t), cmd) => Holds(t, cmd)
    BY <1>1 DEF Holds
  <1>3. ASSUME OnceSent(t) PROVE OnceSent(Tail(t))
    <2> SUFFICES ASSUME NEW i \in 1 .. Len(Tail(t)), NEW j \in 1 .. Len(Tail(t)),
                        Tail(t)[i].type = "action", Tail(t)[j].type = "action",
                        Tail(t)[i].cmd = Tail(t)[j].cmd
                 PROVE  i = j
      BY DEF OnceSent
    <2>1. i + 1 = j + 1 /\ i \in Nat /\ j \in Nat
      BY <1>1, <1>3 DEF OnceSent
    <2>2. QED
      BY <2>1
  <1>4. ASSUME Head(t).type = "action"
        PROVE  Holds(t, Head(t).cmd) /\ (OnceSent(t) => ~Holds(Tail(t), Head(t).cmd))
    <2>1. Holds(t, Head(t).cmd)
      BY <1>1, <1>4 DEF Holds
    <2>2. ASSUME OnceSent(t), NEW i \in 1 .. Len(Tail(t)),
                 Tail(t)[i].type = "action", Tail(t)[i].cmd = Head(t).cmd
          PROVE  FALSE
      BY <1>1, <1>4, <2>2 DEF OnceSent
    <2>3. QED
      BY <2>1, <2>2 DEF Holds
  <1>5. QED
    BY <1>2, <1>3, <1>4

LEMMA HoldsAppended ==
  ASSUME NEW t \in Seq(HostPacket), NEW p \in HostPacket
  PROVE  /\ \A cmd : Holds(Append(t, p), cmd) <=> Holds(t, cmd) \/ (p.type = "action" /\ p.cmd = cmd)
         /\ OnceSent(t) /\ (p.type = "action" => ~Holds(t, p.cmd)) => OnceSent(Append(t, p))
  <1> DEFINE u == Append(t, p)
  <1>1. /\ Len(t) \in Nat /\ u[Len(t) + 1] = p
        /\ 1 .. Len(u) = (1 .. Len(t)) \union {Len(t) + 1}
        /\ \A i \in 1 .. Len(t) : u[i] = t[i]
    BY AppendForms
  <1> HIDE DEF u
  <1>2. \A cmd : Holds(u, cmd) <=> Holds(t, cmd) \/ (p.type = "action" /\ p.cmd = cmd)
    BY <1>1 DEF Holds
  <1>3. OnceSent(t) /\ (p.type = "action" => ~Holds(t, p.cmd)) => OnceSent(u)
    BY <1>1 DEF Holds, OnceSent
  <1>4. QED
    BY <1>2, <1>3 DEF u

\* Only c takes part in the step, and perhaps the host with its queue.
ActsAlone(c) ==
  /\ \A m \in Machine \ {c} : /\ pc'[m] = pc[m] /\ left'[m] = left[m] /\ log'[m] = log[m]
                              /\ tick'[m] = tick[m] /\ paused'[m] = paused[m]
  /\ \A d \in Client \ {c} : /\ queue'[d] = queue[d] /\ nextUid'[d] = nextUid[d] /\ conn'[d] = conn[d]
                             /\ tickData'[d] = tickData[d] /\ desynced'[d] = desynced[d]
                             /\ toClient'[d] = toClient[d] /\ toHost'[d] = toHost[d]
  /\ \A m \in Machine : ~saving'[m]

LEMMA HostAside ==
  ASSUME Following, TypeOK', NEW c \in Client, ActsAlone(c)
  PROVE  /\ View(Host)' = View(Host) /\ HostKeeps /\ tick'[Host] = tick[Host]
         /\ \A cmd : Done(View(Host)', cmd) <=> Done(View(Host), cmd)
  <1>1. Host \in Machine \ {c} /\ TypeOK
    BY FollowingFacts, SideTypes
  <1>2. View(Host)' = View(Host) /\ tick'[Host] = tick[Host]
    BY <1>1 DEF ActsAlone, View, Updating
  <1>3. HostKeeps
    BY <1>1, <1>2, SameHostKeeps
  <1>4. QED
    BY <1>2, <1>3

LEMMA OthersFollow ==
  ASSUME Following, TypeOK', NEW c \in Client, ActsAlone(c), Once', ReplicaInv(c)',
         Connected' \subseteq Connected \/ pc[Host] = "poll"
  PROVE  FollowInv'
  <1>1. Host \in Machine \ {c} /\ TypeOK
    BY FollowingFacts, SideTypes
  <1>2. HostLog(View(Host))'
    BY FollowingFacts, HostAside
  <1>3. HostFrame'
    <2>1. pc'[Host] = pc[Host] /\ left'[Host] = left[Host] /\ paused'[Host] = paused[Host]
      BY <1>1 DEF ActsAlone
    <2>2. Idling(Host)' => Idling(Host) /\ Connected' \subseteq Connected
      BY <2>1 DEF Idling
    <2>3. QED
      BY <2>1, <2>2, FollowingFacts DEF HostFrame, ActsAlone
  <1>4. ASSUME NEW d \in Client, d # c
        PROVE  ReplicaInv(d)'
    <2>1. ReplicaInv(d) /\ d \in Machine \ {c} /\ d \in Client \ {c}
      BY <1>4, FollowingFacts, SideTypes
    <2>2. OwnSame(d) /\ toClient'[d] = toClient[d]
      BY <2>1, OwnStill DEF ActsAlone
    <2>3. QED
      BY <1>1, <2>1, <2>2, HostAside, ReplicaStill
  <1>5. \A d \in Client : ReplicaInv(d)'
    BY <1>4
  <1>6. QED
    BY <1>2, <1>3, <1>5, FollowInvFrom

\* Nothing is on its way to the host that was not before.
LEMMA OnceReceived ==
  ASSUME Following, TypeOK', NEW c \in Client, ActsAlone(c), queue'[Host] = queue[Host], unsent' = unsent,
         OnceSent(toHost'[c]), \A cmd \in Command : Holds(toHost'[c], cmd) => Holds(toHost[c], cmd)
  PROVE  Once'
  <1>1. \A d \in Client, cmd \in Command : Sent(d, cmd)' => Sent(d, cmd)
    BY DEF Sent, ActsAlone
  <1>2. \A d \in Client : OnceSent(toHost'[d])
    BY FollowingFacts DEF ActsAlone, Once
  <1>3. \A cmd : Asked(cmd)' <=> Asked(cmd)
    BY DEF Asked
  <1>4. unsent \subseteq Command
    BY FollowingFacts DEF TypeOK
  <1>5. \A cmd : Done(View(Host)', cmd) <=> Done(View(Host), cmd)
    BY HostAside
  <1>6. Once
    BY FollowingFacts
  <1>7. QED
    BY <1>1, <1>2, <1>3, <1>4, <1>5, <1>6 DEF Once

\* An action enters the host's queue that was nowhere else.
LEMMA OnceQueued ==
  ASSUME Following, TypeOK', NEW c \in Client, ActsAlone(c), NEW x, queue'[Host] = queue[Host] \union {x},
         x.cmd \in Command, ~Asked(x.cmd), ~Done(View(Host), x.cmd), unsent' \subseteq unsent, x.cmd \notin unsent',
         OnceSent(toHost'[c]), \A cmd \in Command : Holds(toHost'[c], cmd) => Holds(toHost[c], cmd),
         \A d \in Client : ~Holds(toHost'[d], x.cmd)
  PROVE  Once'
  <1>1. \A d \in Client, cmd \in Command : Sent(d, cmd)' => Sent(d, cmd) /\ cmd # x.cmd
    BY DEF Sent, ActsAlone
  <1>2. \A d \in Client : OnceSent(toHost'[d])
    BY FollowingFacts DEF ActsAlone, Once
  <1>3. \A cmd : Asked(cmd)' <=> Asked(cmd) \/ cmd = x.cmd
    BY DEF Asked
  <1>4. unsent \subseteq Command
    BY FollowingFacts DEF TypeOK
  <1>5. \A cmd : Done(View(Host)', cmd) <=> Done(View(Host), cmd)
    BY HostAside
  <1>6. Once
    BY FollowingFacts
  <1>7. \A e \in queue[Host] : e.cmd # x.cmd
    BY DEF Asked
  <1>8. /\ \A e, f \in queue'[Host] : e.cmd = f.cmd => e = f
        /\ \A e \in queue'[Host] : ~Done(View(Host)', e.cmd)
    BY <1>5, <1>6, <1>7 DEF Once
  <1>9. /\ \A cmd \in unsent' : ~Asked(cmd)' /\ ~Done(View(Host)', cmd) /\ \A d \in Client : ~Sent(d, cmd)'
        /\ \A d \in Client, cmd \in Command : Sent(d, cmd)' => ~Asked(cmd)' /\ ~Done(View(Host)', cmd)
        /\ \A d, e \in Client, cmd \in Command : Sent(d, cmd)' /\ Sent(e, cmd)' => d = e
    BY <1>1, <1>3, <1>4, <1>5, <1>6 DEF Once
  <1>10. QED
    BY <1>2, <1>8, <1>9 DEF Once


(***************************************************************************)
(* The host handles what a client sent.                                    *)
(***************************************************************************)
\* A simulation that has just been saved.
LEMMA FollowsFresh ==
  ASSUME NEW h \in Simulation, HostLog(h), ~h.mid, NEW r \in Simulation,
         r.log = h.log, r.tick = h.tick, r.paused = h.paused, ~r.mid
  PROVE  Follows(h, r, {})
  <1>1. h.log \in Seq(Entry) /\ Len(h.log) \in Nat /\ h.tick \in Nat
    BY StepForms
  <1>2. Prefix(r.log, h.log)
    BY <1>1 DEF Prefix, Sim!Prefix
  <1>3. \A i \in Steps(h) : ~(Len(r.log) < i)
    BY <1>1 DEF Steps
  <1>4. Expected(h, r, {}) /\ Announced(h, r, {}) /\ Ordered(h, {}) /\ Timed(h, {}) /\ PauseIsLast(h, {})
    BY <1>3 DEF Expected, Announced, Ordered, Timed, PauseIsLast
  <1>5. UpdatesFit(h, r)
    <2>1. \A t \in Nat : ~(Updated(h, t) /\ Missing(r, t))
      BY <1>1 DEF Updated, Missing
    <2>2. QED
      BY <1>3, <2>1 DEF UpdatesFit
  <1>6. PausedRightly(h, r, {})
    BY <1>3 DEF PausedRightly
  <1>7. QED
    BY <1>2, <1>4, <1>5, <1>6 DEF Follows

LEMMA ReceivedForms ==
  ASSUME TypeOK, NEW c \in Client, NEW type, HostReceives(c, type)
  PROVE  /\ toHost[c] \in Seq(HostPacket) /\ toHost[c] # <<>> /\ Head(toHost[c]).type = type
         /\ toHost'[c] = Tail(toHost[c]) /\ pc[Host] = "poll"
         /\ \A d \in Client \ {c} : toHost'[d] = toHost[d]
  BY DEF TypeOK, HostReceives

LEMMA MapRequestFollowed ==
  ASSUME Following, TypeOK', NEW c \in Client, HandleMapRequest(c)
  PROVE  FollowInv'
  <1> USE DEF simulation, session
  <1> DEFINE s == toClient[c]
             a == [type |-> "beginMap"]
             b == [type |-> "map", tick |-> tick[Host], paused |-> paused[Host], log |-> log[Host]]
             u == s \o <<a, b>>
  <1>0. /\ HostReceives(c, "mapRequest") /\ toClient' = [toClient EXCEPT ![c] = u]
        /\ UNCHANGED <<pc, left, tick, paused, saving, log, queue, nextUid, conn, serverTick, tickData, desynced, unsent>>
    BY DEF HandleMapRequest
  <1>1. /\ toHost[c] \in Seq(HostPacket) /\ toHost[c] # <<>> /\ Head(toHost[c]).type = "mapRequest"
        /\ toHost'[c] = Tail(toHost[c]) /\ pc[Host] = "poll"
        /\ \A d \in Client \ {c} : toHost'[d] = toHost[d]
    BY <1>0, FollowingFacts, ReceivedForms
  <1>2. s \in Seq(ClientPacket) /\ a \in ClientPacket /\ b \in ClientPacket /\ toClient'[c] = u
    BY <1>0, FollowingFacts DEF TypeOK, ClientPacket
  <1>3. ActsAlone(c)
    <2>1. \A m \in Machine : ~saving[m]
      BY FollowingFacts DEF HostFrame
    <2>2. QED
      BY <1>0, <1>1, <2>1, FollowingFacts DEF ActsAlone, TypeOK
  <1>4. ReplicaInv(c)
    BY FollowingFacts
  <1>5. /\ Joining(s, toHost[c]) /\ NoJoining(s) /\ NoRequest(toHost'[c]) /\ ~NoRequest(toHost[c])
    <2>1. Joining(s, toHost[c])
      BY <1>4 DEF ReplicaInv, JoinsOnce
    <2>2. ~NoRequest(toHost[c])
      BY <1>1, TailForms DEF NoRequest
    <2>3. QED
      BY <1>1, <1>2, <2>1, <2>2, JoiningHandled
  <1>6. conn[c] # "none" /\ conn[c] # "loaded" /\ conn' = conn
    BY <1>0, <1>1, <1>4, <1>5 DEF ReplicaInv, JoinsOnce
  <1>7. Once'
    BY <1>0, <1>1, <1>3, HoldsTail, FollowingFacts, OnceReceived DEF Once
  <1>8. /\ Len(s) \in Nat /\ Len(u) = Len(s) + 2
        /\ u[Len(s) + 1] = a /\ u[Len(s) + 2] = b
        /\ \A i \in 1 .. Len(s) : u[i] = s[i]
        /\ \A i \in 1 .. Len(u) : i \in 1 .. Len(s) \/ i = Len(s) + 1 \/ i = Len(s) + 2
    BY <1>2
  <1>9. FollowsHost(c)'
    <2>1. ASSUME NEW k \in 1 .. Len(u), u[k].type = "map"
          PROVE  Follows(View(Host)', Loads(u[k]), Waiting({}, u, k))
      <3>1. k = Len(u) /\ u[k] = b
        BY <1>5, <1>8, <2>1 DEF NoJoining
      <3>2. Waiting({}, u, k) = {}
        BY <1>8, <3>1 DEF Waiting
      <3>3. /\ Loads(b) \in Simulation /\ Loads(b).log = View(Host).log /\ Loads(b).tick = View(Host).tick
            /\ Loads(b).paused = View(Host).paused /\ ~Loads(b).mid /\ ~View(Host).mid
        BY <1>1, <1>2, FollowingFacts, PacketFields DEF Loads, Updating
      <3>4. Follows(View(Host), Loads(b), {})
        BY <3>3, FollowingFacts, FollowsFresh
      <3>5. QED
        BY <1>3, <3>1, <3>2, <3>4, HostAside
    <2>2. QED
      BY <1>2, <1>6, <2>1 DEF FollowsHost
  <1>10. JoinsOnce(c)'
    <2>1. Joining(u, toHost'[c])
      <3>1. toHost'[c] \in Seq(HostPacket)
        BY DEF TypeOK
      <3>2. QED
        BY <1>2, <1>5, <3>1, JoiningAnswers
    <2>2. QED
      BY <1>2, <1>6, <2>1 DEF JoinsOnce
  <1>11. QueueInOrder(c)'
    <2>1. \A i \in 1 .. Len(u) : u[i].type = "action" => i \in 1 .. Len(s) /\ u[i] = s[i]
      BY <1>8
    <2>2. QED
      BY <1>0, <1>2, <1>4, <2>1 DEF ReplicaInv, QueueInOrder
  <1>12. ChecksumsFit(c)'
    <2>1. \A i \in 1 .. Len(u) : u[i].type = "tick" => i \in 1 .. Len(s) /\ u[i] = s[i]
      BY <1>8
    <2>2. View(Host)' = View(Host)
      BY <1>3, HostAside
    <2>3. QED
      BY <1>0, <1>2, <1>4, <2>1, <2>2 DEF ReplicaInv, ChecksumsFit
  <1>13. QED
    BY <1>1, <1>3, <1>7, <1>9, <1>10, <1>11, <1>12, OthersFollow DEF ReplicaInv

LEMMA ClientActionFollowed ==
  ASSUME Following, TypeOK', NEW c \in Client, HandleClientAction(c)
  PROVE  FollowInv'
  <1> USE DEF simulation, session
  <1> DEFINE p == Head(toHost[c])
  <1>0. /\ HostReceives(c, "action")
        /\ UNCHANGED <<pc, left, tick, paused, saving, log, conn, serverTick, tickData, desynced, toClient, unsent>>
        /\ UNCHANGED <<queue, nextUid>> \/ Enqueue(Host, p.tick, p.cmd)
    BY DEF HandleClientAction
  <1>1. /\ toHost[c] \in Seq(HostPacket) /\ toHost[c] # <<>> /\ p.type = "action"
        /\ toHost'[c] = Tail(toHost[c]) /\ pc[Host] = "poll"
        /\ \A d \in Client \ {c} : toHost'[d] = toHost[d]
    BY <1>0, FollowingFacts, ReceivedForms
  <1>2. c \in Machine /\ c # Host
    BY FollowingFacts, SideTypes
  <1>3. /\ \A d \in Client : queue'[d] = queue[d] /\ nextUid'[d] = nextUid[d]
    BY <1>0, FollowingFacts, SideTypes DEF Enqueue, TypeOK
  <1>4. ActsAlone(c)
    <2>1. \A m \in Machine : ~saving[m]
      BY FollowingFacts DEF HostFrame
    <2>2. QED
      BY <1>0, <1>1, <1>3, <2>1 DEF ActsAlone
  <1>5. ReplicaInv(c) /\ Once
    BY FollowingFacts
  <1>6. /\ \A cmd : Holds(toHost'[c], cmd) => Holds(toHost[c], cmd)
        /\ OnceSent(toHost'[c]) /\ Holds(toHost[c], p.cmd) /\ ~Holds(toHost'[c], p.cmd)
    BY <1>1, <1>5, HoldsTail DEF Once
  <1>7. Once'
    <2>1. CASE UNCHANGED <<queue, nextUid>>
      BY <1>0, <1>4, <1>6, <2>1, OnceReceived
    <2>2. CASE Enqueue(Host, p.tick, p.cmd)
      <3> DEFINE x == [tick |-> p.tick, uid |-> nextUid[Host], cmd |-> p.cmd]
      <3>1. queue'[Host] = queue[Host] \union {x} /\ x.cmd = p.cmd /\ p.cmd \in Command
        BY <1>0, <2>2, FollowingFacts, ReceivedByHost DEF Enqueue, TypeOK
      <3>2. ~Asked(p.cmd) /\ ~Done(View(Host), p.cmd) /\ p.cmd \notin unsent
        BY <1>5, <1>6, <3>1 DEF Once, Sent
      <3>3. \A d \in Client : ~Holds(toHost'[d], p.cmd)
        BY <1>1, <1>5, <1>6, <3>1 DEF Once, Sent
      <3> HIDE DEF x, p
      <3>4. QED
        BY <1>0, <1>4, <1>6, <3>1, <3>2, <3>3, OnceQueued
    <2>3. QED
      BY <1>0, <2>1, <2>2
  <1>8. OwnKept(c) /\ toClient'[c] = toClient[c]
    BY <1>0, <1>2, <1>3, <1>5 DEF OwnKept, View, Updating, Idling, ReplicaInv, FollowsHost
  <1>9. JoinsOnce(c)'
    <2>1. Joining(toClient[c], toHost[c]) /\ toClient[c] \in Seq(ClientPacket) /\ conn[c] # "none"
      BY <1>1, <1>5, FollowingFacts DEF ReplicaInv, JoinsOnce, TypeOK
    <2>2. Joining(toClient[c], toHost'[c]) /\ (NoRequest(toHost[c]) => NoRequest(toHost'[c]))
      BY <1>1, <2>1, JoiningHandled
    <2>3. QED
      BY <1>0, <1>5, <2>1, <2>2 DEF ReplicaInv, JoinsOnce
  <1>10. ReplicaInv(c)'
    BY <1>4, <1>5, <1>8, <1>9, FollowingFacts, HostAside, ReplicaKept
  <1>11. QED
    BY <1>1, <1>4, <1>7, <1>10, OthersFollow


-----------------------------------------------------------------------------
(***************************************************************************)
(* Players act, join and leave.                                            *)
(***************************************************************************)
LEMMA HostIssueFollowed ==
  ASSUME Following, TypeOK', NEW cmd \in Command, HostIssues(cmd)
  PROVE  FollowInv'
  <1> USE DEF simulation, session, network
  <1> DEFINE x == [tick |-> tick[Host], uid |-> nextUid[Host], cmd |-> cmd]
  <1>0. /\ cmd \in unsent /\ unsent' = unsent \ {cmd} /\ Enqueue(Host, tick[Host], cmd)
        /\ UNCHANGED <<pc, left, tick, paused, saving, log, conn, serverTick, tickData, desynced, toClient, toHost>>
    BY DEF HostIssues
  <1>1. queue'[Host] = queue[Host] \union {x} /\ x.cmd = cmd
    BY <1>0, FollowingFacts DEF Enqueue, TypeOK
  <1>2. View(Host)' = View(Host)
    BY <1>0 DEF View, Updating
  <1>3. HostLog(View(Host))' /\ HostFrame'
    BY <1>0, <1>2, FollowingFacts DEF HostFrame, Idling, Connected
  <1>4. Once'
    <2>1. ~Asked(cmd) /\ ~Done(View(Host), cmd) /\ \A d \in Client : ~Sent(d, cmd)
      BY <1>0, FollowingFacts DEF Once
    <2>2. \A y : Asked(y)' <=> Asked(y) \/ y = cmd
      BY <1>1 DEF Asked
    <2>3. \A d, y : Sent(d, y)' <=> Sent(d, y)
      BY <1>0 DEF Sent
    <2>4. \A e \in queue[Host] : e.cmd # cmd
      BY <2>1 DEF Asked
    <2>5. Once /\ unsent \subseteq Command
      BY FollowingFacts DEF TypeOK
    <2> HIDE DEF x
    <2>6. /\ \A e, f \in queue'[Host] : e.cmd = f.cmd => e = f
          /\ \A e \in queue'[Host] : ~Done(View(Host)', e.cmd)
      BY <1>1, <1>2, <2>1, <2>4, <2>5 DEF Once
    <2>7. /\ \A y \in unsent' : ~Asked(y)' /\ ~Done(View(Host)', y) /\ \A d \in Client : ~Sent(d, y)'
          /\ \A d \in Client, y \in Command : Sent(d, y)' => ~Asked(y)' /\ ~Done(View(Host)', y)
          /\ \A d, e \in Client, y \in Command : Sent(d, y)' /\ Sent(e, y)' => d = e
          /\ \A d \in Client : OnceSent(toHost'[d])
      BY <1>0, <1>2, <2>1, <2>2, <2>3, <2>5 DEF Once
    <2>8. QED
      BY <2>6, <2>7 DEF Once
  <1>5. \A c \in Client : OwnSame(c)
    <2>1. /\ pc' = [pc EXCEPT ![Host] = pc'[Host]] /\ left' = [left EXCEPT ![Host] = left'[Host]]
          /\ log' = [log EXCEPT ![Host] = log'[Host]] /\ tick' = [tick EXCEPT ![Host] = tick'[Host]]
          /\ paused' = [paused EXCEPT ![Host] = paused'[Host]]
          /\ queue' = [queue EXCEPT ![Host] = queue'[Host]]
          /\ nextUid' = [nextUid EXCEPT ![Host] = nextUid'[Host]]
      BY <1>0, FollowingFacts DEF TypeOK, Enqueue
    <2>2. QED
      BY <1>0, <2>1, OwnWhileHost
  <1>6. \A c \in Client : ReplicaInv(c)'
    BY <1>0, <1>2, <1>5, FollowingFacts, SameHostKeeps, ReplicaStill
  <1>7. QED
    BY <1>3, <1>4, <1>6, FollowInvFrom

LEMMA ClientIssueFollowed ==
  ASSUME Following, TypeOK', NEW c \in Client, NEW cmd \in Command, ClientIssues(c, cmd)
  PROVE  FollowInv'
  <1> USE DEF simulation, session
  <1> DEFINE p == [type |-> "action", tick |-> tick[c], cmd |-> cmd]
  <1>0. /\ conn[c] = "loaded" /\ cmd \in unsent /\ unsent' = unsent \ {cmd}
        /\ toHost' = [toHost EXCEPT ![c] = Append(@, p)]
        /\ UNCHANGED <<pc, left, tick, paused, saving, log, queue, nextUid, conn, serverTick, tickData, desynced, toClient>>
    BY DEF ClientIssues
  <1>1. /\ p \in HostPacket /\ p.type = "action" /\ p.cmd = cmd
        /\ toHost[c] \in Seq(HostPacket) /\ toHost'[c] = Append(toHost[c], p)
        /\ \A d \in Client \ {c} : toHost'[d] = toHost[d]
    BY <1>0, FollowingFacts, SideTypes DEF TypeOK, HostPacket
  <1> HIDE DEF p
  <1>2. ActsAlone(c)
    <2>1. \A m \in Machine : ~saving[m]
      BY FollowingFacts DEF HostFrame
    <2>2. QED
      BY <1>0, <1>1, <2>1 DEF ActsAlone
  <1>3. ReplicaInv(c) /\ Once /\ unsent \subseteq Command
    BY FollowingFacts DEF TypeOK
  <1>4. /\ ~Asked(cmd) /\ ~Done(View(Host), cmd) /\ \A d \in Client : ~Sent(d, cmd)
    BY <1>0, <1>3 DEF Once
  <1>5. /\ \A y : Holds(toHost'[c], y) <=> Holds(toHost[c], y) \/ y = cmd
        /\ OnceSent(toHost'[c])
    BY <1>1, <1>3, <1>4, HoldsAppended DEF Once, Sent
  <1>6. \A d \in Client, y \in Command : Sent(d, y)' <=> Sent(d, y) \/ (d = c /\ y = cmd)
    BY <1>1, <1>5 DEF Sent
  <1>7. Once'
    <2>1. \A y : /\ Asked(y)' <=> Asked(y)
                 /\ Done(View(Host)', y) <=> Done(View(Host), y)
      BY <1>0, <1>2, HostAside DEF Asked
    <2>2. \A d \in Client : OnceSent(toHost'[d])
      BY <1>1, <1>3, <1>5 DEF Once
    <2>3. /\ \A y \in unsent' : ~Asked(y)' /\ ~Done(View(Host)', y) /\ \A d \in Client : ~Sent(d, y)'
          /\ \A d \in Client, y \in Command : Sent(d, y)' => ~Asked(y)' /\ ~Done(View(Host)', y)
          /\ \A d, e \in Client, y \in Command : Sent(d, y)' /\ Sent(e, y)' => d = e
      BY <1>0, <1>3, <1>4, <1>6, <2>1 DEF Once
    <2>4. /\ \A e, f \in queue'[Host] : e.cmd = f.cmd => e = f
          /\ \A e \in queue'[Host] : ~Done(View(Host)', e.cmd)
      BY <1>0, <1>3, <2>1 DEF Once
    <2>5. QED
      BY <2>2, <2>3, <2>4 DEF Once
  <1>8. OwnKept(c) /\ toClient'[c] = toClient[c]
    BY <1>0, <1>3 DEF OwnKept, View, Updating, Idling, ReplicaInv, FollowsHost
  <1>9. JoinsOnce(c)'
    <2>1. Joining(toClient[c], toHost[c]) /\ toClient[c] \in Seq(ClientPacket)
      BY <1>3, FollowingFacts DEF ReplicaInv, JoinsOnce, TypeOK
    <2>2. Joining(toClient[c], toHost'[c]) /\ (NoRequest(toHost[c]) => NoRequest(toHost'[c]))
      BY <1>1, <2>1, JoiningAsks
    <2>3. QED
      BY <1>0, <1>3, <2>2 DEF ReplicaInv, JoinsOnce
  <1>10. ReplicaInv(c)'
    BY <1>2, <1>3, <1>8, <1>9, FollowingFacts, HostAside, ReplicaKept
  <1>11. QED
    BY <1>0, <1>2, <1>7, <1>10, OthersFollow DEF Connected

LEMMA JoinFollowed ==
  ASSUME Following, TypeOK', NEW c \in Client, Join(c)
  PROVE  FollowInv'
  <1>0. /\ pc[Host] = "poll" /\ conn[c] = "none" /\ conn' = [conn EXCEPT ![c] = "joining"]
        /\ tickData' = [tickData EXCEPT ![c] = {}]
        /\ toClient' = [toClient EXCEPT ![c] = <<[type |-> "objects"]>>]
        /\ \E p \in BOOLEAN : paused' = [paused EXCEPT ![c] = p]
        /\ UNCHANGED <<pc, left, tick, saving, log, queue, nextUid, serverTick, desynced, toHost, unsent>>
    BY DEF Join
  <1>1. conn'[c] = "joining" /\ tickData'[c] = {} /\ toClient'[c] = <<[type |-> "objects"]>>
    BY <1>0, FollowingFacts DEF TypeOK
  <1>2. ActsAlone(c)
    <2>1. \A m \in Machine : ~saving[m]
      BY FollowingFacts DEF HostFrame
    <2>2. \A m \in Machine \ {c} : paused'[m] = paused[m]
      BY <1>0, FollowingFacts DEF TypeOK
    <2>3. QED
      BY <1>0, <2>1, <2>2, FollowingFacts DEF ActsAlone, TypeOK
  <1>3. ReplicaInv(c) /\ toHost[c] = <<>>
    BY <1>0, FollowingFacts DEF ReplicaInv, JoinsOnce
  <1>4. Once'
    BY <1>0, <1>2, FollowingFacts, OnceReceived DEF Once
  <1>5. /\ Len(toClient'[c]) = 1 /\ toClient'[c][1].type = "objects"
        /\ \A i \in 1 .. Len(toClient'[c]) : i = 1
    BY <1>1
  <1>6. FollowsHost(c)' /\ ChecksumsFit(c)'
    BY <1>1, <1>5 DEF FollowsHost, ChecksumsFit
  <1>7. QueueInOrder(c)'
    BY <1>0, <1>3, <1>5 DEF ReplicaInv, QueueInOrder
  <1>8. JoinsOnce(c)'
    <2>1. NoRequest(toHost'[c]) /\ toHost'[c] = <<>>
      BY <1>0, <1>3 DEF NoRequest
    <2>2. Joining(toClient'[c], toHost'[c])
      BY <1>5, <2>1 DEF Joining
    <2>3. QED
      BY <1>1, <2>2 DEF JoinsOnce
  <1>9. QED
    BY <1>0, <1>2, <1>4, <1>6, <1>7, <1>8, OthersFollow DEF ReplicaInv

LEMMA LeaveFollowed ==
  ASSUME Following, TypeOK', NEW c \in Client, Leave(c)
  PROVE  FollowInv'
  <1>0. /\ conn' = [conn EXCEPT ![c] = "none"] /\ pc' = [pc EXCEPT ![c] = "frame"]
        /\ left' = [left EXCEPT ![c] = 0] /\ queue' = [queue EXCEPT ![c] = {}]
        /\ tickData' = [tickData EXCEPT ![c] = {}] /\ saving' = [saving EXCEPT ![c] = FALSE]
        /\ toClient' = [toClient EXCEPT ![c] = <<>>] /\ toHost' = [toHost EXCEPT ![c] = <<>>]
        /\ tick' = [tick EXCEPT ![c] = 0] /\ paused' = [paused EXCEPT ![c] = FALSE]
        /\ log' = [log EXCEPT ![c] = <<>>] /\ desynced' = [desynced EXCEPT ![c] = FALSE]
        /\ UNCHANGED <<nextUid, serverTick, unsent>>
    BY DEF Leave
  <1>1. c \in Machine /\ c # Host /\ Host \in Machine
    BY FollowingFacts, SideTypes
  <1>2. /\ conn'[c] = "none" /\ tickData'[c] = {} /\ toClient'[c] = <<>> /\ toHost'[c] = <<>> /\ queue'[c] = {}
    BY <1>0, <1>1, FollowingFacts DEF TypeOK
  <1>3. ActsAlone(c)
    <2>1. \A m \in Machine : ~saving'[m]
      BY <1>0, FollowingFacts DEF HostFrame, TypeOK
    <2>2. \A d \in Client \ {c} : d \in Machine
      BY DEF Machine
    <2>3. /\ \A m \in Machine \ {c} : /\ pc'[m] = pc[m] /\ left'[m] = left[m] /\ log'[m] = log[m]
                                      /\ tick'[m] = tick[m] /\ paused'[m] = paused[m] /\ queue'[m] = queue[m]
          /\ \A d \in Client \ {c} : /\ conn'[d] = conn[d]
                                     /\ tickData'[d] = tickData[d] /\ desynced'[d] = desynced[d]
                                     /\ toClient'[d] = toClient[d] /\ toHost'[d] = toHost[d]
      BY <1>0, FollowingFacts DEF TypeOK
    <2>4. QED
      BY <1>0, <2>1, <2>2, <2>3 DEF ActsAlone
  <1>4. Once'
    <2>1. OnceSent(toHost'[c]) /\ \A cmd \in Command : ~Holds(toHost'[c], cmd)
      BY <1>2 DEF OnceSent, Holds
    <2>2. queue'[Host] = queue[Host]
      BY <1>0, <1>1, FollowingFacts DEF TypeOK
    <2>3. QED
      BY <1>0, <1>3, <2>1, <2>2, OnceReceived
  <1>5. Joining(toClient'[c], toHost'[c])
    BY <1>2 DEF Joining, NoRequest
  <1>6. FollowsHost(c)' /\ ChecksumsFit(c)' /\ QueueInOrder(c)' /\ JoinsOnce(c)'
    BY <1>2, <1>5 DEF FollowsHost, ChecksumsFit, QueueInOrder, JoinsOnce
  <1>7. Connected' \subseteq Connected
    BY <1>0 DEF Connected
  <1>8. QED
    BY <1>3, <1>4, <1>6, <1>7, OthersFollow DEF ReplicaInv


-----------------------------------------------------------------------------
(***************************************************************************)
(* The steps of a client's thread.                                         *)
(***************************************************************************)
LEMMA OnceWhileClient ==
  ASSUME Following, TypeOK', NEW c \in Client, ActsAlone(c), queue'[Host] = queue[Host], unsent' = unsent,
         toHost'[c] = toHost[c]
  PROVE  Once'
  BY FollowingFacts, OnceReceived DEF Once

\* The client's thread goes on, and nothing else.
LEMMA ThreadFollowed ==
  ASSUME Following, TypeOK', NEW c \in Client,
         pc' = [pc EXCEPT ![c] = pc'[c]], left' = [left EXCEPT ![c] = left'[c]],
         UNCHANGED <<simulation, session, network, unsent>>,
         Updating(c)' = Updating(c), conn[c] = "loaded" /\ Idling(c)' => paused[c]
  PROVE  FollowInv'
  <1> USE DEF simulation, session, network
  <1>1. ActsAlone(c)
    <2>1. \A m \in Machine : ~saving[m]
      BY FollowingFacts DEF HostFrame
    <2>2. QED
      BY <2>1, FollowingFacts DEF ActsAlone, TypeOK
  <1>2. OwnSame(c) /\ toClient'[c] = toClient[c]
    BY DEF OwnSame, OwnKept, View
  <1>3. Once'
    BY <1>1, OnceWhileClient
  <1>4. ReplicaInv(c)'
    BY <1>1, <1>2, FollowingFacts, HostAside, ReplicaStill
  <1>5. QED
    BY <1>1, <1>3, <1>4, OthersFollow DEF Connected

LEMMA ClientBeginsFrame ==
  ASSUME Following, TypeOK', NEW c \in Client, BeginFrame(c)
  PROVE  FollowInv'
  <1>0. c \in Machine /\ c # Host /\ TypeOK
    BY FollowingFacts, SideTypes
  <1>1. /\ pc[c] = "frame" /\ UNCHANGED <<simulation, session, toHost, unsent>> /\ UNCHANGED toClient
        /\ \/ /\ Stopped(c) /\ pc' = [pc EXCEPT ![c] = "queue"] /\ left' = [left EXCEPT ![c] = 0]
           \/ /\ pc' = [pc EXCEPT ![c] = "poll"] /\ \E n \in NumUpdates(c) : left' = [left EXCEPT ![c] = n]
    BY <1>0 DEF BeginFrame
  <1>2. pc' = [pc EXCEPT ![c] = pc'[c]] /\ left' = [left EXCEPT ![c] = left'[c]]
    BY <1>0, <1>1 DEF TypeOK
  <1>3. Updating(c)' = Updating(c) /\ (Idling(c)' => Stopped(c))
    BY <1>0, <1>1 DEF TypeOK, Updating, Idling
  <1>4. Stopped(c) => paused[c]
    BY <1>0, FollowingFacts DEF Stopped, GameIsPaused, HostFrame
  <1>5. UNCHANGED <<simulation, session, network, unsent>>
    BY <1>1 DEF network
  <1>6. QED
    BY <1>2, <1>3, <1>4, <1>5, ThreadFollowed

LEMMA AfterUpdateForms ==
  ASSUME TypeOK, NEW m \in Machine, AfterUpdate(m)
  PROVE  /\ pc' = [pc EXCEPT ![m] = pc'[m]] /\ left' = [left EXCEPT ![m] = left'[m]]
         /\ pc'[m] \in {"frame", "poll"}
  BY DEF TypeOK, AfterUpdate

LEMMA ClientPasses ==
  ASSUME Following, TypeOK', NEW c \in Client,
         EndIdlePoll(c) \/ UpdateOldPark(c) \/ SkipUpdate(c) \/ (EndQueue(c) /\ left[c] = 0)
  PROVE  FollowInv'
  <1>0. c \in Machine /\ TypeOK
    BY FollowingFacts, SideTypes
  <1>1. UNCHANGED <<simulation, session, network, unsent>>
    BY DEF EndIdlePoll, UpdateOldPark, SkipUpdate, EndQueue, simulation
  <1>2. /\ pc' = [pc EXCEPT ![c] = pc'[c]] /\ left' = [left EXCEPT ![c] = left'[c]]
        /\ pc'[c] \in {"frame", "poll"}
    <2>1. CASE UpdateOldPark(c) \/ SkipUpdate(c)
      BY <1>0, <2>1, AfterUpdateForms DEF UpdateOldPark, SkipUpdate
    <2>2. CASE EndIdlePoll(c) \/ (EndQueue(c) /\ left[c] = 0)
      <3>1. left' = left /\ (pc' = [pc EXCEPT ![c] = "frame"] \/ pc' = [pc EXCEPT ![c] = "poll"])
        BY <2>2 DEF EndIdlePoll, EndQueue
      <3>2. QED
        BY <1>0, <3>1 DEF TypeOK
    <2>3. QED
      BY <2>1, <2>2
  <1>3. pc[c] = "poll" \/ left[c] = 0
    BY DEF EndIdlePoll, UpdateOldPark, SkipUpdate
  <1>4. Updating(c)' = Updating(c) /\ ~Idling(c)'
    BY <1>2, <1>3 DEF Updating, Idling
  <1>5. QED
    BY <1>1, <1>2, <1>4, ThreadFollowed

(***************************************************************************)
(* The client's own simulation takes a step, s, behind which W waits.      *)
(***************************************************************************)
LEMMA SimulationFollowed ==
  ASSUME Following, TypeOK', NEW c \in Client, ActsAlone(c), conn[c] = "loaded",
         queue'[Host] = queue[Host], unsent' = unsent, toHost' = toHost, toClient' = toClient, conn' = conn,
         nextUid' = nextUid, queue'[c] \subseteq queue[c], tickData'[c] \subseteq tickData[c], ~desynced'[c],
         Follows(View(Host), View(c)', Waiting(queue'[c], toClient[c], 0)),
         Idling(c)' => paused'[c]
  PROVE  FollowInv'
  <1>1. ReplicaInv(c)
    BY FollowingFacts
  <1>2. View(Host)' = View(Host) /\ tick'[Host] = tick[Host]
    BY HostAside
  <1>3. FollowsHost(c)'
    BY <1>1, <1>2 DEF ReplicaInv, FollowsHost
  <1>4. JoinsOnce(c)'
    BY <1>1 DEF ReplicaInv, JoinsOnce
  <1>5. QueueInOrder(c)'
    BY <1>1, <1>2 DEF ReplicaInv, QueueInOrder
  <1>6. ChecksumsFit(c)'
    BY <1>1, <1>2 DEF ReplicaInv, ChecksumsFit
  <1>7. Once'
    BY OnceWhileClient
  <1>8. QED
    BY <1>3, <1>4, <1>5, <1>6, <1>7, OthersFollow DEF ReplicaInv, Connected

LEMMA ClientView ==
  ASSUME Following, TypeOK', NEW c \in Client
  PROVE  /\ View(c) \in Simulation /\ View(c)' \in Simulation
         /\ View(c).log = log[c] /\ View(c).tick = tick[c] /\ View(c).paused = paused[c]
         /\ View(c).mid = Updating(c)
         /\ View(c)'.log = log'[c] /\ View(c)'.tick = tick'[c] /\ View(c)'.paused = paused'[c]
         /\ View(c)'.mid = Updating(c)'
         /\ Waiting(queue[c], toClient[c], 0) \in SUBSET Item
  <1>1. c \in Machine /\ TypeOK
    BY FollowingFacts, SideTypes
  <1>2. Waiting(queue[c], toClient[c], 0) \in SUBSET Item
    BY <1>1, SideTypes, WaitingType
  <1>3. QED
    BY <1>1, <1>2, ViewType, ViewTypeNext, ViewFields, ViewFieldsNext

LEMMA ClientEndsUpdate ==
  ASSUME Following, TypeOK', NEW c \in Client, EndQueue(c), left[c] # 0
  PROVE  FollowInv'
  <1> USE DEF simulation, session, network
  <1>0. c \in Machine /\ c # Host /\ TypeOK /\ left[c] \in Nat
    BY FollowingFacts, SideTypes
  <1>1. /\ pc[c] = "queue" /\ tick' = [tick EXCEPT ![c] = @ + 1] /\ AfterUpdate(c)
        /\ UNCHANGED <<paused, saving, log, queue, nextUid, session, toClient, toHost, unsent>>
    BY DEF EndQueue
  <1>2. /\ pc' = [pc EXCEPT ![c] = pc'[c]] /\ left' = [left EXCEPT ![c] = left'[c]]
        /\ pc'[c] \in {"frame", "poll"}
    BY <1>0, <1>1, AfterUpdateForms
  <1>3. conn[c] = "loaded"
    BY <1>0, <1>1 DEF Following, Safe, LockstepInv, ClientInv
  <1>4. Updating(c) /\ ~Updating(c)' /\ ~Idling(c)'
    BY <1>0, <1>1, <1>2 DEF Updating, Idling
  <1>5. ActsAlone(c)
    <2>1. \A m \in Machine : ~saving[m]
      BY FollowingFacts DEF HostFrame
    <2>2. \A m \in Machine \ {c} : tick'[m] = tick[m]
      BY <1>1, FollowingFacts DEF TypeOK
    <2>3. QED
      BY <1>1, <1>2, <2>1, <2>2, FollowingFacts DEF ActsAlone, TypeOK
  <1>6. Follows(View(Host), View(c)', Waiting(queue'[c], toClient[c], 0))
    <2>1. Follows(View(Host), View(c), Waiting(queue[c], toClient[c], 0))
      BY <1>3, FollowingFacts DEF ReplicaInv, FollowsHost
    <2>2. tick'[c] = tick[c] + 1 /\ log' = log /\ paused' = paused /\ queue' = queue
      BY <1>0, <1>1 DEF TypeOK
    <2>3. QED
      BY <1>4, <2>1, <2>2, ClientView, FollowingFacts, ClientClocks
  <1>7. ~desynced'[c]
    BY <1>1, <1>3, FollowingFacts DEF ReplicaInv, ChecksumsFit
  <1>8. QED
    BY <1>1, <1>3, <1>4, <1>5, <1>6, <1>7, SimulationFollowed


\* The step that the host took where the simulation of c is.
HostsNext(c) ==
  /\ Len(log[c]) < Len(log[Host])
  /\ log' = [log EXCEPT ![c] = Append(@, log[Host][Len(@) + 1])]

LEMMA HostsNextFrom ==
  ASSUME TypeOK, NEW c \in Client, NEW x, log' = [log EXCEPT ![c] = Append(@, x)],
         Len(log[c]) + 1 \in Steps(View(Host)), View(Host).log[Len(log[c]) + 1] = x
  PROVE  HostsNext(c)
  <1>1. View(Host).log = log[Host] /\ Host \in Machine /\ c \in Machine
    BY SideTypes, ViewFields
  <1>2. Len(log[c]) \in Nat /\ Len(log[Host]) \in Nat
    BY SideTypes
  <1>3. Len(log[c]) < Len(log[Host])
    BY <1>1, <1>2 DEF Steps
  <1>4. log' = [log EXCEPT ![c] = Append(@, log[Host][Len(@) + 1])]
    BY <1>1
  <1>5. QED
    BY <1>3, <1>4 DEF HostsNext

LEMMA ClientUpdateFacts ==
  ASSUME ~MapAlone, Following, TypeOK', NEW c \in Client, UpdateClient(c)
  PROVE  /\ Follows(View(Host), View(c)', Waiting(queue[c], toClient[c], 0))
         /\ HostsNext(c) /\ conn[c] = "loaded"
         /\ Len(log[c]) + 1 \in Steps(View(Host)) /\ LogicAt(View(Host), Len(log[c]) + 1, tick[c])
         /\ ~Idling(c)'
  <1> DEFINE h == View(Host)
             r == View(c)
             s == View(c)'
             W == Waiting(queue[c], toClient[c], 0)
  <1>0. c \in Machine /\ c # Host /\ TypeOK /\ tick[c] \in Nat /\ tick[Host] \in Nat /\ serverTick[c] \in Nat
    BY FollowingFacts, SideTypes
  <1>1. /\ pc[c] = "poll" /\ left[c] > 0 /\ ~Suspended(c) /\ MayStopReading(c) /\ serverTick[c] # tick[c]
        /\ log' = [log EXCEPT ![c] = Append(@, Logic(tick[c]))] /\ pc' = [pc EXCEPT ![c] = "queue"]
        /\ UNCHANGED <<left, tick, paused>>
    BY DEF UpdateClient
  <1>2. conn[c] = "loaded" /\ tick[c] < serverTick[c]
    BY <1>0, <1>1 DEF Suspended, MayStopReading
  <1>3. /\ ChannelInv(c) /\ ClientInv(c) /\ ReplicaInv(c)
    BY FollowingFacts DEF Safe, LockstepInv
  <1>4. tick[c] < tick[Host]
    BY <1>0, <1>2, <1>3 DEF ClientInv
  <1>5. \A a \in W : tick[c] <= a.tick
    <2>1. \A e \in queue[c] : tick[c] <= e.tick
      <3>1. \A e \in queue[c] : e.tick \in Nat
        BY <1>0, SideTypes DEF QueuedAction
      <3>2. QED
        BY <1>0, <1>2, <1>3, <3>1 DEF ClientInv
    <2>2. \A i \in 1 .. Len(toClient[c]) : toClient[c][i].type = "action" => tick[c] <= toClient[c][i].tick
      BY <1>2, <1>3 DEF ChannelInv, Within, Ticked
    <2>3. QED
      BY <1>0, <2>1, <2>2, SideTypes, WaitingType
  <1>6. Follows(h, r, W)
    BY <1>2, <1>3 DEF ReplicaInv, FollowsHost
  <1>7. ~Updating(c) /\ Updating(c)' /\ ~Idling(c)' /\ log'[c] = Append(log[c], Logic(tick[c]))
    BY <1>0, <1>1 DEF Updating, Idling, TypeOK
  <1>8. /\ h \in Simulation /\ r \in Simulation /\ s \in Simulation /\ W \in SUBSET Item /\ HostLog(h)
        /\ r.tick = tick[c] /\ r.log = log[c] /\ ~r.mid
        /\ s.log = Append(r.log, Logic(r.tick)) /\ s.tick = r.tick /\ s.paused = r.paused /\ s.mid
    BY <1>1, <1>7, ClientView, FollowingFacts
  <1>9. Updated(h, r.tick)
    BY <1>0, <1>4, <1>8, FollowingFacts DEF Updated
  <1> HIDE DEF h, r, s, W
  <1>10. /\ Follows(h, s, W) /\ Len(r.log) + 1 \in Steps(h) /\ LogicAt(h, Len(r.log) + 1, r.tick)
         /\ h.log[Len(r.log) + 1] = Logic(r.tick)
    BY <1>5, <1>6, <1>8, <1>9, ClientUpdates
  <1>11. HostsNext(c)
    <2>1. Len(log[c]) + 1 \in Steps(View(Host)) /\ View(Host).log[Len(log[c]) + 1] = Logic(tick[c])
      BY <1>8, <1>10 DEF h
    <2>2. QED
      BY <1>0, <1>1, <2>1, HostsNextFrom
  <1>12. QED
    BY <1>2, <1>7, <1>8, <1>10, <1>11 DEF h, s, W

LEMMA ClientUpdateFollowed ==
  ASSUME ~MapAlone, Following, TypeOK', NEW c \in Client, UpdateClient(c)
  PROVE  FollowInv'
  <1>0. c \in Machine /\ c # Host /\ Host \in Machine /\ TypeOK
    BY FollowingFacts, SideTypes
  <1>1. /\ log' = [log EXCEPT ![c] = Append(@, Logic(tick[c]))] /\ pc' = [pc EXCEPT ![c] = "queue"]
        /\ UNCHANGED <<left, tick, paused, saving, queue, nextUid, conn, serverTick, toClient, toHost, unsent>>
    BY DEF UpdateClient, network
  <1>2. /\ Follows(View(Host), View(c)', Waiting(queue[c], toClient[c], 0))
        /\ conn[c] = "loaded" /\ ~Idling(c)'
        /\ Len(log[c]) + 1 \in Steps(View(Host)) /\ LogicAt(View(Host), Len(log[c]) + 1, tick[c])
    BY ClientUpdateFacts
  <1>3. ReplicaInv(c) /\ ~desynced[c]
    BY <1>2, FollowingFacts DEF ReplicaInv, ChecksumsFit
  <1> DEFINE stored == {d \in tickData[c] : d.tick = tick[c]}
  <1>4. /\ tickData' = [tickData EXCEPT ![c] = @ \ stored]
        /\ desynced' = [desynced EXCEPT ![c] = \E d \in stored : d.sum # log[c]]
    BY <1>3 DEF UpdateClient
  <1>5. ActsAlone(c)
    <2>1. \A m \in Machine : ~saving[m]
      BY FollowingFacts DEF HostFrame
    <2> HIDE DEF stored
    <2>2. \A d \in Client \ {c} : tickData'[d] = tickData[d] /\ desynced'[d] = desynced[d]
      BY <1>0, <1>4 DEF TypeOK
    <2>3. \A m \in Machine \ {c} : pc'[m] = pc[m] /\ log'[m] = log[m]
      BY <1>0, <1>1 DEF TypeOK
    <2>4. QED
      BY <1>1, <2>1, <2>2, <2>3 DEF ActsAlone
  <1>6. tickData'[c] \subseteq tickData[c]
    BY <1>0, <1>4 DEF TypeOK
  <1>7. \A d \in stored : d.sum = log[c]
    <2> SUFFICES ASSUME NEW d \in stored PROVE d.sum = log[c]
      OBVIOUS
    <2>1. Rightful(View(Host), d) /\ IsChecksum(d) /\ d.tick = tick[c]
      BY <1>0, <1>3, SideTypes DEF ReplicaInv, ChecksumsFit
    <2>2. Len(d.sum) = Len(log[c]) + 1 - 1 /\ Prefix(d.sum, View(Host).log)
      BY <1>2, <2>1 DEF Rightful
    <2>3. log[c] \in Seq(Entry) /\ Len(log[c]) \in Nat /\ View(Host).log \in Seq(Entry)
      BY <1>0, SideTypes, FollowingFacts
    <2>4. Prefix(log[c], View(Host).log)
      BY <1>2, <1>3, ClientView DEF ReplicaInv, FollowsHost, Follows
    <2>5. Len(d.sum) = Len(log[c]) /\ d.sum \in Seq(Entry)
      BY <2>1, <2>2, <2>3 DEF IsChecksum
    <2>6. QED
      BY <2>2, <2>3, <2>4, <2>5, SamePrefix
  <1>8. ~desynced'[c]
    BY <1>0, <1>4, <1>7 DEF TypeOK
  <1>9. QED
    BY <1>1, <1>2, <1>5, <1>6, <1>8, SimulationFollowed

LEMMA ClientExecuteFacts ==
  ASSUME Following, TypeOK', NEW c \in Client, Execute(c)
  PROVE  /\ Follows(View(Host), View(c)', Waiting(queue'[c], toClient[c], 0))
         /\ conn[c] = "loaded" /\ toClient' = toClient /\ (Idling(c)' => paused'[c])
         /\ log' = log \/ HostsNext(c)
         /\ queue'[c] \subseteq queue[c] /\ queue'[Host] = queue[Host]
         /\ \A m \in Machine \ {c} : paused'[m] = paused[m] /\ log'[m] = log[m] /\ queue'[m] = queue[m]
  <1> DEFINE h == View(Host)
             r == View(c)
             s == View(c)'
             W == Waiting(queue[c], toClient[c], 0)
  <1>0. c \in Machine /\ c # Host /\ Host \in Machine /\ TypeOK /\ tick[c] \in Nat
    BY FollowingFacts, SideTypes
  <1>1. pc[c] = "queue" /\ conn[c] = "loaded" /\ UNCHANGED <<pc, left, tick>>
    BY DEF Execute, Suspended
  <1> PICK e \in queue[c] :
        /\ IsFirst(e, queue[c]) /\ Due(c, e)
        /\ queue' = [queue EXCEPT ![c] = @ \ {e}]
        /\ IF Allowed(c, e.cmd)
             THEN /\ IF e.cmd \in TogglePause
                       THEN paused' = [paused EXCEPT ![c] = ~@] /\ UNCHANGED log
                       ELSE log' = [log EXCEPT ![c] = Append(@, Run(e.cmd))] /\ UNCHANGED paused
                  /\ UNCHANGED toClient
             ELSE UNCHANGED <<log, paused, toClient>>
    BY <1>0 DEF Execute
  <1> DEFINE x == InQueue(e)
  <1>2. ReplicaInv(c) /\ ClientInv(c)
    BY FollowingFacts DEF Safe, LockstepInv
  <1>3. Follows(h, r, W)
    BY <1>1, <1>2 DEF ReplicaInv, FollowsHost
  <1>4. e.tick = tick[c] /\ e.cmd \in Command
    <2>1. e.tick \in Nat /\ e.cmd \in Command
      BY <1>0, SideTypes DEF QueuedAction
    <2>2. QED
      BY <1>0, <1>1, <1>2, <2>1 DEF ClientInv, Due
  <1>5. x.tick = e.tick /\ x.cmd = e.cmd
    BY DEF InQueue
  <1>6. /\ queue'[c] = queue[c] \ {e} /\ queue'[Host] = queue[Host]
        /\ \A m \in Machine \ {c} : queue'[m] = queue[m]
    BY <1>0 DEF TypeOK
  <1>7. /\ Waiting(queue'[c], toClient[c], 0) = W \ {x} /\ x \in W
        /\ \A b \in W \ {x} : Earlier(x, b)
    <2> DEFINE q == queue[c]
               ch == toClient[c]
    <2>1. q \in SUBSET QueuedAction /\ ch \in Seq(ClientPacket) /\ e \in q /\ IsFirst(e, q)
      BY <1>0, SideTypes
    <2>2. \A f, g \in q : f.uid = g.uid => f = g
      BY <1>2 DEF ReplicaInv, QueueInOrder
    <2>3. queue'[c] = q \ {e}
      BY <1>6
    <2> HIDE DEF q, ch
    <2>4. /\ Waiting(q \ {e}, ch, 0) = Waiting(q, ch, 0) \ {InQueue(e)} /\ InQueue(e) \in Waiting(q, ch, 0)
          /\ \A b \in Waiting(q, ch, 0) \ {InQueue(e)} : Earlier(InQueue(e), b)
      BY <2>1, <2>2, WaitingTaken
    <2>5. QED
      BY <2>3, <2>4 DEF q, ch
  <1>8. /\ h \in Simulation /\ r \in Simulation /\ s \in Simulation /\ W \in SUBSET Item /\ HostLog(h)
        /\ r.log = log[c] /\ r.tick = tick[c] /\ r.paused = paused[c] /\ r.mid = Updating(c)
        /\ s.log = log'[c] /\ s.tick = r.tick /\ s.paused = paused'[c] /\ s.mid = r.mid
    <2>1. Updating(c)' = Updating(c) /\ tick' = tick
      BY <1>1 DEF Updating
    <2>2. QED
      BY <2>1, ClientView, FollowingFacts
  <1>9. r.mid \/ r.paused
    <2>1. Idling(c) => paused[c]
      BY <1>1, <1>2 DEF ReplicaInv, FollowsHost
    <2>2. Idling(c) \/ Updating(c)
      BY <1>0, <1>1 DEF Idling, Updating, TypeOK
    <2>3. QED
      BY <1>8, <2>1, <2>2
  <1>10. Idling(c)' = Idling(c) /\ (Idling(c) => paused[c])
    BY <1>1, <1>2 DEF Idling, ReplicaInv, FollowsHost
  <1>11. Allowed(c, e.cmd)
    <2>1. ~saving[c]
      BY <1>0, FollowingFacts DEF HostFrame
    <2>2. r.paused => x.cmd \notin Build
      BY <1>3, <1>7, ClientAllows
    <2>3. QED
      BY <1>5, <1>8, <2>1, <2>2 DEF Allowed, GameIsPaused
  <1>12. CASE e.cmd \in TogglePause
    <2>1. paused' = [paused EXCEPT ![c] = ~@] /\ log' = log /\ toClient' = toClient
      BY <1>11, <1>12
    <2> HIDE DEF h, r, s, W, x
    <2>2. ~r.paused
      BY <1>3, <1>5, <1>12, <1>7 DEF Follows, PauseIsLast, PausedRightly
    <2>3. paused'[c] /\ \A m \in Machine \ {c} : paused'[m] = paused[m]
      BY <1>0, <1>8, <2>1, <2>2 DEF TypeOK
    <2>4. Follows(h, s, W \ {x})
      BY <1>3, <1>4, <1>5, <1>7, <1>8, <1>9, <1>12, <2>1, <2>3, ClientPauses
    <2>5. QED
      BY <1>1, <1>6, <1>7, <1>10, <2>1, <2>3, <2>4 DEF h, s
  <1>13. CASE e.cmd \notin TogglePause
    <2>1. log' = [log EXCEPT ![c] = Append(@, Run(e.cmd))] /\ paused' = paused /\ toClient' = toClient
      BY <1>11, <1>13
    <2>2. log'[c] = Append(log[c], Run(e.cmd)) /\ \A m \in Machine \ {c} : log'[m] = log[m]
      BY <1>0, <2>1 DEF TypeOK
    <2> HIDE DEF h, r, s, W, x
    <2>3. /\ x \in W /\ x.tick = r.tick /\ x.cmd \notin TogglePause
          /\ s.log = Append(r.log, Run(x.cmd)) /\ s.tick = r.tick /\ s.paused = r.paused /\ s.mid = r.mid
      BY <1>4, <1>5, <1>7, <1>8, <1>13, <2>1, <2>2
    <2>4. /\ Follows(h, s, W \ {x})
          /\ Len(r.log) + 1 \in Steps(h) /\ h.log[Len(r.log) + 1] = Run(x.cmd)
      <3>1. h \in Simulation /\ r \in Simulation /\ s \in Simulation /\ W \in SUBSET Item /\ HostLog(h)
        BY <1>8
      <3>2. \A b \in W \ {x} : Earlier(x, b)
        BY <1>7
      <3>3. QED
        BY <1>3, <1>9, <2>3, <3>1, <3>2, ClientRuns
    <2>5. HostsNext(c)
      <3>1. Len(log[c]) + 1 \in Steps(View(Host)) /\ View(Host).log[Len(log[c]) + 1] = Run(e.cmd)
        BY <1>5, <1>8, <2>4 DEF h
      <3>2. QED
        BY <1>0, <2>1, <3>1, HostsNextFrom
    <2>6. QED
      BY <1>1, <1>6, <1>7, <1>10, <2>1, <2>2, <2>4, <2>5 DEF h, s
  <1>14. QED
    BY <1>12, <1>13

LEMMA ClientExecuteFollowed ==
  ASSUME Following, TypeOK', NEW c \in Client, Execute(c)
  PROVE  FollowInv'
  <1> USE DEF session
  <1>0. c \in Machine /\ c # Host /\ Host \in Machine /\ TypeOK
    BY FollowingFacts, SideTypes
  <1>1. UNCHANGED <<pc, left, tick, saving, nextUid, session, toHost, unsent>>
    BY DEF Execute
  <1>2. /\ Follows(View(Host), View(c)', Waiting(queue'[c], toClient[c], 0))
        /\ conn[c] = "loaded" /\ toClient' = toClient /\ (Idling(c)' => paused'[c])
        /\ queue'[c] \subseteq queue[c] /\ queue'[Host] = queue[Host]
        /\ \A m \in Machine \ {c} : paused'[m] = paused[m] /\ log'[m] = log[m] /\ queue'[m] = queue[m]
    BY ClientExecuteFacts
  <1>3. ActsAlone(c)
    <2>1. \A m \in Machine : ~saving[m]
      BY FollowingFacts DEF HostFrame
    <2>2. \A d \in Client \ {c} : d \in Machine \ {c}
      BY DEF Machine
    <2>3. QED
      BY <1>1, <1>2, <2>1, <2>2 DEF ActsAlone
  <1>4. ~desynced'[c] /\ tickData'[c] = tickData[c]
    BY <1>1, <1>2, FollowingFacts DEF ReplicaInv, ChecksumsFit
  <1>5. QED
    BY <1>1, <1>2, <1>3, <1>4, SimulationFollowed

-----------------------------------------------------------------------------
(***************************************************************************)
(* A client handles the packet at the head of its channel.                 *)
(***************************************************************************)
LEMMA HandledForms ==
  ASSUME Following, NEW c \in Client, NEW type, ClientReceives(c, type)
  PROVE  /\ toClient[c] \in Seq(ClientPacket) /\ toClient[c] # <<>>
         /\ Head(toClient[c]) \in ClientPacket /\ Head(toClient[c]).type = type
         /\ Head(toClient[c]) = toClient[c][1] /\ 1 \in 1 .. Len(toClient[c])
         /\ toClient'[c] = Tail(toClient[c]) /\ pc[c] = "poll"
         /\ \A d \in Client \ {c} : toClient'[d] = toClient[d]
         /\ c \in Machine /\ Host \in Machine /\ c # Host /\ conn[c] # "none"
         /\ \A i \in 1 .. Len(Tail(toClient[c])) :
              i \in Nat /\ i + 1 \in 1 .. Len(toClient[c]) /\ Tail(toClient[c])[i] = toClient[c][i + 1]
  <1>1. TypeOK /\ ReplicaInv(c)
    BY FollowingFacts
  <1>2. /\ toClient[c] \in Seq(ClientPacket) /\ toClient[c] # <<>> /\ Head(toClient[c]).type = type
        /\ toClient'[c] = Tail(toClient[c]) /\ pc[c] = "poll"
        /\ \A d \in Client \ {c} : toClient'[d] = toClient[d]
    BY <1>1 DEF TypeOK, ClientReceives
  <1>3. conn[c] # "none"
    BY <1>1, <1>2 DEF ReplicaInv, JoinsOnce
  <1>4. c \in Machine /\ Host \in Machine /\ c # Host
    BY <1>1, SideTypes
  <1>5. /\ \A i \in 1 .. Len(Tail(toClient[c])) :
             i \in Nat /\ i + 1 \in 1 .. Len(toClient[c]) /\ Tail(toClient[c])[i] = toClient[c][i + 1]
        /\ Head(toClient[c]) = toClient[c][1] /\ 1 \in 1 .. Len(toClient[c])
    BY <1>2, TailForms
  <1>6. Head(toClient[c]) \in ClientPacket
    BY <1>2
  <1>7. QED
    BY <1>2, <1>3, <1>4, <1>5, <1>6

\* The maps that are still on their way.
LEMMA MapsMoveUp ==
  ASSUME Following, NEW c \in Client, toClient[c] # <<>>, NEW k \in 1 .. Len(Tail(toClient[c])),
         Tail(toClient[c])[k].type = "map"
  PROVE  Follows(View(Host), Loads(Tail(toClient[c])[k]), Waiting({}, Tail(toClient[c]), k))
  <1>1. toClient[c] \in Seq(ClientPacket) /\ ReplicaInv(c)
    BY FollowingFacts, SideTypes
  <1>2. Tail(toClient[c])[k] = toClient[c][k + 1] /\ k + 1 \in 1 .. Len(toClient[c]) /\ k \in Nat
    BY <1>1, TailForms
  <1>3. Follows(View(Host), Loads(toClient[c][k + 1]), Waiting({}, toClient[c], k + 1))
    BY <1>1, <1>2 DEF ReplicaInv, FollowsHost
  <1>4. QED
    BY <1>1, <1>2, <1>3, WaitingMovesUp

LEMMA HandledFollowed ==
  ASSUME Following, TypeOK', NEW c \in Client, ActsAlone(c), NEW type, ClientReceives(c, type),
         pc' = pc, queue'[Host] = queue[Host], unsent' = unsent, conn'[c] # "none",
         OnceSent(toHost'[c]), \A cmd \in Command : Holds(toHost'[c], cmd) => Holds(toHost[c], cmd),
         conn'[c] = "loaded" =>
           /\ Follows(View(Host), View(c)', Waiting(queue'[c], Tail(toClient[c]), 0))
           /\ NoJoining(Tail(toClient[c])) /\ NoRequest(toHost'[c]) /\ ~desynced'[c],
         Joining(Tail(toClient[c]), toHost'[c]), QueueInOrder(c)',
         \A d \in tickData'[c] : Rightful(View(Host), d)
  PROVE  FollowInv'
  <1> DEFINE s == toClient[c]
  <1>1. /\ toClient'[c] = Tail(s) /\ pc[c] = "poll" /\ conn[c] # "none" /\ s # <<>>
        /\ \A i \in 1 .. Len(Tail(s)) : i + 1 \in 1 .. Len(s) /\ Tail(s)[i] = s[i + 1]
    BY HandledForms
  <1>2. ReplicaInv(c)
    BY FollowingFacts
  <1>3. View(Host)' = View(Host) /\ tick'[Host] = tick[Host]
    BY HostAside
  <1>4. FollowsHost(c)'
    <2>1. \A k \in 1 .. Len(Tail(s)) : Tail(s)[k].type = "map" =>
            Follows(View(Host), Loads(Tail(s)[k]), Waiting({}, Tail(s), k))
      BY <1>1, MapsMoveUp
    <2>2. ~Idling(c)'
      BY <1>1 DEF Idling
    <2>3. QED
      BY <1>1, <1>3, <2>1, <2>2 DEF FollowsHost
  <1>5. JoinsOnce(c)'
    BY <1>1 DEF JoinsOnce
  <1>6. ChecksumsFit(c)'
    <2>1. \A i \in 1 .. Len(Tail(s)) : Tail(s)[i].type = "tick" => Rightful(View(Host), Tail(s)[i])
      BY <1>1, <1>2 DEF ReplicaInv, ChecksumsFit
    <2>2. QED
      BY <1>1, <1>3, <2>1 DEF ChecksumsFit
  <1>7. Once'
    BY OnceReceived
  <1>8. Connected' \subseteq Connected
    BY <1>1 DEF Connected, ActsAlone
  <1>9. QED
    BY <1>4, <1>5, <1>6, <1>7, <1>8, OthersFollow DEF ReplicaInv

\* Nothing enters the client's queue.
LEMMA QueueMovesUp ==
  ASSUME Following, NEW c \in Client, NEW type, ClientReceives(c, type), tick'[Host] = tick[Host],
         queue'[c] \subseteq queue[c], nextUid'[c] = nextUid[c]
  PROVE  QueueInOrder(c)'
  <1>1. /\ toClient'[c] = Tail(toClient[c])
        /\ \A i \in 1 .. Len(Tail(toClient[c])) :
             i + 1 \in 1 .. Len(toClient[c]) /\ Tail(toClient[c])[i] = toClient[c][i + 1]
    BY HandledForms
  <1>2. QueueInOrder(c)
    BY FollowingFacts DEF ReplicaInv
  <1>3. QED
    BY <1>1, <1>2 DEF QueueInOrder

LEMMA ObjectsListFollowed ==
  ASSUME Following, TypeOK', NEW c \in Client, HandleObjectsList(c)
  PROVE  FollowInv'
  <1> USE DEF simulation, session
  <1> DEFINE s == toClient[c]
             t == toHost[c]
             p == [type |-> "mapRequest"]
  <1>0. /\ ClientReceives(c, "objects")
        /\ toHost' = [toHost EXCEPT ![c] = Append(@, p)]
        /\ UNCHANGED <<pc, left, tick, paused, saving, log, queue, nextUid, conn, serverTick, tickData, desynced, unsent>>
    BY DEF HandleObjectsList
  <1>1. /\ s \in Seq(ClientPacket) /\ s # <<>> /\ Head(s).type = "objects" /\ Head(s) = s[1] /\ 1 \in 1 .. Len(s)
        /\ conn[c] # "none" /\ \A d \in Client \ {c} : toClient'[d] = toClient[d]
    BY <1>0, HandledForms
  <1>2. ReplicaInv(c) /\ Once /\ t \in Seq(HostPacket) /\ p \in HostPacket /\ toHost'[c] = Append(t, p)
    BY <1>0, FollowingFacts DEF TypeOK, HostPacket
  <1>3. ActsAlone(c)
    <2>1. \A m \in Machine : ~saving[m]
      BY FollowingFacts DEF HostFrame
    <2>2. \A d \in Client \ {c} : toHost'[d] = toHost[d]
      BY <1>0, FollowingFacts DEF TypeOK
    <2>3. QED
      BY <1>0, <1>1, <2>1, <2>2 DEF ActsAlone
  <1>4. conn'[c] # "loaded" /\ conn'[c] # "none"
    BY <1>0, <1>1, <1>2 DEF ReplicaInv, JoinsOnce, NoJoining
  <1>5. Joining(Tail(s), Append(t, p))
    <2>1. Joining(s, t)
      BY <1>2 DEF ReplicaInv, JoinsOnce
    <2>2. Tail(s) \in Seq(ClientPacket)
      BY <1>1, TailForms
    <2>3. Joining(Tail(s), t) /\ NoJoining(Tail(s)) /\ NoRequest(t)
      BY <1>1, <1>2, <2>1, JoiningTail
    <2>4. QED
      BY <1>2, <2>2, <2>3, JoiningAsks
  <1>6. OnceSent(toHost'[c]) /\ \A cmd \in Command : Holds(toHost'[c], cmd) => Holds(toHost[c], cmd)
    <2>1. OnceSent(t)
      BY <1>2 DEF Once
    <2>2. p.type # "action"
      OBVIOUS
    <2> HIDE DEF t, p
    <2>3. OnceSent(Append(t, p)) /\ \A cmd : Holds(Append(t, p), cmd) <=> Holds(t, cmd)
      BY <1>2, <2>1, <2>2, HoldsAppended
    <2>4. QED
      BY <1>2, <2>3 DEF t
  <1>7. QueueInOrder(c)'
    BY <1>0, QueueMovesUp
  <1>8. \A d \in tickData'[c] : Rightful(View(Host), d)
    BY <1>0, <1>2 DEF ReplicaInv, ChecksumsFit
  <1>9. QED
    BY <1>0, <1>2, <1>3, <1>4, <1>5, <1>6, <1>7, <1>8, HandledFollowed

LEMMA BeginMapFollowed ==
  ASSUME Following, TypeOK', NEW c \in Client, HandleBeginMap(c)
  PROVE  FollowInv'
  <1> USE DEF session
  <1> DEFINE s == toClient[c]
  <1>0. /\ ClientReceives(c, "beginMap")
        /\ queue' = [queue EXCEPT ![c] = {}]
        /\ UNCHANGED <<pc, left, tick, paused, saving, log, nextUid, conn, serverTick, tickData, desynced, toHost, unsent>>
    BY DEF HandleBeginMap
  <1>1. /\ s \in Seq(ClientPacket) /\ s # <<>> /\ Head(s).type = "beginMap" /\ Head(s) = s[1] /\ 1 \in 1 .. Len(s)
        /\ conn[c] # "none" /\ \A d \in Client \ {c} : toClient'[d] = toClient[d]
        /\ c \in Machine /\ Host \in Machine /\ c # Host
    BY <1>0, HandledForms
  <1>2. ReplicaInv(c) /\ Once /\ toHost[c] \in Seq(HostPacket)
    BY FollowingFacts, SideTypes
  <1>3. queue'[c] = {} /\ \A m \in Machine \ {c} : queue'[m] = queue[m]
    BY <1>0, <1>1, FollowingFacts DEF TypeOK
  <1>4. ActsAlone(c)
    <2>1. \A m \in Machine : ~saving[m]
      BY FollowingFacts DEF HostFrame
    <2>2. \A d \in Client \ {c} : d \in Machine \ {c}
      BY DEF Machine
    <2>3. QED
      BY <1>0, <1>1, <1>3, <2>1, <2>2 DEF ActsAlone
  <1>5. conn'[c] # "loaded" /\ conn'[c] # "none"
    BY <1>0, <1>1, <1>2 DEF ReplicaInv, JoinsOnce, NoJoining
  <1>6. Joining(Tail(s), toHost'[c])
    <2>1. Joining(s, toHost[c])
      BY <1>2 DEF ReplicaInv, JoinsOnce
    <2>2. QED
      BY <1>0, <1>1, <1>2, <2>1, JoiningTail
  <1>7. QueueInOrder(c)'
    BY <1>0, <1>3, QueueMovesUp
  <1>8. \A d \in tickData'[c] : Rightful(View(Host), d)
    BY <1>0, <1>2 DEF ReplicaInv, ChecksumsFit
  <1>9. OnceSent(toHost'[c])
    BY <1>0, <1>2 DEF Once
  <1>10. QED
    BY <1>0, <1>1, <1>3, <1>4, <1>5, <1>6, <1>7, <1>8, <1>9, HandledFollowed

\* What a client loads is a state that the host was in.
LEMMA MapLoaded ==
  ASSUME Following, TypeOK', NEW c \in Client, HandleMap(c)
  PROVE  /\ Follows(View(Host), View(c)', Waiting({}, toClient[c], 1))
         /\ Follows(View(Host), View(c)', Waiting({}, Tail(toClient[c]), 0))
         /\ queue[c] = {} /\ View(c)' = Loads(Head(toClient[c]))
  <1> DEFINE s == toClient[c]
  <1>0. /\ ClientReceives(c, "map")
        /\ tick' = [tick EXCEPT ![c] = Head(s).tick] /\ paused' = [paused EXCEPT ![c] = Head(s).paused]
        /\ log' = [log EXCEPT ![c] = Head(s).log] /\ pc' = pc /\ left' = left
    BY DEF HandleMap
  <1>1. /\ s \in Seq(ClientPacket) /\ s # <<>> /\ Head(s).type = "map" /\ Head(s) = s[1] /\ 1 \in 1 .. Len(s)
        /\ pc[c] = "poll" /\ c \in Machine
    BY <1>0, HandledForms
  <1>2. ReplicaInv(c) /\ ChannelInv(c)
    BY FollowingFacts DEF Safe, LockstepInv
  <1>3. queue[c] = {}
    BY <1>1, <1>2 DEF ChannelInv
  <1>4. View(c)' = Loads(Head(s))
    <2>1. tick'[c] = Head(s).tick /\ paused'[c] = Head(s).paused /\ log'[c] = Head(s).log
      BY <1>0, <1>1, FollowingFacts DEF TypeOK
    <2>2. Updating(c)' = FALSE
      BY <1>0, <1>1 DEF Updating
    <2>3. QED
      BY <2>1, <2>2 DEF View, Loads
  <1>5. Follows(View(Host), Loads(Head(s)), Waiting({}, s, 1))
    BY <1>1, <1>2 DEF ReplicaInv, FollowsHost
  <1>6. Follows(View(Host), Loads(Head(s)), Waiting({}, Tail(s), 0))
    <2>1. {} \in SUBSET QueuedAction /\ 0 \in Nat /\ 0 + 1 = 1
      OBVIOUS
    <2>2. QED
      BY <1>1, <1>5, <2>1, WaitingMovesUp
  <1>7. QED
    BY <1>3, <1>4, <1>5, <1>6

LEMMA MapFollowed ==
  ASSUME Following, TypeOK', NEW c \in Client, HandleMap(c)
  PROVE  FollowInv'
  <1> DEFINE s == toClient[c]
  <1>0. /\ ClientReceives(c, "map")
        /\ tick' = [tick EXCEPT ![c] = Head(s).tick] /\ paused' = [paused EXCEPT ![c] = Head(s).paused]
        /\ log' = [log EXCEPT ![c] = Head(s).log] /\ conn' = [conn EXCEPT ![c] = "loaded"]
        /\ desynced' = [desynced EXCEPT ![c] = FALSE]
        /\ UNCHANGED <<pc, left, saving, queue, nextUid, serverTick, tickData, toHost, unsent>>
    BY DEF HandleMap
  <1>1. /\ s \in Seq(ClientPacket) /\ s # <<>> /\ Head(s).type = "map"
        /\ conn[c] # "none" /\ \A d \in Client \ {c} : toClient'[d] = toClient[d]
        /\ c \in Machine /\ Host \in Machine /\ c # Host
    BY <1>0, HandledForms
  <1>2. ReplicaInv(c) /\ Once /\ toHost[c] \in Seq(HostPacket)
    BY FollowingFacts, SideTypes
  <1>3. conn'[c] = "loaded" /\ ~desynced'[c]
    BY <1>0, FollowingFacts DEF TypeOK
  <1>4. ActsAlone(c)
    <2>1. \A m \in Machine : ~saving[m]
      BY FollowingFacts DEF HostFrame
    <2>2. /\ \A m \in Machine \ {c} : tick'[m] = tick[m] /\ paused'[m] = paused[m] /\ log'[m] = log[m]
          /\ \A d \in Client \ {c} : conn'[d] = conn[d] /\ desynced'[d] = desynced[d]
      BY <1>0, FollowingFacts DEF TypeOK
    <2>3. QED
      BY <1>0, <1>1, <2>1, <2>2 DEF ActsAlone
  <1>5. Joining(Tail(s), toHost'[c]) /\ NoJoining(Tail(s)) /\ NoRequest(toHost'[c])
    <2>1. Joining(s, toHost[c])
      BY <1>2 DEF ReplicaInv, JoinsOnce
    <2>2. QED
      BY <1>0, <1>1, <1>2, <2>1, JoiningTail
  <1>6. QueueInOrder(c)'
    <2>1. tick'[Host] = tick[Host]
      BY <1>1, <1>4 DEF ActsAlone
    <2>2. QED
      BY <1>0, <2>1, QueueMovesUp
  <1>7. \A d \in tickData'[c] : Rightful(View(Host), d)
    BY <1>0, <1>2 DEF ReplicaInv, ChecksumsFit
  <1>8. OnceSent(toHost'[c])
    BY <1>0, <1>2 DEF Once
  <1>9. Follows(View(Host), View(c)', Waiting(queue'[c], Tail(s), 0))
    BY <1>0, MapLoaded
  <1>10. QED
    BY <1>0, <1>3, <1>4, <1>5, <1>6, <1>7, <1>8, <1>9, HandledFollowed

LEMMA TickFollowed ==
  ASSUME Following, TypeOK', NEW c \in Client, HandleTick(c)
  PROVE  FollowInv'
  <1> USE DEF simulation
  <1> DEFINE s == toClient[c]
  <1>0. /\ ClientReceives(c, "tick")
        /\ UNCHANGED <<pc, left, tick, paused, saving, log, queue, nextUid, conn, desynced, toHost, unsent>>
    BY DEF HandleTick
  <1>1. /\ s \in Seq(ClientPacket) /\ s # <<>> /\ Head(s).type = "tick" /\ Head(s) = s[1] /\ 1 \in 1 .. Len(s)
        /\ conn[c] # "none" /\ \A d \in Client \ {c} : toClient'[d] = toClient[d]
        /\ c \in Machine /\ pc[c] = "poll"
    BY <1>0, HandledForms
  <1>2. ReplicaInv(c) /\ Once /\ toHost[c] \in Seq(HostPacket) /\ queue[c] \in SUBSET QueuedAction
    BY FollowingFacts, SideTypes
  <1>3. /\ \A d \in Client \ {c} : tickData'[d] = tickData[d]
        /\ \A d \in tickData'[c] : d \in tickData[c] \/ (d.tick = Head(s).tick /\ d.sum = Head(s).sum)
    <2> DEFINE m == Head(toClient[c])
               kept == Newest(tickData[c])
               known == \E d \in kept : d.tick = m.tick
               data == IF known THEN kept ELSE kept \union {[tick |-> m.tick, sum |-> m.sum]}
    <2>1. tickData' = [tickData EXCEPT ![c] = data]
      BY DEF HandleTick
    <2>2. kept \subseteq tickData[c]
      BY DEF Newest
    <2>3. \A d \in data : d \in tickData[c] \/ (d.tick = m.tick /\ d.sum = m.sum)
      BY <2>2
    <2> HIDE DEF data
    <2>4. tickData'[c] = data /\ \A d \in Client \ {c} : tickData'[d] = tickData[d]
      BY <2>1, FollowingFacts DEF TypeOK
    <2>5. QED
      BY <2>3, <2>4
  <1>4. ActsAlone(c)
    <2>1. \A m \in Machine : ~saving[m]
      BY FollowingFacts DEF HostFrame
    <2>2. QED
      BY <1>0, <1>1, <1>3, <2>1 DEF ActsAlone
  <1>5. Joining(Tail(s), toHost'[c]) /\ (conn[c] = "loaded" => NoJoining(Tail(s)) /\ NoRequest(toHost'[c]))
    <2>1. Joining(s, toHost[c]) /\ (conn[c] = "loaded" => NoJoining(s) /\ NoRequest(toHost[c]))
      BY <1>2 DEF ReplicaInv, JoinsOnce
    <2>2. QED
      BY <1>0, <1>1, <1>2, <2>1, JoiningTail
  <1>6. QueueInOrder(c)'
    BY <1>0, QueueMovesUp
  <1>7. \A d \in tickData'[c] : Rightful(View(Host), d)
    BY <1>1, <1>2, <1>3 DEF ReplicaInv, ChecksumsFit, Rightful
  <1>8. OnceSent(toHost'[c])
    BY <1>0, <1>2 DEF Once
  <1>9. conn[c] = "loaded" => Follows(View(Host), View(c)', Waiting(queue'[c], Tail(s), 0)) /\ ~desynced'[c]
    <2> SUFFICES ASSUME conn[c] = "loaded"
                 PROVE  Follows(View(Host), View(c)', Waiting(queue'[c], Tail(s), 0)) /\ ~desynced'[c]
      OBVIOUS
    <2>1. Follows(View(Host), View(c), Waiting(queue[c], s, 0)) /\ ~desynced[c]
      BY <1>2 DEF ReplicaInv, FollowsHost, ChecksumsFit
    <2>2. Follows(View(Host), View(c), Waiting(queue[c], s, 0 + 1))
      BY <1>1, <1>2, <2>1, WaitingSkips
    <2>3. Follows(View(Host), View(c), Waiting(queue[c], Tail(s), 0))
      BY <1>1, <1>2, <2>2, WaitingMovesUp
    <2>4. View(c)' = View(c)
      BY <1>0 DEF View, Updating
    <2>5. QED
      BY <1>0, <2>1, <2>3, <2>4
  <1>10. QED
    BY <1>0, <1>1, <1>4, <1>5, <1>6, <1>7, <1>8, <1>9, HandledFollowed

LEMMA RelayedActionFollowed ==
  ASSUME Following, TypeOK', NEW c \in Client, HandleRelayedAction(c)
  PROVE  FollowInv'
  <1> USE DEF session
  <1> DEFINE s == toClient[c]
             p == Head(s)
             e == [tick |-> p.tick, uid |-> nextUid[c], cmd |-> p.cmd]
  <1>0. /\ ClientReceives(c, "action")
        /\ queue' = [queue EXCEPT ![c] = @ \union {e}] /\ nextUid' = [nextUid EXCEPT ![c] = @ + 1]
        /\ UNCHANGED <<pc, left, tick, paused, saving, log, conn, serverTick, tickData, desynced, toHost, unsent>>
    BY DEF HandleRelayedAction, Enqueue
  <1>1. /\ s \in Seq(ClientPacket) /\ s # <<>> /\ p \in ClientPacket /\ p.type = "action" /\ p = s[1] /\ 1 \in 1 .. Len(s)
        /\ conn[c] # "none" /\ \A d \in Client \ {c} : toClient'[d] = toClient[d]
        /\ c \in Machine /\ pc[c] = "poll" /\ Host \in Machine /\ c # Host /\ toClient'[c] = Tail(s)
        /\ \A i \in 1 .. Len(Tail(s)) : i \in Nat /\ i + 1 \in 1 .. Len(s) /\ Tail(s)[i] = s[i + 1]
    BY <1>0, HandledForms
  <1>2. /\ ReplicaInv(c) /\ Once /\ toHost[c] \in Seq(HostPacket) /\ queue[c] \in SUBSET QueuedAction
        /\ ChannelInv(c) /\ nextUid[c] \in Nat /\ QueueInOrder(c)
    BY FollowingFacts, SideTypes DEF Safe, LockstepInv, ReplicaInv
  <1>3. /\ queue'[c] = queue[c] \union {e} /\ nextUid'[c] = nextUid[c] + 1
        /\ \A m \in Machine \ {c} : queue'[m] = queue[m] /\ nextUid'[m] = nextUid[m]
    BY <1>0, <1>1, FollowingFacts DEF TypeOK
  <1>4. ActsAlone(c)
    <2>1. \A m \in Machine : ~saving[m]
      BY FollowingFacts DEF HostFrame
    <2>2. \A d \in Client \ {c} : d \in Machine \ {c}
      BY DEF Machine
    <2>3. QED
      BY <1>0, <1>1, <1>3, <2>1, <2>2 DEF ActsAlone
  <1>5. Joining(Tail(s), toHost'[c]) /\ (conn[c] = "loaded" => NoJoining(Tail(s)) /\ NoRequest(toHost'[c]))
    <2>1. Joining(s, toHost[c]) /\ (conn[c] = "loaded" => NoJoining(s) /\ NoRequest(toHost[c]))
      BY <1>2 DEF ReplicaInv, JoinsOnce
    <2>2. QED
      BY <1>0, <1>1, <1>2, <2>1, JoiningTail
  <1>6. /\ e \in QueuedAction /\ e.tick = p.tick /\ e.cmd = p.cmd /\ e.uid = nextUid[c]
        /\ \A x \in queue[c] : x.uid < e.uid /\ x.tick <= e.tick
    BY <1>1, <1>2, PacketFields DEF QueuedAction, QueueInOrder
  <1>7. QueueInOrder(c)'
    <2>1. e.tick <= tick[Host] /\ tick'[Host] = tick[Host]
      BY <1>0, <1>1, <1>2 DEF ChannelInv, Within, Ticked
    <2>2. \A i \in 1 .. Len(Tail(s)) : Tail(s)[i].type = "action" => e.tick <= Tail(s)[i].tick
      <3>1. \A i \in 1 .. Len(Tail(s)) : 1 < i + 1
        BY <1>1
      <3>2. QED
        BY <1>1, <1>2, <3>1 DEF ChannelInv, InTickOrder, Ticked
    <2>3. /\ \A x \in queue[c] : x.uid \in Nat /\ x.uid < nextUid[c] /\ x.tick <= tick[Host]
          /\ \A x, y \in queue[c] : x.uid = y.uid => x = y
          /\ \A x \in queue[c] : \A i \in 1 .. Len(Tail(s)) : Tail(s)[i].type = "action" => x.tick <= Tail(s)[i].tick
      BY <1>1, <1>2 DEF QueueInOrder, QueuedAction
    <2> HIDE DEF e, p, s
    <2>4. \A x \in queue'[c] : x.uid < nextUid'[c] /\ x.tick <= tick'[Host]
      BY <1>2, <1>3, <1>6, <2>1, <2>3
    <2>5. \A x, y \in queue'[c] : x.uid = y.uid => x = y
      BY <1>2, <1>3, <1>6, <2>3
    <2>6. \A x \in queue'[c] : \A i \in 1 .. Len(toClient'[c]) :
            toClient'[c][i].type = "action" => x.tick <= toClient'[c][i].tick
      BY <1>1, <1>3, <2>2, <2>3
    <2>7. QED
      BY <2>4, <2>5, <2>6 DEF QueueInOrder
  <1>8. \A d \in tickData'[c] : Rightful(View(Host), d)
    BY <1>0, <1>2 DEF ReplicaInv, ChecksumsFit
  <1>9. OnceSent(toHost'[c])
    BY <1>0, <1>2 DEF Once
  <1>10. conn[c] = "loaded" => Follows(View(Host), View(c)', Waiting(queue'[c], Tail(s), 0)) /\ ~desynced'[c]
    <2> SUFFICES ASSUME conn[c] = "loaded"
                 PROVE  Follows(View(Host), View(c)', Waiting(queue'[c], Tail(s), 0)) /\ ~desynced'[c]
      OBVIOUS
    <2> DEFINE q == queue[c]
    <2>1. Follows(View(Host), View(c), Waiting(q, s, 0)) /\ ~desynced[c]
      BY <1>2 DEF ReplicaInv, FollowsHost, ChecksumsFit
    <2>2. View(c)' = View(c)
      BY <1>0 DEF View, Updating
    <2>3. q \in SUBSET QueuedAction /\ q \union {e} \in SUBSET QueuedAction /\ queue'[c] = q \union {e}
      BY <1>2, <1>3, <1>6
    <2>4. \A x \in q : x.uid < e.uid /\ x.tick <= e.tick
      BY <1>6
    <2>5. s \in Seq(ClientPacket) /\ s # <<>> /\ Head(s).type = "action" /\ e.tick = Head(s).tick /\ e.cmd = Head(s).cmd
      BY <1>1
    <2> HIDE DEF q, s, e, p
    <2>6. \A h, r : Follows(h, r, Waiting(q, s, 0)) => Follows(h, r, Waiting(q \union {e}, s, 1))
      BY <1>6, <2>3, <2>4, <2>5, WaitingQueued
    <2>7. Follows(View(Host), View(c), Waiting(q \union {e}, s, 0 + 1))
      BY <2>1, <2>6
    <2>8. Follows(View(Host), View(c), Waiting(q \union {e}, Tail(s), 0))
      BY <2>3, <2>5, <2>7, WaitingMovesUp
    <2>9. QED
      BY <1>0, <2>1, <2>2, <2>3, <2>8
  <1>11. QED
    BY <1>0, <1>1, <1>3, <1>4, <1>5, <1>7, <1>8, <1>9, <1>10, HandledFollowed

-----------------------------------------------------------------------------
(***************************************************************************)
(* The clients follow the host in every step.                              *)
(***************************************************************************)
LEMMA FollowInit == Init => FollowInv
  <1> SUFFICES ASSUME Init PROVE FollowInv
    OBVIOUS
  <1>0. TypeOK
    BY TypeInit
  <1>1. /\ \A m \in Machine : pc[m] = "frame" /\ left[m] = 0 /\ tick[m] = 0 /\ paused[m] = FALSE
                              /\ saving[m] = FALSE /\ log[m] = <<>> /\ queue[m] = {} /\ nextUid[m] = 0
        /\ \A c \in Client : conn[c] = "none" /\ tickData[c] = {} /\ toClient[c] = <<>> /\ toHost[c] = <<>>
    BY DEF Init
  <1>2. Host \in Machine /\ \A c \in Client : c \in Machine
    BY DEF Machine
  <1>3. Steps(View(Host)) = {} /\ ~View(Host).paused
    BY <1>1, <1>2 DEF Steps, View
  <1>4. HostLog(View(Host)) /\ HostFrame
    BY <1>1, <1>2, <1>3 DEF HostLog, HostFrame, Idling
  <1>5. Once
    BY <1>1, <1>2, <1>3 DEF Once, Sent, Holds, OnceSent, Asked, Done
  <1>6. ASSUME NEW c \in Client PROVE ReplicaInv(c)
    <2>1. FollowsHost(c) /\ ChecksumsFit(c) /\ QueueInOrder(c)
      BY <1>1, <1>2 DEF FollowsHost, ChecksumsFit, QueueInOrder
    <2>2. Joining(toClient[c], toHost[c])
      BY <1>1 DEF Joining, NoRequest
    <2>3. QED
      BY <1>1, <2>1, <2>2 DEF ReplicaInv, JoinsOnce
  <1>7. QED
    BY <1>4, <1>5, <1>6 DEF FollowInv

LEMMA StillFollowed ==
  ASSUME Following, TypeOK', UNCHANGED vars
  PROVE  FollowInv'
  <1> USE DEF vars, simulation, session, network
  <1>1. View(Host)' = View(Host)
    BY DEF View, Updating
  <1>2. HostKeeps
    BY <1>1, FollowingFacts, SameHostKeeps
  <1>3. Once'
    BY <1>1, FollowingFacts, OnceStays
  <1>4. HostLog(View(Host))'
    BY <1>1, FollowingFacts DEF HostLog, Steps, LogicAt, RunAt, Updated
  <1>5. HostFrame'
    BY FollowingFacts DEF HostFrame, Idling, Connected
  <1>6. ASSUME NEW c \in Client PROVE ReplicaInv(c)'
    <2>1. ReplicaInv(c)
      BY FollowingFacts
    <2>2. OwnSame(c) /\ toClient'[c] = toClient[c]
      BY <2>1, OwnStill
    <2>3. QED
      BY <1>2, <2>1, <2>2, FollowingFacts, ReplicaStill
  <1>7. QED
    BY <1>3, <1>4, <1>5, <1>6, FollowInvFrom

LEMMA FollowStep ==
  ASSUME ~MapAlone, PausedOnce, Following, TypeOK', [Next]_vars
  PROVE  FollowInv'
  <1>1. CASE UNCHANGED vars
    BY <1>1, StillFollowed
  <1>2. ASSUME Frame(Host) \/ UpdateHost PROVE FollowInv'
    BY <1>2, HostBeginsFrame, HostEndsPoll, HostExecutes, HostEndsQueue, HostUpdatesFollowed DEF Frame
  <1>3. ASSUME NEW c \in Client, Frame(c) \/ ClientUpdate(c) PROVE FollowInv'
    <2>1. CASE BeginFrame(c) \/ Execute(c)
      BY <2>1, ClientBeginsFrame, ClientExecuteFollowed
    <2>2. CASE EndIdlePoll(c) \/ EndQueue(c) \/ UpdateOldPark(c) \/ SkipUpdate(c)
      BY <2>2, ClientPasses, ClientEndsUpdate
    <2>3. CASE UpdateClient(c)
      BY <2>3, ClientUpdateFollowed
    <2>4. QED
      BY <1>3, <2>1, <2>2, <2>3 DEF Frame, ClientUpdate
  <1>4. ASSUME NEW c \in Client, ClientHandles(c) PROVE FollowInv'
    BY <1>4, ObjectsListFollowed, BeginMapFollowed, MapFollowed, TickFollowed, RelayedActionFollowed
       DEF ClientHandles
  <1>5. ASSUME NEW c \in Client, HostHandles(c) \/ Join(c) \/ Leave(c) PROVE FollowInv'
    BY <1>5, MapRequestFollowed, ClientActionFollowed, JoinFollowed, LeaveFollowed DEF HostHandles
  <1>6. ASSUME NEW cmd \in Command, HostIssues(cmd) \/ \E c \in Client : ClientIssues(c, cmd) PROVE FollowInv'
    BY <1>6, HostIssueFollowed, ClientIssueFollowed
  <1>7. \A m \in Machine : ~ToggleTrackSave(m)
    BY DEF PausedOnce, ToggleTrackSave
  <1>8. CASE Next
    BY <1>2, <1>3, <1>4, <1>5, <1>6, <1>7, <1>8 DEF Next, Machine
  <1>9. QED
    BY <1>1, <1>8

LEMMA FollowingAlways ==
  ASSUME ~MapAlone, PausedOnce
  PROVE  Spec => []Following
  <1>1. Init => FollowInv
    BY FollowInit
  <1>2. Following /\ TypeOK' /\ [Next]_vars => FollowInv'
    BY FollowStep
  <1>3. TypeOK /\ LockstepInv /\ FollowInv <=> Following
    BY DEF Following, Safe
  <1>4. Spec => []TypeOK
    BY TypeCorrect
  <1>5. Spec => []LockstepInv
    BY SessionIsConsistent
  <1>6. QED
    BY <1>1, <1>2, <1>3, <1>4, <1>5, PTL DEF Spec

(***************************************************************************)
(* Lockstep: in a session that is paused at most once and never resumed,   *)
(* where no window holds one machine's simulation (SetupScenerySelection), *)
(* whatever a client has simulated since it loaded the map is what the     *)
(* host simulated first, for any number of clients and actions, any speed  *)
(* and any lag.                                                            *)
(***************************************************************************)
THEOREM ClientsFollow ==
  ASSUME ~MapAlone, PausedOnce
  PROVE  Spec => []ReplicaFollowsServer
  <1>1. Following => ReplicaFollowsServer
    <2> SUFFICES ASSUME Following, NEW c \in Client, conn[c] = "loaded"
                 PROVE  Sim!Prefix(log[c], log[Host])
      BY DEF ReplicaFollowsServer, Sim!EveryReplicaIsAPrefix, Loaded
    <2>1. Follows(View(Host), View(c), Waiting(queue[c], toClient[c], 0)) /\ View(Host).log = log[Host]
      BY FollowingFacts DEF ReplicaInv, FollowsHost
    <2>2. Prefix(View(c).log, View(Host).log) /\ View(c).log = log[c]
      BY <2>1 DEF Follows, View
    <2>3. QED
      BY <2>1, <2>2 DEF Prefix
  <1>2. QED
    BY <1>1, FollowingAlways, PTL

(***************************************************************************)
(* CheckSRAND raises no false alarm in such a session: a client that has   *)
(* loaded the map never takes itself for desynchronised.                   *)
(***************************************************************************)
THEOREM AlarmsAreTrue ==
  ASSUME ~MapAlone, PausedOnce
  PROVE  Spec => []NoFalseDesync
  <1>1. Following => NoFalseDesync
    BY FollowingFacts DEF NoFalseDesync, Loaded, ReplicaInv, ChecksumsFit
  <1>2. QED
    BY <1>1, FollowingAlways, PTL

-----------------------------------------------------------------------------
(***************************************************************************)
(* The steps of the session as steps of the abstract one.                  *)
(***************************************************************************)
Abstract == [Sim!SimNext]_(Sim!simVars)

LEMMA AbstractRests ==
  ASSUME log' = log, Loaded' = Loaded
  PROVE  Abstract
  BY DEF Abstract, Sim!simVars

LEMMA AbstractAdvances ==
  ASSUME TypeOK, TypeOK', NEW x \in Entry, log' = [log EXCEPT ![Host] = Append(@, x)], conn' = conn
  PROVE  Abstract
  <1>1. Host \in Machine /\ \A c \in Client : c \in Machine /\ c # Host
    BY MachineAssumption DEF Machine
  <1>2. log'[Host] = Append(log[Host], x) /\ \A c \in Client : log'[c] = log[c]
    BY <1>1 DEF TypeOK
  <1>3. log[Host] \in Seq(Entry) /\ log'[Host] \in Seq(Entry)
    BY <1>1 DEF TypeOK
  <1>4. Len(log'[Host]) = Len(log[Host]) + 1 /\ Sim!Prefix(log[Host], log'[Host])
    BY <1>2, <1>3 DEF Sim!Prefix
  <1>5. Loaded' = Loaded /\ [c \in Client |-> log'[c]] = [c \in Client |-> log[c]]
    BY <1>2 DEF Loaded
  <1>6. Sim!Advance
    BY <1>3, <1>4, <1>5 DEF Sim!Advance
  <1>7. QED
    BY <1>6 DEF Abstract, Sim!SimNext

LEMMA AbstractFollows ==
  ASSUME TypeOK, NEW c \in Client, HostsNext(c), conn[c] = "loaded", conn' = conn
  PROVE  Abstract
  <1>1. Host \in Machine /\ c # Host /\ c \in Machine /\ \A d \in Client : d \in Machine
    BY MachineAssumption DEF Machine
  <1>2. /\ log'[Host] = log[Host] /\ Len(log[c]) < Len(log[Host])
        /\ log'[c] = Append(log[c], log[Host][Len(log[c]) + 1])
        /\ \A d \in Client \ {c} : log'[d] = log[d]
    BY <1>1 DEF TypeOK, HostsNext
  <1>3. c \in Loaded /\ Loaded' = Loaded
    BY DEF Loaded
  <1>4. [d \in Client |-> log'[d]]
          = [[d \in Client |-> log[d]] EXCEPT ![c] = Append(@, log[Host][Len(@) + 1])]
    BY <1>2
  <1>5. Sim!Follow(c)
    BY <1>2, <1>3, <1>4 DEF Sim!Follow
  <1>6. QED
    BY <1>5 DEF Abstract, Sim!SimNext

LEMMA AbstractLoads ==
  ASSUME Following, TypeOK', NEW c \in Client, HandleMap(c)
  PROVE  Abstract
  <1> DEFINE m == Head(toClient[c])
             h == log[Host]
  <1>1. Host \in Machine /\ c # Host /\ c \in Machine /\ TypeOK /\ \A d \in Client : d \in Machine
    BY FollowingFacts, SideTypes
  <1>2. log' = [log EXCEPT ![c] = m.log] /\ conn' = [conn EXCEPT ![c] = "loaded"]
    BY DEF HandleMap
  <1>3. log'[Host] = h /\ log'[c] = m.log /\ \A d \in Client \ {c} : log'[d] = log[d]
    <2>1. log \in [Machine -> Seq(Entry)]
      BY <1>1 DEF TypeOK
    <2> HIDE DEF m
    <2>2. QED
      BY <1>1, <1>2, <2>1
  <1>4. Loaded' = Loaded \union {c}
    <2>1. conn'[c] = "loaded" /\ \A d \in Client \ {c} : conn'[d] = conn[d]
      BY <1>1, <1>2 DEF TypeOK
    <2>2. QED
      BY <2>1 DEF Loaded
  <1>5. Sim!Prefix(log'[c], h) /\ h \in Seq(Entry) /\ log'[c] \in Seq(Entry)
    <2>1. Follows(View(Host), View(c)', Waiting({}, toClient[c], 1))
      BY MapLoaded
    <2>2. View(Host).log = h /\ View(c)'.log = log'[c]
      BY <1>1, FollowingFacts, ClientView
    <2>3. Prefix(View(c)'.log, View(Host).log)
      BY <2>1 DEF Follows
    <2>4. h \in Seq(Entry) /\ log'[c] \in Seq(Entry)
      BY <1>1 DEF TypeOK
    <2>5. QED
      BY <2>2, <2>3, <2>4 DEF Prefix
  <1> DEFINE n == Len(log'[c])
  <1>6. n \in 0 .. Len(h) /\ log'[c] = SubSeq(h, 1, n)
    BY <1>5 DEF Sim!Prefix
  <1>7. [d \in Client |-> log'[d]] = [[d \in Client |-> log[d]] EXCEPT ![c] = SubSeq(h, 1, n)]
    BY <1>3, <1>6
  <1> HIDE DEF n
  <1>8. Sim!Load(c)
    BY <1>3, <1>4, <1>6, <1>7 DEF Sim!Load
  <1>9. QED
    BY <1>8 DEF Abstract, Sim!SimNext

LEMMA AbstractDrops ==
  ASSUME TypeOK, NEW c \in Client, Leave(c)
  PROVE  Abstract
  <1>1. Host \in Machine /\ c # Host /\ c \in Machine /\ \A d \in Client : d \in Machine
    BY MachineAssumption DEF Machine
  <1>2. log' = [log EXCEPT ![c] = <<>>] /\ conn' = [conn EXCEPT ![c] = "none"]
    BY DEF Leave
  <1>3. log'[Host] = log[Host] /\ log'[c] = <<>> /\ \A d \in Client \ {c} : log'[d] = log[d]
    BY <1>1, <1>2 DEF TypeOK
  <1>4. Loaded' = Loaded \ {c}
    <2>1. conn'[c] = "none" /\ \A d \in Client \ {c} : conn'[d] = conn[d]
      BY <1>1, <1>2 DEF TypeOK
    <2>2. QED
      BY <2>1 DEF Loaded
  <1>5. [d \in Client |-> log'[d]] = [[d \in Client |-> log[d]] EXCEPT ![c] = <<>>]
    BY <1>3
  <1>6. Sim!Drop(c)
    BY <1>3, <1>4, <1>5 DEF Sim!Drop
  <1>7. QED
    BY <1>6 DEF Abstract, Sim!SimNext

LEMMA StepIsAbstract ==
  ASSUME ~MapAlone, PausedOnce, Following, TypeOK', [Next]_vars
  PROVE  Abstract
  <1> USE DEF simulation, session, network
  <1>0. TypeOK /\ Host \in Machine
    BY FollowingFacts
  <1>1. CASE UNCHANGED vars
    BY <1>1, AbstractRests DEF vars, Loaded
  <1>2. ASSUME NEW m \in Machine, BeginFrame(m) \/ EndIdlePoll(m) \/ EndQueue(m) PROVE Abstract
    BY <1>2, AbstractRests DEF BeginFrame, EndIdlePoll, EndQueue, Loaded
  <1>3. ASSUME UpdateHost PROVE Abstract
    <2>1. Logic(tick[Host]) \in Entry
      BY <1>0 DEF TypeOK, Entry, Logic
    <2>2. QED
      BY <1>0, <1>3, <2>1, AbstractAdvances DEF UpdateHost
  <1>4. ASSUME Execute(Host) PROVE Abstract
    <2>1. PICK e \in queue[Host] :
            log' = log \/ log' = [log EXCEPT ![Host] = Append(@, Run(e.cmd))]
      BY <1>4 DEF Execute
    <2>2. conn' = conn
      BY <1>4 DEF Execute
    <2>3. Run(e.cmd) \in Entry
      BY <1>0 DEF TypeOK, Entry, Run, QueuedAction
    <2>4. QED
      BY <1>0, <2>1, <2>2, <2>3, AbstractRests, AbstractAdvances DEF Loaded
  <1>5. ASSUME NEW c \in Client, Execute(c) PROVE Abstract
    <2>1. conn[c] = "loaded" /\ (log' = log \/ HostsNext(c))
      BY <1>5, ClientExecuteFacts
    <2>2. conn' = conn
      BY <1>5 DEF Execute
    <2>3. QED
      BY <1>0, <2>1, <2>2, AbstractRests, AbstractFollows DEF Loaded
  <1>6. ASSUME NEW c \in Client, ClientUpdate(c) PROVE Abstract
    <2>1. CASE UpdateClient(c)
      <3>1. conn[c] = "loaded" /\ HostsNext(c)
        BY <2>1, ClientUpdateFacts
      <3>2. QED
        BY <1>0, <2>1, <3>1, AbstractFollows DEF UpdateClient
    <2>2. CASE UpdateOldPark(c) \/ SkipUpdate(c)
      BY <2>2, AbstractRests DEF UpdateOldPark, SkipUpdate, Loaded
    <2>3. QED
      BY <1>6, <2>1, <2>2 DEF ClientUpdate
  <1>7. ASSUME NEW c \in Client, ClientHandles(c) PROVE Abstract
    <2>1. CASE HandleMap(c)
      BY <2>1, AbstractLoads
    <2>2. CASE HandleObjectsList(c) \/ HandleBeginMap(c) \/ HandleTick(c) \/ HandleRelayedAction(c)
      BY <2>2, AbstractRests DEF HandleObjectsList, HandleBeginMap, HandleTick, HandleRelayedAction, Loaded
    <2>3. QED
      BY <1>7, <2>1, <2>2 DEF ClientHandles
  <1>8. ASSUME NEW c \in Client, HostHandles(c) PROVE Abstract
    BY <1>8, AbstractRests DEF HostHandles, HandleMapRequest, HandleClientAction, Loaded
  <1>9. ASSUME NEW cmd \in Command, HostIssues(cmd) \/ \E c \in Client : ClientIssues(c, cmd) PROVE Abstract
    BY <1>9, AbstractRests DEF HostIssues, ClientIssues, Loaded
  <1>10. ASSUME NEW c \in Client, Join(c) \/ Leave(c) PROVE Abstract
    <2>1. CASE Leave(c)
      BY <1>0, <2>1, AbstractDrops
    <2>2. CASE Join(c)
      <3>1. log' = log /\ conn[c] = "none" /\ conn' = [conn EXCEPT ![c] = "joining"]
        BY <2>2 DEF Join
      <3>2. Loaded' = Loaded
        BY <1>0, <3>1 DEF Loaded, TypeOK
      <3>3. QED
        BY <3>1, <3>2, AbstractRests
    <2>3. QED
      BY <1>10, <2>1, <2>2
  <1>11. \A m \in Machine : ~ToggleTrackSave(m)
    BY DEF PausedOnce, ToggleTrackSave
  <1>12. ASSUME NEW m \in Machine, Frame(m) PROVE Abstract
    BY <1>2, <1>4, <1>5, <1>12 DEF Frame, Machine
  <1>13. CASE Next
    BY <1>3, <1>6, <1>7, <1>8, <1>9, <1>10, <1>11, <1>12, <1>13 DEF Next
  <1>14. QED
    BY <1>1, <1>13

(***************************************************************************)
(* Such a session implements the abstract one: the host's updates and      *)
(* executed actions advance the server, a client's update or action is the *)
(* step that the host took there, the map is a state that the host was in, *)
(* and everything else leaves every simulation alone.                      *)
(***************************************************************************)
THEOREM SessionImplementsSimLog ==
  ASSUME ~MapAlone, PausedOnce
  PROVE  Spec => SimSpec
  <1>1. Init => Sim!SimInit
    BY DEF Init, Sim!SimInit, Loaded, Machine
  <1>2. Following /\ TypeOK' /\ [Next]_vars => [Sim!SimNext]_(Sim!simVars)
    BY StepIsAbstract DEF Abstract
  <1>3. Spec => []Following
    BY FollowingAlways
  <1>4. Spec => []TypeOK
    BY TypeCorrect
  <1>5. QED
    BY <1>1, <1>2, <1>3, <1>4, PTL DEF Spec, SimSpec, Sim!SimSpec

=============================================================================
