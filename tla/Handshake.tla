------------------------------ MODULE Handshake -----------------------------
(***************************************************************************)
(* How a connection becomes a player of a session, and how it ends         *)
(* (network/NetworkBase.cpp, network/NetworkConnection.cpp).               *)
(*                                                                         *)
(* A client asks for a token, signs it, is admitted or refused or asked    *)
(* for the password, learns its player id, asks for the map and loads it.  *)
(* Both ends keep an authStatus of their own: queuePacket drops what needs *)
(* authentication while the sender's is not ok, ProcessPacket while the    *)
(* receiver's is not.  Either end may lose or leave the connection at any  *)
(* moment.                                                                 *)
(*                                                                         *)
(* down[c] and up[c] are all that is on the way: outbound buffer, pipe and *)
(* inbound buffer. How much of it has arrived does not show, as a packet   *)
(* may always be read later; what is lost with a connection is what its    *)
(* receiver gives up before reading. Packets of the session proper (ticks, *)
(* actions, events, lists, groups, chat) differ in nothing that matters    *)
(* here and are all "session"; BEGINMAP goes with its MAP, the scripts     *)
(* with the OBJECTSLIST before them. GAMEINFO, which a client asks for     *)
(* when it is admitted, changes nothing here and is left out; pings and    *)
(* heartbeats only put off the timeout, which may strike at any moment.    *)
(***************************************************************************)
EXTENDS Naturals, Sequences, FiniteSets

CONSTANTS
  Client,         \* machines that may connect, each of them once
  NumIds,         \* ids there are for players (255 in the code)
  MaxPlayers,     \* network.maxplayers
  HasPassword,    \* the server has a password
  Login,          \* the credentials clients come with
  MaxSends,       \* bound: packets of the session anybody sends on his own account
  MaxTroubles     \* bound: connections broken, kicked or closed of one's own accord

Id == 0 .. NumIds - 1
HostId == 0
NoPlayer == NumIds

KeyVerdict == {"verified", "unknownKeyDisallowed", "verificationFailure"}
Refusal == (KeyVerdict \ {"verified"}) \union {"badVersion", "badName", "badPassword", "full"}
Auth == {"none", "requested", "requirePassword", "ok"} \union KeyVerdict \union Refusal
Password == {"empty", "right", "wrong"}

ASSUME HandshakeAssumption ==
  /\ IsFiniteSet(Client)
  /\ NumIds \in Nat \ {0} /\ MaxPlayers \in Nat
  /\ HasPassword \in BOOLEAN
  /\ Login \subseteq [key : KeyVerdict, version : BOOLEAN, name : BOOLEAN, passwordless : BOOLEAN,
                    password : Password]
  /\ MaxSends \in Nat /\ MaxTroubles \in Nat

VARIABLES
  host,      \* the player of the host is "visible", "invisible" or, with the server, "gone"
  conns,     \* client_connection_list
  removed,   \* clients whose connection has been in the list and is gone
  sAuth,     \* authStatus of each client's connection on the server
  sStop,     \* shouldDisconnect there
  player,    \* id of its player, or NoPlayer
  phase,     \* what each client is doing
  login,     \* its credentials
  cAuth,     \* authStatus of its connection to the server
  cStop,     \* shouldDisconnect there
  cId,       \* player_id
  dialog,    \* its password dialog is open
  mapLoaded, \* _clientMapLoaded
  down, up,  \* packets to and from each client
  sends, troubles

serverVars == <<host, conns, removed, sAuth, sStop, player>>
clientVars == <<phase, login, cAuth, cStop, cId, dialog, mapLoaded>>
boundVars == <<sends, troubles>>
hsVars == <<serverVars, clientVars, down, up, boundVars>>

Hosting == host # "gone"
Listed == {conns[i] : i \in DOMAIN conns}

\* Packets.
Down(cmd) == [cmd |-> cmd, status |-> "none", id |-> 0]
Up(cmd) == [cmd |-> cmd, password |-> "empty"]
AuthReply(status, id) == [cmd |-> "auth", status |-> status, id |-> id]
AuthRequest(password) == [cmd |-> "auth", password |-> password]
DownPacket ==
  [cmd : {"token", "auth", "objectsList", "map", "session"}, status : Auth, id : Id]
UpPacket == [cmd : {"token", "auth", "mapRequest", "session"}, password : Password]

NeedsAuth(packet) == packet.cmd \in {"map", "session"}

\* Mutant: queuePacket does not look at authStatus.
QueueAny(queue, auth, packet) == Append(queue, packet)

\* queuePacket
Queue(queue, auth, packet) ==
  IF auth = "ok" \/ ~NeedsAuth(packet) THEN Append(queue, packet) ELSE queue

NobodysLogin ==
  [key |-> "verified", version |-> TRUE, name |-> TRUE, passwordless |-> FALSE, password |-> "empty"]

Init ==
  /\ host \in {"visible", "invisible"} /\ conns = <<>> /\ removed = {}
  /\ sAuth = [c \in Client |-> "none"] /\ sStop = [c \in Client |-> FALSE]
  /\ player = [c \in Client |-> NoPlayer]
  /\ phase = [c \in Client |-> "away"]
  /\ login = [c \in Client |-> NobodysLogin]
  /\ cAuth = [c \in Client |-> "none"] /\ cStop = [c \in Client |-> FALSE]
  /\ cId = [c \in Client |-> 0]
  /\ dialog = [c \in Client |-> FALSE] /\ mapLoaded = [c \in Client |-> FALSE]
  /\ down = [c \in Client |-> <<>>] /\ up = [c \in Client |-> <<>>]
  /\ sends = 0 /\ troubles = 0

-----------------------------------------------------------------------------
(* The server reads a packet of a connection. *)

\* A packet is there to be read from a connection that is still valid.
ServerHas(c, cmd) ==
  /\ Hosting /\ c \in Listed /\ ~sStop[c]
  /\ up[c] # <<>> /\ Head(up[c]).cmd = cmd

ServerReads(c) == up' = [up EXCEPT ![c] = Tail(@)]

ServerHandleToken(c) ==
  /\ ServerHas(c, "token") /\ ServerReads(c)
  /\ down' = [down EXCEPT ![c] = Queue(@, sAuth[c], Down("token"))]
  /\ UNCHANGED <<serverVars, clientVars, boundVars>>

NumVisiblePlayers ==
  Cardinality({c \in Client : player[c] # NoPlayer}) + (IF host = "visible" THEN 1 ELSE 0)

\* What the server thinks of credentials before it counts its players.
Verdict(l, password) ==
  LET excused == l.passwordless /\ l.key = "verified"
      asked == password = "empty" /\ HasPassword
      wrong == password # "empty" /\ ~(HasPassword /\ password = "right")
  IN CASE ~l.version -> "badVersion"
       [] l.version /\ ~l.name -> "badName"
       [] l.version /\ l.name /\ ~excused /\ asked -> "requirePassword"
       [] l.version /\ l.name /\ ~excused /\ wrong -> "badPassword"
       [] OTHER -> l.key

\* AddPlayer takes the lowest id that is free, if there is one.
FreeIds == Id \ ({HostId} \union {player[c] : c \in Client})
NewId(id) ==
  \/ id \in FreeIds /\ \A k \in FreeIds : id <= k
  \/ FreeIds = {} /\ id = NoPlayer

\* Mutant: the id of a player that is not there is sent as it is.
SendAuthAnyId(queue, status, id) == Append(queue, AuthReply(status, id))

\* ServerSendAuth
SendAuth(queue, status, id) == Append(queue, AuthReply(status, IF id = NoPlayer THEN 0 ELSE id))

\* Mutant: a second request for authentication is ignored like one that follows
\* a successful one.
JudgeOnce(c) == sAuth[c] = "none"

\* ServerHandleAuth listens as long as the client has not been admitted.
Judges(c) == sAuth[c] # "ok"

\* Mutant: the reply is written before the player is added.
AdmitAfterReply(c) ==
  \E id \in Id \union {NoPlayer} :
    /\ NewId(id)
    /\ player' = [player EXCEPT ![c] = id]
    /\ sAuth' = [sAuth EXCEPT ![c] = "ok"]
    /\ down' = [down EXCEPT ![c] =
         SendAuth(IF id = NoPlayer THEN @ ELSE Append(@, Down("objectsList")), "ok", NoPlayer)]
    /\ UNCHANGED sStop

\* ServerClientJoined, and the reply.
Admit(c) ==
  \E id \in Id \union {NoPlayer} :
    /\ NewId(id)
    /\ player' = [player EXCEPT ![c] = id]
    /\ sAuth' = [sAuth EXCEPT ![c] = "ok"]
    /\ down' = [down EXCEPT ![c] =
         SendAuth(IF id = NoPlayer THEN @ ELSE Append(@, Down("objectsList")), "ok", id)]
    /\ UNCHANGED sStop

\* A refused connection ends; one that lacks the password may try again.
Refuse(c, status) ==
  /\ sAuth' = [sAuth EXCEPT ![c] = status]
  /\ sStop' = [sStop EXCEPT ![c] = status # "requirePassword"]
  /\ down' = [down EXCEPT ![c] = SendAuth(@, status, player[c])]
  /\ UNCHANGED player

\* A plugin may deny whom the server would admit.
Judge(c) ==
  LET verdict == Verdict(login[c], Head(up[c]).password) IN
  \/ NumVisiblePlayers >= MaxPlayers /\ Refuse(c, "full")
  \/ NumVisiblePlayers < MaxPlayers /\ verdict # "verified" /\ Refuse(c, verdict)
  \/ NumVisiblePlayers < MaxPlayers /\ verdict = "verified"
       /\ (Admit(c) \/ Refuse(c, "verificationFailure"))

\* A client that has been admitted is not judged again.
ServerHandleAuth(c) ==
  /\ ServerHas(c, "auth") /\ ServerReads(c)
  /\ IF Judges(c) THEN Judge(c) ELSE UNCHANGED <<sAuth, sStop, player, down>>
  /\ UNCHANGED <<host, conns, removed, clientVars, boundVars>>

\* SendPacketToClients
Broadcast(d) == [c \in Client |-> IF c \in Listed THEN Queue(d[c], sAuth[c], Down("session")) ELSE d[c]]

\* The map goes to the client, the news to everybody, the groups to the client;
\* if the park cannot be saved the connection ends behind news and groups.
SendMap(c) ==
  \E saved \in BOOLEAN :
    LET mapped == IF saved THEN [down EXCEPT ![c] = Queue(@, sAuth[c], Down("map"))] ELSE down
        told == Broadcast(mapped)
    IN /\ down' = [told EXCEPT ![c] = Queue(@, sAuth[c], Down("session"))]
       /\ sStop' = [sStop EXCEPT ![c] = ~saved]

\* Whoever is no player gets none, and the connection ends.
ServerHandleMapRequest(c) ==
  /\ ServerHas(c, "mapRequest") /\ ServerReads(c)
  /\ IF player[c] # NoPlayer THEN SendMap(c)
     ELSE sStop' = [sStop EXCEPT ![c] = TRUE] /\ UNCHANGED down
  /\ UNCHANGED <<host, conns, removed, sAuth, player, clientVars, boundVars>>

\* A packet that needs authentication ends a connection that lacks it.
ServerHandleSession(c) ==
  /\ ServerHas(c, "session") /\ ServerReads(c)
  /\ sStop' = [sStop EXCEPT ![c] = sAuth[c] # "ok"]
  /\ UNCHANGED <<host, conns, removed, sAuth, player, clientVars, down, boundVars>>

ServerProcesses(c) ==
  \/ ServerHandleToken(c) \/ ServerHandleAuth(c)
  \/ ServerHandleMapRequest(c) \/ ServerHandleSession(c)

-----------------------------------------------------------------------------
(* The server and its list of connections. *)

Accept(c) ==
  /\ Hosting /\ phase[c] # "away" /\ c \notin Listed \union removed
  /\ conns' = Append(conns, c)
  /\ UNCHANGED <<host, removed, sAuth, sStop, player, clientVars, down, up, boundVars>>

\* What need not happen is counted.
Trouble(forced) ==
  \/ forced /\ UNCHANGED boundVars
  \/ /\ ~forced /\ troubles < MaxTroubles
     /\ troubles' = troubles + 1
     /\ UNCHANGED sends

\* The client has closed its end, the connection is broken, or nothing came for
\* 40 seconds.
ServerLosesClient(c) ==
  /\ Hosting /\ c \in Listed /\ ~sStop[c]
  /\ sStop' = [sStop EXCEPT ![c] = TRUE]
  /\ Trouble(phase[c] = "closed")
  /\ UNCHANGED <<host, conns, removed, sAuth, player, clientVars, down, up>>

\* A connection leaves the list and is destroyed, with its player and all that
\* it has buffered.
Erase(c) ==
  /\ \E i \in DOMAIN conns :
       /\ conns[i] = c
       /\ conns' = SubSeq(conns, 1, i - 1) \o SubSeq(conns, i + 1, Len(conns))
  /\ removed' = removed \union {c}
  /\ player' = [player EXCEPT ![c] = NoPlayer]
  /\ sAuth' = [sAuth EXCEPT ![c] = "none"]
  /\ sStop' = [sStop EXCEPT ![c] = FALSE]
  /\ up' = [up EXCEPT ![c] = <<>>]

\* Mutant: a connection stays in the list until its client has got everything.
DropDelivered(c) ==
  /\ Hosting /\ c \in Listed /\ sStop[c] /\ down[c] = <<>>
  /\ Erase(c)
  /\ UNCHANGED <<host, clientVars, down, boundVars>>

\* ProcessDisconnectedClients: the others hear of a player who leaves.
Drop(c) ==
  /\ Hosting /\ c \in Listed /\ sStop[c]
  /\ Erase(c)
  /\ down' = IF player[c] = NoPlayer THEN down ELSE [Broadcast(down) EXCEPT ![c] = down[c]]
  /\ UNCHANGED <<host, clientVars, boundVars>>

\* KickPlayer looks at the player of every connection up to the one it wants...
Before(c) == {conns[i] : i \in {k \in DOMAIN conns : \A m \in 1 .. k : conns[m] # c}}

Kick(c) ==
  /\ Hosting /\ c \in Listed /\ player[c] # NoPlayer /\ ~sStop[c]
  /\ \A d \in Before(c) : player[d] # NoPlayer
  /\ down' = [down EXCEPT ![c] = Queue(@, sAuth[c], Down("session"))]
  /\ sStop' = [sStop EXCEPT ![c] = TRUE]
  /\ Trouble(FALSE)
  /\ UNCHANGED <<host, conns, removed, sAuth, player, clientVars, up>>

Gone ==
  /\ host' = "gone" /\ conns' = <<>>
  /\ player' = [c \in Client |-> NoPlayer]
  /\ sAuth' = [c \in Client |-> "none"] /\ sStop' = [c \in Client |-> FALSE]
  /\ up' = [c \in Client |-> <<>>]
  /\ Trouble(FALSE)
  /\ UNCHANGED <<removed, clientVars, down>>

\* ...and one that has no player yet is the end of the host.
KickCrashes(c) ==
  /\ Hosting /\ c \in Listed /\ player[c] # NoPlayer
  /\ \E d \in Before(c) : player[d] = NoPlayer
  /\ Gone

HostCloses == Hosting /\ Gone

\* Ticks, actions, lists, chat: what the server sends without being asked.
HostSends ==
  /\ Hosting /\ sends < MaxSends
  /\ sends' = sends + 1
  /\ down' = Broadcast(down)
  /\ UNCHANGED <<serverVars, clientVars, up, troubles>>

-----------------------------------------------------------------------------
(* The clients. *)

\* BeginClient, and TickClient once the socket is connected.
Connect(c) ==
  /\ phase[c] = "away"
  /\ \E l \in Login : login' = [login EXCEPT ![c] = l]
  /\ phase' = [phase EXCEPT ![c] = "connected"]
  /\ cAuth' = [cAuth EXCEPT ![c] = "requested"]
  /\ up' = [up EXCEPT ![c] = Append(@, Up("token"))]
  /\ UNCHANGED <<serverVars, cStop, cId, dialog, mapLoaded, down, boundVars>>

ClientHas(c, cmd) == phase[c] = "connected" /\ down[c] # <<>> /\ Head(down[c]).cmd = cmd

\* Close: the connection goes with all that it has buffered.
Close(c) ==
  /\ phase' = [phase EXCEPT ![c] = "closed"]
  /\ cAuth' = [cAuth EXCEPT ![c] = "none"]
  /\ cStop' = [cStop EXCEPT ![c] = TRUE]
  /\ dialog' = [dialog EXCEPT ![c] = FALSE]
  /\ down' = [down EXCEPT ![c] = <<>>]
  /\ UNCHANGED up

ClientReads(c) == down' = [down EXCEPT ![c] = Tail(@)]

\* What the handler of a packet leaves: a packet to send, an authStatus, a dialog.
\* But behind one packet a connection that is no longer valid is closed.
Answer(c, packet) ==
  \/ /\ ~cStop[c]
     /\ up' = [up EXCEPT ![c] = Queue(@, cAuth[c], packet)]
     /\ ClientReads(c)
     /\ UNCHANGED <<phase, cAuth, cStop, dialog>>
  \/ cStop[c] /\ Close(c)

GoOn(c, auth, dialogOpens) ==
  \/ /\ ~cStop[c]
     /\ cAuth' = [cAuth EXCEPT ![c] = auth]
     /\ dialog' = [dialog EXCEPT ![c] = @ \/ dialogOpens]
     /\ ClientReads(c)
     /\ UNCHANGED <<phase, cStop, up>>
  \/ cStop[c] /\ Close(c)

\* The challenge is signed and sent back; without a key that can sign it, it is not.
ClientHandleToken(c) ==
  /\ ClientHas(c, "token")
  /\ Answer(c, AuthRequest(login[c].password)) \/ Close(c)
  /\ UNCHANGED <<serverVars, login, cId, mapLoaded, boundVars>>

ClientHandleAuth(c) ==
  /\ ClientHas(c, "auth")
  /\ cId' = [cId EXCEPT ![c] = Head(down[c]).id]
  /\ LET status == Head(down[c]).status IN
     \/ status \in {"ok", "requirePassword"} /\ GoOn(c, status, status = "requirePassword")
     \/ status \notin {"ok", "requirePassword"} /\ Close(c)
  /\ UNCHANGED <<serverVars, login, mapLoaded, boundVars>>

ClientHandleObjectsList(c) ==
  /\ ClientHas(c, "objectsList")
  /\ Answer(c, Up("mapRequest"))
  /\ UNCHANGED <<serverVars, login, cId, mapLoaded, boundVars>>

\* Until it is authenticated the client drops what needs authentication.
ClientHandleMap(c) ==
  /\ ClientHas(c, "map")
  /\ mapLoaded' = [mapLoaded EXCEPT ![c] = @ \/ cAuth[c] = "ok"]
  /\ GoOn(c, cAuth[c], FALSE)
  /\ UNCHANGED <<serverVars, login, cId, boundVars>>

ClientHandleSession(c) ==
  /\ ClientHas(c, "session")
  /\ GoOn(c, cAuth[c], FALSE)
  /\ UNCHANGED <<serverVars, login, cId, mapLoaded, boundVars>>

ClientProcesses(c) ==
  \/ ClientHandleToken(c) \/ ClientHandleAuth(c) \/ ClientHandleObjectsList(c)
  \/ ClientHandleMap(c) \/ ClientHandleSession(c)

\* The password dialog: SendPassword.
EnterPassword(c, password) ==
  /\ phase[c] = "connected" /\ dialog[c] /\ password # "empty"
  /\ dialog' = [dialog EXCEPT ![c] = FALSE]
  /\ cAuth' = [cAuth EXCEPT ![c] = "requested"]
  /\ up' = IF cStop[c] THEN up
            ELSE [up EXCEPT ![c] = Queue(@, "requested", AuthRequest(password))]
  /\ UNCHANGED <<serverVars, phase, login, cStop, cId, mapLoaded, down, boundVars>>

\* ShutdownClient
CancelDialog(c) ==
  /\ phase[c] = "connected" /\ dialog[c]
  /\ dialog' = [dialog EXCEPT ![c] = FALSE]
  /\ cStop' = [cStop EXCEPT ![c] = TRUE]
  /\ UNCHANGED <<serverVars, phase, login, cAuth, cId, mapLoaded, down, up, boundVars>>

\* Actions, chat: what a player sends.
ClientSends(c) ==
  /\ phase[c] = "connected" /\ ~cStop[c] /\ sends < MaxSends
  /\ sends' = sends + 1
  /\ up' = [up EXCEPT ![c] = Queue(@, cAuth[c], Up("session"))]
  /\ UNCHANGED <<serverVars, clientVars, down, troubles>>

\* The server has closed its end, or the connection is broken.  The client does
\* not close before it has read another packet.
ClientLosesServer(c) ==
  /\ phase[c] = "connected" /\ ~cStop[c]
  /\ cStop' = [cStop EXCEPT ![c] = TRUE]
  /\ Trouble(c \in removed \/ ~Hosting)
  /\ UNCHANGED <<serverVars, phase, login, cAuth, cId, dialog, mapLoaded, down, up>>

\* Nothing has arrived for 40 seconds, or the player closes the session.
ClientCloses(c) ==
  /\ phase[c] = "connected" /\ Close(c)
  /\ Trouble(cStop[c])
  /\ UNCHANGED <<serverVars, login, cId, mapLoaded>>

-----------------------------------------------------------------------------
Next ==
  \/ \E c \in Client :
       \/ Accept(c) \/ ServerProcesses(c) \/ ServerLosesClient(c) \/ Drop(c)
       \/ Kick(c) \/ KickCrashes(c)
       \/ Connect(c) \/ ClientProcesses(c) \/ CancelDialog(c) \/ ClientSends(c)
       \/ ClientLosesServer(c) \/ ClientCloses(c)
       \/ \E password \in Password : EnterPassword(c, password)
  \/ HostCloses \/ HostSends

\* Frames go on at both ends: packets are read, connections accepted and dropped.
\* An end that is gone is noticed, and silence ends at the timeout.  Nobody has to
\* connect, to kick, to close or to answer a dialog.
Fairness ==
  \A c \in Client :
    /\ WF_hsVars(Accept(c)) /\ WF_hsVars(ServerProcesses(c)) /\ WF_hsVars(Drop(c))
    /\ WF_hsVars(phase[c] = "closed" /\ ServerLosesClient(c))
    /\ WF_hsVars(ClientProcesses(c))
    /\ WF_hsVars((c \in removed \/ ~Hosting) /\ ClientLosesServer(c))
    /\ WF_hsVars(cStop[c] /\ ClientCloses(c))

Spec == Init /\ [][Next]_hsVars
FairSpec == Spec /\ Fairness

-----------------------------------------------------------------------------
(* Properties. *)

\* Both ends of every connection, and the packets between them, are well formed.
TypeOK ==
  /\ host \in {"visible", "invisible", "gone"} /\ conns \in Seq(Client) /\ removed \subseteq Client
  /\ sAuth \in [Client -> Auth] /\ sStop \in [Client -> BOOLEAN]
  /\ player \in [Client -> Id \union {NoPlayer}]
  /\ phase \in [Client -> {"away", "connected", "closed"}]
  /\ login \in [Client -> Login \union {NobodysLogin}]
  /\ cAuth \in [Client -> Auth] /\ cStop \in [Client -> BOOLEAN] /\ cId \in [Client -> Id]
  /\ dialog \in [Client -> BOOLEAN] /\ mapLoaded \in [Client -> BOOLEAN]
  /\ down \in [Client -> Seq(DownPacket)] /\ up \in [Client -> Seq(UpPacket)]
  /\ sends \in 0 .. MaxSends
  /\ troubles \in 0 .. MaxTroubles

\* Nothing that needs authentication reaches an end that is not authenticated:
\* on the way to a client it is behind the reply that admits it, so that no tick,
\* event or map is dropped; on the way to the server it finds its connection
\* admitted, so that no player is thrown out for sending too early.
AuthFirst ==
  \A c \in Client :
    /\ phase[c] = "connected" => \A i \in DOMAIN down[c] :
         NeedsAuth(down[c][i]) =>
           cAuth[c] = "ok" \/ \E k \in 1 .. i : down[c][k].status = "ok"
    /\ c \in Listed => \A i \in DOMAIN up[c] : NeedsAuth(up[c][i]) => sAuth[c] = "ok"

\* A client that has been admitted knows itself by the id the server has for it
\* as long as the server has it, nobody shares an id, and a map comes only after.
ClientKnowsItself ==
  \A c \in Client :
    /\ cAuth[c] = "ok" /\ c \in Listed => player[c] # NoPlayer /\ cId[c] = player[c]
    /\ phase[c] = "connected" /\ mapLoaded[c] => cAuth[c] = "ok"
    /\ player[c] # NoPlayer => player[c] # HostId /\ \A d \in Client \ {c} : player[d] # player[c]

\* Whoever connects plays in the end, is turned away, or is asked for a password.
Settles ==
  \A c \in Client : phase[c] = "connected" ~> mapLoaded[c] \/ phase[c] = "closed" \/ dialog[c]

\* The seat of a client that is gone becomes free and stays free, whatever is
\* left of its packets.
SeatsAreFreed == \A c \in Client : phase[c] = "closed" ~> [](player[c] = NoPlayer)
=============================================================================
