--------------------------- MODULE HandshakeProofs --------------------------
(***************************************************************************)
(* What Handshake promises for any number of clients, logins, packets and  *)
(* broken connections.                                                     *)
(***************************************************************************)
EXTENDS Handshake, TLAPS, FiniteSetTheorems, FunctionTheorems, SequenceTheorems

-----------------------------------------------------------------------------
(* Types. *)

LEMMA Constants ==
  /\ NumIds \in Nat \ {0} /\ MaxPlayers \in Nat /\ MaxSends \in Nat /\ MaxTroubles \in Nat
  /\ HostId \in Id /\ NoPlayer \notin Id /\ 0 \in Id
  /\ Login \subseteq [key : KeyVerdict, version : BOOLEAN, name : BOOLEAN, passwordless : BOOLEAN,
                      password : Password]
  BY HandshakeAssumption DEF HostId, NoPlayer, Id

LEMMA PacketTypes ==
  /\ \A cmd \in {"token", "objectsList", "map", "session"} : Down(cmd) \in DownPacket
  /\ \A cmd \in {"token", "mapRequest", "session"} : Up(cmd) \in UpPacket
  /\ \A password \in Password : AuthRequest(password) \in UpPacket
  /\ \A status \in Auth, id \in Id : AuthReply(status, id) \in DownPacket
  BY Constants DEF Down, Up, AuthRequest, AuthReply, DownPacket, UpPacket, Auth, Password

\* Queueing and replying keep a channel a sequence of packets.
LEMMA QueueTypes ==
  /\ \A q \in Seq(DownPacket), auth \in Auth, p \in DownPacket : Queue(q, auth, p) \in Seq(DownPacket)
  /\ \A q \in Seq(UpPacket), auth \in Auth, p \in UpPacket : Queue(q, auth, p) \in Seq(UpPacket)
  /\ \A q \in Seq(DownPacket), status \in Auth, id \in Id \union {NoPlayer} :
       SendAuth(q, status, id) \in Seq(DownPacket)
  <1>1. \A q \in Seq(DownPacket), p \in DownPacket : Append(q, p) \in Seq(DownPacket)
    BY AppendProperties
  <1>2. \A q \in Seq(UpPacket), p \in UpPacket : Append(q, p) \in Seq(UpPacket)
    BY AppendProperties
  <1>3. \A status \in Auth, id \in Id \union {NoPlayer} :
          AuthReply(status, IF id = NoPlayer THEN 0 ELSE id) \in DownPacket
    BY PacketTypes, Constants
  <1>4. QED
    BY <1>1, <1>2, <1>3, Zenon DEF Queue, SendAuth

LEMMA BroadcastTypes ==
  ASSUME TypeOK, NEW d \in [Client -> Seq(DownPacket)]
  PROVE  Broadcast(d) \in [Client -> Seq(DownPacket)]
  <1>1. \A c \in Client : Queue(d[c], sAuth[c], Down("session")) \in Seq(DownPacket)
    BY QueueTypes, PacketTypes DEF TypeOK
  <1>2. QED
    BY <1>1 DEF Broadcast

LEMMA VerdictTypes ==
  ASSUME NEW l \in Login \union {NobodysLogin}, NEW password \in Password
  PROVE  Verdict(l, password) \in Auth \ {"ok"}
  BY Constants DEF Verdict, Auth, KeyVerdict, Refusal, NobodysLogin

LEMMA HeadTypes ==
  ASSUME TypeOK, NEW c \in Client
  PROVE  /\ down[c] # <<>> => Head(down[c]) \in DownPacket /\ Tail(down[c]) \in Seq(DownPacket)
         /\ up[c] # <<>> => Head(up[c]) \in UpPacket /\ Tail(up[c]) \in Seq(UpPacket)
  BY HeadTailProperties DEF TypeOK

\* What comes of a request for authentication.
LEMMA JudgeCases ==
  ASSUME TypeOK, NEW c \in Client, ServerHandleAuth(c)
  PROVE  \/ Judges(c) /\ NumVisiblePlayers < MaxPlayers /\ Admit(c)
         \/ Judges(c) /\ \E status \in Auth \ {"ok"} : Refuse(c, status)
         \/ ~Judges(c) /\ UNCHANGED <<sAuth, sStop, player, down>>
  <1>1. Verdict(login[c], Head(up[c]).password) \in Auth \ {"ok"}
    <2>1. Head(up[c]).password \in Password
      BY HeadTypes DEF ServerHandleAuth, ServerHas, UpPacket
    <2>2. QED
      BY <2>1, VerdictTypes DEF TypeOK
  <1>2. {"full", "verificationFailure"} \subseteq Auth \ {"ok"}
    BY DEF Auth, KeyVerdict, Refusal
  <1>3. QED
    BY <1>1, <1>2 DEF ServerHandleAuth, Judge

LEMMA TroubleTypes ==
  ASSUME TypeOK, NEW forced, Trouble(forced)
  PROVE  sends' \in 0 .. MaxSends /\ troubles' \in 0 .. MaxTroubles
  <1>1. UNCHANGED <<sends, troubles>> \/ (troubles < MaxTroubles /\ troubles' = troubles + 1 /\ UNCHANGED sends)
    BY Zenon DEF Trouble, boundVars
  <1>2. QED
    BY <1>1, Constants DEF TypeOK

LEMMA CloseTypes ==
  ASSUME TypeOK, NEW c \in Client, Close(c)
  PROVE  /\ phase' \in [Client -> {"away", "connected", "closed"}] /\ cAuth' \in [Client -> Auth]
         /\ cStop' \in [Client -> BOOLEAN] /\ dialog' \in [Client -> BOOLEAN]
         /\ down' \in [Client -> Seq(DownPacket)] /\ up' \in [Client -> Seq(UpPacket)]
  BY EmptySeq DEF Close, TypeOK, Auth

LEMMA GoOnTypes ==
  ASSUME TypeOK, NEW c \in Client, NEW auth \in Auth, NEW opens \in BOOLEAN,
         GoOn(c, auth, opens), down[c] # <<>>
  PROVE  /\ phase' \in [Client -> {"away", "connected", "closed"}] /\ cAuth' \in [Client -> Auth]
         /\ cStop' \in [Client -> BOOLEAN] /\ dialog' \in [Client -> BOOLEAN]
         /\ down' \in [Client -> Seq(DownPacket)] /\ up' \in [Client -> Seq(UpPacket)]
  <1>1. CASE Close(c)
    BY <1>1, CloseTypes
  <1>2. CASE ~Close(c)
    <2>1. (dialog[c] \/ opens) \in BOOLEAN
      OBVIOUS
    <2>2. dialog' = [dialog EXCEPT ![c] = dialog[c] \/ opens]
      BY <1>2, Zenon DEF GoOn
    <2>3. dialog' \in [Client -> BOOLEAN]
      BY <2>1, <2>2, Zenon DEF TypeOK
    <2>4. /\ cAuth' = [cAuth EXCEPT ![c] = auth] /\ down' = [down EXCEPT ![c] = Tail(@)]
          /\ UNCHANGED <<phase, cStop, up>>
      BY <1>2, Zenon DEF GoOn, ClientReads
    <2>5. QED
      BY <2>3, <2>4, HeadTypes DEF TypeOK
  <1>3. QED
    BY <1>1, <1>2

LEMMA TypeInit == Init => TypeOK
  BY Constants DEF Init, TypeOK, NobodysLogin, Auth

LEMMA ServerTypes ==
  ASSUME TypeOK, NEW c \in Client, ServerProcesses(c)
  PROVE  TypeOK'
  <1>1. CASE ServerHandleToken(c)
    <2>1. Queue(down[c], sAuth[c], Down("token")) \in Seq(DownPacket)
      BY QueueTypes, PacketTypes DEF TypeOK
    <2>2. QED
      BY <1>1, <2>1, HeadTypes
      DEF ServerHandleToken, ServerHas, ServerReads, TypeOK, serverVars, clientVars, boundVars
  <1>2. CASE ServerHandleAuth(c)
    <2>1. \E status \in Auth, id \in Id \union {NoPlayer}, stop \in BOOLEAN, d \in Seq(DownPacket) :
            /\ player' = [player EXCEPT ![c] = id]
            /\ sAuth' = [sAuth EXCEPT ![c] = status]
            /\ sStop' = [sStop EXCEPT ![c] = stop]
            /\ down' = [down EXCEPT ![c] = d]
      <3>1. CASE Admit(c)
        <4>1. PICK id \in Id \union {NoPlayer} :
                /\ player' = [player EXCEPT ![c] = id]
                /\ sAuth' = [sAuth EXCEPT ![c] = "ok"]
                /\ down' = [down EXCEPT ![c] =
                     SendAuth(IF id = NoPlayer THEN @ ELSE Append(@, Down("objectsList")), "ok", id)]
                /\ UNCHANGED sStop
          BY <3>1 DEF Admit
        <4>2. (IF id = NoPlayer THEN down[c] ELSE Append(down[c], Down("objectsList"))) \in Seq(DownPacket)
          BY AppendProperties, PacketTypes DEF TypeOK
        <4>3. "ok" \in Auth
          BY DEF Auth
        <4>4. SendAuth(IF id = NoPlayer THEN down[c] ELSE Append(down[c], Down("objectsList")), "ok", id)
                \in Seq(DownPacket)
          BY <4>2, <4>3, QueueTypes
        <4>5. sStop' = [sStop EXCEPT ![c] = sStop[c]] /\ sStop[c] \in BOOLEAN
          BY <4>1 DEF TypeOK
        <4>6. QED
          BY <4>1, <4>3, <4>4, <4>5 DEF TypeOK
      <3>2. CASE \E status \in Auth : Refuse(c, status)
        <4>1. PICK status \in Auth : Refuse(c, status)
          BY <3>2
        <4>2. SendAuth(down[c], status, player[c]) \in Seq(DownPacket)
          BY QueueTypes DEF TypeOK
        <4>3. player' = [player EXCEPT ![c] = player[c]] /\ player[c] \in Id \union {NoPlayer}
          BY <4>1 DEF Refuse, TypeOK
        <4>4. QED
          BY <4>1, <4>2, <4>3 DEF Refuse, TypeOK
      <3>3. CASE UNCHANGED <<sAuth, sStop, player, down>>
        BY <3>3 DEF TypeOK
      <3>4. QED
        BY <1>2, <3>1, <3>2, <3>3, JudgeCases
    <2>2. up' = [up EXCEPT ![c] = Tail(up[c])] /\ Tail(up[c]) \in Seq(UpPacket)
      BY <1>2, HeadTypes DEF ServerHandleAuth, ServerHas, ServerReads
    <2>3. UNCHANGED <<host, conns, removed, clientVars, boundVars>>
      BY <1>2 DEF ServerHandleAuth
    <2>4. QED
      BY <2>1, <2>2, <2>3 DEF TypeOK, clientVars, boundVars
  <1>3. CASE ServerHandleSession(c)
    BY <1>3, HeadTypes DEF ServerHandleSession, ServerHas, ServerReads, TypeOK, serverVars,
       clientVars, boundVars
  <1>4. CASE ServerHandleMapRequest(c)
    <2>1. down' \in [Client -> Seq(DownPacket)] /\ sStop' \in [Client -> BOOLEAN]
      <3>1. CASE SendMap(c)
        <4>1. PICK saved \in BOOLEAN :
                LET mapped == IF saved THEN [down EXCEPT ![c] = Queue(@, sAuth[c], Down("map"))] ELSE down
                    told == Broadcast(mapped)
                IN /\ down' = [told EXCEPT ![c] = Queue(@, sAuth[c], Down("session"))]
                   /\ sStop' = [sStop EXCEPT ![c] = ~saved]
          BY <3>1 DEF SendMap
        <4> DEFINE mapped == IF saved THEN [down EXCEPT ![c] = Queue(@, sAuth[c], Down("map"))] ELSE down
        <4> DEFINE told == Broadcast(mapped)
        <4>2. mapped \in [Client -> Seq(DownPacket)]
          <5>1. Queue(down[c], sAuth[c], Down("map")) \in Seq(DownPacket)
            BY QueueTypes, PacketTypes DEF TypeOK
          <5>2. QED
            BY <5>1 DEF TypeOK
        <4>3. told \in [Client -> Seq(DownPacket)]
          BY <4>2, BroadcastTypes
        <4>4. Queue(told[c], sAuth[c], Down("session")) \in Seq(DownPacket)
          BY <4>3, QueueTypes, PacketTypes DEF TypeOK
        <4>5. down' = [told EXCEPT ![c] = Queue(told[c], sAuth[c], Down("session"))]
          BY <4>1
        <4> HIDE DEF told
        <4>6. (~saved) \in BOOLEAN
          BY Zenon
        <4>7. sStop' \in [Client -> BOOLEAN]
          BY <4>1, <4>6, Zenon DEF TypeOK
        <4>8. QED
          BY <4>3, <4>4, <4>5, <4>7
      <3>2. CASE sStop' = [sStop EXCEPT ![c] = TRUE] /\ UNCHANGED down
        BY <3>2 DEF TypeOK
      <3>3. QED
        BY <1>4, <3>1, <3>2 DEF ServerHandleMapRequest
    <2>2. QED
      BY <1>4, <2>1, HeadTypes DEF ServerHandleMapRequest, ServerHas, ServerReads, TypeOK,
         clientVars, boundVars
  <1>5. QED
    BY <1>1, <1>2, <1>3, <1>4 DEF ServerProcesses

LEMMA ListTypes ==
  ASSUME TypeOK, NEW c \in Client, Accept(c) \/ ServerLosesClient(c) \/ Drop(c)
  PROVE  TypeOK'
  <1>1. CASE Accept(c)
    <2>1. Append(conns, c) \in Seq(Client)
      BY AppendProperties DEF TypeOK
    <2>2. QED
      BY <1>1, <2>1 DEF Accept, TypeOK, clientVars, boundVars
  <1>2. CASE ServerLosesClient(c)
    BY <1>2, TroubleTypes DEF ServerLosesClient, TypeOK, clientVars, boundVars
  <1>3. CASE Drop(c)
    <2>1. PICK i \in DOMAIN conns : conns' = SubSeq(conns, 1, i - 1) \o SubSeq(conns, i + 1, Len(conns))
      BY <1>3 DEF Drop, Erase
    <2>2. conns' \in Seq(Client)
      <3>1. i \in 1 .. Len(conns) /\ Len(conns) \in Nat /\ \A k \in 1 .. Len(conns) : conns[k] \in Client
        BY DEF TypeOK
      <3>2. SubSeq(conns, 1, i - 1) \in Seq(Client) /\ SubSeq(conns, i + 1, Len(conns)) \in Seq(Client)
        BY <3>1, SubSeqProperties
      <3>3. QED
        BY <2>1, <3>2, ConcatProperties
    <2>3. down' \in [Client -> Seq(DownPacket)]
      <3>1. Broadcast(down) \in [Client -> Seq(DownPacket)]
        BY BroadcastTypes DEF TypeOK
      <3>2. QED
        BY <1>3, <3>1 DEF Drop, TypeOK
    <2>4. up' \in [Client -> Seq(UpPacket)] /\ sAuth' \in [Client -> Auth]
      BY <1>3, EmptySeq DEF Drop, Erase, TypeOK, Auth
    <2>5. QED
      BY <1>3, <2>2, <2>3, <2>4 DEF Drop, Erase, TypeOK, clientVars, boundVars
  <1>4. QED
    BY <1>1, <1>2, <1>3

LEMMA HostTypes ==
  ASSUME TypeOK,
         \/ HostCloses \/ HostSends
         \/ \E c \in Client : Kick(c) \/ KickCrashes(c)
  PROVE  TypeOK'
  <1>1. CASE Gone
    <2>1. <<>> \in Seq(Client) /\ <<>> \in Seq(UpPacket)
      BY EmptySeq
    <2>2. QED
      BY <1>1, <2>1, TroubleTypes DEF Gone, TypeOK, clientVars, Auth
  <1>2. CASE HostSends
    <2>1. Broadcast(down) \in [Client -> Seq(DownPacket)]
      BY BroadcastTypes DEF TypeOK
    <2>2. QED
      BY <1>2, <2>1, Constants DEF HostSends, TypeOK, serverVars, clientVars
  <1>3. ASSUME NEW c \in Client, Kick(c) PROVE TypeOK'
    <2>1. Queue(down[c], sAuth[c], Down("session")) \in Seq(DownPacket)
      BY QueueTypes, PacketTypes DEF TypeOK
    <2>2. QED
      BY <1>3, <2>1, TroubleTypes DEF Kick, TypeOK, clientVars
  <1>4. QED
    BY <1>1, <1>2, <1>3 DEF HostCloses, KickCrashes

LEMMA ClientTypes ==
  ASSUME TypeOK, NEW c \in Client,
         \/ Connect(c) \/ ClientProcesses(c) \/ CancelDialog(c) \/ ClientSends(c)
         \/ ClientLosesServer(c) \/ ClientCloses(c)
         \/ \E password \in Password : EnterPassword(c, password)
  PROVE  TypeOK'
  <1>2. \A p \in UpPacket, auth \in Auth : Queue(up[c], auth, p) \in Seq(UpPacket)
    BY QueueTypes DEF TypeOK
  <1>3. CASE Connect(c)
    <2>1. Append(up[c], Up("token")) \in Seq(UpPacket) /\ "requested" \in Auth
      BY AppendProperties, PacketTypes DEF TypeOK, Auth
    <2>2. QED
      BY <1>3, <2>1 DEF Connect, TypeOK, serverVars, boundVars
  <1>4. CASE ClientHandleToken(c)
    <2>1. AuthRequest(login[c].password) \in UpPacket
      <3>1. login[c].password \in Password
        BY Constants DEF TypeOK, NobodysLogin, Password
      <3>2. QED
        BY <3>1, PacketTypes
    <2>2. Queue(up[c], cAuth[c], AuthRequest(login[c].password)) \in Seq(UpPacket)
      BY <1>2, <2>1 DEF TypeOK
    <2>3. CASE Close(c)
      BY CloseTypes, <1>4, <2>3 DEF ClientHandleToken, TypeOK, serverVars, boundVars
    <2>4. CASE Answer(c, AuthRequest(login[c].password)) /\ ~Close(c)
      BY <1>4, <2>2, <2>4, HeadTypes, ZenonT(60) DEF ClientHandleToken, ClientHas, Answer, ClientReads, TypeOK,
         serverVars, boundVars
    <2>5. QED
      BY <1>4, <2>3, <2>4 DEF ClientHandleToken
  <1>5. CASE ClientHandleObjectsList(c)
    <2>1. Queue(up[c], cAuth[c], Up("mapRequest")) \in Seq(UpPacket)
      BY <1>2, PacketTypes DEF TypeOK
    <2>2. CASE Close(c)
      BY CloseTypes, <1>5, <2>2 DEF ClientHandleObjectsList, TypeOK, serverVars, boundVars
    <2>3. CASE ~Close(c)
      BY <1>5, <2>1, <2>3, HeadTypes, ZenonT(60) DEF ClientHandleObjectsList, ClientHas, Answer, ClientReads, TypeOK,
         serverVars, boundVars
    <2>4. QED
      BY <2>2, <2>3
  <1>6. CASE ClientHandleAuth(c)
    <2>1. Head(down[c]).id \in Id /\ Head(down[c]).status \in Auth
      BY <1>6, HeadTypes DEF ClientHandleAuth, ClientHas, DownPacket
    <2>2. cId' \in [Client -> Id]
      BY <1>6, <2>1 DEF ClientHandleAuth, TypeOK
    <2>3. CASE Close(c)
      BY CloseTypes, <1>6, <2>2, <2>3 DEF ClientHandleAuth, TypeOK, serverVars, boundVars
    <2>4. CASE \E auth \in Auth, opens \in BOOLEAN : GoOn(c, auth, opens)
      <3>1. PICK auth \in Auth, opens \in BOOLEAN : GoOn(c, auth, opens)
        BY <2>4
      <3>2. QED
        BY GoOnTypes, <1>6, <2>2, <3>1, SMTT(20) DEF ClientHandleAuth, ClientHas, TypeOK, serverVars, boundVars
    <2>5. QED
      <3>1. GoOn(c, Head(down[c]).status, Head(down[c]).status = "requirePassword") \/ Close(c)
        BY <1>6, Zenon DEF ClientHandleAuth
      <3>2. (Head(down[c]).status = "requirePassword") \in BOOLEAN
        OBVIOUS
      <3>3. QED
        BY <2>1, <2>3, <2>4, <3>1, <3>2, Zenon
  <1>7. CASE ClientHandleMap(c)
    <2>1. mapLoaded' \in [Client -> BOOLEAN]
      <3>1. (mapLoaded[c] \/ cAuth[c] = "ok") \in BOOLEAN
        OBVIOUS
      <3>2. QED
        BY <1>7, <3>1, Zenon DEF ClientHandleMap, TypeOK
    <2>2. QED
      BY GoOnTypes, <1>7, <2>1 DEF ClientHandleMap, ClientHas, TypeOK, serverVars, boundVars
  <1>8. CASE ClientHandleSession(c)
    BY GoOnTypes, <1>8 DEF ClientHandleSession, ClientHas, TypeOK, serverVars, boundVars
  <1>9. ASSUME NEW password \in Password, EnterPassword(c, password) PROVE TypeOK'
    <2>1. Queue(up[c], "requested", AuthRequest(password)) \in Seq(UpPacket) /\ "requested" \in Auth
      BY <1>2, PacketTypes DEF Auth
    <2>2. QED
      BY <1>9, <2>1 DEF EnterPassword, TypeOK, serverVars, boundVars
  <1>10. CASE ClientSends(c)
    <2>1. Queue(up[c], cAuth[c], Up("session")) \in Seq(UpPacket)
      BY <1>2, PacketTypes DEF TypeOK
    <2>2. QED
      BY <1>10, <2>1, Constants DEF ClientSends, TypeOK, serverVars, clientVars
  <1>11. CASE CancelDialog(c) \/ ClientLosesServer(c)
    BY <1>11, TroubleTypes DEF CancelDialog, ClientLosesServer, TypeOK, serverVars, boundVars
  <1>12. CASE ClientCloses(c)
    BY CloseTypes, TroubleTypes, <1>12 DEF ClientCloses, TypeOK, serverVars
  <1>13. QED
    BY <1>3, <1>4, <1>5, <1>6, <1>7, <1>8, <1>9, <1>10, <1>11, <1>12 DEF ClientProcesses

LEMMA TypeStep == TypeOK /\ [Next]_hsVars => TypeOK'
  <1> SUFFICES ASSUME TypeOK, [Next]_hsVars PROVE TypeOK'
    OBVIOUS
  <1>1. CASE UNCHANGED hsVars
    BY <1>1 DEF hsVars, serverVars, clientVars, boundVars, TypeOK
  <1>2. CASE Next
    BY <1>2, ServerTypes, ListTypes, HostTypes, ClientTypes DEF Next
  <1>3. QED
    BY <1>1, <1>2

\* Both ends of every connection and the packets between them stay well formed.
THEOREM TypeCorrect == Spec => []TypeOK
  <1>1. QED
    BY TypeInit, TypeStep, PTL DEF Spec

-----------------------------------------------------------------------------
(* The exchange of a connection: token, token, request, reply, and a request *)
(* and a reply more for every password. At most one of these packets is on   *)
(* the way, and none while the client asks its player or is admitted.        *)

Exchange(packet) == packet.cmd \in {"token", "auth"}

Quiet(s) == \A i \in DOMAIN s : ~Exchange(s[i])
Single(s) == \A i, j \in DOMAIN s : Exchange(s[i]) /\ Exchange(s[j]) => i = j
Plain(s) == \A i \in DOMAIN s : ~NeedsAuth(s[i])

\* Packets down: only a reply has a status, and the one that admits the client is
\* there, or is before whatever needs authentication.
Proper(s) == \A i \in DOMAIN s : s[i].status # "none" => s[i].cmd = "auth"
Grants(s) == \E k \in DOMAIN s : s[k].status = "ok"
Covered(s) == \A i \in DOMAIN s : NeedsAuth(s[i]) => \E k \in 1 .. i : s[k].status = "ok"

\* A connected client with u on the way up and d on the way down.
Talk(c, u, d) ==
  /\ Single(u) /\ Single(d)
  /\ Quiet(u) \/ Quiet(d)
  /\ dialog[c] \/ cAuth[c] = "ok" => Quiet(u) /\ Quiet(d)
  /\ ~(dialog[c] /\ cAuth[c] = "ok")
  /\ cAuth[c] = "ok" \/ Covered(d)
  /\ mapLoaded[c] => cAuth[c] = "ok"
  /\ c \in Listed => (sAuth[c] = "ok" <=> cAuth[c] = "ok" \/ Grants(d))

\* One before its connection is accepted, one without a connection at the server,
\* and one with it.
Fresh(c) == down[c] = <<>> /\ cAuth[c] # "ok" /\ Plain(up[c])
Absent(c) == sAuth[c] = "none" /\ player[c] = NoPlayer
Present(c) == Plain(up[c]) \/ sAuth[c] = "ok"

LineInv(c) ==
  /\ Proper(down[c])
  /\ phase[c] = "connected" => Talk(c, up[c], down[c])
  /\ phase[c] = "away" => /\ up[c] = <<>> /\ down[c] = <<>> /\ ~dialog[c] /\ ~mapLoaded[c]
                          /\ cAuth[c] = "none" /\ c \notin Listed \union removed
  /\ Hosting /\ c \notin Listed \union removed => Fresh(c)
  /\ c \notin Listed => Absent(c)
  /\ c \in Listed => Present(c)

NoneTwice == \A i, j \in DOMAIN conns : conns[i] = conns[j] => i = j

ExchangeInv == NoneTwice /\ \A c \in Client : LineInv(c)

LEMMA PacketFacts ==
  /\ Exchange(Down("token")) /\ Exchange(Up("token"))
  /\ \A cmd \in {"objectsList", "map", "session"} : ~Exchange(Down(cmd))
  /\ \A cmd \in {"mapRequest", "session"} : ~Exchange(Up(cmd))
  /\ \A password \in Password : Exchange(AuthRequest(password)) /\ ~NeedsAuth(AuthRequest(password))
  /\ \A status \in Auth, id \in Id :
       Exchange(AuthReply(status, id)) /\ AuthReply(status, id).cmd = "auth"
       /\ AuthReply(status, id).status = status
       /\ ~NeedsAuth(AuthReply(status, id))
  /\ \A cmd \in {"token", "objectsList", "map", "session"} : Down(cmd).status = "none"
  /\ ~NeedsAuth(Down("token")) /\ ~NeedsAuth(Down("objectsList"))
  /\ NeedsAuth(Down("map")) /\ NeedsAuth(Down("session"))
  /\ ~NeedsAuth(Up("token")) /\ ~NeedsAuth(Up("mapRequest")) /\ NeedsAuth(Up("session"))
  BY DEF Exchange, NeedsAuth, Down, Up, AuthRequest, AuthReply

LEMMA EmptyLine ==
  Quiet(<<>>) /\ Single(<<>>) /\ Plain(<<>>) /\ Proper(<<>>) /\ Covered(<<>>) /\ ~Grants(<<>>)
  BY DEF Quiet, Single, Plain, Proper, Covered, Grants

LEMMA AppendLine ==
  ASSUME NEW S, NEW s \in Seq(S), NEW p \in S
  PROVE  /\ Quiet(Append(s, p)) <=> Quiet(s) /\ ~Exchange(p)
         /\ Plain(Append(s, p)) <=> Plain(s) /\ ~NeedsAuth(p)
         /\ Single(s) /\ (~Exchange(p) \/ Quiet(s)) => Single(Append(s, p))
         /\ Proper(s) /\ (p.status = "none" \/ p.cmd = "auth") => Proper(Append(s, p))
         /\ Grants(Append(s, p)) <=> Grants(s) \/ p.status = "ok"
         /\ Covered(s) /\ (~NeedsAuth(p) \/ Grants(s)) => Covered(Append(s, p))
  <1> DEFINE t == Append(s, p)
  <1>1. /\ Len(s) \in Nat /\ DOMAIN s = 1 .. Len(s) /\ DOMAIN t = 1 .. Len(s) + 1
        /\ \A i \in 1 .. Len(s) : t[i] = s[i]
        /\ t[Len(s) + 1] = p
    BY AppendProperties, LenProperties
  <1> HIDE DEF t
  <1>2. \A i \in DOMAIN t : i \in DOMAIN s \/ i = Len(s) + 1
    BY <1>1
  <1>3. DOMAIN s \subseteq DOMAIN t /\ Len(s) + 1 \in DOMAIN t /\ Len(s) + 1 \notin DOMAIN s
    BY <1>1
  <1>4. Quiet(t) <=> Quiet(s) /\ ~Exchange(p)
    BY <1>1, <1>2, <1>3 DEF Quiet
  <1>5. Plain(t) <=> Plain(s) /\ ~NeedsAuth(p)
    BY <1>1, <1>2, <1>3 DEF Plain
  <1>6. Single(s) /\ (~Exchange(p) \/ Quiet(s)) => Single(t)
    BY <1>1, <1>2, <1>3 DEF Single, Quiet
  <1>7. Proper(s) /\ (p.status = "none" \/ p.cmd = "auth") => Proper(t)
    BY <1>1, <1>2, <1>3 DEF Proper
  <1>8. Grants(t) <=> Grants(s) \/ p.status = "ok"
    BY <1>1, <1>2, <1>3 DEF Grants
  <1>9. Covered(s) /\ (~NeedsAuth(p) \/ Grants(s)) => Covered(t)
    <2> SUFFICES ASSUME Covered(s), ~NeedsAuth(p) \/ Grants(s), NEW i \in DOMAIN t, NeedsAuth(t[i])
                 PROVE  \E k \in 1 .. i : t[k].status = "ok"
      BY DEF Covered
    <2>1. CASE i \in DOMAIN s
      <3>1. PICK k \in 1 .. i : s[k].status = "ok"
        BY <1>1, <2>1 DEF Covered
      <3>2. k \in 1 .. Len(s)
        BY <1>1, <2>1
      <3>3. QED
        BY <1>1, <3>1, <3>2
    <2>2. CASE i = Len(s) + 1
      <3>1. PICK k \in DOMAIN s : s[k].status = "ok"
        BY <1>1, <2>2 DEF Grants
      <3>2. QED
        BY <1>1, <2>2, <3>1
    <2>3. QED
      BY <1>2, <2>1, <2>2
  <1>10. QED
    BY <1>4, <1>5, <1>6, <1>7, <1>8, <1>9 DEF t

LEMMA TailLine ==
  ASSUME NEW S, NEW s \in Seq(S), s # <<>>
  PROVE  /\ Quiet(s) => Quiet(Tail(s)) /\ ~Exchange(Head(s))
         /\ Plain(s) => Plain(Tail(s)) /\ ~NeedsAuth(Head(s))
         /\ Single(s) => Single(Tail(s)) /\ (Exchange(Head(s)) => Quiet(Tail(s)))
         /\ Proper(s) => Proper(Tail(s)) /\ (Head(s).status # "none" => Head(s).cmd = "auth")
         /\ Grants(s) <=> Grants(Tail(s)) \/ Head(s).status = "ok"
         /\ Covered(s) /\ Head(s).status # "ok" => Covered(Tail(s)) /\ ~NeedsAuth(Head(s))
  <1> DEFINE t == Tail(s)
  <1>1. /\ Len(s) \in Nat \ {0} /\ DOMAIN s = 1 .. Len(s) /\ DOMAIN t = 1 .. Len(s) - 1
        /\ \A i \in 1 .. Len(s) - 1 : t[i] = s[i + 1]
        /\ Head(s) = s[1]
    <2>1. Len(s) \in Nat \ {0} /\ DOMAIN s = 1 .. Len(s)
      BY EmptySeq, LenProperties
    <2>2. Len(t) = Len(s) - 1 /\ t \in Seq(S) /\ \A i \in 1 .. Len(t) : t[i] = s[i + 1]
      BY HeadTailProperties
    <2>3. DOMAIN t = 1 .. Len(t)
      BY <2>2, LenProperties
    <2>4. Head(s) = s[1]
      OBVIOUS
    <2>5. QED
      BY <2>1, <2>2, <2>3, <2>4
  <1> HIDE DEF t
  <1>2. \A i \in DOMAIN t : i + 1 \in DOMAIN s /\ t[i] = s[i + 1]
    BY <1>1
  <1>3. 1 \in DOMAIN s /\ \A i \in DOMAIN s : i = 1 \/ (i - 1 \in DOMAIN t /\ s[i] = t[i - 1])
    <2>1. \A i \in 1 .. Len(s) : i = 1 \/ (i - 1 \in 1 .. Len(s) - 1 /\ (i - 1) + 1 = i)
      BY <1>1
    <2>2. QED
      BY <1>1, <2>1
  <1>4. Quiet(s) => Quiet(t) /\ ~Exchange(Head(s))
    BY <1>1, <1>2, <1>3 DEF Quiet
  <1>5. Plain(s) => Plain(t) /\ ~NeedsAuth(Head(s))
    BY <1>1, <1>2, <1>3 DEF Plain
  <1>6. Single(s) => Single(t) /\ (Exchange(Head(s)) => Quiet(t))
    <2> SUFFICES ASSUME Single(s) PROVE Single(t) /\ (Exchange(Head(s)) => Quiet(t))
      OBVIOUS
    <2>1. Single(t)
      <3> SUFFICES ASSUME NEW i \in DOMAIN t, NEW j \in DOMAIN t, Exchange(t[i]), Exchange(t[j])
                   PROVE  i = j
        BY DEF Single
      <3>1. i + 1 = j + 1
        BY <1>2 DEF Single
      <3>2. QED
        BY <1>1, <3>1
    <2>2. ASSUME Exchange(Head(s)), NEW i \in DOMAIN t, Exchange(t[i]) PROVE FALSE
      <3>1. i + 1 = 1
        BY <1>1, <1>2, <1>3, <2>2 DEF Single
      <3>2. QED
        BY <1>1, <3>1
    <2>3. QED
      BY <2>1, <2>2 DEF Quiet
  <1>7. Proper(s) => Proper(t) /\ (Head(s).status # "none" => Head(s).cmd = "auth")
    BY <1>1, <1>2, <1>3 DEF Proper
  <1>8. Grants(s) <=> Grants(t) \/ Head(s).status = "ok"
    BY <1>1, <1>2, <1>3 DEF Grants
  <1>9. Covered(s) /\ Head(s).status # "ok" => Covered(t) /\ ~NeedsAuth(Head(s))
    <2> SUFFICES ASSUME Covered(s), Head(s).status # "ok" PROVE Covered(t) /\ ~NeedsAuth(Head(s))
      OBVIOUS
    <2>1. ASSUME NEW i \in DOMAIN t, NeedsAuth(t[i]) PROVE \E k \in 1 .. i : t[k].status = "ok"
      <3>1. PICK k \in 1 .. i + 1 : s[k].status = "ok"
        BY <1>2, <2>1 DEF Covered
      <3>2. k # 1 /\ i \in 1 .. Len(s) - 1
        BY <1>1, <2>1, <3>1
      <3>3. k - 1 \in 1 .. i /\ k - 1 \in 1 .. Len(s) - 1 /\ (k - 1) + 1 = k
        BY <1>1, <3>1, <3>2
      <3>4. t[k - 1] = s[k]
        BY <1>1, <3>3
      <3>5. QED
        BY <3>1, <3>3, <3>4
    <2>2. ~NeedsAuth(Head(s))
      <3>1. ASSUME NeedsAuth(s[1]) PROVE FALSE
        <4>1. PICK k \in 1 .. 1 : s[k].status = "ok"
          BY <1>3, <3>1 DEF Covered
        <4>2. QED
          BY <1>1, <4>1
      <3>2. QED
        BY <1>1, <3>1
    <2>3. QED
      BY <2>1, <2>2 DEF Covered
  <1>10. QED
    BY <1>4, <1>5, <1>6, <1>7, <1>8, <1>9 DEF t

\* A line without a reply in it admits nobody.
LEMMA QuietLine ==
  ASSUME NEW s, Proper(s), Quiet(s)
  PROVE  ~Grants(s)
  BY DEF Proper, Quiet, Grants, Exchange

-----------------------------------------------------------------------------
(* What a step leaves of a line. *)

\* Neither end of it did anything.
LEMMA Untouched ==
  ASSUME NEW c \in Client, LineInv(c),
         phase'[c] = phase[c], up'[c] = up[c], down'[c] = down[c], cAuth'[c] = cAuth[c],
         dialog'[c] <=> dialog[c], mapLoaded'[c] <=> mapLoaded[c],
         sAuth'[c] = sAuth[c], player'[c] = player[c],
         (c \in Listed)' <=> c \in Listed, (c \in removed)' <=> c \in removed, Hosting' => Hosting
  PROVE  LineInv(c)'
  <1>1. LineInv(c)' <=>
          /\ Proper(down'[c])
          /\ phase'[c] = "connected" => Talk(c, up[c], down[c])'
          /\ phase'[c] = "away" => /\ up'[c] = <<>> /\ down'[c] = <<>> /\ ~dialog'[c] /\ ~mapLoaded'[c]
                                  /\ cAuth'[c] = "none" /\ ~(c \in Listed)' /\ c \notin removed'
          /\ Hosting' /\ ~(c \in Listed)' /\ c \notin removed' => Fresh(c)'
          /\ ~(c \in Listed)' => Absent(c)'
          /\ (c \in Listed)' => Present(c)'
    BY DEF LineInv
  <1>2. Talk(c, up[c], down[c])' <=> Talk(c, up[c], down[c])
    BY DEF Talk
  <1>3. Fresh(c)' <=> Fresh(c)
    BY DEF Fresh
  <1>4. Absent(c)' <=> Absent(c)
    BY DEF Absent
  <1>5. Present(c)' <=> Present(c)
    BY DEF Present
  <1>6. QED
    BY <1>1, <1>2, <1>3, <1>4, <1>5 DEF LineInv

\* The packets of a listed connection.
Good(c, u, d) == Proper(d) /\ (phase[c] = "connected" => Talk(c, u, d))

\* The server did something and did not change its mind about the client.
LEMMA Served ==
  ASSUME TypeOK, NEW c \in Client, LineInv(c), c \in Listed, Good(c, up'[c], down'[c]),
         Plain(up[c]) => Plain(up'[c]),
         phase'[c] = phase[c], cAuth'[c] = cAuth[c],
         dialog'[c] <=> dialog[c], mapLoaded'[c] <=> mapLoaded[c],
         sAuth'[c] = sAuth[c], (c \in Listed)'
  PROVE  LineInv(c)'
  <1>1. phase'[c] # "away"
    BY DEF LineInv
  <1>2. phase'[c] = "connected" => Talk(c, up[c], down[c])'
    BY DEF Good, Talk
  <1>3. Present(c)'
    BY DEF LineInv, Present
  <1>4. QED
    BY <1>1, <1>2, <1>3 DEF LineInv, Good

\* What needs authentication is sent to a client that has been admitted, or will
\* be by what is on the way.
LEMMA QueueGood ==
  ASSUME TypeOK, NEW c \in Client, c \in Listed, NEW u, NEW d \in Seq(DownPacket), Good(c, u, d),
         NEW cmd \in {"map", "session"}
  PROVE  Good(c, u, Queue(d, sAuth[c], Down(cmd))) /\ Queue(d, sAuth[c], Down(cmd)) \in Seq(DownPacket)
  <1> DEFINE p == Down(cmd)
  <1>1. p \in DownPacket /\ ~Exchange(p) /\ p.status = "none" /\ NeedsAuth(p)
    BY PacketTypes, PacketFacts
  <1> HIDE DEF p
  <1>2. CASE sAuth[c] # "ok"
    BY <1>1, <1>2 DEF Queue, p
  <1>3. CASE sAuth[c] = "ok"
    <2> DEFINE e == Append(d, p)
    <2>1. /\ Queue(d, sAuth[c], p) = e /\ e \in Seq(DownPacket)
      BY <1>1, <1>3, AppendProperties DEF Queue
    <2>2. /\ Quiet(d) => Quiet(e)
          /\ Single(d) => Single(e)
          /\ Proper(d) => Proper(e)
          /\ Grants(e) <=> Grants(d)
          /\ Covered(d) /\ Grants(d) => Covered(e)
      BY <1>1, AppendLine
    <2> HIDE DEF e
    <2>3. Good(c, u, e)
      BY <1>3, <2>2 DEF Good, Talk
    <2>4. QED
      BY <2>1, <2>3 DEF p
  <1>4. QED
    BY <1>2, <1>3

\* The server has read a packet.
LEMMA ReadGood ==
  ASSUME TypeOK, NEW c \in Client, up[c] # <<>>, NEW d, Good(c, up[c], d)
  PROVE  /\ Good(c, Tail(up[c]), d)
         /\ Plain(up[c]) => Plain(Tail(up[c]))
  <1>1. up[c] \in Seq(UpPacket)
    BY DEF TypeOK
  <1>2. /\ Quiet(up[c]) => Quiet(Tail(up[c]))
        /\ Single(up[c]) => Single(Tail(up[c]))
        /\ Plain(up[c]) => Plain(Tail(up[c]))
    BY <1>1, TailLine
  <1>3. QED
    BY <1>2 DEF Good, Talk

LEMMA LineGood ==
  ASSUME NEW c \in Client, LineInv(c)
  PROVE  Good(c, up[c], down[c])
  BY DEF Good, LineInv

\* The server tells everybody.
LEMMA BroadcastGood ==
  ASSUME TypeOK, NEW d \in [Client -> Seq(DownPacket)], NEW c \in Client, NEW u, Good(c, u, d[c])
  PROVE  Good(c, u, Broadcast(d)[c]) /\ (c \notin Listed => Broadcast(d)[c] = d[c])
  BY QueueGood DEF Broadcast

-----------------------------------------------------------------------------
(* The steps of the server. *)

\* A packet of the exchange on its way up.
LEMMA Asked ==
  ASSUME TypeOK, NEW c \in Client, LineInv(c), up[c] # <<>>, Exchange(Head(up[c])), phase[c] = "connected"
  PROVE  /\ Quiet(Tail(up[c])) /\ Single(Tail(up[c])) /\ Quiet(down[c]) /\ ~Grants(down[c])
         /\ ~dialog[c] /\ cAuth[c] # "ok" /\ ~mapLoaded[c] /\ Single(down[c]) /\ Covered(down[c])
  <1>1. up[c] \in Seq(UpPacket)
    BY DEF TypeOK
  <1>2. Talk(c, up[c], down[c]) /\ Proper(down[c])
    BY DEF LineInv
  <1>3. Single(up[c]) /\ (Quiet(up[c]) \/ Quiet(down[c]))
    BY <1>2 DEF Talk
  <1>4. ~Quiet(up[c]) /\ Quiet(Tail(up[c])) /\ Single(Tail(up[c]))
    BY <1>1, <1>3, TailLine
  <1>5. ~Grants(down[c])
    BY <1>2, <1>3, <1>4, QuietLine
  <1>6. QED
    BY <1>2, <1>3, <1>4, <1>5 DEF Talk

LEMMA TokenLine ==
  ASSUME TypeOK, NEW c \in Client, LineInv(c), ServerHandleToken(c)
  PROVE  LineInv(c)'
  <1> DEFINE p == Down("token")
  <1> DEFINE e == Append(down[c], p)
  <1>1. /\ up[c] # <<>> /\ Head(up[c]).cmd = "token" /\ c \in Listed
        /\ up'[c] = Tail(up[c]) /\ down'[c] = e
        /\ UNCHANGED <<serverVars, clientVars, boundVars>>
    BY PacketFacts DEF ServerHandleToken, ServerHas, ServerReads, TypeOK, Queue
  <1>2. Exchange(Head(up[c])) /\ p \in DownPacket /\ down[c] \in Seq(DownPacket)
    BY <1>1, PacketTypes DEF Exchange, TypeOK
  <1>3. /\ Quiet(down[c]) /\ Single(down[c]) => Single(e)
        /\ Proper(down[c]) => Proper(e)
        /\ Grants(e) <=> Grants(down[c])
        /\ Covered(down[c]) => Covered(e)
    BY <1>2, AppendLine, PacketFacts
  <1> HIDE DEF e, p
  <1>4. Good(c, Tail(up[c]), e)
    <2>1. Proper(e)
      BY <1>3 DEF LineInv
    <2>2. phase[c] = "connected" => Talk(c, Tail(up[c]), e)
      BY <1>1, <1>2, <1>3, Asked DEF Talk, LineInv
    <2>3. QED
      BY <2>1, <2>2 DEF Good
  <1>5. Plain(up[c]) => Plain(Tail(up[c]))
    BY <1>1, LineGood, ReadGood
  <1>6. QED
    BY <1>1, <1>4, <1>5, Served DEF serverVars, clientVars, Listed

\* Whoever is admitted finds the reply behind what he has been sent.
LEMMA AdmitLine ==
  ASSUME TypeOK, NEW c \in Client, LineInv(c), ServerHandleAuth(c), Judges(c), Admit(c)
  PROVE  LineInv(c)'
  <1>1. PICK id \in Id \union {NoPlayer} :
          down' = [down EXCEPT ![c] =
                     SendAuth(IF id = NoPlayer THEN @ ELSE Append(@, Down("objectsList")), "ok", id)]
    BY DEF Admit
  <1> DEFINE d == IF id = NoPlayer THEN down[c] ELSE Append(down[c], Down("objectsList"))
  <1> DEFINE p == AuthReply("ok", IF id = NoPlayer THEN 0 ELSE id)
  <1> DEFINE e == Append(d, p)
  <1>2. /\ up[c] # <<>> /\ Head(up[c]).cmd = "auth" /\ c \in Listed
        /\ up'[c] = Tail(up[c]) /\ down'[c] = e /\ sAuth'[c] = "ok"
        /\ UNCHANGED <<conns, clientVars>>
    BY <1>1 DEF ServerHandleAuth, ServerHas, ServerReads, TypeOK, SendAuth, Admit
  <1>3. Exchange(Head(up[c])) /\ down[c] \in Seq(DownPacket)
    BY <1>2 DEF Exchange, TypeOK
  <1>4. /\ d \in Seq(DownPacket)
        /\ Quiet(down[c]) => Quiet(d)
        /\ Single(down[c]) => Single(d)
        /\ Proper(down[c]) => Proper(d)
        /\ Covered(down[c]) => Covered(d)
    <2> DEFINE q == Down("objectsList")
    <2>1. q \in DownPacket /\ ~Exchange(q) /\ q.status = "none" /\ ~NeedsAuth(q)
      BY PacketTypes, PacketFacts
    <2> HIDE DEF q
    <2>2. CASE id = NoPlayer
      BY <1>3, <2>2
    <2>3. CASE id # NoPlayer
      <3>1. d = Append(down[c], q)
        BY <2>3 DEF q
      <3>2. QED
        BY <1>3, <2>1, <3>1, AppendLine, AppendProperties
    <2>4. QED
      BY <2>2, <2>3
  <1>5. p \in DownPacket /\ Exchange(p) /\ p.cmd = "auth" /\ p.status = "ok" /\ ~NeedsAuth(p)
    <2>1. (IF id = NoPlayer THEN 0 ELSE id) \in Id /\ "ok" \in Auth
      BY Constants DEF Auth
    <2>2. QED
      BY <2>1, PacketTypes, PacketFacts
  <1> HIDE DEF d, p
  <1>6. /\ Quiet(d) /\ Single(d) => Single(e)
        /\ Proper(d) => Proper(e)
        /\ Grants(e)
        /\ Covered(d) => Covered(e)
    BY <1>4, <1>5, AppendLine
  <1> HIDE DEF e
  <1>7. Proper(down'[c])
    BY <1>2, <1>4, <1>6 DEF LineInv
  <1>8. phase'[c] = "connected" => Talk(c, up[c], down[c])'
    BY <1>2, <1>3, <1>4, <1>6, Asked DEF Talk, clientVars, Listed
  <1>9. QED
    BY <1>2, <1>7, <1>8 DEF LineInv, Present, clientVars, Listed

LEMMA RefuseLine ==
  ASSUME TypeOK, NEW c \in Client, LineInv(c), ServerHandleAuth(c), Judges(c),
         NEW status \in Auth \ {"ok"}, Refuse(c, status)
  PROVE  LineInv(c)'
  <1> DEFINE p == AuthReply(status, IF player[c] = NoPlayer THEN 0 ELSE player[c])
  <1> DEFINE e == Append(down[c], p)
  <1>2. /\ up[c] # <<>> /\ Head(up[c]).cmd = "auth" /\ c \in Listed
        /\ up'[c] = Tail(up[c]) /\ down'[c] = e /\ sAuth'[c] # "ok"
        /\ UNCHANGED <<conns, clientVars>>
    BY DEF ServerHandleAuth, ServerHas, ServerReads, TypeOK, SendAuth, Refuse
  <1>3. Exchange(Head(up[c])) /\ down[c] \in Seq(DownPacket)
    BY <1>2 DEF Exchange, TypeOK
  <1>5. p \in DownPacket /\ Exchange(p) /\ p.cmd = "auth" /\ p.status # "ok" /\ ~NeedsAuth(p)
    <2>1. (IF player[c] = NoPlayer THEN 0 ELSE player[c]) \in Id
      BY Constants DEF TypeOK
    <2>2. QED
      BY <2>1, PacketTypes, PacketFacts
  <1> HIDE DEF p
  <1>6. /\ Quiet(down[c]) /\ Single(down[c]) => Single(e)
        /\ Proper(down[c]) => Proper(e)
        /\ Grants(e) <=> Grants(down[c])
        /\ Covered(down[c]) => Covered(e)
    BY <1>3, <1>5, AppendLine
  <1> HIDE DEF e
  <1>7. Proper(down'[c])
    BY <1>2, <1>6 DEF LineInv
  <1>8. phase'[c] = "connected" => Talk(c, up[c], down[c])'
    BY <1>2, <1>3, <1>6, Asked DEF Talk, clientVars, Listed
  <1>9. Present(c)'
    <2>1. Plain(up[c])
      BY <1>2 DEF LineInv, Present, Judges
    <2>2. Plain(Tail(up[c]))
      BY <1>2, <2>1, LineGood, ReadGood
    <2>3. QED
      BY <1>2, <2>2 DEF Present
  <1>10. QED
    BY <1>2, <1>7, <1>8, <1>9 DEF LineInv, clientVars, Listed

LEMMA AuthLine ==
  ASSUME TypeOK, NEW c \in Client, LineInv(c), ServerHandleAuth(c)
  PROVE  LineInv(c)'
  <1>1. CASE ~Judges(c) /\ UNCHANGED <<sAuth, sStop, player, down>>
    <2>1. /\ c \in Listed /\ up[c] # <<>> /\ up'[c] = Tail(up[c])
          /\ UNCHANGED <<conns, clientVars>>
      BY DEF ServerHandleAuth, ServerHas, ServerReads, TypeOK
    <2>2. Good(c, Tail(up[c]), down[c]) /\ (Plain(up[c]) => Plain(Tail(up[c])))
      BY <2>1, LineGood, ReadGood
    <2>3. QED
      BY <1>1, <2>1, <2>2, Served DEF clientVars, Listed
  <1>2. QED
    BY <1>1, JudgeCases, AdmitLine, RefuseLine

\* A connection on which the server does no more than tell everybody.
LEMMA ToldLine ==
  ASSUME TypeOK, NEW c \in Client, LineInv(c), UNCHANGED clientVars,
         NEW d \in [Client -> Seq(DownPacket)], d[c] = down[c],
         down'[c] = down[c] \/ down'[c] = Broadcast(d)[c],
         up'[c] = up[c], sAuth'[c] = sAuth[c], player'[c] = player[c],
         (c \in Listed)' <=> c \in Listed, (c \in removed)' <=> c \in removed, Hosting' => Hosting
  PROVE  LineInv(c)'
  <1>1. Good(c, up[c], down[c])
    BY LineGood
  <1>2. Good(c, up[c], down'[c]) /\ (c \notin Listed => down'[c] = down[c])
    BY <1>1, BroadcastGood
  <1>3. CASE c \in Listed
    BY <1>2, <1>3, Served DEF clientVars
  <1>4. CASE c \notin Listed
    <2>1. down'[c] = down[c]
      BY <1>2, <1>4
    <2>2. QED
      BY <2>1, Untouched DEF clientVars
  <1>5. QED
    BY <1>3, <1>4

LEMMA MapLine ==
  ASSUME TypeOK, ExchangeInv, NEW c \in Client, ServerHandleMapRequest(c)
  PROVE  ExchangeInv'
  <1>1. /\ up[c] # <<>> /\ up'[c] = Tail(up[c]) /\ c \in Listed
        /\ \A e \in Client \ {c} : up'[e] = up[e]
        /\ UNCHANGED <<host, conns, removed, sAuth, player, clientVars>>
    BY DEF ServerHandleMapRequest, ServerHas, ServerReads, TypeOK
  <1>2. LineInv(c) /\ (Plain(up[c]) => Plain(Tail(up[c])))
    BY <1>1, LineGood, ReadGood DEF ExchangeInv
  <1>3. Good(c, Tail(up[c]), down[c])
    BY <1>1, <1>2, LineGood, ReadGood
  <1>4. NoneTwice'
    BY <1>1 DEF ExchangeInv, NoneTwice
  <1>5. CASE UNCHANGED down
    <2>1. LineInv(c)'
      BY <1>1, <1>2, <1>3, <1>5, Served DEF clientVars, Listed
    <2>2. \A e \in Client \ {c} : LineInv(e)'
      BY <1>1, <1>5, Untouched DEF ExchangeInv, clientVars, Listed, Hosting
    <2>3. QED
      BY <1>4, <2>1, <2>2 DEF ExchangeInv
  <1>6. CASE SendMap(c)
    <2>1. PICK saved \in BOOLEAN :
            LET mapped == IF saved THEN [down EXCEPT ![c] = Queue(@, sAuth[c], Down("map"))] ELSE down
                told == Broadcast(mapped)
            IN down' = [told EXCEPT ![c] = Queue(@, sAuth[c], Down("session"))]
      BY <1>6 DEF SendMap
    <2> DEFINE mapped == IF saved THEN [down EXCEPT ![c] = Queue(@, sAuth[c], Down("map"))] ELSE down
    <2> DEFINE told == Broadcast(mapped)
    <2>2. /\ mapped \in [Client -> Seq(DownPacket)] /\ Good(c, Tail(up[c]), mapped[c])
          /\ \A e \in Client \ {c} : mapped[e] = down[e]
      <3>1. /\ Good(c, Tail(up[c]), Queue(down[c], sAuth[c], Down("map")))
            /\ Queue(down[c], sAuth[c], Down("map")) \in Seq(DownPacket)
        BY <1>1, <1>3, QueueGood DEF TypeOK
      <3>2. QED
        BY <1>3, <3>1 DEF TypeOK
    <2>3. down' = [told EXCEPT ![c] = Queue(told[c], sAuth[c], Down("session"))]
      BY <2>1
    <2> HIDE DEF mapped
    <2>4. told \in [Client -> Seq(DownPacket)] /\ Good(c, Tail(up[c]), told[c])
      BY <2>2, BroadcastTypes, BroadcastGood
    <2> HIDE DEF told
    <2>5. Good(c, Tail(up[c]), down'[c])
      <3>1. Good(c, Tail(up[c]), Queue(told[c], sAuth[c], Down("session")))
        BY <1>1, <2>4, QueueGood
      <3>2. QED
        BY <2>3, <2>4, <3>1
    <2>6. LineInv(c)'
      BY <1>1, <1>2, <2>5, Served DEF clientVars, Listed
    <2>7. \A e \in Client \ {c} : down'[e] = Broadcast(mapped)[e]
      BY <2>3, <2>4 DEF told
    <2>8. \A e \in Client \ {c} : LineInv(e)'
      BY <1>1, <2>2, <2>7, ToldLine DEF ExchangeInv, Listed, Hosting
    <2>9. QED
      BY <1>4, <2>6, <2>8 DEF ExchangeInv
  <1>7. QED
    BY <1>5, <1>6 DEF ServerHandleMapRequest

LEMMA ServerLines ==
  ASSUME TypeOK, ExchangeInv, NEW c \in Client, ServerProcesses(c)
  PROVE  ExchangeInv'
  <1>1. CASE ServerHandleToken(c) \/ ServerHandleAuth(c)
    <2>1. LineInv(c)'
      BY <1>1, TokenLine, AuthLine DEF ExchangeInv
    <2>2. /\ \A e \in Client \ {c} : /\ up'[e] = up[e] /\ down'[e] = down[e]
                                     /\ sAuth'[e] = sAuth[e] /\ player'[e] = player[e]
          /\ UNCHANGED <<host, conns, removed, clientVars>>
      <3>1. CASE ServerHandleToken(c)
        BY <3>1 DEF ServerHandleToken, ServerReads, serverVars, TypeOK
      <3>2. CASE ServerHandleAuth(c)
        BY <3>2, JudgeCases DEF ServerHandleAuth, ServerReads, Admit, Refuse, TypeOK
      <3>3. QED
        BY <1>1, <3>1, <3>2
    <2>3. \A e \in Client \ {c} : LineInv(e)'
      BY <2>2, Untouched DEF ExchangeInv, clientVars, Listed, Hosting
    <2>4. NoneTwice'
      BY <2>2 DEF ExchangeInv, NoneTwice
    <2>5. QED
      BY <2>1, <2>3, <2>4 DEF ExchangeInv
  <1>2. CASE ServerHandleSession(c)
    <2>1. /\ up[c] # <<>> /\ up'[c] = Tail(up[c]) /\ c \in Listed
          /\ \A e \in Client \ {c} : up'[e] = up[e]
          /\ UNCHANGED <<host, conns, removed, sAuth, player, clientVars, down>>
      BY <1>2 DEF ServerHandleSession, ServerHas, ServerReads, TypeOK
    <2>2. LineInv(c) /\ Good(c, up[c], down[c])
      BY LineGood DEF ExchangeInv
    <2>3. Good(c, Tail(up[c]), down[c]) /\ (Plain(up[c]) => Plain(Tail(up[c])))
      BY <2>1, <2>2, ReadGood
    <2>4. LineInv(c)'
      BY <2>1, <2>2, <2>3, Served DEF clientVars, Listed
    <2>5. \A e \in Client \ {c} : LineInv(e)'
      BY <2>1, Untouched DEF ExchangeInv, clientVars, Listed, Hosting
    <2>6. NoneTwice'
      BY <2>1 DEF ExchangeInv, NoneTwice
    <2>7. QED
      BY <2>4, <2>5, <2>6 DEF ExchangeInv
  <1>3. QED
    BY <1>1, <1>2, MapLine DEF ServerProcesses

-----------------------------------------------------------------------------
(* The steps of the list. *)

\* A connection that goes is not there a second time.
LEMMA EraseOnce ==
  ASSUME TypeOK, NoneTwice, NEW c \in Client, Erase(c)
  PROVE  NoneTwice' /\ Listed' = Listed \ {c}
  <1>1. PICK i \in DOMAIN conns :
          conns[i] = c /\ conns' = SubSeq(conns, 1, i - 1) \o SubSeq(conns, i + 1, Len(conns))
    BY DEF Erase
  <1> DEFINE n == Len(conns)
  <1> DEFINE before == SubSeq(conns, 1, i - 1)
  <1> DEFINE after == SubSeq(conns, i + 1, n)
  <1>2. n \in Nat /\ DOMAIN conns = 1 .. n /\ i \in 1 .. n /\ conns \in Seq(Client)
    BY LenProperties DEF TypeOK
  <1>3. /\ before \in Seq(Client) /\ Len(before) = i - 1 /\ \A k \in 1 .. i - 1 : before[k] = conns[k]
        /\ after \in Seq(Client) /\ Len(after) = n - i /\ \A k \in 1 .. n - i : after[k] = conns[i + k]
    <2>1. /\ 1 \in 1 .. n + 1 /\ i - 1 \in 1 - 1 .. n
          /\ i + 1 \in 1 .. n + 1 /\ n \in (i + 1) - 1 .. n
          /\ \A k \in 1 .. i - 1 : k \in 1 .. n /\ 1 + k - 1 = k
          /\ \A k \in 1 .. n - i : i + k \in 1 .. n /\ (i + 1) + k - 1 = i + k
          /\ \A k \in 1 .. n : conns[k] \in Client
      BY <1>2
    <2>2. QED
      BY <1>2, <2>1, SubSeqProperties
  <1>4. /\ Len(conns') = n - 1 /\ DOMAIN conns' = 1 .. n - 1
        /\ \A k \in 1 .. n - 1 : conns'[k] = IF k <= i - 1 THEN conns[k] ELSE conns[k + 1]
    <2> HIDE DEF before, after
    <2>1. conns' = before \o after
      BY <1>1 DEF before, after, n
    <2>2. /\ Len(conns') = Len(before) + Len(after) /\ conns' \in Seq(Client)
          /\ \A k \in 1 .. Len(before) + Len(after) :
               conns'[k] = IF k <= Len(before) THEN before[k] ELSE after[k - Len(before)]
      BY <1>3, <2>1, ConcatProperties
    <2>3. Len(conns') = n - 1 /\ Len(before) + Len(after) = n - 1
      BY <1>2, <1>3, <2>2
    <2>4. DOMAIN conns' = 1 .. n - 1
      BY <2>2, <2>3, LenProperties
    <2>5. ASSUME NEW k \in 1 .. n - 1, k <= i - 1 PROVE conns'[k] = conns[k]
      <3>1. k \in 1 .. i - 1
        BY <1>2, <2>5
      <3>2. QED
        BY <1>3, <2>2, <2>3, <2>5, <3>1
    <2>6. ASSUME NEW k \in 1 .. n - 1, ~(k <= i - 1) PROVE conns'[k] = conns[k + 1]
      <3>1. k - (i - 1) \in 1 .. n - i /\ i + (k - (i - 1)) = k + 1
        BY <1>2, <2>6
      <3>2. after[k - (i - 1)] = conns[k + 1]
        BY <1>3, <3>1
      <3>3. QED
        BY <1>3, <2>2, <2>3, <2>6, <3>2
    <2>7. QED
      BY <2>3, <2>4, <2>5, <2>6
  <1> HIDE DEF before, after, n
  <1>5. \A k \in 1 .. n - 1 : \E m \in 1 .. n \ {i} :
          m = (IF k <= i - 1 THEN k ELSE k + 1) /\ conns'[k] = conns[m]
    BY <1>2, <1>4
  <1>6. \A m \in 1 .. n \ {i} : \E k \in 1 .. n - 1 : conns'[k] = conns[m]
    <2> SUFFICES ASSUME NEW m \in 1 .. n \ {i} PROVE \E k \in 1 .. n - 1 : conns'[k] = conns[m]
      OBVIOUS
    <2>1. CASE m < i
      <3>1. m \in 1 .. n - 1 /\ m <= i - 1
        BY <1>2, <2>1
      <3>2. QED
        BY <1>4, <3>1
    <2>2. CASE m > i
      <3>1. m - 1 \in 1 .. n - 1 /\ ~(m - 1 <= i - 1) /\ (m - 1) + 1 = m
        BY <1>2, <2>2
      <3>2. QED
        BY <1>4, <3>1
    <2>3. QED
      BY <1>2, <2>1, <2>2
  <1>7. NoneTwice'
    <2> SUFFICES ASSUME NEW j \in 1 .. n - 1, NEW k \in 1 .. n - 1, conns'[j] = conns'[k] PROVE j = k
      BY <1>4 DEF NoneTwice
    <2>1. (IF j <= i - 1 THEN j ELSE j + 1) = (IF k <= i - 1 THEN k ELSE k + 1)
      BY <1>2, <1>5 DEF NoneTwice
    <2>2. QED
      BY <1>2, <2>1
  <1>8. Listed' = Listed \ {c}
    <2>1. \A m \in 1 .. n : conns[m] = c => m = i
      BY <1>1, <1>2 DEF NoneTwice
    <2>2. /\ Listed = {conns[m] : m \in 1 .. n}
          /\ Listed' = {conns'[k] : k \in 1 .. n - 1}
      BY <1>2, <1>4 DEF Listed
    <2>3. ASSUME NEW d \in Listed' PROVE d \in Listed \ {c}
      <3>1. PICK k \in 1 .. n - 1 : d = conns'[k]
        BY <2>2
      <3>2. PICK m \in 1 .. n \ {i} : conns'[k] = conns[m]
        BY <1>5
      <3>3. QED
        BY <2>1, <2>2, <3>1, <3>2
    <2>4. ASSUME NEW d \in Listed, d # c PROVE d \in Listed'
      <3>1. PICK m \in 1 .. n : d = conns[m]
        BY <2>2
      <3>2. m \in 1 .. n \ {i}
        BY <1>1, <2>4, <3>1
      <3>3. QED
        BY <1>6, <2>2, <3>1, <3>2
    <2>5. QED
      BY <2>3, <2>4
  <1>9. QED
    BY <1>7, <1>8

LEMMA DropLines ==
  ASSUME TypeOK, ExchangeInv, NEW c \in Client, Drop(c)
  PROVE  ExchangeInv'
  <1>1. /\ NoneTwice' /\ Listed' = Listed \ {c}
        /\ removed' = removed \union {c} /\ up'[c] = <<>> /\ down'[c] = down[c]
        /\ sAuth'[c] = "none" /\ player'[c] = NoPlayer
        /\ \A e \in Client \ {c} : up'[e] = up[e] /\ sAuth'[e] = sAuth[e] /\ player'[e] = player[e]
        /\ UNCHANGED <<host, clientVars>>
    <2>1. NoneTwice' /\ Listed' = Listed \ {c}
      BY EraseOnce DEF ExchangeInv, Drop
    <2>2. Broadcast(down) \in [Client -> Seq(DownPacket)]
      BY BroadcastTypes DEF TypeOK
    <2>3. down'[c] = down[c]
      BY <2>2 DEF Drop
    <2>4. QED
      BY <2>1, <2>3 DEF Drop, Erase, TypeOK
  <1>2. LineInv(c)'
    <2>1. LineInv(c) /\ c \in Listed
      BY DEF ExchangeInv, Drop
    <2>2. phase[c] = "connected" => Talk(c, <<>>, down[c])'
      BY <1>1, <2>1, EmptyLine DEF LineInv, Talk, clientVars
    <2>3. phase[c] # "away" /\ Proper(down[c])
      BY <2>1 DEF LineInv
    <2>4. QED
      BY <1>1, <2>2, <2>3 DEF LineInv, Absent, clientVars
  <1>3. ASSUME NEW e \in Client \ {c} PROVE LineInv(e)'
    <2>1. down'[e] = down[e] \/ down'[e] = Broadcast(down)[e]
      <3>1. Broadcast(down) \in [Client -> Seq(DownPacket)]
        BY BroadcastTypes DEF TypeOK
      <3>2. QED
        BY <3>1 DEF Drop
    <2>2. (e \in Listed)' <=> e \in Listed
      BY <1>1
    <2>3. (e \in removed)' <=> e \in removed
      BY <1>1
    <2>4. LineInv(e) /\ down \in [Client -> Seq(DownPacket)]
      BY DEF ExchangeInv, TypeOK
    <2>5. QED
      BY <1>1, <2>1, <2>2, <2>3, <2>4, ToldLine DEF Hosting
  <1>4. QED
    BY <1>1, <1>2, <1>3 DEF ExchangeInv

LEMMA AcceptLines ==
  ASSUME TypeOK, ExchangeInv, NEW c \in Client, Accept(c)
  PROVE  ExchangeInv'
  <1>1. /\ Hosting /\ phase[c] # "away" /\ c \notin Listed /\ c \notin removed
        /\ UNCHANGED <<host, removed, sAuth, sStop, player, clientVars, down, up, boundVars>>
    BY DEF Accept
  <1>2. /\ Len(conns) \in Nat /\ DOMAIN conns = 1 .. Len(conns) /\ DOMAIN conns' = 1 .. Len(conns) + 1
        /\ \A i \in 1 .. Len(conns) : conns'[i] = conns[i]
        /\ conns'[Len(conns) + 1] = c
    BY AppendProperties, LenProperties DEF Accept, TypeOK
  <1>3. Listed' = Listed \union {c}
    <2>1. /\ Listed = {conns[i] : i \in 1 .. Len(conns)}
          /\ Listed' = {conns'[i] : i \in 1 .. Len(conns) + 1}
      BY <1>2 DEF Listed
    <2>2. QED
      BY <1>2, <2>1
  <1>4. NoneTwice'
    <2>1. \A i \in 1 .. Len(conns) : conns[i] # c
      BY <1>1, <1>2 DEF Listed
    <2>2. \A i \in 1 .. Len(conns) + 1 : i \in 1 .. Len(conns) \/ i = Len(conns) + 1
      BY <1>2
    <2>3. QED
      BY <1>2, <2>1, <2>2 DEF ExchangeInv, NoneTwice
  <1>5. LineInv(c)'
    <2>1. LineInv(c) /\ Fresh(c) /\ Absent(c)
      BY <1>1 DEF ExchangeInv, LineInv
    <2>2. phase[c] = "connected" => Talk(c, up[c], down[c])'
      BY <1>1, <2>1, EmptyLine DEF LineInv, Talk, Fresh, Absent, clientVars
    <2>3. Present(c)' /\ Proper(down'[c])
      BY <1>1, <2>1 DEF Present, Fresh, LineInv
    <2>4. QED
      BY <1>1, <1>3, <2>2, <2>3 DEF LineInv, clientVars
  <1>6. ASSUME NEW e \in Client \ {c} PROVE LineInv(e)'
    BY <1>1, <1>3, Untouched DEF ExchangeInv, clientVars, Hosting
  <1>7. QED
    BY <1>4, <1>5, <1>6 DEF ExchangeInv

LEMMA KickLines ==
  ASSUME TypeOK, ExchangeInv, NEW c \in Client, Kick(c)
  PROVE  ExchangeInv'
  <1>1. /\ c \in Listed /\ down'[c] = Queue(down[c], sAuth[c], Down("session"))
        /\ \A e \in Client \ {c} : down'[e] = down[e]
        /\ UNCHANGED <<host, conns, removed, sAuth, player, clientVars, up>>
    BY DEF Kick, TypeOK
  <1>2. LineInv(c) /\ Good(c, up[c], down[c]) /\ down[c] \in Seq(DownPacket)
    BY LineGood DEF ExchangeInv, TypeOK
  <1>3. Good(c, up[c], down'[c])
    BY <1>1, <1>2, QueueGood
  <1>4. LineInv(c)'
    BY <1>1, <1>2, <1>3, Served DEF clientVars, Listed
  <1>5. \A e \in Client \ {c} : LineInv(e)'
    BY <1>1, Untouched DEF ExchangeInv, clientVars, Listed, Hosting
  <1>6. QED
    BY <1>1, <1>4, <1>5 DEF ExchangeInv, NoneTwice

LEMMA HostLines ==
  ASSUME TypeOK, ExchangeInv, HostSends \/ Gone
  PROVE  ExchangeInv'
  <1>1. CASE HostSends
    <2>1. \A c \in Client : LineInv(c)'
      BY <1>1, ToldLine DEF HostSends, ExchangeInv, serverVars, Listed, Hosting, TypeOK
    <2>2. QED
      BY <1>1, <2>1 DEF HostSends, ExchangeInv, NoneTwice, serverVars
  <1>2. CASE Gone
    <2>1. /\ conns' = <<>> /\ ~Hosting' /\ UNCHANGED <<removed, clientVars, down>>
          /\ \A c \in Client : player'[c] = NoPlayer /\ sAuth'[c] = "none" /\ up'[c] = <<>>
      BY <1>2 DEF Gone, Hosting
    <2>2. Listed' = {} /\ NoneTwice'
      BY <2>1 DEF Listed, NoneTwice
    <2>3. ASSUME NEW c \in Client PROVE LineInv(c)'
      <3>1. LineInv(c)
        BY DEF ExchangeInv
      <3>2. phase[c] = "connected" => Talk(c, <<>>, down[c])'
        BY <2>1, <2>2, <3>1, EmptyLine DEF LineInv, Talk, clientVars
      <3>3. QED
        BY <2>1, <2>2, <3>1, <3>2 DEF LineInv, Absent, clientVars
    <2>4. QED
      BY <2>2, <2>3 DEF ExchangeInv
  <1>3. QED
    BY <1>1, <1>2

-----------------------------------------------------------------------------
(* The steps of a client. *)

\* The others have no part in them.
LEMMA OthersLines ==
  ASSUME TypeOK, ExchangeInv, NEW c \in Client, LineInv(c)', UNCHANGED serverVars,
         \A e \in Client \ {c} :
           /\ phase'[e] = phase[e] /\ up'[e] = up[e] /\ down'[e] = down[e] /\ cAuth'[e] = cAuth[e]
           /\ dialog'[e] = dialog[e] /\ mapLoaded'[e] = mapLoaded[e]
  PROVE  ExchangeInv'
  <1>1. \A e \in Client \ {c} : LineInv(e)'
    BY Untouched DEF ExchangeInv, serverVars, Listed, Hosting
  <1>2. NoneTwice'
    BY DEF ExchangeInv, NoneTwice, serverVars
  <1>3. QED
    BY <1>1, <1>2 DEF ExchangeInv

\* A client that closes leaves nothing to be read.
LEMMA CloseLine ==
  ASSUME TypeOK, NEW c \in Client, LineInv(c), phase[c] # "away", Close(c), UNCHANGED serverVars
  PROVE  LineInv(c)'
  <1>1. phase'[c] = "closed" /\ down'[c] = <<>> /\ cAuth'[c] = "none" /\ up'[c] = up[c]
    BY DEF Close, TypeOK
  <1>2. Proper(down'[c])
    BY <1>1, EmptyLine
  <1>3. Fresh(c) => Fresh(c)'
    BY <1>1 DEF Fresh
  <1>4. (Absent(c) => Absent(c)') /\ (Present(c) => Present(c)')
    BY <1>1 DEF Absent, Present, serverVars
  <1>5. (c \in Listed)' <=> c \in Listed
    BY DEF Listed, serverVars
  <1>6. QED
    BY <1>1, <1>2, <1>3, <1>4, <1>5 DEF LineInv, serverVars, Hosting

\* A connected client goes on with other packets.
LEMMA TalkLine ==
  ASSUME TypeOK, NEW c \in Client, LineInv(c), phase[c] = "connected", phase'[c] = phase[c],
         UNCHANGED serverVars, Proper(down'[c]), Talk(c, up[c], down[c])',
         Fresh(c) => Fresh(c)', Plain(up'[c]) \/ ~Plain(up[c]) \/ sAuth[c] = "ok"
  PROVE  LineInv(c)'
  <1>1. (Absent(c) => Absent(c)') /\ (Present(c) => Present(c)')
    BY DEF Absent, Present, serverVars
  <1>2. (c \in Listed)' <=> c \in Listed
    BY DEF Listed, serverVars
  <1>3. QED
    BY <1>1, <1>2 DEF LineInv, serverVars, Hosting

\* What a client has read, if it was no reply.
LEMMA ReadLine ==
  ASSUME TypeOK, NEW c \in Client, LineInv(c), phase[c] = "connected", down[c] # <<>>
  PROVE  /\ Quiet(down[c]) => Quiet(Tail(down[c]))
         /\ Single(Tail(down[c])) /\ Proper(Tail(down[c])) /\ ~Fresh(c)
         /\ Exchange(Head(down[c])) =>
              Quiet(up[c]) /\ Quiet(Tail(down[c])) /\ ~dialog[c] /\ cAuth[c] # "ok" /\ ~mapLoaded[c]
         /\ Head(down[c]).cmd # "auth" => Head(down[c]).status = "none"
         /\ Head(down[c]).status # "ok" =>
              /\ Grants(Tail(down[c])) <=> Grants(down[c])
              /\ cAuth[c] = "ok" \/ (Covered(Tail(down[c])) /\ ~NeedsAuth(Head(down[c])))
  <1>1. down[c] \in Seq(DownPacket)
    BY DEF TypeOK
  <1>2. /\ Proper(down[c]) /\ Single(down[c]) /\ (Quiet(up[c]) \/ Quiet(down[c]))
        /\ dialog[c] \/ cAuth[c] = "ok" => Quiet(up[c]) /\ Quiet(down[c])
        /\ cAuth[c] = "ok" \/ Covered(down[c])
        /\ mapLoaded[c] => cAuth[c] = "ok"
    BY DEF LineInv, Talk
  <1>3. Quiet(down[c]) => ~Exchange(Head(down[c]))
    BY <1>1, TailLine
  <1>4. /\ Quiet(down[c]) => Quiet(Tail(down[c]))
        /\ Single(Tail(down[c])) /\ (Exchange(Head(down[c])) => Quiet(Tail(down[c])))
        /\ Proper(Tail(down[c])) /\ (Head(down[c]).status # "none" => Head(down[c]).cmd = "auth")
        /\ Grants(down[c]) <=> Grants(Tail(down[c])) \/ Head(down[c]).status = "ok"
        /\ Covered(down[c]) /\ Head(down[c]).status # "ok" =>
             Covered(Tail(down[c])) /\ ~NeedsAuth(Head(down[c]))
    BY <1>1, <1>2, TailLine
  <1>5. QED
    BY <1>2, <1>3, <1>4 DEF Fresh

LEMMA AnswerLine ==
  ASSUME TypeOK, NEW c \in Client, LineInv(c), phase[c] = "connected", down[c] # <<>>,
         UNCHANGED <<serverVars, mapLoaded>>, Head(down[c]).cmd # "auth",
         NEW packet \in UpPacket, ~NeedsAuth(packet), Exchange(packet) => Exchange(Head(down[c])),
         Answer(c, packet)
  PROVE  LineInv(c)'
  <1>1. CASE Close(c)
    BY <1>1, CloseLine
  <1>2. CASE ~Close(c)
    <2> DEFINE e == Append(up[c], packet)
    <2>1. /\ up'[c] = e /\ down'[c] = Tail(down[c])
          /\ UNCHANGED <<phase, cAuth, cStop, dialog>>
      BY <1>2 DEF Answer, ClientReads, Queue, TypeOK
    <2>2. /\ Quiet(e) <=> Quiet(up[c]) /\ ~Exchange(packet)
          /\ Plain(e) <=> Plain(up[c])
          /\ Single(up[c]) /\ (~Exchange(packet) \/ Quiet(up[c])) => Single(e)
      <3>1. up[c] \in Seq(UpPacket)
        BY DEF TypeOK
      <3>2. QED
        BY <3>1, AppendLine
    <2> HIDE DEF e
    <2>3. Talk(c, up[c], down[c])'
      BY <2>1, <2>2, ReadLine DEF Talk, LineInv, Listed, serverVars
    <2>4. QED
      BY <2>1, <2>2, <2>3, ReadLine, TalkLine
  <1>3. QED
    BY <1>1, <1>2

LEMMA GoOnLine ==
  ASSUME TypeOK, NEW c \in Client, LineInv(c), phase[c] = "connected", down[c] # <<>>,
         UNCHANGED serverVars, NEW auth \in Auth, NEW opens \in BOOLEAN,
         \/ /\ Head(down[c]).cmd # "auth" /\ auth = cAuth[c] /\ ~opens
            /\ mapLoaded'[c] => mapLoaded[c] \/ cAuth[c] = "ok"
         \/ /\ Head(down[c]).cmd = "auth" /\ auth = Head(down[c]).status
            /\ auth \in {"ok", "requirePassword"} /\ (opens <=> auth = "requirePassword")
            /\ mapLoaded'[c] <=> mapLoaded[c],
         GoOn(c, auth, opens)
  PROVE  LineInv(c)'
  <1>1. CASE Close(c)
    BY <1>1, CloseLine
  <1>2. CASE ~Close(c)
    <2>1. /\ down'[c] = Tail(down[c]) /\ cAuth'[c] = auth /\ UNCHANGED <<phase, cStop, up>>
      BY <1>2 DEF GoOn, ClientReads, TypeOK
    <2>2. dialog'[c] <=> dialog[c] \/ opens
      <3>1. dialog' = [dialog EXCEPT ![c] = dialog[c] \/ opens]
        BY <1>2, Zenon DEF GoOn
      <3>2. dialog \in [Client -> BOOLEAN]
        BY DEF TypeOK
      <3>3. QED
        BY <3>1, <3>2, Zenon
    <2>3. (c \in Listed)' <=> c \in Listed
      BY DEF Listed, serverVars
    <2>4. Talk(c, up[c], down[c])'
      <3>1. CASE Head(down[c]).cmd # "auth"
        BY <2>1, <2>2, <2>3, <3>1, ReadLine DEF Talk, LineInv, serverVars
      <3>2. CASE Head(down[c]).cmd = "auth"
        <4>1. Exchange(Head(down[c]))
          BY <3>2 DEF Exchange
        <4>2. Head(down[c]).status = "ok" => Grants(down[c])
          BY TailLine DEF TypeOK
        <4>3. QED
          BY <2>1, <2>2, <2>3, <3>2, <4>1, <4>2, ReadLine DEF Talk, LineInv, serverVars
      <3>3. QED
        BY <3>1, <3>2
    <2>5. QED
      BY <2>1, <2>4, ReadLine, TalkLine
  <1>3. QED
    BY <1>1, <1>2

LEMMA HandlerLines ==
  ASSUME TypeOK, ExchangeInv, NEW c \in Client, ClientProcesses(c)
  PROVE  ExchangeInv'
  <1> USE DEF ClientHas
  <1>1. /\ phase[c] = "connected" /\ down[c] # <<>> /\ LineInv(c)
        /\ UNCHANGED <<serverVars, login, boundVars>>
    BY DEF ClientProcesses, ClientHandleToken, ClientHandleAuth, ClientHandleObjectsList,
       ClientHandleMap, ClientHandleSession, ExchangeInv
  <1>2. CASE ClientHandleToken(c)
    <2>1. LineInv(c)'
      <3>1. CASE Close(c)
        BY <1>1, <3>1, CloseLine
      <3>2. CASE Answer(c, AuthRequest(login[c].password))
        <4>1. login[c].password \in Password
          BY Constants DEF TypeOK, NobodysLogin, Password
        <4>2. AuthRequest(login[c].password) \in UpPacket /\ ~NeedsAuth(AuthRequest(login[c].password))
          BY <4>1, PacketTypes, PacketFacts
        <4>3. Exchange(Head(down[c])) /\ Head(down[c]).cmd # "auth"
          BY <1>2 DEF ClientHandleToken, Exchange
        <4>4. QED
          BY <1>1, <1>2, <3>2, <4>2, <4>3, AnswerLine DEF ClientHandleToken
      <3>3. QED
        BY <1>2, <3>1, <3>2 DEF ClientHandleToken
    <2>2. QED
      BY <1>1, <1>2, <2>1, OthersLines DEF ClientHandleToken, Answer, ClientReads, Close, TypeOK
  <1>3. CASE ClientHandleObjectsList(c)
    <2>1. Up("mapRequest") \in UpPacket /\ ~NeedsAuth(Up("mapRequest")) /\ ~Exchange(Up("mapRequest"))
      BY PacketTypes, PacketFacts
    <2>2. LineInv(c)'
      BY <1>1, <1>3, <2>1, AnswerLine DEF ClientHandleObjectsList
    <2>3. QED
      BY <1>1, <1>3, <2>2, OthersLines DEF ClientHandleObjectsList, Answer, ClientReads, Close, TypeOK
  <1>4. ASSUME NEW auth, NEW opens, GoOn(c, auth, opens)
        PROVE  \A e \in Client \ {c} :
                 /\ phase'[e] = phase[e] /\ up'[e] = up[e] /\ down'[e] = down[e] /\ cAuth'[e] = cAuth[e]
                 /\ dialog'[e] = dialog[e]
    <2>1. CASE Close(c)
      BY <2>1 DEF Close, TypeOK
    <2>2. CASE ~Close(c)
      <3>1. dialog' = [dialog EXCEPT ![c] = dialog[c] \/ opens] /\ dialog \in [Client -> BOOLEAN]
        BY <1>4, <2>2, Zenon DEF GoOn, TypeOK
      <3>2. \A e \in Client \ {c} : dialog'[e] = dialog[e]
        BY <3>1, Zenon
      <3>3. /\ cAuth' = [cAuth EXCEPT ![c] = auth] /\ down' = [down EXCEPT ![c] = Tail(@)]
            /\ UNCHANGED <<phase, up>>
        BY <1>4, <2>2, Zenon DEF GoOn, ClientReads
      <3>4. QED
        BY <3>2, <3>3 DEF TypeOK
    <2>3. QED
      BY <2>1, <2>2
  <1>5. CASE ClientHandleAuth(c)
    <2> DEFINE status == Head(down[c]).status
    <2>1. status \in Auth /\ Head(down[c]).cmd = "auth" /\ UNCHANGED mapLoaded
      BY <1>5, HeadTypes DEF ClientHandleAuth, DownPacket
    <2>2. \/ status \in {"ok", "requirePassword"} /\ GoOn(c, status, status = "requirePassword")
          \/ Close(c)
      BY <1>5, Zenon DEF ClientHandleAuth
    <2>3. (status = "requirePassword") \in BOOLEAN
      OBVIOUS
    <2> HIDE DEF status
    <2>4. CASE Close(c)
      <3>1. LineInv(c)'
        BY <1>1, <2>4, CloseLine
      <3>2. QED
        BY <1>1, <2>1, <2>4, <3>1, OthersLines DEF Close, TypeOK
    <2>5. CASE status \in {"ok", "requirePassword"} /\ GoOn(c, status, status = "requirePassword")
      <3> DEFINE opens == status = "requirePassword"
      <3>1. opens \in BOOLEAN /\ GoOn(c, status, opens) /\ (opens <=> status = "requirePassword")
        BY <2>3, <2>5
      <3> HIDE DEF opens
      <3>2. LineInv(c)'
        BY <1>1, <2>1, <2>5, <3>1, GoOnLine DEF status
      <3>3. QED
        BY <1>1, <1>4, <2>1, <3>1, <3>2, OthersLines
    <2>6. QED
      BY <2>2, <2>4, <2>5
  <1>6. CASE ClientHandleMap(c) \/ ClientHandleSession(c)
    <2>1. GoOn(c, cAuth[c], FALSE) /\ Head(down[c]).cmd # "auth" /\ cAuth[c] \in Auth
      BY <1>6 DEF ClientHandleMap, ClientHandleSession, TypeOK
    <2>2. /\ mapLoaded'[c] => mapLoaded[c] \/ cAuth[c] = "ok"
          /\ \A e \in Client \ {c} : mapLoaded'[e] = mapLoaded[e]
      <3>1. CASE ClientHandleMap(c)
        <4>1. /\ mapLoaded' = [mapLoaded EXCEPT ![c] = mapLoaded[c] \/ cAuth[c] = "ok"]
              /\ mapLoaded \in [Client -> BOOLEAN]
          BY <3>1, Zenon DEF ClientHandleMap, TypeOK
        <4>2. QED
          BY <4>1, Zenon
      <3>2. CASE ClientHandleSession(c)
        BY <3>2 DEF ClientHandleSession
      <3>3. QED
        BY <1>6, <3>1, <3>2
    <2>3. LineInv(c)'
      BY <1>1, <2>1, <2>2, GoOnLine
    <2>4. QED
      BY <1>1, <1>4, <2>1, <2>2, <2>3, OthersLines
  <1>7. QED
    BY <1>2, <1>3, <1>5, <1>6 DEF ClientProcesses

\* A password goes out when nothing of the exchange is on the way.
LEMMA PasswordLines ==
  ASSUME TypeOK, ExchangeInv, NEW c \in Client, NEW password \in Password, EnterPassword(c, password)
  PROVE  ExchangeInv'
  <1> DEFINE p == AuthRequest(password)
  <1> DEFINE e == Append(up[c], p)
  <1>1. /\ phase[c] = "connected" /\ dialog[c] /\ ~dialog'[c] /\ cAuth'[c] = "requested"
        /\ up'[c] = up[c] \/ up'[c] = e
        /\ UNCHANGED <<serverVars, phase, login, cStop, cId, mapLoaded, down, boundVars>>
        /\ \A d \in Client \ {c} : up'[d] = up[d] /\ cAuth'[d] = cAuth[d] /\ dialog'[d] = dialog[d]
    BY PacketFacts DEF EnterPassword, TypeOK, Queue
  <1>2. p \in UpPacket /\ Exchange(p) /\ ~NeedsAuth(p) /\ up[c] \in Seq(UpPacket)
    BY PacketTypes, PacketFacts DEF TypeOK
  <1> HIDE DEF p
  <1>3. /\ Quiet(up[c]) /\ Single(up[c]) => Single(e)
        /\ Plain(e) <=> Plain(up[c])
    BY <1>2, AppendLine
  <1> HIDE DEF e
  <1>4. LineInv(c) /\ Talk(c, up[c], down[c]) /\ Proper(down[c])
    BY <1>1 DEF ExchangeInv, LineInv
  <1>5. ~Grants(down[c])
    BY <1>1, <1>4, QuietLine DEF Talk
  <1>6. Talk(c, up[c], down[c])'
    BY <1>1, <1>3, <1>4, <1>5 DEF Talk, Listed, serverVars
  <1>7. Fresh(c) => Fresh(c)'
    BY <1>1, <1>3 DEF Fresh
  <1>8. LineInv(c)'
    BY <1>1, <1>3, <1>4, <1>6, <1>7, TalkLine
  <1>9. QED
    BY <1>1, <1>8, OthersLines

LEMMA ClientLines ==
  ASSUME TypeOK, ExchangeInv, NEW c \in Client,
         \/ Connect(c) \/ CancelDialog(c) \/ ClientSends(c) \/ ClientLosesServer(c) \/ ClientCloses(c)
  PROVE  ExchangeInv'
  <1>1. LineInv(c)
    BY DEF ExchangeInv
  <1>2. CASE Connect(c)
    <2> DEFINE e == Append(up[c], Up("token"))
    <2>1. /\ phase[c] = "away" /\ phase'[c] = "connected" /\ cAuth'[c] = "requested" /\ up'[c] = e
          /\ UNCHANGED <<serverVars, dialog, mapLoaded, down>>
          /\ \A d \in Client \ {c} : phase'[d] = phase[d] /\ cAuth'[d] = cAuth[d] /\ up'[d] = up[d]
      BY <1>2 DEF Connect, TypeOK
    <2>2. up[c] = <<>> /\ down[c] = <<>> /\ ~dialog[c] /\ ~mapLoaded[c] /\ c \notin Listed \union removed
      BY <1>1, <2>1 DEF LineInv
    <2>3. Single(e) /\ Plain(e)
      <3>1. up[c] \in Seq(UpPacket) /\ Up("token") \in UpPacket /\ ~NeedsAuth(Up("token"))
        BY PacketTypes, PacketFacts DEF TypeOK
      <3>2. QED
        BY <2>2, <3>1, AppendLine, EmptyLine
    <2> HIDE DEF e
    <2>4. (c \in Listed)' <=> c \in Listed
      BY <2>1 DEF Listed, serverVars
    <2>5. Talk(c, up[c], down[c])'
      BY <2>1, <2>2, <2>3, <2>4, EmptyLine DEF Talk
    <2>6. Fresh(c)' /\ Absent(c)'
      BY <1>1, <2>1, <2>2, <2>3 DEF Fresh, Absent, LineInv, serverVars
    <2>7. LineInv(c)'
      BY <2>1, <2>2, <2>4, <2>5, <2>6, EmptyLine DEF LineInv
    <2>8. QED
      BY <2>1, <2>7, OthersLines
  <1>3. CASE CancelDialog(c)
    <2>1. /\ phase[c] = "connected" /\ ~dialog'[c]
          /\ UNCHANGED <<serverVars, phase, login, cAuth, cId, mapLoaded, down, up, boundVars>>
          /\ \A d \in Client \ {c} : dialog'[d] = dialog[d]
      BY <1>3 DEF CancelDialog, TypeOK
    <2>2. Talk(c, up[c], down[c])' /\ Proper(down[c])
      BY <1>1, <2>1 DEF LineInv, Talk, Listed, serverVars
    <2>3. LineInv(c)'
      BY <1>1, <2>1, <2>2, TalkLine DEF Fresh
    <2>4. QED
      BY <2>1, <2>3, OthersLines
  <1>4. CASE ClientSends(c)
    <2> DEFINE e == Append(up[c], Up("session"))
    <2>1. /\ phase[c] = "connected" /\ UNCHANGED <<serverVars, clientVars, down>>
          /\ up'[c] = IF cAuth[c] = "ok" THEN e ELSE up[c]
          /\ \A d \in Client \ {c} : up'[d] = up[d]
      BY <1>4, PacketFacts DEF ClientSends, TypeOK, Queue
    <2>2. /\ Quiet(up[c]) => Quiet(e)
          /\ Single(up[c]) => Single(e)
      <3>1. up[c] \in Seq(UpPacket) /\ Up("session") \in UpPacket /\ ~Exchange(Up("session"))
        BY PacketTypes, PacketFacts DEF TypeOK
      <3>2. QED
        BY <3>1, AppendLine
    <2> HIDE DEF e
    <2>3. Talk(c, up[c], down[c]) /\ Proper(down[c])
      BY <1>1, <2>1 DEF LineInv
    <2>4. Talk(c, up[c], down[c])'
      BY <2>1, <2>2, <2>3 DEF Talk, Listed, serverVars, clientVars
    <2>5. Fresh(c) => Fresh(c)'
      BY <2>1 DEF Fresh, clientVars
    <2>6. CASE c \in Listed \/ cAuth[c] # "ok"
      <3>1. up'[c] = up[c] \/ sAuth[c] = "ok"
        BY <2>1, <2>3, <2>6 DEF Talk
      <3>2. LineInv(c)'
        BY <1>1, <2>1, <2>3, <2>4, <2>5, <3>1, TalkLine DEF clientVars
      <3>3. QED
        BY <2>1, <3>2, OthersLines DEF clientVars
    <2>7. CASE c \notin Listed /\ cAuth[c] = "ok"
      <3>1. LineInv(c)'
        BY <1>1, <2>1, <2>3, <2>4, <2>5, <2>7
        DEF LineInv, Absent, Listed, Hosting, serverVars, clientVars
      <3>2. QED
        BY <2>1, <3>1, OthersLines DEF clientVars
    <2>8. QED
      BY <2>6, <2>7
  <1>5. CASE ClientLosesServer(c)
    <2>1. UNCHANGED <<serverVars, phase, cAuth, dialog, mapLoaded, down, up>>
      BY <1>5 DEF ClientLosesServer
    <2>2. LineInv(c)'
      BY <1>1, <2>1, Untouched DEF serverVars, Listed, Hosting
    <2>3. QED
      BY <2>1, <2>2, OthersLines
  <1>6. CASE ClientCloses(c)
    <2>1. phase[c] = "connected" /\ Close(c) /\ UNCHANGED <<serverVars, mapLoaded>>
      BY <1>6 DEF ClientCloses
    <2>2. LineInv(c)'
      BY <1>1, <2>1, CloseLine
    <2>3. QED
      BY <2>1, <2>2, OthersLines DEF Close, TypeOK
  <1>7. QED
    BY <1>2, <1>3, <1>4, <1>5, <1>6

-----------------------------------------------------------------------------
(* All of them. *)

LEMMA ExchangeInit == Init => ExchangeInv
  <1> SUFFICES ASSUME Init PROVE ExchangeInv
    OBVIOUS
  <1>1. Listed = {} /\ removed = {} /\ NoneTwice
    BY DEF Init, Listed, NoneTwice
  <1>2. \A c \in Client : LineInv(c)
    BY <1>1, EmptyLine DEF Init, LineInv, Fresh, Absent
  <1>3. QED
    BY <1>1, <1>2 DEF ExchangeInv

LEMMA ExchangeStep == TypeOK /\ ExchangeInv /\ [Next]_hsVars => ExchangeInv'
  <1> SUFFICES ASSUME TypeOK, ExchangeInv, [Next]_hsVars PROVE ExchangeInv'
    OBVIOUS
  <1>1. CASE UNCHANGED hsVars
    <2>1. UNCHANGED <<serverVars, clientVars, down, up>>
      BY <1>1 DEF hsVars
    <2>2. \A c \in Client : LineInv(c)'
      BY <2>1, Untouched DEF ExchangeInv, serverVars, clientVars, Listed, Hosting
    <2>3. QED
      BY <2>1, <2>2 DEF ExchangeInv, NoneTwice, serverVars
  <1>2. CASE \E c \in Client : ServerLosesClient(c)
    <2>1. UNCHANGED <<host, conns, removed, sAuth, player, clientVars, down, up>>
      BY <1>2 DEF ServerLosesClient
    <2>2. \A c \in Client : LineInv(c)'
      BY <2>1, Untouched DEF ExchangeInv, clientVars, Listed, Hosting
    <2>3. QED
      BY <2>1, <2>2 DEF ExchangeInv, NoneTwice
  <1>3. CASE HostCloses \/ HostSends \/ \E c \in Client : KickCrashes(c)
    BY <1>3, HostLines DEF HostCloses, KickCrashes
  <1>4. QED
    BY <1>1, <1>2, <1>3, ServerLines, AcceptLines, DropLines, KickLines, HandlerLines, PasswordLines,
       ClientLines DEF Next

LEMMA ExchangeHolds == Spec => []ExchangeInv
  <1>1. QED
    BY TypeCorrect, ExchangeInit, ExchangeStep, PTL DEF Spec

\* Whatever breaks, in whatever order packets are read: nothing of the session
\* meets an end of a connection that drops it, or that ends the connection for it,
\* because it does not know yet that the client has been admitted.
THEOREM AuthorizedFirst == Spec => []AuthFirst
  <1>1. ExchangeInv => AuthFirst
    BY DEF ExchangeInv, LineInv, Talk, Covered, Present, Plain, AuthFirst
  <1>2. QED
    BY <1>1, ExchangeHolds, PTL

-----------------------------------------------------------------------------
(* Ids. A reply that admits carries the id of the player the server has for  *)
(* the connection, as long as it has one. There is one for everybody if more *)
(* ids than players are allowed, the host having one even where it does not  *)
(* count.                                                                    *)

Replies(s, id) == \A i \in DOMAIN s : s[i].status = "ok" => s[i].id = id

KnowsOwn(c) ==
  /\ phase[c] # "connected" => cAuth[c] # "ok"
  /\ sAuth[c] = "ok" <=> player[c] # NoPlayer
  /\ phase[c] = "connected" /\ sAuth[c] = "ok" => Replies(down[c], player[c])
  /\ cAuth[c] = "ok" /\ sAuth[c] = "ok" => cId[c] = player[c]

Distinct ==
  \A c \in Client :
    player[c] # NoPlayer => player[c] # HostId /\ \A d \in Client \ {c} : player[d] # player[c]

KnowInv == Distinct /\ \A c \in Client : KnowsOwn(c)

LEMMA AppendReply ==
  ASSUME NEW S, NEW s \in Seq(S), NEW p \in S, NEW id
  PROVE  Replies(Append(s, p), id) <=> Replies(s, id) /\ (p.status = "ok" => p.id = id)
  <1> DEFINE t == Append(s, p)
  <1>1. /\ Len(s) \in Nat /\ DOMAIN s = 1 .. Len(s) /\ DOMAIN t = 1 .. Len(s) + 1
        /\ \A i \in 1 .. Len(s) : t[i] = s[i]
        /\ t[Len(s) + 1] = p
    BY AppendProperties, LenProperties
  <1> HIDE DEF t
  <1>2. /\ \A i \in DOMAIN t : i \in DOMAIN s \/ i = Len(s) + 1
        /\ DOMAIN s \subseteq DOMAIN t /\ Len(s) + 1 \in DOMAIN t
    BY <1>1
  <1>3. Replies(t, id) <=> Replies(s, id) /\ (p.status = "ok" => p.id = id)
    BY <1>1, <1>2 DEF Replies
  <1>4. QED
    BY <1>3 DEF t

LEMMA TailReply ==
  ASSUME NEW S, NEW s \in Seq(S), s # <<>>, NEW id, Replies(s, id)
  PROVE  Replies(Tail(s), id) /\ (Head(s).status = "ok" => Head(s).id = id)
  <1> DEFINE t == Tail(s)
  <1>1. /\ Len(s) \in Nat \ {0} /\ DOMAIN s = 1 .. Len(s) /\ Head(s) = s[1]
    BY EmptySeq, LenProperties
  <1>2. Len(t) = Len(s) - 1 /\ t \in Seq(S) /\ \A i \in 1 .. Len(t) : t[i] = s[i + 1]
    BY HeadTailProperties
  <1>3. DOMAIN t = 1 .. Len(t)
    BY <1>2, LenProperties
  <1> HIDE DEF t
  <1>4. 1 \in DOMAIN s /\ \A i \in DOMAIN t : i + 1 \in DOMAIN s /\ t[i] = s[i + 1]
    BY <1>1, <1>2, <1>3
  <1>5. Replies(t, id) /\ (Head(s).status = "ok" => Head(s).id = id)
    BY <1>1, <1>4 DEF Replies
  <1>6. QED
    BY <1>5 DEF t

\* What is not a reply makes no difference.
LEMMA QueueReply ==
  ASSUME NEW d \in Seq(DownPacket), NEW id, Replies(d, id), NEW auth,
         NEW cmd \in {"token", "objectsList", "map", "session"}
  PROVE  Replies(Queue(d, auth, Down(cmd)), id) /\ Queue(d, auth, Down(cmd)) \in Seq(DownPacket)
  <1>1. Down(cmd) \in DownPacket /\ Down(cmd).status = "none"
    BY PacketTypes, PacketFacts
  <1>2. Replies(Append(d, Down(cmd)), id) /\ Append(d, Down(cmd)) \in Seq(DownPacket)
    BY <1>1, AppendReply, AppendProperties
  <1>3. QED
    BY <1>2 DEF Queue

LEMMA BroadcastReply ==
  ASSUME NEW d \in [Client -> Seq(DownPacket)], NEW c \in Client, NEW id, Replies(d[c], id)
  PROVE  Replies(Broadcast(d)[c], id)
  BY QueueReply DEF Broadcast

\* A client nothing happens to but that it is sent, or reads, something.
LEMMA OwnKept ==
  ASSUME TypeOK, NEW c \in Client, KnowsOwn(c),
         phase'[c] = phase[c], cAuth'[c] = cAuth[c], sAuth'[c] = sAuth[c], player'[c] = player[c],
         cId'[c] = cId[c],
         phase[c] = "connected" /\ Replies(down[c], player[c]) => Replies(down'[c], player[c])
  PROVE  KnowsOwn(c)'
  BY DEF KnowsOwn

LEMMA DistinctKept ==
  ASSUME Distinct, \A c \in Client : player'[c] \in {player[c], NoPlayer}
  PROVE  Distinct'
  BY DEF Distinct, NoPlayer

\* Whoever is admitted gets an id.
LEMMA IdIsFree ==
  ASSUME TypeOK, MaxPlayers < NumIds, NumVisiblePlayers < MaxPlayers, Distinct
  PROVE  FreeIds # {}
  <1> DEFINE P == {c \in Client : player[c] # NoPlayer}
  <1> DEFINE Used == {player[c] : c \in P}
  <1>1. IsFiniteSet(P) /\ IsFiniteSet(Used) /\ Cardinality(Used) <= Cardinality(P)
    <2>1. IsFiniteSet(P)
      BY HandshakeAssumption, FS_Subset
    <2> DEFINE f == [c \in P |-> player[c]]
    <2>2. f \in [P -> Used] /\ \A id \in Used : \E c \in P : f[c] = id
      OBVIOUS
    <2> HIDE DEF f, P, Used
    <2>3. f \in Surjection(P, Used)
      BY <2>2, Fun_IsSurj
    <2>4. QED
      BY <2>1, <2>3, FS_Surjection
  <1>2. Cardinality(P) \in Nat /\ Cardinality(Used) \in Nat
    BY <1>1, FS_CardinalityType
  <1>3. Cardinality(P) < MaxPlayers
    BY <1>2, Constants DEF NumVisiblePlayers
  <1>4. IsFiniteSet({HostId}) /\ Cardinality({HostId}) = 1
    BY FS_Singleton
  <1>5. /\ IsFiniteSet({HostId} \union Used)
        /\ Cardinality({HostId} \union Used) <= 1 + Cardinality(P)
    <2>1. /\ IsFiniteSet({HostId} \union Used)
          /\ Cardinality({HostId} \union Used)
               = Cardinality({HostId}) + Cardinality(Used) - Cardinality({HostId} \cap Used)
      BY <1>1, <1>4, FS_Union
    <2>2. Cardinality({HostId} \cap Used) \in Nat
      BY <1>4, FS_Intersection, FS_CardinalityType
    <2>3. QED
      BY <1>1, <1>2, <1>4, <2>1, <2>2
  <1>6. IsFiniteSet(Id) /\ Cardinality(Id) = NumIds
    BY Constants, FS_Interval DEF Id
  <1>7. ASSUME FreeIds = {} PROVE FALSE
    <2>1. Id \subseteq {HostId} \union Used
      BY <1>7, Constants DEF FreeIds
    <2>2. Cardinality(Id) <= Cardinality({HostId} \union Used)
      BY <1>5, <2>1, FS_Subset
    <2>3. Cardinality({HostId} \union Used) \in Nat
      BY <1>5, FS_CardinalityType
    <2>4. QED
      BY <1>2, <1>3, <1>5, <1>6, <2>2, <2>3, Constants
  <1>8. QED
    BY <1>7

LEMMA AdmitKnown ==
  ASSUME TypeOK, ExchangeInv, KnowInv, MaxPlayers < NumIds, NEW c \in Client,
         ServerHandleAuth(c), Judges(c), NumVisiblePlayers < MaxPlayers, Admit(c)
  PROVE  KnowInv'
  <1>1. PICK id \in Id \union {NoPlayer} :
          /\ NewId(id)
          /\ player' = [player EXCEPT ![c] = id]
          /\ sAuth' = [sAuth EXCEPT ![c] = "ok"]
          /\ down' = [down EXCEPT ![c] =
                     SendAuth(IF id = NoPlayer THEN @ ELSE Append(@, Down("objectsList")), "ok", id)]
    BY DEF Admit
  <1>2. id \in FreeIds
    BY <1>1, IdIsFree DEF NewId, KnowInv
  <1>3. id \in Id /\ id # NoPlayer /\ id # HostId /\ \A d \in Client : player[d] # id
    BY <1>2, Constants DEF FreeIds
  <1>4. Distinct'
    BY <1>1, <1>3 DEF KnowInv, Distinct, TypeOK
  <1> DEFINE d == Append(down[c], Down("objectsList"))
  <1> DEFINE p == AuthReply("ok", id)
  <1>5. /\ up[c] # <<>> /\ Head(up[c]).cmd = "auth" /\ UNCHANGED clientVars
        /\ down'[c] = Append(d, p) /\ sAuth'[c] = "ok" /\ player'[c] = id
        /\ \A e \in Client \ {c} : sAuth'[e] = sAuth[e] /\ player'[e] = player[e] /\ down'[e] = down[e]
    BY <1>1, <1>3 DEF ServerHandleAuth, ServerHas, TypeOK, SendAuth
  <1>6. KnowsOwn(c)'
    <2>1. CASE phase[c] # "connected"
      BY <1>3, <1>5, <2>1 DEF KnowsOwn, KnowInv, clientVars
    <2>2. CASE phase[c] = "connected"
      <3>1. ~Grants(down[c]) /\ cAuth[c] # "ok"
        BY <1>5, <2>2, Asked DEF Exchange, ExchangeInv
      <3>2. Replies(down[c], id) /\ down[c] \in Seq(DownPacket)
        BY <3>1 DEF Replies, Grants, TypeOK
      <3>3. Replies(d, id) /\ d \in Seq(DownPacket)
        <4>1. Down("objectsList") \in DownPacket /\ Down("objectsList").status = "none"
          BY PacketTypes, PacketFacts
        <4>2. QED
          BY <3>2, <4>1, AppendReply, AppendProperties
      <3>4. p \in DownPacket /\ p.id = id
        BY <1>3, PacketTypes DEF AuthReply, Auth
      <3> HIDE DEF d, p
      <3>5. Replies(Append(d, p), id)
        BY <3>3, <3>4, AppendReply
      <3>6. QED
        BY <1>3, <1>5, <2>2, <3>1, <3>5 DEF KnowsOwn, clientVars
    <2>3. QED
      BY <2>1, <2>2
  <1>7. \A e \in Client \ {c} : KnowsOwn(e)'
    BY <1>5, OwnKept DEF KnowInv, clientVars
  <1>8. QED
    BY <1>4, <1>6, <1>7 DEF KnowInv

\* A refused client is still no player.
LEMMA RefuseKnown ==
  ASSUME TypeOK, KnowInv, NEW c \in Client, ServerHandleAuth(c), Judges(c),
         NEW status \in Auth \ {"ok"}, Refuse(c, status)
  PROVE  KnowInv'
  <1>1. /\ sAuth[c] # "ok" /\ sAuth'[c] = status /\ UNCHANGED <<player, clientVars>>
        /\ \A e \in Client \ {c} : sAuth'[e] = sAuth[e] /\ down'[e] = down[e]
    BY DEF ServerHandleAuth, Judges, Refuse, TypeOK
  <1>2. KnowsOwn(c)'
    BY <1>1 DEF KnowInv, KnowsOwn, clientVars
  <1>3. \A e \in Client \ {c} : KnowsOwn(e)'
    BY <1>1, OwnKept DEF KnowInv, clientVars
  <1>4. QED
    BY <1>1, <1>2, <1>3 DEF KnowInv, Distinct

LEMMA MapReplies ==
  ASSUME TypeOK, NEW c \in Client, SendMap(c), NEW e \in Client, NEW id, Replies(down[e], id)
  PROVE  Replies(down'[e], id)
  <1>1. PICK saved \in BOOLEAN :
          LET mapped == IF saved THEN [down EXCEPT ![c] = Queue(@, sAuth[c], Down("map"))] ELSE down
              told == Broadcast(mapped)
          IN down' = [told EXCEPT ![c] = Queue(@, sAuth[c], Down("session"))]
    BY DEF SendMap
  <1> DEFINE mapped == IF saved THEN [down EXCEPT ![c] = Queue(@, sAuth[c], Down("map"))] ELSE down
  <1> DEFINE told == Broadcast(mapped)
  <1>2. mapped \in [Client -> Seq(DownPacket)] /\ Replies(mapped[e], id)
    <2>1. Queue(down[c], sAuth[c], Down("map")) \in Seq(DownPacket)
      BY QueueTypes, PacketTypes DEF TypeOK
    <2>2. e = c => Replies(Queue(down[c], sAuth[c], Down("map")), id)
      BY QueueReply DEF TypeOK
    <2>3. QED
      BY <2>1, <2>2 DEF TypeOK
  <1>3. down' = [told EXCEPT ![c] = Queue(told[c], sAuth[c], Down("session"))]
    BY <1>1
  <1> HIDE DEF mapped
  <1>4. told \in [Client -> Seq(DownPacket)] /\ Replies(told[e], id)
    BY <1>2, BroadcastTypes, BroadcastReply
  <1> HIDE DEF told
  <1>5. e = c => Replies(Queue(told[c], sAuth[c], Down("session")), id)
    BY <1>4, QueueReply
  <1>6. QED
    BY <1>3, <1>4, <1>5

LEMMA ServerKnown ==
  ASSUME TypeOK, ExchangeInv, KnowInv, MaxPlayers < NumIds, NEW c \in Client, ServerProcesses(c)
  PROVE  KnowInv'
  <1>1. CASE ServerHandleToken(c)
    <2>1. \A e \in Client : \A id : Replies(down[e], id) => Replies(down'[e], id)
      BY <1>1, QueueReply DEF ServerHandleToken, TypeOK
    <2>2. UNCHANGED <<serverVars, clientVars>>
      BY <1>1 DEF ServerHandleToken
    <2>3. QED
      BY <2>1, <2>2, OwnKept DEF KnowInv, Distinct, serverVars, clientVars
  <1>2. CASE ServerHandleAuth(c)
    <2>1. CASE UNCHANGED <<sAuth, sStop, player, down>>
      BY <1>2, <2>1, OwnKept DEF ServerHandleAuth, KnowInv, Distinct, clientVars
    <2>2. QED
      BY <1>2, <2>1, JudgeCases, AdmitKnown, RefuseKnown
  <1>3. CASE ServerHandleMapRequest(c)
    <2>1. \A e \in Client : \A id : Replies(down[e], id) => Replies(down'[e], id)
      BY <1>3, MapReplies DEF ServerHandleMapRequest
    <2>2. UNCHANGED <<sAuth, player, clientVars>>
      BY <1>3 DEF ServerHandleMapRequest
    <2>3. QED
      BY <2>1, <2>2, OwnKept DEF KnowInv, Distinct, clientVars
  <1>4. CASE ServerHandleSession(c)
    BY <1>4, OwnKept DEF ServerHandleSession, KnowInv, Distinct, clientVars
  <1>5. QED
    BY <1>1, <1>2, <1>3, <1>4 DEF ServerProcesses

LEMMA ListKnown ==
  ASSUME TypeOK, ExchangeInv, KnowInv,
         \/ HostCloses \/ HostSends
         \/ \E c \in Client : Accept(c) \/ ServerLosesClient(c) \/ Drop(c) \/ Kick(c) \/ KickCrashes(c)
  PROVE  KnowInv'
  <1>1. ASSUME UNCHANGED <<sAuth, player, clientVars>>,
               \A e \in Client : \A id : Replies(down[e], id) => Replies(down'[e], id)
        PROVE  KnowInv'
    BY <1>1, OwnKept DEF KnowInv, Distinct, clientVars
  <1>2. CASE HostSends
    <2>1. \A e \in Client : \A id : Replies(down[e], id) => Replies(down'[e], id)
      BY <1>2, BroadcastReply DEF HostSends, TypeOK
    <2>2. QED
      BY <1>1, <1>2, <2>1 DEF HostSends, serverVars
  <1>3. CASE Gone
    BY <1>3 DEF Gone, KnowInv, KnowsOwn, Distinct, clientVars
  <1>4. CASE \E c \in Client : Accept(c) \/ ServerLosesClient(c)
    BY <1>1, <1>4 DEF Accept, ServerLosesClient
  <1>5. ASSUME NEW c \in Client, Kick(c) PROVE KnowInv'
    <2>1. \A e \in Client : \A id : Replies(down[e], id) => Replies(down'[e], id)
      BY <1>5, QueueReply DEF Kick, TypeOK
    <2>2. QED
      BY <1>1, <1>5, <2>1 DEF Kick
  <1>6. ASSUME NEW c \in Client, Drop(c) PROVE KnowInv'
    <2>1. /\ player' = [player EXCEPT ![c] = NoPlayer] /\ sAuth' = [sAuth EXCEPT ![c] = "none"]
          /\ UNCHANGED clientVars
      BY <1>6 DEF Drop, Erase
    <2>2. KnowsOwn(c)'
      BY <2>1 DEF KnowInv, KnowsOwn, clientVars, TypeOK
    <2>3. \A e \in Client \ {c} : \A id : Replies(down[e], id) => Replies(down'[e], id)
      <3>1. Broadcast(down) \in [Client -> Seq(DownPacket)]
        BY BroadcastTypes DEF TypeOK
      <3>2. QED
        BY <1>6, <3>1, BroadcastReply DEF Drop, TypeOK
    <2>4. \A e \in Client \ {c} : KnowsOwn(e)'
      BY <2>1, <2>3, OwnKept DEF KnowInv, clientVars, TypeOK
    <2>5. Distinct'
      BY <2>1, DistinctKept DEF KnowInv, TypeOK
    <2>6. QED
      BY <2>2, <2>4, <2>5 DEF KnowInv
  <1>7. QED
    BY <1>2, <1>3, <1>4, <1>5, <1>6 DEF HostCloses, KickCrashes

\* A client's step that changes its id and authStatus, if at all, so that it knows
\* itself.
LEMMA OwnStep ==
  ASSUME TypeOK, KnowInv, NEW c \in Client, KnowsOwn(c)', UNCHANGED serverVars,
         \A e \in Client \ {c} :
           /\ phase'[e] = phase[e] /\ down'[e] = down[e] /\ cAuth'[e] = cAuth[e] /\ cId'[e] = cId[e]
  PROVE  KnowInv'
  <1>1. \A e \in Client \ {c} : KnowsOwn(e)'
    BY OwnKept DEF KnowInv, serverVars
  <1>2. QED
    BY <1>1 DEF KnowInv, Distinct, serverVars

LEMMA CloseKnown ==
  ASSUME TypeOK, KnowInv, NEW c \in Client, Close(c), UNCHANGED serverVars,
         \A e \in Client \ {c} : cId'[e] = cId[e]
  PROVE  KnowInv'
  <1>1. KnowsOwn(c)'
    BY DEF KnowInv, KnowsOwn, Close, serverVars, TypeOK
  <1>2. QED
    BY <1>1, OwnStep DEF Close, TypeOK

LEMMA GoOnKnown ==
  ASSUME TypeOK, ExchangeInv, KnowInv, NEW c \in Client, phase[c] = "connected", down[c] # <<>>,
         UNCHANGED serverVars, NEW auth, NEW opens, GoOn(c, auth, opens),
         \A e \in Client \ {c} : cId'[e] = cId[e],
         \/ auth = cAuth[c] /\ cId'[c] = cId[c]
         \/ auth = Head(down[c]).status /\ cId'[c] = Head(down[c]).id
  PROVE  KnowInv'
  <1>1. CASE Close(c)
    BY <1>1, CloseKnown
  <1>2. CASE ~Close(c)
    <2>1. /\ cAuth' = [cAuth EXCEPT ![c] = auth] /\ down' = [down EXCEPT ![c] = Tail(@)]
          /\ UNCHANGED <<phase, cStop, up>>
      BY <1>2, Zenon DEF GoOn, ClientReads
    <2>2. cAuth'[c] = auth /\ down'[c] = Tail(down[c])
      BY <2>1 DEF TypeOK
    <2>3. sAuth[c] = "ok" =>
            Replies(Tail(down[c]), player[c])
            /\ (Head(down[c]).status = "ok" => Head(down[c]).id = player[c])
      BY TailReply DEF KnowInv, KnowsOwn, TypeOK
    <2>4. KnowsOwn(c)'
      BY <2>1, <2>2, <2>3 DEF KnowInv, KnowsOwn, serverVars
    <2>5. QED
      BY <2>1, <2>4, OwnStep DEF TypeOK
  <1>3. QED
    BY <1>1, <1>2

LEMMA AnswerKnown ==
  ASSUME TypeOK, KnowInv, NEW c \in Client, phase[c] = "connected", down[c] # <<>>,
         UNCHANGED <<serverVars, cId>>, NEW packet, Answer(c, packet)
  PROVE  KnowInv'
  <1>1. CASE Close(c)
    BY <1>1, CloseKnown
  <1>2. CASE ~Close(c)
    <2>1. down' = [down EXCEPT ![c] = Tail(@)] /\ UNCHANGED <<phase, cAuth, cStop, dialog>>
      BY <1>2 DEF Answer, ClientReads
    <2>2. Replies(down[c], player[c]) => Replies(down'[c], player[c])
      BY <2>1, TailReply DEF TypeOK
    <2>3. KnowsOwn(c)'
      BY <2>1, <2>2, OwnKept DEF KnowInv, serverVars
    <2>4. QED
      BY <2>1, <2>3, OwnStep DEF TypeOK
  <1>3. QED
    BY <1>1, <1>2

LEMMA ClientKnown ==
  ASSUME TypeOK, ExchangeInv, KnowInv, NEW c \in Client,
         \/ Connect(c) \/ ClientProcesses(c) \/ CancelDialog(c) \/ ClientSends(c)
         \/ ClientLosesServer(c) \/ ClientCloses(c)
         \/ \E password \in Password : EnterPassword(c, password)
  PROVE  KnowInv'
  <1>1. ASSUME UNCHANGED <<serverVars, phase, cAuth, cId, down>> PROVE KnowInv'
    BY <1>1, OwnKept DEF KnowInv, Distinct, serverVars
  <1>2. CASE CancelDialog(c) \/ ClientSends(c) \/ ClientLosesServer(c)
    BY <1>1, <1>2 DEF CancelDialog, ClientSends, ClientLosesServer, clientVars
  <1>3. CASE ClientCloses(c)
    BY <1>3, CloseKnown DEF ClientCloses
  <1>4. CASE Connect(c) \/ \E password \in Password : EnterPassword(c, password)
    <2>1. /\ phase'[c] = "connected" /\ cAuth'[c] = "requested"
          /\ UNCHANGED <<serverVars, cId, down>>
          /\ \A e \in Client \ {c} : phase'[e] = phase[e] /\ cAuth'[e] = cAuth[e]
      BY <1>4 DEF Connect, EnterPassword, TypeOK
    <2>2. phase[c] = "away" => sAuth[c] # "ok"
      BY DEF ExchangeInv, LineInv, Absent
    <2>3. phase[c] # "away" => phase[c] = "connected"
      BY <1>4 DEF Connect, EnterPassword
    <2>4. KnowsOwn(c)'
      BY <2>1, <2>2, <2>3 DEF KnowInv, KnowsOwn, serverVars
    <2>5. QED
      BY <2>1, <2>4, OwnStep
  <1>5. CASE ClientHandleToken(c)
    BY <1>5, AnswerKnown, CloseKnown DEF ClientHandleToken, ClientHas
  <1>6. CASE ClientHandleObjectsList(c)
    BY <1>6, AnswerKnown DEF ClientHandleObjectsList, ClientHas
  <1>7. CASE ClientHandleAuth(c)
    <2> DEFINE status == Head(down[c]).status
    <2>1. /\ phase[c] = "connected" /\ down[c] # <<>> /\ UNCHANGED serverVars
          /\ cId'[c] = Head(down[c]).id /\ \A e \in Client \ {c} : cId'[e] = cId[e]
      BY <1>7 DEF ClientHandleAuth, ClientHas, TypeOK
    <2>2. GoOn(c, status, status = "requirePassword") \/ Close(c)
      BY <1>7, Zenon DEF ClientHandleAuth
    <2>3. CASE Close(c)
      BY <2>1, <2>3, CloseKnown
    <2>4. CASE GoOn(c, status, status = "requirePassword")
      <3> DEFINE opens == status = "requirePassword"
      <3>1. GoOn(c, status, opens)
        BY <2>4
      <3> HIDE DEF opens
      <3>2. QED
        BY <2>1, <3>1, GoOnKnown
    <2>5. QED
      BY <2>2, <2>3, <2>4
  <1>8. CASE ClientHandleMap(c) \/ ClientHandleSession(c)
    <2>1. /\ phase[c] = "connected" /\ down[c] # <<>> /\ UNCHANGED <<serverVars, cId>>
          /\ GoOn(c, cAuth[c], FALSE)
      BY <1>8 DEF ClientHandleMap, ClientHandleSession, ClientHas
    <2>2. QED
      BY <2>1, GoOnKnown
  <1>9. QED
    BY <1>2, <1>3, <1>4, <1>5, <1>6, <1>7, <1>8 DEF ClientProcesses

LEMMA KnowInit == Init => KnowInv
  BY Constants DEF Init, KnowInv, KnowsOwn, Distinct

LEMMA KnowStep ==
  ASSUME MaxPlayers < NumIds
  PROVE  TypeOK /\ ExchangeInv /\ KnowInv /\ [Next]_hsVars => KnowInv'
  <1> SUFFICES ASSUME TypeOK, ExchangeInv, KnowInv, [Next]_hsVars PROVE KnowInv'
    OBVIOUS
  <1>1. CASE UNCHANGED hsVars
    BY <1>1, OwnKept DEF hsVars, serverVars, clientVars, KnowInv, Distinct
  <1>2. QED
    BY <1>1, ServerKnown, ListKnown, ClientKnown DEF Next

\* As long as fewer may play than there are ids, every client that has been
\* admitted knows the id its server has for it, nobody else has it, and no map is
\* loaded before.
THEOREM PlayersKnowThemselves ==
  ASSUME MaxPlayers < NumIds
  PROVE  Spec => []ClientKnowsItself
  <1>1. ExchangeInv /\ KnowInv => ClientKnowsItself
    <2> SUFFICES ASSUME ExchangeInv, KnowInv, NEW c \in Client
                 PROVE  /\ cAuth[c] = "ok" /\ c \in Listed => player[c] # NoPlayer /\ cId[c] = player[c]
                        /\ phase[c] = "connected" /\ mapLoaded[c] => cAuth[c] = "ok"
      BY DEF ClientKnowsItself, KnowInv, Distinct
    <2>1. QED
      BY DEF ExchangeInv, LineInv, Talk, KnowInv, KnowsOwn
  <1>2. QED
    BY <1>1, TypeCorrect, ExchangeHolds, KnowInit, KnowStep, PTL DEF Spec
=============================================================================
