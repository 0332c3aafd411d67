------------------------------- MODULE Stream -------------------------------
(***************************************************************************)
(* One direction of a connection (network/NetworkConnection.cpp): packets  *)
(* are written one behind the other into the outbound buffer, the socket   *)
(* takes as much of it as it can, and the other end cuts what arrives into *)
(* packets again.  A ping of the server goes to the front of the buffer.   *)
(*                                                                         *)
(* A packet is a row of cells, each of them as much as a send may leave    *)
(* behind; the first one holds the header with the length.                 *)
(***************************************************************************)
EXTENDS Naturals, Sequences

CONSTANTS
  Packet,         \* packets the connection may be given, each of them once
  Ping,           \* those of them that are pings
  Size            \* Size[p]: cells of packet p

VARIABLES
  queued,         \* packets that have been queued
  outbound,       \* _outboundBuffer
  inbound,        \* pipe and _inboundBuffer of the other end
  valid,          \* the other end has not given the connection up
  lastRead        \* cells of the last packet read there

streamVars == <<queued, outbound, inbound, valid, lastRead>>

\* serializePacket
Cells(p) == [k \in 1 .. Size[p] |-> <<p, k>>]

Init == queued = {} /\ outbound = <<>> /\ inbound = <<>> /\ valid = TRUE /\ lastRead = <<>>

\* queuePacket
QueuePacket(p) ==
  /\ p \notin queued /\ p \notin Ping
  /\ queued' = queued \union {p}
  /\ outbound' = outbound \o Cells(p)
  /\ UNCHANGED <<inbound, valid, lastRead>>

\* ServerSendPing: queuePacket with front.
SendPing(p) ==
  /\ p \notin queued /\ p \in Ping
  /\ queued' = queued \union {p}
  /\ outbound' = Cells(p) \o outbound
  /\ UNCHANGED <<inbound, valid, lastRead>>

\* SendQueuedData: the socket takes any part of the buffer.
SendQueuedData ==
  \E n \in 1 .. Len(outbound) :
    /\ inbound' = inbound \o SubSeq(outbound, 1, n)
    /\ outbound' = SubSeq(outbound, n + 1, Len(outbound))
    /\ UNCHANGED <<queued, valid, lastRead>>

Take(n) ==
  /\ Len(inbound) >= n
  /\ lastRead' = SubSeq(inbound, 1, n)
  /\ inbound' = SubSeq(inbound, n + 1, Len(inbound))
  /\ UNCHANGED <<queued, outbound, valid>>

AtHeader == inbound # <<>> /\ Head(inbound)[2] = 1

\* readPacket: as many bytes as the header says.
ReadPacket == valid /\ AtHeader /\ Take(Size[Head(inbound)[1]])

\* What is no header is taken for one of the old format, with any length.
ReadLegacy == valid /\ inbound # <<>> /\ ~AtHeader /\ \E n \in 1 .. Len(inbound) : Take(n)

ReadMalformed ==
  /\ valid /\ inbound # <<>> /\ ~AtHeader
  /\ valid' = FALSE
  /\ UNCHANGED <<queued, outbound, inbound, lastRead>>

Next ==
  \/ \E p \in Packet : QueuePacket(p) \/ SendPing(p)
  \/ SendQueuedData \/ ReadPacket \/ ReadLegacy \/ ReadMalformed

Spec == Init /\ [][Next]_streamVars

\* What is read as a packet is a packet that has been queued, whole and with
\* nothing in between.
PacketsArriveWhole == lastRead # <<>> => \E p \in queued : lastRead = Cells(p)
=============================================================================
