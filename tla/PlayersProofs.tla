--------------------------- MODULE PlayersProofs ---------------------------
(***************************************************************************)
(* Safety of the player lists for any connections, ids and bounds.         *)
(***************************************************************************)
EXTENDS Players, TLAPS, WellFoundedInduction

\* A set of numbers has a least one, and a greatest one when it is bounded.
LEMMA LeastOf ==
  ASSUME NEW T \in SUBSET Nat, T # {}
  PROVE  \E x \in T : \A y \in T : x <= y
  <1> DEFINE R == OpToRel(<, Nat)
  <1>1. IsWellFoundedOn(R, Nat)
    BY NatLessThanWellFounded
  <1>2. \A x, y \in Nat : x < y => <<x, y>> \in R
    BY DEF OpToRel
  <1> HIDE DEF R
  <1>3. \E x \in T : \A y \in T : <<y, x>> \notin R
    BY <1>1, WFMin
  <1>4. PICK x \in T : \A y \in T : <<y, x>> \notin R
    BY <1>3
  <1>5. ASSUME NEW y \in T PROVE x <= y
    <2>1. x \in Nat /\ y \in Nat
      OBVIOUS
    <2>2. ~(y < x)
      BY <1>2, <1>4, <2>1
    <2>3. QED
      BY <2>1, <2>2
  <1>6. QED
    BY <1>5

LEMMA GreatestOf ==
  ASSUME NEW T \in SUBSET Nat, T # {}, NEW b \in Nat, \A x \in T : x <= b
  PROVE  \E x \in T : \A y \in T : y <= x
  <1> DEFINE D == {b - x : x \in T}
  <1>1. D \in SUBSET Nat /\ D # {}
    <2>1. ASSUME NEW x \in T PROVE b - x \in Nat
      <3>1. x \in Nat /\ x <= b
        OBVIOUS
      <3>2. QED
        BY <3>1
    <2>2. QED
      BY <2>1
  <1>2. PICK d \in D : \A e \in D : d <= e
    BY <1>1, LeastOf
  <1>3. PICK x \in T : d = b - x
    BY <1>2
  <1>4. ASSUME NEW y \in T PROVE y <= x
    <2>1. b - x <= b - y
      BY <1>2, <1>3
    <2>2. x \in Nat /\ y \in Nat
      OBVIOUS
    <2>3. QED
      BY <2>1, <2>2
  <1>5. QED
    BY <1>4

\* The id AddPlayer gives out is a free one.
LEMMA LowestIsFree ==
  ASSUME NEW list, Free(list) # {}
  PROVE  LowestFree(list) \in Free(list)
  <1>1. Free(list) \in SUBSET Nat
    BY PlayersAssumption DEF Free, Ids
  <1>2. \E i \in Free(list) : \A j \in Free(list) : i <= j
    BY <1>1, LeastOf
  <1>3. QED
    BY <1>2 DEF LowestFree

ListT == [tick : Nat, list : Roster]

DueBy(P, t) == {l \in P : l.tick <= t}

\* Of the lists that are due one is the last.
LastBy(P, u) == CHOOSE l \in DueBy(P, u) : \A k \in DueBy(P, u) : k.tick <= l.tick

LEMMA LastDue ==
  ASSUME NEW P \in SUBSET ListT, NEW u \in Nat, DueBy(P, u) # {}
  PROVE  LastBy(P, u) \in DueBy(P, u) /\ \A k \in DueBy(P, u) : k.tick <= LastBy(P, u).tick
  <1> DEFINE T == {l.tick : l \in DueBy(P, u)}
  <1>1. T \in SUBSET Nat /\ T # {} /\ \A x \in T : x <= u
    BY DEF ListT, DueBy
  <1>2. \E x \in T : \A y \in T : y <= x
    BY <1>1, GreatestOf
  <1>3. \E l \in DueBy(P, u) : \A k \in DueBy(P, u) : k.tick <= l.tick
    BY <1>2
  <1>4. QED
    BY <1>3 DEF LastBy

-----------------------------------------------------------------------------
(***************************************************************************)
(* A channel to a client is what is on its way and what the host has yet   *)
(* to flush.                                                               *)
(***************************************************************************)
Channel(c) == toClient[c] \o outbox[c]

Ticked(p) == p.type \in {"map", "tick", "list", "action"}
TickOf(p) == IF p.type = "action" THEN p.action.tick ELSE p.tick

InOrder(s) ==
  \A i, j \in 1 .. Len(s) : i < j /\ Ticked(s[i]) /\ Ticked(s[j]) => TickOf(s[i]) <= TickOf(s[j])

Within(s, low, high) ==
  \A i \in 1 .. Len(s) : Ticked(s[i]) => low <= TickOf(s[i]) /\ TickOf(s[i]) <= high

MapBy(s, t) == \E i \in 1 .. Len(s) : s[i].type = "map" /\ s[i].tick <= t

\* Places in a channel of the lists up to a tick.
ListsBy(s, t) == {i \in 1 .. Len(s) : s[i].type = "list" /\ s[i].tick <= t}

(***************************************************************************)
(* With s on its way, P pending and R installed, the list a client will    *)
(* have once the lists up to tick t are installed is L.                    *)
(***************************************************************************)
LatestIs(s, P, R, t, L) ==
  /\ \A i \in ListsBy(s, t) : (\A j \in ListsBy(s, t) : j <= i) => s[i].list = L
  /\ ListsBy(s, t) = {} =>
       /\ \A l \in DueBy(P, t) : (\A k \in DueBy(P, t) : k.tick <= l.tick) => l.list = L
       /\ DueBy(P, t) = {} => R = L

LEMMA TickOfType ==
  ASSUME NEW p \in ClientPacket, Ticked(p)
  PROVE  /\ TickOf(p) \in Nat
         /\ p.type = "action" => p.action \in Action /\ TickOf(p) = p.action.tick
         /\ p.type \in {"map", "tick", "list"} => TickOf(p) = p.tick /\ p.tick \in Nat
         /\ p.type = "list" => p.list \in Roster
         /\ p.type = "map" => p.paused \in BOOLEAN
  <1>1. CASE p.type = "action"
    <2>1. p.action \in Action
      BY <1>1 DEF ClientPacket
    <2>2. QED
      BY <1>1, <2>1 DEF TickOf, Action
  <1>2. CASE p.type = "map"
    BY <1>2 DEF ClientPacket, TickOf
  <1>3. CASE p.type = "tick"
    BY <1>3 DEF ClientPacket, TickOf
  <1>4. CASE p.type = "list"
    BY <1>4 DEF ClientPacket, TickOf
  <1>5. QED
    BY <1>1, <1>2, <1>3, <1>4 DEF Ticked

LEMMA AppendAt ==
  ASSUME NEW s \in Seq(ClientPacket), NEW p \in ClientPacket
  PROVE  /\ Append(s, p) \in Seq(ClientPacket)
         /\ Len(Append(s, p)) = Len(s) + 1 /\ Len(s) \in Nat
         /\ Append(s, p)[Len(s) + 1] = p
         /\ \A i \in 1 .. Len(s) : Append(s, p)[i] = s[i] /\ s[i] \in ClientPacket
         /\ 1 .. Len(Append(s, p)) = 1 .. Len(s) \union {Len(s) + 1}
  <1>1. Append(s, p) \in Seq(ClientPacket) /\ Len(Append(s, p)) = Len(s) + 1 /\ Len(s) \in Nat
    OBVIOUS
  <1>2. Append(s, p)[Len(s) + 1] = p
    OBVIOUS
  <1>3. \A i \in 1 .. Len(s) : Append(s, p)[i] = s[i] /\ s[i] \in ClientPacket
    OBVIOUS
  <1>4. 1 .. Len(Append(s, p)) = 1 .. Len(s) \union {Len(s) + 1}
    BY <1>1
  <1>5. QED
    BY <1>1, <1>2, <1>3, <1>4

LEMMA TailAt ==
  ASSUME NEW s \in Seq(ClientPacket), s # <<>>
  PROVE  /\ Tail(s) \in Seq(ClientPacket)
         /\ Len(Tail(s)) = Len(s) - 1 /\ Len(s) \in Nat \ {0}
         /\ Head(s) = s[1] /\ s[1] \in ClientPacket /\ 1 \in 1 .. Len(s)
         /\ \A i \in 1 .. Len(Tail(s)) :
              i + 1 \in 1 .. Len(s) /\ Tail(s)[i] = s[i + 1] /\ s[i + 1] \in ClientPacket
         /\ \A i \in 1 .. Len(s) : i = 1 \/ (i - 1 \in 1 .. Len(Tail(s)) /\ Tail(s)[i - 1] = s[i])
  <1>1. Tail(s) \in Seq(ClientPacket) /\ Len(Tail(s)) = Len(s) - 1 /\ Len(s) \in Nat \ {0}
    OBVIOUS
  <1>2. Head(s) = s[1] /\ s[1] \in ClientPacket /\ 1 \in 1 .. Len(s)
    OBVIOUS
  <1>3. \A i \in 1 .. Len(Tail(s)) :
           i + 1 \in 1 .. Len(s) /\ Tail(s)[i] = s[i + 1] /\ s[i + 1] \in ClientPacket
    OBVIOUS
  <1>4. ASSUME NEW i \in 1 .. Len(s), i # 1
        PROVE  i - 1 \in 1 .. Len(Tail(s)) /\ Tail(s)[i - 1] = s[i]
    <2>1. i - 1 \in 1 .. Len(Tail(s)) /\ (i - 1) + 1 = i
      BY <1>1, <1>4
    <2>2. QED
      BY <1>3, <2>1
  <1>5. QED
    BY <1>1, <1>2, <1>3, <1>4

\* The channel when something is put into the buffer, taken from the front, or flushed.
LEMMA ChannelAppend ==
  ASSUME NEW a \in Seq(ClientPacket), NEW b \in Seq(ClientPacket), NEW p \in ClientPacket
  PROVE  a \o Append(b, p) = Append(a \o b, p)
  OBVIOUS

LEMMA ChannelTail ==
  ASSUME NEW a \in Seq(ClientPacket), NEW b \in Seq(ClientPacket), a # <<>>
  PROVE  /\ a \o b \in Seq(ClientPacket) /\ a \o b # <<>>
         /\ Head(a \o b) = Head(a) /\ Tail(a \o b) = Tail(a) \o b
  OBVIOUS

-----------------------------------------------------------------------------
LEMMA ListsByType ==
  ASSUME NEW s \in Seq(ClientPacket), NEW t
  PROVE  /\ ListsBy(s, t) \subseteq 1 .. Len(s)
         /\ \A i \in ListsBy(s, t) : s[i].type = "list" /\ s[i].tick \in Nat /\ s[i].list \in Roster
  <1>1. ASSUME NEW i \in ListsBy(s, t)
        PROVE  s[i].type = "list" /\ s[i].tick \in Nat /\ s[i].list \in Roster
    <2>1. i \in 1 .. Len(s) /\ s[i].type = "list"
      BY DEF ListsBy
    <2>2. s[i] \in ClientPacket
      BY <2>1
    <2>3. QED
      BY <2>1, <2>2, TickOfType DEF Ticked
  <1>2. QED
    BY <1>1 DEF ListsBy

\* The last list on its way up to a tick.
LEMMA LastSent ==
  ASSUME NEW s \in Seq(ClientPacket), NEW t, ListsBy(s, t) # {}
  PROVE  \E i \in ListsBy(s, t) : \A j \in ListsBy(s, t) : j <= i
  <1>1. ListsBy(s, t) \in SUBSET Nat /\ Len(s) \in Nat /\ \A i \in ListsBy(s, t) : i <= Len(s)
    BY DEF ListsBy
  <1>2. QED
    BY <1>1, GreatestOf

\* Sending something that is no list up to t changes nothing.
LEMMA LatestAppend ==
  ASSUME NEW s \in Seq(ClientPacket), NEW P, NEW R, NEW t, NEW L,
         NEW p \in ClientPacket, p.type = "list" => ~(p.tick <= t), LatestIs(s, P, R, t, L)
  PROVE  LatestIs(Append(s, p), P, R, t, L)
  <1>1. ListsBy(Append(s, p), t) = ListsBy(s, t)
    BY AppendAt DEF ListsBy
  <1>2. \A i \in ListsBy(s, t) : Append(s, p)[i] = s[i]
    BY AppendAt DEF ListsBy
  <1>3. QED
    BY <1>1, <1>2 DEF LatestIs

\* A list that is sent is the one the client will have.
LEMMA LatestSent ==
  ASSUME NEW s \in Seq(ClientPacket), NEW P, NEW R, NEW t,
         NEW p \in ClientPacket, p.type = "list", p.tick <= t
  PROVE  LatestIs(Append(s, p), P, R, t, p.list)
  <1> DEFINE n == Len(s) + 1
  <1>1. n \in ListsBy(Append(s, p), t) /\ Append(s, p)[n] = p
    BY AppendAt DEF ListsBy
  <1>2. \A i \in ListsBy(Append(s, p), t) : i <= n /\ i \in Nat
    BY AppendAt DEF ListsBy
  <1>3. n \in Nat
    BY AppendAt
  <1>4. ASSUME NEW i \in ListsBy(Append(s, p), t), \A j \in ListsBy(Append(s, p), t) : j <= i
        PROVE  Append(s, p)[i] = p
    <2>1. i = n
      <3> HIDE DEF n
      <3>1. n <= i /\ i <= n /\ i \in Nat
        BY <1>1, <1>2, <1>4
      <3>2. QED
        BY <1>3, <3>1
    <2>2. QED
      BY <1>1, <2>1
  <1>5. QED
    BY <1>1, <1>4 DEF LatestIs

\* Up to a later tick there is nothing more, if nothing comes in between.
LEMMA LatestLater ==
  ASSUME NEW s \in Seq(ClientPacket), NEW P \in SUBSET ListT, NEW R, NEW L,
         NEW t \in Nat, NEW u \in Nat, t <= u, Within(s, 0, t), \A l \in P : l.tick <= t,
         LatestIs(s, P, R, t, L)
  PROVE  LatestIs(s, P, R, u, L)
  <1>1. \A i \in 1 .. Len(s) : s[i].type = "list" => s[i].tick \in Nat /\ s[i].tick <= t
    <2> TAKE i \in 1 .. Len(s)
    <2> HAVE s[i].type = "list"
    <2>1. s[i] \in ClientPacket /\ Ticked(s[i])
      BY DEF Ticked
    <2>2. TickOf(s[i]) = s[i].tick /\ s[i].tick \in Nat
      BY <2>1, TickOfType
    <2>3. QED
      BY <2>1, <2>2 DEF Within
  <1>2. ListsBy(s, t) = ListsBy(s, u)
    BY <1>1 DEF ListsBy
  <1>3. DueBy(P, t) = DueBy(P, u)
    BY DEF DueBy, ListT
  <1>4. QED
    BY <1>2, <1>3 DEF LatestIs

\* Handling something that is no list changes nothing.
LEMMA LatestTail ==
  ASSUME NEW s \in Seq(ClientPacket), s # <<>>, Head(s).type # "list",
         NEW P, NEW R, NEW t, NEW L, LatestIs(s, P, R, t, L)
  PROVE  LatestIs(Tail(s), P, R, t, L)
  <1>1. \A i \in ListsBy(Tail(s), t) : i \in Nat /\ i + 1 \in ListsBy(s, t) /\ Tail(s)[i] = s[i + 1]
    BY TailAt DEF ListsBy
  <1>2. \A i \in ListsBy(s, t) : i \in Nat /\ i - 1 \in ListsBy(Tail(s), t)
    BY TailAt DEF ListsBy
  <1>3. ASSUME NEW i \in ListsBy(Tail(s), t), \A j \in ListsBy(Tail(s), t) : j <= i
        PROVE  Tail(s)[i].list = L
    <2>1. ASSUME NEW j \in ListsBy(s, t) PROVE j <= i + 1
      <3>1. j - 1 <= i /\ i \in Nat /\ j \in Nat
        BY <1>1, <1>2, <1>3
      <3>2. QED
        BY <3>1
    <2>2. s[i + 1].list = L
      BY <1>1, <2>1 DEF LatestIs
    <2>3. QED
      BY <1>1, <2>2
  <1>4. ListsBy(Tail(s), t) = {} => ListsBy(s, t) = {}
    BY <1>2
  <1>5. QED
    BY <1>3, <1>4 DEF LatestIs


WithList(P, p) == {l \in P : l.tick # p.tick} \union {[tick |-> p.tick, list |-> p.list]}

\* A list that is handled takes its place among the pending ones.
LEMMA LatestReceived ==
  ASSUME NEW s \in Seq(ClientPacket), s # <<>>, Head(s).type = "list", InOrder(s),
         NEW P \in SUBSET ListT, \A l \in P : l.tick <= Head(s).tick,
         NEW R, NEW t \in Nat, NEW L, LatestIs(s, P, R, t, L)
  PROVE  LatestIs(Tail(s), WithList(P, Head(s)), R, t, L)
  <1> DEFINE h == Head(s)
             Q == WithList(P, h)
  <1>1. h = s[1] /\ 1 \in 1 .. Len(s) /\ h \in ClientPacket /\ Ticked(h) /\ h.tick \in Nat /\ TickOf(h) = h.tick
    <2>1. h = s[1] /\ 1 \in 1 .. Len(s) /\ h \in ClientPacket /\ Ticked(h)
      BY TailAt DEF Ticked
    <2>2. QED
      BY <2>1, TickOfType
  <1>2. /\ \A i \in ListsBy(Tail(s), t) : i \in Nat /\ i + 1 \in ListsBy(s, t) /\ Tail(s)[i] = s[i + 1]
        /\ \A i \in ListsBy(s, t) : i \in Nat /\ (i = 1 \/ i - 1 \in ListsBy(Tail(s), t))
    BY TailAt DEF ListsBy
  <1>3. \A l \in Q : l = [tick |-> h.tick, list |-> h.list] \/ (l \in P /\ l.tick # h.tick)
    BY DEF WithList
  <1>4. CASE ~(h.tick <= t)
    <2>1. ASSUME NEW i \in ListsBy(s, t) PROVE FALSE
      <3>1. i \in 1 .. Len(s) /\ s[i].type = "list" /\ s[i].tick <= t /\ s[i].tick \in Nat
        BY ListsByType DEF ListsBy
      <3>2. Ticked(s[i]) /\ TickOf(s[i]) = s[i].tick
        BY <3>1 DEF Ticked, TickOf
      <3>3. i = 1 \/ 1 < i
        BY <3>1
      <3>4. h.tick <= s[i].tick
        BY <1>1, <3>1, <3>2, <3>3 DEF InOrder
      <3>5. QED
        BY <1>1, <1>4, <3>1, <3>4
    <2>2. ListsBy(s, t) = {} /\ ListsBy(Tail(s), t) = {}
      BY <1>2, <2>1
    <2>3. DueBy(Q, t) = DueBy(P, t)
      BY <1>4 DEF DueBy, WithList
    <2>4. QED
      BY <2>2, <2>3 DEF LatestIs
  <1>5. CASE h.tick <= t
    <2>1. ASSUME NEW i \in ListsBy(Tail(s), t), \A j \in ListsBy(Tail(s), t) : j <= i
          PROVE  Tail(s)[i].list = L
      <3>1. ASSUME NEW j \in ListsBy(s, t) PROVE j <= i + 1
        <4>1. i \in Nat /\ j \in Nat /\ (j = 1 \/ j - 1 <= i)
          BY <1>2, <2>1
        <4>2. QED
          BY <4>1
      <3>2. s[i + 1].list = L
        BY <1>2, <3>1 DEF LatestIs
      <3>3. QED
        BY <1>2, <3>2
    <2>2. ASSUME ListsBy(Tail(s), t) = {} PROVE h.list = L
      <3>1. 1 \in ListsBy(s, t)
        BY <1>1, <1>5 DEF ListsBy
      <3>2. \A j \in ListsBy(s, t) : j <= 1
        BY <1>2, <2>2
      <3>3. QED
        BY <1>1, <3>1, <3>2 DEF LatestIs
    <2>3. [tick |-> h.tick, list |-> h.list] \in DueBy(Q, t)
      BY <1>5 DEF DueBy, WithList
    <2>4. ASSUME NEW l \in DueBy(Q, t), \A k \in DueBy(Q, t) : k.tick <= l.tick
          PROVE  l.list = h.list
      <3>1. h.tick <= l.tick /\ l \in Q
        BY <2>3, <2>4 DEF DueBy
      <3>2. CASE l \in P /\ l.tick # h.tick
        <4>1. l.tick \in Nat /\ l.tick <= h.tick
          BY <3>2 DEF ListT
        <4>2. QED
          BY <1>1, <3>1, <3>2, <4>1
      <3>3. QED
        BY <1>3, <3>1, <3>2
    <2>5. QED
      BY <2>1, <2>2, <2>3, <2>4 DEF LatestIs
  <1>6. QED
    BY <1>4, <1>5

Kept(P, u) == P \ DueBy(P, u)
Installed(P, R, u) == IF DueBy(P, u) = {} THEN R ELSE LastBy(P, u).list

\* Installing the lists up to a tick does not change what the client will have later.
LEMMA LatestInstalled ==
  ASSUME NEW s \in Seq(ClientPacket), NEW P \in SUBSET ListT,
         NEW R, NEW t \in Nat, NEW u \in Nat, NEW L,
         u <= t \/ \A l \in P : l.tick <= t, LatestIs(s, P, R, t, L)
  PROVE  LatestIs(s, Kept(P, u), Installed(P, R, u), t, L)
  <1>1. \A l \in P : l.tick \in Nat
    BY DEF ListT
  <1>2. DueBy(P, u) \subseteq DueBy(P, t)
    BY <1>1 DEF DueBy
  <1>3. SUFFICES ASSUME ListsBy(s, t) = {}
                 PROVE  /\ \A l \in DueBy(Kept(P, u), t) :
                             (\A k \in DueBy(Kept(P, u), t) : k.tick <= l.tick) => l.list = L
                        /\ DueBy(Kept(P, u), t) = {} => Installed(P, R, u) = L
    BY DEF LatestIs
  <1>4. /\ \A l \in DueBy(P, t) : (\A k \in DueBy(P, t) : k.tick <= l.tick) => l.list = L
        /\ DueBy(P, t) = {} => R = L
    BY <1>3 DEF LatestIs
  <1>5. ASSUME NEW l \in DueBy(Kept(P, u), t), \A k \in DueBy(Kept(P, u), t) : k.tick <= l.tick
        PROVE  l.list = L
    <2>1. l \in DueBy(P, t) /\ l \in P /\ ~(l.tick <= u)
      BY DEF DueBy, Kept
    <2>2. ASSUME NEW k \in DueBy(P, t) PROVE k.tick <= l.tick
      <3>1. CASE k \in DueBy(P, u)
        BY <1>1, <2>1, <3>1 DEF DueBy
      <3>2. CASE k \notin DueBy(P, u)
        BY <1>5, <3>2 DEF DueBy, Kept
      <3>3. QED
        BY <3>1, <3>2
    <2>3. QED
      BY <1>4, <2>1, <2>2
  <1>6. ASSUME DueBy(Kept(P, u), t) = {} PROVE Installed(P, R, u) = L
    <2>1. DueBy(P, t) = DueBy(P, u)
      BY <1>2, <1>6 DEF DueBy, Kept
    <2>2. CASE DueBy(P, u) = {}
      BY <1>4, <2>1, <2>2 DEF Installed
    <2>3. CASE DueBy(P, u) # {}
      <3>1. /\ LastBy(P, u) \in DueBy(P, u)
            /\ \A k \in DueBy(P, u) : k.tick <= LastBy(P, u).tick
        BY <2>3, LastDue
      <3>2. LastBy(P, u).list = L
        BY <1>4, <2>1, <3>1
      <3>3. QED
        BY <2>3, <3>2 DEF Installed
    <2>4. QED
      BY <2>2, <2>3
  <1>7. QED
    BY <1>5, <1>6

LEMMA InstalledType ==
  ASSUME NEW P \in SUBSET ListT, NEW R \in Roster, NEW u \in Nat
  PROVE  Kept(P, u) \in SUBSET ListT /\ Installed(P, R, u) \in Roster
  <1>1. CASE DueBy(P, u) = {}
    BY <1>1 DEF Kept, Installed
  <1>2. CASE DueBy(P, u) # {}
    <2>1. LastBy(P, u) \in DueBy(P, u)
      BY <1>2, LastDue
    <2>2. LastBy(P, u) \in ListT
      BY <2>1 DEF DueBy
    <2>3. LastBy(P, u).list \in Roster
      BY <2>2 DEF ListT
    <2>4. QED
      BY <1>2, <2>3 DEF Kept, Installed
  <1>3. QED
    BY <1>1, <1>2


-----------------------------------------------------------------------------
LEMMA OrderAppend ==
  ASSUME NEW s \in Seq(ClientPacket), NEW v \in Nat, NEW h \in Nat, v <= h,
         NEW p \in ClientPacket, Ticked(p) => TickOf(p) = h
  PROVE  /\ Within(s, v, h) => Within(Append(s, p), v, h)
         /\ InOrder(s) /\ Within(s, v, h) => InOrder(Append(s, p))
  <1>1. ASSUME Within(s, v, h) PROVE Within(Append(s, p), v, h)
    BY <1>1, AppendAt DEF Within
  <1>2. ASSUME InOrder(s), Within(s, v, h) PROVE InOrder(Append(s, p))
    <2> DEFINE q == Append(s, p)
    <2>1. SUFFICES ASSUME NEW i \in 1 .. Len(q), NEW j \in 1 .. Len(q), i < j, Ticked(q[i]), Ticked(q[j])
                   PROVE  TickOf(q[i]) <= TickOf(q[j])
      BY DEF InOrder
    <2>2. Len(q) = Len(s) + 1 /\ Len(s) \in Nat /\ q[Len(s) + 1] = p
          /\ \A k \in 1 .. Len(s) : q[k] = s[k]
      BY AppendAt
    <2> HIDE DEF q
    <2>3. i \in 1 .. Len(s)
      BY <2>1, <2>2
    <2>4. CASE j \in 1 .. Len(s)
      BY <1>2, <2>1, <2>2, <2>3, <2>4 DEF InOrder
    <2>5. CASE j = Len(s) + 1
      BY <1>2, <2>1, <2>2, <2>3, <2>5 DEF Within
    <2>6. QED
      BY <2>2, <2>4, <2>5
  <1>3. QED
    BY <1>1, <1>2

LEMMA OrderTail ==
  ASSUME NEW s \in Seq(ClientPacket), s # <<>>, NEW v, NEW h
  PROVE  /\ InOrder(s) => InOrder(Tail(s))
         /\ Within(s, v, h) => /\ Within(Tail(s), v, h)
                               /\ Ticked(Head(s)) => v <= TickOf(Head(s)) /\ TickOf(Head(s)) <= h
         /\ InOrder(s) /\ Within(s, v, h) /\ Ticked(Head(s)) => Within(Tail(s), TickOf(Head(s)), h)
  <1>1. ASSUME InOrder(s) PROVE InOrder(Tail(s))
    <2>1. SUFFICES ASSUME NEW i \in 1 .. Len(Tail(s)), NEW j \in 1 .. Len(Tail(s)), i < j,
                          Ticked(Tail(s)[i]), Ticked(Tail(s)[j])
                   PROVE  TickOf(Tail(s)[i]) <= TickOf(Tail(s)[j])
      BY DEF InOrder
    <2>2. /\ i + 1 \in 1 .. Len(s) /\ Tail(s)[i] = s[i + 1]
          /\ j + 1 \in 1 .. Len(s) /\ Tail(s)[j] = s[j + 1]
          /\ i + 1 < j + 1
      BY <2>1, TailAt
    <2>3. QED
      BY <1>1, <2>1, <2>2 DEF InOrder
  <1>2. ASSUME Within(s, v, h)
        PROVE  /\ Within(Tail(s), v, h)
               /\ Ticked(Head(s)) => v <= TickOf(Head(s)) /\ TickOf(Head(s)) <= h
    BY <1>2, TailAt DEF Within
  <1>3. ASSUME InOrder(s), Within(s, v, h), Ticked(Head(s)) PROVE Within(Tail(s), TickOf(Head(s)), h)
    <2>1. SUFFICES ASSUME NEW i \in 1 .. Len(Tail(s)), Ticked(Tail(s)[i])
                   PROVE  TickOf(Head(s)) <= TickOf(Tail(s)[i]) /\ TickOf(Tail(s)[i]) <= h
      BY DEF Within
    <2>2. i + 1 \in 1 .. Len(s) /\ Tail(s)[i] = s[i + 1] /\ Head(s) = s[1] /\ 1 \in 1 .. Len(s) /\ 1 < i + 1
      BY TailAt
    <2>3. QED
      BY <1>3, <2>1, <2>2 DEF InOrder, Within
  <1>4. QED
    BY <1>1, <1>2, <1>3

LEMMA MapAppend ==
  ASSUME NEW s \in Seq(ClientPacket), NEW p \in ClientPacket, NEW t, MapBy(Append(s, p), t)
  PROVE  MapBy(s, t) \/ (p.type = "map" /\ p.tick <= t)
  BY AppendAt DEF MapBy

LEMMA MapTail ==
  ASSUME NEW s \in Seq(ClientPacket), s # <<>>, NEW t
  PROVE  /\ MapBy(Tail(s), t) => MapBy(s, t)
         /\ Head(s).type = "map" /\ Head(s).tick <= t => MapBy(s, t)
  BY TailAt DEF MapBy

(***************************************************************************)
(* A client and the host at tick h: with s on its way, P pending, R        *)
(* installed and told of tick v, the client will have the host's list      *)
(* after each tick it has still to finish (those of F, and those a map on  *)
(* its way starts with), and after this one, unless the host has still to  *)
(* send it.  sn are the lists the host had after its ticks, L is its own.  *)
(***************************************************************************)
Fits(s, P, R, F, v, h, sn, fresh, L) ==
  /\ InOrder(s) /\ Within(s, v, h) /\ v <= h
  /\ \A l \in P : l.tick <= h /\ Within(s, l.tick, h)
  /\ \A t \in Nat : t < h /\ (t \in F \/ MapBy(s, t)) => LatestIs(s, P, R, t, sn[t + 1])
  /\ fresh => LatestIs(s, P, R, h, L)

LEMMA FitsAppend ==
  ASSUME NEW s \in Seq(ClientPacket), NEW P \in SUBSET ListT, NEW R, NEW F, NEW v \in Nat,
         NEW h \in Nat, NEW sn, NEW fresh, NEW L, Fits(s, P, R, F, v, h, sn, fresh, L),
         NEW p \in ClientPacket, p.type # "list", Ticked(p) => TickOf(p) = h
  PROVE  Fits(Append(s, p), P, R, F, v, h, sn, fresh, L)
  <1>1. InOrder(Append(s, p)) /\ Within(Append(s, p), v, h) /\ v <= h
    BY OrderAppend DEF Fits
  <1>2. ASSUME NEW l \in P PROVE l.tick <= h /\ Within(Append(s, p), l.tick, h)
    <2>1. l.tick \in Nat /\ l.tick <= h /\ Within(s, l.tick, h)
      BY DEF ListT, Fits
    <2>2. QED
      BY <2>1, OrderAppend
  <1>3. ASSUME NEW t \in Nat, t < h, t \in F \/ MapBy(Append(s, p), t)
        PROVE  LatestIs(Append(s, p), P, R, t, sn[t + 1])
    <2>1. p.type = "map" => p.tick = h
      BY DEF Ticked, TickOf
    <2>2. t \in F \/ MapBy(s, t)
      BY <1>3, <2>1, MapAppend
    <2>3. QED
      BY <1>3, <2>2, LatestAppend DEF Fits
  <1>4. ASSUME fresh PROVE LatestIs(Append(s, p), P, R, h, L)
    BY <1>4, LatestAppend DEF Fits
  <1>5. QED
    BY <1>1, <1>2, <1>3, <1>4 DEF Fits

LEMMA FitsAppendList ==
  ASSUME NEW s \in Seq(ClientPacket), NEW P \in SUBSET ListT, NEW R, NEW F, NEW v \in Nat,
         NEW h \in Nat, NEW sn, NEW fresh, NEW L, Fits(s, P, R, F, v, h, sn, fresh, L),
         NEW list \in Roster, NEW p, p = [type |-> "list", tick |-> h, list |-> list]
  PROVE  Fits(Append(s, p), P, R, F, v, h, sn, TRUE, list)
  <1>0. p \in ClientPacket /\ p.type = "list" /\ p.tick = h /\ p.list = list /\ TickOf(p) = h
    BY DEF ClientPacket, TickOf
  <1>1. InOrder(Append(s, p)) /\ Within(Append(s, p), v, h) /\ v <= h
    BY <1>0, OrderAppend DEF Fits
  <1>2. ASSUME NEW l \in P PROVE l.tick <= h /\ Within(Append(s, p), l.tick, h)
    <2>1. l.tick \in Nat /\ l.tick <= h /\ Within(s, l.tick, h)
      BY DEF ListT, Fits
    <2>2. QED
      BY <1>0, <2>1, OrderAppend
  <1>3. ASSUME NEW t \in Nat, t < h, t \in F \/ MapBy(Append(s, p), t)
        PROVE  LatestIs(Append(s, p), P, R, t, sn[t + 1])
    <2>1. t \in F \/ MapBy(s, t)
      BY <1>0, <1>3, MapAppend
    <2>2. LatestIs(s, P, R, t, sn[t + 1])
      BY <1>3, <2>1 DEF Fits
    <2>3. ~(p.tick <= t)
      BY <1>0, <1>3
    <2>4. QED
      BY <1>0, <2>2, <2>3, LatestAppend
  <1>4. LatestIs(Append(s, p), P, R, h, list)
    <2>1. p.tick <= h
      BY <1>0
    <2>2. LatestIs(Append(s, p), P, R, h, p.list)
      BY <1>0, <2>1, LatestSent
    <2>3. QED
      BY <1>0, <2>2
  <1>5. QED
    BY <1>1, <1>2, <1>3, <1>4 DEF Fits


LEMMA FitsCounted ==
  ASSUME NEW s \in Seq(ClientPacket), NEW P \in SUBSET ListT, NEW R, NEW F, NEW v \in Nat,
         NEW h \in Nat, NEW sn \in Seq(Roster), Len(sn) = h, NEW L \in Roster,
         Fits(s, P, R, F, v, h, sn, TRUE, L)
  PROVE  Fits(s, P, R, F, v, h + 1, Append(sn, L), TRUE, L)
  <1>1. ASSUME NEW i \in 1 .. Len(s), Ticked(s[i])
        PROVE  TickOf(s[i]) \in Nat /\ v <= TickOf(s[i]) /\ TickOf(s[i]) <= h
    <2>1. s[i] \in ClientPacket
      OBVIOUS
    <2>2. QED
      BY <1>1, <2>1, TickOfType DEF Fits, Within
  <1>2. Within(s, v, h + 1) /\ Within(s, 0, h) /\ v <= h + 1
    BY <1>1 DEF Within, Fits
  <1>3. ASSUME NEW l \in P PROVE l.tick <= h /\ l.tick <= h + 1 /\ Within(s, l.tick, h + 1)
    <2>1. l.tick \in Nat /\ l.tick <= h /\ Within(s, l.tick, h)
      BY DEF ListT, Fits
    <2>2. QED
      BY <1>1, <2>1 DEF Within
  <1>4. LatestIs(s, P, R, h, L)
    BY DEF Fits
  <1>5. LatestIs(s, P, R, h + 1, L)
    BY <1>2, <1>3, <1>4, LatestLater
  <1>6. ASSUME NEW t \in Nat, t < h + 1, t \in F \/ MapBy(s, t)
        PROVE  LatestIs(s, P, R, t, Append(sn, L)[t + 1])
    <2>1. CASE t < h
      <3>1. Append(sn, L)[t + 1] = sn[t + 1]
        BY <2>1
      <3>2. LatestIs(s, P, R, t, sn[t + 1])
        BY <1>6, <2>1 DEF Fits
      <3>3. QED
        BY <3>1, <3>2
    <2>2. CASE t = h
      <3>1. Append(sn, L)[t + 1] = L
        BY <2>2
      <3>2. QED
        BY <1>4, <2>2, <3>1
    <2>3. QED
      BY <1>6, <2>1, <2>2
  <1>7. QED
    BY <1>2, <1>3, <1>5, <1>6 DEF Fits

LEMMA FitsHandled ==
  ASSUME NEW s \in Seq(ClientPacket), s # <<>>, Head(s).type # "list",
         NEW P \in SUBSET ListT, NEW R, NEW F, NEW v \in Nat,
         NEW h \in Nat, NEW sn, NEW fresh, NEW L, Fits(s, P, R, F, v, h, sn, fresh, L),
         NEW w, w = v \/ (Ticked(Head(s)) /\ w = TickOf(Head(s))),
         NEW G, \A t \in G : t \in F \/ MapBy(s, t)
  PROVE  Fits(Tail(s), P, R, G, w, h, sn, fresh, L)
  <1>1. InOrder(Tail(s)) /\ Within(Tail(s), w, h) /\ w <= h
    BY OrderTail DEF Fits
  <1>2. \A l \in P : l.tick <= h /\ Within(Tail(s), l.tick, h)
    BY OrderTail DEF Fits
  <1>3. ASSUME NEW t \in Nat, t < h, t \in G \/ MapBy(Tail(s), t)
        PROVE  LatestIs(Tail(s), P, R, t, sn[t + 1])
    <2>1. t \in F \/ MapBy(s, t)
      BY <1>3, MapTail
    <2>2. QED
      BY <1>3, <2>1, LatestTail DEF Fits
  <1>4. ASSUME fresh PROVE LatestIs(Tail(s), P, R, h, L)
    BY <1>4, LatestTail DEF Fits
  <1>5. QED
    BY <1>1, <1>2, <1>3, <1>4 DEF Fits

LEMMA FitsReceived ==
  ASSUME NEW s \in Seq(ClientPacket), s # <<>>, Head(s).type = "list",
         NEW P \in SUBSET ListT, NEW R, NEW F, NEW v \in Nat,
         NEW h \in Nat, NEW sn, NEW fresh, NEW L, Fits(s, P, R, F, v, h, sn, fresh, L)
  PROVE  Fits(Tail(s), WithList(P, Head(s)), R, F, v, h, sn, fresh, L)
  <1>0. Ticked(Head(s)) /\ TickOf(Head(s)) = Head(s).tick
    BY DEF Ticked, TickOf
  <1>1. InOrder(Tail(s)) /\ Within(Tail(s), v, h) /\ v <= h /\ InOrder(s)
    BY OrderTail DEF Fits
  <1>2. \A l \in P : l.tick <= h /\ l.tick <= Head(s).tick /\ Within(Tail(s), l.tick, h)
    BY <1>0, OrderTail DEF Fits
  <1>3. Head(s).tick <= h /\ Within(Tail(s), Head(s).tick, h)
    BY <1>0, OrderTail DEF Fits
  <1>4. \A l \in WithList(P, Head(s)) : l.tick <= h /\ Within(Tail(s), l.tick, h)
    BY <1>2, <1>3 DEF WithList
  <1>5. ASSUME NEW t \in Nat, t < h, t \in F \/ MapBy(Tail(s), t)
        PROVE  LatestIs(Tail(s), WithList(P, Head(s)), R, t, sn[t + 1])
    <2>1. t \in F \/ MapBy(s, t)
      BY <1>5, MapTail
    <2>2. LatestIs(s, P, R, t, sn[t + 1])
      BY <1>5, <2>1 DEF Fits
    <2>3. QED
      BY <1>1, <1>2, <2>2, LatestReceived
  <1>6. ASSUME fresh PROVE LatestIs(Tail(s), WithList(P, Head(s)), R, h, L)
    <2>1. LatestIs(s, P, R, h, L)
      BY <1>6 DEF Fits
    <2>2. QED
      BY <1>1, <1>2, <2>1, LatestReceived
  <1>7. QED
    BY <1>1, <1>4, <1>5, <1>6 DEF Fits

LEMMA FitsInstalled ==
  ASSUME NEW s \in Seq(ClientPacket), NEW P \in SUBSET ListT, NEW R, NEW F, NEW v \in Nat,
         NEW h \in Nat, NEW sn, NEW fresh, NEW L, Fits(s, P, R, F, v, h, sn, fresh, L),
         NEW u \in Nat, \A t \in F : u <= t
  PROVE  Fits(s, Kept(P, u), Installed(P, R, u), F, v, h, sn, fresh, L)
  <1>1. \A l \in Kept(P, u) : l.tick <= h /\ Within(s, l.tick, h)
    BY DEF Fits, Kept
  <1>2. ASSUME NEW t \in Nat, MapBy(s, t) PROVE \A l \in P : l.tick <= t
    <2>1. PICK i \in 1 .. Len(s) : s[i].type = "map" /\ s[i].tick <= t
      BY <1>2 DEF MapBy
    <2>2. s[i] \in ClientPacket /\ Ticked(s[i])
      BY <2>1 DEF Ticked
    <2>3. s[i].tick \in Nat /\ TickOf(s[i]) = s[i].tick
      BY <2>1, <2>2, TickOfType
    <2>4. TAKE l \in P
    <2>5. l.tick \in Nat /\ l.tick <= s[i].tick
      BY <2>2, <2>3 DEF Fits, Within, ListT
    <2>6. QED
      BY <2>1, <2>3, <2>5
  <1>3. ASSUME NEW t \in Nat, t < h, t \in F \/ MapBy(s, t)
        PROVE  LatestIs(s, Kept(P, u), Installed(P, R, u), t, sn[t + 1])
    <2>1. LatestIs(s, P, R, t, sn[t + 1])
      BY <1>3 DEF Fits
    <2>2. u <= t \/ \A l \in P : l.tick <= t
      BY <1>2, <1>3
    <2>3. QED
      BY <2>1, <2>2, LatestInstalled
  <1>4. ASSUME fresh PROVE LatestIs(s, Kept(P, u), Installed(P, R, u), h, L)
    <2>1. LatestIs(s, P, R, h, L) /\ \A l \in P : l.tick <= h
      BY <1>4 DEF Fits
    <2>2. QED
      BY <2>1, LatestInstalled
  <1>5. QED
    BY <1>1, <1>3, <1>4 DEF Fits

LEMMA FitsFewer ==
  ASSUME NEW s, NEW P, NEW R, NEW F, NEW v, NEW h, NEW sn, NEW fresh, NEW L,
         Fits(s, P, R, F, v, h, sn, fresh, L), NEW G, \A t \in G : t \in F
  PROVE  Fits(s, P, R, G, v, h, sn, fresh, L)
  BY DEF Fits

\* What a client holds that finishes tick t, and was told of a later one.
LEMMA FitsNow ==
  ASSUME NEW s \in Seq(ClientPacket), NEW P \in SUBSET ListT, NEW R, NEW F, NEW v \in Nat,
         NEW h \in Nat, NEW sn, NEW fresh, NEW L, Fits(s, P, R, F, v, h, sn, fresh, L),
         NEW t \in Nat, t \in F, t < v
  PROVE  Installed(P, R, t) = sn[t + 1]
  <1>1. t < h
    BY DEF Fits
  <1>2. LatestIs(s, P, R, t, sn[t + 1])
    BY <1>1 DEF Fits
  <1>3. ListsBy(s, t) = {}
    <2>1. ASSUME NEW i \in ListsBy(s, t) PROVE FALSE
      <3>1. i \in 1 .. Len(s) /\ s[i].type = "list" /\ s[i].tick <= t /\ s[i].tick \in Nat
        BY ListsByType DEF ListsBy
      <3>2. v <= s[i].tick
        BY <3>1 DEF Fits, Within, Ticked, TickOf
      <3>3. QED
        BY <3>1, <3>2
    <2>2. QED
      BY <2>1
  <1>4. LatestIs(s, Kept(P, t), Installed(P, R, t), t, sn[t + 1])
    BY <1>2, LatestInstalled
  <1>5. DueBy(Kept(P, t), t) = {}
    BY DEF DueBy, Kept
  <1>6. QED
    BY <1>3, <1>4, <1>5 DEF LatestIs


-----------------------------------------------------------------------------
(***************************************************************************)
(* Types, and what they need: the player of a connection has an entry in   *)
(* the host's list.                                                        *)
(***************************************************************************)
Typed ==
  /\ pc \in [Machine -> {"poll", "queue", "post"}]
  /\ frame \in [Machine -> {"update", "paused"}]
  /\ tick \in [Machine -> Nat]
  /\ paused \in [Machine -> BOOLEAN]
  /\ roster \in [Machine -> Roster]
  /\ queue \in [Machine -> Seq(Action)]
  /\ invalidated \in BOOLEAN
  /\ conn \in [Client -> {"none", "joining", "loaded", "gone"}]
  /\ leaving \in SUBSET Client
  /\ outbox \in [Client -> Seq(ClientPacket)]
  /\ toClient \in [Client -> Seq(ClientPacket)]
  /\ toHost \in [Client -> Seq(HostPacket)]
  /\ serverTick \in [Client -> Nat]
  /\ pending \in [Client -> SUBSET ListT]
  /\ sent \in Seq(Roster)
  /\ issued \in 0 .. MaxActions /\ toggled \in 0 .. Toggles

HostFits ==
  /\ Len(sent) = tick[Host]
  /\ \A c \in Connected : \E p \in roster[Host] : p.who = c

LEMMA TypedIsType == Typed => TypeOK
  BY DEF Typed, TypeOK, Roster, ListT

LEMMA Machines == Host \in Machine /\ \A c \in Client : c \in Machine /\ c # Host
  BY PlayersAssumption DEF Machine

LEMMA WithPacketType ==
  ASSUME NEW boxes \in [Client -> Seq(ClientPacket)], NEW recipients, NEW packet \in ClientPacket
  PROVE  WithPacket(boxes, recipients, packet) \in [Client -> Seq(ClientPacket)]
  BY DEF WithPacket

LEMMA FlushType ==
  ASSUME Typed, NEW boxes \in [Client -> Seq(ClientPacket)], Flush(boxes)
  PROVE  /\ toClient' \in [Client -> Seq(ClientPacket)]
         /\ outbox' \in [Client -> Seq(ClientPacket)]
  <1>1. \A c \in Client : toClient[c] \o boxes[c] \in Seq(ClientPacket)
    BY DEF Typed
  <1>2. <<>> \in Seq(ClientPacket)
    OBVIOUS
  <1>3. QED
    BY <1>1, <1>2 DEF Flush

LEMMA ClosedType ==
  ASSUME NEW D, NEW T, NEW f \in [D -> T], NEW nothing \in T
  PROVE  Closed(f, nothing) \in [D -> T]
  BY DEF Closed

LEMMA TickPacketType ==
  ASSUME Typed
  PROVE  TickPacket \in ClientPacket
  BY Machines DEF Typed, TickPacket, ClientPacket

LEMMA InstallType ==
  ASSUME Typed, NEW c \in Client, NEW t \in Nat, InstallLists(c, t)
  PROVE  /\ pending' = [pending EXCEPT ![c] = Kept(pending[c], t)]
         /\ roster' = [roster EXCEPT ![c] = Installed(pending[c], roster[c], t)]
         /\ pending' \in [Client -> SUBSET ListT]
         /\ roster' \in [Machine -> Roster]
  <1>1. /\ pending' = [pending EXCEPT ![c] = Kept(pending[c], t)]
        /\ roster' = [roster EXCEPT ![c] = Installed(pending[c], roster[c], t)]
    <2>1. /\ pending' = [pending EXCEPT ![c] = pending[c] \ DueBy(pending[c], t)]
          /\ roster' = [roster EXCEPT ![c] =
               IF DueBy(pending[c], t) = {} THEN roster[c] ELSE LastBy(pending[c], t).list]
      <3>1. c \in Client /\ c \in Machine /\ pending \in [Client -> SUBSET ListT]
              /\ roster \in [Machine -> Roster]
        BY Machines DEF Typed
      <3>2. QED
        BY <3>1 DEF InstallLists, DueBy, LastBy
    <2>2. QED
      BY <2>1 DEF Kept, Installed
  <1>2. Kept(pending[c], t) \in SUBSET ListT /\ Installed(pending[c], roster[c], t) \in Roster
    BY Machines, InstalledType DEF Typed
  <1>3. QED
    BY <1>1, <1>2 DEF Typed

\* Lists that one client installs are no concern of the others.
LEMMA InstallOthers ==
  ASSUME Typed, NEW d \in Client, NEW t, InstallLists(d, t)
  PROVE  /\ \A m \in Machine : m # d => roster'[m] = roster[m]
         /\ \A c \in Client : c # d => pending'[c] = pending[c]
  BY DEF InstallLists, Typed

LEMMA ReceivedByClient ==
  ASSUME Typed, NEW c \in Client, NEW type, ClientReceives(c, type)
  PROVE  /\ toClient[c] # <<>> /\ Head(toClient[c]) \in ClientPacket /\ Head(toClient[c]).type = type
         /\ Tail(toClient[c]) \in Seq(ClientPacket)
         /\ toClient' = [toClient EXCEPT ![c] = Tail(toClient[c])]
         /\ toClient' \in [Client -> Seq(ClientPacket)]
  <1>1. toClient[c] \in Seq(ClientPacket) /\ toClient[c] # <<>>
    BY DEF Typed, ClientReceives
  <1>2. Head(toClient[c]) \in ClientPacket /\ Tail(toClient[c]) \in Seq(ClientPacket)
    BY <1>1
  <1>3. toClient' = [toClient EXCEPT ![c] = Tail(toClient[c])] /\ Head(toClient[c]).type = type
    BY DEF Typed, ClientReceives
  <1>4. QED
    BY <1>1, <1>2, <1>3 DEF Typed

LEMMA ReceivedByHost ==
  ASSUME Typed, NEW c \in Client, NEW type, HostReceives(c, type)
  PROVE  /\ toHost[c] # <<>> /\ Head(toHost[c]) \in HostPacket /\ Head(toHost[c]).type = type
         /\ toHost' = [toHost EXCEPT ![c] = Tail(toHost[c])]
         /\ toHost' \in [Client -> Seq(HostPacket)]
         /\ type = "action" => Head(toHost[c]).tick \in Nat
  <1>1. toHost[c] \in Seq(HostPacket) /\ toHost[c] # <<>>
    BY DEF Typed, HostReceives
  <1>2. Head(toHost[c]) \in HostPacket /\ Tail(toHost[c]) \in Seq(HostPacket)
    BY <1>1
  <1>3. toHost' = [toHost EXCEPT ![c] = Tail(toHost[c])] /\ Head(toHost[c]).type = type
    BY DEF Typed, HostReceives
  <1>4. toHost' \in [Client -> Seq(HostPacket)]
    BY <1>2, <1>3 DEF Typed
  <1>5. QED
    BY <1>1, <1>2, <1>3, <1>4 DEF HostPacket


LEMMA HostRunsType ==
  ASSUME Typed, HostRuns
  PROVE  Typed'
  <1> USE Machines DEF thread, park, server, network, client, bounds
  <1>1. ASSUME HostUpdates \/ HostPauses PROVE Typed'
    <2>1. outbox' \in [Client -> Seq(ClientPacket)]
      <3>1. outbox \in [Client -> Seq(ClientPacket)] /\ TickPacket \in ClientPacket
        BY TickPacketType DEF Typed
      <3>2. WithPacket(outbox, Connected, TickPacket) \in [Client -> Seq(ClientPacket)]
        BY <3>1, WithPacketType
      <3>3. QED
        BY <1>1, <3>2 DEF HostUpdates, HostPauses
    <2>2. QED
      BY <1>1, <2>1 DEF HostUpdates, HostPauses, Typed
  <1>2. ASSUME HostEndsPausedFrame PROVE Typed'
    <2>1. /\ toClient' \in [Client -> Seq(ClientPacket)]
          /\ outbox' \in [Client -> Seq(ClientPacket)]
      BY <1>2, FlushType DEF HostEndsPausedFrame, Typed
    <2>2. QED
      BY <1>2, <2>1 DEF HostEndsPausedFrame, Typed
  <1>3. ASSUME NEW m \in Machine, Execute(m) PROVE Typed'
    <2> DEFINE a == Head(queue[m])
               b == [a EXCEPT !.tick = tick[Host]]
               packet == [type |-> "action", action |-> b]
    <2>1. queue[m] \in Seq(Action) /\ queue[m] # <<>>
      BY <1>3 DEF Execute, Due, Typed
    <2>2. a \in Action /\ Tail(queue[m]) \in Seq(Action)
      BY <2>1
    <2>3. packet \in ClientPacket
      <3>1. b \in Action
        BY <2>2 DEF Action, Typed
      <3>2. QED
        BY <3>1 DEF ClientPacket
    <2>4. outbox' \in [Client -> Seq(ClientPacket)]
      <3>1. outbox' = WithPacket(outbox, Connected, packet) \/ outbox' = outbox
        BY <1>3 DEF Execute
      <3> HIDE DEF packet
      <3>2. outbox \in [Client -> Seq(ClientPacket)]
        BY DEF Typed
      <3>3. WithPacket(outbox, Connected, packet) \in [Client -> Seq(ClientPacket)]
        BY <2>3, <3>2, WithPacketType
      <3>4. QED
        BY <3>1, <3>2, <3>3
    <2>5. queue' \in [Machine -> Seq(Action)]
      <3>1. queue' = [queue EXCEPT ![m] = Tail(queue[m])]
        BY <1>3 DEF Execute, Typed
      <3>2. QED
        BY <2>2, <3>1 DEF Typed
    <2>6. paused' \in [Machine -> BOOLEAN]
      BY <1>3 DEF Execute, Typed
    <2>7. QED
      BY <1>3, <2>4, <2>5, <2>6 DEF Execute, Typed
  <1>4. ASSUME NEW m \in Machine, EndQueue(m) PROVE Typed'
    BY <1>4 DEF EndQueue, Go, Typed
  <1>5. ASSUME HostPostTick PROVE Typed'
    <2> DEFINE list == {p \in roster[Host] : p.who \notin leaving}
               packet == [type |-> "list", tick |-> tick[Host], list |-> list]
               full == IF ListChanged(list) THEN WithPacket(outbox, Connected \ leaving, packet)
                                            ELSE outbox
    <2>1. list \in Roster
      BY DEF Typed, Roster
    <2>2. packet \in ClientPacket
      BY <2>1 DEF ClientPacket, Typed
    <2>3. full \in [Client -> Seq(ClientPacket)]
      BY <2>2, WithPacketType DEF Typed
    <2>4. {} \in Roster /\ <<>> \in Seq(Action) /\ <<>> \in Seq(HostPacket) /\ {} \in SUBSET ListT
          /\ <<>> \in Seq(ClientPacket)
      BY DEF Roster
    <2>5. /\ frame' \in [Machine -> {"update", "paused"}]
          /\ paused' \in [Machine -> BOOLEAN]
          /\ queue' \in [Machine -> Seq(Action)]
          /\ conn' \in [Client -> {"none", "joining", "loaded", "gone"}]
          /\ toHost' \in [Client -> Seq(HostPacket)]
          /\ serverTick' \in [Client -> Nat]
          /\ pending' \in [Client -> SUBSET ListT]
          /\ leaving' = {} /\ invalidated' = FALSE
          /\ UNCHANGED bounds
      <3>1. /\ Closed(frame, "update") \in [Machine -> {"update", "paused"}]
            /\ Closed(paused, FALSE) \in [Machine -> BOOLEAN]
            /\ Closed(queue, <<>>) \in [Machine -> Seq(Action)]
            /\ Closed(conn, "gone") \in [Client -> {"none", "joining", "loaded", "gone"}]
            /\ Closed(toHost, <<>>) \in [Client -> Seq(HostPacket)]
            /\ Closed(serverTick, 0) \in [Client -> Nat]
            /\ Closed(pending, {}) \in [Client -> SUBSET ListT]
        BY <2>4, ClosedType DEF Typed
      <3>2. QED
        BY <1>5, <3>1 DEF HostPostTick
    <2>6. /\ Closed(pc, "poll") \in [Machine -> {"poll", "queue", "post"}]
          /\ Closed(tick, 0) \in [Machine -> Nat]
          /\ Closed(roster, {}) \in [Machine -> Roster]
          /\ Closed(toClient, <<>>) \in [Client -> Seq(ClientPacket)]
      BY <2>4, ClosedType DEF Typed
    <2>7. roster' \in [Machine -> Roster]
      <3>1. roster' = [Closed(roster, {}) EXCEPT ![Host] = list]
        BY <1>5 DEF HostPostTick
      <3>2. QED
        BY <2>1, <2>6, <3>1
    <2>8. CASE frame[Host] = "update"
      <3>1. /\ Flush(full)
            /\ sent' = Append(sent, list)
            /\ tick' = [Closed(tick, 0) EXCEPT ![Host] = @ + 1]
            /\ pc' = [Closed(pc, "poll") EXCEPT ![Host] = "poll"]
        BY <1>5, <2>8 DEF HostPostTick
      <3> HIDE DEF full, list
      <3>2. toClient' \in [Client -> Seq(ClientPacket)] /\ outbox' \in [Client -> Seq(ClientPacket)]
        BY <2>3, <3>1, FlushType
      <3>3. sent' \in Seq(Roster) /\ tick' \in [Machine -> Nat]
            /\ pc' \in [Machine -> {"poll", "queue", "post"}]
        BY <2>1, <2>6, <3>1 DEF Typed
      <3>4. QED
        BY <2>5, <2>7, <3>2, <3>3 DEF Typed
    <2>9. CASE frame[Host] # "update"
      <3>1. /\ outbox' = full
            /\ tick' = Closed(tick, 0)
            /\ pc' = [Closed(pc, "poll") EXCEPT ![Host] = "queue"]
            /\ toClient' = Closed(toClient, <<>>)
            /\ UNCHANGED sent
        BY <1>5, <2>9 DEF HostPostTick
      <3> HIDE DEF full, list
      <3>2. pc' \in [Machine -> {"poll", "queue", "post"}]
        BY <2>6, <3>1
      <3>3. QED
        BY <2>3, <2>5, <2>6, <2>7, <3>1, <3>2 DEF Typed
    <2>10. QED
      BY <2>8, <2>9
  <1>6. QED
    BY <1>1, <1>2, <1>3, <1>4, <1>5 DEF HostRuns

LEMMA ClientRunsType ==
  ASSUME Typed, NEW c \in Client, ClientRuns(c)
  PROVE  Typed'
  <1> USE Machines DEF thread, park, server, network, client, bounds
  <1>1. ASSUME ClientGoesOn(c) PROVE Typed'
    BY <1>1 DEF ClientGoesOn, Go, Typed
  <1>2. ASSUME OldParkPostTick(c) PROVE Typed'
    <2>1. PICK t \in 0 .. MaxTick : InstallLists(c, t)
      BY <1>2 DEF OldParkPostTick
    <2>2. pending' \in [Client -> SUBSET ListT] /\ roster' \in [Machine -> Roster]
      <3>1. t \in Nat
        BY PlayersAssumption
      <3>2. QED
        BY <2>1, <3>1, InstallType
    <2>3. QED
      BY <1>2, <2>2 DEF OldParkPostTick, Typed
  <1>3. ASSUME Execute(c) PROVE Typed'
    <2>1. queue[c] \in Seq(Action) /\ queue[c] # <<>>
      BY <1>3 DEF Execute, Due, Typed
    <2>2. Tail(queue[c]) \in Seq(Action)
      BY <2>1
    <2>3. queue' \in [Machine -> Seq(Action)]
      <3>1. queue' = [queue EXCEPT ![c] = Tail(queue[c])]
        BY <1>3 DEF Execute, Typed
      <3>2. QED
        BY <2>2, <3>1 DEF Typed
    <2>4. QED
      BY <1>3, <2>3 DEF Execute, Typed
  <1>4. ASSUME EndQueue(c) PROVE Typed'
    BY <1>4 DEF EndQueue, Go, Typed
  <1>5. ASSUME ClientPostTick(c) PROVE Typed'
    <2>1. InstallLists(c, tick[c]) /\ tick[c] \in Nat
      BY <1>5 DEF ClientPostTick, Typed
    <2>2. tick' \in [Machine -> Nat] /\ pc' \in [Machine -> {"poll", "queue", "post"}]
      <3>1. tick[c] + 1 \in Nat
        BY <2>1
      <3>2. \/ pc' = [pc EXCEPT ![c] = "poll"] /\ tick' = [tick EXCEPT ![c] = tick[c] + 1]
            \/ pc' = [pc EXCEPT ![c] = "queue"] /\ tick' = tick
        BY <1>5 DEF ClientPostTick, Typed
      <3>3. pc \in [Machine -> {"poll", "queue", "post"}] /\ tick \in [Machine -> Nat]
        BY DEF Typed
      <3>4. QED
        BY <3>1, <3>2, <3>3
    <2>3. pending' \in [Client -> SUBSET ListT] /\ roster' \in [Machine -> Roster]
      BY <2>1, InstallType
    <2>4. QED
      BY <1>5, <2>2, <2>3 DEF ClientPostTick, Typed
  <1>6. QED
    BY <1>1, <1>2, <1>3, <1>4, <1>5 DEF ClientRuns

LEMMA HandlerType ==
  ASSUME Typed, NEW c \in Client,
         \/ HandleObjectsList(c) \/ HandleBeginMap(c) \/ HandleMap(c)
         \/ HandleTick(c) \/ HandlePlayerList(c) \/ HandleRelayedAction(c)
  PROVE  Typed'
  <1> USE Machines DEF thread, park, server, network, client, bounds
  <1> DEFINE h == Head(toClient[c])
  <1>1. ASSUME HandleObjectsList(c) PROVE Typed'
    <2>1. [type |-> "mapRequest"] \in HostPacket
      BY DEF HostPacket
    <2>2. Append(toHost[c], [type |-> "mapRequest"]) \in Seq(HostPacket)
      BY <2>1 DEF Typed
    <2>3. toHost' = [toHost EXCEPT ![c] = Append(toHost[c], [type |-> "mapRequest"])]
      BY <1>1 DEF HandleObjectsList, Typed
    <2>4. toHost' \in [Client -> Seq(HostPacket)]
      BY <2>2, <2>3 DEF Typed
    <2>5. QED
      BY <1>1, <2>4, ReceivedByClient DEF HandleObjectsList, Typed
  <1>2. ASSUME HandleBeginMap(c) PROVE Typed'
    <2>1. toClient' \in [Client -> Seq(ClientPacket)]
      BY <1>2, ReceivedByClient DEF HandleBeginMap
    <2>2. queue' \in [Machine -> Seq(Action)]
      BY <1>2 DEF HandleBeginMap, Typed
    <2>3. QED
      BY <1>2, <2>1, <2>2 DEF HandleBeginMap, Typed
  <1>3. ASSUME HandleMap(c) PROVE Typed'
    <2>1. h \in ClientPacket /\ h.type = "map" /\ toClient' \in [Client -> Seq(ClientPacket)]
      BY <1>3, ReceivedByClient DEF HandleMap
    <2>2. h.tick \in Nat /\ h.paused \in BOOLEAN
      BY <2>1, TickOfType DEF Ticked
    <2>3. /\ tick' = [tick EXCEPT ![c] = h.tick]
          /\ paused' = [paused EXCEPT ![c] = h.paused]
          /\ InstallLists(c, h.tick)
      BY <1>3 DEF HandleMap
    <2> HIDE DEF h
    <2>4. QED
      BY <1>3, <2>1, <2>2, <2>3, InstallType DEF HandleMap, Typed
  <1>4. ASSUME HandleTick(c) PROVE Typed'
    <2>1. h \in ClientPacket /\ h.type = "tick" /\ toClient' \in [Client -> Seq(ClientPacket)]
      BY <1>4, ReceivedByClient DEF HandleTick
    <2>2. h.tick \in Nat
      BY <2>1, TickOfType DEF Ticked
    <2>3. QED
      BY <1>4, <2>1, <2>2 DEF HandleTick, Typed
  <1>5. ASSUME HandlePlayerList(c) PROVE Typed'
    <2>1. h \in ClientPacket /\ h.type = "list" /\ toClient' \in [Client -> Seq(ClientPacket)]
      BY <1>5, ReceivedByClient DEF HandlePlayerList
    <2>2. h.tick \in Nat /\ h.list \in Roster
      BY <2>1, TickOfType DEF Ticked
    <2>3. pending' = [pending EXCEPT ![c] = WithList(pending[c], h)]
      BY <1>5 DEF HandlePlayerList, WithList, Typed
    <2>4. WithList(pending[c], h) \in SUBSET ListT
      BY <2>2 DEF WithList, ListT, Typed
    <2>5. QED
      BY <1>5, <2>1, <2>3, <2>4 DEF HandlePlayerList, Typed
  <1>6. ASSUME HandleRelayedAction(c) PROVE Typed'
    <2>1. h \in ClientPacket /\ h.type = "action" /\ toClient' \in [Client -> Seq(ClientPacket)]
      BY <1>6, ReceivedByClient DEF HandleRelayedAction
    <2>2. h.action \in Action
      BY <2>1, TickOfType DEF Ticked
    <2>3. Append(queue[c], h.action) \in Seq(Action)
      BY <2>2 DEF Typed
    <2>4. queue' = [queue EXCEPT ![c] = Append(queue[c], h.action)]
      BY <1>6 DEF HandleRelayedAction, Typed
    <2>5. QED
      BY <1>6, <2>1, <2>3, <2>4 DEF HandleRelayedAction, Typed
  <1>7. QED
    BY <1>1, <1>2, <1>3, <1>4, <1>5, <1>6

LEMMA ServerType ==
  ASSUME Typed, HostFits, NEW c \in Client,
         \/ Join(c) \/ HandleMapRequest(c) \/ HandleClientAction(c)
         \/ Disconnect(c) \/ ClientIssues(c)
  PROVE  Typed'
  <1> USE Machines DEF thread, park, server, network, client, bounds
  <1>1. ASSUME Join(c) PROVE Typed'
    <2> DEFINE entry == [id |-> LowestFree(roster[Host]), who |-> c]
    <2>1. LowestFree(roster[Host]) \in Ids
      BY <1>1, LowestIsFree DEF Join, Free
    <2>2. roster[Host] \union {entry} \in Roster
      BY <2>1 DEF Roster, Typed
    <2>3. roster' = [roster EXCEPT ![Host] = roster[Host] \union {entry}]
      BY <1>1 DEF Join, Typed
    <2>4. [type |-> "objects"] \in ClientPacket
      BY DEF ClientPacket
    <2>5. Append(outbox[c], [type |-> "objects"]) \in Seq(ClientPacket)
      BY <2>4 DEF Typed
    <2>6. outbox' = [outbox EXCEPT ![c] = Append(outbox[c], [type |-> "objects"])]
      BY <1>1 DEF Join, Typed
    <2> HIDE DEF entry
    <2>7. roster' \in [Machine -> Roster] /\ outbox' \in [Client -> Seq(ClientPacket)]
      BY <2>2, <2>3, <2>5, <2>6 DEF Typed
    <2>8. conn' \in [Client -> {"none", "joining", "loaded", "gone"}]
      BY <1>1 DEF Join, Typed
    <2>9. QED
      BY <1>1, <2>7, <2>8 DEF Join, Typed
  <1>2. ASSUME HandleMapRequest(c) PROVE Typed'
    <2> DEFINE two == <<[type |-> "beginMap"],
                        [type |-> "map", tick |-> tick[Host], paused |-> paused[Host]]>>
    <2>1. two \in Seq(ClientPacket)
      BY DEF ClientPacket, Typed
    <2>2. outbox[c] \o two \in Seq(ClientPacket)
      BY <2>1 DEF Typed
    <2>3. outbox' = [outbox EXCEPT ![c] = outbox[c] \o two]
      BY <1>2 DEF HandleMapRequest, Typed
    <2> HIDE DEF two
    <2>4. outbox' \in [Client -> Seq(ClientPacket)]
      BY <2>2, <2>3 DEF Typed
    <2>5. toHost' \in [Client -> Seq(HostPacket)]
      BY <1>2, ReceivedByHost DEF HandleMapRequest
    <2>6. QED
      BY <1>2, <2>4, <2>5 DEF HandleMapRequest, Typed
  <1>3. ASSUME HandleClientAction(c) PROVE Typed'
    <2> DEFINE a == [tick |-> Head(toHost[c]).tick, id |-> IdOf(c, roster[Host]), who |-> c,
                     toggle |-> FALSE]
    <2>1. Head(toHost[c]).tick \in Nat /\ toHost' \in [Client -> Seq(HostPacket)]
      BY <1>3, ReceivedByHost DEF HandleClientAction
    <2>2. IdOf(c, roster[Host]) \in Ids
      <3>1. c \in Connected
        BY <1>3 DEF HandleClientAction, HostReceives
      <3>2. \E p \in roster[Host] : p.who = c
        BY <3>1 DEF HostFits
      <3>3. (CHOOSE p \in roster[Host] : p.who = c) \in roster[Host]
        BY <3>2
      <3>4. QED
        BY <3>3 DEF IdOf, Roster, Typed
    <2>3. a \in Action
      BY <2>1, <2>2 DEF Action
    <2>4. Append(queue[Host], a) \in Seq(Action)
      BY <2>3 DEF Typed
    <2>5. queue' = [queue EXCEPT ![Host] = Append(queue[Host], a)]
      BY <1>3 DEF HandleClientAction, Typed
    <2> HIDE DEF a
    <2>6. queue' \in [Machine -> Seq(Action)]
      BY <2>4, <2>5 DEF Typed
    <2>7. QED
      BY <1>3, <2>1, <2>6 DEF HandleClientAction, Typed
  <1>4. ASSUME Disconnect(c) PROVE Typed'
    BY <1>4 DEF Disconnect, Typed
  <1>5. ASSUME ClientIssues(c) PROVE Typed'
    <2>1. [type |-> "action", tick |-> tick[c]] \in HostPacket
      BY DEF HostPacket, Typed
    <2>2. Append(toHost[c], [type |-> "action", tick |-> tick[c]]) \in Seq(HostPacket)
      BY <2>1 DEF Typed
    <2>3. toHost' = [toHost EXCEPT ![c] = Append(toHost[c], [type |-> "action", tick |-> tick[c]])]
      BY <1>5 DEF ClientIssues, Typed
    <2>4. issued' \in 0 .. MaxActions
      BY <1>5, PlayersAssumption DEF ClientIssues, Typed
    <2>5. QED
      BY <1>5, <2>2, <2>3, <2>4 DEF ClientIssues, Typed
  <1>6. QED
    BY <1>1, <1>2, <1>3, <1>4, <1>5

LEMMA HostIssuesType ==
  ASSUME Typed, NEW toggle \in BOOLEAN, HostIssues(toggle)
  PROVE  Typed'
  <1> USE Machines DEF thread, park, server, network, client, bounds
  <1> DEFINE a == [tick |-> tick[Host], id |-> HostId, who |-> Host, toggle |-> toggle]
  <1>1. HostId \in Ids
    BY PlayersAssumption DEF HostId, Ids
  <1>2. a \in Action
    BY <1>1 DEF Action, Typed
  <1>3. Append(queue[Host], a) \in Seq(Action)
    BY <1>2 DEF Typed
  <1>4. queue' = [queue EXCEPT ![Host] = Append(queue[Host], a)]
    BY DEF HostIssues, Typed
  <1> HIDE DEF a
  <1>5. issued' \in 0 .. MaxActions /\ toggled' \in 0 .. Toggles
    BY PlayersAssumption DEF HostIssues, Typed
  <1>6. QED
    BY <1>3, <1>4, <1>5 DEF HostIssues, Typed


LEMMA TypeStep ==
  ASSUME Typed, HostFits, [Next]_vars
  PROVE  Typed'
  <1>1. CASE UNCHANGED vars
    BY <1>1 DEF Typed, vars, thread, park, server, network, client, bounds
  <1>2. CASE Next
    BY <1>2, HostRunsType, HostIssuesType, ClientRunsType, HandlerType, ServerType DEF Next
  <1>3. QED
    BY <1>1, <1>2

\* The host's list changes when a player is accepted and when connections are dropped.
LEMMA HostStays ==
  ASSUME Typed, HostFits,
         roster'[Host] = roster[Host], tick'[Host] = tick[Host], sent' = sent,
         \A c \in Client : c \in Connected' => c \in Connected
  PROVE  HostFits'
  <1>1. Connected' \subseteq Connected
    BY DEF Connected
  <1>2. QED
    BY <1>1 DEF HostFits

LEMMA HostFitsStep ==
  ASSUME Typed, HostFits, [Next]_vars
  PROVE  HostFits'
  <1> USE Machines DEF thread, park, server, network, client, bounds
  <1>1. CASE UNCHANGED vars
    BY <1>1, HostStays DEF vars, Connected
  <1>2. ASSUME HostUpdates \/ HostPauses \/ HostEndsPausedFrame \/ Execute(Host) \/ EndQueue(Host)
        PROVE  HostFits'
    BY <1>2, HostStays
       DEF HostUpdates, HostPauses, HostEndsPausedFrame, Execute, EndQueue, Connected
  <1>3. ASSUME HostPostTick PROVE HostFits'
    <2> DEFINE list == {p \in roster[Host] : p.who \notin leaving}
    <2>1. roster'[Host] = list
      <3>1. roster' = [Closed(roster, {}) EXCEPT ![Host] = list] /\ DOMAIN Closed(roster, {}) = Machine
        BY <1>3 DEF HostPostTick, Closed, Typed
      <3>2. QED
        BY <3>1
    <2>2. Len(sent') = tick'[Host]
      <3>0. Closed(tick, 0) \in [Machine -> Nat] /\ Closed(tick, 0)[Host] = tick[Host]
        BY DEF Closed, Typed
      <3>1. CASE frame[Host] = "update"
        <4>1. sent' = Append(sent, list) /\ tick' = [Closed(tick, 0) EXCEPT ![Host] = @ + 1]
          BY <1>3, <3>1 DEF HostPostTick
        <4>2. tick'[Host] = tick[Host] + 1
          BY <3>0, <4>1
        <4> HIDE DEF list
        <4>3. QED
          BY <4>1, <4>2 DEF HostFits, Typed
      <3>2. CASE frame[Host] # "update"
        <4>1. sent' = sent /\ tick' = Closed(tick, 0)
          BY <1>3, <3>2 DEF HostPostTick
        <4>2. QED
          BY <3>0, <4>1 DEF HostFits
      <3>3. QED
        BY <3>1, <3>2
    <2>3. ASSUME NEW c \in Connected' PROVE \E p \in roster'[Host] : p.who = c
      <3>1. c \in Connected \ leaving
        BY <1>3 DEF HostPostTick, Closed, Connected, Typed
      <3>2. PICK p \in roster[Host] : p.who = c
        BY <3>1 DEF HostFits
      <3>3. QED
        BY <2>1, <3>1, <3>2
    <2>4. QED
      BY <2>2, <2>3 DEF HostFits
  <1>4. ASSUME NEW toggle \in BOOLEAN, HostIssues(toggle) PROVE HostFits'
    BY <1>4, HostStays DEF HostIssues, Connected
  <1>5. ASSUME NEW c \in Client, ClientRuns(c) PROVE HostFits'
    <2>1. roster'[Host] = roster[Host] /\ tick'[Host] = tick[Host] /\ sent' = sent /\ conn' = conn
      BY <1>5 DEF ClientRuns, ClientGoesOn, OldParkPostTick, Execute, EndQueue, ClientPostTick,
                  InstallLists, Typed
    <2>2. QED
      BY <2>1, HostStays DEF Connected
  <1>6. ASSUME NEW c \in Client,
               \/ HandleObjectsList(c) \/ HandleBeginMap(c) \/ HandleMap(c)
               \/ HandleTick(c) \/ HandlePlayerList(c) \/ HandleRelayedAction(c)
        PROVE  HostFits'
    <2>1. roster'[Host] = roster[Host] /\ tick'[Host] = tick[Host] /\ sent' = sent
      BY <1>6 DEF HandleObjectsList, HandleBeginMap, HandleMap, HandleTick, HandlePlayerList,
                  HandleRelayedAction, InstallLists, Typed
    <2>2. \A d \in Client : d \in Connected' => d \in Connected
      BY <1>6 DEF HandleObjectsList, HandleBeginMap, HandleMap, HandleTick, HandlePlayerList,
                  HandleRelayedAction, ClientReceives, Connected, Typed
    <2>3. QED
      BY <2>1, <2>2, HostStays
  <1>7. ASSUME NEW c \in Client, Join(c) PROVE HostFits'
    <2> DEFINE entry == [id |-> LowestFree(roster[Host]), who |-> c]
    <2>1. roster'[Host] = roster[Host] \union {entry}
      BY <1>7 DEF Join, Typed
    <2>2. tick' = tick /\ sent' = sent /\ Connected' = Connected \union {c} /\ entry.who = c
      BY <1>7 DEF Join, Connected, Typed
    <2> HIDE DEF entry
    <2>3. QED
      BY <2>1, <2>2 DEF HostFits
  <1>8. ASSUME NEW c \in Client,
               HandleMapRequest(c) \/ HandleClientAction(c) \/ Disconnect(c) \/ ClientIssues(c)
        PROVE  HostFits'
    BY <1>8, HostStays DEF HandleMapRequest, HandleClientAction, Disconnect, ClientIssues, Connected
  <1>9. QED
    BY <1>1, <1>2, <1>3, <1>4, <1>5, <1>6, <1>7, <1>8 DEF Next, HostRuns

LEMMA TypeInit ==
  ASSUME Init
  PROVE  Typed /\ HostFits
  <1> USE PlayersAssumption, Machines DEF Init
  <1>1. roster \in [Machine -> Roster]
    BY DEF Roster, Ids, HostId
  <1>2. /\ queue \in [Machine -> Seq(Action)] /\ sent \in Seq(Roster)
        /\ outbox \in [Client -> Seq(ClientPacket)] /\ toClient \in [Client -> Seq(ClientPacket)]
        /\ toHost \in [Client -> Seq(HostPacket)]
    OBVIOUS
  <1>3. /\ pc \in [Machine -> {"poll", "queue", "post"}] /\ frame \in [Machine -> {"update", "paused"}]
        /\ tick \in [Machine -> Nat] /\ paused \in [Machine -> BOOLEAN]
        /\ conn \in [Client -> {"none", "joining", "loaded", "gone"}]
        /\ serverTick \in [Client -> Nat] /\ pending \in [Client -> SUBSET ListT]
        /\ invalidated \in BOOLEAN /\ leaving \in SUBSET Client
    OBVIOUS
  <1>4. issued \in 0 .. MaxActions /\ toggled \in 0 .. Toggles
    OBVIOUS
  <1>5. Typed
    BY <1>1, <1>2, <1>3, <1>4 DEF Typed
  <1>6. HostFits
    BY DEF HostFits, Connected
  <1>7. QED
    BY <1>5, <1>6

(***************************************************************************)
(* The types: every id in use is one AddPlayer may give out, and a client  *)
(* that is connected is a player of the host.                              *)
(***************************************************************************)
THEOREM TypeCorrect == Spec => []TypeOK
  <1>1. Init => Typed /\ HostFits
    BY TypeInit
  <1>2. (Typed /\ HostFits) /\ [Next]_vars => (Typed /\ HostFits)'
    BY TypeStep, HostFitsStep
  <1>3. Typed /\ HostFits => TypeOK
    BY TypedIsType
  <1>4. QED
    BY <1>1, <1>2, <1>3, PTL DEF Spec


-----------------------------------------------------------------------------
(***************************************************************************)
(* A connection asks for its map once: the object list, the request and    *)
(* the map follow each other, and a client that has loaded waits for none. *)
(***************************************************************************)
Asks(p) == p.type \in {"objects", "map"}
Request == [type |-> "mapRequest"]

OneRequest(s, r, loaded) ==
  /\ \A i, j \in 1 .. Len(s) : Asks(s[i]) /\ Asks(s[j]) => i = j
  /\ \A i, j \in 1 .. Len(r) : r[i].type = "mapRequest" /\ r[j].type = "mapRequest" => i = j
  /\ \A i \in 1 .. Len(s), j \in 1 .. Len(r) : ~(Asks(s[i]) /\ r[j].type = "mapRequest")
  /\ loaded => /\ \A i \in 1 .. Len(s) : ~Asks(s[i])
               /\ \A j \in 1 .. Len(r) : r[j].type # "mapRequest"

LEMMA OneAppend ==
  ASSUME NEW s \in Seq(ClientPacket), NEW r \in Seq(HostPacket), NEW loaded,
         OneRequest(s, r, loaded), NEW p \in ClientPacket, ~Asks(p)
  PROVE  OneRequest(Append(s, p), r, loaded)
  <1>1. \A i \in 1 .. Len(Append(s, p)) :
          Asks(Append(s, p)[i]) => i \in 1 .. Len(s) /\ Asks(s[i])
    BY AppendAt
  <1>2. QED
    BY <1>1 DEF OneRequest

LEMMA OneTail ==
  ASSUME NEW s \in Seq(ClientPacket), s # <<>>, NEW r \in Seq(HostPacket), NEW loaded,
         OneRequest(s, r, loaded)
  PROVE  /\ OneRequest(Tail(s), r, loaded)
         /\ Asks(Head(s)) => /\ ~loaded
                             /\ \A j \in 1 .. Len(r) : r[j].type # "mapRequest"
                             /\ \A i \in 1 .. Len(Tail(s)) : ~Asks(Tail(s)[i])
  <1>1. \A i \in 1 .. Len(Tail(s)) : i + 1 \in 1 .. Len(s) /\ Tail(s)[i] = s[i + 1] /\ i \in Nat
    BY TailAt
  <1>2. Head(s) = s[1] /\ 1 \in 1 .. Len(s)
    BY TailAt
  <1>3. OneRequest(Tail(s), r, loaded)
    <2>1. \A i, j \in 1 .. Len(Tail(s)) : Asks(Tail(s)[i]) /\ Asks(Tail(s)[j]) => i = j
      <3> TAKE i, j \in 1 .. Len(Tail(s))
      <3> HAVE Asks(Tail(s)[i]) /\ Asks(Tail(s)[j])
      <3>1. i + 1 = j + 1 /\ i \in Nat /\ j \in Nat
        BY <1>1 DEF OneRequest
      <3>2. QED
        BY <3>1
    <2>2. QED
      BY <1>1, <2>1 DEF OneRequest
  <1>4. ASSUME Asks(Head(s))
        PROVE  /\ ~loaded
               /\ \A j \in 1 .. Len(r) : r[j].type # "mapRequest"
               /\ \A i \in 1 .. Len(Tail(s)) : ~Asks(Tail(s)[i])
    <2>1. ~loaded /\ \A j \in 1 .. Len(r) : r[j].type # "mapRequest"
      BY <1>2, <1>4 DEF OneRequest
    <2>2. ASSUME NEW i \in 1 .. Len(Tail(s)), Asks(Tail(s)[i]) PROVE FALSE
      <3>1. i + 1 = 1 /\ i \in Nat /\ 1 <= i
        BY <1>1, <1>2, <1>4, <2>2 DEF OneRequest
      <3>2. QED
        BY <3>1
    <2>3. QED
      BY <2>1, <2>2
  <1>5. QED
    BY <1>3, <1>4

\* The client asks for the map once it has handled the object list.
LEMMA OneObjects ==
  ASSUME NEW s \in Seq(ClientPacket), s # <<>>, NEW r \in Seq(HostPacket), NEW loaded,
         OneRequest(s, r, loaded), Asks(Head(s))
  PROVE  OneRequest(Tail(s), Append(r, Request), loaded)
  <1>1. /\ ~loaded
        /\ \A j \in 1 .. Len(r) : r[j].type # "mapRequest"
        /\ \A i \in 1 .. Len(Tail(s)) : ~Asks(Tail(s)[i])
    BY OneTail
  <1>2. \A j \in 1 .. Len(Append(r, Request)) :
          j = Len(r) + 1 \/ (j \in 1 .. Len(r) /\ Append(r, Request)[j] = r[j])
    OBVIOUS
  <1>3. QED
    BY <1>1, <1>2 DEF OneRequest

LEMMA OneLoads ==
  ASSUME NEW s \in Seq(ClientPacket), s # <<>>, NEW r \in Seq(HostPacket), NEW loaded,
         OneRequest(s, r, loaded), Asks(Head(s))
  PROVE  OneRequest(Tail(s), r, TRUE)
  BY OneTail DEF OneRequest

LEMMA OneHostTail ==
  ASSUME NEW s \in Seq(ClientPacket), NEW r \in Seq(HostPacket), r # <<>>, NEW loaded,
         OneRequest(s, r, loaded)
  PROVE  /\ OneRequest(s, Tail(r), loaded)
         /\ Head(r).type = "mapRequest" => /\ ~loaded
                                           /\ \A i \in 1 .. Len(s) : ~Asks(s[i])
                                           /\ \A j \in 1 .. Len(Tail(r)) : Tail(r)[j].type # "mapRequest"
  <1>1. \A i \in 1 .. Len(Tail(r)) : i + 1 \in 1 .. Len(r) /\ Tail(r)[i] = r[i + 1] /\ i \in Nat /\ 1 <= i
    OBVIOUS
  <1>2. Head(r) = r[1] /\ 1 \in 1 .. Len(r)
    OBVIOUS
  <1>3. \A i, j \in 1 .. Len(Tail(r)) :
          Tail(r)[i].type = "mapRequest" /\ Tail(r)[j].type = "mapRequest" => i = j
    <2> TAKE i, j \in 1 .. Len(Tail(r))
    <2> HAVE Tail(r)[i].type = "mapRequest" /\ Tail(r)[j].type = "mapRequest"
    <2>1. i + 1 = j + 1 /\ i \in Nat /\ j \in Nat
      BY <1>1 DEF OneRequest
    <2>2. QED
      BY <2>1
  <1>4. OneRequest(s, Tail(r), loaded)
    BY <1>1, <1>3 DEF OneRequest
  <1>5. ASSUME Head(r).type = "mapRequest"
        PROVE  /\ ~loaded
               /\ \A i \in 1 .. Len(s) : ~Asks(s[i])
               /\ \A j \in 1 .. Len(Tail(r)) : Tail(r)[j].type # "mapRequest"
    <2>1. ~loaded /\ \A i \in 1 .. Len(s) : ~Asks(s[i])
      BY <1>2, <1>5 DEF OneRequest
    <2>2. ASSUME NEW i \in 1 .. Len(Tail(r)), Tail(r)[i].type = "mapRequest" PROVE FALSE
      <3>1. i + 1 = 1 /\ i \in Nat /\ 1 <= i
        BY <1>1, <1>2, <1>5, <2>2 DEF OneRequest
      <3>2. QED
        BY <3>1
    <2>3. QED
      BY <2>1, <2>2
  <1>6. QED
    BY <1>4, <1>5

\* The host answers a request with the announcement and the map.
LEMMA OneAnswer ==
  ASSUME NEW s \in Seq(ClientPacket), NEW r \in Seq(HostPacket), r # <<>>, NEW loaded,
         OneRequest(s, r, loaded), Head(r).type = "mapRequest",
         NEW b \in ClientPacket, ~Asks(b), NEW p \in ClientPacket
  PROVE  OneRequest(Append(Append(s, b), p), Tail(r), loaded)
  <1> DEFINE q == Append(s, b)
  <1>1. /\ OneRequest(s, Tail(r), loaded) /\ ~loaded
        /\ \A i \in 1 .. Len(s) : ~Asks(s[i])
        /\ \A j \in 1 .. Len(Tail(r)) : Tail(r)[j].type # "mapRequest"
    BY OneHostTail
  <1>2. q \in Seq(ClientPacket) /\ \A i \in 1 .. Len(q) : ~Asks(q[i])
    BY <1>1, AppendAt
  <1> HIDE DEF q
  <1>3. \A i \in 1 .. Len(Append(q, p)) : Asks(Append(q, p)[i]) => i = Len(q) + 1
    BY <1>2, AppendAt
  <1>4. OneRequest(Append(q, p), Tail(r), loaded)
    BY <1>1, <1>3 DEF OneRequest
  <1>5. QED
    BY <1>4 DEF q

LEMMA OneHostAppend ==
  ASSUME NEW s, NEW r \in Seq(HostPacket), NEW loaded,
         OneRequest(s, r, loaded), NEW p, p.type # "mapRequest"
  PROVE  OneRequest(s, Append(r, p), loaded)
  <1>1. \A j \in 1 .. Len(Append(r, p)) :
          Append(r, p)[j].type = "mapRequest" => j \in 1 .. Len(r) /\ r[j].type = "mapRequest"
    OBVIOUS
  <1>2. QED
    BY <1>1 DEF OneRequest

-----------------------------------------------------------------------------
(***************************************************************************)
(* What holds of one connection: a client in a frame has loaded, and in an *)
(* update was told of a later tick; a connection that does not exist yet   *)
(* has nothing; a connected one fits the host and asks for its map once.   *)
(***************************************************************************)
Behind(c) == {t \in Nat : conn[c] = "loaded" /\ tick[c] <= t}

ThreadFits(c) ==
  pc[c] # "poll" => conn[c] = "loaded" /\ (frame[c] = "update" => tick[c] < serverTick[c])

NewFits(c) ==
  conn[c] = "none" => Channel(c) = <<>> /\ toHost[c] = <<>> /\ pending[c] = {} /\ serverTick[c] = 0

ListsFit(c) ==
  Fits(Channel(c), pending[c], roster[c], Behind(c), serverTick[c],
       tick[Host], sent, ~invalidated, roster[Host])

JoinsOnce(c) == OneRequest(Channel(c), toHost[c], conn[c] = "loaded")

SideInv(c) ==
  /\ ThreadFits(c)
  /\ NewFits(c)
  /\ c \in Connected => ListsFit(c) /\ JoinsOnce(c)

ListsInv ==
  /\ Typed
  /\ HostFits
  /\ \A c \in Client : SideInv(c)

LEMMA SideTypes ==
  ASSUME Typed, NEW c \in Client
  PROVE  /\ Channel(c) \in Seq(ClientPacket)
         /\ toClient[c] \in Seq(ClientPacket) /\ outbox[c] \in Seq(ClientPacket)
         /\ toHost[c] \in Seq(HostPacket) /\ pending[c] \in SUBSET ListT
         /\ roster[c] \in Roster /\ roster[Host] \in Roster
         /\ serverTick[c] \in Nat /\ tick[c] \in Nat /\ tick[Host] \in Nat /\ sent \in Seq(Roster)
  BY Machines DEF Typed, Channel


\* What the steps of others leave alone.
OwnSame(c) ==
  /\ pc'[c] = pc[c] /\ frame'[c] = frame[c] /\ tick'[c] = tick[c] /\ roster'[c] = roster[c]
  /\ conn'[c] = conn[c] /\ toHost'[c] = toHost[c]
  /\ serverTick'[c] = serverTick[c] /\ pending'[c] = pending[c]

HostSame ==
  /\ tick'[Host] = tick[Host] /\ sent' = sent
  /\ invalidated' = invalidated /\ roster'[Host] = roster[Host]

LEMMA SideSame ==
  ASSUME Typed, NEW c \in Client, SideInv(c), OwnSame(c),
         toClient'[c] = toClient[c], outbox'[c] = outbox[c],
         tick'[Host] = tick[Host] /\ sent' = sent,
         invalidated' = TRUE \/ HostSame
  PROVE  SideInv(c)'
  <1>1. Channel(c)' = Channel(c) /\ Behind(c)' = Behind(c) /\ (c \in Connected' <=> c \in Connected)
    BY DEF OwnSame, Channel, Behind, Connected
  <1>2. ThreadFits(c)' /\ NewFits(c)'
    BY <1>1 DEF SideInv, ThreadFits, NewFits, OwnSame
  <1>3. ASSUME c \in Connected PROVE ListsFit(c)' /\ JoinsOnce(c)'
    <2>1. ListsFit(c) /\ JoinsOnce(c)
      BY <1>3 DEF SideInv
    <2>2. JoinsOnce(c)'
      BY <1>1, <2>1 DEF JoinsOnce, OwnSame
    <2>3. CASE invalidated' = TRUE
      <3>1. Fits(Channel(c)', pending'[c], roster'[c], Behind(c)', serverTick'[c],
                 tick'[Host], sent', FALSE, roster'[Host])
        BY <1>1, <2>1 DEF ListsFit, Fits, OwnSame
      <3>2. QED
        BY <2>2, <2>3, <3>1 DEF ListsFit
    <2>4. CASE HostSame
      BY <1>1, <2>1, <2>2, <2>4 DEF ListsFit, OwnSame, HostSame
    <2>5. QED
      BY <2>3, <2>4
  <1>4. QED
    BY <1>1, <1>2, <1>3 DEF SideInv

\* The host sends its tick, or an action it has executed.
LEMMA SideSent ==
  ASSUME Typed, NEW c \in Client, SideInv(c), OwnSame(c), HostSame, toClient' = toClient,
         NEW p \in ClientPacket, p.type \in {"tick", "action"}, TickOf(p) = tick[Host],
         outbox' = WithPacket(outbox, Connected, p)
  PROVE  SideInv(c)'
  <1>1. CASE c \notin Connected
    <2>1. outbox'[c] = outbox[c] /\ toClient'[c] = toClient[c]
      BY <1>1 DEF WithPacket
    <2>2. QED
      BY <2>1, SideSame DEF HostSame
  <1>2. CASE c \in Connected
    <2>1. Channel(c)' = Append(Channel(c), p)
      <3>1. outbox'[c] = Append(outbox[c], p) /\ toClient'[c] = toClient[c]
        BY <1>2 DEF WithPacket
      <3>2. QED
        BY <3>1, SideTypes, ChannelAppend DEF Channel
    <2>2. Behind(c)' = Behind(c) /\ c \in Connected' /\ conn'[c] # "none"
      BY <1>2 DEF OwnSame, Behind, Connected
    <2>3. ListsFit(c) /\ JoinsOnce(c)
      BY <1>2 DEF SideInv
    <2>4. Fits(Append(Channel(c), p), pending[c], roster[c], Behind(c), serverTick[c],
               tick[Host], sent, ~invalidated, roster[Host])
      <3>1. p.type # "list"
        OBVIOUS
      <3>2. QED
        BY <2>3, <3>1, SideTypes, FitsAppend DEF ListsFit
    <2>5. OneRequest(Append(Channel(c), p), toHost[c], conn[c] = "loaded")
      <3>1. ~Asks(p)
        BY DEF Asks
      <3>2. QED
        BY <2>3, <3>1, SideTypes, OneAppend DEF JoinsOnce
    <2>6. ListsFit(c)' /\ JoinsOnce(c)'
      BY <2>1, <2>2, <2>4, <2>5 DEF ListsFit, JoinsOnce, OwnSame, HostSame
    <2>7. ThreadFits(c)' /\ NewFits(c)'
      BY <2>2 DEF SideInv, ThreadFits, NewFits, OwnSame
    <2>8. QED
      BY <2>6, <2>7 DEF SideInv
  <1>3. QED
    BY <1>1, <1>2

\* The host's frame, but for the end of its tick.
LEMMA HostFrameKeeps ==
  ASSUME Typed, NEW c \in Client, SideInv(c),
         HostUpdates \/ HostPauses \/ HostEndsPausedFrame \/ Execute(Host) \/ EndQueue(Host)
  PROVE  SideInv(c)'
  <1> USE Machines DEF thread, park, server, network, client, bounds
  <1>0. OwnSame(c) /\ HostSame
    BY DEF HostUpdates, HostPauses, HostEndsPausedFrame, Execute, EndQueue, Go, OwnSame, HostSame, Typed
  <1>1. ASSUME HostUpdates \/ HostPauses PROVE SideInv(c)'
    <2>1. outbox' = WithPacket(outbox, Connected, TickPacket) /\ toClient' = toClient
      BY <1>1 DEF HostUpdates, HostPauses
    <2>2. TickPacket \in ClientPacket /\ TickPacket.type \in {"tick", "action"}
            /\ TickOf(TickPacket) = tick[Host]
      BY TickPacketType DEF TickPacket, TickOf
    <2>3. QED
      BY <1>0, <2>1, <2>2, SideSent
  <1>2. ASSUME HostEndsPausedFrame PROVE SideInv(c)'
    <2>1. /\ toClient'[c] = IF c \in Connected THEN toClient[c] \o outbox[c] ELSE <<>>
          /\ outbox'[c] = <<>>
      BY <1>2 DEF HostEndsPausedFrame, Flush
    <2>2. CASE c \in Connected
      <3>1. Channel(c)' = Channel(c)
        <4>1. Channel(c)' = Channel(c) \o <<>>
          BY <2>1, <2>2 DEF Channel
        <4>2. QED
          BY <4>1, SideTypes
      <3>2. Behind(c)' = Behind(c) /\ c \in Connected' /\ conn'[c] # "none"
        BY <1>0, <2>2 DEF OwnSame, Behind, Connected
      <3>3. ListsFit(c)' /\ JoinsOnce(c)'
        BY <1>0, <2>2, <3>1, <3>2 DEF SideInv, ListsFit, JoinsOnce, OwnSame, HostSame
      <3>4. ThreadFits(c)' /\ NewFits(c)'
        BY <1>0, <3>2 DEF SideInv, ThreadFits, NewFits, OwnSame
      <3>5. QED
        BY <3>3, <3>4 DEF SideInv
    <2>3. CASE c \notin Connected
      <3>1. Channel(c)' = <<>> /\ c \notin Connected'
        BY <1>0, <2>1, <2>3 DEF Channel, OwnSame, Connected
      <3>2. QED
        BY <1>0, <3>1 DEF SideInv, ThreadFits, NewFits, OwnSame
    <2>4. QED
      BY <2>2, <2>3
  <1>3. ASSUME Execute(Host) PROVE SideInv(c)'
    <2> DEFINE a == Head(queue[Host])
               b == [a EXCEPT !.tick = tick[Host]]
               packet == [type |-> "action", action |-> b]
    <2>1. a \in Action
      <3>1. queue[Host] \in Seq(Action) /\ queue[Host] # <<>>
        BY <1>3 DEF Execute, Due, Typed
      <3>2. QED
        BY <3>1
    <2>2. b \in Action /\ b.tick = tick[Host]
      BY <2>1 DEF Action, Typed
    <2>3. outbox' = WithPacket(outbox, Connected, packet) /\ toClient' = toClient
      BY <1>3 DEF Execute
    <2> HIDE DEF a, b
    <2>4. packet \in ClientPacket /\ packet.type \in {"tick", "action"} /\ TickOf(packet) = tick[Host]
      BY <2>2 DEF ClientPacket, TickOf
    <2> HIDE DEF packet
    <2>5. QED
      BY <1>0, <2>3, <2>4, SideSent
  <1>4. ASSUME EndQueue(Host) PROVE SideInv(c)'
    <2>1. toClient'[c] = toClient[c] /\ outbox'[c] = outbox[c]
      BY <1>4 DEF EndQueue
    <2>2. QED
      BY <1>0, <2>1, SideSame DEF HostSame
  <1>5. QED
    BY <1>1, <1>2, <1>3, <1>4

\* The list after ProcessDisconnectedClients, and the packet it is sent in.
StayList == {p \in roster[Host] : p.who \notin leaving}
ListPacket == [type |-> "list", tick |-> tick[Host], list |-> StayList]

\* PostTick on the host, as it is seen from a connection that stays.
LEMMA PostTickEffect ==
  ASSUME Typed, NEW c \in Client, HostPostTick, c \notin leaving
  PROVE  /\ OwnSame(c) /\ paused'[c] = paused[c] /\ queue'[c] = queue[c]
         /\ roster'[Host] = StayList /\ StayList \in Roster /\ invalidated' = FALSE
         /\ ListPacket \in ClientPacket /\ ~Asks(ListPacket)
         /\ IF frame[Host] = "update"
              THEN sent' = Append(sent, StayList) /\ tick'[Host] = tick[Host] + 1
              ELSE sent' = sent /\ tick'[Host] = tick[Host]
         /\ c \in Connected =>
              Channel(c)' = IF ListChanged(StayList) THEN Append(Channel(c), ListPacket) ELSE Channel(c)
         /\ Channel(c) = <<>> /\ c \notin Connected => Channel(c)' = <<>>
  <1> USE Machines
  <1> DEFINE full == IF ListChanged(StayList)
                       THEN WithPacket(outbox, Connected \ leaving, ListPacket) ELSE outbox
  <1>1. /\ OwnSame(c) /\ paused'[c] = paused[c] /\ queue'[c] = queue[c]
    <2>1. /\ frame'[c] = frame[c] /\ conn'[c] = conn[c] /\ toHost'[c] = toHost[c]
          /\ serverTick'[c] = serverTick[c] /\ pending'[c] = pending[c]
          /\ paused'[c] = paused[c] /\ queue'[c] = queue[c]
      BY DEF HostPostTick, Closed, Typed
    <2>2. /\ Closed(pc, "poll")[c] = pc[c] /\ Closed(tick, 0)[c] = tick[c]
          /\ Closed(roster, {})[c] = roster[c]
      BY DEF Closed, Typed
    <2>3. roster'[c] = roster[c]
      <3>1. roster' = [Closed(roster, {}) EXCEPT ![Host] = StayList]
        BY DEF HostPostTick, StayList
      <3>2. DOMAIN Closed(roster, {}) = Machine
        BY DEF Closed, Typed
      <3>3. QED
        BY <2>2, <3>1, <3>2
    <2>4. pc'[c] = pc[c] /\ tick'[c] = tick[c]
      <3>1. \/ pc' = [Closed(pc, "poll") EXCEPT ![Host] = "poll"]
            \/ pc' = [Closed(pc, "poll") EXCEPT ![Host] = "queue"]
        BY DEF HostPostTick
      <3>2. \/ tick' = [Closed(tick, 0) EXCEPT ![Host] = @ + 1]
            \/ tick' = Closed(tick, 0)
        BY DEF HostPostTick
      <3>3. DOMAIN Closed(pc, "poll") = Machine /\ DOMAIN Closed(tick, 0) = Machine
        BY DEF Closed, Typed
      <3>4. QED
        BY <2>2, <3>1, <3>2, <3>3
    <2>5. QED
      BY <2>1, <2>3, <2>4 DEF OwnSame
  <1>2. roster'[Host] = StayList /\ StayList \in Roster /\ invalidated' = FALSE
    <2>1. DOMAIN Closed(roster, {}) = Machine /\ StayList \in Roster
      BY DEF Closed, Typed, Roster, StayList
    <2>2. QED
      BY <2>1 DEF HostPostTick, StayList
  <1>3. ListPacket \in ClientPacket /\ ~Asks(ListPacket)
    BY <1>2, SideTypes DEF ClientPacket, Asks, ListPacket
  <1>4. ASSUME frame[Host] = "update"
        PROVE  /\ sent' = Append(sent, StayList) /\ tick'[Host] = tick[Host] + 1
               /\ toClient'[c] = IF c \in Connected THEN toClient[c] \o full[c] ELSE <<>>
               /\ outbox'[c] = <<>>
    <2>1. sent' = Append(sent, StayList) /\ tick'[Host] = tick[Host] + 1
      <3>1. sent' = Append(sent, StayList) /\ tick' = [Closed(tick, 0) EXCEPT ![Host] = @ + 1]
        BY <1>4 DEF HostPostTick, StayList
      <3>2. DOMAIN Closed(tick, 0) = Machine /\ Closed(tick, 0)[Host] = tick[Host]
        BY DEF Closed, Typed
      <3>3. QED
        BY <3>1, <3>2
    <2>2. Flush(full)
      BY <1>4 DEF HostPostTick, StayList, ListPacket
    <2>3. /\ toClient'[c] = IF c \in Connected THEN toClient[c] \o full[c] ELSE <<>>
          /\ outbox'[c] = <<>>
      <3> HIDE DEF full
      <3>1. QED
        BY <2>2 DEF Flush
    <2>4. QED
      BY <2>1, <2>3
  <1>5. ASSUME frame[Host] # "update"
        PROVE  /\ sent' = sent /\ tick'[Host] = tick[Host]
               /\ outbox'[c] = full[c] /\ toClient'[c] = toClient[c]
    <2>1. sent' = sent /\ tick'[Host] = tick[Host]
      BY <1>5 DEF HostPostTick, Closed, Typed
    <2>2. outbox' = full /\ toClient' = Closed(toClient, <<>>)
      BY <1>5 DEF HostPostTick, StayList, ListPacket
    <2>3. outbox'[c] = full[c] /\ toClient'[c] = toClient[c]
      BY <2>2 DEF Closed, Typed
    <2>4. QED
      BY <2>1, <2>3
  <1>6. ASSUME c \in Connected
        PROVE  Channel(c)' = IF ListChanged(StayList) THEN Append(Channel(c), ListPacket) ELSE Channel(c)
    <2> DEFINE s == IF ListChanged(StayList) THEN Append(Channel(c), ListPacket) ELSE Channel(c)
    <2>1. full[c] = IF ListChanged(StayList) THEN Append(outbox[c], ListPacket) ELSE outbox[c]
      BY <1>6 DEF WithPacket
    <2>2. toClient[c] \o Append(outbox[c], ListPacket) = Append(toClient[c] \o outbox[c], ListPacket)
      BY <1>3, SideTypes, ChannelAppend
    <2>3. toClient[c] \o full[c] = s
      <3>1. s = IF ListChanged(StayList) THEN Append(Channel(c), ListPacket) ELSE Channel(c)
        OBVIOUS
      <3> HIDE DEF s, full
      <3>2. QED
        BY <2>1, <2>2, <3>1 DEF Channel
    <2>4. s \in Seq(ClientPacket)
      BY <1>3, SideTypes
    <2>5. \/ toClient'[c] = toClient[c] \o full[c] /\ outbox'[c] = <<>>
          \/ toClient'[c] = toClient[c] /\ outbox'[c] = full[c]
      BY <1>4, <1>5, <1>6
    <2> HIDE DEF s, full
    <2>6. Channel(c)' = s
      <3>1. Channel(c)' = toClient'[c] \o outbox'[c]
        BY DEF Channel
      <3>2. s \o <<>> = s
        BY <2>4
      <3>3. QED
        BY <2>3, <2>5, <3>1, <3>2
    <2>7. QED
      BY <2>6 DEF s
  <1>7. ASSUME Channel(c) = <<>>, c \notin Connected PROVE Channel(c)' = <<>>
    <2>1. toClient[c] = <<>> /\ outbox[c] = <<>>
      BY <1>7, SideTypes DEF Channel
    <2>2. full[c] = <<>>
      BY <1>7, <2>1 DEF WithPacket
    <2>3. toClient'[c] = <<>> /\ outbox'[c] = <<>>
      BY <1>4, <1>5, <1>7, <2>1, <2>2
    <2>4. QED
      BY <2>3 DEF Channel
  <1>8. QED
    BY <1>1, <1>2, <1>3, <1>4, <1>5, <1>6, <1>7

LEMMA HostPostTickKeeps ==
  ASSUME Typed, HostFits, NEW c \in Client, SideInv(c), HostPostTick
  PROVE  SideInv(c)'
  <1> USE Machines
  <1>1. CASE c \in leaving
    <2>1. conn'[c] = "gone" /\ pc'[c] = "poll"
      BY <1>1 DEF HostPostTick, Closed, Typed
    <2>2. QED
      BY <2>1 DEF SideInv, ThreadFits, NewFits, Connected
  <1>2. CASE c \notin leaving
    <2>1. /\ OwnSame(c) /\ roster'[Host] = StayList /\ StayList \in Roster /\ invalidated' = FALSE
          /\ ListPacket \in ClientPacket /\ ~Asks(ListPacket)
      BY <1>2, PostTickEffect
    <2>2. CASE c \notin Connected
      <3>1. conn[c] = "none" => Channel(c)' = <<>>
        BY <1>2, <2>2, PostTickEffect DEF SideInv, NewFits
      <3>2. c \notin Connected'
        BY <2>1, <2>2 DEF OwnSame, Connected
      <3>3. QED
        BY <2>1, <3>1, <3>2 DEF SideInv, ThreadFits, NewFits, OwnSame
    <2>3. CASE c \in Connected
      <3>1. ListsFit(c) /\ JoinsOnce(c) /\ Behind(c)' = Behind(c) /\ c \in Connected' /\ conn'[c] # "none"
        BY <2>1, <2>3 DEF SideInv, OwnSame, Behind, Connected
      <3> DEFINE s == IF ListChanged(StayList) THEN Append(Channel(c), ListPacket) ELSE Channel(c)
      <3>2. Channel(c)' = s /\ s \in Seq(ClientPacket)
        <4>1. Channel(c) \in Seq(ClientPacket)
          BY SideTypes
        <4>2. s \in Seq(ClientPacket)
          BY <2>1, <4>1
        <4>3. QED
          BY <1>2, <2>3, <4>2, PostTickEffect
      <3>3. Fits(s, pending[c], roster[c], Behind(c), serverTick[c], tick[Host], sent, TRUE, StayList)
        <4>1. CASE ListChanged(StayList)
          <5>1. Fits(Channel(c), pending[c], roster[c], Behind(c), serverTick[c],
                     tick[Host], sent, ~invalidated, roster[Host])
            BY <3>1 DEF ListsFit
          <5>2. Fits(Append(Channel(c), ListPacket), pending[c], roster[c], Behind(c), serverTick[c],
                     tick[Host], sent, TRUE, StayList)
            BY <2>1, <5>1, SideTypes, FitsAppendList DEF ListPacket
          <5>3. QED
            BY <4>1, <5>2
        <4>2. CASE ~ListChanged(StayList)
          <5>1. ~invalidated /\ StayList = roster[Host]
            BY <4>2 DEF ListChanged
          <5>2. QED
            BY <3>1, <4>2, <5>1 DEF ListsFit, Fits
        <4>3. QED
          BY <4>1, <4>2
      <3>4. OneRequest(s, toHost[c], conn[c] = "loaded")
        BY <2>1, <3>1, SideTypes, OneAppend DEF JoinsOnce
      <3> HIDE DEF s
      <3>5. ListsFit(c)'
        <4>1. CASE frame[Host] = "update"
          <5>1. sent' = Append(sent, StayList) /\ tick'[Host] = tick[Host] + 1
            BY <1>2, <4>1, PostTickEffect
          <5>2. Len(sent) = tick[Host]
            BY DEF HostFits
          <5>3. Fits(s, pending[c], roster[c], Behind(c), serverTick[c], tick[Host] + 1,
                     Append(sent, StayList), TRUE, StayList)
            BY <2>1, <3>2, <3>3, <5>2, SideTypes, FitsCounted
          <5>4. QED
            BY <2>1, <3>1, <3>2, <5>1, <5>3 DEF ListsFit, OwnSame
        <4>2. CASE frame[Host] # "update"
          <5>1. sent' = sent /\ tick'[Host] = tick[Host]
            BY <1>2, <4>2, PostTickEffect
          <5>2. QED
            BY <2>1, <3>1, <3>2, <3>3, <5>1 DEF ListsFit, OwnSame
        <4>3. QED
          BY <4>1, <4>2
      <3>6. JoinsOnce(c)'
        BY <2>1, <3>2, <3>4 DEF JoinsOnce, OwnSame
      <3>7. ThreadFits(c)' /\ NewFits(c)'
        BY <2>1, <3>1 DEF SideInv, ThreadFits, NewFits, OwnSame
      <3>8. QED
        BY <3>5, <3>6, <3>7 DEF SideInv
    <2>4. QED
      BY <2>2, <2>3
  <1>3. QED
    BY <1>1, <1>2


-----------------------------------------------------------------------------
\* A step of another client, or of the host for it.
LEMMA OthersKeep ==
  ASSUME Typed, NEW c \in Client, SideInv(c), NEW d \in Client, d # c,
         \/ ClientRuns(d)
         \/ HandleObjectsList(d) \/ HandleBeginMap(d) \/ HandleMap(d)
         \/ HandleTick(d) \/ HandlePlayerList(d) \/ HandleRelayedAction(d)
         \/ Join(d) \/ HandleMapRequest(d) \/ HandleClientAction(d)
         \/ Disconnect(d) \/ ClientIssues(d)
  PROVE  SideInv(c)'
  <1> USE Machines DEF thread, park, server, network, client, bounds
  <1>1. ASSUME ClientRuns(d) PROVE SideInv(c)'
    <2>1. OwnSame(c) /\ HostSame
      <3>1. CASE ClientGoesOn(d) \/ Execute(d) \/ EndQueue(d)
        BY <3>1 DEF ClientGoesOn, Execute, EndQueue, Go, OwnSame, HostSame, Typed
      <3>2. CASE OldParkPostTick(d)
        BY <3>2, InstallOthers DEF OldParkPostTick, OwnSame, HostSame
      <3>3. CASE ClientPostTick(d)
        <4>1. /\ roster'[c] = roster[c] /\ roster'[Host] = roster[Host] /\ pending'[c] = pending[c]
          BY <3>3, InstallOthers DEF ClientPostTick
        <4>2. QED
          BY <3>3, <4>1 DEF ClientPostTick, OwnSame, HostSame, Typed
      <3>4. QED
        BY <1>1, <3>1, <3>2, <3>3 DEF ClientRuns
    <2>2. toClient'[c] = toClient[c] /\ outbox'[c] = outbox[c]
      BY <1>1 DEF ClientRuns, ClientGoesOn, OldParkPostTick, Execute, EndQueue, ClientPostTick
    <2>3. QED
      BY <2>1, <2>2, SideSame DEF HostSame
  <1>2. ASSUME \/ HandleObjectsList(d) \/ HandleBeginMap(d) \/ HandleMap(d)
               \/ HandleTick(d) \/ HandlePlayerList(d) \/ HandleRelayedAction(d)
        PROVE  SideInv(c)'
    <2>1. OwnSame(c) /\ HostSame
      <3>1. CASE HandleMap(d)
        <4>1. /\ roster'[c] = roster[c] /\ roster'[Host] = roster[Host] /\ pending'[c] = pending[c]
          BY <3>1, InstallOthers DEF HandleMap
        <4>2. QED
          BY <3>1, <4>1 DEF HandleMap, OwnSame, HostSame, Typed
      <3>2. CASE ~HandleMap(d)
        BY <1>2, <3>2 DEF HandleObjectsList, HandleBeginMap, HandleTick, HandlePlayerList,
                  HandleRelayedAction, OwnSame, HostSame, Typed
      <3>3. QED
        BY <3>1, <3>2
    <2>2. toClient'[c] = toClient[c] /\ outbox'[c] = outbox[c]
      BY <1>2 DEF HandleObjectsList, HandleBeginMap, HandleMap, HandleTick, HandlePlayerList,
                  HandleRelayedAction, ClientReceives, Typed
    <2>3. QED
      BY <2>1, <2>2, SideSame DEF HostSame
  <1>3. ASSUME Join(d) PROVE SideInv(c)'
    <2>1. OwnSame(c) /\ toClient'[c] = toClient[c] /\ outbox'[c] = outbox[c]
          /\ tick'[Host] = tick[Host] /\ sent' = sent /\ invalidated' = TRUE
      BY <1>3 DEF Join, OwnSame, Typed
    <2>2. QED
      BY <2>1, SideSame
  <1>4. ASSUME HandleMapRequest(d) \/ HandleClientAction(d) \/ Disconnect(d) \/ ClientIssues(d)
        PROVE  SideInv(c)'
    <2>1. OwnSame(c) /\ HostSame
      BY <1>4 DEF HandleMapRequest, HandleClientAction, Disconnect, ClientIssues, HostReceives,
                  OwnSame, HostSame, Typed
    <2>2. toClient'[c] = toClient[c] /\ outbox'[c] = outbox[c]
      BY <1>4 DEF HandleMapRequest, HandleClientAction, Disconnect, ClientIssues, Typed
    <2>3. QED
      BY <2>1, <2>2, SideSame DEF HostSame
  <1>5. QED
    BY <1>1, <1>2, <1>3, <1>4

\* A frame of the client.
LEMMA FrameKeeps ==
  ASSUME Typed, NEW c \in Client, SideInv(c), ClientRuns(c)
  PROVE  /\ SideInv(c)'
         /\ tick'[c] = tick[c] + 1 => roster'[c] = sent'[tick'[c]]
  <1> USE Machines DEF thread, park, server, network, client, bounds
  <1>0. c \in Connected /\ ListsFit(c) /\ JoinsOnce(c)
    BY DEF ClientRuns, SideInv
  <1>1. /\ Channel(c)' = Channel(c) /\ HostSame /\ conn'[c] = conn[c] /\ toHost'[c] = toHost[c]
        /\ serverTick'[c] = serverTick[c] /\ JoinsOnce(c)' /\ NewFits(c)' /\ c \in Connected'
    <2>1. toClient'[c] = toClient[c] /\ outbox'[c] = outbox[c]
      BY DEF ClientRuns, ClientGoesOn, OldParkPostTick, Execute, EndQueue, ClientPostTick
    <2>2. HostSame /\ conn'[c] = conn[c] /\ toHost'[c] = toHost[c] /\ serverTick'[c] = serverTick[c]
      BY DEF ClientRuns, ClientGoesOn, OldParkPostTick, Execute, EndQueue, ClientPostTick,
             InstallLists, Go, HostSame, Typed
    <2>3. QED
      BY <1>0, <2>1, <2>2 DEF Channel, JoinsOnce, NewFits, Connected
  <1>2. ASSUME ClientGoesOn(c) \/ EndQueue(c) \/ Execute(c) PROVE SideInv(c)' /\ tick'[c] = tick[c]
    <2>1. tick' = tick /\ roster' = roster /\ pending' = pending
      BY <1>2 DEF ClientGoesOn, EndQueue, Execute
    <2>2. ListsFit(c)'
      BY <1>0, <1>1, <2>1 DEF ListsFit, Behind, HostSame
    <2>3. ThreadFits(c)'
      <3>1. CASE ClientGoesOn(c)
        <4>1. conn[c] = "loaded" /\ serverTick[c] >= tick[c]
          BY <3>1 DEF ClientGoesOn
        <4>2. \/ frame'[c] = "paused"
              \/ serverTick[c] # tick[c]
          BY <3>1 DEF ClientGoesOn, Go, Typed
        <4>3. frame'[c] = "update" => tick[c] < serverTick[c]
          BY <4>1, <4>2, SideTypes
        <4>4. QED
          BY <1>1, <2>1, <4>1, <4>3 DEF ThreadFits
      <3>2. CASE EndQueue(c)
        <4>1. pc[c] # "poll" /\ (pc'[c] = "poll" \/ (frame'[c] = frame[c] /\ frame[c] = "update"))
          BY <3>2 DEF EndQueue, Go, Typed
        <4>2. QED
          BY <1>1, <2>1, <4>1 DEF ThreadFits, SideInv
      <3>3. CASE Execute(c)
        <4>1. pc' = pc /\ frame' = frame
          BY <3>3 DEF Execute
        <4>2. QED
          BY <1>1, <2>1, <4>1 DEF ThreadFits, SideInv
      <3>4. QED
        BY <1>2, <3>1, <3>2, <3>3
    <2>4. QED
      BY <1>1, <2>1, <2>2, <2>3 DEF SideInv
  <1>3. ASSUME OldParkPostTick(c) PROVE SideInv(c)' /\ tick'[c] = tick[c]
    <2>1. PICK t \in 0 .. MaxTick : InstallLists(c, t)
      BY <1>3 DEF OldParkPostTick
    <2>2. t \in Nat
      BY PlayersAssumption
    <2>3. pending'[c] = Kept(pending[c], t) /\ roster'[c] = Installed(pending[c], roster[c], t)
      BY <2>1, <2>2, InstallType DEF Typed
    <2>4. tick' = tick /\ pc' = pc /\ frame' = frame /\ conn[c] = "joining"
      BY <1>3 DEF OldParkPostTick
    <2>5. Behind(c) = {} /\ Behind(c)' = {}
      BY <1>1, <2>4 DEF Behind
    <2>6. Fits(Channel(c), Kept(pending[c], t), Installed(pending[c], roster[c], t), Behind(c),
               serverTick[c], tick[Host], sent, ~invalidated, roster[Host])
      BY <1>0, <2>2, <2>5, SideTypes, FitsInstalled DEF ListsFit
    <2>7. ListsFit(c)'
      BY <1>1, <2>3, <2>4, <2>5, <2>6 DEF ListsFit, HostSame
    <2>8. ThreadFits(c)'
      BY <1>1, <2>4 DEF ThreadFits, SideInv
    <2>9. QED
      BY <1>1, <2>4, <2>7, <2>8 DEF SideInv
  <1>4. ASSUME ClientPostTick(c)
        PROVE  SideInv(c)' /\ (tick'[c] = tick[c] + 1 => roster'[c] = sent'[tick'[c]])
    <2> DEFINE t == tick[c]
    <2>1. t \in Nat /\ InstallLists(c, t)
      BY <1>4, SideTypes DEF ClientPostTick
    <2> HIDE DEF t
    <2>2. pending'[c] = Kept(pending[c], t) /\ roster'[c] = Installed(pending[c], roster[c], t)
      BY <2>1, InstallType DEF Typed
    <2>3. \A u \in Behind(c) : t <= u
      BY DEF Behind, t
    <2>4. Fits(Channel(c), Kept(pending[c], t), Installed(pending[c], roster[c], t), Behind(c),
               serverTick[c], tick[Host], sent, ~invalidated, roster[Host])
      BY <1>0, <2>1, <2>3, SideTypes, FitsInstalled DEF ListsFit
    <2>5. \/ frame[c] = "update" /\ tick'[c] = t + 1 /\ pc'[c] = "poll"
          \/ frame[c] = "paused" /\ tick'[c] = t
      BY <1>4 DEF ClientPostTick, Typed, t
    <2>6. \A u \in Behind(c)' : u \in Behind(c)
      BY <1>1, <2>1, <2>5 DEF Behind, t
    <2>7. Fits(Channel(c), Kept(pending[c], t), Installed(pending[c], roster[c], t), Behind(c)',
               serverTick[c], tick[Host], sent, ~invalidated, roster[Host])
      BY <2>4, <2>6, FitsFewer
    <2>8. ListsFit(c)'
      BY <1>1, <2>2, <2>7 DEF ListsFit, HostSame
    <2>9. frame' = frame /\ pc[c] = "post"
      BY <1>4 DEF ClientPostTick
    <2>10. ThreadFits(c)'
      BY <1>1, <2>5, <2>9 DEF ThreadFits, SideInv
    <2>11. ASSUME tick'[c] = tick[c] + 1 PROVE roster'[c] = sent'[tick'[c]]
      <3>1. frame[c] = "update"
        BY <2>1, <2>5, <2>11 DEF t
      <3>2. t < serverTick[c] /\ t \in Behind(c)
        BY <2>1, <2>9, <3>1 DEF SideInv, ThreadFits, Behind, t
      <3>3. Installed(pending[c], roster[c], t) = sent[t + 1]
        BY <1>0, <2>1, <3>2, SideTypes, FitsNow DEF ListsFit
      <3>4. QED
        BY <1>1, <2>2, <2>11, <3>3 DEF t, HostSame
    <2>12. QED
      BY <1>1, <2>8, <2>10, <2>11 DEF SideInv
  <1>5. tick[c] # tick[c] + 1
    BY SideTypes
  <1>6. QED
    BY <1>2, <1>3, <1>4, <1>5 DEF ClientRuns


\* What a packet at the head of the channel leaves behind it.
LEMMA ChannelReceived ==
  ASSUME Typed, NEW c \in Client, NEW type, ClientReceives(c, type), outbox'[c] = outbox[c]
  PROVE  /\ Channel(c) # <<>> /\ Head(Channel(c)) = Head(toClient[c])
         /\ Channel(c)' = Tail(Channel(c))
         /\ Head(Channel(c)) \in ClientPacket /\ Head(Channel(c)).type = type
         /\ pc[c] = "poll" /\ c \in Connected
  <1>1. /\ toClient[c] # <<>> /\ Head(toClient[c]) \in ClientPacket /\ Head(toClient[c]).type = type
        /\ toClient' = [toClient EXCEPT ![c] = Tail(toClient[c])]
    BY ReceivedByClient
  <1>2. toClient'[c] = Tail(toClient[c])
    BY <1>1 DEF Typed
  <1>3. /\ toClient[c] \o outbox[c] # <<>> /\ Head(toClient[c] \o outbox[c]) = Head(toClient[c])
        /\ Tail(toClient[c] \o outbox[c]) = Tail(toClient[c]) \o outbox[c]
    BY <1>1, SideTypes, ChannelTail
  <1>4. QED
    BY <1>1, <1>2, <1>3 DEF Channel, ClientReceives

\* A packet the client handles.
LEMMA HandlerKeeps ==
  ASSUME Typed, NEW c \in Client, SideInv(c),
         \/ HandleObjectsList(c) \/ HandleBeginMap(c) \/ HandleMap(c)
         \/ HandleTick(c) \/ HandlePlayerList(c) \/ HandleRelayedAction(c)
  PROVE  SideInv(c)' /\ (conn[c] = "loaded" => tick'[c] = tick[c])
  <1> USE Machines DEF thread, park, server, network, client, bounds
  <1> DEFINE s == Channel(c)
             h == Head(s)
  <1>0. /\ s # <<>> /\ h = Head(toClient[c]) /\ Channel(c)' = Tail(s)
        /\ h \in ClientPacket /\ pc[c] = "poll" /\ c \in Connected
    BY ChannelReceived
       DEF HandleObjectsList, HandleBeginMap, HandleMap, HandleTick, HandlePlayerList,
           HandleRelayedAction
  <1>1. ListsFit(c) /\ JoinsOnce(c)
    BY <1>0 DEF SideInv
  <1>2. HostSame /\ pc' = pc
    BY DEF HandleObjectsList, HandleBeginMap, HandleMap, HandleTick, HandlePlayerList,
           HandleRelayedAction, InstallLists, HostSame, Typed
  <1>3. ThreadFits(c)'
    BY <1>0, <1>2 DEF ThreadFits
  <1>4. OneRequest(Tail(s), toHost[c], conn[c] = "loaded")
    BY <1>0, <1>1, SideTypes, OneTail DEF JoinsOnce
  <1> HIDE DEF s, h
  <1>5. s \in Seq(ClientPacket) /\ Channel(c) = s /\ h = Head(s) /\ conn[c] # "none"
    BY <1>0, SideTypes DEF s, h, Connected
  <1>6. Fits(s, pending[c], roster[c], Behind(c), serverTick[c], tick[Host], sent,
             ~invalidated, roster[Host])
    BY <1>1, <1>5 DEF ListsFit
  <1>7. ASSUME HandleObjectsList(c)
        PROVE  SideInv(c)' /\ tick'[c] = tick[c]
    <2>1. h.type = "objects" /\ toHost'[c] = Append(toHost[c], Request)
      BY <1>0, <1>7 DEF HandleObjectsList, ClientReceives, Typed, Request
    <2>2. tick' = tick /\ roster' = roster /\ conn' = conn /\ serverTick' = serverTick /\ pending' = pending
      BY <1>7 DEF HandleObjectsList
    <2>3. Fits(Tail(s), pending[c], roster[c], Behind(c), serverTick[c], tick[Host], sent,
               ~invalidated, roster[Host])
      BY <1>0, <1>5, <1>6, <2>1, SideTypes, FitsHandled
    <2>4. OneRequest(Tail(s), Append(toHost[c], Request), conn[c] = "loaded")
      BY <1>0, <1>1, <1>5, <2>1, SideTypes, OneObjects DEF JoinsOnce, Asks
    <2>5. ListsFit(c)' /\ JoinsOnce(c)' /\ NewFits(c)'
      BY <1>0, <1>2, <1>5, <2>1, <2>2, <2>3, <2>4
         DEF ListsFit, JoinsOnce, NewFits, HostSame, Behind
    <2>6. QED
      BY <1>3, <2>2, <2>5 DEF SideInv
  <1>8. ASSUME HandleBeginMap(c) \/ HandleRelayedAction(c)
        PROVE  SideInv(c)' /\ tick'[c] = tick[c]
    <2>1. h.type # "list"
      BY <1>0, <1>8 DEF HandleBeginMap, HandleRelayedAction, ClientReceives
    <2>2. tick' = tick /\ roster' = roster /\ conn' = conn /\ serverTick' = serverTick
          /\ pending' = pending /\ toHost' = toHost
      BY <1>8 DEF HandleBeginMap, HandleRelayedAction
    <2>3. Fits(Tail(s), pending[c], roster[c], Behind(c), serverTick[c], tick[Host], sent,
               ~invalidated, roster[Host])
      BY <1>0, <1>5, <1>6, <2>1, SideTypes, FitsHandled
    <2>4. ListsFit(c)' /\ JoinsOnce(c)' /\ NewFits(c)'
      BY <1>0, <1>2, <1>4, <1>5, <2>2, <2>3
         DEF ListsFit, JoinsOnce, NewFits, HostSame, Behind
    <2>5. QED
      BY <1>3, <2>2, <2>4 DEF SideInv
  <1>9. ASSUME HandleTick(c)
        PROVE  SideInv(c)' /\ tick'[c] = tick[c]
    <2>1. h.type = "tick" /\ serverTick'[c] = h.tick
      BY <1>0, <1>9 DEF HandleTick, ClientReceives, Typed
    <2>2. tick' = tick /\ roster' = roster /\ conn' = conn /\ pending' = pending /\ toHost' = toHost
      BY <1>9 DEF HandleTick
    <2>3. h.type # "list" /\ Ticked(h) /\ h.tick = TickOf(h)
      BY <2>1 DEF Ticked, TickOf
    <2>4. Fits(Tail(s), pending[c], roster[c], Behind(c), h.tick, tick[Host], sent,
               ~invalidated, roster[Host])
      BY <1>0, <1>5, <1>6, <2>3, SideTypes, FitsHandled
    <2>5. ListsFit(c)' /\ JoinsOnce(c)' /\ NewFits(c)'
      BY <1>0, <1>2, <1>4, <1>5, <2>1, <2>2, <2>4
         DEF ListsFit, JoinsOnce, NewFits, HostSame, Behind
    <2>6. QED
      BY <1>3, <2>2, <2>5 DEF SideInv
  <1>10. ASSUME HandlePlayerList(c)
         PROVE  SideInv(c)' /\ tick'[c] = tick[c]
    <2>1. h.type = "list" /\ pending'[c] = WithList(pending[c], h)
      BY <1>0, <1>10 DEF HandlePlayerList, ClientReceives, WithList, Typed
    <2>2. tick' = tick /\ roster' = roster /\ conn' = conn /\ serverTick' = serverTick /\ toHost' = toHost
      BY <1>10 DEF HandlePlayerList
    <2>3. Fits(Tail(s), WithList(pending[c], h), roster[c], Behind(c), serverTick[c], tick[Host], sent,
               ~invalidated, roster[Host])
      BY <1>0, <1>5, <1>6, <2>1, SideTypes, FitsReceived
    <2>4. ListsFit(c)' /\ JoinsOnce(c)' /\ NewFits(c)'
      BY <1>0, <1>2, <1>4, <1>5, <2>1, <2>2, <2>3
         DEF ListsFit, JoinsOnce, NewFits, HostSame, Behind
    <2>5. QED
      BY <1>3, <2>2, <2>4 DEF SideInv
  <1>11. ASSUME HandleMap(c)
         PROVE  SideInv(c)' /\ conn[c] # "loaded"
    <2>1. h.type = "map" /\ tick'[c] = h.tick /\ InstallLists(c, h.tick) /\ conn'[c] = "loaded"
      BY <1>0, <1>11 DEF HandleMap, ClientReceives, Typed
    <2>2. h.tick \in Nat /\ Ticked(h)
      BY <1>0, <2>1, TickOfType DEF Ticked
    <2>3. serverTick' = serverTick /\ toHost' = toHost
      BY <1>11 DEF HandleMap
    <2>4. pending'[c] = Kept(pending[c], h.tick) /\ roster'[c] = Installed(pending[c], roster[c], h.tick)
      BY <2>1, <2>2, InstallType DEF Typed
    <2>5. Behind(c)' = {t \in Nat : h.tick <= t}
      BY <2>1 DEF Behind
    <2>6. \A t \in Behind(c)' : t \in Behind(c) \/ MapBy(s, t)
      BY <1>0, <1>5, <2>1, <2>5, MapTail
    <2>7. Fits(Tail(s), pending[c], roster[c], Behind(c)', serverTick[c], tick[Host], sent,
               ~invalidated, roster[Host])
      BY <1>0, <1>5, <1>6, <2>1, <2>6, SideTypes, FitsHandled
    <2>8. Tail(s) \in Seq(ClientPacket) /\ \A t \in Behind(c)' : h.tick <= t
      BY <1>0, <1>5, <2>5
    <2>9. Fits(Tail(s), Kept(pending[c], h.tick), Installed(pending[c], roster[c], h.tick), Behind(c)',
               serverTick[c], tick[Host], sent, ~invalidated, roster[Host])
      BY <2>2, <2>7, <2>8, SideTypes, FitsInstalled
    <2>10. OneRequest(Tail(s), toHost[c], TRUE) /\ conn[c] # "loaded"
      BY <1>0, <1>1, <1>5, <2>1, SideTypes, OneLoads, OneTail DEF JoinsOnce, Asks
    <2>11. ListsFit(c)' /\ JoinsOnce(c)' /\ NewFits(c)'
      BY <1>0, <1>2, <2>1, <2>3, <2>4, <2>9, <2>10 DEF ListsFit, JoinsOnce, NewFits, HostSame
    <2>12. QED
      BY <1>3, <2>10, <2>11 DEF SideInv
  <1>12. QED
    BY <1>7, <1>8, <1>9, <1>10, <1>11

\* What the host does for the connection, and what its player does.
LEMMA ServerKeeps ==
  ASSUME Typed, HostFits, NEW c \in Client, SideInv(c),
         \/ Join(c) \/ HandleMapRequest(c) \/ HandleClientAction(c)
         \/ Disconnect(c) \/ ClientIssues(c)
  PROVE  SideInv(c)'
  <1> USE Machines DEF thread, park, server, network, client, bounds
  <1>1. ASSUME Join(c) PROVE SideInv(c)'
    <2> DEFINE p == [type |-> "objects"]
    <2>1. /\ Channel(c) = <<>> /\ toHost[c] = <<>> /\ pending[c] = {} /\ serverTick[c] = 0
          /\ pc[c] = "poll" /\ conn[c] = "none"
      BY <1>1 DEF Join, SideInv, NewFits, ThreadFits
    <2>2. /\ conn'[c] = "joining" /\ pc' = pc /\ toHost' = toHost /\ pending' = pending
          /\ serverTick' = serverTick /\ tick' = tick /\ invalidated' = TRUE
          /\ toClient' = toClient /\ outbox'[c] = Append(outbox[c], p)
      BY <1>1 DEF Join, Typed
    <2>3. Channel(c)' = Append(Channel(c), p)
      <3>1. p \in ClientPacket
        BY DEF ClientPacket
      <3> HIDE DEF p
      <3>2. toClient[c] \o Append(outbox[c], p) = Append(toClient[c] \o outbox[c], p)
        BY <3>1, SideTypes, ChannelAppend
      <3>3. QED
        BY <2>2, <3>2 DEF Channel
    <2>4. Channel(c)' = <<p>>
      BY <2>1, <2>3
    <2>5. Behind(c)' = {}
      BY <2>2 DEF Behind
    <2>6. /\ InOrder(<<p>>) /\ Within(<<p>>, 0, tick[Host]) /\ 0 <= tick[Host]
          /\ \A t : ~MapBy(<<p>>, t)
      <3>1. \A i \in 1 .. Len(<<p>>) : ~Ticked(<<p>>[i]) /\ <<p>>[i].type # "map"
        BY DEF Ticked
      <3> HIDE DEF p
      <3>2. QED
        BY <3>1, SideTypes DEF InOrder, Within, MapBy
    <2>7. ListsFit(c)'
      BY <2>1, <2>2, <2>4, <2>5, <2>6 DEF ListsFit, Fits
    <2>8. JoinsOnce(c)'
      <3>1. OneRequest(<<p>>, <<>>, FALSE)
        BY DEF OneRequest
      <3>2. QED
        BY <2>1, <2>2, <2>4, <3>1 DEF JoinsOnce
    <2>9. ThreadFits(c)' /\ NewFits(c)'
      BY <2>1, <2>2 DEF ThreadFits, NewFits
    <2>10. QED
      BY <2>7, <2>8, <2>9 DEF SideInv
  <1>2. ASSUME HandleMapRequest(c) PROVE SideInv(c)'
    <2> DEFINE b == [type |-> "beginMap"]
               p == [type |-> "map", tick |-> tick[Host], paused |-> paused[Host]]
               s == Channel(c)
    <2>1. c \in Connected /\ toHost[c] # <<>> /\ Head(toHost[c]).type = "mapRequest"
          /\ toHost'[c] = Tail(toHost[c])
      BY <1>2 DEF HandleMapRequest, HostReceives, Typed
    <2>2. /\ conn' = conn /\ pc' = pc /\ frame' = frame /\ pending' = pending
          /\ serverTick' = serverTick /\ tick' = tick /\ invalidated' = invalidated
          /\ toClient' = toClient /\ outbox'[c] = outbox[c] \o <<b, p>>
          /\ roster' = roster /\ sent' = sent
      BY <1>2 DEF HandleMapRequest, Typed
    <2>3. b \in ClientPacket /\ ~Asks(b) /\ b.type # "list" /\ ~Ticked(b)
          /\ p \in ClientPacket /\ p.type # "list" /\ TickOf(p) = tick[Host]
      BY DEF ClientPacket, Asks, Ticked, TickOf, Typed
    <2> HIDE DEF b, p
    <2>4. Channel(c)' = Append(Append(s, b), p)
      <3>1. outbox[c] \o <<b, p>> = Append(Append(outbox[c], b), p)
        BY <2>3, SideTypes
      <3>2. toClient[c] \o Append(Append(outbox[c], b), p) = Append(toClient[c] \o Append(outbox[c], b), p)
        <4>1. Append(outbox[c], b) \in Seq(ClientPacket)
          BY <2>3, SideTypes
        <4>2. QED
          BY <2>3, <4>1, SideTypes, ChannelAppend
      <3>3. toClient[c] \o Append(outbox[c], b) = Append(s, b)
        BY <2>3, SideTypes, ChannelAppend DEF Channel
      <3>4. QED
        BY <2>2, <3>1, <3>2, <3>3 DEF Channel
    <2> HIDE DEF s
    <2>5. ListsFit(c) /\ JoinsOnce(c) /\ conn[c] # "none" /\ s \in Seq(ClientPacket) /\ s = Channel(c)
      BY <2>1, SideTypes DEF SideInv, Connected, s
    <2>6. Append(s, b) \in Seq(ClientPacket)
          /\ Fits(Append(s, b), pending[c], roster[c], Behind(c), serverTick[c], tick[Host], sent,
                  ~invalidated, roster[Host])
      BY <2>3, <2>5, SideTypes, FitsAppend DEF ListsFit
    <2>7. Fits(Append(Append(s, b), p), pending[c], roster[c], Behind(c), serverTick[c], tick[Host], sent,
               ~invalidated, roster[Host])
      BY <2>3, <2>6, SideTypes, FitsAppend
    <2>8. OneRequest(Append(Append(s, b), p), Tail(toHost[c]), conn[c] = "loaded")
      BY <2>1, <2>3, <2>5, SideTypes, OneAnswer DEF JoinsOnce
    <2>9. ListsFit(c)' /\ JoinsOnce(c)' /\ NewFits(c)'
      BY <2>1, <2>2, <2>4, <2>5, <2>7, <2>8 DEF ListsFit, JoinsOnce, NewFits, Behind
    <2>10. ThreadFits(c)'
      BY <2>2 DEF ThreadFits, SideInv
    <2>11. QED
      BY <2>9, <2>10 DEF SideInv
  <1>3. ASSUME HandleClientAction(c) \/ ClientIssues(c) PROVE SideInv(c)'
    <2>1. /\ conn' = conn /\ pc' = pc /\ frame' = frame /\ pending' = pending
          /\ serverTick' = serverTick /\ tick' = tick /\ invalidated' = invalidated
          /\ toClient' = toClient /\ outbox' = outbox /\ roster' = roster /\ sent' = sent
          /\ conn[c] # "none"
      BY <1>3 DEF HandleClientAction, ClientIssues, HostReceives, Connected
    <2>2. Channel(c)' = Channel(c) /\ Behind(c)' = Behind(c) /\ (c \in Connected' <=> c \in Connected)
      BY <2>1 DEF Channel, Behind, Connected
    <2>3. ASSUME c \in Connected PROVE JoinsOnce(c)'
      <3>1. JoinsOnce(c)
        BY <2>3 DEF SideInv
      <3>2. OneRequest(Channel(c), toHost'[c], conn[c] = "loaded")
        <4>1. CASE HandleClientAction(c)
          <5>1. toHost'[c] = Tail(toHost[c]) /\ toHost[c] # <<>>
            BY <4>1 DEF HandleClientAction, HostReceives, Typed
          <5>2. QED
            BY <3>1, <5>1, SideTypes, OneHostTail DEF JoinsOnce
        <4>2. CASE ClientIssues(c)
          <5> DEFINE q == [type |-> "action", tick |-> tick[c]]
          <5>1. toHost'[c] = Append(toHost[c], q) /\ q.type # "mapRequest"
            BY <4>2 DEF ClientIssues, Typed
          <5> HIDE DEF q
          <5>2. QED
            BY <3>1, <5>1, SideTypes, OneHostAppend DEF JoinsOnce
        <4>3. QED
          BY <1>3, <4>1, <4>2
      <3>3. QED
        BY <2>1, <2>2, <3>2 DEF JoinsOnce
    <2>4. QED
      BY <2>1, <2>2, <2>3 DEF SideInv, ListsFit, ThreadFits, NewFits
  <1>4. ASSUME Disconnect(c) PROVE SideInv(c)'
    <2>1. OwnSame(c) /\ HostSame /\ toClient' = toClient /\ outbox' = outbox
      BY <1>4 DEF Disconnect, OwnSame, HostSame
    <2>2. QED
      BY <2>1, SideSame DEF HostSame
  <1>5. QED
    BY <1>1, <1>2, <1>3, <1>4


-----------------------------------------------------------------------------
LEMMA ListsInit ==
  ASSUME Init
  PROVE  ListsInv
  <1>1. ASSUME NEW c \in Client PROVE SideInv(c)
    <2>1. /\ toClient[c] = <<>> /\ outbox[c] = <<>> /\ toHost[c] = <<>> /\ pending[c] = {}
          /\ serverTick[c] = 0 /\ pc[c] = "poll" /\ conn[c] = "none"
      BY Machines DEF Init
    <2>2. Channel(c) = <<>>
      BY <2>1 DEF Channel
    <2>3. QED
      BY <2>1, <2>2 DEF SideInv, ThreadFits, NewFits, Connected
  <1>2. QED
    BY <1>1, TypeInit DEF ListsInv

LEMMA SideStep ==
  ASSUME Typed, HostFits, NEW c \in Client, SideInv(c), [Next]_vars
  PROVE  /\ SideInv(c)'
         /\ conn[c] = "loaded" /\ tick'[c] = tick[c] + 1 => roster'[c] = sent'[tick'[c]]
  <1> USE Machines DEF thread, park, server, network, client, bounds
  <1>0. tick[c] # tick[c] + 1 /\ 0 # tick[c] + 1
    BY SideTypes
  <1>1. ASSUME UNCHANGED vars PROVE SideInv(c)' /\ tick'[c] = tick[c]
    <2>1. OwnSame(c) /\ HostSame /\ toClient' = toClient /\ outbox' = outbox /\ tick' = tick
      BY <1>1 DEF vars, OwnSame, HostSame
    <2>2. QED
      BY <2>1, SideSame DEF HostSame
  <1>2. ASSUME HostUpdates \/ HostPauses \/ HostEndsPausedFrame \/ Execute(Host) \/ EndQueue(Host)
        PROVE  SideInv(c)' /\ tick'[c] = tick[c]
    <2>1. tick' = tick
      BY <1>2 DEF HostUpdates, HostPauses, HostEndsPausedFrame, Execute, EndQueue
    <2>2. QED
      BY <1>2, <2>1, HostFrameKeeps
  <1>3. ASSUME HostPostTick PROVE SideInv(c)' /\ (tick'[c] = tick[c] \/ tick'[c] = 0)
    <2>1. Closed(tick, 0)[c] \in {tick[c], 0} /\ DOMAIN Closed(tick, 0) = Machine
      BY DEF Closed, Typed
    <2>2. \/ tick' = [Closed(tick, 0) EXCEPT ![Host] = @ + 1]
          \/ tick' = Closed(tick, 0)
      BY <1>3 DEF HostPostTick
    <2>3. tick'[c] = tick[c] \/ tick'[c] = 0
      BY <2>1, <2>2
    <2>4. QED
      BY <1>3, <2>3, HostPostTickKeeps
  <1>4. ASSUME NEW toggle \in BOOLEAN, HostIssues(toggle) PROVE SideInv(c)' /\ tick'[c] = tick[c]
    <2>1. OwnSame(c) /\ HostSame /\ toClient' = toClient /\ outbox' = outbox /\ tick' = tick
      BY <1>4 DEF HostIssues, OwnSame, HostSame
    <2>2. QED
      BY <2>1, SideSame DEF HostSame
  <1>5. ASSUME NEW d \in Client, d # c,
               \/ ClientRuns(d)
               \/ HandleObjectsList(d) \/ HandleBeginMap(d) \/ HandleMap(d)
               \/ HandleTick(d) \/ HandlePlayerList(d) \/ HandleRelayedAction(d)
               \/ Join(d) \/ HandleMapRequest(d) \/ HandleClientAction(d)
               \/ Disconnect(d) \/ ClientIssues(d)
        PROVE  SideInv(c)' /\ tick'[c] = tick[c]
    <2>1. tick'[c] = tick[c]
      BY <1>5 DEF ClientRuns, ClientGoesOn, OldParkPostTick, Execute, EndQueue, ClientPostTick,
                  HandleObjectsList, HandleBeginMap, HandleMap, HandleTick, HandlePlayerList,
                  HandleRelayedAction, Join, HandleMapRequest, HandleClientAction, Disconnect,
                  ClientIssues, Typed
    <2>2. QED
      BY <1>5, <2>1, OthersKeep
  <1>6. ASSUME ClientRuns(c)
        PROVE  SideInv(c)' /\ (tick'[c] = tick[c] + 1 => roster'[c] = sent'[tick'[c]])
    BY <1>6, FrameKeeps
  <1>7. ASSUME \/ HandleObjectsList(c) \/ HandleBeginMap(c) \/ HandleMap(c)
               \/ HandleTick(c) \/ HandlePlayerList(c) \/ HandleRelayedAction(c)
        PROVE  SideInv(c)' /\ (conn[c] = "loaded" => tick'[c] = tick[c])
    BY <1>7, HandlerKeeps
  <1>8. ASSUME \/ Join(c) \/ HandleMapRequest(c) \/ HandleClientAction(c)
               \/ Disconnect(c) \/ ClientIssues(c)
        PROVE  SideInv(c)' /\ tick'[c] = tick[c]
    <2>1. tick' = tick
      BY <1>8 DEF Join, HandleMapRequest, HandleClientAction, Disconnect, ClientIssues
    <2>2. QED
      BY <1>8, <2>1, ServerKeeps
  <1>9. CASE UNCHANGED vars
    BY <1>0, <1>1, <1>9
  <1>10. CASE HostRuns
    BY <1>0, <1>2, <1>3, <1>10 DEF HostRuns
  <1>11. CASE \E toggle \in BOOLEAN : HostIssues(toggle)
    BY <1>0, <1>4, <1>11
  <1>12. ASSUME NEW d \in Client,
                \/ ClientRuns(d)
                \/ HandleObjectsList(d) \/ HandleBeginMap(d) \/ HandleMap(d)
                \/ HandleTick(d) \/ HandlePlayerList(d) \/ HandleRelayedAction(d)
                \/ Join(d) \/ HandleMapRequest(d) \/ HandleClientAction(d)
                \/ Disconnect(d) \/ ClientIssues(d)
         PROVE  /\ SideInv(c)'
                /\ conn[c] = "loaded" /\ tick'[c] = tick[c] + 1 => roster'[c] = sent'[tick'[c]]
    <2>1. CASE d # c
      BY <1>0, <1>5, <1>12, <2>1
    <2>2. CASE d = c
      BY <1>0, <1>6, <1>7, <1>8, <1>12, <2>2
    <2>3. QED
      BY <2>1, <2>2
  <1>13. QED
    BY <1>9, <1>10, <1>11, <1>12 DEF Next

LEMMA ListsStep ==
  ASSUME ListsInv, [Next]_vars
  PROVE  ListsInv'
  <1>1. Typed /\ HostFits /\ \A c \in Client : SideInv(c)
    BY DEF ListsInv
  <1>2. \A c \in Client : SideInv(c)'
    BY <1>1, SideStep
  <1>3. QED
    BY <1>1, <1>2, TypeStep, HostFitsStep DEF ListsInv

\* What the host sends and a client keeps of it are in step in every session.
THEOREM ListsAreSynchronized == Spec => []ListsInv
  BY ListsInit, ListsStep, PTL DEF Spec

(***************************************************************************)
(* A client that ends a tick has the list the host had at the end of that  *)
(* tick, for any connections, ids and pauses.                              *)
(***************************************************************************)
THEOREM ClientsHaveTheList == Spec => ListsInStep
  <1>1. ListsInv /\ [Next]_vars =>
          [\A c \in Client :
             (conn[c] = "loaded" /\ tick'[c] = tick[c] + 1) => roster'[c] = sent'[tick'[c]]]_vars
    BY SideStep DEF ListsInv
  <1>2. QED
    BY <1>1, ListsAreSynchronized, PTL DEF Spec, ListsInStep


-----------------------------------------------------------------------------
(***************************************************************************)
(* Authors.  Until the host is first paused every frame is an update, and  *)
(* the list is sent behind the actions of its tick.                        *)
(***************************************************************************)
Author(a) == [id |-> a.id, who |-> a.who]

\* The author of an action was in the list the host had before the tick of the action.
Meant(a, sn) == ~a.toggle /\ (a.tick >= 1 => a.tick <= Len(sn) /\ Author(a) \in sn[a.tick])

\* A map finds the lists of the ticks before its own, and no other list.
MapFits(s, P, R, sn, i) ==
  /\ s[i].tick >= 1 /\ ~s[i].paused
  /\ \A l \in P : l.tick < s[i].tick
  /\ \A j \in 1 .. Len(s) : j < i /\ s[j].type = "list" => s[j].tick < s[i].tick
  /\ LatestIs(s, P, R, s[i].tick - 1, sn[s[i].tick])

MapsFit(s, P, R, h, sn) ==
  /\ \A i \in 1 .. Len(s) : s[i].type = "list" => s[i].tick < h
  /\ \A l \in P : l.tick < h
  /\ \A i \in 1 .. Len(s) : s[i].type = "map" => MapFits(s, P, R, sn, i)

\* A map is announced by BEGINMAP, which empties the queue.
Announced(s, q) ==
  \A i \in 1 .. Len(s) : s[i].type = "map" => IF i = 1 THEN q = <<>> ELSE s[i - 1].type = "beginMap"

QueueFits(s, q, h, sn) ==
  /\ \A i \in 1 .. Len(s) : s[i].type = "action" => Meant(s[i].action, sn)
  /\ \A i \in 1 .. Len(q) : Meant(q[i], sn) /\ Within(s, q[i].tick, h)
  /\ \A i, j \in 1 .. Len(q) : i < j => q[i].tick <= q[j].tick
  /\ Announced(s, q)

ParkFits(c) ==
  /\ pc[c] # "poll" => frame[c] = "update"
  /\ conn[c] = "loaded" =>
       /\ 1 <= tick[c] /\ tick[c] <= tick[Host]
       /\ roster[c] = sent[tick[c]] /\ ~paused[c]
       /\ Within(Channel(c), tick[c], tick[Host])
       /\ \A i \in 1 .. Len(queue[c]) :
            /\ tick[c] <= queue[c][i].tick
            /\ pc[c] = "post" => tick[c] < queue[c][i].tick

\* Connections that have heard of the host; all they can do now is behind their first list.
Seated(c) == toClient[c] # <<>> \/ toHost[c] # <<>> \/ conn[c] = "loaded"

SeatFits(c) ==
  Seated(c) =>
    /\ tick[Host] >= 1
    /\ \A p \in roster[Host] : p.who = c => p \in sent[tick[Host]]
    /\ LatestIs(Channel(c), pending[c], roster[c], tick[Host] - 1, sent[tick[Host]])

RunFits(c) ==
  /\ conn[c] = "none" => queue[c] = <<>>
  /\ c \in Connected =>
       /\ ParkFits(c)
       /\ SeatFits(c)
       /\ MapsFit(Channel(c), pending[c], roster[c], tick[Host], sent)
       /\ QueueFits(Channel(c), queue[c], tick[Host], sent)

HostEntry == [id |-> HostId, who |-> Host]

HostListed(e) == e \in roster[Host] /\ (tick[Host] >= 1 => e \in sent[tick[Host]])

HostRunFits ==
  /\ ~paused[Host] /\ frame[Host] = "update"
  /\ HostListed(HostEntry)
  /\ pc[Host] = "post" => queue[Host] = <<>>
  /\ \A i \in 1 .. Len(queue[Host]) : ~queue[Host][i].toggle /\ HostListed(Author(queue[Host][i]))

RunInv == HostRunFits /\ \A c \in Client : RunFits(c)

-----------------------------------------------------------------------------
\* More ticks of the host do not change what the lists after its earlier ones were.
LEMMA MeantStays ==
  ASSUME NEW a \in Action, NEW sn \in Seq(Roster), NEW L, Meant(a, sn)
  PROVE  Meant(a, Append(sn, L))
  <1>1. a.tick \in Nat
    BY DEF Action
  <1>2. a.tick >= 1 /\ a.tick <= Len(sn) => Append(sn, L)[a.tick] = sn[a.tick]
    BY <1>1
  <1>3. Len(Append(sn, L)) = Len(sn) + 1 /\ Len(sn) \in Nat
    OBVIOUS
  <1>4. QED
    BY <1>1, <1>2, <1>3 DEF Meant

LEMMA MeantBy ==
  ASSUME NEW sn \in Seq(Roster)
  PROVE  \A a \in Action : Meant(a, sn) => a.tick \in Nat /\ a.tick <= Len(sn)
  BY DEF Meant, Action

LEMMA PacketTypes ==
  ASSUME NEW s \in Seq(ClientPacket), NEW i \in 1 .. Len(s)
  PROVE  /\ s[i] \in ClientPacket
         /\ s[i].type \in {"map", "list"} =>
              s[i].tick \in Nat /\ Ticked(s[i]) /\ TickOf(s[i]) = s[i].tick
         /\ s[i].type = "action" =>
              s[i].action \in Action /\ s[i].action.tick \in Nat
                /\ Ticked(s[i]) /\ TickOf(s[i]) = s[i].action.tick
  <1>1. s[i] \in ClientPacket
    OBVIOUS
  <1>2. s[i].type = "action" => s[i].action \in Action /\ Ticked(s[i]) /\ TickOf(s[i]) = s[i].action.tick
    BY <1>1, TickOfType DEF Ticked
  <1>3. s[i].type \in {"map", "list"} => s[i].tick \in Nat /\ Ticked(s[i]) /\ TickOf(s[i]) = s[i].tick
    BY <1>1, TickOfType DEF Ticked
  <1>4. QED
    BY <1>1, <1>2, <1>3 DEF Action

LEMMA MapsCounted ==
  ASSUME NEW s \in Seq(ClientPacket), NEW P \in SUBSET ListT, NEW R, NEW h \in Nat,
         NEW sn \in Seq(Roster), Len(sn) = h, NEW L \in Roster,
         Within(s, 0, h), MapsFit(s, P, R, h, sn)
  PROVE  MapsFit(s, P, R, h + 1, Append(sn, L))
  <1>1. ASSUME NEW i \in 1 .. Len(s), s[i].type = "list" PROVE s[i].tick < h + 1
    BY <1>1, PacketTypes DEF MapsFit
  <1>2. ASSUME NEW l \in P PROVE l.tick < h + 1
    BY DEF MapsFit, ListT
  <1>3. ASSUME NEW i \in 1 .. Len(s), s[i].type = "map" PROVE MapFits(s, P, R, Append(sn, L), i)
    <2>1. s[i].tick \in Nat /\ s[i].tick <= h /\ MapFits(s, P, R, sn, i)
      BY <1>3, PacketTypes DEF MapsFit, Within
    <2>2. s[i].tick >= 1
      BY <2>1 DEF MapFits
    <2>3. Append(sn, L)[s[i].tick] = sn[s[i].tick]
      BY <2>1, <2>2
    <2>4. QED
      BY <2>1, <2>3 DEF MapFits
  <1>4. QED
    BY <1>1, <1>2, <1>3 DEF MapsFit

LEMMA MapsAppend ==
  ASSUME NEW s \in Seq(ClientPacket), NEW P \in SUBSET ListT, NEW R, NEW h \in Nat, NEW sn,
         MapsFit(s, P, R, h, sn), NEW p \in ClientPacket, p.type # "map",
         p.type = "list" => p.tick < h /\ Within(s, 0, p.tick)
  PROVE  MapsFit(Append(s, p), P, R, h, sn)
  <1> DEFINE q == Append(s, p)
  <1>1. /\ \A i \in 1 .. Len(s) : q[i] = s[i]
        /\ \A i \in 1 .. Len(q) : i \in 1 .. Len(s) \/ q[i] = p
        /\ Len(q) = Len(s) + 1 /\ Len(s) \in Nat
    BY AppendAt
  <1>2. ASSUME NEW i \in 1 .. Len(q), q[i].type = "map" PROVE MapFits(q, P, R, sn, i)
    <2>1. i \in 1 .. Len(s) /\ q[i] = s[i] /\ MapFits(s, P, R, sn, i)
      BY <1>1, <1>2 DEF MapsFit
    <2>2. \A j \in 1 .. Len(q) : j < i /\ q[j].type = "list" => q[j].tick < q[i].tick
      <3>1. \A j \in 1 .. Len(q) : j < i => j \in 1 .. Len(s)
        BY <1>1, <2>1
      <3> HIDE DEF q
      <3>2. QED
        BY <1>1, <2>1, <3>1 DEF MapFits
    <2>3. p.type = "list" => ~(p.tick <= s[i].tick - 1)
      <3>1. ASSUME p.type = "list" PROVE ~(p.tick <= s[i].tick - 1)
        <4>1. s[i].tick \in Nat /\ s[i].tick <= p.tick /\ p.tick \in Nat
          BY <1>2, <2>1, <3>1, PacketTypes, TickOfType DEF Within, Ticked
        <4>2. QED
          BY <4>1
      <3>2. QED
        BY <3>1
    <2>4. LatestIs(q, P, R, s[i].tick - 1, sn[s[i].tick])
      BY <2>1, <2>3, LatestAppend DEF MapFits
    <2> HIDE DEF q
    <2>5. QED
      BY <2>1, <2>2, <2>4 DEF MapFits
  <1>3. \A i \in 1 .. Len(q) : q[i].type = "list" => q[i].tick < h
    <2> HIDE DEF q
    <2>1. QED
      BY <1>1 DEF MapsFit
  <1> HIDE DEF q
  <1>4. MapsFit(q, P, R, h, sn)
    BY <1>2, <1>3 DEF MapsFit
  <1>5. QED
    BY <1>4 DEF q

\* The host sends the map of tick h.
LEMMA MapsSent ==
  ASSUME NEW s \in Seq(ClientPacket), NEW P \in SUBSET ListT, NEW R, NEW h \in Nat, NEW sn,
         MapsFit(s, P, R, h, sn), h >= 1, LatestIs(s, P, R, h - 1, sn[h]),
         NEW p \in ClientPacket, p.type = "map", p.tick = h, ~p.paused
  PROVE  MapsFit(Append(s, p), P, R, h, sn)
  <1> DEFINE q == Append(s, p)
  <1>1. /\ \A i \in 1 .. Len(s) : q[i] = s[i]
        /\ \A i \in 1 .. Len(q) : i \in 1 .. Len(s) \/ (i = Len(s) + 1 /\ q[i] = p)
        /\ Len(q) = Len(s) + 1 /\ Len(s) \in Nat
    BY AppendAt
  <1>2. \A t, L : LatestIs(s, P, R, t, L) => LatestIs(q, P, R, t, L)
    BY LatestAppend
  <1>3. \A i, j \in 1 .. Len(q) : j < i => j \in 1 .. Len(s) /\ q[j] = s[j]
    <2>1. \A i, j \in 1 .. Len(q) : j < i => j \in 1 .. Len(s)
      BY <1>1
    <2>2. QED
      BY <1>1, <2>1
  <1> HIDE DEF q
  <1>4. ASSUME NEW i \in 1 .. Len(q), q[i].type = "map" PROVE MapFits(q, P, R, sn, i)
    <2>1. CASE i \in 1 .. Len(s)
      <3>1. q[i] = s[i] /\ MapFits(s, P, R, sn, i)
        BY <1>1, <1>4, <2>1 DEF MapsFit
      <3>2. \A j \in 1 .. Len(q) : j < i /\ q[j].type = "list" => q[j].tick < q[i].tick
        BY <1>3, <3>1 DEF MapFits
      <3>3. QED
        BY <1>2, <3>1, <3>2 DEF MapFits
    <2>2. CASE q[i] = p
      <3>1. \A j \in 1 .. Len(q) : j < i /\ q[j].type = "list" => q[j].tick < q[i].tick
        BY <1>3, <2>2 DEF MapsFit
      <3>2. QED
        BY <1>2, <2>2, <3>1 DEF MapFits, MapsFit
    <2>3. QED
      BY <1>1, <2>1, <2>2
  <1>5. \A i \in 1 .. Len(q) : q[i].type = "list" => q[i].tick < h
    BY <1>1 DEF MapsFit
  <1>6. MapsFit(q, P, R, h, sn)
    BY <1>4, <1>5 DEF MapsFit
  <1>7. QED
    BY <1>6 DEF q

LEMMA MapsHandled ==
  ASSUME NEW s \in Seq(ClientPacket), s # <<>>, Head(s).type # "list",
         NEW P, NEW R, NEW h, NEW sn, MapsFit(s, P, R, h, sn)
  PROVE  MapsFit(Tail(s), P, R, h, sn)
  <1> DEFINE q == Tail(s)
  <1>1. \A i \in 1 .. Len(q) : i + 1 \in 1 .. Len(s) /\ q[i] = s[i + 1] /\ i \in Nat
    BY TailAt
  <1>2. \A t, L : LatestIs(s, P, R, t, L) => LatestIs(q, P, R, t, L)
    BY LatestTail
  <1> HIDE DEF q
  <1>3. ASSUME NEW i \in 1 .. Len(q), q[i].type = "map" PROVE MapFits(q, P, R, sn, i)
    <2>1. q[i] = s[i + 1] /\ MapFits(s, P, R, sn, i + 1)
      BY <1>1, <1>3 DEF MapsFit
    <2>2. \A j \in 1 .. Len(q) : j < i => j + 1 < i + 1
      BY <1>1
    <2>3. \A j \in 1 .. Len(q) : j < i /\ q[j].type = "list" => q[j].tick < q[i].tick
      BY <1>1, <2>1, <2>2 DEF MapFits
    <2>4. QED
      BY <1>2, <2>1, <2>3 DEF MapFits
  <1>4. \A i \in 1 .. Len(q) : q[i].type = "list" => q[i].tick < h
    BY <1>1 DEF MapsFit
  <1>5. MapsFit(q, P, R, h, sn)
    BY <1>3, <1>4 DEF MapsFit
  <1>6. QED
    BY <1>5 DEF q

LEMMA MapsReceived ==
  ASSUME NEW s \in Seq(ClientPacket), s # <<>>, Head(s).type = "list", InOrder(s),
         NEW P \in SUBSET ListT, \A l \in P : l.tick <= Head(s).tick,
         NEW R, NEW h, NEW sn, MapsFit(s, P, R, h, sn)
  PROVE  MapsFit(Tail(s), WithList(P, Head(s)), R, h, sn)
  <1> DEFINE q == Tail(s)
             Q == WithList(P, Head(s))
  <1>1. \A i \in 1 .. Len(q) : i + 1 \in 1 .. Len(s) /\ q[i] = s[i + 1] /\ i \in Nat /\ 1 < i + 1
    BY TailAt
  <1>2. \A t \in Nat : \A L : LatestIs(s, P, R, t, L) => LatestIs(q, Q, R, t, L)
    BY LatestReceived
  <1>3. Head(s) = s[1] /\ 1 \in 1 .. Len(s)
    BY TailAt
  <1>4. \A l \in Q : l \in P \/ l.tick = Head(s).tick
    BY DEF WithList
  <1> HIDE DEF q, Q
  <1>5. ASSUME NEW i \in 1 .. Len(q), q[i].type = "map" PROVE MapFits(q, Q, R, sn, i)
    <2>1. q[i] = s[i + 1] /\ MapFits(s, P, R, sn, i + 1) /\ s[i + 1].tick \in Nat /\ s[i + 1].tick >= 1
      <3>1. q[i] = s[i + 1] /\ MapFits(s, P, R, sn, i + 1)
        BY <1>1, <1>5 DEF MapsFit
      <3>2. QED
        BY <1>1, <1>5, <3>1, PacketTypes DEF MapFits
    <2>2. \A j \in 1 .. Len(q) : j < i => j + 1 < i + 1
      BY <1>1
    <2>3. \A j \in 1 .. Len(q) : j < i /\ q[j].type = "list" => q[j].tick < q[i].tick
      BY <1>1, <2>1, <2>2 DEF MapFits
    <2>4. \A l \in Q : l.tick < q[i].tick
      BY <1>1, <1>3, <1>4, <2>1 DEF MapFits
    <2>5. q[i].tick - 1 \in Nat
      BY <2>1
    <2>6. LatestIs(q, Q, R, q[i].tick - 1, sn[q[i].tick])
      BY <1>2, <2>1, <2>5 DEF MapFits
    <2>7. QED
      BY <2>1, <2>3, <2>4, <2>6 DEF MapFits
  <1>6. \A i \in 1 .. Len(q) : q[i].type = "list" => q[i].tick < h
    BY <1>1 DEF MapsFit
  <1>7. \A l \in Q : l.tick < h
    BY <1>3, <1>4 DEF MapsFit
  <1>8. MapsFit(q, Q, R, h, sn)
    BY <1>5, <1>6, <1>7 DEF MapsFit
  <1>9. QED
    BY <1>8 DEF q, Q

LEMMA MapsInstalled ==
  ASSUME NEW s \in Seq(ClientPacket), NEW P \in SUBSET ListT, NEW R, NEW h, NEW sn,
         MapsFit(s, P, R, h, sn), NEW u \in Nat
  PROVE  MapsFit(s, Kept(P, u), Installed(P, R, u), h, sn)
  <1>1. ASSUME NEW i \in 1 .. Len(s), s[i].type = "map"
        PROVE  MapFits(s, Kept(P, u), Installed(P, R, u), sn, i)
    <2>1. MapFits(s, P, R, sn, i) /\ s[i].tick \in Nat
      BY <1>1, PacketTypes DEF MapsFit
    <2>2. s[i].tick - 1 \in Nat /\ \A l \in P : l.tick <= s[i].tick - 1
      BY <2>1 DEF MapFits, ListT
    <2>3. LatestIs(s, Kept(P, u), Installed(P, R, u), s[i].tick - 1, sn[s[i].tick])
      BY <2>1, <2>2, LatestInstalled DEF MapFits
    <2>4. QED
      BY <2>1, <2>3 DEF MapFits, Kept
  <1>2. QED
    BY <1>1 DEF MapsFit, Kept

\* A client that loads a map of tick M has the list the host had after the tick before.
LEMMA MapLoads ==
  ASSUME NEW s \in Seq(ClientPacket), s # <<>>, Head(s).type = "map", InOrder(s),
         NEW P \in SUBSET ListT, NEW R, NEW h, NEW sn, MapsFit(s, P, R, h, sn)
  PROVE  Installed(P, R, Head(s).tick) = sn[Head(s).tick]
  <1> DEFINE M == Head(s).tick
  <1>1. Head(s) = s[1] /\ 1 \in 1 .. Len(s)
    BY TailAt
  <1>2. MapFits(s, P, R, sn, 1) /\ M \in Nat /\ M = s[1].tick /\ Ticked(s[1]) /\ TickOf(s[1]) = M
    BY <1>1, PacketTypes DEF MapsFit
  <1>3. M - 1 \in Nat /\ \A l \in P : l.tick <= M - 1 /\ l.tick <= M
    BY <1>2 DEF MapFits, ListT
  <1> HIDE DEF M
  <1>4. LatestIs(s, Kept(P, M), Installed(P, R, M), M - 1, sn[M])
    BY <1>2, <1>3, LatestInstalled DEF MapFits
  <1>5. ListsBy(s, M - 1) = {}
    <2>1. ASSUME NEW i \in ListsBy(s, M - 1) PROVE FALSE
      <3>1. i \in 1 .. Len(s) /\ s[i].type = "list" /\ s[i].tick <= M - 1 /\ s[i].tick \in Nat
            /\ Ticked(s[i]) /\ TickOf(s[i]) = s[i].tick
        BY ListsByType DEF ListsBy, Ticked, TickOf
      <3>2. i # 1
        BY <1>1, <3>1
      <3>3. 1 < i
        BY <3>1, <3>2
      <3>4. M <= s[i].tick
        BY <1>1, <1>2, <3>1, <3>3 DEF InOrder
      <3>5. QED
        BY <1>2, <3>1, <3>4
    <2>2. QED
      BY <2>1
  <1>6. DueBy(Kept(P, M), M - 1) = {}
    BY <1>3 DEF DueBy, Kept
  <1>7. Installed(P, R, M) = sn[M]
    BY <1>4, <1>5, <1>6 DEF LatestIs
  <1>8. QED
    BY <1>7 DEF M


-----------------------------------------------------------------------------
LEMMA QueueCounted ==
  ASSUME NEW s \in Seq(ClientPacket), NEW q \in Seq(Action), NEW h \in Nat,
         NEW sn \in Seq(Roster), NEW L \in Roster, QueueFits(s, q, h, sn)
  PROVE  QueueFits(s, q, h + 1, Append(sn, L))
  <1>1. ASSUME NEW i \in 1 .. Len(s), s[i].type = "action" PROVE Meant(s[i].action, Append(sn, L))
    BY <1>1, PacketTypes, MeantStays DEF QueueFits
  <1>2. ASSUME NEW i \in 1 .. Len(q) PROVE Meant(q[i], Append(sn, L)) /\ Within(s, q[i].tick, h + 1)
    <2>1. q[i] \in Action /\ Meant(q[i], sn) /\ Within(s, q[i].tick, h)
      BY DEF QueueFits
    <2>2. \A j \in 1 .. Len(s) : Ticked(s[j]) => TickOf(s[j]) \in Nat
      BY TickOfType
    <2>3. Within(s, q[i].tick, h + 1)
      BY <2>1, <2>2 DEF Within
    <2>4. QED
      BY <2>1, <2>3, MeantStays
  <1>3. QED
    BY <1>1, <1>2 DEF QueueFits

LEMMA QueueAppend ==
  ASSUME NEW s \in Seq(ClientPacket), NEW q \in Seq(Action), NEW h \in Nat, NEW sn \in Seq(Roster),
         Len(sn) <= h, QueueFits(s, q, h, sn),
         NEW p \in ClientPacket, p.type # "map" \/ (s # <<>> /\ s[Len(s)].type = "beginMap"),
         p.type = "action" => Meant(p.action, sn),
         Ticked(p) => TickOf(p) \in Nat /\ TickOf(p) <= h,
         \A i \in 1 .. Len(q) : Ticked(p) => q[i].tick <= TickOf(p)
  PROVE  QueueFits(Append(s, p), q, h, sn)
  <1> DEFINE r == Append(s, p)
  <1>1. /\ \A i \in 1 .. Len(s) : r[i] = s[i]
        /\ \A i \in 1 .. Len(r) : i \in 1 .. Len(s) \/ (i = Len(s) + 1 /\ r[i] = p)
        /\ Len(r) = Len(s) + 1 /\ Len(s) \in Nat
    BY AppendAt
  <1> HIDE DEF r
  <1>2. \A i \in 1 .. Len(r) : r[i].type = "action" => Meant(r[i].action, sn)
    BY <1>1 DEF QueueFits
  <1>3. \A i \in 1 .. Len(q) : Meant(q[i], sn) /\ Within(r, q[i].tick, h)
    BY <1>1 DEF QueueFits, Within
  <1>4. Announced(r, q)
    <2>1. SUFFICES ASSUME NEW i \in 1 .. Len(r), r[i].type = "map"
                   PROVE  IF i = 1 THEN q = <<>> ELSE r[i - 1].type = "beginMap"
      BY DEF Announced
    <2>2. CASE i \in 1 .. Len(s)
      <3>1. i # 1 => i - 1 \in 1 .. Len(s)
        BY <1>1, <2>2
      <3>2. QED
        BY <1>1, <2>1, <2>2, <3>1 DEF QueueFits, Announced
    <2>3. CASE i = Len(s) + 1 /\ r[i] = p
      <3>1. s # <<>> /\ s[Len(s)].type = "beginMap"
        BY <2>1, <2>3
      <3>2. Len(s) \in 1 .. Len(s) /\ i - 1 = Len(s) /\ i # 1
        BY <1>1, <2>3, <3>1
      <3>3. QED
        BY <1>1, <3>1, <3>2
    <2>4. QED
      BY <1>1, <2>2, <2>3
  <1>5. QueueFits(r, q, h, sn)
    BY <1>2, <1>3, <1>4 DEF QueueFits
  <1>6. QED
    BY <1>5 DEF r

LEMMA QueueHandled ==
  ASSUME NEW s \in Seq(ClientPacket), s # <<>>, NEW q, NEW h, NEW sn, QueueFits(s, q, h, sn)
  PROVE  /\ Head(s).type # "beginMap" => QueueFits(Tail(s), q, h, sn)
         /\ QueueFits(Tail(s), <<>>, h, sn)
         /\ Head(s).type = "map" => q = <<>>
         /\ Head(s).type # "beginMap" => \A x : Announced(Tail(s), x)
  <1> DEFINE r == Tail(s)
  <1>1. /\ \A i \in 1 .. Len(r) : i + 1 \in 1 .. Len(s) /\ r[i] = s[i + 1] /\ i \in Nat /\ i + 1 # 1
        /\ Head(s) = s[1] /\ 1 \in 1 .. Len(s)
    BY TailAt
  <1>2. \A i \in 1 .. Len(r) : i # 1 => i - 1 \in 1 .. Len(r) /\ r[i - 1] = s[i]
    <2>1. \A i \in 1 .. Len(r) : i # 1 => i - 1 \in 1 .. Len(r) /\ (i - 1) + 1 = i
      BY TailAt
    <2>2. QED
      BY <1>1, <2>1
  <1> HIDE DEF r
  <1>3. \A i \in 1 .. Len(r) : r[i].type = "map" => s[i].type = "beginMap"
    <2>1. ASSUME NEW i \in 1 .. Len(r), r[i].type = "map" PROVE s[i].type = "beginMap"
      <3>1. i + 1 \in 1 .. Len(s) /\ s[i + 1].type = "map" /\ i + 1 # 1 /\ (i + 1) - 1 = i
        BY <1>1, <2>1
      <3>2. QED
        BY <3>1 DEF QueueFits, Announced
    <2>2. QED
      BY <2>1
  <1>4. ASSUME NEW x, x = <<>> \/ Head(s).type # "beginMap" PROVE Announced(r, x)
    BY <1>1, <1>2, <1>3, <1>4 DEF Announced
  <1>5. \A i \in 1 .. Len(r) : r[i].type = "action" => Meant(r[i].action, sn)
    BY <1>1 DEF QueueFits
  <1>6. \A i \in 1 .. Len(q) : Meant(q[i], sn) /\ Within(r, q[i].tick, h)
    BY <1>1 DEF QueueFits, Within
  <1>7. Head(s).type # "beginMap" => QueueFits(r, q, h, sn)
    BY <1>4, <1>5, <1>6 DEF QueueFits
  <1>8. QueueFits(r, <<>>, h, sn)
    <2>1. 1 .. Len(<<>>) = {}
      OBVIOUS
    <2>2. QED
      BY <1>4, <1>5, <2>1 DEF QueueFits
  <1>9. Head(s).type = "map" => q = <<>>
    BY <1>1 DEF QueueFits, Announced
  <1>10. QED
    BY <1>4, <1>7, <1>8, <1>9 DEF r

\* A relayed action that is enqueued is behind those of earlier ticks.
LEMMA QueueReceived ==
  ASSUME NEW s \in Seq(ClientPacket), s # <<>>, Head(s).type = "action", InOrder(s),
         NEW q \in Seq(Action), NEW v \in Nat, NEW h \in Nat, Within(s, v, h), NEW sn,
         QueueFits(s, q, h, sn)
  PROVE  QueueFits(Tail(s), Append(q, Head(s).action), h, sn)
  <1> DEFINE r == Tail(s)
             a == Head(s).action
             x == Append(q, a)
  <1>1. Head(s) = s[1] /\ 1 \in 1 .. Len(s) /\ Ticked(Head(s)) /\ TickOf(Head(s)) = a.tick
        /\ a \in Action /\ Head(s).type # "beginMap"
    <2>1. Head(s) = s[1] /\ 1 \in 1 .. Len(s)
      BY TailAt
    <2>2. QED
      BY <2>1, PacketTypes
  <1>2. QueueFits(r, q, h, sn) /\ Announced(r, x)
    BY <1>1, QueueHandled
  <1>3. Meant(a, sn) /\ Within(r, a.tick, h)
    BY <1>1, OrderTail DEF QueueFits
  <1>4. \A i \in 1 .. Len(q) : q[i].tick <= a.tick
    BY <1>1 DEF QueueFits, Within
  <1> HIDE DEF r, a
  <1>5. /\ \A i \in 1 .. Len(q) : x[i] = q[i]
        /\ \A i \in 1 .. Len(x) : i \in 1 .. Len(q) \/ (i = Len(q) + 1 /\ x[i] = a)
        /\ Len(x) = Len(q) + 1 /\ Len(q) \in Nat
    BY <1>1
  <1> HIDE DEF x
  <1>6. \A i \in 1 .. Len(x) : Meant(x[i], sn) /\ Within(r, x[i].tick, h)
    BY <1>2, <1>3, <1>5 DEF QueueFits
  <1>7. ASSUME NEW i \in 1 .. Len(x), NEW j \in 1 .. Len(x), i < j PROVE x[i].tick <= x[j].tick
    <2>1. i \in 1 .. Len(q)
      BY <1>5, <1>7
    <2>2. CASE j \in 1 .. Len(q)
      BY <1>2, <1>5, <1>7, <2>1, <2>2 DEF QueueFits
    <2>3. CASE j = Len(q) + 1 /\ x[j] = a
      BY <1>4, <1>5, <2>1, <2>3
    <2>4. QED
      BY <1>5, <2>2, <2>3
  <1>8. QueueFits(r, x, h, sn)
    BY <1>2, <1>6, <1>7 DEF QueueFits
  <1>9. QED
    BY <1>8 DEF r, x, a

LEMMA QueueTaken ==
  ASSUME NEW s, NEW q \in Seq(Action), q # <<>>, NEW h, NEW sn, QueueFits(s, q, h, sn)
  PROVE  /\ QueueFits(s, Tail(q), h, sn)
         /\ \A i \in 1 .. Len(Tail(q)) : i + 1 \in 1 .. Len(q) /\ Tail(q)[i] = q[i + 1]
         /\ Head(q) = q[1] /\ 1 \in 1 .. Len(q)
  <1> DEFINE x == Tail(q)
  <1>1. /\ \A i \in 1 .. Len(x) : i + 1 \in 1 .. Len(q) /\ x[i] = q[i + 1]
        /\ \A i, j \in 1 .. Len(x) : i < j => i + 1 < j + 1
        /\ Head(q) = q[1] /\ 1 \in 1 .. Len(q)
    OBVIOUS
  <1> HIDE DEF x
  <1>2. Announced(s, x)
    BY DEF QueueFits, Announced
  <1>3. QueueFits(s, x, h, sn)
    BY <1>1, <1>2 DEF QueueFits
  <1>4. QED
    BY <1>1, <1>3 DEF x


-----------------------------------------------------------------------------
\* Steps that neither touch the connection nor its machine, but for what its player has said.
RunSameFor(c) ==
  /\ pc'[c] = pc[c] /\ frame'[c] = frame[c] /\ tick'[c] = tick[c] /\ paused'[c] = paused[c]
  /\ roster'[c] = roster[c] /\ queue'[c] = queue[c] /\ conn'[c] = conn[c] /\ pending'[c] = pending[c]
  /\ tick'[Host] = tick[Host] /\ sent' = sent
  /\ \A p \in roster'[Host] : p.who = c => p \in roster[Host]

LEMMA RunSame ==
  ASSUME NEW c \in Client, RunFits(c), RunSameFor(c), Channel(c)' = Channel(c),
         Seated(c)' => Seated(c)
  PROVE  RunFits(c)'
  <1>1. c \in Connected' <=> c \in Connected
    BY DEF RunSameFor, Connected
  <1>2. conn'[c] = "none" => queue'[c] = <<>>
    BY DEF RunFits, RunSameFor
  <1>3. ASSUME c \in Connected
        PROVE  /\ ParkFits(c)' /\ SeatFits(c)'
               /\ MapsFit(Channel(c), pending[c], roster[c], tick[Host], sent)'
               /\ QueueFits(Channel(c), queue[c], tick[Host], sent)'
    <2>1. /\ ParkFits(c) /\ SeatFits(c)
          /\ MapsFit(Channel(c), pending[c], roster[c], tick[Host], sent)
          /\ QueueFits(Channel(c), queue[c], tick[Host], sent)
      BY <1>3 DEF RunFits
    <2>2. ParkFits(c)'
      BY <2>1 DEF ParkFits, RunSameFor
    <2>3. SeatFits(c)'
      BY <2>1 DEF SeatFits, RunSameFor
    <2>4. QED
      BY <2>1, <2>2, <2>3 DEF RunSameFor
  <1>4. QED
    BY <1>1, <1>2, <1>3 DEF RunFits

\* The host sends its tick, or an action it has executed.
LEMMA RunSent ==
  ASSUME Typed, HostFits, NEW c \in Client, SideInv(c), RunFits(c), RunSameFor(c),
         toClient' = toClient, toHost' = toHost, roster' = roster,
         NEW p \in ClientPacket, p.type \in {"tick", "action"}, TickOf(p) = tick[Host],
         p.type = "action" => Meant(p.action, sent),
         outbox' = WithPacket(outbox, Connected, p)
  PROVE  RunFits(c)'
  <1>1. CASE c \notin Connected
    <2>1. c \notin Connected' /\ conn'[c] = conn[c] /\ queue'[c] = queue[c]
      BY <1>1 DEF RunSameFor, Connected
    <2>2. QED
      BY <2>1 DEF RunFits
  <1>2. CASE c \in Connected
    <2> DEFINE s == Channel(c)
               h == tick[Host]
    <2>1. Channel(c)' = Append(s, p)
      <3>1. outbox'[c] = Append(outbox[c], p) /\ toClient'[c] = toClient[c]
        BY <1>2 DEF WithPacket
      <3>2. QED
        BY <3>1, SideTypes, ChannelAppend DEF Channel
    <2>2. /\ ParkFits(c) /\ SeatFits(c)
          /\ MapsFit(s, pending[c], roster[c], h, sent)
          /\ QueueFits(s, queue[c], h, sent)
      BY <1>2 DEF RunFits
    <2>3. /\ s \in Seq(ClientPacket) /\ pending[c] \in SUBSET ListT /\ h \in Nat
          /\ sent \in Seq(Roster) /\ Len(sent) = h /\ queue[c] \in Seq(Action) /\ tick[c] \in Nat
      BY SideTypes, Machines DEF HostFits, Typed
    <2>4. p.type # "map" /\ p.type # "list" /\ Ticked(p)
      BY DEF Ticked
    <2> HIDE DEF s
    <2>5. MapsFit(Append(s, p), pending[c], roster[c], h, sent)
      BY <2>2, <2>3, <2>4, MapsAppend
    <2>6. QueueFits(Append(s, p), queue[c], h, sent)
      <3>1. \A i \in 1 .. Len(queue[c]) : queue[c][i].tick <= h
        BY <2>2, <2>3, MeantBy DEF QueueFits
      <3>2. /\ Len(sent) <= h
            /\ p.type # "map" \/ (s # <<>> /\ s[Len(s)].type = "beginMap")
            /\ Ticked(p) => TickOf(p) \in Nat /\ TickOf(p) <= h
            /\ \A i \in 1 .. Len(queue[c]) : Ticked(p) => queue[c][i].tick <= TickOf(p)
        BY <2>3, <2>4, <3>1
      <3> HIDE DEF h
      <3>3. QED
        BY <2>2, <2>3, <3>2, QueueAppend
    <2>7. \A t, L : LatestIs(s, pending[c], roster[c], t, L)
                      => LatestIs(Append(s, p), pending[c], roster[c], t, L)
      BY <2>3, <2>4, LatestAppend
    <2>8. SeatFits(c)'
      <3>1. Seated(c)' => Seated(c)
        BY DEF Seated, RunSameFor
      <3>2. QED
        BY <2>1, <2>2, <2>7, <3>1 DEF SeatFits, RunSameFor, s
    <2>9. ParkFits(c)'
      <3>1. conn[c] = "loaded" => Within(Append(s, p), tick[c], h)
        BY <2>2, <2>3, <2>4, OrderAppend DEF ParkFits, s
      <3>2. QED
        BY <2>1, <2>2, <3>1 DEF ParkFits, RunSameFor
    <2>10. QED
      BY <1>2, <2>1, <2>5, <2>6, <2>8, <2>9 DEF RunFits, RunSameFor, Connected
  <1>3. QED
    BY <1>1, <1>2

LEMMA WithinLower ==
  ASSUME NEW s \in Seq(ClientPacket), NEW v \in Nat, NEW h \in Nat, Within(s, v, h)
  PROVE  Within(s, 0, h) /\ Within(s, v, h + 1)
  <1>1. \A i \in 1 .. Len(s) : Ticked(s[i]) => TickOf(s[i]) \in Nat
    BY TickOfType
  <1>2. QED
    BY <1>1 DEF Within

\* The end of a tick of the host.
LEMMA RunPostTick ==
  ASSUME Typed, HostFits, NEW c \in Client, SideInv(c), RunFits(c), HostPostTick,
         frame[Host] = "update"
  PROVE  RunFits(c)'
  <1>1. CASE c \in leaving
    <2>1. conn'[c] = "gone"
      BY <1>1 DEF HostPostTick, Closed, Typed
    <2>2. QED
      BY <2>1 DEF RunFits, Connected
  <1>2. CASE c \notin leaving
    <2> DEFINE s == Channel(c)
               h == tick[Host]
               q == queue[c]
               P == pending[c]
               R == roster[c]
               L == StayList
               sn == Append(sent, L)
    <2>1. /\ OwnSame(c) /\ paused'[c] = paused[c] /\ queue'[c] = q
          /\ roster'[Host] = L /\ L \in Roster /\ ListPacket \in ClientPacket
          /\ sent' = sn /\ tick'[Host] = h + 1
      BY <1>2, PostTickEffect
    <2>2. CASE c \notin Connected
      <3>1. conn'[c] = conn[c] /\ c \notin Connected'
        BY <2>1, <2>2 DEF OwnSame, Connected
      <3>2. QED
        BY <2>1, <3>1 DEF RunFits
    <2>3. CASE c \in Connected
      <3> DEFINE r == IF ListChanged(L) THEN Append(s, ListPacket) ELSE s
      <3>1. Channel(c)' = r /\ c \in Connected' /\ conn'[c] # "none"
        BY <1>2, <2>1, <2>3, PostTickEffect DEF OwnSame, Connected
      <3>2. /\ ParkFits(c) /\ SeatFits(c) /\ MapsFit(s, P, R, h, sent) /\ QueueFits(s, q, h, sent)
        BY <2>3 DEF RunFits
      <3>3. /\ s \in Seq(ClientPacket) /\ P \in SUBSET ListT /\ h \in Nat /\ h + 1 \in Nat
            /\ sent \in Seq(Roster) /\ Len(sent) = h /\ q \in Seq(Action) /\ tick[c] \in Nat
            /\ sn \in Seq(Roster) /\ Len(sn) = h + 1 /\ sn[h + 1] = L
        BY <2>1, SideTypes, Machines DEF HostFits, Typed
      <3>4. Within(s, 0, h)
        <4>1. Within(s, serverTick[c], h)
          BY <2>3 DEF SideInv, ListsFit, Fits
        <4> HIDE DEF s, h
        <4>2. QED
          BY <3>3, <4>1, SideTypes, WithinLower
      <3>5. /\ ListPacket.type = "list" /\ ListPacket.tick = h /\ ListPacket.list = L
            /\ Ticked(ListPacket) /\ TickOf(ListPacket) = h
        BY DEF ListPacket, Ticked, TickOf
      <3>6. ListChanged(L) \/ LatestIs(s, P, R, h, L)
        BY <2>3 DEF ListChanged, SideInv, ListsFit, Fits
      <3>7. /\ Channel(c)' = r /\ pending'[c] = P /\ roster'[c] = R /\ queue'[c] = q
            /\ conn'[c] = conn[c] /\ tick'[c] = tick[c] /\ pc'[c] = pc[c] /\ frame'[c] = frame[c]
            /\ paused'[c] = paused[c]
        BY <2>1, <3>1 DEF OwnSame
      <3> HIDE DEF s, h, q, P, R, L, sn, r
      <3>8. MapsFit(s, P, R, h + 1, sn) /\ QueueFits(s, q, h + 1, sn)
        BY <2>1, <3>2, <3>3, <3>4, MapsCounted, QueueCounted DEF sn
      <3>9. \A i \in 1 .. Len(q) : q[i] \in Action /\ q[i].tick <= h
        BY <3>2, <3>3, MeantBy DEF QueueFits
      <3>10. MapsFit(r, P, R, h + 1, sn)
        <4>1. CASE ListChanged(L)
          <5>1. MapsFit(Append(s, ListPacket), P, R, h + 1, sn)
            BY <2>1, <3>3, <3>4, <3>5, <3>8, MapsAppend
          <5>2. QED
            BY <4>1, <5>1 DEF r
        <4>2. CASE ~ListChanged(L)
          BY <3>8, <4>2 DEF r
        <4>3. QED
          BY <4>1, <4>2
      <3>11. QueueFits(r, q, h + 1, sn)
        <4>1. CASE ListChanged(L)
          <5>1. h \in Nat /\ h <= h + 1 /\ Len(sn) <= h + 1
                /\ \A i \in 1 .. Len(q) : Ticked(ListPacket) => q[i].tick <= TickOf(ListPacket)
            BY <3>3, <3>5, <3>9
          <5>2. QueueFits(Append(s, ListPacket), q, h + 1, sn)
            BY <2>1, <3>3, <3>5, <3>8, <5>1, QueueAppend
          <5>3. QED
            BY <4>1, <5>2 DEF r
        <4>2. CASE ~ListChanged(L)
          BY <3>8, <4>2 DEF r
        <4>3. QED
          BY <4>1, <4>2
      <3>12. LatestIs(r, P, R, h, L)
        <4>1. CASE ListChanged(L)
          <5>1. ListPacket.type = "list" /\ ListPacket.tick <= h
            BY <3>3, <3>5
          <5>2. LatestIs(Append(s, ListPacket), P, R, h, ListPacket.list)
            BY <2>1, <3>3, <5>1, LatestSent
          <5>3. QED
            BY <3>5, <4>1, <5>2 DEF r
        <4>2. CASE ~ListChanged(L)
          BY <3>6, <4>2 DEF r
        <4>3. QED
          BY <4>1, <4>2
      <3>13. SeatFits(c)'
        BY <2>1, <3>3, <3>7, <3>12 DEF SeatFits
      <3>14. ParkFits(c)'
        <4>1. ASSUME conn[c] = "loaded"
              PROVE  /\ 1 <= tick[c] /\ tick[c] <= h + 1 /\ R = sn[tick[c]] /\ ~paused[c]
                     /\ Within(r, tick[c], h + 1)
                     /\ \A i \in 1 .. Len(q) :
                          tick[c] <= q[i].tick /\ (pc[c] = "post" => tick[c] < q[i].tick)
          <5>1. /\ 1 <= tick[c] /\ tick[c] <= h /\ R = sent[tick[c]] /\ ~paused[c]
                /\ Within(s, tick[c], h)
                /\ \A i \in 1 .. Len(q) :
                     tick[c] <= q[i].tick /\ (pc[c] = "post" => tick[c] < q[i].tick)
            BY <3>2, <4>1 DEF ParkFits, s, h, q, R
          <5>2. sn[tick[c]] = sent[tick[c]] /\ tick[c] <= h + 1
            BY <3>3, <5>1 DEF sn
          <5>3. Within(r, tick[c], h)
            <6>1. CASE ListChanged(L)
              <7>1. Within(Append(s, ListPacket), tick[c], h)
                BY <2>1, <3>3, <3>5, <5>1, OrderAppend
              <7>2. QED
                BY <6>1, <7>1 DEF r
            <6>2. CASE ~ListChanged(L)
              BY <5>1, <6>2 DEF r
            <6>3. QED
              BY <6>1, <6>2
          <5>4. r \in Seq(ClientPacket)
            BY <2>1, <3>3 DEF r
          <5>5. Within(r, tick[c], h + 1)
            BY <3>3, <5>3, <5>4, WithinLower
          <5>6. QED
            BY <5>1, <5>2, <5>5
        <4>2. pc[c] # "poll" => frame[c] = "update"
          BY <3>2 DEF ParkFits
        <4>3. QED
          BY <2>1, <3>7, <4>1, <4>2 DEF ParkFits
      <3>15. QED
        BY <2>1, <3>1, <3>7, <3>10, <3>11, <3>13, <3>14 DEF RunFits
    <2>4. QED
      BY <2>2, <2>3
  <1>3. QED
    BY <1>1, <1>2


\* A frame of the client.
LEMMA RunFrame ==
  ASSUME Typed, NEW c \in Client, SideInv(c), RunFits(c), ClientRuns(c)
  PROVE  RunFits(c)'
  <1> USE Machines DEF thread, park, server, network, client, bounds
  <1> DEFINE s == Channel(c)
             h == tick[Host]
             q == queue[c]
             P == pending[c]
             R == roster[c]
  <1>1. /\ c \in Connected /\ c \in Connected' /\ conn'[c] = conn[c] /\ conn[c] # "none"
        /\ Channel(c)' = s /\ tick'[Host] = h /\ sent' = sent /\ roster'[Host] = roster[Host]
        /\ Seated(c)' = Seated(c)
    <2>1. c \in Connected
      BY DEF ClientRuns
    <2>2. toClient' = toClient /\ outbox' = outbox /\ conn' = conn /\ toHost' = toHost /\ sent' = sent
      BY DEF ClientRuns, ClientGoesOn, OldParkPostTick, Execute, EndQueue, ClientPostTick
    <2>3. tick'[Host] = h /\ roster'[Host] = roster[Host]
      BY DEF ClientRuns, ClientGoesOn, OldParkPostTick, Execute, EndQueue, ClientPostTick,
             InstallLists, Typed
    <2>4. QED
      BY <2>1, <2>2, <2>3 DEF Channel, Seated, Connected
  <1>2. /\ ParkFits(c) /\ SeatFits(c) /\ MapsFit(s, P, R, h, sent) /\ QueueFits(s, q, h, sent)
    BY <1>1 DEF RunFits
  <1>3. /\ s \in Seq(ClientPacket) /\ P \in SUBSET ListT /\ h \in Nat
        /\ q \in Seq(Action) /\ tick[c] \in Nat /\ serverTick[c] \in Nat
    BY SideTypes DEF Typed
  <1>4. ASSUME NEW u \in Nat, pending'[c] = Kept(P, u), roster'[c] = Installed(P, R, u)
        PROVE  SeatFits(c)' /\ MapsFit(s, Kept(P, u), Installed(P, R, u), h, sent)
    <2>1. MapsFit(s, Kept(P, u), Installed(P, R, u), h, sent)
      BY <1>2, <1>3, MapsInstalled
    <2>2. ASSUME Seated(c)
          PROVE  LatestIs(s, Kept(P, u), Installed(P, R, u), h - 1, sent[h])
      <3>1. h >= 1 /\ LatestIs(s, P, R, h - 1, sent[h])
        BY <1>2, <2>2 DEF SeatFits
      <3>2. h - 1 \in Nat /\ \A l \in P : l.tick <= h - 1
        BY <1>2, <1>3, <3>1 DEF MapsFit, ListT
      <3>3. QED
        BY <1>3, <3>1, <3>2, LatestInstalled
    <2>3. QED
      BY <1>1, <1>2, <1>4, <2>1, <2>2 DEF SeatFits
  <1> HIDE DEF s, h, q, P, R
  <1>5. ASSUME ClientGoesOn(c) PROVE RunFits(c)'
    <2>1. /\ conn[c] = "loaded" /\ ~paused[c]
      BY <1>2, <1>5 DEF ClientGoesOn, ParkFits
    <2>2. /\ frame'[c] = "update" /\ pc'[c] = "queue" /\ tick' = tick /\ paused' = paused
          /\ queue' = queue /\ roster' = roster /\ pending' = pending
      BY <1>5, <2>1 DEF ClientGoesOn, Go, Typed
    <2>3. ParkFits(c)'
      BY <1>1, <1>2, <2>2 DEF ParkFits, s, h
    <2>4. SeatFits(c)'
      BY <1>1, <1>2, <2>2 DEF SeatFits, s, h
    <2>5. QED
      BY <1>1, <1>2, <2>2, <2>3, <2>4 DEF RunFits, s, h, q, P, R
  <1>6. ASSUME OldParkPostTick(c) PROVE RunFits(c)'
    <2>1. PICK u \in 0 .. MaxTick : InstallLists(c, u)
      BY <1>6 DEF OldParkPostTick
    <2>2. u \in Nat
      BY PlayersAssumption
    <2>3. pending'[c] = Kept(P, u) /\ roster'[c] = Installed(P, R, u)
      BY <2>1, <2>2, InstallType DEF Typed, P, R
    <2>4. /\ conn[c] = "joining" /\ pc' = pc /\ frame' = frame /\ queue' = queue
      BY <1>6 DEF OldParkPostTick
    <2>5. ParkFits(c)'
      BY <1>1, <1>2, <2>4 DEF ParkFits
    <2>6. SeatFits(c)' /\ MapsFit(s, Kept(P, u), Installed(P, R, u), h, sent)
      BY <1>4, <2>2, <2>3
    <2>7. QED
      BY <1>1, <1>2, <2>3, <2>4, <2>5, <2>6 DEF RunFits, s, h, q, P, R
  <1>7. ASSUME Execute(c) PROVE RunFits(c)'
    <2>1. q # <<>> /\ queue'[c] = Tail(q)
      BY <1>7 DEF Execute, Due, Typed, q
    <2>2. /\ QueueFits(s, Tail(q), h, sent)
          /\ \A i \in 1 .. Len(Tail(q)) : i + 1 \in 1 .. Len(q) /\ Tail(q)[i] = q[i + 1]
          /\ Head(q) = q[1] /\ 1 \in 1 .. Len(q)
      BY <1>2, <1>3, <2>1, QueueTaken
    <2>3. ~Head(q).toggle
      BY <1>2, <2>2 DEF QueueFits, Meant
    <2>4. /\ paused'[c] = paused[c] /\ pc' = pc /\ frame' = frame /\ tick' = tick
          /\ roster' = roster /\ pending' = pending
      BY <1>7, <2>3 DEF Execute, Typed, q
    <2>5. ParkFits(c)'
      <3>1. ASSUME conn[c] = "loaded"
            PROVE  \A i \in 1 .. Len(Tail(q)) :
                     tick[c] <= Tail(q)[i].tick /\ (pc[c] = "post" => tick[c] < Tail(q)[i].tick)
        BY <1>2, <2>2, <3>1 DEF ParkFits, q
      <3>2. QED
        BY <1>1, <1>2, <2>1, <2>4, <3>1 DEF ParkFits, s, h
    <2>6. SeatFits(c)'
      BY <1>1, <1>2, <2>4 DEF SeatFits, s, h
    <2>7. QED
      BY <1>1, <1>2, <2>1, <2>2, <2>4, <2>5, <2>6 DEF RunFits, s, h, P, R
  <1>8. ASSUME EndQueue(c) PROVE RunFits(c)'
    <2>1. /\ pc[c] = "queue" /\ ~Due(c) /\ tick' = tick /\ paused' = paused /\ frame[c] = "update"
          /\ queue' = queue /\ roster' = roster /\ pending' = pending
      BY <1>2, <1>8 DEF EndQueue, ParkFits
    <2>2. pc'[c] = "post" /\ frame'[c] = "update"
      BY <1>8, <2>1 DEF EndQueue, Go, Typed
    <2>3. \A i \in 1 .. Len(q) : tick[c] < q[i].tick
      <3>1. ASSUME NEW i \in 1 .. Len(q) PROVE tick[c] < q[i].tick
        <4>1. q # <<>> /\ Head(q) = q[1] /\ 1 \in 1 .. Len(q)
          BY <1>3
        <4>2. ~(q[1].tick <= tick[c])
          BY <2>1, <4>1 DEF Due, q
        <4>3. q[1] \in Action /\ q[i] \in Action
          BY <1>3, <4>1
        <4>4. i = 1 \/ 1 < i
          OBVIOUS
        <4>5. q[1].tick <= q[i].tick
          BY <1>2, <4>1, <4>3, <4>4 DEF QueueFits, Action
        <4>6. q[1].tick \in Nat /\ q[i].tick \in Nat
          BY <4>3 DEF Action
        <4>7. QED
          BY <1>3, <4>2, <4>5, <4>6
      <3>2. QED
        BY <3>1
    <2>4. ParkFits(c)'
      BY <1>1, <1>2, <2>1, <2>2, <2>3 DEF ParkFits, s, h, q
    <2>5. SeatFits(c)'
      BY <1>1, <1>2, <2>1 DEF SeatFits, s, h
    <2>6. QED
      BY <1>1, <1>2, <2>1, <2>4, <2>5 DEF RunFits, s, h, q, P, R
  <1>9. ASSUME ClientPostTick(c) PROVE RunFits(c)'
    <2> DEFINE u == tick[c]
    <2>1. u \in Nat /\ InstallLists(c, u) /\ pc[c] = "post" /\ frame[c] = "update"
      BY <1>2, <1>3, <1>9 DEF ClientPostTick, ParkFits
    <2>2. pending'[c] = Kept(P, u) /\ roster'[c] = Installed(P, R, u)
      BY <2>1, InstallType DEF Typed, P, R
    <2>3. /\ tick'[c] = u + 1 /\ pc'[c] = "poll" /\ frame' = frame /\ paused' = paused /\ queue' = queue
      BY <1>9, <2>1 DEF ClientPostTick, Typed
    <2>4. roster'[c] = sent[u + 1]
      BY <1>1, <2>3, FrameKeeps
    <2>5. conn[c] = "loaded" /\ u < serverTick[c]
      BY <2>1 DEF SideInv, ThreadFits
    <2>6. Within(s, serverTick[c], h) /\ serverTick[c] <= h
      BY <1>1 DEF SideInv, ListsFit, Fits, s, h
    <2>7. u + 1 <= serverTick[c] /\ u + 1 <= h /\ 1 <= u + 1
      BY <1>3, <2>1, <2>5, <2>6
    <2>8. Within(s, u + 1, h)
      <3>1. \A i \in 1 .. Len(s) : Ticked(s[i]) => TickOf(s[i]) \in Nat
        BY <1>3, TickOfType
      <3>2. QED
        BY <1>3, <2>1, <2>6, <2>7, <3>1 DEF Within
    <2>9. \A i \in 1 .. Len(q) : u + 1 <= q[i].tick
      <3>1. \A i \in 1 .. Len(q) : q[i] \in Action
        BY <1>3
      <3>2. \A i \in 1 .. Len(q) : q[i].tick \in Nat
        BY <3>1 DEF Action
      <3>3. \A i \in 1 .. Len(q) : u < q[i].tick
        BY <1>2, <2>1, <2>5 DEF ParkFits, q
      <3>4. QED
        BY <2>1, <3>2, <3>3
    <2>10. ParkFits(c)'
      BY <1>1, <1>2, <2>3, <2>4, <2>5, <2>7, <2>8, <2>9 DEF ParkFits, q
    <2>11. SeatFits(c)' /\ MapsFit(s, Kept(P, u), Installed(P, R, u), h, sent)
      BY <1>4, <2>1, <2>2
    <2>12. QED
      BY <1>1, <1>2, <2>2, <2>3, <2>10, <2>11 DEF RunFits, q
  <1>10. QED
    BY <1>5, <1>6, <1>7, <1>8, <1>9 DEF ClientRuns


\* A packet the client handles.
LEMMA RunHandler ==
  ASSUME Typed, NEW c \in Client, SideInv(c), RunFits(c),
         \/ HandleObjectsList(c) \/ HandleBeginMap(c) \/ HandleMap(c)
         \/ HandleTick(c) \/ HandlePlayerList(c) \/ HandleRelayedAction(c)
  PROVE  RunFits(c)'
  <1> USE Machines DEF thread, park, server, network, client, bounds
  <1> DEFINE s == Channel(c)
             p == Head(s)
             h == tick[Host]
             q == queue[c]
             P == pending[c]
             R == roster[c]
  <1>1. /\ s # <<>> /\ p = Head(toClient[c]) /\ Channel(c)' = Tail(s) /\ toClient[c] # <<>>
        /\ p \in ClientPacket /\ pc[c] = "poll" /\ c \in Connected
    BY ChannelReceived
       DEF HandleObjectsList, HandleBeginMap, HandleMap, HandleTick, HandlePlayerList,
           HandleRelayedAction, ClientReceives
  <1>2. /\ ParkFits(c) /\ SeatFits(c) /\ MapsFit(s, P, R, h, sent) /\ QueueFits(s, q, h, sent)
    BY <1>1 DEF RunFits
  <1>3. /\ s \in Seq(ClientPacket) /\ P \in SUBSET ListT /\ h \in Nat
        /\ q \in Seq(Action) /\ tick[c] \in Nat /\ serverTick[c] \in Nat /\ Tail(s) \in Seq(ClientPacket)
    BY <1>1, SideTypes DEF Typed
  <1>4. InOrder(s) /\ Within(s, serverTick[c], h) /\ \A l \in P : Within(s, l.tick, h)
    BY <1>1 DEF SideInv, ListsFit, Fits
  <1>5. h >= 1 /\ LatestIs(s, P, R, h - 1, sent[h])
    BY <1>1, <1>2 DEF SeatFits, Seated
  <1>6. h - 1 \in Nat /\ \A l \in P : l.tick <= h - 1
    BY <1>2, <1>3, <1>5 DEF MapsFit, ListT
  <1>7. /\ pc' = pc /\ frame' = frame /\ tick'[Host] = h /\ sent' = sent /\ roster'[Host] = roster[Host]
        /\ c \in Connected' /\ conn'[c] # "none"
    <2>1. pc' = pc /\ frame' = frame /\ tick'[Host] = h /\ sent' = sent /\ roster'[Host] = roster[Host]
      BY DEF HandleObjectsList, HandleBeginMap, HandleMap, HandleTick, HandlePlayerList,
             HandleRelayedAction, InstallLists, Typed
    <2>2. conn'[c] = conn[c] \/ conn'[c] = "loaded"
      BY DEF HandleObjectsList, HandleBeginMap, HandleMap, HandleTick, HandlePlayerList,
             HandleRelayedAction, Typed
    <2>3. QED
      BY <1>1, <2>1, <2>2 DEF Connected
  <1>8. \A e \in roster[Host] : e.who = c => e \in sent[h]
    BY <1>1, <1>2 DEF SeatFits, Seated
  <1> HIDE DEF s, p, h, q, P, R
  <1>9. conn[c] = "loaded" => Within(s, tick[c], h)
    BY <1>2 DEF ParkFits, s, h
  <1>10. conn[c] = "loaded" => Within(Tail(s), tick[c], h)
    BY <1>1, <1>3, <1>9, OrderTail
  <1>11. ASSUME pending'[c] = P, roster'[c] = R, p.type # "list" PROVE SeatFits(c)'
    <2>1. LatestIs(Tail(s), P, R, h - 1, sent[h])
      BY <1>1, <1>3, <1>5, <1>11, LatestTail DEF p
    <2>2. QED
      BY <1>1, <1>5, <1>7, <1>8, <1>11, <2>1 DEF SeatFits
  <1>12. ASSUME HandleObjectsList(c) \/ HandleTick(c) PROVE RunFits(c)'
    <2>1. p.type \in {"objects", "tick"}
      BY <1>1, <1>12 DEF HandleObjectsList, HandleTick, ClientReceives
    <2>2. /\ tick' = tick /\ paused' = paused /\ roster' = roster /\ queue' = queue /\ conn' = conn
          /\ pending' = pending
      BY <1>12 DEF HandleObjectsList, HandleTick
    <2>3. MapsFit(Tail(s), P, R, h, sent)
      BY <1>1, <1>2, <1>3, <2>1, MapsHandled DEF p
    <2>4. QueueFits(Tail(s), q, h, sent)
      BY <1>1, <1>2, <1>3, <2>1, QueueHandled DEF p
    <2>5. ParkFits(c)'
      BY <1>1, <1>2, <1>7, <1>10, <2>2 DEF ParkFits, h
    <2>6. SeatFits(c)'
      BY <1>11, <2>1, <2>2 DEF P, R
    <2>7. QED
      BY <1>1, <1>7, <2>2, <2>3, <2>4, <2>5, <2>6 DEF RunFits, q, P, R
  <1>13. ASSUME HandleBeginMap(c) PROVE RunFits(c)'
    <2>1. p.type = "beginMap" /\ queue'[c] = <<>>
      BY <1>1, <1>13 DEF HandleBeginMap, ClientReceives, Typed
    <2>2. tick' = tick /\ paused' = paused /\ roster' = roster /\ conn' = conn /\ pending' = pending
      BY <1>13 DEF HandleBeginMap
    <2>3. MapsFit(Tail(s), P, R, h, sent)
      BY <1>1, <1>2, <1>3, <2>1, MapsHandled DEF p
    <2>4. QueueFits(Tail(s), <<>>, h, sent)
      BY <1>1, <1>2, <1>3, QueueHandled
    <2>5. ParkFits(c)'
      <3>1. 1 .. Len(<<>>) = {}
        OBVIOUS
      <3>2. QED
        BY <1>1, <1>2, <1>7, <1>10, <2>1, <2>2, <3>1 DEF ParkFits, h
    <2>6. SeatFits(c)'
      BY <1>11, <2>1, <2>2 DEF P, R
    <2>7. QED
      BY <1>1, <1>7, <2>1, <2>2, <2>3, <2>4, <2>5, <2>6 DEF RunFits, P, R
  <1>14. ASSUME HandlePlayerList(c) PROVE RunFits(c)'
    <2>1. p.type = "list" /\ pending'[c] = WithList(P, p)
      BY <1>1, <1>14 DEF HandlePlayerList, ClientReceives, WithList, Typed, P
    <2>2. tick' = tick /\ paused' = paused /\ roster' = roster /\ queue' = queue /\ conn' = conn
      BY <1>14 DEF HandlePlayerList
    <2>3. Ticked(p) /\ TickOf(p) = p.tick
      BY <2>1 DEF Ticked, TickOf
    <2>4. \A l \in P : l.tick <= p.tick
      BY <1>1, <1>3, <1>4, <2>3, OrderTail DEF p
    <2>5. MapsFit(Tail(s), WithList(P, p), R, h, sent)
      BY <1>1, <1>2, <1>3, <1>4, <2>1, <2>4, MapsReceived DEF p
    <2>6. QueueFits(Tail(s), q, h, sent)
      BY <1>1, <1>2, <1>3, <2>1, QueueHandled DEF p
    <2>7. LatestIs(Tail(s), WithList(P, p), R, h - 1, sent[h])
      BY <1>1, <1>3, <1>4, <1>5, <1>6, <2>1, <2>4, LatestReceived DEF p
    <2>8. ParkFits(c)'
      BY <1>1, <1>2, <1>7, <1>10, <2>2 DEF ParkFits, h
    <2>9. SeatFits(c)'
      BY <1>1, <1>5, <1>7, <1>8, <2>1, <2>2, <2>7 DEF SeatFits, R
    <2>10. QED
      BY <1>1, <1>7, <2>1, <2>2, <2>5, <2>6, <2>8, <2>9 DEF RunFits, q, R
  <1>15. ASSUME HandleRelayedAction(c) PROVE RunFits(c)'
    <2> DEFINE a == p.action
               x == Append(q, a)
    <2>1. p.type = "action" /\ queue'[c] = x
      BY <1>1, <1>15 DEF HandleRelayedAction, ClientReceives, Typed, q
    <2>2. tick' = tick /\ paused' = paused /\ roster' = roster /\ conn' = conn /\ pending' = pending
      BY <1>15 DEF HandleRelayedAction
    <2>3. MapsFit(Tail(s), P, R, h, sent)
      BY <1>1, <1>2, <1>3, <2>1, MapsHandled DEF p
    <2>4. QueueFits(Tail(s), x, h, sent)
      BY <1>1, <1>2, <1>3, <1>4, <2>1, QueueReceived DEF p
    <2>5. Ticked(p) /\ a \in Action /\ TickOf(p) = a.tick
      BY <1>1, <2>1, TickOfType DEF Ticked
    <2>6. ParkFits(c)'
      <3>1. ASSUME conn[c] = "loaded"
            PROVE  \A i \in 1 .. Len(x) : tick[c] <= x[i].tick
        <4>1. tick[c] <= a.tick
          BY <1>1, <1>3, <1>9, <2>5, <3>1, OrderTail DEF p
        <4>2. \A i \in 1 .. Len(x) : (i \in 1 .. Len(q) /\ x[i] = q[i]) \/ x[i] = a
          BY <1>3, <2>5
        <4> HIDE DEF x, a
        <4>3. \A i \in 1 .. Len(q) : tick[c] <= q[i].tick
          BY <1>2, <3>1 DEF ParkFits, q
        <4>4. QED
          BY <4>1, <4>2, <4>3
      <3> HIDE DEF x
      <3>2. QED
        BY <1>1, <1>2, <1>7, <1>10, <2>1, <2>2, <3>1 DEF ParkFits, h
    <2>7. SeatFits(c)'
      BY <1>11, <2>1, <2>2 DEF P, R
    <2> HIDE DEF x
    <2>8. QED
      BY <1>1, <1>7, <2>1, <2>2, <2>3, <2>4, <2>6, <2>7 DEF RunFits, P, R
  <1>16. ASSUME HandleMap(c) PROVE RunFits(c)'
    <2> DEFINE u == p.tick
    <2>1. /\ p.type = "map" /\ tick'[c] = u /\ InstallLists(c, u) /\ conn'[c] = "loaded"
          /\ paused'[c] = p.paused /\ queue' = queue
      BY <1>1, <1>16 DEF HandleMap, ClientReceives, Typed
    <2>2. u \in Nat /\ Ticked(p) /\ TickOf(p) = u
      BY <1>1, <2>1, TickOfType DEF Ticked
    <2>3. pending'[c] = Kept(P, u) /\ roster'[c] = Installed(P, R, u)
      BY <2>1, <2>2, InstallType DEF Typed, P, R
    <2>4. q = <<>> /\ QueueFits(Tail(s), q, h, sent)
      BY <1>1, <1>2, <1>3, <2>1, QueueHandled DEF p
    <2>5. MapsFit(Tail(s), Kept(P, u), Installed(P, R, u), h, sent)
      <3>1. MapsFit(Tail(s), P, R, h, sent)
        BY <1>1, <1>2, <1>3, <2>1, MapsHandled DEF p
      <3>2. QED
        BY <1>3, <2>2, <3>1, MapsInstalled
    <2>6. LatestIs(Tail(s), Kept(P, u), Installed(P, R, u), h - 1, sent[h])
      <3>1. LatestIs(Tail(s), P, R, h - 1, sent[h])
        BY <1>1, <1>3, <1>5, <2>1, LatestTail DEF p
      <3>2. QED
        BY <1>3, <1>6, <2>2, <3>1, LatestInstalled
    <2>7. Installed(P, R, u) = sent[u]
      BY <1>1, <1>2, <1>3, <1>4, <2>1, MapLoads DEF p
    <2>8. 1 <= u /\ ~p.paused
      <3>1. p = s[1] /\ 1 \in 1 .. Len(s)
        BY <1>1, <1>3, TailAt DEF p
      <3>2. QED
        BY <1>2, <2>1, <2>2, <3>1 DEF MapsFit, MapFits
    <2>9. Within(Tail(s), u, h) /\ u <= h
      BY <1>1, <1>3, <1>4, <2>2, OrderTail DEF p
    <2>10. ParkFits(c)'
      <3>1. 1 .. Len(<<>>) = {} /\ queue'[c] = <<>>
        BY <2>1, <2>4 DEF q
      <3> HIDE DEF u
      <3>2. QED
        BY <1>1, <1>7, <2>1, <2>3, <2>7, <2>8, <2>9, <3>1 DEF ParkFits
    <2>11. SeatFits(c)'
      BY <1>1, <1>5, <1>7, <1>8, <2>3, <2>6 DEF SeatFits
    <2>12. QED
      BY <1>1, <1>7, <2>1, <2>3, <2>4, <2>5, <2>10, <2>11 DEF RunFits, q
  <1>17. QED
    BY <1>12, <1>13, <1>14, <1>15, <1>16


\* The host accepts the connection.
LEMMA RunJoin ==
  ASSUME Typed, HostFits, NEW c \in Client, SideInv(c), RunFits(c), Join(c)
  PROVE  RunFits(c)'
  <1> USE Machines DEF thread, park, server, network, client, bounds
  <1> DEFINE p == [type |-> "objects"]
  <1>1. /\ Channel(c) = <<>> /\ toHost[c] = <<>> /\ pending[c] = {} /\ pc[c] = "poll"
        /\ queue[c] = <<>>
    BY DEF Join, SideInv, NewFits, ThreadFits, RunFits
  <1>2. toClient[c] = <<>> /\ outbox[c] = <<>>
    BY <1>1, SideTypes DEF Channel
  <1>3. /\ conn'[c] = "joining" /\ pc' = pc /\ toHost' = toHost /\ pending' = pending
        /\ queue' = queue /\ toClient' = toClient /\ outbox'[c] = <<p>>
    BY <1>2 DEF Join, Typed
  <1>4. Channel(c)' = <<p>>
    <2> HIDE DEF p
    <2>1. Channel(c)' = <<>> \o <<p>>
      BY <1>2, <1>3 DEF Channel
    <2>2. QED
      BY <2>1
  <1>5. ~Seated(c)'
    BY <1>1, <1>2, <1>3 DEF Seated
  <1>6. \A i \in 1 .. Len(<<p>>) : <<p>>[i].type = "objects"
    OBVIOUS
  <1>7. 1 .. Len(<<>>) = {}
    OBVIOUS
  <1> HIDE DEF p
  <1>8. MapsFit(Channel(c), pending[c], roster[c], tick[Host], sent)'
    BY <1>1, <1>3, <1>4, <1>6 DEF MapsFit
  <1>9. QueueFits(Channel(c), queue[c], tick[Host], sent)'
    BY <1>1, <1>3, <1>4, <1>6, <1>7 DEF QueueFits, Announced
  <1>10. ParkFits(c)' /\ SeatFits(c)'
    BY <1>1, <1>3, <1>5 DEF ParkFits, SeatFits
  <1>11. QED
    BY <1>3, <1>8, <1>9, <1>10 DEF RunFits

\* The host sends its park.
LEMMA RunMapRequest ==
  ASSUME Typed, HostFits, NEW c \in Client, SideInv(c), RunFits(c), ~paused[Host], HandleMapRequest(c)
  PROVE  RunFits(c)'
  <1> USE Machines DEF thread, park, server, network, client, bounds
  <1> DEFINE s == Channel(c)
             h == tick[Host]
             q == queue[c]
             P == pending[c]
             R == roster[c]
             b == [type |-> "beginMap"]
             p == [type |-> "map", tick |-> h, paused |-> paused[Host]]
  <1>1. c \in Connected /\ toHost[c] # <<>> /\ toHost'[c] = Tail(toHost[c])
    BY DEF HandleMapRequest, HostReceives, Typed
  <1>2. /\ conn' = conn /\ pc' = pc /\ frame' = frame /\ pending' = pending
        /\ tick' = tick /\ queue' = queue /\ paused' = paused
        /\ toClient' = toClient /\ outbox'[c] = outbox[c] \o <<b, p>>
        /\ roster' = roster /\ sent' = sent
    BY DEF HandleMapRequest, Typed
  <1>3. /\ b \in ClientPacket /\ b.type # "list" /\ b.type # "map" /\ b.type # "action" /\ ~Ticked(b)
        /\ b.type = "beginMap"
        /\ p \in ClientPacket /\ p.type = "map" /\ p.tick = h /\ ~p.paused /\ TickOf(p) = h
    BY DEF ClientPacket, Ticked, TickOf, Typed
  <1>4. /\ s \in Seq(ClientPacket) /\ P \in SUBSET ListT /\ h \in Nat /\ sent \in Seq(Roster)
        /\ Len(sent) = h /\ q \in Seq(Action) /\ tick[c] \in Nat
    BY SideTypes DEF HostFits, Typed
  <1>5. /\ ParkFits(c) /\ SeatFits(c) /\ MapsFit(s, P, R, h, sent) /\ QueueFits(s, q, h, sent)
    BY <1>1 DEF RunFits
  <1>6. /\ h >= 1 /\ LatestIs(s, P, R, h - 1, sent[h])
        /\ \A e \in roster[Host] : e.who = c => e \in sent[h]
    BY <1>1, <1>5 DEF SeatFits, Seated
  <1> HIDE DEF b, p
  <1>7. Channel(c)' = Append(Append(s, b), p)
    <2>1. outbox[c] \o <<b, p>> = Append(Append(outbox[c], b), p)
      BY <1>3, SideTypes
    <2>2. Append(outbox[c], b) \in Seq(ClientPacket)
      BY <1>3, SideTypes
    <2>3. toClient[c] \o Append(Append(outbox[c], b), p) = Append(toClient[c] \o Append(outbox[c], b), p)
      BY <1>3, <2>2, SideTypes, ChannelAppend
    <2>4. toClient[c] \o Append(outbox[c], b) = Append(s, b)
      BY <1>3, SideTypes, ChannelAppend DEF Channel
    <2>5. QED
      BY <1>2, <2>1, <2>3, <2>4 DEF Channel
  <1> HIDE DEF s, h, q, P, R
  <1> DEFINE r == Append(s, b)
  <1>8. r \in Seq(ClientPacket) /\ r # <<>> /\ r[Len(r)] = b
    BY <1>3, <1>4, AppendAt
  <1>9. \A t, L : LatestIs(s, P, R, t, L) => LatestIs(r, P, R, t, L)
    BY <1>3, <1>4, LatestAppend
  <1>10. MapsFit(r, P, R, h, sent)
    BY <1>3, <1>4, <1>5, MapsAppend
  <1>11. QueueFits(r, q, h, sent)
    <2>1. Len(sent) <= h
      BY <1>4
    <2>2. QED
      BY <1>3, <1>4, <1>5, <2>1, QueueAppend
  <1>12. conn[c] = "loaded" => Within(r, tick[c], h) /\ tick[c] <= h
    BY <1>3, <1>4, <1>5, OrderAppend DEF ParkFits, s, h
  <1> HIDE DEF r
  <1>13. MapsFit(Append(r, p), P, R, h, sent)
    BY <1>3, <1>4, <1>6, <1>8, <1>9, <1>10, MapsSent
  <1>14. QueueFits(Append(r, p), q, h, sent)
    <2>1. Len(sent) <= h /\ p.type # "action"
      BY <1>3, <1>4
    <2>2. Ticked(p) => TickOf(p) \in Nat /\ TickOf(p) <= h
      BY <1>3, <1>4
    <2>3. \A i \in 1 .. Len(q) : Ticked(p) => q[i].tick <= TickOf(p)
      BY <1>3, <1>4, <1>5, MeantBy DEF QueueFits
    <2>4. QED
      BY <1>3, <1>4, <1>8, <1>11, <2>1, <2>2, <2>3, QueueAppend
  <1>15. LatestIs(Append(r, p), P, R, h - 1, sent[h])
    BY <1>3, <1>6, <1>8, <1>9, LatestAppend
  <1>16. conn[c] = "loaded" => Within(Append(r, p), tick[c], h)
    BY <1>3, <1>4, <1>8, <1>12, OrderAppend
  <1>17. Channel(c)' = Append(r, p)
    BY <1>7 DEF r
  <1>18. ParkFits(c)'
    BY <1>2, <1>5, <1>16, <1>17 DEF ParkFits, h
  <1>19. SeatFits(c)'
    BY <1>2, <1>6, <1>15, <1>17 DEF SeatFits, P, R, h
  <1>20. QED
    BY <1>1, <1>2, <1>13, <1>14, <1>17, <1>18, <1>19 DEF RunFits, P, R, q, h, Connected

\* Whatever happens to one connection of a host that runs.
LEMMA RunStep ==
  ASSUME Typed, HostFits, HostRunFits, NEW c \in Client, SideInv(c), RunFits(c), [Next]_vars
  PROVE  RunFits(c)'
  <1> USE Machines DEF thread, park, server, network, client, bounds
  <1>0. ~paused[Host] /\ frame[Host] = "update"
    BY DEF HostRunFits
  <1>1. CASE UNCHANGED vars
    <2>1. RunSameFor(c) /\ Channel(c)' = Channel(c) /\ Seated(c)' = Seated(c)
      BY <1>1 DEF vars, RunSameFor, Channel, Seated
    <2>2. QED
      BY <2>1, RunSame
  <1>2. CASE HostUpdates \/ HostPauses
    <2>1. RunSameFor(c) /\ roster' = roster /\ toClient' = toClient /\ toHost' = toHost
          /\ outbox' = WithPacket(outbox, Connected, TickPacket)
      BY <1>0, <1>2 DEF HostUpdates, HostPauses, RunSameFor, Typed
    <2>2. TickPacket \in ClientPacket /\ TickPacket.type = "tick" /\ TickOf(TickPacket) = tick[Host]
      BY TickPacketType DEF TickPacket, TickOf
    <2>3. QED
      BY <2>1, <2>2, RunSent
  <1>3. CASE HostEndsPausedFrame
    BY <1>0, <1>3 DEF HostEndsPausedFrame
  <1>4. CASE Execute(Host)
    <2> DEFINE a == Head(queue[Host])
               b == [a EXCEPT !.tick = tick[Host]]
               packet == [type |-> "action", action |-> b]
    <2>1. a \in Action /\ ~a.toggle /\ HostListed(Author(a))
      <3>1. queue[Host] \in Seq(Action) /\ queue[Host] # <<>>
        BY <1>4 DEF Execute, Due, Typed
      <3>2. a = queue[Host][1] /\ 1 \in 1 .. Len(queue[Host]) /\ a \in Action
        BY <3>1
      <3>3. QED
        BY <3>2 DEF HostRunFits
    <2>2. b \in Action /\ b.tick = tick[Host] /\ ~b.toggle /\ Author(b) = Author(a)
      BY <2>1 DEF Action, Author, Typed
    <2>3. outbox' = WithPacket(outbox, Connected, packet) /\ toClient' = toClient /\ toHost' = toHost
          /\ roster' = roster /\ RunSameFor(c)
      BY <1>4 DEF Execute, RunSameFor, Typed
    <2> HIDE DEF a, b
    <2>4. packet \in ClientPacket /\ packet.type = "action" /\ TickOf(packet) = tick[Host]
          /\ packet.action = b
      BY <2>2 DEF ClientPacket, TickOf
    <2> HIDE DEF packet
    <2>5. Meant(b, sent)
      <3>1. tick[Host] \in Nat /\ Len(sent) = tick[Host]
        BY DEF Typed, HostFits
      <3>2. QED
        BY <2>1, <2>2, <3>1 DEF Meant, HostListed
    <2>6. QED
      BY <2>3, <2>4, <2>5, RunSent
  <1>5. CASE EndQueue(Host)
    <2>1. RunSameFor(c) /\ Channel(c)' = Channel(c) /\ Seated(c)' = Seated(c)
      BY <1>5 DEF EndQueue, Go, RunSameFor, Channel, Seated, Typed
    <2>2. QED
      BY <2>1, RunSame
  <1>6. CASE HostPostTick
    BY <1>0, <1>6, RunPostTick
  <1>7. CASE \E toggle \in BOOLEAN : HostIssues(toggle)
    <2>1. RunSameFor(c) /\ Channel(c)' = Channel(c) /\ Seated(c)' = Seated(c)
      BY <1>7 DEF HostIssues, RunSameFor, Channel, Seated, Typed
    <2>2. QED
      BY <2>1, RunSame
  <1>8. ASSUME NEW d \in Client, d # c,
               \/ ClientRuns(d)
               \/ HandleObjectsList(d) \/ HandleBeginMap(d) \/ HandleMap(d)
               \/ HandleTick(d) \/ HandlePlayerList(d) \/ HandleRelayedAction(d)
               \/ Join(d) \/ HandleMapRequest(d) \/ HandleClientAction(d)
               \/ Disconnect(d) \/ ClientIssues(d)
        PROVE  RunFits(c)'
    <2>1. RunSameFor(c) /\ toHost'[c] = toHost[c]
      <3>1. CASE ClientRuns(d)
        <4>1. CASE ClientGoesOn(d) \/ Execute(d) \/ EndQueue(d)
          BY <1>8, <4>1 DEF ClientGoesOn, Execute, EndQueue, Go, RunSameFor, Typed
        <4>2. CASE OldParkPostTick(d)
          BY <1>8, <4>2, InstallOthers DEF OldParkPostTick, RunSameFor
        <4>3. CASE ClientPostTick(d)
          <5>1. /\ roster'[c] = roster[c] /\ roster'[Host] = roster[Host] /\ pending'[c] = pending[c]
            BY <1>8, <4>3, InstallOthers DEF ClientPostTick
          <5>2. QED
            BY <1>8, <4>3, <5>1 DEF ClientPostTick, RunSameFor, Typed
        <4>4. QED
          BY <3>1, <4>1, <4>2, <4>3 DEF ClientRuns
      <3>2. CASE \/ HandleObjectsList(d) \/ HandleBeginMap(d) \/ HandleMap(d)
                 \/ HandleTick(d) \/ HandlePlayerList(d) \/ HandleRelayedAction(d)
        <4>1. CASE HandleMap(d)
          <5>1. /\ roster'[c] = roster[c] /\ roster'[Host] = roster[Host] /\ pending'[c] = pending[c]
            BY <1>8, <4>1, InstallOthers DEF HandleMap
          <5>2. QED
            BY <1>8, <4>1, <5>1 DEF HandleMap, RunSameFor, Typed
        <4>2. CASE ~HandleMap(d)
          BY <1>8, <3>2, <4>2 DEF HandleObjectsList, HandleBeginMap, HandleTick, HandlePlayerList,
                    HandleRelayedAction, RunSameFor, Typed
        <4>3. QED
          BY <4>1, <4>2
      <3>3. CASE Join(d)
        BY <1>8, <3>3 DEF Join, RunSameFor, Typed
      <3>4. CASE HandleMapRequest(d) \/ HandleClientAction(d) \/ Disconnect(d) \/ ClientIssues(d)
        BY <1>8, <3>4 DEF HandleMapRequest, HandleClientAction, Disconnect, ClientIssues, HostReceives,
                  RunSameFor, Typed
      <3>5. QED
        BY <1>8, <3>1, <3>2, <3>3, <3>4
    <2>2. toClient'[c] = toClient[c] /\ outbox'[c] = outbox[c]
      BY <1>8 DEF ClientRuns, ClientGoesOn, OldParkPostTick, Execute, EndQueue, ClientPostTick,
                  HandleObjectsList, HandleBeginMap, HandleMap, HandleTick, HandlePlayerList,
                  HandleRelayedAction, ClientReceives, Join, HandleMapRequest, HandleClientAction,
                  Disconnect, ClientIssues, Typed
    <2>3. Channel(c)' = Channel(c) /\ Seated(c)' = Seated(c)
      BY <2>1, <2>2 DEF Channel, Seated, RunSameFor
    <2>4. QED
      BY <2>1, <2>3, RunSame
  <1>9. ASSUME ClientRuns(c) PROVE RunFits(c)'
    BY <1>9, RunFrame
  <1>10. ASSUME \/ HandleObjectsList(c) \/ HandleBeginMap(c) \/ HandleMap(c)
                \/ HandleTick(c) \/ HandlePlayerList(c) \/ HandleRelayedAction(c)
         PROVE  RunFits(c)'
    BY <1>10, RunHandler
  <1>11. ASSUME Join(c) \/ HandleMapRequest(c) PROVE RunFits(c)'
    BY <1>0, <1>11, RunJoin, RunMapRequest
  <1>12. ASSUME HandleClientAction(c) \/ Disconnect(c) \/ ClientIssues(c) PROVE RunFits(c)'
    <2>1. RunSameFor(c) /\ Channel(c)' = Channel(c)
      BY <1>12 DEF HandleClientAction, Disconnect, ClientIssues, RunSameFor, Channel, Typed
    <2>2. Seated(c)' => Seated(c)
      BY <1>12 DEF HandleClientAction, Disconnect, ClientIssues, HostReceives, Seated
    <2>3. QED
      BY <2>1, <2>2, RunSame
  <1>13. CASE HostRuns
    BY <1>2, <1>3, <1>4, <1>5, <1>6, <1>13 DEF HostRuns
  <1>14. ASSUME NEW d \in Client,
                \/ ClientRuns(d)
                \/ HandleObjectsList(d) \/ HandleBeginMap(d) \/ HandleMap(d)
                \/ HandleTick(d) \/ HandlePlayerList(d) \/ HandleRelayedAction(d)
                \/ Join(d) \/ HandleMapRequest(d) \/ HandleClientAction(d)
                \/ Disconnect(d) \/ ClientIssues(d)
         PROVE  RunFits(c)'
    <2>1. CASE d # c
      BY <1>8, <1>14, <2>1
    <2>2. CASE d = c
      BY <1>9, <1>10, <1>11, <1>12, <1>14, <2>2
    <2>3. QED
      BY <2>1, <2>2
  <1>15. QED
    BY <1>1, <1>7, <1>13, <1>14 DEF Next


\* The list of the host after a step that does not end its tick.
LEMMA ListedStays ==
  ASSUME NEW e, HostListed(e), tick'[Host] = tick[Host], sent' = sent,
         \A p \in roster[Host] : p \in roster'[Host]
  PROVE  HostListed(e)'
  BY DEF HostListed

\* The host enqueues an action of an author it knows.
LEMMA Enqueued ==
  ASSUME NEW a, ~a.toggle, HostListed(Author(a)), HostRunFits, queue[Host] \in Seq(Action),
         queue'[Host] = Append(queue[Host], a), pc[Host] = "poll", pc' = pc, frame' = frame,
         paused' = paused, tick' = tick, sent' = sent, roster' = roster
  PROVE  HostRunFits'
  <1> DEFINE q == queue[Host]
             x == Append(q, a)
  <1>1. \A i \in 1 .. Len(x) : (i \in 1 .. Len(q) /\ x[i] = q[i]) \/ x[i] = a
    OBVIOUS
  <1> HIDE DEF x
  <1>2. \A i \in 1 .. Len(x) : ~x[i].toggle /\ HostListed(Author(x[i]))
    BY <1>1 DEF HostRunFits
  <1>3. queue'[Host] = x
    BY DEF x
  <1>4. QED
    BY <1>2, <1>3 DEF HostRunFits, HostListed, Author, HostEntry

\* Nobody takes a pause back.
LEMMA ToggledStays ==
  ASSUME Typed, [Next]_vars, toggled' = 0
  PROVE  toggled = 0
  <1> USE DEF thread, park, server, network, client, bounds
  <1>1. CASE UNCHANGED vars
    BY <1>1 DEF vars
  <1>2. CASE HostRuns
    BY <1>2 DEF HostRuns, HostUpdates, HostPauses, HostEndsPausedFrame, Execute, EndQueue, HostPostTick
  <1>3. CASE \E toggle \in BOOLEAN : HostIssues(toggle)
    <2>1. toggled \in Nat
      BY PlayersAssumption DEF Typed
    <2>2. QED
      BY <1>3, <2>1 DEF HostIssues
  <1>4. ASSUME NEW d \in Client,
               \/ ClientRuns(d)
               \/ HandleObjectsList(d) \/ HandleBeginMap(d) \/ HandleMap(d)
               \/ HandleTick(d) \/ HandlePlayerList(d) \/ HandleRelayedAction(d)
               \/ Join(d) \/ HandleMapRequest(d) \/ HandleClientAction(d)
               \/ Disconnect(d) \/ ClientIssues(d)
        PROVE  toggled = 0
    BY <1>4 DEF ClientRuns, ClientGoesOn, OldParkPostTick, Execute, EndQueue, ClientPostTick,
                HandleObjectsList, HandleBeginMap, HandleMap, HandleTick, HandlePlayerList,
                HandleRelayedAction, Join, HandleMapRequest, HandleClientAction,
                Disconnect, ClientIssues
  <1>5. QED
    BY <1>1, <1>2, <1>3, <1>4 DEF Next

\* The host itself, until somebody asks for a pause.
LEMMA HostRunStep ==
  ASSUME Typed, HostFits, RunInv, [Next]_vars, toggled = 0, toggled' = 0
  PROVE  HostRunFits'
  <1> USE Machines DEF thread, park, server, network, client, bounds
  <1>1. /\ ~paused[Host] /\ frame[Host] = "update" /\ HostListed(HostEntry)
        /\ pc[Host] = "post" => queue[Host] = <<>>
        /\ \A i \in 1 .. Len(queue[Host]) : ~queue[Host][i].toggle /\ HostListed(Author(queue[Host][i]))
    BY DEF RunInv, HostRunFits
  <1>2. /\ tick[Host] \in Nat /\ Len(sent) = tick[Host] /\ sent \in Seq(Roster)
        /\ queue[Host] \in Seq(Action)
    BY DEF Typed, HostFits
  \* A step that leaves the host's frame and queue alone.
  <1>3. ASSUME /\ paused'[Host] = paused[Host] /\ frame'[Host] = frame[Host] /\ queue'[Host] = queue[Host]
               /\ pc'[Host] = pc[Host] \/ pc'[Host] # "post"
               /\ tick'[Host] = tick[Host] /\ sent' = sent
               /\ \A p \in roster[Host] : p \in roster'[Host]
        PROVE  HostRunFits'
    <2>1. \A e : HostListed(e) => HostListed(e)'
      BY <1>3, ListedStays
    <2>2. HostListed(HostEntry)'
      BY <1>1, <2>1 DEF HostEntry
    <2>3. \A i \in 1 .. Len(queue'[Host]) :
             ~queue'[Host][i].toggle /\ HostListed(Author(queue[Host][i]))'
      BY <1>1, <1>3, <2>1 DEF HostListed, Author
    <2>4. QED
      BY <1>1, <1>3, <2>2, <2>3 DEF HostRunFits, HostListed, Author
  <1>4. CASE UNCHANGED vars
    BY <1>3, <1>4 DEF vars
  <1>5. CASE HostUpdates
    BY <1>3, <1>5 DEF HostUpdates, Typed
  <1>6. CASE HostPauses \/ HostEndsPausedFrame
    BY <1>1, <1>6 DEF HostPauses, HostEndsPausedFrame
  <1>7. CASE Execute(Host)
    <2> DEFINE q == queue[Host]
               x == Tail(q)
    <2>1. pc[Host] = "queue" /\ q # <<>> /\ queue'[Host] = x /\ pc' = pc /\ frame' = frame
          /\ tick' = tick /\ sent' = sent /\ roster' = roster
      BY <1>7 DEF Execute, Due, Typed
    <2>2. /\ \A i \in 1 .. Len(x) : i + 1 \in 1 .. Len(q) /\ x[i] = q[i + 1]
          /\ Head(q) = q[1] /\ 1 \in 1 .. Len(q)
      BY <1>2, <2>1
    <2>3. paused'[Host] = paused[Host]
      <3>1. ~Head(queue[Host]).toggle
        BY <1>1, <2>2
      <3>2. paused' = [paused EXCEPT ![Host] = IF Head(queue[Host]).toggle THEN ~@ ELSE @]
        BY <1>7 DEF Execute
      <3>3. QED
        BY <3>1, <3>2 DEF Typed
    <2> HIDE DEF x
    <2>4. \A i \in 1 .. Len(x) : ~x[i].toggle /\ HostListed(Author(x[i]))
      BY <1>1, <2>2
    <2>5. QED
      BY <1>1, <2>1, <2>3, <2>4 DEF HostRunFits, HostListed, Author, HostEntry
  <1>8. CASE EndQueue(Host)
    <2>1. queue[Host] = <<>> /\ pc'[Host] = "post" /\ frame'[Host] = "update" /\ queue' = queue
          /\ paused' = paused /\ tick' = tick /\ sent' = sent /\ roster' = roster
      BY <1>1, <1>8 DEF EndQueue, Due, Go, Typed
    <2>2. QED
      BY <1>1, <2>1 DEF HostRunFits, HostListed, HostEntry
  <1>9. CASE HostPostTick
    <2>1. Host \notin leaving
      BY PlayersAssumption DEF Typed
    <2>2. frame'[Host] = "update" /\ ~paused'[Host] /\ queue'[Host] = <<>>
      BY <1>1, <1>9, <2>1 DEF HostPostTick, Closed, Typed
    <2>3. sent' = Append(sent, StayList) /\ tick'[Host] = tick[Host] + 1 /\ roster'[Host] = StayList
      <3>1. sent' = Append(sent, StayList) /\ tick' = [Closed(tick, 0) EXCEPT ![Host] = @ + 1]
            /\ roster' = [Closed(roster, {}) EXCEPT ![Host] = StayList]
        BY <1>1, <1>9 DEF HostPostTick, StayList
      <3>2. /\ DOMAIN Closed(tick, 0) = Machine /\ Closed(tick, 0)[Host] = tick[Host]
            /\ DOMAIN Closed(roster, {}) = Machine
        BY <2>1 DEF Closed, Typed
      <3>3. QED
        BY <3>1, <3>2
    <2>4. HostEntry \in StayList
      BY <1>1, <2>1 DEF HostListed, HostEntry, StayList
    <2>5. StayList \in Roster
      BY DEF StayList, Typed, Roster
    <2>6. sent'[tick'[Host]] = StayList
      BY <1>2, <2>3, <2>5
    <2>7. 1 .. Len(<<>>) = {}
      OBVIOUS
    <2>8. QED
      BY <2>2, <2>3, <2>4, <2>6, <2>7 DEF HostRunFits, HostListed, HostEntry
  <1>10. ASSUME NEW toggle \in BOOLEAN, HostIssues(toggle) PROVE HostRunFits'
    <2> DEFINE a == [tick |-> tick[Host], id |-> HostId, who |-> Host, toggle |-> toggle]
    <2>1. ~toggle
      BY <1>10 DEF HostIssues
    <2>2. queue'[Host] = Append(queue[Host], a) /\ pc[Host] = "poll" /\ pc' = pc /\ frame' = frame
          /\ paused' = paused /\ tick' = tick /\ sent' = sent /\ roster' = roster
      BY <1>10 DEF HostIssues, Typed
    <2>3. Author(a) = HostEntry /\ ~a.toggle
      BY <2>1 DEF Author, HostEntry
    <2>4. HostListed(Author(a)) /\ HostRunFits
      BY <1>1, <2>3 DEF RunInv
    <2> HIDE DEF a
    <2>5. QED
      BY <1>2, <2>2, <2>3, <2>4, Enqueued
  <1>11. ASSUME NEW d \in Client, HandleClientAction(d) PROVE HostRunFits'
    <2> DEFINE e == CHOOSE p \in roster[Host] : p.who = d
               a == [tick |-> Head(toHost[d]).tick, id |-> IdOf(d, roster[Host]), who |-> d, toggle |-> FALSE]
    <2>1. d \in Connected /\ toHost[d] # <<>>
      BY <1>11 DEF HandleClientAction, HostReceives
    <2>2. e \in roster[Host] /\ e.who = d
      BY <2>1 DEF HostFits
    <2>3. tick[Host] >= 1 => e \in sent[tick[Host]]
      BY <2>1, <2>2 DEF RunInv, RunFits, SeatFits, Seated
    <2>4. Author(a) = e /\ ~a.toggle
      <3>1. IdOf(d, roster[Host]) = e.id
        BY DEF IdOf
      <3>2. e \in [id : Ids, who : Machine]
        BY <2>2 DEF Typed, Roster
      <3>3. e = [id |-> e.id, who |-> e.who]
        <4> HIDE DEF e
        <4>1. QED
          BY <3>2
      <3>4. QED
        BY <2>2, <3>1, <3>3 DEF Author
    <2>5. queue'[Host] = Append(queue[Host], a) /\ pc[Host] = "poll" /\ pc' = pc /\ frame' = frame
          /\ paused' = paused /\ tick' = tick /\ sent' = sent /\ roster' = roster
      BY <1>11 DEF HandleClientAction, HostReceives, Typed
    <2>6. HostListed(Author(a))
      BY <2>2, <2>3, <2>4 DEF HostListed
    <2> HIDE DEF a
    <2>7. HostRunFits
      BY DEF RunInv
    <2>8. QED
      BY <1>2, <2>4, <2>5, <2>6, <2>7, Enqueued
  <1>12. ASSUME NEW d \in Client,
                \/ ClientRuns(d)
                \/ HandleObjectsList(d) \/ HandleBeginMap(d) \/ HandleMap(d)
                \/ HandleTick(d) \/ HandlePlayerList(d) \/ HandleRelayedAction(d)
                \/ Join(d) \/ HandleMapRequest(d) \/ Disconnect(d) \/ ClientIssues(d)
         PROVE  HostRunFits'
    <2>1. /\ paused'[Host] = paused[Host] /\ frame'[Host] = frame[Host] /\ queue'[Host] = queue[Host]
          /\ pc'[Host] = pc[Host] /\ tick'[Host] = tick[Host] /\ sent' = sent
      BY <1>12 DEF ClientRuns, ClientGoesOn, OldParkPostTick, Execute, EndQueue, ClientPostTick,
                  InstallLists, Go, HandleObjectsList, HandleBeginMap, HandleMap, HandleTick,
                  HandlePlayerList, HandleRelayedAction, Join, HandleMapRequest,
                  Disconnect, ClientIssues, Typed
    <2>2. \A p \in roster[Host] : p \in roster'[Host]
      <3>1. CASE Join(d)
        BY <3>1 DEF Join, Typed
      <3>2. CASE ~Join(d)
        BY <1>12, <3>2 DEF ClientRuns, ClientGoesOn, OldParkPostTick, Execute, EndQueue, ClientPostTick,
                  InstallLists, HandleObjectsList, HandleBeginMap, HandleMap, HandleTick,
                  HandlePlayerList, HandleRelayedAction, HandleMapRequest,
                  Disconnect, ClientIssues, Typed
      <3>3. QED
        BY <3>1, <3>2
    <2>3. QED
      BY <1>3, <2>1, <2>2
  <1>13. QED
    BY <1>4, <1>5, <1>6, <1>7, <1>8, <1>9, <1>10, <1>11, <1>12 DEF Next, HostRuns

-----------------------------------------------------------------------------
LEMMA RunInit ==
  ASSUME Init
  PROVE  RunInv
  <1>1. HostRunFits
    <2>1. 1 .. Len(<<>>) = {}
      OBVIOUS
    <2>2. QED
      BY <2>1, Machines DEF Init, HostRunFits, HostListed, HostEntry
  <1>2. \A c \in Client : RunFits(c)
    BY Machines DEF Init, RunFits, Connected
  <1>3. QED
    BY <1>1, <1>2 DEF RunInv

UntilToggled == ListsInv /\ (toggled = 0 => RunInv)

LEMMA UntilToggledStep ==
  ASSUME UntilToggled, [Next]_vars
  PROVE  UntilToggled'
  <1>1. Typed /\ HostFits /\ \A c \in Client : SideInv(c)
    BY DEF UntilToggled, ListsInv
  <1>2. ListsInv'
    BY ListsStep DEF UntilToggled
  <1>3. ASSUME toggled' = 0 PROVE RunInv'
    <2>1. toggled = 0
      BY <1>1, <1>3, ToggledStays
    <2>2. HostRunFits /\ \A c \in Client : RunFits(c)
      BY <2>1 DEF UntilToggled, RunInv
    <2>3. HostRunFits'
      BY <1>1, <1>3, <2>1, HostRunStep DEF UntilToggled
    <2>4. \A c \in Client : RunFits(c)'
      BY <1>1, <2>2, RunStep
    <2>5. QED
      BY <2>3, <2>4 DEF RunInv
  <1>4. QED
    BY <1>2, <1>3 DEF UntilToggled

LEMMA RunKnowsAuthors ==
  ASSUME ListsInv, RunInv
  PROVE  AuthorKnown
  <1>1. ASSUME NEW m \in Machine, Due(m) PROVE Author(Head(queue[m])) \in roster[m]
    <2>1. /\ queue[m] \in Seq(Action) /\ queue[m] # <<>> /\ pc[m] = "queue"
          /\ m = Host \/ Head(queue[m]).tick <= tick[m]
      BY <1>1 DEF Due, ListsInv, Typed
    <2>2. Head(queue[m]) = queue[m][1] /\ 1 \in 1 .. Len(queue[m]) /\ queue[m][1] \in Action
      BY <2>1
    <2>3. CASE m = Host
      BY <2>2, <2>3 DEF RunInv, HostRunFits, HostListed
    <2>4. CASE m # Host
      <3>1. m \in Client
        BY <2>4 DEF Machine
      <3>2. conn[m] = "loaded" /\ m \in Connected
        BY <2>1, <3>1 DEF ListsInv, SideInv, ThreadFits, Connected
      <3>3. ParkFits(m) /\ Meant(queue[m][1], sent)
        BY <2>2, <3>1, <3>2 DEF RunInv, RunFits, QueueFits
      <3>4. /\ 1 <= tick[m] /\ roster[m] = sent[tick[m]] /\ tick[m] <= queue[m][1].tick
        BY <2>2, <3>2, <3>3 DEF ParkFits
      <3>5. tick[m] \in Nat /\ queue[m][1].tick \in Nat
        BY <2>2 DEF ListsInv, Typed, Action
      <3>6. queue[m][1].tick = tick[m]
        BY <2>1, <2>2, <2>4, <3>4, <3>5
      <3>7. QED
        BY <2>2, <3>3, <3>4, <3>6 DEF Meant
    <2>5. QED
      BY <2>3, <2>4
  <1>2. QED
    BY <1>1 DEF AuthorKnown, Author

(***************************************************************************)
(* Until the host is first paused, the author of an action that is         *)
(* executed is in the list of the machine, with the id the action names,   *)
(* for any connections and ids and however many join and leave.            *)
(***************************************************************************)
THEOREM BeforeAnyPause == Spec => [](toggled = 0 => AuthorKnown)
  <1>1. Init => UntilToggled
    BY ListsInit, RunInit DEF UntilToggled
  <1>2. UntilToggled /\ [Next]_vars => UntilToggled'
    BY UntilToggledStep
  <1>3. UntilToggled => (toggled = 0 => AuthorKnown)
    BY RunKnowsAuthors DEF UntilToggled
  <1>4. QED
    BY <1>1, <1>2, <1>3, PTL DEF Spec

(***************************************************************************)
(* In a session whose host never pauses the author of every action that is *)
(* executed is known to the machine that executes it.                      *)
(***************************************************************************)
THEOREM AuthorsAreKnown ==
  ASSUME Toggles = 0
  PROVE  Spec => []AuthorKnown
  <1>1. Init => UntilToggled
    BY ListsInit, RunInit DEF UntilToggled
  <1>2. UntilToggled /\ [Next]_vars => UntilToggled'
    BY UntilToggledStep
  <1>3. UntilToggled => AuthorKnown
    <2>1. ASSUME UntilToggled PROVE AuthorKnown
      <3>1. toggled = 0
        BY <2>1 DEF UntilToggled, ListsInv, Typed
      <3>2. QED
        BY <2>1, <3>1, RunKnowsAuthors DEF UntilToggled
    <2>2. QED
      BY <2>1
  <1>4. QED
    BY <1>1, <1>2, <1>3, PTL DEF Spec

=============================================================================
