----------------------- MODULE FramePresentationProofs ----------------------
(***************************************************************************)
(* What the operations of TextureCache keep, and what FramePresentation,   *)
(* which uses them, keeps, for any set of textures, any atlas and any      *)
(* number of frames, leases and requests.                                  *)
(*                                                                         *)
(* CacheInv is kept by each operation of the cache.  Base is about the     *)
(* accounts: which frames and which leases are on their way.  RequestInv   *)
(* builds on it, and FlightInv and ReadyInv, which relate what the cache   *)
(* holds to what the atlas of the GPU holds.                               *)
(***************************************************************************)
EXTENDS FramePresentation, TLAPS, FiniteSetTheorems, SequenceTheorems

-----------------------------------------------------------------------------
(***************************************************************************)
(* The cache.                                                              *)
(***************************************************************************)
(* The invariant. *)

\* Who pins an allocation: the frames on their way that sample it, and leases.
Frames(s) == {n \in DOMAIN residency : s \in residency[n].allocations}
Leases(s) == {l \in leased : s \in assets[l]}
PinsCount == \A s \in Serial : pins[s] = Cardinality(Frames(s)) + Cardinality(Leases(s))

\* A slot is free or has one live allocation, and what waits for its pins has some.
SlotsApart ==
  /\ \A s, u \in live : alloc[s].slot = alloc[u].slot => s = u
  /\ \A s \in live : alloc[s].slot \notin free
Settled == \A s \in live \intersect retiring : pins[s] # 0

\* What is pinned is live, and what a lease pins is no text surface.
HeldLive ==
  /\ \A n \in DOMAIN residency : residency[n].allocations \subseteq live
  /\ \A l \in leased : \A s \in assets[l] : s \in live /\ alloc[s].texture \notin Surface

\* A texture's allocation is the live one that does not retire, and a lease is
\* current as long as it holds such.
ResidentsLive ==
  /\ \A t \in Texture :
       resident[t] # 0 => resident[t] \in live \ retiring /\ alloc[resident[t]].texture = t
  /\ \A s \in live \ retiring : resident[alloc[s].texture] = s
  /\ current \subseteq leased
  /\ \A l \in current : \A s \in assets[l] : resident[alloc[s].texture] = s

\* What a frame uses while it is recorded.
InUse ==
  /\ ~recording => bound = {} /\ frameLease = 0 /\ draws = {} /\ deferred = {}
  /\ bound \intersect retiring = {}
  /\ \A s \in bound : alloc[s].texture \in Surface => lastUse[alloc[s].texture] = This
  /\ frameLease # 0 => frameLease \in current
  /\ \A s \in Serial : Bound(s) <=> \E d \in draws : d.serial = s

\* What is drawn next is no older than what has been drawn.
SameImage(t, u) == t = u \/ (t \notin Surface /\ u \notin Surface /\ ImageOf[t] = ImageOf[u])
Fresh ==
  /\ \A t \in Texture : resident[t] # 0 =>
       \/ alloc[resident[t]].pixels = Picture(t)
       \/ t \notin Surface /\ ImageOf[t] \in deferred
  /\ \A i \in deferred : \E d \in draws : ShowsImage(d.serial, i)
  /\ \A d \in draws : d.since <= Picture(alloc[d.serial].texture)
  /\ \A d \in draws, t \in Texture :
       resident[t] # 0 /\ SameImage(t, alloc[d.serial].texture) => alloc[resident[t]].pixels >= d.since

\* What has come of frames is of frames that are known.
EndedKnown == \A k \in DOMAIN retirements : retirements[k].token \in DOMAIN residency

CacheInv ==
  /\ CacheTypeOK /\ PinsCount /\ SlotsApart /\ Settled /\ HeldLive /\ ResidentsLive
  /\ InUse /\ Fresh /\ EndedKnown

-----------------------------------------------------------------------------
LEMMA AllocFacts ==
  ASSUME CacheTypeOK
  PROVE  /\ Len(alloc) \in Nat /\ Serial = 1 .. Len(alloc) /\ 0 \notin Serial
         /\ \A s \in Serial : /\ alloc[s].texture \in Texture /\ alloc[s].slot \in Slot
                              /\ alloc[s].pixels \in 0 .. MaxReplaced
  <1>1. alloc \in Seq([texture : Texture, slot : Slot, pixels : 0 .. MaxReplaced])
    BY DEF CacheTypeOK, StoreTypeOK
  <1>2. Len(alloc) \in Nat /\ Serial = 1 .. Len(alloc)
    BY <1>1 DEF Serial
  <1>3. \A s \in Serial : alloc[s] \in [texture : Texture, slot : Slot, pixels : 0 .. MaxReplaced]
    BY <1>1, <1>2, ElementOfSeq
  <1>4. QED
    BY <1>2, <1>3

LEMMA ImageFacts ==
  ASSUME CacheTypeOK
  PROVE  /\ \A t \in Texture \ Surface : ImageOf[t] \in Image
         /\ \A t \in Texture : Picture(t) \in 0 .. MaxReplaced
         /\ MaxReplaced \in Nat
  BY TextureCacheAssumption DEF CacheTypeOK, StoreTypeOK, Picture

LEMMA Finite ==
  ASSUME CacheTypeOK
  PROVE  \A s : /\ IsFiniteSet(Frames(s)) /\ Cardinality(Frames(s)) \in Nat
                /\ IsFiniteSet(Leases(s)) /\ Cardinality(Leases(s)) \in Nat
  <1> TAKE s
  <1>1. frames \in Nat /\ DOMAIN residency \subseteq 1 .. frames
    BY DEF CacheTypeOK, AccountTypeOK
  <1>2. IsFiniteSet(1 .. frames)
    BY <1>1, FS_Interval
  <1>3. IsFiniteSet(Frames(s))
    BY <1>1, <1>2, FS_Subset, Frames(s) \in SUBSET (1 .. frames) DEF Frames
  <1>4. Len(assets) \in Nat /\ Lease = 1 .. Len(assets) /\ leased \subseteq Lease
    BY DEF CacheTypeOK, LeaseTypeOK, Lease
  <1>5. IsFiniteSet(Lease)
    BY <1>4, FS_Interval
  <1>6. IsFiniteSet(Leases(s))
    BY <1>4, <1>5, FS_Subset, Leases(s) \in SUBSET Lease DEF Leases
  <1>7. QED
    BY <1>3, <1>6, FS_CardinalityType

LEMMA Positive ==
  ASSUME NEW S, IsFiniteSet(S), NEW x \in S
  PROVE  Cardinality(S) \in Nat /\ Cardinality(S) # 0
  BY FS_EmptySet, FS_CardinalityType

LEMMA Without ==
  ASSUME NEW S, IsFiniteSet(S), NEW H, H \subseteq S
  PROVE  /\ IsFiniteSet(S \ H) /\ Cardinality(S \ H) \in Nat
         /\ Cardinality(S \ H) = Cardinality(S) - Cardinality(H)
         /\ IsFiniteSet(H) /\ Cardinality(H) \in Nat
  <1>1. S \intersect H = H /\ H \in SUBSET S
    OBVIOUS
  <1>2. IsFiniteSet(S \ H) /\ Cardinality(S \ H) = Cardinality(S) - Cardinality(S \intersect H)
    BY FS_Difference
  <1>3. IsFiniteSet(H)
    BY <1>1, FS_Subset
  <1>4. QED
    BY <1>1, <1>2, <1>3, FS_CardinalityType

-----------------------------------------------------------------------------
(* Settle *)

LEMMA SettleStore ==
  ASSUME CacheTypeOK, SlotsApart, alloc' = alloc,
         NEW P \in [Serial -> Nat], NEW R \in SUBSET Serial, NEW U \in SUBSET live, Settle(P, R, U)
  PROVE  /\ live' = {s \in live : s \notin R \/ P[s] # 0}
         /\ pins' = P /\ retiring' = R /\ pending' = U \intersect live'
         /\ pins' \in [Serial' -> Nat] /\ retiring' \subseteq Serial' /\ live' \subseteq Serial'
         /\ pending' \subseteq live' /\ free' \subseteq Slot
         /\ SlotsApart' /\ Settled'
  <1> DEFINE freed == {s \in live \intersect R : P[s] = 0}
  <1>1. /\ pins' = P /\ retiring' = R /\ live' = live \ freed
        /\ free' = free \union {alloc[s].slot : s \in freed} /\ pending' = U \ freed
    BY DEF Settle
  <1>2. live \subseteq Serial /\ free \subseteq Slot /\ \A s \in Serial : alloc[s].slot \in Slot
    BY AllocFacts DEF CacheTypeOK, StoreTypeOK
  <1>3. Serial' = Serial
    BY DEF Serial
  <1>4. SlotsApart'
    BY <1>1 DEF SlotsApart
  <1>5. Settled'
    BY <1>1 DEF Settled
  <1>6. /\ live' = {s \in live : s \notin R \/ P[s] # 0}
        /\ pending' = U \intersect live'
    BY <1>1
  <1>7. free' \subseteq Slot
    BY <1>1, <1>2
  <1>8. QED
    BY <1>1, <1>2, <1>3, <1>4, <1>5, <1>6, <1>7

\* Settle only ever takes away what is live.
LEMMA SettleResidents ==
  ASSUME CacheTypeOK, ResidentsLive, alloc' = alloc, NEW gone \in SUBSET Texture,
         resident' = [t \in Texture |-> IF t \in gone THEN 0 ELSE resident[t]],
         retiring' = retiring \union ({resident[t] : t \in gone} \ {0}),
         \A s \in live : s \notin retiring' => s \in live', live' \subseteq live
  PROVE  /\ \A t \in Texture :
              resident'[t] # 0 => resident'[t] \in live' \ retiring' /\ alloc'[resident'[t]].texture = t
         /\ \A s \in live' \ retiring' : resident'[alloc'[s].texture] = s
         /\ resident' \in [Texture -> Serial' \union {0}]
  <1>1. resident \in [Texture -> Serial \union {0}] /\ live \subseteq Serial /\ 0 \notin Serial
    BY AllocFacts DEF CacheTypeOK, StoreTypeOK
  <1>2. ASSUME NEW t \in Texture, resident'[t] # 0
        PROVE  resident'[t] \in live' \ retiring' /\ alloc'[resident'[t]].texture = t
    <2>1. t \notin gone /\ resident'[t] = resident[t]
      BY <1>2
    <2>2. resident[t] \in live \ retiring /\ alloc[resident[t]].texture = t
      BY <1>2, <2>1 DEF ResidentsLive
    <2>3. \A u \in gone : resident[u] = resident[t] => FALSE
      BY <1>2, <2>1, <2>2 DEF ResidentsLive
    <2>4. QED
      BY <2>1, <2>2, <2>3
  <1>3. ASSUME NEW s \in live' \ retiring'
        PROVE  resident'[alloc'[s].texture] = s
    <2>1. s \in live \ retiring /\ resident[alloc[s].texture] = s /\ alloc[s].texture \in Texture /\ s # 0
      BY <1>1, AllocFacts DEF ResidentsLive
    <2>2. alloc[s].texture \notin gone
      BY <2>1
    <2>3. QED
      BY <2>1, <2>2
  <1>4. Serial' = Serial
    BY DEF Serial
  <1>5. resident' \in [Texture -> Serial' \union {0}]
    BY <1>1, <1>4
  <1>6. QED
    BY <1>2, <1>3, <1>5

\* P counts the pins that are left.
Counts(P) ==
  \A s \in Serial : /\ IsFiniteSet(Frames(s)') /\ IsFiniteSet(Leases(s)')
                    /\ P[s] = Cardinality(Frames(s)') + Cardinality(Leases(s)')

\* What Settle makes of the store.
SettlesTo(P, R, U) ==
  /\ live' \subseteq live
  /\ \A s \in live : s \in live' <=> s \notin R \/ P[s] # 0
  /\ retiring' = R /\ pending' = U \intersect live' /\ pins' = P

\* What Forget makes of the textures' places.
Forgets(images) ==
  /\ current' \subseteq current
  /\ resident' \in [Texture -> Serial \union {0}]
  /\ \A t \in Texture : resident'[t] # 0 =>
       resident'[t] = resident[t] /\ (t \in Surface \/ ImageOf[t] \notin images)

StoreInv == StoreTypeOK /\ PinsCount /\ SlotsApart /\ Settled /\ HeldLive /\ ResidentsLive

\* What an operation that settles keeps, when it forgets some textures' places and
\* the leases that hold them, and counts the pins it leaves.
LEMMA Settling ==
  ASSUME CacheInv, alloc' = alloc, assets' = assets, source' = source \/ source' \in [Image -> 0 .. MaxReplaced],
         NEW P, NEW R, NEW U \in SUBSET live, Settle(P, R, U),
         NEW gone \in SUBSET Texture,
         resident' = [t \in Texture |-> IF t \in gone THEN 0 ELSE resident[t]],
         R = retiring \union ({resident[t] : t \in gone} \ {0}),
         P \in [Serial -> Nat], Counts(P),
         \A n \in DOMAIN residency' : residency'[n].allocations \subseteq live,
         leased' \subseteq leased, current' \subseteq current \intersect leased',
         \A l \in current' : \A s \in assets[l] : alloc[s].texture \notin gone
  PROVE  StoreInv' /\ SettlesTo(P, R, U)
  <1>0. CacheTypeOK /\ SlotsApart /\ HeldLive /\ ResidentsLive /\ Serial' = Serial /\ Lease' = Lease
    BY DEF CacheInv, Serial, Lease
  <1>a. /\ live \subseteq Serial /\ leased \subseteq Lease /\ retiring \subseteq Serial
        /\ resident \in [Texture -> Serial \union {0}]
    BY <1>0 DEF CacheTypeOK, StoreTypeOK, LeaseTypeOK
  <1>b. R \in SUBSET Serial
    BY <1>a
  <1>1. /\ live' = {s \in live : s \notin R \/ P[s] # 0}
        /\ pins' = P /\ retiring' = R /\ pending' = U \intersect live'
        /\ pins' \in [Serial' -> Nat] /\ retiring' \subseteq Serial' /\ live' \subseteq Serial'
        /\ pending' \subseteq live' /\ free' \subseteq Slot
        /\ SlotsApart' /\ Settled'
    BY <1>0, <1>b, SettleStore
  <1>c. \A s \in Serial : /\ IsFiniteSet(Frames(s)') /\ IsFiniteSet(Leases(s)')
                          /\ P[s] = Cardinality(Frames(s)') + Cardinality(Leases(s)')
    BY DEF Counts
  <1>2. PinsCount'
    BY <1>0, <1>1, <1>c DEF PinsCount
  <1>3. HeldLive'
    <2>1. ASSUME NEW n \in DOMAIN residency', NEW s \in residency'[n].allocations PROVE s \in live'
      <3>1. s \in live /\ s \in Serial
        BY <2>1, <1>a
      <3>2. n \in Frames(s)'
        BY <2>1 DEF Frames
      <3>3. P[s] # 0
        BY <1>c, <3>1, <3>2, Positive, FS_CardinalityType
      <3>4. QED
        BY <3>1, <3>3, <1>1
    <2>2. ASSUME NEW l \in leased', NEW s \in assets'[l] PROVE s \in live' /\ alloc'[s].texture \notin Surface
      <3>1. s \in live /\ s \in Serial /\ alloc[s].texture \notin Surface
        BY <2>2, <1>0, <1>a DEF HeldLive
      <3>2. l \in Leases(s)'
        BY <2>2 DEF Leases
      <3>3. P[s] # 0
        BY <1>c, <3>1, <3>2, Positive, FS_CardinalityType
      <3>4. QED
        BY <3>1, <3>3, <1>1
    <2>3. QED
      BY <2>1, <2>2 DEF HeldLive
  <1>4. /\ \A t \in Texture :
             resident'[t] # 0 => resident'[t] \in live' \ retiring' /\ alloc'[resident'[t]].texture = t
        /\ \A s \in live' \ retiring' : resident'[alloc'[s].texture] = s
        /\ resident' \in [Texture -> Serial' \union {0}]
    <2>1. live' \subseteq live /\ \A s \in live : s \notin retiring' => s \in live'
      BY <1>1
    <2>2. QED
      BY <1>0, <1>1, <2>1, SettleResidents
  <1>5. \A l \in current' : \A s \in assets'[l] : resident'[alloc'[s].texture] = s
    <2> SUFFICES ASSUME NEW l \in current', NEW s \in assets[l] PROVE resident'[alloc[s].texture] = s
      OBVIOUS
    <2>1. l \in leased /\ resident[alloc[s].texture] = s /\ s \in live
      BY <1>0 DEF ResidentsLive, HeldLive
    <2>2. alloc[s].texture \in Texture \ gone
      BY <2>1, <1>0, <1>a, AllocFacts
    <2>3. QED
      BY <2>1, <2>2
  <1>6. ResidentsLive'
    BY <1>4, <1>5 DEF ResidentsLive
  <1>7. StoreTypeOK'
    BY <1>0, <1>1, <1>4 DEF StoreTypeOK, CacheTypeOK
  <1>8. QED
    BY <1>1, <1>2, <1>3, <1>6, <1>7 DEF StoreInv, SettlesTo

LEMMA SameCounts ==
  ASSUME CacheInv, residency' = residency, leased' = leased, assets' = assets
  PROVE  pins \in [Serial -> Nat] /\ Counts(pins)
  <1>1. \A s : Frames(s)' = Frames(s) /\ Leases(s)' = Leases(s)
    BY DEF Frames, Leases
  <1>2. QED
    BY <1>1, Finite DEF CacheInv, CacheTypeOK, StoreTypeOK, PinsCount, Counts

-----------------------------------------------------------------------------
(* Between frames. *)

LEMMA DrainFramesKeeps ==
  ASSUME CacheInv, ~recording, DrainFrames
  PROVE  CacheInv'
  <1> DEFINE ended == {retirements[k].token : k \in DOMAIN retirements}
             shown == {retirements[k].token : k \in {j \in DOMAIN retirements : retirements[j].presented}}
             P == [s \in Serial |-> pins[s] - Cardinality({n \in ended : s \in residency[n].allocations})]
             U == pending \ UNION {residency[n].uploads : n \in shown}
  <1>0. /\ CacheTypeOK /\ PinsCount /\ HeldLive /\ ResidentsLive /\ InUse /\ Fresh /\ EndedKnown
        /\ StoreTypeOK /\ AccountTypeOK /\ LeaseTypeOK /\ FrameTypeOK
    BY DEF CacheInv, CacheTypeOK
  <1>1. /\ Settle(P, retiring, U)
        /\ residency' = [n \in DOMAIN residency \ ended |-> residency[n]]
        /\ retirements' = <<>>
        /\ UNCHANGED <<source, resident, alloc, frames, leaseVars, frameVars>>
    BY DEF DrainFrames
  <1>2. ended \subseteq DOMAIN residency
    BY <1>0 DEF EndedKnown
  <1>3. ASSUME NEW s \in Serial
        PROVE  /\ IsFiniteSet(Frames(s)') /\ IsFiniteSet(Leases(s)')
               /\ P[s] = Cardinality(Frames(s)') + Cardinality(Leases(s)')
               /\ P[s] \in Nat
    <2> DEFINE here == {n \in ended : s \in residency[n].allocations}
    <2>1. Leases(s)' = Leases(s) /\ Frames(s)' = Frames(s) \ here
      BY <1>1 DEF Leases, Frames, leaseVars
    <2>2. here \subseteq Frames(s)
      BY <1>2 DEF Frames
    <2>3. /\ IsFiniteSet(Frames(s) \ here) /\ Cardinality(Frames(s) \ here) \in Nat
          /\ Cardinality(Frames(s) \ here) = Cardinality(Frames(s)) - Cardinality(here)
          /\ Cardinality(here) \in Nat
      BY <1>0, <2>2, Finite, Without
    <2>5. pins[s] = Cardinality(Frames(s)) + Cardinality(Leases(s))
      BY <1>0 DEF PinsCount
    <2>6. P[s] = pins[s] - Cardinality(here)
      OBVIOUS
    <2> HIDE DEF here, P
    <2>8. QED
      BY <1>0, <2>1, <2>3, <2>5, <2>6, Finite
  <1>4. P \in [Serial -> Nat] /\ Counts(P)
    BY <1>3 DEF Counts
  <1>5. U \in SUBSET live
    BY <1>0 DEF StoreTypeOK
  <1> HIDE DEF P, U
  <1>6. /\ resident' = [t \in Texture |-> IF t \in {} THEN 0 ELSE resident[t]]
        /\ retiring = retiring \union ({resident[t] : t \in {}} \ {0})
    BY <1>0, <1>1 DEF StoreTypeOK
  <1>7. /\ \A n \in DOMAIN residency' : residency'[n].allocations \subseteq live
        /\ leased' \subseteq leased /\ current' \subseteq current \intersect leased'
        /\ alloc' = alloc /\ assets' = assets /\ source' = source
    BY <1>0, <1>1 DEF HeldLive, ResidentsLive, leaseVars
  <1>8. StoreInv'
    <2> DEFINE gone == {}
    <2>1. gone \in SUBSET Texture /\ \A l \in current' : \A s \in assets[l] : alloc[s].texture \notin gone
      OBVIOUS
    <2>2. /\ resident' = [t \in Texture |-> IF t \in gone THEN 0 ELSE resident[t]]
          /\ retiring = retiring \union ({resident[t] : t \in gone} \ {0})
      BY <1>6
    <2> HIDE DEF gone
    <2>3. QED
      BY <1>1, <1>4, <1>5, <1>7, <2>1, <2>2, Settling
  <1>9. Serial' = Serial /\ Lease' = Lease
    BY <1>7 DEF Serial, Lease
  <1>10. AccountTypeOK'
    BY <1>0, <1>1, <1>9 DEF AccountTypeOK
  <1>11. LeaseTypeOK' /\ FrameTypeOK'
    BY <1>0, <1>1, <1>9 DEF LeaseTypeOK, FrameTypeOK, leaseVars, frameVars, InUse
  <1>12. InUse'
    BY <1>0, <1>1 DEF InUse, Bound, frameVars
  <1>13. Fresh'
    BY <1>0, <1>1 DEF Fresh, InUse, Picture, frameVars
  <1>14. EndedKnown'
    BY <1>1 DEF EndedKnown
  <1>15. QED
    BY <1>8, <1>10, <1>11, <1>12, <1>13, <1>14 DEF CacheInv, CacheTypeOK, StoreInv

LEMMA DrainLeasesKeeps ==
  ASSUME CacheInv, ~recording, DrainLeases, UNCHANGED frameVars
  PROVE  CacheInv'
  <1> DEFINE P == [s \in Serial |-> pins[s] - Cardinality({l \in dropped : s \in assets[l]})]
  <1>0. /\ CacheTypeOK /\ PinsCount /\ HeldLive /\ ResidentsLive /\ InUse /\ Fresh /\ EndedKnown
        /\ StoreTypeOK /\ AccountTypeOK /\ LeaseTypeOK /\ FrameTypeOK
    BY DEF CacheInv, CacheTypeOK
  <1>1. /\ Settle(P, retiring, pending)
        /\ leased' = leased \ dropped /\ current' = current \ dropped /\ dropped' = {}
        /\ UNCHANGED <<source, resident, alloc, accountVars, assets>>
    BY DEF DrainLeases
  <1>2. dropped \subseteq leased
    BY <1>0 DEF LeaseTypeOK
  <1>3. ASSUME NEW s \in Serial
        PROVE  /\ IsFiniteSet(Frames(s)') /\ IsFiniteSet(Leases(s)')
               /\ P[s] = Cardinality(Frames(s)') + Cardinality(Leases(s)')
               /\ P[s] \in Nat
    <2> DEFINE here == {l \in dropped : s \in assets[l]}
    <2>1. Frames(s)' = Frames(s) /\ Leases(s)' = Leases(s) \ here
      BY <1>1 DEF Leases, Frames, accountVars
    <2>2. here \subseteq Leases(s)
      BY <1>2 DEF Leases
    <2>3. /\ IsFiniteSet(Leases(s) \ here) /\ Cardinality(Leases(s) \ here) \in Nat
          /\ Cardinality(Leases(s) \ here) = Cardinality(Leases(s)) - Cardinality(here)
          /\ Cardinality(here) \in Nat
      BY <1>0, <2>2, Finite, Without
    <2>5. pins[s] = Cardinality(Frames(s)) + Cardinality(Leases(s))
      BY <1>0 DEF PinsCount
    <2>6. P[s] = pins[s] - Cardinality(here)
      OBVIOUS
    <2> HIDE DEF here, P
    <2>8. QED
      BY <1>0, <2>1, <2>3, <2>5, <2>6, Finite
  <1>4. P \in [Serial -> Nat] /\ Counts(P)
    BY <1>3 DEF Counts
  <1>5. pending \in SUBSET live
    BY <1>0 DEF StoreTypeOK
  <1> HIDE DEF P
  <1>7. /\ \A n \in DOMAIN residency' : residency'[n].allocations \subseteq live
        /\ leased' \subseteq leased /\ current' \subseteq current \intersect leased'
        /\ alloc' = alloc /\ assets' = assets /\ source' = source
    BY <1>0, <1>1 DEF HeldLive, ResidentsLive, accountVars
  <1>8. StoreInv'
    <2> DEFINE gone == {}
    <2>1. gone \in SUBSET Texture /\ \A l \in current' : \A s \in assets[l] : alloc[s].texture \notin gone
      OBVIOUS
    <2>2. /\ resident' = [t \in Texture |-> IF t \in gone THEN 0 ELSE resident[t]]
          /\ retiring = retiring \union ({resident[t] : t \in gone} \ {0})
      BY <1>0, <1>1 DEF StoreTypeOK
    <2> HIDE DEF gone
    <2>3. QED
      BY <1>1, <1>4, <1>5, <1>7, <2>1, <2>2, Settling
  <1>9. Serial' = Serial /\ Lease' = Lease
    BY <1>7 DEF Serial, Lease
  <1>10. AccountTypeOK'
    BY <1>0, <1>1, <1>9 DEF AccountTypeOK, accountVars
  <1>11. LeaseTypeOK'
    BY <1>0, <1>1, <1>9 DEF LeaseTypeOK
  <1>12. FrameTypeOK'
    BY <1>0, <1>1, <1>9 DEF FrameTypeOK, frameVars, InUse
  <1>13. InUse'
    BY <1>0, <1>1 DEF InUse, Bound, frameVars
  <1>14. Fresh'
    BY <1>0, <1>1 DEF Fresh, InUse, Picture, frameVars
  <1>15. EndedKnown'
    BY <1>0, <1>1 DEF EndedKnown, accountVars
  <1>16. QED
    BY <1>8, <1>10, <1>11, <1>12, <1>13, <1>14, <1>15 DEF CacheInv, CacheTypeOK, StoreInv

LEMMA TrimAndRecordKeeps ==
  ASSUME CacheInv, ~recording, TrimAndRecord
  PROVE  CacheInv'
  <1>0. /\ CacheTypeOK /\ PinsCount /\ HeldLive /\ ResidentsLive /\ InUse /\ Fresh /\ EndedKnown
        /\ StoreTypeOK /\ AccountTypeOK /\ LeaseTypeOK /\ FrameTypeOK
    BY DEF CacheInv, CacheTypeOK
  <1> PICK E \in SUBSET Surface :
        /\ Evicted(MaxSurfaces, E, This)
        /\ Settle(pins, retiring \union {resident[t] : t \in E}, pending \ {resident[t] : t \in E})
        /\ resident' = [t \in Texture |-> IF t \in E THEN 0 ELSE resident[t]]
        /\ recording' = TRUE
        /\ UNCHANGED <<source, alloc, accountVars, leaseVars, bound, frameLease, draws, deferred, lastUse>>
    BY DEF TrimAndRecord
  <1>1. E \in SUBSET Texture /\ \A t \in E : resident[t] # 0
    BY TextureCacheAssumption DEF Evicted
  <1>2. retiring \union {resident[t] : t \in E} = retiring \union ({resident[t] : t \in E} \ {0})
    BY <1>1
  <1>3. /\ pending \ {resident[t] : t \in E} \in SUBSET live
        /\ \A n \in DOMAIN residency' : residency'[n].allocations \subseteq live
        /\ leased' = leased /\ current' = current /\ current \subseteq leased
        /\ alloc' = alloc /\ assets' = assets /\ source' = source /\ residency' = residency
        /\ \A l \in current' : \A s \in assets[l] : alloc[s].texture \notin E
    BY <1>0 DEF StoreTypeOK, HeldLive, ResidentsLive, leaseVars, accountVars
  <1>4. StoreInv'
    BY <1>1, <1>2, <1>3, SameCounts, Settling
  <1>5. Serial' = Serial /\ Lease' = Lease
    BY <1>3 DEF Serial, Lease
  <1>6. AccountTypeOK' /\ LeaseTypeOK'
    BY <1>0, <1>5 DEF AccountTypeOK, LeaseTypeOK, accountVars, leaseVars
  <1>7. FrameTypeOK'
    BY <1>0, <1>5, <1>3 DEF FrameTypeOK, InUse
  <1>8. InUse'
    BY <1>0 DEF InUse, Bound
  <1>9. Fresh'
    BY <1>0, <1>3 DEF Fresh, InUse, Picture
  <1>10. EndedKnown'
    BY <1>0 DEF EndedKnown, accountVars
  <1>11. QED
    BY <1>4, <1>6, <1>7, <1>8, <1>9, <1>10 DEF CacheInv, CacheTypeOK, StoreInv

-----------------------------------------------------------------------------
(* Images are replaced. *)

\* What an image's invalidation is about.
LEMMA StaleFacts ==
  ASSUME CacheInv, NEW images \in SUBSET Image
  PROVE  /\ UNION {Of(i) : i \in images} \in SUBSET Texture
         /\ \A t \in UNION {Of(i) : i \in images} : t \notin Surface /\ ImageOf[t] \in images
         /\ \A t \in Texture \ Surface : ImageOf[t] \in images => t \in UNION {Of(i) : i \in images}
         /\ Stale(images) = {resident[t] : t \in UNION {Of(i) : i \in images}} \ {0}
         /\ Unleased(images) \subseteq pending \ retiring
         /\ \A s \in Unleased(images) : s \in Stale(images)
  <1>1. /\ UNION {Of(i) : i \in images} \in SUBSET Texture
        /\ \A t \in UNION {Of(i) : i \in images} : t \notin Surface /\ ImageOf[t] \in images
        /\ \A t \in Texture \ Surface : ImageOf[t] \in images => t \in UNION {Of(i) : i \in images}
    BY DEF Of
  <1>2. Unleased(images) \subseteq pending \ retiring
    BY DEF Unleased
  <1>3. ASSUME NEW s \in Unleased(images)
        PROVE  s \in Stale(images)
    <2>1. s \in live \ retiring /\ s # 0
      BY <1>2, AllocFacts DEF CacheInv, CacheTypeOK, StoreTypeOK
    <2>2. resident[alloc[s].texture] = s
      BY <2>1 DEF CacheInv, ResidentsLive
    <2>3. alloc[s].texture \in UNION {Of(i) : i \in images}
      BY DEF Unleased, ShowsImage
    <2>4. QED
      BY <2>1, <2>2, <2>3 DEF Stale
  <1>4. QED
    BY <1>1, <1>2, <1>3 DEF Stale

LEMMA Forgetting ==
  ASSUME CacheInv, NEW images \in SUBSET Image, alloc' = alloc, assets' = assets, leased' = leased,
         source' = source \/ source' \in [Image -> 0 .. MaxReplaced],
         NEW P \in [Serial -> Nat], Counts(P),
         \A n \in DOMAIN residency' : residency'[n].allocations \subseteq live,
         Settle(P, retiring \union Stale(images), pending \ Unleased(images)), Forget(images)
  PROVE  /\ StoreInv' /\ Forgets(images)
         /\ SettlesTo(P, retiring \union Stale(images), pending \ Unleased(images))
  <1> DEFINE gone == UNION {Of(i) : i \in images}
  <1>1. /\ gone \in SUBSET Texture
        /\ \A t \in Texture \ Surface : ImageOf[t] \in images => t \in gone
        /\ retiring \union Stale(images) = retiring \union ({resident[t] : t \in gone} \ {0})
    BY StaleFacts
  <1>2. resident' = [t \in Texture |-> IF t \in gone THEN 0 ELSE resident[t]]
    BY DEF Forget
  <1>3. /\ leased' \subseteq leased /\ current' \subseteq current \intersect leased'
        /\ \A l \in current' : \A s \in assets[l] : alloc[s].texture \notin gone
    BY DEF Forget, ShowsImage, CacheInv, ResidentsLive
  <1>4. pending \ Unleased(images) \in SUBSET live
    BY DEF CacheInv, CacheTypeOK, StoreTypeOK
  <1> HIDE DEF gone
  <1>5. StoreInv' /\ SettlesTo(P, retiring \union Stale(images), pending \ Unleased(images))
    BY <1>1, <1>2, <1>3, <1>4, Settling
  <1>6. resident \in [Texture -> Serial \union {0}]
    BY DEF CacheInv, CacheTypeOK, StoreTypeOK
  <1>7. QED
    BY <1>1, <1>2, <1>3, <1>5, <1>6 DEF Forgets

\* InvalidateImage while no frame uses the image.
LEMMA InvalidateKeeps ==
  ASSUME CacheInv, NEW i \in Image, source[i] < MaxReplaced,
         source' = [source EXCEPT ![i] = @ + 1], Invalidate(i),
         ~(recording /\ \E s \in live : Bound(s) /\ ShowsImage(s, i))
  PROVE  CacheInv'
  <1>0. /\ CacheTypeOK /\ PinsCount /\ HeldLive /\ ResidentsLive /\ InUse /\ Fresh /\ EndedKnown
        /\ StoreTypeOK /\ AccountTypeOK /\ LeaseTypeOK /\ FrameTypeOK
    BY DEF CacheInv, CacheTypeOK
  <1>1. /\ Settle(pins, retiring \union Stale({i}), pending \ Unleased({i}))
        /\ Forget({i})
        /\ UNCHANGED <<alloc, accountVars, assets, leased, dropped, frameVars>>
    BY DEF Invalidate
  <1>2. source' \in [Image -> 0 .. MaxReplaced] /\ \A j \in Image : j # i => source'[j] = source[j]
    BY <1>0, ImageFacts DEF StoreTypeOK
  <1>3. StoreInv' /\ Forgets({i}) /\ SettlesTo(pins, retiring \union Stale({i}), pending \ Unleased({i}))
    <2>1. \A n \in DOMAIN residency' : residency'[n].allocations \subseteq live
      BY <1>0, <1>1 DEF HeldLive, accountVars
    <2>2. {i} \in SUBSET Image /\ residency' = residency
      BY <1>1 DEF accountVars
    <2>3. QED
      BY <1>1, <1>2, <2>1, <2>2, SameCounts, Forgetting
  \* What the frame uses is not of the image.
  <1>4. \A s \in Serial : Bound(s) => ~ShowsImage(s, i)
    <2>1. bound \subseteq live
      BY <1>0 DEF FrameTypeOK
    <2>2. frameLease # 0 => frameLease \in leased /\ assets[frameLease] \subseteq live
      BY <1>0 DEF FrameTypeOK, HeldLive
    <2>3. \A s \in Serial : Bound(s) => recording /\ s \in live
      BY <1>0, <2>1, <2>2 DEF InUse, Bound
    <2>4. QED
      BY <2>3
  <1>5. bound \intersect Stale({i}) = {}
    <2> SUFFICES ASSUME NEW s \in bound, s \in Stale({i}) PROVE FALSE
      OBVIOUS
    <2>1. s \in Serial /\ s \in live /\ Bound(s)
      BY <1>0 DEF FrameTypeOK, StoreTypeOK, Bound
    <2> PICK t \in Of(i) : resident[t] = s
      BY DEF Stale
    <2>2. t \in Texture /\ alloc[s].texture = t
      BY <1>0, <2>1, AllocFacts DEF ResidentsLive, Of
    <2>3. QED
      BY <1>4, <2>1, <2>2 DEF ShowsImage
  <1>6. Serial' = Serial /\ Lease' = Lease
    BY <1>1 DEF Serial, Lease
  <1>7. AccountTypeOK'
    BY <1>0, <1>1, <1>6 DEF AccountTypeOK, accountVars
  <1>8. LeaseTypeOK'
    BY <1>0, <1>1, <1>3, <1>6 DEF LeaseTypeOK, Forgets
  <1>9. FrameTypeOK'
    <2>1. bound \subseteq live'
      BY <1>0, <1>3, <1>5 DEF FrameTypeOK, InUse, SettlesTo
    <2>2. QED
      BY <2>1, <1>0, <1>1, <1>6 DEF FrameTypeOK, frameVars
  <1>10. InUse'
    <2>1. frameLease # 0 => frameLease \in current'
      <3> SUFFICES ASSUME frameLease # 0 PROVE frameLease \in current'
        OBVIOUS
      <3>1. frameLease \in current /\ \A s \in assets[frameLease] : s \in Serial /\ Bound(s)
        BY <1>0 DEF InUse, Bound, FrameTypeOK, HeldLive, StoreTypeOK
      <3>2. QED
        BY <1>1, <1>4, <3>1 DEF Forget
    <2>2. \A s : Bound(s)' <=> Bound(s)
      BY <1>1 DEF Bound, frameVars
    <2>3. QED
      BY <1>0, <1>1, <1>3, <1>5, <1>6, <2>1, <2>2 DEF InUse, This, frameVars, accountVars, SettlesTo
  <1>11. Fresh'
    <2>1. \A t \in Texture : resident'[t] # 0 =>
            \/ alloc'[resident'[t]].pixels = Picture(t)'
            \/ t \notin Surface /\ ImageOf[t] \in deferred'
      BY <1>0, <1>1, <1>2, <1>3, ImageFacts DEF Fresh, Picture, frameVars, Forgets
    <2>2. \A j \in deferred' : \E d \in draws' : ShowsImage(d.serial, j)'
      BY <1>0, <1>1 DEF Fresh, frameVars, ShowsImage, Of
    <2>3. \A d \in draws' : d.since <= Picture(alloc[d.serial].texture)'
      <3> SUFFICES ASSUME NEW d \in draws PROVE d.since <= Picture(alloc[d.serial].texture)'
        BY <1>1 DEF frameVars
      <3>1. d.serial \in Serial /\ alloc[d.serial].texture \in Texture /\ d.since \in 0 .. MaxReplaced
        BY <1>0, AllocFacts DEF FrameTypeOK
      <3>2. Bound(d.serial)
        BY <1>0, <3>1 DEF InUse
      <3>3. Picture(alloc[d.serial].texture)' = Picture(alloc[d.serial].texture)
        BY <1>1, <1>2, <1>4, <3>1, <3>2, ImageFacts, <1>0 DEF Picture, ShowsImage, Of
      <3>4. QED
        BY <1>0, <3>3 DEF Fresh
    <2>4. \A d \in draws', t \in Texture :
             resident'[t] # 0 /\ SameImage(t, alloc'[d.serial].texture) => alloc'[resident'[t]].pixels >= d.since
      BY <1>0, <1>1, <1>3 DEF Fresh, frameVars, Forgets
    <2>5. QED
      BY <2>1, <2>2, <2>3, <2>4 DEF Fresh, SameImage
  <1>12. EndedKnown'
    BY <1>0, <1>1 DEF EndedKnown, accountVars
  <1>13. QED
    BY <1>3, <1>7, <1>8, <1>9, <1>10, <1>11, <1>12 DEF CacheInv, CacheTypeOK, StoreInv

LEMMA StoreKept ==
  ASSUME StoreInv, source' \in [Image -> 0 .. MaxReplaced], UNCHANGED storeVars,
         residency' = residency, assets' = assets, leased' = leased, current' = current
  PROVE  StoreInv'
  <1>1. /\ resident' = resident /\ alloc' = alloc /\ live' = live /\ pins' = pins
        /\ retiring' = retiring /\ free' = free /\ pending' = pending /\ Serial' = Serial
    BY DEF storeVars, Serial
  <1>2. StoreTypeOK'
    BY <1>1 DEF StoreInv, StoreTypeOK
  <1>3. \A s : Frames(s)' = Frames(s) /\ Leases(s)' = Leases(s)
    BY DEF Frames, Leases
  <1>4. PinsCount'
    BY <1>1, <1>3 DEF StoreInv, PinsCount
  <1>5. SlotsApart' /\ Settled' /\ HeldLive' /\ ResidentsLive'
    BY <1>1 DEF StoreInv, SlotsApart, Settled, HeldLive, ResidentsLive
  <1>6. QED
    BY <1>2, <1>4, <1>5 DEF StoreInv

\* InvalidateImage while a frame uses the image.
LEMMA DeferKeeps ==
  ASSUME CacheInv, NEW i \in Image, source[i] < MaxReplaced,
         source' = [source EXCEPT ![i] = @ + 1], Defer(i),
         recording, \E s \in live : Bound(s) /\ ShowsImage(s, i)
  PROVE  CacheInv'
  <1>0. /\ CacheTypeOK /\ InUse /\ Fresh /\ EndedKnown
        /\ StoreTypeOK /\ AccountTypeOK /\ LeaseTypeOK /\ FrameTypeOK /\ StoreInv
    BY DEF CacheInv, CacheTypeOK, StoreInv
  <1>1. /\ deferred' = deferred \union {i}
        /\ UNCHANGED <<storeVars, accountVars, leaseVars, recording, bound, frameLease, draws, lastUse>>
    BY DEF Defer
  <1>2. /\ source' \in [Image -> 0 .. MaxReplaced] /\ source'[i] = source[i] + 1
        /\ \A j \in Image : j # i => source'[j] = source[j]
    BY <1>0, ImageFacts DEF StoreTypeOK
  <1>3. StoreInv' /\ Serial' = Serial /\ Lease' = Lease /\ alloc' = alloc
    BY <1>0, <1>1, <1>2, StoreKept DEF Serial, Lease, storeVars, accountVars, leaseVars
  <1>4. AccountTypeOK' /\ LeaseTypeOK' /\ EndedKnown'
    BY <1>0, <1>1, <1>3 DEF AccountTypeOK, LeaseTypeOK, EndedKnown, accountVars, leaseVars
  <1>5. FrameTypeOK'
    BY <1>0, <1>1, <1>3 DEF FrameTypeOK, storeVars, leaseVars
  <1>6. InUse'
    BY <1>0, <1>1, <1>3 DEF InUse, This, Bound, storeVars, leaseVars, accountVars
  <1>7. Fresh'
    <2>1. \A t \in Texture : resident'[t] # 0 =>
            \/ alloc'[resident'[t]].pixels = Picture(t)'
            \/ t \notin Surface /\ ImageOf[t] \in deferred'
      <3> SUFFICES ASSUME NEW t \in Texture, resident[t] # 0, t \notin Surface => ImageOf[t] \notin deferred'
                   PROVE  alloc[resident[t]].pixels = Picture(t)'
        BY <1>1 DEF storeVars
      <3>1. alloc[resident[t]].pixels = Picture(t)
        BY <1>0, <1>1 DEF Fresh
      <3>2. Picture(t)' = Picture(t)
        BY <1>0, <1>1, <1>2, ImageFacts DEF Picture
      <3>3. QED
        BY <3>1, <3>2
    <2>2. \A j \in deferred' : \E d \in draws' : ShowsImage(d.serial, j)'
      <3>1. \E d \in draws : ShowsImage(d.serial, i)
        BY <1>0 DEF InUse, StoreTypeOK
      <3>2. \A j \in deferred' : \E d \in draws : ShowsImage(d.serial, j)
        BY <1>0, <1>1, <3>1 DEF Fresh
      <3>3. \A s, j : ShowsImage(s, j)' <=> ShowsImage(s, j)
        BY <1>3 DEF ShowsImage, Of
      <3>4. QED
        BY <1>1, <3>2, <3>3
    <2>3. \A d \in draws' : d.since <= Picture(alloc[d.serial].texture)'
      <3> SUFFICES ASSUME NEW d \in draws PROVE d.since <= Picture(alloc[d.serial].texture)'
        BY <1>1
      <3>1. d.serial \in Serial /\ alloc[d.serial].texture \in Texture /\ d.since \in 0 .. MaxReplaced
        BY <1>0, AllocFacts DEF FrameTypeOK
      <3>2. d.since <= Picture(alloc[d.serial].texture)
        BY <1>0 DEF Fresh
      <3>3. \A t \in Texture : /\ Picture(t) \in Nat /\ Picture(t)' \in Nat /\ Picture(t) <= Picture(t)'
        <4> TAKE t \in Texture
        <4>1. CASE t \in Surface
          BY <4>1 DEF Picture
        <4>2. CASE t \notin Surface
          <5>1. ImageOf[t] \in Image
            BY <1>0, <4>2, ImageFacts
          <5>2. source[ImageOf[t]] \in Nat /\ source'[ImageOf[t]] \in {source[ImageOf[t]], source[ImageOf[t]] + 1}
            BY <1>0, <1>2, <5>1, ImageFacts DEF StoreTypeOK
          <5>3. QED
            BY <4>2, <5>2 DEF Picture
        <4>3. QED
          BY <4>1, <4>2
      <3>4. \A t : t = alloc[d.serial].texture => Picture(t) = Picture(alloc[d.serial].texture) /\ Picture(t)' = Picture(alloc[d.serial].texture)'
        BY <1>3 DEF Picture
      <3>5. QED
        BY <3>1, <3>2, <3>3, <3>4
    <2>4. \A d \in draws', t \in Texture :
             resident'[t] # 0 /\ SameImage(t, alloc'[d.serial].texture) => alloc'[resident'[t]].pixels >= d.since
      BY <1>0, <1>1 DEF Fresh, storeVars
    <2>5. QED
      BY <2>1, <2>2, <2>3, <2>4 DEF Fresh, SameImage
  <1>8. QED
    BY <1>3, <1>4, <1>5, <1>6, <1>7 DEF CacheInv, CacheTypeOK, StoreInv

LEMMA ReplaceKeeps ==
  ASSUME CacheInv, NEW i \in Image, ReplaceImage(i)
  PROVE  CacheInv'
  BY InvalidateKeeps, DeferKeeps DEF ReplaceImage

-----------------------------------------------------------------------------
(* While a frame is recorded. *)

\* What is drawn of a texture may be as old as what its frame has used of the image.
LEMMA SinceFacts ==
  ASSUME CacheInv, NEW t \in Texture
  PROVE  /\ Since(t) \in 0 .. MaxReplaced /\ Since(t) <= Picture(t)
         /\ \A u \in Texture : resident[u] # 0 /\ SameImage(u, t) => alloc[resident[u]].pixels >= Since(t)
  <1> DEFINE used == {d \in draws : t \notin Surface /\ ShowsImage(d.serial, ImageOf[t])}
  <1>0. /\ CacheTypeOK /\ Fresh /\ ResidentsLive /\ FrameTypeOK /\ StoreTypeOK
    BY DEF CacheInv, CacheTypeOK
  <1>1. \A u \in Texture : resident[u] # 0 => alloc[resident[u]].pixels \in Nat
    BY <1>0, AllocFacts DEF StoreTypeOK
  <1>2. CASE used = {}
    <2>1. Since(t) = Picture(t)
      BY <1>2 DEF Since
    <2>2. Picture(t) \in 0 .. MaxReplaced
      BY <1>0, ImageFacts
    <2>3. ASSUME NEW u \in Texture, resident[u] # 0, SameImage(u, t)
          PROVE  alloc[resident[u]].pixels >= Since(t)
      <3>1. Picture(u) = Picture(t)
        BY <2>3 DEF SameImage, Picture
      <3>2. u \notin Surface => ImageOf[u] \notin deferred
        BY <1>0, <1>2, <2>3 DEF Fresh, SameImage
      <3>3. alloc[resident[u]].pixels = Picture(u)
        BY <1>0, <2>3, <3>2 DEF Fresh
      <3>4. QED
        BY <2>1, <2>2, <3>1, <3>3
    <2>4. QED
      BY <2>1, <2>2, <2>3, ImageFacts, <1>0
  <1>3. CASE used # {}
    <2>1. PICK d \in used : Since(t) = d.since
      BY <1>3 DEF Since
    <2>2. /\ d \in draws /\ t \notin Surface /\ alloc[d.serial].texture \in Texture \ Surface
          /\ ImageOf[alloc[d.serial].texture] = ImageOf[t]
      BY DEF ShowsImage, Of
    <2>3. d.since \in 0 .. MaxReplaced /\ d.since <= Picture(alloc[d.serial].texture)
      BY <1>0, <2>2 DEF FrameTypeOK, Fresh
    <2>4. Picture(alloc[d.serial].texture) = Picture(t)
      BY <2>2 DEF Picture
    <2>5. \A u \in Texture : SameImage(u, t) => SameImage(u, alloc[d.serial].texture)
      BY <2>2 DEF SameImage
    <2>6. QED
      BY <1>0, <2>1, <2>2, <2>3, <2>4, <2>5 DEF Fresh
  <1>4. QED
    BY <1>2, <1>3

\* Drawing what has a place.
LEMMA Drawing ==
  ASSUME CacheInv, NEW S, S \subseteq {s \in Serial : s # 0 /\ resident[alloc[s].texture] = s},
         draws' = draws \union {Sample(s) : s \in S},
         UNCHANGED <<source, storeVars, accountVars, leaseVars, recording, deferred>>
  PROVE  StoreInv' /\ AccountTypeOK' /\ LeaseTypeOK' /\ EndedKnown' /\ Fresh'
         /\ draws' \subseteq [serial : Serial, since : 0 .. MaxReplaced]
         /\ \A s \in Serial : (\E d \in draws' : d.serial = s) <=> s \in S \/ \E d \in draws : d.serial = s
  <1>0. /\ CacheTypeOK /\ InUse /\ Fresh /\ EndedKnown
        /\ StoreTypeOK /\ AccountTypeOK /\ LeaseTypeOK /\ FrameTypeOK /\ StoreInv
    BY DEF CacheInv, CacheTypeOK, StoreInv
  <1>1. StoreInv' /\ Serial' = Serial /\ Lease' = Lease
    BY <1>0, StoreKept DEF Serial, Lease, storeVars, accountVars, leaseVars, StoreTypeOK
  <1>2. AccountTypeOK' /\ LeaseTypeOK' /\ EndedKnown'
    BY <1>0, <1>1 DEF AccountTypeOK, LeaseTypeOK, EndedKnown, accountVars, leaseVars
  <1>3. ASSUME NEW s \in S
        PROVE  /\ s \in Serial /\ alloc[s].texture \in Texture /\ s # 0 /\ resident[alloc[s].texture] = s
               /\ Sample(s).serial = s /\ Sample(s).since = Since(alloc[s].texture)
               /\ Sample(s) \in [serial : Serial, since : 0 .. MaxReplaced]
    BY <1>0, AllocFacts, SinceFacts DEF Sample
  <1>4. draws' \subseteq [serial : Serial, since : 0 .. MaxReplaced]
    BY <1>0, <1>3 DEF FrameTypeOK
  <1>5. \A s \in Serial : (\E d \in draws' : d.serial = s) <=> s \in S \/ \E d \in draws : d.serial = s
    BY <1>3
  <1>6. Fresh'
    <2>1. \A t \in Texture : resident'[t] # 0 =>
            \/ alloc'[resident'[t]].pixels = Picture(t)'
            \/ t \notin Surface /\ ImageOf[t] \in deferred'
      BY <1>0 DEF Fresh, storeVars, Picture
    <2>2. \A i \in deferred' : \E d \in draws' : ShowsImage(d.serial, i)'
      BY <1>0 DEF Fresh, ShowsImage, Of, storeVars
    <2>3. ASSUME NEW d \in draws'
          PROVE  /\ d.since <= Picture(alloc[d.serial].texture)
                 /\ \A t \in Texture :
                      resident[t] # 0 /\ SameImage(t, alloc[d.serial].texture) => alloc[resident[t]].pixels >= d.since
      <3>1. CASE d \in draws
        BY <1>0, <3>1 DEF Fresh
      <3>2. CASE \E s \in S : d = Sample(s)
        BY <1>3, <3>2, SinceFacts
      <3>3. QED
        BY <2>3, <3>1, <3>2
    <2>4. \A t : Picture(t)' = Picture(t)
      BY DEF Picture
    <2>5. QED
      BY <2>1, <2>2, <2>3, <2>4 DEF Fresh, SameImage, storeVars, Picture
  <1>7. QED
    BY <1>1, <1>2, <1>4, <1>5, <1>6

LEMMA DrawResidentKeeps ==
  ASSUME CacheInv, NEW t \in Texture, DrawResident(t)
  PROVE  CacheInv'
  <1> DEFINE s == resident[t]
  <1>0. /\ CacheTypeOK /\ InUse /\ ResidentsLive /\ StoreTypeOK /\ FrameTypeOK
    BY DEF CacheInv, CacheTypeOK
  <1>1. /\ recording /\ s # 0 /\ bound' = bound \union {s} /\ draws' = draws \union {Sample(s)}
        /\ Used(t)
        /\ UNCHANGED <<source, storeVars, accountVars, leaseVars, recording, frameLease, deferred>>
    BY DEF DrawResident
  <1>2. s \in live \ retiring /\ s \in Serial /\ alloc[s].texture = t /\ resident[alloc[s].texture] = s
    BY <1>0, <1>1 DEF ResidentsLive, StoreTypeOK
  <1>3. /\ StoreInv' /\ AccountTypeOK' /\ LeaseTypeOK' /\ EndedKnown' /\ Fresh'
        /\ draws' \subseteq [serial : Serial, since : 0 .. MaxReplaced]
        /\ \A u \in Serial : (\E d \in draws' : d.serial = u) <=> u = s \/ \E d \in draws : d.serial = u
    <2> PICK S : S = {s}
      OBVIOUS
    <2>1. S \subseteq {u \in Serial : u # 0 /\ resident[alloc[u].texture] = u}
      BY <1>1, <1>2
    <2>2. draws' = draws \union {Sample(u) : u \in S}
      BY <1>1
    <2>3. /\ StoreInv' /\ AccountTypeOK' /\ LeaseTypeOK' /\ EndedKnown' /\ Fresh'
          /\ draws' \subseteq [serial : Serial, since : 0 .. MaxReplaced]
          /\ \A u \in Serial : (\E d \in draws' : d.serial = u) <=> u \in S \/ \E d \in draws : d.serial = u
      BY <1>1, <2>1, <2>2, Drawing
    <2>4. QED
      BY <2>3
  <1> HIDE DEF s
  <1>4. This \in Nat /\ This' = This /\ Serial' = Serial
    BY <1>0, <1>1 DEF This, Serial, accountVars, storeVars, CacheTypeOK, AccountTypeOK
  <1>5. /\ lastUse' \in [Surface -> Nat]
        /\ \A u \in Surface : lastUse'[u] = IF u = t THEN This ELSE lastUse[u]
    BY <1>0, <1>1, <1>4 DEF Used, FrameTypeOK
  <1>6. FrameTypeOK'
    BY <1>0, <1>1, <1>2, <1>3, <1>4, <1>5 DEF FrameTypeOK, storeVars, leaseVars
  <1>7. InUse'
    <2>1. \A u \in Serial : Bound(u)' <=> Bound(u) \/ u = s
      BY <1>1 DEF Bound, leaseVars
    <2>2. \A u \in Serial : Bound(u) <=> \E d \in draws : d.serial = u
      BY <1>0 DEF InUse
    <2>3. \A u \in bound' : alloc'[u].texture \in Surface => lastUse'[alloc'[u].texture] = This'
      BY <1>0, <1>1, <1>2, <1>4, <1>5 DEF InUse, storeVars
    <2>4. bound' \intersect retiring' = {}
      BY <1>0, <1>1, <1>2 DEF InUse, storeVars
    <2>5. /\ ~recording' => bound' = {} /\ frameLease' = 0 /\ draws' = {} /\ deferred' = {}
          /\ frameLease' # 0 => frameLease' \in current'
      BY <1>0, <1>1 DEF InUse, leaseVars
    <2>6. QED
      BY <1>3, <1>4, <2>1, <2>2, <2>3, <2>4, <2>5 DEF InUse
  <1>8. QED
    BY <1>3, <1>6, <1>7 DEF CacheInv, CacheTypeOK, StoreInv

LEMMA BindLeaseKeeps ==
  ASSUME CacheInv, NEW l, BindLease(l), frameLease \in {0, l}, l # 0
  PROVE  CacheInv'
  <1>0. /\ CacheTypeOK /\ InUse /\ ResidentsLive /\ HeldLive /\ StoreTypeOK /\ LeaseTypeOK /\ FrameTypeOK
    BY DEF CacheInv, CacheTypeOK
  <1>1. /\ recording /\ l \in current /\ frameLease' = l
        /\ draws' = draws \union {Sample(s) : s \in assets[l]}
        /\ UNCHANGED <<source, storeVars, accountVars, leaseVars, recording, bound, deferred, lastUse>>
    BY DEF BindLease
  <1>2. l \in leased /\ \A s \in assets[l] : s \in Serial /\ s # 0 /\ resident[alloc[s].texture] = s
    BY <1>0, <1>1, AllocFacts DEF ResidentsLive, HeldLive, StoreTypeOK
  <1>3. /\ StoreInv' /\ AccountTypeOK' /\ LeaseTypeOK' /\ EndedKnown' /\ Fresh'
        /\ draws' \subseteq [serial : Serial, since : 0 .. MaxReplaced]
        /\ \A u \in Serial : (\E d \in draws' : d.serial = u) <=> u \in assets[l] \/ \E d \in draws : d.serial = u
    <2> PICK S : S = assets[l]
      OBVIOUS
    <2>1. S \subseteq {u \in Serial : u # 0 /\ resident[alloc[u].texture] = u}
      BY <1>2
    <2>2. draws' = draws \union {Sample(u) : u \in S}
      BY <1>1
    <2>3. /\ StoreInv' /\ AccountTypeOK' /\ LeaseTypeOK' /\ EndedKnown' /\ Fresh'
          /\ draws' \subseteq [serial : Serial, since : 0 .. MaxReplaced]
          /\ \A u \in Serial : (\E d \in draws' : d.serial = u) <=> u \in S \/ \E d \in draws : d.serial = u
      BY <1>1, <2>1, <2>2, Drawing
    <2>4. QED
      BY <2>3
  <1>4. This' = This /\ Serial' = Serial
    BY <1>1 DEF This, Serial, accountVars, storeVars
  <1>5. FrameTypeOK'
    BY <1>0, <1>1, <1>2, <1>3, <1>4 DEF FrameTypeOK, storeVars, leaseVars
  <1>6. InUse'
    <2>1. \A u \in Serial : Bound(u)' <=> Bound(u) \/ u \in assets[l]
      BY <1>1, <1>2 DEF Bound, leaseVars
    <2>2. \A u \in Serial : Bound(u) <=> \E d \in draws : d.serial = u
      BY <1>0 DEF InUse
    <2>3. QED
      BY <1>0, <1>1, <1>3, <1>4, <2>1, <2>2 DEF InUse, storeVars, leaseVars
  <1>7. QED
    BY <1>3, <1>5, <1>6 DEF CacheInv, CacheTypeOK, StoreInv

\* A new element at the end of a sequence.
LEMMA Appended ==
  ASSUME NEW S, NEW f \in Seq(S), NEW x \in S
  PROVE  /\ Append(f, x) \in Seq(S)
         /\ Len(f) \in Nat /\ DOMAIN f = 1 .. Len(f)
         /\ DOMAIN Append(f, x) = (1 .. Len(f)) \union {Len(f) + 1}
         /\ \A i \in 1 .. Len(f) : Append(f, x)[i] = f[i]
         /\ Append(f, x)[Len(f) + 1] = x
  <1> DEFINE g == Append(f, x)
  <1>1. /\ g \in Seq(S) /\ Len(g) = Len(f) + 1
        /\ \A i \in 1 .. Len(f) : g[i] = f[i]
        /\ g[Len(f) + 1] = x
    BY AppendProperties
  <1>2. Len(f) \in Nat /\ DOMAIN f = 1 .. Len(f)
    BY LenProperties
  <1> HIDE DEF g
  <1>3. DOMAIN g = 1 .. Len(g)
    BY <1>1, LenProperties
  <1>4. QED
    BY <1>1, <1>2, <1>3 DEF g

LEMMA CreateLeaseKeeps ==
  ASSUME CacheInv, CreateLease, frameLease = 0, \A t \in Catalog : resident[t] # 0,
         dropped' \subseteq leased'
  PROVE  CacheInv'
  <1> DEFINE mine == {resident[t] : t \in Catalog}
             new == Len(assets) + 1
  <1>0. /\ CacheTypeOK /\ InUse /\ Fresh /\ EndedKnown /\ PinsCount /\ SlotsApart /\ Settled
        /\ ResidentsLive /\ HeldLive /\ StoreTypeOK /\ AccountTypeOK /\ LeaseTypeOK /\ FrameTypeOK
    BY DEF CacheInv, CacheTypeOK
  <1>1. /\ recording /\ mine \subseteq bound
        /\ pins' = [s \in Serial |-> pins[s] + IF s \in mine THEN 1 ELSE 0]
        /\ assets' = Append(assets, mine)
        /\ leased' = leased \union {new} /\ current' = current \union {new}
        /\ frameLease' = new
        /\ UNCHANGED <<source, resident, alloc, live, retiring, free, pending, accountVars,
                       recording, bound, draws, deferred, lastUse>>
    BY DEF CreateLease
  <1>2. Serial' = Serial /\ live \subseteq Serial /\ bound \subseteq live
    BY <1>0, <1>1 DEF Serial, StoreTypeOK, FrameTypeOK
  <1>3. \A s \in mine : /\ s \in live \ retiring /\ resident[alloc[s].texture] = s
                        /\ alloc[s].texture \notin Surface
    BY <1>0, TextureCacheAssumption DEF ResidentsLive
  <1>4. /\ Len(assets) \in Nat /\ Lease = 1 .. Len(assets) /\ new \notin Lease /\ new # 0
        /\ leased \subseteq Lease /\ current \subseteq leased
    BY <1>0 DEF LeaseTypeOK, Lease, ResidentsLive
  <1>5. /\ assets' \in Seq(SUBSET Serial) /\ Lease' = Lease \union {new}
        /\ \A l \in Lease : assets'[l] = assets[l]
        /\ assets'[new] = mine
    <2>1. assets \in Seq(SUBSET Serial) /\ mine \in SUBSET Serial
      BY <1>0, <1>1, <1>2 DEF LeaseTypeOK
    <2> HIDE DEF mine
    <2>2. PICK S : S = SUBSET Serial
      OBVIOUS
    <2>3. assets \in Seq(S) /\ mine \in S
      BY <2>1, <2>2
    <2>4. /\ Append(assets, mine) \in Seq(S)
          /\ DOMAIN assets = 1 .. Len(assets)
          /\ DOMAIN Append(assets, mine) = (1 .. Len(assets)) \union {Len(assets) + 1}
          /\ \A i \in 1 .. Len(assets) : Append(assets, mine)[i] = assets[i]
          /\ Append(assets, mine)[Len(assets) + 1] = mine
      BY <2>3, Appended
    <2>5. QED
      BY <1>1, <2>2, <2>4 DEF Lease
  <1> HIDE DEF mine, new
  <1>6. ASSUME NEW s \in Serial
        PROVE  /\ pins'[s] = Cardinality(Frames(s)') + Cardinality(Leases(s)')
               /\ pins'[s] \in Nat /\ (pins[s] # 0 => pins'[s] # 0)
    <2>1. Frames(s)' = Frames(s)
      BY <1>1 DEF Frames, accountVars
    <2>2. Leases(s)' = IF s \in mine THEN Leases(s) \union {new} ELSE Leases(s)
      BY <1>1, <1>4, <1>5 DEF Leases
    <2>3. new \notin Leases(s)
      BY <1>4 DEF Leases
    <2>4. Cardinality(Leases(s)') = Cardinality(Leases(s)) + IF s \in mine THEN 1 ELSE 0
      <3>1. IsFiniteSet(Leases(s)) /\ Cardinality(Leases(s)) \in Nat
        BY <1>0, Finite
      <3>2. Cardinality(Leases(s) \union {new}) = Cardinality(Leases(s)) + 1
        BY <2>3, <3>1, FS_AddElement
      <3>3. CASE s \in mine
        BY <2>2, <3>2, <3>3
      <3>4. CASE s \notin mine
        BY <2>2, <3>1, <3>4
      <3>5. QED
        BY <3>3, <3>4
    <2>5. pins[s] = Cardinality(Frames(s)) + Cardinality(Leases(s)) /\ pins[s] \in Nat
      BY <1>0 DEF PinsCount, StoreTypeOK
    <2>6. QED
      BY <1>0, <1>1, <2>1, <2>4, <2>5, Finite
  <1>7. StoreTypeOK'
    BY <1>0, <1>1, <1>2, <1>6 DEF StoreTypeOK
  <1>8. PinsCount' /\ SlotsApart' /\ Settled'
    BY <1>0, <1>1, <1>2, <1>6 DEF PinsCount, SlotsApart, Settled
  <1>9. HeldLive'
    BY <1>0, <1>1, <1>3, <1>4, <1>5 DEF HeldLive, accountVars
  <1>10. ResidentsLive'
    BY <1>0, <1>1, <1>3, <1>4, <1>5 DEF ResidentsLive
  <1>11. AccountTypeOK' /\ EndedKnown'
    BY <1>0, <1>1, <1>2 DEF AccountTypeOK, EndedKnown, accountVars
  <1>12. LeaseTypeOK'
    BY <1>0, <1>1, <1>2, <1>4, <1>5 DEF LeaseTypeOK
  <1>13. FrameTypeOK'
    BY <1>0, <1>1, <1>2 DEF FrameTypeOK
  <1>14. InUse'
    <2>1. \A s \in Serial : Bound(s)' <=> Bound(s)
      BY <1>1, <1>4, <1>5 DEF Bound
    <2>2. QED
      BY <1>0, <1>1, <1>2, <2>1 DEF InUse, This, accountVars
  <1>15. Fresh'
    BY <1>0, <1>1 DEF Fresh, Picture, ShowsImage
  <1>16. QED
    BY <1>7, <1>8, <1>9, <1>10, <1>11, <1>12, <1>13, <1>14, <1>15 DEF CacheInv, CacheTypeOK

LEMMA DrawNewKeeps ==
  ASSUME CacheInv, NEW t \in Texture, DrawNew(t)
  PROVE  CacheInv'
  <1>0. /\ CacheTypeOK /\ InUse /\ Fresh /\ EndedKnown /\ PinsCount /\ SlotsApart /\ Settled
        /\ ResidentsLive /\ HeldLive /\ StoreTypeOK /\ AccountTypeOK /\ LeaseTypeOK /\ FrameTypeOK
    BY DEF CacheInv, CacheTypeOK
  <1> DEFINE new == Len(alloc) + 1
             entry(k) == [texture |-> t, slot |-> k, pixels |-> Picture(t)]
  <1>1. PICK E, gone, freed, k :
          /\ E \in SUBSET Surface
          /\ IF t \in Surface THEN Evicted(MaxSurfaces - 1, E, This) ELSE E = {}
          /\ gone = {resident[u] : u \in E}
          /\ freed = {s \in gone : pins[s] = 0}
          /\ k \in free \union {alloc[s].slot : s \in freed}
          /\ alloc' = Append(alloc, entry(k))
          /\ pins' = Append(pins, 0)
          /\ live' = (live \ freed) \union {new}
          /\ free' = (free \union {alloc[s].slot : s \in freed}) \ {k}
          /\ retiring' = retiring \union gone
          /\ pending' = (pending \ gone) \union {new}
          /\ resident' = [u \in Texture |->
                            IF u = t THEN new ELSE IF u \in E THEN 0 ELSE resident[u]]
          /\ bound' = bound \union {new}
          /\ draws' = draws \union {[serial |-> new, since |-> Since(t)]}
    BY DEF DrawNew
  <1>2. /\ recording /\ resident[t] = 0 /\ Used(t)
        /\ UNCHANGED <<source, accountVars, leaseVars, recording, frameLease, deferred>>
    BY DEF DrawNew
  <1>3. /\ Len(alloc) \in Nat /\ Serial = 1 .. Len(alloc) /\ 0 \notin Serial
        /\ \A s \in Serial : /\ alloc[s].texture \in Texture /\ alloc[s].slot \in Slot
                             /\ alloc[s].pixels \in 0 .. MaxReplaced
    BY <1>0, AllocFacts
  <1>4. /\ live \subseteq Serial /\ bound \subseteq live /\ pending \subseteq live
        /\ retiring \subseteq Serial /\ free \subseteq Slot
    BY <1>0 DEF StoreTypeOK, FrameTypeOK
  <1>5. E \subseteq Texture /\ t \notin E /\ \A u \in E : resident[u] # 0 /\ lastUse[u] # This
    BY <1>1, <1>2, TextureCacheAssumption DEF Evicted
  \* What is evicted is no longer used, and no lease holds it.
  <1>6. ASSUME NEW s \in gone
        PROVE  /\ s \in live \ retiring /\ s \in Serial /\ s \notin bound
               /\ alloc[s].texture \in E /\ alloc[s].texture \in Surface /\ s # 0
               /\ \A l \in leased : s \notin assets[l]
    <2>1. PICK u \in E : s = resident[u]
      BY <1>1, <1>6
    <2>2. s \in live \ retiring /\ alloc[s].texture = u
      BY <1>0, <1>5, <2>1 DEF ResidentsLive
    <2>3. QED
      BY <1>0, <1>1, <1>4, <1>5, <2>1, <2>2 DEF InUse, HeldLive
  <1>7. freed \subseteq gone /\ freed \subseteq live /\ k \in Slot
    BY <1>1, <1>3, <1>4, <1>6
  <1>8. new \in Nat /\ new # 0 /\ new \notin Serial
    BY <1>3
  <1>9. /\ alloc' \in Seq([texture : Texture, slot : Slot, pixels : 0 .. MaxReplaced])
        /\ Serial' = Serial \union {new}
        /\ \A s \in Serial : alloc'[s] = alloc[s]
        /\ alloc'[new].texture = t /\ alloc'[new].slot = k /\ alloc'[new].pixels = Picture(t)
    <2>1. PICK S : S = [texture : Texture, slot : Slot, pixels : 0 .. MaxReplaced]
      OBVIOUS
    <2>2. alloc \in Seq(S) /\ entry(k) \in S
      BY <1>0, <1>7, <2>1, ImageFacts DEF StoreTypeOK
    <2> HIDE DEF entry
    <2>3. /\ Append(alloc, entry(k)) \in Seq(S)
          /\ DOMAIN Append(alloc, entry(k)) = (1 .. Len(alloc)) \union {Len(alloc) + 1}
          /\ \A i \in 1 .. Len(alloc) : Append(alloc, entry(k))[i] = alloc[i]
          /\ Append(alloc, entry(k))[Len(alloc) + 1] = entry(k)
      BY <2>2, Appended
    <2>4. /\ alloc' \in Seq(S) /\ DOMAIN alloc' = Serial \union {new}
          /\ \A s \in Serial : alloc'[s] = alloc[s]
          /\ alloc'[new] = entry(k)
      BY <1>1, <1>3, <2>3
    <2>5. alloc'[new].texture = t /\ alloc'[new].slot = k /\ alloc'[new].pixels = Picture(t)
      BY <2>4 DEF entry
    <2>6. QED
      BY <2>1, <2>4, <2>5 DEF Serial
  <1>10. /\ pins' \in [Serial' -> Nat]
         /\ \A s \in Serial : pins'[s] = pins[s]
         /\ pins'[new] = 0
    <2>1. pins \in [1 .. Len(alloc) -> Nat]
      BY <1>0, <1>3 DEF StoreTypeOK
    <2>2. pins \in Seq(Nat) /\ 0 \in Nat
      BY <1>3, <2>1, SeqDef
    <2>3. Len(pins) = Len(alloc)
      BY <1>3, <2>1, <2>2, LenProperties
    <2>4. PICK S : S = Nat
      OBVIOUS
    <2>5. /\ Append(pins, 0) \in Seq(S)
          /\ DOMAIN Append(pins, 0) = (1 .. Len(pins)) \union {Len(pins) + 1}
          /\ \A i \in 1 .. Len(pins) : Append(pins, 0)[i] = pins[i]
          /\ Append(pins, 0)[Len(pins) + 1] = 0
      BY <2>2, <2>4, Appended
    <2>6. /\ pins' \in Seq(Nat) /\ DOMAIN pins' = Serial \union {new}
          /\ \A s \in Serial : pins'[s] = pins[s]
          /\ pins'[new] = 0
      BY <1>1, <1>3, <2>3, <2>4, <2>5
    <2>7. pins' \in [DOMAIN pins' -> Nat]
      BY <2>6, LenProperties
    <2>8. QED
      BY <1>9, <2>6, <2>7
  <1> HIDE DEF new, entry
  <1>11. StoreTypeOK'
    <2>1. source' \in [Image -> 0 .. MaxReplaced] /\ resident \in [Texture -> Serial \union {0}]
      BY <1>0, <1>2 DEF StoreTypeOK
    <2>2. resident' \in [Texture -> Serial' \union {0}]
      BY <1>1, <1>9, <2>1
    <2>3. live' \subseteq Serial' /\ retiring' \subseteq Serial' /\ free' \subseteq Slot
      <3>1. live' \subseteq Serial'
        BY <1>1, <1>4, <1>7, <1>9
      <3>2. retiring' \subseteq Serial'
        BY <1>1, <1>4, <1>6, <1>9
      <3>3. free' \subseteq Slot
        BY <1>1, <1>3, <1>4, <1>7
      <3>4. QED
        BY <3>1, <3>2, <3>3
    <2>4. pending' \subseteq live'
      BY <1>1, <1>4, <1>7
    <2>5. QED
      BY <1>9, <1>10, <2>1, <2>2, <2>3, <2>4 DEF StoreTypeOK
  <1>12. PinsCount'
    <2>1. \A s : Frames(s)' = Frames(s) /\ Leases(s)' = Leases(s)
      BY <1>2 DEF Frames, Leases, accountVars, leaseVars
    <2>2. Frames(new) = {} /\ Leases(new) = {}
      BY <1>0, <1>4, <1>8 DEF Frames, Leases, HeldLive
    <2>3. Cardinality({}) = 0
      BY FS_EmptySet
    <2>4. \A s \in Serial' : pins'[s] = Cardinality(Frames(s)) + Cardinality(Leases(s))
      <3> TAKE s \in Serial'
      <3>1. CASE s \in Serial
        BY <1>0, <1>10, <3>1 DEF PinsCount
      <3>2. CASE s = new
        BY <1>10, <2>2, <2>3, <3>2
      <3>3. QED
        BY <1>9, <3>1, <3>2
    <2>5. QED
      BY <2>1, <2>4 DEF PinsCount
  <1>13. SlotsApart'
    <2>1. \A s \in live \ freed : alloc[s].slot # k
      BY <1>0, <1>1, <1>7 DEF SlotsApart
    <2>2. \A s \in live' : s = new \/ (s \in live \ freed /\ alloc'[s] = alloc[s])
      BY <1>1, <1>4, <1>9
    <2>3. \A s, u \in live' : alloc'[s].slot = alloc'[u].slot => s = u
      BY <1>0, <1>9, <2>1, <2>2 DEF SlotsApart
    <2>4. ASSUME NEW s \in live'
          PROVE  alloc'[s].slot \notin free'
      <3>1. CASE s = new
        BY <1>1, <1>9, <3>1
      <3>2. CASE s \in live \ freed /\ alloc'[s] = alloc[s]
        <4>1. alloc[s].slot \notin free
          BY <1>0, <3>2 DEF SlotsApart
        <4>2. \A u \in freed : alloc[s].slot # alloc[u].slot
          BY <1>0, <1>7, <3>2 DEF SlotsApart
        <4>3. QED
          BY <1>1, <3>2, <4>1, <4>2
      <3>3. QED
        BY <2>2, <3>1, <3>2
    <2>5. QED
      BY <2>3, <2>4 DEF SlotsApart
  <1>14. Settled'
    <2>1. new \notin retiring'
      BY <1>1, <1>4, <1>6, <1>8
    <2>2. \A s \in live' \intersect retiring' : s \in live \ freed /\ s \in Serial /\ (s \in retiring \/ s \in gone)
      BY <1>1, <1>4, <2>1
    <2>3. QED
      BY <1>0, <1>1, <1>10, <2>2 DEF Settled
  <1>15. HeldLive'
    <2>1. ASSUME NEW n \in DOMAIN residency, NEW s \in residency[n].allocations PROVE s \in live'
      <3>1. s \in live /\ s \in Serial /\ n \in Frames(s)
        BY <1>0, <1>4, <2>1 DEF HeldLive, Frames
      <3>2. pins[s] # 0
        BY <1>0, <3>1, Finite, Positive DEF PinsCount
      <3>3. QED
        BY <1>1, <3>1, <3>2
    <2>2. ASSUME NEW l \in leased, NEW s \in assets[l] PROVE s \in live' /\ alloc'[s].texture \notin Surface
      BY <1>0, <1>1, <1>4, <1>6, <1>7, <1>9, <2>2 DEF HeldLive
    <2>3. QED
      BY <1>2, <2>1, <2>2 DEF HeldLive, accountVars, leaseVars
  <1>16. ResidentsLive'
    <2>1. ASSUME NEW u \in Texture, resident'[u] # 0
          PROVE  resident'[u] \in live' \ retiring' /\ alloc'[resident'[u]].texture = u
      <3>1. CASE u = t
        BY <1>1, <1>4, <1>6, <1>8, <1>9, <3>1
      <3>2. CASE u # t
        <4>1. u \notin E /\ resident'[u] = resident[u]
          BY <1>1, <2>1, <3>2
        <4>2. resident[u] \in live \ retiring /\ alloc[resident[u]].texture = u
          BY <1>0, <2>1, <4>1 DEF ResidentsLive
        <4>3. resident[u] \notin gone
          BY <1>6, <4>1, <4>2
        <4>4. QED
          BY <1>1, <1>4, <1>7, <1>9, <4>1, <4>2, <4>3
      <3>3. QED
        BY <3>1, <3>2
    <2>2. ASSUME NEW s \in live' \ retiring' PROVE resident'[alloc'[s].texture] = s
      <3>1. CASE s = new
        BY <1>1, <1>9, <3>1
      <3>2. CASE s # new
        <4>1. s \in live \ retiring /\ s \notin gone /\ s \in Serial
          BY <1>1, <1>4, <3>2
        <4>2. resident[alloc[s].texture] = s /\ alloc[s].texture \in Texture /\ s # 0
          BY <1>0, <1>3, <4>1 DEF ResidentsLive
        <4>3. alloc[s].texture # t /\ alloc[s].texture \notin E
          BY <1>1, <1>2, <4>1, <4>2
        <4>4. QED
          BY <1>1, <1>9, <4>1, <4>2, <4>3
      <3>3. QED
        BY <3>1, <3>2
    <2>3. ASSUME NEW l \in current, NEW s \in assets[l]
          PROVE  resident'[alloc'[s].texture] = s
      <3>1. l \in leased /\ resident[alloc[s].texture] = s /\ s \in Serial /\ s # 0
            /\ alloc[s].texture \in Texture /\ alloc[s].texture \notin Surface
        <4>1. l \in leased /\ resident[alloc[s].texture] = s
          BY <1>0, <2>3 DEF ResidentsLive
        <4>2. s \in live /\ alloc[s].texture \notin Surface
          BY <1>0, <2>3, <4>1 DEF HeldLive
        <4>3. QED
          BY <1>3, <1>4, <4>1, <4>2
      <3>2. alloc[s].texture # t /\ alloc[s].texture \notin E
        BY <1>1, <1>2, <3>1
      <3>3. QED
        BY <1>1, <1>9, <3>1, <3>2
    <2>4. current' = current /\ leased' = leased /\ assets' = assets
      BY <1>2 DEF leaseVars
    <2>5. current \subseteq leased
      BY <1>0 DEF ResidentsLive
    <2>6. QED
      BY <2>1, <2>2, <2>3, <2>4, <2>5 DEF ResidentsLive
  <1>17. AccountTypeOK' /\ EndedKnown'
    <2>1. Serial \subseteq Serial' /\ frames' = frames /\ residency' = residency /\ retirements' = retirements
      BY <1>2, <1>9 DEF accountVars
    <2>2. \A n \in DOMAIN residency :
             residency[n] \in [allocations : SUBSET Serial', uploads : SUBSET Serial']
      BY <1>0, <2>1 DEF AccountTypeOK
    <2>3. QED
      BY <1>0, <2>1, <2>2 DEF AccountTypeOK, EndedKnown
  <1>18. LeaseTypeOK'
    <2>1. assets' = assets /\ leased' = leased /\ current' = current /\ dropped' = dropped
      BY <1>2 DEF leaseVars
    <2>2. assets \in [1 .. Len(assets) -> SUBSET Serial] /\ Len(assets) \in Nat
      BY <1>0 DEF LeaseTypeOK
    <2>3. assets \in [1 .. Len(assets) -> SUBSET Serial']
      BY <1>9, <2>2
    <2>4. assets \in Seq(SUBSET Serial')
      BY <2>2, <2>3, SeqDef
    <2>5. QED
      BY <1>0, <2>1, <2>4 DEF LeaseTypeOK, Lease
  <1>19. /\ This' = This /\ This \in Nat
         /\ lastUse' \in [Surface -> Nat]
         /\ \A u \in Surface : lastUse'[u] = IF u = t THEN This ELSE lastUse[u]
    BY <1>0, <1>2 DEF Used, FrameTypeOK, This, accountVars, AccountTypeOK
  <1>20. FrameTypeOK'
    <2>1. bound' \subseteq live' /\ frameLease' \in leased' \union {0} /\ deferred' \subseteq Image
          /\ recording' \in BOOLEAN
      BY <1>0, <1>1, <1>2, <1>4, <1>6, <1>7 DEF FrameTypeOK, leaseVars
    <2>2. draws' \subseteq [serial : Serial', since : 0 .. MaxReplaced]
      BY <1>0, <1>1, <1>9, SinceFacts DEF FrameTypeOK
    <2>3. QED
      BY <1>19, <2>1, <2>2 DEF FrameTypeOK
  <1>21. InUse'
    <2>1. \A s \in Serial' : Bound(s)' <=> Bound(s) \/ s = new
      BY <1>1, <1>2 DEF Bound, leaseVars
    <2>2. \A s \in Serial : Bound(s) <=> \E d \in draws : d.serial = s
      BY <1>0 DEF InUse
    <2>3. \A s \in Serial' : Bound(s)' <=> \E d \in draws' : d.serial = s
      <3>1. \A d \in draws : d.serial \in Serial
        BY <1>0 DEF FrameTypeOK
      <3>2. ~Bound(new)
        BY <1>0, <1>4, <1>8 DEF Bound, FrameTypeOK, HeldLive
      <3>3. \A s : (\E d \in draws' : d.serial = s) <=> s = new \/ \E d \in draws : d.serial = s
        <4>1. PICK e : e = [serial |-> new, since |-> Since(t)]
          OBVIOUS
        <4>2. e.serial = new /\ draws' = draws \union {e}
          BY <1>1, <4>1
        <4>3. QED
          BY <4>2
      <3>4. QED
        BY <1>8, <1>9, <2>1, <2>2, <3>1, <3>2, <3>3
    <2>4. bound' \intersect retiring' = {}
      BY <1>0, <1>1, <1>4, <1>6, <1>8 DEF InUse
    <2>5. \A s \in bound' : alloc'[s].texture \in Surface => lastUse'[alloc'[s].texture] = This'
      <3>1. \A s \in bound : s \in Serial /\ (alloc[s].texture \in Surface => lastUse[alloc[s].texture] = This)
        BY <1>0, <1>4 DEF InUse
      <3>2. bound' = bound \union {new} /\ alloc'[new].texture = t
        BY <1>1, <1>9
      <3>3. QED
        BY <1>9, <1>19, <3>1, <3>2
    <2>6. QED
      BY <1>0, <1>2, <2>3, <2>4, <2>5 DEF InUse, leaseVars
  <1>22. Fresh'
    <2>1. \A u \in Texture : Picture(u)' = Picture(u)
      BY <1>2 DEF Picture
    <2>2. /\ resident'[t] = new
          /\ \A u \in Texture : u # t /\ resident'[u] # 0 =>
               resident'[u] = resident[u] /\ resident[u] \in Serial /\ alloc'[resident[u]] = alloc[resident[u]]
      BY <1>0, <1>1, <1>4, <1>9 DEF ResidentsLive
    <2>3. \A u \in Texture : resident'[u] # 0 =>
            \/ alloc'[resident'[u]].pixels = Picture(u)'
            \/ u \notin Surface /\ ImageOf[u] \in deferred'
      BY <1>0, <1>2, <1>9, <2>1, <2>2 DEF Fresh
    <2>4. \A d \in draws : d.serial \in Serial /\ alloc'[d.serial] = alloc[d.serial]
                           /\ alloc[d.serial].texture \in Texture /\ d.since \in 0 .. MaxReplaced
      BY <1>0, <1>3, <1>9 DEF FrameTypeOK
    <2>5. \A j \in deferred' : \E d \in draws' : ShowsImage(d.serial, j)'
      <3>1. \A d \in draws : \A j : ShowsImage(d.serial, j)' <=> ShowsImage(d.serial, j)
        BY <2>4 DEF ShowsImage, Of
      <3>2. QED
        BY <1>0, <1>1, <1>2, <3>1 DEF Fresh
    <2>6. ASSUME NEW d \in draws'
          PROVE  /\ alloc'[d.serial].texture \in Texture
                 /\ d.since <= Picture(alloc[d.serial].texture)'
                 /\ \A u \in Texture :
                      resident'[u] # 0 /\ SameImage(u, alloc'[d.serial].texture) => alloc'[resident'[u]].pixels >= d.since
      <3>1. CASE d \in draws
        <4>1. alloc[d.serial].texture \in Texture /\ alloc'[d.serial] = alloc[d.serial]
          BY <2>4, <3>1
        <4>2. d.since <= Picture(alloc[d.serial].texture)
          BY <1>0, <3>1 DEF Fresh
        <4>3. Picture(alloc[d.serial].texture)' = Picture(alloc[d.serial].texture)
          BY <1>2, <4>1 DEF Picture
        <4>4. \A u \in Texture :
                 resident[u] # 0 /\ SameImage(u, alloc[d.serial].texture) => alloc[resident[u]].pixels >= d.since
          BY <1>0, <3>1 DEF Fresh
        <4>5. SameImage(t, alloc[d.serial].texture) => Picture(t) = Picture(alloc[d.serial].texture)
          BY DEF SameImage, Picture
        <4>6. Picture(alloc[d.serial].texture) \in Nat /\ d.since \in Nat
          BY <1>0, <2>4, <3>1, <4>1, ImageFacts
        <4>7. ASSUME NEW u \in Texture, resident'[u] # 0, SameImage(u, alloc[d.serial].texture)
              PROVE  alloc'[resident'[u]].pixels >= d.since
          <5>1. CASE u = t
            BY <1>9, <2>2, <4>2, <4>5, <4>6, <4>7, <5>1
          <5>2. CASE u # t
            BY <2>2, <4>4, <4>7, <5>2
          <5>3. QED
            BY <5>1, <5>2
        <4>8. QED
          BY <4>1, <4>2, <4>3, <4>7
      <3>2. CASE d = [serial |-> new, since |-> Since(t)]
        <4>1. d.serial = new /\ d.since = Since(t)
          BY <3>2
        <4>2. /\ Since(t) <= Picture(t) /\ Since(t) \in Nat /\ Picture(t) \in Nat
              /\ \A u \in Texture : resident[u] # 0 /\ SameImage(u, t) => alloc[resident[u]].pixels >= Since(t)
          BY <1>0, SinceFacts, ImageFacts
        <4>3. alloc'[d.serial].texture = t
          BY <1>9, <4>1
        <4>4. ASSUME NEW u \in Texture, resident'[u] # 0, SameImage(u, t)
              PROVE  alloc'[resident'[u]].pixels >= d.since
          <5>1. CASE u = t
            BY <1>9, <2>2, <4>1, <4>2, <5>1
          <5>2. CASE u # t
            BY <2>2, <4>1, <4>2, <4>4, <5>2
          <5>3. QED
            BY <5>1, <5>2
        <4>5. d.since <= Picture(t)'
          BY <2>1, <4>1, <4>2
        <4>6. QED
          BY <4>3, <4>4, <4>5 DEF Picture
      <3>3. QED
        BY <1>1, <2>6, <3>1, <3>2
    <2>7. QED
      BY <2>3, <2>5, <2>6 DEF Fresh, SameImage
  <1>23. QED
    BY <1>11, <1>12, <1>13, <1>14, <1>15, <1>16, <1>17, <1>18, <1>20, <1>21, <1>22 DEF CacheInv, CacheTypeOK

\* What ends a frame leaves nothing of it but what it has changed of the store.
LEMMA Ending ==
  ASSUME CacheInv, StoreInv', Forgets(deferred), EndRecording, AccountTypeOK', EndedKnown',
         UNCHANGED <<source, alloc, assets, leased>>, dropped' \subseteq leased'
  PROVE  CacheInv'
  <1>0. /\ CacheTypeOK /\ Fresh /\ LeaseTypeOK /\ FrameTypeOK
    BY DEF CacheInv, CacheTypeOK
  <1>1. recording' = FALSE /\ bound' = {} /\ frameLease' = 0 /\ draws' = {} /\ deferred' = {} /\ lastUse' = lastUse
    BY DEF EndRecording
  <1>2. Serial' = Serial /\ Lease' = Lease
    BY DEF Serial, Lease
  <1>3. LeaseTypeOK'
    BY <1>0, <1>2 DEF LeaseTypeOK, Forgets
  <1>4. FrameTypeOK'
    BY <1>0, <1>1 DEF FrameTypeOK
  <1>5. InUse'
    BY <1>1 DEF InUse, Bound
  <1>6. Fresh'
    BY <1>0, <1>1 DEF Fresh, Forgets, Picture
  <1>7. QED
    BY <1>3, <1>4, <1>5, <1>6 DEF CacheInv, CacheTypeOK, StoreInv

LEMMA AbortFrameKeeps ==
  ASSUME CacheInv, AbortFrame, dropped' \subseteq leased'
  PROVE  CacheInv'
  <1>0. /\ CacheTypeOK /\ HeldLive /\ AccountTypeOK /\ FrameTypeOK /\ EndedKnown
    BY DEF CacheInv, CacheTypeOK
  <1>1. /\ Settle(pins, retiring \union Stale(deferred), pending \ Unleased(deferred))
        /\ Forget(deferred) /\ EndRecording
        /\ UNCHANGED <<source, alloc, accountVars, assets, leased>>
    BY DEF AbortFrame
  <1>2. StoreInv' /\ Forgets(deferred)
    <2> PICK images \in SUBSET Image : images = deferred
      BY <1>0 DEF FrameTypeOK
    <2>1. /\ \A n \in DOMAIN residency' : residency'[n].allocations \subseteq live
          /\ residency' = residency
      BY <1>0, <1>1 DEF HeldLive, accountVars
    <2>2. QED
      BY <1>1, <2>1, SameCounts, Forgetting
  <1>3. AccountTypeOK' /\ EndedKnown'
    BY <1>0, <1>1 DEF AccountTypeOK, EndedKnown, accountVars, Serial
  <1>4. QED
    BY <1>1, <1>2, <1>3, Ending

LEMMA SealFrameKeeps ==
  ASSUME CacheInv, SealFrame, dropped' \subseteq leased', EndedKnown',
         retirements' \in Seq([token : 1 .. frames', presented : BOOLEAN])
  PROVE  /\ CacheInv'
         /\ SettlesTo([s \in Serial |-> pins[s] + IF s \in bound THEN 1 ELSE 0],
                      retiring \union Stale(deferred), pending \ Unleased(deferred))
  <1> DEFINE P == [s \in Serial |-> pins[s] + IF s \in bound THEN 1 ELSE 0]
  <1>0. /\ CacheTypeOK /\ PinsCount /\ HeldLive /\ StoreTypeOK /\ AccountTypeOK /\ FrameTypeOK
    BY DEF CacheInv, CacheTypeOK
  <1>1. /\ recording /\ frames' = This
        /\ residency' = [n \in DOMAIN residency \union {This} |->
                           IF n = This THEN [allocations |-> bound, uploads |-> Uploads] ELSE residency[n]]
        /\ Settle(P, retiring \union Stale(deferred), pending \ Unleased(deferred))
        /\ Forget(deferred) /\ EndRecording
        /\ UNCHANGED <<source, alloc, assets, leased>>
    BY DEF SealFrame
  <1>2. This \in Nat /\ This = frames + 1 /\ frames \in Nat /\ This \notin DOMAIN residency
        /\ DOMAIN residency \subseteq 1 .. frames
    BY <1>0 DEF AccountTypeOK, This
  <1>3. bound \subseteq live /\ live \subseteq Serial /\ Uploads \subseteq Serial /\ deferred \in SUBSET Image
    BY <1>0 DEF FrameTypeOK, StoreTypeOK, Uploads
  <1>4. /\ DOMAIN residency' = DOMAIN residency \union {This}
        /\ residency'[This].allocations = bound
        /\ residency'[This] \in [allocations : SUBSET Serial, uploads : SUBSET Serial]
        /\ \A n \in DOMAIN residency : residency'[n] = residency[n]
    BY <1>1, <1>2, <1>3
  <1>5. ASSUME NEW s \in Serial
        PROVE  /\ IsFiniteSet(Frames(s)') /\ IsFiniteSet(Leases(s)')
               /\ P[s] = Cardinality(Frames(s)') + Cardinality(Leases(s)')
               /\ P[s] \in Nat
    <2>1. Leases(s)' = Leases(s)
      BY <1>1 DEF Leases
    <2>2. Frames(s)' = IF s \in bound THEN Frames(s) \union {This} ELSE Frames(s)
      BY <1>2, <1>4 DEF Frames
    <2>3. /\ IsFiniteSet(Frames(s)) /\ Cardinality(Frames(s)) \in Nat /\ This \notin Frames(s)
          /\ IsFiniteSet(Leases(s)) /\ Cardinality(Leases(s)) \in Nat
      BY <1>0, <1>2, Finite DEF Frames
    <2>4. IsFiniteSet(Frames(s) \union {This}) /\ Cardinality(Frames(s) \union {This}) = Cardinality(Frames(s)) + 1
      BY <2>3, FS_AddElement
    <2>5. pins[s] = Cardinality(Frames(s)) + Cardinality(Leases(s)) /\ P[s] = pins[s] + IF s \in bound THEN 1 ELSE 0
      BY <1>0 DEF PinsCount
    <2> HIDE DEF P
    <2>6. CASE s \in bound
      BY <2>1, <2>2, <2>3, <2>4, <2>5, <2>6
    <2>7. CASE s \notin bound
      BY <2>1, <2>2, <2>3, <2>5, <2>7
    <2>8. QED
      BY <2>6, <2>7
  <1>6. P \in [Serial -> Nat] /\ Counts(P)
    BY <1>5 DEF Counts
  <1>7. \A n \in DOMAIN residency' : residency'[n].allocations \subseteq live
    BY <1>0, <1>3, <1>4 DEF HeldLive
  <1> HIDE DEF P
  <1>8. /\ StoreInv' /\ Forgets(deferred)
        /\ SettlesTo(P, retiring \union Stale(deferred), pending \ Unleased(deferred))
    <2> PICK images \in SUBSET Image : images = deferred
      BY <1>3
    <2>1. QED
      BY <1>1, <1>6, <1>7, Forgetting
  <1>9. AccountTypeOK'
    <2>1. Serial' = Serial
      BY <1>1 DEF Serial
    <2>2. DOMAIN residency' \subseteq 1 .. frames' /\ frames' \in Nat
      BY <1>1, <1>2, <1>4
    <2>3. QED
      BY <1>0, <1>4, <2>1, <2>2 DEF AccountTypeOK
  <1>10. CacheInv'
    BY <1>1, <1>8, <1>9, Ending
  <1>11. QED
    BY <1>8, <1>10 DEF P

LEMMA CacheStarts == CacheInit => CacheInv
  <1> SUFFICES ASSUME CacheInit PROVE CacheInv
    OBVIOUS
  <1>1. /\ source = [i \in Image |-> 0]
        /\ resident = [t \in Texture |-> 0]
        /\ alloc = <<>> /\ pins = <<>>
        /\ live = {} /\ retiring = {} /\ pending = {} /\ free = Slot
        /\ frames = 0 /\ residency = <<>> /\ retirements = <<>>
        /\ assets = <<>> /\ leased = {} /\ current = {} /\ dropped = {}
        /\ recording = FALSE /\ bound = {} /\ frameLease = 0 /\ draws = {} /\ deferred = {}
        /\ lastUse = [t \in Surface |-> 0]
    BY DEF CacheInit
  <1>2. Serial = {} /\ DOMAIN residency = {} /\ Lease = {} /\ DOMAIN retirements = {}
    BY <1>1 DEF Serial, Lease
  <1>3. StoreTypeOK
    BY <1>1, <1>2, TextureCacheAssumption DEF StoreTypeOK
  <1>4. AccountTypeOK
    <2>1. PICK S : S = [token : 1 .. frames, presented : BOOLEAN]
      OBVIOUS
    <2>2. retirements \in Seq(S)
      BY <1>1
    <2>3. QED
      BY <1>1, <1>2, <2>1, <2>2 DEF AccountTypeOK
  <1>8. LeaseTypeOK
    <2>1. PICK S : S = SUBSET Serial
      OBVIOUS
    <2>2. assets \in Seq(S)
      BY <1>1
    <2>3. QED
      BY <1>1, <1>2, <2>1, <2>2 DEF LeaseTypeOK
  <1>9. FrameTypeOK
    BY <1>1, <1>2, TextureCacheAssumption DEF FrameTypeOK
  <1>5. PinsCount /\ SlotsApart /\ Settled /\ HeldLive /\ ResidentsLive /\ EndedKnown
    BY <1>1, <1>2 DEF PinsCount, SlotsApart, Settled, HeldLive, ResidentsLive, EndedKnown
  <1>6. InUse /\ Fresh
    BY <1>1, <1>2 DEF InUse, Fresh
  <1>7. QED
    BY <1>3, <1>4, <1>5, <1>6, <1>8, <1>9 DEF CacheInv, CacheTypeOK

-----------------------------------------------------------------------------
(***************************************************************************)
(* The frames that use it.                                                 *)
(***************************************************************************)
(* The invariant. *)

\* A frame is recorded while the main thread records, and uses no lease but the
\* catalog's.
Records ==
  /\ recording <=> ui = "recording"
  /\ frameLease # 0 => frameLease = catalog

\* Where the tokens of sealed frames are.
Ended == {retirements[k].token : k \in DOMAIN retirements}
Once ==
  /\ \A j, k \in DOMAIN retirements : retirements[j].token = retirements[k].token => j = k
  /\ DOMAIN residency = Ended \union ({newest.token, packet.token} \ {0})
  /\ Ended \intersect {newest.token, packet.token} = {}

\* What both threads leave behind on their way.
Stages ==
  /\ newest.token = packet.token => newest.token = 0
  /\ newest.visual <=> newest.token # 0
  /\ worker \in {"begins", "submits", "presents", "skips", "retires", "retiresSkipped"}
       => packet.token # 0
  /\ worker \in {"waiting", "exited"} => packet = NoPacket
  /\ worker \in {"settles", "reads", "recycles", "reports", "stops"} => packet.token = 0
  /\ stopping => newest = NoPacket
  /\ worker = "exited" => stopping
  /\ ui \in {"joining", "closing", "closed"} => stopping
  /\ ui \in {"closing", "closed"} =>
       worker = "exited" /\ DOMAIN residency = {} /\ DOMAIN retirements = {}
  /\ ui = "closed" => leased \subseteq {catalog}

\* A lease has a holder or is queued.
LeasesHeld == Holders \intersect dropped = {} /\ leased \subseteq Holders \union dropped

Base == TypeOK /\ CacheInv /\ Records /\ Once /\ Stages /\ LeasesHeld

-----------------------------------------------------------------------------
(* Packets and retirements. *)

LEMMA NoPacketFacts ==
  /\ NoPacket.visual = FALSE /\ NoPacket.token = 0 /\ NoPacket.draws = {} /\ NoPacket.uploads = {}
  /\ NoPacket.lease = 0 /\ NoPacket.readback = FALSE /\ NoPacket.boundary = FALSE
  BY DEF NoPacket

LEMMA PacketFacts ==
  ASSUME TypeOK
  PROVE  /\ frames \in Nat
         /\ newest.token \in 0 .. frames /\ packet.token \in 0 .. frames
         /\ newest.lease \in leased \union {0} /\ packet.lease \in leased \union {0}
         /\ newest.uploads \subseteq Serial /\ packet.uploads \subseteq Serial
         /\ newest.draws \subseteq [serial : Serial, since : 0 .. MaxReplaced]
         /\ packet.draws \subseteq [serial : Serial, since : 0 .. MaxReplaced]
         /\ newest.visual \in BOOLEAN /\ newest.readback \in BOOLEAN /\ newest.boundary \in BOOLEAN
         /\ packet.visual \in BOOLEAN /\ packet.readback \in BOOLEAN /\ packet.boundary \in BOOLEAN
         /\ frameLease \in leased \union {0} /\ catalog \in leased \union {0}
         /\ 0 \notin leased /\ Holders \subseteq leased
  <1>1. frames \in Nat /\ frameLease \in leased \union {0} /\ catalog \in leased \union {0}
    BY DEF TypeOK, CacheTypeOK, AccountTypeOK, FrameTypeOK
  <1>2. 0 \notin leased
    BY DEF TypeOK, CacheTypeOK, LeaseTypeOK, Lease
  <1>3. PacketOK(newest) /\ PacketOK(packet)
    BY DEF TypeOK
  <1>4. QED
    BY <1>1, <1>2, <1>3 DEF PacketOK, Holders

\* What RetireFrame makes of the queue.
Queued(p, b) ==
  /\ retirements' \in Seq([token : 1 .. frames', presented : BOOLEAN])
  /\ Ended' = Ended \union ({p.token} \ {0})
  /\ \A k \in DOMAIN retirements' :
       \/ k \in DOMAIN retirements /\ retirements'[k] = retirements[k]
       \/ /\ p.token # 0 /\ retirements'[k] = [token |-> p.token, presented |-> b]
          /\ k \notin DOMAIN retirements /\ k = Len(retirements) + 1

LEMMA Queueing ==
  ASSUME AccountTypeOK, frames' \in Nat, frames <= frames',
         NEW p, p.token \in 0 .. frames', NEW b \in BOOLEAN,
         retirements' = retirements \o Retirement(p, b)
  PROVE  Queued(p, b)
  <1>1. PICK S : S = [token : 1 .. frames', presented : BOOLEAN]
    OBVIOUS
  <1>2. retirements \in Seq(S) /\ Len(retirements) \in Nat /\ DOMAIN retirements = 1 .. Len(retirements)
    <2>1. PICK T : T = [token : 1 .. frames, presented : BOOLEAN]
      OBVIOUS
    <2>2. retirements \in Seq(T) /\ T \subseteq S
      BY <1>1, <2>1 DEF AccountTypeOK
    <2>3. Len(retirements) \in Nat /\ retirements \in [1 .. Len(retirements) -> T]
      BY <2>2, LenProperties
    <2>4. retirements \in [1 .. Len(retirements) -> S]
      BY <2>2, <2>3
    <2>5. retirements \in Seq(S)
      BY <2>3, <2>4, SeqDef
    <2>6. QED
      BY <2>3, <2>5
  <1>3. CASE p.token = 0
    <2>1. retirements' = retirements
      BY <1>2, <1>3, ConcatEmptySeq DEF Retirement
    <2>2. QED
      BY <1>1, <1>2, <1>3, <2>1 DEF Queued, Ended
  <1>4. CASE p.token # 0
    <2> DEFINE r == [token |-> p.token, presented |-> b]
    <2>1. r \in S /\ retirements' = retirements \o <<r>>
      BY <1>1, <1>4 DEF Retirement
    <2>2. r.token = p.token
      OBVIOUS
    <2> HIDE DEF r
    <2>3. retirements \o <<r>> = Append(retirements, r)
      BY <1>2, <2>1, AppendIsConcat
    <2>4. /\ Append(retirements, r) \in Seq(S)
          /\ DOMAIN Append(retirements, r) = (1 .. Len(retirements)) \union {Len(retirements) + 1}
          /\ \A i \in 1 .. Len(retirements) : Append(retirements, r)[i] = retirements[i]
          /\ Append(retirements, r)[Len(retirements) + 1] = r
      BY <1>2, <2>1, Appended
    <2>5. /\ retirements' \in Seq(S)
          /\ DOMAIN retirements' = DOMAIN retirements \union {Len(retirements) + 1}
          /\ \A i \in DOMAIN retirements : retirements'[i] = retirements[i]
          /\ retirements'[Len(retirements) + 1] = r
          /\ Len(retirements) + 1 \notin DOMAIN retirements
      BY <1>2, <2>1, <2>3, <2>4
    <2>6. Ended' = Ended \union {p.token}
      BY <2>2, <2>5 DEF Ended
    <2>7. QED
      BY <1>1, <1>4, <2>5, <2>6 DEF Queued, r
  <1>5. QED
    BY <1>3, <1>4

LEMMA StayingQueued ==
  ASSUME AccountTypeOK, UNCHANGED <<frames, retirements>>
  PROVE  Ended' = Ended /\ retirements' \in Seq([token : 1 .. frames', presented : BOOLEAN])
  BY DEF AccountTypeOK, Ended

LEMMA Retiring ==
  ASSUME Base, NEW p, NEW b \in BOOLEAN, retirements' = retirements \o Retirement(p, b),
         frames' = frames, residency' = residency, p.token \in {newest.token, packet.token},
         {newest'.token, packet'.token} \ {0} = ({newest.token, packet.token} \ {0}) \ {p.token}
  PROVE  Queued(p, b) /\ Once' /\ EndedKnown'
  <1>1. AccountTypeOK /\ frames \in Nat /\ p.token \in 0 .. frames'
    BY PacketFacts DEF Base, TypeOK, CacheTypeOK
  <1>2. Queued(p, b)
    BY <1>1, Queueing, SMTT(20)
  <1>3. Once /\ 0 \notin Ended
    <2>1. Once
      BY DEF Base
    <2>2. \A k \in DOMAIN retirements : retirements[k].token \in DOMAIN residency
      BY <2>1 DEF Once, Ended
    <2>3. 0 \notin DOMAIN residency
      BY <1>1 DEF AccountTypeOK
    <2>4. QED
      BY <2>1, <2>2, <2>3 DEF Ended
  <1>4. Ended' = Ended \union ({p.token} \ {0})
    BY <1>2 DEF Queued
  <1>5. \A k \in DOMAIN retirements' :
          \/ k \in DOMAIN retirements /\ retirements'[k] = retirements[k]
          \/ p.token # 0 /\ retirements'[k].token = p.token /\ k = Len(retirements) + 1
    BY <1>2 DEF Queued
  <1>6. p.token \notin Ended
    BY <1>3 DEF Once
  <1>7. \A k \in DOMAIN retirements : retirements[k].token \in Ended
    BY DEF Ended
  <1>8. \A j, k \in DOMAIN retirements' : retirements'[j].token = retirements'[k].token => j = k
    BY <1>3, <1>5, <1>6, <1>7 DEF Once
  <1>9. Once'
    <2>1. PICK T, U : T = {newest.token, packet.token} /\ U = {newest'.token, packet'.token}
      OBVIOUS
    <2>2. DOMAIN residency = Ended \union (T \ {0}) /\ Ended \intersect T = {} /\ p.token \in T
      BY <1>3, <2>1 DEF Once
    <2>3. U \ {0} = (T \ {0}) \ {p.token}
      BY <2>1
    <2>4. DOMAIN residency' = Ended' \union (U \ {0}) /\ Ended' \intersect U = {}
      BY <1>3, <1>4, <2>2, <2>3
    <2>5. QED
      BY <1>8, <2>1, <2>4 DEF Once
  <1>10. EndedKnown'
    BY <1>9 DEF Once, Ended, EndedKnown
  <1>11. QED
    BY <1>2, <1>9, <1>10

LEMMA Known ==
  ASSUME Once
  PROVE  EndedKnown
  BY DEF Once, Ended, EndedKnown

\* A lease that loses its last holder is queued.
LEMMA Holding ==
  ASSUME Base, Holders' \intersect dropped = {}, leased \subseteq leased',
         leased' \subseteq leased \union Holders', DropLeases
  PROVE  LeasesHeld' /\ dropped' \subseteq leased'
  <1>1. dropped \subseteq leased /\ Holders \subseteq leased
    BY PacketFacts DEF Base, TypeOK, CacheTypeOK, LeaseTypeOK
  <1>2. dropped' = dropped \union (Holders \ Holders')
    BY DEF DropLeases
  <1>3. leased \subseteq Holders \union dropped
    BY DEF Base, LeasesHeld
  <1>4. QED
    BY <1>1, <1>2, <1>3 DEF LeasesHeld

\* The renderer's side of the cache: the queues.
LEMMA QueuesKeep ==
  ASSUME CacheInv,
         UNCHANGED <<source, storeVars, frames, residency, assets, leased, current, frameVars>>,
         retirements' \in Seq([token : 1 .. frames', presented : BOOLEAN]), EndedKnown',
         dropped' \subseteq leased'
  PROVE  CacheInv'
  <1>0. /\ CacheTypeOK /\ InUse /\ Fresh /\ StoreInv
        /\ StoreTypeOK /\ AccountTypeOK /\ LeaseTypeOK /\ FrameTypeOK
    BY DEF CacheInv, CacheTypeOK, StoreInv
  <1>1. StoreInv' /\ Serial' = Serial /\ Lease' = Lease /\ alloc' = alloc /\ live' = live
        /\ resident' = resident /\ retiring' = retiring
    BY <1>0, StoreKept DEF Serial, Lease, storeVars, StoreTypeOK
  <1>2. AccountTypeOK' /\ LeaseTypeOK'
    BY <1>0, <1>1 DEF AccountTypeOK, LeaseTypeOK
  <1>3. FrameTypeOK'
    BY <1>0, <1>1 DEF FrameTypeOK, frameVars
  <1>4. InUse'
    BY <1>0, <1>1 DEF InUse, Bound, This, frameVars
  <1>5. Fresh'
    BY <1>0, <1>1 DEF Fresh, Picture, ShowsImage, Of, frameVars
  <1>6. QED
    BY <1>1, <1>2, <1>3, <1>4, <1>5 DEF CacheInv, CacheTypeOK, StoreInv

LEMMA CacheRests == ASSUME CacheInv, UNCHANGED cacheVars PROVE CacheInv'
  <1>1. /\ UNCHANGED <<source, storeVars, frames, residency, assets, leased, current, frameVars>>
        /\ retirements' = retirements /\ dropped' = dropped
    BY DEF cacheVars, accountVars, leaseVars
  <1>2. /\ AccountTypeOK /\ LeaseTypeOK /\ EndedKnown
    BY DEF CacheInv, CacheTypeOK
  <1>3. /\ retirements' \in Seq([token : 1 .. frames', presented : BOOLEAN])
        /\ EndedKnown' /\ dropped' \subseteq leased'
    BY <1>1, <1>2 DEF AccountTypeOK, LeaseTypeOK, EndedKnown
  <1>4. QED
    BY <1>1, <1>3, QueuesKeep

-----------------------------------------------------------------------------
(* Steps that leave the frames where they are. *)

SameFrame(p, q) ==
  /\ p.visual = q.visual /\ p.token = q.token /\ p.draws = q.draws
  /\ p.uploads = q.uploads /\ p.lease = q.lease

\* Neither the cache nor what a packet carries changes; requests may.
Quiet ==
  /\ UNCHANGED <<cacheVars, catalog>>
  /\ SameFrame(newest', newest) /\ SameFrame(packet', packet)

LEMMA QuietKeeps ==
  ASSUME Base, Quiet
  PROVE  CacheInv' /\ Once' /\ LeasesHeld'
  <1>1. CacheInv'
    BY CacheRests DEF Base, Quiet
  <1>2. Once'
    BY DEF Base, Once, Ended, Quiet, SameFrame, cacheVars, accountVars
  <1>3. LeasesHeld'
    <2>1. Holders' = Holders /\ leased' = leased /\ dropped' = dropped
      BY DEF Quiet, SameFrame, Holders, cacheVars, leaseVars, frameVars
    <2>2. QED
      BY <2>1 DEF Base, LeasesHeld
  <1>4. QED
    BY <1>1, <1>2, <1>3

\* The cache changes, and neither the worker nor the packets.
Elsewhere == UNCHANGED <<requestVars, mailVars, workerVars, gpuVars>>

LEMMA ElsewhereTypes ==
  ASSUME TypeOK, CacheTypeOK', ThreadsTypeOK', Elsewhere, frames <= frames', Serial \subseteq Serial',
         newest.lease \in leased' \union {0}, packet.lease \in leased' \union {0},
         catalog' \in leased' \union {0}
  PROVE  TypeOK'
  <1>1. newest' = newest /\ packet' = packet /\ atlas' = atlas /\ canvas' = canvas
    BY DEF Elsewhere, mailVars, workerVars, gpuVars
  <1>2. frames \in Nat /\ frames' \in Nat
    BY DEF TypeOK, CacheTypeOK, AccountTypeOK
  <1>3. PacketOK(newest)' /\ PacketOK(packet)'
    BY <1>1, <1>2 DEF TypeOK, PacketOK
  <1>4. GpuTypeOK'
    BY <1>1, <1>2 DEF TypeOK, GpuTypeOK
  <1>5. QED
    BY <1>3, <1>4 DEF TypeOK

-----------------------------------------------------------------------------
(* The main thread records frames. *)

LEMMA DrainingFacts ==
  ASSUME Base, DrainFrames, ui # "recording", UNCHANGED <<mailVars, workerVars, catalog>>
  PROVE  /\ CacheInv' /\ Once' /\ LeasesHeld' /\ DOMAIN retirements' = {}
         /\ DOMAIN residency' = {newest.token, packet.token} \ {0}
         /\ Serial' = Serial /\ frames' = frames /\ leased' = leased /\ ~recording /\ recording' = recording
         /\ frameLease' = frameLease
  <1>1. ~recording /\ CacheInv /\ Once
    BY DEF Base, Records
  <1>2. /\ residency' = [n \in DOMAIN residency \ Ended |-> residency[n]]
        /\ retirements' = <<>>
        /\ UNCHANGED <<source, resident, alloc, frames, leaseVars, frameVars>>
    BY DEF DrainFrames, Ended
  <1>3. CacheInv'
    BY <1>1, DrainFramesKeeps
  <1>4. DOMAIN retirements' = {} /\ Ended' = {}
    BY <1>2 DEF Ended
  <1>5. newest' = newest /\ packet' = packet /\ catalog' = catalog
    BY DEF mailVars, workerVars
  <1>6. DOMAIN residency' = {newest.token, packet.token} \ {0}
    BY <1>1, <1>2 DEF Once
  <1>7. Once'
    BY <1>4, <1>5, <1>6 DEF Once
  <1>8. LeasesHeld'
    BY <1>2, <1>5 DEF Base, LeasesHeld, Holders, leaseVars, frameVars
  <1>9. QED
    BY <1>1, <1>2, <1>3, <1>4, <1>6, <1>7, <1>8 DEF leaseVars, frameVars, Serial

LEMMA DroppingFacts ==
  ASSUME Base, DrainLeases, ui # "recording", UNCHANGED <<frameVars, mailVars, workerVars, catalog>>
  PROVE  /\ CacheInv' /\ Once' /\ LeasesHeld'
         /\ UNCHANGED <<residency, retirements>>
         /\ Serial' = Serial /\ frames' = frames /\ Holders' = Holders /\ leased' = leased \ dropped
         /\ leased' \subseteq Holders /\ Holders \subseteq leased'
         /\ ~recording /\ recording' = recording /\ frameLease' = frameLease
  <1>1. ~recording /\ CacheInv /\ Once
    BY DEF Base, Records
  <1>2. /\ leased' = leased \ dropped /\ dropped' = {}
        /\ UNCHANGED <<source, resident, alloc, accountVars, assets>>
    BY DEF DrainLeases
  <1>3. CacheInv'
    BY <1>1, DrainLeasesKeeps
  <1>4. newest' = newest /\ packet' = packet /\ catalog' = catalog /\ frameLease' = frameLease
    BY DEF mailVars, workerVars, frameVars
  <1>5. Once'
    BY <1>1, <1>2, <1>4 DEF Once, Ended, accountVars
  <1>6. Holders' = Holders /\ leased' \subseteq Holders
    BY <1>2, <1>4 DEF Base, LeasesHeld, Holders
  <1>7. Holders \subseteq leased'
    BY <1>2, PacketFacts DEF Base, LeasesHeld
  <1>8. LeasesHeld'
    BY <1>2, <1>6 DEF LeasesHeld
  <1>9. QED
    BY <1>1, <1>2, <1>3, <1>4, <1>5, <1>6, <1>7, <1>8 DEF accountVars, frameVars, Serial

LEMMA BeginDrawBase == ASSUME Base, BeginDraw PROVE Base'
  <1>1. /\ ui = "frame" /\ ui' = "draining" /\ DrainFrames
        /\ UNCHANGED <<requests, requestVars, mailVars, workerVars, gpuVars, catalog>>
    BY DEF BeginDraw
  <1>2. /\ CacheInv' /\ Once' /\ LeasesHeld' /\ Serial' = Serial /\ frames' = frames /\ leased' = leased
        /\ ~recording /\ recording' = recording /\ frameLease' = frameLease
    BY <1>1, DrainingFacts
  <1>3. ThreadsTypeOK'
    BY <1>1, <1>2 DEF Base, TypeOK, ThreadsTypeOK, requestVars, mailVars, workerVars
  <1>4. TypeOK'
    BY <1>1, <1>2, <1>3, PacketFacts, ElsewhereTypes DEF Base, Elsewhere, CacheInv
  <1>5. Records'
    BY <1>1, <1>2 DEF Base, Records
  <1>6. Stages'
    BY <1>1 DEF Base, Stages, mailVars, workerVars
  <1>7. QED
    BY <1>2, <1>4, <1>5, <1>6 DEF Base

LEMMA FinishDrainingBase == ASSUME Base, FinishDraining PROVE Base'
  <1>1. /\ ui = "draining" /\ ui' = "trimming" /\ DrainLeases
        /\ UNCHANGED <<frameVars, requests, requestVars, mailVars, workerVars, gpuVars, catalog>>
    BY DEF FinishDraining
  <1>2. /\ CacheInv' /\ Once' /\ LeasesHeld' /\ Serial' = Serial /\ frames' = frames
        /\ Holders \subseteq leased'
        /\ ~recording /\ recording' = recording /\ frameLease' = frameLease
    BY <1>1, DroppingFacts
  <1>3. ThreadsTypeOK'
    BY <1>1, <1>2 DEF Base, TypeOK, ThreadsTypeOK, requestVars, mailVars, workerVars
  <1>4. TypeOK'
    BY <1>1, <1>2, <1>3, PacketFacts, ElsewhereTypes DEF Base, Elsewhere, CacheInv, Holders
  <1>5. Records'
    BY <1>1, <1>2 DEF Base, Records
  <1>6. Stages'
    BY <1>1 DEF Base, Stages, mailVars, workerVars
  <1>7. QED
    BY <1>2, <1>4, <1>5, <1>6 DEF Base

\* A step of the main thread on the cache that touches no account.
LEMMA RecordingStep ==
  ASSUME Base, CacheInv', Elsewhere, requests' = requests, catalog' = catalog, accountVars' = accountVars,
         leased' = leased, dropped' = dropped, Holders' = Holders, Serial \subseteq Serial',
         ui \in {"frame", "trimming", "recording"}, ui' \in {"frame", "recording"}, Records'
  PROVE  Base'
  <1>1. /\ newest' = newest /\ packet' = packet /\ stopping' = stopping /\ worker' = worker /\ error' = error
        /\ readback' = readback /\ boundary' = boundary
        /\ frames' = frames /\ residency' = residency /\ retirements' = retirements
    BY DEF Elsewhere, requestVars, mailVars, workerVars, accountVars
  <1>2. ThreadsTypeOK'
    BY <1>1 DEF Base, TypeOK, ThreadsTypeOK
  <1>3. TypeOK'
    BY <1>1, <1>2, PacketFacts, ElsewhereTypes DEF Base, CacheInv
  <1>4. Once' /\ LeasesHeld'
    BY <1>1 DEF Base, Once, Ended, LeasesHeld
  <1>5. Stages'
    BY <1>1 DEF Base, Stages
  <1>6. QED
    BY <1>3, <1>4, <1>5 DEF Base

LEMMA StartRecordingBase == ASSUME Base, StartRecording PROVE Base'
  <1>1. /\ ui = "trimming" /\ ui' = "recording" /\ TrimAndRecord
        /\ UNCHANGED <<requests, requestVars, mailVars, workerVars, gpuVars, catalog>>
    BY DEF StartRecording
  <1>2. ~recording /\ CacheInv
    BY <1>1 DEF Base, Records
  <1>3. CacheInv'
    BY <1>1, <1>2, TrimAndRecordKeeps
  <1>4. recording' = TRUE /\ UNCHANGED <<alloc, accountVars, leaseVars, frameLease>>
    BY <1>1 DEF TrimAndRecord
  <1>5. Records'
    BY <1>1, <1>4 DEF Base, Records
  <1>6. Holders' = Holders /\ leased' = leased /\ dropped' = dropped /\ Serial' = Serial
    BY <1>1, <1>4 DEF Holders, leaseVars, mailVars, workerVars, Serial
  <1>7. QED
    BY <1>1, <1>3, <1>4, <1>5, <1>6, RecordingStep DEF Elsewhere

\* What there has been stays: allocations, leases, and what is known of frames.
Grows ==
  /\ Serial \subseteq Serial' /\ \A s \in Serial : alloc'[s] = alloc[s]
  /\ Lease \subseteq Lease' /\ \A l \in Lease : assets'[l] = assets[l]
  /\ \A n \in DOMAIN residency \intersect DOMAIN residency' : residency'[n] = residency[n]

LEMMA AppendKeeps ==
  ASSUME NEW S, NEW f \in Seq(S), NEW x
  PROVE  DOMAIN f \subseteq DOMAIN Append(f, x) /\ \A i \in DOMAIN f : Append(f, x)[i] = f[i]
  <1>1. PICK T : T = S \union {x}
    OBVIOUS
  <1>2. Len(f) \in Nat /\ DOMAIN f = 1 .. Len(f) /\ f \in [1 .. Len(f) -> S]
    BY LenProperties
  <1>3. f \in [1 .. Len(f) -> T]
    BY <1>1, <1>2
  <1>4. f \in Seq(T) /\ x \in T
    BY <1>1, <1>2, <1>3, SeqDef
  <1>5. /\ DOMAIN Append(f, x) = (1 .. Len(f)) \union {Len(f) + 1}
        /\ \A i \in 1 .. Len(f) : Append(f, x)[i] = f[i]
    BY <1>4, Appended
  <1>6. QED
    BY <1>2, <1>5

LEMMA DrawNewGrows ==
  ASSUME StoreTypeOK, NEW t, DrawNew(t)
  PROVE  Grows
  <1>1. PICK S : S = [texture : Texture, slot : Slot, pixels : 0 .. MaxReplaced]
    OBVIOUS
  <1>2. alloc \in Seq(S)
    BY <1>1 DEF StoreTypeOK
  <1>3. PICK x : alloc' = Append(alloc, x)
    BY DEF DrawNew
  <1>4. DOMAIN alloc \subseteq DOMAIN alloc' /\ \A s \in DOMAIN alloc : alloc'[s] = alloc[s]
    BY <1>2, <1>3, AppendKeeps
  <1>5. assets' = assets /\ residency' = residency
    BY DEF DrawNew, leaseVars, accountVars
  <1>6. QED
    BY <1>4, <1>5 DEF Grows, Serial, Lease

LEMMA CreateLeaseGrows ==
  ASSUME LeaseTypeOK, CreateLease
  PROVE  /\ Grows
         /\ Len(assets') = Len(assets) + 1 /\ Len(assets) \in Nat /\ Len(assets') \notin Lease
         /\ frameLease' = Len(assets') /\ leased' = leased \union {Len(assets')}
  <1>1. PICK S : S = SUBSET Serial
    OBVIOUS
  <1>2. assets \in Seq(S)
    BY <1>1 DEF LeaseTypeOK
  <1>3. PICK x : /\ x = {resident[t] : t \in Catalog} /\ assets' = Append(assets, x)
                 /\ leased' = leased \union {Len(assets) + 1} /\ frameLease' = Len(assets) + 1
                 /\ x \subseteq bound
    BY DEF CreateLease
  <1>4. DOMAIN assets \subseteq DOMAIN assets' /\ \A l \in DOMAIN assets : assets'[l] = assets[l]
    BY <1>2, <1>3, AppendKeeps
  <1>5. alloc' = alloc /\ residency' = residency
    BY DEF CreateLease, accountVars
  <1>6. PICK T : T = S \union {x}
    OBVIOUS
  <1>7. Len(assets) \in Nat /\ DOMAIN assets = 1 .. Len(assets) /\ assets \in [1 .. Len(assets) -> S]
    BY <1>2, LenProperties
  <1>8. assets \in [1 .. Len(assets) -> T]
    BY <1>6, <1>7
  <1>9. assets \in Seq(T) /\ x \in T
    BY <1>6, <1>7, <1>8, SeqDef
  <1>10. Len(Append(assets, x)) = Len(assets) + 1
    BY <1>9, AppendProperties
  <1>11. QED
    BY <1>3, <1>4, <1>5, <1>7, <1>10 DEF Grows, Serial, Lease

LEMMA PaintBase == ASSUME Base, Paint PROVE Base' /\ Grows
  <1>1. PICK t \in Texture : DrawResident(t) \/ DrawNew(t)
    BY DEF Paint
  <1>2. /\ ui = "recording" /\ ui' = ui /\ requests' = requests
        /\ Elsewhere /\ catalog' = catalog
    BY DEF Paint, uiVars, Elsewhere
  <1>3. CacheInv'
    BY <1>1, DrawResidentKeeps, DrawNewKeeps DEF Base
  <1>4. UNCHANGED <<accountVars, leaseVars, recording, frameLease>>
    BY <1>1 DEF DrawResident, DrawNew
  <1>5. Grows
    <2>1. CASE DrawResident(t)
      BY <2>1 DEF DrawResident, Grows, Serial, Lease, storeVars, leaseVars, accountVars
    <2>2. CASE DrawNew(t)
      BY <2>2, DrawNewGrows DEF Base, CacheInv, CacheTypeOK
    <2>3. QED
      BY <1>1, <2>1, <2>2
  <1>6. Records'
    BY <1>2, <1>4 DEF Base, Records
  <1>7. Holders' = Holders /\ leased' = leased /\ dropped' = dropped /\ Serial \subseteq Serial'
    BY <1>2, <1>4, <1>5 DEF Holders, leaseVars, mailVars, workerVars, Elsewhere, Grows
  <1>8. QED
    BY <1>2, <1>3, <1>4, <1>5, <1>6, <1>7, RecordingStep

LEMMA UseCatalogBase == ASSUME Base, UseCatalog PROVE Base'
  <1>1. /\ ui = "recording" /\ ui' = ui /\ requests' = requests /\ Elsewhere /\ catalog' = catalog
        /\ catalog \in current /\ BindLease(catalog)
    BY DEF UseCatalog, uiVars, Elsewhere
  <1>2. frameLease' = catalog /\ catalog # 0 /\ frameLease \in {0, catalog} /\ recording' = recording
        /\ UNCHANGED <<storeVars, accountVars, leaseVars>>
    <2>1. current \subseteq Lease /\ 0 \notin Lease
      BY DEF Base, TypeOK, CacheTypeOK, LeaseTypeOK, Lease
    <2>2. QED
      BY <1>1, <2>1 DEF BindLease, Base, Records
  <1>3. CacheInv'
    <2>1. PICK l : l = catalog
      OBVIOUS
    <2>2. CacheInv /\ BindLease(l) /\ frameLease \in {0, l} /\ l # 0
      BY <1>1, <1>2, <2>1 DEF Base
    <2>3. QED
      BY <2>2, BindLeaseKeeps
  <1>4. Records'
    BY <1>1, <1>2 DEF Base, Records
  <1>5. Holders' = Holders /\ leased' = leased /\ dropped' = dropped /\ Serial' = Serial
    BY <1>1, <1>2 DEF Holders, leaseVars, mailVars, workerVars, Elsewhere, Serial, storeVars
  <1>6. QED
    BY <1>1, <1>2, <1>3, <1>4, <1>5, RecordingStep

LEMMA RebuildCatalogBase == ASSUME Base, RebuildCatalog PROVE Base'
  <1>1. /\ ui = "recording" /\ ui' = ui /\ requests' = requests /\ Elsewhere
        /\ catalog \notin current /\ \A t \in Catalog : resident[t] # 0
        /\ CreateLease /\ catalog' = Len(assets') /\ DropLeases
    BY DEF RebuildCatalog, uiVars, Elsewhere
  <1>0. CacheInv /\ InUse /\ LeaseTypeOK /\ TypeOK /\ Records /\ LeasesHeld
    BY DEF Base, CacheInv, CacheTypeOK
  <1>2. frameLease = 0
    BY <1>0, <1>1 DEF InUse, Records
  <1>3. /\ Len(assets') = Len(assets) + 1 /\ Len(assets) \in Nat /\ Len(assets') \notin Lease
        /\ frameLease' = Len(assets') /\ leased' = leased \union {Len(assets')}
        /\ Grows
    BY <1>0, <1>1, CreateLeaseGrows
  <1>4. recording' = recording /\ accountVars' = accountVars
    BY <1>1 DEF CreateLease
  <1>5. newest' = newest /\ packet' = packet /\ worker' = worker
    BY <1>1 DEF Elsewhere, mailVars, workerVars
  <1>6. Holders' = ({newest.lease, packet.lease} \ {0}) \union {Len(assets')}
    BY <1>1, <1>3, <1>5 DEF Holders
  <1>7. Holders' \intersect dropped = {} /\ leased' \subseteq leased \union Holders' /\ leased \subseteq leased'
    <2>1. dropped \subseteq Lease
      BY <1>0 DEF LeaseTypeOK
    <2>2. QED
      BY <1>0, <1>3, <1>6, <2>1 DEF LeasesHeld, Holders
  <1>8. LeasesHeld' /\ dropped' \subseteq leased'
    BY <1>1, <1>7, Holding
  <1>9. CacheInv'
    BY <1>0, <1>1, <1>2, <1>8, CreateLeaseKeeps
  <1>10. Records'
    BY <1>0, <1>1, <1>3, <1>4 DEF Records
  <1>11. ThreadsTypeOK'
    BY <1>0, <1>1, <1>4 DEF TypeOK, ThreadsTypeOK, Elsewhere, requestVars, mailVars, workerVars, accountVars
  <1>12. TypeOK'
    <2>1. frames' = frames /\ frames \in Nat /\ Serial \subseteq Serial' /\ CacheTypeOK'
      BY <1>0, <1>3, <1>4, <1>9, PacketFacts DEF accountVars, Grows, CacheInv
    <2>2. /\ newest.lease \in leased' \union {0} /\ packet.lease \in leased' \union {0}
          /\ catalog' \in leased' \union {0}
      BY <1>0, <1>1, <1>3, PacketFacts
    <2>3. QED
      BY <1>0, <1>1, <1>11, <2>1, <2>2, ElsewhereTypes
  <1>13. Once'
    BY <1>4, <1>5 DEF Base, Once, Ended, accountVars
  <1>14. Stages'
    BY <1>1, <1>5 DEF Base, Stages, Elsewhere, mailVars
  <1>15. QED
    BY <1>8, <1>9, <1>10, <1>12, <1>13, <1>14 DEF Base

LEMMA ReplaceBase == ASSUME Base, Replace PROVE Base'
  <1>1. PICK i \in Image : ReplaceImage(i)
    BY DEF Replace
  <1>2. /\ ui \in {"frame", "recording"} /\ ui' = ui /\ requests' = requests /\ Elsewhere
        /\ catalog' = catalog
    BY DEF Replace, uiVars, Elsewhere
  <1>3. CacheInv'
    BY <1>1, ReplaceKeeps DEF Base
  <1>4. /\ UNCHANGED <<alloc, accountVars, assets, leased, dropped, recording, frameLease>>
    BY <1>1 DEF ReplaceImage, Defer, Invalidate, storeVars, leaseVars, frameVars
  <1>5. Records'
    BY <1>2, <1>4 DEF Base, Records
  <1>6. Holders' = Holders /\ leased' = leased /\ dropped' = dropped /\ Serial' = Serial
    BY <1>2, <1>4 DEF Holders, mailVars, workerVars, Elsewhere, Serial
  <1>7. QED
    BY <1>2, <1>3, <1>4, <1>5, <1>6, RecordingStep

\* The packet of a sealed frame.
Sealed == [NoPacket EXCEPT !.visual = TRUE, !.token = This, !.draws = draws,
                           !.uploads = Uploads, !.lease = frameLease]

LEMMA SealedFacts ==
  /\ Sealed.visual = TRUE /\ Sealed.token = This /\ Sealed.draws = draws /\ Sealed.uploads = Uploads
  /\ Sealed.lease = frameLease /\ Sealed.readback = FALSE /\ Sealed.boundary = FALSE
  BY DEF Sealed, NoPacket

LEMMA SealFrameGrows ==
  ASSUME AccountTypeOK, SealFrame
  PROVE  /\ Grows /\ Serial' = Serial /\ frames' = frames + 1 /\ This = frames + 1 /\ frames \in Nat
         /\ DOMAIN residency' = DOMAIN residency \union {This}
         /\ This \notin DOMAIN residency
         /\ residency'[This].allocations = bound /\ residency'[This].uploads = Uploads
         /\ UNCHANGED <<source, alloc, assets, leased>>
         /\ recording' = FALSE /\ frameLease' = 0
  <1>1. /\ frames' = This /\ UNCHANGED <<source, alloc, assets, leased>> /\ EndRecording
        /\ residency' = [n \in DOMAIN residency \union {This} |->
                           IF n = This THEN [allocations |-> bound, uploads |-> Uploads] ELSE residency[n]]
    BY DEF SealFrame
  <1>2. frames \in Nat /\ DOMAIN residency \subseteq 1 .. frames
    BY DEF AccountTypeOK
  <1>3. This = frames + 1 /\ This \notin DOMAIN residency
    BY <1>2 DEF This
  <1>4. /\ DOMAIN residency' = DOMAIN residency \union {This}
        /\ residency'[This].allocations = bound /\ residency'[This].uploads = Uploads
        /\ \A n \in DOMAIN residency : residency'[n] = residency[n]
    BY <1>1, <1>3
  <1>5. QED
    BY <1>1, <1>2, <1>3, <1>4 DEF Grows, Serial, Lease, EndRecording

LEMMA EndDrawBase == ASSUME Base, EndDraw PROVE Base'
  <1>0. /\ CacheInv /\ TypeOK /\ Records /\ Once /\ Stages /\ LeasesHeld
        /\ AccountTypeOK /\ StoreTypeOK /\ FrameTypeOK /\ LeaseTypeOK
    BY DEF Base, CacheInv, CacheTypeOK
  <1>1. /\ ui = "recording" /\ SealFrame /\ DropLeases
        /\ UNCHANGED <<requests, requestVars, stopping, workerVars, gpuVars, catalog>>
        /\ \/ /\ ~stopping /\ Publish(Sealed)
              /\ retirements' = retirements \o Retirement(newest, FALSE) /\ ui' = "frame"
           \/ /\ stopping /\ retirements' = retirements \o Retirement(Sealed, FALSE)
              /\ ui' = "failed" /\ newest' = newest
    BY DEF EndDraw, Sealed
  <1>2. /\ Serial' = Serial /\ frames' = frames + 1 /\ This = frames + 1 /\ frames \in Nat
        /\ DOMAIN residency' = DOMAIN residency \union {This} /\ This \notin DOMAIN residency
        /\ leased' = leased /\ recording' = FALSE /\ frameLease' = 0
    BY <1>0, <1>1, SealFrameGrows
  <1>3. /\ packet' = packet /\ worker' = worker /\ error' = error /\ catalog' = catalog /\ stopping' = stopping
        /\ readback' = readback /\ boundary' = boundary /\ requests' = requests /\ atlas' = atlas /\ canvas' = canvas
    BY <1>1 DEF requestVars, workerVars, gpuVars
  <1>4. PICK q : q = IF stopping THEN Sealed ELSE newest
    OBVIOUS
  <1>a. PICK b \in BOOLEAN : b = FALSE
    OBVIOUS
  <1>5. /\ newest.token \in 0 .. frames /\ packet.token \in 0 .. frames
        /\ q.token \in 0 .. frames' /\ retirements' = retirements \o Retirement(q, b)
    <2>1. newest.token \in 0 .. frames /\ packet.token \in 0 .. frames
      BY <1>0, PacketFacts
    <2>2. q.token \in 0 .. frames + 1
      BY <1>2, <1>4, <2>1, SealedFacts
    <2>3. retirements' = retirements \o Retirement(q, FALSE)
      BY <1>1, <1>4
    <2>4. QED
      BY <1>2, <1>a, <2>1, <2>2, <2>3
  <1>6. Queued(q, b)
    BY <1>0, <1>2, <1>5, Queueing
  <1>7. /\ ~stopping => /\ newest'.visual = TRUE /\ newest'.token = This /\ newest'.draws = draws
                        /\ newest'.uploads = Uploads /\ newest'.lease = frameLease
                        /\ newest'.readback = newest.readback /\ newest'.boundary = newest.boundary
                        /\ newest' = [Sealed EXCEPT !.readback = newest.readback, !.boundary = newest.boundary]
        /\ stopping => newest' = newest /\ newest = NoPacket
    <2>1. CASE stopping
      BY <1>0, <1>1, <2>1 DEF Stages
    <2>2. CASE ~stopping
      <3>1. newest' = [Sealed EXCEPT !.readback = newest.readback, !.boundary = newest.boundary]
        BY <1>1, <2>2 DEF Publish
      <3>2. DOMAIN Sealed = {"visual", "token", "draws", "uploads", "lease", "readback", "boundary"}
        BY DEF Sealed, NoPacket
      <3>3. QED
        BY <2>2, <3>1, <3>2, SealedFacts
    <2>3. QED
      BY <2>1, <2>2
  <1>8. Once'
    <2>1. /\ Ended' = Ended \union ({q.token} \ {0})
          /\ \A k \in DOMAIN retirements' :
               \/ k \in DOMAIN retirements /\ retirements'[k] = retirements[k]
               \/ q.token # 0 /\ retirements'[k].token = q.token /\ k = Len(retirements) + 1
      BY <1>6 DEF Queued
    <2>2. /\ \A k \in DOMAIN retirements : retirements[k].token \in Ended
          /\ Ended \subseteq DOMAIN residency /\ 0 \notin DOMAIN residency
      <3>1. \A k \in DOMAIN retirements : retirements[k].token \in Ended
        BY DEF Ended
      <3>2. Ended \subseteq DOMAIN residency
        BY <1>0 DEF Once
      <3>3. 0 \notin DOMAIN residency
        BY <1>0 DEF AccountTypeOK
      <3>4. QED
        BY <3>1, <3>2, <3>3
    <2>3. q.token \notin Ended
      BY <1>0, <1>2, <1>4, <2>2, SealedFacts DEF Once
    <2>4. \A j, k \in DOMAIN retirements' : retirements'[j].token = retirements'[k].token => j = k
      BY <1>0, <2>1, <2>2, <2>3 DEF Once
    <2>5. DOMAIN residency = Ended \union ({newest.token, packet.token} \ {0})
          /\ Ended \intersect {newest.token, packet.token} = {}
          /\ (newest.token = packet.token => newest.token = 0)
      BY <1>0 DEF Once, Stages
    <2>6. CASE stopping
      <3>1. q.token = This /\ newest'.token = 0 /\ newest.token = 0
        BY <1>4, <1>7, <2>6, SealedFacts, NoPacketFacts
      <3>2. DOMAIN residency' = Ended' \union ({newest'.token, packet'.token} \ {0})
        BY <1>2, <1>3, <2>1, <2>5, <3>1
      <3>3. Ended' \intersect {newest'.token, packet'.token} = {}
        BY <1>2, <1>3, <1>5, <2>1, <2>2, <2>5, <3>1
      <3>4. QED
        BY <2>4, <3>2, <3>3 DEF Once
    <2>7. CASE ~stopping
      <3>1. q.token = newest.token /\ newest'.token = This
        BY <1>4, <1>7, <2>7
      <3>2. DOMAIN residency' = Ended' \union ({newest'.token, packet'.token} \ {0})
        BY <1>2, <1>3, <2>1, <2>5, <3>1
      <3>3. Ended' \intersect {newest'.token, packet'.token} = {}
        BY <1>2, <1>3, <1>5, <2>1, <2>2, <2>5, <3>1
      <3>4. QED
        BY <2>4, <3>2, <3>3 DEF Once
    <2>8. QED
      BY <2>6, <2>7
  <1>9. Holders' \subseteq Holders
    BY <1>2, <1>3, <1>7 DEF Holders
  <1>10. LeasesHeld' /\ dropped' \subseteq leased'
    BY <1>0, <1>1, <1>2, <1>9, Holding DEF LeasesHeld
  <1>11. CacheInv'
    BY <1>0, <1>1, <1>6, <1>8, <1>10, Known, SealFrameKeeps DEF Queued, Once, Ended, EndedKnown
  <1>12. Records'
    BY <1>1, <1>2 DEF Records
  <1>13. ThreadsTypeOK'
    <2>1. ui' \in {"frame", "failed"}
      BY <1>1
    <2>2. /\ readback \in [is : Standing, shows : 0 .. frames', wants : 0 .. frames']
          /\ requests \in 0 .. MaxRequests /\ boundary \in Standing
          /\ stopping \in BOOLEAN /\ error \in BOOLEAN
      BY <1>0, <1>2 DEF TypeOK, ThreadsTypeOK
    <2>3. QED
      BY <1>0, <1>3, <2>1, <2>2 DEF TypeOK, ThreadsTypeOK
  <1>14. PacketOK(newest)' /\ PacketOK(packet)'
    <2>1. PacketOK(packet)'
      BY <1>0, <1>2, <1>3 DEF TypeOK, PacketOK
    <2>2. CASE stopping
      <3>1. newest' = newest /\ PacketOK(newest)
        BY <1>0, <1>7, <2>2 DEF TypeOK
      <3>2. PacketOK(newest)'
        BY <1>2, <3>1 DEF PacketOK
      <3>3. QED
        BY <2>1, <3>2
    <2>3. CASE ~stopping
      <3>1. /\ draws \in SUBSET [serial : Serial, since : 0 .. MaxReplaced]
            /\ Uploads \in SUBSET Serial /\ frameLease \in leased \union {0} /\ This \in 0 .. frames'
            /\ newest.readback \in BOOLEAN /\ newest.boundary \in BOOLEAN
        BY <1>0, <1>2, PacketFacts DEF FrameTypeOK, Uploads, StoreTypeOK
      <3>2. newest' = [visual |-> TRUE, token |-> This, draws |-> draws, uploads |-> Uploads,
                       lease |-> frameLease, readback |-> newest.readback, boundary |-> newest.boundary]
        BY <1>7, <2>3 DEF Sealed, NoPacket
      <3>3. PacketOK(newest)'
        BY <1>2, <3>1, <3>2 DEF PacketOK
      <3>4. QED
        BY <2>1, <3>3
    <2>4. QED
      BY <2>1, <2>2, <2>3
  <1>15. TypeOK'
    BY <1>0, <1>2, <1>3, <1>11, <1>13, <1>14 DEF TypeOK, GpuTypeOK, CacheInv
  <1>16. Stages'
    <2>1. ui' \in {"frame", "failed"}
      BY <1>1
    <2>2. CASE stopping
      <3>1. newest' = newest /\ newest = NoPacket
        BY <1>7, <2>2
      <3>2. QED
        BY <1>0, <1>3, <2>1, <3>1 DEF Stages
    <2>3. CASE ~stopping
      <3>1. newest'.visual = TRUE /\ newest'.token = frames + 1 /\ packet.token # frames + 1 /\ frames + 1 # 0
        BY <1>2, <1>5, <1>7, <2>3
      <3>2. QED
        BY <1>0, <1>3, <2>1, <2>3, <3>1 DEF Stages
    <2>4. QED
      BY <2>2, <2>3
  <1>17. QED
    BY <1>8, <1>10, <1>11, <1>12, <1>15, <1>16 DEF Base

LEMMA AbortDrawBase == ASSUME Base, AbortDraw PROVE Base'
  <1>0. /\ CacheInv /\ TypeOK /\ Records /\ Once /\ Stages /\ LeasesHeld
    BY DEF Base
  <1>1. /\ ui = "recording" /\ AbortFrame /\ ui' = "failed" /\ DropLeases
        /\ Elsewhere /\ requests' = requests /\ catalog' = catalog
    BY DEF AbortDraw, Elsewhere
  <1>2. /\ UNCHANGED <<source, alloc, accountVars, assets, leased>>
        /\ recording' = FALSE /\ frameLease' = 0
    BY <1>1 DEF AbortFrame, EndRecording
  <1>3. /\ newest' = newest /\ packet' = packet /\ worker' = worker /\ stopping' = stopping
        /\ Serial' = Serial /\ frames' = frames
    BY <1>1, <1>2 DEF Elsewhere, mailVars, workerVars, Serial, accountVars
  <1>4. Holders' \subseteq Holders
    BY <1>1, <1>2, <1>3 DEF Holders
  <1>5. LeasesHeld' /\ dropped' \subseteq leased'
    BY <1>0, <1>1, <1>2, <1>4, Holding DEF LeasesHeld
  <1>6. CacheInv'
    BY <1>0, <1>1, <1>5, AbortFrameKeeps
  <1>7. Records'
    BY <1>1, <1>2 DEF Records
  <1>8. ThreadsTypeOK'
    BY <1>0, <1>1, <1>3 DEF TypeOK, ThreadsTypeOK, Elsewhere, requestVars, mailVars, workerVars
  <1>9. TypeOK'
    <2>1. frames <= frames' /\ Serial \subseteq Serial' /\ CacheTypeOK'
      BY <1>0, <1>3, <1>6, PacketFacts DEF CacheInv
    <2>2. /\ newest.lease \in leased' \union {0} /\ packet.lease \in leased' \union {0}
          /\ catalog' \in leased' \union {0}
      BY <1>0, <1>1, <1>2, PacketFacts
    <2>3. QED
      BY <1>0, <1>1, <1>8, <2>1, <2>2, ElsewhereTypes
  <1>10. Once'
    BY <1>0, <1>2, <1>3 DEF Once, Ended, accountVars
  <1>11. Stages'
    BY <1>0, <1>1, <1>3 DEF Stages
  <1>12. QED
    BY <1>5, <1>6, <1>7, <1>9, <1>10, <1>11 DEF Base

-----------------------------------------------------------------------------
(* The renderer is stopped. *)

LEMMA JoinedBase == ASSUME Base, Joined PROVE Base'
  <1>1. /\ ui = "joining" /\ worker = "exited" /\ ui' = "closing" /\ DrainFrames
        /\ UNCHANGED <<requests, requestVars, mailVars, workerVars, gpuVars, catalog>>
    BY DEF Joined
  <1>2. /\ CacheInv' /\ Once' /\ LeasesHeld' /\ Serial' = Serial /\ frames' = frames /\ leased' = leased
        /\ ~recording /\ recording' = recording /\ frameLease' = frameLease
        /\ DOMAIN retirements' = {} /\ DOMAIN residency' = {newest.token, packet.token} \ {0}
    BY <1>1, DrainingFacts
  <1>3. ThreadsTypeOK'
    BY <1>1, <1>2 DEF Base, TypeOK, ThreadsTypeOK, requestVars, mailVars, workerVars
  <1>4. TypeOK'
    BY <1>1, <1>2, <1>3, PacketFacts, ElsewhereTypes DEF Base, Elsewhere, CacheInv
  <1>5. Records'
    BY <1>1, <1>2 DEF Base, Records
  <1>6. newest.token = 0 /\ packet.token = 0
    BY <1>1, NoPacketFacts DEF Base, Stages
  <1>7. Stages'
    BY <1>1, <1>2, <1>6 DEF Base, Stages, mailVars, workerVars
  <1>8. QED
    BY <1>2, <1>4, <1>5, <1>7 DEF Base

LEMMA ClosedBase == ASSUME Base, Closed PROVE Base'
  <1>1. /\ ui = "closing" /\ ui' = "closed" /\ DrainLeases
        /\ UNCHANGED <<frameVars, requests, requestVars, mailVars, workerVars, gpuVars, catalog>>
    BY DEF Closed
  <1>2. /\ CacheInv' /\ Once' /\ LeasesHeld' /\ Serial' = Serial /\ frames' = frames
        /\ UNCHANGED <<residency, retirements>>
        /\ Holders \subseteq leased' /\ leased' \subseteq Holders
        /\ ~recording /\ recording' = recording /\ frameLease' = frameLease
    BY <1>1, DroppingFacts
  <1>3. ThreadsTypeOK'
    BY <1>1, <1>2 DEF Base, TypeOK, ThreadsTypeOK, requestVars, mailVars, workerVars
  <1>4. TypeOK'
    BY <1>1, <1>2, <1>3, PacketFacts, ElsewhereTypes DEF Base, Elsewhere, CacheInv, Holders
  <1>5. Records'
    BY <1>1, <1>2 DEF Base, Records
  \* Nobody but the catalog holds a lease any more.
  <1>6. Holders \subseteq {catalog}
    <2>1. newest.lease = 0 /\ packet.lease = 0
      BY <1>1, NoPacketFacts DEF Base, Stages
    <2>2. frameLease = 0
      BY <1>2 DEF Base, CacheInv, InUse
    <2>3. QED
      BY <2>1, <2>2 DEF Holders
  <1>7. Stages'
    BY <1>1, <1>2, <1>6 DEF Base, Stages, mailVars, workerVars
  <1>8. QED
    BY <1>2, <1>4, <1>5, <1>7 DEF Base

LEMMA FailWaitersTypes ==
  ASSUME ThreadsTypeOK, frames' = frames, NEW p, FailWaiters(p)
  PROVE  /\ readback' \in [is : Standing, shows : 0 .. frames', wants : 0 .. frames']
         /\ boundary' \in Standing
  BY DEF ThreadsTypeOK, FailWaiters, Standing

LEMMA StopRenderWorkerBase == ASSUME Base, StopRenderWorker PROVE Base'
  <1>0. /\ CacheInv /\ TypeOK /\ Records /\ Once /\ Stages /\ LeasesHeld
    BY DEF Base
  <1>1. /\ ui \in {"frame", "failed"} /\ ui' = "joining" /\ stopping' = TRUE /\ newest' = NoPacket
        /\ FailWaiters(newest) /\ retirements' = retirements \o Retirement(newest, FALSE)
        /\ UNCHANGED <<source, storeVars, frames, residency, assets, leased, current, frameVars,
                       requests, workerVars, gpuVars, catalog>>
        /\ DropLeases
    BY DEF StopRenderWorker
  <1>2. /\ packet' = packet /\ worker' = worker /\ error' = error /\ frameLease' = frameLease
        /\ recording' = recording /\ atlas' = atlas /\ canvas' = canvas /\ Serial' = Serial
    BY <1>1 DEF workerVars, frameVars, gpuVars, storeVars, Serial
  <1>3. newest'.token = 0 /\ newest'.lease = 0 /\ newest'.visual = FALSE
    BY <1>1, NoPacketFacts
  <1>4. Once' /\ EndedKnown' /\ retirements' \in Seq([token : 1 .. frames', presented : BOOLEAN])
    <2>1. PICK p : p = newest
      OBVIOUS
    <2>2. PICK b \in BOOLEAN : b = FALSE
      OBVIOUS
    <2>3. retirements' = retirements \o Retirement(p, b)
      BY <1>1, <2>1, <2>2
    <2>4. {newest'.token, packet'.token} \ {0} = ({newest.token, packet.token} \ {0}) \ {p.token}
      BY <1>0, <1>2, <1>3, <2>1 DEF Stages
    <2>5. Queued(p, b) /\ Once' /\ EndedKnown'
      BY <1>1, <2>1, <2>3, <2>4, Retiring
    <2>6. QED
      BY <2>5 DEF Queued
  <1>5. Holders' \subseteq Holders /\ leased' = leased
    BY <1>1, <1>2, <1>3 DEF Holders
  <1>6. LeasesHeld' /\ dropped' \subseteq leased'
    BY <1>0, <1>1, <1>5, Holding DEF LeasesHeld
  <1>7. CacheInv'
    BY <1>0, <1>1, <1>4, <1>6, QueuesKeep
  <1>8. ThreadsTypeOK'
    <2>1. /\ readback' \in [is : Standing, shows : 0 .. frames', wants : 0 .. frames']
          /\ boundary' \in Standing
      BY <1>0, <1>1, FailWaitersTypes DEF TypeOK
    <2>2. QED
      BY <1>0, <1>1, <1>2, <2>1 DEF TypeOK, ThreadsTypeOK
  <1>9. PacketOK(newest)' /\ PacketOK(packet)'
    BY <1>0, <1>1, <1>2, PacketFacts DEF TypeOK, PacketOK, NoPacket
  <1>10. TypeOK'
    BY <1>0, <1>1, <1>2, <1>7, <1>8, <1>9 DEF TypeOK, GpuTypeOK, CacheInv
  <1>11. Records'
    BY <1>0, <1>1, <1>2 DEF Records
  <1>12. Stages'
    BY <1>0, <1>1, <1>2, <1>3 DEF Stages
  <1>13. QED
    BY <1>4, <1>6, <1>7, <1>10, <1>11, <1>12 DEF Base

LEMMA StopMailboxBase == ASSUME Base, StopMailbox PROVE Base'
  <1>0. /\ CacheInv /\ TypeOK /\ Records /\ Once /\ Stages /\ LeasesHeld
    BY DEF Base
  <1>1. /\ worker = "stops" /\ worker' = "exited" /\ stopping' = TRUE
        /\ newest' = NoPacket /\ packet' = NoPacket
        /\ FailWaiters(newest) /\ retirements' = retirements \o Retirement(newest, FALSE)
        /\ UNCHANGED <<source, storeVars, frames, residency, assets, leased, current, frameVars,
                       uiVars, error, gpuVars, catalog>>
        /\ DropLeases
    BY DEF StopMailbox
  <1>2. /\ frameLease' = frameLease /\ ui' = ui /\ requests' = requests
        /\ recording' = recording /\ atlas' = atlas /\ canvas' = canvas /\ Serial' = Serial
    BY <1>1 DEF uiVars, frameVars, gpuVars, storeVars, Serial
  <1>3. /\ newest'.token = 0 /\ newest'.lease = 0 /\ newest'.visual = FALSE
        /\ packet'.token = 0 /\ packet'.lease = 0 /\ packet.token = 0
    BY <1>0, <1>1, NoPacketFacts DEF Stages
  <1>4. Once' /\ EndedKnown' /\ retirements' \in Seq([token : 1 .. frames', presented : BOOLEAN])
    <2>1. PICK p : p = newest
      OBVIOUS
    <2>2. PICK b \in BOOLEAN : b = FALSE
      OBVIOUS
    <2>3. retirements' = retirements \o Retirement(p, b)
      BY <1>1, <2>1, <2>2
    <2>4. {newest'.token, packet'.token} \ {0} = ({newest.token, packet.token} \ {0}) \ {p.token}
      BY <1>3, <2>1
    <2>5. Queued(p, b) /\ Once' /\ EndedKnown'
      BY <1>1, <2>1, <2>3, <2>4, Retiring
    <2>6. QED
      BY <2>5 DEF Queued
  <1>5. Holders' \subseteq Holders /\ leased' = leased
    BY <1>1, <1>2, <1>3 DEF Holders
  <1>6. LeasesHeld' /\ dropped' \subseteq leased'
    BY <1>0, <1>1, <1>5, Holding DEF LeasesHeld
  <1>7. CacheInv'
    BY <1>0, <1>1, <1>4, <1>6, QueuesKeep
  <1>8. ThreadsTypeOK'
    <2>1. /\ readback' \in [is : Standing, shows : 0 .. frames', wants : 0 .. frames']
          /\ boundary' \in Standing
      BY <1>0, <1>1, FailWaitersTypes DEF TypeOK
    <2>2. QED
      BY <1>0, <1>1, <1>2, <2>1 DEF TypeOK, ThreadsTypeOK
  <1>9. PacketOK(newest)' /\ PacketOK(packet)'
    BY <1>0, <1>1, PacketFacts DEF PacketOK, NoPacket
  <1>10. TypeOK'
    BY <1>0, <1>1, <1>2, <1>7, <1>8, <1>9 DEF TypeOK, GpuTypeOK, CacheInv
  <1>11. Records'
    BY <1>0, <1>1, <1>2 DEF Records
  <1>12. Stages'
    BY <1>0, <1>1, <1>2, <1>3 DEF Stages
  <1>13. QED
    BY <1>4, <1>6, <1>7, <1>10, <1>11, <1>12 DEF Base

-----------------------------------------------------------------------------
(* The render worker. *)

LEMMA WaitTakeNewestBase == ASSUME Base, WaitTakeNewest PROVE Base'
  <1>0. /\ CacheInv /\ TypeOK /\ Records /\ Once /\ Stages /\ LeasesHeld
    BY DEF Base
  <1>1. /\ worker = "waiting" /\ newest # NoPacket /\ packet' = newest /\ newest' = NoPacket
        /\ worker' = (IF newest.visual THEN "begins" ELSE "settles")
        /\ UNCHANGED <<cacheVars, uiVars, requestVars, stopping, error, gpuVars, catalog>>
    BY DEF WaitTakeNewest
  <1>2. /\ frames' = frames /\ residency' = residency /\ retirements' = retirements
        /\ leased' = leased /\ dropped' = dropped /\ frameLease' = frameLease /\ recording' = recording
        /\ Serial' = Serial /\ ui' = ui /\ requests' = requests /\ readback' = readback
        /\ boundary' = boundary /\ atlas' = atlas /\ canvas' = canvas
    BY <1>1 DEF cacheVars, accountVars, leaseVars, frameVars, storeVars, uiVars, requestVars, gpuVars, Serial
  <1>3. packet = NoPacket /\ ~stopping
    BY <1>0, <1>1 DEF Stages
  <1>4. /\ packet.token = 0 /\ packet.lease = 0
        /\ newest'.token = 0 /\ newest'.lease = 0 /\ newest'.visual = FALSE
    BY <1>1, <1>3, NoPacketFacts
  <1>5. CacheInv'
    BY <1>0, <1>1, CacheRests
  <1>6. Once'
    <2>1. {newest'.token, packet'.token} = {newest.token, packet.token}
      BY <1>1, <1>4
    <2>2. PICK T : T = {newest.token, packet.token} /\ T = {newest'.token, packet'.token}
      BY <2>1
    <2>3. DOMAIN residency = Ended \union (T \ {0}) /\ Ended \intersect T = {}
      BY <1>0, <2>2 DEF Once
    <2>4. Ended' = Ended
      BY <1>2 DEF Ended
    <2>5. DOMAIN residency' = Ended' \union (T \ {0}) /\ Ended' \intersect T = {}
      BY <1>2, <2>3, <2>4
    <2>6. \A j, k \in DOMAIN retirements' : retirements'[j].token = retirements'[k].token => j = k
      BY <1>0, <1>2 DEF Once
    <2>7. QED
      BY <2>2, <2>5, <2>6 DEF Once
  <1>7. LeasesHeld'
    <2>1. Holders' = Holders
      BY <1>1, <1>2, <1>4 DEF Holders
    <2>2. QED
      BY <1>0, <1>2, <2>1 DEF LeasesHeld
  <1>8. ThreadsTypeOK'
    BY <1>0, <1>1, <1>2 DEF TypeOK, ThreadsTypeOK
  <1>9. PacketOK(newest)' /\ PacketOK(packet)'
    BY <1>0, <1>1, <1>2, <1>3 DEF TypeOK, PacketOK
  <1>10. TypeOK'
    BY <1>0, <1>1, <1>2, <1>5, <1>8, <1>9 DEF TypeOK, GpuTypeOK, CacheInv
  <1>11. Records'
    BY <1>0, <1>1, <1>2 DEF Records
  <1>12. Stages'
    BY <1>0, <1>1, <1>2, <1>3, <1>4 DEF Stages
  <1>13. QED
    BY <1>5, <1>6, <1>7, <1>10, <1>11, <1>12 DEF Base

\* The packet's frame is retired: Retire and Abandon.
LEMMA RetiringBase ==
  ASSUME Base, NEW b \in BOOLEAN, NEW w,
         worker \notin {"waiting", "exited"},
         w \in {"settles", "reports"}, worker' = w,
         retirements' = retirements \o Retirement(packet, b),
         packet' = [packet EXCEPT !.token = 0],
         UNCHANGED <<source, storeVars, frames, residency, leaseVars, frameVars, uiVars,
                     requestVars, mailVars, error, gpuVars, catalog>>
  PROVE  Base'
  <1>0. /\ CacheInv /\ TypeOK /\ Records /\ Once /\ Stages /\ LeasesHeld
    BY DEF Base
  <1>1. /\ leased' = leased /\ dropped' = dropped /\ frameLease' = frameLease /\ recording' = recording
        /\ Serial' = Serial /\ ui' = ui /\ requests' = requests /\ readback' = readback
        /\ boundary' = boundary /\ atlas' = atlas /\ canvas' = canvas
        /\ newest' = newest /\ stopping' = stopping
        /\ assets' = assets /\ current' = current
    BY DEF leaseVars, frameVars, storeVars, uiVars, requestVars, gpuVars, mailVars, Serial
  <1>2. /\ packet'.token = 0 /\ packet'.lease = packet.lease /\ PacketOK(packet)'
    <2>1. PacketOK(packet) /\ 0 \in 0 .. frames
      BY <1>0, PacketFacts DEF TypeOK
    <2>2. QED
      BY <1>1, <2>1 DEF PacketOK
  <1>3. Once' /\ EndedKnown' /\ retirements' \in Seq([token : 1 .. frames', presented : BOOLEAN])
    <2>1. PICK p : p = packet
      OBVIOUS
    <2>2. retirements' = retirements \o Retirement(p, b)
      BY <2>1
    <2>3. {newest'.token, packet'.token} \ {0} = ({newest.token, packet.token} \ {0}) \ {p.token}
      BY <1>0, <1>1, <1>2, <2>1 DEF Stages
    <2>4. Queued(p, b) /\ Once' /\ EndedKnown'
      BY <2>1, <2>2, <2>3, Retiring
    <2>5. QED
      BY <2>4 DEF Queued
  <1>4. LeasesHeld'
    <2>1. Holders' = Holders
      BY <1>1, <1>2 DEF Holders
    <2>2. QED
      BY <1>0, <1>1, <2>1 DEF LeasesHeld
  <1>5. CacheInv'
    <2>1. dropped' \subseteq leased'
      BY <1>0, <1>1 DEF CacheInv, CacheTypeOK, LeaseTypeOK
    <2>2. QED
      BY <1>0, <1>1, <1>3, <2>1, QueuesKeep
  <1>6. ThreadsTypeOK'
    BY <1>0, <1>1 DEF TypeOK, ThreadsTypeOK
  <1>7. TypeOK'
    BY <1>0, <1>1, <1>2, <1>5, <1>6 DEF TypeOK, GpuTypeOK, CacheInv, PacketOK
  <1>8. Records'
    BY <1>0, <1>1 DEF Records
  <1>9. Stages'
    <2>1. ui \notin {"closing", "closed"}
      BY <1>0 DEF Stages
    <2>2. QED
      BY <1>0, <1>1, <1>2, <2>1 DEF Stages
  <1>10. QED
    BY <1>3, <1>4, <1>5, <1>7, <1>8, <1>9 DEF Base

LEMMA RetireBase == ASSUME Base, Retire PROVE Base'
  <1>1. PICK b \in BOOLEAN : b = (worker = "retires")
    OBVIOUS
  <1>2. retirements' = retirements \o Retirement(packet, b)
    BY <1>1 DEF Retire
  <1>3. PICK w : w = "settles"
    OBVIOUS
  <1>4. QED
    BY <1>2, <1>3, RetiringBase DEF Retire

LEMMA AbandonBase == ASSUME Base, Abandon PROVE Base'
  <1>1. PICK b \in BOOLEAN : b = FALSE
    OBVIOUS
  <1>2. retirements' = retirements \o Retirement(packet, b)
    BY <1>1 DEF Abandon
  <1>3. PICK w : w = "reports"
    OBVIOUS
  <1>4. QED
    BY <1>2, <1>3, RetiringBase DEF Abandon

LEMMA RecycleBase == ASSUME Base, Recycle PROVE Base'
  <1>0. /\ CacheInv /\ TypeOK /\ Records /\ Once /\ Stages /\ LeasesHeld
    BY DEF Base
  <1>1. /\ worker = "recycles" /\ worker' = "waiting" /\ packet' = NoPacket /\ DropLeases
        /\ UNCHANGED <<source, storeVars, accountVars, assets, leased, current, frameVars, uiVars,
                       requestVars, mailVars, error, gpuVars, catalog>>
    BY DEF Recycle
  <1>2. /\ frameLease' = frameLease /\ recording' = recording /\ frames' = frames
        /\ residency' = residency /\ retirements' = retirements
        /\ Serial' = Serial /\ ui' = ui /\ requests' = requests /\ readback' = readback
        /\ boundary' = boundary /\ atlas' = atlas /\ canvas' = canvas
        /\ newest' = newest /\ stopping' = stopping
    BY <1>1 DEF accountVars, frameVars, storeVars, uiVars, requestVars, gpuVars, mailVars, Serial
  <1>3. packet.token = 0 /\ packet'.token = 0 /\ packet'.lease = 0
    BY <1>0, <1>1, NoPacketFacts DEF Stages
  <1>4. Once'
    BY <1>0, <1>2, <1>3 DEF Once, Ended
  <1>5. LeasesHeld' /\ dropped' \subseteq leased'
    <2>1. Holders' \subseteq Holders
      BY <1>1, <1>2, <1>3 DEF Holders
    <2>2. QED
      BY <1>0, <1>1, <2>1, Holding DEF LeasesHeld
  <1>6. CacheInv'
    <2>1. retirements' \in Seq([token : 1 .. frames', presented : BOOLEAN]) /\ EndedKnown'
      BY <1>0, <1>2, <1>4, Known DEF CacheInv, CacheTypeOK, AccountTypeOK, EndedKnown
    <2>2. QED
      BY <1>0, <1>1, <1>2, <1>5, <2>1, QueuesKeep
  <1>7. ThreadsTypeOK'
    BY <1>0, <1>1, <1>2 DEF TypeOK, ThreadsTypeOK
  <1>8. PacketOK(newest)' /\ PacketOK(packet)'
    BY <1>0, <1>1, <1>2, PacketFacts DEF TypeOK, PacketOK, NoPacket
  <1>9. TypeOK'
    BY <1>0, <1>1, <1>2, <1>6, <1>7, <1>8 DEF TypeOK, GpuTypeOK, CacheInv
  <1>10. Records'
    BY <1>0, <1>1, <1>2 DEF Records
  <1>11. Stages'
    BY <1>0, <1>1, <1>2, <1>3 DEF Stages
  <1>12. QED
    BY <1>4, <1>5, <1>6, <1>9, <1>10, <1>11 DEF Base

\* The steps that leave the frames where they are.
LEMMA QuietBase ==
  ASSUME Base, Quiet, ThreadsTypeOK', GpuTypeOK', PacketOK(newest)', PacketOK(packet)', Stages',
         ui' = "recording" <=> ui = "recording"
  PROVE  Base'
  <1>1. CacheInv' /\ Once' /\ LeasesHeld'
    BY QuietKeeps
  <1>2. TypeOK' /\ Records'
    BY <1>1 DEF Base, TypeOK, Records, CacheInv, Quiet, cacheVars, leaseVars, frameVars
  <1>3. QED
    BY <1>1, <1>2 DEF Base

LEMMA QuietFrame ==
  ASSUME UNCHANGED cacheVars
  PROVE  /\ frames' = frames /\ residency' = residency /\ retirements' = retirements /\ leased' = leased
         /\ Serial' = Serial /\ alloc' = alloc
  BY DEF cacheVars, accountVars, leaseVars, storeVars, Serial

LEMMA QuietUi ==
  ASSUME Base, DrawingFails \/ Screenshot \/ DrainFrameTimings \/ Answered
  PROVE  Base' /\ Quiet
  <1>0. TypeOK /\ Stages /\ frames \in Nat /\ newest.token \in 0 .. frames
    BY PacketFacts DEF Base
  <1>1. UNCHANGED <<cacheVars, stopping, workerVars, gpuVars, catalog>>
    BY DEF DrawingFails, Screenshot, DrainFrameTimings, Answered, mailVars
  <1>2. /\ worker' = worker /\ packet' = packet /\ error' = error /\ atlas' = atlas /\ canvas' = canvas
        /\ frames' = frames /\ residency' = residency /\ retirements' = retirements /\ leased' = leased
        /\ Serial' = Serial /\ catalog' = catalog /\ stopping' = stopping
    BY <1>1, QuietFrame DEF workerVars, gpuVars
  <1>3. /\ requests' \in 0 .. MaxRequests
        /\ readback' \in [is : Standing, shows : 0 .. frames, wants : 0 .. frames]
        /\ boundary' \in Standing
    BY <1>0, FramePresentationAssumption
    DEF DrawingFails, Screenshot, DrainFrameTimings, Answered, TypeOK, ThreadsTypeOK, requestVars, Standing
  <1>4. ui \in {"frame", "awaitsReadback", "awaitsBoundary"}
        /\ ui' \in {"frame", "awaitsReadback", "awaitsBoundary", "failed"}
    BY DEF DrawingFails, Screenshot, DrainFrameTimings, Answered
  <1>5. \/ newest' = newest
        \/ ~stopping /\ newest' = [newest EXCEPT !.readback = TRUE]
        \/ ~stopping /\ newest' = [newest EXCEPT !.boundary = TRUE]
    BY <1>0 DEF DrawingFails, Screenshot, DrainFrameTimings, Answered, mailVars
  <1>6. SameFrame(newest', newest) /\ PacketOK(newest)' /\ (stopping => newest' = newest)
    BY <1>0, <1>2, <1>5 DEF TypeOK, PacketOK, SameFrame
  <1>7. Quiet /\ PacketOK(packet)'
    BY <1>0, <1>1, <1>2, <1>6 DEF Quiet, SameFrame, TypeOK, PacketOK
  <1>8. ThreadsTypeOK' /\ GpuTypeOK'
    BY <1>0, <1>2, <1>3, <1>4 DEF TypeOK, ThreadsTypeOK, GpuTypeOK
  <1>9. Stages'
    BY <1>0, <1>2, <1>4, <1>6 DEF Stages, SameFrame
  <1>10. QED
    BY <1>4, <1>6, <1>7, <1>8, <1>9, QuietBase

LEMMA QuietWorker ==
  ASSUME Base, EndLoop \/ BeginFrame \/ Submit \/ Present \/ Refuse \/ CompleteBoundary
                 \/ CompleteReadback \/ Fail \/ StoreWorkerError
  PROVE  Base' /\ Quiet
  <1>0. /\ TypeOK /\ Stages /\ frames \in Nat /\ PacketOK(packet) /\ PacketOK(newest)
        /\ packet.token \in 0 .. frames
    BY PacketFacts DEF Base, TypeOK
  <1>1. UNCHANGED <<cacheVars, uiVars, mailVars, catalog>>
    BY DEF EndLoop, BeginFrame, Submit, Present, Refuse, CompleteBoundary, CompleteReadback, Fail,
           StoreWorkerError, Renders
  <1>2. /\ newest' = newest /\ stopping' = stopping /\ catalog' = catalog /\ ui' = ui /\ requests' = requests
        /\ frames' = frames /\ residency' = residency /\ retirements' = retirements /\ leased' = leased
        /\ Serial' = Serial
    BY <1>1, QuietFrame DEF mailVars, uiVars
  <1>3. \/ packet' = packet
        \/ packet' = [packet EXCEPT !.readback = FALSE]
        \/ packet' = [packet EXCEPT !.boundary = FALSE]
        \/ packet' = [packet EXCEPT !.readback = FALSE, !.boundary = FALSE]
    BY DEF EndLoop, BeginFrame, Submit, Present, Refuse, CompleteBoundary, CompleteReadback, Fail,
           StoreWorkerError
  <1>4. SameFrame(packet', packet) /\ PacketOK(packet)'
    <2>1. SameFrame(packet', packet)
      BY <1>0, <1>3 DEF PacketOK, SameFrame
    <2>2. CASE packet' = packet
      BY <1>0, <1>2, <2>1, <2>2 DEF PacketOK
    <2>3. CASE packet' = [packet EXCEPT !.readback = FALSE]
      BY <1>0, <1>2, <2>1, <2>3 DEF PacketOK
    <2>4. CASE packet' = [packet EXCEPT !.boundary = FALSE]
      BY <1>0, <1>2, <2>1, <2>4 DEF PacketOK
    <2>5. CASE packet' = [packet EXCEPT !.readback = FALSE, !.boundary = FALSE]
      BY <1>0, <1>2, <2>1, <2>5 DEF PacketOK
    <2>6. QED
      BY <1>3, <2>2, <2>3, <2>4, <2>5
  <1>5. Quiet /\ PacketOK(newest)'
    BY <1>0, <1>1, <1>2, <1>4 DEF Quiet, SameFrame, PacketOK
  <1>6. \/ worker' = "exited" /\ stopping /\ worker = "waiting" /\ packet' = packet
        \/ worker' \in {"submits", "skips", "presents", "retires", "retiresSkipped"}
             /\ worker \in {"begins", "submits", "presents", "skips"}
        \/ worker' \in {"reads", "recycles", "stops"} /\ worker \in {"settles", "reads", "reports"}
        \/ worker' = "abandons"
             /\ worker \in {"begins", "submits", "presents", "settles", "reads"}
    BY DEF EndLoop, BeginFrame, Submit, Present, Refuse, CompleteBoundary, CompleteReadback, Fail,
           StoreWorkerError
  <1>7. /\ readback' \in [is : Standing, shows : 0 .. frames, wants : 0 .. frames]
        /\ boundary' \in Standing
    <2>0. /\ readback \in [is : Standing, shows : 0 .. frames, wants : 0 .. frames]
          /\ boundary \in Standing /\ canvas \in 0 .. frames
      BY <1>0 DEF TypeOK, ThreadsTypeOK, GpuTypeOK
    <2>1. CASE Fail
      BY <1>0, <1>2, <2>1, FailWaitersTypes DEF Fail, TypeOK
    <2>2. CASE Refuse
      BY <2>0, <2>2 DEF Refuse, Standing
    <2>3. CASE CompleteReadback
      BY <2>0, <2>3 DEF CompleteReadback, Standing
    <2>4. CASE CompleteBoundary
      BY <2>0, <2>4 DEF CompleteBoundary, Standing
    <2>5. CASE EndLoop \/ BeginFrame \/ Submit \/ Present \/ StoreWorkerError
      BY <2>0, <2>5 DEF EndLoop, BeginFrame, Submit, Present, StoreWorkerError, requestVars
    <2>6. QED
      BY <2>1, <2>2, <2>3, <2>4, <2>5
  <1>8. error' \in BOOLEAN
    BY <1>0 DEF EndLoop, BeginFrame, Submit, Present, Refuse, CompleteBoundary, CompleteReadback, Fail,
           StoreWorkerError, Renders, TypeOK, ThreadsTypeOK
  <1>9. ThreadsTypeOK'
    BY <1>0, <1>2, <1>6, <1>7, <1>8 DEF TypeOK, ThreadsTypeOK
  <1>10. GpuTypeOK'
    <2>0. atlas \in [Slot -> Serial \union {0}] /\ canvas \in 0 .. frames /\ packet.uploads \subseteq Serial
      BY <1>0 DEF TypeOK, GpuTypeOK, PacketOK
    <2>1. CASE Submit
      <3>1. atlas' \in [Slot -> Serial \union {0}]
        BY <2>0, <2>1 DEF Submit
      <3>2. QED
        BY <1>2, <2>0, <2>1, <3>1 DEF Submit, GpuTypeOK
    <2>2. CASE Present
      BY <1>0, <1>2, <2>0, <2>2 DEF Present, GpuTypeOK
    <2>3. CASE EndLoop \/ BeginFrame \/ Refuse \/ CompleteBoundary \/ CompleteReadback \/ Fail
                 \/ StoreWorkerError
      BY <1>2, <2>0, <2>3 DEF EndLoop, BeginFrame, Refuse, CompleteBoundary, CompleteReadback, Fail,
                              StoreWorkerError, gpuVars, GpuTypeOK
    <2>4. QED
      BY <2>1, <2>2, <2>3
  <1>11. Stages'
    <2>1. packet'.token = packet.token
      BY <1>4 DEF SameFrame
    <2>2. /\ worker' \in {"begins", "submits", "presents", "skips", "retires", "retiresSkipped"}
               => packet'.token # 0
          /\ worker' \in {"waiting", "exited"} => packet' = NoPacket
          /\ worker' \in {"settles", "reads", "recycles", "reports", "stops"} => packet'.token = 0
          /\ worker' = "exited" => stopping'
      BY <1>0, <1>2, <1>6, <2>1 DEF Stages
    <2>3. ui' \in {"closing", "closed"} => worker' = "exited"
      BY <1>0, <1>2, <1>6 DEF Stages
    <2>4. QED
      BY <1>0, <1>2, <2>1, <2>2, <2>3 DEF Stages
  <1>12. QED
    BY <1>2, <1>5, <1>4, <1>9, <1>10, <1>11, QuietBase

-----------------------------------------------------------------------------
LEMMA Starts == Init => Base
  <1> SUFFICES ASSUME Init PROVE Base
    OBVIOUS
  <1>1. CacheInv
    BY CacheStarts DEF Init
  <1>2. /\ alloc = <<>> /\ frames = 0 /\ residency = <<>> /\ retirements = <<>>
        /\ leased = {} /\ dropped = {} /\ recording = FALSE /\ frameLease = 0
    BY DEF Init, CacheInit
  <1>3. Serial = {} /\ DOMAIN residency = {} /\ DOMAIN retirements = {} /\ Ended = {}
    BY <1>2 DEF Serial, Ended
  <1>4. /\ ui = "frame" /\ requests = 0
        /\ readback = [is |-> "none", shows |-> 0, wants |-> 0] /\ boundary = "none"
        /\ newest = NoPacket /\ stopping = FALSE
        /\ worker = "waiting" /\ packet = NoPacket /\ error = FALSE
        /\ atlas = [k \in Slot |-> 0] /\ canvas = 0 /\ catalog = 0
    BY DEF Init
  <1>5. ThreadsTypeOK /\ GpuTypeOK
    <2>1. readback \in [is : Standing, shows : 0 .. frames, wants : 0 .. frames]
      BY <1>2, <1>4 DEF Standing
    <2>2. ThreadsTypeOK
      <3>1. requests \in 0 .. MaxRequests /\ boundary \in Standing
        BY <1>4, FramePresentationAssumption DEF Standing
      <3>2. ui = "frame" /\ worker = "waiting" /\ stopping = FALSE /\ error = FALSE
        BY <1>4
      <3>3. QED
        BY <2>1, <3>1, <3>2 DEF ThreadsTypeOK
    <2>3. GpuTypeOK
      BY <1>2, <1>4 DEF GpuTypeOK
    <2>4. QED
      BY <2>2, <2>3
  <1>6. PacketOK(newest) /\ PacketOK(packet)
    BY <1>2, <1>4 DEF PacketOK, NoPacket
  <1>7. TypeOK
    BY <1>1, <1>4, <1>5, <1>6 DEF TypeOK, CacheInv
  <1>8. Records
    BY <1>2, <1>4 DEF Records
  <1>9. Once
    BY <1>2, <1>3, <1>4, NoPacketFacts DEF Once
  <1>10. Stages
    BY <1>4, NoPacketFacts DEF Stages
  <1>11. LeasesHeld
    BY <1>2 DEF LeasesHeld
  <1>12. QED
    BY <1>1, <1>7, <1>8, <1>9, <1>10, <1>11 DEF Base

LEMMA BaseKept == ASSUME Base, [Next]_fpVars PROVE Base'
  <1>1. CASE Record
    BY <1>1, BeginDrawBase, FinishDrainingBase, StartRecordingBase, PaintBase, UseCatalogBase,
       RebuildCatalogBase, ReplaceBase, EndDrawBase, AbortDrawBase DEF Record
  <1>2. CASE DrawingFails \/ Screenshot \/ DrainFrameTimings \/ Answered
    BY <1>2, QuietUi
  <1>3. CASE StopRenderWorker \/ Joined \/ Closed
    BY <1>3, StopRenderWorkerBase, JoinedBase, ClosedBase
  <1>4. CASE Render
    BY <1>4, QuietWorker, WaitTakeNewestBase, RetireBase, AbandonBase, RecycleBase, StopMailboxBase
    DEF Render
  <1>5. CASE UNCHANGED fpVars
    <2>1. /\ UNCHANGED <<cacheVars, catalog>> /\ newest' = newest /\ packet' = packet /\ ui' = ui
          /\ requests' = requests /\ readback' = readback /\ boundary' = boundary /\ stopping' = stopping
          /\ worker' = worker /\ error' = error /\ atlas' = atlas /\ canvas' = canvas
      BY <1>5 DEF fpVars, uiVars, requestVars, mailVars, workerVars, gpuVars
    <2>2. Quiet
      BY <2>1 DEF Quiet, SameFrame
    <2>3. ThreadsTypeOK' /\ GpuTypeOK' /\ PacketOK(newest)' /\ PacketOK(packet)'
      BY <2>1, QuietFrame DEF Base, TypeOK, ThreadsTypeOK, GpuTypeOK, PacketOK
    <2>4. Stages'
      BY <2>1, QuietFrame DEF Base, Stages
    <2>5. QED
      BY <2>1, <2>2, <2>3, <2>4, QuietBase
  <1>6. QED
    BY <1>1, <1>2, <1>3, <1>4, <1>5 DEF Next

\* The cache, the packets and both threads have values the code can give them, for
\* any atlas and any number of frames.
THEOREM TypeCorrect == Spec => []TypeOK
  <1>1. Base => TypeOK
    BY DEF Base
  <1>2. QED
    BY Starts, BaseKept, <1>1, PTL DEF Spec

\* However recording, presenting, skipping and failing interleave, every sealed frame
\* is on its way or its end is queued, once, and the closed cache is unpinned.
THEOREM EveryFrameIsAccounted == Spec => []FramesAreAccounted
  <1>1. Base => FramesAreAccounted
    BY DEF Base, Once, Stages, Ended, FramesAreAccounted
  <1>2. QED
    BY Starts, BaseKept, <1>1, PTL DEF Spec

-----------------------------------------------------------------------------
(* Screenshots. *)

\* How a screenshot that has been asked for stands.
RequestInv ==
  /\ newest.readback \/ packet.readback => ui = "awaitsReadback" /\ readback.is = "waiting"
  /\ ~(newest.readback /\ packet.readback)
  /\ newest.readback => readback.wants <= newest.token
  /\ packet.readback =>
       /\ worker # "retiresSkipped"
       /\ readback.wants <= IF worker \in {"begins", "submits", "presents", "skips"}
                              THEN packet.token ELSE canvas
  /\ CaptureIsCurrent

\* No screenshot is waited for, and none is asked for.
LEMMA NoRequest ==
  ASSUME RequestInv, readback' = readback, newest'.readback = FALSE, packet'.readback = FALSE
  PROVE  RequestInv'
  BY DEF RequestInv, CaptureIsCurrent

LEMMA RequestTypes ==
  ASSUME Base
  PROVE  /\ readback \in [is : Standing, shows : 0 .. frames, wants : 0 .. frames]
         /\ frames \in Nat /\ canvas \in 0 .. frames
         /\ newest.token \in 0 .. frames /\ packet.token \in 0 .. frames
         /\ newest.readback \in BOOLEAN /\ packet.readback \in BOOLEAN
         /\ PacketOK(newest) /\ PacketOK(packet)
  BY PacketFacts DEF Base, TypeOK, ThreadsTypeOK, GpuTypeOK

LEMMA RequestOfUi ==
  ASSUME Base, RequestInv, ui # "awaitsReadback",
         \/ Elsewhere
         \/ EndDraw
         \/ StopRenderWorker
  PROVE  RequestInv'
  <1>1. newest.readback = FALSE /\ packet.readback = FALSE
    BY RequestTypes DEF RequestInv
  <1>2. CASE Elsewhere
    BY <1>1, <1>2, NoRequest DEF Elsewhere, requestVars, mailVars, workerVars
  <1>3. CASE EndDraw
    <2>1. readback' = readback /\ packet' = packet
      BY <1>3 DEF EndDraw, requestVars, workerVars
    <2>2. newest'.readback = FALSE
      BY <1>1, <1>3, SealedFacts DEF EndDraw, Publish, NoPacket
    <2>3. QED
      BY <1>1, <2>1, <2>2, NoRequest
  <1>4. CASE StopRenderWorker
    <2>1. newest' = NoPacket /\ packet' = packet /\ FailWaiters(newest)
      BY <1>4 DEF StopRenderWorker, workerVars
    <2>2. readback' = readback
      BY <1>1, <2>1 DEF FailWaiters
    <2>3. QED
      BY <1>1, <2>1, <2>2, NoRequest, NoPacketFacts
  <1>5. QED
    BY <1>2, <1>3, <1>4

LEMMA RequestOfWaiting ==
  ASSUME Base, RequestInv, DrawingFails \/ Screenshot \/ DrainFrameTimings \/ Answered
  PROVE  RequestInv'
  <1>0. /\ readback \in [is : Standing, shows : 0 .. frames, wants : 0 .. frames]
        /\ frames \in Nat /\ newest.token \in 0 .. frames
        /\ newest.readback \in BOOLEAN /\ packet.readback \in BOOLEAN /\ PacketOK(newest)
    BY RequestTypes
  <1>1. packet' = packet /\ worker' = worker /\ canvas' = canvas
    BY DEF DrawingFails, Screenshot, DrainFrameTimings, Answered, workerVars, gpuVars
  <1>2. CASE DrawingFails
    BY <1>2, RequestOfUi DEF DrawingFails, Elsewhere
  <1>3. CASE Screenshot
    <2>1. ui = "frame" /\ newest.readback = FALSE /\ packet.readback = FALSE
      BY <1>0, <1>3 DEF Screenshot, RequestInv
    <2>2. CASE stopping
      BY <1>1, <1>3, <2>1, <2>2 DEF Screenshot, RequestInv, CaptureIsCurrent
    <2>3. CASE ~stopping
      <3>1. /\ readback' = [is |-> "waiting", shows |-> 0, wants |-> newest.token]
            /\ newest' = [newest EXCEPT !.readback = TRUE] /\ ui' = "awaitsReadback"
        BY <1>3, <2>3 DEF Screenshot
      <3>2. newest'.token = newest.token
        BY <1>0, <3>1 DEF PacketOK
      <3>3. QED
        BY <1>0, <1>1, <2>1, <3>1, <3>2 DEF RequestInv, CaptureIsCurrent
    <2>4. QED
      BY <2>2, <2>3
  <1>4. CASE DrainFrameTimings
    <2>1. ui = "frame" /\ newest.readback = FALSE /\ packet.readback = FALSE
      BY <1>0, <1>4 DEF DrainFrameTimings, RequestInv
    <2>2. newest'.readback = FALSE
      BY <1>0, <1>4, <2>1 DEF DrainFrameTimings, PacketOK
    <2>3. QED
      BY <1>1, <1>4, <2>1, <2>2, NoRequest DEF DrainFrameTimings
  <1>5. CASE Answered
    <2>1. newest' = newest /\ readback' = readback
      BY <1>5 DEF Answered, mailVars, requestVars
    <2>2. newest.readback = FALSE /\ packet.readback = FALSE
      BY <1>0, <1>5 DEF Answered, RequestInv
    <2>3. QED
      BY <1>1, <2>1, <2>2, NoRequest
  <1>6. QED
    BY <1>2, <1>3, <1>4, <1>5

LEMMA RequestOfWorker ==
  ASSUME Base, RequestInv, Render
  PROVE  RequestInv'
  <1>0. /\ readback \in [is : Standing, shows : 0 .. frames, wants : 0 .. frames]
        /\ frames \in Nat /\ canvas \in 0 .. frames
        /\ newest.token \in 0 .. frames /\ packet.token \in 0 .. frames
        /\ newest.readback \in BOOLEAN /\ packet.readback \in BOOLEAN
        /\ PacketOK(newest) /\ PacketOK(packet) /\ Stages
    BY RequestTypes DEF Base
  <1>1. ui' = ui
    BY DEF Render, WaitTakeNewest, EndLoop, BeginFrame, Submit, Present, Refuse, Retire, CompleteBoundary,
           CompleteReadback, Recycle, Fail, Abandon, StoreWorkerError, StopMailbox, Renders, uiVars
  <1>2. CASE WaitTakeNewest
    <2>1. /\ packet' = newest /\ newest' = NoPacket /\ readback' = readback /\ canvas' = canvas
          /\ newest'.readback = FALSE
          /\ worker' = (IF newest.visual THEN "begins" ELSE "settles")
      BY <1>2, NoPacketFacts DEF WaitTakeNewest, requestVars, gpuVars
    <2>2. newest.visual <=> newest.token # 0
      BY <1>0 DEF Stages
    <2>3. QED
      BY <1>0, <1>1, <2>1, <2>2 DEF RequestInv, CaptureIsCurrent
  <1>3. CASE EndLoop \/ StoreWorkerError
    BY <1>0, <1>1, <1>3 DEF EndLoop, StoreWorkerError, Renders, mailVars, requestVars, gpuVars,
                            RequestInv, CaptureIsCurrent
  <1>4. CASE BeginFrame \/ Submit
    BY <1>0, <1>1, <1>4 DEF BeginFrame, Submit, Renders, mailVars, requestVars, gpuVars,
                            RequestInv, CaptureIsCurrent
  <1>5. CASE Present
    BY <1>0, <1>1, <1>5 DEF Present, Renders, mailVars, requestVars, RequestInv, CaptureIsCurrent
  <1>6. CASE Refuse
    <2>1. newest' = newest /\ packet'.readback = FALSE
      BY <1>0, <1>6 DEF Refuse, Renders, mailVars, PacketOK
    <2>2. IF packet.readback THEN readback' = [readback EXCEPT !.is = "refused"] ELSE readback' = readback
      BY <1>6 DEF Refuse
    <2>3. QED
      BY <1>0, <1>1, <2>1, <2>2 DEF RequestInv, CaptureIsCurrent
  <1>7. CASE Retire
    <2>1. /\ newest' = newest /\ packet'.readback = packet.readback /\ worker' = "settles"
          /\ readback' = readback /\ canvas' = canvas /\ worker \in {"retires", "retiresSkipped"}
      BY <1>0, <1>7 DEF Retire, mailVars, PacketOK, requestVars, gpuVars
    <2>2. QED
      BY <1>0, <1>1, <2>1 DEF RequestInv, CaptureIsCurrent
  <1>8. CASE CompleteBoundary
    <2>1. /\ newest' = newest /\ packet'.readback = packet.readback /\ worker = "settles" /\ worker' = "reads"
          /\ readback' = readback /\ canvas' = canvas
      BY <1>0, <1>8 DEF CompleteBoundary, Renders, mailVars, PacketOK, gpuVars
    <2>2. QED
      BY <1>0, <1>1, <2>1 DEF RequestInv, CaptureIsCurrent
  <1>9. CASE CompleteReadback
    <2>1. newest' = newest /\ packet'.readback = FALSE /\ worker = "reads"
      BY <1>0, <1>9 DEF CompleteReadback, Renders, mailVars, PacketOK
    <2>2. CASE packet.readback
      <3>1. \/ readback' = [readback EXCEPT !.is = "refused"]
            \/ readback' = [readback EXCEPT !.is = "done", !.shows = canvas]
        BY <1>9, <2>2 DEF CompleteReadback
      <3>2. readback.wants <= canvas /\ ~newest.readback
        BY <2>1, <2>2 DEF RequestInv
      <3>3. CaptureIsCurrent'
        BY <1>0, <3>1, <3>2 DEF CaptureIsCurrent
      <3>4. QED
        BY <2>1, <3>2, <3>3 DEF RequestInv
    <2>3. CASE ~packet.readback
      BY <1>1, <1>9, <2>1, <2>3 DEF CompleteReadback, RequestInv, CaptureIsCurrent
    <2>4. QED
      BY <2>2, <2>3
  <1>10. CASE Recycle
    <2>1. newest' = newest /\ packet'.readback = FALSE /\ readback' = readback
      BY <1>10, NoPacketFacts DEF Recycle, mailVars, requestVars
    <2>2. QED
      BY <1>1, <2>1 DEF RequestInv, CaptureIsCurrent
  <1>11. CASE Fail
    <2>1. newest' = newest /\ packet'.readback = FALSE /\ FailWaiters(packet)
      BY <1>0, <1>11 DEF Fail, Renders, mailVars, PacketOK
    <2>2. IF packet.readback THEN readback' = [readback EXCEPT !.is = "failed"] ELSE readback' = readback
      BY <2>1 DEF FailWaiters
    <2>3. QED
      BY <1>0, <1>1, <2>1, <2>2 DEF RequestInv, CaptureIsCurrent
  <1>12. CASE Abandon
    <2>1. /\ newest' = newest /\ packet'.readback = packet.readback /\ worker = "abandons" /\ worker' = "reports"
          /\ readback' = readback /\ canvas' = canvas
      BY <1>0, <1>12 DEF Abandon, mailVars, PacketOK, requestVars, gpuVars
    <2>2. QED
      BY <1>0, <1>1, <2>1 DEF RequestInv, CaptureIsCurrent
  <1>13. CASE StopMailbox
    <2>1. newest'.readback = FALSE /\ packet'.readback = FALSE /\ FailWaiters(newest)
      BY <1>13, NoPacketFacts DEF StopMailbox
    <2>2. IF newest.readback THEN readback' = [readback EXCEPT !.is = "failed"] ELSE readback' = readback
      BY <2>1 DEF FailWaiters
    <2>3. QED
      BY <1>0, <2>1, <2>2 DEF RequestInv, CaptureIsCurrent
  <1>14. QED
    BY <1>2, <1>3, <1>4, <1>5, <1>6, <1>7, <1>8, <1>9, <1>10, <1>11, <1>12, <1>13 DEF Render

LEMMA RequestKept == ASSUME Base, RequestInv, [Next]_fpVars PROVE RequestInv'
  <1>1. CASE Record \/ StopRenderWorker \/ Joined \/ Closed
    <2>1. ui # "awaitsReadback"
      BY <1>1 DEF Record, BeginDraw, FinishDraining, StartRecording, Paint, UseCatalog, RebuildCatalog,
                  Replace, EndDraw, AbortDraw, StopRenderWorker, Joined, Closed
    <2>2. Elsewhere \/ EndDraw \/ StopRenderWorker
      BY <1>1 DEF Record, BeginDraw, FinishDraining, StartRecording, Paint, UseCatalog, RebuildCatalog,
                  Replace, AbortDraw, Joined, Closed, Elsewhere
    <2>3. QED
      BY <2>1, <2>2, RequestOfUi
  <1>2. CASE DrawingFails \/ Screenshot \/ DrainFrameTimings \/ Answered
    BY <1>2, RequestOfWaiting
  <1>3. CASE Render
    BY <1>3, RequestOfWorker
  <1>4. CASE UNCHANGED fpVars
    BY <1>4 DEF RequestInv, CaptureIsCurrent, fpVars, uiVars, requestVars, mailVars, workerVars, gpuVars
  <1>5. QED
    BY <1>1, <1>2, <1>3, <1>4 DEF Next

\* Whatever is skipped, replaced or fails meanwhile: a screenshot that is taken shows
\* the frame that was the newest when it was asked for, or a later one.
THEOREM ScreenshotsAreCurrent == Spec => []CaptureIsCurrent
  <1>1. Init => RequestInv
    BY NoPacketFacts DEF Init, RequestInv, CaptureIsCurrent
  <1>2. RequestInv => CaptureIsCurrent
    BY DEF RequestInv
  <1>3. QED
    BY Starts, BaseKept, RequestKept, <1>1, <1>2, PTL DEF Spec

-----------------------------------------------------------------------------
(* What the atlas holds. *)

\* A frame on its way: what it samples is pinned, and is uploaded with it or before.
InAtlas(s) == atlas[alloc[s].slot] = s
Held(p, s) == s \in residency[p.token].allocations \/ (p.lease # 0 /\ s \in assets[p.lease])
Flies(p) == p.token # 0 =>
  /\ residency[p.token].uploads = p.uploads
  /\ \A s \in p.uploads : Held(p, s)
  /\ \A d \in p.draws : Held(p, d.serial) /\ alloc[d.serial].pixels >= d.since
Drawable(p) == \A d \in p.draws : d.serial \in p.uploads \/ InAtlas(d.serial)

\* What a frame uploaded that was presented is in the atlas, while it lives.
Shown ==
  \A k \in DOMAIN retirements : retirements[k].presented =>
    \A s \in residency[retirements[k].token].uploads : s \in live => InAtlas(s)

FlightInv ==
  /\ Flies(newest) /\ Flies(packet)
  /\ newest.token # 0 => Drawable(newest)
  /\ worker \in {"begins", "submits"} => Drawable(packet)
  /\ worker = "presents" => \A d \in packet.draws : InAtlas(d.serial)
  /\ worker \in {"presents", "retires"} => \A s \in packet.uploads : InAtlas(s)
  /\ Shown

\* What a frame may sample is in the atlas or waits for a frame to carry it.
ReadyInv == \A s \in live : s \notin retiring \/ Leased(s) => s \in pending \/ InAtlas(s)

\* No step loses the upload of what a frame may sample.
Readies ==
  \A s \in live' : s \notin retiring' \/ Leased(s)' =>
    \/ s \in pending'
    \/ /\ s \in live /\ (s \notin retiring \/ Leased(s))
       /\ s \in pending => InAtlas(s)

LEMMA ReadyKept ==
  ASSUME Base, ReadyInv, Readies, Grows, atlas' = atlas
  PROVE  ReadyInv'
  <1>1. live \subseteq Serial
    BY DEF Base, CacheInv, CacheTypeOK, StoreTypeOK
  <1>2. \A s \in Serial : InAtlas(s)' <=> InAtlas(s)
    BY DEF Grows, InAtlas
  <1>3. QED
    BY <1>1, <1>2 DEF ReadyInv, Readies

LEMMA SettleReadies ==
  ASSUME NEW P, NEW R, NEW U, Settle(P, R, U), retiring \subseteq R, leased' \subseteq leased, assets' = assets,
         \A s \in (live \intersect pending) \ U :
            InAtlas(s) \/ (s \in R /\ \A l \in leased' : s \notin assets[l])
  PROVE  Readies /\ live' \subseteq live
  <1>1. /\ retiring' = R /\ live' \subseteq live
        /\ \A s \in live' : s \in pending' <=> s \in U
    BY DEF Settle
  <1>2. \A s : Leased(s)' => Leased(s) /\ \E l \in leased' : s \in assets[l]
    BY DEF Leased
  <1>3. QED
    BY <1>1, <1>2 DEF Readies

\* What the steps of the main thread on the cache have in common.
CacheSteps == Elsewhere /\ Grows /\ Readies /\ live' \intersect Serial \subseteq live

LEMMA DrainFramesSteps ==
  ASSUME Base, FlightInv, BeginDraw \/ Joined
  PROVE  CacheSteps /\ DOMAIN retirements' = {}
  <1> DEFINE P == [s \in Serial |-> pins[s] - Cardinality({n \in Ended : s \in residency[n].allocations})]
             shown == {retirements[k].token : k \in {j \in DOMAIN retirements : retirements[j].presented}}
             U == pending \ UNION {residency[n].uploads : n \in shown}
  <1>1. Elsewhere /\ DrainFrames
    BY DEF BeginDraw, Joined, Elsewhere
  <1>2. /\ Settle(P, retiring, U)
        /\ residency' = [n \in DOMAIN residency \ Ended |-> residency[n]]
        /\ retirements' = <<>> /\ alloc' = alloc /\ assets' = assets /\ leased' = leased
    BY <1>1 DEF DrainFrames, Ended, leaseVars
  <1>3. Grows
    BY <1>2 DEF Grows, Serial, Lease
  <1>4. \A s \in (live \intersect pending) \ U : InAtlas(s)
    BY DEF FlightInv, Shown
  <1> HIDE DEF P, U
  <1>5. Readies /\ live' \subseteq live
    BY <1>2, <1>4, SettleReadies
  <1>6. QED
    BY <1>1, <1>2, <1>3, <1>5 DEF CacheSteps

LEMMA DrainLeasesSteps ==
  ASSUME Base, FinishDraining \/ Closed
  PROVE  CacheSteps /\ retirements' = retirements
  <1> DEFINE P == [s \in Serial |-> pins[s] - Cardinality({l \in dropped : s \in assets[l]})]
  <1>1. Elsewhere /\ DrainLeases
    BY DEF FinishDraining, Closed, Elsewhere
  <1>2. /\ Settle(P, retiring, pending) /\ leased' \subseteq leased
        /\ alloc' = alloc /\ assets' = assets /\ residency' = residency /\ retirements' = retirements
    BY <1>1 DEF DrainLeases, accountVars
  <1>3. Grows
    BY <1>2 DEF Grows, Serial, Lease
  <1> HIDE DEF P
  <1>4. Readies /\ live' \subseteq live
    BY <1>2, SettleReadies
  <1>5. QED
    BY <1>1, <1>2, <1>3, <1>4 DEF CacheSteps

\* What is evicted are text surfaces, which no lease holds.
LEMMA GoneUnleased ==
  ASSUME CacheInv, NEW E \in SUBSET Surface, \A t \in E : resident[t] # 0
  PROVE  \A s \in {resident[t] : t \in E} : \A l \in leased : s \notin assets[l]
  BY TextureCacheAssumption DEF CacheInv, ResidentsLive, HeldLive

LEMMA TrimSteps ==
  ASSUME Base, StartRecording
  PROVE  CacheSteps /\ retirements' = retirements
  <1>1. Elsewhere /\ TrimAndRecord
    BY DEF StartRecording, Elsewhere
  <1>2. PICK E, gone :
          /\ E \in SUBSET Surface
          /\ Evicted(MaxSurfaces, E, This) /\ gone = {resident[t] : t \in E}
          /\ Settle(pins, retiring \union gone, pending \ gone)
    BY <1>1 DEF TrimAndRecord
  <1>3. UNCHANGED <<alloc, accountVars, leaseVars>>
    BY <1>1 DEF TrimAndRecord
  <1>4. \A s \in gone : \A l \in leased : s \notin assets[l]
    BY <1>2, GoneUnleased DEF Base, Evicted
  <1>5. Readies /\ live' \subseteq live
    BY <1>2, <1>3, <1>4, SettleReadies DEF leaseVars
  <1>6. Grows
    BY <1>3 DEF Grows, Serial, Lease, leaseVars, accountVars
  <1>7. QED
    BY <1>1, <1>3, <1>5, <1>6 DEF CacheSteps, accountVars

LEMMA PaintSteps ==
  ASSUME Base, Paint
  PROVE  CacheSteps /\ retirements' = retirements
  <1>1. PICK t \in Texture : DrawResident(t) \/ DrawNew(t)
    BY DEF Paint
  <1>2. Elsewhere /\ Grows
    BY PaintBase DEF Paint, Elsewhere
  <1>3. CASE DrawResident(t)
    <2>1. UNCHANGED <<storeVars, accountVars, leaseVars>>
      BY <1>3 DEF DrawResident
    <2>2. QED
      BY <1>2, <2>1 DEF CacheSteps, Readies, Leased, storeVars, leaseVars, accountVars
  <1>4. CASE DrawNew(t)
    <2>0. PICK E \in SUBSET Surface :
            /\ IF t \in Surface THEN Evicted(MaxSurfaces - 1, E, This) ELSE E = {}
            /\ live' = (live \ {s \in {resident[u] : u \in E} : pins[s] = 0}) \union {Len(alloc) + 1}
            /\ retiring' = retiring \union {resident[u] : u \in E}
            /\ pending' = (pending \ {resident[u] : u \in E}) \union {Len(alloc) + 1}
      BY <1>4 DEF DrawNew
    <2>1. PICK gone, freed, new :
            /\ gone = {resident[u] : u \in E}
            /\ freed = {s \in gone : pins[s] = 0}
            /\ new = Len(alloc) + 1
            /\ live' = (live \ freed) \union {new}
            /\ retiring' = retiring \union gone
            /\ pending' = (pending \ gone) \union {new}
      BY <2>0
    <2>2. UNCHANGED <<accountVars, leaseVars>>
      BY <1>4 DEF DrawNew
    <2>3. \A s \in gone : \A l \in leased : s \notin assets[l]
      BY <2>0, <2>1, GoneUnleased DEF Base, Evicted
    <2>4. \A s \in gone : ~Leased(s)'
      BY <2>2, <2>3 DEF Leased, leaseVars
    <2>5. \A s : Leased(s)' <=> Leased(s)
      BY <2>2 DEF Leased, leaseVars
    <2>6. Readies
      BY <2>1, <2>4, <2>5 DEF Readies
    <2>7. new \notin Serial
      BY <2>1, AllocFacts DEF Base, CacheInv
    <2>8. live' \intersect Serial \subseteq live
      BY <2>1, <2>7
    <2>9. QED
      BY <1>2, <2>2, <2>6, <2>8 DEF CacheSteps, accountVars
  <1>5. QED
    BY <1>1, <1>3, <1>4

LEMMA UseCatalogSteps ==
  ASSUME Base, UseCatalog
  PROVE  CacheSteps /\ retirements' = retirements
  <1>1. Elsewhere /\ UNCHANGED <<storeVars, accountVars, leaseVars>>
    BY DEF UseCatalog, BindLease, Elsewhere
  <1>2. QED
    BY <1>1 DEF CacheSteps, Readies, Leased, Grows, Serial, Lease, storeVars, leaseVars, accountVars

LEMMA RebuildCatalogSteps ==
  ASSUME Base, RebuildCatalog
  PROVE  CacheSteps /\ retirements' = retirements
  <1>1. Elsewhere /\ CreateLease
    BY DEF RebuildCatalog, Elsewhere
  <1>2. Grows /\ leased' = leased \union {Len(assets')}
    BY <1>1, CreateLeaseGrows DEF Base, CacheInv, CacheTypeOK
  <1>3. PICK mine, l : /\ mine = {resident[t] : t \in Catalog} /\ mine \subseteq bound
                       /\ l = Len(assets) + 1
                       /\ assets' = Append(assets, mine) /\ leased' = leased \union {l}
    BY <1>1 DEF CreateLease
  <1>4. UNCHANGED <<live, retiring, pending, accountVars>>
    BY <1>1 DEF CreateLease
  <1>5. leased \subseteq Lease /\ bound \intersect retiring = {}
    BY DEF Base, CacheInv, CacheTypeOK, LeaseTypeOK, InUse
  <1>6. assets'[l] = mine
    <2>1. PICK S : S = SUBSET Serial
      OBVIOUS
    <2>2. assets \in Seq(S) /\ mine \in S
      BY <1>3, <2>1 DEF Base, CacheInv, CacheTypeOK, LeaseTypeOK, FrameTypeOK, StoreTypeOK
    <2>3. QED
      BY <1>3, <2>2, Appended
  <1>7. \A s : Leased(s)' => Leased(s) \/ s \in mine
    BY <1>2, <1>3, <1>5, <1>6 DEF Leased, Grows
  <1>8. Readies
    BY <1>3, <1>4, <1>5, <1>7 DEF Readies
  <1>9. QED
    BY <1>1, <1>2, <1>4, <1>8 DEF CacheSteps, accountVars

\* A replaced image: its old allocations retire, and no upload a lease needs is dropped.
LEMMA ForgettingReadies ==
  ASSUME Base, NEW images \in SUBSET Image, NEW P,
         Settle(P, retiring \union Stale(images), pending \ Unleased(images)),
         leased' = leased, assets' = assets
  PROVE  Readies /\ live' \subseteq live
  <1>1. \A s \in Unleased(images) : s \in Stale(images) /\ \A l \in leased : s \notin assets[l]
    BY StaleFacts DEF Base, Unleased, Leased
  <1>2. QED
    BY <1>1, SettleReadies

LEMMA ReplaceSteps ==
  ASSUME Base, Replace
  PROVE  CacheSteps /\ retirements' = retirements
  <1>1. PICK i \in Image : Invalidate(i) \/ Defer(i)
    BY DEF Replace, ReplaceImage
  <1>2. Elsewhere
    BY DEF Replace, Elsewhere
  <1>3. CASE Invalidate(i)
    <2>1. /\ Settle(pins, retiring \union Stale({i}), pending \ Unleased({i}))
          /\ UNCHANGED <<alloc, accountVars, assets, leased>>
      BY <1>3 DEF Invalidate
    <2>2. PICK images \in SUBSET Image : images = {i}
      OBVIOUS
    <2>3. Readies /\ live' \subseteq live
      BY <2>1, <2>2, ForgettingReadies
    <2>4. QED
      BY <1>2, <2>1, <2>3 DEF CacheSteps, Grows, Serial, Lease, accountVars
  <1>4. CASE Defer(i)
    <2>1. UNCHANGED <<storeVars, accountVars, leaseVars>>
      BY <1>4 DEF Defer
    <2>2. QED
      BY <1>2, <2>1 DEF CacheSteps, Readies, Leased, Grows, Serial, Lease, storeVars, leaseVars, accountVars
  <1>5. QED
    BY <1>1, <1>3, <1>4

LEMMA AbortDrawSteps ==
  ASSUME Base, AbortDraw
  PROVE  CacheSteps /\ retirements' = retirements
  <1>1. /\ Settle(pins, retiring \union Stale(deferred), pending \ Unleased(deferred))
        /\ UNCHANGED <<alloc, accountVars, assets, leased>>
        /\ Elsewhere
    BY DEF AbortDraw, AbortFrame, Elsewhere
  <1>2. PICK images \in SUBSET Image : images = deferred
    BY DEF Base, CacheInv, CacheTypeOK, FrameTypeOK
  <1>3. Readies /\ live' \subseteq live
    BY <1>1, <1>2, ForgettingReadies
  <1>4. QED
    BY <1>1, <1>3 DEF CacheSteps, Grows, Serial, Lease, accountVars
\* What a packet names is there, and what it holds is live.
Carries(p) ==
  /\ p.token # 0 => p.token \in DOMAIN residency
  /\ p.lease \in leased \union {0} /\ leased \subseteq Lease
  /\ p.uploads \subseteq Serial /\ \A d \in p.draws : d.serial \in Serial

LEMMA Carried == ASSUME Base PROVE Carries(newest) /\ Carries(packet)
  <1>1. leased \subseteq Lease
    BY DEF Base, CacheInv, CacheTypeOK, LeaseTypeOK
  <1>2. DOMAIN residency = Ended \union ({newest.token, packet.token} \ {0})
    BY DEF Base, Once
  <1>3. QED
    BY <1>1, <1>2, PacketFacts DEF Base, Carries

LEMMA HeldIsLive ==
  ASSUME Base, NEW p, Carries(p), p.token # 0, NEW s, Held(p, s)
  PROVE  s \in live /\ s \in Serial
  BY DEF Base, CacheInv, CacheTypeOK, StoreTypeOK, HeldLive, Carries, Held

LEMMA FliesOn ==
  ASSUME Grows, NEW p, NEW q, Carries(p), Flies(p), SameFrame(q, p),
         p.token # 0 => p.token \in DOMAIN residency'
  PROVE  Flies(q)'
  <1>1. CASE p.token = 0
    BY <1>1 DEF Flies, SameFrame
  <1>2. CASE p.token # 0
    <2>1. residency'[q.token] = residency[p.token]
      BY <1>2 DEF Grows, SameFrame, Carries
    <2>2. \A s : Held(p, s) => Held(q, s)'
      BY <2>1 DEF Held, Grows, SameFrame, Carries
    <2>3. \A d \in p.draws : alloc'[d.serial] = alloc[d.serial]
      BY DEF Grows, Carries
    <2>4. QED
      BY <1>2, <2>1, <2>2, <2>3 DEF Flies, SameFrame
  <1>3. QED
    BY <1>1, <1>2

\* No step of the main thread on the cache disturbs what is on its way.
LEMMA FlightOfCache ==
  ASSUME Base, Base', FlightInv, CacheSteps, retirements' = retirements \/ DOMAIN retirements' = {}
  PROVE  FlightInv'
  <1>1. /\ Grows /\ atlas' = atlas /\ newest' = newest /\ packet' = packet /\ worker' = worker
        /\ live' \intersect Serial \subseteq live
    BY DEF CacheSteps, Elsewhere, mailVars, workerVars, gpuVars
  <1>2. PICK p, q : p = newest /\ q = packet
    OBVIOUS
  <1>3. Carries(p) /\ Carries(q) /\ SameFrame(p, p) /\ SameFrame(q, q) /\ Flies(p) /\ Flies(q)
    BY <1>2, Carried DEF SameFrame, FlightInv
  <1>4. /\ p.token # 0 => p.token \in DOMAIN residency'
        /\ q.token # 0 => q.token \in DOMAIN residency'
    BY <1>1, <1>2 DEF Base, Once
  <1>5. Flies(p)' /\ Flies(q)'
    BY <1>1, <1>3, <1>4, FliesOn
  <1>6. \A s \in Serial : InAtlas(s)' <=> InAtlas(s)
    BY <1>1 DEF Grows, InAtlas
  <1>7. Drawable(p) => Drawable(p)'
    BY <1>3, <1>6 DEF Drawable, Carries
  <1>8. Drawable(q) => Drawable(q)'
    BY <1>3, <1>6 DEF Drawable, Carries
  <1>9. Shown'
    <2> SUFFICES ASSUME NEW k \in DOMAIN retirements', retirements'[k].presented,
                        NEW s \in residency'[retirements'[k].token].uploads, s \in live'
                 PROVE  InAtlas(s)'
      BY DEF Shown
    <2>1. retirements' = retirements
      OBVIOUS
    <2>2. retirements[k].token \in DOMAIN residency \intersect DOMAIN residency'
      BY <2>1 DEF Base, Once, Ended
    <2>3. s \in residency[retirements[k].token].uploads
      BY <1>1, <2>1, <2>2 DEF Grows
    <2>4. s \in Serial
      BY <2>2, <2>3 DEF Base, CacheInv, CacheTypeOK, AccountTypeOK
    <2>5. InAtlas(s)
      BY <1>1, <2>1, <2>3, <2>4 DEF FlightInv, Shown
    <2>6. QED
      BY <1>6, <2>4, <2>5
  <1>10. QED
    <2>1. Flies(newest)' /\ Flies(packet)'
      BY <1>1, <1>2, <1>5 DEF Flies, Held
    <2>2. newest'.token # 0 => Drawable(newest)'
      BY <1>1, <1>2, <1>7 DEF FlightInv, Drawable
    <2>3. worker' \in {"begins", "submits"} => Drawable(packet)'
      BY <1>1, <1>2, <1>8 DEF FlightInv, Drawable
    <2>4. worker' = "presents" => \A d \in packet'.draws : InAtlas(d.serial)'
      BY <1>1, <1>2, <1>3, <1>6 DEF FlightInv, Carries
    <2>5. worker' \in {"presents", "retires"} => \A s \in packet'.uploads : InAtlas(s)'
      BY <1>1, <1>2, <1>3, <1>6 DEF FlightInv, Carries
    <2>6. QED
      BY <1>9, <2>1, <2>2, <2>3, <2>4, <2>5 DEF FlightInv
\* What a frame has drawn when it is sealed.
LEMMA DrawnFacts ==
  ASSUME CacheInv, ReadyInv, recording
  PROVE  /\ \A s \in Uploads : Bound(s)
         /\ \A d \in draws :
              /\ d.serial \in Serial /\ Bound(d.serial) /\ alloc[d.serial].pixels >= d.since
              /\ d.serial \in Uploads \/ InAtlas(d.serial)
  <1>0. /\ CacheTypeOK /\ HeldLive /\ ResidentsLive /\ InUse /\ Fresh /\ StoreTypeOK /\ FrameTypeOK
    BY DEF CacheInv, CacheTypeOK
  <1>1. ASSUME NEW d \in draws
        PROVE  /\ d.serial \in Serial /\ Bound(d.serial) /\ alloc[d.serial].pixels >= d.since
               /\ d.serial \in Uploads \/ InAtlas(d.serial)
    <2>1. PICK s : s = d.serial
      OBVIOUS
    <2>2. s \in Serial /\ Bound(s)
      BY <1>0, <2>1 DEF InUse, FrameTypeOK
    <2>3. s \in live /\ (s \notin retiring \/ Leased(s)) /\ resident[alloc[s].texture] = s
      <3>1. CASE s \in bound
        BY <1>0, <3>1 DEF FrameTypeOK, InUse, ResidentsLive
      <3>2. CASE s \notin bound
        <4>1. frameLease \in current /\ frameLease \in leased /\ s \in assets[frameLease]
          BY <1>0, <2>2, <3>2 DEF Bound, InUse, ResidentsLive
        <4>2. QED
          BY <1>0, <4>1 DEF HeldLive, ResidentsLive, Leased
      <3>3. QED
        BY <3>1, <3>2
    <2>4. s # 0 /\ alloc[s].texture \in Texture
      BY <1>0, <2>2, AllocFacts
    <2>5. alloc[s].pixels >= d.since
      BY <1>0, <2>1, <2>3, <2>4 DEF Fresh, SameImage
    <2>6. s \in Uploads \/ InAtlas(s)
      BY <2>2, <2>3 DEF ReadyInv, Uploads
    <2>7. QED
      BY <2>1, <2>2, <2>5, <2>6
  <1>2. QED
    BY <1>1 DEF Uploads

LEMMA EndDrawFlies ==
  ASSUME Base, FlightInv, ReadyInv, EndDraw
  PROVE  FlightInv' /\ ReadyInv'
  <1>0. /\ CacheInv /\ Records /\ Stages /\ Once /\ AccountTypeOK /\ FrameTypeOK
        /\ Carries(newest) /\ Carries(packet)
    BY Carried DEF Base, CacheInv, CacheTypeOK
  <1>1. /\ recording /\ SealFrame
        /\ UNCHANGED <<requests, requestVars, stopping, workerVars, gpuVars, catalog>>
        /\ \/ /\ ~stopping /\ Publish(Sealed)
              /\ retirements' = retirements \o Retirement(newest, FALSE)
           \/ /\ stopping /\ retirements' = retirements \o Retirement(Sealed, FALSE) /\ newest' = newest
    BY <1>0 DEF EndDraw, Sealed, Records
  <1>2. /\ Grows /\ Serial' = Serial /\ frames' = frames + 1 /\ This = frames + 1 /\ frames \in Nat
        /\ DOMAIN residency' = DOMAIN residency \union {This}
        /\ residency'[This].allocations = bound /\ residency'[This].uploads = Uploads
        /\ UNCHANGED <<alloc, assets, leased>>
    BY <1>0, <1>1, SealFrameGrows
  <1>3. packet' = packet /\ worker' = worker /\ atlas' = atlas
    BY <1>1 DEF workerVars, gpuVars
  <1>4. Readies /\ live' \subseteq live
    <2>1. PICK P : P = [s \in Serial |-> pins[s] + IF s \in bound THEN 1 ELSE 0]
      OBVIOUS
    <2>2. PICK images \in SUBSET Image : images = deferred
      BY <1>0 DEF FrameTypeOK
    <2>3. Settle(P, retiring \union Stale(images), pending \ Unleased(images))
      BY <1>1, <2>1, <2>2 DEF SealFrame
    <2>4. QED
      BY <1>2, <2>3, ForgettingReadies
  <1>5. ReadyInv'
    BY <1>2, <1>3, <1>4, ReadyKept
  <1>6. \A s : InAtlas(s)' <=> InAtlas(s)
    BY <1>2, <1>3 DEF InAtlas
  <1>7. Flies(newest)' /\ (newest'.token # 0 => Drawable(newest)')
    <2>1. CASE stopping
      <3>1. newest'.token = 0
        BY <1>0, <1>1, <2>1, NoPacketFacts DEF Stages
      <3>2. QED
        BY <3>1 DEF Flies
    <2>2. CASE ~stopping
      <3>1. newest' = [Sealed EXCEPT !.readback = newest.readback, !.boundary = newest.boundary]
        BY <1>1, <2>2 DEF Publish
      <3>2. DOMAIN Sealed = {"visual", "token", "draws", "uploads", "lease", "readback", "boundary"}
        BY DEF Sealed, NoPacket
      <3>3. /\ newest'.token = This /\ newest'.draws = draws
            /\ newest'.uploads = Uploads /\ newest'.lease = frameLease
        BY <3>1, <3>2, SealedFacts
      <3>4. \A s : Held(newest, s)' <=> Bound(s)
        BY <1>2, <3>3 DEF Held, Bound
      <3>5. Flies(newest)'
        BY <1>0, <1>1, <1>2, <3>3, <3>4, DrawnFacts DEF Flies
      <3>6. Drawable(newest)'
        BY <1>0, <1>1, <1>6, <3>3, DrawnFacts DEF Drawable
      <3>7. QED
        BY <3>5, <3>6
    <2>3. QED
      BY <2>1, <2>2
  <1>8. Flies(packet)'
    <2>1. PICK q : q = packet
      OBVIOUS
    <2>2. Carries(q) /\ SameFrame(q, q) /\ Flies(q) /\ (q.token # 0 => q.token \in DOMAIN residency')
      BY <1>0, <1>2, <2>1 DEF SameFrame, FlightInv, Carries
    <2>3. Flies(q)'
      BY <1>2, <2>2, FliesOn
    <2>4. QED
      BY <1>3, <2>1, <2>3 DEF Flies, Held
  <1>9. Shown'
    <2>1. PICK q : q = IF stopping THEN Sealed ELSE newest
      OBVIOUS
    <2>a. PICK b \in BOOLEAN : b = FALSE
      OBVIOUS
    <2>2. q.token \in 0 .. frames' /\ b \in BOOLEAN /\ retirements' = retirements \o Retirement(q, b)
      <3>1. newest.token \in 0 .. frames
        BY PacketFacts DEF Base
      <3>2. q.token \in 0 .. frames'
        BY <1>2, <2>1, <3>1, SealedFacts
      <3>3. retirements' = retirements \o Retirement(q, FALSE)
        BY <1>1, <2>1
      <3>4. QED
        BY <2>a, <3>2, <3>3
    <2>3. Queued(q, b)
      BY <1>0, <1>2, <2>2, Queueing
    <2>4. \A k \in DOMAIN retirements' :
            retirements'[k].presented => k \in DOMAIN retirements /\ retirements'[k] = retirements[k]
      BY <2>a, <2>3 DEF Queued
    <2>5. \A k \in DOMAIN retirements : retirements[k].token \in DOMAIN residency
      BY <1>0 DEF Once, Ended
    <2>6. QED
      BY <1>2, <1>4, <1>6, <2>4, <2>5 DEF FlightInv, Shown, Grows
  <1>10. QED
    BY <1>3, <1>5, <1>6, <1>7, <1>8, <1>9 DEF FlightInv, Drawable
\* The steps that leave the store and the atlas alone: packets stay or are given up.
LEMMA StillFlying ==
  ASSUME FlightInv, UNCHANGED <<alloc, residency, assets, live, atlas>>,
         SameFrame(newest', newest) \/ newest'.token = 0,
         SameFrame(packet', packet) \/ packet'.token = 0,
         worker' \in {"begins", "submits"} =>
           worker \in {"begins", "submits"} /\ SameFrame(packet', packet),
         worker' = "presents" => worker = "presents" /\ SameFrame(packet', packet),
         worker' = "retires" => worker \in {"presents", "retires"} /\ SameFrame(packet', packet),
         \A k \in DOMAIN retirements' : retirements'[k].presented =>
           \/ k \in DOMAIN retirements /\ retirements'[k] = retirements[k]
           \/ \A s \in residency[retirements'[k].token].uploads : InAtlas(s)
  PROVE  FlightInv'
  <1>1. \A s : InAtlas(s)' <=> InAtlas(s)
    BY DEF InAtlas
  <1>2. Flies(newest)' /\ Flies(packet)'
    BY DEF FlightInv, Flies, Held, SameFrame
  <1>3. newest'.token # 0 => Drawable(newest)'
    BY <1>1 DEF FlightInv, Drawable, SameFrame
  <1>4. worker' \in {"begins", "submits"} => Drawable(packet)'
    BY <1>1 DEF FlightInv, Drawable, SameFrame
  <1>5. /\ worker' = "presents" => \A d \in packet'.draws : InAtlas(d.serial)'
        /\ worker' \in {"presents", "retires"} => \A s \in packet'.uploads : InAtlas(s)'
    BY <1>1 DEF FlightInv, SameFrame
  <1>6. Shown'
    BY <1>1 DEF FlightInv, Shown
  <1>7. QED
    BY <1>2, <1>3, <1>4, <1>5, <1>6 DEF FlightInv

LEMMA StillReady ==
  ASSUME ReadyInv, UNCHANGED <<storeVars, leased, assets>>, \A s \in live : InAtlas(s) => InAtlas(s)'
  PROVE  ReadyInv'
  BY DEF ReadyInv, Leased, storeVars

LEMMA AtlasRests == ASSUME UNCHANGED <<alloc, atlas>> PROVE \A s : InAtlas(s)' <=> InAtlas(s)
  BY DEF InAtlas

LEMMA QuietFlies ==
  ASSUME Base, FlightInv, ReadyInv, Quiet, atlas' = atlas,
         worker' \in {"begins", "submits"} => worker \in {"begins", "submits"},
         worker' = "presents" => worker = "presents",
         worker' = "retires" => worker \in {"presents", "retires"}
  PROVE  FlightInv' /\ ReadyInv'
  <1>1. /\ UNCHANGED <<storeVars, leased, assets>> /\ UNCHANGED <<alloc, residency, assets, live>>
        /\ retirements' = retirements /\ SameFrame(newest', newest) /\ SameFrame(packet', packet)
    BY DEF Quiet, cacheVars, storeVars, accountVars, leaseVars
  <1>2. ReadyInv'
    BY <1>1, AtlasRests, StillReady
  <1>3. FlightInv'
    BY <1>1, StillFlying
  <1>4. QED
    BY <1>2, <1>3

\* A packet is retired: as presented only when it was.
LEMMA RetiringFlies ==
  ASSUME Base, FlightInv, ReadyInv, NEW p, p.token \in {newest.token, packet.token}, NEW b \in BOOLEAN,
         retirements' = retirements \o Retirement(p, b), b => p = packet /\ worker = "retires",
         UNCHANGED <<storeVars, frames, residency, leased, assets, atlas>>,
         SameFrame(newest', newest) \/ newest'.token = 0,
         SameFrame(packet', packet) \/ packet'.token = 0,
         \/ worker' = worker /\ SameFrame(packet', packet)
         \/ worker' \in {"settles", "reports", "exited"}
  PROVE  FlightInv' /\ ReadyInv'
  <1>1. UNCHANGED <<alloc, residency, assets, live, atlas>>
    BY DEF storeVars
  <1>2. ReadyInv'
    BY <1>1, AtlasRests, StillReady
  <1>3. AccountTypeOK /\ frames \in Nat /\ p.token \in 0 .. frames'
    BY PacketFacts DEF Base, TypeOK, CacheTypeOK
  <1>4. Queued(p, b)
    BY <1>3, Queueing
  <1>5. b /\ p.token # 0 => \A s \in residency[p.token].uploads : InAtlas(s)
    BY DEF FlightInv, Flies
  <1>6. \A k \in DOMAIN retirements' : retirements'[k].presented =>
          \/ k \in DOMAIN retirements /\ retirements'[k] = retirements[k]
          \/ \A s \in residency[retirements'[k].token].uploads : InAtlas(s)
    BY <1>4, <1>5 DEF Queued
  <1>7. FlightInv'
    BY <1>1, <1>6, StillFlying
  <1>8. QED
    BY <1>2, <1>7

LEMMA EndsFly ==
  ASSUME Base, FlightInv, ReadyInv, Retire \/ Abandon \/ StopRenderWorker \/ StopMailbox
  PROVE  FlightInv' /\ ReadyInv'
  <1>1. PICK b \in BOOLEAN : b = (Retire /\ worker = "retires")
    OBVIOUS
  <1>2. PICK p : p = IF Retire \/ Abandon THEN packet ELSE newest
    OBVIOUS
  <1>3. CASE Retire
    <2>1. /\ b = (worker = "retires") /\ p = packet
      BY <1>1, <1>2, <1>3
    <2>2. /\ retirements' = retirements \o Retirement(p, b)
          /\ UNCHANGED <<storeVars, frames, residency, leased, assets, atlas>> /\ newest' = newest
          /\ packet'.token = 0 /\ worker' = "settles"
      BY <1>3, <2>1, PacketFacts DEF Retire, leaseVars, gpuVars, mailVars, Base, TypeOK, PacketOK
    <2>3. SameFrame(newest', newest)
      BY <2>2 DEF SameFrame
    <2>4. p.token \in {newest.token, packet.token} /\ (b => p = packet /\ worker = "retires")
      BY <2>1
    <2>5. QED
      BY <2>2, <2>3, <2>4, RetiringFlies
  <1>4. CASE Abandon
    <2>1. worker # "retires" /\ b = FALSE /\ p = packet
      BY <1>1, <1>2, <1>4 DEF Abandon, Retire
    <2>2. /\ retirements' = retirements \o Retirement(p, b)
          /\ UNCHANGED <<storeVars, frames, residency, leased, assets, atlas>> /\ newest' = newest
          /\ packet'.token = 0 /\ worker' = "reports"
      BY <1>4, <2>1 DEF Abandon, leaseVars, gpuVars, mailVars, Base, TypeOK, PacketOK
    <2>3. SameFrame(newest', newest)
      BY <2>2 DEF SameFrame
    <2>4. QED
      BY <2>1, <2>2, <2>3, RetiringFlies
  <1>5. CASE StopRenderWorker
    <2>1. ~(Retire \/ Abandon)
      BY <1>5 DEF StopRenderWorker, Retire, Abandon, workerVars
    <2>2. /\ b = FALSE /\ p = newest
      BY <1>1, <1>2, <2>1
    <2>3. /\ retirements' = retirements \o Retirement(p, b)
          /\ UNCHANGED <<storeVars, frames, residency, leased, assets, atlas>> /\ newest'.token = 0
          /\ packet' = packet /\ worker' = worker
      BY <1>5, <2>2, NoPacketFacts DEF StopRenderWorker, gpuVars, workerVars
    <2>4. SameFrame(packet', packet)
      BY <2>3 DEF SameFrame
    <2>5. QED
      BY <2>2, <2>3, <2>4, RetiringFlies
  <1>6. CASE StopMailbox
    <2>1. ~(Retire \/ Abandon)
      BY <1>6 DEF StopMailbox, Retire, Abandon
    <2>2. /\ b = FALSE /\ p = newest
      BY <1>1, <1>2, <2>1
    <2>3. /\ retirements' = retirements \o Retirement(p, b)
          /\ UNCHANGED <<storeVars, frames, residency, leased, assets, atlas>> /\ newest'.token = 0
          /\ packet'.token = 0 /\ worker' = "exited"
      BY <1>6, <2>2, NoPacketFacts DEF StopMailbox, gpuVars
    <2>4. QED
      BY <2>2, <2>3, RetiringFlies
  <1>7. QED
    BY <1>3, <1>4, <1>5, <1>6

LEMMA RecycleFlies ==
  ASSUME Base, FlightInv, ReadyInv, Recycle
  PROVE  FlightInv' /\ ReadyInv'
  <1>1. /\ UNCHANGED <<storeVars, leased, assets>> /\ UNCHANGED <<alloc, residency, assets, live, atlas>>
        /\ retirements' = retirements /\ newest' = newest /\ packet'.token = 0 /\ worker' = "waiting"
    BY NoPacketFacts DEF Recycle, storeVars, accountVars, mailVars, gpuVars
  <1>2. SameFrame(newest', newest)
    BY <1>1 DEF SameFrame
  <1>3. QED
    BY <1>1, <1>2, AtlasRests, StillReady, StillFlying

LEMMA WaitTakeNewestFlies ==
  ASSUME Base, FlightInv, ReadyInv, WaitTakeNewest
  PROVE  FlightInv' /\ ReadyInv'
  <1>1. /\ UNCHANGED <<storeVars, leased, assets>> /\ UNCHANGED <<alloc, residency, assets, live, atlas>>
        /\ retirements' = retirements /\ packet' = newest /\ newest'.token = 0
        /\ worker' = IF newest.visual THEN "begins" ELSE "settles"
    BY NoPacketFacts DEF WaitTakeNewest, cacheVars, storeVars, accountVars, leaseVars, gpuVars
  <1>2. \A s : InAtlas(s)' <=> InAtlas(s)
    BY <1>1, AtlasRests
  <1>3. ReadyInv'
    BY <1>1, <1>2, StillReady
  <1>4. Flies(newest)' /\ Flies(packet)'
    BY <1>1 DEF FlightInv, Flies, Held
  <1>5. worker' = "begins" => Drawable(packet)'
    BY <1>1, <1>2 DEF FlightInv, Drawable, Base, Stages
  <1>6. Shown'
    BY <1>1, <1>2 DEF FlightInv, Shown
  <1>7. QED
    BY <1>1, <1>3, <1>4, <1>5, <1>6 DEF FlightInv

\* The uploads of the frame are live, as is whatever its slots must not lose.
LEMMA SubmitFlies ==
  ASSUME Base, FlightInv, ReadyInv, Submit
  PROVE  FlightInv' /\ ReadyInv'
  <1>1. /\ UNCHANGED <<storeVars, leased, assets>> /\ UNCHANGED <<alloc, residency, assets, live>>
        /\ retirements' = retirements /\ newest' = newest /\ packet' = packet
        /\ worker = "submits" /\ worker' = "presents"
    BY DEF Submit, Renders, cacheVars, storeVars, accountVars, leaseVars, mailVars
  <1>2. PICK U : U = packet.uploads
    OBVIOUS
  <1>3. atlas' = [k \in Slot |-> IF \E s \in U : alloc[s].slot = k
                                   THEN CHOOSE s \in U : alloc[s].slot = k ELSE atlas[k]]
    BY <1>2 DEF Submit
  <1>4. Carries(packet) /\ Carries(newest) /\ packet.token # 0
    BY <1>1, Carried DEF Base, Stages
  <1>5. /\ \A s \in U : s \in live
        /\ \A d \in packet.draws : d.serial \in live
    <2>1. PICK p : p = packet
      OBVIOUS
    <2>2. \A s : Held(p, s) => s \in live
      BY <1>4, <2>1, HeldIsLive
    <2>3. QED
      BY <1>2, <1>4, <2>1, <2>2 DEF FlightInv, Flies
  <1>6. newest.token # 0 => \A d \in newest.draws : d.serial \in live
    <2>1. PICK p : p = newest
      OBVIOUS
    <2>2. p.token # 0 => \A s : Held(p, s) => s \in live
      BY <1>4, <2>1, HeldIsLive
    <2>3. QED
      BY <2>1, <2>2 DEF FlightInv, Flies
  <1>7. ASSUME NEW s \in live, InAtlas(s) \/ s \in U PROVE InAtlas(s)'
    <2>1. alloc[s].slot \in Slot
      BY AllocFacts DEF Base, CacheInv, CacheTypeOK, StoreTypeOK
    <2>2. PICK k : k = alloc[s].slot
      OBVIOUS
    <2>3. CASE \E u \in U : alloc[u].slot = k
      <3>1. PICK w : w = CHOOSE u \in U : alloc[u].slot = k
        OBVIOUS
      <3>2. w \in U /\ alloc[w].slot = k
        BY <2>3, <3>1
      <3>3. w = s
        BY <1>5, <2>2, <3>2 DEF Base, CacheInv, SlotsApart
      <3>4. atlas'[k] = w
        BY <1>3, <2>1, <2>2, <2>3, <3>1
      <3>5. QED
        BY <1>1, <2>2, <3>3, <3>4 DEF InAtlas
    <2>4. CASE ~ \E u \in U : alloc[u].slot = k
      <3>1. InAtlas(s) /\ atlas'[k] = atlas[k]
        BY <1>3, <1>7, <2>1, <2>2, <2>4
      <3>2. QED
        BY <1>1, <2>2, <3>1 DEF InAtlas
    <2>5. QED
      BY <2>3, <2>4
  <1>8. ReadyInv'
    BY <1>1, <1>7, StillReady
  <1>9. Flies(newest)' /\ Flies(packet)'
    BY <1>1 DEF FlightInv, Flies, Held
  <1>10. newest'.token # 0 => Drawable(newest)'
    BY <1>1, <1>6, <1>7 DEF FlightInv, Drawable
  <1>11. /\ \A d \in packet'.draws : InAtlas(d.serial)'
         /\ \A s \in packet'.uploads : InAtlas(s)'
    BY <1>1, <1>2, <1>5, <1>7 DEF FlightInv, Drawable
  <1>12. Shown'
    BY <1>1, <1>7 DEF FlightInv, Shown
  <1>13. QED
    BY <1>1, <1>8, <1>9, <1>10, <1>11, <1>12 DEF FlightInv

LEMMA CacheStepsFly ==
  ASSUME Base, Base', FlightInv, ReadyInv,
         BeginDraw \/ FinishDraining \/ StartRecording \/ Paint \/ UseCatalog \/ RebuildCatalog
           \/ Replace \/ AbortDraw \/ Joined \/ Closed
  PROVE  FlightInv' /\ ReadyInv'
  <1>1. CacheSteps /\ (retirements' = retirements \/ DOMAIN retirements' = {})
    BY DrainFramesSteps, DrainLeasesSteps, TrimSteps, PaintSteps, UseCatalogSteps, RebuildCatalogSteps,
       ReplaceSteps, AbortDrawSteps
  <1>2. Readies /\ Grows /\ atlas' = atlas
    BY <1>1 DEF CacheSteps, Elsewhere, gpuVars
  <1>3. QED
    BY <1>1, <1>2, ReadyKept, FlightOfCache

LEMMA FlightKept ==
  ASSUME Base, Base', FlightInv, ReadyInv, [Next]_fpVars
  PROVE  FlightInv' /\ ReadyInv'
  <1>1. CASE Record \/ Joined \/ Closed
    BY <1>1, CacheStepsFly, EndDrawFlies DEF Record
  <1>2. CASE DrawingFails \/ Screenshot \/ DrainFrameTimings \/ Answered
    <2>1. atlas' = atlas /\ worker' = worker
      BY <1>2 DEF DrawingFails, Screenshot, DrainFrameTimings, Answered, workerVars, gpuVars
    <2>2. QED
      BY <1>2, <2>1, QuietUi, QuietFlies
  <1>3. CASE EndLoop \/ BeginFrame \/ Present \/ Refuse \/ CompleteBoundary
               \/ CompleteReadback \/ Fail \/ StoreWorkerError
    <2>1. Quiet
      BY <1>3, QuietWorker
    <2>2. /\ atlas' = atlas
          /\ worker' \notin {"begins", "presents"}
          /\ worker' = "submits" => worker = "begins"
          /\ worker' = "retires" => worker = "presents"
      BY <1>3 DEF EndLoop, BeginFrame, Present, Refuse, CompleteBoundary, CompleteReadback, Fail,
                  StoreWorkerError, gpuVars
    <2>3. QED
      BY <2>1, <2>2, QuietFlies
  <1>4. CASE WaitTakeNewest \/ Submit \/ Recycle
    BY <1>4, WaitTakeNewestFlies, SubmitFlies, RecycleFlies
  <1>5. CASE Retire \/ Abandon \/ StopRenderWorker \/ StopMailbox
    BY <1>5, EndsFly
  <1>6. CASE UNCHANGED fpVars
    <2>1. Quiet /\ atlas' = atlas /\ worker' = worker
      BY <1>6 DEF fpVars, Quiet, SameFrame, mailVars, workerVars, gpuVars
    <2>2. QED
      BY <2>1, QuietFlies
  <1>7. QED
    BY <1>1, <1>2, <1>3, <1>4, <1>5, <1>6 DEF Next, Render

\* For any atlas, any number of frames in flight and whatever is skipped, replaced,
\* evicted or aborted meanwhile: what is presented is what was drawn.
THEOREM FramesShowWhatWasDrawn == Spec => []PresentedAsDrawn
  <1>1. Init => FlightInv /\ ReadyInv
    <2>1. Init => DOMAIN retirements = {} /\ live = {} /\ newest = NoPacket /\ packet = NoPacket
                  /\ worker = "waiting"
      BY DEF Init, CacheInit
    <2>2. QED
      BY <2>1, NoPacketFacts DEF FlightInv, ReadyInv, Flies, Drawable, Shown
  <1>2. Base /\ FlightInv => PresentedAsDrawn
    BY DEF Base, Stages, FlightInv, Flies, InAtlas, PresentedAsDrawn
  <1>3. Base /\ FlightInv /\ ReadyInv /\ [Next]_fpVars => (Base /\ FlightInv /\ ReadyInv)'
    BY BaseKept, FlightKept
  <1>4. Init => Base
    BY Starts
  <1>5. QED
    BY <1>1, <1>2, <1>3, <1>4, PTL DEF Spec
=============================================================================
