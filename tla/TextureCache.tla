----------------------------- MODULE TextureCache ---------------------------
(***************************************************************************)
(* The atlas of the Vulkan renderer (openrct2-renderer/gpu/                *)
(* GpuTextureCache.cpp): which slot of the atlas holds which texture, and  *)
(* which of them the frames that are still on their way may sample.        *)
(*                                                                         *)
(* The recording thread owns all of it.  It loads a texture when a frame   *)
(* first draws it, and keeps the upload until a frame that carried it has  *)
(* been presented.  The thread that renders only queues what has come of a *)
(* frame, and drops leases.                                                *)
(*                                                                         *)
(* An allocation is one use of a slot.  It is known by its serial number,  *)
(* its place in alloc.  A texture is an image, a glyph of an image or a    *)
(* text surface; ImageOf says which image an invalidation is about.  An    *)
(* allocation of an image is of an old generation once it is in retiring,  *)
(* so generations are not counted.  A catalog of artwork holds a lease on  *)
(* its textures from frame to frame, and so do the frames that use it.     *)
(***************************************************************************)
EXTENDS Naturals, Sequences, FiniteSets

CONSTANTS
  Image,         \* images that may be replaced
  Texture,       \* what is drawn
  Surface,       \* those of them that are text surfaces
  ImageOf,       \* the image of every other texture
  Catalog,       \* textures of the catalog
  Slot,          \* slots of the atlas
  MaxSurfaces,   \* kMaxResidentTTFSurfaces
  MaxSerial,     \* bound: allocations
  MaxLeases,     \* bound: leases of the catalog
  MaxReplaced    \* bound: replacements of an image

ASSUME TextureCacheAssumption ==
  /\ Surface \subseteq Texture /\ Catalog \subseteq Texture \ Surface
  /\ ImageOf \in [Texture \ Surface -> Image]
  /\ IsFiniteSet(Texture)
  /\ MaxSurfaces \in Nat \ {0}
  /\ MaxSerial \in Nat /\ MaxLeases \in Nat /\ MaxReplaced \in Nat

VARIABLES
  source,        \* which of its pictures each image has
  resident,      \* _images, _glyphs, _ttfSurfaces: allocation of each texture, or 0
  alloc,         \* every allocation there has been
  live,          \* _allocations
  pins,          \* pinCount of each allocation
  retiring,      \* allocations with retireWhenUnpinned
  free,          \* _freeSlots
  pending,       \* _pendingUploads
  frames,        \* frames sealed: the last residency token
  residency,     \* _residencyLeases
  retirements,   \* _pendingFrameRetirements
  assets,        \* the allocations of every lease there has been
  leased,        \* _assetLeases
  current,       \* leases with _current
  dropped,       \* _pendingAssetRetirements
  recording,     \* _recordingFrame
  bound,         \* _frameAllocations
  frameLease,    \* _frameAssetLeases: the catalog's, or 0
  draws,         \* what the frame samples, and how old it may be
  deferred,      \* _deferredInvalidations
  lastUse        \* lastUseFrame of each text surface

storeVars == <<resident, alloc, live, pins, retiring, free, pending>>
accountVars == <<frames, residency, retirements>>
leaseVars == <<assets, leased, current, dropped>>
frameVars == <<recording, bound, frameLease, draws, deferred, lastUse>>
cacheVars == <<source, storeVars, accountVars, leaseVars, frameVars>>

Serial == DOMAIN alloc
Lease == DOMAIN assets
This == frames + 1      \* _recordingFrameSerial, while a frame is recorded

Of(i) == {t \in Texture \ Surface : ImageOf[t] = i}
ShowsImage(s, i) == alloc[s].texture \in Of(i)
Leased(s) == \E l \in leased : s \in assets[l]
Picture(t) == IF t \in Surface THEN 0 ELSE source[ImageOf[t]]

CacheInit ==
  /\ source = [i \in Image |-> 0]
  /\ resident = [t \in Texture |-> 0]
  /\ alloc = <<>> /\ pins = <<>>
  /\ live = {} /\ retiring = {} /\ pending = {} /\ free = Slot
  /\ frames = 0 /\ residency = <<>> /\ retirements = <<>>
  /\ assets = <<>> /\ leased = {} /\ current = {} /\ dropped = {}
  /\ recording = FALSE /\ bound = {} /\ frameLease = 0 /\ draws = {} /\ deferred = {}
  /\ lastUse = [t \in Surface |-> 0]

-----------------------------------------------------------------------------
(* The parts operations are made of. *)

\* Mutant: the upload of an allocation that is freed stays.
SettleKeepingUploads(newPins, newRetiring, newPending) ==
  LET freed == {s \in live \intersect newRetiring : newPins[s] = 0}
  IN /\ pins' = newPins /\ retiring' = newRetiring
     /\ live' = live \ freed
     /\ free' = free \union {alloc[s].slot : s \in freed}
     /\ pending' = newPending

\* FreeIfUnpinned, for all whose pins or use have changed.
Settle(newPins, newRetiring, newPending) ==
  LET freed == {s \in live \intersect newRetiring : newPins[s] = 0}
  IN /\ pins' = newPins /\ retiring' = newRetiring
     /\ live' = live \ freed
     /\ free' = free \union {alloc[s].slot : s \in freed}
     /\ pending' = newPending \ freed

\* ApplyInvalidation, of some images: the pending uploads it drops, those of the
\* last generation.
Unleased(images) ==
  {s \in pending \ retiring : ~Leased(s) /\ \E i \in images : ShowsImage(s, i)}
Stale(images) == {resident[t] : t \in UNION {Of(i) : i \in images}} \ {0}
Forget(images) ==
  /\ resident' = [t \in Texture |-> IF \E i \in images : t \in Of(i) THEN 0 ELSE resident[t]]
  /\ current' = {l \in current : \A s \in assets[l] : \A i \in images : ~ShowsImage(s, i)}

\* Which text surfaces TrimTTFSurfaceCache evicts to have n left: the oldest, but
\* none of this frame.
Evicted(n, E, now) ==
  LET held == {t \in Surface : resident[t] # 0}
      old  == {t \in held : lastUse[t] # now}
      over == Cardinality(held) - n
  IN /\ E \subseteq old
     /\ IF n >= Cardinality(held) THEN E = {}
        ELSE Cardinality(E) = IF over < Cardinality(old) THEN over ELSE Cardinality(old)
     /\ \A t \in E, u \in old \ E : lastUse[t] <= lastUse[u]

\* The picture an image had when the frame first used it: what is drawn of it
\* from then on may be that old.
Since(t) ==
  LET used == {d \in draws : t \notin Surface /\ ShowsImage(d.serial, ImageOf[t])}
  IN IF used = {} THEN Picture(t) ELSE (CHOOSE d \in used : TRUE).since

Sample(s) == [serial |-> s, since |-> Since(alloc[s].texture)]

Used(t) == lastUse' = IF t \in Surface THEN [lastUse EXCEPT ![t] = This] ELSE lastUse

-----------------------------------------------------------------------------
(* Between frames. *)

\* Mutant: a frame takes its uploads with it, presented or not.
DrainFramesForgetting ==
  LET ended == {retirements[k].token : k \in DOMAIN retirements}
  IN /\ Settle([s \in Serial |->
                  pins[s] - Cardinality({n \in ended : s \in residency[n].allocations})],
               retiring,
               pending \ UNION {residency[n].uploads : n \in ended})
     /\ residency' = [n \in DOMAIN residency \ ended |-> residency[n]]
     /\ retirements' = <<>>
     /\ UNCHANGED <<source, resident, alloc, frames, leaseVars, frameVars>>

\* DrainFrameRetirements, first part: what has come of frames.
DrainFrames ==
  LET ended == {retirements[k].token : k \in DOMAIN retirements}
      shown == {retirements[k].token : k \in {j \in DOMAIN retirements : retirements[j].presented}}
  IN /\ Settle([s \in Serial |->
                  pins[s] - Cardinality({n \in ended : s \in residency[n].allocations})],
               retiring,
               pending \ UNION {residency[n].uploads : n \in shown})
     /\ residency' = [n \in DOMAIN residency \ ended |-> residency[n]]
     /\ retirements' = <<>>
     /\ UNCHANGED <<source, resident, alloc, frames, leaseVars, frameVars>>

\* Second part: leases whose last holder is gone.
DrainLeases ==
  /\ Settle([s \in Serial |-> pins[s] - Cardinality({l \in dropped : s \in assets[l]})],
            retiring, pending)
  /\ leased' = leased \ dropped /\ current' = current \ dropped
  /\ dropped' = {}
  /\ UNCHANGED <<source, resident, alloc, accountVars, assets>>

\* The rest of BeginFrame.
TrimAndRecord ==
  \E E \in SUBSET Surface :
    /\ Evicted(MaxSurfaces, E, This)
    /\ LET gone == {resident[t] : t \in E}
       IN Settle(pins, retiring \union gone, pending \ gone)
    /\ resident' = [t \in Texture |-> IF t \in E THEN 0 ELSE resident[t]]
    /\ recording' = TRUE
    /\ UNCHANGED <<source, alloc, accountVars, leaseVars, bound, frameLease, draws, deferred, lastUse>>

\* ApplyInvalidation outside of a frame, or for an image the frame has not used.
Invalidate(i) ==
  /\ Settle(pins, retiring \union Stale({i}), pending \ Unleased({i}))
  /\ Forget({i})
  /\ UNCHANGED <<alloc, accountVars, assets, leased, dropped, frameVars>>

\* IsAllocationBound
Bound(s) == s \in bound \/ (frameLease # 0 /\ s \in assets[frameLease])

Defer(i) ==
  /\ deferred' = deferred \union {i}
  /\ UNCHANGED <<storeVars, accountVars, leaseVars, recording, bound, frameLease, draws, lastUse>>

\* InvalidateImage, by whoever has just replaced the image. Replacing one that has
\* no allocation leaves the cache alone, and is left out.
ReplaceImage(i) ==
  /\ source[i] < MaxReplaced /\ \E s \in live : ShowsImage(s, i)
  /\ source' = [source EXCEPT ![i] = @ + 1]
  /\ IF recording /\ (\E s \in live : Bound(s) /\ ShowsImage(s, i)) THEN Defer(i) ELSE Invalidate(i)

-----------------------------------------------------------------------------
(* While a frame is recorded. *)

\* A texture that has a place: BindForRecording.
DrawResident(t) ==
  /\ recording /\ resident[t] # 0
  /\ bound' = bound \union {resident[t]}
  /\ draws' = draws \union {Sample(resident[t])}
  /\ Used(t)
  /\ UNCHANGED <<source, storeVars, accountVars, leaseVars, recording, frameLease, deferred>>

\* One that has none: it is decoded, given a slot and queued for upload; a text
\* surface takes the place of the oldest.  Without a free slot the frame fails.
DrawNew(t) ==
  /\ recording /\ resident[t] = 0 /\ Len(alloc) < MaxSerial
  /\ \E E \in SUBSET Surface :
       /\ IF t \in Surface THEN Evicted(MaxSurfaces - 1, E, This) ELSE E = {}
       /\ LET gone  == {resident[u] : u \in E}
              freed == {s \in gone : pins[s] = 0}
              new   == Len(alloc) + 1
          IN \E k \in free \union {alloc[s].slot : s \in freed} :
               /\ alloc' = Append(alloc, [texture |-> t, slot |-> k, pixels |-> Picture(t)])
               /\ pins' = Append(pins, 0)
               /\ live' = (live \ freed) \union {new}
               /\ free' = (free \union {alloc[s].slot : s \in freed}) \ {k}
               /\ retiring' = retiring \union gone
               /\ pending' = (pending \ gone) \union {new}
               /\ resident' = [u \in Texture |->
                                 IF u = t THEN new ELSE IF u \in E THEN 0 ELSE resident[u]]
               /\ bound' = bound \union {new}
               /\ draws' = draws \union {[serial |-> new, since |-> Since(t)]}
  /\ Used(t)
  /\ UNCHANGED <<source, accountVars, leaseVars, recording, frameLease, deferred>>

\* TryBindAssetLease
BindLease(l) ==
  /\ recording /\ l \in current
  /\ frameLease' = l
  /\ draws' = draws \union {Sample(s) : s \in assets[l]}
  /\ UNCHANGED <<source, storeVars, accountVars, leaseVars, recording, bound, deferred, lastUse>>

\* CreateAssetLease, once all its textures have been resolved, and TryBindAssetLease.
CreateLease ==
  LET mine == {resident[t] : t \in Catalog}
      new  == Len(assets) + 1
  IN /\ recording /\ mine \subseteq bound
     /\ Len(assets) < MaxLeases
     /\ pins' = [s \in Serial |-> pins[s] + IF s \in mine THEN 1 ELSE 0]
     /\ assets' = Append(assets, mine)
     /\ leased' = leased \union {new} /\ current' = current \union {new}
     /\ frameLease' = new
     /\ UNCHANGED <<source, resident, alloc, live, retiring, free, pending, accountVars,
                    recording, bound, draws, deferred, lastUse>>

\* The uploads a frame carries.
Uploads == {s \in pending : Bound(s) /\ (s \in retiring => Leased(s))}

EndRecording ==
  /\ recording' = FALSE /\ bound' = {} /\ frameLease' = 0 /\ draws' = {} /\ deferred' = {}
  /\ UNCHANGED lastUse

\* SealFrame and EndRecordingFrame
SealFrame ==
  /\ recording
  /\ frames' = This
  /\ residency' = [n \in DOMAIN residency \union {This} |->
                     IF n = This THEN [allocations |-> bound, uploads |-> Uploads]
                     ELSE residency[n]]
  /\ Settle([s \in Serial |-> pins[s] + IF s \in bound THEN 1 ELSE 0],
            retiring \union Stale(deferred), pending \ Unleased(deferred))
  /\ Forget(deferred)
  /\ EndRecording
  /\ UNCHANGED <<source, alloc, assets, leased>>

AbortFrame ==
  /\ recording
  /\ Settle(pins, retiring \union Stale(deferred), pending \ Unleased(deferred))
  /\ Forget(deferred)
  /\ EndRecording
  /\ UNCHANGED <<source, alloc, accountVars, assets, leased>>

-----------------------------------------------------------------------------
(* The cache's variables are those of its allocations, accounts and leases. *)

StoreTypeOK ==
  /\ source \in [Image -> 0 .. MaxReplaced]
  /\ resident \in [Texture -> Serial \union {0}]
  /\ alloc \in Seq([texture : Texture, slot : Slot, pixels : 0 .. MaxReplaced])
  /\ pins \in [Serial -> Nat]
  /\ live \subseteq Serial /\ retiring \subseteq Serial /\ pending \subseteq live
  /\ free \subseteq Slot

AccountTypeOK ==
  /\ frames \in Nat
  /\ DOMAIN residency \subseteq 1 .. frames
  /\ \A n \in DOMAIN residency :
       residency[n] \in [allocations : SUBSET Serial, uploads : SUBSET Serial]
  /\ retirements \in Seq([token : 1 .. frames, presented : BOOLEAN])

LeaseTypeOK ==
  /\ assets \in Seq(SUBSET Serial)
  /\ leased \subseteq Lease /\ current \subseteq Lease /\ dropped \subseteq leased

FrameTypeOK ==
  /\ recording \in BOOLEAN
  /\ bound \subseteq live /\ frameLease \in leased \union {0}
  /\ draws \subseteq [serial : Serial, since : 0 .. MaxReplaced]
  /\ deferred \subseteq Image
  /\ lastUse \in [Surface -> Nat]

CacheTypeOK == StoreTypeOK /\ AccountTypeOK /\ LeaseTypeOK /\ FrameTypeOK
=============================================================================
