-------------------------- MODULE FramePresentation -------------------------
(***************************************************************************)
(* The way of a frame to the screen (openrct2-ui/drawing/engines/vulkan/   *)
(* VulkanDrawingEngine.cpp, openrct2-renderer/gpu/GpuFrameMailbox.h).      *)
(*                                                                         *)
(* The main thread records frames, takes screenshots and waits for the     *)
(* renderer to have finished; a render worker takes the newest frame from  *)
(* a mailbox of one place, uploads the textures it carries, and presents   *)
(* it.  A frame may be replaced before it is taken, skipped because the    *)
(* swapchain is busy, or fail, which ends the worker.  A request for a     *)
(* screenshot or for the end of the work rides on the frame in the         *)
(* mailbox, or alone.                                                      *)
(*                                                                         *)
(* Both threads wait on conditions that are tested under the lock of what  *)
(* they are about, and notified after each change of it, so a waiting      *)
(* thread is one whose next action is not enabled.  The packet returned    *)
(* for reuse is cleared before it is used again and is left out, and so is *)
(* what the settings of a frame (size, palette, HDR) do to the backend.    *)
(***************************************************************************)
EXTENDS TextureCache

CONSTANTS
  MaxFrames,     \* bound: frames sealed
  MaxRequests    \* bound: screenshots and waits for the renderer

ASSUME FramePresentationAssumption == MaxFrames \in Nat /\ MaxRequests \in Nat

VARIABLES
  ui,          \* where the main thread is
  requests,    \* how many requests there have been
  readback,    \* the last screenshot: how it stands, what it shows and has to show
  boundary,    \* how the last wait for the renderer stands
  newest,      \* _newest
  stopping,    \* _stopping
  worker,      \* where the render worker is
  packet,      \* its frame
  error,       \* _workerError is set
  atlas,       \* the allocation whose pixels each slot of the GPU's atlas holds
  canvas,      \* the frame presented last
  catalog      \* the lease the catalog holds, or 0

uiVars == <<ui, requests>>
requestVars == <<readback, boundary>>
mailVars == <<newest, stopping>>
gpuVars == <<atlas, canvas>>
workerVars == <<worker, packet, error>>
fpVars == <<cacheVars, uiVars, requestVars, mailVars, workerVars, gpuVars, catalog>>

\* RecordedFramePacket. Without a token it is a control packet, or has been retired.
NoPacket == [visual |-> FALSE, token |-> 0, draws |-> {}, uploads |-> {}, lease |-> 0,
             readback |-> FALSE, boundary |-> FALSE]

Standing == {"none", "waiting", "done", "refused", "failed"}

Init ==
  /\ CacheInit
  /\ ui = "frame" /\ requests = 0
  /\ readback = [is |-> "none", shows |-> 0, wants |-> 0] /\ boundary = "none"
  /\ newest = NoPacket /\ stopping = FALSE
  /\ worker = "waiting" /\ packet = NoPacket /\ error = FALSE
  /\ atlas = [k \in Slot |-> 0] /\ canvas = 0
  /\ catalog = 0

\* Whoever holds a lease; the last of them to let go queues it (~AtlasAssetLease).
Holders == {catalog, frameLease, newest.lease, packet.lease} \ {0}
DropLeases == dropped' = dropped \union (Holders \ Holders')

\* RetireFrame
Retirement(p, presented) ==
  IF p.token = 0 THEN <<>> ELSE <<[token |-> p.token, presented |-> presented]>>

\* What waits on a packet fails.
FailWaiters(p) ==
  /\ readback' = IF p.readback THEN [readback EXCEPT !.is = "failed"] ELSE readback
  /\ boundary' = IF p.boundary THEN "failed" ELSE boundary

-----------------------------------------------------------------------------
(* The main thread records frames. *)

\* BeginDrawQueued. A worker that has failed ends the drawing. The frame loop asks
\* CanBeginFrame first, the drawing of progress while something loads does not.
BeginDraw ==
  /\ ui = "frame" /\ ~error /\ frames < MaxFrames
  /\ ui' = "draining"
  /\ DrainFrames
  /\ UNCHANGED <<requests, requestVars, mailVars, workerVars, gpuVars, catalog>>

DrawingFails ==
  /\ ui = "frame" /\ error
  /\ ui' = "failed"
  /\ UNCHANGED <<cacheVars, requests, requestVars, mailVars, workerVars, gpuVars, catalog>>

FinishDraining ==
  /\ ui = "draining" /\ ui' = "trimming"
  /\ DrainLeases
  /\ UNCHANGED <<frameVars, requests, requestVars, mailVars, workerVars, gpuVars, catalog>>

StartRecording ==
  /\ ui = "trimming" /\ ui' = "recording"
  /\ TrimAndRecord
  /\ UNCHANGED <<requests, requestVars, mailVars, workerVars, gpuVars, catalog>>

Paint ==
  /\ ui = "recording"
  /\ \E t \in Texture : DrawResident(t) \/ DrawNew(t)
  /\ UNCHANGED <<uiVars, requestVars, mailVars, workerVars, gpuVars, catalog>>

\* ResolveAssets: the catalog's lease is bound, or made anew once it is stale.
UseCatalog ==
  /\ ui = "recording" /\ catalog \in current /\ BindLease(catalog)
  /\ UNCHANGED <<uiVars, requestVars, mailVars, workerVars, gpuVars, catalog>>

RebuildCatalog ==
  /\ ui = "recording" /\ catalog \notin current
  /\ \A t \in Catalog : resident[t] # 0
  /\ CreateLease
  /\ catalog' = Len(assets')
  /\ UNCHANGED <<uiVars, requestVars, mailVars, workerVars, gpuVars>>
  /\ DropLeases

Replace ==
  /\ ui \in {"frame", "recording"}
  /\ \E i \in Image : ReplaceImage(i)
  /\ UNCHANGED <<uiVars, requestVars, mailVars, workerVars, gpuVars, catalog>>

\* Publish: the frame takes the place of the newest, and its requests.
Publish(p) ==
  newest' = [p EXCEPT !.readback = newest.readback, !.boundary = newest.boundary]

\* EndDrawQueued
EndDraw ==
  LET p == [NoPacket EXCEPT !.visual = TRUE, !.token = This, !.draws = draws,
                            !.uploads = Uploads, !.lease = frameLease]
  IN /\ ui = "recording"
     /\ SealFrame
     /\ \/ /\ ~stopping
           /\ Publish(p)
           /\ retirements' = retirements \o Retirement(newest, FALSE)
           /\ ui' = "frame"
        \/ /\ stopping
           /\ retirements' = retirements \o Retirement(p, FALSE)
           /\ ui' = "failed"
           /\ UNCHANGED newest
     /\ UNCHANGED <<requests, requestVars, stopping, workerVars, gpuVars, catalog>>
     /\ DropLeases

\* Recording fails (a full atlas, for one) and with it the program.
AbortDraw ==
  /\ ui = "recording"
  /\ AbortFrame
  /\ ui' = "failed"
  /\ UNCHANGED <<requests, requestVars, mailVars, workerVars, gpuVars, catalog>>
  /\ DropLeases

-----------------------------------------------------------------------------
(* The main thread waits for the render worker. *)

\* PublishControl, for Screenshot: the request rides on the newest frame.
Screenshot ==
  /\ ui = "frame" /\ ~error /\ requests < MaxRequests
  /\ requests' = requests + 1
  /\ IF stopping
       THEN /\ readback' = [is |-> "failed", shows |-> 0, wants |-> 0]
            /\ UNCHANGED <<ui, newest>>
       ELSE /\ readback' = [is |-> "waiting", shows |-> 0, wants |-> newest.token]
            /\ newest' = [newest EXCEPT !.readback = TRUE]
            /\ ui' = "awaitsReadback"
  /\ UNCHANGED <<cacheVars, boundary, stopping, workerVars, gpuVars, catalog>>

DrainFrameTimings ==
  /\ ui = "frame" /\ requests < MaxRequests
  /\ requests' = requests + 1
  /\ IF stopping
       THEN /\ ui' = "failed"
            /\ UNCHANGED <<boundary, newest>>
       ELSE /\ boundary' = "waiting"
            /\ newest' = [newest EXCEPT !.boundary = TRUE]
            /\ ui' = "awaitsBoundary"
  /\ UNCHANGED <<cacheVars, readback, stopping, workerVars, gpuVars, catalog>>

Answered ==
  /\ \/ ui = "awaitsReadback" /\ readback.is # "waiting" /\ ui' = "frame"
     \/ /\ ui = "awaitsBoundary" /\ boundary # "waiting"
        /\ ui' = IF boundary = "failed" \/ error THEN "failed" ELSE "frame"
  /\ UNCHANGED <<cacheVars, requests, requestVars, mailVars, workerVars, gpuVars, catalog>>

\* StopRenderWorker, when the program ends or drawing has failed.
StopRenderWorker ==
  /\ ui \in {"frame", "failed"}
  /\ ui' = "joining"
  /\ stopping' = TRUE
  /\ newest' = NoPacket
  /\ FailWaiters(newest)
  /\ retirements' = retirements \o Retirement(newest, FALSE)
  /\ UNCHANGED <<source, storeVars, frames, residency, assets, leased, current, frameVars,
                 requests, workerVars, gpuVars, catalog>>
  /\ DropLeases

Joined ==
  /\ ui = "joining" /\ worker = "exited"
  /\ ui' = "closing"
  /\ DrainFrames
  /\ UNCHANGED <<requests, requestVars, mailVars, workerVars, gpuVars, catalog>>

Closed ==
  /\ ui = "closing" /\ ui' = "closed"
  /\ DrainLeases
  /\ UNCHANGED <<frameVars, requests, requestVars, mailVars, workerVars, gpuVars, catalog>>

-----------------------------------------------------------------------------
(* The render worker. *)

\* Of the worker's steps, those that leave the mailbox and the cache alone.
Renders == UNCHANGED <<cacheVars, uiVars, mailVars, error, catalog>>

WaitTakeNewest ==
  /\ worker = "waiting" /\ newest # NoPacket
  /\ packet' = newest /\ newest' = NoPacket
  /\ worker' = IF newest.visual THEN "begins" ELSE "settles"
  /\ UNCHANGED <<cacheVars, uiVars, requestVars, stopping, error, gpuVars, catalog>>

EndLoop ==
  /\ worker = "waiting" /\ newest = NoPacket /\ stopping
  /\ worker' = "exited"
  /\ UNCHANGED <<packet, requestVars, gpuVars>> /\ Renders

\* BeginFrame gets an image of the swapchain, or none.
BeginFrame ==
  /\ worker = "begins"
  /\ worker' \in {"submits", "skips"}
  /\ UNCHANGED <<packet, requestVars, gpuVars>> /\ Renders

\* The uploads go first, then what samples them.
Submit ==
  /\ worker = "submits" /\ worker' = "presents"
  /\ atlas' = [k \in Slot |->
                 IF \E s \in packet.uploads : alloc[s].slot = k
                   THEN CHOOSE s \in packet.uploads : alloc[s].slot = k
                   ELSE atlas[k]]
  /\ UNCHANGED <<packet, requestVars, canvas>> /\ Renders

Present ==
  /\ worker = "presents" /\ worker' = "retires"
  /\ canvas' = packet.token
  /\ UNCHANGED <<packet, requestVars, atlas>> /\ Renders

\* Mutant: the screenshot of a frame that is not presented is taken all the same.
RefuseLater ==
  /\ worker = "skips" /\ worker' = "retiresSkipped"
  /\ UNCHANGED <<packet, requestVars, gpuVars>> /\ Renders

\* A frame that is not presented answers its screenshot with nothing.
Refuse ==
  /\ worker = "skips" /\ worker' = "retiresSkipped"
  /\ readback' = IF packet.readback THEN [readback EXCEPT !.is = "refused"] ELSE readback
  /\ packet' = [packet EXCEPT !.readback = FALSE]
  /\ UNCHANGED <<boundary, gpuVars>> /\ Renders

\* Mutant: a frame that is not presented is not retired.
RetirePresented ==
  /\ worker \in {"retires", "retiresSkipped"} /\ worker' = "settles"
  /\ retirements' = retirements \o
                     IF worker = "retires" THEN Retirement(packet, TRUE) ELSE <<>>
  /\ packet' = [packet EXCEPT !.token = 0]
  /\ UNCHANGED <<source, storeVars, frames, residency, leaseVars, frameVars, uiVars,
                 requestVars, mailVars, error, gpuVars, catalog>>

\* RetirePacket
Retire ==
  /\ worker \in {"retires", "retiresSkipped"} /\ worker' = "settles"
  /\ retirements' = retirements \o Retirement(packet, worker = "retires")
  /\ packet' = [packet EXCEPT !.token = 0]
  /\ UNCHANGED <<source, storeVars, frames, residency, leaseVars, frameVars, uiVars,
                 requestVars, mailVars, error, gpuVars, catalog>>

\* CompleteTimingBoundary
CompleteBoundary ==
  /\ worker = "settles" /\ worker' = "reads"
  /\ boundary' = IF packet.boundary THEN "done" ELSE boundary
  /\ packet' = [packet EXCEPT !.boundary = FALSE]
  /\ UNCHANGED <<readback, gpuVars>> /\ Renders

\* CompleteReadback: the canvas of the last frame, unless there is none of that size.
CompleteReadback ==
  /\ worker = "reads" /\ worker' = "recycles"
  /\ readback' \in IF packet.readback
                     THEN {[readback EXCEPT !.is = "refused"]}
                          \union {[readback EXCEPT !.is = "done", !.shows = n] : n \in {canvas} \ {0}}
                     ELSE {readback}
  /\ packet' = [packet EXCEPT !.readback = FALSE]
  /\ UNCHANGED <<boundary, gpuVars>> /\ Renders

\* RecyclePacket
Recycle ==
  /\ worker = "recycles" /\ worker' = "waiting"
  /\ packet' = NoPacket
  /\ UNCHANGED <<source, storeVars, accountVars, assets, leased, current, frameVars, uiVars,
                 requestVars, mailVars, error, gpuVars, catalog>>
  /\ DropLeases

\* Whatever the backend is asked may fail. The waiters are told first ...
Fail ==
  /\ worker \in {"begins", "submits", "presents", "settles", "reads"}
  /\ worker = "settles" => packet.boundary
  /\ worker = "reads" => packet.readback
  /\ worker' = "abandons"
  /\ FailWaiters(packet)
  /\ packet' = [packet EXCEPT !.readback = FALSE, !.boundary = FALSE]
  /\ UNCHANGED gpuVars /\ Renders

\* ... then the cache ...
Abandon ==
  /\ worker = "abandons" /\ worker' = "reports"
  /\ retirements' = retirements \o Retirement(packet, FALSE)
  /\ packet' = [packet EXCEPT !.token = 0]
  /\ UNCHANGED <<source, storeVars, frames, residency, leaseVars, frameVars, uiVars,
                 requestVars, mailVars, error, gpuVars, catalog>>

\* ... and the main thread, ...
StoreWorkerError ==
  /\ worker = "reports" /\ worker' = "stops"
  /\ error' = TRUE
  /\ UNCHANGED <<cacheVars, uiVars, requestVars, mailVars, packet, gpuVars, catalog>>

\* Mutant: nobody tells those that wait for what has come meanwhile.
StopMailboxSilently ==
  /\ worker = "stops" /\ worker' = "exited"
  /\ stopping' = TRUE
  /\ newest' = NoPacket /\ packet' = NoPacket
  /\ retirements' = retirements \o Retirement(newest, FALSE)
  /\ UNCHANGED <<source, storeVars, frames, residency, assets, leased, current, frameVars,
                 uiVars, requestVars, error, gpuVars, catalog>>
  /\ DropLeases

\* ... and then whatever has come meanwhile: RetireStoppedPacket.
StopMailbox ==
  /\ worker = "stops" /\ worker' = "exited"
  /\ stopping' = TRUE
  /\ newest' = NoPacket /\ packet' = NoPacket
  /\ FailWaiters(newest)
  /\ retirements' = retirements \o Retirement(newest, FALSE)
  /\ UNCHANGED <<source, storeVars, frames, residency, assets, leased, current, frameVars,
                 uiVars, error, gpuVars, catalog>>
  /\ DropLeases

-----------------------------------------------------------------------------
Record ==
  BeginDraw \/ FinishDraining \/ StartRecording \/ Paint \/ UseCatalog \/ RebuildCatalog
    \/ Replace \/ EndDraw \/ AbortDraw

Render ==
  WaitTakeNewest \/ EndLoop \/ BeginFrame \/ Submit \/ Present \/ Refuse \/ Retire
    \/ CompleteBoundary \/ CompleteReadback \/ Recycle
    \/ Fail \/ Abandon \/ StoreWorkerError \/ StopMailbox

Next ==
  \/ Record \/ DrawingFails \/ Screenshot \/ DrainFrameTimings \/ Answered
  \/ StopRenderWorker \/ Joined \/ Closed
  \/ Render

\* The worker runs, and what it calls of the backend returns; the main thread wakes
\* when what it waits for has come. Nobody has to draw.
Fairness == WF_fpVars(Render) /\ WF_fpVars(Answered \/ Joined)

Spec == Init /\ [][Next]_fpVars
FairSpec == Spec /\ Fairness

-----------------------------------------------------------------------------
(* Properties. *)

PacketOK(p) ==
  p \in [visual : BOOLEAN, token : 0 .. frames,
         draws : SUBSET [serial : Serial, since : 0 .. MaxReplaced],
         uploads : SUBSET Serial, lease : leased \union {0},
         readback : BOOLEAN, boundary : BOOLEAN]

ThreadsTypeOK ==
  /\ ui \in {"frame", "draining", "trimming", "recording", "awaitsReadback",
             "awaitsBoundary", "failed", "joining", "closing", "closed"}
  /\ requests \in 0 .. MaxRequests
  /\ readback \in [is : Standing, shows : 0 .. frames, wants : 0 .. frames]
  /\ boundary \in Standing
  /\ stopping \in BOOLEAN /\ error \in BOOLEAN
  /\ worker \in {"waiting", "begins", "submits", "presents", "retires", "skips",
                 "retiresSkipped", "settles", "reads", "recycles", "abandons", "reports",
                 "stops", "exited"}

GpuTypeOK ==
  /\ atlas \in [Slot -> Serial \union {0}]
  /\ canvas \in 0 .. frames

\* The cache, the packets and both threads have values the code can give them.
TypeOK ==
  /\ CacheTypeOK /\ ThreadsTypeOK /\ GpuTypeOK
  /\ PacketOK(newest) /\ PacketOK(packet)
  /\ catalog \in leased \union {0}

\* A frame that is presented samples, in every slot, the texture that was drawn,
\* and no older picture of it than there was when the frame first used the image:
\* whatever became of the frames whose uploads it relies on, and whatever has been
\* replaced, evicted and loaded since it was recorded.
PresentedAsDrawn ==
  worker = "presents" =>
    \A d \in packet.draws :
      /\ atlas[alloc[d.serial].slot] = d.serial
      /\ alloc[d.serial].pixels >= d.since

\* Every frame is accounted for once: what is sealed is on its way, or its end is
\* queued for the cache, and when the renderer is closed nothing is pinned but by
\* the catalog.
FramesAreAccounted ==
  LET ended == {retirements[k].token : k \in DOMAIN retirements}
  IN /\ \A j, k \in DOMAIN retirements : retirements[j].token = retirements[k].token => j = k
     /\ DOMAIN residency = ended \union ({newest.token, packet.token} \ {0})
     /\ ended \intersect {newest.token, packet.token} = {}
     /\ ui = "closed" => DOMAIN residency = {} /\ leased \subseteq {catalog}

\* A screenshot shows the frame that was the newest when it was asked for, or a
\* later one, or nothing: never a frame before one that was skipped.
CaptureIsCurrent == readback.is = "done" => readback.shows >= readback.wants

Waits == ui \in {"awaitsReadback", "awaitsBoundary", "joining"}

\* Whoever waits for the render worker is answered, also when it fails.
WaitsEnd == Waits ~> ~Waits
=============================================================================
