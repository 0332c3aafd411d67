--------------------------- MODULE ObjectDownloader --------------------------
(***************************************************************************)
(* The download of the objects a park lacks (windows/ObjectDownloader.cpp) *)
(* on the background worker, as the window of missing objects uses it      *)
(* (windows/ObjectLoadError.cpp).                                          *)
(*                                                                         *)
(* A batch asks for one entry after another: a request for the entry's     *)
(* metadata and, if that has a link, one for the object itself.  The       *)
(* window, the status box and the controller live on the main thread; only *)
(* the requests run on the worker.  Bg is the worker; the controller acts  *)
(* where Bg lets the main thread run code of its own, and its completion   *)
(* runs between Bg!Answer and Bg!Answered.                                 *)
(*                                                                         *)
(* The entries of a batch are taken in order, so _entries and              *)
(* _currentDownloadIndex are the set of those still to come, and the entry *)
(* whose turn it is.  Handles to jobs are their numbers.                   *)
(***************************************************************************)
EXTENDS Naturals, FiniteSets

CONSTANTS
  Worker, MaxJobs, NoJob,   \* of the background worker
  MaxEntry,                 \* bound: the objects there are
  MaxBatches                \* bound: calls of Begin

Entry == 1 .. MaxEntry

VARIABLES
  added, jobs, pending, stopSource, valid, completed, at, held, main, notifyDue,
  batch, shouldStop, answers

Bg == INSTANCE BackgroundWorker

ASSUME ObjectDownloaderAssumption ==
  /\ Bg!BackgroundWorkerAssumption
  /\ MaxEntry \in Nat \ {0} /\ MaxBatches \in Nat

VARIABLES
  open,         \* the window, and with it the controller, exists
  downloading,  \* _downloadingObjects
  queued,       \* _nextDownloadQueued
  todo,         \* the part of _entries from _currentDownloadIndex on
  current,      \* the entry before it, 0 for none
  request,      \* _requestJob, 0 for a handle to nothing
  downloaded,   \* _downloadedEntries
  source,       \* _lastDownloadSource is known
  status,       \* _downloadStatusInfo
  lastStatus,   \* _lastDownloadStatusInfo
  active,       \* _activeDownloader is the controller (else null)
  box,          \* the status box is open
  asked,        \* what each job asks for: batch, entry, stage
  batches,      \* how many batches have begun
  handled       \* the completion being called has run

bgVars == <<added, jobs, pending, stopSource, valid, completed, at, held, main,
            notifyDue, batch, shouldStop, answers>>
ctlVars == <<open, downloading, queued, todo, current, request, downloaded, source,
             status, lastStatus, active, box, asked, batches, handled>>
odVars == <<bgVars, ctlVars>>

Stage == {"metadata", "object"}
NoInfo == [entry |-> 0, source |-> FALSE]
Info(e) == [entry |-> e, source |-> source]
Nothing == [batch |-> 0, entry |-> 0, stage |-> "metadata"]

Init ==
  /\ Bg!Init
  /\ open = FALSE /\ downloading = FALSE /\ queued = FALSE
  /\ todo = {} /\ current = 0 /\ request = 0 /\ downloaded = {}
  /\ source = FALSE /\ status = NoInfo /\ lastStatus = NoInfo
  /\ active = FALSE /\ box = FALSE
  /\ asked = [j \in Bg!Job |-> Nothing]
  /\ batches = 0 /\ handled = FALSE

-----------------------------------------------------------------------------
(* The calls the controller is made of. *)

\* The request goes to the worker; the job's number is the handle.
StartRequest(e, stage) ==
  /\ Bg!AddJob
  /\ request' = added + 1
  /\ asked' = [asked EXCEPT ![added + 1] = [batch |-> batches, entry |-> e, stage |-> stage]]

\* Cancel: the controller is at rest.
AtRest == downloading' = FALSE /\ queued' = FALSE /\ status' = NoInfo /\ active' = FALSE

\* The request in flight is cancelled, and its job left to the worker.
CancelRequest ==
  /\ Bg!CancelJobs({request})
  /\ UNCHANGED <<added, jobs, pending, completed, at, held, main, notifyDue, batch, shouldStop, answers>>

\* Cancel with the request's job left alone.
KeepRequest == UNCHANGED bgVars

\* UpdateStatusBox: the box opens or closes when the status has changed.
ShowStatus ==
  /\ lastStatus' = status'
  /\ box' = IF status' = lastStatus THEN box ELSE status' # NoInfo

QueueNextDownload == queued' = downloading

-----------------------------------------------------------------------------
(* The window. *)

InFrame == main = "frame" /\ ~notifyDue

\* The window opens with a controller of its own.
OpenWindow ==
  /\ InFrame /\ ~open
  /\ open' = TRUE
  /\ downloading' = FALSE /\ queued' = FALSE /\ todo' = {} /\ current' = 0
  /\ request' = 0 /\ downloaded' = {} /\ source' = FALSE
  /\ status' = NoInfo /\ lastStatus' = NoInfo
  /\ UNCHANGED <<bgVars, active, box, asked, batches, handled>>

\* Mutant: the request of the batch goes on.
AbandonKeeping ==
  /\ KeepRequest /\ AtRest
  /\ box' = (box /\ ~downloading)
  /\ UNCHANGED <<todo, current, request, downloaded, source, lastStatus, asked, batches, handled>>

\* The batch is cancelled, and its status box closed without a callback, when
\* the window is given another park or closes.
Abandon ==
  /\ CancelRequest /\ AtRest
  /\ box' = (box /\ ~downloading)
  /\ UNCHANGED <<todo, current, request, downloaded, source, lastStatus, asked, batches, handled>>

Reinitialise == InFrame /\ open /\ Abandon /\ UNCHANGED open

\* The windows close at the end of the game too, after the worker's shutdown.
CloseWindow == (InFrame \/ main = "stopped") /\ open /\ Abandon /\ open' = FALSE

\* "Download all", for the objects that are missing.
Begin(entries) ==
  /\ InFrame /\ open /\ ~downloading /\ batches < MaxBatches
  /\ CancelRequest
  /\ batches' = batches + 1
  /\ todo' = entries /\ current' = 0 /\ downloaded' = {}
  /\ downloading' = TRUE /\ queued' = TRUE /\ active' = TRUE
  /\ source' = FALSE
  /\ status' = NoInfo /\ lastStatus' = NoInfo
  /\ box' = (box /\ lastStatus = NoInfo)
  /\ UNCHANGED <<open, request, asked, handled>>

\* Mutant: the status box only puts the controller at rest.
CloseBoxKeeping ==
  /\ InFrame /\ box
  /\ box' = FALSE
  /\ KeepRequest
  /\ IF active THEN AtRest ELSE UNCHANGED <<downloading, queued, status, active>>
  /\ UNCHANGED <<open, todo, current, request, downloaded, source, lastStatus, asked, batches, handled>>

\* The player closes the status box, whose callback cancels the download.
CloseStatusBox ==
  /\ InFrame /\ box
  /\ box' = FALSE
  /\ IF active THEN CancelRequest /\ AtRest
     ELSE KeepRequest /\ UNCHANGED <<downloading, queued, status, active>>
  /\ UNCHANGED <<open, todo, current, request, downloaded, source, lastStatus, asked, batches, handled>>

\* Mutant: the end of the list is tested one too late.
NextPastEnd ==
  /\ InFrame /\ open /\ queued /\ downloading
  /\ \E e \in todo \union {current + 1} :
       /\ Bg!First(todo, e) \/ todo = {}
       /\ todo' = todo \ {e}
       /\ current' = e
       /\ status' = Info(e)
       /\ StartRequest(e, "metadata")
  /\ queued' = FALSE
  /\ ShowStatus
  /\ UNCHANGED <<open, downloading, downloaded, source, active, batches, handled>>

\* Update: NextDownload asks for the metadata of the next entry.
NextDownload ==
  /\ InFrame /\ open /\ queued /\ downloading /\ todo # {}
  /\ \E e \in todo :
       /\ Bg!First(todo, e)
       /\ todo' = todo \ {e}
       /\ current' = e
       /\ status' = Info(e)
       /\ StartRequest(e, "metadata")
  /\ queued' = FALSE
  /\ ShowStatus
  /\ UNCHANGED <<open, downloading, downloaded, source, active, batches, handled>>

\* Update: NextDownload with no entry left ends the batch.
EndBatch ==
  /\ InFrame /\ open /\ queued /\ (~downloading \/ todo = {})
  /\ CancelRequest /\ AtRest
  /\ ShowStatus
  /\ UNCHANGED <<open, todo, current, request, downloaded, source, asked, batches, handled>>

\* Update with nothing queued.
RefreshStatus ==
  /\ InFrame /\ open /\ ~queued
  /\ status' = status
  /\ ShowStatus
  /\ UNCHANGED <<bgVars, open, downloading, queued, todo, current, request, downloaded, source,
                 active, asked, batches, handled>>

-----------------------------------------------------------------------------
(* The completions, on the main thread. *)

Answering(j) == main = "completion" /\ ~handled /\ Bg!First(batch, j)

\* The metadata has a link, and the object itself is asked for.
LinkFound(j) ==
  /\ Answering(j) /\ downloading /\ asked[j].stage = "metadata"
  /\ source' = TRUE
  /\ status' = [entry |-> asked[j].entry, source |-> TRUE]
  /\ StartRequest(asked[j].entry, "object")
  /\ handled' = TRUE
  /\ UNCHANGED <<open, downloading, queued, todo, current, downloaded, lastStatus, active, box, batches>>

\* Mutant: an exception is reported and that is all.
FailAndStay(j) ==
  /\ Answering(j)
  /\ handled' = TRUE
  /\ UNCHANGED <<bgVars, open, downloading, queued, todo, current, request, downloaded, source,
                 status, lastStatus, active, box, asked, batches>>

\* No metadata, no link, no object, an exception: on to the next entry.  (The
\* early return of a controller at rest would change nothing either; it is never
\* taken, see AnswersAreCurrent.)
RequestFailed(j) ==
  /\ Answering(j)
  /\ QueueNextDownload
  /\ handled' = TRUE
  /\ UNCHANGED <<bgVars, open, downloading, todo, current, request, downloaded, source, status,
                 lastStatus, active, box, asked, batches>>

\* Mutant: an object that was installed does not lead to the next entry.
InstallAndStay(j) ==
  /\ Answering(j) /\ downloading /\ asked[j].stage = "object"
  /\ downloaded' = downloaded \union {asked[j].entry}
  /\ handled' = TRUE
  /\ UNCHANGED <<bgVars, open, downloading, queued, todo, current, request, source, status,
                 lastStatus, active, box, asked, batches>>

\* The object has come and is in the repository.
ObjectInstalled(j) ==
  /\ Answering(j) /\ downloading /\ asked[j].stage = "object"
  /\ downloaded' = downloaded \union {asked[j].entry}
  /\ QueueNextDownload
  /\ handled' = TRUE
  /\ UNCHANGED <<bgVars, open, downloading, todo, current, request, source, status, lastStatus,
                 active, box, asked, batches>>

-----------------------------------------------------------------------------
(* The worker and the frames, around the controller. *)

\* dispatch returns once the completion has.
Answered(j) ==
  /\ handled /\ Bg!Answered(j)
  /\ handled' = FALSE
  /\ UNCHANGED <<open, downloading, queued, todo, current, request, downloaded, source, status,
                 lastStatus, active, box, asked, batches>>

ThreadStep(w) == Bg!ThreadStep(w) /\ UNCHANGED ctlVars

Dispatch ==
  /\ \/ Bg!NotifyOne \/ Bg!Collect \/ Bg!EndDispatch
     \/ \E j \in Bg!Job : Bg!Answer(j) \/ Bg!PassOver(j)
  /\ UNCHANGED ctlVars

Shutdown ==
  /\ Bg!BeginShutdown \/ Bg!CancelAll \/ Bg!NotifyAll \/ Bg!Joined
  /\ UNCHANGED ctlVars

Completion(j) ==
  LinkFound(j) \/ RequestFailed(j) \/ ObjectInstalled(j) \/ Answered(j)

Update == NextDownload \/ EndBatch \/ RefreshStatus

Next ==
  \/ \E w \in Worker : ThreadStep(w)
  \/ Dispatch \/ Shutdown
  \/ \E j \in Bg!Job : Completion(j)
  \/ Update
  \/ OpenWindow \/ Reinitialise \/ CloseWindow \/ CloseStatusBox
  \/ \E entries \in (SUBSET Entry) \ {{}} : Begin(entries)

\* The threads run and requests return; a frame dispatches what is ready and then
\* updates the windows, so neither starves the other.
Fairness ==
  /\ \A w \in Worker : WF_odVars(ThreadStep(w) /\ ~Bg!WakeSpuriously(w))
  /\ WF_odVars(Dispatch)
  /\ WF_odVars(\E j \in Bg!Job : Completion(j))
  /\ SF_odVars(Update)

Spec == Init /\ [][Next]_odVars
FairSpec == Spec /\ Fairness

-----------------------------------------------------------------------------
(* Properties. *)

\* The controller's fields, and the worker's below it, have values of their types.
TypeOK ==
  /\ Bg!TypeOK
  /\ open \in BOOLEAN /\ downloading \in BOOLEAN /\ queued \in BOOLEAN
  /\ active \in BOOLEAN /\ box \in BOOLEAN /\ handled \in BOOLEAN /\ source \in BOOLEAN
  /\ todo \subseteq Entry /\ downloaded \subseteq Entry /\ current \in Entry \union {0}
  /\ request \in Bg!Known \union {0}
  /\ status \in [entry : Entry \union {0}, source : BOOLEAN]
  /\ lastStatus \in [entry : Entry \union {0}, source : BOOLEAN]
  /\ asked \in [Bg!Job -> [batch : 0 .. MaxBatches, entry : Entry \union {0}, stage : Stage]]
  /\ batches \in 0 .. MaxBatches

\* An answer that reaches the controller is the answer to what it is waiting for:
\* to its last request, in the batch and for the entry it is at, and the window
\* still exists.  Requests of a batch that was aborted, replaced or closed come
\* back while the next one runs.  The entry is new to the batch, and its turn has
\* come.
AnswersAreCurrent ==
  \A j \in Bg!Job :
    Answering(j) =>
      /\ open /\ downloading /\ request = j
      /\ asked[j].batch = batches /\ asked[j].entry = current
      /\ \A e \in todo : current < e
      /\ \A e \in downloaded : e < current

\* A batch always has somebody to carry it on: the next entry is queued, or the
\* request is on its way, or its completion is about to run.  shutdown ends it.
BatchNeverStalls ==
  downloading /\ ~shouldStop =>
    \/ queued
    \/ request \in Bg!Known \ stopSource /\ answers[request] = 0
    \/ main = "completion" /\ ~handled

\* The status box is there only while its download runs in an open window, and
\* its callback then reaches the controller.
BoxBelongsToDownload == box => open /\ downloading /\ active

\* No request is left on the worker that nobody waits for: of all that were asked,
\* by batches that ended, were cancelled, replaced or closed, only the one behind the
\* controller's handle may still run or answer.
NoRequestForgotten ==
  \A j \in Bg!Known \ stopSource :
    answers[j] = 0 => open /\ downloading /\ request = j /\ asked[j].batch = batches

\* Every batch ends, however its requests turn out and whatever is left of
\* earlier ones on the worker, unless the game ends (or the bound on jobs is met).
EveryBatchEnds == downloading ~> ~downloading \/ shouldStop \/ added = MaxJobs
=============================================================================
