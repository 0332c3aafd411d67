----------------------- MODULE ObjectDownloaderProofs -----------------------
(***************************************************************************)
(* What ObjectDownloader promises for any number of objects, batches,      *)
(* requests and threads.                                                   *)
(*                                                                         *)
(* Every step of the composition is a step of the worker, so the worker's  *)
(* own invariant holds in it.  What it says of the job that nobody has     *)
(* cancelled, that its handle still reaches it, is what the controller     *)
(* relies on: cancelling the last request leaves none that could answer.   *)
(***************************************************************************)
EXTENDS ObjectDownloader, TLAPS

Bp == INSTANCE BackgroundWorkerProofs

-----------------------------------------------------------------------------
(* The proofs about BackgroundWorker, as they apply to Bg. *)

LEMMA WorkerAssumption == Bp!BackgroundWorkerAssumption
  BY ObjectDownloaderAssumption
     DEF Bg!BackgroundWorkerAssumption, Bp!BackgroundWorkerAssumption, Bg!IsFiniteSet, Bp!IsFiniteSet

LEMMA SameThreads == \A w \in Worker : Bg!ThreadStep(w) => Bp!ThreadStep(w)
  BY DEF Bp!ThreadStep, Bp!Sleep, Bp!WakeSpuriously, Bp!TakeJob, Bp!SkipCancelled,
         Bp!StartWork, Bp!FinishWork, Bp!ExitThread, Bp!First, Bp!flagVars,
         Bg!ThreadStep, Bg!Sleep, Bg!WakeSpuriously, Bg!TakeJob, Bg!SkipCancelled,
         Bg!StartWork, Bg!FinishWork, Bg!ExitThread, Bg!First, Bg!flagVars

LEMMA SameMain == Bg!MainStep => Bp!MainStep
  BY DEF Bp!MainStep, Bp!NotifyOne, Bp!Collect, Bp!EndDispatch, Bp!CancelAll, Bp!NotifyAll,
         Bp!Joined, Bp!Answer, Bp!PassOver, Bp!Answered, Bp!First, Bp!flagVars, Bp!workerVars, Bp!Job,
         Bg!MainStep, Bg!NotifyOne, Bg!Collect, Bg!EndDispatch, Bg!CancelAll, Bg!NotifyAll,
         Bg!Joined, Bg!Answer, Bg!PassOver, Bg!Answered, Bg!First, Bg!flagVars, Bg!workerVars, Bg!Job

LEMMA SameAsked ==
  /\ Bg!AddJob => Bp!AddJob
  /\ Bg!RefuseJob => Bp!RefuseJob
  /\ Bg!BeginShutdown => Bp!BeginShutdown
  /\ \A j \in Bg!Known : Bg!Cancel(j) => j \in Bp!Known /\ Bp!Cancel(j)
  BY DEF Bp!AddJob, Bp!RefuseJob, Bp!BeginShutdown, Bp!Cancel, Bp!CancelJobs, Bp!Alive, Bp!Known,
         Bp!Free, Bp!flagVars, Bp!workerVars,
         Bg!AddJob, Bg!RefuseJob, Bg!BeginShutdown, Bg!Cancel, Bg!CancelJobs, Bg!Alive, Bg!Known,
         Bg!Free, Bg!flagVars, Bg!workerVars

LEMMA SameNext == [Bg!Next]_(Bg!bgVars) => [Bp!Next]_(Bp!bgVars)
  BY SameThreads, SameMain, SameAsked DEF Bg!Next, Bp!Next, Bg!bgVars, Bp!bgVars

LEMMA SameInit == Bg!Init => Bp!Init
  BY DEF Bg!Init, Bp!Init, Bg!Job, Bp!Job

LEMMA WorkerInvInit == Bg!Init => Bp!WorkerInv
  BY SameInit, WorkerAssumption, Bp!InvInit

LEMMA WorkerInvStep == Bp!WorkerInv /\ [Bg!Next]_(Bg!bgVars) => Bp!WorkerInv'
  BY SameNext, WorkerAssumption, Bp!InvStep

\* What is used of the worker's invariant.
WorkerFacts ==
  /\ MaxJobs \in Nat /\ added \in Nat /\ added <= MaxJobs
  /\ jobs \subseteq 1 .. added /\ pending \subseteq 1 .. added /\ batch \subseteq 1 .. added
  /\ stopSource \subseteq 1 .. added
  /\ \A w \in Worker : held[w] # 0
  /\ answers \in [1 .. MaxJobs -> Nat]
  /\ \A j \in 1 .. MaxJobs : j > added => answers[j] = 0
  /\ \A j \in (1 .. added) \ stopSource : answers[j] = 0 => j \in jobs \union batch
  /\ main = "dispatch" => \A j \in batch : answers[j] = 0
  /\ main = "completion" => \A j \in batch : Bg!First(batch, j) => answers[j] # 0

LEMMA WorkerKnown == Bp!WorkerInv => WorkerFacts
  <1> SUFFICES ASSUME Bp!WorkerInv PROVE WorkerFacts
    OBVIOUS
  <1> USE DEF Bp!WorkerInv
  <1>m. MaxJobs \in Nat /\ NoJob \notin Nat
    BY WorkerAssumption DEF Bp!BackgroundWorkerAssumption
  <1>1. added \in Nat /\ added <= MaxJobs
    BY <1>m DEF Bp!TypeOK
  <1>2. /\ jobs \subseteq 1 .. added /\ pending \subseteq 1 .. added /\ batch \subseteq 1 .. added
        /\ stopSource \subseteq 1 .. added
    BY DEF Bp!TypeOK, Bp!Known
  <1>3. ASSUME NEW w \in Worker PROVE held[w] # 0
    <2>1. held[w] \in 1 .. added \/ held[w] = NoJob
      BY DEF Bp!TypeOK, Bp!Known
    <2>2. QED
      BY <1>m, <1>1, <2>1
  <1>4. answers \in [1 .. MaxJobs -> Nat]
    BY DEF Bp!TypeOK, Bp!Job
  <1>5. \A j \in 1 .. MaxJobs : j > added => answers[j] = 0
    BY DEF Bp!AnsweredSoFar, Bp!Job
  <1>6. \A j \in (1 .. added) \ stopSource : answers[j] = 0 => j \in jobs \union batch
    BY DEF Bp!NothingLost, Bp!Known
  <1>7. main = "dispatch" => \A j \in batch : answers[j] = 0
    BY DEF Bp!AnsweredSoFar
  <1>8. main = "completion" => \A j \in batch : Bg!First(batch, j) => answers[j] # 0
    BY DEF Bp!AnsweredSoFar, Bg!First, Bp!First
  <1>9. QED
    BY <1>m, <1>1, <1>2, <1>3, <1>4, <1>5, <1>6, <1>7, <1>8 DEF WorkerFacts

-----------------------------------------------------------------------------
(* Every step of the composition is one of the worker. *)

\* The handle the controller keeps.
HandleOK == request \in 0 .. added

\* Cancelling the request is a Cancel of the worker, or nothing if there is none.
LEMMA CancelMaps ==
  ASSUME WorkerFacts, HandleOK, InFrame \/ main = "stopped", CancelRequest
  PROVE  [Bg!Next]_(Bg!bgVars)
  <1>1. CASE request = 0
    <2>1. ~Bg!Alive(0)
      BY DEF Bg!Alive, WorkerFacts
    <2>2. stopSource' = stopSource /\ valid' = valid
      BY <1>1, <2>1 DEF CancelRequest, Bg!CancelJobs
    <2>3. QED
      BY <2>2 DEF CancelRequest, Bg!bgVars
  <1>2. CASE request # 0
    <2>1. request \in Bg!Known
      BY <1>2 DEF HandleOK, WorkerFacts, Bg!Known
    <2>2. Bg!Cancel(request)
      BY DEF CancelRequest, Bg!Cancel, Bg!Free, InFrame, Bg!workerVars
    <2>3. QED
      BY <2>1, <2>2 DEF Bg!Next
  <1>3. QED
    BY <1>1, <1>2

LEMMA StepMaps ==
  ASSUME WorkerFacts, HandleOK, [Next]_odVars
  PROVE  [Bg!Next]_(Bg!bgVars)
  <1>0. CASE UNCHANGED bgVars
    BY <1>0 DEF bgVars, Bg!bgVars
  <1>1. ASSUME NEW w \in Worker, ThreadStep(w) PROVE Bg!Next
    BY <1>1 DEF ThreadStep, Bg!Next
  <1>2. CASE Dispatch
    BY <1>2 DEF Dispatch, Bg!Next, Bg!MainStep
  <1>3. CASE Shutdown
    BY <1>3 DEF Shutdown, Bg!Next, Bg!MainStep
  <1>4. ASSUME NEW j \in Bg!Job, Completion(j) PROVE [Bg!Next]_(Bg!bgVars)
    <2>1. CASE LinkFound(j)
      BY <2>1 DEF LinkFound, StartRequest, Bg!Next
    <2>2. CASE RequestFailed(j) \/ ObjectInstalled(j)
      BY <2>2, <1>0 DEF RequestFailed, ObjectInstalled
    <2>3. CASE Answered(j)
      BY <2>3 DEF Answered, Bg!Next, Bg!MainStep
    <2>4. QED
      BY <1>4, <2>1, <2>2, <2>3 DEF Completion
  <1>5. CASE Update
    <2>1. CASE NextDownload
      BY <2>1 DEF NextDownload, StartRequest, Bg!Next
    <2>2. CASE EndBatch
      BY <2>2, CancelMaps DEF EndBatch
    <2>3. CASE RefreshStatus
      BY <2>3, <1>0 DEF RefreshStatus
    <2>4. QED
      BY <1>5, <2>1, <2>2, <2>3 DEF Update
  <1>6. CASE OpenWindow
    BY <1>6, <1>0 DEF OpenWindow
  <1>7. CASE Reinitialise \/ CloseWindow
    BY <1>7, CancelMaps DEF Reinitialise, CloseWindow, Abandon
  <1>8. CASE CloseStatusBox
    <2>1. CancelRequest \/ KeepRequest
      BY <1>8 DEF CloseStatusBox
    <2>2. CASE CancelRequest
      BY <1>8, <2>2, CancelMaps DEF CloseStatusBox
    <2>3. CASE KeepRequest
      BY <2>3, <1>0 DEF KeepRequest
    <2>4. QED
      BY <2>1, <2>2, <2>3
  <1>9. ASSUME NEW entries \in (SUBSET Entry) \ {{}}, Begin(entries) PROVE [Bg!Next]_(Bg!bgVars)
    BY <1>9, CancelMaps DEF Begin
  <1>10. CASE UNCHANGED odVars
    BY <1>10, <1>0 DEF odVars
  <1>11. QED
    BY <1>1, <1>2, <1>3, <1>4, <1>5, <1>6, <1>7, <1>8, <1>9, <1>10 DEF Next

\* The worker counts on, and the handle is that of a job it has been given.
LEMMA HandleStep ==
  ASSUME WorkerFacts, HandleOK, [Next]_odVars
  PROVE  HandleOK'
  <1>1. ASSUME NEW e, NEW stage, StartRequest(e, stage) PROVE HandleOK'
    BY <1>1 DEF StartRequest, Bg!AddJob, WorkerFacts, HandleOK
  <1>2. CASE request' \in {0, request} /\ (added' = added \/ added' = added + 1)
    BY <1>2 DEF WorkerFacts, HandleOK
  <1>3. \/ \E e, stage : StartRequest(e, stage)
        \/ request' \in {0, request} /\ Bg!bgVars' = Bg!bgVars
        \/ request' \in {0, request} /\ CancelRequest
        \/ request' = request /\ (\E w \in Worker : ThreadStep(w))
        \/ request' = request /\ (Dispatch \/ Shutdown \/ \E j \in Bg!Job : Answered(j))
    <2>1. CASE \E w \in Worker : ThreadStep(w)
      BY <2>1 DEF ThreadStep, ctlVars
    <2>2. CASE Dispatch \/ Shutdown
      BY <2>2 DEF Dispatch, Shutdown, ctlVars
    <2>3. ASSUME NEW j \in Bg!Job, Completion(j)
          PROVE  \/ \E e, stage : StartRequest(e, stage)
                 \/ request' = request /\ Bg!bgVars' = Bg!bgVars
                 \/ request' = request /\ Answered(j)
      BY <2>3 DEF Completion, LinkFound, RequestFailed, ObjectInstalled, Answered, bgVars, Bg!bgVars
    <2>4. CASE Update
      BY <2>4 DEF Update, NextDownload, EndBatch, RefreshStatus, bgVars, Bg!bgVars
    <2>5. CASE OpenWindow \/ Reinitialise \/ CloseWindow \/ CloseStatusBox
      BY <2>5 DEF OpenWindow, Reinitialise, CloseWindow, CloseStatusBox, Abandon, KeepRequest, bgVars,
                  Bg!bgVars
    <2>6. ASSUME NEW entries \in (SUBSET Entry) \ {{}}, Begin(entries)
          PROVE  request' = request /\ CancelRequest
      BY <2>6 DEF Begin
    <2>7. CASE UNCHANGED odVars
      BY <2>7 DEF odVars, ctlVars, bgVars, Bg!bgVars
    <2>8. QED
      BY <2>1, <2>2, <2>3, <2>4, <2>5, <2>6, <2>7 DEF Next
  <1>4. ASSUME NEW w \in Worker, ThreadStep(w) PROVE added' = added
    BY <1>4 DEF ThreadStep, Bg!ThreadStep, Bg!Sleep, Bg!WakeSpuriously, Bg!TakeJob, Bg!SkipCancelled,
                Bg!StartWork, Bg!FinishWork, Bg!ExitThread
  <1>5. ASSUME Dispatch \/ Shutdown \/ \E j \in Bg!Job : Answered(j) PROVE added' = added
    BY <1>5 DEF Dispatch, Shutdown, Answered, Bg!NotifyOne, Bg!Collect, Bg!EndDispatch, Bg!Answer,
                Bg!PassOver, Bg!BeginShutdown, Bg!CancelAll, Bg!NotifyAll, Bg!Joined, Bg!Answered
  <1>6. Bg!bgVars' = Bg!bgVars \/ CancelRequest => added' = added
    BY DEF Bg!bgVars, CancelRequest
  <1>7. QED
    BY <1>1, <1>2, <1>3, <1>4, <1>5, <1>6

\* The composition, seen as the worker.
Kept == Bp!WorkerInv /\ HandleOK

LEMMA KeptInit == Init => Kept
  BY WorkerInvInit DEF Init, Kept, HandleOK, Bg!Init

LEMMA KeptStep == Kept /\ [Next]_odVars => Kept' /\ [Bg!Next]_(Bg!bgVars)
  BY StepMaps, HandleStep, WorkerInvStep, WorkerKnown DEF Kept

THEOREM KeptHolds == Spec => []Kept
  BY KeptInit, KeptStep, PTL DEF Spec

-----------------------------------------------------------------------------
(* The controller. *)

\* A request that may still reach the controller, or is about to.
Live(j) == Answering(j) \/ (j \in Bg!Known /\ j \notin stopSource /\ answers[j] = 0)

\* Only the last request is live, and only while its entry is being downloaded.
LiveIsCurrent ==
  \A j \in Bg!Job :
    Live(j) =>
      /\ open /\ downloading /\ ~queued /\ request = j
      /\ asked[j].batch = batches /\ asked[j].entry = current
      /\ \A e \in downloaded : e < current

EntriesInOrder ==
  /\ current \in Nat /\ todo \subseteq Entry /\ downloaded \subseteq Nat
  /\ asked \in [Bg!Job -> [batch : Nat, entry : Nat, stage : Stage]] /\ batches \in Nat
  /\ \A e \in todo : current < e
  /\ \A e \in downloaded : e <= current

\* What the status box goes by.
BoxFollowsStatus ==
  /\ downloading => open /\ active
  /\ status # NoInfo => downloading
  /\ box => open /\ downloading /\ active /\ lastStatus # NoInfo

\* Where the main thread is.
FrameInv ==
  /\ handled => main = "completion"
  /\ main \in {"stopping", "notifying", "joining", "stopped"} => shouldStop

ControllerInv ==
  LiveIsCurrent /\ EntriesInOrder /\ BoxFollowsStatus /\ FrameInv /\ BatchNeverStalls

LEMMA UniqueFirst ==
  ASSUME NEW S \in SUBSET Nat, NEW j, NEW k, Bg!First(S, j), Bg!First(S, k)
  PROVE  j = k
  BY DEF Bg!First

\* A job whose completion runs is in the batch, known and answered.
LEMMA AnsweringFacts ==
  ASSUME WorkerFacts, NEW j, Answering(j)
  PROVE  /\ j \in Bg!Job /\ j \in Bg!Known /\ answers[j] # 0 /\ main = "completion"
         /\ \A k : Answering(k) => k = j
  <1>1. j \in batch /\ main = "completion" /\ batch \in SUBSET Nat
    BY DEF Answering, Bg!First, WorkerFacts
  <1>2. j \in Bg!Known /\ j \in Bg!Job
    BY <1>1 DEF WorkerFacts, Bg!Known, Bg!Job
  <1>3. answers[j] # 0
    BY <1>1 DEF WorkerFacts, Answering
  <1>4. \A k : Answering(k) => k = j
    BY <1>1, UniqueFirst DEF Answering
  <1>5. QED
    BY <1>1, <1>2, <1>3, <1>4

\* After the controller has cancelled nothing is left that could answer.
LEMMA NothingLiveAfterCancel ==
  ASSUME WorkerFacts, LiveIsCurrent, main # "completion", CancelRequest, NEW j \in Bg!Job
  PROVE  ~Live(j)'
  <1>1. added' = added /\ main' = main /\ answers' = answers
    BY DEF CancelRequest
  <1>2. ~Answering(j)'
    BY <1>1 DEF Answering
  <1>3. SUFFICES ASSUME j \in Bg!Known, j \notin stopSource', answers[j] = 0
                 PROVE  FALSE
    BY <1>1, <1>2 DEF Live, Bg!Known
  <1>4. j \notin stopSource
    BY <1>3 DEF CancelRequest, Bg!CancelJobs
  <1>5. request = j
    BY <1>3, <1>4 DEF Live, LiveIsCurrent
  <1>6. Bg!Alive(j)
    BY <1>3, <1>4 DEF Bg!Alive, WorkerFacts, Bg!Known
  <1>7. QED
    BY <1>3, <1>5, <1>6 DEF CancelRequest, Bg!CancelJobs

\* What the worker does by itself.
LEMMA WorkerKeeps ==
  ASSUME WorkerFacts, ControllerInv,
         UNCHANGED <<added, answers>>, stopSource \subseteq stopSource', UNCHANGED ctlVars,
         main' = "completion" => main = "completion" /\ batch' = batch,
         main' \in {"stopping", "notifying", "joining", "stopped"} => shouldStop',
         shouldStop => shouldStop', request \in stopSource' => request \in stopSource \/ shouldStop',
         main = "completion" => main' = "completion" \/ handled
  PROVE  LiveIsCurrent' /\ EntriesInOrder' /\ BoxFollowsStatus' /\ BatchNeverStalls'
  <1> USE DEF ControllerInv
  <1>1. \A j : Live(j)' => Live(j)
    BY DEF Live, Answering, Bg!Known, ctlVars
  <1>2. LiveIsCurrent' /\ EntriesInOrder' /\ BoxFollowsStatus'
    BY <1>1 DEF LiveIsCurrent, EntriesInOrder, BoxFollowsStatus, ctlVars, Bg!Job
  <1>3. BatchNeverStalls'
    BY DEF BatchNeverStalls, ctlVars, Bg!Known
  <1>4. QED
    BY <1>2, <1>3

LEMMA BackgroundStep ==
  ASSUME WorkerFacts, ControllerInv,
         (\E w \in Worker : ThreadStep(w)) \/ Dispatch \/ Shutdown
  PROVE  ControllerInv'
  <1> USE DEF ControllerInv
  <1>1. ASSUME NEW w \in Worker, ThreadStep(w)
        PROVE  ControllerInv'
    <2>1. UNCHANGED <<added, answers, stopSource, main, batch, shouldStop, ctlVars>>
      BY <1>1 DEF ThreadStep, Bg!ThreadStep, Bg!Sleep, Bg!WakeSpuriously, Bg!TakeJob, Bg!SkipCancelled,
                  Bg!StartWork, Bg!FinishWork, Bg!ExitThread, Bg!flagVars
    <2>2. FrameInv'
      BY <2>1 DEF FrameInv, ctlVars
    <2>3. request' = request
      BY <2>1 DEF ctlVars
    <2>4. QED
      BY <2>1, <2>2, <2>3, WorkerKeeps DEF FrameInv
  <1>2. ASSUME Bg!NotifyOne \/ Bg!Collect \/ Bg!EndDispatch \/ \E j \in Bg!Job : Bg!PassOver(j),
               UNCHANGED ctlVars
        PROVE  ControllerInv'
    <2>1. /\ UNCHANGED <<added, answers, stopSource, shouldStop, ctlVars>>
          /\ \/ main' = main /\ batch' = batch
             \/ main # "completion" /\ main' \in {"frame", "dispatch"}
      <3>1. CASE Bg!NotifyOne
        BY <1>2, <3>1 DEF Bg!NotifyOne, Bg!flagVars
      <3>2. CASE Bg!Collect \/ Bg!EndDispatch
        BY <1>2, <3>2 DEF Bg!Collect, Bg!EndDispatch, Bg!flagVars, Bg!workerVars
      <3>3. CASE \E j \in Bg!Job : Bg!PassOver(j)
        BY <1>2, <3>3 DEF Bg!PassOver, Bg!flagVars, Bg!workerVars
      <3>4. QED
        BY <1>2, <3>1, <3>2, <3>3
    <2>2. FrameInv'
      BY <2>1 DEF FrameInv, ctlVars
    <2>3. QED
      BY <2>1, <2>2, WorkerKeeps DEF FrameInv
  <1>3. ASSUME NEW j \in Bg!Job, Bg!Answer(j), UNCHANGED ctlVars
        PROVE  ControllerInv'
    <2>1. /\ main = "dispatch" /\ main' = "completion" /\ Bg!First(batch, j) /\ j \in batch
          /\ batch' = batch /\ j \notin stopSource
          /\ answers' = [answers EXCEPT ![j] = @ + 1]
          /\ UNCHANGED <<added, stopSource, shouldStop>>
      BY <1>3 DEF Bg!Answer, Bg!First, Bg!flagVars
    <2>2. batch \in SUBSET Nat /\ j \in Bg!Known /\ answers[j] = 0
      BY <2>1 DEF WorkerFacts, Bg!Known
    <2>3. Live(j)
      BY <2>1, <2>2 DEF Live
    <2>4. \A k : Answering(k)' => k = j
      BY <2>1, <2>2, UniqueFirst DEF Answering
    <2>5. answers'[j] = 1 /\ \A k \in Bg!Known \ {j} : answers'[k] = answers[k]
      BY <2>1, <2>2 DEF WorkerFacts, Bg!Known
    <2>6. \A k \in Bg!Job : Live(k)' => Live(k)
      BY <2>1, <2>3, <2>4, <2>5 DEF Live, Bg!Known
    <2>7. LiveIsCurrent' /\ EntriesInOrder' /\ BoxFollowsStatus' /\ FrameInv'
      BY <1>3, <2>1, <2>6 DEF LiveIsCurrent, EntriesInOrder, BoxFollowsStatus, FrameInv, ctlVars, Bg!Job
    <2>8. ~handled
      BY <2>1 DEF FrameInv
    <2>9. BatchNeverStalls'
      BY <1>3, <2>1, <2>8 DEF BatchNeverStalls, ctlVars
    <2>10. QED
      BY <2>7, <2>9
  <1>4. ASSUME Shutdown
        PROVE  ControllerInv'
    <2>1. /\ UNCHANGED <<added, answers, ctlVars>> /\ stopSource \subseteq stopSource' /\ shouldStop'
          /\ main # "completion" /\ main' \in {"stopping", "notifying", "joining", "stopped"}
      BY <1>4 DEF Shutdown, Bg!BeginShutdown, Bg!CancelAll, Bg!NotifyAll, Bg!Joined, Bg!flagVars, FrameInv
    <2>2. FrameInv'
      BY <2>1 DEF FrameInv, ctlVars
    <2>3. QED
      BY <2>1, <2>2, WorkerKeeps
  <1>5. QED
    BY <1>1, <1>2, <1>3, <1>4 DEF Dispatch

LEMMA CompletionStep ==
  ASSUME WorkerFacts, ControllerInv, NEW j \in Bg!Job, Completion(j)
  PROVE  ControllerInv'
  <1> USE DEF ControllerInv
  <1>1. CASE LinkFound(j)
    <2> DEFINE new == added + 1
    <2>1. /\ Answering(j) /\ added' = new /\ request' = new /\ handled' = TRUE
          /\ asked' = [asked EXCEPT ![new] = [batch |-> batches, entry |-> asked[j].entry,
                                              stage |-> "object"]]
          /\ added < MaxJobs /\ main' = main
          /\ UNCHANGED <<stopSource, answers, shouldStop>>
          /\ UNCHANGED <<open, downloading, queued, todo, current, downloaded, lastStatus, active, box, batches>>
      BY <1>1 DEF LinkFound, StartRequest, Bg!AddJob
    <2>2. /\ j \in Bg!Known /\ answers[j] # 0 /\ main = "completion"
          /\ Live(j)
      BY <2>1, AnsweringFacts DEF Live
    <2>3. /\ downloading /\ ~queued /\ request = j /\ open /\ asked[j].entry = current
          /\ \A e \in downloaded : e < current
      BY <2>2 DEF LiveIsCurrent
    <2>4. new \in Bg!Job /\ answers[new] = 0 /\ new \notin stopSource /\ new \notin Bg!Known
      BY <2>1 DEF WorkerFacts, Bg!Job, Bg!Known
    <2>5. asked'[new] = [batch |-> batches, entry |-> current, stage |-> "object"]
      BY <2>1, <2>3, <2>4 DEF EntriesInOrder
    <2>6. \A k \in Bg!Job : Live(k)' => k = new
      <3> SUFFICES ASSUME NEW k \in Bg!Job, Live(k)', k # new PROVE FALSE
        OBVIOUS
      <3>1. k \in Bg!Known /\ k \notin stopSource /\ answers[k] = 0
        BY <2>1 DEF Live, Answering, Bg!Known, WorkerFacts
      <3>2. QED
        BY <3>1, <2>2, <2>3 DEF Live, LiveIsCurrent
    <2>7. LiveIsCurrent'
      BY <2>1, <2>3, <2>5, <2>6 DEF LiveIsCurrent, Bg!Job
    <2>8. EntriesInOrder'
      BY <2>1, <2>4, <2>5 DEF EntriesInOrder, Bg!Job, Stage
    <2>9. BoxFollowsStatus' /\ FrameInv'
      BY <2>1, <2>2, <2>3 DEF BoxFollowsStatus, FrameInv
    <2>10. BatchNeverStalls'
      BY <2>1, <2>4 DEF BatchNeverStalls, Bg!Known, WorkerFacts
    <2>11. QED
      BY <2>7, <2>8, <2>9, <2>10
  <1>2. CASE RequestFailed(j) \/ ObjectInstalled(j)
    <2>1. /\ Answering(j) /\ handled' = TRUE /\ queued' = downloading
          /\ \/ downloaded' = downloaded
             \/ downloaded' = downloaded \union {asked[j].entry}
          /\ UNCHANGED <<bgVars, open, downloading, todo, current, request, source, status, lastStatus,
                         active, box, asked, batches>>
      BY <1>2 DEF RequestFailed, ObjectInstalled, QueueNextDownload
    <2>2. /\ answers[j] # 0 /\ main = "completion" /\ Live(j)
      BY <2>1, AnsweringFacts DEF Live
    <2>3. /\ downloading /\ request = j /\ asked[j].entry = current
      BY <2>2 DEF LiveIsCurrent
    <2>4. \A k \in Bg!Job : ~Live(k)'
      <3> SUFFICES ASSUME NEW k \in Bg!Job, Live(k)' PROVE FALSE
        OBVIOUS
      <3>1. k \in Bg!Known /\ k \notin stopSource /\ answers[k] = 0
        BY <2>1 DEF Live, Answering, Bg!Known, bgVars
      <3>2. QED
        BY <3>1, <2>2, <2>3 DEF Live, LiveIsCurrent
    <2>5. LiveIsCurrent'
      BY <2>4 DEF LiveIsCurrent, Bg!Job
    <2>6. EntriesInOrder'
      <3>1. downloaded' \subseteq downloaded \union {current}
        BY <2>1, <2>3
      <3>2. UNCHANGED <<current, todo, asked, batches, Bg!Job>>
        BY <2>1 DEF Bg!Job
      <3>3. QED
        BY <3>1, <3>2 DEF EntriesInOrder
    <2>7. BoxFollowsStatus' /\ FrameInv' /\ BatchNeverStalls'
      BY <2>1, <2>2, <2>3 DEF BoxFollowsStatus, FrameInv, BatchNeverStalls, bgVars
    <2>8. QED
      BY <2>5, <2>6, <2>7
  <1>3. CASE Answered(j)
    <2>1. /\ handled /\ main' = "dispatch" /\ handled' = FALSE
          /\ UNCHANGED <<added, stopSource, answers, shouldStop>>
          /\ UNCHANGED <<open, downloading, queued, todo, current, request, downloaded, source, status,
                         lastStatus, active, box, asked, batches>>
      BY <1>3 DEF Answered, Bg!Answered, Bg!workerVars
    <2>2. \A k \in Bg!Job : Live(k)' => Live(k)
      BY <2>1 DEF Live, Answering, Bg!Known
    <2>3. LiveIsCurrent' /\ EntriesInOrder' /\ BoxFollowsStatus' /\ FrameInv'
      BY <2>1, <2>2 DEF LiveIsCurrent, EntriesInOrder, BoxFollowsStatus, FrameInv, Bg!Job
    <2>4. BatchNeverStalls'
      BY <2>1 DEF BatchNeverStalls, Bg!Known
    <2>5. QED
      BY <2>3, <2>4
  <1>4. QED
    BY <1>1, <1>2, <1>3 DEF Completion

\* What the window and Update do in a frame.
LEMMA FrameStep ==
  ASSUME WorkerFacts, ControllerInv,
         Update \/ OpenWindow \/ Reinitialise \/ CloseWindow \/ CloseStatusBox
           \/ \E entries \in (SUBSET Entry) \ {{}} : Begin(entries)
  PROVE  ControllerInv'
  <1> USE DEF ControllerInv
  <1>a. \A e \in Entry : e \in Nat /\ e > 0
    BY DEF Entry
  <1>1. CASE NextDownload
    <2> DEFINE new == added + 1
    <2>1. PICK e \in todo :
            /\ Bg!First(todo, e) /\ todo' = todo \ {e} /\ current' = e /\ status' = Info(e)
            /\ StartRequest(e, "metadata")
      BY <1>1 DEF NextDownload
    <2>2. /\ added' = new /\ request' = new /\ added < MaxJobs /\ main' = main
          /\ asked' = [asked EXCEPT ![new] = [batch |-> batches, entry |-> e, stage |-> "metadata"]]
          /\ UNCHANGED <<stopSource, answers, shouldStop>>
      BY <2>1 DEF StartRequest, Bg!AddJob
    <2>3. /\ main = "frame" /\ open /\ queued /\ downloading /\ ~queued'
          /\ lastStatus' = status' /\ box' = IF status' = lastStatus THEN box ELSE status' # NoInfo
          /\ UNCHANGED <<open, downloading, downloaded, source, active, batches, handled>>
      BY <1>1 DEF NextDownload, InFrame, ShowStatus
    <2>4. new \in Bg!Job /\ answers[new] = 0 /\ new \notin stopSource /\ new \notin Bg!Known
      BY <2>2 DEF WorkerFacts, Bg!Job, Bg!Known
    <2>5. e \in Entry /\ current < e /\ \A d \in todo' : e < d
      BY <1>a, <2>1 DEF EntriesInOrder, Bg!First
    <2>6. \A d \in downloaded : d < e
      BY <1>a, <2>5 DEF EntriesInOrder
    <2>7. asked'[new] = [batch |-> batches, entry |-> e, stage |-> "metadata"]
      BY <2>2, <2>4 DEF EntriesInOrder
    <2>8. \A k \in Bg!Job : Live(k)' => k = new
      <3> SUFFICES ASSUME NEW k \in Bg!Job, Live(k)', k # new PROVE FALSE
        OBVIOUS
      <3>1. k \in Bg!Known /\ k \notin stopSource /\ answers[k] = 0
        BY <2>2, <2>3 DEF Live, Answering, Bg!Known, WorkerFacts
      <3>2. QED
        BY <3>1, <2>3 DEF Live, LiveIsCurrent
    <2>9. LiveIsCurrent'
      BY <2>1, <2>2, <2>3, <2>6, <2>7, <2>8 DEF LiveIsCurrent, Bg!Job
    <2>10. EntriesInOrder'
      <3>1. asked' \in [Bg!Job -> [batch : Nat, entry : Nat, stage : Stage]]
        BY <1>a, <2>2, <2>5 DEF EntriesInOrder, Stage
      <3>2. Bg!Job' = Bg!Job
        BY DEF Bg!Job
      <3>3. \A d \in downloaded : d <= e
        BY <1>a, <2>5, <2>6 DEF EntriesInOrder
      <3>4. QED
        BY <1>a, <2>1, <2>3, <2>5, <3>1, <3>2, <3>3 DEF EntriesInOrder
    <2>11. status' # NoInfo
      BY <1>a, <2>1, <2>5 DEF Info, NoInfo
    <2>12. BoxFollowsStatus' /\ FrameInv'
      BY <2>2, <2>3, <2>11 DEF BoxFollowsStatus, FrameInv
    <2>13. BatchNeverStalls'
      BY <2>2, <2>4 DEF BatchNeverStalls, Bg!Known, WorkerFacts
    <2>14. QED
      BY <2>9, <2>10, <2>12, <2>13
  <1>2. ASSUME CancelRequest, main # "completion", UNCHANGED <<handled, asked>>,
               EntriesInOrder', BoxFollowsStatus', downloading' => queued'
        PROVE  ControllerInv'
    <2>1. \A k \in Bg!Job : ~Live(k)'
      BY <1>2, NothingLiveAfterCancel
    <2>2. LiveIsCurrent'
      BY <2>1 DEF LiveIsCurrent, Bg!Job
    <2>3. FrameInv' /\ BatchNeverStalls'
      BY <1>2 DEF FrameInv, BatchNeverStalls, CancelRequest
    <2>4. QED
      BY <1>2, <2>2, <2>3
  <1>3. CASE EndBatch
    <2>1. EntriesInOrder'
      BY <1>3 DEF EndBatch, EntriesInOrder, Bg!Job
    <2>2. BoxFollowsStatus'
      BY <1>3 DEF EndBatch, AtRest, ShowStatus, BoxFollowsStatus
    <2>3. QED
      BY <1>2, <1>3, <2>1, <2>2 DEF EndBatch, AtRest, InFrame
  <1>4. CASE RefreshStatus
    <2>1. /\ UNCHANGED <<bgVars, open, downloading, queued, todo, current, request, downloaded, source,
                         status, active, asked, batches, handled>>
          /\ lastStatus' = status /\ box' = IF status = lastStatus THEN box ELSE status # NoInfo
      BY <1>4 DEF RefreshStatus, ShowStatus
    <2>2. LiveIsCurrent' /\ EntriesInOrder' /\ FrameInv' /\ BatchNeverStalls'
      BY <2>1 DEF LiveIsCurrent, Live, Answering, EntriesInOrder, FrameInv, BatchNeverStalls, bgVars,
                  Bg!Known, Bg!Job
    <2>3. BoxFollowsStatus'
      BY <2>1 DEF BoxFollowsStatus
    <2>4. QED
      BY <2>2, <2>3
  <1>5. CASE OpenWindow
    <2>1. \A k \in Bg!Job : ~Live(k)'
      BY <1>5 DEF OpenWindow, LiveIsCurrent, Live, Answering, bgVars, Bg!Known
    <2>2. LiveIsCurrent' /\ FrameInv' /\ BatchNeverStalls'
      BY <1>5, <2>1 DEF OpenWindow, LiveIsCurrent, FrameInv, BatchNeverStalls, bgVars, Bg!Job
    <2>3. EntriesInOrder'
      BY <1>5 DEF OpenWindow, EntriesInOrder, Bg!Job
    <2>4. BoxFollowsStatus'
      BY <1>5 DEF OpenWindow, BoxFollowsStatus
    <2>5. QED
      BY <2>2, <2>3, <2>4
  <1>6. CASE Reinitialise \/ CloseWindow
    <2>1. Abandon /\ main # "completion"
      BY <1>6 DEF Reinitialise, CloseWindow, InFrame
    <2>2. EntriesInOrder'
      BY <2>1 DEF Abandon, EntriesInOrder, Bg!Job
    <2>3. BoxFollowsStatus'
      BY <2>1 DEF Abandon, AtRest, BoxFollowsStatus
    <2>4. QED
      BY <1>2, <2>1, <2>2, <2>3 DEF Abandon, AtRest
  <1>7. CASE CloseStatusBox
    <2>1. active
      BY <1>7 DEF CloseStatusBox, BoxFollowsStatus
    <2>2. CancelRequest /\ AtRest /\ main # "completion"
      BY <1>7, <2>1 DEF CloseStatusBox, InFrame
    <2>3. EntriesInOrder'
      BY <1>7 DEF CloseStatusBox, EntriesInOrder, Bg!Job
    <2>4. BoxFollowsStatus'
      BY <1>7, <2>2 DEF CloseStatusBox, AtRest, BoxFollowsStatus
    <2>5. QED
      BY <1>2, <1>7, <2>2, <2>3, <2>4 DEF CloseStatusBox, AtRest
  <1>8. ASSUME NEW entries \in (SUBSET Entry) \ {{}}, Begin(entries)
        PROVE  ControllerInv'
    <2>1. EntriesInOrder'
      BY <1>a, <1>8 DEF Begin, EntriesInOrder, Bg!Job
    <2>2. BoxFollowsStatus'
      BY <1>8 DEF Begin, BoxFollowsStatus
    <2>3. QED
      BY <1>2, <1>8, <2>1, <2>2 DEF Begin, InFrame
  <1>9. QED
    BY <1>1, <1>3, <1>4, <1>5, <1>6, <1>7, <1>8 DEF Update

-----------------------------------------------------------------------------
LEMMA ControllerInit == Init => ControllerInv
  <1> SUFFICES ASSUME Init PROVE ControllerInv
    OBVIOUS
  <1>1. \A k \in Bg!Job : ~Live(k)
    BY DEF Init, Bg!Init, Live, Answering, Bg!Known
  <1>2. EntriesInOrder
    BY DEF Init, EntriesInOrder, Nothing, Stage
  <1>3. LiveIsCurrent /\ BoxFollowsStatus /\ FrameInv /\ BatchNeverStalls
    BY <1>1 DEF Init, Bg!Init, LiveIsCurrent, BoxFollowsStatus, FrameInv, BatchNeverStalls
  <1>4. QED
    BY <1>2, <1>3 DEF ControllerInv

LEMMA ControllerStep == Kept /\ ControllerInv /\ [Next]_odVars => ControllerInv'
  <1> SUFFICES ASSUME Kept, ControllerInv, [Next]_odVars PROVE ControllerInv'
    OBVIOUS
  <1>1. WorkerFacts
    BY WorkerKnown DEF Kept
  <1>2. CASE UNCHANGED odVars
    BY <1>2 DEF odVars, bgVars, ctlVars, ControllerInv, LiveIsCurrent, Live, Answering, EntriesInOrder,
                BoxFollowsStatus, FrameInv, BatchNeverStalls, Bg!Known, Bg!Job
  <1>3. CASE Next
    BY <1>1, <1>3, BackgroundStep, CompletionStep, FrameStep DEF Next
  <1>4. QED
    BY <1>2, <1>3

THEOREM ControllerHolds == Spec => [](Kept /\ ControllerInv)
  BY KeptInit, KeptStep, ControllerInit, ControllerStep, PTL DEF Spec

\* AnswersAreCurrent: the completion of the controller runs only for its last
\* request, in the batch and for the entry it is at, whatever was cancelled before.
THEOREM AnswersCome == Spec => []AnswersAreCurrent
  <1>1. Kept /\ ControllerInv => AnswersAreCurrent
    BY DEF ControllerInv, LiveIsCurrent, Live, EntriesInOrder, AnswersAreCurrent
  <1>2. QED
    BY <1>1, ControllerHolds, PTL

\* NoRequestForgotten: whatever ends a batch cancels its request, and the next one is
\* asked for only after the last has answered.
THEOREM RequestsAreKept == Spec => []NoRequestForgotten
  <1>1. Kept /\ ControllerInv => NoRequestForgotten
    BY WorkerKnown DEF Kept, WorkerFacts, ControllerInv, LiveIsCurrent, Live, NoRequestForgotten, Bg!Known, Bg!Job
  <1>2. QED
    BY <1>1, ControllerHolds, PTL

\* BatchNeverStalls: the hand-over from one request to the next leaves no gap.
THEOREM BatchesGoOn == Spec => []BatchNeverStalls
  BY ControllerHolds, PTL DEF ControllerInv

\* BoxBelongsToDownload: the callback of the status box never meets a controller
\* that is gone or not downloading.
THEOREM BoxIsCurrent == Spec => []BoxBelongsToDownload
  <1>1. ControllerInv => BoxBelongsToDownload
    BY DEF ControllerInv, BoxFollowsStatus, BoxBelongsToDownload
  <1>2. QED
    BY <1>1, ControllerHolds, PTL

-----------------------------------------------------------------------------
(* Types. *)

\* The controller's own part of TypeOK.
ControllerType ==
  /\ open \in BOOLEAN /\ downloading \in BOOLEAN /\ queued \in BOOLEAN
  /\ active \in BOOLEAN /\ box \in BOOLEAN /\ handled \in BOOLEAN /\ source \in BOOLEAN
  /\ todo \subseteq Entry /\ downloaded \subseteq Entry /\ current \in Entry \union {0}
  /\ status \in [entry : Entry \union {0}, source : BOOLEAN]
  /\ lastStatus \in [entry : Entry \union {0}, source : BOOLEAN]
  /\ asked \in [Bg!Job -> [batch : 0 .. MaxBatches, entry : Entry \union {0}, stage : Stage]]
  /\ batches \in 0 .. MaxBatches
  /\ downloading /\ ~queued => current # 0

LEMMA ControllerTypeInit == Init => ControllerType
  <1> SUFFICES ASSUME Init PROVE ControllerType
    OBVIOUS
  <1>1. MaxBatches \in Nat
    BY ObjectDownloaderAssumption
  <1>2. Nothing \in [batch : 0 .. MaxBatches, entry : Entry \union {0}, stage : Stage]
    BY <1>1 DEF Nothing, Stage
  <1>3. NoInfo \in [entry : Entry \union {0}, source : BOOLEAN]
    BY DEF NoInfo
  <1>4. asked \in [Bg!Job -> [batch : 0 .. MaxBatches, entry : Entry \union {0}, stage : Stage]]
    BY <1>2 DEF Init
  <1>5. batches \in 0 .. MaxBatches /\ todo \subseteq Entry /\ downloaded \subseteq Entry
    BY <1>1 DEF Init
  <1>6. status \in [entry : Entry \union {0}, source : BOOLEAN]
    BY <1>3 DEF Init
  <1>7. lastStatus \in [entry : Entry \union {0}, source : BOOLEAN]
    BY <1>3 DEF Init
  <1>8. QED
    BY <1>4, <1>5, <1>6, <1>7 DEF Init, ControllerType

\* A request is for the batch that runs and an entry there is.
LEMMA RequestType ==
  ASSUME ControllerType, WorkerFacts, NEW e \in Entry \union {0}, NEW stage \in Stage,
         StartRequest(e, stage)
  PROVE  asked' \in [Bg!Job -> [batch : 0 .. MaxBatches, entry : Entry \union {0}, stage : Stage]]
  <1> DEFINE Asks == [batch : 0 .. MaxBatches, entry : Entry \union {0}, stage : Stage]
             asks == [batch |-> batches, entry |-> e, stage |-> stage]
  <1>1. asks \in Asks
    BY DEF ControllerType
  <1>2. asked \in [Bg!Job -> Asks]
    BY DEF ControllerType
  <1>3. asked' = [asked EXCEPT ![added + 1] = asks]
    BY DEF StartRequest
  <1> HIDE DEF Asks, asks
  <1>4. asked' \in [Bg!Job -> Asks]
    BY <1>1, <1>2, <1>3
  <1>5. QED
    BY <1>4 DEF Asks

LEMMA StatusType ==
  ASSUME ControllerType, status' \in [entry : Entry \union {0}, source : BOOLEAN], ShowStatus
  PROVE  lastStatus' \in [entry : Entry \union {0}, source : BOOLEAN] /\ box' \in BOOLEAN
  BY DEF ControllerType, ShowStatus

LEMMA CompletionType ==
  ASSUME ControllerType, WorkerFacts, ControllerInv, NEW j \in Bg!Job, Completion(j)
  PROVE  ControllerType'
  <1>1. asked[j].entry \in Entry \union {0}
    BY DEF ControllerType
  <1>2. CASE LinkFound(j)
    <2>1. asked' \in [Bg!Job -> [batch : 0 .. MaxBatches, entry : Entry \union {0}, stage : Stage]]
      BY <1>1, <1>2, RequestType DEF LinkFound, Stage
    <2>2. status' \in [entry : Entry \union {0}, source : BOOLEAN]
      BY <1>1, <1>2 DEF LinkFound
    <2>3. QED
      BY <1>2, <2>1, <2>2 DEF LinkFound, ControllerType, Bg!Job
  <1>3. CASE RequestFailed(j)
    BY <1>3 DEF RequestFailed, QueueNextDownload, ControllerType, Bg!Job
  <1>4. CASE ObjectInstalled(j)
    <2>1. asked[j].entry = current /\ downloading /\ ~queued
      BY <1>4 DEF ObjectInstalled, ControllerInv, LiveIsCurrent, Live
    <2>2. QED
      BY <1>1, <1>4, <2>1 DEF ObjectInstalled, QueueNextDownload, ControllerType, Bg!Job
  <1>5. CASE Answered(j)
    BY <1>5 DEF Answered, ControllerType, Bg!Job
  <1>6. QED
    BY <1>2, <1>3, <1>4, <1>5 DEF Completion

LEMMA FrameType ==
  ASSUME ControllerType, WorkerFacts,
         \/ Update \/ OpenWindow \/ Reinitialise \/ CloseWindow \/ CloseStatusBox
         \/ \E entries \in (SUBSET Entry) \ {{}} : Begin(entries)
  PROVE  ControllerType'
  <1>1. NoInfo \in [entry : Entry \union {0}, source : BOOLEAN]
    BY DEF NoInfo
  <1>2. CASE NextDownload
    <2>1. PICK e \in todo : todo' = todo \ {e} /\ current' = e /\ status' = Info(e)
                            /\ StartRequest(e, "metadata")
      BY <1>2 DEF NextDownload
    <2>2. e \in Entry /\ e # 0
      BY DEF ControllerType, Entry
    <2>3. asked' \in [Bg!Job -> [batch : 0 .. MaxBatches, entry : Entry \union {0}, stage : Stage]]
      BY <2>1, <2>2, RequestType DEF Stage
    <2>4. status' \in [entry : Entry \union {0}, source : BOOLEAN]
      BY <2>1, <2>2 DEF Info, ControllerType
    <2>5. lastStatus' \in [entry : Entry \union {0}, source : BOOLEAN] /\ box' \in BOOLEAN
      BY <1>2, <2>4, StatusType DEF NextDownload
    <2>6. QED
      BY <1>2, <2>1, <2>2, <2>3, <2>4, <2>5 DEF NextDownload, ControllerType, Bg!Job, Entry
  <1>3. CASE EndBatch
    <2>1. status' \in [entry : Entry \union {0}, source : BOOLEAN]
      BY <1>1, <1>3 DEF EndBatch, AtRest
    <2>2. lastStatus' \in [entry : Entry \union {0}, source : BOOLEAN] /\ box' \in BOOLEAN
      BY <1>3, <2>1, StatusType DEF EndBatch
    <2>3. QED
      BY <1>3, <2>1, <2>2 DEF EndBatch, AtRest, ControllerType, Bg!Job, Entry
  <1>4. CASE RefreshStatus
    <2>1. status' \in [entry : Entry \union {0}, source : BOOLEAN]
      BY <1>4 DEF RefreshStatus, ControllerType
    <2>2. lastStatus' \in [entry : Entry \union {0}, source : BOOLEAN] /\ box' \in BOOLEAN
      BY <1>4, <2>1, StatusType DEF RefreshStatus
    <2>3. QED
      BY <1>4, <2>1, <2>2 DEF RefreshStatus, ControllerType, Bg!Job, Entry
  <1>5. CASE OpenWindow
    BY <1>1, <1>5 DEF OpenWindow, ControllerType, Bg!Job, Entry
  <1>6. CASE Reinitialise \/ CloseWindow
    BY <1>1, <1>6 DEF Reinitialise, CloseWindow, Abandon, AtRest, ControllerType, Bg!Job, Entry
  <1>7. CASE CloseStatusBox
    <2>1. CASE active
      BY <1>1, <1>7, <2>1 DEF CloseStatusBox, AtRest, ControllerType, Bg!Job, Entry
    <2>2. CASE ~active
      BY <1>7, <2>2 DEF CloseStatusBox, ControllerType, Bg!Job, Entry
    <2>3. QED
      BY <2>1, <2>2
  <1>8. ASSUME NEW entries \in (SUBSET Entry) \ {{}}, Begin(entries) PROVE ControllerType'
    <2>1. batches' \in 0 .. MaxBatches
      BY <1>8, ObjectDownloaderAssumption DEF Begin, ControllerType
    <2>2. QED
      BY <1>1, <1>8, <2>1 DEF Begin, ControllerType, Bg!Job, Entry
  <1>9. QED
    BY <1>2, <1>3, <1>4, <1>5, <1>6, <1>7, <1>8 DEF Update

LEMMA ControllerTypeStep ==
  ASSUME Kept, ControllerInv, ControllerType, [Next]_odVars
  PROVE  ControllerType'
  <1>1. WorkerFacts
    BY WorkerKnown DEF Kept
  <1>2. CASE UNCHANGED ctlVars
    BY <1>2 DEF ctlVars, ControllerType, Bg!Job
  <1>3. CASE Next
    <2>1. UNCHANGED ctlVars \/ ~(Dispatch \/ Shutdown \/ \E w \in Worker : ThreadStep(w))
      BY DEF ThreadStep, Dispatch, Shutdown
    <2>2. QED
      BY <1>1, <1>2, <1>3, <2>1, CompletionType, FrameType DEF Next
  <1>4. QED
    BY <1>2, <1>3 DEF odVars

\* TypeOK: the controller's fields and the worker's have their types.
THEOREM TypeCorrect == Spec => []TypeOK
  <1>1. Kept /\ ControllerType => TypeOK
    <2>1. ASSUME Kept PROVE Bg!TypeOK /\ request \in Bg!Known \union {0}
      <3>1. Bg!TypeOK
        BY <2>1 DEF Kept, Bp!WorkerInv, Bp!TypeOK, Bg!TypeOK, Bp!Known, Bg!Known, Bp!Job, Bg!Job
      <3>2. added \in Nat
        BY <2>1, WorkerKnown DEF Kept, WorkerFacts
      <3>3. QED
        BY <2>1, <3>1, <3>2 DEF Kept, HandleOK, Bg!Known
    <2>2. QED
      BY <2>1 DEF TypeOK, ControllerType
  <1>2. QED
    BY <1>1, ControllerTypeInit, ControllerTypeStep, ControllerHolds, PTL DEF Spec

=============================================================================
