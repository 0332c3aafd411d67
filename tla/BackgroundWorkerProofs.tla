----------------------- MODULE BackgroundWorkerProofs -----------------------
(***************************************************************************)
(* What BackgroundWorker promises for any number of threads and jobs.      *)
(*                                                                         *)
(* WorkerInv is the inductive invariant.  NothingLost and OnceEach speak   *)
(* of the queue, the list and the batch apart; what ties them together is  *)
(* how far the main thread has got: a batch exists only while it is being  *)
(* dispatched, its first job alone may have been answered, and a shutdown  *)
(* has cancelled what is still in the list.                                *)
(***************************************************************************)
EXTENDS BackgroundWorker, TLAPS

\* A thread holds a job exactly from taking it to the end of its work.
HandsFull == \A w \in Worker : at[w] \in {"taken", "working"} <=> held[w] # NoJob

\* Where jobs may be: the batch is apart from the list and has results only, the
\* queue has none, and what nobody cancelled is valid as long as it is listed.
Apart ==
  /\ jobs \intersect batch = {} /\ batch \subseteq completed
  /\ pending \intersect completed = {}
  /\ jobs \ stopSource \subseteq valid

\* Which jobs have been answered: none in the list, and of the batch the first one
\* while its completion runs.
AnsweredSoFar ==
  /\ \A j \in Job : j \in jobs \/ j > added => answers[j] = 0
  /\ \A j \in batch : answers[j] = IF main = "completion" /\ First(batch, j) THEN 1 ELSE 0

\* How far the main thread is.
MainInv ==
  /\ main \notin {"dispatch", "completion"} => batch = {}
  /\ main \in {"notifying", "joining", "stopped"} => jobs \subseteq stopSource

WorkerInv == TypeOK /\ HandsFull /\ Apart /\ AnsweredSoFar /\ MainInv /\ OnceEach /\ NothingLost

-----------------------------------------------------------------------------
LEMMA TypeInit == Init => TypeOK
  <1> SUFFICES ASSUME Init PROVE TypeOK
    OBVIOUS
  <1>1. added \in 0 .. MaxJobs
    BY BackgroundWorkerAssumption DEF Init
  <1>2. /\ at \in [Worker -> {"test", "asleep", "taken", "working", "exited"}]
        /\ held \in [Worker -> Known \union {NoJob}]
        /\ answers \in [Job -> Nat]
    BY DEF Init
  <1>3. /\ main \in {"frame", "dispatch", "completion", "stopping", "notifying", "joining", "stopped"}
        /\ notifyDue \in BOOLEAN /\ shouldStop \in BOOLEAN
    BY DEF Init
  <1>4. /\ jobs \subseteq Known /\ pending \subseteq Known /\ batch \subseteq Known
        /\ stopSource \subseteq Known /\ valid \subseteq Known /\ completed \subseteq Known
    BY DEF Init
  <1>5. QED
    BY <1>1, <1>2, <1>3, <1>4 DEF TypeOK

LEMMA ThreadType ==
  ASSUME TypeOK, HandsFull, NEW w \in Worker, ThreadStep(w)
  PROVE  TypeOK'
  <1>1. added' = added /\ Known' = Known
    BY DEF ThreadStep, Sleep, WakeSpuriously, TakeJob, SkipCancelled, StartWork, FinishWork,
           ExitThread, Known
  <1>2. CASE Sleep(w) \/ WakeSpuriously(w) \/ StartWork(w) \/ ExitThread(w)
    BY <1>1, <1>2 DEF Sleep, WakeSpuriously, StartWork, ExitThread, TypeOK, flagVars
  <1>3. CASE TakeJob(w)
    BY <1>1, <1>3 DEF TakeJob, TypeOK, flagVars
  <1>4. CASE SkipCancelled(w)
    BY <1>1, <1>4 DEF SkipCancelled, TypeOK, flagVars
  <1>5. CASE FinishWork(w)
    <2>1. held[w] \in Known
      BY <1>5 DEF FinishWork, TypeOK, HandsFull
    <2>2. QED
      BY <1>1, <1>5, <2>1 DEF FinishWork, TypeOK
  <1>6. QED
    BY <1>2, <1>3, <1>4, <1>5 DEF ThreadStep

LEMMA MainType ==
  ASSUME TypeOK, MainStep
  PROVE  TypeOK'
  <1>1. added' = added /\ Known' = Known
    BY DEF MainStep, NotifyOne, Collect, EndDispatch, CancelAll, NotifyAll, Joined, Answer,
           PassOver, Answered, Known
  <1>2. CASE NotifyOne \/ NotifyAll
    BY <1>1, <1>2 DEF NotifyOne, NotifyAll, TypeOK, flagVars
  <1>3. CASE Collect \/ EndDispatch \/ CancelAll \/ Joined
    BY <1>1, <1>3 DEF Collect, EndDispatch, CancelAll, Joined, TypeOK, flagVars, workerVars
  <1>4. ASSUME NEW j \in Job, Answer(j) \/ PassOver(j) \/ Answered(j)
        PROVE  TypeOK'
    BY <1>1, <1>4 DEF Answer, PassOver, Answered, TypeOK, flagVars, workerVars
  <1>5. QED
    BY <1>2, <1>3, <1>4 DEF MainStep

\* What the rest of the program asks of the worker.
Asked == AddJob \/ RefuseJob \/ BeginShutdown \/ \E j \in Known : Cancel(j)

LEMMA AskedType ==
  ASSUME TypeOK, Asked
  PROVE  TypeOK'
  <1>1. CASE AddJob \/ RefuseJob
    <2>1. /\ Known' = Known \union {added + 1}
          /\ added' \in 0 .. MaxJobs
      BY <1>1, BackgroundWorkerAssumption DEF AddJob, RefuseJob, TypeOK, Known
    <2>2. QED
      BY <1>1, <2>1 DEF AddJob, RefuseJob, TypeOK, flagVars, workerVars
  <1>2. CASE BeginShutdown
    <2>1. added' = added /\ Known' = Known
      BY <1>2 DEF BeginShutdown, Known
    <2>2. QED
      BY <1>2, <2>1 DEF BeginShutdown, TypeOK, flagVars, workerVars
  <1>3. ASSUME NEW j \in Known, Cancel(j)
        PROVE  TypeOK'
    <2>1. added' = added /\ Known' = Known
      BY <1>3 DEF Cancel, Known
    <2>2. QED
      BY <1>3, <2>1 DEF Cancel, CancelJobs, TypeOK, workerVars
  <1>4. QED
    BY <1>1, <1>2, <1>3 DEF Asked

-----------------------------------------------------------------------------
(* What thread steps keep. *)
LEMMA ThreadKeeps ==
  ASSUME WorkerInv, NEW w \in Worker, ThreadStep(w)
  PROVE  WorkerInv'
  <1> USE DEF WorkerInv
  <1>1. TypeOK'
    BY ThreadType
  <1>2. /\ added' = added /\ Known' = Known /\ jobs' = jobs /\ batch' = batch /\ answers' = answers
        /\ stopSource' = stopSource /\ valid' = valid /\ main' = main
    BY DEF ThreadStep, Sleep, WakeSpuriously, TakeJob, SkipCancelled, StartWork, FinishWork,
           ExitThread, Known, flagVars
  <1>3. AnsweredSoFar' /\ MainInv'
    BY <1>2 DEF AnsweredSoFar, MainInv, First
  <1>4. CASE Sleep(w) \/ WakeSpuriously(w) \/ StartWork(w) \/ ExitThread(w)
    <2>1. pending' = pending /\ completed' = completed /\ held' = held
      BY <1>4 DEF Sleep, WakeSpuriously, StartWork, ExitThread, flagVars
    <2>2. HandsFull'
      BY <1>4, <2>1 DEF HandsFull, Sleep, WakeSpuriously, StartWork, ExitThread, TypeOK
    <2>3. Apart' /\ OnceEach' /\ NothingLost'
      BY <1>2, <2>1 DEF Apart, OnceEach, NothingLost
    <2>4. QED
      BY <1>1, <1>3, <2>2, <2>3
  <1>5. CASE TakeJob(w)
    <2>1. PICK j \in pending : pending' = pending \ {j} /\ held' = [held EXCEPT ![w] = j]
      BY <1>5 DEF TakeJob
    <2>2. /\ j \in Known /\ j # NoJob /\ completed' = completed
          /\ held[w] = NoJob
      BY <1>5, BackgroundWorkerAssumption DEF TakeJob, flagVars, TypeOK, HandsFull, Known
    <2>3. HandsFull'
      BY <1>5, <2>1, <2>2 DEF HandsFull, TakeJob, TypeOK
    <2>4. Apart'
      BY <1>2, <2>1, <2>2 DEF Apart
    <2>5. OnceEach'
      BY <1>2, <2>1, <2>2 DEF OnceEach, Apart, TypeOK
    <2>6. NothingLost'
      <3> SUFFICES ASSUME NEW k \in Known \ stopSource
                   PROVE  /\ answers[k] = 0 => k \in jobs \union batch
                          /\ k \notin completed => k \in pending' \/ \E v \in Worker : held'[v] = k
        BY <1>2, <2>2 DEF NothingLost
      <3>1. held'[w] = j /\ \A v \in Worker \ {w} : held'[v] = held[v]
        BY <2>1 DEF TypeOK
      <3>2. held[w] # k
        BY <2>2, BackgroundWorkerAssumption DEF Known
      <3>3. QED
        BY <2>1, <3>1, <3>2 DEF NothingLost
    <2>7. QED
      BY <1>1, <1>3, <2>3, <2>4, <2>5, <2>6
  <1>6. CASE SkipCancelled(w)
    <2>1. /\ pending' = pending /\ completed' = completed
          /\ held' = [held EXCEPT ![w] = NoJob] /\ held[w] \in stopSource
      BY <1>6 DEF SkipCancelled, flagVars
    <2>2. HandsFull'
      BY <1>6, <2>1 DEF HandsFull, SkipCancelled, TypeOK
    <2>3. Apart' /\ OnceEach'
      BY <1>2, <2>1 DEF Apart, OnceEach, TypeOK
    <2>4. NothingLost'
      BY <1>2, <2>1 DEF NothingLost, TypeOK
    <2>5. QED
      BY <1>1, <1>3, <2>2, <2>3, <2>4
  <1>7. CASE FinishWork(w)
    <2>1. /\ pending' = pending /\ completed' = completed \union {held[w]}
          /\ held' = [held EXCEPT ![w] = NoJob] /\ held[w] # NoJob
      BY <1>7 DEF FinishWork, HandsFull
    <2>2. HandsFull'
      BY <1>7, <2>1 DEF HandsFull, FinishWork, TypeOK
    <2>3. Apart'
      BY <1>2, <2>1 DEF Apart, OnceEach
    <2>4. OnceEach'
      BY <1>2, <2>1 DEF OnceEach, TypeOK
    <2>5. NothingLost'
      <3> SUFFICES ASSUME NEW j \in Known \ stopSource
                   PROVE  /\ answers[j] = 0 => j \in jobs \union batch
                          /\ j \notin completed' => j \in pending \/ \E v \in Worker : held'[v] = j
        BY <1>2, <2>1 DEF NothingLost
      <3>1. \A v \in Worker \ {w} : held'[v] = held[v]
        BY <2>1 DEF TypeOK
      <3>2. QED
        BY <2>1, <3>1 DEF NothingLost
    <2>6. QED
      BY <1>1, <1>3, <2>2, <2>3, <2>4, <2>5
  <1>8. QED
    BY <1>4, <1>5, <1>6, <1>7 DEF ThreadStep

LEMMA UniqueFirst ==
  ASSUME NEW S \in SUBSET Nat, NEW j, NEW k, First(S, j), First(S, k)
  PROVE  j = k
  BY DEF First

\* What steps of the main thread keep.
LEMMA MainKeeps ==
  ASSUME WorkerInv, MainStep
  PROVE  WorkerInv'
  <1> USE DEF WorkerInv
  <1>1. TypeOK'
    BY MainType
  <1>2. /\ added' = added /\ Known' = Known /\ held' = held /\ completed' = completed
    BY DEF MainStep, NotifyOne, Collect, EndDispatch, CancelAll, NotifyAll, Joined, Answer,
           PassOver, Answered, Known, flagVars, workerVars
  <1>k. batch \in SUBSET Nat /\ batch \subseteq Job /\ jobs \subseteq Job
    BY BackgroundWorkerAssumption DEF TypeOK, Known, Job
  <1>3. CASE NotifyOne \/ NotifyAll
    <2>1. /\ pending' = pending /\ jobs' = jobs /\ batch' = batch /\ answers' = answers
          /\ stopSource' = stopSource /\ valid' = valid
          /\ \/ main' = main
             \/ main = "notifying" /\ main' = "joining"
      <3>1. CASE NotifyOne
        BY <3>1 DEF NotifyOne, flagVars
      <3>2. CASE NotifyAll
        BY <3>2 DEF NotifyAll, flagVars
      <3>3. QED
        BY <1>3, <3>1, <3>2
    <2>2. HandsFull'
      BY <1>2, <1>3 DEF HandsFull, NotifyOne, NotifyAll, TypeOK
    <2>3. Apart' /\ OnceEach' /\ NothingLost'
      BY <1>2, <2>1 DEF Apart, OnceEach, NothingLost
    <2>4. AnsweredSoFar' /\ MainInv'
      BY <1>2, <2>1 DEF AnsweredSoFar, MainInv, First
    <2>5. QED
      BY <1>1, <2>2, <2>3, <2>4
  <1>4. CASE Collect
    <2>1. /\ batch' = jobs \intersect valid \intersect completed
          /\ jobs' = (jobs \intersect valid) \ completed
          /\ main = "frame" /\ main' = "dispatch" /\ batch = {}
          /\ answers' = answers /\ pending' = pending /\ at' = at
          /\ stopSource' = stopSource /\ valid' = valid
      BY <1>4 DEF Collect, flagVars, workerVars, MainInv
    <2>2. HandsFull' /\ OnceEach'
      BY <1>2, <2>1 DEF HandsFull, OnceEach
    <2>3. Apart'
      BY <1>2, <2>1 DEF Apart
    <2>4. AnsweredSoFar' /\ MainInv'
      BY <1>2, <1>k, <2>1 DEF AnsweredSoFar, MainInv
    <2>5. NothingLost'
      BY <1>2, <2>1 DEF NothingLost, Apart
    <2>6. QED
      BY <1>1, <2>2, <2>3, <2>4, <2>5
  <1>5. CASE EndDispatch
    <2>1. /\ batch = {} /\ batch' = batch /\ jobs' = jobs /\ main' = "frame"
          /\ answers' = answers /\ pending' = pending /\ at' = at
          /\ stopSource' = stopSource /\ valid' = valid
      BY <1>5 DEF EndDispatch, flagVars, workerVars
    <2>2. HandsFull' /\ OnceEach' /\ Apart' /\ NothingLost'
      BY <1>2, <2>1 DEF HandsFull, OnceEach, Apart, NothingLost
    <2>3. AnsweredSoFar' /\ MainInv'
      BY <1>2, <2>1 DEF AnsweredSoFar, MainInv
    <2>4. QED
      BY <1>1, <2>2, <2>3
  <1>6. CASE CancelAll
    <2>1. /\ main = "stopping" /\ main' = "notifying" /\ batch = {} /\ batch' = batch
          /\ stopSource' = stopSource \union jobs /\ valid' = valid \ jobs
          /\ pending' = {} /\ jobs' = jobs /\ answers' = answers /\ at' = at
      BY <1>6 DEF CancelAll, workerVars, MainInv
    <2>2. HandsFull' /\ OnceEach'
      BY <1>2, <2>1 DEF HandsFull, OnceEach
    <2>3. Apart' /\ MainInv'
      BY <1>2, <2>1 DEF Apart, MainInv
    <2>4. AnsweredSoFar'
      BY <1>2, <2>1 DEF AnsweredSoFar
    <2>5. NothingLost'
      <3> SUFFICES ASSUME NEW j \in Known, j \notin stopSource, j \notin jobs
                   PROVE  answers[j] # 0 /\ j \in completed
        BY <1>2, <2>1 DEF NothingLost
      <3>1. answers[j] # 0
        BY <2>1 DEF NothingLost
      <3>2. j \in Job /\ answers[j] \in Nat
        BY BackgroundWorkerAssumption DEF TypeOK, Known, Job
      <3>3. QED
        BY <3>1, <3>2 DEF OnceEach
    <2>6. QED
      BY <1>1, <2>2, <2>3, <2>4, <2>5
  <1>7. CASE Joined
    <2>1. /\ main = "joining" /\ main' = "stopped" /\ batch = {} /\ batch' = batch
          /\ stopSource' = stopSource /\ valid' = valid /\ jobs \subseteq stopSource
          /\ pending' = pending /\ jobs' = {} /\ answers' = answers /\ at' = at
      BY <1>7 DEF Joined, workerVars, flagVars, MainInv
    <2>2. HandsFull' /\ OnceEach'
      BY <1>2, <2>1 DEF HandsFull, OnceEach
    <2>3. Apart' /\ MainInv' /\ NothingLost'
      BY <1>2, <2>1 DEF Apart, MainInv, NothingLost
    <2>4. AnsweredSoFar'
      BY <1>2, <2>1 DEF AnsweredSoFar
    <2>5. QED
      BY <1>1, <2>2, <2>3, <2>4
  <1>8. ASSUME NEW j \in Job, Answer(j)
        PROVE  WorkerInv'
    <2>1. /\ main = "dispatch" /\ main' = "completion" /\ First(batch, j) /\ batch' = batch
          /\ stopSource' = stopSource /\ valid' = valid /\ j \in batch
          /\ pending' = pending /\ jobs' = jobs /\ at' = at
          /\ answers' = [answers EXCEPT ![j] = @ + 1]
      BY <1>8 DEF Answer, workerVars, flagVars, First
    <2>2. answers[j] = 0 /\ answers'[j] = 1 /\ \A k \in Job \ {j} : answers'[k] = answers[k]
      BY <2>1 DEF AnsweredSoFar, TypeOK
    <2>3. HandsFull' /\ Apart' /\ MainInv'
      BY <1>2, <2>1 DEF HandsFull, Apart, MainInv
    <2>4. OnceEach'
      BY <1>2, <2>1, <2>2 DEF OnceEach, Apart
    <2>5. AnsweredSoFar'
      <3>1. \A k \in Job : k \in jobs \/ k > added => k # j
        BY <2>1, BackgroundWorkerAssumption DEF Apart, TypeOK, Known
      <3>2. \A k \in batch : First(batch, k) => k = j
        BY <1>k, <2>1, UniqueFirst
      <3>3. QED
        BY <1>2, <1>k, <2>1, <2>2, <3>1, <3>2 DEF AnsweredSoFar
    <2>6. NothingLost'
      BY <1>2, <2>1, <2>2, BackgroundWorkerAssumption DEF NothingLost, TypeOK, Known, Job
    <2>7. QED
      BY <1>1, <2>3, <2>4, <2>5, <2>6
  <1>9. ASSUME NEW j \in Job, PassOver(j) \/ Answered(j)
        PROVE  WorkerInv'
    <2>1. /\ main \in {"dispatch", "completion"} /\ main' = "dispatch" /\ First(batch, j)
          /\ batch' = batch \ {j} /\ j \in batch
          /\ stopSource' = stopSource
          /\ pending' = pending /\ jobs' = jobs /\ at' = at /\ answers' = answers
      BY <1>9 DEF PassOver, Answered, workerVars, flagVars, First
    <2>2. valid \ {j} \subseteq valid'
      BY <1>9 DEF PassOver, Answered, flagVars
    <2>3. HandsFull' /\ OnceEach' /\ MainInv'
      BY <1>2, <2>1 DEF HandsFull, OnceEach, MainInv
    <2>4. Apart'
      BY <1>2, <2>1, <2>2 DEF Apart
    <2>5. \A k \in batch \ {j} : ~First(batch, k)
      BY <1>k, <2>1, UniqueFirst
    <2>6. AnsweredSoFar'
      BY <1>2, <2>1, <2>5 DEF AnsweredSoFar
    <2>7. j \in stopSource \/ answers[j] # 0
      BY <1>9, <2>1 DEF PassOver, Answered, Apart, AnsweredSoFar
    <2>8. NothingLost'
      BY <1>2, <2>1, <2>7 DEF NothingLost
    <2>9. QED
      BY <1>1, <2>3, <2>4, <2>6, <2>8
  <1>10. QED
    BY <1>3, <1>4, <1>5, <1>6, <1>7, <1>8, <1>9 DEF MainStep

\* What adding, cancelling and shutting down keep.
LEMMA AskedKeeps ==
  ASSUME WorkerInv, Asked
  PROVE  WorkerInv'
  <1> USE DEF WorkerInv
  <1>1. TypeOK'
    BY AskedType
  <1>2. /\ held' = held /\ completed' = completed /\ at' = at /\ batch' = batch /\ answers' = answers
    BY DEF Asked, AddJob, RefuseJob, BeginShutdown, Cancel, flagVars, workerVars
  <1>3. HandsFull'
    BY <1>2 DEF HandsFull
  <1>4. CASE AddJob \/ RefuseJob
    <2> DEFINE new == added + 1
    <2>1. /\ added \in Nat /\ added' = new /\ Known' = Known \union {new} /\ new \in Job /\ new \notin Known
      BY <1>4, BackgroundWorkerAssumption DEF AddJob, RefuseJob, TypeOK, Known, Job
    <2>2. /\ new \notin pending /\ new \notin jobs /\ new \notin batch /\ new \notin completed
          /\ new \notin valid /\ new \notin stopSource
          /\ \A w \in Worker : held[w] # new
      BY <2>1, BackgroundWorkerAssumption DEF TypeOK
    <2>3. answers[new] = 0
      BY <2>1 DEF AnsweredSoFar
    <2>4. main' = main
      BY <1>4 DEF AddJob, RefuseJob
    <2>5. CASE AddJob
      <3>1. /\ main \in {"frame", "completion"} /\ stopSource' = stopSource
            /\ valid' = valid \union {new} /\ jobs' = jobs \union {new}
            /\ pending' = pending \union {new}
        BY <2>5 DEF AddJob, Free
      <3> HIDE DEF new
      <3>2. Apart' /\ OnceEach' /\ MainInv' /\ NothingLost'
        BY <1>2, <2>1, <2>2, <2>3, <2>4, <3>1 DEF Apart, OnceEach, MainInv, NothingLost
      <3>3. \A j \in Job : j > added' => j > added
        BY <2>1 DEF new, Job
      <3>4. AnsweredSoFar'
        BY <1>2, <2>2, <2>3, <2>4, <3>1, <3>3 DEF AnsweredSoFar, First
      <3>5. QED
        BY <1>1, <1>3, <3>2, <3>4
    <2>6. CASE RefuseJob
      <3>1. /\ stopSource' = stopSource \union {new}
            /\ valid' = valid /\ jobs' = jobs /\ pending' = pending
        BY <2>6 DEF RefuseJob
      <3> HIDE DEF new
      <3>2. Apart' /\ OnceEach' /\ MainInv' /\ NothingLost'
        BY <1>2, <2>1, <2>2, <2>3, <2>4, <3>1 DEF Apart, OnceEach, MainInv, NothingLost
      <3>3. \A j \in Job : j > added' => j > added
        BY <2>1 DEF new, Job
      <3>4. AnsweredSoFar'
        BY <1>2, <2>2, <2>3, <2>4, <3>1, <3>3 DEF AnsweredSoFar, First
      <3>5. QED
        BY <1>1, <1>3, <3>2, <3>4
    <2>7. QED
      BY <1>4, <2>5, <2>6
  <1>5. CASE BeginShutdown
    <2>1. /\ added' = added /\ Known' = Known /\ main = "frame" /\ main' = "stopping"
          /\ jobs' = jobs /\ pending' = pending /\ stopSource' = stopSource /\ valid' = valid
      BY <1>5 DEF BeginShutdown, flagVars, Known
    <2>2. Apart' /\ OnceEach' /\ MainInv' /\ NothingLost'
      BY <1>2, <2>1 DEF Apart, OnceEach, MainInv, NothingLost
    <2>3. AnsweredSoFar'
      BY <1>2, <2>1 DEF AnsweredSoFar, MainInv
    <2>4. QED
      BY <1>1, <1>3, <2>2, <2>3
  <1>6. ASSUME NEW j \in Known, Cancel(j)
        PROVE  WorkerInv'
    <2>1. /\ added' = added /\ Known' = Known /\ main' = main
          /\ jobs' = jobs /\ pending' = pending
      BY <1>6 DEF Cancel, Known
    <2>2. PICK found \in SUBSET {j} : stopSource' = stopSource \union found /\ valid' = valid \ found
      BY <1>6 DEF Cancel, CancelJobs
    <2>3. Apart' /\ OnceEach' /\ MainInv' /\ NothingLost'
      BY <1>2, <2>1, <2>2 DEF Apart, OnceEach, MainInv, NothingLost
    <2>4. AnsweredSoFar'
      BY <1>2, <2>1 DEF AnsweredSoFar, First
    <2>5. QED
      BY <1>1, <1>3, <2>3, <2>4
  <1>7. QED
    BY <1>4, <1>5, <1>6 DEF Asked

-----------------------------------------------------------------------------
LEMMA InvInit == Init => WorkerInv
  <1> SUFFICES ASSUME Init PROVE WorkerInv
    OBVIOUS
  <1>1. TypeOK
    BY TypeInit
  <1>2. HandsFull /\ Apart /\ MainInv
    BY DEF Init, HandsFull, Apart, MainInv
  <1>3. \A j \in Job : answers[j] = 0
    BY DEF Init
  <1>4. AnsweredSoFar
    BY <1>3 DEF Init, AnsweredSoFar
  <1>5. OnceEach
    BY <1>3 DEF Init, OnceEach
  <1>6. Known = {}
    BY DEF Init, Known
  <1>7. NothingLost
    BY <1>6 DEF NothingLost
  <1>8. QED
    BY <1>1, <1>2, <1>4, <1>5, <1>7 DEF WorkerInv

LEMMA InvStep == WorkerInv /\ [Next]_bgVars => WorkerInv'
  <1> SUFFICES ASSUME WorkerInv, [Next]_bgVars PROVE WorkerInv'
    OBVIOUS
  <1>1. CASE UNCHANGED bgVars
    BY <1>1 DEF bgVars, WorkerInv, TypeOK, Known, HandsFull, Apart, AnsweredSoFar, MainInv, First,
                OnceEach, NothingLost
  <1>2. CASE \E w \in Worker : ThreadStep(w)
    BY <1>2, ThreadKeeps
  <1>3. CASE MainStep
    BY <1>3, MainKeeps
  <1>4. CASE Asked
    BY <1>4, AskedKeeps
  <1>5. QED
    BY <1>1, <1>2, <1>3, <1>4 DEF Next, Asked

THEOREM InvHolds == Spec => []WorkerInv
  BY InvInit, InvStep, PTL DEF Spec

\* TypeOK: flags, queues and threads stay well formed for any number of threads
\* and jobs.
THEOREM TypeCorrect == Spec => []TypeOK
  BY InvHolds, PTL DEF WorkerInv

\* NothingLost: a job that nobody cancels is never mislaid between addJob, the two
\* ends of processJobs, the batches of dispatchCompleted and the shutdown.
THEOREM JobsAreKept == Spec => []NothingLost
  BY InvHolds, PTL DEF WorkerInv

\* OnceEach: the work of a job is never done twice nor its completion called twice.
THEOREM JobsRunOnce == Spec => []OnceEach
  BY InvHolds, PTL DEF WorkerInv
=============================================================================
