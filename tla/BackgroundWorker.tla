--------------------------- MODULE BackgroundWorker --------------------------
(***************************************************************************)
(* The queue of cancellable jobs beside the job pool                       *)
(* (core/BackgroundWorker.hpp): two threads run the work of a job, and the *)
(* main thread, once per frame, collects the jobs that are ready and runs  *)
(* their completions.  The main thread alone adds and cancels jobs, also   *)
(* from within a completion, and stops the worker for good.                *)
(*                                                                         *)
(* Jobs are numbered in the order they are added.  _jobs and _pending only *)
(* grow at their end, so the set of the numbers in them stands for them.   *)
(* An action is what a thread does between taking _mtx and releasing it,   *)
(* or between two accesses to atomic flags that another thread may touch.  *)
(***************************************************************************)
EXTENDS Naturals, FiniteSets

CONSTANTS
  Worker,     \* the threads of the worker
  MaxJobs,    \* bound: jobs added
  NoJob       \* a thread without a job

Job == 1 .. MaxJobs

ASSUME BackgroundWorkerAssumption ==
  /\ IsFiniteSet(Worker) /\ Worker # {}
  /\ MaxJobs \in Nat
  /\ NoJob \notin Nat

VARIABLES
  added,       \* how many jobs have been added
  jobs,        \* _jobs
  pending,     \* _pending
  stopSource,  \* jobs with _stopSource set
  valid,       \* jobs with _valid set
  completed,   \* jobs with _completed set
  at,          \* where each thread is
  held,        \* the job each thread has taken from the queue
  main,        \* where the main thread is
  notifyDue,   \* the main thread has added a job and not yet notified
  batch,       \* the jobs collected and not yet done with
  shouldStop,  \* _shouldStop
  answers      \* how often the completion of each job has been called

workerVars == <<at, held>>
flagVars == <<stopSource, valid, completed>>
bgVars == <<added, jobs, pending, stopSource, valid, completed, at, held, main,
            notifyDue, batch, shouldStop, answers>>

Known == 1 .. added

Init ==
  /\ added = 0
  /\ jobs = {} /\ pending = {} /\ batch = {}
  /\ stopSource = {} /\ valid = {} /\ completed = {}
  /\ at = [w \in Worker |-> "test"]
  /\ held = [w \in Worker |-> NoJob]
  /\ main = "frame"
  /\ notifyDue = FALSE
  /\ shouldStop = FALSE
  /\ answers = [j \in Job |-> 0]

First(S, j) == j \in S /\ \A k \in S : j <= k

-----------------------------------------------------------------------------
(* The threads of the worker. *)

\* A thread goes to sleep on _cv when there is nothing to do.
Sleep(w) ==
  /\ at[w] = "test" /\ pending = {} /\ ~shouldStop
  /\ at' = [at EXCEPT ![w] = "asleep"]
  /\ UNCHANGED <<added, jobs, pending, flagVars, held, main, notifyDue, batch, shouldStop, answers>>

\* A condition variable may wake without a notification.
WakeSpuriously(w) ==
  /\ at[w] = "asleep"
  /\ at' = [at EXCEPT ![w] = "test"]
  /\ UNCHANGED <<added, jobs, pending, flagVars, held, main, notifyDue, batch, shouldStop, answers>>

TakeJob(w) ==
  /\ at[w] = "test" /\ ~shouldStop
  /\ \E j \in pending :
       /\ First(pending, j)
       /\ pending' = pending \ {j}
       /\ held' = [held EXCEPT ![w] = j]
  /\ at' = [at EXCEPT ![w] = "taken"]
  /\ UNCHANGED <<added, jobs, flagVars, main, notifyDue, batch, shouldStop, answers>>

\* Mutant: a thread keeps the job it has found cancelled.
SkipKeeping(w) ==
  /\ at[w] = "taken" /\ held[w] \in stopSource
  /\ at' = [at EXCEPT ![w] = "idle"]
  /\ UNCHANGED <<added, jobs, pending, flagVars, held, main, notifyDue, batch, shouldStop, answers>>

\* Work is not started for a job that was cancelled in the queue.
SkipCancelled(w) ==
  /\ at[w] = "taken" /\ held[w] \in stopSource
  /\ at' = [at EXCEPT ![w] = "test"]
  /\ held' = [held EXCEPT ![w] = NoJob]
  /\ UNCHANGED <<added, jobs, pending, flagVars, main, notifyDue, batch, shouldStop, answers>>

StartWork(w) ==
  /\ at[w] = "taken" /\ held[w] \notin stopSource
  /\ at' = [at EXCEPT ![w] = "working"]
  /\ UNCHANGED <<added, jobs, pending, flagVars, held, main, notifyDue, batch, shouldStop, answers>>

\* The work returns, whether or not it has been cancelled meanwhile.
FinishWork(w) ==
  /\ at[w] = "working"
  /\ completed' = completed \union {held[w]}
  /\ at' = [at EXCEPT ![w] = "test"]
  /\ held' = [held EXCEPT ![w] = NoJob]
  /\ UNCHANGED <<added, jobs, pending, stopSource, valid, main, notifyDue, batch, shouldStop, answers>>

ExitThread(w) ==
  /\ at[w] = "test" /\ shouldStop
  /\ at' = [at EXCEPT ![w] = "exited"]
  /\ UNCHANGED <<added, jobs, pending, flagVars, held, main, notifyDue, batch, shouldStop, answers>>

ThreadStep(w) ==
  \/ Sleep(w) \/ WakeSpuriously(w) \/ TakeJob(w) \/ SkipCancelled(w)
  \/ StartWork(w) \/ FinishWork(w) \/ ExitThread(w)

-----------------------------------------------------------------------------
(* The main thread. *)

\* The main thread runs code of its own between two calls of the worker, in a
\* frame or inside a completion.
Free == main \in {"frame", "completion"} /\ ~notifyDue

\* addJob, up to the release of _mtx.
AddJob ==
  /\ Free /\ added < MaxJobs
  /\ added' = added + 1
  /\ valid' = valid \union {added + 1}
  /\ jobs' = jobs \union {added + 1}
  /\ pending' = pending \union {added + 1}
  /\ notifyDue' = TRUE
  /\ UNCHANGED <<stopSource, completed, workerVars, main, batch, shouldStop, answers>>

\* The end of addJob: one sleeping thread, if there is one, wakes.
NotifyOne ==
  /\ notifyDue
  /\ \/ (\A w \in Worker : at[w] # "asleep") /\ UNCHANGED at
     \/ \E w \in Worker :
          at[w] = "asleep" /\ at' = [at EXCEPT ![w] = "test"]
  /\ notifyDue' = FALSE
  /\ UNCHANGED <<added, jobs, pending, flagVars, held, main, batch, shouldStop, answers>>

\* A worker that has been shut down refuses the job.
RefuseJob ==
  /\ main = "stopped" /\ added < MaxJobs
  /\ added' = added + 1
  /\ stopSource' = stopSource \union {added + 1}
  /\ UNCHANGED <<jobs, pending, valid, completed, workerVars, main, notifyDue, batch, shouldStop, answers>>

\* A handle reaches a job as long as the worker refers to it.
Alive(j) == j \in jobs \union pending \union batch \/ \E w \in Worker : held[w] = j

\* Cancelling through the handles of the jobs in C.
CancelJobs(C) ==
  LET found == {j \in C : Alive(j)} IN
  /\ stopSource' = stopSource \union found
  /\ valid' = valid \ found

\* Windows cancel what they have asked for, also after the shutdown.
Cancel(j) ==
  /\ Free \/ main = "stopped"
  /\ CancelJobs({j})
  /\ UNCHANGED <<added, jobs, pending, completed, workerVars, main, notifyDue, batch, shouldStop, answers>>

\* Mutant: what is not ready is dropped with what is not valid.
CollectAll ==
  /\ main = "frame" /\ ~notifyDue
  /\ batch' = jobs \intersect valid \intersect completed
  /\ jobs' = {}
  /\ main' = "dispatch"
  /\ UNCHANGED <<added, pending, flagVars, workerVars, notifyDue, shouldStop, answers>>

\* Mutant: what has been answered stays in the list.
CollectKeeping ==
  /\ main = "frame" /\ ~notifyDue
  /\ batch' = jobs \intersect completed
  /\ jobs' = jobs
  /\ main' = "dispatch"
  /\ UNCHANGED <<added, pending, flagVars, workerVars, notifyDue, shouldStop, answers>>

\* Mutant: only what has completed leaves the list.
CollectCompleted ==
  /\ main = "frame" /\ ~notifyDue
  /\ batch' = jobs \intersect valid \intersect completed
  /\ jobs' = jobs \ completed
  /\ main' = "dispatch"
  /\ UNCHANGED <<added, pending, flagVars, workerVars, notifyDue, shouldStop, answers>>

\* dispatchCompleted, under _mtx: what is ready is collected, what has been
\* cancelled is dropped.
Collect ==
  /\ main = "frame" /\ ~notifyDue
  /\ batch' = jobs \intersect valid \intersect completed
  /\ jobs' = (jobs \intersect valid) \ completed
  /\ main' = "dispatch"
  /\ UNCHANGED <<added, pending, flagVars, workerVars, notifyDue, shouldStop, answers>>

\* The next job of the batch is answered, unless it has been cancelled since.
Answer(j) ==
  /\ main = "dispatch" /\ First(batch, j)
  /\ j \notin stopSource /\ j \in completed
  /\ answers' = [answers EXCEPT ![j] = @ + 1]
  /\ main' = "completion"
  /\ UNCHANGED <<added, jobs, pending, flagVars, workerVars, notifyDue, batch, shouldStop>>

PassOver(j) ==
  /\ main = "dispatch" /\ First(batch, j)
  /\ j \in stopSource \/ j \notin completed
  /\ batch' = batch \ {j}
  /\ UNCHANGED <<added, jobs, pending, flagVars, workerVars, main, notifyDue, shouldStop, answers>>

\* The completion returns to dispatch, and dispatch to the loop.
Answered(j) ==
  /\ main = "completion" /\ ~notifyDue /\ First(batch, j)
  /\ valid' = valid \ {j}
  /\ batch' = batch \ {j}
  /\ main' = "dispatch"
  /\ UNCHANGED <<added, jobs, pending, stopSource, completed, workerVars, notifyDue, shouldStop, answers>>

EndDispatch ==
  /\ main = "dispatch" /\ batch = {}
  /\ main' = "frame"
  /\ UNCHANGED <<added, jobs, pending, flagVars, workerVars, notifyDue, batch, shouldStop, answers>>

\* shutdown sets the flag before it takes _mtx, cancels what is left, wakes
\* everybody and waits for the threads.
BeginShutdown ==
  /\ main = "frame" /\ ~notifyDue
  /\ shouldStop' = TRUE
  /\ main' = "stopping"
  /\ UNCHANGED <<added, jobs, pending, flagVars, workerVars, notifyDue, batch, answers>>

CancelAll ==
  /\ main = "stopping"
  /\ stopSource' = stopSource \union jobs
  /\ valid' = valid \ jobs
  /\ pending' = {}
  /\ main' = "notifying"
  /\ UNCHANGED <<added, jobs, completed, workerVars, notifyDue, batch, shouldStop, answers>>

\* Mutant: a single thread is woken for the shutdown.
NotifyOneAtStop ==
  /\ main = "notifying"
  /\ LET asleep == {w \in Worker : at[w] = "asleep"}
         woken == IF asleep = {} THEN {} ELSE {CHOOSE w \in asleep : TRUE}
     IN at' = [w \in Worker |-> IF w \in woken THEN "test" ELSE at[w]]
  /\ main' = "joining"
  /\ UNCHANGED <<added, jobs, pending, flagVars, held, notifyDue, batch, shouldStop, answers>>

NotifyAll ==
  /\ main = "notifying"
  /\ at' = [w \in Worker |-> IF at[w] = "asleep" THEN "test" ELSE at[w]]
  /\ main' = "joining"
  /\ UNCHANGED <<added, jobs, pending, flagVars, held, notifyDue, batch, shouldStop, answers>>

Joined ==
  /\ main = "joining" /\ \A w \in Worker : at[w] = "exited"
  /\ jobs' = {}
  /\ main' = "stopped"
  /\ UNCHANGED <<added, pending, flagVars, workerVars, notifyDue, batch, shouldStop, answers>>

\* What the main thread does within dispatchCompleted, addJob and shutdown.
MainStep ==
  \/ NotifyOne \/ Collect \/ EndDispatch \/ CancelAll \/ NotifyAll \/ Joined
  \/ \E j \in Job : Answer(j) \/ PassOver(j) \/ Answered(j)

Next ==
  \/ \E w \in Worker : ThreadStep(w)
  \/ MainStep
  \/ AddJob \/ RefuseJob \/ BeginShutdown
  \/ \E j \in Known : Cancel(j)

\* Threads are scheduled, work returns (native I/O ends sooner or later), frames
\* go on and completions return.  Nobody has to add, cancel or shut down.
Fairness ==
  /\ \A w \in Worker :
       WF_bgVars(Sleep(w) \/ TakeJob(w) \/ SkipCancelled(w) \/ StartWork(w)
                 \/ FinishWork(w) \/ ExitThread(w))
  /\ WF_bgVars(MainStep)

Spec == Init /\ [][Next]_bgVars
FairSpec == Spec /\ Fairness
-----------------------------------------------------------------------------
(* Properties. *)

\* Every flag, queue and program counter has a value the code can give it.
TypeOK ==
  /\ added \in 0 .. MaxJobs
  /\ jobs \subseteq Known /\ pending \subseteq Known /\ batch \subseteq Known
  /\ stopSource \subseteq Known /\ valid \subseteq Known /\ completed \subseteq Known
  /\ at \in [Worker -> {"test", "asleep", "taken", "working", "exited"}]
  /\ held \in [Worker -> Known \union {NoJob}]
  /\ main \in {"frame", "dispatch", "completion", "stopping", "notifying", "joining", "stopped"}
  /\ notifyDue \in BOOLEAN /\ shouldStop \in BOOLEAN
  /\ answers \in [Job -> Nat]

\* A job that nobody has cancelled is never mislaid between the two threads, the
\* list and a batch: until it is answered it is in the list or in the batch, and
\* until it has completed it is also in the queue or held by one thread.
NothingLost ==
  \A j \in Known \ stopSource :
    /\ answers[j] = 0 => j \in jobs \union batch
    /\ j \notin completed => j \in pending \/ \E w \in Worker : held[w] = j

\* The work of a job is done by one thread at a time and never again once it has
\* completed, and a completion is called at most once and only with a result.
OnceEach ==
  /\ \A w \in Worker : held[w] # NoJob => held[w] \notin pending \union completed
  /\ \A v, w \in Worker : held[v] # NoJob /\ held[v] = held[w] => v = w
  /\ \A j \in Job : answers[j] <= 1 /\ (answers[j] = 1 => j \in completed)

\* Every job ends and lets go of what it holds: it is answered unless it is
\* cancelled first, and in both cases the list, the queue, the threads and the batch
\* forget it, so that its callbacks and what they captured are freed.
EveryJobEnds ==
  \A j \in Job : j \in Known ~> (answers[j] = 1 \/ j \in stopSource) /\ ~Alive(j)

\* shutdown returns, whatever the threads are doing when it is called.
ShutdownReturns == main = "stopping" ~> main = "stopped"
=============================================================================
