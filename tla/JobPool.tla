------------------------------- MODULE JobPool -------------------------------
(***************************************************************************)
(* The pool of worker threads that the simulation, the publication of      *)
(* frames and the loading of objects share (core/JobPool.cpp).             *)
(*                                                                         *)
(* Producers run loops on it (ParallelFor) or hand it groups of tasks that *)
(* they wait for later (CreateTaskGroup, AddTask, Wait).  Batchers use its *)
(* older interface: AddTask with a completion, and Join, which waits for   *)
(* everything and runs the completions.  The destructor joins and stops.   *)
(*                                                                         *)
(* An action is what a thread does between taking _mutex, or the mutex of  *)
(* a group, and releasing it; a notification sent right after the release  *)
(* belongs to it.  A thread that waits on a condition sleeps until it is   *)
(* notified and then tests again.  Queues of one priority are served in    *)
(* any order: tasks of the same owner are alike.                           *)
(***************************************************************************)
EXTENDS Integers, Sequences, FiniteSets

CONSTANTS
  Worker,       \* the threads of the pool
  Producer,     \* threads with a loop or a group of tasks at a time
  Batcher,      \* threads of AddTask and Join
  Owner,        \* the thread that destroys the pool
  Batch,        \* stands for the tasks without a group
  None,         \* no thread, no task
  Loop,         \* [count, grain, own]: the calls of producers; own for ParallelFor
  Priority,     \* the priority of each producer, and of Batch
  MayThrow,     \* may work and completions throw?
  MaxCalls,     \* bound: calls of each producer
  MaxTasks      \* bound: tasks of batchers

Joiner == Batcher \union {Owner}
Thread == Worker \union Producer \union Joiner
Source == Producer \union {Batch}

Min2(a, b) == IF a < b THEN a ELSE b

ASSUME JobPoolAssumption ==
  /\ IsFiniteSet(Worker) /\ Worker # {}
  /\ Worker \intersect Producer = {} /\ Joiner \intersect (Worker \union Producer) = {}
  /\ Owner \notin Batcher /\ Batch \notin Producer /\ None \notin Thread \union Source
  /\ Loop # {} /\ Loop \subseteq [count : Nat \ {0}, grain : Nat \ {0}, own : BOOLEAN]
  /\ Priority \in [Source -> 0 .. 2]
  /\ MayThrow \in BOOLEAN
  /\ MaxCalls \in Nat /\ MaxTasks \in Nat

VARIABLES
  pc,          \* where each thread is
  job,         \* the owner of the task a worker holds
  range,       \* [at, last]: the indices a thread has claimed and not run
  loop,        \* each producer's call
  toAdd,       \* tasks of the call still to be added
  next,        \* nextIndex of the call
  queued,      \* _pending: tasks of each owner, in the queue of its priority
  remaining,   \* Remaining of each producer's group
  failed,      \* FirstError of each producer's group is set
  caught,      \* the exception each thread has caught in its work, or Join's firstError
  removed,     \* tasks a producer has just retired
  processing,  \* _processing
  completed,   \* _completed: whether each task failed
  batchMutex,  \* the thread that holds _batchMutex
  closing,     \* the destructor has begun: the others may not use the pool any more
  stop,        \* _shouldStop
  calls,       \* bound: calls of each producer so far
  tasks,       \* bound: tasks without a group so far
  ran,         \* history: the indices of each call that have run
  threw        \* history: whose work, or Batch's work and completions, has thrown

vars == <<pc, job, range, loop, toAdd, next, queued, remaining, failed, caught, removed,
          processing, completed, batchMutex, closing, stop, calls, tasks, ran, threw>>

groupVars == <<loop, toAdd, next, remaining, failed, removed, calls, ran>>
batchVars == <<completed, batchMutex, closing, stop, tasks>>

NoRange == [at |-> 0, last |-> 0]

-----------------------------------------------------------------------------
(***************************************************************************)
(* The condition variables: parked workers on _condPending, a joiner       *)
(* asleep on _condComplete, waiting producers on Complete of their group.  *)
(***************************************************************************)
NotifyOnePending ==
  IF \E w \in Worker : pc[w] = "parked"
    THEN {[pc EXCEPT ![w] = "look"] : w \in {v \in Worker : pc[v] = "parked"}}
    ELSE {pc}

NotifyComplete == [t \in Thread |-> IF pc[t] = "asleep" THEN "join" ELSE pc[t]]

NotifyGroup(p) == [pc EXCEPT ![p] = IF @ = "waiting" THEN "wait" ELSE @]

HasPendingTasks == \E s \in Source : queued[s] > 0

\* TakeNextTask: a task of the first queue that is not empty.
Foremost == {s \in Source : /\ queued[s] > 0
                            /\ \A r \in Source : queued[r] > 0 => Priority[s] <= Priority[r]}

-----------------------------------------------------------------------------
Init ==
  /\ pc = [t \in Thread |-> IF t \in Worker THEN "look" ELSE "idle"]
  /\ job = [w \in Worker |-> None]
  /\ range = [t \in Worker \union Producer |-> NoRange]
  /\ loop = [p \in Producer |-> CHOOSE l \in Loop : TRUE]
  /\ toAdd = [p \in Producer |-> 0]
  /\ next = [p \in Producer |-> 0]
  /\ queued = [s \in Source |-> 0]
  /\ remaining = [p \in Producer |-> 0]
  /\ failed = [p \in Producer |-> FALSE]
  /\ caught = [t \in Thread |-> FALSE]
  /\ removed = [p \in Producer |-> 0]
  /\ processing = 0
  /\ completed = <<>>
  /\ batchMutex = None
  /\ closing = FALSE
  /\ stop = FALSE
  /\ calls = [p \in Producer |-> 0]
  /\ tasks = 0
  /\ ran = [p \in Producer |-> {}]
  /\ threw = [s \in Source |-> FALSE]

-----------------------------------------------------------------------------
(***************************************************************************)
(* The test of ProcessQueue under _mutex, for worker w, when counter       *)
(* workers are processing and woken is the state of the other threads.     *)
(***************************************************************************)
TestQueue(w, counter, woken) ==
  \/ \E s \in Foremost :
       /\ queued' = [queued EXCEPT ![s] = @ - 1]
       /\ job' = [job EXCEPT ![w] = s]
       /\ processing' = counter + 1
       /\ pc' = [woken EXCEPT ![w] = IF s = Batch THEN "batch" ELSE "claim"]
  \/ /\ ~HasPendingTasks
     /\ job' = [job EXCEPT ![w] = None]
     /\ processing' = counter
     /\ pc' = [woken EXCEPT ![w] = IF stop THEN "done" ELSE "parked"]
     /\ UNCHANGED queued

\* A worker starts, or is notified.
Look(w) ==
  /\ pc[w] = "look"
  /\ TestQueue(w, processing, pc)
  /\ UNCHANGED <<range, caught, threw, groupVars, batchVars>>

(***************************************************************************)
(* taskData.WorkFn of a task without a group; it may add a task itself     *)
(* ("Work spawned by this pool is already covered by the active outer      *)
(* barrier").                                                              *)
(***************************************************************************)
EnqueueBatchTask(t, goesTo) ==
  /\ tasks < MaxTasks
  /\ tasks' = tasks + 1
  /\ queued' = [queued EXCEPT ![Batch] = @ + 1]
  /\ \E woken \in NotifyOnePending : pc' = [woken EXCEPT ![t] = goesTo]

WorkerRunsBatchTask(w) ==
  /\ pc[w] = "batch"
  /\ \E throws \in IF MayThrow THEN BOOLEAN ELSE {FALSE} :
       /\ caught' = [caught EXCEPT ![w] = throws]
       /\ threw' = [threw EXCEPT ![Batch] = @ \/ throws]
  /\ pc' = [pc EXCEPT ![w] = "finish"]
  /\ UNCHANGED <<job, range, queued, processing, groupVars, batchVars>>

WorkerSpawns(w) ==
  /\ pc[w] = "batch"
  /\ EnqueueBatchTask(w, "batch")
  /\ UNCHANGED <<job, range, caught, processing, threw, groupVars, completed, batchMutex, closing, stop>>

\* The producer whose work thread t runs.
CallOf(t) == IF t \in Worker THEN job[t] ELSE t

\* Where the work of thread t ends: the caller looks for tasks to retire.
Stops(t) == IF t \in Worker THEN "report" ELSE "retire"

\* Mutant: nextIndex moves on by one, whatever the grain.
ClaimOne(t) ==
  /\ pc[t] = "claim"
  /\ LET p == CallOf(t)
         first == next[p]
         size == Min2(loop[p].grain, loop[p].count - first)
     IN /\ next' = [next EXCEPT ![p] = first + 1]
        /\ IF first >= loop[p].count
             THEN /\ pc' = [pc EXCEPT ![t] = Stops(t)]
                  /\ UNCHANGED range
             ELSE /\ range' = [range EXCEPT ![t] = [at |-> first, last |-> first + size]]
                  /\ pc' = [pc EXCEPT ![t] = "run"]
  /\ UNCHANGED <<job, loop, toAdd, queued, remaining, failed, caught, removed, processing,
                 calls, ran, threw, batchVars>>

\* Mutant: the last batch is as long as the others.
ClaimWhole(t) ==
  /\ pc[t] = "claim"
  /\ LET p == CallOf(t)
         first == next[p]
     IN /\ next' = [next EXCEPT ![p] = first + loop[p].grain]
        /\ IF first >= loop[p].count
             THEN /\ pc' = [pc EXCEPT ![t] = Stops(t)]
                  /\ UNCHANGED range
             ELSE /\ range' = [range EXCEPT ![t] = [at |-> first, last |-> first + loop[p].grain]]
                  /\ pc' = [pc EXCEPT ![t] = "run"]
  /\ UNCHANGED <<job, loop, toAdd, queued, remaining, failed, caught, removed, processing,
                 calls, ran, threw, batchVars>>

(***************************************************************************)
(* nextIndex.fetch_add in processNext.  The tasks of a group that is not a *)
(* loop have an index each.                                                *)
(***************************************************************************)
Claim(t) ==
  /\ pc[t] = "claim"
  /\ LET p == CallOf(t)
         first == next[p]
         size == Min2(loop[p].grain, loop[p].count - first)
     IN /\ next' = [next EXCEPT ![p] = first + loop[p].grain]
        /\ IF first >= loop[p].count
             THEN /\ pc' = [pc EXCEPT ![t] = Stops(t)]
                  /\ UNCHANGED range
             ELSE /\ range' = [range EXCEPT ![t] = [at |-> first, last |-> first + size]]
                  /\ pc' = [pc EXCEPT ![t] = "run"]
  /\ UNCHANGED <<job, loop, toAdd, queued, remaining, failed, caught, removed, processing,
                 calls, ran, threw, batchVars>>

\* workFn(index): an exception ends processNext and leaves its claim behind.
Run(t) ==
  /\ pc[t] = "run"
  /\ LET p == CallOf(t)
         rest == [range[t] EXCEPT !.at = @ + 1]
     IN /\ ran' = [ran EXCEPT ![p] = @ \union {range[t].at}]
        /\ \/ /\ range' = [range EXCEPT ![t] = rest]
              /\ pc' = [pc EXCEPT ![t] = IF rest.at < rest.last THEN "run"
                                         ELSE IF loop[p].own THEN "claim" ELSE Stops(t)]
              /\ UNCHANGED <<caught, threw>>
           \/ /\ MayThrow
              /\ range' = [range EXCEPT ![t] = NoRange]
              /\ caught' = [caught EXCEPT ![t] = TRUE]
              /\ threw' = [threw EXCEPT ![p] = TRUE]
              /\ pc' = [pc EXCEPT ![t] = Stops(t)]
  /\ UNCHANGED <<job, loop, toAdd, next, queued, remaining, failed, removed, processing, calls, batchVars>>

\* Mutant: the result of the last task stands.
ReportLast(w) ==
  /\ pc[w] = "report"
  /\ LET p == job[w] IN
     /\ failed' = [failed EXCEPT ![p] = caught[w]]
     /\ remaining' = [remaining EXCEPT ![p] = @ - 1]
     /\ pc' = [IF remaining[p] = 1 THEN NotifyGroup(p) ELSE pc EXCEPT ![w] = "finish"]
  /\ job' = [job EXCEPT ![w] = None]
  /\ caught' = [caught EXCEPT ![w] = FALSE]
  /\ UNCHANGED <<range, loop, toAdd, next, queued, removed, processing, calls, ran, threw, batchVars>>

\* Mutant: nobody is notified of the last task of a group.
ReportSilently(w) ==
  /\ pc[w] = "report"
  /\ LET p == job[w] IN
     /\ failed' = [failed EXCEPT ![p] = @ \/ caught[w]]
     /\ remaining' = [remaining EXCEPT ![p] = @ - 1]
     /\ pc' = [pc EXCEPT ![w] = "finish"]
  /\ job' = [job EXCEPT ![w] = None]
  /\ caught' = [caught EXCEPT ![w] = FALSE]
  /\ UNCHANGED <<range, loop, toAdd, next, queued, removed, processing, calls, ran, threw, batchVars>>

\* Under the group's mutex: the task is no longer part of its group.
Report(w) ==
  /\ pc[w] = "report"
  /\ LET p == job[w] IN
     /\ failed' = [failed EXCEPT ![p] = @ \/ caught[w]]
     /\ remaining' = [remaining EXCEPT ![p] = @ - 1]
     /\ pc' = [IF remaining[p] = 1 THEN NotifyGroup(p) ELSE pc EXCEPT ![w] = "finish"]
  /\ job' = [job EXCEPT ![w] = None]
  /\ caught' = [caught EXCEPT ![w] = FALSE]
  /\ UNCHANGED <<range, loop, toAdd, next, queued, removed, processing, calls, ran, threw, batchVars>>

\* Under _mutex again: hand over the result, and test the queue.
Finish(w) ==
  /\ pc[w] = "finish"
  /\ completed' = IF job[w] = Batch THEN Append(completed, caught[w]) ELSE completed
  /\ caught' = [caught EXCEPT ![w] = FALSE]
  /\ IF stop
       THEN /\ pc' = [NotifyComplete EXCEPT ![w] = "done"]
            /\ job' = [job EXCEPT ![w] = None]
            /\ processing' = processing - 1
            /\ UNCHANGED queued
       ELSE TestQueue(w, processing - 1, NotifyComplete)
  /\ UNCHANGED <<range, threw, groupVars, batchMutex, closing, stop, tasks>>

-----------------------------------------------------------------------------
\* ParallelFor creates its group; the tasks it adds are as many as can be of use.
Call(p) ==
  /\ pc[p] = "idle"
  /\ ~closing
  /\ calls[p] < MaxCalls
  /\ calls' = [calls EXCEPT ![p] = @ + 1]
  /\ \E l \in Loop :
       /\ loop' = [loop EXCEPT ![p] = l]
       /\ toAdd' = [toAdd EXCEPT ![p] =
            IF l.own THEN Min2(1 + ((l.count - 1) \div l.grain), Cardinality(Worker)) ELSE l.count]
  /\ next' = [next EXCEPT ![p] = 0]
  /\ failed' = [failed EXCEPT ![p] = FALSE]
  /\ caught' = [caught EXCEPT ![p] = FALSE]
  /\ ran' = [ran EXCEPT ![p] = {}]
  /\ threw' = [threw EXCEPT ![p] = FALSE]
  /\ pc' = [pc EXCEPT ![p] = "add"]
  /\ UNCHANGED <<job, range, queued, remaining, removed, processing, batchVars>>

\* Mutant: the task is not counted.
AddUncounted(p) ==
  /\ pc[p] = "add"
  /\ toAdd[p] > 0
  /\ pc' = [pc EXCEPT ![p] = "enqueue"]
  /\ UNCHANGED <<job, range, loop, toAdd, next, queued, remaining, failed, caught, removed, processing,
                 calls, ran, threw, batchVars>>

\* AddTask counts the task before any worker can see it.
AddGroupTask(p) ==
  /\ pc[p] = "add"
  /\ toAdd[p] > 0
  /\ remaining' = [remaining EXCEPT ![p] = @ + 1]
  /\ pc' = [pc EXCEPT ![p] = "enqueue"]
  /\ UNCHANGED <<job, range, loop, toAdd, next, queued, failed, caught, removed, processing,
                 calls, ran, threw, batchVars>>

EnqueueTask(p) ==
  /\ pc[p] = "enqueue"
  /\ queued' = [queued EXCEPT ![p] = @ + 1]
  /\ toAdd' = [toAdd EXCEPT ![p] = @ - 1]
  /\ \E woken \in NotifyOnePending : pc' = [woken EXCEPT ![p] = "add"]
  /\ UNCHANGED <<job, range, loop, next, remaining, failed, caught, removed, processing,
                 calls, ran, threw, batchVars>>

\* The caller of ParallelFor takes part; the owner of a group does something else.
AllAdded(p) ==
  /\ pc[p] = "add"
  /\ toAdd[p] = 0
  /\ pc' = [pc EXCEPT ![p] = IF loop[p].own THEN "claim" ELSE "wait"]
  /\ UNCHANGED <<job, range, queued, caught, processing, threw, groupVars, batchVars>>

(***************************************************************************)
(* All indices are claimed: tasks that no worker has taken have nothing to *)
(* do, and the caller takes them back.                                     *)
(***************************************************************************)
Retire(p) ==
  /\ pc[p] = "retire"
  /\ IF next[p] >= loop[p].count /\ queued[p] > 0
       THEN /\ removed' = [removed EXCEPT ![p] = queued[p]]
            /\ queued' = [queued EXCEPT ![p] = 0]
            /\ pc' = [NotifyComplete EXCEPT ![p] = "retired"]
       ELSE /\ pc' = [pc EXCEPT ![p] = "wait"]
            /\ UNCHANGED <<removed, queued>>
  /\ UNCHANGED <<job, range, loop, toAdd, next, remaining, failed, caught, processing,
                 calls, ran, threw, batchVars>>

\* Mutant: a group whose tasks were taken back is complete.
CountRetiredAll(p) ==
  /\ pc[p] = "retired"
  /\ remaining' = [remaining EXCEPT ![p] = 0]
  /\ removed' = [removed EXCEPT ![p] = 0]
  /\ pc' = [pc EXCEPT ![p] = "wait"]
  /\ UNCHANGED <<job, range, loop, toAdd, next, queued, failed, caught, processing,
                 calls, ran, threw, batchVars>>

CountRetired(p) ==
  /\ pc[p] = "retired"
  /\ remaining' = [remaining EXCEPT ![p] = @ - removed[p]]
  /\ removed' = [removed EXCEPT ![p] = 0]
  /\ pc' = [pc EXCEPT ![p] = "wait"]
  /\ UNCHANGED <<job, range, loop, toAdd, next, queued, failed, caught, processing,
                 calls, ran, threw, batchVars>>

Wait(p) ==
  /\ pc[p] = "wait"
  /\ pc' = [pc EXCEPT ![p] = IF remaining[p] = 0 THEN "idle" ELSE "waiting"]
  /\ UNCHANGED <<job, range, queued, caught, processing, threw, groupVars, batchVars>>

-----------------------------------------------------------------------------
\* AddTask without a group takes _batchMutex: nobody adds while somebody joins.
AddTask(b) ==
  /\ pc[b] = "idle"
  /\ b \in Batcher /\ ~closing
  /\ batchMutex = None
  /\ EnqueueBatchTask(b, "idle")
  /\ UNCHANGED <<job, range, caught, processing, threw, groupVars, completed, batchMutex, closing, stop>>

Join(b) ==
  /\ pc[b] = "idle"
  /\ b \in Batcher /\ ~closing
  /\ batchMutex = None
  /\ batchMutex' = b
  /\ caught' = [caught EXCEPT ![b] = FALSE]
  /\ pc' = [pc EXCEPT ![b] = "join"]
  /\ UNCHANGED <<job, range, queued, processing, threw, groupVars, completed, closing, stop, tasks>>

Drained == ~HasPendingTasks /\ processing = 0

(***************************************************************************)
(* The completed tasks up to the first one that did not fail, whose        *)
(* completion is called without _mutex; then reportFn, without it too.     *)
(***************************************************************************)
Dispatch(j) ==
  \/ /\ \A i \in DOMAIN completed : completed[i]
     /\ caught' = [caught EXCEPT ![j] = @ \/ completed # <<>>]
     /\ completed' = <<>>
     /\ pc' = [pc EXCEPT ![j] = "reportFn"]
  \/ \E i \in DOMAIN completed :
       /\ ~completed[i] /\ \A k \in 1 .. (i - 1) : completed[k]
       /\ caught' = [caught EXCEPT ![j] = @ \/ i > 1]
       /\ completed' = SubSeq(completed, i + 1, Len(completed))
       /\ pc' = [pc EXCEPT ![j] = "completion"]

\* The wait at the head of the loop of JoinInternal.
AwaitCompleted(j) ==
  IF Drained \/ completed # <<>>
    THEN Dispatch(j)
    ELSE pc' = [pc EXCEPT ![j] = "asleep"] /\ UNCHANGED <<caught, completed>>

JoinWaits(j) ==
  /\ pc[j] = "join"
  /\ AwaitCompleted(j)
  /\ UNCHANGED <<job, range, queued, processing, threw, groupVars, batchMutex, closing, stop, tasks>>

\* A completion may throw, and may add work to the batch that is being joined.
CompletionReturns(j) ==
  /\ pc[j] = "completion"
  /\ \E throws \in IF MayThrow THEN BOOLEAN ELSE {FALSE} :
       /\ caught' = [caught EXCEPT ![j] = @ \/ throws]
       /\ threw' = [threw EXCEPT ![Batch] = @ \/ throws]
  /\ pc' = [pc EXCEPT ![j] = "dispatch"]
  /\ UNCHANGED <<job, range, queued, processing, groupVars, batchVars>>

CompletionSpawns(j) ==
  /\ pc[j] = "completion"
  /\ EnqueueBatchTask(j, "completion")
  /\ UNCHANGED <<job, range, caught, processing, threw, groupVars, completed, batchMutex, closing, stop>>

JoinDispatches(j) ==
  /\ pc[j] = "dispatch"
  /\ Dispatch(j)
  /\ UNCHANGED <<job, range, queued, processing, threw, groupVars, batchMutex, closing, stop, tasks>>

\* Mutant: Join leaves as soon as the completions that are there were called.
JoinEndsEarly(j) ==
  /\ pc[j] = "reportFn"
  /\ IF completed = <<>>
       THEN /\ pc' = [pc EXCEPT ![j] = IF j = Owner THEN "stop" ELSE "idle"]
            /\ batchMutex' = None
            /\ threw' = [threw EXCEPT ![Batch] = FALSE]
            /\ UNCHANGED <<caught, completed>>
       ELSE AwaitCompleted(j) /\ UNCHANGED <<batchMutex, threw>>
  /\ UNCHANGED <<job, range, queued, processing, groupVars, closing, stop, tasks>>

\* After reportFn: leave if nothing is left, else wait again.
JoinEnds(j) ==
  /\ pc[j] = "reportFn"
  /\ IF Drained /\ completed = <<>>
       THEN /\ pc' = [pc EXCEPT ![j] = IF j = Owner THEN "stop" ELSE "idle"]
            /\ batchMutex' = None
            /\ threw' = [threw EXCEPT ![Batch] = FALSE]
            /\ UNCHANGED <<caught, completed>>
       ELSE AwaitCompleted(j) /\ UNCHANGED <<batchMutex, threw>>
  /\ UNCHANGED <<job, range, queued, processing, groupVars, closing, stop, tasks>>

-----------------------------------------------------------------------------
\* The destructor, once no other thread uses the pool.
Destroy ==
  /\ pc[Owner] = "idle"
  /\ ~closing
  /\ \A t \in Producer \union Batcher : pc[t] = "idle"
  /\ closing' = TRUE
  /\ batchMutex' = Owner
  /\ pc' = [pc EXCEPT ![Owner] = "join"]
  /\ UNCHANGED <<job, range, queued, caught, processing, threw, groupVars, completed, stop, tasks>>

StopWorkers ==
  /\ pc[Owner] = "stop"
  /\ stop' = TRUE
  /\ pc' = [t \in Thread |-> IF t = Owner THEN "reap" ELSE IF pc[t] = "parked" THEN "look" ELSE pc[t]]
  /\ UNCHANGED <<job, range, queued, caught, processing, threw, groupVars, completed, batchMutex,
                 closing, tasks>>

Reaped ==
  /\ pc[Owner] = "reap"
  /\ \A w \in Worker : pc[w] = "done"
  /\ pc' = [pc EXCEPT ![Owner] = "done"]
  /\ UNCHANGED <<job, range, queued, caught, processing, threw, groupVars, batchVars>>

\* The pool is gone.
Gone == pc[Owner] = "done" /\ UNCHANGED vars

-----------------------------------------------------------------------------
WorkerStep(w) ==
  Look(w) \/ WorkerRunsBatchTask(w) \/ WorkerSpawns(w) \/ Claim(w) \/ Run(w) \/ Report(w) \/ Finish(w)

ProducerStep(p) ==
  \/ AddGroupTask(p) \/ EnqueueTask(p) \/ AllAdded(p) \/ Claim(p) \/ Run(p)
  \/ Retire(p) \/ CountRetired(p) \/ Wait(p)

JoinStep(j) ==
  JoinWaits(j) \/ CompletionReturns(j) \/ CompletionSpawns(j) \/ JoinDispatches(j) \/ JoinEnds(j)

Next ==
  \/ \E w \in Worker : WorkerStep(w)
  \/ \E p \in Producer : Call(p) \/ ProducerStep(p)
  \/ \E b \in Batcher : AddTask(b) \/ Join(b)
  \/ \E j \in Joiner : JoinStep(j)
  \/ Destroy \/ StopWorkers \/ Reaped \/ Gone

Spec == Init /\ [][Next]_vars

(***************************************************************************)
(* Threads that can take a step do so: the scheduler runs every thread,    *)
(* and no work runs for ever.  Nobody has to call the pool.                *)
(***************************************************************************)
FairSpec ==
  /\ Spec
  /\ \A w \in Worker : WF_vars(WorkerStep(w))
  /\ \A p \in Producer : WF_vars(ProducerStep(p))
  /\ \A j \in Joiner : WF_vars(JoinStep(j))
  /\ WF_vars(StopWorkers) /\ WF_vars(Reaped)

-----------------------------------------------------------------------------
(***************************************************************************)
(* The type invariant of the pool (JobPool.h).                             *)
(***************************************************************************)
WorkerPlaces == {"look", "parked", "batch", "claim", "run", "report", "finish", "done"}
ProducerPlaces == {"idle", "add", "enqueue", "claim", "run", "retire", "retired", "wait", "waiting"}
JoinerPlaces == {"idle", "join", "asleep", "completion", "dispatch", "reportFn", "stop", "reap", "done"}

TypeOK ==
  /\ pc \in [Thread -> WorkerPlaces \union ProducerPlaces \union JoinerPlaces]
  /\ \A w \in Worker : pc[w] \in WorkerPlaces
  /\ \A p \in Producer : pc[p] \in ProducerPlaces
  /\ \A j \in Joiner : pc[j] \in JoinerPlaces
  /\ job \in [Worker -> Source \union {None}]
  /\ range \in [Worker \union Producer -> [at : Nat, last : Nat]]
  /\ loop \in [Producer -> Loop]
  /\ toAdd \in [Producer -> Nat]
  /\ next \in [Producer -> Nat]
  /\ queued \in [Source -> Nat]
  /\ remaining \in [Producer -> Nat]
  /\ failed \in [Producer -> BOOLEAN]
  /\ caught \in [Thread -> BOOLEAN]
  /\ removed \in [Producer -> Nat]
  /\ processing \in Nat
  /\ completed \in Seq(BOOLEAN)
  /\ batchMutex \in Joiner \union {None}
  /\ closing \in BOOLEAN
  /\ stop \in BOOLEAN
  /\ calls \in [Producer -> 0 .. MaxCalls]
  /\ tasks \in 0 .. MaxTasks
  /\ ran \in [Producer -> SUBSET Nat]
  /\ threw \in [Source -> BOOLEAN]

(***************************************************************************)
(* "Both paths still reach the barrier after an exception so worker        *)
(* lambdas never outlive references captured from this stack frame"        *)
(* (ParallelFor): while no call of a producer is in progress, no task of   *)
(* it is queued and no worker runs one.                                    *)
(***************************************************************************)
Busy(p) == {w \in Worker : job[w] = p}

CapturesOutliveTasks ==
  \A p \in Producer : pc[p] = "idle" => queued[p] = 0 /\ Busy(p) = {}

(***************************************************************************)
(* Why: a group counts its tasks, from before they are queued until a      *)
(* worker or the caller has reported them, and the pool its busy workers.  *)
(***************************************************************************)
GroupCounts ==
  \A p \in Producer :
    remaining[p] = queued[p] + Cardinality(Busy(p)) + removed[p]
                   + (IF pc[p] = "enqueue" THEN 1 ELSE 0)

Working == {w \in Worker : pc[w] \in {"batch", "claim", "run", "report", "finish"}}

ProcessingCounts == processing = Cardinality(Working)

\* What a worker holds, by where it is, and how far a call has come.
JobFits(w) ==
  /\ pc[w] \in {"claim", "run", "report"} => job[w] \in Producer
  /\ pc[w] = "batch" => job[w] = Batch
  /\ pc[w] = "finish" => job[w] \in {Batch, None}
  /\ pc[w] \in {"look", "parked", "done"} => job[w] = None

CallFits(p) ==
  /\ pc[p] = "idle" => remaining[p] = 0
  /\ pc[p] = "enqueue" => toAdd[p] > 0
  /\ pc[p] # "retired" => removed[p] = 0

Jobs == \A w \in Worker : JobFits(w)
Progress == \A p \in Producer : CallFits(p)

PoolInv == TypeOK /\ GroupCounts /\ ProcessingCounts /\ Jobs /\ Progress

(***************************************************************************)
(* Every index is run once (ParallelFor): a thread is about to run what    *)
(* nobody has run and nobody else has claimed, and a call that returns     *)
(* without an exception has run them all.                                  *)
(***************************************************************************)
Claimed(t) == IF pc[t] = "run" THEN range[t].at .. (range[t].last - 1) ELSE {}

Runners(p) == Busy(p) \union {p}

NoIndexTwice ==
  \A p \in Producer : \A t \in Runners(p) :
    /\ Claimed(t) \intersect ran[p] = {}
    /\ \A u \in Runners(p) \ {t} : Claimed(t) \intersect Claimed(u) = {}

Returning(p) == pc[p] = "wait" /\ remaining[p] = 0

EveryIndexRuns ==
  \A p \in Producer : Returning(p) /\ ~threw[p] => ran[p] = 0 .. (loop[p].count - 1)

(***************************************************************************)
(* A call throws exactly if its own work has thrown, and Join exactly if   *)
(* something of its batch has: "so one producer cannot consume or rethrow  *)
(* another producer's result" (ProcessQueue).                              *)
(***************************************************************************)
Leaving(j) == pc[j] = "reportFn" /\ Drained /\ completed = <<>>

ErrorsStayAtHome ==
  /\ \A p \in Producer : Returning(p) => (threw[p] <=> caught[p] \/ failed[p])
  /\ \A j \in Joiner : Leaving(j) => (threw[Batch] <=> caught[j])

(***************************************************************************)
(* The destructor leaves nothing behind: when the workers are told to stop *)
(* every task has run and every completion was called.                     *)
(***************************************************************************)
NothingLeftAtStop ==
  stop => Drained /\ completed = <<>>

(***************************************************************************)
(* Every loop, every wait for a group and every join returns, while other  *)
(* producers use the same workers.                                         *)
(***************************************************************************)
EveryCallReturns ==
  /\ \A p \in Producer : pc[p] = "add" ~> pc[p] = "idle"
  /\ \A b \in Batcher : pc[b] = "join" ~> pc[b] = "idle"
=============================================================================
