---------------------------- MODULE JobPoolProofs ---------------------------
(***************************************************************************)
(* Safety of the pool for any number of workers, producers and batchers,   *)
(* any loops and any bounds.                                               *)
(***************************************************************************)
EXTENDS JobPool, FiniteSetTheorems, SequenceTheorems, TLAPS

Places == WorkerPlaces \union ProducerPlaces \union JoinerPlaces

(***************************************************************************)
(* A notification only moves threads that sleep to the test they repeat.   *)
(***************************************************************************)
Woken(f) ==
  /\ f \in [Thread -> Places]
  /\ \A t \in Thread :
       \/ f[t] = pc[t]
       \/ t \in Worker /\ pc[t] = "parked" /\ f[t] = "look"
       \/ t \in Joiner /\ pc[t] = "asleep" /\ f[t] = "join"
       \/ t \in Producer /\ pc[t] = "waiting" /\ f[t] = "wait"

LEMMA WokenNobody ==
  ASSUME TypeOK
  PROVE  Woken(pc)
  BY DEF TypeOK, Woken, Places

LEMMA WokenPending ==
  ASSUME TypeOK, NEW f \in NotifyOnePending
  PROVE  Woken(f)
  <1>1. CASE f = pc
    BY <1>1, WokenNobody
  <1>2. ASSUME NEW w \in Worker, pc[w] = "parked", f = [pc EXCEPT ![w] = "look"]
        PROVE  Woken(f)
    BY <1>2 DEF TypeOK, Woken, Places, Thread, WorkerPlaces
  <1>3. QED
    BY <1>1, <1>2 DEF NotifyOnePending

LEMMA WokenComplete ==
  ASSUME TypeOK
  PROVE  Woken(NotifyComplete)
  <1>1. \A t \in Thread : pc[t] = "asleep" => t \in Joiner
    BY DEF TypeOK, Thread, WorkerPlaces, ProducerPlaces
  <1>2. QED
    BY <1>1 DEF TypeOK, Woken, Places, NotifyComplete, JoinerPlaces

LEMMA WokenGroup ==
  ASSUME TypeOK, NEW p \in Producer
  PROVE  Woken(NotifyGroup(p))
  BY DEF TypeOK, Woken, Places, NotifyGroup, Thread, ProducerPlaces

\* Nobody but t moves of its own.
OnlyMoves(t) ==
  \A u \in Thread \ {t} :
    \/ pc'[u] = pc[u]
    \/ u \in Worker /\ pc[u] = "parked" /\ pc'[u] = "look"
    \/ u \in Joiner /\ pc[u] = "asleep" /\ pc'[u] = "join"
    \/ u \in Producer /\ pc[u] = "waiting" /\ pc'[u] = "wait"

(***************************************************************************)
(* The places of a step: one thread moves, others may be woken.            *)
(***************************************************************************)
LEMMA PlacesAfter ==
  ASSUME TypeOK, NEW f, Woken(f), NEW t \in Thread, NEW place \in Places,
         pc' = [f EXCEPT ![t] = place],
         t \in Worker => place \in WorkerPlaces,
         t \in Producer => place \in ProducerPlaces,
         t \in Joiner => place \in JoinerPlaces
  PROVE  /\ pc' \in [Thread -> Places]
         /\ \A w \in Worker : pc'[w] \in WorkerPlaces
         /\ \A p \in Producer : pc'[p] \in ProducerPlaces
         /\ \A j \in Joiner : pc'[j] \in JoinerPlaces
         /\ pc'[t] = place
         /\ OnlyMoves(t)
  <1>1. pc' \in [Thread -> Places] /\ pc'[t] = place
    BY DEF Woken
  <1>2. ASSUME NEW u \in Thread \ {t}
        PROVE  pc'[u] = f[u]
    BY DEF Woken
  <1>3. QED
    BY <1>1, <1>2 DEF OnlyMoves, Woken, TypeOK, Thread, WorkerPlaces, ProducerPlaces, JoinerPlaces

(***************************************************************************)
(* Counting workers.                                                       *)
(***************************************************************************)
LEMMA CountWorkers ==
  ASSUME NEW S \in SUBSET Worker
  PROVE  /\ Cardinality(S) \in Nat
         /\ S # {} => Cardinality(S) > 0
         /\ Cardinality(S) = 0 => S = {}
         /\ \A w \in Worker \ S : Cardinality(S \union {w}) = Cardinality(S) + 1
         /\ \A w \in S : Cardinality(S \ {w}) = Cardinality(S) - 1
  <1>1. IsFiniteSet(S)
    BY JobPoolAssumption, FS_Subset
  <1>2. Cardinality(S) \in Nat
    BY <1>1, FS_CardinalityType
  <1>3. Cardinality(S) = 0 <=> S = {}
    BY <1>1, FS_EmptySet
  <1>4. \A w \in Worker \ S : Cardinality(S \union {w}) = Cardinality(S) + 1
    BY <1>1, FS_AddElement
  <1>5. \A w \in S : Cardinality(S \ {w}) = Cardinality(S) - 1
    BY <1>1, FS_RemoveElement
  <1>6. QED
    BY <1>2, <1>3, <1>4, <1>5

LEMMA BusyIsWorkers ==
  \A p \in Producer : Busy(p) \in SUBSET Worker
  BY DEF Busy

LEMMA WorkingIsWorkers == Working \in SUBSET Worker
  BY DEF Working

(***************************************************************************)
(* What a step that moves t means for the others.                          *)
(***************************************************************************)
LEMMA OthersStayPut ==
  ASSUME NEW t \in Thread, OnlyMoves(t)
  PROVE  /\ \A w \in Worker \ {t} :
              /\ w \in Working' <=> w \in Working
              /\ \/ pc'[w] = pc[w]
                 \/ pc[w] = "parked" /\ pc'[w] = "look"
         /\ \A p \in Producer \ {t} :
              /\ pc'[p] = "enqueue" <=> pc[p] = "enqueue"
              /\ \/ pc'[p] = pc[p]
                 \/ pc[p] = "waiting" /\ pc'[p] = "wait"
  <1>1. \A w \in Worker : w \in Thread /\ w \notin Joiner /\ w \notin Producer
    BY JobPoolAssumption DEF Thread
  <1>2. \A p \in Producer : p \in Thread /\ p \notin Joiner /\ p \notin Worker
    BY JobPoolAssumption DEF Thread
  <1>3. QED
    BY <1>1, <1>2 DEF OnlyMoves, Working

LEMMA JobsAfter ==
  ASSUME Jobs, NEW t \in Thread, OnlyMoves(t),
         \A w \in Worker \ {t} : job'[w] = job[w],
         t \in Worker => JobFits(t)'
  PROVE  Jobs'
  BY OthersStayPut DEF Jobs, JobFits

LEMMA ProgressAfter ==
  ASSUME Progress, NEW t \in Thread, OnlyMoves(t),
         \A p \in Producer \ {t} : /\ remaining'[p] = remaining[p]
                                   /\ toAdd'[p] = toAdd[p]
                                   /\ removed'[p] = removed[p],
         t \in Producer => CallFits(t)'
  PROVE  Progress'
  BY OthersStayPut DEF Progress, CallFits

-----------------------------------------------------------------------------
(***************************************************************************)
(* A step that moves no task and counts none leaves the counts alone.      *)
(***************************************************************************)
LEMMA CountsStay ==
  ASSUME PoolInv, NEW t \in Thread, OnlyMoves(t),
         UNCHANGED <<job, processing, remaining, removed>>,
         \A p \in Producer : queued'[p] = queued[p],
         \A p \in Producer \ {t} : toAdd'[p] = toAdd[p],
         t \in Worker => (t \in Working' <=> t \in Working) /\ JobFits(t)',
         t \in Producer => (pc'[t] = "enqueue" <=> pc[t] = "enqueue") /\ CallFits(t)'
  PROVE  GroupCounts' /\ ProcessingCounts' /\ Jobs' /\ Progress'
  <1>1. GroupCounts'
    <2>1. \A p \in Producer : Busy(p)' = Busy(p)
      BY DEF Busy
    <2>2. \A p \in Producer : pc'[p] = "enqueue" <=> pc[p] = "enqueue"
      BY OthersStayPut
    <2>3. QED
      BY <2>1, <2>2 DEF PoolInv, GroupCounts
  <1>2. ProcessingCounts'
    <2>1. Working' = Working
      BY OthersStayPut, WorkingIsWorkers DEF Working
    <2>2. QED
      BY <2>1 DEF PoolInv, ProcessingCounts
  <1>3. Jobs'
    BY JobsAfter DEF PoolInv
  <1>4. Progress'
    BY ProgressAfter DEF PoolInv
  <1>5. QED
    BY <1>1, <1>2, <1>3, <1>4

(***************************************************************************)
(* A worker that tests the queue takes a task of one owner, or none.       *)
(***************************************************************************)
LEMMA ForemostIsQueued ==
  ASSUME NEW s \in Foremost
  PROVE  s \in Source /\ queued[s] > 0
  BY DEF Foremost

LEMMA TestQueueStep ==
  ASSUME PoolInv, NEW w \in Worker, pc[w] \in {"look", "finish"},
         NEW counter, counter = Cardinality(Working \ {w}),
         NEW f, Woken(f), TestQueue(w, counter, f),
         UNCHANGED <<remaining, removed, toAdd>>
  PROVE  /\ \E place \in {"batch", "claim", "done", "parked"} : pc' = [f EXCEPT ![w] = place]
         /\ job' \in [Worker -> Source \union {None}]
         /\ queued' \in [Source -> Nat]
         /\ processing' \in Nat
         /\ GroupCounts' /\ ProcessingCounts' /\ Jobs' /\ Progress'
  <1>. USE DEF PoolInv
  <1>1. job[w] \notin Producer
    BY JobPoolAssumption DEF Jobs, JobFits, Thread, Source
  <1>2. w \in Thread /\ w \notin Producer /\ w \notin Joiner
    BY JobPoolAssumption DEF Thread
  <1>3. counter \in Nat
    <2>1. Working \ {w} \in SUBSET Worker
      BY DEF Working
    <2>2. QED
      BY <2>1, CountWorkers
  <1>4. CASE \E s \in Foremost :
               /\ queued' = [queued EXCEPT ![s] = @ - 1]
               /\ job' = [job EXCEPT ![w] = s]
               /\ processing' = counter + 1
               /\ pc' = [f EXCEPT ![w] = IF s = Batch THEN "batch" ELSE "claim"]
    <2>1. PICK s \in Foremost :
               /\ queued' = [queued EXCEPT ![s] = @ - 1]
               /\ job' = [job EXCEPT ![w] = s]
               /\ processing' = counter + 1
               /\ pc' = [f EXCEPT ![w] = IF s = Batch THEN "batch" ELSE "claim"]
      BY <1>4
    <2>2. s \in Source /\ queued[s] > 0
      BY ForemostIsQueued
    <2>. DEFINE goes == IF s = Batch THEN "batch" ELSE "claim"
    <2>3. goes \in WorkerPlaces /\ goes \in Places
      BY DEF WorkerPlaces, Places
    <2>4. /\ pc'[w] = goes
          /\ OnlyMoves(w)
      BY <1>2, <2>1, <2>3, PlacesAfter
    <2>5. /\ job' \in [Worker -> Source \union {None}]
          /\ queued' \in [Source -> Nat]
      BY <2>1, <2>2 DEF TypeOK
    <2>6. GroupCounts'
      <3>1. SUFFICES ASSUME NEW p \in Producer
                     PROVE  remaining'[p] = queued'[p] + Cardinality(Busy(p)') + removed'[p]
                                            + (IF pc'[p] = "enqueue" THEN 1 ELSE 0)
        BY DEF GroupCounts
      <3>2. pc'[p] = "enqueue" <=> pc[p] = "enqueue"
        BY <2>4, <1>2, OthersStayPut
      <3>3. CASE s = p
        <4>1. w \notin Busy(p) /\ Busy(p)' = Busy(p) \union {w}
          BY <1>1, <2>1, <3>3 DEF Busy, TypeOK
        <4>2. Cardinality(Busy(p)') = Cardinality(Busy(p)) + 1 /\ Cardinality(Busy(p)) \in Nat
          BY <4>1, CountWorkers, BusyIsWorkers
        <4>3. queued'[p] = queued[p] - 1
          BY <2>1, <2>2, <3>3 DEF TypeOK
        <4>4. QED
          BY <3>2, <4>2, <4>3 DEF GroupCounts, TypeOK, Source
      <3>4. CASE s # p
        <4>1. Busy(p)' = Busy(p)
          BY <1>1, <2>1, <3>4 DEF Busy, TypeOK
        <4>2. queued'[p] = queued[p]
          BY <2>1, <3>4 DEF TypeOK, Source
        <4>3. QED
          BY <3>2, <4>1, <4>2 DEF GroupCounts
      <3>5. QED
        BY <3>3, <3>4
    <2>7. ProcessingCounts'
      <3>1. Working' = (Working \ {w}) \union {w}
        BY <2>4, <1>2, OthersStayPut DEF Working
      <3>2. Cardinality(Working') = counter + 1
        <4>1. Working \ {w} \in SUBSET Worker /\ w \in Worker \ (Working \ {w})
          BY DEF Working
        <4>2. QED
          BY <3>1, <4>1, CountWorkers
      <3>3. QED
        BY <2>1, <3>2 DEF ProcessingCounts
    <2>8. Jobs'
      <3>1. JobFits(w)'
        BY <2>1, <2>2, <2>4 DEF JobFits, TypeOK, Source
      <3>2. \A u \in Worker \ {w} : job'[u] = job[u]
        BY <2>1 DEF TypeOK
      <3>3. QED
        BY <1>2, <2>4, <3>1, <3>2, JobsAfter
    <2>9. Progress'
      BY <1>2, <2>4, ProgressAfter
    <2>10. \E place \in {"batch", "claim", "done", "parked"} : pc' = [f EXCEPT ![w] = place]
      BY <2>1
    <2>11. processing' \in Nat
      BY <1>3, <2>1
    <2>12. QED
      BY <2>10, <2>11, <2>5, <2>6, <2>7, <2>8, <2>9
  <1>5. CASE /\ job' = [job EXCEPT ![w] = None]
             /\ processing' = counter
             /\ pc' = [f EXCEPT ![w] = IF stop THEN "done" ELSE "parked"]
             /\ UNCHANGED queued
    <2>. DEFINE goes == IF stop THEN "done" ELSE "parked"
    <2>1. goes \in WorkerPlaces /\ goes \in Places
      BY DEF WorkerPlaces, Places
    <2>2. /\ pc'[w] = goes
          /\ OnlyMoves(w)
      BY <1>2, <1>5, <2>1, PlacesAfter
    <2>3. job' \in [Worker -> Source \union {None}] /\ queued' \in [Source -> Nat]
      BY <1>5 DEF TypeOK
    <2>4. GroupCounts'
      <3>1. \A p \in Producer : Busy(p)' = Busy(p)
        BY <1>1, <1>5, JobPoolAssumption DEF Busy, TypeOK, Thread, Source
      <3>2. \A p \in Producer : pc'[p] = "enqueue" <=> pc[p] = "enqueue"
        BY <2>2, <1>2, OthersStayPut
      <3>3. QED
        BY <1>5, <3>1, <3>2 DEF GroupCounts
    <2>5. ProcessingCounts'
      <3>1. Working' = Working \ {w}
        BY <2>2, <1>2, OthersStayPut DEF Working
      <3>2. QED
        BY <1>5, <3>1 DEF ProcessingCounts
    <2>6. Jobs'
      <3>1. JobFits(w)'
        BY <1>5, <2>2 DEF JobFits, TypeOK
      <3>2. \A u \in Worker \ {w} : job'[u] = job[u]
        BY <1>5 DEF TypeOK
      <3>3. QED
        BY <1>2, <2>2, <3>1, <3>2, JobsAfter
    <2>7. Progress'
      BY <1>2, <2>2, ProgressAfter
    <2>8. \E place \in {"batch", "claim", "done", "parked"} : pc' = [f EXCEPT ![w] = place]
      BY <1>5
    <2>9. QED
      BY <2>8, <1>3, <1>5, <2>3, <2>4, <2>5, <2>6, <2>7
  <1>6. QED
    BY <1>4, <1>5 DEF TestQueue

-----------------------------------------------------------------------------
(***************************************************************************)
(* The steps of workers.                                                   *)
(***************************************************************************)
LEMMA ThreadsApart ==
  /\ \A w \in Worker : w \in Thread /\ w \notin Producer /\ w \notin Joiner
  /\ \A p \in Producer : p \in Thread /\ p \notin Worker /\ p \notin Joiner
  /\ \A j \in Joiner : j \in Thread /\ j \notin Worker /\ j \notin Producer
  BY JobPoolAssumption DEF Thread

LEMMA WorkerMoves ==
  ASSUME TypeOK, NEW f, Woken(f), NEW w \in Worker, NEW place \in WorkerPlaces,
         pc' = [f EXCEPT ![w] = place]
  PROVE  /\ pc' \in [Thread -> Places]
         /\ \A v \in Worker : pc'[v] \in WorkerPlaces
         /\ \A p \in Producer : pc'[p] \in ProducerPlaces
         /\ \A j \in Joiner : pc'[j] \in JoinerPlaces
         /\ pc'[w] = place
         /\ OnlyMoves(w)
  <1>1. place \in Places
    BY DEF Places
  <1>2. QED
    BY <1>1, PlacesAfter, ThreadsApart

LEMMA ProducerMoves ==
  ASSUME TypeOK, NEW f, Woken(f), NEW p \in Producer, NEW place \in ProducerPlaces,
         pc' = [f EXCEPT ![p] = place]
  PROVE  /\ pc' \in [Thread -> Places]
         /\ \A w \in Worker : pc'[w] \in WorkerPlaces
         /\ \A q \in Producer : pc'[q] \in ProducerPlaces
         /\ \A j \in Joiner : pc'[j] \in JoinerPlaces
         /\ pc'[p] = place
         /\ OnlyMoves(p)
  <1>1. place \in Places
    BY DEF Places
  <1>2. QED
    BY <1>1, PlacesAfter, ThreadsApart

LEMMA JoinerMoves ==
  ASSUME TypeOK, NEW f, Woken(f), NEW j \in Joiner, NEW place \in JoinerPlaces,
         pc' = [f EXCEPT ![j] = place]
  PROVE  /\ pc' \in [Thread -> Places]
         /\ \A w \in Worker : pc'[w] \in WorkerPlaces
         /\ \A p \in Producer : pc'[p] \in ProducerPlaces
         /\ \A i \in Joiner : pc'[i] \in JoinerPlaces
         /\ pc'[j] = place
         /\ OnlyMoves(j)
  <1>1. place \in Places
    BY DEF Places
  <1>2. QED
    BY <1>1, PlacesAfter, ThreadsApart

LEMMA LookStep ==
  ASSUME PoolInv, NEW w \in Worker, Look(w)
  PROVE  PoolInv'
  <1>. USE DEF PoolInv
  <1>1. processing = Cardinality(Working \ {w})
    <2>1. Working \ {w} = Working
      BY DEF Look, Working
    <2>2. QED
      BY <2>1 DEF ProcessingCounts
  <1>2. Woken(pc)
    BY WokenNobody
  <1>3. /\ \E place \in {"batch", "claim", "done", "parked"} : pc' = [pc EXCEPT ![w] = place]
        /\ job' \in [Worker -> Source \union {None}]
        /\ queued' \in [Source -> Nat]
        /\ processing' \in Nat
        /\ GroupCounts' /\ ProcessingCounts' /\ Jobs' /\ Progress'
    BY <1>1, <1>2, TestQueueStep DEF Look, groupVars
  <1>4. /\ pc' \in [Thread -> Places]
        /\ \A v \in Worker : pc'[v] \in WorkerPlaces
        /\ \A p \in Producer : pc'[p] \in ProducerPlaces
        /\ \A j \in Joiner : pc'[j] \in JoinerPlaces
    BY <1>2, <1>3, WorkerMoves DEF WorkerPlaces
  <1>5. TypeOK'
    BY <1>3, <1>4 DEF TypeOK, Look, groupVars, batchVars, Places
  <1>6. QED
    BY <1>3, <1>5

LEMMA FinishStep ==
  ASSUME PoolInv, NEW w \in Worker, Finish(w)
  PROVE  PoolInv'
  <1>. USE DEF PoolInv
  <1>1. processing - 1 = Cardinality(Working \ {w}) /\ processing - 1 \in Nat
    <2>1. w \in Working
      BY DEF Finish, Working
    <2>2. QED
      BY <2>1, CountWorkers, WorkingIsWorkers DEF ProcessingCounts
  <1>2. Woken(NotifyComplete)
    BY WokenComplete
  <1>3. job[w] \notin Producer
    BY JobPoolAssumption DEF Finish, Jobs, JobFits, Source
  <1>4. completed' \in Seq(BOOLEAN) /\ caught' \in [Thread -> BOOLEAN]
    <2>1. caught[w] \in BOOLEAN
      BY ThreadsApart DEF TypeOK
    <2>2. Append(completed, caught[w]) \in Seq(BOOLEAN)
      BY <2>1 DEF TypeOK
    <2>3. completed' \in Seq(BOOLEAN)
      BY <2>2 DEF Finish, TypeOK
    <2>4. caught' \in [Thread -> BOOLEAN]
      BY DEF Finish, TypeOK
    <2>5. QED
      BY <2>3, <2>4
  <1>5. CASE stop
    <2>1. pc' = [NotifyComplete EXCEPT ![w] = "done"] /\ job' = [job EXCEPT ![w] = None]
          /\ processing' = processing - 1 /\ queued' = queued
      BY <1>5 DEF Finish
    <2>2. /\ pc' \in [Thread -> Places]
          /\ \A v \in Worker : pc'[v] \in WorkerPlaces
          /\ \A p \in Producer : pc'[p] \in ProducerPlaces
          /\ \A j \in Joiner : pc'[j] \in JoinerPlaces
          /\ pc'[w] = "done"
          /\ OnlyMoves(w)
      BY <1>2, <2>1, WorkerMoves DEF WorkerPlaces
    <2>3. TypeOK'
      BY <1>1, <1>4, <2>1, <2>2 DEF TypeOK, Finish, groupVars, Places
    <2>4. GroupCounts'
      <3>1. \A p \in Producer : Busy(p)' = Busy(p)
        BY <1>3, <2>1, JobPoolAssumption DEF Busy, TypeOK, Source
      <3>2. \A p \in Producer : pc'[p] = "enqueue" <=> pc[p] = "enqueue"
        BY <2>2, OthersStayPut, ThreadsApart
      <3>3. QED
        BY <2>1, <3>1, <3>2 DEF GroupCounts, Finish, groupVars
    <2>5. ProcessingCounts'
      <3>1. Working' = Working \ {w}
        BY <2>2, OthersStayPut, ThreadsApart DEF Working
      <3>2. QED
        BY <1>1, <2>1, <3>1 DEF ProcessingCounts
    <2>6. Jobs'
      <3>1. JobFits(w)'
        BY <2>1, <2>2 DEF JobFits, TypeOK
      <3>2. \A u \in Worker \ {w} : job'[u] = job[u]
        BY <2>1 DEF TypeOK
      <3>3. QED
        BY <2>2, <3>1, <3>2, JobsAfter, ThreadsApart
    <2>7. Progress'
      BY <2>2, ProgressAfter, ThreadsApart DEF Finish, groupVars
    <2>8. QED
      BY <2>3, <2>4, <2>5, <2>6, <2>7
  <1>6. CASE ~stop
    <2>1. TestQueue(w, processing - 1, NotifyComplete)
      BY <1>6 DEF Finish
    <2>2. /\ \E place \in {"batch", "claim", "done", "parked"} : pc' = [NotifyComplete EXCEPT ![w] = place]
          /\ job' \in [Worker -> Source \union {None}]
          /\ queued' \in [Source -> Nat]
          /\ processing' \in Nat
          /\ GroupCounts' /\ ProcessingCounts' /\ Jobs' /\ Progress'
      BY <1>1, <1>2, <2>1, TestQueueStep DEF Finish, groupVars
    <2>3. /\ pc' \in [Thread -> Places]
          /\ \A v \in Worker : pc'[v] \in WorkerPlaces
          /\ \A p \in Producer : pc'[p] \in ProducerPlaces
          /\ \A j \in Joiner : pc'[j] \in JoinerPlaces
      BY <1>2, <2>2, WorkerMoves DEF WorkerPlaces
    <2>4. TypeOK'
      BY <1>4, <2>2, <2>3 DEF TypeOK, Finish, groupVars, Places
    <2>5. QED
      BY <2>2, <2>4
  <1>7. QED
    BY <1>5, <1>6

LEMMA BatchWorkStep ==
  ASSUME PoolInv, NEW w \in Worker, WorkerRunsBatchTask(w)
  PROVE  PoolInv'
  <1>. USE DEF PoolInv
  <1>1. /\ pc' \in [Thread -> Places]
        /\ \A v \in Worker : pc'[v] \in WorkerPlaces
        /\ \A p \in Producer : pc'[p] \in ProducerPlaces
        /\ \A j \in Joiner : pc'[j] \in JoinerPlaces
        /\ pc'[w] = "finish"
        /\ OnlyMoves(w)
    BY WokenNobody, WorkerMoves DEF WorkerRunsBatchTask, WorkerPlaces
  <1>2. TypeOK'
    <2>1. PICK throws \in BOOLEAN : /\ caught' = [caught EXCEPT ![w] = throws]
                                    /\ threw' = [threw EXCEPT ![Batch] = @ \/ throws]
      BY DEF WorkerRunsBatchTask
    <2>2. caught' \in [Thread -> BOOLEAN]
      BY <2>1 DEF TypeOK
    <2>3. (threw[Batch] \/ throws) \in BOOLEAN
      OBVIOUS
    <2>4. threw' \in [Source -> BOOLEAN]
      BY <2>1, <2>3 DEF TypeOK
    <2>5. QED
      BY <1>1, <2>2, <2>4 DEF TypeOK, WorkerRunsBatchTask, groupVars, batchVars, Places
  <1>3. w \in Working /\ w \in Working' /\ JobFits(w)'
    BY <1>1 DEF Working, WorkerRunsBatchTask, Jobs, JobFits
  <1>4. QED
    BY <1>1, <1>2, <1>3, CountsStay, ThreadsApart DEF WorkerRunsBatchTask, groupVars

(***************************************************************************)
(* AddTask without a group, from any thread that stays where it is.        *)
(***************************************************************************)
LEMMA EnqueueBatchTaskTypes ==
  ASSUME PoolInv, NEW t \in Thread, NEW place, EnqueueBatchTask(t, place)
  PROVE  /\ \E f : Woken(f) /\ pc' = [f EXCEPT ![t] = place]
         /\ queued' \in [Source -> Nat]
         /\ tasks' \in 0 .. MaxTasks
         /\ \A p \in Producer : queued'[p] = queued[p]
  <1>1. \E f : Woken(f) /\ pc' = [f EXCEPT ![t] = place]
    BY WokenPending DEF PoolInv, EnqueueBatchTask
  <1>2. Batch \in Source /\ \A p \in Producer : p \in Source /\ p # Batch
    BY JobPoolAssumption DEF Source
  <1>3. queued' = [queued EXCEPT ![Batch] = @ + 1] /\ queued \in [Source -> Nat]
    BY DEF PoolInv, TypeOK, EnqueueBatchTask
  <1>4. queued' \in [Source -> Nat] /\ \A p \in Producer : queued'[p] = queued[p]
    BY <1>2, <1>3
  <1>5. tasks' \in 0 .. MaxTasks
    BY JobPoolAssumption DEF PoolInv, TypeOK, EnqueueBatchTask
  <1>6. QED
    BY <1>1, <1>4, <1>5

LEMMA WorkerSpawnsStep ==
  ASSUME PoolInv, NEW w \in Worker, WorkerSpawns(w)
  PROVE  PoolInv'
  <1>. USE DEF PoolInv
  <1>1. /\ \E f : Woken(f) /\ pc' = [f EXCEPT ![w] = "batch"]
        /\ queued' \in [Source -> Nat]
        /\ tasks' \in 0 .. MaxTasks
        /\ \A p \in Producer : queued'[p] = queued[p]
    BY EnqueueBatchTaskTypes, ThreadsApart DEF WorkerSpawns
  <1>2. /\ pc' \in [Thread -> Places]
        /\ \A v \in Worker : pc'[v] \in WorkerPlaces
        /\ \A p \in Producer : pc'[p] \in ProducerPlaces
        /\ \A j \in Joiner : pc'[j] \in JoinerPlaces
        /\ pc'[w] = "batch"
        /\ OnlyMoves(w)
    BY <1>1, WorkerMoves DEF WorkerPlaces
  <1>3. TypeOK'
    BY <1>1, <1>2 DEF TypeOK, WorkerSpawns, groupVars, Places
  <1>4. w \in Working /\ w \in Working' /\ JobFits(w)'
    BY <1>2 DEF Working, WorkerSpawns, Jobs, JobFits
  <1>5. QED
    BY <1>1, <1>2, <1>3, <1>4, CountsStay, ThreadsApart DEF WorkerSpawns, groupVars

(***************************************************************************)
(* processNext, on a worker and on the caller.                             *)
(***************************************************************************)
LEMMA CallOfType ==
  ASSUME PoolInv, NEW t \in Worker \union Producer, pc[t] \in {"claim", "run"}
  PROVE  CallOf(t) \in Producer
  BY ThreadsApart DEF PoolInv, Jobs, JobFits, CallOf

LEMMA RunnerMoves ==
  ASSUME TypeOK, NEW t \in Worker \union Producer, NEW place \in {"claim", "run", Stops(t)},
         pc' = [pc EXCEPT ![t] = place]
  PROVE  /\ pc' \in [Thread -> Places]
         /\ \A w \in Worker : pc'[w] \in WorkerPlaces
         /\ \A p \in Producer : pc'[p] \in ProducerPlaces
         /\ \A j \in Joiner : pc'[j] \in JoinerPlaces
         /\ pc'[t] = place
         /\ OnlyMoves(t)
  <1>1. Woken(pc)
    BY WokenNobody
  <1>2. CASE t \in Worker
    <2>1. place \in WorkerPlaces
      BY <1>2 DEF Stops, WorkerPlaces
    <2>2. QED
      BY <1>1, <1>2, <2>1, WorkerMoves
  <1>3. CASE t \in Producer
    <2>1. place \in ProducerPlaces
      BY <1>3, ThreadsApart DEF Stops, ProducerPlaces
    <2>2. QED
      BY <1>1, <1>3, <2>1, ProducerMoves
  <1>4. QED
    BY <1>2, <1>3

LEMMA RunnerCounts ==
  ASSUME PoolInv, NEW t \in Worker \union Producer, pc[t] \in {"claim", "run"},
         NEW place \in {"claim", "run", Stops(t)}, pc'[t] = place, OnlyMoves(t),
         UNCHANGED <<job, queued, processing, remaining, removed, toAdd>>
  PROVE  GroupCounts' /\ ProcessingCounts' /\ Jobs' /\ Progress'
  <1>. USE DEF PoolInv
  <1>1. t \in Thread
    BY ThreadsApart
  <1>2. t \in Worker => (t \in Working' <=> t \in Working) /\ JobFits(t)'
    BY DEF Working, Stops, Jobs, JobFits
  <1>3. t \in Producer => (pc'[t] = "enqueue" <=> pc[t] = "enqueue") /\ CallFits(t)'
    BY ThreadsApart DEF Stops, Progress, CallFits
  <1>4. QED
    BY <1>1, <1>2, <1>3, CountsStay

LEMMA LoopShape ==
  ASSUME TypeOK, NEW p \in Producer
  PROVE  /\ loop[p].count \in Nat \ {0}
         /\ loop[p].grain \in Nat \ {0}
         /\ loop[p].own \in BOOLEAN
  <1>1. loop[p] \in [count : Nat \ {0}, grain : Nat \ {0}, own : BOOLEAN]
    BY JobPoolAssumption DEF TypeOK
  <1>2. QED
    BY <1>1

LEMMA ClaimStep ==
  ASSUME PoolInv, NEW t \in Worker \union Producer, Claim(t)
  PROVE  PoolInv'
  <1>. DEFINE p == CallOf(t)
              size == Min2(loop[p].grain, loop[p].count - next[p])
  <1>1. pc[t] = "claim" /\ p \in Producer
    BY CallOfType DEF Claim
  <1>2. next[p] \in Nat /\ loop[p].grain \in Nat /\ loop[p].count \in Nat
    BY <1>1, LoopShape DEF PoolInv, TypeOK
  <1>3. next' \in [Producer -> Nat]
    BY <1>1, <1>2 DEF Claim, PoolInv, TypeOK
  <1>4. range' \in [Worker \union Producer -> [at : Nat, last : Nat]]
    <2>1. CASE next[p] >= loop[p].count
      BY <2>1 DEF Claim, PoolInv, TypeOK
    <2>2. CASE ~(next[p] >= loop[p].count)
      <3>1. next[p] + size \in Nat
        BY <1>2, <2>2 DEF Min2
      <3>2. range' = [range EXCEPT ![t] = [at |-> next[p], last |-> next[p] + size]]
        BY <2>2 DEF Claim
      <3>3. QED
        BY <1>2, <3>1, <3>2 DEF PoolInv, TypeOK
    <2>3. QED
      BY <2>1, <2>2
  <1>5. \E place \in {"claim", "run", Stops(t)} : pc' = [pc EXCEPT ![t] = place]
    BY DEF Claim
  <1>6. UNCHANGED <<job, loop, toAdd, queued, remaining, failed, caught, removed, processing, calls,
                    ran, threw, completed, batchMutex, closing, stop, tasks>>
    BY DEF Claim, batchVars
  <1>. HIDE DEF p, size
  <1>7. PICK place \in {"claim", "run", Stops(t)} : pc' = [pc EXCEPT ![t] = place]
    BY <1>5
  <1>8. /\ pc' \in [Thread -> Places]
        /\ \A w \in Worker : pc'[w] \in WorkerPlaces
        /\ \A q \in Producer : pc'[q] \in ProducerPlaces
        /\ \A j \in Joiner : pc'[j] \in JoinerPlaces
        /\ pc'[t] = place
        /\ OnlyMoves(t)
    BY <1>7, RunnerMoves DEF PoolInv
  <1>9. TypeOK'
    BY <1>3, <1>4, <1>6, <1>8 DEF PoolInv, TypeOK, Places
  <1>10. GroupCounts' /\ ProcessingCounts' /\ Jobs' /\ Progress'
    BY <1>1, <1>6, <1>8, RunnerCounts
  <1>11. QED
    BY <1>9, <1>10 DEF PoolInv

LEMMA RunStep ==
  ASSUME PoolInv, NEW t \in Worker \union Producer, Run(t)
  PROVE  PoolInv'
  <1>. DEFINE p == CallOf(t)
              rest == [range[t] EXCEPT !.at = @ + 1]
  <1>1. pc[t] = "run" /\ p \in Producer /\ t \in Thread
    BY CallOfType, ThreadsApart DEF Run
  <1>2. range[t] \in [at : Nat, last : Nat] /\ rest \in [at : Nat, last : Nat]
    <2>1. range[t] \in [at : Nat, last : Nat]
      BY DEF PoolInv, TypeOK
    <2>2. QED
      BY <2>1
  <1>3. ran' \in [Producer -> SUBSET Nat]
    BY <1>1, <1>2 DEF Run, PoolInv, TypeOK
  <1>4. range' \in [Worker \union Producer -> [at : Nat, last : Nat]]
    <2>1. range' = [range EXCEPT ![t] = rest] \/ range' = [range EXCEPT ![t] = NoRange]
      BY DEF Run
    <2>2. NoRange \in [at : Nat, last : Nat]
      BY DEF NoRange
    <2>3. QED
      BY <1>2, <2>1, <2>2 DEF PoolInv, TypeOK
  <1>5. caught' \in [Thread -> BOOLEAN]
    BY DEF Run, PoolInv, TypeOK
  <1>6. threw' \in [Source -> BOOLEAN]
    BY DEF Run, PoolInv, TypeOK
  <1>7. \E place \in {"claim", "run", Stops(t)} : pc' = [pc EXCEPT ![t] = place]
    BY DEF Run
  <1>8. UNCHANGED <<job, loop, toAdd, next, queued, remaining, failed, removed, processing, calls,
                    completed, batchMutex, closing, stop, tasks>>
    BY DEF Run, batchVars
  <1>. HIDE DEF p, rest
  <1>9. PICK place \in {"claim", "run", Stops(t)} : pc' = [pc EXCEPT ![t] = place]
    BY <1>7
  <1>10. /\ pc' \in [Thread -> Places]
         /\ \A w \in Worker : pc'[w] \in WorkerPlaces
         /\ \A q \in Producer : pc'[q] \in ProducerPlaces
         /\ \A j \in Joiner : pc'[j] \in JoinerPlaces
         /\ pc'[t] = place
         /\ OnlyMoves(t)
    BY <1>9, RunnerMoves DEF PoolInv
  <1>11. TypeOK'
    BY <1>3, <1>4, <1>5, <1>6, <1>8, <1>10 DEF PoolInv, TypeOK, Places
  <1>12. GroupCounts' /\ ProcessingCounts' /\ Jobs' /\ Progress'
    BY <1>1, <1>8, <1>10, RunnerCounts
  <1>13. QED
    BY <1>11, <1>12 DEF PoolInv

LEMMA SumCovers ==
  ASSUME NEW r \in Nat, NEW q \in Nat, NEW c \in Nat, NEW m \in Nat, NEW e \in {0, 1},
         r = q + c + m + e
  PROVE  r >= c /\ r >= m /\ (r = 0 => q = 0 /\ c = 0)
  <1>1. e = 0 \/ e = 1
    OBVIOUS
  <1>2. QED
    BY <1>1

LEMMA RemainingCovers ==
  ASSUME PoolInv, NEW p \in Producer
  PROVE  /\ remaining[p] \in Nat /\ removed[p] \in Nat /\ queued[p] \in Nat
         /\ remaining[p] >= Cardinality(Busy(p))
         /\ remaining[p] >= removed[p]
         /\ remaining[p] = 0 => queued[p] = 0 /\ Busy(p) = {}
  <1>1. remaining[p] \in Nat /\ removed[p] \in Nat /\ queued[p] \in Nat
    BY DEF PoolInv, TypeOK, Source
  <1>2. PICK c \in Nat : c = Cardinality(Busy(p)) /\ (c = 0 => Busy(p) = {})
    BY CountWorkers, BusyIsWorkers
  <1>3. PICK e \in {0, 1} : remaining[p] = queued[p] + c + removed[p] + e
    <2>1. remaining[p] = queued[p] + c + removed[p] + (IF pc[p] = "enqueue" THEN 1 ELSE 0)
      BY <1>2 DEF PoolInv, GroupCounts
    <2>2. QED
      BY <2>1
  <1>4. remaining[p] >= c /\ remaining[p] >= removed[p] /\ (remaining[p] = 0 => queued[p] = 0 /\ c = 0)
    BY <1>1, <1>3, SumCovers
  <1>5. QED
    BY <1>1, <1>2, <1>4

(***************************************************************************)
(* A worker that reports a task was counted for it.                        *)
(***************************************************************************)
LEMMA ReportStep ==
  ASSUME PoolInv, NEW w \in Worker, Report(w)
  PROVE  PoolInv'
  <1>. DEFINE p == job[w]
  <1>. USE DEF PoolInv
  <1>1. p \in Producer
    BY DEF Report, Jobs, JobFits
  <1>2. w \in Busy(p)
    BY DEF Busy
  <1>3. Cardinality(Busy(p)) > 0 /\ Cardinality(Busy(p)) \in Nat
    BY <1>1, <1>2, CountWorkers, BusyIsWorkers
  <1>4. remaining[p] > 0 /\ remaining[p] \in Nat
    BY <1>1, <1>3, RemainingCovers
  <1>5. /\ remaining' = [remaining EXCEPT ![p] = @ - 1]
        /\ job' = [job EXCEPT ![w] = None]
        /\ UNCHANGED <<range, loop, toAdd, next, queued, removed, processing, calls, ran, threw,
                       completed, batchMutex, closing, stop, tasks>>
    BY DEF Report, batchVars
  <1>6. \E f : Woken(f) /\ pc' = [f EXCEPT ![w] = "finish"]
    <2>1. pc' = [IF remaining[p] = 1 THEN NotifyGroup(p) ELSE pc EXCEPT ![w] = "finish"]
      BY DEF Report
    <2>2. CASE remaining[p] = 1
      BY <1>1, <2>1, <2>2, WokenGroup
    <2>3. CASE remaining[p] # 1
      BY <2>1, <2>3, WokenNobody
    <2>4. QED
      BY <2>2, <2>3
  <1>7. failed' \in [Producer -> BOOLEAN]
    <2>1. failed' = [failed EXCEPT ![p] = @ \/ caught[w]]
      BY DEF Report
    <2>2. (failed[p] \/ caught[w]) \in BOOLEAN
      OBVIOUS
    <2>3. QED
      BY <2>1, <2>2 DEF TypeOK
  <1>8. caught' \in [Thread -> BOOLEAN]
    BY DEF Report, TypeOK
  <1>. HIDE DEF p
  <1>9. /\ pc' \in [Thread -> Places]
        /\ \A v \in Worker : pc'[v] \in WorkerPlaces
        /\ \A q \in Producer : pc'[q] \in ProducerPlaces
        /\ \A j \in Joiner : pc'[j] \in JoinerPlaces
        /\ pc'[w] = "finish"
        /\ OnlyMoves(w)
    BY <1>6, WorkerMoves DEF WorkerPlaces
  <1>10. remaining' \in [Producer -> Nat] /\ job' \in [Worker -> Source \union {None}]
    BY <1>1, <1>4, <1>5 DEF TypeOK
  <1>11. TypeOK'
    BY <1>5, <1>7, <1>8, <1>9, <1>10 DEF TypeOK, Places
  <1>12. GroupCounts'
    <2>1. SUFFICES ASSUME NEW q \in Producer
                   PROVE  remaining'[q] = queued'[q] + Cardinality(Busy(q)') + removed'[q]
                                          + (IF pc'[q] = "enqueue" THEN 1 ELSE 0)
      BY DEF GroupCounts
    <2>2. pc'[q] = "enqueue" <=> pc[q] = "enqueue"
      BY <1>9, OthersStayPut, ThreadsApart
    <2>3. None # q
      BY JobPoolAssumption DEF Source
    <2>4. CASE q = p
      <3>1. Busy(q)' = Busy(q) \ {w}
        BY <1>5, <2>3 DEF Busy, TypeOK
      <3>2. Cardinality(Busy(q)') = Cardinality(Busy(q)) - 1
        BY <1>2, <2>4, <3>1, CountWorkers, BusyIsWorkers
      <3>3. remaining'[q] = remaining[q] - 1
        BY <1>5, <2>4 DEF TypeOK
      <3>4. QED
        BY <1>3, <1>5, <2>2, <2>4, <3>2, <3>3, SMTT(20) DEF GroupCounts, TypeOK, Source
    <2>5. CASE q # p
      <3>1. Busy(q)' = Busy(q)
        BY <1>5, <2>3, <2>5 DEF Busy, TypeOK, p
      <3>2. remaining'[q] = remaining[q]
        BY <1>5, <2>5 DEF TypeOK
      <3>3. QED
        BY <1>5, <2>2, <3>1, <3>2 DEF GroupCounts
    <2>6. QED
      BY <2>4, <2>5
  <1>13. ProcessingCounts'
    <2>1. w \in Working /\ w \in Working'
      BY <1>9 DEF Report, Working
    <2>2. Working' = Working
      BY <1>9, <2>1, OthersStayPut, ThreadsApart, WorkingIsWorkers DEF Working
    <2>3. QED
      BY <1>5, <2>2 DEF ProcessingCounts
  <1>14. Jobs'
    <2>1. JobFits(w)'
      BY <1>5, <1>9 DEF JobFits, TypeOK
    <2>2. \A u \in Worker \ {w} : job'[u] = job[u]
      BY <1>5 DEF TypeOK
    <2>3. QED
      BY <1>9, <2>1, <2>2, JobsAfter, ThreadsApart
  <1>15. Progress'
    <2>1. SUFFICES ASSUME NEW q \in Producer
                   PROVE  CallFits(q)'
      BY DEF Progress
    <2>2. \/ pc'[q] = pc[q]
          \/ pc[q] = "waiting" /\ pc'[q] = "wait"
      BY <1>9, OthersStayPut, ThreadsApart
    <2>3. pc[p] # "idle"
      BY <1>1, <1>4 DEF Progress, CallFits
    <2>4. pc'[q] = "idle" => q # p /\ remaining'[q] = remaining[q]
      BY <1>1, <1>5, <2>2, <2>3 DEF TypeOK
    <2>5. QED
      BY <1>5, <2>2, <2>4 DEF Progress, CallFits
  <1>16. QED
    BY <1>11, <1>12, <1>13, <1>14, <1>15

-----------------------------------------------------------------------------
(***************************************************************************)
(* The steps of producers.                                                 *)
(***************************************************************************)
LEMMA CallStep ==
  ASSUME PoolInv, NEW p \in Producer, Call(p)
  PROVE  PoolInv'
  <1>. USE DEF PoolInv
  <1>1. PICK l \in Loop :
          /\ loop' = [loop EXCEPT ![p] = l]
          /\ toAdd' = [toAdd EXCEPT ![p] =
               IF l.own THEN Min2(1 + ((l.count - 1) \div l.grain), Cardinality(Worker)) ELSE l.count]
    BY DEF Call
  <1>2. l \in [count : Nat \ {0}, grain : Nat \ {0}, own : BOOLEAN]
    BY JobPoolAssumption
  <1>3. l.count \in Nat /\ l.grain \in Nat \ {0} /\ l.count - 1 \in Nat
    BY <1>2
  <1>4. (l.count - 1) \div l.grain \in Nat
    BY <1>3
  <1>5. Cardinality(Worker) \in Nat
    BY CountWorkers
  <1>6. toAdd' \in [Producer -> Nat] /\ loop' \in [Producer -> Loop]
    BY <1>1, <1>3, <1>4, <1>5, SMTT(20) DEF TypeOK, Min2
  <1>7. /\ pc' \in [Thread -> Places]
        /\ \A w \in Worker : pc'[w] \in WorkerPlaces
        /\ \A q \in Producer : pc'[q] \in ProducerPlaces
        /\ \A j \in Joiner : pc'[j] \in JoinerPlaces
        /\ pc'[p] = "add"
        /\ OnlyMoves(p)
    BY WokenNobody, ProducerMoves DEF Call, ProducerPlaces
  <1>8. calls' \in [Producer -> 0 .. MaxCalls]
    <2>1. /\ calls \in [Producer -> 0 .. MaxCalls] /\ calls[p] < MaxCalls
          /\ calls' = [calls EXCEPT ![p] = @ + 1]
      BY DEF Call, TypeOK
    <2>2. MaxCalls \in Nat
      BY JobPoolAssumption
    <2>3. calls[p] \in 0 .. MaxCalls
      BY <2>1
    <2>4. calls[p] + 1 \in 0 .. MaxCalls
      BY <2>1, <2>2, <2>3
    <2>5. QED
      BY <2>1, <2>4
  <1>9. /\ caught' \in [Thread -> BOOLEAN] /\ failed' \in [Producer -> BOOLEAN]
        /\ threw' \in [Source -> BOOLEAN]
    BY DEF Call, TypeOK
  <1>10. next' \in [Producer -> Nat] /\ ran' \in [Producer -> SUBSET Nat]
    BY DEF Call, TypeOK
  <1>11. TypeOK'
    BY <1>6, <1>7, <1>8, <1>9, <1>10 DEF TypeOK, Call, batchVars, Places
  <1>12. (pc'[p] = "enqueue" <=> pc[p] = "enqueue") /\ CallFits(p)'
    BY <1>7 DEF Call, Progress, CallFits
  <1>13. \A q \in Producer \ {p} : toAdd'[q] = toAdd[q]
    BY <1>1 DEF TypeOK
  <1>14. QED
    BY <1>7, <1>11, <1>12, <1>13, CountsStay, ThreadsApart DEF Call

LEMMA AddGroupTaskStep ==
  ASSUME PoolInv, NEW p \in Producer, AddGroupTask(p)
  PROVE  PoolInv'
  <1>. USE DEF PoolInv
  <1>1. /\ pc' \in [Thread -> Places]
        /\ \A w \in Worker : pc'[w] \in WorkerPlaces
        /\ \A q \in Producer : pc'[q] \in ProducerPlaces
        /\ \A j \in Joiner : pc'[j] \in JoinerPlaces
        /\ pc'[p] = "enqueue"
        /\ OnlyMoves(p)
    BY WokenNobody, ProducerMoves DEF AddGroupTask, ProducerPlaces
  <1>2. TypeOK'
    BY <1>1, SMTT(20) DEF TypeOK, AddGroupTask, batchVars, Places
  <1>3. GroupCounts'
    <2>1. SUFFICES ASSUME NEW q \in Producer
                   PROVE  remaining'[q] = queued'[q] + Cardinality(Busy(q)') + removed'[q]
                                          + (IF pc'[q] = "enqueue" THEN 1 ELSE 0)
      BY DEF GroupCounts
    <2>2. Busy(q)' = Busy(q) /\ Cardinality(Busy(q)) \in Nat
      BY CountWorkers, BusyIsWorkers DEF Busy, AddGroupTask
    <2>3. CASE q = p
      <3>1. remaining'[q] = remaining[q] + 1
        BY <2>3 DEF AddGroupTask, TypeOK
      <3>2. remaining[q] = queued[q] + Cardinality(Busy(q)) + removed[q]
        BY <2>2, <2>3, RemainingCovers DEF GroupCounts, AddGroupTask
      <3>3. QED
        BY <1>1, <2>2, <2>3, <3>1, <3>2, RemainingCovers DEF AddGroupTask
    <2>4. CASE q # p
      <3>1. pc'[q] = "enqueue" <=> pc[q] = "enqueue"
        BY <1>1, <2>4, OthersStayPut, ThreadsApart
      <3>2. remaining'[q] = remaining[q]
        BY <2>4 DEF AddGroupTask, TypeOK
      <3>3. QED
        BY <2>2, <3>1, <3>2 DEF GroupCounts, AddGroupTask
    <2>5. QED
      BY <2>3, <2>4
  <1>4. ProcessingCounts'
    <2>1. Working' = Working
      BY <1>1, OthersStayPut, ThreadsApart, WorkingIsWorkers DEF Working
    <2>2. QED
      BY <2>1 DEF ProcessingCounts, AddGroupTask
  <1>5. Jobs'
    BY <1>1, JobsAfter, ThreadsApart DEF AddGroupTask
  <1>6. Progress'
    <2>1. CallFits(p)'
      BY <1>1 DEF CallFits, Progress, AddGroupTask
    <2>2. \A q \in Producer \ {p} : remaining'[q] = remaining[q]
      BY DEF AddGroupTask, TypeOK
    <2>3. QED
      BY <1>1, <2>1, <2>2, ProgressAfter, ThreadsApart DEF AddGroupTask
  <1>7. QED
    BY <1>2, <1>3, <1>4, <1>5, <1>6

LEMMA EnqueueTaskStep ==
  ASSUME PoolInv, NEW p \in Producer, EnqueueTask(p)
  PROVE  PoolInv'
  <1>. USE DEF PoolInv
  <1>1. pc[p] = "enqueue" /\ toAdd[p] > 0 /\ toAdd[p] \in Nat
    BY DEF EnqueueTask, Progress, CallFits, TypeOK
  <1>2. \E f : Woken(f) /\ pc' = [f EXCEPT ![p] = "add"]
    BY WokenPending DEF EnqueueTask
  <1>3. /\ pc' \in [Thread -> Places]
        /\ \A w \in Worker : pc'[w] \in WorkerPlaces
        /\ \A q \in Producer : pc'[q] \in ProducerPlaces
        /\ \A j \in Joiner : pc'[j] \in JoinerPlaces
        /\ pc'[p] = "add"
        /\ OnlyMoves(p)
    BY <1>2, ProducerMoves DEF ProducerPlaces
  <1>4. queued' \in [Source -> Nat] /\ toAdd' \in [Producer -> Nat]
    <2>1. toAdd[p] - 1 \in Nat /\ queued[p] + 1 \in Nat
      BY <1>1, RemainingCovers
    <2>2. QED
      BY <2>1 DEF TypeOK, EnqueueTask
  <1>5. TypeOK'
    BY <1>3, <1>4 DEF TypeOK, EnqueueTask, batchVars, Places
  <1>6. GroupCounts'
    <2>1. SUFFICES ASSUME NEW q \in Producer
                   PROVE  remaining'[q] = queued'[q] + Cardinality(Busy(q)') + removed'[q]
                                          + (IF pc'[q] = "enqueue" THEN 1 ELSE 0)
      BY DEF GroupCounts
    <2>2. Busy(q)' = Busy(q) /\ Cardinality(Busy(q)) \in Nat
      BY CountWorkers, BusyIsWorkers DEF Busy, EnqueueTask
    <2>3. CASE q = p
      <3>1. queued'[q] = queued[q] + 1
        BY <2>3 DEF EnqueueTask, TypeOK, Source
      <3>2. remaining[q] = queued[q] + Cardinality(Busy(q)) + removed[q] + 1
        BY <1>1, <2>3 DEF GroupCounts
      <3>3. QED
        BY <1>3, <2>2, <2>3, <3>1, <3>2, RemainingCovers DEF EnqueueTask
    <2>4. CASE q # p
      <3>1. pc'[q] = "enqueue" <=> pc[q] = "enqueue"
        BY <1>3, <2>4, OthersStayPut, ThreadsApart
      <3>2. queued'[q] = queued[q]
        BY <2>4 DEF EnqueueTask, TypeOK, Source
      <3>3. QED
        BY <2>2, <3>1, <3>2 DEF GroupCounts, EnqueueTask
    <2>5. QED
      BY <2>3, <2>4
  <1>7. ProcessingCounts'
    <2>1. Working' = Working
      BY <1>3, OthersStayPut, ThreadsApart, WorkingIsWorkers DEF Working
    <2>2. QED
      BY <2>1 DEF ProcessingCounts, EnqueueTask
  <1>8. Jobs'
    BY <1>3, JobsAfter, ThreadsApart DEF EnqueueTask
  <1>9. Progress'
    <2>1. CallFits(p)'
      BY <1>1, <1>3 DEF CallFits, Progress, EnqueueTask
    <2>2. \A q \in Producer \ {p} : toAdd'[q] = toAdd[q]
      BY DEF EnqueueTask, TypeOK
    <2>3. QED
      BY <1>3, <2>1, <2>2, ProgressAfter, ThreadsApart DEF EnqueueTask
  <1>10. QED
    BY <1>5, <1>6, <1>7, <1>8, <1>9

LEMMA AllAddedStep ==
  ASSUME PoolInv, NEW p \in Producer, AllAdded(p)
  PROVE  PoolInv'
  <1>. USE DEF PoolInv
  <1>1. PICK place \in {"claim", "wait"} : pc' = [pc EXCEPT ![p] = place]
    BY DEF AllAdded
  <1>2. /\ pc' \in [Thread -> Places]
        /\ \A w \in Worker : pc'[w] \in WorkerPlaces
        /\ \A q \in Producer : pc'[q] \in ProducerPlaces
        /\ \A j \in Joiner : pc'[j] \in JoinerPlaces
        /\ pc'[p] = place
        /\ OnlyMoves(p)
    BY <1>1, WokenNobody, ProducerMoves DEF ProducerPlaces
  <1>3. TypeOK'
    BY <1>2 DEF TypeOK, AllAdded, groupVars, batchVars, Places
  <1>4. (pc'[p] = "enqueue" <=> pc[p] = "enqueue") /\ CallFits(p)'
    BY <1>2 DEF AllAdded, groupVars, Progress, CallFits
  <1>5. QED
    BY <1>2, <1>3, <1>4, CountsStay, ThreadsApart DEF AllAdded, groupVars

(***************************************************************************)
(* A call returns only when its group counts nothing.                      *)
(***************************************************************************)
LEMMA WaitStep ==
  ASSUME PoolInv, NEW p \in Producer, Wait(p)
  PROVE  PoolInv'
  <1>. USE DEF PoolInv
  <1>1. PICK place \in {"idle", "waiting"} : /\ pc' = [pc EXCEPT ![p] = place]
                                             /\ place = "idle" => remaining[p] = 0
    BY DEF Wait
  <1>2. /\ pc' \in [Thread -> Places]
        /\ \A w \in Worker : pc'[w] \in WorkerPlaces
        /\ \A q \in Producer : pc'[q] \in ProducerPlaces
        /\ \A j \in Joiner : pc'[j] \in JoinerPlaces
        /\ pc'[p] = place
        /\ OnlyMoves(p)
    BY <1>1, WokenNobody, ProducerMoves DEF ProducerPlaces
  <1>3. TypeOK'
    BY <1>2 DEF TypeOK, Wait, groupVars, batchVars, Places
  <1>4. (pc'[p] = "enqueue" <=> pc[p] = "enqueue") /\ CallFits(p)'
    BY <1>1, <1>2 DEF Wait, groupVars, Progress, CallFits
  <1>5. QED
    BY <1>2, <1>3, <1>4, CountsStay, ThreadsApart DEF Wait, groupVars

LEMMA RetireStep ==
  ASSUME PoolInv, NEW p \in Producer, Retire(p)
  PROVE  PoolInv'
  <1>. USE DEF PoolInv
  <1>1. pc[p] = "retire" /\ removed[p] = 0
    BY DEF Retire, Progress, CallFits
  <1>2. CASE next[p] >= loop[p].count /\ queued[p] > 0
    <2>1. /\ removed' = [removed EXCEPT ![p] = queued[p]]
          /\ queued' = [queued EXCEPT ![p] = 0]
          /\ pc' = [NotifyComplete EXCEPT ![p] = "retired"]
      BY <1>2 DEF Retire
    <2>2. /\ pc' \in [Thread -> Places]
          /\ \A w \in Worker : pc'[w] \in WorkerPlaces
          /\ \A q \in Producer : pc'[q] \in ProducerPlaces
          /\ \A j \in Joiner : pc'[j] \in JoinerPlaces
          /\ pc'[p] = "retired"
          /\ OnlyMoves(p)
      BY <2>1, WokenComplete, ProducerMoves DEF ProducerPlaces
    <2>3. removed' \in [Producer -> Nat] /\ queued' \in [Source -> Nat]
      BY <2>1, RemainingCovers DEF TypeOK
    <2>4. TypeOK'
      BY <2>2, <2>3 DEF TypeOK, Retire, batchVars, Places
    <2>5. GroupCounts'
      <3>1. SUFFICES ASSUME NEW q \in Producer
                     PROVE  remaining'[q] = queued'[q] + Cardinality(Busy(q)') + removed'[q]
                                            + (IF pc'[q] = "enqueue" THEN 1 ELSE 0)
        BY DEF GroupCounts
      <3>2. Busy(q)' = Busy(q) /\ Cardinality(Busy(q)) \in Nat
        BY CountWorkers, BusyIsWorkers DEF Busy, Retire
      <3>3. CASE q = p
        <4>1. queued'[q] = 0 /\ removed'[q] = queued[q]
          BY <2>1, <3>3 DEF TypeOK, Source
        <4>2. remaining[q] = queued[q] + Cardinality(Busy(q)) + 0
          BY <1>1, <3>2, <3>3, RemainingCovers DEF GroupCounts
        <4>3. QED
          BY <2>2, <3>2, <3>3, <4>1, <4>2, RemainingCovers DEF Retire
      <3>4. CASE q # p
        <4>1. pc'[q] = "enqueue" <=> pc[q] = "enqueue"
          BY <2>2, <3>4, OthersStayPut, ThreadsApart
        <4>2. queued'[q] = queued[q] /\ removed'[q] = removed[q]
          BY <2>1, <3>4 DEF TypeOK, Source
        <4>3. QED
          BY <3>2, <4>1, <4>2 DEF GroupCounts, Retire
      <3>5. QED
        BY <3>3, <3>4
    <2>6. ProcessingCounts'
      <3>1. Working' = Working
        BY <2>2, OthersStayPut, ThreadsApart, WorkingIsWorkers DEF Working
      <3>2. QED
        BY <3>1 DEF ProcessingCounts, Retire
    <2>7. Jobs'
      BY <2>2, JobsAfter, ThreadsApart DEF Retire
    <2>8. Progress'
      <3>1. CallFits(p)'
        BY <2>2 DEF CallFits
      <3>2. \A q \in Producer \ {p} : removed'[q] = removed[q]
        BY <2>1 DEF TypeOK
      <3>3. QED
        BY <2>2, <3>1, <3>2, ProgressAfter, ThreadsApart DEF Retire
    <2>9. QED
      BY <2>4, <2>5, <2>6, <2>7, <2>8
  <1>3. CASE ~(next[p] >= loop[p].count /\ queued[p] > 0)
    <2>1. pc' = [pc EXCEPT ![p] = "wait"] /\ UNCHANGED <<removed, queued>>
      BY <1>3 DEF Retire
    <2>2. /\ pc' \in [Thread -> Places]
          /\ \A w \in Worker : pc'[w] \in WorkerPlaces
          /\ \A q \in Producer : pc'[q] \in ProducerPlaces
          /\ \A j \in Joiner : pc'[j] \in JoinerPlaces
          /\ pc'[p] = "wait"
          /\ OnlyMoves(p)
      BY <2>1, WokenNobody, ProducerMoves DEF ProducerPlaces
    <2>3. TypeOK'
      BY <2>1, <2>2 DEF TypeOK, Retire, batchVars, Places
    <2>4. (pc'[p] = "enqueue" <=> pc[p] = "enqueue") /\ CallFits(p)'
      BY <1>1, <2>1, <2>2 DEF CallFits
    <2>5. QED
      BY <2>1, <2>2, <2>3, <2>4, CountsStay, ThreadsApart DEF Retire
  <1>4. QED
    BY <1>2, <1>3

LEMMA CountRetiredStep ==
  ASSUME PoolInv, NEW p \in Producer, CountRetired(p)
  PROVE  PoolInv'
  <1>. USE DEF PoolInv
  <1>1. /\ pc' \in [Thread -> Places]
        /\ \A w \in Worker : pc'[w] \in WorkerPlaces
        /\ \A q \in Producer : pc'[q] \in ProducerPlaces
        /\ \A j \in Joiner : pc'[j] \in JoinerPlaces
        /\ pc'[p] = "wait"
        /\ OnlyMoves(p)
    BY WokenNobody, ProducerMoves DEF CountRetired, ProducerPlaces
  <1>2. remaining' \in [Producer -> Nat] /\ removed' \in [Producer -> Nat]
    <2>1. remaining[p] - removed[p] \in Nat
      BY RemainingCovers
    <2>2. QED
      BY <2>1 DEF TypeOK, CountRetired
  <1>3. TypeOK'
    BY <1>1, <1>2 DEF TypeOK, CountRetired, batchVars, Places
  <1>4. GroupCounts'
    <2>1. SUFFICES ASSUME NEW q \in Producer
                   PROVE  remaining'[q] = queued'[q] + Cardinality(Busy(q)') + removed'[q]
                                          + (IF pc'[q] = "enqueue" THEN 1 ELSE 0)
      BY DEF GroupCounts
    <2>2. Busy(q)' = Busy(q) /\ Cardinality(Busy(q)) \in Nat
      BY CountWorkers, BusyIsWorkers DEF Busy, CountRetired
    <2>3. CASE q = p
      <3>1. remaining'[q] = remaining[q] - removed[q] /\ removed'[q] = 0
        BY <2>3 DEF CountRetired, TypeOK
      <3>2. remaining[q] = queued[q] + Cardinality(Busy(q)) + removed[q]
        BY <2>2, <2>3, RemainingCovers DEF GroupCounts, CountRetired
      <3>3. QED
        BY <1>1, <2>2, <2>3, <3>1, <3>2, RemainingCovers DEF CountRetired
    <2>4. CASE q # p
      <3>1. pc'[q] = "enqueue" <=> pc[q] = "enqueue"
        BY <1>1, <2>4, OthersStayPut, ThreadsApart
      <3>2. remaining'[q] = remaining[q] /\ removed'[q] = removed[q]
        BY <2>4 DEF CountRetired, TypeOK
      <3>3. QED
        BY <2>2, <3>1, <3>2 DEF GroupCounts, CountRetired
    <2>5. QED
      BY <2>3, <2>4
  <1>5. ProcessingCounts'
    <2>1. Working' = Working
      BY <1>1, OthersStayPut, ThreadsApart, WorkingIsWorkers DEF Working
    <2>2. QED
      BY <2>1 DEF ProcessingCounts, CountRetired
  <1>6. Jobs'
    BY <1>1, JobsAfter, ThreadsApart DEF CountRetired
  <1>7. Progress'
    <2>1. CallFits(p)'
      BY <1>1 DEF CallFits, CountRetired, TypeOK
    <2>2. \A q \in Producer \ {p} : remaining'[q] = remaining[q] /\ removed'[q] = removed[q]
      BY DEF CountRetired, TypeOK
    <2>3. QED
      BY <1>1, <2>1, <2>2, ProgressAfter, ThreadsApart DEF CountRetired
  <1>8. QED
    BY <1>3, <1>4, <1>5, <1>6, <1>7

-----------------------------------------------------------------------------
(***************************************************************************)
(* The steps of joiners and of the destructor leave producers and workers  *)
(* alone.                                                                  *)
(***************************************************************************)
LEMMA JoinerStep ==
  ASSUME PoolInv, NEW j \in Joiner, NEW place \in JoinerPlaces, NEW f, Woken(f),
         pc' = [f EXCEPT ![j] = place],
         UNCHANGED <<job, range, processing, loop, toAdd, next, remaining, failed, removed, calls, ran>>,
         queued' \in [Source -> Nat],
         \A p \in Producer : queued'[p] = queued[p],
         caught' \in [Thread -> BOOLEAN], threw' \in [Source -> BOOLEAN],
         completed' \in Seq(BOOLEAN), batchMutex' \in Joiner \union {None},
         closing' \in BOOLEAN, stop' \in BOOLEAN, tasks' \in 0 .. MaxTasks
  PROVE  PoolInv'
  <1>1. /\ pc' \in [Thread -> Places]
        /\ \A w \in Worker : pc'[w] \in WorkerPlaces
        /\ \A p \in Producer : pc'[p] \in ProducerPlaces
        /\ \A i \in Joiner : pc'[i] \in JoinerPlaces
        /\ pc'[j] = place
        /\ OnlyMoves(j)
    BY JoinerMoves DEF PoolInv
  <1>2. TypeOK'
    BY <1>1 DEF PoolInv, TypeOK, Places
  <1>3. QED
    BY <1>1, <1>2, CountsStay, ThreadsApart DEF PoolInv

LEMMA Unmoved ==
  ASSUME PoolInv
  PROVE  /\ queued \in [Source -> Nat] /\ caught \in [Thread -> BOOLEAN] /\ threw \in [Source -> BOOLEAN]
         /\ completed \in Seq(BOOLEAN) /\ batchMutex \in Joiner \union {None}
         /\ closing \in BOOLEAN /\ stop \in BOOLEAN /\ tasks \in 0 .. MaxTasks
         /\ Woken(pc)
  BY WokenNobody DEF PoolInv, TypeOK

LEMMA DispatchTypes ==
  ASSUME PoolInv, NEW j \in Joiner, Dispatch(j)
  PROVE  /\ \E place \in JoinerPlaces : pc' = [pc EXCEPT ![j] = place]
         /\ caught' \in [Thread -> BOOLEAN]
         /\ completed' \in Seq(BOOLEAN)
  <1>1. CASE /\ caught' = [caught EXCEPT ![j] = @ \/ completed # <<>>]
             /\ completed' = <<>>
             /\ pc' = [pc EXCEPT ![j] = "reportFn"]
    <2>1. (caught[j] \/ completed # <<>>) \in BOOLEAN
      OBVIOUS
    <2>2. caught' \in [Thread -> BOOLEAN]
      BY <1>1, <2>1, Unmoved
    <2>3. QED
      BY <1>1, <2>2 DEF JoinerPlaces
  <1>2. ASSUME NEW i \in DOMAIN completed,
               caught' = [caught EXCEPT ![j] = @ \/ i > 1],
               completed' = SubSeq(completed, i + 1, Len(completed)),
               pc' = [pc EXCEPT ![j] = "completion"]
        PROVE  /\ \E place \in JoinerPlaces : pc' = [pc EXCEPT ![j] = place]
               /\ caught' \in [Thread -> BOOLEAN]
               /\ completed' \in Seq(BOOLEAN)
    <2>1. (caught[j] \/ i > 1) \in BOOLEAN
      OBVIOUS
    <2>2. caught' \in [Thread -> BOOLEAN]
      BY <1>2, <2>1, Unmoved
    <2>3. completed' \in Seq(BOOLEAN)
      <3>1. Len(completed) \in Nat /\ i \in 1 .. Len(completed) /\ i + 1 \in Int
        BY Unmoved
      <3>2. \A k \in (i + 1) .. Len(completed) : completed[k] \in BOOLEAN
        BY <3>1, Unmoved
      <3>3. QED
        BY <1>2, <3>1, <3>2, SubSeqProperties
    <2>4. QED
      BY <1>2, <2>2, <2>3 DEF JoinerPlaces
  <1>3. QED
    BY <1>1, <1>2 DEF Dispatch

LEMMA AwaitTypes ==
  ASSUME PoolInv, NEW j \in Joiner, AwaitCompleted(j)
  PROVE  /\ \E place \in JoinerPlaces : pc' = [pc EXCEPT ![j] = place]
         /\ caught' \in [Thread -> BOOLEAN]
         /\ completed' \in Seq(BOOLEAN)
  <1>1. CASE Drained \/ completed # <<>>
    BY <1>1, DispatchTypes DEF AwaitCompleted
  <1>2. CASE ~(Drained \/ completed # <<>>)
    <2>1. pc' = [pc EXCEPT ![j] = "asleep"] /\ UNCHANGED <<caught, completed>>
      BY <1>2 DEF AwaitCompleted
    <2>2. QED
      BY <2>1, Unmoved DEF JoinerPlaces
  <1>3. QED
    BY <1>1, <1>2

LEMMA AddTaskStep ==
  ASSUME PoolInv, NEW b \in Batcher, AddTask(b)
  PROVE  PoolInv'
  <1>1. b \in Joiner /\ b \in Thread /\ "idle" \in JoinerPlaces
    BY DEF Joiner, Thread, JoinerPlaces
  <1>2. /\ \E f : Woken(f) /\ pc' = [f EXCEPT ![b] = "idle"]
        /\ queued' \in [Source -> Nat]
        /\ tasks' \in 0 .. MaxTasks
        /\ \A p \in Producer : queued'[p] = queued[p]
    BY <1>1, EnqueueBatchTaskTypes DEF AddTask
  <1>3. QED
    BY <1>1, <1>2, Unmoved, JoinerStep DEF AddTask, groupVars

LEMMA CompletionSpawnsStep ==
  ASSUME PoolInv, NEW j \in Joiner, CompletionSpawns(j)
  PROVE  PoolInv'
  <1>1. j \in Thread /\ "completion" \in JoinerPlaces
    BY DEF Thread, JoinerPlaces
  <1>2. /\ \E f : Woken(f) /\ pc' = [f EXCEPT ![j] = "completion"]
        /\ queued' \in [Source -> Nat]
        /\ tasks' \in 0 .. MaxTasks
        /\ \A p \in Producer : queued'[p] = queued[p]
    BY <1>1, EnqueueBatchTaskTypes DEF CompletionSpawns
  <1>3. QED
    BY <1>1, <1>2, Unmoved, JoinerStep DEF CompletionSpawns, groupVars

LEMMA CompletionReturnsStep ==
  ASSUME PoolInv, NEW j \in Joiner, CompletionReturns(j)
  PROVE  PoolInv'
  <1>1. PICK throws \in BOOLEAN : /\ caught' = [caught EXCEPT ![j] = @ \/ throws]
                                  /\ threw' = [threw EXCEPT ![Batch] = @ \/ throws]
    BY DEF CompletionReturns
  <1>2. (caught[j] \/ throws) \in BOOLEAN /\ (threw[Batch] \/ throws) \in BOOLEAN
    OBVIOUS
  <1>3. caught' \in [Thread -> BOOLEAN] /\ threw' \in [Source -> BOOLEAN]
    BY <1>1, <1>2, Unmoved
  <1>4. pc' = [pc EXCEPT ![j] = "dispatch"] /\ "dispatch" \in JoinerPlaces
    BY DEF CompletionReturns, JoinerPlaces
  <1>5. QED
    BY <1>3, <1>4, Unmoved, JoinerStep DEF CompletionReturns, groupVars, batchVars

LEMMA JoinSteps ==
  ASSUME PoolInv, NEW j \in Joiner, JoinWaits(j) \/ JoinDispatches(j) \/ JoinEnds(j)
  PROVE  PoolInv'
  <1>1. CASE JoinWaits(j)
    <2>1. PICK place \in JoinerPlaces : pc' = [pc EXCEPT ![j] = place]
      BY <1>1, AwaitTypes DEF JoinWaits
    <2>2. caught' \in [Thread -> BOOLEAN] /\ completed' \in Seq(BOOLEAN)
      BY <1>1, AwaitTypes DEF JoinWaits
    <2>3. QED
      BY <1>1, <2>1, <2>2, Unmoved, JoinerStep DEF JoinWaits, groupVars
  <1>2. CASE JoinDispatches(j)
    <2>1. PICK place \in JoinerPlaces : pc' = [pc EXCEPT ![j] = place]
      BY <1>2, DispatchTypes DEF JoinDispatches
    <2>2. caught' \in [Thread -> BOOLEAN] /\ completed' \in Seq(BOOLEAN)
      BY <1>2, DispatchTypes DEF JoinDispatches
    <2>3. QED
      BY <1>2, <2>1, <2>2, Unmoved, JoinerStep DEF JoinDispatches, groupVars
  <1>3. CASE JoinEnds(j)
    <2>1. CASE Drained /\ completed = <<>>
      <3>1. /\ pc' = [pc EXCEPT ![j] = IF j = Owner THEN "stop" ELSE "idle"]
            /\ batchMutex' = None
            /\ threw' = [threw EXCEPT ![Batch] = FALSE]
            /\ UNCHANGED <<caught, completed>>
        BY <1>3, <2>1 DEF JoinEnds
      <3>2. (IF j = Owner THEN "stop" ELSE "idle") \in JoinerPlaces
        BY DEF JoinerPlaces
      <3>3. threw' \in [Source -> BOOLEAN]
        BY <3>1, Unmoved
      <3>4. QED
        BY <1>3, <3>1, <3>2, <3>3, Unmoved, JoinerStep DEF JoinEnds, groupVars
    <2>2. CASE ~(Drained /\ completed = <<>>)
      <3>1. AwaitCompleted(j) /\ UNCHANGED <<batchMutex, threw>>
        BY <1>3, <2>2 DEF JoinEnds
      <3>2. PICK place \in JoinerPlaces : pc' = [pc EXCEPT ![j] = place]
        BY <3>1, AwaitTypes
      <3>3. caught' \in [Thread -> BOOLEAN] /\ completed' \in Seq(BOOLEAN)
        BY <3>1, AwaitTypes
      <3>4. QED
        BY <1>3, <3>1, <3>2, <3>3, Unmoved, JoinerStep DEF JoinEnds, groupVars
    <2>3. QED
      BY <2>1, <2>2
  <1>4. QED
    BY <1>1, <1>2, <1>3

LEMMA JoinStarts ==
  ASSUME PoolInv, NEW b \in Batcher, Join(b)
  PROVE  PoolInv'
  <1>1. b \in Joiner /\ "join" \in JoinerPlaces /\ pc' = [pc EXCEPT ![b] = "join"]
    BY DEF Join, Joiner, JoinerPlaces
  <1>2. caught' \in [Thread -> BOOLEAN] /\ batchMutex' \in Joiner \union {None}
    BY <1>1, Unmoved DEF Join
  <1>3. QED
    BY <1>1, <1>2, Unmoved, JoinerStep DEF Join, groupVars

LEMMA DestructorSteps ==
  ASSUME PoolInv, Destroy \/ StopWorkers \/ Reaped
  PROVE  PoolInv'
  <1>1. Owner \in Joiner /\ {"join", "reap", "done"} \subseteq JoinerPlaces
    BY DEF Joiner, JoinerPlaces
  <1>2. CASE Destroy
    <2>1. batchMutex' \in Joiner \union {None} /\ closing' \in BOOLEAN /\ stop' \in BOOLEAN
      BY <1>1, <1>2, Unmoved DEF Destroy
    <2>2. completed' \in Seq(BOOLEAN) /\ caught' \in [Thread -> BOOLEAN] /\ tasks' \in 0 .. MaxTasks
      BY <1>2, Unmoved DEF Destroy
    <2>3. pc' = [pc EXCEPT ![Owner] = "join"] /\ "join" \in JoinerPlaces
      BY <1>1, <1>2 DEF Destroy
    <2>4. QED
      BY <1>1, <1>2, <2>1, <2>2, <2>3, Unmoved, JoinerStep DEF Destroy, groupVars
  <1>3. CASE StopWorkers
    <2>. DEFINE f == [t \in Thread |-> IF pc[t] = "parked" THEN "look" ELSE pc[t]]
    <2>1. Woken(f)
      <3>1. \A t \in Thread : pc[t] = "parked" => t \in Worker
        BY DEF PoolInv, TypeOK, Thread, ProducerPlaces, JoinerPlaces
      <3>2. QED
        BY <3>1 DEF PoolInv, TypeOK, Woken, Places, WorkerPlaces
    <2>2. pc' = [f EXCEPT ![Owner] = "reap"]
      <3>1. pc' = [t \in Thread |-> IF t = Owner THEN "reap" ELSE IF pc[t] = "parked" THEN "look" ELSE pc[t]]
        BY <1>3 DEF StopWorkers
      <3>2. f \in [Thread -> {f[t] : t \in Thread}] /\ Owner \in Thread
        BY <1>1 DEF Thread
      <3>3. [f EXCEPT ![Owner] = "reap"] = [t \in Thread |-> IF t = Owner THEN "reap" ELSE f[t]]
        OBVIOUS
      <3>4. QED
        BY <3>1, <3>3
    <2>3. stop' \in BOOLEAN
      BY <1>3 DEF StopWorkers
    <2>4. QED
      BY <1>1, <1>3, <2>1, <2>2, <2>3, Unmoved, JoinerStep DEF StopWorkers, groupVars
  <1>4. CASE Reaped
    BY <1>1, <1>4, Unmoved, JoinerStep DEF Reaped, groupVars, batchVars
  <1>5. QED
    BY <1>2, <1>3, <1>4

-----------------------------------------------------------------------------
LEMMA PoolInvStart ==
  ASSUME Init
  PROVE  PoolInv
  <1>1. \A p \in Producer : Busy(p) = {}
    BY JobPoolAssumption DEF Init, Busy, Source
  <1>2. Cardinality({}) = 0
    BY FS_EmptySet
  <1>3. GroupCounts
    <2>1. SUFFICES ASSUME NEW p \in Producer
                   PROVE  remaining[p] = queued[p] + Cardinality(Busy(p)) + removed[p]
                                         + (IF pc[p] = "enqueue" THEN 1 ELSE 0)
      BY DEF GroupCounts
    <2>2. remaining[p] = 0 /\ queued[p] = 0 /\ removed[p] = 0 /\ pc[p] # "enqueue"
      BY ThreadsApart DEF Init, Source, Thread
    <2>3. Cardinality(Busy(p)) = 0
      BY <1>1, <1>2
    <2>4. QED
      BY <2>2, <2>3
  <1>4. ProcessingCounts
    <2>1. Working = {}
      BY ThreadsApart DEF Init, Working
    <2>2. QED
      BY <1>2, <2>1 DEF Init, ProcessingCounts
  <1>5. Jobs /\ Progress
    BY ThreadsApart DEF Init, Jobs, JobFits, Progress, CallFits
  <1>6. TypeOK
    <2>1. /\ pc \in [Thread -> WorkerPlaces \union ProducerPlaces \union JoinerPlaces]
          /\ \A w \in Worker : pc[w] \in WorkerPlaces
          /\ \A p \in Producer : pc[p] \in ProducerPlaces
          /\ \A j \in Joiner : pc[j] \in JoinerPlaces
      BY ThreadsApart DEF Init, WorkerPlaces, ProducerPlaces, JoinerPlaces
    <2>2. range \in [Worker \union Producer -> [at : Nat, last : Nat]]
      BY DEF Init, NoRange
    <2>3. loop \in [Producer -> Loop]
      BY JobPoolAssumption DEF Init
    <2>4. job \in [Worker -> Source \union {None}] /\ batchMutex \in Joiner \union {None}
      BY DEF Init
    <2>5. /\ toAdd \in [Producer -> Nat] /\ next \in [Producer -> Nat]
          /\ queued \in [Source -> Nat] /\ remaining \in [Producer -> Nat]
          /\ removed \in [Producer -> Nat] /\ processing \in Nat
      BY DEF Init
    <2>6. /\ failed \in [Producer -> BOOLEAN] /\ caught \in [Thread -> BOOLEAN]
          /\ closing \in BOOLEAN /\ stop \in BOOLEAN /\ threw \in [Source -> BOOLEAN]
          /\ completed \in Seq(BOOLEAN)
      <3>1. completed \in Seq(BOOLEAN)
        BY DEF Init
      <3>2. FALSE \in BOOLEAN
        OBVIOUS
      <3>3. QED
        BY <3>1, <3>2, Zenon DEF Init
    <2>7. 0 \in 0 .. MaxCalls /\ 0 \in 0 .. MaxTasks
      BY JobPoolAssumption
    <2>8. /\ calls \in [Producer -> 0 .. MaxCalls] /\ tasks \in 0 .. MaxTasks
          /\ ran \in [Producer -> SUBSET Nat]
      BY <2>7 DEF Init
    <2>9. QED
      BY <2>1, <2>2, <2>3, <2>4, <2>5, <2>6, <2>8 DEF TypeOK
  <1>7. QED
    BY <1>3, <1>4, <1>5, <1>6 DEF PoolInv

LEMMA PoolInvStep ==
  ASSUME PoolInv, [Next]_vars
  PROVE  PoolInv'
  <1>1. ASSUME NEW w \in Worker, WorkerStep(w)
        PROVE  PoolInv'
    BY <1>1, LookStep, BatchWorkStep, WorkerSpawnsStep, ClaimStep, RunStep, ReportStep, FinishStep
    DEF WorkerStep
  <1>2. ASSUME NEW p \in Producer, Call(p) \/ ProducerStep(p)
        PROVE  PoolInv'
    BY <1>2, CallStep, AddGroupTaskStep, EnqueueTaskStep, AllAddedStep, ClaimStep, RunStep,
       RetireStep, CountRetiredStep, WaitStep
    DEF ProducerStep
  <1>3. ASSUME NEW b \in Batcher, AddTask(b) \/ Join(b)
        PROVE  PoolInv'
    BY <1>3, AddTaskStep, JoinStarts
  <1>4. ASSUME NEW j \in Joiner, JoinStep(j)
        PROVE  PoolInv'
    BY <1>4, JoinSteps, CompletionReturnsStep, CompletionSpawnsStep DEF JoinStep
  <1>5. CASE UNCHANGED vars
    BY <1>5 DEF vars, PoolInv, TypeOK, GroupCounts, Busy, ProcessingCounts, Working, Jobs, JobFits,
                Progress, CallFits
  <1>6. QED
    BY <1>1, <1>2, <1>3, <1>4, <1>5, DestructorSteps DEF Next, Gone

(***************************************************************************)
(* The pool is well formed and its counters count what they stand for      *)
(* (JobPool.cpp), whatever the number of threads, loops and tasks.         *)
(***************************************************************************)
THEOREM CountersAreRight == Spec => []PoolInv
  <1>1. Init => PoolInv
    BY PoolInvStart
  <1>2. PoolInv /\ [Next]_vars => PoolInv'
    BY PoolInvStep
  <1>3. QED
    BY <1>1, <1>2, PTL DEF Spec

(***************************************************************************)
(* The type invariant.                                                     *)
(***************************************************************************)
THEOREM TypeCorrect == Spec => []TypeOK
  <1>1. PoolInv => TypeOK
    BY DEF PoolInv
  <1>2. QED
    BY <1>1, CountersAreRight, PTL

(***************************************************************************)
(* "Worker lambdas never outlive references captured from this stack       *)
(* frame" (ParallelFor, Wait): once a call has returned, no task of it is  *)
(* queued or held by a worker.                                             *)
(***************************************************************************)
THEOREM CapturesAreSafe == Spec => []CapturesOutliveTasks
  <1>1. PoolInv => CapturesOutliveTasks
    <2>1. SUFFICES ASSUME PoolInv, NEW p \in Producer, pc[p] = "idle"
                   PROVE  queued[p] = 0 /\ Busy(p) = {}
      BY DEF CapturesOutliveTasks
    <2>2. remaining[p] = 0
      BY <2>1 DEF PoolInv, Progress, CallFits
    <2>3. QED
      BY <2>1, <2>2, RemainingCovers
  <1>2. QED
    BY <1>1, CountersAreRight, PTL

-----------------------------------------------------------------------------
(***************************************************************************)
(* No index of a loop is run twice, for any number of workers, callers and *)
(* indices and any grain.                                                  *)
(***************************************************************************)
Runner == Worker \union Producer

\* What a thread has claimed lies below nextIndex of the call, and is not empty.
ClaimFits(t) ==
  pc[t] = "run" => range[t].at < range[t].last /\ range[t].last <= next[CallOf(t)]

\* Nobody has run what a thread has claimed, and nobody else has claimed it.
Untouched(t) ==
  pc[t] = "run" =>
    \A i \in Nat : range[t].at <= i /\ i < range[t].last =>
      /\ i \notin ran[CallOf(t)]
      /\ \A u \in Runner \ {t} :
           pc[u] = "run" /\ CallOf(u) = CallOf(t) => ~(range[u].at <= i /\ i < range[u].last)

IndexInv ==
  /\ \A p \in Producer : \A i \in ran[p] : i < next[p]
  /\ \A t \in Runner : ClaimFits(t) /\ Untouched(t)

(***************************************************************************)
(* Steps that claim and run nothing.                                       *)
(***************************************************************************)
NobodyBegins ==
  \A t \in Runner :
    /\ pc'[t] = "run" <=> pc[t] = "run"
    /\ pc[t] = "run" => CallOf(t)' = CallOf(t)

LEMMA IndexStays ==
  ASSUME IndexInv, NobodyBegins, UNCHANGED <<range, next, ran>>
  PROVE  IndexInv'
  <1>1. \A t \in Runner : ClaimFits(t)'
    BY DEF IndexInv, NobodyBegins, ClaimFits
  <1>2. ASSUME NEW t \in Runner
        PROVE  Untouched(t)'
    <2>1. SUFFICES ASSUME pc'[t] = "run", NEW i \in Nat, range[t].at <= i, i < range[t].last
                   PROVE  /\ i \notin ran[CallOf(t)']
                          /\ \A u \in Runner \ {t} :
                               pc'[u] = "run" /\ CallOf(u)' = CallOf(t)' => ~(range[u].at <= i /\ i < range[u].last)
      BY DEF Untouched
    <2>2. pc[t] = "run" /\ CallOf(t)' = CallOf(t)
      BY <1>2, <2>1 DEF NobodyBegins
    <2>3. Untouched(t)
      BY <1>2 DEF IndexInv
    <2>4. QED
      BY <2>1, <2>2, <2>3 DEF Untouched, NobodyBegins
  <1>3. QED
    BY <1>1, <1>2 DEF IndexInv

\* One thread moves, to another place than workFn, and others may be woken.
LEMMA OneMoves ==
  ASSUME NEW f, Woken(f), NEW t \in Thread, pc[t] # "run", NEW place, place # "run",
         pc' = [f EXCEPT ![t] = place],
         \A w \in Worker \ {t} : job'[w] = job[w]
  PROVE  NobodyBegins
  <1>1. \A u \in Runner : u \in Thread
    BY DEF Runner, Thread
  <1>2. \A u \in Thread : pc'[u] = "run" <=> pc[u] = "run"
    BY DEF Woken
  <1>3. QED
    BY <1>1, <1>2 DEF NobodyBegins, CallOf, Runner

LEMMA TestQueueBegins ==
  ASSUME PoolInv, NEW w \in Worker, pc[w] # "run", NEW counter, NEW f, Woken(f),
         TestQueue(w, counter, f)
  PROVE  NobodyBegins
  <1>1. PICK place \in {"batch", "claim", "done", "parked"} : pc' = [f EXCEPT ![w] = place]
    <2>1. ASSUME NEW s \in Foremost, pc' = [f EXCEPT ![w] = IF s = Batch THEN "batch" ELSE "claim"]
          PROVE  \E place \in {"batch", "claim", "done", "parked"} : pc' = [f EXCEPT ![w] = place]
      BY <2>1
    <2>2. CASE pc' = [f EXCEPT ![w] = IF stop THEN "done" ELSE "parked"]
      BY <2>2
    <2>3. QED
      BY <2>1, <2>2 DEF TestQueue
  <1>2. \A v \in Worker \ {w} : job'[v] = job[v]
    BY DEF TestQueue, PoolInv, TypeOK
  <1>3. QED
    BY <1>1, <1>2, OneMoves, ThreadsApart

LEMMA WorkerBegins ==
  ASSUME PoolInv, NEW w \in Worker, Look(w) \/ WorkerRunsBatchTask(w) \/ WorkerSpawns(w) \/ Report(w) \/ Finish(w)
  PROVE  NobodyBegins /\ UNCHANGED <<range, next, ran>>
  <1>. USE DEF PoolInv
  <1>1. CASE Look(w)
    BY <1>1, WokenNobody, TestQueueBegins DEF Look, groupVars
  <1>2. CASE WorkerRunsBatchTask(w)
    BY <1>2, WokenNobody, OneMoves, ThreadsApart DEF WorkerRunsBatchTask, groupVars
  <1>3. CASE WorkerSpawns(w)
    <2>1. PICK f : f \in NotifyOnePending /\ pc' = [f EXCEPT ![w] = "batch"]
      BY <1>3 DEF WorkerSpawns, EnqueueBatchTask
    <2>2. QED
      BY <1>3, <2>1, WokenPending, OneMoves, ThreadsApart DEF WorkerSpawns, groupVars
  <1>4. CASE Report(w)
    <2>1. job[w] \in Producer
      BY <1>4 DEF Report, Jobs, JobFits
    <2>2. PICK f : Woken(f) /\ pc' = [f EXCEPT ![w] = "finish"]
      <3>1. pc' = [IF remaining[job[w]] = 1 THEN NotifyGroup(job[w]) ELSE pc EXCEPT ![w] = "finish"]
        BY <1>4 DEF Report
      <3>2. QED
        BY <2>1, <3>1, WokenGroup, WokenNobody
    <2>3. \A v \in Worker \ {w} : job'[v] = job[v]
      BY <1>4 DEF Report, TypeOK
    <2>4. QED
      BY <1>4, <2>2, <2>3, OneMoves, ThreadsApart DEF Report
  <1>5. CASE Finish(w)
    <2>1. CASE stop
      <3>1. pc' = [NotifyComplete EXCEPT ![w] = "done"] /\ job' = [job EXCEPT ![w] = None]
        BY <1>5, <2>1 DEF Finish
      <3>2. \A v \in Worker \ {w} : job'[v] = job[v]
        BY <3>1 DEF TypeOK
      <3>3. QED
        BY <1>5, <3>1, <3>2, WokenComplete, OneMoves, ThreadsApart DEF Finish, groupVars
    <2>2. CASE ~stop
      <3>1. TestQueue(w, processing - 1, NotifyComplete)
        BY <1>5, <2>2 DEF Finish
      <3>2. QED
        BY <1>5, <3>1, WokenComplete, TestQueueBegins DEF Finish, groupVars
    <2>3. QED
      BY <2>1, <2>2
  <1>6. QED
    BY <1>1, <1>2, <1>3, <1>4, <1>5

LEMMA ProducerBegins ==
  ASSUME PoolInv, NEW p \in Producer,
         AddGroupTask(p) \/ EnqueueTask(p) \/ AllAdded(p) \/ Retire(p) \/ CountRetired(p) \/ Wait(p)
  PROVE  NobodyBegins /\ UNCHANGED <<range, next, ran>>
  <1>. USE DEF PoolInv
  <1>1. CASE AddGroupTask(p)
    BY <1>1, WokenNobody, OneMoves, ThreadsApart DEF AddGroupTask
  <1>2. CASE EnqueueTask(p)
    <2>1. PICK f : f \in NotifyOnePending /\ pc' = [f EXCEPT ![p] = "add"]
      BY <1>2 DEF EnqueueTask
    <2>2. QED
      BY <1>2, <2>1, WokenPending, OneMoves, ThreadsApart DEF EnqueueTask
  <1>3. CASE AllAdded(p)
    BY <1>3, WokenNobody, OneMoves, ThreadsApart DEF AllAdded, groupVars
  <1>4. CASE Retire(p)
    BY <1>4, WokenNobody, WokenComplete, OneMoves, ThreadsApart DEF Retire
  <1>5. CASE CountRetired(p)
    BY <1>5, WokenNobody, OneMoves, ThreadsApart DEF CountRetired
  <1>6. CASE Wait(p)
    BY <1>6, WokenNobody, OneMoves, ThreadsApart DEF Wait, groupVars
  <1>7. QED
    BY <1>1, <1>2, <1>3, <1>4, <1>5, <1>6

LEMMA BatcherBegins ==
  ASSUME PoolInv, NEW j \in Joiner, AddTask(j) \/ Join(j) \/ JoinStep(j)
  PROVE  NobodyBegins /\ UNCHANGED <<range, next, ran>>
  <1>. USE DEF PoolInv
  <1>1. j \in Thread
    BY ThreadsApart
  <1>2. CASE AddTask(j)
    <2>1. PICK f : f \in NotifyOnePending /\ pc' = [f EXCEPT ![j] = "idle"]
      BY <1>2 DEF AddTask, EnqueueBatchTask
    <2>2. QED
      BY <1>1, <1>2, <2>1, WokenPending, OneMoves DEF AddTask, groupVars
  <1>3. CASE Join(j)
    BY <1>1, <1>3, WokenNobody, OneMoves DEF Join, groupVars
  <1>4. CASE CompletionReturns(j)
    BY <1>1, <1>4, WokenNobody, OneMoves DEF CompletionReturns, groupVars
  <1>5. CASE CompletionSpawns(j)
    <2>1. PICK f : f \in NotifyOnePending /\ pc' = [f EXCEPT ![j] = "completion"]
      BY <1>5 DEF CompletionSpawns, EnqueueBatchTask
    <2>2. QED
      BY <1>1, <1>5, <2>1, WokenPending, OneMoves DEF CompletionSpawns, groupVars
  <1>6. CASE JoinWaits(j) \/ JoinDispatches(j) \/ JoinEnds(j)
    <2>1. PICK place \in JoinerPlaces : pc' = [pc EXCEPT ![j] = place]
      <3>1. CASE AwaitCompleted(j) \/ Dispatch(j)
        BY <3>1, AwaitTypes, DispatchTypes
      <3>2. CASE ~(AwaitCompleted(j) \/ Dispatch(j))
        <4>1. pc' = [pc EXCEPT ![j] = IF j = Owner THEN "stop" ELSE "idle"]
          BY <1>6, <3>2 DEF JoinWaits, JoinDispatches, JoinEnds
        <4>2. QED
          BY <4>1 DEF JoinerPlaces
      <3>3. QED
        BY <3>1, <3>2
    <2>2. place # "run"
      BY DEF JoinerPlaces
    <2>3. UNCHANGED <<job, range, next, ran>>
      BY <1>6 DEF JoinWaits, JoinDispatches, JoinEnds, groupVars
    <2>4. pc[j] # "run"
      BY DEF TypeOK, JoinerPlaces
    <2>5. QED
      BY <1>1, <2>1, <2>2, <2>3, <2>4, WokenNobody, OneMoves
  <1>7. QED
    BY <1>2, <1>3, <1>4, <1>5, <1>6 DEF JoinStep

LEMMA DestructorBegins ==
  ASSUME PoolInv, Destroy \/ StopWorkers \/ Reaped
  PROVE  NobodyBegins /\ UNCHANGED <<range, next, ran>>
  <1>. USE DEF PoolInv
  <1>1. Owner \in Thread /\ Owner \notin Runner
    BY ThreadsApart DEF Joiner, Runner
  <1>2. CASE Destroy
    BY <1>1, <1>2, WokenNobody, OneMoves DEF Destroy, groupVars
  <1>3. CASE StopWorkers
    <2>1. \A t \in Runner : pc'[t] = "run" <=> pc[t] = "run"
      BY <1>1, <1>3, ThreadsApart DEF StopWorkers, Runner
    <2>2. QED
      BY <1>3, <2>1 DEF StopWorkers, NobodyBegins, CallOf, groupVars
  <1>4. CASE Reaped
    BY <1>1, <1>4, WokenNobody, OneMoves DEF Reaped, groupVars
  <1>5. QED
    BY <1>2, <1>3, <1>4
-----------------------------------------------------------------------------
(***************************************************************************)
(* A claim begins where the earlier ones end.                              *)
(***************************************************************************)
LEMMA ClaimIndex ==
  ASSUME PoolInv, IndexInv, NEW t \in Runner, Claim(t)
  PROVE  IndexInv'
  <1>. DEFINE p == CallOf(t)
              first == next[p]
              size == Min2(loop[p].grain, loop[p].count - first)
  <1>. USE DEF PoolInv
  <1>1. pc[t] = "claim" /\ p \in Producer /\ t \in Thread
    BY CallOfType, ThreadsApart DEF Claim, Runner
  <1>2. /\ first \in Nat
        /\ loop[p].grain \in Nat \ {0} /\ loop[p].count \in Nat
    BY <1>1, LoopShape DEF TypeOK
  <1>3. /\ next'[p] = first + loop[p].grain
        /\ \A q \in Producer \ {p} : next'[q] = next[q]
        /\ UNCHANGED <<job, ran>>
    BY <1>1 DEF Claim, TypeOK
  <1>4. \A u \in Runner : CallOf(u)' = CallOf(u)
    BY <1>3 DEF CallOf
  <1>5. \A q \in Producer : next'[q] \in Nat /\ next'[q] >= next[q] /\ next[q] \in Nat
    <2>1. \A q \in Producer : next[q] \in Nat
      BY DEF TypeOK
    <2>2. next'[p] \in Nat /\ next'[p] >= next[p]
      BY <1>2, <1>3
    <2>3. \A q \in Producer \ {p} : next'[q] \in Nat /\ next'[q] >= next[q]
      BY <1>3, <2>1
    <2>4. QED
      BY <2>1, <2>2, <2>3
  <1>6. \A q \in Producer : \A i \in ran'[q] : i < next'[q]
    <2>1. \A q \in Producer : \A i \in ran[q] : i \in Nat /\ i < next[q]
      BY DEF IndexInv, TypeOK
    <2>2. ASSUME NEW q \in Producer, NEW i \in ran'[q]
          PROVE  i < next'[q]
      BY <1>3, <1>5, <2>1
    <2>3. QED
      BY <2>2
  <1>7. \A u \in Runner \ {t} : pc'[u] = pc[u] /\ range'[u] = range[u]
    BY DEF Claim, TypeOK, Runner, Thread
  <1>8. \A u \in Runner : pc[u] = "run" => CallOf(u) \in Producer
    BY CallOfType DEF Runner
  <1>9. \A u \in Runner : range[u].at \in Nat /\ range[u].last \in Nat
    BY DEF TypeOK, Runner
  <1>10. ASSUME NEW u \in Runner \ {t}
         PROVE  ClaimFits(u)'
    <2>1. SUFFICES ASSUME pc[u] = "run"
                   PROVE  range[u].at < range[u].last /\ range[u].last <= next'[CallOf(u)]
      BY <1>4, <1>7 DEF ClaimFits
    <2>2. range[u].at < range[u].last /\ range[u].last <= next[CallOf(u)]
      BY <2>1 DEF IndexInv, ClaimFits
    <2>3. next'[CallOf(u)] \in Nat /\ next'[CallOf(u)] >= next[CallOf(u)] /\ next[CallOf(u)] \in Nat
      BY <1>5, <1>8, <2>1
    <2>4. QED
      BY <1>9, <2>2, <2>3
  <1>11. CASE first >= loop[p].count
    <2>1. range' = range /\ pc'[t] # "run"
      BY <1>1, <1>11 DEF Claim, TypeOK, Stops
    <2>2. \A u \in Runner : ClaimFits(u)'
      BY <1>10, <2>1 DEF ClaimFits
    <2>3. \A u \in Runner : Untouched(u)'
      BY <1>3, <1>4, <1>7, <2>1 DEF Untouched, IndexInv
    <2>4. QED
      BY <1>6, <2>2, <2>3 DEF IndexInv
  <1>12. CASE ~(first >= loop[p].count)
    <2>1. range' = [range EXCEPT ![t] = [at |-> first, last |-> first + size]]
      BY <1>12 DEF Claim
    <2>2. range'[t].at = first /\ range'[t].last = first + size
      BY <2>1 DEF TypeOK, Runner
    <2>3. size \in Nat /\ size > 0 /\ size <= loop[p].grain
      BY <1>2, <1>12 DEF Min2
    <2>. HIDE DEF size, first
    <2>4. first < first + size /\ first + size <= next'[p]
      BY <1>2, <1>3, <2>3
    <2>5. \A u \in Runner : ClaimFits(u)'
      <3>1. ClaimFits(t)'
        BY <1>4, <2>2, <2>4 DEF ClaimFits
      <3>2. QED
        BY <1>10, <3>1
    <2>6. \A i \in ran[p] : i \in Nat /\ i < first
      BY <1>1 DEF IndexInv, TypeOK, first
    <2>7. \A u \in Runner \ {t} : pc[u] = "run" /\ CallOf(u) = p => range[u].last <= first
      BY DEF IndexInv, ClaimFits, first
    <2>8. \A u \in Runner : Untouched(u)'
      <3>1. Untouched(t)'
        <4>1. \A i \in Nat : first <= i => i \notin ran[p]
          BY <1>2, <2>6
        <4>2. \A i \in Nat : first <= i =>
                 \A u \in Runner \ {t} : pc[u] = "run" /\ CallOf(u) = p => ~(i < range[u].last)
          BY <1>2, <1>9, <2>7
        <4>3. QED
          BY <1>3, <1>4, <1>7, <2>2, <4>1, <4>2 DEF Untouched
      <3>2. ASSUME NEW u \in Runner \ {t}
            PROVE  Untouched(u)'
        <4>1. SUFFICES ASSUME pc[u] = "run", NEW i \in Nat, range[u].at <= i, i < range[u].last
                       PROVE  /\ i \notin ran[CallOf(u)]
                              /\ \A v \in Runner \ {u} :
                                   pc'[v] = "run" /\ CallOf(v) = CallOf(u) =>
                                     ~(range'[v].at <= i /\ i < range'[v].last)
          BY <1>3, <1>4, <1>7 DEF Untouched
        <4>2. CallOf(u) = p => i < first
          BY <1>2, <1>9, <2>7, <4>1
        <4>3. QED
          BY <1>2, <1>7, <2>2, <4>1, <4>2 DEF Untouched, IndexInv
      <3>3. QED
        BY <3>1, <3>2
    <2>9. QED
      BY <1>6, <2>5, <2>8 DEF IndexInv
  <1>13. QED
    BY <1>11, <1>12

(***************************************************************************)
(* What has run was claimed by the thread that ran it.                     *)
(***************************************************************************)
LEMMA RunIndex ==
  ASSUME PoolInv, IndexInv, NEW t \in Runner, Run(t)
  PROVE  IndexInv'
  <1>. DEFINE p == CallOf(t)
              k == range[t].at
  <1>. USE DEF PoolInv
  <1>1. pc[t] = "run" /\ p \in Producer /\ t \in Thread
    BY CallOfType, ThreadsApart DEF Run, Runner
  <1>2. \A u \in Runner : range[u].at \in Nat /\ range[u].last \in Nat
    BY DEF TypeOK, Runner
  <1>3. k \in Nat /\ k < range[t].last /\ range[t].last <= next[p] /\ next[p] \in Nat
    BY <1>1, <1>2 DEF IndexInv, ClaimFits, TypeOK
  <1>4. /\ ran'[p] = ran[p] \union {k}
        /\ \A q \in Producer \ {p} : ran'[q] = ran[q]
        /\ UNCHANGED <<job, next>>
    BY <1>1 DEF Run, TypeOK
  <1>5. \A u \in Runner : CallOf(u)' = CallOf(u)
    BY <1>4 DEF CallOf
  <1>6. \A u \in Runner \ {t} : pc'[u] = pc[u] /\ range'[u] = range[u]
    BY DEF Run, TypeOK, Runner, Thread
  <1>7. pc'[t] = "run" => /\ range'[t].at = k + 1 /\ range'[t].last = range[t].last
                          /\ k + 1 < range[t].last
    BY <1>1 DEF Run, TypeOK, Runner, Stops
  <1>8. \A q \in Producer : \A i \in ran'[q] : i < next'[q]
    BY <1>2, <1>3, <1>4 DEF IndexInv
  <1>9. \A u \in Runner : ClaimFits(u)'
    <2>1. ClaimFits(t)'
      BY <1>3, <1>4, <1>5, <1>7 DEF ClaimFits
    <2>2. ASSUME NEW u \in Runner \ {t}
          PROVE  ClaimFits(u)'
      BY <1>4, <1>5, <1>6 DEF ClaimFits, IndexInv
    <2>3. QED
      BY <2>1, <2>2
  <1>10. \A u \in Runner : pc[u] = "run" => CallOf(u) \in Producer
    BY CallOfType DEF Runner
  <1>. HIDE DEF k, p
  <1>11. Untouched(t)'
    <2>1. SUFFICES ASSUME pc'[t] = "run", NEW i \in Nat, k + 1 <= i, i < range[t].last
                   PROVE  /\ i \notin ran'[p]
                          /\ \A u \in Runner \ {t} :
                               pc[u] = "run" /\ CallOf(u) = p => ~(range[u].at <= i /\ i < range[u].last)
      BY <1>5, <1>6, <1>7 DEF Untouched, p
    <2>2. k <= i /\ i # k
      BY <1>3, <2>1
    <2>3. Untouched(t)
      BY DEF IndexInv
    <2>4. i \notin ran[p] /\ \A u \in Runner \ {t} :
             pc[u] = "run" /\ CallOf(u) = p => ~(range[u].at <= i /\ i < range[u].last)
      BY <1>1, <2>1, <2>2, <2>3 DEF Untouched, p, k
    <2>5. QED
      BY <1>4, <2>2, <2>4
  <1>12. ASSUME NEW u \in Runner \ {t}
         PROVE  Untouched(u)'
    <2>1. SUFFICES ASSUME pc[u] = "run", NEW i \in Nat, range[u].at <= i, i < range[u].last
                   PROVE  /\ i \notin ran'[CallOf(u)]
                          /\ \A v \in Runner \ {u} :
                               pc'[v] = "run" /\ CallOf(v) = CallOf(u) =>
                                 ~(range'[v].at <= i /\ i < range'[v].last)
      BY <1>5, <1>6 DEF Untouched
    <2>2. Untouched(u) /\ CallOf(u) \in Producer
      BY <1>10, <2>1 DEF IndexInv
    <2>3. CallOf(u) = p => ~(k <= i /\ i < range[t].last)
      BY <1>1, <2>1, <2>2 DEF Untouched, p, k
    <2>4. i \notin ran'[CallOf(u)]
      <3>1. i \notin ran[CallOf(u)]
        BY <2>1, <2>2 DEF Untouched
      <3>2. CallOf(u) = p => i # k
        BY <1>3, <2>3
      <3>3. QED
        BY <1>4, <2>2, <3>1, <3>2
    <2>5. ASSUME NEW v \in Runner \ {u}, pc'[v] = "run", CallOf(v) = CallOf(u)
          PROVE  ~(range'[v].at <= i /\ i < range'[v].last)
      <3>1. CASE v = t
        BY <1>3, <1>7, <2>3, <2>5, <3>1 DEF p
      <3>2. CASE v # t
        BY <1>6, <2>1, <2>2, <2>5, <3>2 DEF Untouched
      <3>3. QED
        BY <3>1, <3>2
    <2>6. QED
      BY <2>4, <2>5
  <1>13. QED
    BY <1>8, <1>9, <1>11, <1>12 DEF IndexInv

(***************************************************************************)
(* A call begins when no worker holds a task of the one before it.         *)
(***************************************************************************)
LEMMA CallIndex ==
  ASSUME PoolInv, IndexInv, NEW p \in Producer, Call(p)
  PROVE  IndexInv'
  <1>. USE DEF PoolInv
  <1>1. Busy(p) = {}
    BY RemainingCovers DEF Call, Progress, CallFits
  <1>2. /\ pc' = [pc EXCEPT ![p] = "add"]
        /\ next' = [next EXCEPT ![p] = 0]
        /\ ran' = [ran EXCEPT ![p] = {}]
        /\ UNCHANGED <<job, range>>
    BY DEF Call
  <1>3. \A u \in Runner : CallOf(u)' = CallOf(u)
    BY <1>2 DEF CallOf
  <1>4. \A u \in Runner : pc'[u] = "run" => pc[u] = "run" /\ CallOf(u) # p /\ CallOf(u) \in Producer
    BY <1>1, <1>2, CallOfType, ThreadsApart DEF CallOf, Busy, Runner, TypeOK
  <1>5. \A q \in Producer : \A i \in ran'[q] : i < next'[q]
    BY <1>2 DEF IndexInv, TypeOK
  <1>6. \A q \in Producer \ {p} : next'[q] = next[q] /\ ran'[q] = ran[q]
    BY <1>2 DEF TypeOK
  <1>7. \A u \in Runner : ClaimFits(u)'
    BY <1>2, <1>3, <1>4, <1>6 DEF IndexInv, ClaimFits
  <1>8. ASSUME NEW u \in Runner
        PROVE  Untouched(u)'
    <2>1. SUFFICES ASSUME pc'[u] = "run", NEW i \in Nat, range[u].at <= i, i < range[u].last
                   PROVE  /\ i \notin ran'[CallOf(u)]
                          /\ \A v \in Runner \ {u} :
                               pc'[v] = "run" /\ CallOf(v) = CallOf(u) =>
                                 ~(range[v].at <= i /\ i < range[v].last)
      BY <1>2, <1>3 DEF Untouched
    <2>2. Untouched(u)
      BY DEF IndexInv
    <2>3. QED
      BY <1>4, <1>6, <2>1, <2>2 DEF Untouched
  <1>9. QED
    BY <1>5, <1>7, <1>8 DEF IndexInv

-----------------------------------------------------------------------------
LEMMA IndexInvStart ==
  ASSUME Init
  PROVE  IndexInv
  <1>1. \A t \in Runner : pc[t] # "run"
    BY ThreadsApart DEF Init, Runner
  <1>2. QED
    BY <1>1 DEF Init, IndexInv, ClaimFits, Untouched

LEMMA IndexInvStep ==
  ASSUME PoolInv, IndexInv, [Next]_vars
  PROVE  IndexInv'
  <1>1. ASSUME NEW w \in Worker, WorkerStep(w)
        PROVE  IndexInv'
    BY <1>1, WorkerBegins, IndexStays, ClaimIndex, RunIndex DEF WorkerStep, Runner
  <1>2. ASSUME NEW p \in Producer, Call(p) \/ ProducerStep(p)
        PROVE  IndexInv'
    BY <1>2, ProducerBegins, IndexStays, ClaimIndex, RunIndex, CallIndex DEF ProducerStep, Runner
  <1>3. ASSUME NEW j \in Joiner, AddTask(j) \/ Join(j) \/ JoinStep(j)
        PROVE  IndexInv'
    BY <1>3, BatcherBegins, IndexStays
  <1>4. CASE Destroy \/ StopWorkers \/ Reaped
    BY <1>4, DestructorBegins, IndexStays
  <1>5. CASE UNCHANGED vars
    BY <1>5 DEF vars, IndexInv, ClaimFits, Untouched, CallOf
  <1>6. QED
    BY <1>1, <1>2, <1>3, <1>4, <1>5 DEF Next, Gone, Joiner

(***************************************************************************)
(* No index is run twice (processNext): what a thread is about to run has  *)
(* not been run, and no other thread has claimed it.                       *)
(***************************************************************************)
THEOREM EachIndexOnce == Spec => []NoIndexTwice
  <1>1. Init => PoolInv /\ IndexInv
    BY PoolInvStart, IndexInvStart
  <1>2. PoolInv /\ IndexInv /\ [Next]_vars => (PoolInv /\ IndexInv)'
    BY PoolInvStep, IndexInvStep
  <1>3. PoolInv /\ IndexInv => NoIndexTwice
    <2>1. SUFFICES ASSUME PoolInv, IndexInv, NEW p \in Producer, NEW t \in Runners(p)
                   PROVE  /\ Claimed(t) \intersect ran[p] = {}
                          /\ \A u \in Runners(p) \ {t} : Claimed(t) \intersect Claimed(u) = {}
      BY DEF NoIndexTwice
    <2>2. \A u \in Runners(p) : u \in Runner /\ CallOf(u) = p
      BY ThreadsApart DEF Runners, Busy, Runner, CallOf
    <2>3. \A u \in Runners(p) : range[u].at \in Nat /\ range[u].last \in Nat
      BY <2>1, <2>2 DEF PoolInv, TypeOK, Runner
    <2>4. \A u \in Runners(p) : \A i \in Claimed(u) :
            pc[u] = "run" /\ i \in Nat /\ range[u].at <= i /\ i < range[u].last
      BY <2>3 DEF Claimed
    <2>5. Untouched(t)
      BY <2>1, <2>2 DEF IndexInv
    <2>6. QED
      BY <2>1, <2>2, <2>4, <2>5 DEF Untouched
  <1>4. QED
    BY <1>1, <1>2, <1>3, PTL DEF Spec

-----------------------------------------------------------------------------
(***************************************************************************)
(* Where an exception is while its call is in progress: with the thread    *)
(* that caught it, in the group, or, for a task without a group, with the  *)
(* completed tasks or the thread that joins them.                          *)
(***************************************************************************)
JoinPlaces == {"join", "asleep", "completion", "dispatch", "reportFn"}

Carries(s) == \E w \in Worker : job[w] = s /\ caught[w]

HasFailed(p) == caught[p] \/ failed[p] \/ Carries(p)

BatchHasFailed ==
  \/ \E j \in Joiner : pc[j] \in JoinPlaces /\ caught[j]
  \/ Carries(Batch)
  \/ \E i \in DOMAIN completed : completed[i]

CallErrors == \A p \in Producer : threw[p] <=> HasFailed(p)

BatchErrors == threw[Batch] <=> BatchHasFailed

\* A worker has an exception only until it has handed it over.
HandedOver == \A w \in Worker : pc[w] \notin {"report", "finish"} => ~caught[w]

\* Whoever joins holds _batchMutex, and the destructor begins without an exception.
OneJoiner ==
  /\ \A j \in Joiner : batchMutex = j <=> pc[j] \in JoinPlaces
  /\ pc[Owner] = "idle" => ~caught[Owner]

ErrorInv == CallErrors /\ BatchErrors /\ HandedOver /\ OneJoiner

(***************************************************************************)
(* The place of each step.                                                 *)
(***************************************************************************)
LEMMA MoveOf ==
  ASSUME NEW f, Woken(f), NEW t \in Thread, NEW place, pc' = [f EXCEPT ![t] = place]
  PROVE  pc'[t] = place /\ OnlyMoves(t)
  BY DEF Woken, OnlyMoves

LEMMA MoveOfSpawner ==
  ASSUME PoolInv, NEW t \in Thread, NEW place, EnqueueBatchTask(t, place)
  PROVE  pc'[t] = place /\ OnlyMoves(t)
  <1>1. PICK f : Woken(f) /\ pc' = [f EXCEPT ![t] = place]
    BY EnqueueBatchTaskTypes
  <1>2. QED
    BY <1>1, MoveOf

LEMMA MoveOfTester ==
  ASSUME PoolInv, NEW w \in Worker, NEW counter, NEW f, Woken(f), TestQueue(w, counter, f)
  PROVE  /\ pc'[w] \in {"batch", "claim", "done", "parked"}
         /\ OnlyMoves(w)
         /\ \A v \in Worker \ {w} : job'[v] = job[v]
  <1>1. PICK place \in {"batch", "claim", "done", "parked"} : pc' = [f EXCEPT ![w] = place]
    <2>1. ASSUME NEW s \in Foremost, pc' = [f EXCEPT ![w] = IF s = Batch THEN "batch" ELSE "claim"]
          PROVE  \E place \in {"batch", "claim", "done", "parked"} : pc' = [f EXCEPT ![w] = place]
      BY <2>1
    <2>2. CASE pc' = [f EXCEPT ![w] = IF stop THEN "done" ELSE "parked"]
      BY <2>2
    <2>3. QED
      BY <2>1, <2>2 DEF TestQueue
  <1>2. \A v \in Worker \ {w} : job'[v] = job[v]
    BY DEF TestQueue, PoolInv, TypeOK
  <1>3. QED
    BY <1>1, <1>2, MoveOf, ThreadsApart

(***************************************************************************)
(* A step that hands no exception on.                                      *)
(***************************************************************************)
LEMMA ErrorsStay ==
  ASSUME PoolInv, ErrorInv, NEW t \in Thread, OnlyMoves(t),
         \A w \in Worker \ {t} : job'[w] = job[w],
         UNCHANGED <<caught, failed, threw, completed, batchMutex>>,
         t \in Worker => \/ ~caught[t]
                         \/ job'[t] = job[t] /\ pc'[t] \in {"report", "finish"},
         t \in Joiner => /\ pc'[t] \in JoinPlaces <=> pc[t] \in JoinPlaces
                         /\ pc'[t] = "idle" => pc[t] = "idle"
  PROVE  ErrorInv'
  <1>1. \A s \in Source : Carries(s)' <=> Carries(s)
    BY DEF Carries
  <1>2. CallErrors'
    BY <1>1 DEF ErrorInv, CallErrors, HasFailed, Source
  <1>3. \A j \in Joiner : pc'[j] \in JoinPlaces <=> pc[j] \in JoinPlaces
    BY ThreadsApart DEF OnlyMoves, JoinPlaces
  <1>4. BatchErrors'
    BY <1>1, <1>3 DEF ErrorInv, BatchErrors, BatchHasFailed, Source
  <1>5. HandedOver'
    BY ThreadsApart DEF ErrorInv, HandedOver, OnlyMoves
  <1>6. OneJoiner'
    <2>1. Owner \in Joiner /\ Owner \in Thread
      BY ThreadsApart DEF Joiner
    <2>2. pc'[Owner] = "idle" => pc[Owner] = "idle"
      BY <2>1, ThreadsApart DEF OnlyMoves
    <2>3. QED
      BY <1>3, <2>2 DEF ErrorInv, OneJoiner
  <1>7. QED
    BY <1>2, <1>4, <1>5, <1>6 DEF ErrorInv

LEMMA QuietWorkerErrors ==
  ASSUME PoolInv, ErrorInv, NEW w \in Worker, Look(w) \/ WorkerSpawns(w)
  PROVE  ErrorInv'
  <1>1. w \in Thread /\ w \notin Joiner
    BY ThreadsApart
  <1>2. ~caught[w]
    BY DEF Look, WorkerSpawns, ErrorInv, HandedOver
  <1>3. OnlyMoves(w) /\ \A v \in Worker \ {w} : job'[v] = job[v]
    <2>1. CASE Look(w)
      BY <2>1, WokenNobody, MoveOfTester DEF Look, PoolInv
    <2>2. CASE WorkerSpawns(w)
      BY <1>1, <2>2, MoveOfSpawner DEF WorkerSpawns
    <2>3. QED
      BY <2>1, <2>2
  <1>4. UNCHANGED <<caught, failed, threw, completed, batchMutex>>
    BY DEF Look, WorkerSpawns, groupVars, batchVars
  <1>5. QED
    BY <1>1, <1>2, <1>3, <1>4, ErrorsStay

LEMMA ClaimErrors ==
  ASSUME PoolInv, ErrorInv, NEW t \in Runner, Claim(t)
  PROVE  ErrorInv'
  <1>1. t \in Thread /\ t \notin Joiner
    BY ThreadsApart DEF Runner
  <1>2. t \in Worker => ~caught[t]
    BY DEF Claim, ErrorInv, HandedOver
  <1>3. OnlyMoves(t)
    <2>1. PICK place : pc' = [pc EXCEPT ![t] = place]
      BY DEF Claim
    <2>2. QED
      BY <1>1, <2>1, WokenNobody, MoveOf DEF PoolInv
  <1>4. UNCHANGED <<job, caught, failed, threw, completed, batchMutex>>
    BY DEF Claim, batchVars
  <1>5. QED
    BY <1>1, <1>2, <1>3, <1>4, ErrorsStay

\* workFn throws: the thread that ran it has the exception.
LEMMA RunErrors ==
  ASSUME PoolInv, ErrorInv, NEW t \in Runner, Run(t)
  PROVE  ErrorInv'
  <1>1. t \in Thread /\ t \notin Joiner /\ pc[t] = "run"
    BY ThreadsApart DEF Runner, Run
  <1>. PICK p \in Producer : p = CallOf(t)
    BY <1>1, CallOfType DEF Runner
  <1>2. PICK place : pc' = [pc EXCEPT ![t] = place] /\ place \in {"run", "claim", Stops(t)}
    BY DEF Run
  <1>3. OnlyMoves(t) /\ pc'[t] = place
    BY <1>1, <1>2, WokenNobody, MoveOf DEF PoolInv
  <1>4. UNCHANGED <<job, failed, completed, batchMutex>>
    BY DEF Run, batchVars
  <1>5. CASE UNCHANGED <<caught, threw>>
    BY <1>1, <1>3, <1>4, <1>5, ErrorsStay DEF ErrorInv, HandedOver
  <1>6. CASE /\ caught' = [caught EXCEPT ![t] = TRUE]
             /\ threw' = [threw EXCEPT ![p] = TRUE]
             /\ pc' = [pc EXCEPT ![t] = Stops(t)]
    <2>1. caught'[t] = TRUE /\ \A u \in Thread \ {t} : caught'[u] = caught[u]
      BY <1>1, <1>6 DEF PoolInv, TypeOK
    <2>2. threw'[p] = TRUE /\ \A s \in Source \ {p} : threw'[s] = threw[s]
      BY <1>1, <1>6 DEF PoolInv, TypeOK, Source
    <2>3. HasFailed(p)'
      BY <1>1, <1>4, <2>1 DEF HasFailed, Carries, CallOf, Runner
    <2>4. \A s \in Source \ {p} : Carries(s)' <=> Carries(s)
      BY <1>1, <1>4, <2>1, ThreadsApart DEF Carries, CallOf, Runner
    <2>5. CallErrors'
      <3>1. \A q \in Producer \ {p} : HasFailed(q)' <=> HasFailed(q)
        <4>1. \A q \in Producer \ {p} : caught'[q] = caught[q]
          BY <1>1, <2>1, ThreadsApart DEF CallOf, Runner
        <4>2. QED
          BY <1>4, <2>4, <4>1 DEF HasFailed, Source
      <3>2. \A q \in Producer \ {p} : threw'[q] <=> HasFailed(q)'
        BY <2>2, <3>1 DEF ErrorInv, CallErrors, Source
      <3>3. threw'[p] <=> HasFailed(p)'
        BY <2>2, <2>3
      <3>4. QED
        BY <3>2, <3>3, Zenon DEF CallErrors
    <2>6. \A j \in Joiner : /\ pc'[j] \in JoinPlaces <=> pc[j] \in JoinPlaces
                            /\ pc'[j] = "idle" <=> pc[j] = "idle"
                            /\ caught'[j] = caught[j]
      BY <1>1, <1>3, <2>1, ThreadsApart DEF OnlyMoves, JoinPlaces
    <2>7. BatchErrors'
      <3>1. Batch \in Source \ {p}
        BY <1>1, JobPoolAssumption DEF Source
      <3>2. QED
        BY <1>4, <2>2, <2>4, <2>6, <3>1 DEF ErrorInv, BatchErrors, BatchHasFailed
    <2>8. HandedOver'
      <3>1. t \in Worker => pc'[t] = "report"
        BY <1>1, <1>6 DEF Stops, PoolInv, TypeOK
      <3>2. QED
        BY <1>3, <2>1, <3>1, ThreadsApart DEF ErrorInv, HandedOver, OnlyMoves
    <2>9. OneJoiner'
      BY <1>4, <2>6 DEF ErrorInv, OneJoiner, Joiner
    <2>10. QED
      BY <2>5, <2>7, <2>8, <2>9 DEF ErrorInv
  <1>7. QED
    BY <1>5, <1>6 DEF Run


(***************************************************************************)
(* Facts about a worker's step that leaves the batchers alone.             *)
(***************************************************************************)
LEMMA WorkerAlone ==
  ASSUME PoolInv, ErrorInv, NEW w \in Worker, OnlyMoves(w),
         \A t \in Thread \ {w} : caught'[t] = caught[t],
         UNCHANGED batchMutex
  PROVE  /\ OneJoiner'
         /\ \A j \in Joiner : /\ pc'[j] \in JoinPlaces <=> pc[j] \in JoinPlaces
                              /\ caught'[j] = caught[j]
         /\ \A p \in Producer : caught'[p] = caught[p]
         /\ ~caught'[w] \/ pc'[w] \in {"report", "finish"} => HandedOver'
  <1>1. \A j \in Joiner : /\ pc'[j] \in JoinPlaces <=> pc[j] \in JoinPlaces
                          /\ pc'[j] = "idle" <=> pc[j] = "idle"
                          /\ caught'[j] = caught[j]
    BY ThreadsApart DEF OnlyMoves, JoinPlaces
  <1>2. \A p \in Producer : caught'[p] = caught[p]
    BY ThreadsApart
  <1>3. OneJoiner'
    BY <1>1 DEF ErrorInv, OneJoiner, Joiner
  <1>4. ~caught'[w] \/ pc'[w] \in {"report", "finish"} => HandedOver'
    BY ThreadsApart DEF ErrorInv, HandedOver, OnlyMoves
  <1>5. QED
    BY <1>1, <1>2, <1>3, <1>4

\* The work of a task without a group throws or not.
LEMMA BatchWorkErrors ==
  ASSUME PoolInv, ErrorInv, NEW w \in Worker, WorkerRunsBatchTask(w)
  PROVE  ErrorInv'
  <1>1. PICK throws \in BOOLEAN : /\ caught' = [caught EXCEPT ![w] = throws]
                                  /\ threw' = [threw EXCEPT ![Batch] = @ \/ throws]
    BY DEF WorkerRunsBatchTask
  <1>2. OnlyMoves(w) /\ pc'[w] = "finish"
    BY ThreadsApart, WokenNobody, MoveOf DEF WorkerRunsBatchTask, PoolInv
  <1>3. UNCHANGED <<job, failed, completed, batchMutex>>
    BY DEF WorkerRunsBatchTask, groupVars, batchVars
  <1>4. job[w] = Batch /\ Batch \notin Producer /\ Batch \in Source /\ ~caught[w]
    BY JobPoolAssumption DEF PoolInv, Jobs, JobFits, WorkerRunsBatchTask, Source, ErrorInv, HandedOver
  <1>5. (caught'[w] <=> throws) /\ \A t \in Thread \ {w} : caught'[t] = caught[t]
    BY <1>1, ThreadsApart DEF PoolInv, TypeOK
  <1>6. threw'[Batch] <=> threw[Batch] \/ throws
    BY <1>1, <1>4 DEF PoolInv, TypeOK
  <1>7. \A p \in Producer : threw'[p] = threw[p]
    BY <1>1, <1>4 DEF PoolInv, TypeOK, Source
  <1>8. \A p \in Producer : Carries(p)' <=> Carries(p)
    BY <1>3, <1>4, <1>5, ThreadsApart DEF Carries
  <1>9. Carries(Batch)' <=> Carries(Batch) \/ throws
    BY <1>3, <1>4, <1>5, ThreadsApart DEF Carries
  <1>10. CallErrors'
    BY <1>2, <1>3, <1>5, <1>7, <1>8, WorkerAlone DEF ErrorInv, CallErrors, HasFailed
  <1>11. BatchErrors'
    <2>1. BatchHasFailed' <=> BatchHasFailed \/ throws
      BY <1>2, <1>3, <1>5, <1>9, WorkerAlone DEF BatchHasFailed
    <2>2. QED
      BY <1>6, <2>1 DEF ErrorInv, BatchErrors
  <1>12. QED
    BY <1>2, <1>3, <1>5, <1>10, <1>11, WorkerAlone DEF ErrorInv

\* The exception goes from the worker to the group.
LEMMA ReportErrors ==
  ASSUME PoolInv, ErrorInv, NEW w \in Worker, Report(w)
  PROVE  ErrorInv'
  <1>. PICK p \in Producer : p = job[w]
    BY DEF PoolInv, Jobs, JobFits, Report
  <1>1. /\ failed' = [failed EXCEPT ![p] = @ \/ caught[w]]
        /\ job' = [job EXCEPT ![w] = None]
        /\ caught' = [caught EXCEPT ![w] = FALSE]
        /\ pc' = [IF remaining[p] = 1 THEN NotifyGroup(p) ELSE pc EXCEPT ![w] = "finish"]
        /\ UNCHANGED <<threw, completed, batchMutex>>
    BY DEF Report, batchVars
  <1>2. OnlyMoves(w) /\ pc'[w] = "finish"
    <2>1. PICK f : Woken(f) /\ pc' = [f EXCEPT ![w] = "finish"]
      BY <1>1, WokenGroup, WokenNobody DEF PoolInv
    <2>2. QED
      BY <2>1, ThreadsApart, MoveOf
  <1>3. ~caught'[w] /\ \A t \in Thread \ {w} : caught'[t] = caught[t]
    BY <1>1, ThreadsApart DEF PoolInv, TypeOK
  <1>4. job'[w] = None /\ \A v \in Worker \ {w} : job'[v] = job[v]
    BY <1>1 DEF PoolInv, TypeOK
  <1>5. \A s \in Source \ {p} : Carries(s)' <=> Carries(s)
    BY <1>3, <1>4, ThreadsApart, JobPoolAssumption DEF Carries, Source
  <1>6. Carries(p) <=> Carries(p)' \/ caught[w]
    BY <1>3, <1>4, ThreadsApart, JobPoolAssumption DEF Carries, Source
  <1>7. /\ failed'[p] <=> failed[p] \/ caught[w]
        /\ \A q \in Producer \ {p} : failed'[q] = failed[q]
    BY <1>1 DEF PoolInv, TypeOK
  <1>8. \A q \in Producer : HasFailed(q)' <=> HasFailed(q)
    <2>1. \A q \in Producer : caught'[q] = caught[q]
      BY <1>2, <1>3, <1>1, WorkerAlone
    <2>2. ASSUME NEW q \in Producer
          PROVE  HasFailed(q)' <=> HasFailed(q)
      <3>1. CASE q = p
        BY <1>6, <1>7, <2>1, <3>1 DEF HasFailed
      <3>2. CASE q # p
        BY <1>5, <1>7, <2>1, <3>2 DEF HasFailed, Source
      <3>3. QED
        BY <3>1, <3>2
    <2>3. QED
      BY <2>2
  <1>9. CallErrors'
    BY <1>1, <1>8 DEF ErrorInv, CallErrors
  <1>10. BatchErrors'
    <2>1. Batch \in Source \ {p}
      BY JobPoolAssumption DEF Source
    <2>2. QED
      BY <1>1, <1>2, <1>3, <1>5, <2>1, WorkerAlone DEF ErrorInv, BatchErrors, BatchHasFailed
  <1>11. QED
    BY <1>1, <1>2, <1>3, <1>9, <1>10, WorkerAlone DEF ErrorInv

\* The exception goes from the worker to the completed tasks.
LEMMA FinishErrors ==
  ASSUME PoolInv, ErrorInv, NEW w \in Worker, Finish(w)
  PROVE  ErrorInv'
  <1>1. /\ completed' = IF job[w] = Batch THEN Append(completed, caught[w]) ELSE completed
        /\ caught' = [caught EXCEPT ![w] = FALSE]
        /\ UNCHANGED <<threw, failed, batchMutex>>
    BY DEF Finish, groupVars
  <1>2. OnlyMoves(w) /\ \A v \in Worker \ {w} : job'[v] = job[v]
    <2>1. CASE stop
      <3>1. pc' = [NotifyComplete EXCEPT ![w] = "done"] /\ job' = [job EXCEPT ![w] = None]
        BY <2>1 DEF Finish
      <3>2. QED
        BY <3>1, WokenComplete, ThreadsApart, MoveOf DEF PoolInv, TypeOK
    <2>2. CASE ~stop
      BY <2>2, WokenComplete, MoveOfTester DEF Finish, PoolInv
    <2>3. QED
      BY <2>1, <2>2
  <1>3. ~caught'[w] /\ \A t \in Thread \ {w} : caught'[t] = caught[t]
    BY <1>1, ThreadsApart DEF PoolInv, TypeOK
  <1>4. job[w] \in {Batch, None} /\ Batch \notin Producer /\ None \notin Source /\ Batch \in Source
    BY JobPoolAssumption DEF Finish, PoolInv, Jobs, JobFits, Source
  <1>5. \A p \in Producer : Carries(p)' <=> Carries(p)
    BY <1>2, <1>3, <1>4, ThreadsApart DEF Carries, Source
  <1>6. CallErrors'
    BY <1>1, <1>2, <1>3, <1>5, WorkerAlone DEF ErrorInv, CallErrors, HasFailed
  <1>7. BatchErrors'
    <2>1. Carries(Batch) <=> Carries(Batch)' \/ (job[w] = Batch /\ caught[w])
      BY <1>2, <1>3, <1>4, ThreadsApart DEF Carries
    <2>2. (\E i \in DOMAIN completed' : completed'[i])
            <=> (\E i \in DOMAIN completed : completed[i]) \/ (job[w] = Batch /\ caught[w])
      <3>1. completed \in Seq(BOOLEAN)
        BY DEF PoolInv, TypeOK
      <3>2. CASE job[w] = Batch
        <4>. DEFINE n == Len(completed)
        <4>1. n \in Nat /\ DOMAIN completed = 1 .. n
          BY <3>1
        <4>2. completed' = Append(completed, caught[w])
          BY <1>1, <3>2
        <4>3. DOMAIN completed' = 1 .. (n + 1)
          BY <3>1, <4>2
        <4>4. \A i \in 1 .. n : completed'[i] = completed[i]
          BY <3>1, <4>2
        <4>5. completed'[n + 1] = caught[w]
          BY <3>1, <4>2
        <4>6. \A i : i \in 1 .. (n + 1) <=> i \in 1 .. n \/ i = n + 1
          BY <4>1
        <4>. HIDE DEF n
        <4>7. QED
          BY <3>2, <4>1, <4>3, <4>4, <4>5, <4>6
      <3>3. CASE job[w] # Batch
        BY <1>1, <3>3
      <3>4. QED
        BY <3>2, <3>3
    <2>3. \A j \in Joiner : /\ pc'[j] \in JoinPlaces <=> pc[j] \in JoinPlaces
                            /\ caught'[j] = caught[j]
      BY <1>1, <1>2, <1>3, WorkerAlone
    <2>4. BatchHasFailed' <=> BatchHasFailed
      BY <2>1, <2>2, <2>3 DEF BatchHasFailed
    <2>5. QED
      BY <1>1, <2>4 DEF ErrorInv, BatchErrors
  <1>8. QED
    BY <1>1, <1>2, <1>3, <1>6, <1>7, WorkerAlone DEF ErrorInv

-----------------------------------------------------------------------------
LEMMA QuietProducerErrors ==
  ASSUME PoolInv, ErrorInv, NEW p \in Producer,
         AddGroupTask(p) \/ EnqueueTask(p) \/ AllAdded(p) \/ Retire(p) \/ CountRetired(p) \/ Wait(p)
  PROVE  ErrorInv'
  <1>1. PICK f, place : Woken(f) /\ pc' = [f EXCEPT ![p] = place]
    <2>1. CASE EnqueueTask(p)
      BY <2>1, WokenPending DEF EnqueueTask, PoolInv
    <2>2. CASE Retire(p)
      BY <2>2, WokenComplete, WokenNobody DEF Retire, PoolInv
    <2>3. CASE AddGroupTask(p) \/ AllAdded(p) \/ CountRetired(p) \/ Wait(p)
      BY <2>3, WokenNobody DEF AddGroupTask, AllAdded, CountRetired, Wait, PoolInv
    <2>4. QED
      BY <2>1, <2>2, <2>3
  <1>2. OnlyMoves(p)
    BY <1>1, MoveOf, ThreadsApart
  <1>3. UNCHANGED <<job, caught, failed, threw, completed, batchMutex>>
    BY DEF AddGroupTask, EnqueueTask, AllAdded, Retire, CountRetired, Wait, groupVars, batchVars
  <1>4. QED
    BY <1>2, <1>3, ErrorsStay, ThreadsApart

\* A call begins without an exception, and no worker has one of the call before.
LEMMA CallErrorsStart ==
  ASSUME PoolInv, ErrorInv, NEW p \in Producer, Call(p)
  PROVE  ErrorInv'
  <1>1. /\ failed' = [failed EXCEPT ![p] = FALSE]
        /\ caught' = [caught EXCEPT ![p] = FALSE]
        /\ threw' = [threw EXCEPT ![p] = FALSE]
        /\ pc' = [pc EXCEPT ![p] = "add"]
        /\ UNCHANGED <<job, completed, batchMutex>>
    BY DEF Call, batchVars
  <1>2. Busy(p) = {}
    BY RemainingCovers DEF Call, PoolInv, Progress, CallFits
  <1>3. OnlyMoves(p)
    BY <1>1, WokenNobody, MoveOf, ThreadsApart DEF PoolInv
  <1>4. ~caught'[p] /\ \A t \in Thread \ {p} : caught'[t] = caught[t]
    BY <1>1, ThreadsApart DEF PoolInv, TypeOK
  <1>5. /\ ~failed'[p] /\ \A q \in Producer \ {p} : failed'[q] = failed[q]
        /\ ~threw'[p] /\ \A s \in Source \ {p} : threw'[s] = threw[s]
    BY <1>1 DEF PoolInv, TypeOK, Source
  <1>6. \A s \in Source : Carries(s)' <=> Carries(s)
    BY <1>1, <1>4, ThreadsApart DEF Carries
  <1>7. ~Carries(p)
    BY <1>2 DEF Carries, Busy
  <1>8. CallErrors'
    <2>1. threw'[p] <=> HasFailed(p)'
      BY <1>4, <1>5, <1>6, <1>7 DEF HasFailed, Source
    <2>2. \A q \in Producer \ {p} : threw'[q] <=> HasFailed(q)'
      BY <1>4, <1>5, <1>6, ThreadsApart DEF ErrorInv, CallErrors, HasFailed, Source
    <2>3. QED
      BY <2>1, <2>2, Zenon DEF CallErrors
  <1>9. \A j \in Joiner : /\ pc'[j] \in JoinPlaces <=> pc[j] \in JoinPlaces
                          /\ pc'[j] = "idle" <=> pc[j] = "idle"
                          /\ caught'[j] = caught[j]
    BY <1>3, <1>4, ThreadsApart DEF OnlyMoves, JoinPlaces
  <1>10. BatchErrors'
    <2>1. Batch \in Source \ {p}
      BY JobPoolAssumption DEF Source
    <2>2. QED
      BY <1>1, <1>5, <1>6, <1>9, <2>1 DEF ErrorInv, BatchErrors, BatchHasFailed
  <1>11. HandedOver'
    BY <1>3, <1>4, ThreadsApart DEF ErrorInv, HandedOver, OnlyMoves
  <1>12. OneJoiner'
    BY <1>1, <1>9 DEF ErrorInv, OneJoiner, Joiner
  <1>13. QED
    BY <1>8, <1>10, <1>11, <1>12 DEF ErrorInv

-----------------------------------------------------------------------------
LEMMA QuietJoinerErrors ==
  ASSUME PoolInv, ErrorInv, NEW j \in Joiner, AddTask(j) \/ CompletionSpawns(j)
  PROVE  ErrorInv'
  <1>1. j \in Thread
    BY ThreadsApart
  <1>2. pc'[j] = pc[j] /\ OnlyMoves(j)
    BY <1>1, MoveOfSpawner DEF AddTask, CompletionSpawns
  <1>3. UNCHANGED <<job, caught, failed, threw, completed, batchMutex>>
    BY DEF AddTask, CompletionSpawns, groupVars
  <1>4. QED
    BY <1>1, <1>2, <1>3, ErrorsStay, ThreadsApart

(***************************************************************************)
(* A joiner's step leaves the producers and the workers alone.             *)
(***************************************************************************)
LEMMA JoinerAlone ==
  ASSUME PoolInv, ErrorInv, NEW j \in Joiner, OnlyMoves(j),
         \A t \in Thread \ {j} : caught'[t] = caught[t],
         \A p \in Producer : threw'[p] = threw[p],
         UNCHANGED <<job, failed>>
  PROVE  /\ CallErrors' /\ HandedOver'
         /\ Carries(Batch)' <=> Carries(Batch)
         /\ \A i \in Joiner \ {j} : /\ pc'[i] \in JoinPlaces <=> pc[i] \in JoinPlaces
                                    /\ pc'[i] = "idle" <=> pc[i] = "idle"
                                    /\ caught'[i] = caught[i]
  <1>1. /\ \A w \in Worker : caught'[w] = caught[w]
        /\ \A p \in Producer : caught'[p] = caught[p]
    BY ThreadsApart
  <1>2. \A s \in Source : Carries(s)' <=> Carries(s)
    BY <1>1 DEF Carries
  <1>3. CallErrors'
    BY <1>1, <1>2 DEF ErrorInv, CallErrors, HasFailed, Source
  <1>4. HandedOver'
    BY <1>1, ThreadsApart DEF ErrorInv, HandedOver, OnlyMoves
  <1>5. \A i \in Joiner \ {j} : /\ pc'[i] \in JoinPlaces <=> pc[i] \in JoinPlaces
                                /\ pc'[i] = "idle" <=> pc[i] = "idle"
                                /\ caught'[i] = caught[i]
    BY ThreadsApart DEF OnlyMoves, JoinPlaces
  <1>6. QED
    BY <1>2, <1>3, <1>4, <1>5 DEF Source

\* Only the one that holds _batchMutex joins.
LEMMA JoinsAlone ==
  ASSUME ErrorInv, NEW j \in Joiner, pc[j] \in JoinPlaces
  PROVE  \A i \in Joiner \ {j} : pc[i] \notin JoinPlaces
  BY DEF ErrorInv, OneJoiner

LEMMA JoinErrors ==
  ASSUME PoolInv, ErrorInv, NEW j \in Joiner,
         Join(j) \/ (j = Owner /\ Destroy)
  PROVE  ErrorInv'
  <1>1. /\ pc' = [pc EXCEPT ![j] = "join"]
        /\ batchMutex' = j
        /\ pc[j] = "idle"
        /\ UNCHANGED <<job, failed, threw, completed>>
    BY DEF Join, Destroy, groupVars
  <1>2. j \in Thread
    BY ThreadsApart
  <1>3. \A t \in Thread \ {j} : caught'[t] = caught[t]
    BY <1>2 DEF Join, Destroy, PoolInv, TypeOK
  <1>4. ~caught'[j]
    <2>1. CASE Join(j)
      BY <1>2, <2>1 DEF Join, PoolInv, TypeOK
    <2>2. CASE j = Owner /\ Destroy
      BY <1>1, <2>2 DEF Destroy, ErrorInv, OneJoiner
    <2>3. QED
      BY <2>1, <2>2
  <1>5. OnlyMoves(j) /\ pc'[j] = "join"
    BY <1>1, <1>2, WokenNobody, MoveOf DEF PoolInv
  <1>6. \A i \in Joiner : pc[i] \notin JoinPlaces
    <2>1. CASE Join(j)
      BY <2>1, JobPoolAssumption, ThreadsApart DEF Join, ErrorInv, OneJoiner
    <2>2. CASE j = Owner /\ Destroy
      BY <1>1, <2>2 DEF Destroy, Joiner, JoinPlaces
    <2>3. QED
      BY <2>1, <2>2
  <1>7. /\ CallErrors' /\ HandedOver'
        /\ Carries(Batch)' <=> Carries(Batch)
        /\ \A i \in Joiner \ {j} : /\ pc'[i] \in JoinPlaces <=> pc[i] \in JoinPlaces
                                   /\ pc'[i] = "idle" <=> pc[i] = "idle"
                                   /\ caught'[i] = caught[i]
    BY <1>1, <1>3, <1>5, JoinerAlone
  <1>8. BatchErrors'
    BY <1>1, <1>4, <1>6, <1>7 DEF ErrorInv, BatchErrors, BatchHasFailed
  <1>9. OneJoiner'
    BY <1>1, <1>5, <1>6, <1>7 DEF ErrorInv, OneJoiner, JoinPlaces, Joiner
  <1>10. QED
    BY <1>7, <1>8, <1>9 DEF ErrorInv


\* Within a join: what j has caught and what the completed tasks carry stays in the batch.
LEMMA JoinGoesOn ==
  ASSUME PoolInv, ErrorInv, NEW j \in Joiner, pc[j] \in JoinPlaces,
         OnlyMoves(j), pc'[j] \in JoinPlaces,
         \A t \in Thread \ {j} : caught'[t] = caught[t],
         UNCHANGED <<job, failed, threw, batchMutex>>,
         caught'[j] \/ (\E i \in DOMAIN completed' : completed'[i])
           <=> caught[j] \/ (\E i \in DOMAIN completed : completed[i])
  PROVE  ErrorInv'
  <1>1. /\ CallErrors' /\ HandedOver'
        /\ Carries(Batch)' <=> Carries(Batch)
        /\ \A i \in Joiner \ {j} : /\ pc'[i] \in JoinPlaces <=> pc[i] \in JoinPlaces
                                   /\ pc'[i] = "idle" <=> pc[i] = "idle"
                                   /\ caught'[i] = caught[i]
    BY JoinerAlone
  <1>2. \A i \in Joiner \ {j} : pc[i] \notin JoinPlaces
    BY JoinsAlone
  <1>3. BatchHasFailed <=> caught[j] \/ Carries(Batch) \/ \E i \in DOMAIN completed : completed[i]
    BY <1>2 DEF BatchHasFailed
  <1>4. BatchHasFailed' <=> caught'[j] \/ Carries(Batch)' \/ \E i \in DOMAIN completed' : completed'[i]
    BY <1>1, <1>2 DEF BatchHasFailed
  <1>5. threw[Batch] <=> BatchHasFailed
    BY DEF ErrorInv, BatchErrors
  <1>6. threw'[Batch] <=> BatchHasFailed'
    BY <1>1, <1>3, <1>4, <1>5
  <1>7. BatchErrors'
    BY <1>6 DEF BatchErrors
  <1>8. OneJoiner'
    BY <1>1 DEF ErrorInv, OneJoiner, JoinPlaces, Joiner
  <1>9. QED
    BY <1>1, <1>7, <1>8 DEF ErrorInv

LEMMA CompletionErrors ==
  ASSUME PoolInv, ErrorInv, NEW j \in Joiner, CompletionReturns(j)
  PROVE  ErrorInv'
  <1>1. PICK throws \in BOOLEAN : /\ caught' = [caught EXCEPT ![j] = @ \/ throws]
                                  /\ threw' = [threw EXCEPT ![Batch] = @ \/ throws]
    BY DEF CompletionReturns
  <1>2. j \in Thread /\ Batch \in Source /\ Batch \notin Producer
    BY ThreadsApart, JobPoolAssumption DEF Source
  <1>3. pc[j] = "completion" /\ pc' = [pc EXCEPT ![j] = "dispatch"]
    BY DEF CompletionReturns
  <1>4. OnlyMoves(j) /\ pc'[j] = "dispatch"
    BY <1>2, <1>3, WokenNobody, MoveOf DEF PoolInv
  <1>5. (caught'[j] <=> caught[j] \/ throws) /\ \A t \in Thread \ {j} : caught'[t] = caught[t]
    BY <1>1, <1>2 DEF PoolInv, TypeOK
  <1>6. (threw'[Batch] <=> threw[Batch] \/ throws) /\ \A p \in Producer : threw'[p] = threw[p]
    BY <1>1, <1>2 DEF PoolInv, TypeOK, Source
  <1>7. UNCHANGED <<job, failed, batchMutex, completed>>
    BY DEF CompletionReturns, groupVars, batchVars
  <1>8. BatchHasFailed <=> threw[Batch]
    BY DEF ErrorInv, BatchErrors
  <1>9. /\ CallErrors' /\ HandedOver'
        /\ Carries(Batch)' <=> Carries(Batch)
        /\ \A i \in Joiner \ {j} : /\ pc'[i] \in JoinPlaces <=> pc[i] \in JoinPlaces
                                   /\ pc'[i] = "idle" <=> pc[i] = "idle"
                                   /\ caught'[i] = caught[i]
    BY <1>4, <1>5, <1>6, <1>7, JoinerAlone
  <1>10. BatchErrors'
    <2>1. \A i \in Joiner \ {j} : pc[i] \notin JoinPlaces
      BY <1>3, JoinsAlone DEF JoinPlaces
    <2>2. BatchHasFailed' <=> BatchHasFailed \/ throws
      BY <1>3, <1>4, <1>5, <1>7, <1>9, <2>1 DEF BatchHasFailed, JoinPlaces
    <2>3. QED
      BY <1>6, <1>8, <2>2 DEF BatchErrors
  <1>11. OneJoiner'
    BY <1>3, <1>4, <1>7, <1>9 DEF ErrorInv, OneJoiner, JoinPlaces, Joiner
  <1>12. QED
    BY <1>9, <1>10, <1>11 DEF ErrorInv


(***************************************************************************)
(* Join takes the exceptions of completed tasks as it passes them.         *)
(***************************************************************************)
LEMMA DispatchErrors ==
  ASSUME PoolInv, ErrorInv, NEW j \in Joiner, pc[j] \in JoinPlaces, Dispatch(j),
         UNCHANGED <<job, failed, threw, batchMutex>>
  PROVE  ErrorInv'
  <1>1. j \in Thread /\ completed \in Seq(BOOLEAN) /\ caught \in [Thread -> BOOLEAN] /\ Woken(pc)
    BY ThreadsApart, WokenNobody DEF PoolInv, TypeOK
  <1>2. CASE /\ \A i \in DOMAIN completed : completed[i]
             /\ caught' = [caught EXCEPT ![j] = @ \/ completed # <<>>]
             /\ completed' = <<>>
             /\ pc' = [pc EXCEPT ![j] = "reportFn"]
    <2>1. OnlyMoves(j) /\ pc'[j] \in JoinPlaces
      BY <1>1, <1>2, MoveOf DEF JoinPlaces
    <2>2. (caught'[j] <=> caught[j] \/ completed # <<>>) /\ \A t \in Thread \ {j} : caught'[t] = caught[t]
      BY <1>1, <1>2
    <2>3. completed # <<>> <=> \E i \in DOMAIN completed : completed[i]
      <3>1. completed # <<>> => 1 \in DOMAIN completed
        BY <1>1
      <3>2. QED
        BY <1>2, <3>1
    <2>4. ~ \E i \in DOMAIN completed' : completed'[i]
      BY <1>2
    <2>5. QED
      BY <2>1, <2>2, <2>3, <2>4, JoinGoesOn
  <1>3. ASSUME NEW i \in DOMAIN completed, ~completed[i], \A k \in 1 .. (i - 1) : completed[k],
               caught' = [caught EXCEPT ![j] = @ \/ i > 1],
               completed' = SubSeq(completed, i + 1, Len(completed)),
               pc' = [pc EXCEPT ![j] = "completion"]
        PROVE  ErrorInv'
    <2>1. OnlyMoves(j) /\ pc'[j] \in JoinPlaces
      BY <1>1, <1>3, MoveOf DEF JoinPlaces
    <2>2. (caught'[j] <=> caught[j] \/ i > 1) /\ \A t \in Thread \ {j} : caught'[t] = caught[t]
      BY <1>1, <1>3
    <2>. DEFINE n == Len(completed)
    <2>3. n \in Nat /\ DOMAIN completed = 1 .. n /\ i \in 1 .. n
      BY <1>1
    <2>4. /\ DOMAIN completed' = 1 .. (n - i)
          /\ \A k \in 1 .. (n - i) : completed'[k] = completed[k + i]
      <3>1. Len(completed') = n - i /\ completed' \in Seq(BOOLEAN)
        BY <1>1, <1>3, <2>3
      <3>2. \A k \in 1 .. (n - i) : completed'[k] = completed[k + i]
        BY <1>1, <1>3, <2>3
      <3>3. QED
        BY <3>1, <3>2
    <2>. HIDE DEF n
    <2>5. i > 1 <=> \E k \in 1 .. (i - 1) : completed[k]
      <3>1. i > 1 => 1 \in 1 .. (i - 1)
        BY <2>3
      <3>2. QED
        BY <1>3, <2>3, <3>1
    <2>6. (\E k \in DOMAIN completed' : completed'[k]) <=> \E k \in (i + 1) .. n : completed[k]
      <3>1. ASSUME NEW k \in (i + 1) .. n, completed[k]
            PROVE  \E m \in DOMAIN completed' : completed'[m]
        <4>1. k - i \in 1 .. (n - i) /\ (k - i) + i = k
          BY <2>3
        <4>2. QED
          BY <2>4, <3>1, <4>1
      <3>2. ASSUME NEW k \in DOMAIN completed', completed'[k]
            PROVE  \E m \in (i + 1) .. n : completed[m]
        <4>1. k + i \in (i + 1) .. n
          BY <2>3, <2>4
        <4>2. QED
          BY <2>4, <3>2, <4>1
      <3>3. QED
        BY <3>1, <3>2
    <2>7. (\E k \in DOMAIN completed : completed[k])
            <=> (\E k \in 1 .. (i - 1) : completed[k]) \/ (\E k \in (i + 1) .. n : completed[k])
      <3>1. \A k : k \in 1 .. n <=> k \in 1 .. (i - 1) \/ k = i \/ k \in (i + 1) .. n
        BY <2>3
      <3>2. QED
        BY <1>3, <2>3, <3>1
    <2>8. QED
      BY <2>1, <2>2, <2>5, <2>6, <2>7, JoinGoesOn
  <1>4. QED
    BY <1>2, <1>3 DEF Dispatch

LEMMA AwaitErrors ==
  ASSUME PoolInv, ErrorInv, NEW j \in Joiner, pc[j] \in JoinPlaces, AwaitCompleted(j),
         UNCHANGED <<job, failed, threw, batchMutex>>
  PROVE  ErrorInv'
  <1>1. CASE Drained \/ completed # <<>>
    BY <1>1, DispatchErrors DEF AwaitCompleted
  <1>2. CASE ~(Drained \/ completed # <<>>)
    <2>1. pc' = [pc EXCEPT ![j] = "asleep"] /\ UNCHANGED <<caught, completed>>
      BY <1>2 DEF AwaitCompleted
    <2>2. OnlyMoves(j) /\ pc'[j] \in JoinPlaces
      BY <2>1, WokenNobody, MoveOf, ThreadsApart DEF PoolInv, JoinPlaces
    <2>3. QED
      BY <2>1, <2>2, JoinGoesOn
  <1>3. QED
    BY <1>1, <1>2

\* When nothing works, no worker has an exception of a task without a group.
LEMMA DrainedCarriesNothing ==
  ASSUME PoolInv, Drained
  PROVE  ~Carries(Batch)
  <1>1. Working = {}
    BY CountWorkers, WorkingIsWorkers DEF Drained, PoolInv, ProcessingCounts
  <1>2. \A w \in Worker : job[w] # Batch
    <2>1. \A w \in Worker : pc[w] \in {"look", "parked", "done"}
      BY <1>1 DEF Working, PoolInv, TypeOK, WorkerPlaces
    <2>2. None # Batch
      BY JobPoolAssumption DEF Source
    <2>3. QED
      BY <2>1, <2>2 DEF PoolInv, Jobs, JobFits
  <1>3. QED
    BY <1>2 DEF Carries

LEMMA JoinStepErrors ==
  ASSUME PoolInv, ErrorInv, NEW j \in Joiner, JoinWaits(j) \/ JoinDispatches(j) \/ JoinEnds(j)
  PROVE  ErrorInv'
  <1>1. pc[j] \in JoinPlaces /\ UNCHANGED <<job, failed>>
    BY DEF JoinWaits, JoinDispatches, JoinEnds, JoinPlaces, groupVars
  <1>2. CASE JoinWaits(j)
    BY <1>1, <1>2, AwaitErrors DEF JoinWaits
  <1>3. CASE JoinDispatches(j)
    BY <1>1, <1>3, DispatchErrors DEF JoinDispatches
  <1>4. CASE JoinEnds(j)
    <2>1. CASE ~(Drained /\ completed = <<>>)
      BY <1>1, <1>4, <2>1, AwaitErrors DEF JoinEnds
    <2>2. CASE Drained /\ completed = <<>>
      <3>. PICK place \in {"stop", "idle"} : place = IF j = Owner THEN "stop" ELSE "idle"
        OBVIOUS
      <3>1. /\ pc' = [pc EXCEPT ![j] = place]
            /\ batchMutex' = None
            /\ threw' = [threw EXCEPT ![Batch] = FALSE]
            /\ UNCHANGED <<caught, completed>>
        BY <1>4, <2>2 DEF JoinEnds
      <3>2. OnlyMoves(j) /\ pc'[j] = place
        BY <3>1, WokenNobody, MoveOf, ThreadsApart DEF PoolInv
      <3>3. ~threw'[Batch] /\ \A p \in Producer : threw'[p] = threw[p]
        BY <3>1, JobPoolAssumption DEF PoolInv, TypeOK, Source
      <3>4. /\ CallErrors' /\ HandedOver'
            /\ Carries(Batch)' <=> Carries(Batch)
            /\ \A i \in Joiner \ {j} : /\ pc'[i] \in JoinPlaces <=> pc[i] \in JoinPlaces
                                       /\ pc'[i] = "idle" <=> pc[i] = "idle"
                                       /\ caught'[i] = caught[i]
        BY <1>1, <3>1, <3>2, <3>3, JoinerAlone
      <3>5. \A i \in Joiner : pc'[i] \notin JoinPlaces
        BY <1>1, <3>2, <3>4, JoinsAlone DEF JoinPlaces
      <3>6. BatchErrors'
        BY <2>2, <3>1, <3>3, <3>4, <3>5, DrainedCarriesNothing DEF BatchErrors, BatchHasFailed
      <3>7. OneJoiner'
        <4>1. \A i \in Joiner : None # i
          BY JobPoolAssumption DEF Thread
        <4>2. pc'[Owner] = "idle" => pc[Owner] = "idle"
          BY <3>2, <3>4 DEF Joiner
        <4>3. QED
          BY <3>1, <3>5, <4>1, <4>2 DEF ErrorInv, OneJoiner
      <3>8. QED
        BY <3>4, <3>6, <3>7 DEF ErrorInv
    <2>3. QED
      BY <2>1, <2>2
  <1>5. QED
    BY <1>2, <1>3, <1>4

LEMMA StopErrors ==
  ASSUME PoolInv, ErrorInv, StopWorkers \/ Reaped
  PROVE  ErrorInv'
  <1>1. Owner \in Joiner /\ Owner \in Thread
    BY ThreadsApart DEF Joiner
  <1>2. OnlyMoves(Owner) /\ pc'[Owner] \in {"reap", "done"} /\ pc[Owner] \in {"stop", "reap"}
    <2>1. CASE StopWorkers
      <3>1. \A t \in Thread : pc[t] = "parked" => t \in Worker
        BY DEF PoolInv, TypeOK, Thread, ProducerPlaces, JoinerPlaces
      <3>2. QED
        BY <1>1, <2>1, <3>1 DEF StopWorkers, OnlyMoves
    <2>2. CASE Reaped
      BY <1>1, <2>2, WokenNobody, MoveOf DEF Reaped, PoolInv
    <2>3. QED
      BY <2>1, <2>2
  <1>3. UNCHANGED <<job, caught, failed, threw, completed, batchMutex>>
    BY DEF StopWorkers, Reaped, groupVars, batchVars
  <1>4. QED
    BY <1>1, <1>2, <1>3, ErrorsStay, ThreadsApart DEF JoinPlaces

LEMMA ErrorInvStart ==
  ASSUME Init
  PROVE  ErrorInv
  <1>1. /\ \A t \in Thread : ~caught[t]
        /\ \A p \in Producer : ~failed[p]
        /\ \A s \in Source : ~threw[s]
        /\ \A j \in Joiner : pc[j] = "idle"
        /\ completed = <<>> /\ batchMutex = None
    BY ThreadsApart DEF Init
  <1>2. \A s \in Source : ~Carries(s)
    BY <1>1, ThreadsApart DEF Carries
  <1>3. CallErrors
    BY <1>1, <1>2, ThreadsApart DEF CallErrors, HasFailed, Source
  <1>4. BatchErrors
    BY <1>1, <1>2, ThreadsApart DEF BatchErrors, BatchHasFailed, Source
  <1>5. HandedOver
    BY <1>1, ThreadsApart DEF HandedOver
  <1>6. OneJoiner
    BY <1>1, ThreadsApart, JobPoolAssumption DEF OneJoiner, JoinPlaces, Joiner
  <1>7. QED
    BY <1>3, <1>4, <1>5, <1>6 DEF ErrorInv

LEMMA ErrorInvStep ==
  ASSUME PoolInv, ErrorInv, [Next]_vars
  PROVE  ErrorInv'
  <1>1. ASSUME NEW w \in Worker, WorkerStep(w)
        PROVE  ErrorInv'
    BY <1>1, QuietWorkerErrors, BatchWorkErrors, ClaimErrors, RunErrors, ReportErrors, FinishErrors
    DEF WorkerStep, Runner
  <1>2. ASSUME NEW p \in Producer, Call(p) \/ ProducerStep(p)
        PROVE  ErrorInv'
    BY <1>2, CallErrorsStart, QuietProducerErrors, ClaimErrors, RunErrors DEF ProducerStep, Runner
  <1>3. ASSUME NEW j \in Joiner, AddTask(j) \/ Join(j) \/ JoinStep(j)
        PROVE  ErrorInv'
    BY <1>3, QuietJoinerErrors, JoinErrors, JoinStepErrors, CompletionErrors DEF JoinStep
  <1>4. CASE Destroy
    BY <1>4, JoinErrors DEF Joiner
  <1>5. CASE StopWorkers \/ Reaped
    BY <1>5, StopErrors
  <1>6. CASE UNCHANGED vars
    BY <1>6 DEF vars, ErrorInv, CallErrors, HasFailed, BatchErrors, BatchHasFailed, Carries, HandedOver,
                OneJoiner
  <1>7. QED
    BY <1>1, <1>2, <1>3, <1>4, <1>5, <1>6 DEF Next, Gone, Joiner

(***************************************************************************)
(* "One producer cannot consume or rethrow another producer's result"      *)
(* (ProcessQueue): a call that is about to return throws exactly if its    *)
(* own work has thrown, and Join exactly if a task or a completion of its  *)
(* batch has.                                                              *)
(***************************************************************************)
THEOREM ErrorsReachTheirCaller == Spec => []ErrorsStayAtHome
  <1>1. Init => PoolInv /\ ErrorInv
    BY PoolInvStart, ErrorInvStart
  <1>2. PoolInv /\ ErrorInv /\ [Next]_vars => (PoolInv /\ ErrorInv)'
    BY PoolInvStep, ErrorInvStep
  <1>3. PoolInv /\ ErrorInv => ErrorsStayAtHome
    <2>1. ASSUME PoolInv, ErrorInv, NEW p \in Producer, Returning(p)
          PROVE  threw[p] <=> caught[p] \/ failed[p]
      <3>1. Busy(p) = {}
        BY <2>1, RemainingCovers DEF Returning
      <3>2. ~Carries(p)
        BY <3>1 DEF Busy, Carries
      <3>3. QED
        BY <2>1, <3>2 DEF ErrorInv, CallErrors, HasFailed
    <2>2. ASSUME PoolInv, ErrorInv, NEW j \in Joiner, Leaving(j)
          PROVE  threw[Batch] <=> caught[j]
      <3>1. \A i \in Joiner \ {j} : pc[i] \notin JoinPlaces
        BY <2>2, JoinsAlone DEF Leaving, JoinPlaces
      <3>2. BatchHasFailed <=> caught[j]
        BY <2>2, <3>1, DrainedCarriesNothing DEF Leaving, JoinPlaces, BatchHasFailed
      <3>3. QED
        BY <2>2, <3>2 DEF ErrorInv, BatchErrors
    <2>3. QED
      BY <2>1, <2>2 DEF ErrorsStayAtHome
  <1>4. QED
    BY <1>1, <1>2, <1>3, PTL DEF Spec

-----------------------------------------------------------------------------
(***************************************************************************)
(* The destructor: once its join has ended nobody is left who could add a  *)
(* task, and the workers have nothing to take.                             *)
(***************************************************************************)
StopPlaces == {"stop", "reap", "done"}

StopInv ==
  /\ closing <=> pc[Owner] # "idle"
  /\ closing => \A t \in Producer \union Batcher : pc[t] = "idle"
  /\ stop <=> pc[Owner] \in {"reap", "done"}
  /\ pc[Owner] \in StopPlaces => Drained /\ completed = <<>>

\* A step of another thread than the owner.
LEMMA StopStays ==
  ASSUME PoolInv, StopInv, NEW t \in Thread, t # Owner, OnlyMoves(t), UNCHANGED <<closing, stop>>,
         t \notin Worker => ~closing,
         pc[Owner] \in StopPlaces => UNCHANGED <<queued, processing, completed>>
  PROVE  StopInv'
  <1>1. Owner \in Joiner /\ Owner \in Thread /\ Owner \notin Worker /\ Owner \notin Producer
    BY ThreadsApart DEF Joiner
  <1>2. pc'[Owner] = pc[Owner] \/ (pc[Owner] = "asleep" /\ pc'[Owner] = "join")
    BY <1>1 DEF OnlyMoves
  <1>3. ASSUME closing
        PROVE  \A u \in Producer \union Batcher : pc'[u] = "idle"
    <2>1. t \in Worker
      BY <1>3
    <2>2. \A u \in Producer \union Batcher : u \in Thread \ {t} /\ pc[u] = "idle"
      BY <1>3, <2>1, ThreadsApart DEF StopInv, Joiner
    <2>3. QED
      BY <2>2 DEF OnlyMoves
  <1>4. pc[Owner] \in StopPlaces => Drained' /\ completed' = <<>>
    BY DEF StopInv, Drained, HasPendingTasks
  <1>5. QED
    BY <1>2, <1>3, <1>4 DEF StopInv, StopPlaces

\* After the join of the destructor no worker is at work.
LEMMA NobodyWorks ==
  ASSUME PoolInv, StopInv, pc[Owner] \in StopPlaces
  PROVE  Working = {} /\ ~HasPendingTasks /\ processing = 0
  BY CountWorkers, WorkingIsWorkers DEF StopInv, Drained, PoolInv, ProcessingCounts

LEMMA OwnerApart ==
  /\ Owner \in Joiner /\ Owner \in Thread
  /\ \A w \in Worker : w # Owner /\ w \in Thread
  /\ \A p \in Producer : p # Owner /\ p \in Thread /\ p \notin Worker
  /\ \A b \in Batcher : b # Owner /\ b \in Thread /\ b \notin Worker /\ b \in Joiner
  BY ThreadsApart, JobPoolAssumption DEF Joiner

LEMMA LookStop ==
  ASSUME PoolInv, StopInv, NEW w \in Worker, Look(w)
  PROVE  StopInv'
  <1>1. OnlyMoves(w)
    BY WokenNobody, MoveOfTester DEF Look, PoolInv
  <1>2. UNCHANGED <<closing, stop, completed>>
    BY DEF Look, batchVars
  <1>3. pc[Owner] \in StopPlaces => UNCHANGED <<queued, processing>>
    <2>1. pc[Owner] \in StopPlaces => ~HasPendingTasks
      BY NobodyWorks
    <2>2. HasPendingTasks \/ UNCHANGED <<queued, processing>>
      BY DEF Look, TestQueue, Foremost, HasPendingTasks
    <2>3. QED
      BY <2>1, <2>2
  <1>4. QED
    BY <1>1, <1>2, <1>3, StopStays, OwnerApart

LEMMA WorkStop ==
  ASSUME PoolInv, StopInv, NEW w \in Worker,
         WorkerRunsBatchTask(w) \/ WorkerSpawns(w) \/ Claim(w) \/ Run(w) \/ Report(w) \/ Finish(w)
  PROVE  StopInv'
  <1>1. w \in Thread /\ Woken(pc)
    BY ThreadsApart, WokenNobody DEF PoolInv
  <1>2. w \in Working
    BY DEF Working, WorkerRunsBatchTask, WorkerSpawns, Claim, Run, Report, Finish
  <1>3. pc[Owner] \notin StopPlaces
    BY <1>2, NobodyWorks
  <1>4. UNCHANGED <<closing, stop>>
    BY DEF WorkerRunsBatchTask, WorkerSpawns, Claim, Run, Report, Finish, batchVars
  <1>5. OnlyMoves(w)
    <2>1. CASE WorkerSpawns(w)
      BY <1>1, <2>1, MoveOfSpawner DEF WorkerSpawns
    <2>2. CASE WorkerRunsBatchTask(w) \/ Claim(w) \/ Run(w)
      <3>1. \E place : pc' = [pc EXCEPT ![w] = place]
        BY <2>2 DEF WorkerRunsBatchTask, Claim, Run
      <3>2. QED
        BY <1>1, <3>1, MoveOf
    <2>3. CASE Report(w)
      <3>1. job[w] \in Producer
        BY <2>3 DEF Report, PoolInv, Jobs, JobFits
      <3>2. PICK f : Woken(f) /\ pc' = [f EXCEPT ![w] = "finish"]
        BY <1>1, <2>3, <3>1, WokenGroup DEF Report, PoolInv
      <3>3. QED
        BY <1>1, <3>2, MoveOf
    <2>4. CASE Finish(w)
      <3>1. CASE stop
        BY <1>1, <2>4, <3>1, WokenComplete, MoveOf DEF Finish, PoolInv
      <3>2. CASE ~stop
        BY <2>4, <3>2, WokenComplete, MoveOfTester DEF Finish, PoolInv
      <3>3. QED
        BY <3>1, <3>2
    <2>5. QED
      BY <2>1, <2>2, <2>3, <2>4
  <1>6. QED
    BY <1>1, <1>3, <1>4, <1>5, StopStays, OwnerApart

LEMMA ProducerMovesAlone ==
  ASSUME PoolInv, NEW p \in Producer, Call(p) \/ ProducerStep(p)
  PROVE  OnlyMoves(p)
  <1>1. p \in Thread /\ Woken(pc) /\ Woken(NotifyComplete) /\ \A f \in NotifyOnePending : Woken(f)
    BY ThreadsApart, WokenNobody, WokenComplete, WokenPending DEF PoolInv
  <1>2. CASE EnqueueTask(p)
    BY <1>1, <1>2, MoveOf DEF EnqueueTask
  <1>3. CASE Retire(p)
    BY <1>1, <1>3, MoveOf DEF Retire
  <1>4. CASE Call(p) \/ AddGroupTask(p) \/ AllAdded(p) \/ Claim(p) \/ Run(p) \/ CountRetired(p) \/ Wait(p)
    <2>1. \E place : pc' = [pc EXCEPT ![p] = place]
      BY <1>4 DEF Call, AddGroupTask, AllAdded, Claim, Run, CountRetired, Wait
    <2>2. QED
      BY <1>1, <2>1, MoveOf
  <1>5. QED
    BY <1>2, <1>3, <1>4 DEF ProducerStep

LEMMA ProducerStop ==
  ASSUME PoolInv, StopInv, NEW p \in Producer, Call(p) \/ ProducerStep(p)
  PROVE  StopInv'
  <1>1. ~closing
    <2>1. Call(p) \/ pc[p] # "idle"
      BY DEF ProducerStep, AddGroupTask, EnqueueTask, AllAdded, Claim, Run, Retire, CountRetired, Wait
    <2>2. QED
      BY <2>1 DEF StopInv, Call
  <1>2. pc[Owner] \notin StopPlaces
    BY <1>1 DEF StopInv, StopPlaces
  <1>3. UNCHANGED <<closing, stop>>
    BY DEF Call, ProducerStep, AddGroupTask, EnqueueTask, AllAdded, Claim, Run, Retire, CountRetired,
           Wait, batchVars
  <1>4. QED
    BY <1>1, <1>2, <1>3, ProducerMovesAlone, StopStays, OwnerApart

LEMMA JoinerMovesAlone ==
  ASSUME PoolInv, NEW j \in Joiner, AddTask(j) \/ Join(j) \/ JoinStep(j)
  PROVE  OnlyMoves(j)
  <1>1. j \in Thread /\ Woken(pc)
    BY ThreadsApart, WokenNobody DEF PoolInv
  <1>2. CASE AddTask(j) \/ CompletionSpawns(j)
    BY <1>1, <1>2, MoveOfSpawner DEF AddTask, CompletionSpawns
  <1>3. CASE Join(j) \/ CompletionReturns(j)
    BY <1>1, <1>3, MoveOf DEF Join, CompletionReturns
  <1>4. CASE JoinWaits(j) \/ JoinDispatches(j) \/ JoinEnds(j)
    <2>1. \E place : pc' = [pc EXCEPT ![j] = place]
      BY <1>4 DEF JoinWaits, JoinDispatches, JoinEnds, AwaitCompleted, Dispatch
    <2>2. QED
      BY <1>1, <2>1, MoveOf
  <1>5. QED
    BY <1>2, <1>3, <1>4 DEF JoinStep

LEMMA BatcherStop ==
  ASSUME PoolInv, StopInv, NEW b \in Batcher, AddTask(b) \/ Join(b) \/ JoinStep(b)
  PROVE  StopInv'
  <1>1. ~closing
    <2>1. AddTask(b) \/ Join(b) \/ pc[b] # "idle"
      BY DEF JoinStep, JoinWaits, CompletionReturns, CompletionSpawns, JoinDispatches, JoinEnds
    <2>2. QED
      BY <2>1 DEF StopInv, AddTask, Join
  <1>2. pc[Owner] \notin StopPlaces
    BY <1>1 DEF StopInv, StopPlaces
  <1>3. UNCHANGED <<closing, stop>>
    BY DEF AddTask, Join, JoinStep, JoinWaits, CompletionReturns, CompletionSpawns, JoinDispatches,
           JoinEnds, batchVars
  <1>4. QED
    BY <1>1, <1>2, <1>3, JoinerMovesAlone, StopStays, OwnerApart

\* The join of the destructor: it leaves only when nothing is left.
LEMMA OwnerStop ==
  ASSUME PoolInv, StopInv, JoinStep(Owner)
  PROVE  StopInv'
  <1>1. OnlyMoves(Owner)
    BY OwnerApart, JoinerMovesAlone
  <1>2. pc[Owner] \in JoinPlaces /\ UNCHANGED <<closing, stop>>
    BY DEF JoinStep, JoinWaits, CompletionReturns, CompletionSpawns, JoinDispatches,
           JoinEnds, batchVars, JoinPlaces
  <1>3. \/ pc'[Owner] \in JoinPlaces
        \/ pc'[Owner] = "stop" /\ Drained /\ completed = <<>> /\ UNCHANGED <<queued, processing, completed>>
    <2>1. pc \in [Thread -> Places] /\ Owner \in Thread
      BY OwnerApart, WokenNobody DEF PoolInv, Woken
    <2>2. CASE CompletionSpawns(Owner)
      BY <2>1, <2>2, MoveOfSpawner DEF CompletionSpawns, JoinPlaces
    <2>3. CASE CompletionReturns(Owner)
      BY <2>1, <2>3 DEF CompletionReturns, JoinPlaces
    <2>4. CASE Dispatch(Owner) \/ AwaitCompleted(Owner)
      BY <2>1, <2>4 DEF AwaitCompleted, Dispatch, JoinPlaces
    <2>5. CASE JoinEnds(Owner) /\ Drained /\ completed = <<>>
      BY <2>1, <2>5 DEF JoinEnds
    <2>6. QED
      BY <2>2, <2>3, <2>4, <2>5 DEF JoinStep, JoinWaits, JoinDispatches, JoinEnds
  <1>4. closing /\ ~stop /\ \A t \in Producer \union Batcher : pc[t] = "idle"
    BY <1>2 DEF StopInv, JoinPlaces
  <1>5. \A t \in Producer \union Batcher : pc'[t] = "idle"
    <2>1. \A t \in Producer \union Batcher : t \in Thread \ {Owner}
      BY OwnerApart
    <2>2. QED
      BY <1>1, <1>4, <2>1 DEF OnlyMoves
  <1>6. pc'[Owner] = "stop" => Drained' /\ completed' = <<>>
    BY <1>3 DEF Drained, HasPendingTasks, JoinPlaces
  <1>7. QED
    BY <1>2, <1>3, <1>4, <1>5, <1>6 DEF StopInv, StopPlaces, JoinPlaces

LEMMA DestructorStop ==
  ASSUME PoolInv, StopInv, Destroy \/ StopWorkers \/ Reaped
  PROVE  StopInv'
  <1>1. pc \in [Thread -> Places] /\ Owner \in Thread
    BY OwnerApart, WokenNobody DEF PoolInv, Woken
  <1>2. \A t \in Producer \union Batcher : t \in Thread \ {Owner} /\ pc[t] # "parked"
    BY OwnerApart DEF PoolInv, TypeOK, ProducerPlaces, JoinerPlaces
  <1>3. UNCHANGED <<queued, processing, completed>>
    BY DEF Destroy, StopWorkers, Reaped, batchVars, groupVars
  <1>4. Drained' <=> Drained
    BY <1>3 DEF Drained, HasPendingTasks
  <1>5. CASE Destroy
    <2>1. pc' = [pc EXCEPT ![Owner] = "join"] /\ closing' = TRUE /\ stop' = stop
      BY <1>5 DEF Destroy
    <2>2. ~stop /\ \A t \in Producer \union Batcher : pc'[t] = "idle"
      BY <1>1, <1>2, <1>5, <2>1 DEF Destroy, StopInv
    <2>3. QED
      BY <1>1, <2>1, <2>2 DEF StopInv, StopPlaces
  <1>6. CASE StopWorkers
    <2>1. pc[Owner] = "stop" /\ pc'[Owner] = "reap" /\ stop' /\ closing' = closing
      BY <1>1, <1>6 DEF StopWorkers
    <2>2. \A t \in Producer \union Batcher : pc'[t] = pc[t]
      BY <1>2, <1>6 DEF StopWorkers
    <2>3. QED
      BY <1>3, <1>4, <2>1, <2>2 DEF StopInv, StopPlaces
  <1>7. CASE Reaped
    <2>1. pc[Owner] = "reap" /\ pc' = [pc EXCEPT ![Owner] = "done"] /\ UNCHANGED <<stop, closing>>
      BY <1>7 DEF Reaped, batchVars
    <2>2. pc'[Owner] = "done" /\ \A t \in Producer \union Batcher : pc'[t] = pc[t]
      BY <1>1, <1>2, <2>1
    <2>3. QED
      BY <1>3, <1>4, <2>1, <2>2 DEF StopInv, StopPlaces
  <1>8. QED
    BY <1>5, <1>6, <1>7

LEMMA StopInvStep ==
  ASSUME PoolInv, StopInv, [Next]_vars
  PROVE  StopInv'
  <1>1. ASSUME NEW w \in Worker, WorkerStep(w)
        PROVE  StopInv'
    BY <1>1, LookStop, WorkStop DEF WorkerStep
  <1>2. ASSUME NEW p \in Producer, Call(p) \/ ProducerStep(p)
        PROVE  StopInv'
    BY <1>2, ProducerStop
  <1>3. ASSUME NEW j \in Joiner, JoinStep(j)
        PROVE  StopInv'
    BY <1>3, BatcherStop, OwnerStop DEF Joiner
  <1>4. CASE UNCHANGED vars
    BY <1>4 DEF vars, StopInv, Drained, HasPendingTasks
  <1>5. QED
    BY <1>1, <1>2, <1>3, <1>4, BatcherStop, DestructorStop DEF Next, Gone

(***************************************************************************)
(* "Joining here makes other owners safe when their lifetime ends while    *)
(* work is still in flight" (~JobPool): when the workers are told to stop, *)
(* every task has run and every completion was called, whoever added them  *)
(* and however often completions added more.                               *)
(***************************************************************************)
THEOREM NothingIsLeftBehind == Spec => []NothingLeftAtStop
  <1>1. Init => PoolInv /\ StopInv
    <2>1. Init => StopInv
      BY OwnerApart, ThreadsApart DEF Init, StopInv, StopPlaces, Joiner
    <2>2. QED
      BY <2>1, PoolInvStart
  <1>2. PoolInv /\ StopInv /\ [Next]_vars => (PoolInv /\ StopInv)'
    BY PoolInvStep, StopInvStep
  <1>3. PoolInv /\ StopInv => NothingLeftAtStop
    BY DEF StopInv, StopPlaces, NothingLeftAtStop
  <1>4. QED
    BY <1>1, <1>2, <1>3, PTL DEF Spec

-----------------------------------------------------------------------------
(***************************************************************************)
(* Every index below nextIndex has run, or somebody is going to run it, or *)
(* the call throws.                                                        *)
(***************************************************************************)
Holds(t, p, i) ==
  pc[t] = "run" /\ CallOf(t) = p /\ range[t].at <= i /\ i < range[t].last

Covered(p) ==
  threw[p] \/ \A i \in Nat : i < next[p] /\ i < loop[p].count =>
                 i \in ran[p] \/ \E t \in Runner : Holds(t, p, i)

InLoop ==
  /\ \A p \in Producer : \A i \in ran[p] : i < loop[p].count
  /\ \A t \in Runner : pc[t] = "run" => range[t].last <= loop[CallOf(t)].count

CoverInv == InLoop /\ \A p \in Producer : Covered(p)

LEMMA CoverStays ==
  ASSUME PoolInv, CoverInv, NobodyBegins, UNCHANGED <<range, next, ran, loop>>,
         \A p \in Producer : threw'[p] = threw[p]
  PROVE  CoverInv'
  <1>1. InLoop'
    BY DEF CoverInv, InLoop, NobodyBegins
  <1>2. ASSUME NEW p \in Producer
        PROVE  Covered(p)'
    <2>1. \A t \in Runner, i \in Nat : Holds(t, p, i) => Holds(t, p, i)'
      BY DEF Holds, NobodyBegins
    <2>2. QED
      BY <2>1 DEF CoverInv, Covered
  <1>3. QED
    BY <1>1, <1>2 DEF CoverInv

LEMMA ClaimCovers ==
  ASSUME PoolInv, IndexInv, CoverInv, NEW t \in Runner, Claim(t)
  PROVE  CoverInv'
  <1>1. pc[t] = "claim" /\ t \in Thread
    BY ThreadsApart DEF Claim, Runner
  <1>. PICK p \in Producer : p = CallOf(t)
    BY <1>1, CallOfType DEF Runner
  <1>. PICK first \in Nat : first = next[p]
    BY DEF PoolInv, TypeOK
  <1>. PICK count \in Nat, grain \in Nat : count = loop[p].count /\ grain = loop[p].grain
    BY LoopShape DEF PoolInv
  <1>2. /\ next' = [next EXCEPT ![p] = first + grain]
        /\ UNCHANGED <<job, loop, ran, threw>>
        /\ IF first >= count
             THEN pc' = [pc EXCEPT ![t] = Stops(t)] /\ UNCHANGED range
             ELSE /\ range' = [range EXCEPT ![t] = [at |-> first, last |-> first + Min2(grain, count - first)]]
                  /\ pc' = [pc EXCEPT ![t] = "run"]
    BY DEF Claim
  <1>3. next'[p] = first + grain /\ \A q \in Producer \ {p} : next'[q] = next[q]
    BY <1>2 DEF PoolInv, TypeOK
  <1>4. \A u \in Runner \ {t} : pc'[u] = pc[u] /\ range'[u] = range[u]
    BY <1>2 DEF PoolInv, TypeOK, Runner, Thread
  <1>5. \A u \in Runner : CallOf(u)' = CallOf(u)
    BY <1>2 DEF CallOf
  <1>6. \A u \in Runner, q \in Producer, i \in Nat : Holds(u, q, i) => Holds(u, q, i)'
    BY <1>1, <1>4, <1>5 DEF Holds
  <1>7. \A q \in Producer \ {p} : Covered(q)'
    BY <1>2, <1>3, <1>6 DEF CoverInv, Covered
  <1>8. CASE first >= count
    <2>1. pc'[t] # "run"
      BY <1>1, <1>2, <1>8 DEF PoolInv, TypeOK, Stops
    <2>2. Covered(p)'
      BY <1>2, <1>3, <1>6, <1>8 DEF CoverInv, Covered
    <2>3. InLoop'
      BY <1>2, <1>4, <1>5, <2>1 DEF CoverInv, InLoop
    <2>4. QED
      BY <1>7, <2>2, <2>3 DEF CoverInv
  <1>9. CASE ~(first >= count)
    <2>. PICK last \in Nat : last = first + Min2(grain, count - first)
      BY <1>9 DEF Min2
    <2>1. range'[t].at = first /\ range'[t].last = last /\ pc'[t] = "run"
      BY <1>1, <1>2, <1>9, SMTT(20) DEF PoolInv, TypeOK, Runner
    <2>2. last <= count /\ \A i \in Nat : i < first + grain /\ i < count => i < last
      BY <1>9 DEF Min2
    <2>3. InLoop'
      <3>1. \A u \in Runner : pc'[u] = "run" => range'[u].last <= loop'[CallOf(u)'].count
        BY <1>2, <1>4, <1>5, <2>1, <2>2 DEF CoverInv, InLoop
      <3>2. QED
        BY <1>2, <3>1 DEF CoverInv, InLoop
    <2>4. Covered(p)'
      <3>1. \A i \in Nat : first <= i /\ i < first + grain /\ i < count => Holds(t, p, i)'
        BY <1>5, <2>1, <2>2 DEF Holds
      <3>2. \A i \in Nat : first <= i \/ i < first
        OBVIOUS
      <3>3. QED
        BY <1>2, <1>3, <1>6, <3>1, <3>2 DEF CoverInv, Covered
    <2>5. QED
      BY <1>7, <2>3, <2>4 DEF CoverInv
  <1>10. QED
    BY <1>8, <1>9

LEMMA RunCovers ==
  ASSUME PoolInv, IndexInv, CoverInv, NEW t \in Runner, Run(t)
  PROVE  CoverInv'
  <1>1. pc[t] = "run" /\ t \in Thread
    BY ThreadsApart DEF Run, Runner
  <1>. PICK p \in Producer : p = CallOf(t)
    BY <1>1, CallOfType DEF Runner
  <1>. PICK k \in Nat, last \in Nat : k = range[t].at /\ last = range[t].last
    BY DEF PoolInv, TypeOK, Runner
  <1>2. UNCHANGED <<job, loop, next>> /\ ran' = [ran EXCEPT ![p] = @ \union {k}]
    BY DEF Run
  <1>3. ran'[p] = ran[p] \union {k} /\ \A q \in Producer \ {p} : ran'[q] = ran[q]
    BY <1>2 DEF PoolInv, TypeOK
  <1>4. \A u \in Runner \ {t} : pc'[u] = pc[u] /\ range'[u] = range[u]
    BY DEF Run, PoolInv, TypeOK, Runner, Thread
  <1>5. \A u \in Runner : CallOf(u)' = CallOf(u)
    BY <1>2 DEF CallOf
  <1>6. k < last /\ last <= loop[p].count /\ loop[p].count \in Nat
    BY <1>1, LoopShape DEF IndexInv, ClaimFits, CoverInv, InLoop, PoolInv
  <1>7. \A q \in Producer \ {p} : threw'[q] = threw[q]
    BY DEF Run, PoolInv, TypeOK, Source
  <1>8. \/ threw'[p]
        \/ /\ threw'[p] = threw[p]
           /\ range'[t].at = k + 1 /\ range'[t].last = last
           /\ pc'[t] = "run" \/ k + 1 >= last
    <2>1. CASE threw' = [threw EXCEPT ![p] = TRUE]
      BY <2>1 DEF PoolInv, TypeOK, Source
    <2>2. CASE ~(threw' = [threw EXCEPT ![p] = TRUE])
      <3>1. /\ range' = [range EXCEPT ![t] = [range[t] EXCEPT !.at = @ + 1]]
            /\ pc' = [pc EXCEPT ![t] = IF k + 1 < last THEN "run"
                                       ELSE IF loop[p].own THEN "claim" ELSE Stops(t)]
            /\ UNCHANGED threw
        BY <2>2 DEF Run
      <3>2. range'[t].at = k + 1 /\ range'[t].last = last
        BY <3>1 DEF PoolInv, TypeOK, Runner
      <3>3. pc'[t] = "run" \/ k + 1 >= last
        BY <1>1, <3>1 DEF PoolInv, TypeOK
      <3>4. QED
        BY <3>1, <3>2, <3>3
    <2>3. QED
      BY <2>1, <2>2
  <1>9. pc'[t] = "run" => range'[t].last = last
    BY <1>1 DEF Run, PoolInv, TypeOK, Runner, Stops
  <1>10. InLoop'
    <2>1. \A q \in Producer : \A i \in ran'[q] : i < loop'[q].count
      BY <1>2, <1>3, <1>6 DEF CoverInv, InLoop
    <2>2. \A u \in Runner : pc'[u] = "run" => range'[u].last <= loop'[CallOf(u)'].count
      BY <1>2, <1>4, <1>5, <1>6, <1>9 DEF CoverInv, InLoop
    <2>3. QED
      BY <2>1, <2>2 DEF InLoop
  <1>11. \A q \in Producer \ {p} : Covered(q)'
    <2>1. \A u \in Runner, q \in Producer \ {p}, i \in Nat : Holds(u, q, i) => Holds(u, q, i)'
      BY <1>4, <1>5 DEF Holds
    <2>2. QED
      BY <1>2, <1>3, <1>7, <2>1 DEF CoverInv, Covered
  <1>12. Covered(p)'
    <2>1. CASE threw'[p]
      BY <2>1 DEF Covered
    <2>2. CASE ~threw'[p]
      <3>1. \A u \in Runner \ {t}, i \in Nat : Holds(u, p, i) => Holds(u, p, i)'
        BY <1>4, <1>5 DEF Holds
      <3>2. \A i \in Nat : Holds(t, p, i) => i = k \/ Holds(t, p, i)'
        BY <1>5, <1>8, <2>2 DEF Holds
      <3>3. QED
        BY <1>2, <1>3, <1>8, <2>2, <3>1, <3>2 DEF CoverInv, Covered
    <2>3. QED
      BY <2>1, <2>2
  <1>13. QED
    BY <1>10, <1>11, <1>12 DEF CoverInv

LEMMA CallCovers ==
  ASSUME PoolInv, CoverInv, NEW p \in Producer, Call(p)
  PROVE  CoverInv'
  <1>1. Busy(p) = {}
    BY RemainingCovers DEF Call, PoolInv, Progress, CallFits
  <1>2. /\ pc' = [pc EXCEPT ![p] = "add"]
        /\ next' = [next EXCEPT ![p] = 0]
        /\ ran' = [ran EXCEPT ![p] = {}]
        /\ threw' = [threw EXCEPT ![p] = FALSE]
        /\ UNCHANGED <<job, range>>
        /\ \A q \in Producer \ {p} : loop'[q] = loop[q]
    BY DEF Call, PoolInv, TypeOK
  <1>3. \A u \in Runner : CallOf(u)' = CallOf(u)
    BY <1>2 DEF CallOf
  <1>4. \A u \in Runner : /\ pc'[u] = "run" => pc[u] = "run" /\ CallOf(u) \in Producer \ {p}
                          /\ u # p => pc'[u] = pc[u]
    BY <1>1, <1>2, CallOfType, ThreadsApart DEF CallOf, Busy, Runner, PoolInv, TypeOK
  <1>5. /\ next'[p] = 0 /\ ran'[p] = {}
        /\ \A q \in Producer \ {p} : next'[q] = next[q] /\ ran'[q] = ran[q] /\ threw'[q] = threw[q]
    BY <1>2 DEF PoolInv, TypeOK, Source
  <1>6. InLoop'
    BY <1>2, <1>3, <1>4, <1>5 DEF CoverInv, InLoop
  <1>7. \A q \in Producer \ {p} : Covered(q)'
    <2>1. pc[p] # "run"
      BY DEF Call
    <2>2. \A u \in Runner, q \in Producer \ {p}, i \in Nat : Holds(u, q, i) => Holds(u, q, i)'
      BY <1>2, <1>3, <1>4, <2>1 DEF Holds
    <2>3. QED
      BY <1>2, <1>5, <2>2 DEF CoverInv, Covered
  <1>8. Covered(p)'
    BY <1>5 DEF Covered
  <1>9. QED
    BY <1>6, <1>7, <1>8 DEF CoverInv

(***************************************************************************)
(* A batcher's step leaves the calls of producers alone.                   *)
(***************************************************************************)
LEMMA JoinersKeepCalls ==
  ASSUME PoolInv, NEW j \in Joiner, AddTask(j) \/ Join(j) \/ JoinStep(j)
  PROVE  /\ UNCHANGED <<job, toAdd, loop, next>>
         /\ \A p \in Producer : threw'[p] = threw[p] /\ queued'[p] = queued[p]
  <1>1. UNCHANGED <<job, toAdd, loop, next>>
    BY DEF AddTask, Join, JoinStep, JoinWaits, CompletionReturns, CompletionSpawns, JoinDispatches,
           JoinEnds, groupVars
  <1>2. threw' = threw \/ \E b \in BOOLEAN : threw' = [threw EXCEPT ![Batch] = b]
    <2>1. CASE CompletionReturns(j)
      <3>1. PICK throws \in BOOLEAN : threw' = [threw EXCEPT ![Batch] = @ \/ throws]
        BY <2>1 DEF CompletionReturns
      <3>2. PICK b \in BOOLEAN : b = (threw[Batch] \/ throws)
        OBVIOUS
      <3>3. QED
        BY <3>1, <3>2
    <2>2. CASE AddTask(j) \/ Join(j) \/ JoinWaits(j) \/ CompletionSpawns(j) \/ JoinDispatches(j)
      BY <2>2 DEF AddTask, Join, JoinWaits, CompletionSpawns, JoinDispatches
    <2>3. CASE JoinEnds(j)
      BY <2>3 DEF JoinEnds
    <2>4. QED
      BY <2>1, <2>2, <2>3 DEF JoinStep
  <1>3. \A p \in Producer : threw'[p] = threw[p]
    BY <1>2, JobPoolAssumption DEF PoolInv, TypeOK, Source
  <1>4. \A p \in Producer : queued'[p] = queued[p]
    <2>1. CASE AddTask(j) \/ CompletionSpawns(j)
      BY <2>1, EnqueueBatchTaskTypes, ThreadsApart DEF AddTask, CompletionSpawns
    <2>2. CASE ~(AddTask(j) \/ CompletionSpawns(j))
      BY <2>2 DEF Join, JoinStep, JoinWaits, CompletionReturns, JoinDispatches, JoinEnds
    <2>3. QED
      BY <2>1, <2>2
  <1>5. QED
    BY <1>1, <1>3, <1>4

LEMMA CoverInvStep ==
  ASSUME PoolInv, IndexInv, CoverInv, [Next]_vars
  PROVE  CoverInv'
  <1>1. ASSUME NEW w \in Worker, WorkerStep(w)
        PROVE  CoverInv'
    <2>1. CASE Look(w) \/ WorkerRunsBatchTask(w) \/ WorkerSpawns(w) \/ Report(w) \/ Finish(w)
      <3>1. UNCHANGED loop
        BY <2>1 DEF Look, WorkerRunsBatchTask, WorkerSpawns, Report, Finish, groupVars
      <3>2. \A p \in Producer : threw'[p] = threw[p]
        BY <2>1, JobPoolAssumption, ZenonT(40)
        DEF Look, WorkerRunsBatchTask, WorkerSpawns, Report, Finish, groupVars, PoolInv, TypeOK, Source
      <3>3. QED
        BY <2>1, <3>1, <3>2, WorkerBegins, CoverStays
    <2>2. QED
      BY <1>1, <2>1, ClaimCovers, RunCovers DEF WorkerStep, Runner
  <1>2. ASSUME NEW p \in Producer, Call(p) \/ ProducerStep(p)
        PROVE  CoverInv'
    <2>1. CASE AddGroupTask(p) \/ EnqueueTask(p) \/ AllAdded(p) \/ Retire(p) \/ CountRetired(p) \/ Wait(p)
      <3>1. UNCHANGED <<loop, threw>>
        BY <2>1 DEF AddGroupTask, EnqueueTask, AllAdded, Retire, CountRetired, Wait, groupVars
      <3>2. QED
        BY <2>1, <3>1, ProducerBegins, CoverStays
    <2>2. QED
      BY <1>2, <2>1, ClaimCovers, RunCovers, CallCovers DEF ProducerStep, Runner
  <1>3. ASSUME NEW j \in Joiner, AddTask(j) \/ Join(j) \/ JoinStep(j)
        PROVE  CoverInv'
    BY <1>3, JoinersKeepCalls, BatcherBegins, CoverStays
  <1>4. CASE Destroy \/ StopWorkers \/ Reaped
    <2>1. UNCHANGED <<loop, threw>>
      BY <1>4 DEF Destroy, StopWorkers, Reaped, groupVars
    <2>2. QED
      BY <1>4, <2>1, DestructorBegins, CoverStays
  <1>5. CASE UNCHANGED vars
    BY <1>5 DEF vars, CoverInv, InLoop, Covered, Holds, CallOf
  <1>6. QED
    BY <1>1, <1>2, <1>3, <1>4, <1>5 DEF Next, Gone, Joiner

-----------------------------------------------------------------------------
(***************************************************************************)
(* A call does not return before all its indices are claimed: the caller   *)
(* of ParallelFor claims until none is left, and each task of a group      *)
(* claims one.                                                             *)
(***************************************************************************)
Claiming(p) == {w \in Worker : job[w] = p /\ pc[w] = "claim"}

\* What is claimed of a group, and what its tasks will claim.
Reach(p) == next[p] + toAdd[p] + queued[p] + Cardinality(Claiming(p))

CallGoes(p) ==
  /\ pc[p] \notin {"add", "enqueue"} => toAdd[p] = 0
  /\ pc[p] \in {"claim", "run", "retire", "retired"} => loop[p].own
  /\ loop[p].own /\ pc[p] \in {"retire", "retired", "wait", "waiting"} =>
       next[p] >= loop[p].count \/ threw[p]
  /\ ~loop[p].own /\ pc[p] # "idle" => Reach(p) >= loop[p].count

ReachInv == \A p \in Producer : CallGoes(p)

LEMMA ClaimingCount ==
  ASSUME NEW p \in Producer
  PROVE  Claiming(p) \in SUBSET Worker /\ Cardinality(Claiming(p)) \in Nat
  <1>1. Claiming(p) \in SUBSET Worker
    BY DEF Claiming
  <1>2. QED
    BY <1>1, CountWorkers

\* The claims to come stay the same when no worker begins or makes one.
ClaimsStay(p) == Claiming(p)' = Claiming(p)

LEMMA NobodyClaims ==
  ASSUME NEW t \in Thread, OnlyMoves(t), t \notin Worker, UNCHANGED job
  PROVE  \A p \in Producer : ClaimsStay(p)
  <1>1. \A w \in Worker : pc'[w] = "claim" <=> pc[w] = "claim"
    BY ThreadsApart DEF OnlyMoves
  <1>2. QED
    BY <1>1 DEF ClaimsStay, Claiming

LEMMA WorkerKeepsClaim ==
  ASSUME NEW w \in Worker, OnlyMoves(w), \A v \in Worker \ {w} : job'[v] = job[v],
         pc[w] # "claim", pc'[w] # "claim"
  PROVE  \A p \in Producer : ClaimsStay(p)
  <1>1. \A v \in Worker \ {w} : pc'[v] = "claim" <=> pc[v] = "claim"
    BY ThreadsApart DEF OnlyMoves
  <1>2. QED
    BY <1>1 DEF ClaimsStay, Claiming

(***************************************************************************)
(* A step of another thread: the call only gets further.                   *)
(***************************************************************************)
LEMMA OtherGoesOn ==
  ASSUME PoolInv, ReachInv, NEW t \in Thread, OnlyMoves(t), NEW p \in Producer \ {t},
         toAdd'[p] = toAdd[p], loop'[p] = loop[p],
         threw[p] => threw'[p], next'[p] \in Nat, next'[p] >= next[p],
         Reach(p)' >= Reach(p), Reach(p)' \in Nat
  PROVE  CallGoes(p)'
  <1>1. CallGoes(p)
    BY DEF ReachInv
  <1>2. pc'[p] = pc[p] \/ (pc[p] = "waiting" /\ pc'[p] = "wait")
    BY OthersStayPut
  <1>3. loop[p].count \in Nat /\ next[p] \in Nat
    BY LoopShape DEF PoolInv, TypeOK
  <1>4. Reach(p) \in Nat
    BY ClaimingCount DEF Reach, PoolInv, TypeOK, Source
  <1>5. QED
    BY <1>1, <1>2, <1>3, <1>4 DEF CallGoes

LEMMA OtherStaysOn ==
  ASSUME PoolInv, ReachInv, NEW t \in Thread, OnlyMoves(t), NEW p \in Producer \ {t}, ClaimsStay(p),
         toAdd'[p] = toAdd[p], loop'[p] = loop[p], threw[p] => threw'[p], next'[p] = next[p],
         queued'[p] = queued[p]
  PROVE  CallGoes(p)'
  <1>1. Reach(p) \in Nat /\ next[p] \in Nat
    BY ClaimingCount DEF Reach, PoolInv, TypeOK, Source
  <1>2. Reach(p)' = Reach(p)
    BY DEF Reach, ClaimsStay
  <1>3. QED
    BY <1>1, <1>2, OtherGoesOn

LEMMA TesterGoes ==
  ASSUME PoolInv, ReachInv, NEW w \in Worker, pc[w] \in {"look", "finish"},
         NEW counter, NEW f, Woken(f), TestQueue(w, counter, f),
         UNCHANGED <<toAdd, loop, threw, next>>
  PROVE  ReachInv'
  <1>1. /\ w \in Thread /\ w \notin Producer
        /\ OnlyMoves(w)
        /\ \A v \in Worker \ {w} : job'[v] = job[v]
    BY ThreadsApart, MoveOfTester
  <1>2. SUFFICES ASSUME NEW p \in Producer
                 PROVE  CallGoes(p)'
    BY DEF ReachInv
  <1>3. p \in Producer \ {w} /\ p \in Source /\ p # Batch
    BY <1>1, JobPoolAssumption DEF Source
  <1>4. CASE pc'[w] # "claim"
    <2>1. queued'[p] = queued[p]
      <3>1. ASSUME NEW s \in Foremost, pc' = [f EXCEPT ![w] = IF s = Batch THEN "batch" ELSE "claim"],
                   queued' = [queued EXCEPT ![s] = @ - 1]
            PROVE  queued'[p] = queued[p]
        <4>1. s = Batch
          BY <1>1, <1>4, <3>1 DEF Woken
        <4>2. QED
          BY <1>3, <3>1, <4>1 DEF PoolInv, TypeOK
      <3>2. QED
        BY <3>1 DEF TestQueue
    <2>2. ClaimsStay(p)
      BY <1>1, <1>4, WorkerKeepsClaim
    <2>3. QED
      BY <1>1, <1>3, <2>1, <2>2, OtherStaysOn
  <1>5. CASE pc'[w] = "claim"
    <2>1. PICK s \in Foremost : /\ queued' = [queued EXCEPT ![s] = @ - 1]
                                /\ job' = [job EXCEPT ![w] = s]
                                /\ pc' = [f EXCEPT ![w] = IF s = Batch THEN "batch" ELSE "claim"]
      <3>1. (IF stop THEN "done" ELSE "parked") # "claim"
        OBVIOUS
      <3>2. pc' # [f EXCEPT ![w] = IF stop THEN "done" ELSE "parked"]
        BY <1>1, <1>5, <3>1 DEF Woken
      <3>3. QED
        BY <3>2 DEF TestQueue
    <2>2. s \in Source /\ queued[s] > 0 /\ job'[w] = s
      BY <2>1, ForemostIsQueued DEF PoolInv, TypeOK
    <2>3. \A v \in Worker \ {w} : pc'[v] = "claim" <=> pc[v] = "claim"
      BY <1>1, ThreadsApart DEF OnlyMoves
    <2>4. CASE s = p
      <3>1. Claiming(p)' = Claiming(p) \union {w} /\ w \in Worker \ Claiming(p)
        BY <1>1, <1>5, <2>2, <2>3, <2>4 DEF Claiming
      <3>2. Cardinality(Claiming(p)') = Cardinality(Claiming(p)) + 1
        BY <3>1, ClaimingCount, CountWorkers
      <3>3. queued'[p] = queued[p] - 1
        BY <1>3, <2>1, <2>4 DEF PoolInv, TypeOK
      <3>4. /\ next[p] \in Nat /\ toAdd[p] \in Nat /\ queued[p] \in Nat
            /\ Cardinality(Claiming(p)) \in Nat
        BY <1>3, ClaimingCount DEF PoolInv, TypeOK
      <3>5. Reach(p)' = Reach(p) /\ Reach(p) \in Nat
        BY <3>2, <3>3, <3>4 DEF Reach
      <3>6. QED
        BY <1>1, <1>3, <3>4, <3>5, OtherGoesOn
    <2>5. CASE s # p
      <3>1. ClaimsStay(p)
        BY <1>1, <2>2, <2>3, <2>5 DEF ClaimsStay, Claiming
      <3>2. queued'[p] = queued[p]
        BY <1>3, <2>1, <2>5 DEF PoolInv, TypeOK
      <3>3. QED
        BY <1>1, <1>3, <3>1, <3>2, OtherStaysOn
    <2>6. QED
      BY <2>4, <2>5
  <1>6. QED
    BY <1>4, <1>5

LEMMA WorkerGoes ==
  ASSUME PoolInv, ReachInv, NEW w \in Worker,
         Look(w) \/ WorkerRunsBatchTask(w) \/ WorkerSpawns(w) \/ Report(w) \/ Finish(w)
  PROVE  ReachInv'
  <1>1. w \in Thread /\ w \notin Producer /\ Woken(pc) /\ pc \in [Thread -> Places]
    BY ThreadsApart, WokenNobody DEF PoolInv, Woken
  <1>2. UNCHANGED <<toAdd, loop, next>>
    BY DEF Look, WorkerRunsBatchTask, WorkerSpawns, Report, Finish, groupVars
  <1>3. CASE Look(w)
    BY <1>1, <1>2, <1>3, TesterGoes DEF Look
  <1>4. CASE Finish(w) /\ ~stop
    <2>1. Woken(NotifyComplete) /\ UNCHANGED threw /\ pc[w] = "finish"
      BY <1>4, WokenComplete DEF Finish, PoolInv
    <2>2. TestQueue(w, processing - 1, NotifyComplete)
      BY <1>4 DEF Finish
    <2>3. QED
      BY <1>2, <2>1, <2>2, TesterGoes
  <1>5. CASE WorkerRunsBatchTask(w) \/ WorkerSpawns(w) \/ Report(w) \/ (Finish(w) /\ stop)
    <2>1. OnlyMoves(w) /\ pc[w] # "claim" /\ pc'[w] # "claim"
      <3>1. CASE WorkerRunsBatchTask(w)
        BY <1>1, <3>1, MoveOf DEF WorkerRunsBatchTask
      <3>2. CASE WorkerSpawns(w)
        BY <1>1, <3>2, MoveOfSpawner DEF WorkerSpawns
      <3>3. CASE Report(w)
        <4>1. PICK f : Woken(f) /\ pc' = [f EXCEPT ![w] = "finish"]
          BY <3>3, WokenGroup, WokenNobody DEF Report, PoolInv, Jobs, JobFits
        <4>2. pc[w] = "report"
          BY <3>3 DEF Report
        <4>3. pc'[w] = "finish" /\ OnlyMoves(w)
          BY <1>1, <4>1, MoveOf
        <4>4. QED
          BY <4>2, <4>3
      <3>4. CASE Finish(w) /\ stop
        <4>1. pc[w] = "finish" /\ pc' = [NotifyComplete EXCEPT ![w] = "done"]
          BY <3>4 DEF Finish
        <4>2. pc'[w] = "done" /\ OnlyMoves(w)
          BY <1>1, <4>1, WokenComplete, MoveOf DEF PoolInv
        <4>3. QED
          BY <4>1, <4>2
      <3>5. QED
        BY <1>5, <3>1, <3>2, <3>3, <3>4
    <2>2. \A v \in Worker \ {w} : job'[v] = job[v]
      BY <1>5 DEF WorkerRunsBatchTask, WorkerSpawns, Report, Finish, PoolInv, TypeOK
    <2>3. \A p \in Producer : queued'[p] = queued[p]
      <3>1. CASE WorkerSpawns(w)
        BY <1>1, <3>1, EnqueueBatchTaskTypes DEF WorkerSpawns
      <3>2. CASE ~WorkerSpawns(w)
        BY <1>5, <3>2 DEF WorkerRunsBatchTask, Report, Finish
      <3>3. QED
        BY <3>1, <3>2
    <2>4. \A p \in Producer : threw'[p] = threw[p]
      BY <1>5, JobPoolAssumption
      DEF WorkerRunsBatchTask, WorkerSpawns, Report, Finish, PoolInv, TypeOK, Source
    <2>5. \A p \in Producer : ClaimsStay(p) /\ p \in Producer \ {w}
      BY <1>1, <2>1, <2>2, WorkerKeepsClaim
    <2>6. QED
      BY <1>1, <1>2, <2>1, <2>3, <2>4, <2>5, OtherStaysOn DEF ReachInv
  <1>6. QED
    BY <1>3, <1>4, <1>5


\* A claim moves nextIndex on by at least one, and is one claim less to come.
LEMMA ClaimGoes ==
  ASSUME PoolInv, ReachInv, NEW t \in Runner, Claim(t)
  PROVE  ReachInv'
  <1>1. pc[t] = "claim" /\ t \in Thread
    BY ThreadsApart DEF Claim, Runner
  <1>. PICK p \in Producer : p = CallOf(t)
    BY <1>1, CallOfType DEF Runner
  <1>. PICK grain \in Nat \ {0}, count \in Nat : grain = loop[p].grain /\ count = loop[p].count
    BY LoopShape DEF PoolInv
  <1>. PICK place \in {"run", Stops(t)} : /\ pc' = [pc EXCEPT ![t] = place]
                                          /\ place = Stops(t) => next[p] >= count
    BY DEF Claim, Stops
  <1>2. OnlyMoves(t) /\ pc'[t] = place /\ place # "claim"
    BY <1>1, WokenNobody, MoveOf DEF PoolInv, Stops
  <1>3. next' = [next EXCEPT ![p] = @ + grain] /\ UNCHANGED <<job, loop, toAdd, queued, threw>>
    BY DEF Claim
  <1>4. /\ next'[p] = next[p] + grain /\ \A q \in Producer \ {p} : next'[q] = next[q]
        /\ \A q \in Producer : next[q] \in Nat /\ toAdd[q] \in Nat /\ queued[q] \in Nat
    BY <1>3 DEF PoolInv, TypeOK, Source
  <1>5. CASE t \in Worker
    <2>1. p = job[t] /\ t \notin Producer
      BY <1>5, ThreadsApart DEF CallOf
    <2>2. \A v \in Worker \ {t} : pc'[v] = "claim" <=> pc[v] = "claim"
      BY <1>2, ThreadsApart DEF OnlyMoves
    <2>3. \A q \in Producer \ {p} : ClaimsStay(q)
      BY <1>2, <1>3, <2>1, <2>2 DEF ClaimsStay, Claiming
    <2>4. \A q \in Producer \ {p} : CallGoes(q)'
      BY <1>1, <1>2, <1>3, <1>4, <2>1, <2>3, OtherStaysOn
    <2>5. Claiming(p)' = Claiming(p) \ {t} /\ t \in Claiming(p)
      BY <1>1, <1>2, <1>3, <1>5, <2>1, <2>2 DEF Claiming
    <2>6. Cardinality(Claiming(p)') = Cardinality(Claiming(p)) - 1 /\ Cardinality(Claiming(p)') \in Nat
      <3>1. Claiming(p)' \in SUBSET Worker
        BY DEF Claiming
      <3>2. QED
        BY <2>5, <3>1, ClaimingCount, CountWorkers
    <2>7. Reach(p)' >= Reach(p) /\ Reach(p)' \in Nat
      <3>1. Cardinality(Claiming(p)) \in Nat
        BY ClaimingCount
      <3>2. QED
        BY <1>3, <1>4, <2>6, <3>1 DEF Reach
    <2>8. CallGoes(p)'
      BY <1>1, <1>2, <1>3, <1>4, <2>1, <2>7, OtherGoesOn
    <2>9. QED
      BY <2>4, <2>8 DEF ReachInv
  <1>6. CASE t \notin Worker
    <2>1. p = t
      BY <1>6 DEF CallOf
    <2>2. \A q \in Producer : ClaimsStay(q)
      BY <1>1, <1>2, <1>3, <1>6, NobodyClaims
    <2>3. \A q \in Producer \ {p} : CallGoes(q)'
      BY <1>1, <1>2, <1>3, <1>4, <2>1, <2>2, OtherStaysOn
    <2>4. CallGoes(p)'
      <3>1. loop[p].own /\ toAdd[p] = 0
        BY <1>1, <2>1 DEF ReachInv, CallGoes
      <3>2. pc'[p] = "retire" => next'[p] >= loop[p].count
        BY <1>2, <1>4, <1>6, <2>1 DEF Stops
      <3>3. pc'[p] \in {"run", "retire"}
        BY <1>2, <1>6, <2>1 DEF Stops
      <3>4. QED
        BY <1>3, <3>1, <3>2, <3>3 DEF CallGoes
    <2>5. QED
      BY <2>3, <2>4 DEF ReachInv
  <1>7. QED
    BY <1>5, <1>6

LEMMA RunGoes ==
  ASSUME PoolInv, ReachInv, NEW t \in Runner, Run(t)
  PROVE  ReachInv'
  <1>1. pc[t] = "run" /\ t \in Thread
    BY ThreadsApart DEF Run, Runner
  <1>. PICK p \in Producer : p = CallOf(t)
    BY <1>1, CallOfType DEF Runner
  <1>2. UNCHANGED <<job, loop, toAdd, next, queued>>
    BY DEF Run
  <1>3. \A q \in Producer : threw[q] => threw'[q]
    BY DEF Run, PoolInv, TypeOK, Source
  <1>. PICK place \in {"run", "claim", Stops(t)} : /\ pc' = [pc EXCEPT ![t] = place]
                                                   /\ place = "claim" => loop[p].own
                                                   /\ place = Stops(t) => threw'[p] \/ ~loop[p].own
    <2>1. CASE /\ threw' = [threw EXCEPT ![p] = TRUE]
               /\ pc' = [pc EXCEPT ![t] = Stops(t)]
      <3>1. threw'[p]
        BY <2>1 DEF PoolInv, TypeOK, Source
      <3>2. Stops(t) # "claim"
        BY DEF Stops
      <3>3. QED
        BY <2>1, <3>1, <3>2
    <2>2. CASE pc' = [pc EXCEPT ![t] = IF range[t].at + 1 < range[t].last THEN "run"
                                       ELSE IF loop[p].own THEN "claim" ELSE Stops(t)]
      <3>1. CASE range[t].at + 1 < range[t].last
        BY <2>2, <3>1 DEF Stops
      <3>2. CASE ~(range[t].at + 1 < range[t].last)
        BY <2>2, <3>2 DEF Stops
      <3>3. QED
        BY <3>1, <3>2
    <2>3. range[t] \in [at : Nat, last : Nat]
      BY DEF PoolInv, TypeOK, Runner
    <2>4. /\ [range[t] EXCEPT !.at = @ + 1].at = range[t].at + 1
          /\ [range[t] EXCEPT !.at = @ + 1].last = range[t].last
      BY <2>3
    <2>5. QED
      BY <2>1, <2>2, <2>4 DEF Run
  <1>4. OnlyMoves(t) /\ pc'[t] = place
    BY <1>1, WokenNobody, MoveOf DEF PoolInv
  <1>5. CASE t \in Worker
    <2>1. p = job[t] /\ t \notin Producer
      BY <1>5, ThreadsApart DEF CallOf
    <2>2. \A v \in Worker \ {t} : pc'[v] = "claim" <=> pc[v] = "claim"
      BY <1>4, ThreadsApart DEF OnlyMoves
    <2>3. \A q \in Producer \ {p} : ClaimsStay(q)
      BY <1>2, <2>1, <2>2 DEF ClaimsStay, Claiming
    <2>4. \A q \in Producer \ {p} : CallGoes(q)'
      BY <1>1, <1>2, <1>3, <1>4, <2>1, <2>3, OtherStaysOn
    <2>5. Claiming(p) \subseteq Claiming(p)' /\ Claiming(p)' \in SUBSET Worker
      BY <1>1, <1>2, <2>2 DEF Claiming
    <2>6. Cardinality(Claiming(p)') >= Cardinality(Claiming(p)) /\ Cardinality(Claiming(p)') \in Nat
      <3>1. IsFiniteSet(Claiming(p)')
        BY <2>5, JobPoolAssumption, FS_Subset
      <3>2. QED
        BY <2>5, <3>1, ClaimingCount, CountWorkers, FS_Subset
    <2>7. Reach(p)' >= Reach(p) /\ Reach(p)' \in Nat /\ next[p] \in Nat
      <3>1. /\ Cardinality(Claiming(p)) \in Nat
            /\ next[p] \in Nat /\ toAdd[p] \in Nat /\ queued[p] \in Nat
        BY ClaimingCount DEF PoolInv, TypeOK, Source
      <3>2. QED
        BY <1>2, <2>6, <3>1 DEF Reach
    <2>8. CallGoes(p)'
      BY <1>1, <1>2, <1>3, <1>4, <2>1, <2>7, OtherGoesOn
    <2>9. QED
      BY <2>4, <2>8 DEF ReachInv
  <1>6. CASE t \notin Worker
    <2>1. p = t
      BY <1>6 DEF CallOf
    <2>2. \A q \in Producer : ClaimsStay(q)
      BY <1>1, <1>2, <1>4, <1>6, NobodyClaims
    <2>3. \A q \in Producer \ {p} : CallGoes(q)'
      BY <1>1, <1>2, <1>3, <1>4, <2>1, <2>2, OtherStaysOn
    <2>4. CallGoes(p)'
      <3>1. loop[p].own /\ toAdd[p] = 0
        BY <1>1, <2>1 DEF ReachInv, CallGoes
      <3>2. pc'[p] \in {"run", "claim", "retire"} /\ (pc'[p] = "retire" => threw'[p])
        BY <1>4, <1>6, <2>1, <3>1 DEF Stops
      <3>3. QED
        BY <1>2, <3>1, <3>2 DEF CallGoes
    <2>5. QED
      BY <2>3, <2>4 DEF ReachInv
  <1>7. QED
    BY <1>5, <1>6


(***************************************************************************)
(* The caller's own steps.                                                 *)
(***************************************************************************)
LEMMA QuietProducerGoes ==
  ASSUME PoolInv, ReachInv, NEW p \in Producer,
         AddGroupTask(p) \/ EnqueueTask(p) \/ AllAdded(p) \/ Retire(p) \/ CountRetired(p) \/ Wait(p)
  PROVE  ReachInv'
  <1>1. p \in Thread /\ p \notin Worker /\ OnlyMoves(p)
    BY ThreadsApart, ProducerMovesAlone DEF ProducerStep
  <1>2. UNCHANGED <<job, loop, next, threw>>
    BY DEF AddGroupTask, EnqueueTask, AllAdded, Retire, CountRetired, Wait, groupVars
  <1>3. \A q \in Producer : ClaimsStay(q)
    BY <1>1, <1>2, NobodyClaims
  <1>4. \A q \in Producer \ {p} : toAdd'[q] = toAdd[q] /\ queued'[q] = queued[q]
    BY DEF AddGroupTask, EnqueueTask, AllAdded, Retire, CountRetired, Wait, groupVars, PoolInv, TypeOK,
           Source
  <1>5. \A q \in Producer \ {p} : CallGoes(q)'
    BY <1>1, <1>2, <1>3, <1>4, OtherStaysOn
  <1>6. /\ next[p] \in Nat /\ toAdd[p] \in Nat /\ queued[p] \in Nat
        /\ Cardinality(Claiming(p)) \in Nat
        /\ loop[p].count \in Nat
    BY ClaimingCount, LoopShape DEF PoolInv, TypeOK, Source
  <1>7. pc \in [Thread -> Places] /\ Woken(NotifyComplete) /\ \A f \in NotifyOnePending : Woken(f)
    BY WokenNobody, WokenComplete, WokenPending DEF PoolInv, Woken
  <1>8. CallGoes(p)
    BY DEF ReachInv
  <1>9. CASE AddGroupTask(p)
    <2>1. pc[p] = "add" /\ pc'[p] = "enqueue" /\ UNCHANGED <<toAdd, queued>>
      BY <1>1, <1>7, <1>9 DEF AddGroupTask
    <2>2. Reach(p)' = Reach(p)
      BY <1>2, <1>3, <2>1 DEF Reach, ClaimsStay
    <2>3. QED
      BY <1>2, <1>5, <1>8, <2>1, <2>2 DEF ReachInv, CallGoes
  <1>10. CASE EnqueueTask(p)
    <2>1. PICK f \in NotifyOnePending : pc' = [f EXCEPT ![p] = "add"]
      BY <1>10 DEF EnqueueTask
    <2>2. pc'[p] = "add" /\ pc[p] = "enqueue"
      BY <1>1, <1>7, <1>10, <2>1, MoveOf DEF EnqueueTask
    <2>3. toAdd'[p] = toAdd[p] - 1 /\ queued'[p] = queued[p] + 1
      BY <1>10 DEF EnqueueTask, PoolInv, TypeOK, Source
    <2>4. Reach(p)' = Reach(p)
      BY <1>2, <1>3, <1>6, <2>3 DEF Reach, ClaimsStay
    <2>5. QED
      BY <1>2, <1>5, <1>8, <2>2, <2>4 DEF ReachInv, CallGoes
  <1>11. CASE AllAdded(p)
    <2>1. /\ pc[p] = "add" /\ toAdd[p] = 0
          /\ pc' = [pc EXCEPT ![p] = IF loop[p].own THEN "claim" ELSE "wait"]
          /\ UNCHANGED <<toAdd, queued>>
      BY <1>11 DEF AllAdded, groupVars
    <2>2. Reach(p)' = Reach(p)
      BY <1>2, <1>3, <2>1 DEF Reach, ClaimsStay
    <2>3. CASE loop[p].own
      <3>1. pc'[p] = "claim"
        BY <1>1, <1>7, <2>1, <2>3
      <3>2. QED
        BY <1>2, <1>5, <2>1, <2>3, <3>1 DEF ReachInv, CallGoes
    <2>4. CASE ~loop[p].own
      <3>1. pc'[p] = "wait"
        BY <1>1, <1>7, <2>1, <2>4
      <3>2. QED
        BY <1>2, <1>5, <1>8, <2>1, <2>2, <2>4, <3>1 DEF ReachInv, CallGoes
    <2>5. QED
      BY <2>3, <2>4
  <1>12. CASE Retire(p)
    <2>1. pc[p] = "retire" /\ pc'[p] \in {"retired", "wait"} /\ UNCHANGED toAdd
      BY <1>1, <1>7, <1>12, MoveOf DEF Retire, Woken
    <2>2. QED
      BY <1>2, <1>5, <1>8, <2>1 DEF ReachInv, CallGoes
  <1>13. CASE CountRetired(p)
    <2>1. pc[p] = "retired" /\ pc'[p] = "wait" /\ UNCHANGED toAdd
      BY <1>1, <1>7, <1>13 DEF CountRetired
    <2>2. QED
      BY <1>2, <1>5, <1>8, <2>1 DEF ReachInv, CallGoes
  <1>14. CASE Wait(p)
    <2>1. pc[p] = "wait" /\ pc'[p] \in {"idle", "waiting"} /\ UNCHANGED <<toAdd, queued>>
      BY <1>1, <1>7, <1>14 DEF Wait, groupVars
    <2>2. Reach(p)' = Reach(p)
      BY <1>2, <1>3, <2>1 DEF Reach, ClaimsStay
    <2>3. QED
      BY <1>2, <1>5, <1>8, <2>1, <2>2 DEF ReachInv, CallGoes
  <1>15. QED
    BY <1>9, <1>10, <1>11, <1>12, <1>13, <1>14

LEMMA CallStarts ==
  ASSUME PoolInv, ReachInv, NEW p \in Producer, Call(p)
  PROVE  ReachInv'
  <1>1. p \in Thread /\ p \notin Worker /\ OnlyMoves(p)
    BY ThreadsApart, ProducerMovesAlone
  <1>2. PICK l \in Loop : /\ loop' = [loop EXCEPT ![p] = l]
                          /\ toAdd' = [toAdd EXCEPT ![p] =
                               IF l.own THEN Min2(1 + ((l.count - 1) \div l.grain), Cardinality(Worker))
                               ELSE l.count]
    BY DEF Call
  <1>3. /\ next' = [next EXCEPT ![p] = 0]
        /\ threw' = [threw EXCEPT ![p] = FALSE]
        /\ pc' = [pc EXCEPT ![p] = "add"]
        /\ UNCHANGED <<job, queued>>
    BY DEF Call
  <1>4. \A q \in Producer : ClaimsStay(q)
    BY <1>1, <1>3, NobodyClaims
  <1>5. \A q \in Producer \ {p} : /\ toAdd'[q] = toAdd[q] /\ loop'[q] = loop[q]
                                  /\ threw'[q] = threw[q] /\ next'[q] = next[q]
    BY <1>2, <1>3 DEF PoolInv, TypeOK, Source
  <1>6. \A q \in Producer \ {p} : CallGoes(q)'
    BY <1>1, <1>3, <1>4, <1>5, OtherStaysOn
  <1>7. pc'[p] = "add" /\ next'[p] = 0 /\ loop'[p] = l
    BY <1>1, <1>2, <1>3 DEF PoolInv, TypeOK
  <1>8. ~l.own => toAdd'[p] = l.count
    BY <1>2 DEF PoolInv, TypeOK
  <1>9. ~l.own => Reach(p)' >= l.count
    <2>1. Cardinality(Claiming(p)) \in Nat /\ queued[p] \in Nat /\ l.count \in Nat
      BY ClaimingCount, JobPoolAssumption DEF PoolInv, TypeOK, Source
    <2>2. Cardinality(Claiming(p)') = Cardinality(Claiming(p))
      BY <1>4 DEF ClaimsStay
    <2>3. QED
      BY <1>3, <1>7, <1>8, <2>1, <2>2 DEF Reach
  <1>10. CallGoes(p)'
    BY <1>7, <1>9 DEF CallGoes
  <1>11. QED
    BY <1>6, <1>10 DEF ReachInv

LEMMA JoinerGoes ==
  ASSUME PoolInv, ReachInv, NEW j \in Joiner, OnlyMoves(j), UNCHANGED <<job, toAdd, loop, next>>,
         \A p \in Producer : queued'[p] = queued[p] /\ threw'[p] = threw[p]
  PROVE  ReachInv'
  <1>1. j \in Thread /\ j \notin Worker /\ j \notin Producer
    BY ThreadsApart
  <1>2. \A p \in Producer : ClaimsStay(p)
    BY <1>1, NobodyClaims
  <1>3. QED
    BY <1>1, <1>2, OtherStaysOn DEF ReachInv


LEMMA ReachInvStep ==
  ASSUME PoolInv, ReachInv, [Next]_vars
  PROVE  ReachInv'
  <1>1. ASSUME NEW w \in Worker, WorkerStep(w)
        PROVE  ReachInv'
    BY <1>1, WorkerGoes, ClaimGoes, RunGoes DEF WorkerStep, Runner
  <1>2. ASSUME NEW p \in Producer, Call(p) \/ ProducerStep(p)
        PROVE  ReachInv'
    BY <1>2, CallStarts, QuietProducerGoes, ClaimGoes, RunGoes DEF ProducerStep, Runner
  <1>3. ASSUME NEW j \in Joiner, AddTask(j) \/ Join(j) \/ JoinStep(j)
        PROVE  ReachInv'
    BY <1>3, JoinersKeepCalls, JoinerMovesAlone, JoinerGoes
  <1>4. CASE Destroy \/ StopWorkers \/ Reaped
    <2>1. UNCHANGED <<job, toAdd, loop, next, queued, threw>>
      BY <1>4 DEF Destroy, StopWorkers, Reaped, groupVars
    <2>2. OnlyMoves(Owner)
      <3>1. \A t \in Thread : pc[t] = "parked" => t \in Worker
        BY DEF PoolInv, TypeOK, Thread, ProducerPlaces, JoinerPlaces
      <3>2. CASE StopWorkers
        BY <3>1, <3>2 DEF StopWorkers, OnlyMoves
      <3>3. CASE Destroy \/ Reaped
        BY <3>3, OwnerApart, WokenNobody, MoveOf DEF Destroy, Reaped, PoolInv
      <3>4. QED
        BY <1>4, <3>2, <3>3
    <2>3. QED
      BY <2>1, <2>2, OwnerApart, JoinerGoes
  <1>5. CASE UNCHANGED vars
    BY <1>5 DEF vars, ReachInv, CallGoes, Reach, Claiming
  <1>6. QED
    BY <1>1, <1>2, <1>3, <1>4, <1>5 DEF Next, Gone, Joiner

LEMMA ResultsStart ==
  ASSUME Init
  PROVE  CoverInv /\ ReachInv
  <1>1. /\ \A t \in Runner : pc[t] # "run"
        /\ \A p \in Producer : /\ pc[p] = "idle" /\ toAdd[p] = 0 /\ next[p] = 0 /\ ran[p] = {}
    BY ThreadsApart DEF Init, Runner
  <1>2. QED
    BY <1>1 DEF CoverInv, InLoop, Covered, ReachInv, CallGoes

(***************************************************************************)
(* Every index runs (ParallelFor, and the tasks of a group): a call that   *)
(* returns without an exception has run each index below its count, and no *)
(* other, however the workers and the caller divided them.                 *)
(***************************************************************************)
THEOREM LoopsAreComplete == Spec => []EveryIndexRuns
  <1>1. Init => PoolInv /\ IndexInv /\ CoverInv /\ ReachInv
    BY PoolInvStart, IndexInvStart, ResultsStart
  <1>2. PoolInv /\ IndexInv /\ CoverInv /\ ReachInv /\ [Next]_vars
          => (PoolInv /\ IndexInv /\ CoverInv /\ ReachInv)'
    BY PoolInvStep, IndexInvStep, CoverInvStep, ReachInvStep
  <1>3. PoolInv /\ IndexInv /\ CoverInv /\ ReachInv => EveryIndexRuns
    <2>1. SUFFICES ASSUME PoolInv, IndexInv, CoverInv, ReachInv, NEW p \in Producer, Returning(p), ~threw[p]
                   PROVE  ran[p] = 0 .. (loop[p].count - 1)
      BY DEF EveryIndexRuns
    <2>. PICK count \in Nat \ {0} : count = loop[p].count
      BY <2>1, LoopShape DEF PoolInv
    <2>2. Busy(p) = {} /\ queued[p] = 0 /\ pc[p] = "wait"
      BY <2>1, RemainingCovers DEF Returning
    <2>3. next[p] >= count
      <3>1. next[p] \in Nat /\ CallGoes(p)
        BY <2>1 DEF ReachInv, PoolInv, TypeOK
      <3>2. CASE loop[p].own
        BY <2>1, <2>2, <3>1, <3>2 DEF CallGoes
      <3>3. CASE ~loop[p].own
        <4>1. Claiming(p) = {}
          BY <2>2 DEF Claiming, Busy
        <4>2. Cardinality(Claiming(p)) = 0
          BY <4>1, FS_EmptySet
        <4>3. toAdd[p] = 0 /\ Reach(p) >= count
          BY <2>2, <3>1, <3>3 DEF CallGoes
        <4>4. QED
          BY <2>2, <3>1, <4>2, <4>3 DEF Reach
      <3>4. QED
        BY <3>2, <3>3
    <2>4. \A t \in Runner, i \in Nat : ~Holds(t, p, i)
      BY <2>2, ThreadsApart DEF Holds, CallOf, Busy, Runner
    <2>5. \A i \in Nat : i < count => i \in ran[p]
      <3>1. next[p] \in Nat
        BY <2>1 DEF PoolInv, TypeOK
      <3>2. QED
        BY <2>1, <2>3, <2>4, <3>1 DEF CoverInv, Covered
    <2>6. \A i \in ran[p] : i \in Nat /\ i < count
      BY <2>1 DEF CoverInv, InLoop, PoolInv, TypeOK
    <2>7. \A i : i \in 0 .. (count - 1) <=> i \in Nat /\ i < count
      OBVIOUS
    <2>8. \A i : i \in ran[p] <=> i \in 0 .. (count - 1)
      BY <2>5, <2>6, <2>7
    <2>9. QED
      BY <2>8
  <1>4. QED
    BY <1>1, <1>2, <1>3, PTL DEF Spec

=============================================================================
