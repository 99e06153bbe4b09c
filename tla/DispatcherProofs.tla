--------------------------- MODULE DispatcherProofs ---------------------------
(***************************************************************************)
(* Proofs about the dispatcher, for any number of clients, tasks, tags and *)
(* workers, and for any settings the clients call with.                    *)
(***************************************************************************)
EXTENDS Dispatcher, TLAPS, SequenceTheorems, FiniteSetTheorems

-----------------------------------------------------------------------------
(* The inductive invariant *)

\* mainLock is held over the steps of schedule()'s loop and of preHeatPool's.
Locked == \A t \in Threads : pc[t] \in {"loop", "preHeating"} <=> mainLock = t

\* The loop is at a task of the queue, or past it, for a worker that is free.
Looping == \A t \in Threads : pc[t] = "loop" => it >= 1 /\ workerId[t] \in availableWorkers

\* What a thread is about to hand over, and to whom.
Handing == \A t \in Threads :
    IF pc[t] = "handOver" THEN hand[t] \in Tasks /\ workerId[t] \in 0..(allWorkers - 1)
                          ELSE hand[t] = None

\* What a worker runs.
Working == \A w \in Workers :
    IF pc[w] \in {"run", "finish", "finishAndAsk"} THEN current[w] \in Tasks
                                                  ELSE current[w] = None

\* Workers are created in order.
Created == \A w \in Workers : pc[w] = "none" <=> w >= allWorkers

\* A tag is bound to a worker that is recorded as bound.
Recorded == \A g \in Tags : tagToWorkerBindings[g] # -1 => tagToWorkerBindings[g] \in boundWorkers

IInv == TypeOK /\ WorkersWithinCapacity /\ Locked /\ Looping /\ Handing /\ Working /\ Created
          /\ Recorded

-----------------------------------------------------------------------------
(* Lemmas about the helpers *)

LEMMA TaskTags == \A k \in Tasks : TagOf(k) \in Tags /\ PoolOf(k) \in Pools
BY DispatcherAssumption DEF TagOf, PoolOf, Pools

LEMMA SetBits ==
  ASSUME NEW S
  PROVE  /\ FirstSetBit(S) \subseteq S \cup {-1} /\ LastSetBit(S) \subseteq S \cup {-1}
         /\ S # {} => FirstSetBit(S) \subseteq S /\ LastSetBit(S) \subseteq S
BY DEF FirstSetBit, LastSetBit

LEMMA SubSeqType ==
  ASSUME NEW S, NEW q \in Seq(S), NEW m \in Nat \ {0}, NEW n \in Int, n <= Len(q)
  PROVE  SubSeq(q, m, n) \in Seq(S)
<1>1. \A i \in m..n : q[i] \in S
  BY LenProperties, ElementOfSeq
<1> QED  BY <1>1, SubSeqProperties

LEMMA EnqueueType ==
  ASSUME NEW q \in Seq(Tasks), NEW k \in Tasks
  PROVE  Enqueue(k, q) \in Seq(Tasks)
<1> DEFINE A == {i \in DOMAIN q : PriorityOf[q[i]] <= PriorityOf[k]}
<1>1. DOMAIN q = 1..Len(q) /\ Len(q) \in Nat
  BY LenProperties
<1>2. IsFiniteSet(1..Len(q)) /\ Cardinality(1..Len(q)) = Len(q)
  BY <1>1, FS_Interval, SMTT(20)
<1>3. Ahead(k, q) \in Nat /\ Ahead(k, q) <= Len(q)
  BY <1>1, <1>2, FS_Subset, FS_CardinalityType DEF Ahead
<1>4. SubSeq(q, 1, Ahead(k, q)) \in Seq(Tasks)
  BY <1>1, <1>3, SubSeqType
<1>5. SubSeq(q, Ahead(k, q) + 1, Len(q)) \in Seq(Tasks)
  BY <1>1, <1>3, SubSeqType
<1>6. <<k>> \in Seq(Tasks)
  OBVIOUS
<1>7. Ahead(k, q) + 1 - 1 = Ahead(k, q)
  BY <1>3
<1> QED  BY <1>4, <1>5, <1>6, <1>7, ConcatProperties DEF Enqueue, InsertAt

LEMMA ErasedType ==
  ASSUME tasksQueue \in Seq(Tasks), it \in Nat, it >= 1, it <= Len(tasksQueue)
  PROVE  Erased \in Seq(Tasks) /\ tasksQueue[it] \in Tasks
<1>1. Len(tasksQueue) \in Nat
  BY LenProperties
<1>2. SubSeq(tasksQueue, 1, it - 1) \in Seq(Tasks)
  BY <1>1, SubSeqType
<1>3. SubSeq(tasksQueue, it + 1, Len(tasksQueue)) \in Seq(Tasks)
  BY <1>1, SubSeqType
<1>4. tasksQueue[it] \in Tasks
  BY <1>1, ElementOfSeq
<1> QED  BY <1>2, <1>3, <1>4, ConcatProperties DEF Erased, RemoveAt

LEMMA ConstantTypes ==
  /\ MaxCapacity \in Nat /\ IntensiveCapacity \in Nat
  /\ None \notin Tasks /\ None \notin Threads /\ 0 \in Tags
  /\ Clients \cap Workers = {}
BY DispatcherAssumption

LEMMA BoundAmountType == BoundAmount \in Nat
<1>1. IsFiniteSet(Workers)
  BY DispatcherAssumption, FS_Interval DEF Workers
<1>2. IsFiniteSet({w \in Workers : workersBindingsCount[w] > 0})
  BY <1>1, FS_Subset
<1> QED  BY <1>2, FS_CardinalityType DEF BoundAmount

\* Giving a task out keeps the usage counters numbers.
LEMMA UsageGrows ==
  ASSUME IInv, NEW k \in Tasks
  PROVE  [subPoolsUsage EXCEPT ![PoolOf(k)] = @ + 1] \in [Pools -> Nat]
<1>1. subPoolsUsage \in [Pools -> Nat]
  BY DEF IInv, TypeOK
<1>2. PoolOf(k) \in Pools
  BY TaskTags
<1> QED  BY <1>1, <1>2

\* The bounds the invariant gives, as the provers can use them.
LEMMA Bounds ==
  ASSUME IInv
  PROVE  /\ MaxCapacity \in Nat /\ allWorkers \in Nat /\ capacity \in Nat
         /\ allWorkers <= capacity /\ capacity <= MaxCapacity
         /\ \A v \in Workers : v \in Nat /\ v \in Threads /\ v # -1
         /\ \A v \in Nat : v < MaxCapacity => v \in Workers
         /\ \A v \in availableWorkers \cup boundWorkers : v \in Workers /\ v < allWorkers
         /\ None \notin Threads /\ None \notin Tasks
         /\ pc \in [Threads -> Labels] /\ workerId \in [Threads -> Workers \cup {-1}]
         /\ hand \in [Threads -> Tasks \cup {None}]
BY ConstantTypes DEF IInv, TypeOK, Workers, Threads, WorkersWithinCapacity

\* What becomes of the invariant when a worker is created, for thread t.
LEMMA NextWorker ==
  ASSUME IInv, allWorkers < capacity
  PROVE  /\ allWorkers \in Workers /\ pc[allWorkers] = "none" /\ current[allWorkers] = None
         /\ hand[allWorkers] = None
BY Bounds DEF IInv, Created, Working, Handing

\* A task given out at once goes to a worker that is free.
LEMMA DirectWorkersFree ==
  ASSUME NEW k, NEW w \in DirectWorkers(k)
  PROVE  w \in availableWorkers \ boundWorkers /\ ~Bound(k)
BY SetBits DEF DirectWorkers

\* The workers a bound task may go to exist, or are the next one to exist.
LEMMA WorkersForTagExist ==
  ASSUME IInv, NEW g \in Tags, NEW w \in WorkersForTag(g), w # -1
  PROVE  /\ w \in Workers /\ w \in 0..allWorkers
         /\ w = allWorkers => allWorkers < capacity
         /\ tagToWorkerBindings[g] # -1 => w = tagToWorkerBindings[g]
<1> USE DispatcherAssumption DEF IInv, TypeOK, Workers
<1>1. CASE tagToWorkerBindings[g] # -1
  BY <1>1 DEF WorkersForTag, Recorded
<1>2. CASE tagToWorkerBindings[g] = -1 /\ BoundAmount >= boundCapacity
  <2>1. LeastBound \subseteq boundWorkers \cup {-1}
    BY SetBits DEF LeastBound
  <2>2. w \in boundWorkers
    BY <1>2, <2>1 DEF WorkersForTag
  <2> QED  BY <1>2, <2>2
<1>3. CASE tagToWorkerBindings[g] = -1 /\ ~(BoundAmount >= boundCapacity)
  <2>1. FirstSetBit(availableWorkers \ boundWorkers) \subseteq availableWorkers \cup {-1}
    BY SetBits
  <2>2. w \in availableWorkers \/ (w = allWorkers /\ allWorkers < capacity)
    BY <1>3, <2>1 DEF WorkersForTag, CanCreate
  <2>3. CASE w \in availableWorkers
    BY <1>3, <2>3
  <2>4. CASE w = allWorkers /\ allWorkers < capacity
    <3>1. capacity <= MaxCapacity /\ capacity \in Nat /\ allWorkers \in Nat
      BY DEF WorkersWithinCapacity
    <3> QED  BY <1>3, <2>4, <3>1
  <2> QED  BY <2>2, <2>3, <2>4
<1> QED  BY <1>1, <1>2, <1>3

-----------------------------------------------------------------------------
LEMMA InitIInv == Init => IInv
<1> SUFFICES ASSUME Init PROVE IInv
  OBVIOUS
<1> USE DispatcherAssumption DEF Init, Workers, Threads
<1>1. TypeOK
  <2>1. tasksQueue \in Seq(Tasks) /\ workerTasks \in [Workers -> Seq(Tasks)]
    BY EmptySeq
  <2>2. pc \in [Threads -> Labels]
    BY DEF Labels
  <2>3. customTagCapacities \in [Tags -> Nat] /\ capacity \in Nat /\ boundCapacity \in Nat
    OBVIOUS
  <2>4. availableWorkers = {} /\ boundWorkers = {} /\ pausedCustomTags = {}
    OBVIOUS
  <2>5. allWorkers = 0 /\ it = 0 /\ mainLock = None /\ submitted = {} /\ finished = {}
    OBVIOUS
  <2>6. /\ subPoolsUsage \in [Pools -> Nat]
        /\ tagToWorkerBindings \in [Tags -> Workers \cup {-1}]
        /\ workersBindingsCount \in [Workers -> Nat]
        /\ current \in [Workers -> Tasks \cup {None}]
        /\ workerId \in [Threads -> Workers \cup {-1}]
        /\ arg \in [Clients -> Tags \X Nat]
        /\ hand \in [Threads -> Tasks \cup {None}]
    OBVIOUS
  <2> HIDE DEF Init
  <2> QED  BY <2>1, <2>2, <2>3, <2>4, <2>5, <2>6, SMTT(20) DEF TypeOK
<1>2. WorkersWithinCapacity /\ Locked /\ Looping /\ Handing
  BY DEF WorkersWithinCapacity, Locked, Looping, Handing
<1>3. Working /\ Created /\ Recorded
  BY DEF Working, Created, Recorded
<1> HIDE DEF Init
<1> QED  BY <1>1, <1>2, <1>3 DEF IInv

LEMMA InsertTaskIInv ==
  ASSUME IInv, NEW c \in Clients, NEW k \in Tasks, InsertTask(c, k)
  PROVE  IInv'
<1> USE Bounds DEF IInv, settings, bindings
<1>1. c \in Threads /\ c \notin Workers /\ pc[c] = "idle" /\ mainLock = None
  BY ConstantTypes DEF InsertTask, Threads
<1>2. /\ UNCHANGED <<mainLock, settings, allWorkers, bindings, workerTasks, current, arg, it, finished>>
      /\ submitted' \subseteq Tasks
  BY DEF InsertTask, TypeOK
\* Bound or direct, the task is handed over to a worker that exists.
<1>3. ASSUME NEW w \in Workers, w < allWorkers,
             /\ availableWorkers' = availableWorkers \ {w}
             /\ workerId' = [workerId EXCEPT ![c] = w]
             /\ hand' = [hand EXCEPT ![c] = k]
             /\ pc' = [pc EXCEPT ![c] = "handOver"]
             /\ subPoolsUsage' \in [Pools -> Nat] /\ UNCHANGED tasksQueue
      PROVE  IInv'
  <2>1. /\ pc' \in [Threads -> Labels] /\ pc'[c] = "handOver"
        /\ \A u \in Threads \ {c} : pc'[u] = pc[u]
    BY <1>1, <1>3 DEF Labels
  <2>2. /\ workerId' \in [Threads -> Workers \cup {-1}] /\ workerId'[c] = w
        /\ \A u \in Threads \ {c} : workerId'[u] = workerId[u]
    BY <1>1, <1>3
  <2>3. /\ hand' \in [Threads -> Tasks \cup {None}] /\ hand'[c] \in Tasks
        /\ \A u \in Threads \ {c} : hand'[u] = hand[u]
    BY <1>1, <1>3
  <2>a. TypeOK'
    BY <1>2, <1>3, <2>1, <2>2, <2>3 DEF TypeOK
  <2>b. WorkersWithinCapacity' /\ Created'
    BY <1>1, <1>2, <2>1 DEF WorkersWithinCapacity, Created
  <2>c. Locked' /\ Looping'
    BY <1>1, <1>2, <2>1, <2>2 DEF Locked, Looping
  <2>d. Handing' /\ Working'
    BY <1>1, <1>2, <1>3, <2>1, <2>2, <2>3 DEF Handing, Working
  <2>e. Recorded'
    BY <1>2 DEF Recorded
  <2> QED  BY <2>a, <2>b, <2>c, <2>d, <2>e
<1>4. CASE InsertBound(c, k)
  <2>1. /\ tagToWorkerBindings[TagOf(k)] \in Workers
        /\ tagToWorkerBindings[TagOf(k)] < allWorkers
    BY <1>4, TaskTags DEF InsertBound, Recorded
  <2> QED  BY <1>3, <1>4, <2>1 DEF InsertBound, TypeOK
<1>5. CASE InsertDirect(c, k)
  <2>1. PICK w \in DirectWorkers(k) :
          /\ subPoolsUsage' = [subPoolsUsage EXCEPT ![PoolOf(k)] = @ + 1]
          /\ availableWorkers' = availableWorkers \ {w}
          /\ workerId' = [workerId EXCEPT ![c] = w]
          /\ hand' = [hand EXCEPT ![c] = k]
          /\ pc' = [pc EXCEPT ![c] = "handOver"]
          /\ UNCHANGED tasksQueue
    BY <1>5 DEF InsertDirect
  <2>2. w \in Workers /\ w < allWorkers
    BY DirectWorkersFree
  <2>3. subPoolsUsage' \in [Pools -> Nat]
    BY <2>1, UsageGrows
  <2> QED  BY <1>3, <2>1, <2>2, <2>3
<1>6. CASE InsertQueued(c, k)
  <2>1. tasksQueue' \in Seq(Tasks)
    BY <1>6, EnqueueType DEF InsertQueued, TypeOK
  <2>2. /\ UNCHANGED <<subPoolsUsage, availableWorkers, workerId, hand>>
        /\ pc' = pc \/ pc' = [pc EXCEPT ![c] = "schedule"]
    BY <1>6 DEF InsertQueued
  <2>a. TypeOK'
    BY <1>1, <1>2, <2>1, <2>2 DEF TypeOK, Labels
  <2>b. WorkersWithinCapacity' /\ Created'
    BY <1>1, <1>2, <2>2 DEF WorkersWithinCapacity, Created
  <2>c. Locked' /\ Looping'
    BY <1>1, <1>2, <2>2 DEF Locked, Looping
  <2>d. Handing' /\ Working'
    BY <1>1, <1>2, <2>2 DEF Handing, Working
  <2>e. Recorded'
    BY <1>2 DEF Recorded
  <2> QED  BY <2>a, <2>b, <2>c, <2>d, <2>e
<1> QED  BY <1>4, <1>5, <1>6 DEF InsertTask

LEMMA HandOverIInv ==
  ASSUME IInv, NEW t \in Threads, HandOver(t)
  PROVE  IInv'
<1> USE ConstantTypes DEF IInv, Threads, Workers, settings, bindings, locals, unset,
        Returned, Home, Labels
<1>1. pc[t] = "handOver" /\ hand[t] \in Tasks /\ workerId[t] \in Workers
  BY DEF HandOver, Handing, TypeOK
<1>2. workerTasks' \in [Workers -> Seq(Tasks)]
  BY <1>1, AppendProperties DEF HandOver, TypeOK
<1>a. TypeOK'
  BY <1>1, <1>2 DEF HandOver, TypeOK
<1>b. WorkersWithinCapacity' /\ Created'
  BY <1>1, <1>2 DEF HandOver, TypeOK, WorkersWithinCapacity, Created
<1>c. Locked' /\ Looping'
  BY <1>1, <1>2 DEF HandOver, TypeOK, Locked, Looping
<1>d. Handing' /\ Working'
  BY <1>1, <1>2 DEF HandOver, TypeOK, Handing, Working
<1>e. Recorded'
  BY <1>1, <1>2 DEF HandOver, TypeOK, Recorded
<1> QED  BY <1>a, <1>b, <1>c, <1>d, <1>e

LEMMA ScheduleBeginIInv ==
  ASSUME IInv, NEW t \in Threads, ScheduleBegin(t)
  PROVE  IInv'
<1> USE Bounds DEF IInv, settings, bindings
<1> DEFINE create == availableWorkers = {}
           free == IF create THEN {allWorkers} ELSE availableWorkers
<1>1. pc[t] = "schedule" /\ mainLock = None /\ (create => allWorkers < capacity)
  BY DEF ScheduleBegin, CanCreate
<1>2. create => allWorkers \in Workers /\ t # allWorkers /\ pc[allWorkers] = "none"
  BY <1>1, NextWorker
<1>3. PICK w : w \in free /\ workerId' = [workerId EXCEPT ![t] = w]
  <2>1. LastSetBit(free \ boundWorkers) \subseteq free \/ free \ boundWorkers = {}
    BY SetBits
  <2>2. FirstSetBit(free) \subseteq free
    BY SetBits
  <2> QED  BY <2>1, <2>2 DEF ScheduleBegin
<1>4. CASE create
  <2>1. /\ w = allWorkers /\ availableWorkers' = {allWorkers} /\ allWorkers' = allWorkers + 1
        /\ pc' = [[pc EXCEPT ![allWorkers] = "pop"] EXCEPT ![t] = "loop"]
        /\ mainLock' = t /\ it' = 1
        /\ UNCHANGED <<settings, subPoolsUsage, tasksQueue, bindings, workerTasks, current, arg, hand,
                      submitted, finished>>
    BY <1>3, <1>4 DEF ScheduleBegin, Started
  <2>2. /\ pc' \in [Threads -> Labels] /\ pc'[t] = "loop" /\ pc'[allWorkers] = "pop"
        /\ \A u \in Threads \ {t, allWorkers} : pc'[u] = pc[u]
    BY <1>2, <1>4, <2>1 DEF Labels
  <2>3. /\ workerId' \in [Threads -> Workers \cup {-1}] /\ workerId'[t] = allWorkers
        /\ \A u \in Threads \ {t} : workerId'[u] = workerId[u]
    BY <1>2, <1>3, <1>4, <2>1
  <2> HIDE DEF create, free
  <2>4. availableWorkers' \subseteq 0..(allWorkers' - 1) /\ allWorkers' \in 0..MaxCapacity
        /\ boundWorkers' \subseteq 0..(allWorkers' - 1)
    BY <1>1, <1>4, <2>1
  <2>a. TypeOK'
    BY <2>1, <2>2, <2>3, <2>4 DEF TypeOK
  <2>b. WorkersWithinCapacity' /\ Created'
    BY <1>1, <1>2, <1>4, <2>1, <2>2 DEF WorkersWithinCapacity, Created
  <2>c. Locked' /\ Looping'
    BY <1>1, <1>2, <1>4, <2>1, <2>2, <2>3 DEF Locked, Looping
  <2>d. Handing' /\ Working'
    BY <1>1, <1>2, <1>4, <2>1, <2>2, <2>3 DEF Handing, Working
  <2>e. Recorded'
    BY <2>1 DEF Recorded
  <2> QED  BY <2>a, <2>b, <2>c, <2>d, <2>e
<1>5. CASE ~create
  <2>1. /\ w \in availableWorkers /\ UNCHANGED <<availableWorkers, allWorkers>>
        /\ pc' = [pc EXCEPT ![t] = "loop"]
        /\ mainLock' = t /\ it' = 1
        /\ workerId' = [workerId EXCEPT ![t] = w]
        /\ UNCHANGED <<settings, subPoolsUsage, tasksQueue, bindings, workerTasks, current, arg, hand,
                      submitted, finished>>
    BY <1>3, <1>5 DEF ScheduleBegin
  <2> HIDE DEF create, free
  <2>2. /\ pc' \in [Threads -> Labels] /\ pc'[t] = "loop"
        /\ \A u \in Threads \ {t} : pc'[u] = pc[u]
    BY <2>1 DEF Labels
  <2>3. /\ workerId' \in [Threads -> Workers \cup {-1}] /\ workerId'[t] = w
        /\ \A u \in Threads \ {t} : workerId'[u] = workerId[u]
    BY <2>1
  <2>a. TypeOK'
    BY <2>1, <2>2, <2>3 DEF TypeOK
  <2>b. WorkersWithinCapacity' /\ Created'
    BY <1>1, <2>1, <2>2 DEF WorkersWithinCapacity, Created
  <2>c. Locked' /\ Looping'
    BY <1>1, <2>1, <2>2, <2>3 DEF Locked, Looping
  <2>d. Handing' /\ Working'
    BY <1>1, <2>1, <2>2, <2>3 DEF Handing, Working
  <2>e. Recorded'
    BY <2>1 DEF Recorded
  <2> QED  BY <2>a, <2>b, <2>c, <2>d, <2>e
<1> QED  BY <1>4, <1>5

LEMMA LoopBoundIInv ==
  ASSUME IInv, NEW t \in Threads, LoopBound(t)
  PROVE  IInv'
<1> USE Bounds DEF IInv, settings, bindings
<1> DEFINE k == tasksQueue[it]
           g == TagOf(k)
<1>1. pc[t] = "loop" /\ mainLock = t /\ workerId[t] \in availableWorkers
  BY DEF LoopBound, InLoop, Looping
<1>2. tasksQueue' \in Seq(Tasks) /\ k \in Tasks
  BY <1>1, ErasedType DEF LoopBound, Looping, TypeOK
<1>3. g \in Tags
  BY <1>2, TaskTags
<1>4. PICK w \in WorkersForTag(g) \ {-1} :
        /\ workerTasks' = [workerTasks EXCEPT ![w] = Append(@, k)]
        /\ allWorkers' = IF w = allWorkers THEN allWorkers + 1 ELSE allWorkers
        /\ availableWorkers' = availableWorkers \ {w}
        /\ IF NewlyBound(g)
             THEN /\ boundWorkers' = boundWorkers \cup {w}
                  /\ workersBindingsCount' = [workersBindingsCount EXCEPT ![w] = @ + 1]
                  /\ tagToWorkerBindings' = [tagToWorkerBindings EXCEPT ![g] = w]
             ELSE UNCHANGED bindings
        /\ LET label == IF w = allWorkers THEN Started(pc, w) ELSE pc IN
             IF w = workerId[t]
               THEN /\ mainLock' = None /\ it' = 0
                    /\ workerId' = [workerId EXCEPT ![t] = -1]
                    /\ pc' = [label EXCEPT ![t] = Home(t)]
               ELSE pc' = label /\ UNCHANGED <<mainLock, it, workerId>>
  BY DEF LoopBound, TookLoopWorker
<1>5. w \in Workers /\ w \in 0..allWorkers /\ (w = allWorkers => allWorkers < capacity)
  BY <1>3, <1>4, WorkersForTagExist
<1>6. workerTasks' \in [Workers -> Seq(Tasks)]
  BY <1>2, <1>4, <1>5, AppendProperties DEF TypeOK
<1>7. UNCHANGED <<settings, subPoolsUsage, current, arg, hand, submitted, finished>>
  BY DEF LoopBound
<1>8. allWorkers \in Workers => pc[allWorkers] = "none" /\ t # allWorkers
  BY <1>1 DEF Created
<1> HIDE DEF k, g
<1>grown. /\ allWorkers' = IF w = allWorkers THEN allWorkers + 1 ELSE allWorkers
        /\ availableWorkers' = availableWorkers \ {w}
        /\ w \in Nat /\ w <= allWorkers /\ allWorkers' \in Nat
  BY <1>4, <1>5
<1>9. /\ boundWorkers' \subseteq 0..(allWorkers' - 1) /\ Recorded'
      /\ workersBindingsCount' \in [Workers -> Nat]
      /\ tagToWorkerBindings' \in [Tags -> Workers \cup {-1}]
  <2>1. CASE NewlyBound(g)
    <3>1. /\ boundWorkers' = boundWorkers \cup {w}
          /\ workersBindingsCount' = [workersBindingsCount EXCEPT ![w] = @ + 1]
          /\ tagToWorkerBindings' = [tagToWorkerBindings EXCEPT ![g] = w]
      BY <1>4, <2>1
    <3>2. boundWorkers' \subseteq 0..(allWorkers' - 1)
      BY <1>grown, <3>1
    <3>3. /\ workersBindingsCount' \in [Workers -> Nat]
          /\ tagToWorkerBindings' \in [Tags -> Workers \cup {-1}]
      BY <1>3, <1>5, <3>1 DEF TypeOK
    <3>4. Recorded'
      BY <1>3, <1>5, <3>1 DEF Recorded, TypeOK
    <3> QED  BY <3>2, <3>3, <3>4
  <2>2. CASE ~NewlyBound(g)
    <3>1. UNCHANGED bindings
      BY <1>4, <2>2
    <3> QED  BY <1>4, <3>1 DEF Recorded, TypeOK
  <2> QED  BY <2>1, <2>2
<1>10. allWorkers' \in 0..MaxCapacity /\ WorkersWithinCapacity'
       /\ availableWorkers' \subseteq 0..(allWorkers' - 1)
  <2>1. allWorkers' <= capacity
    BY <1>grown, <1>5
  <2>2. \A v \in availableWorkers : v \in Nat /\ v < allWorkers
    OBVIOUS
  <2>3. availableWorkers' \subseteq 0..(allWorkers' - 1)
    BY <1>grown, <2>2
  <2> QED  BY <1>grown, <1>7, <2>1, <2>3 DEF WorkersWithinCapacity
<1>11. CASE w = workerId[t]
  <2>1. /\ mainLock' = None /\ it' = 0 /\ UNCHANGED allWorkers
        /\ workerId' = [workerId EXCEPT ![t] = -1]
        /\ pc' = [pc EXCEPT ![t] = Home(t)]
    BY <1>1, <1>4, <1>11
  <2>2. /\ pc' \in [Threads -> Labels] /\ pc'[t] = Home(t) /\ Home(t) \in {"idle", "pop"}
        /\ \A u \in Threads \ {t} : pc'[u] = pc[u]
    BY <2>1 DEF Labels, Home
  <2>3. /\ workerId' \in [Threads -> Workers \cup {-1}]
        /\ \A u \in Threads \ {t} : workerId'[u] = workerId[u]
    BY <2>1
  <2>a. TypeOK'
    BY <1>2, <1>6, <1>7, <1>9, <1>10, <2>1, <2>2, <2>3 DEF TypeOK
  <2>b. Created'
    BY <1>1, <2>1, <2>2 DEF Created
  <2>c. Locked' /\ Looping'
    BY <1>1, <2>1, <2>2, <2>3 DEF Locked, Looping
  <2>d. Handing' /\ Working'
    BY <1>1, <1>7, <2>1, <2>2, <2>3 DEF Handing, Working
  <2> QED  BY <1>9, <1>10, <2>a, <2>b, <2>c, <2>d
<1>12. CASE w # workerId[t]
  <2>1. /\ pc' = IF w = allWorkers THEN [pc EXCEPT ![w] = "pop"] ELSE pc
        /\ UNCHANGED <<mainLock, it, workerId>>
        /\ allWorkers' = IF w = allWorkers THEN allWorkers + 1 ELSE allWorkers
        /\ availableWorkers' = availableWorkers \ {w}
    BY <1>4, <1>12 DEF Started
  <2>2. w = allWorkers => pc[w] = "none" /\ w # t /\ current[w] = None /\ hand[w] = None
    BY <1>5, <1>8, NextWorker
  <2>3. /\ pc' \in [Threads -> Labels]
        /\ \A u \in Threads : pc'[u] = IF u = w /\ w = allWorkers THEN "pop" ELSE pc[u]
    BY <1>5, <2>1 DEF Labels
  <2>a. TypeOK'
    BY <1>2, <1>6, <1>7, <1>9, <1>10, <2>1, <2>3 DEF TypeOK
  <2>b. Created'
    BY <1>5, <2>1, <2>3 DEF Created
  <2>c. Locked' /\ Looping'
    BY <1>1, <1>12, <2>1, <2>2, <2>3 DEF Locked, Looping
  <2>d. Handing' /\ Working'
    <3>1. Handing'
      BY <1>5, <1>7, <2>1, <2>2, <2>3 DEF Handing
    <3>2. Working'
      BY <1>5, <1>7, <2>1, <2>2, <2>3 DEF Working
    <3> QED  BY <3>1, <3>2
  <2> QED  BY <1>9, <1>10, <2>a, <2>b, <2>c, <2>d
<1> QED  BY <1>11, <1>12

LEMMA LoopRunIInv ==
  ASSUME IInv, NEW t \in Threads, LoopRun(t)
  PROVE  IInv'
<1> USE Bounds DEF IInv, settings, bindings
<1> DEFINE k == tasksQueue[it]
           move == workerId[t] \in boundWorkers /\ allWorkers < capacity
<1>1. pc[t] = "loop" /\ mainLock = t /\ workerId[t] \in availableWorkers
  BY DEF LoopRun, InLoop, Looping
<1>2. tasksQueue' \in Seq(Tasks) /\ k \in Tasks
  BY <1>1, ErasedType DEF LoopRun, Looping, TypeOK
<1>3. move => allWorkers \in Workers /\ t # allWorkers /\ pc[allWorkers] = "none"
  BY <1>1, NextWorker
<1>4. CASE move
  <2>1. /\ subPoolsUsage' = [subPoolsUsage EXCEPT ![PoolOf(k)] = @ + 1]
        /\ availableWorkers' = (availableWorkers \ {workerId[t]}) \cup {allWorkers}
        /\ allWorkers' = allWorkers + 1
        /\ workerId' = [workerId EXCEPT ![t] = allWorkers]
        /\ pc' = [[pc EXCEPT ![allWorkers] = "pop"] EXCEPT ![t] = "handOver"]
        /\ hand' = [hand EXCEPT ![t] = k]
        /\ mainLock' = None /\ it' = 0
        /\ UNCHANGED <<settings, bindings, workerTasks, current, arg, submitted, finished>>
    BY <1>4 DEF LoopRun, CanCreate, Started
  <2>2. /\ pc' \in [Threads -> Labels] /\ pc'[t] = "handOver" /\ pc'[allWorkers] = "pop"
        /\ \A u \in Threads \ {t, allWorkers} : pc'[u] = pc[u]
    BY <1>3, <1>4, <2>1 DEF Labels
  <2>3. /\ workerId' \in [Threads -> Workers \cup {-1}] /\ workerId'[t] = allWorkers
        /\ \A u \in Threads \ {t} : workerId'[u] = workerId[u]
    BY <1>3, <1>4, <2>1
  <2>4. /\ hand' \in [Threads -> Tasks \cup {None}] /\ hand'[t] \in Tasks
        /\ \A u \in Threads \ {t} : hand'[u] = hand[u]
    BY <1>2, <2>1
  <2>5. subPoolsUsage' \in [Pools -> Nat]
    <3> HIDE DEF k
    <3> QED  BY <1>2, <2>1, UsageGrows
  <2>6. allWorkers' = allWorkers + 1 /\ allWorkers < capacity
    BY <1>4, <2>1
  <2>7. /\ availableWorkers' = (availableWorkers \ {workerId[t]}) \cup {allWorkers}
        /\ mainLock' = None /\ it' = 0
        /\ UNCHANGED <<settings, bindings, workerTasks, current, arg, submitted, finished>>
    BY <2>1
  <2> HIDE DEF k, move
  <2>8. availableWorkers' \subseteq 0..(allWorkers' - 1) /\ allWorkers' \in 0..MaxCapacity
        /\ boundWorkers' \subseteq 0..(allWorkers' - 1)
    BY <2>6, <2>7
  <2>a. TypeOK'
    BY <1>2, <2>2, <2>3, <2>4, <2>5, <2>7, <2>8 DEF TypeOK
  <2>b. WorkersWithinCapacity' /\ Created'
    BY <1>1, <2>2, <2>6, <2>7, NextWorker DEF WorkersWithinCapacity, Created
  <2>c. Locked' /\ Looping'
    BY <1>1, <2>2, <2>3, <2>6, <2>7, NextWorker DEF Locked, Looping
  <2>d. Handing' /\ Working'
    BY <1>1, <2>2, <2>3, <2>4, <2>6, <2>7, NextWorker DEF Handing, Working
  <2>e. Recorded'
    BY <2>7 DEF Recorded
  <2> QED  BY <2>a, <2>b, <2>c, <2>d, <2>e
<1>5. CASE ~move
  <2>1. /\ subPoolsUsage' = [subPoolsUsage EXCEPT ![PoolOf(k)] = @ + 1]
        /\ availableWorkers' = availableWorkers \ {workerId[t]}
        /\ UNCHANGED <<allWorkers, workerId>>
        /\ pc' = [pc EXCEPT ![t] = "handOver"]
        /\ hand' = [hand EXCEPT ![t] = k]
        /\ mainLock' = None /\ it' = 0
        /\ UNCHANGED <<settings, bindings, workerTasks, current, arg, submitted, finished>>
    BY <1>5 DEF LoopRun, CanCreate
  <2>2. subPoolsUsage' \in [Pools -> Nat]
    <3> HIDE DEF k
    <3> QED  BY <1>2, <2>1, UsageGrows
  <2>3. /\ pc' \in [Threads -> Labels] /\ pc'[t] = "handOver"
        /\ \A u \in Threads \ {t} : pc'[u] = pc[u]
    BY <2>1 DEF Labels
  <2>4. /\ hand' \in [Threads -> Tasks \cup {None}] /\ hand'[t] \in Tasks
        /\ \A u \in Threads \ {t} : hand'[u] = hand[u]
    BY <1>2, <2>1
  <2>5. /\ availableWorkers' = availableWorkers \ {workerId[t]}
        /\ mainLock' = None /\ it' = 0
        /\ UNCHANGED <<allWorkers, workerId, settings, bindings, workerTasks, current, arg,
                       submitted, finished>>
    BY <2>1
  <2> HIDE DEF k, move
  <2>a. TypeOK'
    BY <1>2, <2>2, <2>3, <2>4, <2>5 DEF TypeOK
  <2>b. WorkersWithinCapacity' /\ Created'
    BY <1>1, <2>3, <2>5 DEF WorkersWithinCapacity, Created
  <2>c. Locked' /\ Looping'
    BY <1>1, <2>3, <2>5 DEF Locked, Looping
  <2>d. Handing' /\ Working'
    BY <1>1, <2>3, <2>4, <2>5 DEF Handing, Working
  <2>e. Recorded'
    BY <2>5 DEF Recorded
  <2> QED  BY <2>a, <2>b, <2>c, <2>d, <2>e
<1> QED  BY <1>4, <1>5

LEMMA PreHeatLoopIInv ==
  ASSUME IInv, NEW c \in Clients, PreHeatLoop(c)
  PROVE  IInv'
<1> USE Bounds DEF IInv, settings, bindings, unset
<1>1. c \in Threads /\ c \notin Workers /\ pc[c] = "preHeating"
  BY ConstantTypes DEF PreHeatLoop, Threads
<1>2. CASE allWorkers < capacity
  <2>1. /\ allWorkers' = allWorkers + 1
        /\ availableWorkers' = availableWorkers \cup {allWorkers}
        /\ pc' = [pc EXCEPT ![allWorkers] = "pop"]
        /\ UNCHANGED <<unset, mainLock, settings, arg>>
    BY <1>2 DEF PreHeatLoop, CanCreate, Started
  <2>2. /\ pc' \in [Threads -> Labels] /\ pc'[allWorkers] = "pop"
        /\ \A u \in Threads \ {allWorkers} : pc'[u] = pc[u]
    BY <1>2, <2>1, NextWorker DEF Labels
  <2>3. availableWorkers' \subseteq 0..(allWorkers' - 1) /\ allWorkers' \in 0..MaxCapacity
        /\ boundWorkers' \subseteq 0..(allWorkers' - 1)
    BY <1>2, <2>1
  <2>a. TypeOK'
    BY <2>1, <2>2, <2>3 DEF TypeOK
  <2>b. WorkersWithinCapacity' /\ Created'
    BY <1>2, <2>1, <2>2 DEF WorkersWithinCapacity, Created
  <2>c. Locked' /\ Looping'
    BY <1>2, <2>1, <2>2, NextWorker DEF Locked, Looping
  <2>d. Handing' /\ Working'
    BY <1>2, <2>1, <2>2, NextWorker DEF Handing, Working
  <2>e. Recorded'
    BY <2>1 DEF Recorded
  <2> QED  BY <2>a, <2>b, <2>c, <2>d, <2>e
<1>3. CASE ~(allWorkers < capacity)
  <2>1. UNCHANGED <<allWorkers, availableWorkers, pc, unset, mainLock, settings, arg>>
    BY <1>3 DEF PreHeatLoop, CanCreate
  <2> QED
    BY <2>1 DEF TypeOK, WorkersWithinCapacity, Created, Locked, Looping, Handing, Working, Recorded
<1> QED  BY <1>2, <1>3

LEMMA SetCapacityIInv ==
  ASSUME IInv, NEW c \in Clients, NEW n \in NewCapacities, SetCapacity(c, n)
  PROVE  IInv'
<1> USE ConstantTypes DEF IInv, Threads, Workers, settings, bindings, locals, unset,
        Returned, Home, Labels
<1>1. n \in Int
  BY DispatcherAssumption
<1>2. capacity' \in Nat /\ allWorkers <= capacity' /\ capacity' <= MaxCapacity
  BY <1>1 DEF SetCapacity, NewCapacity, AtMost, AtLeast, TypeOK
<1>3. boundCapacity' \in Nat
  BY <1>2 DEF SetCapacity, AtMost, TypeOK
<1>a. TypeOK'
  BY <1>2, <1>3 DEF SetCapacity, TypeOK
<1>b. WorkersWithinCapacity' /\ Created'
  BY <1>2, <1>3 DEF SetCapacity, TypeOK, WorkersWithinCapacity, Created
<1>c. Locked' /\ Looping'
  BY <1>2, <1>3 DEF SetCapacity, TypeOK, Locked, Looping
<1>d. Handing' /\ Working'
  BY <1>2, <1>3 DEF SetCapacity, TypeOK, Handing, Working
<1>e. Recorded'
  BY <1>2, <1>3 DEF SetCapacity, TypeOK, Recorded
<1> QED  BY <1>a, <1>b, <1>c, <1>d, <1>e

LEMMA SetBoundCapacityIInv ==
  ASSUME IInv, NEW c \in Clients, NEW n \in NewBoundCapacities, SetBoundCapacity(c, n)
  PROVE  IInv'
<1> USE ConstantTypes DEF IInv, Threads, Workers, settings, bindings, locals, unset,
        Returned, Home, Labels
<1>1. boundCapacity' \in Nat
  BY BoundAmountType, DispatcherAssumption DEF SetBoundCapacity, AtLeast
<1>a. TypeOK'
  BY <1>1 DEF SetBoundCapacity, TypeOK
<1>b. WorkersWithinCapacity' /\ Created'
  BY <1>1 DEF SetBoundCapacity, TypeOK, WorkersWithinCapacity, Created
<1>c. Locked' /\ Looping'
  BY <1>1 DEF SetBoundCapacity, TypeOK, Locked, Looping
<1>d. Handing' /\ Working'
  BY <1>1 DEF SetBoundCapacity, TypeOK, Handing, Working
<1>e. Recorded'
  BY <1>1 DEF SetBoundCapacity, TypeOK, Recorded
<1> QED  BY <1>a, <1>b, <1>c, <1>d, <1>e

LEMMA AddCustomTagReadIInv ==
  ASSUME IInv, NEW c \in Clients, NEW a \in NewTagCapacities, AddCustomTagRead(c, a[1], a[2])
  PROVE  IInv'
<1> USE ConstantTypes DEF IInv, Threads, Workers, settings, bindings, locals, unset,
        Returned, Home, Labels
<1>1. a[1] \in Tags /\ a[2] \in Int
  BY DispatcherAssumption
<1>2. AtMost(AtLeast(a[2], 1), capacity) \in Nat
  BY <1>1 DEF AtMost, AtLeast, TypeOK
<1>3. arg' \in [Clients -> Tags \X Nat]
  BY <1>1, <1>2 DEF AddCustomTagRead, TypeOK
<1>a. TypeOK'
  BY <1>3 DEF AddCustomTagRead, TypeOK
<1>b. WorkersWithinCapacity' /\ Created'
  BY <1>3 DEF AddCustomTagRead, TypeOK, WorkersWithinCapacity, Created
<1>c. Locked' /\ Looping'
  BY <1>3 DEF AddCustomTagRead, TypeOK, Locked, Looping
<1>d. Handing' /\ Working'
  BY <1>3 DEF AddCustomTagRead, TypeOK, Handing, Working
<1>e. Recorded'
  BY <1>3 DEF AddCustomTagRead, TypeOK, Recorded
<1> QED  BY <1>a, <1>b, <1>c, <1>d, <1>e

LEMMA PreHeatReadIInv ==
  ASSUME IInv, NEW c \in Clients, NEW n \in PreHeats, PreHeatRead(c, n)
  PROVE  IInv'
<1> USE ConstantTypes DEF IInv, Threads, Workers, settings, bindings, locals, unset,
        Returned, Home, Labels
<1>1. arg' \in [Clients -> Tags \X Nat]
  BY DispatcherAssumption DEF PreHeatRead, AtMost, TypeOK
<1>a. TypeOK'
  BY <1>1 DEF PreHeatRead, TypeOK
<1>b. WorkersWithinCapacity' /\ Created'
  BY <1>1 DEF PreHeatRead, TypeOK, WorkersWithinCapacity, Created
<1>c. Locked' /\ Looping'
  BY <1>1 DEF PreHeatRead, TypeOK, Locked, Looping
<1>d. Handing' /\ Working'
  BY <1>1 DEF PreHeatRead, TypeOK, Handing, Working
<1>e. Recorded'
  BY <1>1 DEF PreHeatRead, TypeOK, Recorded
<1> QED  BY <1>a, <1>b, <1>c, <1>d, <1>e

LEMMA TaskFinishedIInv ==
  ASSUME IInv, NEW w \in Workers, TaskFinished(w)
  PROVE  IInv'
<1> USE ConstantTypes DEF IInv, Threads, Workers, settings, bindings, locals, unset,
        Returned, Home, Labels
<1>1. /\ w \in Threads /\ pc[w] \in {"finish", "finishAndAsk"} /\ mainLock = None
      /\ current[w] \in Tasks /\ w \in 0..(allWorkers - 1)
  BY DEF TaskFinished, Working, Created, TypeOK
<1>2. subPoolsUsage' \in [Pools -> Nat]
  <2>1. subPoolsUsage' = UsageAfter(current[w])
    BY DEF TaskFinished
  <2>2. PoolOf(current[w]) \in Pools /\ subPoolsUsage[PoolOf(current[w])] \in Nat
    BY <1>1, TaskTags DEF TypeOK
  <2>3. subPoolsUsage \in [Pools -> Nat]
    BY DEF TypeOK
  <2> QED  BY <2>1, <2>2, <2>3 DEF UsageAfter
<1>3. /\ current' = [current EXCEPT ![w] = None]
      /\ finished' = finished \cup {current[w]}
      /\ UNCHANGED <<mainLock, settings, tasksQueue, allWorkers, bindings, workerTasks, arg, hand,
                     it, submitted>>
  BY DEF TaskFinished
<1>4. CASE pc[w] = "finishAndAsk"
  <2>1. /\ availableWorkers' = availableWorkers \cup {w}
        /\ workerId' = [workerId EXCEPT ![w] = w]
        /\ pc' = [pc EXCEPT ![w] = "schedule"]
    BY <1>4 DEF TaskFinished
  <2>a. TypeOK'
    BY <1>1, <1>2, <1>3, <2>1 DEF IInv, TypeOK
  <2>b. WorkersWithinCapacity' /\ Created'
    BY <1>1, <1>2, <1>3, <2>1 DEF IInv, TypeOK, WorkersWithinCapacity, Created
  <2>c. Locked' /\ Looping'
    BY <1>1, <1>2, <1>3, <2>1 DEF IInv, TypeOK, Locked, Looping
  <2>d. Handing' /\ Working'
    BY <1>1, <1>2, <1>3, <2>1 DEF IInv, TypeOK, Handing, Working
  <2>e. Recorded'
    BY <1>1, <1>2, <1>3, <2>1 DEF IInv, TypeOK, Recorded
  <2> QED  BY <2>a, <2>b, <2>c, <2>d, <2>e
<1>5. CASE pc[w] = "finish"
  <2>1. pc' = [pc EXCEPT ![w] = "pop"] /\ UNCHANGED <<availableWorkers, workerId>>
    BY <1>5 DEF TaskFinished
  <2>a. TypeOK'
    BY <1>1, <1>2, <1>3, <2>1 DEF IInv, TypeOK
  <2>b. WorkersWithinCapacity' /\ Created'
    BY <1>1, <1>2, <1>3, <2>1 DEF IInv, TypeOK, WorkersWithinCapacity, Created
  <2>c. Locked' /\ Looping'
    BY <1>1, <1>2, <1>3, <2>1 DEF IInv, TypeOK, Locked, Looping
  <2>d. Handing' /\ Working'
    BY <1>1, <1>2, <1>3, <2>1 DEF IInv, TypeOK, Handing, Working
  <2>e. Recorded'
    BY <1>1, <1>2, <1>3, <2>1 DEF IInv, TypeOK, Recorded
  <2> QED  BY <2>a, <2>b, <2>c, <2>d, <2>e
<1> QED  BY <1>1, <1>4, <1>5

LEMMA ScheduleNothingIInv ==
  ASSUME IInv, NEW t \in Threads, ScheduleNothing(t)
  PROVE  IInv'
<1> USE ConstantTypes DEF IInv, Threads, Workers, settings, bindings, locals, unset,
        Returned, Home, Labels
<1>a. TypeOK'
  BY DEF ScheduleNothing, TypeOK
<1>b. WorkersWithinCapacity' /\ Created'
  BY DEF ScheduleNothing, TypeOK, WorkersWithinCapacity, Created
<1>c. Locked' /\ Looping'
  BY DEF ScheduleNothing, TypeOK, Locked, Looping
<1>d. Handing' /\ Working'
  BY DEF ScheduleNothing, TypeOK, Handing, Working
<1>e. Recorded'
  BY DEF ScheduleNothing, TypeOK, Recorded
<1> QED  BY <1>a, <1>b, <1>c, <1>d, <1>e

LEMMA LoopEndIInv ==
  ASSUME IInv, NEW t \in Threads, LoopEnd(t)
  PROVE  IInv'
<1> USE ConstantTypes DEF IInv, Threads, Workers, settings, bindings, locals, unset,
        Returned, Home, Labels
<1>a. TypeOK'
  BY DEF LoopEnd, InLoop, EndLoop, TypeOK
<1>b. WorkersWithinCapacity' /\ Created'
  BY DEF LoopEnd, InLoop, EndLoop, TypeOK, WorkersWithinCapacity, Created
<1>c. Locked' /\ Looping'
  BY DEF LoopEnd, InLoop, EndLoop, TypeOK, Locked, Looping
<1>d. Handing' /\ Working'
  BY DEF LoopEnd, InLoop, EndLoop, TypeOK, Handing, Working
<1>e. Recorded'
  BY DEF LoopEnd, InLoop, EndLoop, TypeOK, Recorded
<1> QED  BY <1>a, <1>b, <1>c, <1>d, <1>e

LEMMA LoopSkipIInv ==
  ASSUME IInv, NEW t \in Threads, LoopSkip(t)
  PROVE  IInv'
<1> USE ConstantTypes DEF IInv, Threads, Workers, settings, bindings, locals, unset,
        Returned, Home, Labels
<1>1. it' = it + 1 /\ pc[t] = "loop"
      /\ UNCHANGED <<mainLock, settings, subPoolsUsage, tasksQueue, allWorkers,
                      availableWorkers, bindings, workerTasks, current, pc, workerId, arg,
                      hand, submitted, finished>>
  BY DEF LoopSkip, InLoop
<1>2. it' \in Nat /\ it' >= 1
  BY <1>1 DEF Looping, TypeOK
<1>a. TypeOK'
  BY <1>1, <1>2 DEF IInv, TypeOK
<1>b. WorkersWithinCapacity' /\ Created'
  BY <1>1, <1>2 DEF IInv, TypeOK, WorkersWithinCapacity, Created
<1>c. Locked' /\ Looping'
  BY <1>1, <1>2 DEF IInv, TypeOK, Locked, Looping
<1>d. Handing' /\ Working'
  BY <1>1, <1>2 DEF IInv, TypeOK, Handing, Working
<1>e. Recorded'
  BY <1>1, <1>2 DEF IInv, TypeOK, Recorded
<1> QED  BY <1>a, <1>b, <1>c, <1>d, <1>e

LEMMA AddCustomTagIInv ==
  ASSUME IInv, NEW c \in Clients, AddCustomTag(c)
  PROVE  IInv'
<1> USE ConstantTypes DEF IInv, Threads, Workers, settings, bindings, locals, unset,
        Returned, Home, Labels
<1>a. TypeOK'
  BY DEF AddCustomTag, TypeOK
<1>b. WorkersWithinCapacity' /\ Created'
  BY DEF AddCustomTag, TypeOK, WorkersWithinCapacity, Created
<1>c. Locked' /\ Looping'
  BY DEF AddCustomTag, TypeOK, Locked, Looping
<1>d. Handing' /\ Working'
  BY DEF AddCustomTag, TypeOK, Handing, Working
<1>e. Recorded'
  BY DEF AddCustomTag, TypeOK, Recorded
<1> QED  BY <1>a, <1>b, <1>c, <1>d, <1>e

LEMMA PreHeatLockIInv ==
  ASSUME IInv, NEW c \in Clients, PreHeatLock(c)
  PROVE  IInv'
<1> USE ConstantTypes DEF IInv, Threads, Workers, settings, bindings, locals, unset,
        Returned, Home, Labels
<1>a. TypeOK'
  BY DEF PreHeatLock, TypeOK
<1>b. WorkersWithinCapacity' /\ Created'
  BY DEF PreHeatLock, TypeOK, WorkersWithinCapacity, Created
<1>c. Locked' /\ Looping'
  BY DEF PreHeatLock, TypeOK, Locked, Looping
<1>d. Handing' /\ Working'
  BY DEF PreHeatLock, TypeOK, Handing, Working
<1>e. Recorded'
  BY DEF PreHeatLock, TypeOK, Recorded
<1> QED  BY <1>a, <1>b, <1>c, <1>d, <1>e

LEMMA PreHeatEndIInv ==
  ASSUME IInv, NEW c \in Clients, PreHeatEnd(c)
  PROVE  IInv'
<1> USE ConstantTypes DEF IInv, Threads, Workers, settings, bindings, locals, unset,
        Returned, Home, Labels
<1>a. TypeOK'
  BY DEF PreHeatEnd, TypeOK
<1>b. WorkersWithinCapacity' /\ Created'
  BY DEF PreHeatEnd, TypeOK, WorkersWithinCapacity, Created
<1>c. Locked' /\ Looping'
  BY DEF PreHeatEnd, TypeOK, Locked, Looping
<1>d. Handing' /\ Working'
  BY DEF PreHeatEnd, TypeOK, Handing, Working
<1>e. Recorded'
  BY DEF PreHeatEnd, TypeOK, Recorded
<1> QED  BY <1>a, <1>b, <1>c, <1>d, <1>e

LEMMA PauseCustomTagIInv ==
  ASSUME IInv, NEW c \in Clients, NEW g \in PausableTags, PauseCustomTag(c, g)
  PROVE  IInv'
<1> USE ConstantTypes DEF IInv, Threads, Workers, settings, bindings, locals, unset,
        Returned, Home, Labels
<1>1. pausedCustomTags' \subseteq Tags
  BY DispatcherAssumption DEF PauseCustomTag, TypeOK
<1>a. TypeOK'
  BY <1>1 DEF PauseCustomTag, TypeOK
<1>b. WorkersWithinCapacity' /\ Created'
  BY <1>1 DEF PauseCustomTag, TypeOK, WorkersWithinCapacity, Created
<1>c. Locked' /\ Looping'
  BY <1>1 DEF PauseCustomTag, TypeOK, Locked, Looping
<1>d. Handing' /\ Working'
  BY <1>1 DEF PauseCustomTag, TypeOK, Handing, Working
<1>e. Recorded'
  BY <1>1 DEF PauseCustomTag, TypeOK, Recorded
<1> QED  BY <1>a, <1>b, <1>c, <1>d, <1>e

LEMMA ResumeCustomTagIInv ==
  ASSUME IInv, NEW c \in Clients, NEW g \in PausableTags, ResumeCustomTag(c, g)
  PROVE  IInv'
<1> USE ConstantTypes DEF IInv, Threads, Workers, settings, bindings, locals, unset,
        Returned, Home, Labels
<1>a. TypeOK'
  BY DEF ResumeCustomTag, TypeOK
<1>b. WorkersWithinCapacity' /\ Created'
  BY DEF ResumeCustomTag, TypeOK, WorkersWithinCapacity, Created
<1>c. Locked' /\ Looping'
  BY DEF ResumeCustomTag, TypeOK, Locked, Looping
<1>d. Handing' /\ Working'
  BY DEF ResumeCustomTag, TypeOK, Handing, Working
<1>e. Recorded'
  BY DEF ResumeCustomTag, TypeOK, Recorded
<1> QED  BY <1>a, <1>b, <1>c, <1>d, <1>e

LEMMA PopIInv ==
  ASSUME IInv, NEW w \in Workers, Pop(w)
  PROVE  IInv'
<1> USE ConstantTypes DEF IInv, Threads, Workers, settings, bindings, locals, unset,
        Returned, Home, Labels
<1>1. Head(workerTasks[w]) \in Tasks /\ Tail(workerTasks[w]) \in Seq(Tasks)
  BY HeadTailProperties DEF Pop, TypeOK
<1>a. TypeOK'
  BY <1>1 DEF Pop, TypeOK
<1>b. WorkersWithinCapacity' /\ Created'
  BY <1>1 DEF Pop, TypeOK, WorkersWithinCapacity, Created
<1>c. Locked' /\ Looping'
  BY <1>1 DEF Pop, TypeOK, Locked, Looping
<1>d. Handing' /\ Working'
  BY <1>1 DEF Pop, TypeOK, Handing, Working
<1>e. Recorded'
  BY <1>1 DEF Pop, TypeOK, Recorded
<1> QED  BY <1>a, <1>b, <1>c, <1>d, <1>e

LEMMA RanIInv ==
  ASSUME IInv, NEW w \in Workers, Ran(w)
  PROVE  IInv'
<1> USE ConstantTypes DEF IInv, Threads, Workers, settings, bindings, locals, unset,
        Returned, Home, Labels
<1>a. TypeOK'
  BY DEF Ran, TypeOK
<1>b. WorkersWithinCapacity' /\ Created'
  BY DEF Ran, TypeOK, WorkersWithinCapacity, Created
<1>c. Locked' /\ Looping'
  BY DEF Ran, TypeOK, Locked, Looping
<1>d. Handing' /\ Working'
  BY DEF Ran, TypeOK, Handing, Working
<1>e. Recorded'
  BY DEF Ran, TypeOK, Recorded
<1> QED  BY <1>a, <1>b, <1>c, <1>d, <1>e

LEMMA NextIInv == IInv /\ [Next]_vars => IInv'
<1> SUFFICES ASSUME IInv, [Next]_vars PROVE IInv'
  OBVIOUS
<1>1. CASE Next
  BY <1>1, InsertTaskIInv, HandOverIInv, ScheduleBeginIInv, LoopBoundIInv, LoopRunIInv, PreHeatLoopIInv, SetCapacityIInv, SetBoundCapacityIInv, AddCustomTagReadIInv, PreHeatReadIInv, TaskFinishedIInv, ScheduleNothingIInv, LoopEndIInv, LoopSkipIInv, AddCustomTagIInv, PreHeatLockIInv, PreHeatEndIInv, PauseCustomTagIInv, ResumeCustomTagIInv, PopIInv, RanIInv,
     DispatcherAssumption DEF Next, Continue, ContinueSetting, Work, CallSetting
<1>2. CASE UNCHANGED vars
  BY <1>2 DEF vars, settings, bindings, locals, IInv, TypeOK, WorkersWithinCapacity, Locked, Looping,
     Handing, Working, Created, Recorded
<1> QED  BY <1>1, <1>2

LEMMA AlwaysIInv == Spec => []IInv
BY InitIInv, NextIInv, PTL DEF Spec

\* The state of the dispatcher and of its workers is always of its type.
THEOREM TypeCorrect == Spec => []TypeOK
BY AlwaysIInv, PTL DEF IInv

\* setCapacity never leaves more workers than the capacity it sets, whatever
\* schedule(), bound tasks and preHeatPool create around it.
THEOREM CapacityKept == Spec => []WorkersWithinCapacity
BY AlwaysIInv, PTL DEF IInv

\* Whatever schedule()'s loop does on its way, the worker it is for is free
\* until the loop gives it a task.
THEOREM LoopWorkerFree == Spec => []LoopWorkerStaysFree
<1>1. IInv => LoopWorkerStaysFree
  BY DEF IInv, Looping, LoopWorkerStaysFree, InLoop
<1> QED  BY <1>1, AlwaysIInv, PTL

-----------------------------------------------------------------------------
(* Bound tasks *)

\* A bound task in a worker's list, one it runs, and one that is about to be
\* handed over are with the worker their tag is bound to.
Listed == \A w \in Workers : \A i \in 1..Len(workerTasks[w]) :
    Bound(workerTasks[w][i]) => tagToWorkerBindings[TagOf(workerTasks[w][i])] = w
Running == \A w \in Workers : current[w] # None /\ Bound(current[w]) =>
    tagToWorkerBindings[TagOf(current[w])] = w
Carried == \A t \in Threads : hand[t] # None /\ Bound(hand[t]) =>
    tagToWorkerBindings[TagOf(hand[t])] = workerId[t]
Placed == Listed /\ Running /\ Carried

\* A tag that is bound stays bound to its worker.
BindingKept == \A g \in Tags : tagToWorkerBindings[g] # -1 =>
    tagToWorkerBindings'[g] = tagToWorkerBindings[g]

\* What a step may do to the lists, the tasks being run and the tasks in hand.
ListsOnlyGetTheirs ==
    \A w \in Workers : \A i \in 1..Len(workerTasks'[w]) :
        \/ \E j \in 1..Len(workerTasks[w]) : workerTasks'[w][i] = workerTasks[w][j]
        \/ Bound(workerTasks'[w][i]) => tagToWorkerBindings'[TagOf(workerTasks'[w][i])] = w
WorkersOnlyRunTheirs ==
    \A w \in Workers :
        \/ current'[w] \in {None, current[w]}
        \/ Bound(current'[w]) => tagToWorkerBindings'[TagOf(current'[w])] = w
HandsOnlyGetTheirs ==
    \A t \in Threads :
        \/ hand'[t] = None
        \/ hand'[t] = hand[t] /\ workerId'[t] = workerId[t]
        \/ Bound(hand'[t]) => tagToWorkerBindings'[TagOf(hand'[t])] = workerId'[t]

LEMMA PlacedIsKept ==
  ASSUME IInv, Placed, BindingKept, ListsOnlyGetTheirs, WorkersOnlyRunTheirs, HandsOnlyGetTheirs
  PROVE  Placed'
<1> USE Bounds DEF Placed
<1>1. Listed'
  <2> SUFFICES ASSUME NEW w \in Workers, NEW i \in 1..Len(workerTasks'[w]),
                      Bound(workerTasks'[w][i])
               PROVE  tagToWorkerBindings'[TagOf(workerTasks'[w][i])] = w
    BY DEF Listed
  <2>1. CASE \E j \in 1..Len(workerTasks[w]) : workerTasks'[w][i] = workerTasks[w][j]
    <3>1. PICK j \in 1..Len(workerTasks[w]) : workerTasks'[w][i] = workerTasks[w][j]
      BY <2>1
    <3>2. workerTasks[w][j] \in Tasks
      <4>1. workerTasks[w] \in Seq(Tasks)
        BY DEF IInv, TypeOK
      <4> QED  BY <4>1, ElementOfSeq
    <3>3. tagToWorkerBindings[TagOf(workerTasks[w][j])] = w
      BY <3>1 DEF Listed
    <3> QED  BY <3>1, <3>2, <3>3, TaskTags DEF BindingKept
  <2> QED  BY <2>1 DEF ListsOnlyGetTheirs
<1>2. Running'
  <2> SUFFICES ASSUME NEW w \in Workers, current'[w] # None, Bound(current'[w])
               PROVE  tagToWorkerBindings'[TagOf(current'[w])] = w
    BY DEF Running
  <2>1. CASE current'[w] = current[w]
    <3>1. current[w] \in Tasks
      BY <2>1 DEF IInv, TypeOK
    <3>2. tagToWorkerBindings[TagOf(current[w])] = w
      BY <2>1 DEF Running
    <3> QED  BY <2>1, <3>1, <3>2, TaskTags DEF BindingKept
  <2> QED  BY <2>1 DEF WorkersOnlyRunTheirs
<1>3. Carried'
  <2> SUFFICES ASSUME NEW t \in Threads, hand'[t] # None, Bound(hand'[t])
               PROVE  tagToWorkerBindings'[TagOf(hand'[t])] = workerId'[t]
    BY DEF Carried
  <2>1. CASE hand'[t] = hand[t] /\ workerId'[t] = workerId[t]
    <3>1. hand[t] \in Tasks
      BY <2>1
    <3>2. workerId[t] # -1
      BY <3>1 DEF IInv, Handing
    <3>3. tagToWorkerBindings[TagOf(hand[t])] = workerId[t]
      BY <2>1 DEF Carried
    <3> QED  BY <2>1, <3>1, <3>2, <3>3, TaskTags DEF BindingKept
  <2> QED  BY <2>1 DEF HandsOnlyGetTheirs
<1> QED  BY <1>1, <1>2, <1>3

LEMMA InitPlaced == Init => Placed
<1> SUFFICES ASSUME Init PROVE Placed
  OBVIOUS
<1>1. \A w \in Workers : workerTasks[w] = <<>> /\ current[w] = None
  BY DEF Init
<1>2. \A t \in Threads : hand[t] = None
  BY DEF Init
<1> HIDE DEF Init
<1> QED  BY <1>1, <1>2 DEF Placed, Listed, Running, Carried

\* A binding is only made in schedule()'s loop, for a tag that has none.
LEMMA NextBindingKept == ASSUME IInv, Next PROVE BindingKept
<1>1. ASSUME NEW t \in Threads, LoopBound(t) PROVE BindingKept
  <2>1. tasksQueue[it] \in Tasks
    BY <1>1, ErasedType DEF LoopBound, InLoop, IInv, Looping, TypeOK
  <2>2. PICK w : IF NewlyBound(TagOf(tasksQueue[it]))
                   THEN tagToWorkerBindings' =
                          [tagToWorkerBindings EXCEPT ![TagOf(tasksQueue[it])] = w]
                   ELSE tagToWorkerBindings' = tagToWorkerBindings
    BY <1>1 DEF LoopBound, bindings
  <2>3. TagOf(tasksQueue[it]) \in Tags
    BY <2>1, TaskTags
  <2>4. tagToWorkerBindings \in [Tags -> Workers \cup {-1}]
    BY DEF IInv, TypeOK
  <2> QED  BY <2>2, <2>3, <2>4 DEF BindingKept, NewlyBound
<1>2. CASE UNCHANGED tagToWorkerBindings
  BY <1>2 DEF BindingKept
<1>3. CASE \E t \in Threads : Continue(t)
  BY <1>1, <1>2, <1>3 DEF Continue, HandOver, ScheduleNothing, ScheduleBegin, LoopEnd, LoopRun,
     LoopSkip, bindings
<1>4. CASE \E c \in Clients : ContinueSetting(c) \/ CallSetting(c)
  BY <1>2, <1>4 DEF ContinueSetting, CallSetting, AddCustomTag, PreHeatLock, PreHeatLoop, PreHeatEnd,
     SetCapacity, SetBoundCapacity, AddCustomTagRead, PauseCustomTag, ResumeCustomTag, PreHeatRead,
     unset, bindings
<1>5. CASE \E c \in Clients, k \in Tasks : InsertTask(c, k)
  BY <1>2, <1>5 DEF InsertTask, bindings
<1>6. CASE \E w \in Workers : Work(w)
  BY <1>2, <1>6 DEF Work, Pop, Ran, TaskFinished, bindings
<1> QED  BY <1>3, <1>4, <1>5, <1>6, <1>2 DEF Next

\* The worker chosen for a tag is the one it is bound to, or gets bound to.
LEMMA LoopBoundPlaced ==
  ASSUME IInv, Placed, BindingKept, NEW t \in Threads, LoopBound(t)
  PROVE  Placed'
<1> DEFINE k == tasksQueue[it]
<1>1. k \in Tasks /\ TagOf(k) \in Tags
  <2>1. k \in Tasks
    BY ErasedType DEF LoopBound, InLoop, IInv, Looping, TypeOK
  <2> QED  BY <2>1, TaskTags
<1>2. pc[t] = "loop" /\ UNCHANGED <<current, hand>>
  BY DEF LoopBound, InLoop
<1>3. PICK w \in WorkersForTag(TagOf(k)) \ {-1} :
        /\ workerTasks' = [workerTasks EXCEPT ![w] = Append(@, k)]
        /\ IF NewlyBound(TagOf(k))
             THEN tagToWorkerBindings' = [tagToWorkerBindings EXCEPT ![TagOf(k)] = w]
             ELSE tagToWorkerBindings' = tagToWorkerBindings
        /\ workerId' \in {workerId, [workerId EXCEPT ![t] = -1]}
  BY DEF LoopBound, bindings
<1> HIDE DEF k
<1>4. w \in Workers /\ (tagToWorkerBindings[TagOf(k)] # -1 => w = tagToWorkerBindings[TagOf(k)])
  BY <1>1, <1>3, WorkersForTagExist
<1>5. tagToWorkerBindings'[TagOf(k)] = w
  <2>1. tagToWorkerBindings \in [Tags -> Workers \cup {-1}]
    BY DEF IInv, TypeOK
  <2> QED  BY <1>1, <1>3, <1>4, <2>1 DEF NewlyBound
<1>6. ListsOnlyGetTheirs
  <2> SUFFICES ASSUME NEW v \in Workers, NEW i \in 1..Len(workerTasks'[v])
               PROVE  \/ \E j \in 1..Len(workerTasks[v]) : workerTasks'[v][i] = workerTasks[v][j]
                      \/ Bound(workerTasks'[v][i]) =>
                           tagToWorkerBindings'[TagOf(workerTasks'[v][i])] = v
    BY DEF ListsOnlyGetTheirs
  <2>1. workerTasks \in [Workers -> Seq(Tasks)]
    BY DEF IInv, TypeOK
  <2>2. CASE v = w
    <3>1. workerTasks'[v] = Append(workerTasks[v], k)
      BY <1>3, <1>4, <2>1, <2>2
    <3>2. /\ Len(workerTasks'[v]) = Len(workerTasks[v]) + 1 /\ Len(workerTasks[v]) \in Nat
          /\ workerTasks'[v][Len(workerTasks[v]) + 1] = k
          /\ \A j \in 1..Len(workerTasks[v]) : workerTasks'[v][j] = workerTasks[v][j]
      BY <1>1, <2>1, <3>1, AppendProperties, LenProperties
    <3>3. CASE i = Len(workerTasks[v]) + 1
      BY <1>5, <2>2, <3>2, <3>3
    <3>4. CASE i # Len(workerTasks[v]) + 1
      <4>1. i \in 1..Len(workerTasks[v])
        BY <3>2, <3>4
      <4> QED  BY <3>2, <4>1
    <3> QED  BY <3>3, <3>4
  <2>3. CASE v # w
    <3>1. workerTasks'[v] = workerTasks[v]
      BY <1>3, <2>1, <2>3
    <3> QED  BY <3>1
  <2> QED  BY <2>2, <2>3
<1>7. HandsOnlyGetTheirs
  <2>1. hand[t] = None
    BY <1>2 DEF IInv, Handing
  <2>2. \A u \in Threads : u # t => workerId'[u] = workerId[u]
    BY <1>3, Bounds
  <2> QED  BY <1>2, <2>1, <2>2 DEF HandsOnlyGetTheirs
<1>8. WorkersOnlyRunTheirs
  BY <1>2 DEF WorkersOnlyRunTheirs
<1> QED  BY <1>6, <1>7, <1>8, PlacedIsKept

\* A worker is handed the task it was chosen for.
LEMMA HandOverPlaced ==
  ASSUME IInv, Placed, BindingKept, NEW t \in Threads, HandOver(t)
  PROVE  Placed'
<1>1. /\ hand[t] \in Tasks /\ workerId[t] \in Workers
      /\ workerTasks' = [workerTasks EXCEPT ![workerId[t]] = Append(@, hand[t])]
      /\ hand' = [hand EXCEPT ![t] = None] /\ workerId' = [workerId EXCEPT ![t] = -1]
      /\ UNCHANGED <<current, tagToWorkerBindings>>
  BY Bounds DEF HandOver, Returned, bindings, IInv, Handing
<1>2. workerTasks \in [Workers -> Seq(Tasks)]
  BY DEF IInv, TypeOK
<1>3. Bound(hand[t]) => tagToWorkerBindings'[TagOf(hand[t])] = workerId[t]
  BY <1>1, Bounds DEF Placed, Carried
<1>4. ListsOnlyGetTheirs
  <2> SUFFICES ASSUME NEW v \in Workers, NEW i \in 1..Len(workerTasks'[v])
               PROVE  \/ \E j \in 1..Len(workerTasks[v]) : workerTasks'[v][i] = workerTasks[v][j]
                      \/ Bound(workerTasks'[v][i]) =>
                           tagToWorkerBindings'[TagOf(workerTasks'[v][i])] = v
    BY DEF ListsOnlyGetTheirs
  <2>1. CASE v = workerId[t]
    <3>1. workerTasks'[v] = Append(workerTasks[v], hand[t])
      BY <1>1, <1>2, <2>1
    <3>2. /\ Len(workerTasks'[v]) = Len(workerTasks[v]) + 1 /\ Len(workerTasks[v]) \in Nat
          /\ workerTasks'[v][Len(workerTasks[v]) + 1] = hand[t]
          /\ \A j \in 1..Len(workerTasks[v]) : workerTasks'[v][j] = workerTasks[v][j]
      BY <1>1, <1>2, <3>1, AppendProperties, LenProperties
    <3>3. CASE i = Len(workerTasks[v]) + 1
      BY <1>3, <2>1, <3>2, <3>3
    <3>4. CASE i # Len(workerTasks[v]) + 1
      <4>1. i \in 1..Len(workerTasks[v])
        BY <3>2, <3>4
      <4> QED  BY <3>2, <4>1
    <3> QED  BY <3>3, <3>4
  <2>2. CASE v # workerId[t]
    <3>1. workerTasks'[v] = workerTasks[v]
      BY <1>1, <1>2, <2>2
    <3> QED  BY <3>1
  <2> QED  BY <2>1, <2>2
<1>5. HandsOnlyGetTheirs
  BY <1>1, Bounds DEF HandsOnlyGetTheirs
<1>6. WorkersOnlyRunTheirs
  BY <1>1 DEF WorkersOnlyRunTheirs
<1> QED  BY <1>4, <1>5, <1>6, PlacedIsKept

\* A worker runs the first task of its list.
LEMMA PopPlaced ==
  ASSUME IInv, Placed, BindingKept, NEW w \in Workers, Pop(w)
  PROVE  Placed'
<1>1. /\ workerTasks[w] # <<>> /\ current' = [current EXCEPT ![w] = Head(workerTasks[w])]
      /\ workerTasks' = [workerTasks EXCEPT ![w] = Tail(@)]
      /\ UNCHANGED <<hand, workerId, tagToWorkerBindings>>
  BY DEF Pop, bindings
<1>2. workerTasks \in [Workers -> Seq(Tasks)] /\ current \in [Workers -> Tasks \cup {None}]
  BY DEF IInv, TypeOK
<1>3. /\ Len(workerTasks[w]) \in Nat /\ Len(workerTasks[w]) >= 1
      /\ Head(workerTasks[w]) = workerTasks[w][1]
      /\ Len(Tail(workerTasks[w])) = Len(workerTasks[w]) - 1
      /\ \A i \in 1..Len(Tail(workerTasks[w])) : Tail(workerTasks[w])[i] = workerTasks[w][i + 1]
  BY <1>1, <1>2, HeadTailProperties, LenProperties, EmptySeq
<1>4. WorkersOnlyRunTheirs
  <2>1. Bound(Head(workerTasks[w])) => tagToWorkerBindings[TagOf(Head(workerTasks[w]))] = w
    BY <1>3 DEF Placed, Listed
  <2> QED  BY <1>1, <1>2, <2>1 DEF WorkersOnlyRunTheirs
<1>5. ListsOnlyGetTheirs
  <2> SUFFICES ASSUME NEW v \in Workers, NEW i \in 1..Len(workerTasks'[v])
               PROVE  \E j \in 1..Len(workerTasks[v]) : workerTasks'[v][i] = workerTasks[v][j]
    BY DEF ListsOnlyGetTheirs
  <2>1. CASE v = w
    <3>1. workerTasks'[v] = Tail(workerTasks[v])
      BY <1>1, <1>2, <2>1
    <3>2. i + 1 \in 1..Len(workerTasks[v])
      BY <1>3, <2>1, <3>1
    <3> QED  BY <1>3, <2>1, <3>1, <3>2
  <2>2. CASE v # w
    <3>1. workerTasks'[v] = workerTasks[v]
      BY <1>1, <1>2, <2>2
    <3> QED  BY <3>1
  <2> QED  BY <2>1, <2>2
<1>6. HandsOnlyGetTheirs
  BY <1>1 DEF HandsOnlyGetTheirs
<1> QED  BY <1>4, <1>5, <1>6, PlacedIsKept

\* What a step gives a thread to hand over is right for the worker it chose.
LEMMA OtherPlaced ==
  ASSUME IInv, Placed, BindingKept, UNCHANGED workerTasks, WorkersOnlyRunTheirs, HandsOnlyGetTheirs
  PROVE  Placed'
<1>1. ListsOnlyGetTheirs
  BY DEF ListsOnlyGetTheirs
<1> QED  BY <1>1, PlacedIsKept

LEMMA InsertTaskPlaced ==
  ASSUME IInv, Placed, BindingKept, NEW c \in Clients, NEW k \in Tasks, InsertTask(c, k)
  PROVE  Placed'
<1>1. c \in Threads /\ UNCHANGED <<workerTasks, current, tagToWorkerBindings>>
  BY DEF InsertTask, bindings, Threads
<1>2. HandsOnlyGetTheirs
  <2>1. CASE InsertBound(c, k)
    BY <1>1, <2>1, Bounds DEF InsertBound, HandsOnlyGetTheirs
  <2>2. CASE InsertDirect(c, k)
    <3>1. PICK w \in DirectWorkers(k) :
            workerId' = [workerId EXCEPT ![c] = w] /\ hand' = [hand EXCEPT ![c] = k]
      BY <2>2 DEF InsertDirect
    <3> QED  BY <1>1, <3>1, Bounds, DirectWorkersFree DEF HandsOnlyGetTheirs
  <2>3. CASE InsertQueued(c, k)
    BY <2>3 DEF InsertQueued, HandsOnlyGetTheirs
  <2> QED  BY <2>1, <2>2, <2>3 DEF InsertTask
<1> QED  BY <1>1, <1>2, OtherPlaced DEF WorkersOnlyRunTheirs

LEMMA NextPlaced ==
  ASSUME IInv, Placed, [Next]_vars
  PROVE  Placed'
<1>1. CASE Next
  <2> USE <1>1, NextBindingKept, Bounds
  <2>1. ASSUME NEW t \in Threads, ScheduleNothing(t) \/ ScheduleBegin(t) \/ LoopEnd(t) PROVE Placed'
    <3>1. hand[t] = None
      BY <2>1 DEF ScheduleNothing, ScheduleBegin, LoopEnd, InLoop, IInv, Handing
    <3>2. UNCHANGED <<workerTasks, current, hand>>
      BY <2>1 DEF ScheduleNothing, ScheduleBegin, LoopEnd
    <3>3. \A u \in Threads : u # t => workerId'[u] = workerId[u]
      BY <2>1, ZenonT(40) DEF ScheduleNothing, ScheduleBegin, LoopEnd, EndLoop, Returned
    <3> QED  BY <3>1, <3>2, <3>3, OtherPlaced DEF WorkersOnlyRunTheirs, HandsOnlyGetTheirs
  <2>2. ASSUME NEW t \in Threads, LoopRun(t) PROVE Placed'
    <3>1. ~Bound(tasksQueue[it]) /\ hand' = [hand EXCEPT ![t] = tasksQueue[it]]
      BY <2>2 DEF LoopRun
    <3>2. \A u \in Threads : u # t => workerId'[u] = workerId[u]
      BY <2>2 DEF LoopRun
    <3>3. UNCHANGED <<workerTasks, current>>
      BY <2>2 DEF LoopRun
    <3> QED  BY <3>1, <3>2, <3>3, OtherPlaced DEF WorkersOnlyRunTheirs, HandsOnlyGetTheirs
  <2>3. ASSUME NEW w \in Workers, TaskFinished(w) PROVE Placed'
    <3>1. UNCHANGED <<workerTasks, hand>> /\ current' = [current EXCEPT ![w] = None]
      BY <2>3 DEF TaskFinished
    <3>2. hand[w] = None
      BY <2>3 DEF TaskFinished, IInv, Handing
    <3>3. \A u \in Threads : u # w => workerId'[u] = workerId[u]
      BY <2>3 DEF TaskFinished
    <3>4. current \in [Workers -> Tasks \cup {None}]
      BY DEF IInv, TypeOK
    <3> QED  BY <3>1, <3>2, <3>3, <3>4, OtherPlaced DEF WorkersOnlyRunTheirs, HandsOnlyGetTheirs
  <2>4. ASSUME UNCHANGED <<workerTasks, current, hand, workerId>> PROVE Placed'
    BY <2>4, OtherPlaced DEF WorkersOnlyRunTheirs, HandsOnlyGetTheirs
  <2>5. CASE \E t \in Threads : Continue(t)
    BY <2>1, <2>2, <2>4, <2>5, HandOverPlaced, LoopBoundPlaced DEF Continue, LoopSkip
  <2>6. CASE \E c \in Clients : ContinueSetting(c) \/ CallSetting(c)
    BY <2>4, <2>6 DEF ContinueSetting, CallSetting, AddCustomTag, PreHeatLock, PreHeatLoop,
       PreHeatEnd, SetCapacity, SetBoundCapacity, AddCustomTagRead, PauseCustomTag,
       ResumeCustomTag, PreHeatRead, unset
  <2>7. CASE \E c \in Clients, k \in Tasks : InsertTask(c, k)
    BY <2>7, InsertTaskPlaced
  <2>8. CASE \E w \in Workers : Work(w)
    BY <2>3, <2>4, <2>8, PopPlaced DEF Work, Ran
  <2> QED  BY <2>5, <2>6, <2>7, <2>8 DEF Next
<1>2. CASE UNCHANGED vars
  BY <1>2 DEF vars, bindings, locals, Placed, Listed, Running, Carried
<1> QED  BY <1>1, <1>2

\* Whether it was given out on insertion, in schedule()'s loop or to a worker
\* with no binding yet, a thread bound task is only ever in the list of the
\* worker its tag is bound to, run by it, or on its way to it.
THEOREM BoundTasksStay == Spec => []BoundTasksOnTheirWorker
<1>1. IInv /\ Placed => BoundTasksOnTheirWorker
  <2> SUFFICES ASSUME IInv, Placed, NEW w \in Workers, NEW k \in GivenTo(w), Bound(k)
               PROVE  tagToWorkerBindings[TagOf(k)] = w
    BY DEF BoundTasksOnTheirWorker
  <2>1. CASE k \in {workerTasks[w][i] : i \in DOMAIN workerTasks[w]}
    <3>1. DOMAIN workerTasks[w] = 1..Len(workerTasks[w])
      BY LenProperties DEF IInv, TypeOK
    <3> QED  BY <2>1, <3>1 DEF Placed, Listed
  <2>2. CASE k \in {current[w]} \ {None}
    BY <2>2 DEF Placed, Running
  <2>3. CASE \E t \in Threads : workerId[t] = w /\ hand[t] # None /\ k = hand[t]
    BY <2>3 DEF Placed, Carried
  <2> QED  BY <2>1, <2>2, <2>3 DEF GivenTo, Held
<1>2. Spec => [](IInv /\ Placed)
  BY InitIInv, InitPlaced, NextIInv, NextPlaced, PTL DEF Spec
<1> QED  BY <1>1, <1>2, PTL
=============================================================================
