----------------------------- MODULE Dispatcher -----------------------------
(***************************************************************************)
(* TasksDispatcher and TasksDispatcherPrivate (src/tasksdispatcher.cpp):   *)
(* the queue, the subpools, the bindings of tags to workers and schedule().*)
(*                                                                         *)
(* All of that state is read and written under mainLock, so a critical     *)
(* section is one step that needs mainLock to be free; schedule() alone    *)
(* holds it over several steps, one per iteration of its loop.  What the   *)
(* code does outside the lock is a step of its own: handing a task to the  *)
(* worker chosen for it, and the arguments that are computed before the    *)
(* lock is taken.  Of a worker this module keeps the list of its tasks and *)
(* the steps of its loop that the dispatcher can tell apart; module Worker *)
(* has the rest of it.                                                     *)
(***************************************************************************)
EXTENDS Integers, Sequences, FiniteSets, SequencesExt

CONSTANTS Clients,             \* threads that call the dispatcher
          Tasks,               \* tasks that may be submitted, each once
          TypeOf, RawTag, PriorityOf,    \* what each was submitted with
          Tags,                \* the tags in use, with 0
          MaxCapacity,         \* MAX_ALLOWED_CAPACITY
          IntensiveCapacity,   \* INTENSIVE_CAPACITY and DEFAULT_CUSTOM_CAPACITY
          TotalCapacity,       \* DEFAULT_TOTAL_CAPACITY
          DefaultBoundCapacity, \* DEFAULT_BOUND_CAPACITY
          None,
          \* the arguments clients call with:
          NewCapacities,       \* setCapacity
          NewBoundCapacities,  \* setBoundCapacity
          NewTagCapacities,    \* addCustomTag: pairs of a tag and a capacity
          PausableTags,        \* pauseCustomTag and resumeCustomTag
          PreHeats             \* preHeatPool: 0 for preHeatIntensivePool

Workers == 0..(MaxCapacity - 1)
Threads == Clients \cup Workers
Types == {"Custom", "Intensive", "ThreadBound"}

ASSUME DispatcherAssumption ==
    /\ MaxCapacity \in Nat /\ TotalCapacity \in Nat /\ IntensiveCapacity \in Nat
    /\ 1 <= IntensiveCapacity
    /\ IntensiveCapacity <= TotalCapacity /\ TotalCapacity <= MaxCapacity
    /\ DefaultBoundCapacity \in 0..TotalCapacity
    /\ TypeOf \in [Tasks -> Types]
    /\ RawTag \in [Tasks -> Int]
    /\ PriorityOf \in [Tasks -> 0..255]
    /\ Tags \subseteq Nat /\ 0 \in Tags
    /\ \A k \in Tasks : RawTag[k] > 0 => RawTag[k] \in Tags
    /\ None \notin Tasks /\ None \notin Threads
    /\ Clients \cap Workers = {}
    /\ NewCapacities \subseteq Int /\ NewBoundCapacities \subseteq Int
    /\ NewTagCapacities \subseteq (Tags \ {0}) \X Int
    /\ PausableTags \subseteq Tags \ {0}
    /\ PreHeats \subseteq Nat

VARIABLES
    mainLock,              \* the thread that holds it
    capacity, boundCapacity, customTagCapacities, pausedCustomTags,
    subPoolsUsage,         \* tasks each subpool has on workers
    tasksQueue,            \* tasks in the order the list's iterator meets them
    allWorkers,            \* allWorkers.size(): the workers are 0..allWorkers-1
    availableWorkers, boundWorkers, tagToWorkerBindings, workersBindingsCount,
    workerTasks, current,  \* per worker: its list, and the task it runs
    pc, workerId, arg,     \* per thread: where it is, and its locals
    hand,                  \* per thread: the task it is about to hand over
    it,                    \* the position of schedule()'s loop in the queue
    submitted, finished    \* history

settings == <<capacity, boundCapacity, customTagCapacities, pausedCustomTags>>
bindings == <<boundWorkers, tagToWorkerBindings, workersBindingsCount>>
locals == <<pc, workerId, arg, hand, it>>
vars == <<mainLock, settings, subPoolsUsage, tasksQueue, allWorkers, availableWorkers,
          bindings, workerTasks, current, locals, submitted, finished>>

\* insertTaskInfo: intensive tasks are all under one tag, none is negative.
TagOf(k) == IF TypeOf[k] = "Intensive" \/ RawTag[k] < 0 THEN 0 ELSE RawTag[k]
Bound(k) == TypeOf[k] = "ThreadBound"
\* packPoolInfo
PoolOf(k) == <<TypeOf[k], TagOf(k)>>
Pools == Types \X Tags

\* Where a thread can be; a worker that does not exist yet is at "none".
Labels == {"idle", "none", "pop", "run", "finish", "finishAndAsk", "schedule", "loop",
           "handOver", "addTag", "preHeat", "preHeating"}

TypeOK ==
    /\ mainLock \in Threads \cup {None}
    /\ capacity \in Nat /\ boundCapacity \in Nat
    /\ customTagCapacities \in [Tags -> Nat]
    /\ pausedCustomTags \subseteq Tags
    /\ subPoolsUsage \in [Pools -> Nat]
    /\ tasksQueue \in Seq(Tasks)
    /\ allWorkers \in 0..MaxCapacity
    /\ availableWorkers \subseteq 0..(allWorkers - 1)
    /\ boundWorkers \subseteq 0..(allWorkers - 1)
    /\ tagToWorkerBindings \in [Tags -> Workers \cup {-1}]
    /\ workersBindingsCount \in [Workers -> Nat]
    /\ workerTasks \in [Workers -> Seq(Tasks)]
    /\ current \in [Workers -> Tasks \cup {None}]
    /\ pc \in [Threads -> Labels]
    /\ workerId \in [Threads -> Workers \cup {-1}]
    /\ arg \in [Clients -> Tags \X Nat]
    /\ hand \in [Threads -> Tasks \cup {None}]
    /\ it \in Nat
    /\ submitted \subseteq Tasks /\ finished \subseteq Tasks

Init ==
    /\ mainLock = None
    /\ capacity = TotalCapacity /\ boundCapacity = DefaultBoundCapacity
    /\ customTagCapacities =
         [g \in Tags |-> IF g = 0 THEN TotalCapacity ELSE IntensiveCapacity]
    /\ pausedCustomTags = {}
    /\ subPoolsUsage = [p \in Pools |-> 0]
    /\ tasksQueue = <<>>
    /\ allWorkers = 0 /\ availableWorkers = {} /\ boundWorkers = {}
    /\ tagToWorkerBindings = [g \in Tags |-> -1]
    /\ workersBindingsCount = [w \in Workers |-> 0]
    /\ workerTasks = [w \in Workers |-> <<>>]
    /\ current = [w \in Workers |-> None]
    /\ pc = [t \in Threads |-> IF t \in Workers THEN "none" ELSE "idle"]
    /\ workerId = [t \in Threads |-> -1]
    /\ arg = [c \in Clients |-> <<0, 0>>]
    /\ hand = [t \in Threads |-> None]
    /\ it = 0
    /\ submitted = {} /\ finished = {}

-----------------------------------------------------------------------------
(* Helpers *)

\* The result of firstSetBit and lastSetBit on a set of workers: -1 for none.
FirstSetBit(S) == IF S = {} THEN {-1} ELSE {i \in S : \A j \in S : i <= j}
LastSetBit(S) == IF S = {} THEN {-1} ELSE {i \in S : \A j \in S : j <= i}

\* TasksList: lower priority values first, in order of insertion within one.
Ahead(k, q) == Cardinality({i \in DOMAIN q : PriorityOf[q[i]] <= PriorityOf[k]})
Enqueue(k, q) == InsertAt(q, Ahead(k, q) + 1, k)

\* Mutant: a paused tag keeps its capacity.
CapacityNotPaused(k) ==
    CASE TypeOf[k] = "Intensive" -> IntensiveCapacity
      [] TypeOf[k] = "Custom" -> customTagCapacities[TagOf(k)]
      [] OTHER -> capacity

\* The capacity of the subpool of task k, and what is left of it.
CapacityFor(k) ==
    CASE TypeOf[k] = "Intensive" -> IntensiveCapacity
      [] TypeOf[k] = "Custom" -> IF TagOf(k) \in pausedCustomTags
                                   THEN 0 ELSE customTagCapacities[TagOf(k)]
      [] OTHER -> capacity
HasRoomForOneMore(k) == CapacityFor(k) >= subPoolsUsage[PoolOf(k)]  \* Mutant
HasRoom(k) == CapacityFor(k) > subPoolsUsage[PoolOf(k)]

CanCreateOneMore == allWorkers <= capacity  \* Mutant
CanCreate == allWorkers < capacity
\* The dispatcher's own workers' loop starts where its tasks are popped.
Started(label, w) == [label EXCEPT ![w] = "pop"]

\* Taking the element at the iterator out of the queue.
ErasedFirst == Tail(tasksQueue)  \* Mutant
Erased == RemoveAt(tasksQueue, it)

\* Where thread t goes on when its call to the dispatcher returns.
Home(t) == IF t \in Workers THEN "pop" ELSE "idle"
Returned(t) == /\ workerId' = [workerId EXCEPT ![t] = -1]
               /\ pc' = [pc EXCEPT ![t] = Home(t)]

-----------------------------------------------------------------------------
(* Submitting a task: insertTaskInfo *)

\* A tag that is bound already: its worker gets the task, queue or no queue.
InsertBound(c, k) ==
    /\ Bound(k) /\ tagToWorkerBindings[TagOf(k)] # -1
    /\ LET w == tagToWorkerBindings[TagOf(k)] IN
         /\ availableWorkers' = availableWorkers \ {w}
         /\ workerId' = [workerId EXCEPT ![c] = w]
    /\ hand' = [hand EXCEPT ![c] = k]
    /\ pc' = [pc EXCEPT ![c] = "handOver"]
    /\ UNCHANGED <<subPoolsUsage, tasksQueue>>

\* A worker that may take the task at once, when nothing is queued before it.
DirectWorkers(k) ==
    IF ~Bound(k) /\ tasksQueue = <<>> /\ HasRoom(k)
      THEN LastSetBit(availableWorkers \ boundWorkers) \ {-1} ELSE {}

InsertDirect(c, k) ==
    \E w \in DirectWorkers(k) :
        /\ subPoolsUsage' = [subPoolsUsage EXCEPT ![PoolOf(k)] = @ + 1]
        /\ availableWorkers' = availableWorkers \ {w}
        /\ workerId' = [workerId EXCEPT ![c] = w]
        /\ hand' = [hand EXCEPT ![c] = k]
        /\ pc' = [pc EXCEPT ![c] = "handOver"]
        /\ UNCHANGED tasksQueue

InsertQueued(c, k) ==
    /\ Bound(k) => tagToWorkerBindings[TagOf(k)] = -1
    /\ DirectWorkers(k) = {}
    /\ tasksQueue' = Enqueue(k, tasksQueue)
    /\ pc' = IF /\ availableWorkers # {} \/ CanCreate
                /\ TypeOf[k] = "Intensive" => HasRoom(k)
               THEN [pc EXCEPT ![c] = "schedule"] ELSE pc
    /\ UNCHANGED <<subPoolsUsage, availableWorkers, workerId, hand>>

InsertTask(c, k) ==
    /\ pc[c] = "idle" /\ k \notin submitted
    /\ mainLock = None
    /\ submitted' = submitted \cup {k}
    /\ InsertBound(c, k) \/ InsertDirect(c, k) \/ InsertQueued(c, k)
    /\ UNCHANGED <<mainLock, settings, allWorkers, bindings, workerTasks, current,
                   arg, it, finished>>

\* Worker::addTask, called after mainLock is released.
HandOver(t) ==
    /\ pc[t] = "handOver"
    /\ workerTasks' = [workerTasks EXCEPT ![workerId[t]] = Append(@, hand[t])]
    /\ hand' = [hand EXCEPT ![t] = None]
    /\ Returned(t)
    /\ UNCHANGED <<mainLock, settings, subPoolsUsage, tasksQueue, allWorkers,
                   availableWorkers, bindings, current, arg, it, submitted, finished>>

-----------------------------------------------------------------------------
(* schedule() *)

\* Nothing to do, or no worker to do it.
ScheduleNothing(t) ==
    /\ pc[t] = "schedule" /\ mainLock = None
    /\ tasksQueue = <<>> \/ (availableWorkers = {} /\ ~CanCreate)
    /\ Returned(t)
    /\ UNCHANGED <<mainLock, settings, subPoolsUsage, tasksQueue, allWorkers,
                   availableWorkers, bindings, workerTasks, current, arg, hand, it,
                   submitted, finished>>

\* The worker the next task is for: the one asking if it is still available,
\* else the last one not bound, else the first one.
ScheduleBegin(t) ==
    /\ pc[t] = "schedule" /\ mainLock = None
    /\ tasksQueue # <<>>
    /\ availableWorkers # {} \/ CanCreate
    /\ mainLock' = t
    /\ it' = 1
    /\ LET create == availableWorkers = {}
           free == IF create THEN {allWorkers} ELSE availableWorkers IN
         /\ availableWorkers' = free
         /\ allWorkers' = IF create THEN allWorkers + 1 ELSE allWorkers
         /\ pc' = [IF create THEN Started(pc, allWorkers) ELSE pc EXCEPT ![t] = "loop"]
         /\ \E w \in IF workerId[t] \in free THEN {workerId[t]}
                     ELSE IF free \ boundWorkers # {} THEN LastSetBit(free \ boundWorkers)
                     ELSE FirstSetBit(free) :
              workerId' = [workerId EXCEPT ![t] = w]
    /\ UNCHANGED <<settings, subPoolsUsage, tasksQueue, bindings, workerTasks, current,
                   arg, hand, submitted, finished>>

InLoop(t) == pc[t] = "loop" /\ mainLock = t

EndLoop(t) == mainLock' = None /\ it' = 0 /\ Returned(t)

\* The end of the queue.
LoopEnd(t) ==
    /\ InLoop(t) /\ it > Len(tasksQueue)
    /\ EndLoop(t)
    /\ UNCHANGED <<settings, subPoolsUsage, tasksQueue, allWorkers, availableWorkers,
                   bindings, workerTasks, current, arg, hand, submitted, finished>>

\* The bound workers with the least bindings, the first of them.
LeastBound ==
    FirstSetBit({w \in boundWorkers : \A v \in boundWorkers :
                    workersBindingsCount[w] <= workersBindingsCount[v]})
BoundAmount == Cardinality({w \in Workers : workersBindingsCount[w] > 0})

\* The worker for a bound task of tag g: the one it is bound to, else a free
\* worker without bindings (allWorkers stands for one to be created), else,
\* with all of boundCapacity used, a bound worker; -1 when there is none.
WorkersForTag(g) ==
    IF tagToWorkerBindings[g] # -1 THEN {tagToWorkerBindings[g]}
    ELSE IF BoundAmount >= boundCapacity THEN LeastBound
    ELSE IF availableWorkers \subseteq boundWorkers /\ CanCreate THEN {allWorkers}
    ELSE FirstSetBit(availableWorkers \ boundWorkers)

\* newBoundTask: the tag of the task is to be bound to the worker found.
NewlyBoundWithinCapacity(g) ==  \* Mutant
    tagToWorkerBindings[g] = -1 /\ BoundAmount < boundCapacity
NewlyBound(g) == tagToWorkerBindings[g] = -1

\* Bound worker w is the one the loop is for, which ends the loop.
TookNone(t, w) == FALSE  \* Mutant
TookLoopWorker(t, w) == w = workerId[t]

\* A bound task goes to its worker under the lock and the loop goes on, unless
\* it took the worker the loop is for.
LoopBound(t) ==
    /\ InLoop(t) /\ it <= Len(tasksQueue)
    /\ LET k == tasksQueue[it]
           g == TagOf(k) IN
         /\ Bound(k)
         /\ \E w \in WorkersForTag(g) \ {-1} :
              /\ workerTasks' = [workerTasks EXCEPT ![w] = Append(@, k)]
              /\ allWorkers' = IF w = allWorkers THEN allWorkers + 1 ELSE allWorkers
              /\ availableWorkers' = availableWorkers \ {w}
              /\ IF NewlyBound(g)
                   THEN /\ boundWorkers' = boundWorkers \cup {w}
                        /\ workersBindingsCount' = [workersBindingsCount EXCEPT ![w] = @ + 1]
                        /\ tagToWorkerBindings' = [tagToWorkerBindings EXCEPT ![g] = w]
                   ELSE UNCHANGED bindings
              /\ LET label == IF w = allWorkers THEN Started(pc, w) ELSE pc IN
                   IF TookLoopWorker(t, w)
                     THEN /\ mainLock' = None /\ it' = 0
                          /\ workerId' = [workerId EXCEPT ![t] = -1]
                          /\ pc' = [label EXCEPT ![t] = Home(t)]
                     ELSE /\ pc' = label
                          /\ UNCHANGED <<mainLock, it, workerId>>
    /\ tasksQueue' = Erased
    /\ UNCHANGED <<settings, subPoolsUsage, current, arg, hand, submitted, finished>>

\* Any other task goes to the worker the loop is for, or to a new one when
\* that worker is bound; it is handed over outside the lock and ends the loop.
LoopRun(t) ==
    /\ InLoop(t) /\ it <= Len(tasksQueue)
    /\ LET k == tasksQueue[it]
           move == workerId[t] \in boundWorkers /\ CanCreate IN
         /\ ~Bound(k) /\ HasRoom(k)
         /\ subPoolsUsage' = [subPoolsUsage EXCEPT ![PoolOf(k)] = @ + 1]
         /\ availableWorkers' = (availableWorkers \ {workerId[t]})
                                  \cup (IF move THEN {allWorkers} ELSE {})
         /\ allWorkers' = IF move THEN allWorkers + 1 ELSE allWorkers
         /\ workerId' = IF move THEN [workerId EXCEPT ![t] = allWorkers] ELSE workerId
         /\ pc' = [IF move THEN Started(pc, allWorkers) ELSE pc EXCEPT ![t] = "handOver"]
         /\ hand' = [hand EXCEPT ![t] = k]
    /\ tasksQueue' = Erased
    /\ mainLock' = None /\ it' = 0
    /\ UNCHANGED <<settings, bindings, workerTasks, current, arg, submitted, finished>>

\* A task that cannot be given out now stays in the queue.
LoopSkip(t) ==
    /\ InLoop(t) /\ it <= Len(tasksQueue)
    /\ LET k == tasksQueue[it] IN
         IF Bound(k) THEN WorkersForTag(TagOf(k)) = {-1} ELSE ~HasRoom(k)
    /\ it' = it + 1
    /\ UNCHANGED <<mainLock, settings, subPoolsUsage, tasksQueue, allWorkers,
                   availableWorkers, bindings, workerTasks, current, pc, workerId, arg,
                   hand, submitted, finished>>

-----------------------------------------------------------------------------
(* Workers: Worker::run as far as the dispatcher sees it *)

Pop(w) ==
    /\ pc[w] = "pop" /\ workerTasks[w] # <<>>
    /\ current' = [current EXCEPT ![w] = Head(workerTasks[w])]
    /\ workerTasks' = [workerTasks EXCEPT ![w] = Tail(@)]
    /\ pc' = [pc EXCEPT ![w] = "run"]
    /\ UNCHANGED <<mainLock, settings, subPoolsUsage, tasksQueue, allWorkers,
                   availableWorkers, bindings, workerId, arg, hand, it, submitted,
                   finished>>

\* Mutant: a worker that has no more tasks does not ask for one.
RanNeverAsks(w) ==
    /\ pc[w] = "run"
    /\ pc' = [pc EXCEPT ![w] = "finish"]
    /\ UNCHANGED <<mainLock, settings, subPoolsUsage, tasksQueue, allWorkers,
                   availableWorkers, bindings, workerTasks, current, workerId, arg,
                   hand, it, submitted, finished>>

\* The task ends; whether the worker has another one is read under its own
\* lock, before taskFinished takes mainLock.
Ran(w) ==
    /\ pc[w] = "run"
    /\ pc' = [pc EXCEPT ![w] = IF workerTasks[w] = <<>> THEN "finishAndAsk" ELSE "finish"]
    /\ UNCHANGED <<mainLock, settings, subPoolsUsage, tasksQueue, allWorkers,
                   availableWorkers, bindings, workerTasks, current, workerId, arg,
                   hand, it, submitted, finished>>

\* The usage counters when task k has ended.
UsageKept(k) == subPoolsUsage  \* Mutant
UsageAfter(k) ==
    IF Bound(k) \/ subPoolsUsage[PoolOf(k)] = 0 THEN subPoolsUsage
    ELSE [subPoolsUsage EXCEPT ![PoolOf(k)] = @ - 1]

TaskFinished(w) ==
    /\ pc[w] \in {"finish", "finishAndAsk"} /\ mainLock = None
    /\ LET k == current[w] IN
         /\ subPoolsUsage' = UsageAfter(k)
         /\ finished' = finished \cup {k}
    /\ current' = [current EXCEPT ![w] = None]
    /\ IF pc[w] = "finishAndAsk"
         THEN /\ availableWorkers' = availableWorkers \cup {w}
              /\ workerId' = [workerId EXCEPT ![w] = w]
              /\ pc' = [pc EXCEPT ![w] = "schedule"]
         ELSE /\ pc' = [pc EXCEPT ![w] = "pop"]
              /\ UNCHANGED <<availableWorkers, workerId>>
    /\ UNCHANGED <<mainLock, settings, tasksQueue, allWorkers, bindings, workerTasks,
                   arg, hand, it, submitted>>

-----------------------------------------------------------------------------
(* Settings *)

\* What no setting changes.
unset == <<subPoolsUsage, tasksQueue, bindings, workerTasks, current, workerId, hand,
           it, submitted, finished>>

AtLeast(a, b) == IF a < b THEN b ELSE a
AtMost(a, b) == IF a > b THEN b ELSE a

\* Mutant: the workers that exist are not counted.
CapacityBelowWorkers(n) == AtMost(AtLeast(IntensiveCapacity, n), MaxCapacity)
NewCapacity(n) == AtMost(AtLeast(AtLeast(IntensiveCapacity, n), allWorkers), MaxCapacity)

SetCapacity(c, n) ==
    /\ pc[c] = "idle" /\ mainLock = None
    /\ capacity' = NewCapacity(n)
    /\ customTagCapacities' = [customTagCapacities EXCEPT ![0] = capacity']
    /\ boundCapacity' = AtMost(boundCapacity, capacity')
    /\ UNCHANGED <<unset, mainLock, pausedCustomTags, allWorkers, availableWorkers, pc, arg>>

\* Mutant: fewer than are bound already are allowed.
SetBoundCapacityBelow(c, n) ==
    /\ pc[c] = "idle" /\ mainLock = None
    /\ boundCapacity' = AtLeast(0, n)
    /\ UNCHANGED <<unset, mainLock, capacity, customTagCapacities, pausedCustomTags,
                   allWorkers, availableWorkers, pc, arg>>

SetBoundCapacity(c, n) ==
    /\ pc[c] = "idle" /\ mainLock = None
    /\ boundCapacity' = AtLeast(BoundAmount, n)
    /\ UNCHANGED <<unset, mainLock, capacity, customTagCapacities, pausedCustomTags,
                   allWorkers, availableWorkers, pc, arg>>

\* addCustomTag limits the capacity by one it reads before it has the lock.
AddCustomTagRead(c, g, n) ==
    /\ pc[c] = "idle"
    /\ arg' = [arg EXCEPT ![c] = <<g, AtMost(AtLeast(n, 1), capacity)>>]
    /\ pc' = [pc EXCEPT ![c] = "addTag"]
    /\ UNCHANGED <<unset, mainLock, settings, allWorkers, availableWorkers>>

AddCustomTag(c) ==
    /\ pc[c] = "addTag" /\ mainLock = None
    /\ customTagCapacities' = [customTagCapacities EXCEPT ![arg[c][1]] = arg[c][2]]
    /\ arg' = [arg EXCEPT ![c] = <<0, 0>>]
    /\ pc' = [pc EXCEPT ![c] = "idle"]
    /\ UNCHANGED <<unset, mainLock, capacity, boundCapacity, pausedCustomTags,
                   allWorkers, availableWorkers>>

PauseCustomTag(c, g) ==
    /\ pc[c] = "idle" /\ mainLock = None
    /\ pausedCustomTags' = pausedCustomTags \cup {g}
    /\ UNCHANGED <<unset, mainLock, capacity, boundCapacity, customTagCapacities,
                   allWorkers, availableWorkers, pc, arg>>

ResumeCustomTag(c, g) ==
    /\ pc[c] = "idle" /\ mainLock = None
    /\ pausedCustomTags' = pausedCustomTags \ {g}
    /\ pc' = [pc EXCEPT ![c] = "schedule"]
    /\ UNCHANGED <<unset, mainLock, capacity, boundCapacity, customTagCapacities,
                   allWorkers, availableWorkers, arg>>

\* preHeatPool reads the capacity before it has the lock; preHeatIntensivePool
\* (n = 0) wants INTENSIVE_CAPACITY workers.
PreHeatRead(c, n) ==
    /\ pc[c] = "idle"
    /\ arg' = [arg EXCEPT ![c] = <<0, IF n = 0 THEN IntensiveCapacity
                                              ELSE AtMost(n, capacity)>>]
    /\ pc' = [pc EXCEPT ![c] = "preHeat"]
    /\ UNCHANGED <<unset, mainLock, settings, allWorkers, availableWorkers>>

PreHeatLock(c) ==
    /\ pc[c] = "preHeat" /\ mainLock = None
    /\ mainLock' = c
    /\ pc' = [pc EXCEPT ![c] = "preHeating"]
    /\ UNCHANGED <<unset, settings, allWorkers, availableWorkers, arg>>

\* One iteration of its loop, which goes on when no worker can be created.
PreHeatLoop(c) ==
    /\ pc[c] = "preHeating" /\ allWorkers < arg[c][2]
    /\ IF CanCreate
         THEN /\ allWorkers' = allWorkers + 1
              /\ availableWorkers' = availableWorkers \cup {allWorkers}
              /\ pc' = Started(pc, allWorkers)
         ELSE UNCHANGED <<allWorkers, availableWorkers, pc>>
    /\ UNCHANGED <<unset, mainLock, settings, arg>>

PreHeatEnd(c) ==
    /\ pc[c] = "preHeating" /\ allWorkers >= arg[c][2]
    /\ mainLock' = None
    /\ arg' = [arg EXCEPT ![c] = <<0, 0>>]
    /\ pc' = [pc EXCEPT ![c] = "idle"]
    /\ UNCHANGED <<unset, settings, allWorkers, availableWorkers>>

-----------------------------------------------------------------------------
\* What a thread does inside a call of the dispatcher it has made.
Continue(t) ==
    \/ HandOver(t)
    \/ ScheduleNothing(t) \/ ScheduleBegin(t)
    \/ LoopEnd(t) \/ LoopBound(t) \/ LoopRun(t) \/ LoopSkip(t)

ContinueSetting(c) ==
    \/ AddCustomTag(c)
    \/ PreHeatLock(c) \/ PreHeatLoop(c) \/ PreHeatEnd(c)

Work(w) == Pop(w) \/ Ran(w) \/ TaskFinished(w)

CallSetting(c) ==
    \/ \E n \in NewCapacities : SetCapacity(c, n)
    \/ \E n \in NewBoundCapacities : SetBoundCapacity(c, n)
    \/ \E a \in NewTagCapacities : AddCustomTagRead(c, a[1], a[2])
    \/ \E g \in PausableTags : PauseCustomTag(c, g) \/ ResumeCustomTag(c, g)
    \/ \E n \in PreHeats : PreHeatRead(c, n)

Next ==
    \/ \E t \in Threads : Continue(t)
    \/ \E c \in Clients : ContinueSetting(c) \/ CallSetting(c)
    \/ \E c \in Clients, k \in Tasks : InsertTask(c, k)
    \/ \E w \in Workers : Work(w)

Spec == Init /\ [][Next]_vars

\* Every runnable thread is scheduled, and every task ends.  A thread that
\* wants mainLock gets it in the end because the calls that take it are finite
\* in number; nothing is assumed of when clients call.
Fairness ==
    /\ \A t \in Threads : WF_vars(Continue(t))
    /\ \A c \in Clients : WF_vars(ContinueSetting(c))
    /\ \A w \in Workers : WF_vars(Work(w))

FairSpec == Spec /\ Fairness

-----------------------------------------------------------------------------
(* Properties *)

Held(w) == {workerTasks[w][i] : i \in DOMAIN workerTasks[w]} \cup ({current[w]} \ {None})
\* Given out to worker w, and not finished yet.
GivenTo(w) == Held(w) \cup {hand[t] : t \in {u \in Threads : workerId[u] = w /\ hand[u] # None}}
InFlight(p) == {k \in UNION {GivenTo(w) : w \in Workers} : ~Bound(k) /\ PoolOf(k) = p}

\* The usage counter of a subpool, changed by whoever gives a task out and by
\* the worker that ends it, counts the tasks of it that are with a worker.
UsageCountsInFlight ==
    \A p \in Pools : subPoolsUsage[p] = Cardinality(InFlight(p))

\* Intensive tasks together, and the tasks of a custom tag, never run more at
\* a time than their subpool allows.
SubpoolsWithinCapacity ==
    /\ Cardinality(InFlight(<<"Intensive", 0>>)) <= IntensiveCapacity
    /\ \A g \in Tags : Cardinality(InFlight(<<"Custom", g>>)) <= customTagCapacities[g]

\* A task of a custom tag is given out only while the tag is not paused and
\* has room, by the capacity in force when it is given out.
CustomTagsRespected ==
    [][\A g \in Tags : ~(InFlight(<<"Custom", g>>)' \subseteq InFlight(<<"Custom", g>>)) =>
          /\ g \notin pausedCustomTags
          /\ Cardinality(InFlight(<<"Custom", g>>)') <= customTagCapacities[g]]_vars

\* The places task k is at: in the queue, in a thread's hand, with a worker.
Places(k) ==
    {<<"queue", i>> : i \in {j \in DOMAIN tasksQueue : tasksQueue[j] = k}}
      \cup {<<"hand", t>> : t \in {u \in Threads : hand[u] = k}}
      \cup {<<"current", w>> : w \in {v \in Workers : current[v] = k}}
      \cup UNION {{<<"list", w, i>> : i \in {j \in DOMAIN workerTasks[w] :
                                              workerTasks[w][j] = k}} : w \in Workers}

\* A task that was submitted and has not ended is at one place: it is neither
\* lost between the queue, the hand-over and the worker, nor runs twice.
EveryTaskAtOnePlace ==
    \A k \in Tasks : Cardinality(Places(k)) =
        IF k \in submitted /\ k \notin finished THEN 1 ELSE 0

\* A thread bound task is only ever with the worker its tag is bound to,
\* whichever of the three paths gave it out.
BoundTasksOnTheirWorker ==
    \A w \in Workers : \A k \in GivenTo(w) :
        Bound(k) => tagToWorkerBindings[TagOf(k)] = w

\* The three records of bindings agree, and no more workers are bound than
\* boundCapacity allows, however it is set.
BindingsConsistent ==
    /\ \A w \in Workers : workersBindingsCount[w] =
                            Cardinality({g \in Tags : tagToWorkerBindings[g] = w})
    /\ boundWorkers = {w \in Workers : workersBindingsCount[w] > 0}
    /\ Cardinality(boundWorkers) <= boundCapacity

\* The workers that exist never outnumber the capacity, with setCapacity
\* lowering it at any time.
WorkersWithinCapacity == allWorkers <= capacity /\ capacity <= MaxCapacity

\* The worker a round of schedule() is for stays free until the round gives it
\* a task: bound tasks given out on the way never take it unseen.
LoopWorkerStaysFree == \A t \in Threads : InLoop(t) => workerId[t] \in availableWorkers

\* No thread is inside the dispatcher: workers run tasks or wait for one.
Settled ==
    \A t \in Threads : pc[t] \in {"idle", "none", "run"}
                         \/ (t \in Workers /\ pc[t] = "pop" /\ workerTasks[t] = <<>>)

\* Task k of the queue could be given out.
Runnable(k) ==
    /\ availableWorkers # {} \/ CanCreate
    /\ IF Bound(k) THEN WorkersForTag(TagOf(k)) # {-1} ELSE HasRoom(k)

\* No wake-up of the scheduler is missed: when all is settled, no task is left
\* queued that an available worker, or a new one, could run.
NoRunnableTaskLeft ==
    Settled => \A i \in DOMAIN tasksQueue : ~Runnable(tasksQueue[i])

\* A worker has at most one task that is not bound to it: no task waits behind
\* a running one while it could wait in the queue for any worker.
OneFreeTaskPerWorker ==
    \A w \in Workers : Cardinality({k \in GivenTo(w) : ~Bound(k)}) <= 1

\* As long as no tag is bound, tasks are spread over the workers: each has one
\* at a time, one that waits is known to be available, and nothing that could
\* run is left in the queue.
UnboundPoolServed ==
    boundWorkers = {} =>
        /\ OneFreeTaskPerWorker
        /\ Settled => \A w \in Workers : pc[w] = "pop" => w \in availableWorkers
        /\ NoRunnableTaskLeft

\* Every submitted task ends (tasks end, no tag is paused for good).
EveryTaskFinishes == \A k \in Tasks : (k \in submitted) ~> (k \in finished)

\* Whoever takes mainLock releases it.
MainLockReleased == \A t \in Threads : (mainLock = t) ~> (mainLock # t)
=============================================================================
