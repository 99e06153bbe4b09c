------------------------------- MODULE Worker -------------------------------
(***************************************************************************)
(* One Worker of src/tasksdispatcher.cpp: its thread runs Worker::run, the *)
(* threads in Givers call addTask, and the thread that destroys the worker *)
(* calls poisonPill and joins.  The list of tasks is guarded by tasksLock, *)
(* the condition variable by waitingLock, and the run loop goes from one   *)
(* to the other to sleep; every acquisition that can be seen from another  *)
(* thread is a step of its own.                                            *)
(***************************************************************************)
EXTENDS Integers, Sequences, FiniteSets

CONSTANTS Givers, Tasks, None,
          IdleLoops,       \* idleLoopsAmount
          Self, Destroyer  \* the worker's thread, the one that deletes it

Threads == Givers \cup {Self, Destroyer}

ASSUME WorkerAssumption ==
    /\ IdleLoops \in Nat /\ IsFiniteSet(Givers)
    /\ None \notin Tasks /\ None \notin Threads
    /\ Self \notin Givers /\ Destroyer \notin Givers /\ Self # Destroyer

VARIABLES
    tasksLock, waitingLock,   \* the threads that hold them
    workerTasks, poisoned,
    asleep,                   \* the worker is in the wait set of waiter
    pc,
    task, taskObserved, noTasksTicks,   \* locals of run
    instantUsage,             \* the dispatcher's counter
    given, done               \* history: tasks as pushed, tasks as run

locals == <<task, taskObserved, noTasksTicks>>
vars == <<tasksLock, waitingLock, workerTasks, poisoned, asleep, pc, locals,
          instantUsage, given, done>>

\* Where a thread can be, in addTask, run, poisonPill or ~Worker.
Labels == {"idle", "notify", "unlock", "count",
           "check", "lockTasks", "empty", "lockWaiting", "unlockTasks", "sleep", "asleep",
           "found", "run", "ask", "uncount", "stopped",
           "join", "joined"}

TypeOK ==
    /\ tasksLock \in Givers \cup {Self, None}
    /\ waitingLock \in {Self, None}
    /\ workerTasks \in Seq(Tasks)
    /\ poisoned \in BOOLEAN /\ asleep \in BOOLEAN
    /\ pc \in [Threads -> Labels]
    /\ task \in Tasks \cup {None}
    /\ taskObserved \in BOOLEAN /\ noTasksTicks \in Nat
    /\ instantUsage \in Int
    /\ given \in Seq(Tasks) /\ done \in Seq(Tasks)

Init ==
    /\ tasksLock = None /\ waitingLock = None
    /\ workerTasks = <<>> /\ poisoned = FALSE /\ asleep = FALSE
    /\ pc = [t \in Threads |-> IF t = Self THEN "check" ELSE "idle"]
    /\ task = None /\ taskObserved = FALSE /\ noTasksTicks = 0
    /\ instantUsage = 0
    /\ given = <<>> /\ done = <<>>

Goto(t, label) == pc' = [pc EXCEPT ![t] = label]
Given == {given[i] : i \in DOMAIN given}

-----------------------------------------------------------------------------
(* addTask *)

\* Mutant: tasks are put in at the front.
AddTaskInFront(g, k) ==
    /\ pc[g] = "idle" /\ k \notin Given
    /\ tasksLock = None
    /\ tasksLock' = g
    /\ workerTasks' = <<k>> \o workerTasks
    /\ given' = Append(given, k)
    /\ Goto(g, IF workerTasks = <<>> THEN "notify" ELSE "unlock")
    /\ UNCHANGED <<waitingLock, poisoned, asleep, locals, instantUsage, done>>

\* Mutant: the list is asked whether it was empty after the task is in it.
AddTaskAskLate(g, k) ==
    /\ pc[g] = "idle" /\ k \notin Given
    /\ tasksLock = None
    /\ tasksLock' = g
    /\ workerTasks' = Append(workerTasks, k)
    /\ given' = Append(given, k)
    /\ Goto(g, "unlock")
    /\ UNCHANGED <<waitingLock, poisoned, asleep, locals, instantUsage, done>>

AddTask(g, k) ==
    /\ pc[g] = "idle" /\ k \notin Given
    /\ tasksLock = None
    /\ tasksLock' = g
    /\ workerTasks' = Append(workerTasks, k)
    /\ given' = Append(given, k)
    /\ Goto(g, IF workerTasks = <<>> THEN "notify" ELSE "unlock")
    /\ UNCHANGED <<waitingLock, poisoned, asleep, locals, instantUsage, done>>

\* The first task of an empty list: waitingLock is held around notify_one.
AddNotify(g) ==
    /\ pc[g] = "notify" /\ waitingLock = None
    /\ asleep' = FALSE
    /\ Goto(g, "unlock")
    /\ UNCHANGED <<tasksLock, waitingLock, workerTasks, poisoned, locals,
                   instantUsage, given, done>>

AddUnlock(g) ==
    /\ pc[g] = "unlock"
    /\ tasksLock' = None
    /\ Goto(g, "count")
    /\ UNCHANGED <<waitingLock, workerTasks, poisoned, asleep, locals, instantUsage,
                   given, done>>

AddCount(g) ==
    /\ pc[g] = "count"
    /\ instantUsage' = instantUsage + 1
    /\ Goto(g, "idle")
    /\ UNCHANGED <<tasksLock, waitingLock, workerTasks, poisoned, asleep, locals,
                   given, done>>

-----------------------------------------------------------------------------
(* run *)

Check ==
    /\ pc[Self] = "check"
    /\ Goto(Self, IF poisoned THEN "stopped" ELSE "lockTasks")
    /\ UNCHANGED <<tasksLock, waitingLock, workerTasks, poisoned, asleep, locals,
                   instantUsage, given, done>>

LockTasks ==
    /\ pc[Self] = "lockTasks" /\ tasksLock = None
    /\ tasksLock' = Self
    /\ IF workerTasks # <<>>
         THEN /\ task' = Head(workerTasks)
              /\ workerTasks' = Tail(workerTasks)
              /\ taskObserved' = TRUE
              /\ Goto(Self, "found")
         ELSE /\ Goto(Self, "empty")
              /\ UNCHANGED <<task, workerTasks, taskObserved>>
    /\ UNCHANGED <<waitingLock, poisoned, asleep, noTasksTicks, instantUsage, given, done>>

\* Mutant: tasksLock is released before waitingLock is taken.
IdleLoopUnlocks ==
    /\ pc[Self] = "empty"
    /\ noTasksTicks' = IF taskObserved THEN noTasksTicks + 1 ELSE noTasksTicks
    /\ tasksLock' = None
    /\ Goto(Self, IF taskObserved /\ noTasksTicks' < IdleLoops THEN "check"
                                                           ELSE "lockWaiting")
    /\ UNCHANGED <<waitingLock, workerTasks, poisoned, asleep, task, taskObserved,
                   instantUsage, given, done>>

\* After a task the worker looks again for a while before it goes to sleep.
IdleLoop ==
    /\ pc[Self] = "empty"
    /\ noTasksTicks' = IF taskObserved THEN noTasksTicks + 1 ELSE noTasksTicks
    /\ IF taskObserved /\ noTasksTicks' < IdleLoops
         THEN tasksLock' = None /\ Goto(Self, "check")
         ELSE Goto(Self, "lockWaiting") /\ UNCHANGED tasksLock
    /\ UNCHANGED <<waitingLock, workerTasks, poisoned, asleep, task, taskObserved,
                   instantUsage, given, done>>

LockWaiting ==
    /\ pc[Self] = "lockWaiting" /\ waitingLock = None
    /\ waitingLock' = Self
    /\ Goto(Self, "unlockTasks")
    /\ UNCHANGED <<tasksLock, workerTasks, poisoned, asleep, locals, instantUsage,
                   given, done>>

UnlockTasks ==
    /\ pc[Self] = "unlockTasks"
    /\ tasksLock' = None
    /\ task' = None
    /\ Goto(Self, "sleep")
    /\ UNCHANGED <<waitingLock, workerTasks, poisoned, asleep, taskObserved,
                   noTasksTicks, instantUsage, given, done>>

\* waiter.wait releases waitingLock and joins the wait set in one step.
Sleep ==
    /\ pc[Self] = "sleep"
    /\ asleep' = TRUE
    /\ waitingLock' = None
    /\ Goto(Self, "asleep")
    /\ UNCHANGED <<tasksLock, workerTasks, poisoned, locals, instantUsage, given, done>>

\* A condition variable may wake its waiter unasked.
SpuriousWakeup ==
    /\ asleep
    /\ asleep' = FALSE
    /\ UNCHANGED <<tasksLock, waitingLock, workerTasks, poisoned, pc, locals,
                   instantUsage, given, done>>

Wake ==
    /\ pc[Self] = "asleep" /\ ~asleep
    /\ waitingLock = None
    /\ taskObserved' = FALSE /\ noTasksTicks' = 0
    /\ Goto(Self, "check")
    /\ UNCHANGED <<tasksLock, waitingLock, workerTasks, poisoned, asleep, task,
                   instantUsage, given, done>>

\* Mutant: the local task is reset too early.
UnlockAndRunReset ==
    /\ pc[Self] = "found"
    /\ tasksLock' = None
    /\ task' = None
    /\ Goto(Self, "run")
    /\ UNCHANGED <<waitingLock, workerTasks, poisoned, asleep, taskObserved,
                   noTasksTicks, instantUsage, given, done>>

UnlockAndRun ==
    /\ pc[Self] = "found"
    /\ tasksLock' = None
    /\ Goto(Self, "run")
    /\ UNCHANGED <<waitingLock, workerTasks, poisoned, asleep, locals, instantUsage,
                   given, done>>

RunTask ==
    /\ pc[Self] = "run"
    /\ done' = Append(done, task)
    /\ Goto(Self, "ask")
    /\ UNCHANGED <<tasksLock, waitingLock, workerTasks, poisoned, asleep, locals,
                   instantUsage, given>>

\* The list is read under tasksLock for the dispatcher's taskFinished.
AskForNext ==
    /\ pc[Self] = "ask" /\ tasksLock = None
    /\ Goto(Self, "uncount")
    /\ UNCHANGED <<tasksLock, waitingLock, workerTasks, poisoned, asleep, locals,
                   instantUsage, given, done>>

\* Mutant: the counter is not lowered.
UncountNot ==
    /\ pc[Self] = "uncount"
    /\ Goto(Self, "check")
    /\ UNCHANGED <<tasksLock, waitingLock, workerTasks, poisoned, asleep, locals,
                   instantUsage, given, done>>

Uncount ==
    /\ pc[Self] = "uncount"
    /\ instantUsage' = instantUsage - 1
    /\ Goto(Self, "check")
    /\ UNCHANGED <<tasksLock, waitingLock, workerTasks, poisoned, asleep, locals,
                   given, done>>

-----------------------------------------------------------------------------
(* ~Worker *)

Poison ==
    /\ pc[Destroyer] = "idle"
    /\ poisoned' = TRUE
    /\ Goto(Destroyer, "notify")
    /\ UNCHANGED <<tasksLock, waitingLock, workerTasks, asleep, locals, instantUsage,
                   given, done>>

PoisonNotify ==
    /\ pc[Destroyer] = "notify" /\ waitingLock = None
    /\ asleep' = FALSE
    /\ Goto(Destroyer, "join")
    /\ UNCHANGED <<tasksLock, waitingLock, workerTasks, poisoned, locals, instantUsage,
                   given, done>>

Join ==
    /\ pc[Destroyer] = "join" /\ pc[Self] = "stopped"
    /\ Goto(Destroyer, "joined")
    /\ UNCHANGED <<tasksLock, waitingLock, workerTasks, poisoned, asleep, locals,
                   instantUsage, given, done>>

-----------------------------------------------------------------------------
Give(g) == AddNotify(g) \/ AddUnlock(g) \/ AddCount(g)

Run ==
    \/ Check \/ LockTasks \/ IdleLoop \/ LockWaiting \/ UnlockTasks \/ Sleep \/ Wake
    \/ UnlockAndRun \/ RunTask \/ AskForNext \/ Uncount

Destroy == PoisonNotify \/ Join

Next ==
    \/ \E g \in Givers : Give(g) \/ \E k \in Tasks : AddTask(g, k)
    \/ Run \/ SpuriousWakeup
    \/ Poison \/ Destroy

Spec == Init /\ [][Next]_vars

\* Threads that can run do, tasks end, and a thread that waits for a lock that
\* is released over and over gets it in the end.
Fairness == SF_vars(Run) /\ SF_vars(Destroy) /\ \A g \in Givers : SF_vars(Give(g))

FairSpec == Spec /\ Fairness

-----------------------------------------------------------------------------
(* Properties *)

\* The task the worker took from the list and has not run yet.
Taken == IF pc[Self] \in {"found", "run"} THEN <<task>> ELSE <<>>

\* Tasks run in the order they were given, each once, and none gets lost
\* between the giver, the list and the worker's loop.
TasksInOrder == given = done \o Taken \o workerTasks

\* A worker that sleeps, or is past the point where it looks at the list, has
\* no task waiting unless a giver is on its way to wake it up.
NoLostWakeup ==
    /\ \/ pc[Self] \in {"empty", "lockWaiting", "unlockTasks", "sleep"}
       \/ pc[Self] = "asleep" /\ asleep
    /\ workerTasks # <<>>
    => \E g \in Givers : pc[g] = "notify"

\* instantUsage is the number of tasks with the worker once those threads that
\* are about to update it have done so; it is 0 when nothing is left to do.
UsageSettles ==
    (\A g \in Givers : pc[g] \notin {"notify", "unlock", "count"}) =>
        instantUsage = Len(workerTasks)
                        + IF pc[Self] \in {"found", "run", "ask", "uncount"} THEN 1 ELSE 0

\* Every task that was given runs, unless the worker is being destroyed.
EveryTaskRuns ==
    \A k \in Tasks :
        (k \in Given) ~> (poisoned \/ \E i \in DOMAIN done : done[i] = k)

\* The destructor of a worker returns.
DestructorReturns == poisoned ~> pc[Destroyer] = "joined"
=============================================================================
