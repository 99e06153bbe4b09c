------------------------------- MODULE Shutdown -------------------------------
(***************************************************************************)
(* The dispatcher's mainLock around one worker, up to the end of the       *)
(* dispatcher: threads that submit a task take it before they hand the     *)
(* task over, the worker takes it once or twice after each task, and the   *)
(* destructor keeps it while it deletes the worker and joins its thread.   *)
(* Those who wait for it then have to give up.  Every step is one of the   *)
(* worker's, with what goes with it, or one with mainLock alone.           *)
(***************************************************************************)
EXTENDS Worker

VARIABLES mainLock, holders,  \* the flag of mainLock, and who holds or tries
          poisoningStarted,
          within,             \* the function of the dispatcher a thread is in
          askingForNext       \* argument of taskFinished

Main == INSTANCE SpinLock WITH m_lock <- mainLock, holder <- holders

dispatcher == <<mainLock, holders, poisoningStarted, within, askingForNext>>
shutdownVars == <<vars, dispatcher>>

\* "handOver" is the end of insertTaskInfo, after the lock has been released.
Functions == {"none", "insertTaskInfo", "handOver", "taskFinished", "schedule",
              "~TasksDispatcher", "gone"}

ShutdownTypeOK ==
    /\ TypeOK /\ Main!LockTypeOK
    /\ poisoningStarted \in BOOLEAN /\ askingForNext \in BOOLEAN
    /\ within \in [Threads -> Functions]

ShutdownInit ==
    /\ Init /\ Main!LockInit
    /\ poisoningStarted = FALSE /\ askingForNext = FALSE
    /\ within = [t \in Threads |-> "none"]

Enter(t, function) == within' = [within EXCEPT ![t] = function]
Has(t, h) == holders[t] = h

-----------------------------------------------------------------------------
\* Waiting for mainLock: the destructor alone never gives up.
LockStep(t) ==
    /\ within[t] # "none"
    /\ \/ Main!TakeLock(t) \/ Main!TryInVain(t)
       \/ Main!GiveUp(t, poisoningStarted /\ t # Destroyer)
    /\ UNCHANGED <<vars, poisoningStarted, within, askingForNext>>

-----------------------------------------------------------------------------
(* insertTaskInfo *)

Submit(g) ==
    /\ within[g] = "none" /\ pc[g] = "idle" /\ Given # Tasks
    /\ Enter(g, "insertTaskInfo") /\ Main!Construct(g)
    /\ UNCHANGED <<vars, poisoningStarted, askingForNext>>

\* The worker has been chosen, or the task is dropped: nothing is done with it.
Submitted(g) ==
    /\ within[g] = "insertTaskInfo"
    /\ \/ Has(g, "locked") /\ Enter(g, "handOver")
       \/ Has(g, "abandoned") /\ Enter(g, "none")
    /\ Main!Unlock(g)
    /\ UNCHANGED <<vars, poisoningStarted, askingForNext>>

\* addTask on a worker that has been deleted is undefined and not modelled.
HandOver(g) ==
    /\ within[g] = "handOver" /\ pc[Destroyer] # "joined"
    /\ \E k \in Tasks : AddTask(g, k)
    /\ Enter(g, "none")
    /\ UNCHANGED <<mainLock, holders, poisoningStarted, askingForNext>>

-----------------------------------------------------------------------------
(* The worker: after the list has been read it is in taskFinished. *)

RunStep ==
    /\ within[Self] = "none" /\ Run
    /\ IF pc[Self] = "ask"
         THEN /\ Enter(Self, "taskFinished") /\ Main!Construct(Self)
              /\ askingForNext' = (workerTasks = <<>>)
         ELSE UNCHANGED <<mainLock, holders, within, askingForNext>>
    /\ UNCHANGED poisoningStarted

TaskFinished ==
    /\ within[Self] = "taskFinished"
    /\ Main!Unlock(Self)
    /\ Enter(Self, IF Has(Self, "locked") /\ askingForNext THEN "schedule" ELSE "none")
    /\ UNCHANGED <<vars, poisoningStarted, askingForNext>>

\* What it gives to workers is given to this one by one of the Givers.
Schedule ==
    /\ within[Self] = "schedule"
    /\ \/ Main!Construct(Self) /\ UNCHANGED within
       \/ Main!Unlock(Self) /\ Enter(Self, "none")
    /\ UNCHANGED <<vars, poisoningStarted, askingForNext>>

-----------------------------------------------------------------------------
(* ~TasksDispatcher *)

StartPoisoning ==
    /\ within[Destroyer] = "none"
    /\ poisoningStarted' = TRUE
    /\ Enter(Destroyer, "~TasksDispatcher") /\ Main!Construct(Destroyer)
    /\ UNCHANGED <<vars, askingForNext>>

\* The worker is deleted under the lock.
DeleteWorker ==
    /\ within[Destroyer] = "~TasksDispatcher" /\ Has(Destroyer, "locked")
    /\ Poison \/ Destroy
    /\ UNCHANGED dispatcher

DestructorEnds ==
    /\ within[Destroyer] = "~TasksDispatcher" /\ pc[Destroyer] = "joined"
    /\ Main!Unlock(Destroyer)
    /\ Enter(Destroyer, "gone")
    /\ UNCHANGED <<vars, poisoningStarted, askingForNext>>

-----------------------------------------------------------------------------
GiverStep(g) == \/ HandOver(g) \/ Submitted(g)
                \/ Give(g) /\ UNCHANGED dispatcher
                \/ LockStep(g)
WorkerStep == RunStep \/ TaskFinished \/ Schedule \/ LockStep(Self)
DestroyerStep == DeleteWorker \/ DestructorEnds \/ LockStep(Destroyer)

ShutdownNext ==
    \/ \E g \in Givers : Submit(g) \/ GiverStep(g)
    \/ WorkerStep
    \/ SpuriousWakeup /\ UNCHANGED dispatcher
    \/ StartPoisoning \/ DestroyerStep

ShutdownSpec == ShutdownInit /\ [][ShutdownNext]_shutdownVars

\* As for the worker: threads that can run do, tasks end, and a lock that is
\* released over and over is got in the end.
ShutdownFairness ==
    /\ SF_shutdownVars(WorkerStep) /\ SF_shutdownVars(DestroyerStep)
    /\ \A g \in Givers : SF_shutdownVars(GiverStep(g))

-----------------------------------------------------------------------------
(* Properties *)

\* mainLock is held by one thread at most, those that give up included, and
\* the destructor has it for as long as it deletes workers
\* (tasksdispatcher.cpp:173).
MainLockExclusive ==
    /\ Main!MutualExclusion
    /\ pc[Destroyer] # "idle" => Has(Destroyer, "locked") \/ within[Destroyer] = "gone"

\* A worker that comes to taskFinished while the destructor waits for it under
\* mainLock gives up, and the destructor gets on: it returns, unless the worker
\* has gone to sleep past the pill (the violation of DestructorReturns).
DestructorGetsOn ==
    poisoningStarted ~> \/ within[Destroyer] = "gone"
                        \/ poisoned /\ pc[Self] = "asleep" /\ asleep
=============================================================================
