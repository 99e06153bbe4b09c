--------------------------- MODULE ShutdownProofs ---------------------------
(***************************************************************************)
(* Proofs about a worker inside its dispatcher, up to the end of both: it  *)
(* is still a Worker, so that what is proved of that one holds of it, and  *)
(* mainLock keeps those out whom the destructor keeps waiting.             *)
(***************************************************************************)
EXTENDS Shutdown, WorkerProofs

USE DEF Threads

-----------------------------------------------------------------------------
(* The worker of the dispatcher is a Worker. *)

\* Every step does to the worker what Worker lets it do, or nothing.
LEMMA StepOfWorker == ShutdownNext => [Next]_vars
<1> SUFFICES ASSUME ShutdownNext PROVE [Next]_vars
  OBVIOUS
<1>1. ASSUME NEW t \in Threads, LockStep(t) PROVE UNCHANGED vars
  BY <1>1 DEF LockStep
<1>2. ASSUME NEW g \in Givers, Submit(g) \/ GiverStep(g) PROVE [Next]_vars
  <2>1. CASE Submit(g) \/ Submitted(g)
    BY <2>1 DEF Submit, Submitted
  <2>2. CASE HandOver(g)
    BY <2>2 DEF HandOver, Next
  <2>3. CASE Give(g)
    BY <2>3 DEF Next
  <2> QED  BY <1>2, <2>1, <2>2, <2>3, <1>1 DEF GiverStep
<1>3. CASE WorkerStep
  <2>1. CASE RunStep
    BY <2>1 DEF RunStep, Next
  <2>2. CASE TaskFinished \/ Schedule
    BY <2>2 DEF TaskFinished, Schedule
  <2> QED  BY <1>3, <2>1, <2>2, <1>1 DEF WorkerStep
<1>4. CASE SpuriousWakeup
  BY <1>4 DEF Next
<1>5. CASE StartPoisoning \/ DestroyerStep
  <2>1. CASE StartPoisoning \/ DestructorEnds
    BY <2>1 DEF StartPoisoning, DestructorEnds
  <2>2. CASE DeleteWorker
    BY <2>2 DEF DeleteWorker, Next
  <2> QED  BY <1>5, <2>1, <2>2, <1>1 DEF DestroyerStep
<1> QED  BY <1>2, <1>3, <1>4, <1>5 DEF ShutdownNext

\* With mainLock around it, taskFinished after its tasks and a destructor that
\* deletes it, the worker behaves as Worker says: the dispatcher keeps to the
\* protocol of addTask, run and ~Worker.
THEOREM WorkerImplemented == ShutdownSpec => Spec
<1>1. ShutdownInit => Init
  BY DEF ShutdownInit
<1>2. [ShutdownNext]_shutdownVars => [Next]_vars
  BY StepOfWorker DEF shutdownVars
<1> QED  BY <1>1, <1>2, PTL DEF ShutdownSpec, Spec

\* What is proved of a worker holds of the one the destructor races with: its
\* order, its wake-ups and its counter.
COROLLARY WorkerKept == ShutdownSpec => [](TasksInOrder /\ NoLostWakeup /\ UsageSettles)
BY WorkerImplemented, OrderKept, NoWakeupLost, UsageBalances, PTL

-----------------------------------------------------------------------------
(* mainLock *)

DispatcherTypeOK ==
    /\ Main!LockTypeOK
    /\ poisoningStarted \in BOOLEAN /\ askingForNext \in BOOLEAN
    /\ within \in [Threads -> Functions]

\* The destructor waits for mainLock and then has it until it is gone; it is
\* the one thread that never gives up, and the only one in its function.
DestructorHasLock ==
    /\ within[Destroyer] \in {"none", "~TasksDispatcher", "gone"}
    /\ pc[Destroyer] # "idle" =>
         \/ within[Destroyer] = "~TasksDispatcher" /\ Has(Destroyer, "locked")
         \/ within[Destroyer] = "gone"

LockInv == DispatcherTypeOK /\ Main!MutualExclusion /\ DestructorHasLock

USE DEF Main!lockVars, Main!LockTypeOK, Main!Becomes, Has, Enter

LEMMA InitLockInv == ShutdownInit => LockInv
<1> SUFFICES ASSUME ShutdownInit PROVE LockInv
  OBVIOUS
<1>1. DispatcherTypeOK
  BY DEF ShutdownInit, Main!LockInit, DispatcherTypeOK, Functions
<1>2. Main!MutualExclusion
  BY DEF ShutdownInit, Main!LockInit, Main!MutualExclusion
<1>3. DestructorHasLock
  BY WorkerAssumption DEF ShutdownInit, Init, DestructorHasLock
<1> QED  BY <1>1, <1>2, <1>3 DEF LockInv

\* What each thing that can be done with a lock leaves of it.
LEMMA LockSteps ==
  ASSUME Main!LockTypeOK, Main!MutualExclusion, NEW t \in Threads, NEW b \in BOOLEAN,
         \/ Main!Construct(t) \/ Main!TakeLock(t) \/ Main!TryInVain(t)
         \/ Main!GiveUp(t, b) \/ Main!Unlock(t)
  PROVE  /\ Main!LockTypeOK' /\ Main!MutualExclusion'
         /\ \A u \in Threads \ {t} : holders'[u] = holders[u]
<1>1. CASE Main!Construct(t)
  BY <1>1 DEF Main!Construct, Main!MutualExclusion
<1>2. CASE Main!TakeLock(t)
  BY <1>2 DEF Main!TakeLock, Main!MutualExclusion
<1>3. CASE Main!TryInVain(t)
  BY <1>3 DEF Main!TryInVain, Main!MutualExclusion
<1>4. CASE Main!GiveUp(t, b)
  BY <1>4 DEF Main!GiveUp, Main!MutualExclusion
<1>5. CASE Main!Unlock(t)
  BY <1>5 DEF Main!Unlock, Main!MutualExclusion
<1> QED  BY <1>1, <1>2, <1>3, <1>4, <1>5

\* The worker and the givers move their own pc only.
LEMMA DestroyerStays ==
  ASSUME TypeOK, \/ Run
                 \/ \E g \in Givers : Give(g) \/ \E k \in Tasks : AddTask(g, k)
                 \/ SpuriousWakeup
  PROVE  pc'[Destroyer] = pc[Destroyer]
<1> USE WorkerAssumption DEF TypeOK, Goto
<1>1. ASSUME Run PROVE pc'[Destroyer] = pc[Destroyer]
  BY <1>1 DEF Run, Check, LockTasks, IdleLoop, LockWaiting, UnlockTasks, Sleep, Wake,
     UnlockAndRun, RunTask, AskForNext, Uncount
<1>2. ASSUME NEW g \in Givers, Give(g) PROVE pc'[Destroyer] = pc[Destroyer]
  BY <1>2 DEF Give, AddNotify, AddUnlock, AddCount
<1>3. ASSUME NEW g \in Givers, NEW k \in Tasks, AddTask(g, k)
      PROVE  pc'[Destroyer] = pc[Destroyer]
  BY <1>3 DEF AddTask
<1>4. CASE SpuriousWakeup
  BY <1>4 DEF SpuriousWakeup
<1> QED  BY <1>1, <1>2, <1>3, <1>4

LEMMA NextLockInv == TypeOK /\ LockInv /\ [ShutdownNext]_shutdownVars => LockInv'
<1> SUFFICES ASSUME TypeOK, LockInv, [ShutdownNext]_shutdownVars PROVE LockInv'
  OBVIOUS
<1> USE WorkerAssumption DEF LockInv, DispatcherTypeOK, Functions
<1>1. ASSUME NEW t \in Threads, LockStep(t) PROVE LockInv'
  <2>1. Main!LockTypeOK' /\ Main!MutualExclusion'
        /\ \A u \in Threads \ {t} : holders'[u] = holders[u]
    BY <1>1, LockSteps DEF LockStep
  <2>2. holders[t] # "locked"
    BY <1>1 DEF LockStep, Main!TakeLock, Main!TryInVain, Main!GiveUp
  <2> QED  BY <1>1, <2>1, <2>2 DEF LockStep, DestructorHasLock, vars
<1>2. ASSUME NEW g \in Givers, Submit(g) PROVE LockInv'
  <2>1. Main!LockTypeOK' /\ Main!MutualExclusion'
        /\ \A u \in Threads \ {g} : holders'[u] = holders[u]
    BY <1>2, LockSteps DEF Submit
  <2> QED  BY <1>2, <2>1 DEF Submit, DestructorHasLock, vars
<1>3. ASSUME NEW g \in Givers, Submitted(g) PROVE LockInv'
  <2>1. Main!LockTypeOK' /\ Main!MutualExclusion'
        /\ \A u \in Threads \ {g} : holders'[u] = holders[u]
    BY <1>3, LockSteps DEF Submitted
  <2> QED  BY <1>3, <2>1 DEF Submitted, DestructorHasLock, vars
<1>4. ASSUME NEW g \in Givers, HandOver(g) PROVE LockInv'
  <2>1. pc'[Destroyer] = pc[Destroyer]
    BY <1>4, DestroyerStays DEF HandOver
  <2> QED  BY <1>4, <2>1 DEF HandOver, DestructorHasLock, Main!MutualExclusion
<1>5. ASSUME NEW g \in Givers, Give(g), UNCHANGED dispatcher PROVE LockInv'
  <2>1. pc'[Destroyer] = pc[Destroyer]
    BY <1>5, DestroyerStays
  <2> QED  BY <1>5, <2>1 DEF dispatcher, DestructorHasLock, Main!MutualExclusion
<1>6. ASSUME RunStep PROVE LockInv'
  <2>1. pc'[Destroyer] = pc[Destroyer]
    BY <1>6, DestroyerStays DEF RunStep
  <2>2. Main!LockTypeOK' /\ Main!MutualExclusion'
        /\ \A u \in Threads \ {Self} : holders'[u] = holders[u]
    <3>1. CASE pc[Self] = "ask"
      BY <1>6, <3>1, LockSteps DEF RunStep
    <3>2. CASE pc[Self] # "ask"
      BY <1>6, <3>2 DEF RunStep, Main!MutualExclusion
    <3> QED  BY <3>1, <3>2
  <2> QED  BY <1>6, <2>1, <2>2 DEF RunStep, DestructorHasLock
<1>7. ASSUME TaskFinished PROVE LockInv'
  <2>1. Main!LockTypeOK' /\ Main!MutualExclusion'
        /\ \A u \in Threads \ {Self} : holders'[u] = holders[u]
    BY <1>7, LockSteps DEF TaskFinished
  <2> QED  BY <1>7, <2>1 DEF TaskFinished, DestructorHasLock, vars
<1>8. ASSUME Schedule PROVE LockInv'
  <2>1. Main!LockTypeOK' /\ Main!MutualExclusion'
        /\ \A u \in Threads \ {Self} : holders'[u] = holders[u]
    BY <1>8, LockSteps DEF Schedule
  <2> QED  BY <1>8, <2>1 DEF Schedule, DestructorHasLock, vars
<1>9. ASSUME SpuriousWakeup, UNCHANGED dispatcher PROVE LockInv'
  <2>1. pc'[Destroyer] = pc[Destroyer]
    BY <1>9, DestroyerStays
  <2> QED  BY <1>9, <2>1 DEF dispatcher, DestructorHasLock, Main!MutualExclusion
<1>10. ASSUME StartPoisoning PROVE LockInv'
  <2>1. Main!LockTypeOK' /\ Main!MutualExclusion'
        /\ \A u \in Threads \ {Destroyer} : holders'[u] = holders[u]
    BY <1>10, LockSteps DEF StartPoisoning
  <2> QED  BY <1>10, <2>1 DEF StartPoisoning, DestructorHasLock, vars
<1>11. ASSUME DeleteWorker PROVE LockInv'
  BY <1>11 DEF DeleteWorker, dispatcher, DestructorHasLock, Main!MutualExclusion
<1>12. ASSUME DestructorEnds PROVE LockInv'
  <2>1. Main!LockTypeOK' /\ Main!MutualExclusion'
        /\ \A u \in Threads \ {Destroyer} : holders'[u] = holders[u]
    BY <1>12, LockSteps DEF DestructorEnds
  <2> QED  BY <1>12, <2>1 DEF DestructorEnds, DestructorHasLock, vars
<1>13. CASE UNCHANGED shutdownVars
  BY <1>13 DEF shutdownVars, vars, dispatcher, DestructorHasLock, Main!MutualExclusion
<1> QED
  BY <1>1, <1>2, <1>3, <1>4, <1>5, <1>6, <1>7, <1>8, <1>9, <1>10, <1>11, <1>12, <1>13
     DEF ShutdownNext, GiverStep, WorkerStep, DestroyerStep

LEMMA AlwaysTypeOK == ShutdownSpec => []TypeOK
BY WorkerImplemented, TypeCorrect, PTL

LEMMA AlwaysLockInv == ShutdownSpec => []LockInv
BY InitLockInv, NextLockInv, AlwaysTypeOK, PTL DEF ShutdownSpec

-----------------------------------------------------------------------------
(* Theorems *)

\* Type correctness of the worker and of the dispatcher around it.
THEOREM ShutdownTypeCorrect == ShutdownSpec => []ShutdownTypeOK
<1>1. TypeOK /\ LockInv => ShutdownTypeOK
  BY DEF LockInv, DispatcherTypeOK, ShutdownTypeOK
<1> QED  BY <1>1, AlwaysTypeOK, AlwaysLockInv, PTL

\* mainLock lets one thread in at a time, whoever gives up and calls unlock()
\* nonetheless, and the destructor has it from the first pill to its end.
THEOREM OneHolder == ShutdownSpec => []MainLockExclusive
<1>1. LockInv => MainLockExclusive
  BY DEF LockInv, DestructorHasLock, MainLockExclusive
<1> QED  BY <1>1, AlwaysLockInv, PTL
=============================================================================
