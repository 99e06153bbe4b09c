---------------------------- MODULE WorkerProofs ----------------------------
(***************************************************************************)
(* Proofs about one Worker, for any number of givers and tasks.            *)
(***************************************************************************)
EXTENDS Worker, TLAPS, SequenceTheorems, FiniteSetTheorems

-----------------------------------------------------------------------------
(* The inductive invariant *)

GiverHolds == {"notify", "unlock"}
SelfHolds == {"empty", "lockWaiting", "unlockTasks", "found"}

\* Each thread is at a step of the procedure it runs.
Places ==
    /\ \A g \in Givers : pc[g] \in {"idle", "notify", "unlock", "count"}
    /\ pc[Self] \in {"check", "lockTasks", "empty", "lockWaiting", "unlockTasks",
                     "sleep", "asleep", "found", "run", "ask", "uncount", "stopped"}
    /\ pc[Destroyer] \in {"idle", "notify", "join", "joined"}

\* The locks are held exactly where the code is between lock and unlock.
Locks ==
    /\ \A g \in Givers : tasksLock = g <=> pc[g] \in GiverHolds
    /\ tasksLock = Self <=> pc[Self] \in SelfHolds
    /\ waitingLock = Self <=> pc[Self] \in {"unlockTasks", "sleep"}

\* A task that was taken is a task.
Taking == pc[Self] \in {"found", "run"} => task \in Tasks

\* What the worker knows of the list while it holds tasksLock, and what is true
\* of it once it has let go of it.
Waking ==
    /\ pc[Self] \in {"empty", "lockWaiting", "unlockTasks"} => workerTasks = <<>>
    /\ (pc[Self] = "sleep" \/ (pc[Self] = "asleep" /\ asleep)) /\ workerTasks # <<>>
         => \E g \in Givers : pc[g] = "notify"

IInv == TypeOK /\ Places /\ Locks /\ Taking /\ Waking /\ TasksInOrder

USE DEF Threads

-----------------------------------------------------------------------------
LEMMA InitIInv == Init => IInv
<1> SUFFICES ASSUME Init PROVE IInv
  OBVIOUS
<1> USE WorkerAssumption DEF Init
<1>1. TypeOK
  <2>1. workerTasks \in Seq(Tasks) /\ given \in Seq(Tasks) /\ done \in Seq(Tasks)
    BY EmptySeq
  <2>2. tasksLock \in Givers \cup {Self, None} /\ waitingLock \in {Self, None}
    OBVIOUS
  <2>3. pc \in [Threads -> Labels]
    BY DEF Labels
  <2>4. poisoned \in BOOLEAN /\ asleep \in BOOLEAN /\ taskObserved \in BOOLEAN
    OBVIOUS
  <2>5. task \in Tasks \cup {None} /\ noTasksTicks \in Nat /\ instantUsage \in Int
    OBVIOUS
  <2> HIDE DEF Init
  <2> QED  BY <2>1, <2>2, <2>3, <2>4, <2>5 DEF TypeOK
<1>2. Places /\ Locks /\ Taking /\ Waking
  BY DEF Places, Locks, Taking, Waking, GiverHolds, SelfHolds
<1>3. TasksInOrder
  BY DEF TasksInOrder, Taken
<1> QED  BY <1>1, <1>2, <1>3 DEF IInv

\* Adding at the end of the last of two sequences adds at the end of both.
LEMMA AppendAfter ==
  ASSUME NEW S, NEW s \in Seq(S), NEW t \in Seq(S), NEW e \in S
  PROVE  Append(s \o t, e) = s \o Append(t, e)
<1>1. <<e>> \in Seq(S)
  OBVIOUS
<1>2. Append(s \o t, e) = (s \o t) \o <<e>>
  BY AppendIsConcat, ConcatProperties
<1>3. Append(t, e) = t \o <<e>>
  BY AppendIsConcat
<1> QED  BY <1>1, <1>2, <1>3, ConcatAssociative

\* The first element of the second sequence moves over to the first one.
LEMMA TakeFirst ==
  ASSUME NEW S, NEW s \in Seq(S), NEW t \in Seq(S), t # <<>>
  PROVE  (s \o <<>>) \o t = (s \o <<Head(t)>>) \o Tail(t)
<1>1. Head(t) \in S /\ Tail(t) \in Seq(S)
  BY HeadTailProperties
<1>2. <<Head(t)>> \in Seq(S)
  BY <1>1
<1>3. t = <<Head(t)>> \o Tail(t)
  <2>1. Len(t) \in Nat \ {0}
    BY EmptySeq
  <2>2. SubSeq(t, 1, Len(t)) = <<t[1]>> \o SubSeq(t, 2, Len(t))
    BY <2>1, SubSeqRecursiveFirst
  <2>3. SubSeq(t, 1, Len(t)) = t /\ SubSeq(t, 2, Len(t)) = Tail(t)
    BY SubSeqFull, TailIsSubSeq
  <2> QED  BY <2>2, <2>3
<1>4. (s \o <<Head(t)>>) \o Tail(t) = s \o (<<Head(t)>> \o Tail(t))
  BY <1>1, <1>2, ConcatAssociative
<1> QED  BY <1>3, <1>4, ConcatEmptySeq

LEMMA TakenType == IInv => Taken \in Seq(Tasks)
BY EmptySeq DEF IInv, Taking, Taken

LEMMA NextIInv == IInv /\ [Next]_vars => IInv'
<1> SUFFICES ASSUME IInv, [Next]_vars PROVE IInv'
  OBVIOUS
<1> USE WorkerAssumption DEF IInv, Goto, locals, Labels
<1>1. ASSUME NEW g \in Givers, NEW k \in Tasks, AddTask(g, k) PROVE IInv'
  <2>1. TypeOK'
    BY <1>1 DEF AddTask, TypeOK, Places, Taking
  <2>2. Places' /\ Locks' /\ Taking'
    BY <1>1 DEF AddTask, TypeOK, Places, Locks, Taking, GiverHolds, SelfHolds
  <2>3. Waking'
    BY <1>1 DEF AddTask, TypeOK, Places, Locks, Waking, GiverHolds, SelfHolds
  <2>4. TasksInOrder'
    <3>1. done \o Taken \in Seq(Tasks)
      BY TakenType, ConcatProperties DEF TypeOK
    <3>2. Append((done \o Taken) \o workerTasks, k) = (done \o Taken) \o Append(workerTasks, k)
      <4> HIDE DEF Taken
      <4>1. workerTasks \in Seq(Tasks) /\ k \in Tasks
        BY <1>1 DEF TypeOK
      <4> QED  BY <3>1, <4>1, AppendAfter, SMTT(30)
    <3> QED  BY <1>1, <3>2 DEF AddTask, TypeOK, Places, TasksInOrder, Taken
  <2> QED  BY <2>1, <2>2, <2>3, <2>4
<1>2. ASSUME NEW g \in Givers, AddNotify(g) PROVE IInv'
  <2>1. TypeOK'
    BY <1>2 DEF AddNotify, TypeOK, Places, Taking
  <2>2. Places' /\ Locks' /\ Taking'
    BY <1>2 DEF AddNotify, TypeOK, Places, Locks, Taking, GiverHolds, SelfHolds
  <2>3. Waking'
    BY <1>2 DEF AddNotify, TypeOK, Places, Locks, Waking, GiverHolds, SelfHolds
  <2>4. TasksInOrder'
    BY <1>2 DEF AddNotify, TypeOK, Places, Locks, TasksInOrder, Taken
  <2> QED  BY <2>1, <2>2, <2>3, <2>4
<1>3. ASSUME NEW g \in Givers, AddUnlock(g) PROVE IInv'
  <2>1. TypeOK'
    BY <1>3 DEF AddUnlock, TypeOK, Places, Taking
  <2>2. Places' /\ Locks' /\ Taking'
    BY <1>3 DEF AddUnlock, TypeOK, Places, Locks, Taking, GiverHolds, SelfHolds
  <2>3. Waking'
    BY <1>3 DEF AddUnlock, TypeOK, Places, Locks, Waking, GiverHolds, SelfHolds
  <2>4. TasksInOrder'
    BY <1>3 DEF AddUnlock, TypeOK, Places, Locks, TasksInOrder, Taken
  <2> QED  BY <2>1, <2>2, <2>3, <2>4
<1>4. ASSUME NEW g \in Givers, AddCount(g) PROVE IInv'
  <2>1. TypeOK'
    BY <1>4 DEF AddCount, TypeOK, Places, Taking
  <2>2. Places' /\ Locks' /\ Taking'
    BY <1>4 DEF AddCount, TypeOK, Places, Locks, Taking, GiverHolds, SelfHolds
  <2>3. Waking'
    BY <1>4 DEF AddCount, TypeOK, Places, Locks, Waking, GiverHolds, SelfHolds
  <2>4. TasksInOrder'
    BY <1>4 DEF AddCount, TypeOK, Places, Locks, TasksInOrder, Taken
  <2> QED  BY <2>1, <2>2, <2>3, <2>4
<1>5. ASSUME Check PROVE IInv'
  <2>1. TypeOK'
    BY <1>5 DEF Check, TypeOK, Places, Taking
  <2>2. Places' /\ Locks' /\ Taking'
    BY <1>5 DEF Check, TypeOK, Places, Locks, Taking, GiverHolds, SelfHolds
  <2>3. Waking'
    BY <1>5 DEF Check, TypeOK, Places, Locks, Waking, GiverHolds, SelfHolds
  <2>4. TasksInOrder'
    BY <1>5 DEF Check, TypeOK, Places, Locks, TasksInOrder, Taken
  <2> QED  BY <2>1, <2>2, <2>3, <2>4
<1>6. ASSUME LockTasks PROVE IInv'
  <2>1. TypeOK'
    <3>1. workerTasks # <<>> => Head(workerTasks) \in Tasks /\ Tail(workerTasks) \in Seq(Tasks)
      BY HeadTailProperties DEF TypeOK
    <3>2. workerTasks' \in Seq(Tasks) /\ task' \in Tasks \cup {None}
      BY <1>6, <3>1 DEF LockTasks, TypeOK
    <3> QED  BY <1>6, <3>2 DEF LockTasks, TypeOK
  <2>2. Places' /\ Locks' /\ Taking'
    BY <1>6 DEF LockTasks, TypeOK, Places, Locks, Taking, GiverHolds, SelfHolds
  <2>3. Waking'
    BY <1>6 DEF LockTasks, TypeOK, Places, Locks, Waking, GiverHolds, SelfHolds
  <2>4. TasksInOrder'
    <3>1. CASE workerTasks = <<>>
      BY <1>6, <3>1 DEF LockTasks, TypeOK, Places, TasksInOrder, Taken
    <3>2. CASE workerTasks # <<>>
      <4>1. (done \o <<>>) \o workerTasks
              = (done \o <<Head(workerTasks)>>) \o Tail(workerTasks)
        BY <3>2, TakeFirst DEF TypeOK
      <4>2. Taken = <<>> /\ Taken' = <<Head(workerTasks)>>
        BY <1>6, <3>2 DEF LockTasks, TypeOK, Taken
      <4> QED  BY <1>6, <3>2, <4>1, <4>2 DEF LockTasks, TasksInOrder
    <3> QED  BY <3>1, <3>2
  <2> QED  BY <2>1, <2>2, <2>3, <2>4
<1>7. ASSUME IdleLoop PROVE IInv'
  <2>1. TypeOK'
    BY <1>7 DEF IdleLoop, TypeOK, Places, Taking
  <2>2. Places' /\ Locks' /\ Taking'
    BY <1>7 DEF IdleLoop, TypeOK, Places, Locks, Taking, GiverHolds, SelfHolds
  <2>3. Waking'
    BY <1>7 DEF IdleLoop, TypeOK, Places, Locks, Waking, GiverHolds, SelfHolds
  <2>4. TasksInOrder'
    BY <1>7 DEF IdleLoop, TypeOK, Places, Locks, TasksInOrder, Taken
  <2> QED  BY <2>1, <2>2, <2>3, <2>4
<1>8. ASSUME LockWaiting PROVE IInv'
  <2>1. TypeOK'
    BY <1>8 DEF LockWaiting, TypeOK, Places, Taking
  <2>2. Places' /\ Locks' /\ Taking'
    BY <1>8 DEF LockWaiting, TypeOK, Places, Locks, Taking, GiverHolds, SelfHolds
  <2>3. Waking'
    BY <1>8 DEF LockWaiting, TypeOK, Places, Locks, Waking, GiverHolds, SelfHolds
  <2>4. TasksInOrder'
    BY <1>8 DEF LockWaiting, TypeOK, Places, Locks, TasksInOrder, Taken
  <2> QED  BY <2>1, <2>2, <2>3, <2>4
<1>9. ASSUME UnlockTasks PROVE IInv'
  <2>1. TypeOK'
    BY <1>9 DEF UnlockTasks, TypeOK, Places, Taking
  <2>2. Places' /\ Locks' /\ Taking'
    BY <1>9 DEF UnlockTasks, TypeOK, Places, Locks, Taking, GiverHolds, SelfHolds
  <2>3. Waking'
    BY <1>9 DEF UnlockTasks, TypeOK, Places, Locks, Waking, GiverHolds, SelfHolds
  <2>4. TasksInOrder'
    BY <1>9 DEF UnlockTasks, TypeOK, Places, Locks, TasksInOrder, Taken
  <2> QED  BY <2>1, <2>2, <2>3, <2>4
<1>10. ASSUME Sleep PROVE IInv'
  <2>1. TypeOK'
    BY <1>10 DEF Sleep, TypeOK, Places, Taking
  <2>2. Places' /\ Locks' /\ Taking'
    BY <1>10 DEF Sleep, TypeOK, Places, Locks, Taking, GiverHolds, SelfHolds
  <2>3. Waking'
    BY <1>10 DEF Sleep, TypeOK, Places, Locks, Waking, GiverHolds, SelfHolds
  <2>4. TasksInOrder'
    BY <1>10 DEF Sleep, TypeOK, Places, Locks, TasksInOrder, Taken
  <2> QED  BY <2>1, <2>2, <2>3, <2>4
<1>11. ASSUME SpuriousWakeup PROVE IInv'
  <2>1. TypeOK'
    BY <1>11 DEF SpuriousWakeup, TypeOK, Places, Taking
  <2>2. Places' /\ Locks' /\ Taking'
    BY <1>11 DEF SpuriousWakeup, TypeOK, Places, Locks, Taking, GiverHolds, SelfHolds
  <2>3. Waking'
    BY <1>11 DEF SpuriousWakeup, TypeOK, Places, Locks, Waking, GiverHolds, SelfHolds
  <2>4. TasksInOrder'
    BY <1>11 DEF SpuriousWakeup, TypeOK, Places, Locks, TasksInOrder, Taken
  <2> QED  BY <2>1, <2>2, <2>3, <2>4
<1>12. ASSUME Wake PROVE IInv'
  <2>1. TypeOK'
    BY <1>12 DEF Wake, TypeOK, Places, Taking
  <2>2. Places' /\ Locks' /\ Taking'
    BY <1>12 DEF Wake, TypeOK, Places, Locks, Taking, GiverHolds, SelfHolds
  <2>3. Waking'
    BY <1>12 DEF Wake, TypeOK, Places, Locks, Waking, GiverHolds, SelfHolds
  <2>4. TasksInOrder'
    BY <1>12 DEF Wake, TypeOK, Places, Locks, TasksInOrder, Taken
  <2> QED  BY <2>1, <2>2, <2>3, <2>4
<1>13. ASSUME UnlockAndRun PROVE IInv'
  <2>1. TypeOK'
    BY <1>13 DEF UnlockAndRun, TypeOK, Places, Taking
  <2>2. Places' /\ Locks' /\ Taking'
    BY <1>13 DEF UnlockAndRun, TypeOK, Places, Locks, Taking, GiverHolds, SelfHolds
  <2>3. Waking'
    BY <1>13 DEF UnlockAndRun, TypeOK, Places, Locks, Waking, GiverHolds, SelfHolds
  <2>4. TasksInOrder'
    BY <1>13 DEF UnlockAndRun, TypeOK, Places, Locks, TasksInOrder, Taken
  <2> QED  BY <2>1, <2>2, <2>3, <2>4
<1>14. ASSUME RunTask PROVE IInv'
  <2>1. TypeOK'
    BY <1>14 DEF RunTask, TypeOK, Places, Taking
  <2>2. Places' /\ Locks' /\ Taking'
    BY <1>14 DEF RunTask, TypeOK, Places, Locks, Taking, GiverHolds, SelfHolds
  <2>3. Waking'
    BY <1>14 DEF RunTask, TypeOK, Places, Locks, Waking, GiverHolds, SelfHolds
  <2>4. TasksInOrder'
    BY <1>14 DEF RunTask, TypeOK, Places, Locks, TasksInOrder, Taken
  <2> QED  BY <2>1, <2>2, <2>3, <2>4
<1>15. ASSUME AskForNext PROVE IInv'
  <2>1. TypeOK'
    BY <1>15 DEF AskForNext, TypeOK, Places, Taking
  <2>2. Places' /\ Locks' /\ Taking'
    BY <1>15 DEF AskForNext, TypeOK, Places, Locks, Taking, GiverHolds, SelfHolds
  <2>3. Waking'
    BY <1>15 DEF AskForNext, TypeOK, Places, Locks, Waking, GiverHolds, SelfHolds
  <2>4. TasksInOrder'
    BY <1>15 DEF AskForNext, TypeOK, Places, Locks, TasksInOrder, Taken
  <2> QED  BY <2>1, <2>2, <2>3, <2>4
<1>16. ASSUME Uncount PROVE IInv'
  <2>1. TypeOK'
    BY <1>16 DEF Uncount, TypeOK, Places, Taking
  <2>2. Places' /\ Locks' /\ Taking'
    BY <1>16 DEF Uncount, TypeOK, Places, Locks, Taking, GiverHolds, SelfHolds
  <2>3. Waking'
    BY <1>16 DEF Uncount, TypeOK, Places, Locks, Waking, GiverHolds, SelfHolds
  <2>4. TasksInOrder'
    BY <1>16 DEF Uncount, TypeOK, Places, Locks, TasksInOrder, Taken
  <2> QED  BY <2>1, <2>2, <2>3, <2>4
<1>17. ASSUME Poison PROVE IInv'
  <2>1. TypeOK'
    BY <1>17 DEF Poison, TypeOK, Places, Taking
  <2>2. Places' /\ Locks' /\ Taking'
    BY <1>17 DEF Poison, TypeOK, Places, Locks, Taking, GiverHolds, SelfHolds
  <2>3. Waking'
    BY <1>17 DEF Poison, TypeOK, Places, Locks, Waking, GiverHolds, SelfHolds
  <2>4. TasksInOrder'
    BY <1>17 DEF Poison, TypeOK, Places, Locks, TasksInOrder, Taken
  <2> QED  BY <2>1, <2>2, <2>3, <2>4
<1>18. ASSUME PoisonNotify PROVE IInv'
  <2>1. TypeOK'
    BY <1>18 DEF PoisonNotify, TypeOK, Places, Taking
  <2>2. Places' /\ Locks' /\ Taking'
    BY <1>18 DEF PoisonNotify, TypeOK, Places, Locks, Taking, GiverHolds, SelfHolds
  <2>3. Waking'
    BY <1>18 DEF PoisonNotify, TypeOK, Places, Locks, Waking, GiverHolds, SelfHolds
  <2>4. TasksInOrder'
    BY <1>18 DEF PoisonNotify, TypeOK, Places, Locks, TasksInOrder, Taken
  <2> QED  BY <2>1, <2>2, <2>3, <2>4
<1>19. ASSUME Join PROVE IInv'
  <2>1. TypeOK'
    BY <1>19 DEF Join, TypeOK, Places, Taking
  <2>2. Places' /\ Locks' /\ Taking'
    BY <1>19 DEF Join, TypeOK, Places, Locks, Taking, GiverHolds, SelfHolds
  <2>3. Waking'
    BY <1>19 DEF Join, TypeOK, Places, Locks, Waking, GiverHolds, SelfHolds
  <2>4. TasksInOrder'
    BY <1>19 DEF Join, TypeOK, Places, Locks, TasksInOrder, Taken
  <2> QED  BY <2>1, <2>2, <2>3, <2>4
<1>20. CASE UNCHANGED vars
  BY <1>20 DEF vars, locals, TypeOK, Places, Locks, Taking, Waking, TasksInOrder, Taken,
     GiverHolds, SelfHolds
<1> QED
  BY <1>1, <1>2, <1>3, <1>4, <1>5, <1>6, <1>7, <1>8, <1>9, <1>10, <1>11, <1>12, <1>13, <1>14, <1>15, <1>16, <1>17, <1>18, <1>19, <1>20 DEF Next, Give, Run, Destroy

LEMMA AlwaysIInv == Spec => []IInv
BY InitIInv, NextIInv, PTL DEF Spec

-----------------------------------------------------------------------------
(* Theorems *)

\* Type correctness.
THEOREM TypeCorrect == Spec => []TypeOK
<1>1. IInv => TypeOK
  BY DEF IInv
<1> QED  BY <1>1, AlwaysIInv, PTL

\* Tasks run in the order in which addTask got them, and none is lost or run
\* twice, for any number of givers.
THEOREM OrderKept == Spec => []TasksInOrder
<1>1. IInv => TasksInOrder
  BY DEF IInv
<1> QED  BY <1>1, AlwaysIInv, PTL

\* A worker that is about to sleep, or sleeps, with a task in its list is being
\* woken: tasksLock is released only after waitingLock has been taken.
THEOREM NoWakeupLost == Spec => []NoLostWakeup
<1>1. IInv => NoLostWakeup
  BY DEF IInv, Waking, NoLostWakeup
<1> QED  BY <1>1, AlwaysIInv, PTL

-----------------------------------------------------------------------------
(* The usage counter *)

\* Givers whose task is in the list and not counted yet.
Counting == {g \in Givers : pc[g] \in {"notify", "unlock", "count"}}

RunsOne == IF pc[Self] \in {"found", "run", "ask", "uncount"} THEN 1 ELSE 0

Usage == instantUsage = Len(workerTasks) + RunsOne - Cardinality(Counting)

LEMMA CountingFinite == IsFiniteSet(Counting) /\ Cardinality(Counting) \in Nat
<1>1. IsFiniteSet(Counting)
  BY FS_Subset, WorkerAssumption DEF Counting
<1> QED  BY <1>1, FS_CardinalityType

LEMMA InitUsage == Init => Usage
<1> SUFFICES ASSUME Init PROVE Usage
  OBVIOUS
<1>1. Counting = {}
  BY WorkerAssumption DEF Init, Counting
<1>2. Cardinality(Counting) = 0 /\ Len(workerTasks) = 0
  BY <1>1, FS_EmptySet, EmptySeq DEF Init
<1> QED  BY <1>2 DEF Init, Usage, RunsOne

LEMMA NextUsage == IInv /\ Usage /\ [Next]_vars => Usage'
<1> SUFFICES ASSUME IInv, Usage, [Next]_vars PROVE Usage'
  OBVIOUS
<1> USE WorkerAssumption, CountingFinite DEF IInv, Goto, locals
<1>1. ASSUME NEW g \in Givers, NEW k \in Tasks, AddTask(g, k) PROVE Usage'
  <2>1. Counting' = Counting \cup {g} /\ g \notin Counting
    BY <1>1 DEF AddTask, TypeOK, Counting
  <2>2. Cardinality(Counting') = Cardinality(Counting) + 1
    BY <2>1, FS_AddElement
  <2>3. Len(workerTasks') = Len(workerTasks) + 1 /\ Len(workerTasks) \in Nat
    BY <1>1, AppendProperties, LenProperties DEF AddTask, TypeOK
  <2> QED  BY <1>1, <2>2, <2>3, SMTT(20) DEF AddTask, TypeOK, Usage, RunsOne
<1>2. ASSUME NEW g \in Givers, AddNotify(g) PROVE Usage'
  <2>1. Counting' = Counting
    BY <1>2 DEF AddNotify, TypeOK, Counting
  <2> QED  BY <1>2, <2>1, LenProperties DEF AddNotify, TypeOK, Usage, RunsOne
<1>3. ASSUME NEW g \in Givers, AddUnlock(g) PROVE Usage'
  <2>1. Counting' = Counting
    BY <1>3 DEF AddUnlock, TypeOK, Counting
  <2> QED  BY <1>3, <2>1, LenProperties DEF AddUnlock, TypeOK, Usage, RunsOne
<1>4. ASSUME NEW g \in Givers, AddCount(g) PROVE Usage'
  <2>1. Counting' = Counting \ {g} /\ g \in Counting
    BY <1>4 DEF AddCount, TypeOK, Counting
  <2>2. Cardinality(Counting') = Cardinality(Counting) - 1
    BY <2>1, FS_RemoveElement
  <2> QED  BY <1>4, <2>2, LenProperties, SMTT(20) DEF AddCount, TypeOK, Usage, RunsOne
<1>5. ASSUME Check PROVE Usage'
  <2>1. Counting' = Counting
    BY <1>5 DEF Check, TypeOK, Counting
  <2> QED  BY <1>5, <2>1, LenProperties DEF Check, TypeOK, Usage, RunsOne
<1>6. ASSUME LockTasks PROVE Usage'
  <2>1. Counting' = Counting
    BY <1>6 DEF LockTasks, TypeOK, Counting
  <2>2. workerTasks # <<>> => Len(workerTasks') = Len(workerTasks) - 1 /\ Len(workerTasks) \in Nat
    BY <1>6, HeadTailProperties, LenProperties DEF LockTasks, TypeOK
  <2> QED  BY <1>6, <2>1, <2>2 DEF LockTasks, TypeOK, Usage, RunsOne
<1>7. ASSUME IdleLoop PROVE Usage'
  <2>1. Counting' = Counting
    BY <1>7 DEF IdleLoop, TypeOK, Counting
  <2> QED  BY <1>7, <2>1, LenProperties DEF IdleLoop, TypeOK, Usage, RunsOne
<1>8. ASSUME LockWaiting PROVE Usage'
  <2>1. Counting' = Counting
    BY <1>8 DEF LockWaiting, TypeOK, Counting
  <2> QED  BY <1>8, <2>1, LenProperties DEF LockWaiting, TypeOK, Usage, RunsOne
<1>9. ASSUME UnlockTasks PROVE Usage'
  <2>1. Counting' = Counting
    BY <1>9 DEF UnlockTasks, TypeOK, Counting
  <2> QED  BY <1>9, <2>1, LenProperties DEF UnlockTasks, TypeOK, Usage, RunsOne
<1>10. ASSUME Sleep PROVE Usage'
  <2>1. Counting' = Counting
    BY <1>10 DEF Sleep, TypeOK, Counting
  <2> QED  BY <1>10, <2>1, LenProperties DEF Sleep, TypeOK, Usage, RunsOne
<1>11. ASSUME SpuriousWakeup PROVE Usage'
  <2>1. Counting' = Counting
    BY <1>11 DEF SpuriousWakeup, TypeOK, Counting
  <2> QED  BY <1>11, <2>1, LenProperties DEF SpuriousWakeup, TypeOK, Usage, RunsOne
<1>12. ASSUME Wake PROVE Usage'
  <2>1. Counting' = Counting
    BY <1>12 DEF Wake, TypeOK, Counting
  <2> QED  BY <1>12, <2>1, LenProperties DEF Wake, TypeOK, Usage, RunsOne
<1>13. ASSUME UnlockAndRun PROVE Usage'
  <2>1. Counting' = Counting
    BY <1>13 DEF UnlockAndRun, TypeOK, Counting
  <2> QED  BY <1>13, <2>1, LenProperties DEF UnlockAndRun, TypeOK, Usage, RunsOne
<1>14. ASSUME RunTask PROVE Usage'
  <2>1. Counting' = Counting
    BY <1>14 DEF RunTask, TypeOK, Counting
  <2> QED  BY <1>14, <2>1, LenProperties DEF RunTask, TypeOK, Usage, RunsOne
<1>15. ASSUME AskForNext PROVE Usage'
  <2>1. Counting' = Counting
    BY <1>15 DEF AskForNext, TypeOK, Counting
  <2> QED  BY <1>15, <2>1, LenProperties DEF AskForNext, TypeOK, Usage, RunsOne
<1>16. ASSUME Uncount PROVE Usage'
  <2>1. Counting' = Counting
    BY <1>16 DEF Uncount, TypeOK, Counting
  <2> QED  BY <1>16, <2>1, LenProperties DEF Uncount, TypeOK, Usage, RunsOne
<1>17. ASSUME Poison PROVE Usage'
  <2>1. Counting' = Counting
    BY <1>17 DEF Poison, TypeOK, Counting
  <2> QED  BY <1>17, <2>1, LenProperties DEF Poison, TypeOK, Usage, RunsOne
<1>18. ASSUME PoisonNotify PROVE Usage'
  <2>1. Counting' = Counting
    BY <1>18 DEF PoisonNotify, TypeOK, Counting
  <2> QED  BY <1>18, <2>1, LenProperties DEF PoisonNotify, TypeOK, Usage, RunsOne
<1>19. ASSUME Join PROVE Usage'
  <2>1. Counting' = Counting
    BY <1>19 DEF Join, TypeOK, Counting
  <2> QED  BY <1>19, <2>1, LenProperties DEF Join, TypeOK, Usage, RunsOne
<1>20. CASE UNCHANGED vars
  BY <1>20 DEF vars, Usage, RunsOne, Counting
<1> QED
  BY <1>1, <1>2, <1>3, <1>4, <1>5, <1>6, <1>7, <1>8, <1>9, <1>10, <1>11, <1>12, <1>13, <1>14, <1>15, <1>16, <1>17, <1>18, <1>19, <1>20 DEF Next, Give, Run, Destroy

\* instantUsage settles on the number of tasks the worker has: what addTask
\* adds and run takes away always balances, in whatever order they come.
THEOREM UsageBalances == Spec => []UsageSettles
<1>1. IInv /\ Usage => UsageSettles
  <2> SUFFICES ASSUME IInv, Usage, \A g \in Givers : pc[g] \notin {"notify", "unlock", "count"}
               PROVE  instantUsage = Len(workerTasks) + RunsOne
    BY DEF UsageSettles, RunsOne
  <2>1. Counting = {}
    BY DEF Counting
  <2>2. Cardinality(Counting) = 0
    BY <2>1, FS_EmptySet
  <2>3. Len(workerTasks) \in Nat
    BY LenProperties DEF IInv, TypeOK
  <2> QED  BY <2>2, <2>3 DEF Usage, RunsOne
<1>2. Spec => []Usage
  BY InitUsage, NextUsage, AlwaysIInv, PTL DEF Spec
<1> QED  BY <1>1, <1>2, AlwaysIInv, PTL
=============================================================================
