--------------------------- MODULE DispatcherQueue ---------------------------
(***************************************************************************)
(* The dispatcher with the TasksList it keeps its queue in.  Dispatcher's  *)
(* queue is the sequence of tasks its loop meets; here each step that uses *)
(* the queue does to the lists what the code does, and the two must agree. *)
(***************************************************************************)
EXTENDS Dispatcher, TasksList

queueVars == <<vars, listVars>>

QueueInit == Init /\ ListInit

\* insertTaskInfo puts a task it has given to no worker into the list.
QueueInsert(c, k) ==
    /\ InsertTask(c, k)
    /\ IF hand'[c] = None THEN insert(k, PriorityOf[k]) ELSE UNCHANGED listVars

\* schedule(): its iterator from begin() to end(), and what it takes out.
QueueBegin(t) == ScheduleBegin(t) /\ begin
QueueSkip(t) == LoopSkip(t) /\ increment
QueueTake(t) == \/ LoopBound(t) /\ erase(mainLock' = t)
                \/ LoopRun(t) /\ erase(FALSE)

\* The steps that do not touch the queue.
Elsewhere ==
    \/ \E t \in Threads : HandOver(t) \/ ScheduleNothing(t) \/ LoopEnd(t)
    \/ \E c \in Clients : ContinueSetting(c) \/ CallSetting(c)
    \/ \E w \in Workers : Work(w)

QueueNext ==
    \/ \E c \in Clients, k \in Tasks : QueueInsert(c, k)
    \/ \E t \in Threads : QueueBegin(t) \/ QueueSkip(t) \/ QueueTake(t)
    \/ Elsewhere /\ UNCHANGED listVars

QueueSpec == QueueInit /\ [][QueueNext]_queueVars

\* How many tasks of the queue have a priority ahead of p.
Before(p) == Cardinality({i \in DOMAIN tasksQueue : PriorityOf[tasksQueue[i]] < p})

\* The lists, one after the other, are the queue: each has the tasks of its
\* priority, in the order the queue has them.  The iterator is at the element
\* schedule()'s loop is at, or at the end with it, wherever lists have become
\* empty and been filled again, and empty() is true of both.
ListsAreTheQueue ==
    /\ \A i \in DOMAIN tasksQueue : PriorityOf[tasksQueue[i]] \in DOMAIN m_lists
    /\ \A p \in DOMAIN m_lists :
         /\ m_lists[p] = SubSeq(tasksQueue, Before(p) + 1, Before(p + 1))
         /\ \A i \in DOMAIN m_lists[p] : PriorityOf[m_lists[p][i]] = p
    /\ empty <=> tasksQueue = <<>>
    /\ \A t \in Threads : InLoop(t) =>
         IF it > Len(tasksQueue) THEN mapIt = End
         ELSE /\ mapIt \in DOMAIN m_lists
              /\ it = Before(mapIt) + listIt
              /\ listIt \in DOMAIN m_lists[mapIt]
=============================================================================
