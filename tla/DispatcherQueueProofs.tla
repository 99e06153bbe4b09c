----------------------- MODULE DispatcherQueueProofs ------------------------
(***************************************************************************)
(* Proofs about the dispatcher with its TasksList: the iterator of the     *)
(* lists is at end() or at an element, whichever have been emptied; the    *)
(* dispatcher is a Dispatcher, its lists are the queue Dispatcher has, and *)
(* the iterator of schedule() is where the loop is.                        *)
(***************************************************************************)
EXTENDS DispatcherQueue, DispatcherCountProofs, WellFoundedInduction

-----------------------------------------------------------------------------
(* The inductive invariant, for lists of elements of S *)

\* Priorities are numbers, so that end() is none of them.
ListTypeOK(S) ==
    /\ DOMAIN m_lists \subseteq Nat
    /\ \A p \in DOMAIN m_lists : m_lists[p] \in Seq(S)
    /\ listIt \in Nat

\* An iterator that is not end() is at an element, in a list that is not empty.
IteratorValid == mapIt # End => mapIt \in DOMAIN m_lists /\ listIt \in 1..Len(m_lists[mapIt])

ListInv(S) == ListTypeOK(S) /\ IteratorValid

LEMMA Minimal ==
  ASSUME NEW R, IsWellFoundedOn(R, Nat), NEW K, K \subseteq Nat, K # {}
  PROVE  \E p \in K : \A q \in K : ~(<<q, p>> \in R)
BY WFMin, Zenon

LEMMA Least ==
  ASSUME NEW K, K \subseteq Nat, K # {}
  PROVE  \E p \in K : \A q \in K : p <= q
<1> DEFINE R == {xy \in Nat \X Nat : xy[1] < xy[2]}
<1>1. IsWellFoundedOn(R, Nat)
  BY NatLessThanWellFounded DEF OpToRel
<1>2. \A x, y \in Nat : <<y, x>> \in R <=> y < x
  OBVIOUS
<1> HIDE DEF R
<1>3. \E p \in K : \A q \in K : ~(<<q, p>> \in R)
  BY <1>1, Minimal
<1>4. PICK p \in K : \A q \in K : ~(<<q, p>> \in R)
  BY <1>3
<1>5. ASSUME NEW q \in K PROVE p <= q
  <2>1. p \in Nat /\ q \in Nat
    OBVIOUS
  <2>2. ~(q < p)
    BY <1>2, <1>4, <2>1, Zenon
  <2> QED  BY <2>1, <2>2
<1> QED  BY <1>5

\* FirstKey finds a list with something in it if there is one.
LEMMA FirstKeyFilled ==
  ASSUME NEW keys, NEW lists, keys \subseteq Nat, FirstKey(keys, lists) # End
  PROVE  FirstKey(keys, lists) \in keys /\ lists[FirstKey(keys, lists)] # <<>>
<1> DEFINE filled == {p \in keys : lists[p] # <<>>}
<1>1. filled # {} /\ filled \subseteq Nat
  BY DEF FirstKey
<1>2. \E p \in filled : \A q \in filled : p <= q
  BY <1>1, Least
<1>3. FirstKey(keys, lists) = CHOOSE p \in filled : \A q \in filled : p <= q
  BY <1>1 DEF FirstKey
<1>4. FirstKey(keys, lists) \in filled
  BY <1>2, <1>3
<1> QED  BY <1>4

LEMMA HasAFirst ==
  ASSUME NEW S, NEW s \in Seq(S), s # <<>>
  PROVE  1 \in 1..Len(s)
BY EmptySeq, LenProperties

\* Wherever an iterator is moved from, it comes to an element or to end().
LEMMA MoveToValid ==
  ASSUME NEW S, NEW lists, DOMAIN lists \subseteq Nat,
         \A r \in DOMAIN lists : lists[r] \in Seq(S),
         NEW p \in DOMAIN lists, NEW i \in Nat \ {0}, MoveTo(lists, p, i)
  PROVE  /\ mapIt' # End => mapIt' \in DOMAIN lists /\ listIt' \in 1..Len(lists[mapIt'])
         /\ listIt' \in Nat
<1>1. CASE i <= Len(lists[p])
  <2>1. Len(lists[p]) \in Nat
    BY LenProperties
  <2> QED  BY <1>1, <2>1 DEF MoveTo
<1>2. CASE ~(i <= Len(lists[p]))
  <2> DEFINE keys == {r \in DOMAIN lists : r > p}
             q == FirstKey(keys, lists)
  <2>1. mapIt' = q /\ listIt' = IF q = End THEN 0 ELSE 1
    BY <1>2 DEF MoveTo
  <2>2. keys \subseteq Nat /\ keys \subseteq DOMAIN lists
    OBVIOUS
  <2> HIDE DEF keys
  <2>3. ASSUME q # End PROVE q \in DOMAIN lists /\ 1 \in 1..Len(lists[q])
    <3>1. q \in keys /\ lists[q] # <<>>
      BY <2>2, <2>3, FirstKeyFilled
    <3>2. q \in DOMAIN lists /\ lists[q] \in Seq(S)
      BY <2>2, <3>1
    <3> HIDE DEF q
    <3> QED  BY <3>1, <3>2, HasAFirst
  <2> HIDE DEF q
  <2> QED  BY <2>1, <2>3
<1> QED  BY <1>1, <1>2

-----------------------------------------------------------------------------
(* What each operation leaves of it *)

LEMMA InitListInv == ASSUME NEW S, ListInit PROVE ListInv(S)
BY DEF ListInit, ListInv, ListTypeOK, IteratorValid, End

LEMMA InsertListInv ==
  ASSUME NEW S, ListInv(S), NEW k \in S, NEW priority \in Nat, insert(k, priority)
  PROVE  ListInv(S)'
<1> USE DEF ListInv, ListTypeOK
<1>1. DOMAIN m_lists' = DOMAIN m_lists \cup {priority}
  BY DEF insert
<1>2. ASSUME NEW p \in DOMAIN m_lists PROVE
        /\ m_lists'[p] \in Seq(S) /\ Len(m_lists'[p]) \in Nat /\ Len(m_lists[p]) \in Nat
        /\ Len(m_lists[p]) <= Len(m_lists'[p])
  <2>1. m_lists'[p] = m_lists[p] \o (IF p = priority THEN <<k>> ELSE <<>>)
    BY DEF insert
  <2>2. (IF p = priority THEN <<k>> ELSE <<>>) \in Seq(S)
    BY EmptySeq
  <2>3. m_lists[p] \in Seq(S)
    OBVIOUS
  <2> QED  BY <2>1, <2>2, <2>3, ConcatProperties, LenProperties
<1>3. priority \notin DOMAIN m_lists => m_lists'[priority] \in Seq(S)
  <2>1. priority \notin DOMAIN m_lists => m_lists'[priority] = <<>> \o <<k>>
    BY DEF insert
  <2>2. <<>> \in Seq(S) /\ <<k>> \in Seq(S)
    BY EmptySeq
  <2>3. <<>> \o <<k>> \in Seq(S)
    BY <2>2, ConcatProperties
  <2> QED  BY <2>1, <2>3
<1>4. mapIt' = mapIt /\ listIt' = listIt
  BY DEF insert
<1>5. ListTypeOK(S)'
  BY <1>1, <1>2, <1>3, <1>4
<1>6. IteratorValid'
  BY <1>1, <1>2, <1>4 DEF IteratorValid
<1> QED  BY <1>5, <1>6

LEMMA BeginListInv == ASSUME NEW S, ListInv(S), begin PROVE ListInv(S)'
<1> DEFINE p == FirstKey(DOMAIN m_lists, m_lists)
<1>1. mapIt' = p /\ listIt' = (IF p = End THEN 0 ELSE 1) /\ m_lists' = m_lists
  BY DEF begin
<1>2. ASSUME p # End PROVE p \in DOMAIN m_lists /\ 1 \in 1..Len(m_lists[p])
  <2>1. p \in DOMAIN m_lists /\ m_lists[p] # <<>>
    BY <1>2, FirstKeyFilled DEF ListInv, ListTypeOK
  <2> HIDE DEF p
  <2> QED  BY <2>1, HasAFirst DEF ListInv, ListTypeOK
<1> HIDE DEF p
<1> QED  BY <1>1, <1>2 DEF ListInv, ListTypeOK, IteratorValid

LEMMA IncrementListInv == ASSUME NEW S, ListInv(S), increment PROVE ListInv(S)'
<1>1. mapIt \in DOMAIN m_lists /\ listIt + 1 \in Nat \ {0}
  BY DEF increment, ListInv, ListTypeOK, IteratorValid
<1>2. MoveTo(m_lists, mapIt, listIt + 1) /\ m_lists' = m_lists
  BY DEF increment
<1>3. /\ mapIt' # End => mapIt' \in DOMAIN m_lists /\ listIt' \in 1..Len(m_lists[mapIt'])
      /\ listIt' \in Nat
  BY <1>1, <1>2, MoveToValid DEF ListInv, ListTypeOK
<1> QED  BY <1>2, <1>3 DEF ListInv, ListTypeOK, IteratorValid

\* What is left when one element is taken out.
LEMMA RemoveAtType ==
  ASSUME NEW S, NEW s \in Seq(S), NEW i \in 1..Len(s)
  PROVE  RemoveAt(s, i) \in Seq(S)
<1>1. Len(s) \in Nat /\ \A j \in 1..Len(s) : s[j] \in S
  BY LenProperties, ElementOfSeq
<1>2. SubSeq(s, 1, i - 1) \in Seq(S)
  BY <1>1, SubSeqProperties
<1>3. SubSeq(s, i + 1, Len(s)) \in Seq(S)
  BY <1>1, SubSeqProperties
<1> QED  BY <1>2, <1>3, ConcatProperties DEF RemoveAt

LEMMA EraseListInv ==
  ASSUME NEW S, ListInv(S), NEW goesOn \in BOOLEAN, erase(goesOn)
  PROVE  ListInv(S)'
<1> USE DEF ListInv, ListTypeOK
<1>1. mapIt \in DOMAIN m_lists /\ listIt \in 1..Len(m_lists[mapIt])
  BY DEF erase, IteratorValid
<1>2. DOMAIN Without = DOMAIN m_lists /\ \A r \in DOMAIN Without : Without[r] \in Seq(S)
  <2>1. RemoveAt(m_lists[mapIt], listIt) \in Seq(S)
    BY <1>1, RemoveAtType
  <2> QED  BY <1>1, <2>1 DEF Without
<1>3. m_lists' = Without
  BY DEF erase
<1>4. CASE goesOn
  <2>1. MoveTo(Without, mapIt, listIt) /\ listIt \in Nat \ {0}
    BY <1>1, <1>4 DEF erase
  <2>2. /\ mapIt' # End => mapIt' \in DOMAIN Without /\ listIt' \in 1..Len(Without[mapIt'])
        /\ listIt' \in Nat
    BY <1>1, <1>2, <2>1, MoveToValid
  <2> QED  BY <1>2, <1>3, <2>2 DEF IteratorValid
<1>5. CASE ~goesOn
  <2>1. mapIt' = End /\ listIt' = 0
    BY <1>5 DEF erase
  <2> QED  BY <1>2, <1>3, <2>1 DEF IteratorValid
<1> QED  BY <1>4, <1>5

-----------------------------------------------------------------------------
(* The list on its own *)

\* Any legal sequence of calls: elements of S with any priorities go in, an
\* iterator walks and takes out.
ListNext(S) ==
    \/ \E k \in S, priority \in Nat : insert(k, priority)
    \/ begin \/ increment \/ \E goesOn \in BOOLEAN : erase(goesOn)

\* Whatever is inserted, wherever it is, and whatever is erased at it, the
\* iterator of a TasksList is end() or at an element: operator++, erase() and
\* begin() pass every list that has become empty.
THEOREM IteratorStaysValid ==
  ASSUME NEW S
  PROVE  ListInit /\ [][ListNext(S)]_listVars => []IteratorValid
<1>1. ListInit => ListInv(S)
  BY InitListInv
<1>2. ListInv(S) /\ [ListNext(S)]_listVars => ListInv(S)'
  <2> SUFFICES ASSUME ListInv(S), [ListNext(S)]_listVars PROVE ListInv(S)'
    OBVIOUS
  <2>1. ASSUME NEW k \in S, NEW priority \in Nat, insert(k, priority) PROVE ListInv(S)'
    BY <2>1, InsertListInv
  <2>2. CASE begin
    BY <2>2, BeginListInv
  <2>3. CASE increment
    BY <2>3, IncrementListInv
  <2>4. ASSUME NEW goesOn \in BOOLEAN, erase(goesOn) PROVE ListInv(S)'
    BY <2>4, EraseListInv
  <2>5. CASE UNCHANGED listVars
    BY <2>5 DEF listVars, ListInv, ListTypeOK, IteratorValid
  <2> QED  BY <2>1, <2>2, <2>3, <2>4, <2>5 DEF ListNext
<1>3. ListInv(S) => IteratorValid
  BY DEF ListInv
<1> QED  BY <1>1, <1>2, <1>3, PTL

-----------------------------------------------------------------------------
(* The dispatcher with its lists is a Dispatcher. *)

LEMMA StepOfDispatcher == QueueNext => Next
<1> SUFFICES ASSUME QueueNext PROVE Next
  OBVIOUS
<1>1. ASSUME NEW c \in Clients, NEW k \in Tasks, QueueInsert(c, k) PROVE Next
  BY <1>1 DEF QueueInsert, Next
<1>2. ASSUME NEW t \in Threads, QueueBegin(t) \/ QueueSkip(t) \/ QueueTake(t) PROVE Next
  BY <1>2 DEF QueueBegin, QueueSkip, QueueTake, Continue, Next
<1>3. CASE Elsewhere
  BY <1>3 DEF Elsewhere, Continue, Next
<1> QED  BY <1>1, <1>2, <1>3 DEF QueueNext

\* Whatever the lists do, the dispatcher does what Dispatcher allows.
THEOREM DispatcherImplemented == QueueSpec => Spec
<1>1. QueueInit => Init
  BY DEF QueueInit
<1>2. [QueueNext]_queueVars => [Next]_vars
  BY StepOfDispatcher DEF queueVars
<1> QED  BY <1>1, <1>2, PTL DEF QueueSpec, Spec

\* So bound tasks stay with their worker when the queue is the lists, too.
COROLLARY BoundTasksStayInLists == QueueSpec => []BoundTasksOnTheirWorker
BY DispatcherImplemented, BoundTasksStay, PTL

-----------------------------------------------------------------------------
(* The lists *)

LEMMA NextListInv == ListInv(Tasks) /\ [QueueNext]_queueVars => ListInv(Tasks)'
<1> SUFFICES ASSUME ListInv(Tasks), [QueueNext]_queueVars PROVE ListInv(Tasks)'
  OBVIOUS
<1>1. ASSUME UNCHANGED listVars PROVE ListInv(Tasks)'
  BY <1>1 DEF listVars, ListInv, ListTypeOK, IteratorValid
<1>2. ASSUME NEW c \in Clients, NEW k \in Tasks, QueueInsert(c, k) PROVE ListInv(Tasks)'
  <2>1. CASE hand'[c] = None
    <3>1. PriorityOf[k] \in Nat
      BY DispatcherAssumption
    <3>2. insert(k, PriorityOf[k])
      BY <1>2, <2>1 DEF QueueInsert
    <3> QED  BY <3>1, <3>2, InsertListInv
  <2>2. CASE hand'[c] # None
    BY <1>1, <1>2, <2>2 DEF QueueInsert
  <2> QED  BY <2>1, <2>2
<1>3. ASSUME NEW t \in Threads, QueueBegin(t) PROVE ListInv(Tasks)'
  BY <1>3, BeginListInv DEF QueueBegin
<1>4. ASSUME NEW t \in Threads, QueueSkip(t) PROVE ListInv(Tasks)'
  BY <1>4, IncrementListInv DEF QueueSkip
<1>5. ASSUME NEW t \in Threads, QueueTake(t) PROVE ListInv(Tasks)'
  <2>1. PICK goesOn \in BOOLEAN : erase(goesOn)
    BY <1>5 DEF QueueTake
  <2> QED  BY <2>1, EraseListInv
<1>6. CASE UNCHANGED queueVars
  BY <1>1, <1>6 DEF queueVars
<1> QED  BY <1>1, <1>2, <1>3, <1>4, <1>5, <1>6 DEF QueueNext

\* The iterator of schedule()'s loop is at a task or at the end, for any tasks
\* and priorities, however clients fill and workers empty the lists meanwhile.
THEOREM LoopIteratorValid == QueueSpec => []IteratorValid
<1>1. QueueInit => ListInv(Tasks)
  BY InitListInv DEF QueueInit
<1>2. ListInv(Tasks) => IteratorValid
  BY DEF ListInv
<1> QED  BY <1>1, <1>2, NextListInv, PTL DEF QueueSpec

-----------------------------------------------------------------------------
(* Where the lists are in the queue *)

\* A TasksList has a list of tasks for each priority it has seen.
Lists(lists) == DOMAIN lists \subseteq Nat /\ \A p \in DOMAIN lists : lists[p] \in Seq(Tasks)

\* List p is the part of the queue q behind off[p], which is where the tasks
\* with a priority ahead of p end, and so on with the next list.
Fits(q, lists, off) ==
    /\ q \in Seq(Tasks) /\ Lists(lists)
    /\ off \in [Nat -> Nat] /\ \A p \in Nat : off[p] <= Len(q)
    /\ \A p \in Nat, i \in 1 .. Len(q) : PriorityOf[q[i]] < p <=> i <= off[p]
    /\ \A i \in 1 .. Len(q) : PriorityOf[q[i]] \in DOMAIN lists
    /\ \A p \in DOMAIN lists :
         /\ Len(lists[p]) = off[p + 1] - off[p]
         /\ \A j \in 1 .. Len(lists[p]) : lists[p][j] = q[off[p] + j]

\* Position i of the queue is element j of list p, and past its end is end().
Stands(q, lists, off, i, p, j) ==
    IF i > Len(q) THEN p = End
    ELSE p \in DOMAIN lists /\ i = off[p] + j /\ j \in 1 .. Len(lists[p])

LEMMA Priorities == \A k \in Tasks : PriorityOf[k] \in Nat
BY DispatcherAssumption

LEMMA FitsAt ==
  ASSUME NEW q, NEW lists, NEW off, Fits(q, lists, off),
         NEW i \in 1 .. Len(q), NEW p \in Nat
  PROVE  /\ PriorityOf[q[i]] < p <=> i <= off[p]
         /\ PriorityOf[q[i]] \in Nat /\ PriorityOf[q[i]] \in DOMAIN lists
<1>1. q \in Seq(Tasks)
  BY DEF Fits
<1>2. PriorityOf[q[i]] \in Nat
  BY <1>1, ElementOfSeq, Priorities
<1> QED  BY <1>2 DEF Fits

LEMMA OffsetsType ==
  ASSUME NEW q, NEW lists, NEW off, Fits(q, lists, off), NEW p \in Nat
  PROVE  off[p] \in Nat /\ off[p] <= Len(q) /\ Len(q) \in Nat /\ DOMAIN q = 1 .. Len(q)
<1>1. off \in [Nat -> Nat] /\ q \in Seq(Tasks) /\ off[p] <= Len(q)
  BY DEF Fits
<1>2. Len(q) \in Nat /\ DOMAIN q = 1 .. Len(q)
  BY <1>1, LenProperties
<1> QED  BY <1>1, <1>2

LEMMA OffsetsGrow ==
  ASSUME NEW q, NEW lists, NEW off, Fits(q, lists, off),
         NEW p \in Nat, NEW r \in Nat, p <= r
  PROVE  off[p] <= off[r]
<1>1. off[p] \in Nat /\ off[r] \in Nat /\ off[p] <= Len(q) /\ Len(q) \in Nat
  BY OffsetsType
<1>2. ASSUME off[p] > off[r] PROVE FALSE
  <2>1. PICK i \in 1 .. Len(q) : i = off[p]
    BY <1>1, <1>2
  <2>2. i <= off[p] /\ ~(i <= off[r])
    BY <1>1, <1>2, <2>1
  <2>3. PriorityOf[q[i]] < p <=> i <= off[p]
    BY FitsAt
  <2>4. (PriorityOf[q[i]] < r <=> i <= off[r]) /\ PriorityOf[q[i]] \in Nat
    BY FitsAt
  <2> QED  BY <2>2, <2>3, <2>4
<1> QED  BY <1>1, <1>2

\* The offsets are numbers of tasks, so the queue alone decides them.
LEMMA OffsetsCount ==
  ASSUME NEW q, NEW lists, NEW off, Fits(q, lists, off), NEW p \in Nat
  PROVE  Cardinality({i \in DOMAIN q : PriorityOf[q[i]] < p}) = off[p]
<1>1. off[p] \in Nat /\ off[p] <= Len(q) /\ Len(q) \in Nat /\ DOMAIN q = 1 .. Len(q)
  BY OffsetsType
<1>2. \A i \in 1 .. Len(q) : PriorityOf[q[i]] < p <=> i <= off[p]
  BY FitsAt
<1>3. {i \in DOMAIN q : PriorityOf[q[i]] < p} = 1 .. off[p]
  BY <1>1, <1>2
<1>4. \A n \in Nat : Cardinality(1 .. n) = n
  <2>1. \A n \in Nat : Cardinality(1 .. n) = IF 1 > n THEN 0 ELSE n - 1 + 1
    BY FS_Interval
  <2> QED  BY <2>1
<1> QED  BY <1>1, <1>3, <1>4

\* A list that has something in it starts at a task of its priority.
LEMMA FilledList ==
  ASSUME NEW q, NEW lists, NEW off, Fits(q, lists, off),
         NEW p \in DOMAIN lists, lists[p] # <<>>
  PROVE  /\ off[p] + 1 \in 1 .. Len(q) /\ PriorityOf[q[off[p] + 1]] = p
         /\ 1 \in 1 .. Len(lists[p])
<1>1. p \in Nat /\ p + 1 \in Nat /\ 1 \in 1 .. Len(lists[p])
  <2>1. p \in Nat /\ lists[p] \in Seq(Tasks)
    BY DEF Lists, Fits
  <2> QED  BY <2>1, HasAFirst
<1>2. /\ off[p] \in Nat /\ off[p + 1] \in Nat /\ off[p + 1] <= Len(q)
      /\ Len(lists[p]) = off[p + 1] - off[p] /\ Len(q) \in Nat
  <2>1. off[p] \in Nat /\ off[p + 1] \in Nat /\ off[p + 1] <= Len(q) /\ Len(q) \in Nat
    BY <1>1, OffsetsType
  <2> QED  BY <2>1 DEF Fits
<1>3. PICK i \in 1 .. Len(q) : i = off[p] + 1
  BY <1>1, <1>2
<1>4. i <= off[p + 1] /\ ~(i <= off[p])
  BY <1>1, <1>2, <1>3
<1>5. PriorityOf[q[i]] < p + 1 /\ ~(PriorityOf[q[i]] < p)
  BY <1>1, <1>4, FitsAt
<1>6. PriorityOf[q[i]] \in Nat
  BY <1>1, FitsAt
<1> QED  BY <1>1, <1>3, <1>5, <1>6

\* The list of a queued task has something in it.
LEMMA ListOfQueued ==
  ASSUME NEW q, NEW lists, NEW off, Fits(q, lists, off),
         NEW i \in 1 .. Len(q), NEW r, r = PriorityOf[q[i]]
  PROVE  lists[r] # <<>>
<1>1. r \in Nat /\ r + 1 \in Nat /\ r \in DOMAIN lists
  <2>1. r \in Nat /\ r \in DOMAIN lists
    BY FitsAt
  <2> QED  BY <2>1
<1>2. off[r] \in Nat /\ off[r + 1] \in Nat
  BY <1>1, OffsetsType
<1>3. ~(i <= off[r])
  BY <1>1, FitsAt
<1>4. i <= off[r + 1]
  BY <1>1, FitsAt
<1>5. Len(lists[r]) = off[r + 1] - off[r]
  BY <1>1 DEF Fits
<1>6. Len(lists[r]) # 0
  BY <1>2, <1>3, <1>4, <1>5
<1> QED  BY <1>6, EmptySeq

\* The first list from priority b on that has something in it starts where
\* the tasks with a priority ahead of b end.
LEMMA NextList ==
  ASSUME NEW q, NEW lists, NEW off, Fits(q, lists, off),
         NEW b \in Nat, NEW keys, keys = {r \in DOMAIN lists : r >= b},
         NEW p, p = FirstKey(keys, lists)
  PROVE  Stands(q, lists, off, off[b] + 1, p, IF p = End THEN 0 ELSE 1)
<1>1. off[b] \in Nat /\ off[b] <= Len(q) /\ Len(q) \in Nat
  BY OffsetsType
<1>2. keys \subseteq Nat /\ keys \subseteq DOMAIN lists
  BY DEF Lists, Fits
<1>3. CASE p = End
  <2>1. {r \in keys : lists[r] # <<>>} = {}
    <3>1. ASSUME {r \in keys : lists[r] # <<>>} # {} PROVE FALSE
      <4> DEFINE K == {r \in keys : lists[r] # <<>>}
      <4>1. K \subseteq Nat /\ K # {}
        BY <1>2, <3>1
      <4>2. p = CHOOSE r \in K : \A u \in K : r <= u
        BY <3>1 DEF FirstKey
      <4>3. \E r \in K : \A u \in K : r <= u
        BY <4>1, Least
      <4>4. p \in K
        BY <4>2, <4>3
      <4> HIDE DEF K
      <4> QED  BY <1>3, <4>1, <4>4 DEF End
    <3> QED  BY <3>1
  <2>2. ASSUME off[b] < Len(q) PROVE FALSE
    <3>1. PICK i \in 1 .. Len(q) : i = off[b] + 1
      BY <1>1, <2>2
    <3>2. PICK r : r = PriorityOf[q[i]]
      OBVIOUS
    <3>3. r \in Nat /\ r \in DOMAIN lists /\ (r < b <=> i <= off[b])
      BY <3>2, FitsAt
    <3>4. ~(i <= off[b])
      BY <1>1, <3>1
    <3>5. r \in keys
      BY <3>3, <3>4
    <3> QED  BY <2>1, <3>2, <3>5, ListOfQueued
  <2> QED  BY <1>1, <1>3, <2>2 DEF Stands
<1>4. CASE p # End
  <2>1. p \in keys /\ lists[p] # <<>>
    BY <1>2, <1>4, FirstKeyFilled
  <2>2. p \in DOMAIN lists /\ p \in Nat /\ p >= b
    BY <1>2, <2>1
  <2>3. off[p] + 1 \in 1 .. Len(q) /\ PriorityOf[q[off[p] + 1]] = p /\ 1 \in 1 .. Len(lists[p])
    BY <2>1, <2>2, FilledList
  <2>4. off[b] <= off[p] /\ off[p] \in Nat
    BY <2>2, OffsetsGrow, OffsetsType
  <2>5. ASSUME off[b] < off[p] PROVE FALSE
    <3>1. PICK i \in 1 .. Len(q) : i = off[b] + 1
      BY <1>1, <2>3, <2>4, <2>5
    <3>2. PICK r : r = PriorityOf[q[i]]
      OBVIOUS
    <3>3. r \in Nat /\ r \in DOMAIN lists /\ ~(r < b) /\ r < p
      <4>1. r \in Nat /\ r \in DOMAIN lists /\ (r < b <=> i <= off[b])
        BY <3>2, FitsAt
      <4>2. r < p <=> i <= off[p]
        BY <2>2, <3>2, FitsAt
      <4>3. ~(i <= off[b]) /\ i <= off[p]
        BY <1>1, <2>4, <2>5, <3>1
      <4> QED  BY <4>1, <4>2, <4>3
    <3>4. lists[r] # <<>>
      BY <3>2, ListOfQueued
    <3>5. r \in {u \in keys : lists[u] # <<>>}
      BY <3>3, <3>4
    <3>6. p <= r
      <4> DEFINE K == {u \in keys : lists[u] # <<>>}
      <4>1. K \subseteq Nat /\ K # {} /\ r \in K
        BY <1>2, <3>5
      <4>2. p = CHOOSE x \in K : \A u \in K : x <= u
        BY <4>1 DEF FirstKey
      <4>3. \E x \in K : \A u \in K : x <= u
        BY <4>1, Least
      <4> HIDE DEF K
      <4> QED  BY <4>1, <4>2, <4>3
    <3> QED  BY <2>2, <3>3, <3>6
  <2> QED  BY <1>1, <1>4, <2>2, <2>3, <2>4, <2>5 DEF Stands
<1> QED  BY <1>3, <1>4

\* Moving an iterator within a list or past its end moves it in the queue.
LEMMA MoveToStands ==
  ASSUME NEW q, NEW lists, NEW off, Fits(q, lists, off),
         NEW p \in DOMAIN lists, NEW j \in 1 .. Len(lists[p]) + 1, MoveTo(lists, p, j)
  PROVE  Stands(q, lists, off, off[p] + j, mapIt', listIt')
<1>1. /\ p \in Nat /\ p + 1 \in Nat /\ Len(lists[p]) \in Nat /\ j \in Nat
      /\ off[p] \in Nat /\ off[p + 1] \in Nat /\ off[p + 1] <= Len(q) /\ Len(q) \in Nat
  <2>1. p \in Nat /\ p + 1 \in Nat /\ Len(lists[p]) \in Nat
    <3>1. p \in Nat /\ lists[p] \in Seq(Tasks)
      BY DEF Lists, Fits
    <3> QED  BY <3>1, LenProperties
  <2>2. off[p] \in Nat /\ off[p + 1] \in Nat /\ off[p + 1] <= Len(q) /\ Len(q) \in Nat
    BY <2>1, OffsetsType
  <2> QED  BY <2>1, <2>2
<1>2. Len(lists[p]) = off[p + 1] - off[p]
  BY DEF Fits
<1>3. CASE j <= Len(lists[p])
  <2>1. mapIt' = p /\ listIt' = j
    BY <1>3 DEF MoveTo
  <2>2. off[p] + j <= Len(q) /\ j \in 1 .. Len(lists[p])
    BY <1>1, <1>2, <1>3
  <2> QED  BY <1>1, <2>1, <2>2 DEF Stands
<1>4. CASE ~(j <= Len(lists[p]))
  <2>1. PICK keys : keys = {r \in DOMAIN lists : r > p}
    OBVIOUS
  <2>2. PICK r : r = FirstKey(keys, lists)
    OBVIOUS
  <2>3. mapIt' = r /\ listIt' = IF r = End THEN 0 ELSE 1
    BY <1>4, <2>1, <2>2 DEF MoveTo
  <2>4. keys = {u \in DOMAIN lists : u >= p + 1}
    <3>1. \A u \in DOMAIN lists : u \in Nat
      BY DEF Lists, Fits
    <3>2. \A u \in Nat : u > p <=> u >= p + 1
      BY <1>1
    <3> QED  BY <2>1, <3>1, <3>2
  <2>5. Stands(q, lists, off, off[p + 1] + 1, r, IF r = End THEN 0 ELSE 1)
    BY <1>1, <2>2, <2>4, NextList
  <2>6. off[p + 1] + 1 = off[p] + j
    BY <1>1, <1>2, <1>4
  <2> QED  BY <2>3, <2>5, <2>6
<1> QED  BY <1>3, <1>4

\* Nothing has a priority ahead of the first.
LEMMA NothingAhead ==
  ASSUME NEW q, NEW lists, NEW off, Fits(q, lists, off)
  PROVE  off[0] = 0
<1>1. off[0] \in Nat /\ off[0] <= Len(q) /\ Len(q) \in Nat
  BY OffsetsType
<1>2. ASSUME off[0] # 0 PROVE FALSE
  <2>1. PICK i \in 1 .. Len(q) : i = 1 /\ i <= off[0]
    BY <1>1, <1>2
  <2>2. PriorityOf[q[i]] < 0 /\ PriorityOf[q[i]] \in Nat
    BY <2>1, FitsAt
  <2> QED  BY <2>2
<1> QED  BY <1>2

\* begin() is at the first task of the queue.
LEMMA FirstStands ==
  ASSUME NEW q, NEW lists, NEW off, Fits(q, lists, off),
         NEW p, p = FirstKey(DOMAIN lists, lists)
  PROVE  Stands(q, lists, off, 1, p, IF p = End THEN 0 ELSE 1)
<1>1. DOMAIN lists = {r \in DOMAIN lists : r >= 0}
  <2>1. \A r \in DOMAIN lists : r >= 0
    BY DEF Lists, Fits
  <2> QED  BY <2>1
<1>2. Stands(q, lists, off, off[0] + 1, p, IF p = End THEN 0 ELSE 1)
  BY <1>1, NextList
<1> QED  BY <1>2, NothingAhead

-----------------------------------------------------------------------------
(* A task comes in *)

\* The lists with k behind those of its priority P, as insert() leaves them.
InsertedList(lists, k, P) ==
    [p \in DOMAIN lists \cup {P} |->
        (IF p \in DOMAIN lists THEN lists[p] ELSE <<>>) \o (IF p = P THEN <<k>> ELSE <<>>)]

\* The queue q2 is q with k at n; lists2 are the lists with k in the list of P.
QueuedAt(q, k, n, q2) ==
    /\ q2 \in Seq(Tasks) /\ Len(q2) = Len(q) + 1 /\ q2[n] = k
    /\ \A i \in 1 .. n - 1 : q2[i] = q[i]
    /\ \A i \in n + 1 .. Len(q) + 1 : q2[i] = q[i - 1]
ListedAs(lists, k, P, lists2) ==
    /\ Lists(lists2) /\ DOMAIN lists2 = DOMAIN lists \cup {P}
    /\ \A p \in DOMAIN lists \ {P} : lists2[p] = lists[p]
    /\ P \in DOMAIN lists => /\ Len(lists2[P]) = Len(lists[P]) + 1
                             /\ lists2[P][Len(lists[P]) + 1] = k
                             /\ \A j \in 1 .. Len(lists[P]) : lists2[P][j] = lists[P][j]
    /\ P \notin DOMAIN lists => Len(lists2[P]) = 1 /\ lists2[P][1] = k
\* Place n is behind all tasks of its priority.
Behind(off, P, n) == n = off[P + 1] + 1

LEMMA InsertedInQueue ==
  ASSUME NEW q \in Seq(Tasks), NEW k \in Tasks, NEW n \in 1 .. Len(q) + 1
  PROVE  QueuedAt(q, k, n, InsertAt(q, n, k))
<1> DEFINE r == InsertAt(q, n, k)
<1>1. r \in Seq(Tasks) /\ Len(r) = Len(q) + 1 /\ r[n] = k
  BY InsertedAt
<1>2. \A i \in 1 .. n - 1 : r[i] = q[i]
  BY InsertedAt
<1>3. \A i \in n + 1 .. Len(q) + 1 : r[i] = q[i - 1]
  BY InsertedAt
<1> HIDE DEF r
<1>4. QueuedAt(q, k, n, r)
  BY <1>1, <1>2, <1>3 DEF QueuedAt
<1> QED  BY <1>4 DEF r

LEMMA InsertedLists ==
  ASSUME NEW lists, Lists(lists), NEW k \in Tasks, NEW P \in Nat,
         NEW lists2, lists2 = InsertedList(lists, k, P), Lists(lists2)
  PROVE  ListedAs(lists, k, P, lists2)
<1>1. PICK o : o = <<k>>
  OBVIOUS
<1>2. o \in Seq(Tasks) /\ Len(o) = 1 /\ o[1] = k
  BY <1>1
<1>3. DOMAIN lists2 = DOMAIN lists \cup {P}
  BY DEF InsertedList
<1>4. ASSUME NEW p \in DOMAIN lists \ {P} PROVE lists2[p] = lists[p]
  <2>1. lists2[p] = lists[p] \o <<>> /\ lists[p] \in Seq(Tasks)
    BY DEF InsertedList, Lists
  <2> QED  BY <2>1, ConcatEmptySeq
<1>5. ASSUME P \in DOMAIN lists
      PROVE  /\ Len(lists2[P]) = Len(lists[P]) + 1
             /\ lists2[P][Len(lists[P]) + 1] = k
             /\ \A j \in 1 .. Len(lists[P]) : lists2[P][j] = lists[P][j]
  <2>1. PICK a \in Seq(Tasks) : a = lists[P]
    BY <1>5 DEF Lists
  <2>2. lists2[P] = a \o o
    BY <1>1, <1>5, <2>1 DEF InsertedList
  <2>3. /\ Len(a \o o) = Len(a) + Len(o) /\ Len(a) \in Nat
        /\ \A i \in 1 .. Len(a) + Len(o) : (a \o o)[i] = IF i <= Len(a) THEN a[i] ELSE o[i - Len(a)]
    BY <1>2, ConcatProperties, LenProperties
  <2>4. Len(a) + 1 - Len(a) = 1 /\ Len(a) + 1 \in 1 .. Len(a) + Len(o) /\ ~(Len(a) + 1 <= Len(a))
    BY <1>2, <2>3
  <2>5. (a \o o)[Len(a) + 1] = k
    BY <1>2, <2>3, <2>4
  <2>6. \A j \in 1 .. Len(a) : j \in 1 .. Len(a) + Len(o) /\ j <= Len(a)
    BY <1>2, <2>3
  <2> QED  BY <1>2, <2>1, <2>2, <2>3, <2>5, <2>6
<1>6. ASSUME P \notin DOMAIN lists PROVE Len(lists2[P]) = 1 /\ lists2[P][1] = k
  <2>1. lists2[P] = <<>> \o o
    BY <1>1, <1>6 DEF InsertedList
  <2>2. <<>> \o o = o
    BY <1>2, ConcatEmptySeq
  <2> QED  BY <1>2, <2>1, <2>2
<1> QED  BY <1>3, <1>4, <1>5, <1>6 DEF ListedAs

\* Between the offsets of P and P + 1 there is a task only if P has a list.
LEMMA NoListNoTask ==
  ASSUME NEW q, NEW lists, NEW off, Fits(q, lists, off),
         NEW P \in Nat, P \notin DOMAIN lists
  PROVE  off[P + 1] = off[P]
<1>1. /\ P + 1 \in Nat /\ off[P] \in Nat /\ off[P + 1] \in Nat
      /\ off[P + 1] <= Len(q) /\ Len(q) \in Nat
  <2>1. P + 1 \in Nat
    OBVIOUS
  <2> QED  BY <2>1, OffsetsType
<1>2. off[P] <= off[P + 1]
  BY <1>1, OffsetsGrow
<1>3. ASSUME off[P] < off[P + 1] PROVE FALSE
  <2>1. PICK i \in 1 .. Len(q) : i = off[P] + 1
    BY <1>1, <1>3
  <2>2. i <= off[P + 1] /\ ~(i <= off[P])
    BY <1>1, <1>3, <2>1
  <2>3. /\ PriorityOf[q[i]] < P + 1 /\ ~(PriorityOf[q[i]] < P)
        /\ PriorityOf[q[i]] \in Nat /\ PriorityOf[q[i]] \in DOMAIN lists
    BY <1>1, <2>2, FitsAt
  <2>4. PriorityOf[q[i]] = P
    BY <2>3
  <2> QED  BY <2>3, <2>4
<1> QED  BY <1>1, <1>2, <1>3

\* Behind the tasks of its priority in the queue, k is at the end of its list.
LEMMA InsertFits ==
  ASSUME NEW q, NEW lists, NEW off, Fits(q, lists, off),
         NEW k \in Tasks, NEW P \in Nat, PriorityOf[k] = P, NEW n, Behind(off, P, n),
         NEW q2, QueuedAt(q, k, n, q2), NEW lists2, ListedAs(lists, k, P, lists2)
  PROVE  \E off2 : Fits(q2, lists2, off2)
<1>0. PICK f : f = off[P + 1]
  OBVIOUS
<1>1. /\ P + 1 \in Nat /\ f \in Nat /\ f <= Len(q) /\ n = f + 1 /\ n \in Nat
      /\ Len(q) \in Nat /\ n \in 1 .. Len(q) + 1
  <2>1. P + 1 \in Nat
    OBVIOUS
  <2>2. f \in Nat /\ f <= Len(q) /\ Len(q) \in Nat
    BY <1>0, <2>1, OffsetsType
  <2>3. n = f + 1
    BY <1>0 DEF Behind
  <2> QED  BY <2>1, <2>2, <2>3
<1>2. /\ q2 \in Seq(Tasks) /\ Len(q2) = Len(q) + 1 /\ q2[n] = k
      /\ \A i \in 1 .. n - 1 : q2[i] = q[i]
      /\ \A i \in n + 1 .. Len(q) + 1 : q2[i] = q[i - 1]
  BY DEF QueuedAt
<1>3. PICK off2 : off2 = [r \in Nat |-> IF r <= P THEN off[r] ELSE off[r] + 1]
  OBVIOUS
<1>4. ASSUME NEW p \in Nat
      PROVE  /\ off[p] \in Nat /\ off[p] <= Len(q)
             /\ off2[p] = IF p <= P THEN off[p] ELSE off[p] + 1
             /\ p <= P => off[p] < n
             /\ p > P => n <= off[p] + 1
  <2>1. off[p] \in Nat /\ off[p] <= Len(q)
    BY OffsetsType
  <2>2. p <= P => off[p] <= f
    BY <1>0, <1>1, OffsetsGrow
  <2>3. p > P => f <= off[p]
    BY <1>0, <1>1, OffsetsGrow
  <2> QED  BY <1>1, <1>3, <2>1, <2>2, <2>3
<1>5. off2 \in [Nat -> Nat] /\ \A p \in Nat : off2[p] <= Len(q2)
  BY <1>1, <1>2, <1>3, <1>4
\* Task i of the queue with k, by where it is.
<1>6. ASSUME NEW i \in 1 .. Len(q2)
      PROVE  \/ i < n /\ i \in 1 .. Len(q) /\ q2[i] = q[i]
             \/ i = n /\ q2[i] = k
             \/ i > n /\ i - 1 \in 1 .. Len(q) /\ q2[i] = q[i - 1]
  <2>1. CASE i < n
    <3>1. i \in 1 .. n - 1 /\ i \in 1 .. Len(q)
      BY <1>1, <1>2, <2>1
    <3> QED  BY <1>2, <2>1, <3>1
  <2>2. CASE i = n
    BY <1>2, <2>2
  <2>3. CASE i > n
    <3>1. i \in n + 1 .. Len(q) + 1 /\ i - 1 \in 1 .. Len(q)
      BY <1>1, <1>2, <2>3
    <3> QED  BY <1>2, <2>3, <3>1
  <2> QED  BY <1>1, <1>2, <2>1, <2>2, <2>3
<1>7. ASSUME NEW p \in Nat, NEW i \in 1 .. Len(q2)
      PROVE  PriorityOf[q2[i]] < p <=> i <= off2[p]
  <2>1. CASE i < n /\ i \in 1 .. Len(q) /\ q2[i] = q[i]
    <3>1. PriorityOf[q[i]] < p <=> i <= off[p]
      BY <2>1, FitsAt
    <3>2. CASE p <= P
      BY <1>4, <2>1, <3>1, <3>2
    <3>3. CASE p > P
      <4>1. i <= off[p] /\ i <= off[p] + 1
        BY <1>1, <1>4, <2>1, <3>3
      <4> QED  BY <1>4, <2>1, <3>1, <3>3, <4>1
    <3> QED  BY <1>1, <3>2, <3>3
  <2>2. CASE i = n /\ q2[i] = k
    BY <1>1, <1>4, <2>2, SMTT(20)
  <2>3. CASE i > n /\ i - 1 \in 1 .. Len(q) /\ q2[i] = q[i - 1]
    <3>1. PICK e \in 1 .. Len(q) : e = i - 1
      BY <2>3
    <3>2. PriorityOf[q[e]] < p <=> e <= off[p]
      BY FitsAt
    <3> QED  BY <1>1, <1>4, <2>3, <3>1, <3>2
  <2> QED  BY <1>6, <2>1, <2>2, <2>3
<1>8. /\ DOMAIN lists2 = DOMAIN lists \cup {P}
      /\ \A p \in DOMAIN lists \ {P} : lists2[p] = lists[p]
      /\ P \in DOMAIN lists => /\ Len(lists2[P]) = Len(lists[P]) + 1
                               /\ lists2[P][Len(lists[P]) + 1] = k
                               /\ \A j \in 1 .. Len(lists[P]) : lists2[P][j] = lists[P][j]
      /\ P \notin DOMAIN lists => Len(lists2[P]) = 1 /\ lists2[P][1] = k
  BY DEF ListedAs
<1>9. ASSUME NEW i \in 1 .. Len(q2) PROVE PriorityOf[q2[i]] \in DOMAIN lists2
  <2>1. \A e \in 1 .. Len(q) : PriorityOf[q[e]] \in DOMAIN lists
    BY FitsAt, <1>1
  <2> QED  BY <1>6, <1>8, <2>1
\* The tasks of list p before k came.
<1>10. ASSUME NEW p \in DOMAIN lists, NEW a, a = off[p], NEW b, b = off[p + 1]
       PROVE  /\ p \in Nat /\ p + 1 \in Nat /\ a \in Nat /\ b \in Nat /\ b <= Len(q)
              /\ Len(lists[p]) = b - a /\ Len(lists[p]) \in Nat
              /\ \A j \in 1 .. Len(lists[p]) : lists[p][j] = q[a + j]
  <2>1. p \in Nat /\ p + 1 \in Nat /\ Len(lists[p]) \in Nat
    <3>1. p \in Nat /\ lists[p] \in Seq(Tasks)
      BY DEF Lists, Fits
    <3> QED  BY <3>1, LenProperties
  <2>2. a \in Nat /\ b \in Nat /\ b <= Len(q)
    BY <1>4, <1>10, <2>1
  <2>3. Len(lists[p]) = b - a /\ \A j \in 1 .. Len(lists[p]) : lists[p][j] = q[a + j]
    BY <1>10 DEF Fits
  <2> QED  BY <2>1, <2>2, <2>3
<1>11. ASSUME NEW p \in DOMAIN lists, NEW j \in 1 .. Len(lists[p])
       PROVE  lists[p][j] = q2[off2[p] + j]
  <2>1. PICK a, b, i : a = off[p] /\ b = off[p + 1] /\ i = a + j
    OBVIOUS
  <2>2. /\ p \in Nat /\ p + 1 \in Nat /\ a \in Nat /\ b \in Nat /\ b <= Len(q)
        /\ Len(lists[p]) = b - a /\ lists[p][j] = q[i]
    BY <1>10, <2>1
  <2>3. i \in Nat /\ a < i /\ i <= b
    <3>1. j \in 1 .. b - a
      BY <2>2
    <3>2. i = a + j /\ a \in Nat /\ b \in Nat
      BY <2>1, <2>2
    <3> QED  BY <3>1, <3>2
  <2>4. CASE p <= P
    <3>1. p + 1 <= P + 1
      BY <1>1, <2>2, <2>4
    <3>2. b <= f
      BY <1>0, <1>1, <2>1, <2>2, <3>1, OffsetsGrow
    <3>3. i \in 1 .. n - 1
      BY <1>1, <2>2, <2>3, <3>2
    <3>4. off2[p] + j = i
      BY <1>4, <2>1, <2>2, <2>4
    <3> QED  BY <1>2, <2>2, <3>3, <3>4
  <2>5. CASE p > P
    <3>1. n <= a + 1
      BY <1>4, <2>1, <2>2, <2>5
    <3>2. i + 1 \in n + 1 .. Len(q) + 1 /\ (i + 1) - 1 = i
      BY <1>1, <2>2, <2>3, <3>1
    <3>3. off2[p] = a + 1
      BY <1>1, <1>4, <2>1, <2>2, <2>5, SMTT(20)
    <3>4. off2[p] + j = i + 1
      BY <2>1, <2>2, <3>3
    <3> QED  BY <1>2, <2>2, <3>2, <3>4
  <2> QED  BY <1>1, <2>2, <2>4, <2>5
<1>13. ASSUME NEW p \in DOMAIN lists2
       PROVE  /\ Len(lists2[p]) = off2[p + 1] - off2[p]
              /\ \A j \in 1 .. Len(lists2[p]) : lists2[p][j] = q2[off2[p] + j]
  <2>1. CASE p \in DOMAIN lists \ {P}
    <3>1. PICK a, b : a = off[p] /\ b = off[p + 1]
      OBVIOUS
    <3>2. /\ lists2[p] = lists[p] /\ p \in Nat /\ p + 1 \in Nat /\ a \in Nat /\ b \in Nat
          /\ Len(lists[p]) = b - a
      BY <1>8, <1>10, <2>1, <3>1
    <3>3. CASE p < P
      <4>1. p <= P /\ p + 1 <= P
        BY <1>1, <3>2, <3>3
      <4>2. off2[p] = a /\ off2[p + 1] = b
        BY <1>4, <3>1, <3>2, <4>1
      <4>3. \A j \in 1 .. Len(lists[p]) : lists[p][j] = q2[off2[p] + j]
        BY <1>11, <2>1
      <4>4. \A j \in 1 .. Len(lists2[p]) : lists2[p][j] = q2[off2[p] + j]
        BY <3>2, <4>3
      <4>5. Len(lists2[p]) = off2[p + 1] - off2[p]
        BY <3>2, <4>2
      <4> QED  BY <4>4, <4>5
    <3>4. CASE p > P
      <4>1. ~(p <= P) /\ ~(p + 1 <= P)
        BY <1>1, <3>2, <3>4
      <4>2. off2[p] = a + 1 /\ off2[p + 1] = b + 1
        BY <1>4, <3>1, <3>2, <4>1
      <4>3. b + 1 - (a + 1) = b - a
        BY <3>2
      <4>4. Len(lists2[p]) = off2[p + 1] - off2[p]
        BY <3>2, <4>2, <4>3
      <4>5. \A j \in 1 .. Len(lists[p]) : lists[p][j] = q2[off2[p] + j]
        BY <1>11, <2>1
      <4>6. \A j \in 1 .. Len(lists2[p]) : lists2[p][j] = q2[off2[p] + j]
        BY <3>2, <4>5
      <4> QED  BY <4>4, <4>6
    <3> QED  BY <1>1, <2>1, <3>2, <3>3, <3>4
  <2>2. CASE p = P /\ P \in DOMAIN lists
    <3>0. PICK a, b : a = off[P] /\ b = f
      OBVIOUS
    <3>1. off2[P + 1] = b + 1 /\ off2[P] = a /\ a \in Nat /\ b \in Nat
      <4>1. P <= P /\ ~(P + 1 <= P)
        BY <1>1
      <4> QED  BY <1>1, <1>4, <1>0, <3>0, <4>1
    <3>2. Len(lists2[P]) = Len(lists[P]) + 1 /\ Len(lists[P]) = b - a
      BY <1>0, <1>8, <1>10, <2>2, <3>0
    <3>3. Len(lists2[P]) = off2[P + 1] - off2[P]
      BY <3>1, <3>2
    <3>4. ASSUME NEW j \in 1 .. Len(lists2[P]) PROVE lists2[P][j] = q2[off2[P] + j]
      <4>1. CASE j \in 1 .. Len(lists[P])
        <5>1. lists[P][j] = q2[off2[P] + j]
          BY <1>1, <1>11, <2>2, <4>1
        <5> QED  BY <1>8, <2>2, <4>1, <5>1
      <4>2. CASE j = Len(lists[P]) + 1
        <5>1. off2[P] + j = n
          BY <1>1, <3>0, <3>1, <3>2, <4>2
        <5> QED  BY <1>2, <1>8, <2>2, <4>2, <5>1
      <4>3. Len(lists[P]) \in Nat
        BY <1>10, <2>2
      <4> QED  BY <3>2, <4>1, <4>2, <4>3
    <3> QED  BY <2>2, <3>3, <3>4
  <2>3. CASE p = P /\ P \notin DOMAIN lists
    <3>1. off2[P + 1] = f + 1 /\ off2[P] = off[P] /\ off[P] \in Nat
      <4>1. P <= P /\ ~(P + 1 <= P)
        OBVIOUS
      <4> QED  BY <1>0, <1>1, <1>4, <4>1
    <3>2. f = off[P]
      BY <1>0, <2>3, NoListNoTask
    <3>3. Len(lists2[P]) = 1 /\ lists2[P][1] = k
      BY <1>8, <2>3
    <3>4. off2[P] + 1 = n /\ off2[P + 1] - off2[P] = 1
      BY <1>1, <3>1, <3>2
    <3>5. \A j \in 1 .. 1 : j = 1
      OBVIOUS
    <3> QED  BY <1>2, <2>3, <3>3, <3>4, <3>5
  <2> QED  BY <1>8, <2>1, <2>2, <2>3
<1>14. Lists(lists2)
  BY DEF ListedAs
<1>15. Fits(q2, lists2, off2)
  BY <1>14, <1>2, <1>5, <1>7, <1>9, <1>13 DEF Fits
<1> QED  BY <1>15

-----------------------------------------------------------------------------
(* A task is taken out *)

\* The sequence s2 is s without its element n.
TakenAt(s, n, s2) ==
    /\ s2 \in Seq(Tasks) /\ Len(s2) = Len(s) - 1
    /\ \A i \in 1 .. Len(s) - 1 : s2[i] = IF i < n THEN s[i] ELSE s[i + 1]
LEMMA TakenFrom ==
  ASSUME NEW s \in Seq(Tasks), NEW n \in 1 .. Len(s), NEW s2, s2 = RemoveAt(s, n)
  PROVE  TakenAt(s, n, s2)
<1>1. /\ s2 \in Seq(Tasks) /\ Len(s2) = Len(s) - 1
      /\ \A i \in 1 .. Len(s) - 1 : s2[i] = IF i < n THEN s[i] ELSE s[i + 1]
  BY RemovedAt
<1> QED  BY <1>1 DEF TakenAt

\* In lists2 that is so of the list of P.
UnlistedAt(lists, P, j, lists2) ==
    /\ Lists(lists2) /\ DOMAIN lists2 = DOMAIN lists
    /\ \A p \in DOMAIN lists \ {P} : lists2[p] = lists[p]
    /\ TakenAt(lists[P], j, lists2[P])
\* Element j of the list of P is task n of the queue.
Same(lists, off, P, j, n) == P \in DOMAIN lists /\ j \in 1 .. Len(lists[P]) /\ n = off[P] + j

LEMMA EraseFits ==
  ASSUME NEW q, NEW lists, NEW off, Fits(q, lists, off),
         NEW P, NEW j, NEW n, Same(lists, off, P, j, n),
         NEW q2, TakenAt(q, n, q2), NEW lists2, UnlistedAt(lists, P, j, lists2)
  PROVE  \E off2 : Fits(q2, lists2, off2) /\ off2[P] = off[P]
<1>0. PICK a, b : a = off[P] /\ b = off[P + 1]
  OBVIOUS
<1>1. /\ P \in Nat /\ P + 1 \in Nat /\ a \in Nat /\ b \in Nat /\ b <= Len(q) /\ Len(q) \in Nat
      /\ P \in DOMAIN lists /\ Len(lists[P]) = b - a
      /\ j \in Nat /\ n \in Nat /\ n = a + j /\ a < n /\ n <= b
  <2>1. P \in DOMAIN lists /\ j \in 1 .. Len(lists[P]) /\ n = a + j
    BY <1>0 DEF Same
  <2>2. P \in Nat /\ P + 1 \in Nat
    <3>1. P \in Nat
      BY <2>1 DEF Fits, Lists
    <3> QED  BY <3>1
  <2>3. a \in Nat /\ b \in Nat /\ b <= Len(q) /\ Len(q) \in Nat
    BY <1>0, <2>2, OffsetsType
  <2>4. Len(lists[P]) = b - a
    BY <1>0, <2>1 DEF Fits
  <2>5. j \in 1 .. b - a
    BY <2>1, <2>4
  <2>6. j \in Nat /\ n \in Nat /\ a < n /\ n <= b
    BY <2>1, <2>3, <2>5
  <2> QED  BY <2>1, <2>2, <2>3, <2>4, <2>6
<1>2. /\ q2 \in Seq(Tasks) /\ Len(q2) = Len(q) - 1
      /\ \A i \in 1 .. Len(q) - 1 : q2[i] = IF i < n THEN q[i] ELSE q[i + 1]
  BY DEF TakenAt
<1>3. PICK off2 : off2 = [r \in Nat |-> IF r <= P THEN off[r] ELSE off[r] - 1]
  OBVIOUS
<1>4. ASSUME NEW p \in Nat
      PROVE  /\ off[p] \in Nat /\ off[p] <= Len(q)
             /\ off2[p] = IF p <= P THEN off[p] ELSE off[p] - 1
             /\ p <= P => off[p] < n
             /\ p > P => n <= off[p]
  <2>1. off[p] \in Nat /\ off[p] <= Len(q)
    BY OffsetsType
  <2>2. p <= P => off[p] <= a
    BY <1>0, <1>1, OffsetsGrow
  <2>3. p > P => b <= off[p]
    BY <1>0, <1>1, OffsetsGrow
  <2> QED  BY <1>1, <1>3, <2>1, <2>2, <2>3
<1>5. off2 \in [Nat -> Nat] /\ \A p \in Nat : off2[p] <= Len(q2)
  <2>1. ASSUME NEW p \in Nat PROVE off2[p] \in Nat /\ off2[p] <= Len(q2)
    <3>1. CASE p <= P
      <4>1. off2[p] = off[p] /\ off[p] \in Nat /\ off[p] < n
        BY <1>4, <3>1
      <4> QED  BY <1>1, <1>2, <4>1
    <3>2. CASE p > P
      <4>1. off2[p] = off[p] - 1 /\ off[p] \in Nat /\ n <= off[p] /\ off[p] <= Len(q)
        BY <1>1, <1>4, <3>2
      <4> QED  BY <1>1, <1>2, <4>1
    <3> QED  BY <1>1, <3>1, <3>2
  <2> QED  BY <1>3, <2>1
\* Task i of what is left, by where it is.
<1>6. ASSUME NEW i \in 1 .. Len(q2)
      PROVE  \/ i < n /\ i \in 1 .. Len(q) /\ q2[i] = q[i]
             \/ i >= n /\ i + 1 \in 1 .. Len(q) /\ q2[i] = q[i + 1]
  <2>1. i \in 1 .. Len(q) - 1 /\ i \in 1 .. Len(q) /\ i + 1 \in 1 .. Len(q)
    BY <1>1, <1>2
  <2> QED  BY <1>1, <1>2, <2>1
<1>7. ASSUME NEW p \in Nat, NEW i \in 1 .. Len(q2)
      PROVE  PriorityOf[q2[i]] < p <=> i <= off2[p]
  <2>1. CASE i < n /\ i \in 1 .. Len(q) /\ q2[i] = q[i]
    <3>1. PriorityOf[q[i]] < p <=> i <= off[p]
      BY <2>1, FitsAt
    <3>2. CASE p <= P
      BY <1>4, <2>1, <3>1, <3>2
    <3>3. CASE p > P
      <4>1. i <= off[p] /\ i <= off[p] - 1
        BY <1>1, <1>4, <2>1, <3>3
      <4> QED  BY <1>1, <1>4, <2>1, <3>1, <3>3, <4>1
    <3> QED  BY <1>1, <3>2, <3>3
  <2>2. CASE i >= n /\ i + 1 \in 1 .. Len(q) /\ q2[i] = q[i + 1]
    <3>1. PICK e \in 1 .. Len(q) : e = i + 1
      BY <2>2
    <3>2. PriorityOf[q[e]] < p <=> e <= off[p]
      BY FitsAt
    <3>3. CASE p <= P
      <4>1. ~(e <= off[p]) /\ ~(i <= off[p])
        BY <1>1, <1>4, <2>2, <3>1, <3>3
      <4> QED  BY <1>4, <2>2, <3>1, <3>2, <3>3, <4>1
    <3>4. CASE p > P
      <4>1. e <= off[p] <=> i <= off[p] - 1
        BY <1>1, <1>4, <2>2, <3>1
      <4> QED  BY <1>1, <1>4, <2>2, <3>1, <3>2, <3>4, <4>1
    <3> QED  BY <1>1, <3>3, <3>4
  <2> QED  BY <1>6, <2>1, <2>2
<1>8. /\ Lists(lists2) /\ DOMAIN lists2 = DOMAIN lists
      /\ \A p \in DOMAIN lists \ {P} : lists2[p] = lists[p]
      /\ Len(lists2[P]) = Len(lists[P]) - 1
      /\ \A x \in 1 .. Len(lists[P]) - 1 :
            lists2[P][x] = IF x < j THEN lists[P][x] ELSE lists[P][x + 1]
  BY DEF UnlistedAt, TakenAt
<1>9. ASSUME NEW i \in 1 .. Len(q2) PROVE PriorityOf[q2[i]] \in DOMAIN lists2
  <2>1. \A e \in 1 .. Len(q) : PriorityOf[q[e]] \in DOMAIN lists
    BY FitsAt, <1>1
  <2> QED  BY <1>6, <1>8, <2>1
\* The tasks of list p before.
<1>10. ASSUME NEW p \in DOMAIN lists, NEW c, c = off[p], NEW d, d = off[p + 1]
       PROVE  /\ p \in Nat /\ p + 1 \in Nat /\ c \in Nat /\ d \in Nat /\ d <= Len(q)
              /\ Len(lists[p]) = d - c
              /\ \A x \in 1 .. Len(lists[p]) : lists[p][x] = q[c + x]
  <2>1. p \in Nat /\ p + 1 \in Nat
    <3>1. p \in Nat
      BY DEF Lists, Fits
    <3> QED  BY <3>1
  <2>2. c \in Nat /\ d \in Nat /\ d <= Len(q)
    BY <1>4, <1>10, <2>1
  <2>3. Len(lists[p]) = d - c /\ \A x \in 1 .. Len(lists[p]) : lists[p][x] = q[c + x]
    BY <1>10 DEF Fits
  <2> QED  BY <2>1, <2>2, <2>3
<1>11. ASSUME NEW p \in DOMAIN lists \ {P}
       PROVE  /\ Len(lists2[p]) = off2[p + 1] - off2[p]
              /\ \A x \in 1 .. Len(lists2[p]) : lists2[p][x] = q2[off2[p] + x]
  <2>1. PICK c, d : c = off[p] /\ d = off[p + 1]
    OBVIOUS
  <2>2. /\ lists2[p] = lists[p] /\ p \in Nat /\ p + 1 \in Nat
        /\ c \in Nat /\ d \in Nat /\ d <= Len(q) /\ Len(lists[p]) = d - c
        /\ \A x \in 1 .. d - c : lists[p][x] = q[c + x]
    BY <1>8, <1>10, <2>1
  <2>3. CASE p < P
    <3>1. p <= P /\ p + 1 <= P
      BY <1>1, <2>2, <2>3
    <3>2. off2[p] = c /\ off2[p + 1] = d /\ d < n
      BY <1>4, <2>1, <2>2, <3>1
    <3>3. ASSUME NEW x \in 1 .. d - c PROVE lists[p][x] = q2[c + x]
      <4>1. PICK i : i = c + x
        OBVIOUS
      <4>2. i \in 1 .. Len(q) - 1 /\ i < n
        BY <1>1, <2>2, <3>2, <4>1
      <4> QED  BY <1>2, <2>2, <4>1, <4>2
    <3> QED  BY <2>2, <3>2, <3>3
  <2>4. CASE p > P
    <3>1. ~(p <= P) /\ ~(p + 1 <= P)
      BY <1>1, <2>2, <2>4
    <3>2. off2[p] = c - 1 /\ off2[p + 1] = d - 1 /\ n <= c
      BY <1>4, <2>1, <2>2, <2>4, <3>1
    <3>3. ASSUME NEW x \in 1 .. d - c PROVE lists[p][x] = q2[(c - 1) + x]
      <4>1. PICK i : i = (c - 1) + x
        OBVIOUS
      <4>2. i \in 1 .. Len(q) - 1 /\ ~(i < n) /\ i + 1 = c + x
        BY <1>1, <2>2, <3>2, <4>1
      <4> QED  BY <1>2, <2>2, <4>1, <4>2
    <3>4. d - 1 - (c - 1) = d - c
      BY <2>2
    <3> QED  BY <2>2, <3>2, <3>3, <3>4
  <2> QED  BY <1>1, <2>2, <2>3, <2>4
<1>12. /\ Len(lists2[P]) = off2[P + 1] - off2[P]
       /\ \A x \in 1 .. Len(lists2[P]) : lists2[P][x] = q2[off2[P] + x]
  <2>1. /\ off2[P] = a /\ off2[P + 1] = b - 1
        /\ \A x \in 1 .. b - a : lists[P][x] = q[a + x]
    <3>1. P <= P /\ ~(P + 1 <= P)
      BY <1>1
    <3>2. \A x \in 1 .. Len(lists[P]) : lists[P][x] = q[a + x]
      BY <1>0, <1>1, <1>10
    <3> QED  BY <1>0, <1>1, <1>4, <3>1, <3>2
  <2>2. Len(lists2[P]) = (b - 1) - a
    BY <1>1, <1>8
  <2>3. ASSUME NEW x \in 1 .. (b - 1) - a PROVE lists2[P][x] = q2[a + x]
    <3>1. PICK i : i = a + x
      OBVIOUS
    <3>2. /\ i \in 1 .. Len(q) - 1
          /\ x < j <=> i < n
          /\ x \in 1 .. b - a /\ x + 1 \in 1 .. b - a /\ a + (x + 1) = i + 1
          /\ x \in 1 .. Len(lists[P]) - 1
      BY <1>1, <3>1
    <3>3. lists2[P][x] = IF x < j THEN lists[P][x] ELSE lists[P][x + 1]
      BY <1>8, <3>2
    <3>4. lists[P][x] = q[i] /\ lists[P][x + 1] = q[i + 1]
      BY <2>1, <3>1, <3>2
    <3>5. q2[i] = IF i < n THEN q[i] ELSE q[i + 1]
      BY <1>2, <3>2
    <3> QED  BY <3>1, <3>2, <3>3, <3>4, <3>5
  <2> QED  BY <2>1, <2>2, <2>3
<1>13. Fits(q2, lists2, off2)
  BY <1>2, <1>5, <1>7, <1>8, <1>9, <1>11, <1>12 DEF Fits
<1>14. off2[P] = off[P]
  <2>1. P <= P
    BY <1>1
  <2> QED  BY <1>1, <1>4, <2>1
<1> QED  BY <1>13, <1>14

-----------------------------------------------------------------------------
(* The lists are the queue. *)

\* There are offsets at which the lists are in the queue, and with them the
\* iterator of the loop is where the loop is.
Aligned ==
    /\ m_size = Len(tasksQueue)
    /\ \E off : /\ Fits(tasksQueue, m_lists, off)
                /\ \A t \in Threads : pc[t] = "loop" =>
                      Stands(tasksQueue, m_lists, off, it, mapIt, listIt)

LEMMA InitAligned == ASSUME QueueInit PROVE Aligned
<1>1. tasksQueue = <<>> /\ m_lists = <<>> /\ m_size = 0 /\ \A t \in Threads : pc[t] # "loop"
  BY DEF QueueInit, Init, ListInit
<1>2. PICK off : off = [p \in Nat |-> 0]
  OBVIOUS
<1>3. Len(tasksQueue) = 0 /\ tasksQueue \in Seq(Tasks) /\ DOMAIN m_lists = {}
  BY <1>1, EmptySeq
<1>4. Fits(tasksQueue, m_lists, off)
  BY <1>2, <1>3 DEF Fits, Lists
<1> QED  BY <1>1, <1>3, <1>4 DEF Aligned

\* A step that leaves queue and lists alone, and begins no loop.
LEMMA StillAligned ==
  ASSUME Aligned, UNCHANGED <<tasksQueue, listVars>>,
         \A t \in Threads : pc'[t] = "loop" => pc[t] = "loop" /\ it' = it
  PROVE  Aligned'
<1>1. PICK off : /\ Fits(tasksQueue, m_lists, off)
                 /\ \A t \in Threads : pc[t] = "loop" =>
                       Stands(tasksQueue, m_lists, off, it, mapIt, listIt)
  BY DEF Aligned
<1>2. /\ tasksQueue' = tasksQueue /\ m_lists' = m_lists /\ m_size' = m_size
      /\ mapIt' = mapIt /\ listIt' = listIt
  BY DEF listVars
<1>3. m_size' = Len(tasksQueue')
  BY <1>2 DEF Aligned
<1>4. Fits(tasksQueue', m_lists', off)
  BY <1>1, <1>2
<1>5. ASSUME NEW t \in Threads, pc'[t] = "loop"
      PROVE  Stands(tasksQueue', m_lists', off, it', mapIt', listIt')
  BY <1>1, <1>2, <1>5
<1> QED  BY <1>3, <1>4, <1>5 DEF Aligned

LEMMA ElsewhereAligned ==
  ASSUME IInv, Aligned, Elsewhere, UNCHANGED listVars
  PROVE  Aligned'
<1>1. pc \in [Threads -> Labels]
  BY DEF IInv, TypeOK
<1>2. tasksQueue' = tasksQueue
  BY DEF Elsewhere, HandOver, ScheduleNothing, LoopEnd, ContinueSetting, CallSetting, Work,
         AddCustomTag, PreHeatLock, PreHeatLoop, PreHeatEnd, SetCapacity, SetBoundCapacity,
         AddCustomTagRead, PauseCustomTag, ResumeCustomTag, PreHeatRead, Pop, Ran,
         TaskFinished, unset
<1>3. ASSUME NEW t \in Threads, pc'[t] = "loop" PROVE pc[t] = "loop" /\ it' = it
  <2> USE <1>1, <1>3
  <2>1. ASSUME NEW u \in Threads, HandOver(u) PROVE pc[t] = "loop" /\ it' = it
    BY <2>1 DEF HandOver, Returned, Home
  <2>2. ASSUME NEW u \in Threads, ScheduleNothing(u) PROVE pc[t] = "loop" /\ it' = it
    BY <2>2 DEF ScheduleNothing, Returned, Home
  <2>3. ASSUME NEW u \in Threads, LoopEnd(u) PROVE FALSE
    <3>1. t # u /\ pc[t] = "loop" /\ mainLock = u
      BY <2>3 DEF LoopEnd, EndLoop, Returned, Home, InLoop
    <3> QED  BY <3>1 DEF IInv, Locked
  <2>4. ASSUME NEW c \in Clients, ContinueSetting(c) PROVE pc[t] = "loop" /\ it' = it
    BY <2>4 DEF ContinueSetting, AddCustomTag, PreHeatLock, PreHeatLoop, PreHeatEnd, unset,
                Started
  <2>5. ASSUME NEW c \in Clients, CallSetting(c) PROVE pc[t] = "loop" /\ it' = it
    BY <2>5 DEF CallSetting, SetCapacity, SetBoundCapacity, AddCustomTagRead,
                PauseCustomTag, ResumeCustomTag, PreHeatRead, unset
  <2>6. ASSUME NEW w \in Workers, Work(w) PROVE pc[t] = "loop" /\ it' = it
    BY <2>6 DEF Work, Pop, Ran, TaskFinished
  <2> QED  BY <2>1, <2>2, <2>3, <2>4, <2>5, <2>6 DEF Elsewhere
<1> QED  BY <1>2, <1>3, StillAligned

LEMMA InsertAligned ==
  ASSUME IInv, Aligned, ListInv(Tasks)', NEW c \in Clients, NEW k \in Tasks, QueueInsert(c, k)
  PROVE  Aligned'
<1>1. \A t \in Threads : pc'[t] # "loop"
  <2>1. mainLock = None /\ pc \in [Threads -> Labels] /\ None \notin Threads
    BY ConstantTypes DEF QueueInsert, InsertTask, IInv, TypeOK
  <2>2. \A t \in Threads : pc[t] # "loop"
    BY <2>1 DEF IInv, Locked
  <2>3. c \in Threads
    BY DEF Threads
  <2> QED  BY <2>1, <2>2, <2>3 DEF QueueInsert, InsertTask, InsertBound, InsertDirect, InsertQueued
<1>2. CASE UNCHANGED <<tasksQueue, listVars>>
  BY <1>1, <1>2, StillAligned
<1>3. CASE ~UNCHANGED <<tasksQueue, listVars>>
  <2>1. c \in Threads /\ hand \in [Threads -> Tasks \cup {None}] /\ None \notin Tasks
    BY ConstantTypes DEF Threads, IInv, TypeOK
  <2>2. CASE InsertBound(c, k) \/ InsertDirect(c, k)
    <3>1. hand'[c] = k /\ UNCHANGED tasksQueue
      BY <2>1, <2>2 DEF InsertBound, InsertDirect
    <3> QED  BY <1>3, <2>1, <3>1 DEF QueueInsert
  <2>3. CASE InsertQueued(c, k)
    <3>1. hand' = hand /\ tasksQueue' = Enqueue(k, tasksQueue) /\ pc[c] = "idle"
      BY <2>3 DEF QueueInsert, InsertTask, InsertQueued
    <3>2. hand[c] = None
      BY <2>1, <3>1 DEF IInv, Handing
    <3>3. PICK P : P = PriorityOf[k]
      OBVIOUS
    <3>4. insert(k, P) /\ P \in Nat
      BY <3>1, <3>2, <3>3, Priorities DEF QueueInsert
    <3>5. PICK off : Fits(tasksQueue, m_lists, off)
      BY DEF Aligned
    <3>6. PICK n : n = Ahead(k, tasksQueue) + 1
      OBVIOUS
    <3>7. tasksQueue \in Seq(Tasks) /\ Len(tasksQueue) \in Nat /\ DOMAIN tasksQueue = 1 .. Len(tasksQueue)
      BY LenProperties DEF IInv, TypeOK
    <3>8. Ahead(k, tasksQueue) = off[P + 1]
      <4>1. \A i \in DOMAIN tasksQueue : PriorityOf[tasksQueue[i]] \in Nat
        BY <3>7, ElementOfSeq, Priorities
      <4>2. {i \in DOMAIN tasksQueue : PriorityOf[tasksQueue[i]] <= P}
              = {i \in DOMAIN tasksQueue : PriorityOf[tasksQueue[i]] < P + 1}
        BY <3>4, <4>1
      <4>3. P + 1 \in Nat
        BY <3>4
      <4>4. Cardinality({i \in DOMAIN tasksQueue : PriorityOf[tasksQueue[i]] < P + 1}) = off[P + 1]
        BY <3>5, <4>3, OffsetsCount
      <4> QED  BY <3>3, <4>2, <4>4 DEF Ahead
    <3>9. Behind(off, P, n)
      BY <3>6, <3>8 DEF Behind
    <3>10. n \in 1 .. Len(tasksQueue) + 1
      <4>1. P + 1 \in Nat
        BY <3>4
      <4>2. off[P + 1] \in Nat /\ off[P + 1] <= Len(tasksQueue)
        BY <3>5, <4>1, OffsetsType
      <4> QED  BY <3>6, <3>7, <3>8, <4>2
    <3>11. PICK q2 : q2 = InsertAt(tasksQueue, n, k)
      OBVIOUS
    <3>12. tasksQueue' = q2
      BY <3>1, <3>6, <3>11 DEF Enqueue
    <3>13. QueuedAt(tasksQueue, k, n, q2)
      BY <3>7, <3>10, <3>11, InsertedInQueue
    <3>14. PICK lists2 : lists2 = InsertedList(m_lists, k, P)
      OBVIOUS
    <3>15. m_lists' = lists2 /\ m_size' = m_size + 1
      BY <3>4, <3>14 DEF insert, InsertedList
    <3>16. Lists(m_lists) /\ Lists(lists2)
      BY <3>5, <3>15 DEF Fits, ListInv, ListTypeOK, Lists
    <3>17. ListedAs(m_lists, k, P, lists2)
      BY <3>4, <3>14, <3>16, InsertedLists
    <3>18. \E off2 : Fits(q2, lists2, off2)
      BY <3>3, <3>4, <3>5, <3>9, <3>13, <3>17, InsertFits
    <3>19. m_size' = Len(tasksQueue')
      BY <3>12, <3>13, <3>15 DEF QueuedAt, Aligned
    <3> QED  BY <1>1, <3>12, <3>15, <3>18, <3>19 DEF Aligned
  <2> QED  BY <2>2, <2>3 DEF QueueInsert, InsertTask
<1> QED  BY <1>2, <1>3

LEMMA BeginAligned ==
  ASSUME Aligned, NEW t \in Threads, QueueBegin(t)
  PROVE  Aligned'
<1>1. /\ tasksQueue' = tasksQueue /\ it' = 1 /\ m_lists' = m_lists /\ m_size' = m_size
  BY DEF QueueBegin, ScheduleBegin, begin
<1>2. PICK off : Fits(tasksQueue, m_lists, off)
  BY DEF Aligned
<1>3. PICK p : p = FirstKey(DOMAIN m_lists, m_lists)
  OBVIOUS
<1>4. mapIt' = p /\ listIt' = IF p = End THEN 0 ELSE 1
  BY <1>3 DEF QueueBegin, begin
<1>5. Stands(tasksQueue, m_lists, off, 1, p, IF p = End THEN 0 ELSE 1)
  BY <1>2, <1>3, FirstStands
<1>6. Stands(tasksQueue', m_lists', off, it', mapIt', listIt')
  BY <1>1, <1>4, <1>5
<1>7. Fits(tasksQueue', m_lists', off) /\ m_size' = Len(tasksQueue')
  BY <1>1, <1>2 DEF Aligned
<1> QED  BY <1>6, <1>7 DEF Aligned

\* Where the loop is while it has not come to the end of the queue.
LEMMA LoopStands ==
  ASSUME IInv, Aligned, NEW t \in Threads, InLoop(t), it <= Len(tasksQueue)
  PROVE  \E off : /\ Fits(tasksQueue, m_lists, off)
                  /\ mapIt \in DOMAIN m_lists /\ listIt \in 1 .. Len(m_lists[mapIt])
                  /\ it = off[mapIt] + listIt
<1>1. PICK off : /\ Fits(tasksQueue, m_lists, off)
                 /\ \A u \in Threads : pc[u] = "loop" =>
                       Stands(tasksQueue, m_lists, off, it, mapIt, listIt)
  BY DEF Aligned
<1>2. Stands(tasksQueue, m_lists, off, it, mapIt, listIt)
  BY <1>1 DEF InLoop
<1>3. it \in Nat /\ Len(tasksQueue) \in Nat
  BY LenProperties DEF IInv, TypeOK
<1>4. ~(it > Len(tasksQueue))
  BY <1>3
<1> QED  BY <1>1, <1>2, <1>4 DEF Stands

LEMMA SkipAligned ==
  ASSUME IInv, Aligned, NEW t \in Threads, QueueSkip(t)
  PROVE  Aligned'
<1>1. /\ InLoop(t) /\ it <= Len(tasksQueue) /\ it' = it + 1
      /\ UNCHANGED <<tasksQueue, m_lists, m_size>>
      /\ MoveTo(m_lists, mapIt, listIt + 1)
  BY DEF QueueSkip, LoopSkip, increment
<1>2. PICK off : /\ Fits(tasksQueue, m_lists, off)
                 /\ mapIt \in DOMAIN m_lists /\ listIt \in 1 .. Len(m_lists[mapIt])
                 /\ it = off[mapIt] + listIt
  BY <1>1, LoopStands
<1>3. PICK p, j, e : p = mapIt /\ j = listIt + 1 /\ e = off[p]
  OBVIOUS
<1>4. Len(m_lists[p]) \in Nat /\ e \in Nat
  <2>1. m_lists[p] \in Seq(Tasks) /\ p \in Nat
    BY <1>2, <1>3 DEF Fits, Lists
  <2> QED  BY <1>2, <1>3, <2>1, LenProperties, OffsetsType
<1>5. j \in 1 .. Len(m_lists[p]) + 1 /\ it + 1 = e + j
  BY <1>2, <1>3, <1>4
<1>6. Stands(tasksQueue, m_lists, off, e + j, mapIt', listIt')
  BY <1>1, <1>2, <1>3, <1>5, MoveToStands
<1>7. Stands(tasksQueue', m_lists', off, it', mapIt', listIt')
  BY <1>1, <1>5, <1>6
<1>8. Fits(tasksQueue', m_lists', off) /\ m_size' = Len(tasksQueue')
  BY <1>1, <1>2 DEF Aligned
<1> QED  BY <1>7, <1>8 DEF Aligned

LEMMA TakeAligned ==
  ASSUME IInv, IInv', Aligned, ListInv(Tasks)', NEW t \in Threads, QueueTake(t)
  PROVE  Aligned'
<1>1. PICK goesOn \in BOOLEAN :
        /\ InLoop(t) /\ it <= Len(tasksQueue) /\ tasksQueue' = RemoveAt(tasksQueue, it)
        /\ erase(goesOn)
        /\ goesOn => it' = it
        /\ mainLock' = t => goesOn
        /\ mainLock' \in {t, None}
  <2>1. mainLock' \in {t, None} /\ (mainLock' = t => it' = it)
        /\ InLoop(t) /\ it <= Len(tasksQueue) /\ tasksQueue' = RemoveAt(tasksQueue, it)
    <3>1. None # t
      BY ConstantTypes
    <3>2. CASE LoopBound(t)
      BY <3>1, <3>2 DEF LoopBound, InLoop, Erased
    <3>3. CASE LoopRun(t)
      BY <3>1, <3>3 DEF LoopRun, InLoop, Erased
    <3> QED  BY <3>2, <3>3 DEF QueueTake
  <2>2. CASE LoopBound(t) /\ erase(mainLock' = t)
    BY <2>1, <2>2
  <2>3. CASE LoopRun(t) /\ erase(FALSE)
    <3>1. mainLock' # t
      BY <2>3, ConstantTypes DEF LoopRun
    <3> QED  BY <2>1, <2>3, <3>1
  <2> QED  BY <2>2, <2>3 DEF QueueTake
<1>2. PICK off : /\ Fits(tasksQueue, m_lists, off)
                 /\ mapIt \in DOMAIN m_lists /\ listIt \in 1 .. Len(m_lists[mapIt])
                 /\ it = off[mapIt] + listIt
  BY <1>1, LoopStands
<1>3. PICK q2, lists2 : q2 = tasksQueue' /\ lists2 = m_lists'
  OBVIOUS
<1>4. Same(m_lists, off, mapIt, listIt, it)
  BY <1>2 DEF Same
<1>5. TakenAt(tasksQueue, it, q2) /\ Len(tasksQueue) \in Nat
  <2>1. tasksQueue \in Seq(Tasks) /\ it \in 1 .. Len(tasksQueue) /\ Len(tasksQueue) \in Nat
    <3>1. tasksQueue \in Seq(Tasks) /\ it \in Nat /\ it >= 1
      BY <1>1 DEF IInv, TypeOK, Looping, InLoop
    <3> QED  BY <1>1, <3>1, LenProperties
  <2>2. q2 = RemoveAt(tasksQueue, it)
    BY <1>1, <1>3
  <2> QED  BY <2>1, <2>2, TakenFrom
<1>6. UnlistedAt(m_lists, mapIt, listIt, lists2)
  <2>1. lists2 = [m_lists EXCEPT ![mapIt] = RemoveAt(@, listIt)]
    BY <1>1, <1>3 DEF erase, Without
  <2>2. DOMAIN lists2 = DOMAIN m_lists /\ \A p \in DOMAIN m_lists \ {mapIt} : lists2[p] = m_lists[p]
    BY <2>1
  <2>3. lists2[mapIt] = RemoveAt(m_lists[mapIt], listIt)
    BY <1>2, <2>1
  <2>4. m_lists[mapIt] \in Seq(Tasks)
    BY <1>2 DEF Fits, Lists
  <2>5. TakenAt(m_lists[mapIt], listIt, lists2[mapIt])
    BY <1>2, <2>3, <2>4, TakenFrom
  <2>6. Lists(lists2)
    BY <1>3 DEF ListInv, ListTypeOK, Lists
  <2> QED  BY <2>2, <2>5, <2>6 DEF UnlistedAt
<1>7. PICK off2 : Fits(q2, lists2, off2) /\ off2[mapIt] = off[mapIt]
  BY <1>2, <1>4, <1>5, <1>6, EraseFits
<1>8. m_size' = Len(tasksQueue')
  BY <1>1, <1>3, <1>5 DEF erase, Aligned, TakenAt
<1>9. ASSUME NEW u \in Threads, pc'[u] = "loop"
      PROVE  Stands(tasksQueue', m_lists', off2, it', mapIt', listIt')
  <2>1. mainLock' = u
    BY <1>9 DEF IInv, Locked
  <2>2. mainLock' = t
    BY <1>1, <2>1, ConstantTypes
  <2>3. goesOn /\ it' = it
    BY <1>1, <2>2
  <2>4. MoveTo(lists2, mapIt, listIt)
    BY <1>1, <1>3, <2>3 DEF erase
  <2>5. mapIt \in DOMAIN lists2 /\ listIt \in 1 .. Len(lists2[mapIt]) + 1
    <3>1. Len(lists2[mapIt]) = Len(m_lists[mapIt]) - 1
      BY <1>6 DEF UnlistedAt, TakenAt
    <3>2. Len(m_lists[mapIt]) \in Nat
      <4>1. m_lists[mapIt] \in Seq(Tasks)
        BY <1>2 DEF Fits, Lists
      <4> QED  BY <4>1, LenProperties
    <3> QED  BY <1>2, <1>6, <3>1, <3>2 DEF UnlistedAt
  <2>6. Stands(q2, lists2, off2, off2[mapIt] + listIt, mapIt', listIt')
    BY <1>7, <2>4, <2>5, MoveToStands
  <2>7. off2[mapIt] + listIt = it
    BY <1>2, <1>7
  <2> QED  BY <1>3, <2>3, <2>6, <2>7
<1> QED  BY <1>3, <1>7, <1>8, <1>9 DEF Aligned

LEMMA NextAligned ==
  ASSUME IInv, IInv', ListInv(Tasks)', Aligned, [QueueNext]_queueVars
  PROVE  Aligned'
<1>1. ASSUME NEW c \in Clients, NEW k \in Tasks, QueueInsert(c, k) PROVE Aligned'
  BY <1>1, InsertAligned
<1>2. ASSUME NEW t \in Threads, QueueBegin(t) PROVE Aligned'
  BY <1>2, BeginAligned
<1>3. ASSUME NEW t \in Threads, QueueSkip(t) PROVE Aligned'
  BY <1>3, SkipAligned
<1>4. ASSUME NEW t \in Threads, QueueTake(t) PROVE Aligned'
  BY <1>4, TakeAligned
<1>5. CASE Elsewhere /\ UNCHANGED listVars
  BY <1>5, ElsewhereAligned
<1>6. CASE UNCHANGED queueVars
  BY <1>6, StillAligned DEF queueVars, vars, locals
<1> QED  BY <1>1, <1>2, <1>3, <1>4, <1>5, <1>6 DEF QueueNext

LEMMA AlignedListsAreTheQueue ==
  ASSUME IInv, Aligned
  PROVE  ListsAreTheQueue
<1>1. PICK off : /\ Fits(tasksQueue, m_lists, off)
                 /\ \A t \in Threads : pc[t] = "loop" =>
                       Stands(tasksQueue, m_lists, off, it, mapIt, listIt)
  BY DEF Aligned
<1>2. PICK q : q = tasksQueue
  OBVIOUS
<1>3. q \in Seq(Tasks) /\ Lists(m_lists) /\ Len(q) \in Nat /\ DOMAIN q = 1 .. Len(q)
  BY <1>1, <1>2, LenProperties DEF Fits
<1>4. ASSUME NEW p \in Nat PROVE Before(p) = off[p]
  BY <1>1, OffsetsCount DEF Before
<1>5. \A i \in DOMAIN q : PriorityOf[q[i]] \in DOMAIN m_lists
  BY <1>1, <1>2, <1>3 DEF Fits
<1>6. ASSUME NEW p \in DOMAIN m_lists
      PROVE  /\ m_lists[p] = SubSeq(q, Before(p) + 1, Before(p + 1))
             /\ \A i \in DOMAIN m_lists[p] : PriorityOf[m_lists[p][i]] = p
  <2>1. PICK l, a, b : l = m_lists[p] /\ a = off[p] /\ b = off[p + 1]
    OBVIOUS
  <2>2. p \in Nat /\ p + 1 \in Nat /\ l \in Seq(Tasks)
    <3>1. p \in Nat /\ l \in Seq(Tasks)
      BY <1>3, <2>1 DEF Lists
    <3> QED  BY <3>1
  <2>3. a \in Nat /\ b \in Nat /\ b <= Len(q)
    BY <1>1, <1>2, <2>1, <2>2, OffsetsType
  <2>4. Len(l) = b - a /\ Len(l) \in Nat /\ DOMAIN l = 1 .. Len(l)
    BY <1>1, <2>1, <2>2, LenProperties DEF Fits
  <2>5. \A i \in 1 .. Len(l) : l[i] = q[a + i]
    BY <1>1, <1>2, <2>1 DEF Fits
  <2>6. PICK s : s = SubSeq(q, a + 1, b)
    OBVIOUS
  <2>7. /\ s \in Seq(Tasks)
        /\ Len(s) = IF a + 1 <= b THEN b - (a + 1) + 1 ELSE 0
        /\ \A i \in 1 .. b - (a + 1) + 1 : s[i] = q[(a + 1) + i - 1]
    <3>1. \A i \in a + 1 .. b : q[i] \in Tasks
      <4>1. \A i \in a + 1 .. b : i \in 1 .. Len(q)
        BY <1>3, <2>3
      <4> QED  BY <1>3, <4>1, ElementOfSeq
    <3>2. a + 1 \in Int /\ b \in Int
      BY <2>3
    <3> QED  BY <2>6, <3>1, <3>2, SubSeqProperties
  <2>8. Len(l) = Len(s)
    BY <2>3, <2>4, <2>7
  <2>9. ASSUME NEW i \in 1 .. Len(l) PROVE l[i] = s[i]
    <3>1. i \in 1 .. b - (a + 1) + 1 /\ (a + 1) + i - 1 = a + i
      BY <2>3, <2>4
    <3>2. s[i] = q[(a + 1) + i - 1]
      BY <2>7, <3>1
    <3>3. l[i] = q[a + i]
      BY <2>5
    <3> QED  BY <3>1, <3>2, <3>3
  <2>10. l = s
    BY <2>2, <2>7, <2>8, <2>9, SeqEqual
  <2>11. ASSUME NEW i \in DOMAIN l PROVE PriorityOf[l[i]] = p
    <3>1. PICK x : x = a + i
      OBVIOUS
    <3>2. x \in 1 .. Len(q) /\ x <= b /\ ~(x <= a) /\ l[i] = q[x]
      BY <1>3, <2>3, <2>4, <2>5, <3>1
    <3>3. PriorityOf[q[x]] < p + 1 /\ ~(PriorityOf[q[x]] < p) /\ PriorityOf[q[x]] \in Nat
      BY <1>1, <1>2, <2>1, <2>2, <3>2, FitsAt
    <3> QED  BY <2>2, <3>2, <3>3
  <2>12. Before(p) = a /\ Before(p + 1) = b
    BY <1>4, <2>1, <2>2
  <2> QED  BY <2>1, <2>6, <2>10, <2>11, <2>12
<1>7. empty <=> q = <<>>
  <2>1. m_size = Len(q)
    BY <1>2 DEF Aligned
  <2> QED  BY <1>3, <2>1, EmptySeq DEF empty
<1>8. ASSUME NEW t \in Threads, InLoop(t)
      PROVE  IF it > Len(q) THEN mapIt = End
             ELSE /\ mapIt \in DOMAIN m_lists
                  /\ it = Before(mapIt) + listIt
                  /\ listIt \in DOMAIN m_lists[mapIt]
  <2>1. Stands(q, m_lists, off, it, mapIt, listIt)
    BY <1>1, <1>2, <1>8 DEF InLoop
  <2>2. CASE it > Len(q)
    BY <2>1, <2>2 DEF Stands
  <2>3. CASE ~(it > Len(q))
    <3>1. /\ mapIt \in DOMAIN m_lists /\ it = off[mapIt] + listIt
          /\ listIt \in 1 .. Len(m_lists[mapIt])
      BY <2>1, <2>3 DEF Stands
    <3>2. mapIt \in Nat /\ m_lists[mapIt] \in Seq(Tasks)
      BY <1>3, <3>1 DEF Lists
    <3>3. Before(mapIt) = off[mapIt] /\ DOMAIN m_lists[mapIt] = 1 .. Len(m_lists[mapIt])
      BY <1>4, <3>2, LenProperties
    <3> QED  BY <2>3, <3>1, <3>3
  <2> QED  BY <2>2, <2>3
<1> QED  BY <1>2, <1>5, <1>6, <1>7, <1>8 DEF ListsAreTheQueue

\* The map of lists and its iterator are the queue and the position Dispatcher
\* has of them, for any tasks and priorities: insert() puts a task behind all
\* of its priority, begin(), ++ and erase() pass the lists that have become
\* empty, and schedule() meets every task, once, in order of priority.
THEOREM ListsKeepTheQueue == QueueSpec => []ListsAreTheQueue
<1>1. QueueInit => Aligned
  BY InitAligned
<1>2. /\ IInv /\ IInv' /\ ListInv(Tasks)' /\ Aligned /\ [QueueNext]_queueVars => Aligned'
  BY NextAligned
<1>3. QueueInit => ListInv(Tasks)
  BY InitListInv DEF QueueInit
<1>4. IInv /\ Aligned => ListsAreTheQueue
  BY AlignedListsAreTheQueue
<1>5. QueueSpec => []IInv
  BY DispatcherImplemented, AlwaysIInv, PTL
<1> QED  BY <1>1, <1>2, <1>3, <1>4, <1>5, NextListInv, PTL DEF QueueSpec

\* What the dispatcher counts is right with the lists, too.
COROLLARY TasksAtOnePlaceInLists == QueueSpec => []EveryTaskAtOnePlace
BY DispatcherImplemented, TasksAtOnePlace, PTL

COROLLARY UsageCountsInLists == QueueSpec => []UsageCountsInFlight
BY DispatcherImplemented, UsageCounts, PTL
=============================================================================
