------------------------------- MODULE TasksList -------------------------------
(***************************************************************************)
(* TasksList (impl/taskslist_p.h): a map from priorities to lists, with an *)
(* iterator that goes from one list to the next.  A list that gets empty   *)
(* stays in the map, and everything that moves an iterator has to pass it. *)
(***************************************************************************)
EXTENDS Integers, Sequences, SequencesExt

VARIABLES m_lists, m_size,
          mapIt, listIt   \* the iterator of the loop in schedule()

listVars == <<m_lists, m_size, mapIt, listIt>>

End == -1   \* the mapIt of end()

ListInit ==
    /\ m_lists = <<>> /\ m_size = 0
    /\ mapIt = End /\ listIt = 0

empty == m_size = 0

\* Mutant: lists that are empty are not passed.
FirstKeyOf(keys, lists) ==
    IF keys = {} THEN End ELSE CHOOSE p \in keys : \A q \in keys : p <= q

\* The first of these lists that has something in it.
FirstKey(keys, lists) ==
    LET filled == {p \in keys : lists[p] # <<>>}
    IN  IF filled = {} THEN End ELSE CHOOSE p \in filled : \A q \in filled : p <= q

\* The iterator comes to a position of a list, or, past its end, to the next.
MoveTo(lists, p, i) ==
    IF i <= Len(lists[p]) THEN mapIt' = p /\ listIt' = i
    ELSE LET q == FirstKey({r \in DOMAIN lists : r > p}, lists)
         IN  mapIt' = q /\ listIt' = IF q = End THEN 0 ELSE 1

insert(k, priority) ==
    /\ m_lists' = [p \in DOMAIN m_lists \cup {priority} |->
                     (IF p \in DOMAIN m_lists THEN m_lists[p] ELSE <<>>)
                        \o (IF p = priority THEN <<k>> ELSE <<>>)]
    /\ m_size' = m_size + 1
    /\ UNCHANGED <<mapIt, listIt>>

begin ==
    /\ LET p == FirstKey(DOMAIN m_lists, m_lists)
       IN  mapIt' = p /\ listIt' = IF p = End THEN 0 ELSE 1
    /\ UNCHANGED <<m_lists, m_size>>

\* operator++
increment ==
    /\ mapIt # End
    /\ MoveTo(m_lists, mapIt, listIt + 1)
    /\ UNCHANGED <<m_lists, m_size>>

\* What is left in the lists without the element at the iterator.
Without == [m_lists EXCEPT ![mapIt] = RemoveAt(@, listIt)]

\* The iterator erase() returns takes the place of the one it was given, or is
\* dropped by a caller that is done.
erase(goesOn) ==
    /\ mapIt # End
    /\ m_lists' = Without
    /\ m_size' = m_size - 1
    /\ IF goesOn THEN MoveTo(Without, mapIt, listIt) ELSE mapIt' = End /\ listIt' = 0
=============================================================================
