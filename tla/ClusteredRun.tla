----------------------------- MODULE ClusteredRun -----------------------------
(***************************************************************************)
(* clusteredRun: a task cuts a range into clusters, starts a task for each *)
(* but the last, does that one itself and waits for the others, which use  *)
(* its data and write into its result.                                     *)
(***************************************************************************)
EXTENDS TaskRunner

CONSTANT SubPoolCapacity   \* of the subpool the call is made for
ASSUME SubPoolIsNotEmpty == SubPoolCapacity \in Nat \ {0}

VARIABLE cells   \* the result each managing task and its clusters write

(* data is what the user's function does for each element; clusters are the *)
(* futures of the tasks that are started.                                   *)
clusteredRun(data, minClusterSize, clusters, to) ==
    [op |-> "clusteredRun", data |-> data, minClusterSize |-> minClusterSize,
     clusters |-> clusters, to |-> to]
manage(c) == [op |-> "manage", of |-> c]
\* The elements from at to right; promise is None in the managing task.
cluster(c, at, right, promise) ==
    [op |-> "cluster", of |-> c, at |-> at, right |-> right, promise |-> promise]
conclude(c, failure) == [op |-> "conclude", of |-> c, failure |-> failure]

Capacity(c) ==
    LET size == IF c.minClusterSize <= 0 THEN 1 ELSE c.minClusterSize
        needed == (Len(c.data) + size - 1) \div size
    IN  IF needed < SubPoolCapacity THEN needed ELSE SubPoolCapacity
ClusterSize(c) == Len(c.data) \div Capacity(c)
Jobs(c) == 1 .. (Capacity(c) - 1)

StartClusteredRun(t) ==
    /\ Calls(t, "clusteredRun")
    /\ Ask(t)
    /\ LET c == Call(t) IN
         Return(t, IF c.data = <<>> THEN <<fillSuccess(c.to, <<>>)>>
                                    ELSE <<runBody(c.to, manage(c))>>)
    /\ UNCHANGED <<outcome, callbacks, lastFailure, queued, cells>>

Manage(t) ==
    /\ Calls(t, "manage")
    /\ LET c == Call(t).of
           size == ClusterSize(c)
       IN  /\ cells' = [cells EXCEPT ![c.to] = [i \in DOMAIN c.data |-> Default]]
           /\ Return(t, [j \in Jobs(c) |-> runBody(c.clusters[j],
                             cluster(c, (j - 1) * size + 1, j * size, c.clusters[j]))]
                        \o <<cluster(c, (Capacity(c) - 1) * size + 1, Len(c.data), None)>>)
    /\ UNCHANGED <<outcome, callbacks, lastFailure, asked, queued>>

\* Mutant: a failure is returned at once.
MutantAwait(c, failure) ==
    IF failure # None THEN <<conclude(c, failure)>>
    ELSE [j \in Jobs(c) |-> wait(c.clusters[j])] \o <<conclude(c, failure)>>

\* What follows the loop of the managing task, however that ended.
Await(c, failure) == [j \in Jobs(c) |-> wait(c.clusters[j])] \o <<conclude(c, failure)>>

HasMore(t) == Call(t).at <= Call(t).right /\ lastFailure[t] = None
Element(t) == Call(t).of.data[Call(t).at]

ClusterElement(t) ==
    /\ Calls(t, "cluster") /\ HasMore(t)
    /\ Element(t).does \in {"return", "WithFailure"}
    /\ LET k == Call(t)
           returns == Element(t).does = "return"
       IN  /\ cells' = [cells EXCEPT ![k.of.to][k.at] =
                          IF returns THEN Element(t).is ELSE Default]
           /\ lastFailure' = [lastFailure EXCEPT ![t] =
                                IF returns THEN None ELSE Element(t).is]
           /\ Return(t, <<[k EXCEPT !.at = @ + 1]>>)
    /\ UNCHANGED <<outcome, callbacks, asked, queued>>

\* An exception fails the cluster's promise; the managing task keeps it, and
\* forgets the failure that a WithFailure has left before.
ClusterThrow(t) ==
    /\ Calls(t, "cluster") /\ HasMore(t)
    /\ Element(t).does \in {"throw", "WithFailure, throw"}
    /\ LET k == Call(t)
           managing == k.promise = None
       IN  /\ Return(t, IF managing THEN Await(k.of, Exception)
                                    ELSE <<fillFailure(k.promise, Exception)>>)
           /\ lastFailure' = [lastFailure EXCEPT ![t] =
                                IF managing \/ Element(t).does = "throw" THEN None
                                ELSE Element(t).is]
    /\ UNCHANGED <<outcome, callbacks, asked, queued, cells>>

\* success() turns the last failure of a cluster into the promise's own; the
\* managing task takes it over.
ClusterEnd(t) ==
    /\ Calls(t, "cluster") /\ ~HasMore(t)
    /\ LET k == Call(t) IN
         \/ /\ k.promise # None
            /\ Return(t, <<fillSuccess(k.promise, TRUE)>>)
            /\ UNCHANGED lastFailure
         \/ /\ k.promise = None
            /\ Return(t, Await(k.of, lastFailure[t]))
            /\ lastFailure' = [lastFailure EXCEPT ![t] = None]
    /\ UNCHANGED <<outcome, callbacks, asked, queued, cells>>

\* The failure of the managing task, or of the first cluster that has one.
Conclude(t) ==
    /\ Calls(t, "conclude")
    /\ LET c == Call(t).of
           failed == {j \in Jobs(c) : ~outcome[c.clusters[j]].ok}
           first == CHOOSE j \in failed : \A k \in failed : j <= k
           failure == IF Call(t).failure # None \/ failed = {}
                      THEN Call(t).failure ELSE outcome[c.clusters[first]].is
       IN  /\ lastFailure' = [lastFailure EXCEPT ![t] = failure]
           /\ Return(t, <<fillSuccess(c.to, IF failure = None THEN cells[c.to] ELSE Default)>>)
    /\ UNCHANGED <<outcome, callbacks, asked, queued, cells>>

ClusterStep(t) ==
    \/ StartClusteredRun(t) \/ Manage(t)
    \/ ClusterElement(t) \/ ClusterThrow(t) \/ ClusterEnd(t) \/ Conclude(t)

(***************************************************************************)
(* What the future may be filled with: the function's value for each       *)
(* element, or, if it failed for any, one of its failures.                 *)
(***************************************************************************)
RangeAnswers(data, all) ==
    LET failed == {i \in DOMAIN data : data[i].does # "return"}
    IN  IF failed = {} THEN {Success(all)}
        ELSE {Failure(IF data[i].does = "WithFailure" THEN data[i].is ELSE Exception) :
                i \in failed}
ClusteredRunAnswers(c) ==
    RangeAnswers(c.data, [i \in DOMAIN c.data |-> c.data[i].is])
ClusterAnswers(k) ==
    RangeAnswers([i \in k.at .. k.right |-> k.of.data[i]], TRUE)
=============================================================================
