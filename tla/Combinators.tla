----------------------------- MODULE Combinators -----------------------------
(***************************************************************************)
(* Programs that make futures from futures, on clients' threads and on     *)
(* workers: what each future is filled with, whatever the interleaving.    *)
(***************************************************************************)
EXTENDS ClusteredRun, Repeat, Functions

CONSTANT Programs   \* what each thread is to call, one function per program

ClientOps == AppliedToSuccess \cup AppliedToFailure \cup
    {"fillSuccess", "fillFailure", "cancel", "trampoline", "zip", "run", "runAll",
     "sequence", "sequenceWithFailures", "repeatData", "repeat", "repeatForSequence",
     "clusteredRun"}

\* What the types of the parameters say, with room for the futures that are made.
IsClientCall(c) ==
    /\ "op" \in DOMAIN c /\ c.op \in ClientOps /\ c.to \in Futures
    /\ c.op = "run" => "op" \in DOMAIN c.body /\ c.body.op = "apply" /\ c.body.to = c.to
    /\ c.op \in {"sequence", "sequenceWithFailures", "runAll"} => c.of \in Seq(Futures)
    /\ c.op = "runAll" => DOMAIN c.fns = DOMAIN c.of
    /\ c.op = "sequenceWithFailures" =>
         c.via \in Seq(Futures \X Futures) /\ Len(c.of) <= Len(c.via)
    /\ c.op = "zip" => /\ c = zip(c.from, c.others, c.via, c.to)
                       /\ c.others \in Seq(Futures) /\ c.via \in Seq(Futures)
                       /\ 2 * Len(c.others) <= Len(c.via)
    /\ c.op = "repeatData" => c = repeatData(c.steps, c.k, c.to)
    /\ c.op \in {"repeat", "repeatForSequence"} => c.steps \in Seq(Range(c.steps))
    /\ c.op = "repeat" => /\ c.tos \in Seq(Futures) /\ c.via \in Seq(Futures)
                          /\ c.k \in DOMAIN c.steps /\ DOMAIN c.steps = DOMAIN c.tos
                          /\ Len(c.steps) <= Len(c.via) + 1
    /\ c.op = "repeatForSequence" =>
         \A i \in DOMAIN c.steps : c.steps[i].does = "future" => c.steps[i].is \in Futures
    /\ c.op = "clusteredRun" =>
         /\ c.data \in Seq(Range(c.data)) /\ c.minClusterSize \in Int
         /\ c.clusters \in Seq(Futures) /\ IsInjective(c.clusters)
         /\ c.data # <<>> => Capacity(c) <= Len(c.clusters) + 1

\* The futures that c, or what it calls, may fill.
MayFill(c) ==
    {f \in Futures :
       \/ f = c.to
       \/ c.op \in {"zip", "repeat"} /\ f \in Range(c.via)
       \/ c.op = "repeat" /\ f \in Range(c.tos)
       \/ c.op = "runAll" /\ f \in Range(c.of)
       \/ c.op = "sequenceWithFailures" /\ \E v \in Range(c.via) : f \in {v[1], v[2]}
       \/ c.op = "clusteredRun" /\ f \in Range(c.clusters)}

\* Those whose promise nobody but c has: the future of a sequence, and of each
\* task that clusteredRun starts.
Private(c) ==
    {f \in Futures :
       \/ c.op \in {"sequence", "sequenceWithFailures", "repeatForSequence", "runAll"} /\ f = c.to
       \/ c.op = "clusteredRun" /\ f \in Range(c.clusters)}

\* It gives each of them one thing to do.
FillsOnce(c) ==
    /\ c.op = "sequenceWithFailures" => \A v \in Range(c.via) : c.to \notin {v[1], v[2]}
    /\ c.op = "runAll" => c.to \notin Range(c.of)
    /\ c.op = "clusteredRun" => c.to \notin Range(c.clusters)

\* The library makes a promise for each of the futures it returns, keeps those of
\* sequences and clusters to itself, and no None among them.
ASSUME ProgramsCallTheLibrary ==
    /\ None \notin Futures
    /\ \A p \in Programs :
         /\ DOMAIN p = Threads
         /\ \A t \in Threads :
              /\ p[t] \in Seq(Range(p[t]))
              /\ \A i \in DOMAIN p[t] : IsClientCall(p[t][i]) /\ FillsOnce(p[t][i])
         /\ \A t, u \in Threads : \A i \in DOMAIN p[t], j \in DOMAIN p[u] :
              Private(p[t][i]) \cap MayFill(p[u][j]) # {} => t = u /\ i = j

vars == <<outcome, callbacks, stack, lastFailure, asked, queued, cells>>

Init == /\ stack \in Programs
        /\ outcome = [f \in Futures |-> None]
        /\ callbacks = [f \in Futures |-> NoCallbacks]
        /\ lastFailure = [t \in Threads |-> None]
        /\ asked = {} /\ queued = {}
        /\ cells = [f \in Futures |-> <<>>]

Step(t) ==
    \/ (CallbackStep(t) \/ MorphismStep(t) \/ SequenceStep(t)) /\ UNCHANGED <<queued, cells>>
    \/ (TaskStep(t) \/ RepeatStep(t)) /\ UNCHANGED cells
    \/ ClusterStep(t)

Next == \E t \in Threads : Step(t)

Spec == Init /\ [][Next]_vars

\* A thread that has something to do goes on; an idle worker takes a task.
FairSpec == Spec /\ \A t \in Threads : WF_vars(Step(t))

(***************************************************************************)
(* Properties                                                              *)
(***************************************************************************)
\* A future is filled with a value or a failure, and then nothing waits on it;
\* threads run calls, workers are given tasks, and there is one result of
\* clusters for each managing task at most.
TypeOK ==
    /\ \A f \in Futures :
         \/ outcome[f] = None
         \/ DOMAIN outcome[f] = {"ok", "is"} /\ callbacks[f] = NoCallbacks
    /\ \A t \in Threads : \A i \in DOMAIN stack[t] : "op" \in DOMAIN stack[t][i]
    /\ \A task \in queued : task.op \in {"wrapped", "forward"}
    /\ \A f \in Futures : cells[f] # <<>> => \E c \in asked : c.op = "clusteredRun" /\ c.to = f

\* Where a call may be: on the stack of a thread, in the list of a future, with
\* the dispatcher.  A callback is there as what registered it.
Places ==
    (UNION {{<<"stack", t, i>> : i \in DOMAIN stack[t]} : t \in Threads})
    \cup (UNION {{<<"callbacks", l, i>> : i \in DOMAIN callbacks[l[1]][l[2]]} :
                   l \in Futures \X BOOLEAN})
    \cup {<<"queued", task, 1>> : task \in queued}

CallAt(x) ==
    CASE x[1] = "stack" -> stack[x[2]][x[3]]
      [] x[1] = "callbacks" -> [op |-> "on", from |-> x[2][1], ok |-> x[2][2],
                                call |-> callbacks[x[2][1]][x[2][2]][x[3]]]
      [] x[1] = "queued" -> x[2]

Promising == {c \in asked : c.op # "cancel"}

RunAnswers(c) ==
    CASE c.body.op = "apply" -> {Result("run", None, c.body.fn)}
      [] c.body.op = "manage" -> ClusteredRunAnswers(c.body.of)
      [] c.body.op = "cluster" -> ClusterAnswers(c.body)

Answers(c) ==
    CASE c.op \in AppliedToSuccess \cup AppliedToFailure -> {MorphismAnswer(c)}
      [] c.op = "zip" -> {ZipAnswer(c)}
      [] c.op \in {"sequence", "sequenceWithFailures"} -> {SequenceAnswer(c)}
      [] c.op = "run" -> RunAnswers(c)
      [] c.op = "clusteredRun" -> ClusteredRunAnswers(c)
      [] c.op = "trampoline" -> {outcome[c.from]}
      [] c.op \in {"repeat", "repeatData"} -> {RepeatAnswer(c)}
      [] c.op = "repeatForSequence" -> {RepeatForSequenceAnswer(c)}

\* Every future is filled with what was asked for it, and with nothing before
\* that is decided: no result is taken from another call, and no failure left
\* on a thread by one call reaches another (fillSuccess, future.h:694, asks the
\* thread).  A promise that was canceled may have that failure instead.
EachFromItsOwn ==
    \A c \in Promising : outcome[c.to] # None =>
        \/ outcome[c.to] \in Answers(c)
        \/ outcome[c.to] = Failure(Canceled) /\ cancel(c.to) \in asked

\* The iteration of a sequence is in one place: on a thread, or in the callback
\* of a future, not in two and, when the result is filled, nowhere
\* (iterateSequence, future.h:783: the future may be filled while its callbacks
\* are registered, and another thread goes on).
Iterating == {"iterateSequence", "iterateSequenceRepeater", "resume"}
Carries(call, c) ==
    \/ call.op \in Iterating /\ call.call = c
    \/ call.op = "on" /\ call.call.op \in Iterating /\ call.call.call = c
Iterations(c) == {x \in Places : Carries(CallAt(x), c)}
OneIteration ==
    \A c \in asked : c.op \in {"sequence", "sequenceWithFailures", "repeatForSequence"} =>
        Cardinality(Iterations(c)) <= IF outcome[c.to] = None THEN 1 ELSE 0

\* Clusters use the data and the result of the task that manages them: as long
\* as one is waiting or running, that task is there to wait for it, canceled
\* and failed ones included (tasks.h:212: wait() comes before every return).
BodyOf(call) == CASE call.op = "wrapped" -> call.run.body
                  [] call.op = "run" -> call.body
                  [] OTHER -> call
IsClusterOf(call, c) ==
    BodyOf(call).op = "cluster" /\ BodyOf(call).of = c /\ BodyOf(call).promise # None
Manages(call, c) ==
    \/ call.op = "conclude" /\ call.of = c
    \/ call.op = "cluster" /\ call.of = c /\ call.promise = None
ClustersWithinTheirManager ==
    \A c \in {d \in asked : d.op = "clusteredRun"} :
        (\E x \in Places : IsClusterOf(CallAt(x), c))
        => \E x \in Places : Manages(CallAt(x), c)

\* A future that was asked for is filled once that is decided: no callback is
\* missing, no task is forgotten, and sequence does not wait for what is behind
\* the first failure.
EveryAnswerGiven ==
    \A f \in Futures :
        (\E c \in Promising : c.to = f /\ None \notin Answers(c)) ~> (outcome[f] # None)
=============================================================================
