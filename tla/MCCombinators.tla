---------------------------- MODULE MCCombinators ----------------------------
(* Programs for TLC. *)
EXTENDS Combinators

CONSTANTS main, other, w1, w2, w3,               \* threads
          p1, p2, s1, r1, r2, r3, r4, r5, r6, \* futures
          v1, v2, v3, v4, e1, e2, e3           \* values and failures

MCThreads == {main, other, w1, w2, w3}
MCWorkers == {w1, w2, w3}
MCAtoms == {v1, v2, v3, v4}
MCFutures == {p1, p2, s1, r1, r2, r3, r4, r5, r6}

Start3(mains, others, workers) ==
    [t \in Threads |-> CASE t = main -> mains [] t = other -> others
                         [] t = w1 -> workers [] OTHER -> <<>>]
Start(mains, others) == Start3(mains, others, <<>>)

\* A future of the container is filled before, while or after it is gone over,
\* is there twice, or is never filled; the other thread fills in both orders.
FillP1 == {fillSuccess(p1, v1), fillFailure(p1, e1)}
FillP2 == {fillSuccess(p2, v2), fillFailure(p2, e2)}
Fills == FillP1 \X FillP2
Containers == {<<>>, <<p1, p2, p1>>, <<p2, p1>>}
Sequenced ==
    {Start(<<fills[1], sequence(of, s1)>>, <<fills[2]>>) :
         of \in Containers, fills \in Fills \cup (FillP2 \X FillP1)}
    \cup {Start(<<sequence(of, s1)>>, <<fill>>) : of \in Containers, fill \in FillP1}
    \cup {Start3(<<iterate>>, <<fills[1]>>, <<fills[2]>>) :
         iterate \in {sequence(of, s1) : of \in Containers} \cup
                     {sequenceWithFailures(of, <<<<r1, r2>>, <<r3, r4>>, <<r5, r6>>>>, s1) :
                        of \in Containers},
         fills \in Fills}

\* Every morphism, with every kind of function, on a future that another thread
\* fills, and one made from the first.
FunctionKinds == {Gives(v3), GivesFailure(e3), Throws}
Morphed ==
    {Start(<<morphism(m, p1, r1, fn), morphism("map", r1, r2, Gives(v4))>>, <<fill>>) :
         m \in {"map", "recover"}, fn \in FunctionKinds,
         fill \in FillP1}
    \cup
    {Start(<<morphism(m, p1, r1, fn), morphism("recover", r1, r2, Gives(v4))>>, <<fill>>) :
         m \in {"filter"}, fn \in {Gives(TRUE), Gives(FALSE), Throws},
         fill \in FillP1}
    \cup
    {Start(<<morphism("mapFailure", p1, r1, fn)>>, <<fill>>) :
         fn \in {Gives(e3), Throws},
         fill \in FillP1}
    \cup
    {Start(<<morphism(m, p1, r1, GivesFuture(p2)), fills[1]>>, <<fills[2]>>) :
         m \in {"flatMap", "recoverWith"}, fills \in Fills}
    \cup
    {Start(<<morphism(m, p1, r1, fn)>> \o next, <<fill>>) :
         m \in {"flatMap", "recoverWith"}, fill \in FillP1,
         fn \in {GivesFailure(e3)}, next \in {<<andThenValue(p1, r2, v3), recoverValue(r1, r3, v4)>>}}
    \cup
    {Start(<<morphism(m, p1, r1, fn)>>, <<fill>>) :
         m \in {"map", "flatMap", "recoverWith"}, fill \in FillP1,
         fn \in {Throws, ThrowsAfterFailure(e3)}}

\* Elements that make the function return, fail twice, throw, or fail and throw
\* last, over vectors, sets and maps; and futures of them made into others.
Eachs == {[v \in MCAtoms |-> CASE v \in bad -> GivesFailure(v) [] v \in worse -> Throws
                                [] OTHER -> Gives(<<v4, v>>)] :
            bad \in {{}, {v1}, {v1, v2}}, worse \in {{}, {v3}, {v1}}}
Tests == {[x \in MCAtoms \cup (MCAtoms \X MCAtoms) |->
             IF x \in bad THEN GivesFailure(e3) ELSE Gives(x \in kept)] :
            bad \in {{}, {v1}}, kept \in {{}, {v1, v3, <<v1, v3>>}}}
Vectors == {<<>>, <<v1, v2, v3>>, <<v2, v2, v1>>}
Sources == {vector(s) : s \in Vectors} \cup {set({v1, v2}), assoc([k \in {v1, v2} |-> v3])}
Traversed1 ==
    {innerMap(p1, r1, each, dest) : each \in Eachs,
        dest \in {vector(<<>>), set({v4}), assoc([k \in {v1} |-> v2])}}
    \cup {innerReduce(p1, r1, each, vector(<<v4>>)) : each \in Eachs}
InnerMorphed ==
    {Start(<<call>>, <<fillSuccess(p1, vector(s))>>) : call \in Traversed1, s \in Vectors}
    \cup {Start(<<innerFilter(p1, r1, test)>>, <<fillSuccess(p1, src)>>) :
         test \in Tests, src \in Sources}
    \cup {Start(<<innerFlatten(p1, r1, dest)>>,
               <<fillSuccess(p1, vector(<<vector(<<v1, v2>>), vector(<<>>), vector(<<v2>>)>>))>>) :
         dest \in {vector(<<v4>>), set({})}}

Zipped ==
    {Start(<<zip(p1, <<p2>>, <<r1, r2>>, r3), zip(r3, others, <<r4, r5>>, s1), fills[1]>>,
           <<fills[2]>>) :
         others \in {<<>>, <<p1>>}, fills \in Fills \cup (FillP2 \X FillP1)}
    \cup {Start(<<fills[1], zip(p2, <<p1, p2>>, <<r1, r2, r3, r4>>, s1)>>, <<fills[2]>>) :
         fills \in Fills}

\* Tasks of every kind, one canceled by another thread; a worker may run a task
\* after one that has left a failure behind.
Tasks ==
    {Start(<<run(r1, fn), run(r2, Gives(v4)), morphism("map", r1, r3, Gives(v3))>>,
           <<cancel(r1)>>) :
         fn \in {Gives(v3), GivesFailure(e3), Throws, ThrowsAfterFailure(e3)}}
    \cup
    {Start(<<run(r1, GivesFuture(p2)), cancel(r1), trampoline(r1, r2)>>, <<fill>>) :
         fill \in FillP2}
    \cup {Start(<<runAll(<<r1, r2>>, fns, s1), trampoline(s1, r3)>>, <<>>) :
         fns \in {<<Gives(v3), Gives(v4)>>, <<Gives(v3), GivesFailure(e3)>>,
                 <<GivesFailure(e2), GivesFailure(e3)>>}}

\* Two calls whose managing tasks need a worker each, and another for the
\* cluster they wait for.
TwoManagers(data) ==
    Start(<<clusteredRun(data, 1, <<r1>>, s1)>>, <<clusteredRun(data, 1, <<r2>>, r3)>>)

\* Four elements, any of which may fail, cut in three, two or one; canceled by
\* another thread.
Clustered ==
    {Start(<<clusteredRun([i \in 1 .. 4 |-> IF i \in DOMAIN odd THEN odd[i]
                                            ELSE Gives(<<v1, v2, v3, v4>>[i])],
                          size, <<r1, r2>>, s1)>>, <<>>) :
         size \in {0, 2, 5},
         odd \in UNION {[is -> {GivesFailure(e3), Throws}] :
                          is \in {{}, {1}, {2}, {4}, {1, 2}, {1, 4}}}
                \cup [{4} -> {ThrowsAfterFailure(e3)}] \cup [{1} -> {ThrowsAfterFailure(e3)}]}
    \cup
    {Start(<<clusteredRun([i \in 1 .. 4 |-> Gives(v3)], 1, <<r1, r2>>, s1)>>, <<cancel(s1)>>),
     Start(<<clusteredRun(<<>>, 1, <<>>, s1)>>, <<>>)}
    \cup {TwoManagers(<<Gives(v1), GivesFailure(e3)>>)}

\* Steps that continue on the thread, on the one that fills, or bounce.
Repeated ==
    {Start(<<repeatData(<<Gives(Continue), fn>>, 1, s1)>>, <<>>) :
         fn \in {Gives(v3), GivesFailure(e3), Throws, ThrowsAfterFailure(e3)}}
    \cup
    {Start(<<repeat(<<GivesFuture(p1), last>>, 1, <<r1, r2>>, <<r3>>), fill>>,
           <<fillSuccess(p1, more)>>) :
         last \in {GivesFuture(p2), Throws, GivesFailure(e3)}, fill \in FillP2,
         more \in {Continue, TrampolinedContinue, v3}}
    \cup
    {Start(<<repeatForSequence(steps, v3, s1), fills[1]>>, <<fills[2]>>) :
         steps \in {<<>>, <<GivesFuture(p1), GivesFuture(p2)>>, <<GivesFuture(p2), GivesFuture(p1)>>,
                    <<GivesFuture(p1), Throws>>, <<GivesFuture(p1), GivesFailure(e3)>>},
         fills \in Fills}

AllPrograms == Sequenced \cup Morphed \cup InnerMorphed \cup Zipped \cup Tasks \cup Clustered \cup Repeated

\* The function throws after a WithFailure, or is a predicate that answers one;
\* another callback follows.
LeakPrograms ==
    {Start(<<callback, andThenValue(p1, r2, v3)>>, <<fillSuccess(p1, v1)>>) :
         callback \in {morphism("filter", p1, r1, GivesFailure(e3)),
                       morphism("map", p1, r1, ThrowsAfterFailure(e3))}}

\* As many managing tasks at a time as the subpool has workers.
MCTwoWorkers == {w1, w2}
ManagersPrograms == {TwoManagers(<<Gives(v1), Gives(v2)>>)}

\* Nobody has anything left to do: programs end.
Ended == (\A t \in Threads : stack[t] = <<>>) /\ queued = {}
MCNext == Next \/ (Ended /\ UNCHANGED vars)
MCSpec == Init /\ [][MCNext]_vars /\ \A t \in Threads : WF_vars(Step(t))
=============================================================================
