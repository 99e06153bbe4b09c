---------------------------- MODULE MCDispatcher ----------------------------
(* Instances of Dispatcher for TLC.  Tasks are numbered, so that a tuple     *)
(* gives the type, the tag or the priority of each.                          *)
EXTENDS Dispatcher

\* Two intensive tasks, one of them urgent, and two tags to bind, one of them
\* with two tasks.
MixTasks == 1..5
MixTypes == <<"Intensive", "Intensive", "ThreadBound", "ThreadBound",
              "ThreadBound">>
MixTags == <<2, -1, 1, 2, 1>>

\* Two tasks of a custom tag that is paused and resized, and one to bind.
SetTasks == 1..3
SetTypes == <<"Custom", "Custom", "ThreadBound">>
SetTags == <<1, 1, 1>>
SetPriorities == <<15, 0, 15>>
SetCapacities == {<<1, 2>>, <<1, 0>>}

\* All that was submitted has ended: the one way the program may stop.
AllDone == /\ \A c \in Clients : pc[c] = "idle"
           /\ submitted = Tasks /\ finished = Tasks
           /\ \A w \in Workers : pc[w] \in {"none", "pop"} /\ workerTasks[w] = <<>>
MCNext == Next \/ (AllDone /\ UNCHANGED vars)
MCSpec == Init /\ [][MCNext]_vars /\ Fairness

Symmetry == Permutations(Clients)
=============================================================================
