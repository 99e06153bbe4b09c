-------------------------- MODULE MCDispatcherQueue --------------------------
(* Instances of DispatcherQueue for TLC. *)
EXTENDS DispatcherQueue, MCDispatcher

\* An ordinary task between two urgent ones and one that can wait.
QueuePriorities == <<15, 0, 15, 240, 15>>

\* Clients differ in name only, and so do the two tasks of tag 1: who comes
\* first and which of the two does is fixed.
CONSTANT FirstClient
FirstOfTag == 3
SecondOfTag == 5
NamesInOrder ==
    /\ submitted = {} => \A c \in Clients \ {FirstClient} : pc'[c] = pc[c]
    /\ SecondOfTag \in submitted' => FirstOfTag \in submitted'

MCQueueNext == \/ QueueNext /\ NamesInOrder
               \/ AllDone /\ UNCHANGED queueVars
MCQueueSpec == QueueInit /\ [][MCQueueNext]_queueVars /\ Fairness
=============================================================================
