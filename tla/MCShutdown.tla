------------------------------ MODULE MCShutdown ------------------------------
(* Instances of Shutdown for TLC. *)
EXTENDS Shutdown

\* Tasks differ in name only, so they may as well come in this order.
TasksByNumber == \A i \in DOMAIN given : given[i] = i

\* The dispatcher is gone and its clients are where they may end: in user code
\* or about to use the worker that is no more.
Ended == /\ within[Destroyer] = "gone"
         /\ \A g \in Givers : within[g] \in {"none", "handOver"} /\ pc[g] = "idle"
MCNext == \/ ShutdownNext /\ TasksByNumber'
          \/ Ended /\ UNCHANGED shutdownVars
MCSpec == ShutdownInit /\ [][MCNext]_shutdownVars /\ ShutdownFairness
=============================================================================
