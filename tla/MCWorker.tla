------------------------------ MODULE MCWorker ------------------------------
(* Instances of Worker for TLC. *)
EXTENDS Worker

\* The worker is destroyed and its givers have gone: the one way all may stop.
Destroyed == /\ pc[Destroyer] = "joined"
             /\ \A g \in Givers : pc[g] = "idle"
MCNext == Next \/ (Destroyed /\ UNCHANGED vars)
MCSpec == Init /\ [][MCNext]_vars /\ Fairness
=============================================================================
