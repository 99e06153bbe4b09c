------------------------------ MODULE MCFuture ------------------------------
(* Instances of Future for TLC. *)
EXTENDS Future

\* Threads that fill and cancel, that convert a WithFailure, that register
\* callbacks and wait: a thread may be of several kinds.
CONSTANTS Fillers, Converters, Registrars

MCCall(t) ==
    \/ t \in Converters /\ \E f \in Failures : UseWithFailure(t, f)
    \/ t \in Fillers /\ \E f \in Failures : Cancel(t, f)
    \/ t \in Fillers /\ \E v \in Values \cup Failures : StartFill(t, v)
    \/ t \in Registrars /\ \E c \in Callbacks, k \in Kinds : Register(t, c, k)
    \/ \E why \in {"expired", "spurious"} : Unasked(t, why)

MCNext == \E t \in Threads : Continue(t) \/ MCCall(t)
MCSpec == Init /\ [][MCNext]_vars /\ \A t \in Threads : WF_vars(Continue(t))
=============================================================================
