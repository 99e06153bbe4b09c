--------------------------- MODULE FutureContract ---------------------------
(***************************************************************************)
(* What a Future promises to those who use it, whatever the threads do: it *)
(* is resolved once, and every callback is delivered once if the outcome   *)
(* is one it was registered for.  There are no locks, lists or threads.    *)
(***************************************************************************)
EXTENDS FiniteSets

CONSTANTS Callbacks, Values, Failures, None

VARIABLES outcome,    \* None until the future is resolved
          wants,      \* the outcomes each callback was registered for
          delivered   \* the callbacks that have been called

vars == <<outcome, wants, delivered>>

Init == outcome = None /\ wants = [c \in Callbacks |-> {}] /\ delivered = {}

Resolve ==
    /\ outcome = None
    /\ outcome' \in Values \cup Failures
    /\ UNCHANGED <<wants, delivered>>

Register(c) ==
    /\ wants[c] = {}
    /\ \E w \in {Values, Failures, Values \cup Failures} :
         wants' = [wants EXCEPT ![c] = w]
    /\ UNCHANGED <<outcome, delivered>>

Deliver(c) ==
    /\ outcome \in wants[c] /\ c \notin delivered
    /\ delivered' = delivered \cup {c}
    /\ UNCHANGED <<outcome, wants>>

Next == Resolve \/ \E c \in Callbacks : Register(c) \/ Deliver(c)

Safety == Init /\ [][Next]_vars

Spec == Safety /\ \A c \in Callbacks : WF_vars(Deliver(c))
=============================================================================
