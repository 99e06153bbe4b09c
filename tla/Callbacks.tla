------------------------------ MODULE Callbacks ------------------------------
(***************************************************************************)
(* Many futures and the threads that fill them and register on them, each  *)
(* thread with its stack of calls.  Future has one future in every detail  *)
(* of its lock; here a fill and a registration are one step each, which is *)
(* what their critical sections make of them, and what they call is put on *)
(* the stack of the thread that called them.                               *)
(*                                                                         *)
(* A call is a record with the field op and its arguments: the operators   *)
(* in lower case make calls, the actions of the same names run them.       *)
(***************************************************************************)
EXTENDS Integers, Sequences, FiniteSets

CONSTANTS Threads, Futures

VARIABLES outcome,      \* None, or what the future is filled with
          callbacks,    \* those registered for success (TRUE) and for failure of a future
          stack,        \* what each thread is to do, innermost call first
          lastFailure,  \* per thread: None, or the one WithFailure left
          asked         \* history: the calls that promise to fill a future

\* Neither an outcome nor a failure nor a future: the empty function, which no
\* record is.
None == <<>>

Success(v) == [ok |-> TRUE, is |-> v]
Failure(e) == [ok |-> FALSE, is |-> e]

(* The calls. *)
fillSuccess(f, v) == [op |-> "fillSuccess", to |-> f, value |-> v]
fillFailure(f, e) == [op |-> "fillFailure", to |-> f, reason |-> e]
onSuccess(f, call) == [op |-> "on", from |-> f, ok |-> TRUE, call |-> call]
onFailure(f, call) == [op |-> "on", from |-> f, ok |-> FALSE, call |-> call]
\* Both callbacks that fill one future with what another was filled with.
forward(f, g) == [op |-> "forward", from |-> f, to |-> g]
wait(f) == [op |-> "wait", from |-> f]

Call(t) == Head(stack[t])
Calls(t, op) == stack[t] # <<>> /\ Call(t).op = op

\* The call of t ends and calls, in this order, come before what it was called by.
Return(t, calls) == stack' = [stack EXCEPT ![t] = calls \o Tail(@)]
Ask(t) == asked' = asked \cup {Call(t)}

NoCallbacks == [ok \in BOOLEAN |-> <<>>]

Fill(t, f, o) ==
    IF outcome[f] # None
    THEN Return(t, <<>>) /\ UNCHANGED <<outcome, callbacks>>
    ELSE /\ outcome' = [outcome EXCEPT ![f] = o]
         /\ callbacks' = [callbacks EXCEPT ![f] = NoCallbacks]
         /\ Return(t, callbacks[f][o.ok])

FillSuccess(t) ==
    /\ Calls(t, "fillSuccess")
    /\ Fill(t, Call(t).to, IF lastFailure[t] = None THEN Success(Call(t).value)
                                                   ELSE Failure(lastFailure[t]))
    /\ lastFailure' = [lastFailure EXCEPT ![t] = None]
    /\ UNCHANGED asked

FillFailure(t) ==
    /\ Calls(t, "fillFailure")
    /\ Fill(t, Call(t).to, Failure(Call(t).reason))
    /\ UNCHANGED <<lastFailure, asked>>

Forward(t) ==
    /\ Calls(t, "forward")
    /\ LET c == Call(t)
           o == outcome[c.from]
       IN  Return(t, IF o.ok THEN <<fillSuccess(c.to, o.is)>>
                             ELSE <<fillFailure(c.to, o.is)>>)
    /\ UNCHANGED <<outcome, callbacks, lastFailure, asked>>

\* Mutant: the callback is filed without a look at the state under the lock.
MutantRegister(t) ==
    /\ Calls(t, "on")
    /\ LET c == Call(t) IN
         callbacks' = [callbacks EXCEPT ![c.from][c.ok] = Append(@, c.call)]
    /\ Return(t, <<>>)
    /\ UNCHANGED <<outcome, lastFailure, asked>>

Register(t) ==
    /\ Calls(t, "on")
    /\ LET c == Call(t)
           o == outcome[c.from]
       IN  \/ /\ o = None
              /\ callbacks' = [callbacks EXCEPT ![c.from][c.ok] = Append(@, c.call)]
              /\ Return(t, <<>>)
           \/ /\ o # None
              /\ Return(t, IF o.ok = c.ok THEN <<c.call>> ELSE <<>>)
              /\ UNCHANGED callbacks
    /\ UNCHANGED <<outcome, lastFailure, asked>>

\* The thread sleeps until the future is filled.
Wait(t) ==
    /\ Calls(t, "wait")
    /\ outcome[Call(t).from] # None
    /\ Return(t, <<>>)
    /\ UNCHANGED <<outcome, callbacks, lastFailure, asked>>

CallbackStep(t) ==
    FillSuccess(t) \/ FillFailure(t) \/ Forward(t) \/ Register(t) \/ Wait(t)
=============================================================================
