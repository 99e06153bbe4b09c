------------------------------ MODULE TaskRunner ------------------------------
(***************************************************************************)
(* run, runAndForget, run over a container, cancel and Trampoline: calls   *)
(* that go to a worker, and what they do there.  The dispatcher is what    *)
(* Dispatcher shows it to be: a task given to it is run once, by a worker  *)
(* that has nothing else to do.                                            *)
(***************************************************************************)
EXTENDS FutureSequence

CONSTANTS Workers, Canceled
ASSUME WorkersAreThreads == Workers \subseteq Threads

VARIABLE queued   \* the tasks the dispatcher has and no worker runs

\* body is what fills the future, once a worker runs it.
runBody(f, body) == [op |-> "run", to |-> f, body |-> body]
run(f, fn) == runBody(f, apply("run", None, f, fn))
wrapped(c) == [op |-> "wrapped", run |-> c]
runAndForget(call) == [op |-> "runAndForget", task |-> call]
\* fns is what the user's function does for each element, or each index and element.
runAll(fs, fns, to) == [op |-> "runAll", of |-> fs, fns |-> fns, to |-> to]
trampoline(f, g) == [op |-> "trampoline", from |-> f, to |-> g]
cancel(f) == [op |-> "cancel", to |-> f]

RunTask(t) ==
    /\ Calls(t, "run")
    /\ Ask(t)
    /\ queued' = queued \cup {wrapped(Call(t))}
    /\ Return(t, <<>>)
    /\ UNCHANGED <<outcome, callbacks, lastFailure>>

RunAndForget(t) ==
    /\ Calls(t, "runAndForget")
    /\ queued' = queued \cup {Call(t).task}
    /\ Return(t, <<>>)
    /\ UNCHANGED <<outcome, callbacks, lastFailure, asked>>

\* run over data: one task each, and the sequence of their futures.
RunAll(t) ==
    /\ Calls(t, "runAll")
    /\ LET c == Call(t) IN
         Return(t, [i \in DOMAIN c.of |-> run(c.of[i], c.fns[i])] \o <<sequence(c.of, c.to)>>)
    /\ UNCHANGED <<outcome, callbacks, lastFailure, asked, queued>>

TakeTask(t) ==
    /\ t \in Workers /\ stack[t] = <<>>
    /\ \E task \in queued :
         /\ queued' = queued \ {task}
         /\ stack' = [stack EXCEPT ![t] = <<task>>]
    /\ UNCHANGED <<outcome, callbacks, lastFailure, asked>>

\* Mutant: the failure of the task before is not forgotten.
MutantWrapped(t) ==
    /\ Calls(t, "wrapped")
    /\ LET c == Call(t).run IN
         Return(t, IF outcome[c.to] # None THEN <<>> ELSE <<c.body>>)
    /\ UNCHANGED <<outcome, callbacks, lastFailure, asked, queued>>

\* What run makes of a task: nothing if it has been canceled; otherwise no
\* failure is left from before, and the promise gets what the task gives.
Wrapped(t) ==
    /\ Calls(t, "wrapped")
    /\ LET c == Call(t).run IN
         IF outcome[c.to] # None
         THEN Return(t, <<>>) /\ UNCHANGED lastFailure
         ELSE /\ Return(t, <<c.body>>)
              /\ lastFailure' = [lastFailure EXCEPT ![t] = None]
    /\ UNCHANGED <<outcome, callbacks, asked, queued>>

Cancel(t) ==
    /\ Calls(t, "cancel")
    /\ Ask(t)
    /\ LET c == Call(t) IN
         Return(t, IF outcome[c.to] # None THEN <<>> ELSE <<fillFailure(c.to, Canceled)>>)
    /\ UNCHANGED <<outcome, callbacks, lastFailure, queued>>

\* Mutant: only the value bounces.
MutantTrampoline(t) ==
    /\ Calls(t, "trampoline")
    /\ Ask(t)
    /\ LET c == Call(t)
           bounce == runAndForget(forward(c.from, c.to))
       IN  Return(t, <<onSuccess(c.from, bounce)>>)
    /\ UNCHANGED <<outcome, callbacks, lastFailure, queued>>

Trampoline(t) ==
    /\ Calls(t, "trampoline")
    /\ Ask(t)
    /\ LET c == Call(t)
           bounce == runAndForget(forward(c.from, c.to))
       IN  Return(t, <<onSuccess(c.from, bounce), onFailure(c.from, bounce)>>)
    /\ UNCHANGED <<outcome, callbacks, lastFailure, queued>>

TaskStep(t) == \/ RunTask(t) \/ RunAndForget(t) \/ RunAll(t) \/ TakeTask(t)
               \/ Wrapped(t) \/ Cancel(t) \/ Trampoline(t)
=============================================================================
