-------------------------------- MODULE Repeat --------------------------------
(***************************************************************************)
(* repeat and repeatForSequence: loops whose next step may have to wait    *)
(* for a future, and then go on in a callback on it.                       *)
(***************************************************************************)
EXTENDS TaskRunner

CONSTANTS Continue, TrampolinedContinue   \* anything else a step gives is its Finish

(* steps is what the user's function does the first time it is called, the  *)
(* second and so on; tos and via are the futures it is called to fill, and  *)
(* those of the trampolines.                                                *)
repeatData(steps, k, to) == [op |-> "repeatData", steps |-> steps, k |-> k, to |-> to]
repeat(steps, k, tos, via) ==
    [op |-> "repeat", steps |-> steps, k |-> k, tos |-> tos, via |-> via, to |-> tos[k]]
nextStep(c) == [op |-> "nextStep", of |-> c]
repeatForSequence(steps, initial, to) ==
    [op |-> "repeatForSequence", steps |-> steps, initial |-> initial, to |-> to]
iterateSequenceRepeater(c, current, result) ==
    [op |-> "iterateSequenceRepeater", call |-> c, current |-> current, result |-> result]
\* The callback on the future of a step: its value is the result so far.
resume(c, current) == [op |-> "resume", call |-> c, current |-> current]

\* The last failure after an exception: fillFailure does not consume it.
LeftByThrow(fn, before) == IF fn.does = "WithFailure, throw" THEN fn.is ELSE before

\* A function that returns data: the loop stays on the thread, and forgets any
\* failure that was left there before it calls the function.
RepeatData(t) ==
    /\ Calls(t, "repeatData")
    /\ IF Call(t).k = 1 THEN Ask(t) ELSE UNCHANGED asked
    /\ LET c == Call(t)
           fn == c.steps[c.k]
       IN  Return(t,
             CASE fn.does = "return" /\ fn.is = Continue -> <<[c EXCEPT !.k = @ + 1]>>
               [] fn.does = "return" /\ fn.is # Continue -> <<fillSuccess(c.to, fn.is)>>
               [] fn.does = "WithFailure" -> <<fillFailure(c.to, fn.is)>>
               [] OTHER -> <<fillFailure(c.to, Exception)>>)
    /\ lastFailure' = [lastFailure EXCEPT ![t] = LeftByThrow(Call(t).steps[Call(t).k], None)]
    /\ UNCHANGED <<outcome, callbacks, queued>>

\* A function that returns a future: flatMap with what is to come after it.
RepeatFuture(t) ==
    /\ Calls(t, "repeat")
    /\ Ask(t)
    /\ LET c == Call(t)
           fn == c.steps[c.k]
       IN  /\ Return(t,
                CASE fn.does = "future" ->
                       <<onSuccess(fn.is, nextStep(c)), onFailure(fn.is, forward(fn.is, c.to))>>
                  [] fn.does = "WithFailure" -> <<fillFailure(c.to, fn.is)>>
                  [] OTHER -> <<fillFailure(c.to, Exception)>>)
           /\ lastFailure' = [lastFailure EXCEPT ![t] = LeftByThrow(fn, @)]
    /\ UNCHANGED <<outcome, callbacks, queued>>

Flattened(f, g) == <<onSuccess(f, forward(f, g)), onFailure(f, forward(f, g))>>

\* The user's function is called as often as there are steps (a bound).
NextStep(t) ==
    /\ Calls(t, "nextStep")
    /\ LET c == Call(t).of
           result == outcome[c.steps[c.k].is].is
           next == repeat(c.steps, c.k + 1, c.tos, c.via)
       IN  /\ result \in {Continue, TrampolinedContinue} => c.k < Len(c.steps)
           /\ Return(t,
                CASE result = Continue -> <<next>> \o Flattened(next.to, c.to)
                  [] result = TrampolinedContinue ->
                       <<next, trampoline(next.to, c.via[c.k])>> \o Flattened(c.via[c.k], c.to)
                  [] OTHER -> <<fillSuccess(c.to, result)>>)
    /\ UNCHANGED <<outcome, callbacks, lastFailure, asked, queued>>

RepeatForSequence(t) ==
    /\ Calls(t, "repeatForSequence")
    /\ Ask(t)
    /\ Return(t, <<iterateSequenceRepeater(Call(t), 1, Call(t).initial)>>)
    /\ UNCHANGED <<outcome, callbacks, lastFailure, queued>>

\* The function is called for the next element; the loop goes on with what it
\* gives if that is filled, else in the callback.  As in repeat, a WithFailure
\* is returned as a future that has failed.
RepeaterElement(t) ==
    /\ Calls(t, "iterateSequenceRepeater")
    /\ LET i == Call(t)
           fn == i.call.steps[i.current]
       IN  /\ i.current <= Len(i.call.steps)
           /\ Return(t,
                CASE fn.does = "WithFailure" -> <<fillFailure(i.call.to, fn.is)>>
                  [] fn.does \notin {"future", "WithFailure"} ->
                       <<fillFailure(i.call.to, Exception)>>
                  [] fn.does = "future" /\ outcome[fn.is] = None ->
                       <<onSuccess(fn.is, resume(i.call, i.current + 1)),
                         onFailure(fn.is, forward(fn.is, i.call.to))>>
                  [] fn.does = "future" /\ outcome[fn.is] # None /\ ~outcome[fn.is].ok ->
                       <<fillFailure(i.call.to, outcome[fn.is].is)>>
                  [] OTHER -> <<iterateSequenceRepeater(i.call, i.current + 1, outcome[fn.is].is)>>)
           /\ lastFailure' = [lastFailure EXCEPT ![t] = LeftByThrow(fn, @)]
    /\ UNCHANGED <<outcome, callbacks, asked, queued>>

RepeaterEnd(t) ==
    /\ Calls(t, "iterateSequenceRepeater")
    /\ LET i == Call(t) IN
         /\ i.current > Len(i.call.steps)
         /\ Return(t, <<fillSuccess(i.call.to, i.result)>>)
    /\ UNCHANGED <<outcome, callbacks, lastFailure, asked, queued>>

RepeaterResume(t) ==
    /\ Calls(t, "resume")
    /\ LET r == Call(t) IN
         Return(t, <<iterateSequenceRepeater(r.call, r.current,
                        outcome[r.call.steps[r.current - 1].is].is)>>)
    /\ UNCHANGED <<outcome, callbacks, lastFailure, asked, queued>>

RepeatStep(t) ==
    \/ RepeatData(t) \/ RepeatFuture(t) \/ NextStep(t) \/ RepeatForSequence(t)
    \/ RepeaterElement(t) \/ RepeaterEnd(t) \/ RepeaterResume(t)

(***************************************************************************)
(* What the futures are to be filled with: the first step that does not    *)
(* continue decides, and None as long as there is none.                    *)
(***************************************************************************)
StepGives(fn) ==
    CASE fn.does = "future" -> outcome[fn.is]
      [] fn.does = "return" -> Success(fn.is)
      [] fn.does = "WithFailure" -> Failure(fn.is)
      [] OTHER -> Failure(Exception)

FirstThatStops(steps, from, Goes(_)) ==
    LET stops == {i \in from .. Len(steps) : ~Goes(StepGives(steps[i]))}
    IN  IF stops = {} THEN None
        ELSE StepGives(steps[CHOOSE i \in stops : \A j \in stops : i <= j])

RepeatAnswer(c) ==
    FirstThatStops(c.steps, c.k, LAMBDA o : o \in {Success(Continue), Success(TrampolinedContinue)})

RepeatForSequenceAnswer(c) ==
    IF c.steps = <<>> THEN Success(c.initial)
    ELSE IF \A i \in DOMAIN c.steps : StepGives(c.steps[i]) # None /\ StepGives(c.steps[i]).ok
         THEN StepGives(c.steps[Len(c.steps)])
         ELSE FirstThatStops(c.steps, 1, LAMBDA o : o # None /\ o.ok)
=============================================================================
