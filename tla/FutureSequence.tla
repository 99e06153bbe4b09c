---------------------------- MODULE FutureSequence ----------------------------
(***************************************************************************)
(* sequence and sequenceWithFailures: one future for a container of them.  *)
(* Whoever calls goes over the futures that are filled; at the first that  *)
(* is not, the iterator, the container and the result so far move into a   *)
(* callback on it, and the thread that fills it goes on.                   *)
(***************************************************************************)
EXTENDS Morphisms

(* of is the container; via are the two futures between each element and   *)
(* the callback of sequenceWithFailures.                                   *)
sequence(of, to) == [op |-> "sequence", of |-> of, to |-> to]
sequenceWithFailures(of, via, to) ==
    [op |-> "sequenceWithFailures", of |-> of, via |-> via, to |-> to]
iterateSequence(c, current, result) ==
    [op |-> "iterateSequence", call |-> c, current |-> current, result |-> result]

StartSequence(t) ==
    /\ Calls(t, "sequence") \/ Calls(t, "sequenceWithFailures")
    /\ Ask(t)
    /\ Return(t, <<iterateSequence(Call(t), 1, <<>>)>>)
    /\ UNCHANGED <<outcome, callbacks, lastFailure>>

\* All futures of the container have been gone over.
SequenceEnd(t) ==
    /\ Calls(t, "iterateSequence")
    /\ LET i == Call(t) IN
         /\ i.current > Len(i.call.of)
         /\ Return(t, <<fillSuccess(i.call.to, i.result)>>)
    /\ UNCHANGED <<outcome, callbacks, lastFailure, asked>>

\* Mutant: no return after the failure has been passed on.
MutantSequencePass(t) ==
    /\ Calls(t, "iterateSequence")
    /\ LET i == Call(t) IN
         /\ i.current <= Len(i.call.of)
         /\ LET o == outcome[i.call.of[i.current]]
                next == iterateSequence(i.call, i.current + 1, Append(i.result, o))
            IN  /\ o # None
                /\ Return(t, IF i.call.op = "sequence" /\ ~o.ok
                             THEN <<fillFailure(i.call.to, o.is), next>>
                             ELSE <<next>>)
    /\ UNCHANGED <<outcome, callbacks, lastFailure, asked>>

\* The loop passes a future that is filled; sequence ends at one that failed.
SequencePass(t) ==
    /\ Calls(t, "iterateSequence")
    /\ LET i == Call(t) IN
         /\ i.current <= Len(i.call.of)
         /\ LET o == outcome[i.call.of[i.current]] IN
              /\ o # None
              /\ Return(t, IF i.call.op = "sequence" /\ ~o.ok
                           THEN <<fillFailure(i.call.to, o.is)>>
                           ELSE <<iterateSequence(i.call, i.current + 1, Append(i.result, o))>>)
    /\ UNCHANGED <<outcome, callbacks, lastFailure, asked>>

\* The loop is left for a future that is not filled; it may be by the time
\* the callbacks are registered.
SequenceWait(t) ==
    /\ Calls(t, "iterateSequence")
    /\ LET i == Call(t) IN
         /\ i.current <= Len(i.call.of)
         /\ LET f == i.call.of[i.current] IN
              /\ outcome[f] = None
              /\ IF i.call.op = "sequence"
                 THEN Return(t, <<onSuccess(f, i), onFailure(f, forward(f, i.call.to))>>)
                 ELSE LET v == i.call.via[i.current] IN
                      Return(t, <<andThenValue(f, v[1], TRUE),
                                  recoverValue(v[1], v[2], TRUE),
                                  onSuccess(v[2], i)>>)
    /\ UNCHANGED <<outcome, callbacks, lastFailure, asked>>

SequenceStep(t) ==
    StartSequence(t) \/ SequenceEnd(t) \/ SequencePass(t) \/ SequenceWait(t)

(***************************************************************************)
(* What a sequence is to be filled with: the first failure, even while     *)
(* futures behind it are not filled, or what all of them are filled with.  *)
(* Results are kept as outcomes, in the order of the container; those of   *)
(* sequenceWithFailures carry index and value in one or the other map.     *)
(***************************************************************************)
SequenceAnswer(c) ==
    LET os == [i \in DOMAIN c.of |-> outcome[c.of[i]]]
        passed(n) == \A i \in 1 .. n : os[i] # None /\ (os[i].ok \/ c.op # "sequence")
        failed == {i \in DOMAIN os : passed(i - 1) /\ os[i] # None /\ ~os[i].ok}
    IN  CASE c.op = "sequence" /\ failed # {} -> os[CHOOSE i \in failed : TRUE]
          [] passed(Len(os)) -> Success(os)
          [] OTHER -> None
=============================================================================
