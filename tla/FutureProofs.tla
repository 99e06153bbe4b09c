---------------------------- MODULE FutureProofs ----------------------------
(***************************************************************************)
(* Proofs about a Future/Promise pair, for any threads, callbacks, values  *)
(* and failures, with and without spurious wake-ups.  First its state:  it *)
(* is filled once, and by one thread at a time.  Then what becomes of its  *)
(* callbacks: each is called at most once and with the outcome, none is    *)
(* lost in a race with a fill, none outlives the wait() that it belongs    *)
(* to, and the future implements its contract, for any number of them.     *)
(***************************************************************************)
EXTENDS Future, TLAPS, SequenceTheorems

-----------------------------------------------------------------------------
(* The inductive invariant *)

\* mainLock is held over the steps of a fill, by the thread that fills.
Locking == \A t \in Threads : pc[t] \in {"fillValue", "fillState", "fillTake"} <=> mainLock = t

\* What a fill has done when it is at a step.  The future is not completed
\* until its holder of the lock writes the state, over a value of its own.
Filling == \A t \in Threads :
    /\ pc[t] = "fillSuccess" => arg[t] \in Values
    /\ pc[t] = "fillFailure" => arg[t] \in Failures
    /\ pc[t] \in {"fillValue", "fillState"} => ~Completed /\ arg[t] \in Values \cup Failures
    /\ pc[t] = "fillState" => value = arg[t]
    /\ pc[t] = "fillTake" => Completed

\* Callbacks are called when the future is completed, from a list that has one.
Calling == \A t \in Threads :
    /\ pc[t] \in {"runFill", "runSuccess", "runFailure", "cbUnlock", "cbNotify", "cbExit"} =>
         Completed
    /\ pc[t] \in {"cbUnlock", "cbNotify", "cbExit"} => running[t] # <<>>

\* A registration, or a wait(), is for a callback that has a kind.
Registering == \A t \in Threads :
    pc[t] \in {"onSuccess", "runSuccess", "onFailure", "runFailure", "block", "asleep", "spin"} =>
        reg[t] \in Callbacks /\ kind[reg[t]] # "none"

\* What lets a wait() go on is only set by a callback being called, and an
\* answer is only given to a wait().
Releasing == \A c \in Callbacks :
    /\ canExit[c] \/ sameThread[c] => Completed
    /\ kind[c] = "none" => answer[c] = "none"

IInv == TypeOK /\ Locking /\ Filling /\ Calling /\ Registering /\ Releasing
          /\ CompletedHasValue
-----------------------------------------------------------------------------
(* Preservation *)

\* What the invariant says of each thread and each callback, for the provers.
LEMMA Types ==
  ASSUME IInv
  PROVE  /\ pc \in [Threads -> Labels] /\ arg \in [Threads -> Values \cup Failures \cup {None}]
         /\ reg \in [Threads -> Callbacks \cup {None}] /\ running \in [Threads -> Seq(Callbacks)]
         /\ kind \in [Callbacks -> Kinds \cup {"none"}]
         /\ canExit \in [Callbacks -> BOOLEAN] /\ sameThread \in [Callbacks -> BOOLEAN]
         /\ answer \in [Callbacks -> {"none", "true", "false"}]
         /\ None \notin Threads /\ None \notin Callbacks
         /\ None \notin Values /\ None \notin Failures /\ Values \cap Failures = {}
BY FutureAssumption DEF IInv, TypeOK

\* A thread that calls callbacks has the first of them, and a rest.
LEMMA FirstOfRunning ==
  ASSUME IInv, NEW t \in Threads, running[t] # <<>>
  PROVE  Head(running[t]) \in Callbacks /\ Tail(running[t]) \in Seq(Callbacks)
BY Types, HeadTailProperties

LEMMA InitIInv == Init => IInv
<1> SUFFICES ASSUME Init PROVE IInv
  OBVIOUS
<1> USE FutureAssumption DEF Init
<1>1. TypeOK
  <2>1. /\ successCallbacks \in Seq(Callbacks) /\ failureCallbacks \in Seq(Callbacks)
        /\ running \in [Threads -> Seq(Callbacks)]
        /\ calls \in [Callbacks -> Seq(Values \cup Failures)]
    BY EmptySeq
  <2>2. pc \in [Threads -> Labels]
    BY DEF Labels
  <2>3. /\ state = "NotCompleted" /\ value = None /\ mainLock = None
        /\ lastFailure \in [Threads -> Failures \cup {None}]
        /\ arg \in [Threads -> Values \cup Failures \cup {None}]
        /\ reg \in [Threads -> Callbacks \cup {None}]
    OBVIOUS
  <2>4. /\ kind \in [Callbacks -> Kinds \cup {"none"}]
        /\ owner \in [Callbacks -> Threads \cup {None}]
        /\ mutex \in [Callbacks -> Threads \cup {None}]
        /\ cv \in [Callbacks -> {"none", "asleep", "notified", "expired", "spurious"}]
        /\ canExit \in [Callbacks -> BOOLEAN] /\ sameThread \in [Callbacks -> BOOLEAN]
        /\ answer \in [Callbacks -> {"none", "true", "false"}]
    OBVIOUS
  <2> HIDE DEF Init
  <2> QED  BY <2>1, <2>2, <2>3, <2>4 DEF TypeOK
<1>2. Locking /\ Filling /\ Calling /\ Registering
  BY DEF Locking, Filling, Calling, Registering
<1>3. Releasing /\ CompletedHasValue
  BY DEF Releasing, CompletedHasValue, Succeeded, Completed
<1> HIDE DEF Init
<1> QED  BY <1>1, <1>2, <1>3 DEF IInv

LEMMA UseWithFailureIInv ==
  ASSUME IInv, NEW t \in Threads, NEW f \in Failures, UseWithFailure(t, f)
  PROVE  IInv'
<1> USE Types DEF IInv, data, local, waits, Goto, Completed, Succeeded
<1>a. TypeOK'
  BY DEF UseWithFailure, TypeOK, Labels
<1>b. Locking' /\ Filling'
  BY DEF UseWithFailure, Locking, Filling
<1>c. Calling' /\ Registering'
  BY DEF UseWithFailure, Calling, Registering
<1>d. Releasing'
  BY DEF UseWithFailure, Releasing
<1>e. CompletedHasValue'
  BY DEF UseWithFailure, CompletedHasValue
<1> QED  BY <1>a, <1>b, <1>c, <1>d, <1>e

LEMMA StartFillIInv ==
  ASSUME IInv, NEW t \in Threads, NEW v \in Values \cup Failures, StartFill(t, v)
  PROVE  IInv'
<1> USE Types DEF IInv, data, local, waits, Goto, Completed, Succeeded
<1>a. TypeOK'
  BY DEF StartFill, TypeOK, Labels
<1>b. Locking' /\ Filling'
  BY DEF StartFill, Locking, Filling
<1>c. Calling' /\ Registering'
  BY DEF StartFill, Calling, Registering
<1>d. Releasing'
  BY DEF StartFill, Releasing
<1>e. CompletedHasValue'
  BY DEF StartFill, CompletedHasValue
<1> QED  BY <1>a, <1>b, <1>c, <1>d, <1>e

LEMMA RegisterIInv ==
  ASSUME IInv, NEW t \in Threads, NEW c \in Callbacks, NEW k \in Kinds, Register(t, c, k)
  PROVE  IInv'
<1> USE Types DEF IInv, data, local, waits, Goto, Completed, Succeeded
<1>a. TypeOK'
  BY DEF Register, Kinds, Waits, TypeOK, Labels
<1>b. Locking' /\ Filling'
  BY DEF Register, Kinds, Waits, Locking, Filling
<1>c. Calling' /\ Registering'
  BY DEF Register, Kinds, Waits, Calling, Registering
<1>d. Releasing'
  BY DEF Register, Kinds, Waits, Releasing
<1>e. CompletedHasValue'
  BY DEF Register, Kinds, Waits, CompletedHasValue
<1> QED  BY <1>a, <1>b, <1>c, <1>d, <1>e

LEMMA UnaskedIInv ==
  ASSUME IInv, NEW t \in Threads, NEW why \in {"expired", "spurious"}, Unasked(t, why)
  PROVE  IInv'
<1> USE Types DEF IInv, data, local, waits, Goto, Completed, Succeeded
<1>a. TypeOK'
  BY DEF Unasked, TypeOK, Labels
<1>b. Locking' /\ Filling'
  BY DEF Unasked, Locking, Filling
<1>c. Calling' /\ Registering'
  BY DEF Unasked, Calling, Registering
<1>d. Releasing'
  BY DEF Unasked, Releasing
<1>e. CompletedHasValue'
  BY DEF Unasked, CompletedHasValue
<1> QED  BY <1>a, <1>b, <1>c, <1>d, <1>e

LEMMA FillSuccessIInv ==
  ASSUME IInv, NEW t \in Threads, FillSuccess(t)
  PROVE  IInv'
<1> USE Types DEF IInv, data, local, waits, Goto, Completed, Succeeded
<1>1. lastFailure[t] \in Failures
  BY DEF FillSuccess, TypeOK
<1>a. TypeOK'
  BY <1>1 DEF FillSuccess, TypeOK, Labels
<1>b. Locking' /\ Filling'
  BY <1>1 DEF FillSuccess, Locking, Filling
<1>c. Calling' /\ Registering'
  BY <1>1 DEF FillSuccess, Calling, Registering
<1>d. Releasing'
  BY <1>1 DEF FillSuccess, Releasing
<1>e. CompletedHasValue'
  BY <1>1 DEF FillSuccess, CompletedHasValue
<1> QED  BY <1>a, <1>b, <1>c, <1>d, <1>e

LEMMA FillLockIInv ==
  ASSUME IInv, NEW t \in Threads, FillLock(t)
  PROVE  IInv'
<1> USE Types DEF IInv, data, local, waits, Goto, Completed, Succeeded
<1>a. TypeOK'
  BY DEF FillLock, TypeOK, Labels
<1>b. Locking' /\ Filling'
  BY DEF FillLock, Locking, Filling
<1>c. Calling' /\ Registering'
  BY DEF FillLock, Calling, Registering
<1>d. Releasing'
  BY DEF FillLock, Releasing
<1>e. CompletedHasValue'
  BY DEF FillLock, CompletedHasValue
<1> QED  BY <1>a, <1>b, <1>c, <1>d, <1>e

LEMMA FillValueIInv ==
  ASSUME IInv, NEW t \in Threads, FillValue(t)
  PROVE  IInv'
<1> USE Types DEF IInv, data, local, waits, Goto, Completed, Succeeded
<1>a. TypeOK'
  BY DEF FillValue, Locking, Filling, TypeOK, Labels
<1>b. Locking' /\ Filling'
  BY DEF FillValue, Locking, Filling, Locking, Filling
<1>c. Calling' /\ Registering'
  BY DEF FillValue, Locking, Filling, Calling, Registering
<1>d. Releasing'
  BY DEF FillValue, Locking, Filling, Releasing
<1>e. CompletedHasValue'
  BY DEF FillValue, Locking, Filling, CompletedHasValue
<1> QED  BY <1>a, <1>b, <1>c, <1>d, <1>e

LEMMA FillStateIInv ==
  ASSUME IInv, NEW t \in Threads, FillState(t)
  PROVE  IInv'
<1> USE Types DEF IInv, data, local, waits, Goto, Completed, Succeeded
<1>a. TypeOK'
  BY DEF FillState, Locking, Filling, TypeOK, Labels
<1>b. Locking' /\ Filling'
  BY DEF FillState, Locking, Filling, Locking, Filling
<1>c. Calling' /\ Registering'
  BY DEF FillState, Locking, Filling, Calling, Registering
<1>d. Releasing'
  BY DEF FillState, Locking, Filling, Releasing
<1>e. CompletedHasValue'
  BY DEF FillState, Locking, Filling, CompletedHasValue
<1> QED  BY <1>a, <1>b, <1>c, <1>d, <1>e

LEMMA FillTakeIInv ==
  ASSUME IInv, NEW t \in Threads, FillTake(t)
  PROVE  IInv'
<1> USE Types DEF IInv, data, local, waits, Goto, Completed, Succeeded
<1>1. successCallbacks' \in Seq(Callbacks) /\ failureCallbacks' \in Seq(Callbacks)
      /\ running' \in [Threads -> Seq(Callbacks)]
  BY EmptySeq DEF FillTake, TypeOK, CallbacksOfOutcome
<1>a. TypeOK'
  BY <1>1 DEF FillTake, Locking, Filling, TypeOK, Labels
<1>b. Locking' /\ Filling'
  BY <1>1 DEF FillTake, Locking, Filling, Locking, Filling
<1>c. Calling' /\ Registering'
  BY <1>1 DEF FillTake, Locking, Filling, Calling, Registering
<1>d. Releasing'
  BY <1>1 DEF FillTake, Locking, Filling, Releasing
<1>e. CompletedHasValue'
  BY <1>1 DEF FillTake, Locking, Filling, CompletedHasValue
<1> QED  BY <1>a, <1>b, <1>c, <1>d, <1>e

LEMMA OnSuccessIInv ==
  ASSUME IInv, NEW t \in Threads, OnSuccess(t)
  PROVE  IInv'
<1> USE Types DEF IInv, data, local, waits, Goto, Completed, Succeeded
<1>1. reg[t] \in Callbacks /\ kind[reg[t]] # "none" /\ mainLock = None
  BY DEF OnSuccess, Registering
<1>2. successCallbacks' \in Seq(Callbacks) /\ running' \in [Threads -> Seq(Callbacks)]
  <2>1. Append(successCallbacks, reg[t]) \in Seq(Callbacks) /\ <<reg[t]>> \in Seq(Callbacks)
    BY <1>1, AppendProperties DEF TypeOK
  <2>2. /\ successCallbacks' \in {successCallbacks, Append(successCallbacks, reg[t])}
        /\ running' \in {running, [running EXCEPT ![t] = <<reg[t]>>]}
    BY DEF OnSuccess
  <2> QED  BY <2>1, <2>2, ZenonT(40) DEF TypeOK
<1>a. TypeOK'
  BY <1>1, <1>2 DEF OnSuccess, AfterSuccess, Leave, TypeOK, Labels
<1>b. Locking' /\ Filling'
  BY <1>1, <1>2 DEF OnSuccess, AfterSuccess, Leave, Locking, Filling
<1>c. Calling' /\ Registering'
  BY <1>1, <1>2, ZenonT(40) DEF OnSuccess, AfterSuccess, Leave, Calling, Registering
<1>d. Releasing'
  BY <1>1, <1>2 DEF OnSuccess, AfterSuccess, Leave, Releasing
<1>e. CompletedHasValue'
  BY <1>1, <1>2 DEF OnSuccess, AfterSuccess, Leave, CompletedHasValue
<1> QED  BY <1>a, <1>b, <1>c, <1>d, <1>e

LEMMA OnFailureIInv ==
  ASSUME IInv, NEW t \in Threads, OnFailure(t)
  PROVE  IInv'
<1> USE Types DEF IInv, data, local, waits, Goto, Completed, Succeeded
<1>1. reg[t] \in Callbacks /\ kind[reg[t]] # "none" /\ mainLock = None
  BY DEF OnFailure, Registering
<1>2. failureCallbacks' \in Seq(Callbacks) /\ running' \in [Threads -> Seq(Callbacks)]
  <2>1. Append(failureCallbacks, reg[t]) \in Seq(Callbacks) /\ <<reg[t]>> \in Seq(Callbacks)
    BY <1>1, AppendProperties DEF TypeOK
  <2>2. /\ failureCallbacks' \in {failureCallbacks, Append(failureCallbacks, reg[t])}
        /\ running' \in {running, [running EXCEPT ![t] = <<reg[t]>>]}
    BY DEF OnFailure
  <2> QED  BY <2>1, <2>2, ZenonT(40) DEF TypeOK
<1>a. TypeOK'
  BY <1>1, <1>2 DEF OnFailure, AfterFailure, Leave, TypeOK, Labels
<1>b. Locking' /\ Filling'
  BY <1>1, <1>2 DEF OnFailure, AfterFailure, Leave, Locking, Filling
<1>c. Calling' /\ Registering'
  BY <1>1, <1>2 DEF OnFailure, AfterFailure, Leave, Calling, Registering
<1>d. Releasing'
  BY <1>1, <1>2 DEF OnFailure, AfterFailure, Leave, Releasing
<1>e. CompletedHasValue'
  BY <1>1, <1>2 DEF OnFailure, AfterFailure, Leave, CompletedHasValue
<1> QED  BY <1>a, <1>b, <1>c, <1>d, <1>e

LEMMA CallBackIInv ==
  ASSUME IInv, NEW t \in Threads, CallBack(t)
  PROVE  IInv'
<1> USE Types DEF IInv, data, local, waits, Goto, Completed, Succeeded
<1>1. running[t] # <<>> /\ Completed
  BY DEF CallBack, Running, Calling
<1>2. Head(running[t]) \in Callbacks /\ Tail(running[t]) \in Seq(Callbacks)
  BY <1>1, FirstOfRunning
<1>3. value \in Values \cup Failures
  BY <1>1 DEF CompletedHasValue, TypeOK
<1>4. calls' \in [Callbacks -> Seq(Values \cup Failures)]
  <2>1. calls \in [Callbacks -> Seq(Values \cup Failures)]
    BY DEF TypeOK
  <2>2. Append(calls[Head(running[t])], value) \in Seq(Values \cup Failures)
    BY <1>2, <1>3, <2>1, AppendProperties
  <2>3. calls' \in {calls, [calls EXCEPT ![Head(running[t])] = Append(@, value)]}
    BY DEF CallBack, Called
  <2> QED  BY <2>1, <2>2, <2>3
<1>a. TypeOK'
  BY <1>1, <1>2, <1>4 DEF CallBack, Called, Running, TypeOK, Labels
<1>b. Locking' /\ Filling'
  BY <1>1, <1>2, <1>4 DEF CallBack, Called, Running, Locking, Filling
<1>c. Calling' /\ Registering'
  BY <1>1, <1>2, <1>4 DEF CallBack, Called, Running, Calling, Registering
<1>d. Releasing'
  BY <1>1, <1>2, <1>4 DEF CallBack, Called, Running, Releasing
<1>e. CompletedHasValue'
  BY <1>1, <1>2, <1>4 DEF CallBack, Called, Running, CompletedHasValue
<1> QED  BY <1>a, <1>b, <1>c, <1>d, <1>e

LEMMA CallbackLockIInv ==
  ASSUME IInv, NEW t \in Threads, CallbackLock(t)
  PROVE  IInv'
<1> USE Types DEF IInv, data, local, waits, Goto, Completed, Succeeded
<1>1. running[t] # <<>> /\ Completed
  BY DEF CallbackLock, Running, Calling
<1>2. Head(running[t]) \in Callbacks /\ Tail(running[t]) \in Seq(Callbacks)
  BY <1>1, FirstOfRunning
<1>a. TypeOK'
  BY <1>1, <1>2 DEF CallbackLock, Running, TypeOK, Labels
<1>b. Locking' /\ Filling'
  BY <1>1, <1>2 DEF CallbackLock, Running, Locking, Filling
<1>c. Calling' /\ Registering'
  BY <1>1, <1>2 DEF CallbackLock, Running, Calling, Registering
<1>d. Releasing'
  BY <1>1, <1>2 DEF CallbackLock, Running, Releasing
<1>e. CompletedHasValue'
  BY <1>1, <1>2 DEF CallbackLock, Running, CompletedHasValue
<1> QED  BY <1>a, <1>b, <1>c, <1>d, <1>e

LEMMA CallbackUnlockIInv ==
  ASSUME IInv, NEW t \in Threads, CallbackUnlock(t)
  PROVE  IInv'
<1> USE Types DEF IInv, data, local, waits, Goto, Completed, Succeeded
<1>1. running[t] # <<>> /\ Completed
  BY DEF CallbackUnlock, Running, Calling
<1>2. Head(running[t]) \in Callbacks /\ Tail(running[t]) \in Seq(Callbacks)
  BY <1>1, FirstOfRunning
<1>a. TypeOK'
  BY <1>1, <1>2 DEF CallbackUnlock, TypeOK, Labels
<1>b. Locking' /\ Filling'
  BY <1>1, <1>2 DEF CallbackUnlock, Locking, Filling
<1>c. Calling' /\ Registering'
  BY <1>1, <1>2 DEF CallbackUnlock, Calling, Registering
<1>d. Releasing'
  BY <1>1, <1>2 DEF CallbackUnlock, Releasing
<1>e. CompletedHasValue'
  BY <1>1, <1>2 DEF CallbackUnlock, CompletedHasValue
<1> QED  BY <1>a, <1>b, <1>c, <1>d, <1>e

LEMMA CallbackNotifyIInv ==
  ASSUME IInv, NEW t \in Threads, CallbackNotify(t)
  PROVE  IInv'
<1> USE Types DEF IInv, data, local, waits, Goto, Completed, Succeeded
<1>1. running[t] # <<>> /\ Completed
  BY DEF CallbackNotify, Running, Calling
<1>2. Head(running[t]) \in Callbacks /\ Tail(running[t]) \in Seq(Callbacks)
  BY <1>1, FirstOfRunning
<1>3. value \in Values \cup Failures
  BY <1>1 DEF CompletedHasValue, TypeOK
<1>4. calls' \in [Callbacks -> Seq(Values \cup Failures)]
  <2>1. calls \in [Callbacks -> Seq(Values \cup Failures)]
    BY DEF TypeOK
  <2>2. Append(calls[Head(running[t])], value) \in Seq(Values \cup Failures)
    BY <1>2, <1>3, <2>1, AppendProperties
  <2>3. calls' \in {calls, [calls EXCEPT ![Head(running[t])] = Append(@, value)]}
    BY DEF CallbackNotify, Called
  <2> QED  BY <2>1, <2>2, <2>3
<1>a. TypeOK'
  BY <1>1, <1>2, <1>4, ZenonT(40) DEF CallbackNotify, Called, TypeOK, Labels
<1>b. Locking' /\ Filling'
  BY <1>1, <1>2, <1>4 DEF CallbackNotify, Called, Locking, Filling
<1>c. Calling' /\ Registering'
  BY <1>1, <1>2, <1>4 DEF CallbackNotify, Called, Calling, Registering
<1>d. Releasing'
  BY <1>1, <1>2, <1>4 DEF CallbackNotify, Called, Releasing
<1>e. CompletedHasValue'
  BY <1>1, <1>2, <1>4 DEF CallbackNotify, Called, CompletedHasValue
<1> QED  BY <1>a, <1>b, <1>c, <1>d, <1>e

LEMMA CallbackExitIInv ==
  ASSUME IInv, NEW t \in Threads, CallbackExit(t)
  PROVE  IInv'
<1> USE Types DEF IInv, data, local, waits, Goto, Completed, Succeeded
<1>1. running[t] # <<>> /\ Completed
  BY DEF CallbackExit, Running, Calling
<1>2. Head(running[t]) \in Callbacks /\ Tail(running[t]) \in Seq(Callbacks)
  BY <1>1, FirstOfRunning
<1>3. value \in Values \cup Failures
  BY <1>1 DEF CompletedHasValue, TypeOK
<1>4. calls' \in [Callbacks -> Seq(Values \cup Failures)]
  <2>1. calls \in [Callbacks -> Seq(Values \cup Failures)]
    BY DEF TypeOK
  <2>2. Append(calls[Head(running[t])], value) \in Seq(Values \cup Failures)
    BY <1>2, <1>3, <2>1, AppendProperties
  <2>3. calls' \in {calls, [calls EXCEPT ![Head(running[t])] = Append(@, value)]}
    BY DEF CallbackExit, Called
  <2> QED  BY <2>1, <2>2, <2>3
<1>a. TypeOK'
  BY <1>1, <1>2, <1>4 DEF CallbackExit, Called, TypeOK, Labels
<1>b. Locking' /\ Filling'
  BY <1>1, <1>2, <1>4 DEF CallbackExit, Called, Locking, Filling
<1>c. Calling' /\ Registering'
  BY <1>1, <1>2, <1>4 DEF CallbackExit, Called, Calling, Registering
<1>d. Releasing'
  BY <1>1, <1>2, <1>4 DEF CallbackExit, Called, Releasing
<1>e. CompletedHasValue'
  BY <1>1, <1>2, <1>4 DEF CallbackExit, Called, CompletedHasValue
<1> QED  BY <1>a, <1>b, <1>c, <1>d, <1>e

LEMMA CallsDoneIInv ==
  ASSUME IInv, NEW t \in Threads, CallsDone(t)
  PROVE  IInv'
<1> USE Types DEF IInv, data, local, waits, Goto, Completed, Succeeded
<1>a. TypeOK'
  BY DEF CallsDone, Leave, Running, AfterSuccess, AfterFailure, TypeOK, Labels
<1>b. Locking' /\ Filling'
  BY DEF CallsDone, Leave, Running, AfterSuccess, AfterFailure, Locking, Filling
<1>c. Calling' /\ Registering'
  BY DEF CallsDone, Leave, Running, AfterSuccess, AfterFailure, Calling, Registering
<1>d. Releasing'
  BY DEF CallsDone, Leave, Running, AfterSuccess, AfterFailure, Releasing
<1>e. CompletedHasValue'
  BY DEF CallsDone, Leave, Running, AfterSuccess, AfterFailure, CompletedHasValue
<1> QED  BY <1>a, <1>b, <1>c, <1>d, <1>e

LEMMA BlockIInv ==
  ASSUME IInv, NEW t \in Threads, Block(t)
  PROVE  IInv'
<1> USE Types DEF IInv, data, local, waits, Goto, Completed, Succeeded
<1>1. reg[t] \in Callbacks /\ kind[reg[t]] # "none"
  BY DEF Block, Registering
<1>2. /\ mutex' \in [Callbacks -> Threads \cup {None}] /\ answer' \in [Callbacks -> {"none", "true", "false"}]
      /\ cv' \in [Callbacks -> {"none", "asleep", "notified", "expired", "spurious"}]
  BY <1>1 DEF Block, Return, TypeOK
<1>3. pc' \in [Threads -> Labels] /\ reg' \in [Threads -> Callbacks \cup {None}]
  BY DEF Block, Return, Leave, Labels
<1>a. TypeOK'
  BY <1>1, <1>2, <1>3 DEF Block, Return, Leave, MustSleep, TypeOK, Labels
<1>b. Locking' /\ Filling'
  BY <1>1 DEF Block, Return, Leave, MustSleep, Locking, Filling
<1>c. Calling' /\ Registering'
  BY <1>1 DEF Block, Return, Leave, MustSleep, Calling, Registering
<1>d. Releasing'
  BY <1>1 DEF Block, Return, Leave, MustSleep, Releasing
<1>e. CompletedHasValue'
  BY <1>1 DEF Block, Return, Leave, MustSleep, CompletedHasValue
<1> QED  BY <1>a, <1>b, <1>c, <1>d, <1>e

LEMMA WakeIInv ==
  ASSUME IInv, NEW t \in Threads, Wake(t)
  PROVE  IInv'
<1> USE Types DEF IInv, data, local, waits, Goto, Completed, Succeeded
<1>1. reg[t] \in Callbacks /\ kind[reg[t]] # "none"
  BY DEF Wake, Registering
<1>a. TypeOK'
  BY <1>1 DEF Wake, TypeOK, Labels
<1>b. Locking' /\ Filling'
  BY <1>1 DEF Wake, Locking, Filling
<1>c. Calling' /\ Registering'
  BY <1>1 DEF Wake, Calling, Registering
<1>d. Releasing'
  BY <1>1 DEF Wake, Releasing
<1>e. CompletedHasValue'
  BY <1>1 DEF Wake, CompletedHasValue
<1> QED  BY <1>a, <1>b, <1>c, <1>d, <1>e

LEMMA SpinIInv ==
  ASSUME IInv, NEW t \in Threads, Spin(t)
  PROVE  IInv'
<1> USE Types DEF IInv, data, local, waits, Goto, Completed, Succeeded
<1>1. reg[t] \in Callbacks /\ kind[reg[t]] # "none"
  BY DEF Spin, Registering
<1>a. TypeOK'
  BY <1>1 DEF Spin, Return, Leave, TypeOK, Labels
<1>b. Locking' /\ Filling'
  BY <1>1 DEF Spin, Return, Leave, Locking, Filling
<1>c. Calling' /\ Registering'
  BY <1>1 DEF Spin, Return, Leave, Calling, Registering
<1>d. Releasing'
  BY <1>1 DEF Spin, Return, Leave, Releasing
<1>e. CompletedHasValue'
  BY <1>1 DEF Spin, Return, Leave, CompletedHasValue
<1> QED  BY <1>a, <1>b, <1>c, <1>d, <1>e

LEMMA NextIInv ==
  ASSUME IInv, [Next]_vars
  PROVE  IInv'
<1>1. CASE Next
  <2>1. ASSUME NEW t \in Threads, Continue(t) PROVE IInv'
    BY <2>1, FillSuccessIInv, FillLockIInv, FillValueIInv, FillStateIInv, FillTakeIInv,
       OnSuccessIInv, OnFailureIInv, CallBackIInv, CallbackLockIInv, CallbackUnlockIInv,
       CallbackNotifyIInv, CallbackExitIInv, CallsDoneIInv, BlockIInv, WakeIInv, SpinIInv
       DEF Continue
  <2>2. ASSUME NEW t \in Threads, Call(t) PROVE IInv'
    BY <2>2, UseWithFailureIInv, StartFillIInv, RegisterIInv, UnaskedIInv DEF Call, Cancel
  <2> QED  BY <1>1, <2>1, <2>2 DEF Next
<1>2. CASE UNCHANGED vars
  BY <1>2 DEF vars, data, local, waits, IInv, TypeOK, Locking, Filling, Calling, Registering, Releasing,
     CompletedHasValue, Completed, Succeeded
<1> QED  BY <1>1, <1>2

LEMMA AlwaysIInv == Spec => []IInv
BY InitIInv, NextIInv, PTL DEF Spec

\* The state of the future, of the promise and of the threads is always of its
\* type.
THEOREM TypeCorrect == Spec => []TypeOK
BY AlwaysIInv, PTL DEF IInv

\* Reading the state word without the lock is enough to read the value: it is
\* there, and of that outcome, whichever thread fills the promise.
THEOREM ValueBeforeState == Spec => []CompletedHasValue
BY AlwaysIInv, PTL DEF IInv

\* Neither the state nor the value of a completed future is written again.
LEMMA CompletedStays ==
  ASSUME IInv, [Next]_vars, Completed
  PROVE  UNCHANGED <<state, value>>
<1>1. ASSUME NEW t \in Threads, FillValue(t) \/ FillState(t) PROVE FALSE
  BY <1>1 DEF FillValue, FillState, IInv, Filling
<1>2. ASSUME NEW t \in Threads, Continue(t), ~FillValue(t), ~FillState(t)
      PROVE  UNCHANGED <<state, value>>
  BY <1>2 DEF Continue, FillSuccess, FillLock, FillTake, OnSuccess, OnFailure, CallBack,
     CallbackLock, CallbackUnlock, CallbackNotify, CallbackExit, CallsDone, Block, Wake, Spin, data
<1>3. ASSUME NEW t \in Threads, Call(t) PROVE UNCHANGED <<state, value>>
  BY <1>3 DEF Call, Cancel, UseWithFailure, StartFill, Register, Unasked, data
<1>4. CASE UNCHANGED vars
  BY <1>4 DEF vars, data
<1> QED  BY <1>1, <1>2, <1>3, <1>4 DEF Next

\* Of any number of concurrent fills and cancels one wins: neither the state
\* nor the value of a completed future ever changes.
THEOREM FirstFillWins == Spec => FilledOnce
<1>1. IInv /\ [Next]_vars => [Completed => UNCHANGED <<state, value>>]_vars
  BY CompletedStays
<1> QED  BY <1>1, AlwaysIInv, PTL DEF Spec, FilledOnce

-----------------------------------------------------------------------------
(* Lists of callbacks, by what is in them *)

LEMMA InEmpty == (\A c : ~InList(c, <<>>)) /\ IsInjective(<<>>)
BY DEF InList, IsInjective

LEMMA InSingle ==
  ASSUME NEW e
  PROVE  (\A c : InList(c, <<e>>) <=> c = e) /\ IsInjective(<<e>>)
<1>1. DOMAIN <<e>> = {1} /\ <<e>>[1] = e
  OBVIOUS
<1> QED  BY <1>1 DEF InList, IsInjective

LEMMA InAppend ==
  ASSUME NEW S, NEW s \in Seq(S), NEW e \in S
  PROVE  /\ \A c : InList(c, Append(s, e)) <=> InList(c, s) \/ c = e
         /\ IsInjective(s) /\ ~InList(e, s) => IsInjective(Append(s, e))
<1> DEFINE a == Append(s, e)
<1>1. /\ DOMAIN s = 1 .. Len(s) /\ DOMAIN a = 1 .. Len(s) + 1 /\ Len(s) \in Nat
      /\ \A i \in 1 .. Len(s) : a[i] = s[i]
      /\ a[Len(s) + 1] = e
  BY AppendProperties, LenProperties
<1> HIDE DEF a
<1>2. ASSUME NEW c PROVE InList(c, a) <=> InList(c, s) \/ c = e
  <2>1. \A i : i \in DOMAIN a <=> i \in DOMAIN s \/ i = Len(s) + 1
    BY <1>1
  <2> QED  BY <1>1, <2>1 DEF InList
<1>3. ASSUME IsInjective(s), ~InList(e, s) PROVE IsInjective(a)
  BY <1>1, <1>3 DEF InList, IsInjective
<1> QED  BY <1>2, <1>3 DEF a

LEMMA InTail ==
  ASSUME NEW S, NEW s \in Seq(S), s # <<>>
  PROVE  /\ \A c : InList(c, s) <=> c = Head(s) \/ InList(c, Tail(s))
         /\ IsInjective(s) => IsInjective(Tail(s)) /\ ~InList(Head(s), Tail(s))
<1> DEFINE u == Tail(s)
<1>1. /\ DOMAIN s = 1 .. Len(s) /\ DOMAIN u = 1 .. Len(s) - 1 /\ Len(s) \in Nat \ {0}
      /\ \A i \in 1 .. Len(s) - 1 : u[i] = s[i + 1]
      /\ Head(s) = s[1]
  <2>1. u \in Seq(S) /\ Len(u) = Len(s) - 1 /\ \A i \in 1 .. Len(u) : u[i] = s[i + 1]
    BY HeadTailProperties
  <2>2. DOMAIN s = 1 .. Len(s) /\ Len(s) \in Nat \ {0} /\ DOMAIN u = 1 .. Len(u)
    BY <2>1, LenProperties, EmptySeq
  <2> QED  BY <2>1, <2>2
<1> HIDE DEF u
<1>2. ASSUME NEW c PROVE InList(c, s) <=> c = Head(s) \/ InList(c, u)
  <2>1. ASSUME NEW i \in DOMAIN s, s[i] = c PROVE c = Head(s) \/ InList(c, u)
    <3>1. i = 1 \/ (i - 1 \in DOMAIN u /\ u[i - 1] = c)
      BY <1>1, <2>1
    <3> QED  BY <1>1, <2>1, <3>1 DEF InList
  <2>2. ASSUME NEW i \in DOMAIN u, u[i] = c PROVE i + 1 \in DOMAIN s /\ s[i + 1] = c
    BY <1>1, <2>2
  <2>3. 1 \in DOMAIN s
    BY <1>1
  <2> QED  BY <1>1, <2>1, <2>2, <2>3 DEF InList
<1>3. ASSUME IsInjective(s) PROVE IsInjective(u) /\ ~InList(Head(s), u)
  <2>1. \A i \in DOMAIN u : i + 1 \in DOMAIN s /\ u[i] = s[i + 1] /\ i \in Nat \ {0}
    BY <1>1
  <2>2. IsInjective(u)
    <3> SUFFICES ASSUME NEW i \in DOMAIN u, NEW j \in DOMAIN u, u[i] = u[j] PROVE i = j
      BY DEF IsInjective
    <3>1. i + 1 = j + 1
      BY <2>1, <1>3 DEF IsInjective
    <3> QED  BY <2>1, <3>1
  <2>3. ASSUME NEW i \in DOMAIN u, u[i] = Head(s) PROVE FALSE
    <3>1. i + 1 = 1
      BY <1>1, <2>1, <2>3, <1>3 DEF IsInjective
    <3> QED  BY <2>1, <3>1
  <2> QED  BY <2>2, <2>3 DEF InList
<1> QED  BY <1>2, <1>3 DEF u

-----------------------------------------------------------------------------
(* The inductive invariant *)

RunningLabels == {"runFill", "runSuccess", "runFailure", "cbUnlock", "cbNotify", "cbExit"}
ForSuccess == {"success", "complete"} \cup Waits
ForFailure == {"failure", "complete"} \cup Waits

\* A thread registers its own callback.
Owning == \A t \in Threads :
    reg[t] # None => kind[reg[t]] # "none" /\ owner[reg[t]] = t

\* The callbacks filed before the fill have been taken out of the lists.
Taken == Completed /\ \A t \in Threads : pc[t] # "fillTake"

\* Nothing is called before the lists are taken, nothing is filed after it.
Phases ==
    /\ IF Taken THEN successCallbacks = <<>> /\ failureCallbacks = <<>>
                ELSE /\ \A c \in Callbacks : calls[c] = <<>>
                     /\ \A t \in Threads : running[t] = <<>>
    /\ \A t \in Threads : running[t] # <<>> => pc[t] \in RunningLabels

\* A callback is filed once in a list, and only in the lists of its kind.
Filed ==
    /\ IsInjective(successCallbacks) /\ IsInjective(failureCallbacks)
    /\ \A c \in Callbacks : InList(c, successCallbacks) => kind[c] \in ForSuccess
    /\ \A c \in Callbacks : InList(c, failureCallbacks) => kind[c] \in ForFailure

Untouched(c) == calls[c] = <<>> /\ \A t \in Threads : ~InList(c, running[t])

\* What a registration has done when it is at a step.
Filing == \A t \in Threads :
    /\ pc[t] = "onSuccess" =>
         /\ kind[reg[t]] \in ForSuccess
         /\ ~InList(reg[t], successCallbacks) /\ ~InList(reg[t], failureCallbacks)
         /\ Untouched(reg[t])
    /\ pc[t] = "onFailure" =>
         /\ kind[reg[t]] \in ForFailure
         /\ ~InList(reg[t], failureCallbacks)
         /\ state = "Failed" => Untouched(reg[t])
    /\ pc[t] = "runSuccess" => Succeeded /\ Taken /\ kind[reg[t]] \in ForSuccess
    /\ pc[t] = "runFailure" => state = "Failed" /\ Taken /\ kind[reg[t]] \in ForFailure

\* A callback that a thread is about to call is there once, has not been
\* called and is for this outcome.
Once ==
    /\ \A t \in Threads : IsInjective(running[t])
    /\ \A t, u \in Threads, c \in Callbacks :
          InList(c, running[t]) /\ InList(c, running[u]) => t = u
    /\ \A t \in Threads, c \in Callbacks :
          InList(c, running[t]) => calls[c] = <<>> /\ value \in Wants(c)

\* Until the future is completed, a callback is in every list of its kind or
\* will be put there by the thread that registers it.
Kept == ~Completed => \A c \in Callbacks :
    /\ kind[c] \in ForSuccess =>
         InList(c, successCallbacks) \/ \E t \in Threads : reg[t] = c /\ pc[t] = "onSuccess"
    /\ kind[c] \in ForFailure =>
         InList(c, failureCallbacks)
           \/ \E t \in Threads : reg[t] = c /\ pc[t] \in {"onSuccess", "onFailure"}

\* A wait() is let go by a call of its callback, and by nothing else.
Released == \A c \in Callbacks :
    /\ canExit[c] \/ sameThread[c] => calls[c] # <<>>
    /\ kind[c] = "wait" /\ answer[c] # "none" => canExit[c] \/ sameThread[c]

Delivery == Owning /\ Phases /\ Filed /\ Filing /\ Once /\ Kept
              /\ CalledOnceWithOutcome /\ NoCallbackLost

-----------------------------------------------------------------------------
(* Preservation *)

\* A step of a thread that neither registers, files, takes nor calls.
Quiet(t) ==
    /\ UNCHANGED <<state, successCallbacks, failureCallbacks, running, kind, owner, calls>>
    /\ Completed => value' = value
    /\ \A u \in Threads \ {t} : pc'[u] = pc[u] /\ reg'[u] = reg[u]
    /\ reg'[t] \in {reg[t], None}
    /\ pc[t] \notin {"onSuccess", "onFailure", "fillTake"}
    /\ pc'[t] \notin {"onSuccess", "onFailure", "fillTake", "runSuccess", "runFailure"}
    /\ pc[t] \in RunningLabels => pc'[t] \in RunningLabels

LEMMA QuietKeeps ==
  ASSUME IInv, Delivery, NEW t \in Threads, Quiet(t)
  PROVE  Delivery'
<1> USE Types DEF Quiet, Completed, Succeeded
<1>1. Taken' = Taken
  BY DEF Taken
<1>2. Owning'
  BY DEF Delivery, Owning
<1>3. Phases'
  BY <1>1 DEF Delivery, Phases
<1>4. Filed'
  BY DEF Delivery, Filed
<1>5. Filing'
  <2>1. \A c : Untouched(c)' = Untouched(c)
    BY DEF Untouched
  <2> QED  BY <1>1, <2>1 DEF Delivery, Filing
<1>6. \A c \in Callbacks : Completed /\ value \in Wants(c) => (value \in Wants(c))'
  BY DEF Wants
<1>7. Once'
  <2>1. \A c \in Callbacks, u \in Threads : InList(c, running[u]) => Completed
    BY InEmpty DEF Delivery, Phases, Taken
  <2> QED  BY <1>6, <2>1 DEF Delivery, Once
<1>8. Kept'
  <2>1. \A u \in Threads : pc[u] \in {"onSuccess", "onFailure"} => pc'[u] = pc[u] /\ reg'[u] = reg[u]
    OBVIOUS
  <2>2. ~Completed' => ~Completed
    OBVIOUS
  <2>3. ASSUME NEW c \in Callbacks, ~Completed, kind[c] \in ForSuccess
        PROVE  \/ InList(c, successCallbacks)
               \/ \E u \in Threads : reg'[u] = c /\ pc'[u] = "onSuccess"
    <3>1. InList(c, successCallbacks) \/ \E u \in Threads : reg[u] = c /\ pc[u] = "onSuccess"
      BY <2>3 DEF Delivery, Kept
    <3> QED  BY <3>1, <2>1
  <2>4. ASSUME NEW c \in Callbacks, ~Completed, kind[c] \in ForFailure
        PROVE  \/ InList(c, failureCallbacks)
               \/ \E u \in Threads : reg'[u] = c /\ pc'[u] \in {"onSuccess", "onFailure"}
    BY <2>1, <2>4 DEF Delivery, Kept
  <2> QED  BY <2>2, <2>3, <2>4 DEF Kept
<1>9. CalledOnceWithOutcome'
  BY <1>6 DEF Delivery, CalledOnceWithOutcome
<1>10. NoCallbackLost'
  <2>1. \A c \in Callbacks : OnItsWay(c) => OnItsWay(c)'
    BY DEF OnItsWay, CallbacksOfOutcome
  <2>2. \A c \in Callbacks : Completed => Wants(c)' = Wants(c)
    BY DEF Wants
  <2> QED  BY <2>1, <2>2 DEF Delivery, NoCallbackLost
<1> QED  BY <1>2, <1>3, <1>4, <1>5, <1>7, <1>8, <1>9, <1>10 DEF Delivery

LEMMA QuietSteps ==
  ASSUME IInv, NEW t \in Threads,
         \/ FillSuccess(t) \/ FillLock(t) \/ FillValue(t)
         \/ CallbackLock(t) \/ CallbackUnlock(t)
         \/ Block(t) \/ Wake(t) \/ Spin(t)
         \/ \E f \in Failures : UseWithFailure(t, f)
         \/ \E v \in Values \cup Failures : StartFill(t, v)
         \/ \E why \in {"expired", "spurious"} : Unasked(t, why)
  PROVE  Quiet(t)
<1> USE Types DEF data, local, waits, Goto, Quiet, RunningLabels
<1>1. CASE FillSuccess(t) \/ FillLock(t)
  BY <1>1 DEF FillSuccess, FillLock
<1>2. CASE FillValue(t)
  BY <1>2 DEF FillValue, IInv, Filling
<1>3. CASE CallbackLock(t) \/ CallbackUnlock(t)
  BY <1>3 DEF CallbackLock, CallbackUnlock, Running
<1>4. CASE Block(t) \/ Wake(t) \/ Spin(t)
  BY <1>4 DEF Block, Wake, Spin, Return, Leave
<1>5. CASE \/ \E f \in Failures : UseWithFailure(t, f)
           \/ \E why \in {"expired", "spurious"} : Unasked(t, why)
  BY <1>5 DEF UseWithFailure, Unasked
<1>6. CASE \E v \in Values \cup Failures : StartFill(t, v)
  BY <1>6 DEF StartFill
<1> QED  BY <1>1, <1>2, <1>3, <1>4, <1>5, <1>6

LEMMA RegisterKeeps ==
  ASSUME IInv, Delivery, NEW t \in Threads, NEW c \in Callbacks, NEW k \in Kinds,
         Register(t, c, k)
  PROVE  Delivery'
<1> USE Types DEF Completed, Succeeded, data, waits, Goto
<1>1. /\ UNCHANGED <<state, value, successCallbacks, failureCallbacks, running, calls>>
      /\ kind[c] = "none" /\ kind' = [kind EXCEPT ![c] = k]
      /\ owner' = [owner EXCEPT ![c] = t]
      /\ reg' = [reg EXCEPT ![t] = c] /\ pc[t] = "idle"
      /\ pc' = [pc EXCEPT ![t] = IF k = "failure" THEN "onFailure" ELSE "onSuccess"]
  BY DEF Register
<1>2. owner \in [Callbacks -> Threads \cup {None}]
  BY DEF IInv, TypeOK
<1>3. Taken' = Taken
  BY <1>1 DEF Taken
<1>4. \A d \in Callbacks \ {c} : kind'[d] = kind[d] /\ Wants(d)' = Wants(d)
  BY <1>1 DEF Wants
<1>5. \A u \in Threads \ {t} : pc'[u] = pc[u] /\ reg'[u] = reg[u]
  BY <1>1
<1>6. Wants(c) = {}
  BY <1>1 DEF Wants
<1>7. /\ ~InList(c, successCallbacks) /\ ~InList(c, failureCallbacks)
      /\ Untouched(c) /\ \A d : Untouched(d)' = Untouched(d)
  <2>1. ~InList(c, successCallbacks) /\ ~InList(c, failureCallbacks)
    BY <1>1 DEF Delivery, Filed, ForSuccess, ForFailure, Waits
  <2>2. Untouched(c)
    BY <1>6 DEF Delivery, Once, CalledOnceWithOutcome, Untouched
  <2>3. \A d : Untouched(d)' = Untouched(d)
    BY <1>1 DEF Untouched
  <2> QED  BY <2>1, <2>2, <2>3
<1>8. k = "failure" => k \in ForFailure
  BY DEF ForFailure
<1>9. k # "failure" => k \in ForSuccess
  BY DEF Kinds, ForSuccess, Waits
<1>10. kind'[c] = k
  BY <1>1
<1>11. Owning'
  BY <1>1, <1>2 DEF Delivery, Owning, Kinds, Waits
<1>12. Phases'
  BY <1>1, <1>3, InEmpty DEF Delivery, Phases, RunningLabels
<1>13. Filed'
  BY <1>1, <1>4, <1>7 DEF Delivery, Filed
<1>14. Filing'
  <2>1. ASSUME NEW u \in Threads, u # t, pc[u] \in {"onSuccess", "onFailure", "runSuccess", "runFailure"}
        PROVE  reg'[u] = reg[u] /\ kind'[reg[u]] = kind[reg[u]]
    BY <1>1, <1>5, <2>1 DEF IInv, Registering
  <2>2. reg'[t] = c /\ pc'[t] = IF k = "failure" THEN "onFailure" ELSE "onSuccess"
    BY <1>1
  <2> QED  BY <1>1, <1>3, <1>5, <1>7, <1>8, <1>9, <1>10, <2>1, <2>2 DEF Delivery, Filing
<1>15. Once'
  <2>1. \A u \in Threads, d \in Callbacks : InList(d, running[u]) => d # c
    BY <1>7 DEF Untouched
  <2>2. \A u \in Threads, d \in Callbacks :
          InList(d, running[u]) => calls[d] = <<>> /\ value \in Wants(d)'
    <3>1. \A u \in Threads, d \in Callbacks :
            InList(d, running[u]) => calls[d] = <<>> /\ value \in Wants(d)
      BY DEF Delivery, Once
    <3>2. ASSUME NEW u \in Threads, NEW d \in Callbacks, InList(d, running[u])
          PROVE  calls[d] = <<>> /\ value \in Wants(d)'
      <4>1. d \in Callbacks \ {c} /\ calls[d] = <<>> /\ value \in Wants(d)
        BY <2>1, <3>1, <3>2
      <4>2. Wants(d)' = Wants(d)
        BY <1>4, <4>1
      <4> QED  BY <4>1, <4>2
    <3> QED  BY <3>2
  <2> QED  BY <1>1, <2>2 DEF Delivery, Once
<1>16. Kept'
  <2>1. SUFFICES ASSUME ~Completed, NEW d \in Callbacks
                 PROVE  /\ kind'[d] \in ForSuccess =>
                             \/ InList(d, successCallbacks)
                             \/ \E u \in Threads : reg'[u] = d /\ pc'[u] = "onSuccess"
                        /\ kind'[d] \in ForFailure =>
                             \/ InList(d, failureCallbacks)
                             \/ \E u \in Threads :
                                  reg'[u] = d /\ pc'[u] \in {"onSuccess", "onFailure"}
    BY <1>1 DEF Kept
  <2>2. CASE d = c
    <3>1. reg'[t] = c /\ pc'[t] = IF k = "failure" THEN "onFailure" ELSE "onSuccess"
      BY <1>1
    <3>2. "failure" \notin ForSuccess
      BY DEF ForSuccess, Waits
    <3> QED  BY <2>2, <3>1, <3>2, <1>10
  <2>3. CASE d # c
    <3>1. /\ kind[d] \in ForSuccess =>
               \/ InList(d, successCallbacks)
               \/ \E u \in Threads : reg[u] = d /\ pc[u] = "onSuccess"
          /\ kind[d] \in ForFailure =>
               \/ InList(d, failureCallbacks)
               \/ \E u \in Threads : reg[u] = d /\ pc[u] \in {"onSuccess", "onFailure"}
      BY <2>1 DEF Delivery, Kept
    <3>2. \A u \in Threads : pc[u] \in {"onSuccess", "onFailure"} => u # t
      BY <1>1
    <3> QED  BY <1>4, <1>5, <2>3, <3>1, <3>2
  <2> QED  BY <2>2, <2>3
<1>17. CalledOnceWithOutcome'
  BY <1>1, <1>4, <1>6 DEF Delivery, CalledOnceWithOutcome
<1>18. NoCallbackLost'
  <2>1. SUFFICES ASSUME Completed, NEW d \in Callbacks, (value \in Wants(d))'
                 PROVE  calls[d] # <<>> \/ OnItsWay(d)'
    BY <1>1 DEF NoCallbackLost
  <2>2. CASE d = c
    <3>1. reg'[t] = c /\ pc'[t] = IF k = "failure" THEN "onFailure" ELSE "onSuccess"
      BY <1>1
    <3>2. k = "failure" => state = "Failed"
      <4>1. k = "failure" => value \in Failures
        BY <1>1, <1>10, <2>1, <2>2 DEF Wants
      <4> QED  BY <4>1, <2>1 DEF IInv, CompletedHasValue, TypeOK
    <3> QED  BY <1>1, <2>2, <3>1, <3>2 DEF OnItsWay
  <2>3. CASE d # c
    <3>1. calls[d] # <<>> \/ OnItsWay(d)
      BY <1>1, <1>4, <2>1, <2>3 DEF Delivery, NoCallbackLost
    <3>2. OnItsWay(d) => OnItsWay(d)'
      BY <1>1, <1>5 DEF OnItsWay, CallbacksOfOutcome
    <3> QED  BY <3>1, <3>2
  <2> QED  BY <2>2, <2>3
<1> QED  BY <1>11, <1>12, <1>13, <1>14, <1>15, <1>16, <1>17, <1>18 DEF Delivery

LEMMA FillStateKeeps ==
  ASSUME IInv, Delivery, NEW t \in Threads, FillState(t)
  PROVE  Delivery'
<1> USE Types DEF Completed, Succeeded, data, waits, Goto
<1>1. /\ UNCHANGED <<value, successCallbacks, failureCallbacks, reg, running, kind, owner, calls>>
      /\ state' = IF value \in Values THEN "Succeeded" ELSE "Failed"
      /\ value \in Values \cup Failures
      /\ pc[t] = "fillState" /\ pc' = [pc EXCEPT ![t] = "fillTake"]
  BY DEF FillState, IInv, Filling
<1>2. ~Completed /\ Completed' /\ ~Taken /\ ~Taken'
  <2>1. ~Completed /\ Completed' /\ ~Taken
    BY <1>1 DEF IInv, Filling, Taken
  <2>2. pc'[t] = "fillTake"
    BY <1>1
  <2> QED  BY <2>1, <2>2 DEF Taken
<1>3. /\ \A c \in Callbacks : calls[c] = <<>>
      /\ \A u \in Threads : running[u] = <<>>
  BY <1>2 DEF Delivery, Phases
<1>4. \A u \in Threads \ {t} : pc'[u] = pc[u]
  BY <1>1
<1>5. \A c : Untouched(c)' = Untouched(c) /\ Wants(c)' = Wants(c)
  BY <1>1 DEF Untouched, Wants
<1>6. Owning'
  BY <1>1 DEF Delivery, Owning
<1>7. Phases'
  BY <1>1, <1>2, <1>3 DEF Phases
<1>8. Filed'
  BY <1>1 DEF Delivery, Filed
<1>9. Filing'
  <2>1. ASSUME NEW u \in Threads, pc[u] = "onFailure" PROVE Untouched(reg[u])
    BY <1>3, <2>1, InEmpty DEF Untouched, IInv, Registering
  <2>2. \A u \in Threads : pc[u] \notin {"runSuccess", "runFailure"}
    BY <1>2 DEF IInv, Calling
  <2> QED  BY <1>1, <1>4, <1>5, <2>1, <2>2 DEF Delivery, Filing
<1>10. Once'
  BY <1>1, <1>3, InEmpty DEF Once
<1>11. Kept'
  BY <1>2 DEF Kept
<1>12. CalledOnceWithOutcome'
  BY <1>1, <1>3 DEF CalledOnceWithOutcome
<1>13. NoCallbackLost'
  <2>1. SUFFICES ASSUME NEW c \in Callbacks, value \in Wants(c) PROVE OnItsWay(c)'
    BY <1>1, <1>5 DEF NoCallbackLost
  <2>2. pc'[t] = "fillTake"
    BY <1>1
  <2>3. CASE value \in Values
    <3>1. kind[c] \in ForSuccess
      BY <2>1, <2>3 DEF Wants, ForSuccess, Waits, Kinds
    <3>2. InList(c, successCallbacks) \/ \E u \in Threads : reg[u] = c /\ pc[u] = "onSuccess"
      BY <1>2, <3>1 DEF Delivery, Kept
    <3>3. InList(c, successCallbacks) => OnItsWay(c)'
      BY <1>1, <2>2, <2>3 DEF OnItsWay, CallbacksOfOutcome
    <3>4. ASSUME NEW u \in Threads, reg[u] = c, pc[u] = "onSuccess" PROVE OnItsWay(c)'
      BY <1>1, <1>4, <3>4 DEF OnItsWay
    <3> QED  BY <3>2, <3>3, <3>4
  <2>4. CASE value \notin Values
    <3>1. kind[c] \in ForFailure /\ state' = "Failed"
      BY <1>1, <2>1, <2>4 DEF Wants, ForFailure, Waits, Kinds
    <3>2. \/ InList(c, failureCallbacks)
          \/ \E u \in Threads : reg[u] = c /\ pc[u] \in {"onSuccess", "onFailure"}
      BY <1>2, <3>1 DEF Delivery, Kept
    <3>3. InList(c, failureCallbacks) => OnItsWay(c)'
      BY <1>1, <2>2, <2>4 DEF OnItsWay, CallbacksOfOutcome
    <3>4. ASSUME NEW u \in Threads, reg[u] = c, pc[u] \in {"onSuccess", "onFailure"}
          PROVE  OnItsWay(c)'
      BY <1>1, <1>4, <3>1, <3>4 DEF OnItsWay
    <3> QED  BY <3>2, <3>3, <3>4
  <2> QED  BY <2>3, <2>4
<1> QED  BY <1>6, <1>7, <1>8, <1>9, <1>10, <1>11, <1>12, <1>13 DEF Delivery

LEMMA FillTakeKeeps ==
  ASSUME IInv, Delivery, NEW t \in Threads, FillTake(t)
  PROVE  Delivery'
<1> USE Types DEF Completed, Succeeded, data, waits, Goto
<1> DEFINE taken == CallbacksOfOutcome
<1>1. /\ UNCHANGED <<state, value, reg, kind, owner, calls>>
      /\ successCallbacks' = <<>> /\ failureCallbacks' = <<>>
      /\ running' = [running EXCEPT ![t] = taken]
      /\ pc[t] = "fillTake" /\ pc' = [pc EXCEPT ![t] = "runFill"]
  BY DEF FillTake
<1>2. Completed /\ ~Taken /\ Taken'
  <2>1. Completed /\ ~Taken /\ mainLock = t
    BY <1>1 DEF IInv, Locking, Filling, Taken
  <2>2. \A u \in Threads : pc'[u] # "fillTake"
    BY <1>1, <2>1 DEF IInv, Locking
  <2> QED  BY <1>1, <2>1, <2>2 DEF Taken
<1>3. /\ \A c \in Callbacks : calls[c] = <<>>
      /\ \A u \in Threads : running[u] = <<>>
  BY <1>2 DEF Delivery, Phases
<1>4. \A u \in Threads \ {t} : pc'[u] = pc[u] /\ running'[u] = <<>>
  BY <1>1, <1>3
<1>5. running'[t] = taken /\ pc'[t] = "runFill"
  BY <1>1
<1>6. \A c : Wants(c)' = Wants(c)
  BY <1>1 DEF Wants
<1>7. IsInjective(taken) /\ \A c \in Callbacks : InList(c, taken) => value \in Wants(c)
  <2>1. CASE Succeeded
    <3>1. taken = successCallbacks /\ value \in Values
      BY <2>1 DEF CallbacksOfOutcome, IInv, CompletedHasValue
    <3>2. \A c \in Callbacks : kind[c] \in ForSuccess => value \in Wants(c)
      BY <3>1 DEF Wants, ForSuccess, Waits
    <3> QED  BY <3>1, <3>2 DEF Delivery, Filed
  <2>2. CASE ~Succeeded
    <3>1. taken = failureCallbacks /\ value \in Failures
      BY <2>2, <1>2 DEF CallbacksOfOutcome, IInv, CompletedHasValue, TypeOK
    <3>2. \A c \in Callbacks : kind[c] \in ForFailure => value \in Wants(c)
      BY <3>1 DEF Wants, ForFailure, Waits
    <3> QED  BY <3>1, <3>2 DEF Delivery, Filed
  <2> QED  BY <2>1, <2>2
<1>8. ASSUME NEW c \in Callbacks, ~InList(c, taken) PROVE Untouched(c)'
  BY <1>1, <1>3, <1>4, <1>5, <1>8, InEmpty DEF Untouched
<1> HIDE DEF taken
<1>9. Owning'
  BY <1>1 DEF Delivery, Owning
<1>10. Phases'
  BY <1>1, <1>2, <1>4, <1>5 DEF Phases, RunningLabels
<1>11. Filed'
  BY <1>1, InEmpty DEF Filed
<1>12. Filing'
  <2>1. ASSUME NEW u \in Threads, NEW c \in Callbacks, reg[u] = c,
               pc[u] = "onSuccess" \/ (pc[u] = "onFailure" /\ state = "Failed")
        PROVE  Untouched(c)'
    <3>1. ~InList(c, taken)
      BY <2>1 DEF Delivery, Filing, taken, CallbacksOfOutcome
    <3> QED  BY <3>1, <1>8
  <2>2. \A u \in Threads : reg'[u] = reg[u] /\ kind'[reg[u]] = kind[reg[u]]
    BY <1>1
  <2>3. \A c : ~InList(c, successCallbacks)' /\ ~InList(c, failureCallbacks)'
    BY <1>1, InEmpty
  <2>4. \A u \in Threads : pc[u] \in {"onSuccess", "onFailure"} => reg[u] \in Callbacks
    BY DEF IInv, Registering
  <2>5. \A u \in Threads \ {t} :
          /\ pc[u] = "runSuccess" => Succeeded /\ Taken
          /\ pc[u] = "runFailure" => state = "Failed" /\ Taken
    BY DEF Delivery, Filing
  <2> QED  BY <1>1, <1>2, <1>4, <1>5, <2>1, <2>2, <2>3, <2>4, <2>5 DEF Delivery, Filing
<1>13. Once'
  BY <1>1, <1>3, <1>4, <1>5, <1>6, <1>7, InEmpty DEF Once
<1>14. Kept'
  BY <1>1, <1>2 DEF Kept
<1>15. CalledOnceWithOutcome'
  BY <1>1, <1>3 DEF CalledOnceWithOutcome
<1>16. NoCallbackLost'
  <2>1. SUFFICES ASSUME NEW c \in Callbacks, value \in Wants(c) PROVE OnItsWay(c)'
    BY <1>1, <1>6 DEF NoCallbackLost
  <2>2. OnItsWay(c)
    BY <1>2, <1>3, <2>1 DEF Delivery, NoCallbackLost
  <2>3. \A u \in Threads : ~InList(c, running[u])
    BY <1>3, InEmpty
  <2>4. InList(c, taken) => OnItsWay(c)'
    BY <1>5 DEF OnItsWay
  <2>5. ASSUME NEW u \in Threads, reg[u] = c,
               pc[u] = "onSuccess" \/ (pc[u] = "onFailure" /\ state = "Failed")
        PROVE  OnItsWay(c)'
    BY <1>1, <1>4, <2>5 DEF OnItsWay
  <2> QED  BY <2>2, <2>3, <2>4, <2>5 DEF OnItsWay, taken
<1> QED  BY <1>9, <1>10, <1>11, <1>12, <1>13, <1>14, <1>15, <1>16 DEF Delivery

\* A registration under the lock sees a future whose lists have been taken, or
\* one that is not completed.
LEMMA LockFree ==
  ASSUME IInv, mainLock = None
  PROVE  Completed => Taken
BY Types DEF IInv, Locking, Taken

LEMMA OnSuccessKeeps ==
  ASSUME IInv, Delivery, NEW t \in Threads, OnSuccess(t)
  PROVE  Delivery'
<1> USE Types DEF Completed, Succeeded, data, waits, Goto
<1> DEFINE c == reg[t]
<1>1. /\ UNCHANGED <<state, value, failureCallbacks, kind, owner, calls>>
      /\ pc[t] = "onSuccess" /\ mainLock = None /\ c \in Callbacks
      /\ kind[c] \in ForSuccess /\ Untouched(c)
      /\ ~InList(c, successCallbacks) /\ ~InList(c, failureCallbacks)
  BY DEF OnSuccess, IInv, Registering, Delivery, Filing
<1>2. Taken' = Taken /\ (Completed => Taken)
  <2>1. \A u \in Threads : pc'[u] = "fillTake" <=> pc[u] = "fillTake"
    BY <1>1 DEF OnSuccess, Leave, AfterSuccess
  <2> QED  BY <1>1, <2>1, LockFree DEF Taken
<1>3. \A u \in Threads \ {t} : pc'[u] = pc[u] /\ reg'[u] = reg[u] /\ running'[u] = running[u]
  BY DEF OnSuccess, Leave
<1>4. \A d : Wants(d)' = Wants(d)
  BY <1>1 DEF Wants
<1>5. \A u \in Threads \ {t} :
        pc[u] \in {"onSuccess", "onFailure", "runSuccess", "runFailure"} => reg[u] # c
  <2>1. owner[c] = t
    BY <1>1 DEF Delivery, Owning
  <2> QED  BY <1>1, <2>1 DEF Delivery, Owning, IInv, Registering
<1>6. running[t] = <<>>
  BY <1>1 DEF Delivery, Phases, RunningLabels
<1>7. Owning'
  BY <1>1 DEF OnSuccess, Leave, Delivery, Owning
<1>8. kind[c] # "success" => kind[c] \in ForFailure /\ AfterSuccess(c) = "onFailure"
  BY <1>1 DEF ForSuccess, ForFailure, AfterSuccess
<1>9. kind[c] = "success" => AfterSuccess(c) = "idle" /\ kind[c] \notin ForFailure
  BY DEF AfterSuccess, ForFailure, Waits
<1>10. value \in Values /\ Succeeded => value \in Wants(c)
  BY <1>1 DEF Wants, ForSuccess, Waits
<1> HIDE DEF c
<1>a. CASE ~Completed
  <2>1. /\ successCallbacks' = Append(successCallbacks, c) /\ running' = running
        /\ pc'[t] = AfterSuccess(c)
        /\ AfterSuccess(c) # "idle" => reg'[t] = c
    BY <1>a DEF OnSuccess, Leave, c
  <2>2. /\ \A d : InList(d, successCallbacks') <=> InList(d, successCallbacks) \/ d = c
        /\ IsInjective(successCallbacks')
    BY <1>1, <2>1, InAppend DEF IInv, TypeOK, Delivery, Filed
  <2>3. \A d : Untouched(d)' = Untouched(d)
    BY <1>1, <2>1 DEF Untouched
  <2>4. ~Taken /\ ~Taken'
    BY <1>2, <1>a DEF Taken
  <2>5. Phases'
    BY <1>1, <2>1, <2>4 DEF Delivery, Phases
  <2>6. Filed'
    BY <1>1, <2>2 DEF Delivery, Filed
  <2>7. Filing'
    <3>1. ASSUME NEW u \in Threads \ {t} PROVE
            /\ pc[u] = "onSuccess" => reg[u] # c
            /\ pc[u] \notin {"runSuccess", "runFailure"}
      BY <1>5, <1>a DEF IInv, Calling
    <3> QED  BY <1>1, <1>3, <1>8, <1>9, <1>a, <2>1, <2>2, <2>3, <3>1 DEF Delivery, Filing
  <2>8. Once'
    BY <1>1, <1>4, <2>1 DEF Delivery, Once
  <2>9. Kept'
    <3>1. ASSUME NEW d \in Callbacks, kind[d] \in ForSuccess
          PROVE  \/ InList(d, successCallbacks')
                 \/ \E u \in Threads : reg'[u] = d /\ pc'[u] = "onSuccess"
      <4>1. \/ InList(d, successCallbacks)
            \/ \E u \in Threads : reg[u] = d /\ pc[u] = "onSuccess"
        BY <1>a, <3>1 DEF Delivery, Kept
      <4> QED  BY <4>1, <1>3, <2>2 DEF c
    <3>2. ASSUME NEW d \in Callbacks, kind[d] \in ForFailure
          PROVE  \/ InList(d, failureCallbacks)
                 \/ \E u \in Threads : reg'[u] = d /\ pc'[u] \in {"onSuccess", "onFailure"}
      <4>1. \/ InList(d, failureCallbacks)
            \/ \E u \in Threads : reg[u] = d /\ pc[u] \in {"onSuccess", "onFailure"}
        BY <1>a, <3>2 DEF Delivery, Kept
      <4>2. d = c => pc'[t] = "onFailure" /\ reg'[t] = d
        BY <1>8, <1>9, <2>1, <3>2
      <4> QED  BY <4>1, <4>2, <1>3 DEF c
    <3> QED  BY <1>1, <3>1, <3>2 DEF Kept
  <2>10. CalledOnceWithOutcome' /\ NoCallbackLost'
    BY <1>1, <1>4, <1>a DEF Delivery, CalledOnceWithOutcome, NoCallbackLost
  <2> QED  BY <1>7, <2>5, <2>6, <2>7, <2>8, <2>9, <2>10 DEF Delivery
<1>b. CASE Succeeded
  <2>1. /\ successCallbacks' = successCallbacks /\ reg' = reg
        /\ running' = [running EXCEPT ![t] = <<c>>]
        /\ pc' = [pc EXCEPT ![t] = "runSuccess"]
    BY <1>b DEF OnSuccess, c
  <2>2. running'[t] = <<c>> /\ pc'[t] = "runSuccess" /\ reg'[t] = c
    BY <2>1 DEF c
  <2>3. Taken /\ Taken' /\ value \in Wants(c)
    BY <1>2, <1>10, <1>b DEF IInv, CompletedHasValue
  <2>4. /\ IsInjective(<<c>>) /\ \A d : InList(d, <<c>>) <=> d = c
        /\ ~InList(c, running[t]) /\ \A u \in Threads : ~InList(c, running[u])
        /\ calls[c] = <<>>
    BY <1>1, InSingle DEF Untouched
  <2>5. Phases'
    BY <1>1, <1>3, <2>1, <2>2, <2>3 DEF Delivery, Phases, RunningLabels
  <2>6. Filed'
    BY <1>1, <2>1 DEF Delivery, Filed
  <2>7. Filing'
    <3>1. ASSUME NEW d, d # c, Untouched(d) PROVE Untouched(d)'
      BY <1>1, <1>3, <2>2, <2>4, <3>1 DEF Untouched
    <3>2. ASSUME NEW u \in Threads, u # t
          PROVE  /\ pc[u] = "onSuccess" => reg[u] # c
                 /\ pc[u] = "onFailure" => reg[u] # c
      BY <1>5, <3>2
    <3> QED  BY <1>1, <1>3, <1>b, <2>1, <2>2, <2>3, <3>1, <3>2 DEF Delivery, Filing
  <2>8. Once'
    <3>1. \A u \in Threads, d \in Callbacks :
            InList(d, running'[u]) => InList(d, running[u]) \/ (u = t /\ d = c)
      BY <1>3, <2>2, <2>4, ZenonT(40)
    <3>2. \A u \in Threads : IsInjective(running'[u])
      BY <1>3, <2>2, <2>4 DEF Delivery, Once
    <3> QED  BY <1>1, <1>4, <2>3, <2>4, <3>1, <3>2 DEF Delivery, Once
  <2>9. Kept'
    BY <1>1, <1>b DEF Kept
  <2>10. CalledOnceWithOutcome'
    BY <1>1, <1>4 DEF Delivery, CalledOnceWithOutcome
  <2>11. NoCallbackLost'
    <3>1. ASSUME NEW d \in Callbacks, OnItsWay(d) PROVE OnItsWay(d)'
      <4>1. \A u \in Threads : ~(pc[u] = "fillTake")
        BY <2>3 DEF Taken
      <4>2. PICK u \in Threads : InList(d, running[u]) \/
                   (reg[u] = d /\ pc[u] \in {"onSuccess", "onFailure"} /\ (pc[u] = "onFailure" => state = "Failed"))
        BY <3>1, <4>1 DEF OnItsWay
      <4>3. CASE u # t
        BY <1>1, <1>3, <2>1, <4>2, <4>3 DEF OnItsWay
      <4>4. CASE u = t
        <5>1. InList(d, running'[t])
          BY <1>6, <2>2, <2>4, <4>2, <4>4, InEmpty DEF c
        <5> QED  BY <5>1 DEF OnItsWay
      <4> QED  BY <4>3, <4>4
    <3> QED  BY <1>1, <1>4, <3>1 DEF Delivery, NoCallbackLost
  <2> QED  BY <1>7, <2>5, <2>6, <2>7, <2>8, <2>9, <2>10, <2>11 DEF Delivery
<1>c. CASE state = "Failed"
  <2>1. /\ successCallbacks' = successCallbacks /\ running' = running
        /\ pc'[t] = AfterSuccess(c)
        /\ AfterSuccess(c) # "idle" => reg'[t] = c
    BY <1>c DEF OnSuccess, Leave, c
  <2>2. \A d : Untouched(d)' = Untouched(d)
    BY <1>1, <2>1 DEF Untouched
  <2>3. Phases'
    BY <1>1, <1>2, <1>3, <1>6, <2>1 DEF Delivery, Phases
  <2>4. Filed'
    BY <1>1, <2>1 DEF Delivery, Filed
  <2>5. Filing'
    BY <1>1, <1>2, <1>3, <1>8, <1>9, <1>c, <2>1, <2>2 DEF Delivery, Filing
  <2>6. Once'
    BY <1>1, <1>4, <2>1 DEF Delivery, Once
  <2>7. Kept'
    BY <1>1, <1>c DEF Kept
  <2>8. CalledOnceWithOutcome'
    BY <1>1, <1>4 DEF Delivery, CalledOnceWithOutcome
  <2>9. NoCallbackLost'
    <3>1. ASSUME NEW d \in Callbacks, value \in Wants(d), OnItsWay(d) PROVE OnItsWay(d)'
      <4>1. \A u \in Threads : ~(pc[u] = "fillTake")
        BY <1>2, <1>c DEF Taken
      <4>2. PICK u \in Threads : InList(d, running[u]) \/
                   (reg[u] = d /\ pc[u] \in {"onSuccess", "onFailure"})
        BY <3>1, <4>1 DEF OnItsWay
      <4>3. CASE InList(d, running[u])
        BY <2>1, <4>3 DEF OnItsWay
      <4>4. CASE ~InList(d, running[u]) /\ u # t
        BY <1>1, <1>3, <1>c, <4>2, <4>4 DEF OnItsWay
      <4>5. CASE ~InList(d, running[u]) /\ u = t
        <5>1. d = c /\ value \in Failures
          BY <4>2, <4>5, <1>c DEF c, IInv, CompletedHasValue
        <5>2. kind[c] # "success"
          BY <3>1, <5>1 DEF Wants
        <5> QED  BY <1>1, <1>8, <1>c, <2>1, <5>1, <5>2 DEF OnItsWay
      <4> QED  BY <4>3, <4>4, <4>5
    <3> QED  BY <1>1, <1>4, <3>1 DEF Delivery, NoCallbackLost
  <2> QED  BY <1>7, <2>3, <2>4, <2>5, <2>6, <2>7, <2>8, <2>9 DEF Delivery
<1> QED  BY <1>a, <1>b, <1>c DEF IInv, TypeOK

LEMMA OnFailureKeeps ==
  ASSUME IInv, Delivery, NEW t \in Threads, OnFailure(t)
  PROVE  Delivery'
<1> USE Types DEF Completed, Succeeded, data, waits, Goto
<1> DEFINE c == reg[t]
<1>1. /\ UNCHANGED <<state, value, successCallbacks, kind, owner, calls>>
      /\ pc[t] = "onFailure" /\ mainLock = None /\ c \in Callbacks
      /\ kind[c] \in ForFailure /\ (state = "Failed" => Untouched(c))
      /\ ~InList(c, failureCallbacks)
  BY DEF OnFailure, IInv, Registering, Delivery, Filing
<1>2. Taken' = Taken /\ (Completed => Taken)
  <2>1. \A u \in Threads : pc'[u] = "fillTake" <=> pc[u] = "fillTake"
    BY <1>1 DEF OnFailure, Leave, AfterFailure
  <2> QED  BY <1>1, <2>1, LockFree DEF Taken
<1>3. \A u \in Threads \ {t} : pc'[u] = pc[u] /\ reg'[u] = reg[u] /\ running'[u] = running[u]
  BY DEF OnFailure, Leave
<1>4. \A d : Wants(d)' = Wants(d)
  BY <1>1 DEF Wants
<1>5. \A u \in Threads \ {t} :
        pc[u] \in {"onSuccess", "onFailure", "runSuccess", "runFailure"} => reg[u] # c
  <2>1. owner[c] = t
    BY <1>1 DEF Delivery, Owning
  <2> QED  BY <1>1, <2>1 DEF Delivery, Owning, IInv, Registering
<1>6. running[t] = <<>>
  BY <1>1 DEF Delivery, Phases, RunningLabels
<1>7. Owning'
  BY <1>1 DEF OnFailure, Leave, Delivery, Owning
<1>8. AfterFailure(c) \in {"idle", "block"}
  BY DEF AfterFailure
<1>9. value \in Failures => value \in Wants(c)
  BY <1>1 DEF Wants, ForFailure, Waits
<1> HIDE DEF c
<1>a. CASE ~Completed
  <2>1. /\ failureCallbacks' = Append(failureCallbacks, c) /\ running' = running
        /\ pc'[t] = AfterFailure(c)
    BY <1>a DEF OnFailure, Leave, c
  <2>2. /\ \A d : InList(d, failureCallbacks') <=> InList(d, failureCallbacks) \/ d = c
        /\ IsInjective(failureCallbacks')
    BY <1>1, <2>1, InAppend DEF IInv, TypeOK, Delivery, Filed
  <2>3. \A d : Untouched(d)' = Untouched(d)
    BY <1>1, <2>1 DEF Untouched
  <2>4. ~Taken /\ ~Taken'
    BY <1>2, <1>a DEF Taken
  <2>5. Phases'
    BY <1>1, <2>1, <2>4 DEF Delivery, Phases
  <2>6. Filed'
    BY <1>1, <2>2 DEF Delivery, Filed
  <2>7. Filing'
    <3>1. ASSUME NEW u \in Threads \ {t} PROVE
            /\ pc[u] \in {"onSuccess", "onFailure"} => reg[u] # c
            /\ pc[u] \notin {"runSuccess", "runFailure"}
      BY <1>5, <1>a DEF IInv, Calling
    <3> QED  BY <1>1, <1>3, <1>8, <1>a, <2>1, <2>2, <2>3, <3>1 DEF Delivery, Filing
  <2>8. Once'
    BY <1>1, <1>4, <2>1 DEF Delivery, Once
  <2>9. Kept'
    <3>1. ASSUME NEW d \in Callbacks, kind[d] \in ForSuccess
          PROVE  \/ InList(d, successCallbacks)
                 \/ \E u \in Threads : reg'[u] = d /\ pc'[u] = "onSuccess"
      <4>1. \/ InList(d, successCallbacks)
            \/ \E u \in Threads : reg[u] = d /\ pc[u] = "onSuccess"
        BY <1>a, <3>1 DEF Delivery, Kept
      <4> QED  BY <4>1, <1>1, <1>3
    <3>2. ASSUME NEW d \in Callbacks, kind[d] \in ForFailure
          PROVE  \/ InList(d, failureCallbacks')
                 \/ \E u \in Threads : reg'[u] = d /\ pc'[u] \in {"onSuccess", "onFailure"}
      <4>1. \/ InList(d, failureCallbacks)
            \/ \E u \in Threads : reg[u] = d /\ pc[u] \in {"onSuccess", "onFailure"}
        BY <1>a, <3>2 DEF Delivery, Kept
      <4> QED  BY <4>1, <1>3, <2>2 DEF c
    <3> QED  BY <1>1, <3>1, <3>2 DEF Kept
  <2>10. CalledOnceWithOutcome' /\ NoCallbackLost'
    BY <1>1, <1>4, <1>a DEF Delivery, CalledOnceWithOutcome, NoCallbackLost
  <2> QED  BY <1>7, <2>5, <2>6, <2>7, <2>8, <2>9, <2>10 DEF Delivery
<1>b. CASE state = "Failed"
  <2>1. /\ failureCallbacks' = failureCallbacks /\ reg' = reg
        /\ running' = [running EXCEPT ![t] = <<c>>]
        /\ pc' = [pc EXCEPT ![t] = "runFailure"]
    BY <1>b DEF OnFailure, c
  <2>2. running'[t] = <<c>> /\ pc'[t] = "runFailure" /\ reg'[t] = c
    BY <2>1 DEF c
  <2>3. Taken /\ Taken' /\ value \in Wants(c)
    BY <1>2, <1>9, <1>b DEF IInv, CompletedHasValue
  <2>4. /\ IsInjective(<<c>>) /\ \A d : InList(d, <<c>>) <=> d = c
        /\ ~InList(c, running[t]) /\ \A u \in Threads : ~InList(c, running[u])
        /\ calls[c] = <<>>
    BY <1>1, <1>b, InSingle DEF Untouched
  <2>5. Phases'
    BY <1>1, <1>3, <2>1, <2>2, <2>3 DEF Delivery, Phases, RunningLabels
  <2>6. Filed'
    BY <1>1, <2>1 DEF Delivery, Filed
  <2>7. Filing'
    <3>1. ASSUME NEW d, d # c, Untouched(d) PROVE Untouched(d)'
      BY <1>1, <1>3, <2>2, <2>4, <3>1 DEF Untouched
    <3>2. ASSUME NEW u \in Threads, u # t
          PROVE  /\ pc[u] = "onSuccess" => reg[u] # c
                 /\ pc[u] = "onFailure" => reg[u] # c
      BY <1>5, <3>2
    <3> QED  BY <1>1, <1>3, <1>b, <2>1, <2>2, <2>3, <3>1, <3>2 DEF Delivery, Filing
  <2>8. Once'
    <3>1. \A u \in Threads, d \in Callbacks :
            InList(d, running'[u]) => InList(d, running[u]) \/ (u = t /\ d = c)
      BY <1>3, <2>2, <2>4, ZenonT(40)
    <3>2. \A u \in Threads : IsInjective(running'[u])
      BY <1>3, <2>2, <2>4 DEF Delivery, Once
    <3> QED  BY <1>1, <1>4, <2>3, <2>4, <3>1, <3>2 DEF Delivery, Once
  <2>9. Kept'
    BY <1>1, <1>b DEF Kept
  <2>10. CalledOnceWithOutcome'
    BY <1>1, <1>4 DEF Delivery, CalledOnceWithOutcome
  <2>11. NoCallbackLost'
    <3>1. ASSUME NEW d \in Callbacks, OnItsWay(d) PROVE OnItsWay(d)'
      <4>1. \A u \in Threads : ~(pc[u] = "fillTake")
        BY <2>3 DEF Taken
      <4>2. PICK u \in Threads : InList(d, running[u]) \/
                                 (reg[u] = d /\ pc[u] \in {"onSuccess", "onFailure"})
        BY <3>1, <4>1 DEF OnItsWay
      <4>3. CASE u # t
        BY <1>1, <1>3, <1>b, <2>1, <4>2, <4>3 DEF OnItsWay
      <4>4. CASE u = t
        <5>1. InList(d, running'[t])
          BY <1>6, <2>2, <2>4, <4>2, <4>4, InEmpty DEF c
        <5> QED  BY <5>1 DEF OnItsWay
      <4> QED  BY <4>3, <4>4
    <3> QED  BY <1>1, <1>4, <3>1 DEF Delivery, NoCallbackLost
  <2> QED  BY <1>7, <2>5, <2>6, <2>7, <2>8, <2>9, <2>10, <2>11 DEF Delivery
<1>c. CASE Succeeded
  <2>1. /\ failureCallbacks' = failureCallbacks /\ running' = running
        /\ pc'[t] = AfterFailure(c)
    BY <1>c DEF OnFailure, Leave, c
  <2>2. \A d : Untouched(d)' = Untouched(d)
    BY <1>1, <2>1 DEF Untouched
  <2>3. Phases'
    BY <1>1, <1>2, <1>3, <1>6, <2>1 DEF Delivery, Phases
  <2>4. Filed'
    BY <1>1, <2>1 DEF Delivery, Filed
  <2>5. Filing'
    BY <1>1, <1>2, <1>3, <1>8, <1>c, <2>1, <2>2 DEF Delivery, Filing
  <2>6. Once'
    BY <1>1, <1>4, <2>1 DEF Delivery, Once
  <2>7. Kept'
    BY <1>1, <1>c DEF Kept
  <2>8. CalledOnceWithOutcome'
    BY <1>1, <1>4 DEF Delivery, CalledOnceWithOutcome
  <2>9. NoCallbackLost'
    <3>1. ASSUME NEW d \in Callbacks, OnItsWay(d) PROVE OnItsWay(d)'
      <4>1. \A u \in Threads : ~(pc[u] = "fillTake")
        BY <1>2, <1>c DEF Taken
      <4>2. PICK u \in Threads : InList(d, running[u]) \/ (reg[u] = d /\ pc[u] = "onSuccess")
        BY <3>1, <4>1, <1>c DEF OnItsWay
      <4>3. CASE InList(d, running[u])
        BY <2>1, <4>3 DEF OnItsWay
      <4>4. CASE ~InList(d, running[u])
        BY <1>1, <1>3, <4>2, <4>4 DEF OnItsWay
      <4> QED  BY <4>3, <4>4
    <3> QED  BY <1>1, <1>4, <3>1 DEF Delivery, NoCallbackLost
  <2> QED  BY <1>7, <2>3, <2>4, <2>5, <2>6, <2>7, <2>8, <2>9 DEF Delivery
<1> QED  BY <1>a, <1>b, <1>c DEF IInv, TypeOK

LEMMA CallsDoneKeeps ==
  ASSUME IInv, Delivery, NEW t \in Threads, CallsDone(t)
  PROVE  Delivery'
<1> USE Types DEF Completed, Succeeded, data, waits, Goto
<1>1. /\ UNCHANGED <<state, value, successCallbacks, failureCallbacks, running, kind, owner, calls>>
      /\ running[t] = <<>> /\ Running(t)
      /\ Completed /\ pc[t] # "fillTake"
  BY DEF CallsDone, Running, IInv, Calling
<1>2. \A u \in Threads \ {t} : pc'[u] = pc[u] /\ reg'[u] = reg[u]
  BY DEF CallsDone, Leave
<1>3. /\ pc'[t] \in {"idle", "onFailure", "block"}
      /\ pc'[t] = "onFailure" => pc[t] = "runSuccess" /\ kind[reg[t]] # "success" /\ reg'[t] = reg[t]
  BY <1>1 DEF CallsDone, Leave, AfterSuccess, AfterFailure, Running
<1>4. Taken' = Taken
  <2>1. \A u \in Threads : pc'[u] = "fillTake" <=> pc[u] = "fillTake"
    BY <1>1, <1>2, <1>3
  <2> QED  BY <1>1, <2>1 DEF Taken
<1>5. \A d : Wants(d)' = Wants(d) /\ Untouched(d)' = Untouched(d)
  BY <1>1 DEF Wants, Untouched
<1>6. Owning'
  BY <1>1 DEF CallsDone, Leave, Delivery, Owning
<1>7. Phases'
  BY <1>1, <1>2, <1>4 DEF Delivery, Phases
<1>8. Filed'
  BY <1>1 DEF Delivery, Filed
<1>9. Filing'
  <2>1. ASSUME pc'[t] = "onFailure"
        PROVE  /\ kind[reg[t]] \in ForFailure /\ ~InList(reg[t], failureCallbacks)
               /\ state # "Failed" /\ reg'[t] = reg[t]
    <3>1. kind[reg[t]] \in ForSuccess \ {"success"} /\ Succeeded /\ Taken /\ reg'[t] = reg[t]
      BY <1>3, <2>1 DEF Delivery, Filing
    <3>2. failureCallbacks = <<>>
      BY <3>1 DEF Delivery, Phases
    <3> QED  BY <3>1, <3>2, InEmpty DEF ForSuccess, ForFailure
  <2> QED  BY <1>1, <1>2, <1>3, <1>4, <1>5, <2>1 DEF Delivery, Filing
<1>10. Once'
  BY <1>1, <1>5 DEF Delivery, Once
<1>11. Kept'
  BY <1>1 DEF Kept
<1>12. CalledOnceWithOutcome'
  BY <1>1, <1>5 DEF Delivery, CalledOnceWithOutcome
<1>13. NoCallbackLost'
  <2>1. ASSUME NEW d \in Callbacks, OnItsWay(d) PROVE OnItsWay(d)'
    <3>1. PICK u \in Threads :
            \/ InList(d, running[u])
            \/ pc[u] = "fillTake" /\ InList(d, CallbacksOfOutcome)
            \/ reg[u] = d /\ pc[u] = "onSuccess"
            \/ reg[u] = d /\ pc[u] = "onFailure" /\ state = "Failed"
      BY <2>1 DEF OnItsWay
    <3>2. u # t
      BY <1>1, <3>1, InEmpty DEF Running
    <3> QED  BY <1>1, <1>2, <3>1, <3>2 DEF OnItsWay, CallbacksOfOutcome
  <2> QED  BY <1>1, <1>5, <2>1 DEF Delivery, NoCallbackLost
<1> QED  BY <1>6, <1>7, <1>8, <1>9, <1>10, <1>11, <1>12, <1>13 DEF Delivery

-----------------------------------------------------------------------------
(* Calling the first of the callbacks a thread has *)

Pops(t) ==
    /\ UNCHANGED <<data, arg, reg, kind, owner>>
    /\ running[t] # <<>>
    /\ Called(t, Head(running[t]))
    /\ pc' = [pc EXCEPT ![t] = pc'[t]]
    /\ pc[t] \in RunningLabels
    /\ pc'[t] \in {pc[t], "runFill"}

LEMMA CallsPop ==
  ASSUME IInv, NEW t \in Threads,
         \/ CallBack(t) \/ CallbackExit(t)
         \/ CallbackNotify(t) /\ kind[Head(running[t])] # "wait"
  PROVE  Pops(t)
<1> USE Types DEF Pops, RunningLabels, Goto
<1>1. CASE CallBack(t)
  BY <1>1 DEF CallBack, Running
<1>2. CASE CallbackExit(t)
  BY <1>2 DEF CallbackExit, IInv, Calling
<1>3. CASE CallbackNotify(t) /\ kind[Head(running[t])] # "wait"
  BY <1>3 DEF CallbackNotify, IInv, Calling
<1> QED  BY <1>1, <1>2, <1>3

\* What a call changes: the callback leaves the list of its thread, and has
\* been called once, with the outcome.
LEMMA PopFacts ==
  ASSUME IInv, Delivery, NEW t \in Threads, Pops(t), NEW c, c = Head(running[t])
  PROVE  /\ c \in Callbacks /\ InList(c, running[t]) /\ calls[c] = <<>> /\ value \in Wants(c)
         /\ Taken /\ Taken' /\ Completed
         /\ IsInjective(running'[t]) /\ ~InList(c, running'[t])
         /\ \A d : InList(d, running[t]) <=> d = c \/ InList(d, running'[t])
         /\ \A u \in Threads \ {t} : running'[u] = running[u] /\ pc'[u] = pc[u]
         /\ calls'[c] = <<value>>
         /\ \A d \in Callbacks \ {c} : calls'[d] = calls[d]
<1> USE Types DEF Pops
<1>1. running'[t] = Tail(running[t])
  BY DEF Called
<1>2. running[t] \in Seq(Callbacks) /\ c \in Callbacks
  BY FirstOfRunning
<1>3. /\ \A d : InList(d, running[t]) <=> d = c \/ InList(d, running'[t])
      /\ IsInjective(running'[t]) /\ ~InList(c, running'[t])
  BY <1>1, <1>2, InTail DEF Delivery, Once
<1>4. InList(c, running[t]) /\ calls[c] = <<>> /\ value \in Wants(c)
  BY <1>2, <1>3 DEF Delivery, Once
<1>5. Taken /\ Completed
  BY DEF Delivery, Phases, Taken
<1>6. Taken'
  BY <1>5 DEF Taken, Completed, data, RunningLabels
<1>7. calls \in [Callbacks -> Seq(Values \cup Failures)]
  BY DEF IInv, TypeOK
<1>8. calls' = [calls EXCEPT ![c] = Append(<<>>, value)]
  BY <1>2, <1>4, <1>7 DEF Called
<1>9. Append(<<>>, value) = <<value>>
  OBVIOUS
<1>10. calls'[c] = <<value>> /\ \A d \in Callbacks \ {c} : calls'[d] = calls[d]
  BY <1>2, <1>7, <1>8, <1>9
<1>11. \A u \in Threads \ {t} : running'[u] = running[u] /\ pc'[u] = pc[u]
  BY DEF Called
<1> QED  BY <1>2, <1>3, <1>4, <1>5, <1>6, <1>10, <1>11

LEMMA PopKeeps ==
  ASSUME IInv, Delivery, NEW t \in Threads, Pops(t)
  PROVE  Delivery'
<1> USE Types DEF Completed, Succeeded, data
<1>1. PICK c : c = Head(running[t])
  OBVIOUS
<1>2. /\ c \in Callbacks /\ InList(c, running[t]) /\ calls[c] = <<>> /\ value \in Wants(c)
      /\ Taken /\ Taken' /\ Completed
      /\ IsInjective(running'[t]) /\ ~InList(c, running'[t])
      /\ \A d : InList(d, running[t]) <=> d = c \/ InList(d, running'[t])
      /\ \A u \in Threads \ {t} : running'[u] = running[u] /\ pc'[u] = pc[u]
      /\ calls'[c] = <<value>>
      /\ \A d \in Callbacks \ {c} : calls'[d] = calls[d]
  BY <1>1, PopFacts
<1>3. /\ UNCHANGED <<state, value, successCallbacks, failureCallbacks, reg, kind, owner>>
      /\ pc[t] \in RunningLabels /\ pc'[t] \in {pc[t], "runFill"}
  BY DEF Pops
<1>4. \A d : Wants(d)' = Wants(d)
  BY <1>3 DEF Wants
<1>5. \A u \in Threads : \A d : InList(d, running'[u]) => InList(d, running[u])
  BY <1>2
<1>6. \A u \in Threads : ~InList(c, running'[u])
  BY <1>2 DEF Delivery, Once
<1>7. successCallbacks = <<>> /\ failureCallbacks = <<>>
  BY <1>2 DEF Delivery, Phases
<1>8. Owning'
  BY <1>3 DEF Delivery, Owning
<1>9. Phases'
  BY <1>2, <1>3, <1>7 DEF Delivery, Phases, RunningLabels
<1>10. Filed'
  BY <1>3 DEF Delivery, Filed
<1>11. Filing'
  <2>1. ASSUME NEW d \in Callbacks, Untouched(d) PROVE Untouched(d)'
    <3>1. d # c
      BY <1>2, <2>1 DEF Untouched
    <3> QED  BY <1>2, <1>5, <2>1, <3>1 DEF Untouched
  <2>2. \A u \in Threads : pc[u] \in {"onSuccess", "onFailure"} => reg[u] \in Callbacks
    BY DEF IInv, Registering
  <2>3. pc'[t] \notin {"onSuccess", "onFailure"}
    BY <1>3 DEF RunningLabels
  <2>4. \A u \in Threads : pc'[u] = "runSuccess" => pc[u] = "runSuccess"
    BY <1>2, <1>3
  <2>5. \A u \in Threads : pc'[u] = "runFailure" => pc[u] = "runFailure"
    BY <1>2, <1>3
  <2> QED  BY <1>2, <1>3, <2>1, <2>2, <2>3, <2>4, <2>5 DEF Delivery, Filing
<1>12. Once'
  <2>1. \A u \in Threads : IsInjective(running'[u])
    BY <1>2 DEF Delivery, Once
  <2>2. \A u, v \in Threads, d \in Callbacks :
          InList(d, running'[u]) /\ InList(d, running'[v]) => u = v
    BY <1>5 DEF Delivery, Once
  <2>3. ASSUME NEW u \in Threads, NEW d \in Callbacks, InList(d, running'[u])
        PROVE  calls'[d] = <<>> /\ value \in Wants(d)
    BY <1>2, <1>5, <1>6, <2>3 DEF Delivery, Once
  <2> QED  BY <1>3, <1>4, <2>1, <2>2, <2>3 DEF Once
<1>13. Kept'
  BY <1>2, <1>3 DEF Kept
<1>14. CalledOnceWithOutcome'
  BY <1>2, <1>3, <1>4 DEF Delivery, CalledOnceWithOutcome
<1>15. NoCallbackLost'
  <2>1. SUFFICES ASSUME NEW d \in Callbacks, value \in Wants(d)
                 PROVE  calls'[d] # <<>> \/ OnItsWay(d)'
    BY <1>3, <1>4 DEF NoCallbackLost
  <2>2. CASE d = c
    <3>1. <<value>> # <<>>
      OBVIOUS
    <3> QED  BY <1>2, <2>2, <3>1
  <2>3. CASE d # c
    <3>1. calls'[d] = calls[d]
      BY <1>2, <2>3
    <3>2. calls[d] # <<>> \/ OnItsWay(d)
      BY <1>2, <2>1 DEF Delivery, NoCallbackLost
    <3>3. ASSUME OnItsWay(d) PROVE OnItsWay(d)'
      <4>1. PICK u \in Threads :
              \/ InList(d, running[u])
              \/ reg[u] = d /\ pc[u] = "onSuccess"
              \/ reg[u] = d /\ pc[u] = "onFailure" /\ state = "Failed"
        BY <1>2, <3>3 DEF OnItsWay, Taken
      <4>2. CASE InList(d, running[u])
        <5>1. InList(d, running'[u])
          BY <1>2, <2>3, <4>2
        <5> QED  BY <5>1 DEF OnItsWay
      <4>3. CASE ~InList(d, running[u])
        <5>1. u # t
          BY <1>3, <4>1, <4>3 DEF RunningLabels
        <5> QED  BY <1>2, <1>3, <4>1, <4>3, <5>1 DEF OnItsWay
      <4> QED  BY <4>2, <4>3
    <3> QED  BY <3>1, <3>2, <3>3
  <2> QED  BY <2>2, <2>3
<1> QED  BY <1>8, <1>9, <1>10, <1>11, <1>12, <1>13, <1>14, <1>15 DEF Delivery

\* A notification that does not end the callback of an untimed wait yet.
LEMMA NotifyQuiet ==
  ASSUME IInv, NEW t \in Threads, CallbackNotify(t), kind[Head(running[t])] = "wait"
  PROVE  Quiet(t)
BY Types DEF CallbackNotify, Quiet, RunningLabels, Goto, data

LEMMA InitDelivery == Init => Delivery
<1> SUFFICES ASSUME Init PROVE Delivery
  OBVIOUS
<1> USE InEmpty, FutureAssumption DEF Init
<1>1. Owning /\ Phases /\ Filed
  BY DEF Owning, Phases, Filed, Taken, Completed
<1>2. Filing /\ Once
  BY DEF Filing, Once
<1>3. Kept /\ CalledOnceWithOutcome /\ NoCallbackLost
  BY DEF Kept, CalledOnceWithOutcome, NoCallbackLost, Completed, ForSuccess, ForFailure, Waits
<1> QED  BY <1>1, <1>2, <1>3 DEF Delivery

LEMMA NextDelivery ==
  ASSUME IInv, Delivery, [Next]_vars
  PROVE  Delivery'
<1>1. CASE Next
  <2>1. ASSUME NEW t \in Threads, Continue(t) PROVE Delivery'
    <3>1. CASE CallbackNotify(t)
      BY <3>1, NotifyQuiet, QuietKeeps, CallsPop, PopKeeps
    <3>2. CASE CallBack(t) \/ CallbackExit(t)
      BY <3>2, CallsPop, PopKeeps
    <3>3. CASE \/ FillSuccess(t) \/ FillLock(t) \/ FillValue(t) \/ CallbackLock(t)
               \/ CallbackUnlock(t) \/ Block(t) \/ Wake(t) \/ Spin(t)
      BY <3>3, QuietSteps, QuietKeeps
    <3>4. CASE FillState(t) \/ FillTake(t) \/ OnSuccess(t) \/ OnFailure(t) \/ CallsDone(t)
      BY <3>4, FillStateKeeps, FillTakeKeeps, OnSuccessKeeps, OnFailureKeeps, CallsDoneKeeps
    <3> QED  BY <2>1, <3>1, <3>2, <3>3, <3>4 DEF Continue
  <2>2. ASSUME NEW t \in Threads, Call(t) PROVE Delivery'
    <3>1. CASE \E c \in Callbacks, k \in Kinds : Register(t, c, k)
      BY <3>1, RegisterKeeps
    <3>2. CASE \/ \E f \in Failures : UseWithFailure(t, f)
               \/ \E v \in Values \cup Failures : StartFill(t, v)
               \/ \E why \in {"expired", "spurious"} : Unasked(t, why)
      BY <3>2, QuietSteps, QuietKeeps
    <3> QED  BY <2>2, <3>1, <3>2 DEF Call, Cancel
  <2> QED  BY <1>1, <2>1, <2>2 DEF Next
<1>2. CASE UNCHANGED vars
  <2> USE <1>2 DEF vars, data, local, waits, Completed, Succeeded
  <2>1. Taken' = Taken /\ \A c : Wants(c)' = Wants(c) /\ Untouched(c)' = Untouched(c)
                                 /\ OnItsWay(c)' = OnItsWay(c)
    BY DEF Taken, Wants, Untouched, OnItsWay, CallbacksOfOutcome
  <2>2. Owning' /\ Phases' /\ Filed' /\ Filing'
    BY <2>1 DEF Delivery, Owning, Phases, Filed, Filing
  <2>3. Once' /\ Kept' /\ CalledOnceWithOutcome' /\ NoCallbackLost'
    BY <2>1 DEF Delivery, Once, Kept, CalledOnceWithOutcome, NoCallbackLost
  <2> QED  BY <2>2, <2>3 DEF Delivery
<1> QED  BY <1>1, <1>2

LEMMA AlwaysDelivery == Spec => [](IInv /\ Delivery)
BY InitIInv, NextIInv, InitDelivery, NextDelivery, PTL DEF Spec

\* However fills, cancels and registrations interleave, a callback is called at
\* most once, with the outcome of the future, and only for an outcome it was
\* registered for; onComplete, which files in both lists, counts once.
THEOREM CallbacksCalledOnce == Spec => []CalledOnceWithOutcome
BY AlwaysDelivery, PTL DEF Delivery

\* No callback is lost in the race between a registration, which looks at the
\* state under the lock, and a fill, which takes the lists after it has
\* published the state: once the future is completed, a callback registered for
\* its outcome has been called or some thread is about to call it.
THEOREM CallbacksNotLost == Spec => []NoCallbackLost
BY AlwaysDelivery, PTL DEF Delivery

-----------------------------------------------------------------------------
(* Waiters *)

LEMMA NextReleased ==
  ASSUME IInv, Delivery, Released, [Next]_vars
  PROVE  Released'
<1> USE Types DEF data, local, waits, Goto
<1>1. ASSUME NEW t \in Threads, Pops(t) PROVE \A c \in Callbacks : calls[c] # <<>> => calls'[c] # <<>>
  <2>1. PICK c : c = Head(running[t])
    OBVIOUS
  <2>2. <<value>> # <<>>
    OBVIOUS
  <2> QED  BY <1>1, <2>1, <2>2, PopFacts
<1>2. ASSUME NEW t \in Threads, Pops(t) PROVE calls'[Head(running[t])] # <<>>
  <2>1. calls'[Head(running[t])] = <<value>>
    BY <1>2, PopFacts
  <2>2. <<value>> # <<>>
    OBVIOUS
  <2> QED  BY <2>1, <2>2
<1>3. ASSUME NEW t \in Threads, CallBack(t) PROVE Released'
  <2>1. Pops(t)
    BY <1>3, CallsPop
  <2>2. /\ kind' = kind /\ answer' = answer /\ running[t] # <<>> /\ Head(running[t]) \in Callbacks
        /\ \A c \in Callbacks : /\ canExit[c] => canExit'[c]
                                /\ sameThread[c] => sameThread'[c]
        /\ \A c \in Callbacks \ {Head(running[t])} :
                                  canExit'[c] = canExit[c] /\ sameThread'[c] = sameThread[c]
    BY <1>3, FirstOfRunning DEF CallBack
  <2> QED  BY <1>1, <1>2, <2>1, <2>2 DEF Released
<1>4. ASSUME NEW t \in Threads, CallbackExit(t) PROVE Released'
  <2>1. Pops(t)
    BY <1>4, CallsPop
  <2>2. /\ kind' = kind /\ answer' = answer /\ sameThread' = sameThread
        /\ \A c \in Callbacks : canExit[c] => canExit'[c]
        /\ \A c \in Callbacks \ {Head(running[t])} : canExit'[c] = canExit[c]
    BY <1>4 DEF CallbackExit
  <2> QED  BY <1>1, <1>2, <2>1, <2>2 DEF Released
<1>5. ASSUME NEW t \in Threads, CallbackNotify(t) PROVE Released'
  <2>1. UNCHANGED <<kind, answer, canExit, sameThread>>
    BY <1>5 DEF CallbackNotify
  <2>2. \A c \in Callbacks : calls[c] # <<>> => calls'[c] # <<>>
    <3>1. CASE kind[Head(running[t])] = "wait"
      BY <1>5, <3>1 DEF CallbackNotify
    <3>2. CASE kind[Head(running[t])] # "wait"
      BY <1>1, <1>5, <3>2, CallsPop
    <3> QED  BY <3>1, <3>2
  <2> QED  BY <2>1, <2>2 DEF Released
<1>6. ASSUME NEW t \in Threads, Block(t) \/ Spin(t) PROVE Released'
  <2>1. UNCHANGED <<kind, calls, canExit, sameThread>> /\ reg[t] \in Callbacks
    BY <1>6 DEF Block, Spin, IInv, Registering
  <2>2. \A c \in Callbacks : answer'[c] # answer[c] =>
          c = reg[t] /\ (kind[c] = "wait" => canExit[c] \/ sameThread[c])
    BY <1>6 DEF Block, Spin, Return, MustSleep
  <2> QED  BY <2>1, <2>2 DEF Released
<1>7. ASSUME NEW t \in Threads,
             \/ FillSuccess(t) \/ FillLock(t) \/ FillValue(t) \/ FillState(t) \/ FillTake(t)
             \/ OnSuccess(t) \/ OnFailure(t) \/ CallbackLock(t) \/ CallbackUnlock(t)
             \/ CallsDone(t) \/ Wake(t)
      PROVE  Released'
  <2>1. UNCHANGED <<kind, calls, canExit, sameThread, answer>>
    BY <1>7 DEF FillSuccess, FillLock, FillValue, FillState, FillTake, OnSuccess, OnFailure,
       CallbackLock, CallbackUnlock, CallsDone, Wake
  <2> QED  BY <2>1 DEF Released
<1>8. ASSUME NEW t \in Threads, Call(t) PROVE Released'
  <2>1. /\ UNCHANGED <<calls, canExit, sameThread, answer>>
        /\ \A c \in Callbacks : kind'[c] = kind[c] \/ kind[c] = "none"
    BY <1>8 DEF Call, Cancel, UseWithFailure, StartFill, Register, Unasked
  <2> QED  BY <2>1 DEF Released, IInv, Releasing
<1>9. CASE Next
  BY <1>3, <1>4, <1>5, <1>6, <1>7, <1>8, <1>9 DEF Next, Continue
<1>10. CASE UNCHANGED vars
  BY <1>10 DEF vars, Released
<1> QED  BY <1>9, <1>10

\* The callback of an untimed wait() refers to the stack frame of wait(): no
\* list and no thread has it once wait() has returned, spurious wake-ups
\* included.
THEOREM NoWaiterDangles == Spec => []NoDanglingWaiter
<1>1. Init => Released
  BY DEF Init, Released
<1>2. IInv /\ Delivery /\ Released => NoDanglingWaiter
  <2> SUFFICES ASSUME IInv, Delivery, Released,
                      NEW c \in Callbacks, kind[c] = "wait", answer[c] # "none"
               PROVE  /\ ~InList(c, successCallbacks) /\ ~InList(c, failureCallbacks)
                      /\ \A t \in Threads : ~InList(c, running[t])
    BY DEF NoDanglingWaiter
  <2>1. calls[c] # <<>>
    BY DEF Released
  <2>2. Taken
    BY <2>1 DEF Delivery, Phases
  <2> QED  BY <2>1, <2>2, InEmpty DEF Delivery, Phases, Once
<1> QED  BY <1>1, <1>2, AlwaysDelivery, NextReleased, PTL DEF Spec

\* A wait() in progress has given no answer, and one that is past its sleep
\* knows how it ended.
InWait(t) ==
    /\ reg[t] # None => answer[reg[t]] = "none"
    /\ pc[t] \in {"block", "asleep", "spin"} => kind[reg[t]] \in Waits
    /\ pc[t] = "asleep" => cv[reg[t]] # "none"
    /\ pc[t] = "spin" => cv[reg[t]] \in {"notified", "expired", "spurious"}

\* Only a completed future notifies.
Waiting ==
    /\ \A c \in Callbacks : cv[c] = "notified" => Completed
    /\ \A t \in Threads : InWait(t)

WaitInv == Waiting /\ WaitAnswersTruly

\* What a step of thread t leaves alone when it neither goes to sleep nor ends it
\* nor answers.
Awake(t) ==
    /\ UNCHANGED <<cv, answer>>
    /\ \A c \in Callbacks : kind[c] # "none" => kind'[c] = kind[c]
    /\ \A u \in Threads \ {t} : reg'[u] = reg[u] /\ pc'[u] = pc[u]
    /\ reg'[t] \in {reg[t], None} \/ (reg'[t] \in Callbacks /\ answer[reg'[t]] = "none")
    /\ pc'[t] \in {"block", "asleep", "spin"} =>
         reg'[t] = reg[t] /\ reg[t] \in Callbacks /\ kind[reg[t]] \in Waits
    /\ pc'[t] \notin {"asleep", "spin"} \/ pc'[t] = pc[t]

\* The last steps of a wait() are of the thread that made it.
LEMMA OwnRegistration ==
  ASSUME Delivery, NEW t \in Threads, NEW u \in Threads, reg[t] # None, reg[t] = reg[u]
  PROVE  t = u
BY DEF Delivery, Owning

LEMMA AwakeKeeps ==
  ASSUME IInv, Delivery, WaitInv, [Next]_vars, NEW t \in Threads, Awake(t)
  PROVE  WaitInv'
<1> USE DEF Awake, WaitInv, Waiting, InWait
<1>1. Completed => Completed'
  BY CompletedStays DEF Completed
<1>2. \A c \in Callbacks : answer[c] # "none" => kind[c] # "none" /\ kind'[c] = kind[c]
  BY DEF IInv, Releasing
<1>3. WaitAnswersTruly'
  BY <1>1, <1>2 DEF WaitAnswersTruly
<1>4. \A u \in Threads : pc[u] \in {"block", "asleep", "spin"} =>
        reg[u] \in Callbacks /\ kind[reg[u]] # "none" /\ kind'[reg[u]] = kind[reg[u]]
  BY DEF IInv, Registering
<1>5. ASSUME NEW u \in Threads PROVE InWait(u)'
  <2>1. CASE u = t
    <3>1. pc'[t] \in {"block", "asleep", "spin"} => reg[t] \in Callbacks /\ kind'[reg[t]] = kind[reg[t]]
      BY DEF Waits
    <3> QED  BY <2>1, <3>1
  <2>2. CASE u # t
    BY <1>4, <2>2
  <2> QED  BY <2>1, <2>2
<1>6. \A c \in Callbacks : cv'[c] = "notified" => Completed'
  BY <1>1
<1> QED  BY <1>3, <1>5, <1>6

LEMMA CallsDoneAt ==
  ASSUME NEW t \in Threads, CallsDone(t)
  PROVE  pc[t] \in {"runFill", "runSuccess", "runFailure"}
BY DEF CallsDone, Running

LEMMA AwakeSteps ==
  ASSUME IInv, NEW t \in Threads,
         \/ FillSuccess(t) \/ FillLock(t) \/ FillValue(t) \/ FillState(t) \/ FillTake(t)
         \/ OnSuccess(t) \/ OnFailure(t) \/ CallBack(t) \/ CallbackLock(t)
         \/ CallbackUnlock(t) \/ CallbackExit(t) \/ CallsDone(t)
         \/ \E f \in Failures : UseWithFailure(t, f) \/ Cancel(t, f)
         \/ \E v \in Values \cup Failures : StartFill(t, v)
         \/ \E c \in Callbacks, k \in Kinds : Register(t, c, k)
  PROVE  Awake(t)
<1> USE Types DEF data, local, waits, Goto
<1>1. ASSUME UNCHANGED <<cv, answer, kind>>, reg' = reg \/ reg' = [reg EXCEPT ![t] = None],
             NEW l \in Labels \ {"block", "asleep", "spin"}, pc' = [pc EXCEPT ![t] = l]
      PROVE  Awake(t)
  BY <1>1 DEF Awake
<1>2. ASSUME UNCHANGED <<cv, answer, kind, reg>>, reg[t] \in Callbacks, kind[reg[t]] \in Waits,
             pc' = [pc EXCEPT ![t] = "block"]
      PROVE  Awake(t)
  BY <1>2 DEF Awake
<1>3. ASSUME UNCHANGED <<cv, answer, kind, reg, pc>>, pc[t] \notin {"block", "asleep", "spin"}
      PROVE  Awake(t)
  BY <1>3 DEF Awake
<1>4. CASE FillSuccess(t) \/ FillLock(t) \/ FillValue(t) \/ FillState(t) \/ FillTake(t)
  <2>1. UNCHANGED <<cv, answer, kind, reg>>
    BY <1>4 DEF FillSuccess, FillLock, FillValue, FillState, FillTake
  <2>2. \E l \in {"idle", "fillFailure", "fillValue", "fillState", "fillTake", "runFill"} :
           pc' = [pc EXCEPT ![t] = l]
    BY <1>4 DEF FillSuccess, FillLock, FillValue, FillState, FillTake
  <2> QED  BY <1>1, <2>1, <2>2 DEF Labels
<1>5. CASE OnSuccess(t) \/ (CallsDone(t) /\ pc[t] = "runSuccess")
  <2>1. UNCHANGED <<cv, answer, kind>>
    BY <1>5 DEF OnSuccess, CallsDone
  <2>2. \E l \in {"idle", "onFailure", "runSuccess"} : pc' = [pc EXCEPT ![t] = l]
    BY <1>5 DEF OnSuccess, CallsDone, Leave, AfterSuccess
  <2>3. reg' = reg \/ reg' = [reg EXCEPT ![t] = None]
    BY <1>5 DEF OnSuccess, CallsDone, Leave
  <2> QED  BY <1>1, <2>1, <2>2, <2>3 DEF Labels
<1>6. CASE OnFailure(t) \/ (CallsDone(t) /\ pc[t] = "runFailure")
  <2>1. UNCHANGED <<cv, answer, kind>> /\ reg[t] \in Callbacks
    BY <1>6 DEF OnFailure, CallsDone, IInv, Registering
  <2>2. \/ \E l \in {"idle", "runFailure"} : pc' = [pc EXCEPT ![t] = l]
        \/ kind[reg[t]] \in Waits /\ pc' = [pc EXCEPT ![t] = "block"] /\ reg' = reg
    BY <1>6 DEF OnFailure, CallsDone, Leave, AfterFailure
  <2>3. reg' = reg \/ reg' = [reg EXCEPT ![t] = None]
    BY <1>6 DEF OnFailure, CallsDone, Leave
  <2> QED  BY <1>1, <1>2, <2>1, <2>2, <2>3 DEF Labels
<1>7. CASE \/ CallsDone(t) /\ pc[t] = "runFill"
           \/ CallbackLock(t) \/ CallbackUnlock(t) \/ CallbackExit(t)
  <2>1. UNCHANGED <<cv, answer, kind>> /\ (reg' = reg \/ reg' = [reg EXCEPT ![t] = None])
    BY <1>7 DEF CallsDone, Leave, CallbackLock, CallbackUnlock, CallbackExit
  <2>2. \E l \in {"idle", "cbUnlock", "cbNotify", "runFill"} : pc' = [pc EXCEPT ![t] = l]
    BY <1>7 DEF CallsDone, Leave, CallbackLock, CallbackUnlock, CallbackExit
  <2> QED  BY <1>1, <2>1, <2>2 DEF Labels
<1>8. CASE CallBack(t) \/ \E f \in Failures : UseWithFailure(t, f)
  BY <1>3, <1>8 DEF CallBack, Running, UseWithFailure
<1>9. CASE \/ \E f \in Failures : Cancel(t, f)
           \/ \E v \in Values \cup Failures : StartFill(t, v)
  <2>1. UNCHANGED <<cv, answer, kind, reg>>
    BY <1>9 DEF Cancel, StartFill
  <2>2. \E l \in {"fillSuccess", "fillFailure"} : pc' = [pc EXCEPT ![t] = l]
    BY <1>9 DEF Cancel, StartFill
  <2> QED  BY <1>1, <2>1, <2>2 DEF Labels
<1>10. ASSUME NEW c \in Callbacks, NEW k \in Kinds, Register(t, c, k) PROVE Awake(t)
  <2>1. /\ UNCHANGED <<cv, answer>> /\ kind[c] = "none" /\ kind' = [kind EXCEPT ![c] = k]
        /\ reg' = [reg EXCEPT ![t] = c]
    BY <1>10 DEF Register
  <2>2. \E l \in {"onSuccess", "onFailure"} : pc' = [pc EXCEPT ![t] = l]
    BY <1>10 DEF Register
  <2>3. answer[c] = "none"
    BY <2>1 DEF IInv, Releasing
  <2>4. /\ \A d \in Callbacks : kind[d] # "none" => kind'[d] = kind[d]
        /\ \A u \in Threads \ {t} : reg'[u] = reg[u] /\ pc'[u] = pc[u]
        /\ reg'[t] = c /\ pc'[t] \in {"onSuccess", "onFailure"}
    BY <2>1, <2>2
  <2>5. reg'[t] \in Callbacks /\ answer[reg'[t]] = "none" /\ UNCHANGED <<cv, answer>>
    BY <2>1, <2>3, <2>4
  <2>6. pc'[t] \notin {"block", "asleep", "spin"}
    BY <2>4
  <2> QED  BY <2>4, <2>5, <2>6 DEF Awake
<1> QED  BY <1>4, <1>5, <1>6, <1>7, <1>8, <1>9, <1>10, CallsDoneAt

\* The ends of a sleep, and what notifies.
LEMMA SleepKeeps ==
  ASSUME IInv, Delivery, WaitInv, [Next]_vars, NEW t \in Threads,
         \/ CallbackNotify(t) \/ Wake(t)
         \/ \E why \in {"expired", "spurious"} : Unasked(t, why)
  PROVE  WaitInv'
<1> USE Types DEF WaitInv, Waiting, InWait, Goto, local, data
<1>1. UNCHANGED <<reg, kind, answer>> /\ (Completed => Completed')
  BY CompletedStays DEF CallbackNotify, Wake, Unasked, Completed
<1>2. \A c \in Callbacks : \/ cv'[c] = cv[c]
                           \/ cv[c] = "asleep" /\ cv'[c] \in {"expired", "spurious"}
                           \/ cv[c] = "asleep" /\ cv'[c] = "notified" /\ Completed
  BY DEF CallbackNotify, Wake, Unasked, IInv, Calling, TypeOK
<1>3. \A u \in Threads : \/ pc'[u] = pc[u]
                         \/ pc'[u] \notin {"block", "asleep", "spin"}
                         \/ pc[u] = "asleep" /\ pc'[u] = "spin" /\ cv[reg[u]] # "asleep"
  BY DEF CallbackNotify, Called, Wake, Unasked
<1>4. \A u \in Threads : pc[u] \in {"block", "asleep", "spin"} => reg[u] \in Callbacks
  BY DEF IInv, Registering
<1>5. WaitAnswersTruly'
  BY <1>1, <1>2 DEF WaitAnswersTruly
<1>6. ASSUME NEW u \in Threads PROVE InWait(u)'
  <2>1. pc[u] = "asleep" /\ cv[reg[u]] # "asleep" => cv[reg[u]] \in {"notified", "expired", "spurious"}
    BY <1>4 DEF IInv, TypeOK
  <2> QED  BY <1>1, <1>2, <1>3, <1>4, <2>1
<1>7. \A c \in Callbacks : cv'[c] = "notified" => Completed'
  BY <1>1, <1>2
<1> QED  BY <1>5, <1>6, <1>7

\* A wait() goes to sleep, or gives its answer.
LEMMA AnswerKeeps ==
  ASSUME IInv, Delivery, WaitInv, [Next]_vars, NEW t \in Threads, Block(t) \/ Spin(t)
  PROVE  WaitInv'
<1> USE Types DEF WaitInv, Waiting, InWait, Goto, Leave
<1> PICK c : c = reg[t]
  OBVIOUS
<1>1. c \in Callbacks /\ kind[c] \in Waits /\ answer[c] = "none" /\ c # None
  BY DEF Block, Spin, IInv, Registering
<1>2. \A u \in Threads \ {t} : reg'[u] = reg[u] /\ pc'[u] = pc[u] /\ reg[u] # c
  BY <1>1, OwnRegistration DEF Block, Spin, Return
<1>3. UNCHANGED kind /\ (Completed => Completed') /\ (Completed' => Completed)
  BY DEF Block, Spin, data, Completed
<1>4. CASE Block(t) /\ MustSleep(c)
  <2>1. /\ answer' = answer /\ reg' = reg /\ pc'[t] = "asleep"
        /\ cv' = [cv EXCEPT ![c] = "asleep"]
    BY <1>4 DEF Block
  <2>2. cv'[c] = "asleep" /\ \A d \in Callbacks \ {c} : cv'[d] = cv[d]
    BY <1>1, <2>1 DEF IInv, TypeOK
  <2>3. WaitAnswersTruly'
    BY <1>1, <1>3, <2>1, <2>2 DEF WaitAnswersTruly
  <2>4. ASSUME NEW u \in Threads PROVE InWait(u)'
    <3>1. pc[u] \in {"block", "asleep", "spin"} => reg[u] \in Callbacks
      BY DEF IInv, Registering
    <3>2. CASE u = t
      BY <1>1, <1>3, <2>1, <2>2, <3>2
    <3>3. CASE u # t
      BY <1>2, <1>3, <2>1, <2>2, <3>1, <3>3
    <3> QED  BY <3>2, <3>3
  <2>5. \A d \in Callbacks : cv'[d] = "notified" => Completed'
    BY <1>3, <2>2
  <2> QED  BY <2>3, <2>4, <2>5
<1>5. CASE Spin(t) \/ (Block(t) /\ ~MustSleep(c))
  <2>1. /\ cv' = cv /\ reg' = [reg EXCEPT ![t] = None] /\ pc' = [pc EXCEPT ![t] = "idle"]
        /\ answer' = [answer EXCEPT ![c] = IF Completed THEN "true" ELSE "false"]
    BY <1>5 DEF Block, Spin, Return
  <2>2. /\ answer'[c] = "true" => Completed
        /\ answer'[c] = "false" => ~Completed
        /\ \A d \in Callbacks \ {c} : answer'[d] = answer[d]
    BY <1>1, <2>1
  <2>3. ~Completed => kind[c] = "timed" /\ cv[c] \in {"expired", "spurious"}
    <3>1. CASE Block(t) /\ ~MustSleep(c)
      BY <1>1, <3>1 DEF MustSleep, IInv, Releasing
    <3>2. CASE Spin(t)
      BY <1>1, <3>2 DEF Spin, IInv, Releasing, Waits
    <3> QED  BY <1>5, <3>1, <3>2
  <2>4. WaitAnswersTruly'
    BY <1>3, <2>1, <2>2, <2>3 DEF WaitAnswersTruly
  <2>5. ASSUME NEW u \in Threads PROVE InWait(u)'
    BY <1>2, <1>3, <2>1, <2>2
  <2>6. \A d \in Callbacks : cv'[d] = "notified" => Completed'
    BY <1>3, <2>1
  <2> QED  BY <2>4, <2>5, <2>6
<1> QED  BY <1>4, <1>5

\* Whichever of the fill, the callback and the end of the sleep comes first: a
\* wait() answers true only of a completed future, and false only when it has a
\* timeout and its sleep ended unasked.  One without a timeout answers true.
THEOREM WaitTellsTheTruth == Spec => []WaitAnswersTruly
<1>1. Init => WaitInv
  BY DEF Init, WaitInv, Waiting, InWait, WaitAnswersTruly
<1>2. IInv /\ Delivery /\ WaitInv /\ [Next]_vars => WaitInv'
  <2> SUFFICES ASSUME IInv, Delivery, WaitInv, [Next]_vars PROVE WaitInv'
    OBVIOUS
  <2>1. ASSUME NEW t \in Threads, Continue(t) \/ Call(t) PROVE WaitInv'
    BY <2>1, AwakeSteps, AwakeKeeps, SleepKeeps, AnswerKeeps DEF Continue, Call
  <2>2. CASE UNCHANGED vars
    BY <2>2 DEF vars, data, local, waits, WaitInv, Waiting, InWait, WaitAnswersTruly, Completed
  <2> QED  BY <2>1, <2>2 DEF Next
<1>3. WaitInv => WaitAnswersTruly
  BY DEF WaitInv
<1> QED  BY <1>1, <1>2, <1>3, AlwaysDelivery, PTL DEF Spec

-----------------------------------------------------------------------------
(* The contract *)

\* What a client sees of a step that is neither the one that publishes the
\* state, nor a registration, nor a call: nothing.
LEMMA StutterStep ==
  ASSUME UNCHANGED <<state, kind, calls>>, Completed => value' = value
  PROVE  UNCHANGED Contract!vars
BY DEF Contract!vars, Completed, Wants

LEMMA ResolveStep ==
  ASSUME IInv, NEW t \in Threads, FillState(t)
  PROVE  Contract!Next
<1>1. /\ UNCHANGED <<value, kind, calls>> /\ value \in Values \cup Failures
      /\ ~Completed /\ Completed'
  BY DEF FillState, IInv, Filling, Completed, waits
<1>2. \A c : Wants(c)' = Wants(c)
  BY <1>1 DEF Wants
<1>3. Contract!Resolve
  BY <1>1, <1>2 DEF Contract!Resolve
<1> QED  BY <1>3 DEF Contract!Next

LEMMA RegisterStep ==
  ASSUME IInv, NEW t \in Threads, NEW c \in Callbacks, NEW k \in Kinds, Register(t, c, k)
  PROVE  Contract!Next
<1> USE Types
<1>1. UNCHANGED <<state, value, calls>> /\ kind[c] = "none" /\ kind' = [kind EXCEPT ![c] = k]
  BY DEF Register, data
<1>2. Wants(c) = {} /\ Wants(c)' \in {Values, Failures, Values \cup Failures}
  BY <1>1 DEF Wants, Kinds, Waits
<1>3. \A d \in Callbacks \ {c} : Wants(d)' = Wants(d)
  BY <1>1 DEF Wants
<1>4. [d \in Callbacks |-> Wants(d)]' = [[d \in Callbacks |-> Wants(d)] EXCEPT ![c] = Wants(c)']
  BY <1>3
<1>5. Contract!Register(c)
  BY <1>1, <1>2, <1>4 DEF Contract!Register, Completed
<1> QED  BY <1>5 DEF Contract!Next

LEMMA DeliverStep ==
  ASSUME IInv, Delivery, NEW t \in Threads, Pops(t)
  PROVE  Contract!Next
<1>1. PICK c : c = Head(running[t])
  OBVIOUS
<1>2. /\ c \in Callbacks /\ calls[c] = <<>> /\ value \in Wants(c) /\ Completed
      /\ calls'[c] = <<value>>
      /\ \A d \in Callbacks \ {c} : calls'[d] = calls[d]
  BY <1>1, PopFacts
<1>3. UNCHANGED <<state, value, kind>>
  BY DEF Pops, data
<1>4. <<value>> # <<>>
  OBVIOUS
<1>5. {d \in Callbacks : calls[d] # <<>>}' = {d \in Callbacks : calls[d] # <<>>} \cup {c}
  BY <1>2, <1>4
<1>6. \A d : Wants(d)' = Wants(d)
  BY <1>3 DEF Wants
<1>7. Contract!Deliver(c)
  BY <1>2, <1>3, <1>5, <1>6 DEF Contract!Deliver, Completed
<1> QED  BY <1>2, <1>7 DEF Contract!Next

\* Seen through its outcome, what its callbacks were registered for and which
\* of them have been called, a future does nothing but resolve once, register
\* and deliver once to each callback what it was registered for.
THEOREM FutureKeepsItsContract == Spec => Contract!Safety
<1>1. Init => Contract!Init
  BY DEF Init, Contract!Init, Completed, Wants
<1>2. ASSUME IInv, Delivery, [Next]_vars PROVE [Contract!Next]_(Contract!vars)
  <2>1. ASSUME NEW t \in Threads, Continue(t) PROVE [Contract!Next]_(Contract!vars)
    <3>1. CASE FillState(t)
      BY <1>2, <3>1, ResolveStep
    <3>2. CASE CallBack(t) \/ CallbackExit(t)
      BY <1>2, <3>2, CallsPop, DeliverStep
    <3>3. CASE CallbackNotify(t)
      <4>1. CASE kind[Head(running[t])] = "wait"
        BY <3>3, <4>1, StutterStep DEF CallbackNotify, data
      <4>2. CASE kind[Head(running[t])] # "wait"
        BY <1>2, <3>3, <4>2, CallsPop, DeliverStep
      <4> QED  BY <4>1, <4>2
    <3>4. CASE FillValue(t)
      BY <1>2, <3>4, StutterStep DEF FillValue, IInv, Filling
    <3>5. CASE \/ FillSuccess(t) \/ FillLock(t) \/ FillTake(t) \/ OnSuccess(t) \/ OnFailure(t)
               \/ CallbackLock(t) \/ CallbackUnlock(t) \/ CallsDone(t)
               \/ Block(t) \/ Wake(t) \/ Spin(t)
      <4>1. UNCHANGED <<state, value, kind, calls>>
        BY <3>5 DEF FillSuccess, FillLock, FillTake, OnSuccess, OnFailure, CallbackLock,
           CallbackUnlock, CallsDone, Block, Wake, Spin, data
      <4> QED  BY <4>1, StutterStep
    <3> QED  BY <2>1, <3>1, <3>2, <3>3, <3>4, <3>5 DEF Continue
  <2>2. ASSUME NEW t \in Threads, Call(t) PROVE [Contract!Next]_(Contract!vars)
    <3>1. CASE \E c \in Callbacks, k \in Kinds : Register(t, c, k)
      BY <1>2, <3>1, RegisterStep
    <3>2. CASE \/ \E f \in Failures : UseWithFailure(t, f)
               \/ \E v \in Values \cup Failures : StartFill(t, v)
               \/ \E why \in {"expired", "spurious"} : Unasked(t, why)
      <4>1. UNCHANGED <<state, value, kind, calls>>
        BY <3>2 DEF UseWithFailure, StartFill, Unasked, data
      <4> QED  BY <4>1, StutterStep
    <3> QED  BY <2>2, <3>1, <3>2 DEF Call, Cancel
  <2>3. CASE UNCHANGED vars
    BY <2>3, StutterStep DEF vars, data
  <2> QED  BY <1>2, <2>1, <2>2, <2>3 DEF Next
<1> QED  BY <1>1, <1>2, AlwaysDelivery, PTL DEF Spec, Contract!Safety
=============================================================================
