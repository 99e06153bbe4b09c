------------------------------- MODULE Future -------------------------------
(***************************************************************************)
(* One Future/Promise pair (FutureData, include/asynqro/future.h) used by  *)
(* several threads: the promise is filled or cancelled, callbacks are      *)
(* registered, threads block in wait().  Every step is one access to       *)
(* memory that another thread can observe: the state word is read without  *)
(* the lock, so a fill publishes its value in three steps; a registration  *)
(* reads and writes under mainLock only, so it is one step that needs the  *)
(* lock to be free.                                                        *)
(*                                                                         *)
(* A callback is an identity: what is kept is which lists hold it and what *)
(* it has been called with.  The callback of a wait() is modelled by what  *)
(* it does to the mutex and the condition variable of that wait.           *)
(***************************************************************************)
EXTENDS Naturals, Sequences, FiniteSets

CONSTANTS Threads,          \* threads that use the future
          Callbacks,        \* registrations, each made at most once
          Values, Failures, \* what the promise can be filled with
          None,             \* no thread, no value, no callback
          SpuriousWakeups   \* whether a condition variable may wake unasked

ASSUME FutureAssumption ==
    /\ None \notin Threads \cup Callbacks \cup Values \cup Failures
    /\ Values \cap Failures = {}
    /\ SpuriousWakeups \in BOOLEAN

VARIABLES
    state, value,             \* FutureData::state and ::value
    successCallbacks,         \* FutureData::successCallbacks
    failureCallbacks,         \* FutureData::failureCallbacks
    mainLock,                 \* the thread that holds FutureData::mainLock
    lastFailure,              \* thread_local _lastFailure
    pc, arg, reg, running,    \* where each thread is: value being filled in,
                              \* callback being registered, callbacks to call
    kind, owner,              \* what was registered, and by which thread
    mutex, cv, canExit, sameThread, answer, \* locals of a wait(), by callback
    calls                     \* history: what each callback was called with

data == <<state, value, successCallbacks, failureCallbacks, mainLock>>
local == <<pc, arg, reg, running, lastFailure>>
waits == <<mutex, cv, canExit, sameThread, answer>>
vars == <<data, local, kind, owner, waits, calls>>

Waits == {"wait", "timed"}
Kinds == {"success", "failure", "complete"} \cup Waits

Completed == state # "NotCompleted"
Succeeded == state = "Succeeded"

\* The outcomes callback c is for.
Wants(c) == CASE kind[c] = "success" -> Values
              [] kind[c] = "failure" -> Failures
              [] kind[c] = "none" -> {}
              [] OTHER -> Values \cup Failures

\* Where a thread can be.
Labels == {"idle", "fillSuccess", "fillFailure", "fillValue", "fillState", "fillTake",
           "runFill", "cbUnlock", "cbNotify", "cbExit", "onSuccess", "runSuccess",
           "onFailure", "runFailure", "block", "asleep", "spin"}

TypeOK ==
    /\ state \in {"NotCompleted", "Succeeded", "Failed"}
    /\ value \in Values \cup Failures \cup {None}
    /\ successCallbacks \in Seq(Callbacks)
    /\ failureCallbacks \in Seq(Callbacks)
    /\ mainLock \in Threads \cup {None}
    /\ lastFailure \in [Threads -> Failures \cup {None}]
    /\ pc \in [Threads -> Labels]
    /\ arg \in [Threads -> Values \cup Failures \cup {None}]
    /\ reg \in [Threads -> Callbacks \cup {None}]
    /\ running \in [Threads -> Seq(Callbacks)]
    /\ kind \in [Callbacks -> Kinds \cup {"none"}]
    /\ owner \in [Callbacks -> Threads \cup {None}]
    /\ mutex \in [Callbacks -> Threads \cup {None}]
    /\ cv \in [Callbacks -> {"none", "asleep", "notified", "expired", "spurious"}]
    /\ canExit \in [Callbacks -> BOOLEAN]
    /\ sameThread \in [Callbacks -> BOOLEAN]
    /\ answer \in [Callbacks -> {"none", "true", "false"}]
    /\ calls \in [Callbacks -> Seq(Values \cup Failures)]

Init ==
    /\ state = "NotCompleted" /\ value = None
    /\ successCallbacks = <<>> /\ failureCallbacks = <<>>
    /\ mainLock = None
    /\ lastFailure = [t \in Threads |-> None]
    /\ pc = [t \in Threads |-> "idle"]
    /\ arg = [t \in Threads |-> None]
    /\ reg = [t \in Threads |-> None]
    /\ running = [t \in Threads |-> <<>>]
    /\ kind = [c \in Callbacks |-> "none"]
    /\ owner = [c \in Callbacks |-> None]
    /\ mutex = [c \in Callbacks |-> None]
    /\ cv = [c \in Callbacks |-> "none"]
    /\ canExit = [c \in Callbacks |-> FALSE]
    /\ sameThread = [c \in Callbacks |-> FALSE]
    /\ answer = [c \in Callbacks |-> "none"]
    /\ calls = [c \in Callbacks |-> <<>>]

Goto(t, label) == pc' = [pc EXCEPT ![t] = label]

-----------------------------------------------------------------------------
(* Filling the promise *)

\* User code on thread t converts a WithFailure to a plain value.
UseWithFailure(t, f) ==
    /\ pc[t] = "idle"
    /\ lastFailure' = [lastFailure EXCEPT ![t] = f]
    /\ UNCHANGED <<data, pc, arg, reg, running, kind, owner, waits, calls>>

\* Promise::success and Promise::failure.
StartFill(t, v) ==
    /\ pc[t] = "idle"
    /\ arg' = [arg EXCEPT ![t] = v]
    /\ Goto(t, IF v \in Values THEN "fillSuccess" ELSE "fillFailure")
    /\ UNCHANGED <<data, reg, running, lastFailure, kind, owner, waits, calls>>

\* CancelableFuture::cancel: isFilled() is read before the lock is taken.
Cancel(t, f) == ~Completed /\ StartFill(t, f)

\* fillSuccess turns into fillFailure when this thread has a last failure.
FillSuccess(t) ==
    /\ pc[t] = "fillSuccess"
    /\ lastFailure[t] # None
    /\ arg' = [arg EXCEPT ![t] = lastFailure[t]]
    /\ lastFailure' = [lastFailure EXCEPT ![t] = None]
    /\ Goto(t, "fillFailure")
    /\ UNCHANGED <<data, reg, running, kind, owner, waits, calls>>

\* Mutant: the state is not asked for again under the lock.
FillLockBlind(t) ==
    /\ \/ pc[t] = "fillSuccess" /\ lastFailure[t] = None
       \/ pc[t] = "fillFailure"
    /\ mainLock = None /\ mainLock' = t
    /\ Goto(t, "fillValue")
    /\ UNCHANGED <<state, value, successCallbacks, failureCallbacks, arg, reg, running,
                   lastFailure, kind, owner, waits, calls>>

\* The lock is taken and isCompleted() asked again under it.
FillLock(t) ==
    /\ \/ pc[t] = "fillSuccess" /\ lastFailure[t] = None
       \/ pc[t] = "fillFailure"
    /\ mainLock = None
    /\ IF Completed
         THEN Goto(t, "idle") /\ arg' = [arg EXCEPT ![t] = None]
                              /\ UNCHANGED mainLock
         ELSE Goto(t, "fillValue") /\ mainLock' = t /\ UNCHANGED arg
    /\ UNCHANGED <<state, value, successCallbacks, failureCallbacks, reg, running,
                   lastFailure, kind, owner, waits, calls>>

\* Mutant: the value is not stored (its move threw, the code goes on).
FillValueLost(t) ==
    /\ pc[t] = "fillValue"
    /\ Goto(t, "fillState")
    /\ UNCHANGED <<data, arg, reg, running, lastFailure, kind, owner, waits, calls>>

FillValue(t) ==
    /\ pc[t] = "fillValue"
    /\ value' = arg[t]
    /\ Goto(t, "fillState")
    /\ UNCHANGED <<state, successCallbacks, failureCallbacks, mainLock, arg, reg,
                   running, lastFailure, kind, owner, waits, calls>>

FillState(t) ==
    /\ pc[t] = "fillState"
    /\ state' = IF arg[t] \in Values THEN "Succeeded" ELSE "Failed"
    /\ Goto(t, "fillTake")
    /\ UNCHANGED <<value, successCallbacks, failureCallbacks, mainLock, arg, reg,
                   running, lastFailure, kind, owner, waits, calls>>

CallbacksOfBoth == successCallbacks \o failureCallbacks  \* Mutant
CallbacksOfOutcome == IF Succeeded THEN successCallbacks ELSE failureCallbacks

\* The callbacks of the outcome move to a local list, the others are dropped.
FillTake(t) ==
    /\ pc[t] = "fillTake"
    /\ running' = [running EXCEPT ![t] = CallbacksOfOutcome]
    /\ successCallbacks' = <<>> /\ failureCallbacks' = <<>>
    /\ mainLock' = None
    /\ arg' = [arg EXCEPT ![t] = None]
    /\ Goto(t, "runFill")
    /\ UNCHANGED <<state, value, reg, lastFailure, kind, owner, waits, calls>>

-----------------------------------------------------------------------------
(* Registering callbacks *)

\* onSuccess, onFailure, onComplete or the registration made by wait(), which
\* returns at once when the future is completed and holds its own mutex
\* throughout otherwise.
Register(t, c, k) ==
    /\ pc[t] = "idle" /\ kind[c] = "none"
    /\ k \in Waits => ~Completed
    /\ kind' = [kind EXCEPT ![c] = k]
    /\ owner' = [owner EXCEPT ![c] = t]
    /\ reg' = [reg EXCEPT ![t] = c]
    /\ mutex' = IF k \in Waits THEN [mutex EXCEPT ![c] = t] ELSE mutex
    /\ Goto(t, IF k = "failure" THEN "onFailure" ELSE "onSuccess")
    /\ UNCHANGED <<data, arg, running, lastFailure, cv, canExit, sameThread,
                   answer, calls>>

\* Mutant: onComplete registers for success only.
AfterSuccessOnly(c) == IF kind[c] \in Waits THEN "onFailure" ELSE "idle"
\* Where registration goes after onSuccess: onComplete calls onFailure next.
AfterSuccess(c) == IF kind[c] = "success" THEN "idle" ELSE "onFailure"
\* ... and after onFailure: a wait() goes on to block.
AfterFailure(c) == IF kind[c] \in Waits THEN "block" ELSE "idle"

\* A thread that is back in user code registers nothing.
Leave(t, label) ==
    /\ Goto(t, label)
    /\ reg' = IF label = "idle" THEN [reg EXCEPT ![t] = None] ELSE reg

OnSuccess(t) ==
    /\ pc[t] = "onSuccess"
    /\ mainLock = None
    /\ \/ /\ ~Completed
          /\ successCallbacks' = Append(successCallbacks, reg[t])
          /\ Leave(t, AfterSuccess(reg[t]))
          /\ UNCHANGED running
       \/ /\ Succeeded
          /\ running' = [running EXCEPT ![t] = <<reg[t]>>]
          /\ Goto(t, "runSuccess")
          /\ UNCHANGED <<successCallbacks, reg>>
       \/ /\ state = "Failed"
          /\ Leave(t, AfterSuccess(reg[t]))
          /\ UNCHANGED <<successCallbacks, running>>
    /\ UNCHANGED <<state, value, failureCallbacks, mainLock, arg, lastFailure,
                   kind, owner, waits, calls>>

OnFailure(t) ==
    /\ pc[t] = "onFailure"
    /\ mainLock = None
    /\ \/ /\ ~Completed
          /\ failureCallbacks' = Append(failureCallbacks, reg[t])
          /\ Leave(t, AfterFailure(reg[t]))
          /\ UNCHANGED running
       \/ /\ state = "Failed"
          /\ running' = [running EXCEPT ![t] = <<reg[t]>>]
          /\ Goto(t, "runFailure")
          /\ UNCHANGED <<failureCallbacks, reg>>
       \/ /\ Succeeded
          /\ Leave(t, AfterFailure(reg[t]))
          /\ UNCHANGED <<failureCallbacks, running>>
    /\ UNCHANGED <<state, value, successCallbacks, mainLock, arg, lastFailure,
                   kind, owner, waits, calls>>

-----------------------------------------------------------------------------
(* Calling callbacks *)

Running(t) == pc[t] \in {"runFill", "runSuccess", "runFailure"}
Called(t, c) ==
    /\ running' = [running EXCEPT ![t] = Tail(@)]
    /\ calls' = [calls EXCEPT ![c] = Append(@, value)]

\* A user callback, or a wait() callback that runs on the waiting thread.
CallBack(t) ==
    /\ Running(t) /\ running[t] # <<>>
    /\ LET c == Head(running[t]) IN
         /\ kind[c] \in Waits => owner[c] = t
         /\ Called(t, c)
         /\ IF kind[c] \in Waits
              THEN /\ sameThread' = [sameThread EXCEPT ![c] = TRUE]
                   /\ canExit' = IF kind[c] = "wait"
                                   THEN [canExit EXCEPT ![c] = TRUE] ELSE canExit
              ELSE UNCHANGED <<sameThread, canExit>>
    /\ UNCHANGED <<data, pc, arg, reg, lastFailure, kind, owner, mutex, cv, answer>>

\* Mutant: the callback does not wait for the waiter to sleep.
CallbackNoLock(t) ==
    /\ Running(t) /\ running[t] # <<>>
    /\ LET c == Head(running[t]) IN kind[c] \in Waits /\ owner[c] # t
    /\ Goto(t, "cbNotify")
    /\ UNCHANGED <<data, arg, reg, running, lastFailure, kind, owner, waits, calls>>

\* A wait() callback on another thread: mutex.lock() waits for the waiter to
\* sleep, then unlock, notify_all and, for an untimed wait, canExit.
CallbackLock(t) ==
    /\ Running(t) /\ running[t] # <<>>
    /\ LET c == Head(running[t]) IN
         /\ kind[c] \in Waits /\ owner[c] # t
         /\ mutex[c] = None
         /\ mutex' = [mutex EXCEPT ![c] = t]
    /\ Goto(t, "cbUnlock")
    /\ UNCHANGED <<data, arg, reg, running, lastFailure, kind, owner, cv, canExit,
                   sameThread, answer, calls>>

CallbackUnlock(t) ==
    /\ pc[t] = "cbUnlock"
    /\ mutex' = [mutex EXCEPT ![Head(running[t])] = None]
    /\ Goto(t, "cbNotify")
    /\ UNCHANGED <<data, arg, reg, running, lastFailure, kind, owner, cv, canExit,
                   sameThread, answer, calls>>

CallbackNotify(t) ==
    /\ pc[t] = "cbNotify"
    /\ LET c == Head(running[t]) IN
         /\ cv' = IF cv[c] = "asleep" THEN [cv EXCEPT ![c] = "notified"] ELSE cv
         /\ IF kind[c] = "wait" THEN Goto(t, "cbExit") /\ UNCHANGED <<running, calls>>
                                ELSE Goto(t, "runFill") /\ Called(t, c)
    /\ UNCHANGED <<data, arg, reg, lastFailure, kind, owner, mutex, canExit,
                   sameThread, answer>>

CallbackExit(t) ==
    /\ pc[t] = "cbExit"
    /\ LET c == Head(running[t]) IN
         /\ canExit' = [canExit EXCEPT ![c] = TRUE]
         /\ Called(t, c)
    /\ Goto(t, "runFill")
    /\ UNCHANGED <<data, arg, reg, lastFailure, kind, owner, mutex, cv, sameThread,
                   answer>>

CallsDone(t) ==
    /\ Running(t) /\ running[t] = <<>>
    /\ Leave(t, CASE pc[t] = "runFill" -> "idle"
                  [] pc[t] = "runSuccess" -> AfterSuccess(reg[t])
                  [] pc[t] = "runFailure" -> AfterFailure(reg[t]))
    /\ UNCHANGED <<data, arg, running, lastFailure, kind, owner, waits, calls>>

-----------------------------------------------------------------------------
(* Blocking in wait() *)

\* The rest of wait(): the mutex is released with its stack frame and the
\* answer is isCompleted().
Return(t, c) ==
    /\ answer' = [answer EXCEPT ![c] = IF Completed THEN "true" ELSE "false"]
    /\ mutex' = [mutex EXCEPT ![c] = None]
    /\ Leave(t, "idle")

MustSleepInverted(c) == sameThread[c]  \* Mutant
MustSleep(c) == ~sameThread[c]

\* waiter.wait(lock) releases the mutex and sleeps in one step.
Block(t) ==
    /\ pc[t] = "block"
    /\ LET c == reg[t] IN
         IF MustSleep(c)
           THEN /\ mutex' = [mutex EXCEPT ![c] = None]
                /\ cv' = [cv EXCEPT ![c] = "asleep"]
                /\ Goto(t, "asleep")
                /\ UNCHANGED <<reg, answer>>
           ELSE Return(t, c) /\ UNCHANGED cv
    /\ UNCHANGED <<data, arg, running, lastFailure, kind, owner, canExit,
                   sameThread, calls>>

\* The sleep ends without a notification.
Unasked(t, why) ==
    /\ pc[t] = "asleep" /\ cv[reg[t]] = "asleep"
    /\ \/ why = "expired" /\ kind[reg[t]] = "timed"
       \/ why = "spurious" /\ SpuriousWakeups
    /\ cv' = [cv EXCEPT ![reg[t]] = why]
    /\ UNCHANGED <<data, local, kind, owner, mutex, canExit, sameThread, answer, calls>>

\* The waiter takes its mutex back before wait() of the variable returns.
Wake(t) ==
    /\ pc[t] = "asleep" /\ cv[reg[t]] # "asleep"
    /\ mutex[reg[t]] = None
    /\ mutex' = [mutex EXCEPT ![reg[t]] = t]
    /\ Goto(t, "spin")
    /\ UNCHANGED <<data, arg, reg, running, lastFailure, kind, owner, cv, canExit,
                   sameThread, answer, calls>>

\* Mutant: wait() returns as soon as it is woken.
SpinNot(t) ==
    /\ pc[t] = "spin"
    /\ Return(t, reg[t])
    /\ UNCHANGED <<data, arg, running, lastFailure, kind, owner, cv, canExit,
                   sameThread, calls>>

\* An untimed wait spins on canExit, its mutex held.
Spin(t) ==
    /\ pc[t] = "spin"
    /\ kind[reg[t]] = "wait" => canExit[reg[t]]
    /\ Return(t, reg[t])
    /\ UNCHANGED <<data, arg, running, lastFailure, kind, owner, cv, canExit,
                   sameThread, calls>>

-----------------------------------------------------------------------------
\* What thread t does inside a call it has made.
Continue(t) ==
    \/ FillSuccess(t) \/ FillLock(t) \/ FillValue(t) \/ FillState(t) \/ FillTake(t)
    \/ OnSuccess(t) \/ OnFailure(t)
    \/ CallBack(t) \/ CallbackLock(t) \/ CallbackUnlock(t) \/ CallbackNotify(t)
    \/ CallbackExit(t) \/ CallsDone(t)
    \/ Block(t) \/ Wake(t) \/ Spin(t)

\* What user code on thread t may call, and what the system may do to it.
Call(t) ==
    \/ \E f \in Failures : UseWithFailure(t, f) \/ Cancel(t, f)
    \/ \E v \in Values \cup Failures : StartFill(t, v)
    \/ \E c \in Callbacks, k \in Kinds : Register(t, c, k)
    \/ \E why \in {"expired", "spurious"} : Unasked(t, why)

Next == \E t \in Threads : Continue(t) \/ Call(t)

Spec == Init /\ [][Next]_vars

\* A thread inside a call keeps running: the operating system schedules every
\* runnable thread.  Nothing is assumed of when user code calls.
FairSpec == Spec /\ \A t \in Threads : WF_vars(Continue(t))

-----------------------------------------------------------------------------
(* Properties *)

\* A thread that sees the state without the lock (isCompleted, result) finds
\* a value of that outcome: fill publishes the value before the state.
CompletedHasValue ==
    /\ Succeeded => value \in Values
    /\ state = "Failed" => value \in Failures

\* However fills, cancels and registrations interleave, a callback is called
\* at most once, with the outcome of the future, and only for an outcome it was
\* registered for; onComplete registers in both lists and still counts once.
CalledOnceWithOutcome ==
    \A c \in Callbacks : calls[c] # <<>> =>
        Completed /\ calls[c] = <<value>> /\ value \in Wants(c)

InList(c, s) == \E i \in DOMAIN s : s[i] = c

\* Callback c will still be called, or filed, by the thread that has it.
OnItsWay(c) ==
    \E t \in Threads :
        \/ InList(c, running[t])
        \/ pc[t] = "fillTake" /\ InList(c, CallbacksOfOutcome)
        \/ reg[t] = c /\ pc[t] = "onSuccess"
        \/ reg[t] = c /\ pc[t] = "onFailure" /\ state = "Failed"

\* No callback is lost in the race between a registration and a fill: once the
\* future is completed, a callback registered for its outcome has been called
\* or some thread is about to call it.
NoCallbackLost ==
    Completed => \A c \in Callbacks :
        value \in Wants(c) => calls[c] # <<>> \/ OnItsWay(c)

\* The callback of an untimed wait refers to the stack frame of wait(): no
\* list, and no thread inside the callback, has it once wait() has returned.
NoDanglingWaiter ==
    \A c \in Callbacks : kind[c] = "wait" /\ answer[c] # "none" =>
        /\ ~InList(c, successCallbacks) /\ ~InList(c, failureCallbacks)
        /\ \A t \in Threads : ~InList(c, running[t])

\* What wait() answers is so, whichever of the fill, the callback and the end of
\* the sleep comes first: true only of a completed future, and false only from a
\* wait() with a timeout whose sleep ended unasked, not from one that was
\* notified or whose callback ran on its own thread.
WaitAnswersTruly ==
    \A c \in Callbacks :
        /\ answer[c] = "true" => Completed
        /\ answer[c] = "false" => kind[c] = "timed" /\ cv[c] \in {"expired", "spurious"}

\* The first fill wins: the outcome of a completed future never changes.
FilledOnce == [][Completed => UNCHANGED <<state, value>>]_vars

\* Every wait() returns once the future is completed.
WaitersReleased ==
    \A c \in Callbacks : (kind[c] \in Waits /\ Completed) ~> answer[c] # "none"

\* The future implements its contract: seen through the outcome, what each
\* callback was registered for and which have been called, all of the above is
\* resolving once and delivering each callback once, in the end every one.
Contract == INSTANCE FutureContract WITH
    outcome <- IF Completed THEN value ELSE None,
    wants <- [c \in Callbacks |-> Wants(c)],
    delivered <- {c \in Callbacks : calls[c] # <<>>}
ImplementsContract == Contract!Spec
=============================================================================
