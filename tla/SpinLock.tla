------------------------------- MODULE SpinLock -------------------------------
(***************************************************************************)
(* SpinLock and the SpinLockHolders on it (impl/spinlock.h), one holder    *)
(* per thread at a time.  The tries of tryLock and of the loop around it   *)
(* are one try that fails and one that succeeds; what matters is that the  *)
(* caller's flag, which makes a holder give up, is read after a try has    *)
(* failed, when the lock may have been released since.                     *)
(***************************************************************************)
CONSTANT Threads

VARIABLES m_lock,   \* the atomic flag
          holder    \* per thread: its SpinLockHolder

lockVars == <<m_lock, holder>>

\* "abandoned" is a holder whose pointer is null: it has not got the lock.
LockTypeOK ==
    /\ m_lock \in BOOLEAN
    /\ holder \in [Threads -> {"none", "trying", "failed", "locked", "abandoned"}]

LockInit == m_lock = FALSE /\ holder = [t \in Threads |-> "none"]

Becomes(t, h) == holder' = [holder EXCEPT ![t] = h]

Construct(t) ==
    /\ holder[t] = "none"
    /\ Becomes(t, "trying")
    /\ UNCHANGED m_lock

\* tryLock finds the flag clear and sets it, or finds it set.
TakeLock(t) ==
    /\ holder[t] \in {"trying", "failed"} /\ ~m_lock
    /\ m_lock' = TRUE
    /\ Becomes(t, "locked")
TryInVain(t) ==
    /\ holder[t] = "trying" /\ m_lock
    /\ Becomes(t, "failed")
    /\ UNCHANGED m_lock

GiveUpNever(t, abandonLock) == FALSE /\ UNCHANGED lockVars  \* Mutant
\* Between two tries the caller's flag is asked whether to give up.
GiveUp(t, abandonLock) ==
    /\ holder[t] = "failed" /\ abandonLock
    /\ Becomes(t, "abandoned")
    /\ UNCHANGED m_lock

\* Mutant: the flag is cleared for a holder that has given up, too.
UnlockAnyway(t) ==
    /\ holder[t] \in {"locked", "abandoned"}
    /\ m_lock' = FALSE
    /\ Becomes(t, "none")

\* unlock(), which the destructor calls, does nothing for one that gave up.
Unlock(t) ==
    /\ holder[t] \in {"locked", "abandoned"}
    /\ m_lock' = (m_lock /\ holder[t] # "locked")
    /\ Becomes(t, "none")

LockNext ==
    \E t \in Threads :
        \/ Construct(t) \/ TakeLock(t) \/ TryInVain(t) \/ Unlock(t)
        \/ \E abandonLock \in BOOLEAN : GiveUp(t, abandonLock)

LockSpec == LockInit /\ [][LockNext]_lockVars

\* One thread has the lock, and the flag says so: a thread that gives up while
\* another has the lock neither enters nor lets a third one in.
MutualExclusion ==
    /\ m_lock <=> \E t \in Threads : holder[t] = "locked"
    /\ \A t, u \in Threads : holder[t] = "locked" /\ holder[u] = "locked" => t = u
=============================================================================
