----------------------------- MODULE ScopedLock -----------------------------
(***************************************************************************)
(* The RAII guards of sylar/mutex.h: ScopeLockImpl over Mutex or Spinlock  *)
(* and WriteScopeLockImpl take the lock exclusively, ReadScopeLockImpl     *)
(* takes it shared.  Every thread has at most one guard of the lock at a   *)
(* time, as everywhere in the repository, and may also call the guard's    *)
(* lock() and unlock() itself.                                             *)
(*                                                                         *)
(* No constructor initialises m_locked before lock() reads it, so a new    *)
(* guard starts with whatever its memory held: one of FirstLocked.         *)
(***************************************************************************)
EXTENDS Naturals, FiniteSets

CONSTANTS
    Users,        \* threads that use one lock
    FirstLocked   \* values of m_locked in a guard that has just been allocated

ASSUME FirstLockedAssumption == FirstLocked \subseteq BOOLEAN

VARIABLES
    mode,      \* the kind of guard a thread has, "none" without one
    m_locked,  \* the guard's flag
    at,        \* "out" of the guard's scope, in lock() or "in" the scope
    writers,   \* threads that hold the lock exclusively
    readers    \* threads that hold it shared

vars == <<mode, m_locked, at, writers, readers>>

LockTypeOK ==
    /\ mode \in [Users -> {"none", "exclusive", "shared"}]
    /\ m_locked \in [Users -> BOOLEAN]
    /\ at \in [Users -> {"out", "locking", "in"}]
    /\ writers \subseteq Users
    /\ readers \subseteq Users

Init ==
    /\ mode = [u \in Users |-> "none"]
    /\ m_locked = [u \in Users |-> FALSE]
    /\ at = [u \in Users |-> "out"]
    /\ writers = {} /\ readers = {}

\* pthread_mutex_lock, pthread_spin_lock, pthread_rwlock_wrlock and
\* pthread_rwlock_rdlock: u comes to hold the lock once it is available.
Acquire(u) ==
    /\ writers = {}
    /\ IF mode[u] = "shared"
       THEN readers' = readers \cup {u} /\ UNCHANGED writers
       ELSE readers = {} /\ writers' = {u} /\ UNCHANGED readers

\* The unlock functions.  Unlocking what u does not hold is undefined: nothing
\* happens or the lock is taken from one that holds it.
Release(u) ==
    \E v \in IF u \in writers \cup readers THEN {u} ELSE {u} \cup writers \cup readers :
        writers' = writers \ {v} /\ readers' = readers \ {v}

\* A guard comes into scope and its constructor calls lock().
Construct(u, kind) ==
    /\ at[u] = "out"
    /\ mode' = [mode EXCEPT ![u] = kind]
    /\ \E first \in FirstLocked : m_locked' = [m_locked EXCEPT ![u] = first]
    /\ at' = [at EXCEPT ![u] = "locking"]
    /\ UNCHANGED <<writers, readers>>

\* The user calls lock() on a guard it has.
CallLock(u) ==
    /\ at[u] = "in"
    /\ at' = [at EXCEPT ![u] = "locking"]
    /\ UNCHANGED <<mode, m_locked, writers, readers>>

\* lock()
Lock(u) ==
    /\ at[u] = "locking"
    /\ IF m_locked[u]
       THEN UNCHANGED <<m_locked, writers, readers>>
       ELSE Acquire(u) /\ m_locked' = [m_locked EXCEPT ![u] = TRUE]
    /\ at' = [at EXCEPT ![u] = "in"]
    /\ UNCHANGED mode

\* Mutants: unlock() leaves the flag set, or does not look at it.
UnlockKeepsFlag(u) ==
    IF m_locked[u] THEN Release(u) /\ UNCHANGED m_locked
                   ELSE UNCHANGED <<m_locked, writers, readers>>
UnlockAlways(u) == Release(u) /\ m_locked' = [m_locked EXCEPT ![u] = FALSE]

\* unlock()
Unlock(u) ==
    IF m_locked[u]
    THEN Release(u) /\ m_locked' = [m_locked EXCEPT ![u] = FALSE]
    ELSE UNCHANGED <<m_locked, writers, readers>>

\* The user calls unlock() and stays in the guard's scope.
CallUnlock(u) ==
    /\ at[u] = "in"
    /\ Unlock(u)
    /\ UNCHANGED <<mode, at>>

\* The guard goes out of scope: its destructor calls unlock().
Destruct(u) ==
    /\ at[u] = "in"
    /\ Unlock(u)
    /\ mode' = [mode EXCEPT ![u] = "none"]
    /\ at' = [at EXCEPT ![u] = "out"]

User(u) ==
    \/ \E kind \in {"exclusive", "shared"} : Construct(u, kind)
    \/ CallLock(u) \/ Lock(u) \/ CallUnlock(u) \/ Destruct(u)

Next == \E u \in Users : User(u)

Spec == Init /\ [][Next]_vars

-----------------------------------------------------------------------------
\* u relies on its guard.
Guarded(u) == at[u] = "in" /\ m_locked[u]

\* A thread that relies on an exclusive guard is alone with the lock, also
\* after calls of lock() and unlock() on guards that already are in that
\* state, and across scopes.
MutualExclusion ==
    \A u, v \in Users :
        Guarded(u) /\ Guarded(v) /\ mode[u] = "exclusive" => u = v

\* The flags tell who holds the lock and in which mode: no scope leaves it
\* locked behind itself and none gives up a lock of another thread.
FlagsMatch ==
    /\ writers = {u \in Users : m_locked[u] /\ mode[u] = "exclusive"}
    /\ readers = {u \in Users : m_locked[u] /\ mode[u] = "shared"}
    /\ \A u \in Users : at[u] = "out" <=> mode[u] = "none"
    /\ \A u \in Users : at[u] = "out" => ~m_locked[u]

\* At most one writer, and no readers besides it.
LockSound ==
    /\ \A u, v \in writers : u = v
    /\ writers # {} => readers = {}

\* The inductive invariant behind MutualExclusion.
LockInv == LockTypeOK /\ FlagsMatch /\ LockSound
=============================================================================
