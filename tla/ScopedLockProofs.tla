-------------------------- MODULE ScopedLockProofs --------------------------
(***************************************************************************)
(* The guards exclude each other for every number of threads, provided a   *)
(* new guard's m_locked starts out false.                                  *)
(***************************************************************************)
EXTENDS ScopedLock, TLAPS

\* While the flags match the lock, unlocking through a guard gives up its own
\* lock or nothing.
LEMMA UnlockStep ==
    ASSUME LockInv, NEW u \in Users, Unlock(u)
    PROVE  /\ m_locked' = [m_locked EXCEPT ![u] = FALSE]
           /\ writers' = writers \ {u}
           /\ readers' = readers \ {u}
<1> USE DEF LockInv, LockTypeOK
<1>1. CASE m_locked[u]
  <2>1. m_locked' = [m_locked EXCEPT ![u] = FALSE] /\ Release(u)
    BY <1>1, Zenon DEF Unlock
  <2>2. CASE u \in writers \cup readers
    BY <2>1, <2>2 DEF Release
  <2>3. CASE u \notin writers \cup readers
    <3>1. mode[u] = "none"
      BY <1>1, <2>3 DEF FlagsMatch
    <3> QED
      BY <1>1, <3>1 DEF FlagsMatch
  <2> QED
    BY <2>1, <2>2, <2>3
<1>2. CASE ~m_locked[u]
  <2>1. UNCHANGED <<m_locked, writers, readers>>
    BY <1>2, Zenon DEF Unlock
  <2>2. m_locked = [m_locked EXCEPT ![u] = FALSE]
    BY <1>2
  <2>3. u \notin writers /\ u \notin readers
    BY <1>2 DEF FlagsMatch
  <2> QED
    BY <2>1, <2>2, <2>3
<1> QED
  BY <1>1, <1>2

\* At the beginning nobody has a guard.
LEMMA LockInit == Init => LockInv
BY DEF Init, LockInv, LockTypeOK, FlagsMatch, LockSound

\* LockInv is inductive if a new guard starts with m_locked false.
LEMMA LockNext ==
    ASSUME FirstLocked \subseteq {FALSE}, LockInv, [Next]_vars
    PROVE  LockInv'
<1> USE DEF LockInv
<1>1. ASSUME NEW u \in Users, NEW kind \in {"exclusive", "shared"}, Construct(u, kind)
      PROVE  LockInv'
  <2>1. m_locked' = [m_locked EXCEPT ![u] = FALSE]
    BY <1>1 DEF Construct
  <2>2. UNCHANGED m_locked
    BY <1>1, <2>1 DEF Construct, FlagsMatch, LockTypeOK
  <2>3. LockTypeOK'
    BY <1>1, <2>1 DEF Construct, LockTypeOK
  <2>4. FlagsMatch'
    BY <1>1, <2>1, <2>2 DEF Construct, FlagsMatch, LockTypeOK
  <2>5. LockSound'
    BY <1>1 DEF Construct, LockSound
  <2> QED
    BY <2>3, <2>4, <2>5
<1>2. ASSUME NEW u \in Users, CallLock(u)
      PROVE  LockInv'
  <2>1. LockTypeOK'
    BY <1>2 DEF CallLock, LockTypeOK
  <2>2. FlagsMatch'
    BY <1>2 DEF CallLock, FlagsMatch, LockTypeOK
  <2>3. LockSound'
    BY <1>2 DEF CallLock, LockSound
  <2> QED
    BY <2>1, <2>2, <2>3
<1>3. ASSUME NEW u \in Users, Lock(u)
      PROVE  LockInv'
  <2>1. /\ at[u] = "locking"
        /\ at' = [at EXCEPT ![u] = "in"]
        /\ UNCHANGED mode
    BY <1>3 DEF Lock
  <2>2. CASE m_locked[u]
    <3>1. UNCHANGED <<m_locked, writers, readers>>
      BY <1>3, <2>2, Zenon DEF Lock
    <3> QED
      BY <2>1, <3>1 DEF LockTypeOK, FlagsMatch, LockSound
  <2>3. CASE ~m_locked[u]
    <3>1. Acquire(u) /\ m_locked' = [m_locked EXCEPT ![u] = TRUE]
      BY <1>3, <2>3, Zenon DEF Lock
    <3>2. mode[u] \in {"exclusive", "shared"}
      BY <2>1 DEF FlagsMatch, LockTypeOK
    <3>3. LockTypeOK'
      BY <2>1, <3>1 DEF Acquire, LockTypeOK
    <3>4. FlagsMatch'
      BY <2>1, <3>1, <3>2 DEF Acquire, FlagsMatch, LockTypeOK
    <3>5. LockSound'
      BY <3>1 DEF Acquire, LockSound
    <3> QED
      BY <3>3, <3>4, <3>5
  <2> QED
    BY <2>2, <2>3
<1>4. ASSUME NEW u \in Users, CallUnlock(u)
      PROVE  LockInv'
  <2>1. /\ m_locked' = [m_locked EXCEPT ![u] = FALSE]
        /\ writers' = writers \ {u} /\ readers' = readers \ {u}
    BY <1>4, UnlockStep DEF CallUnlock
  <2>2. LockTypeOK'
    BY <1>4, <2>1 DEF CallUnlock, LockTypeOK
  <2>3. FlagsMatch'
    BY <1>4, <2>1 DEF CallUnlock, FlagsMatch, LockTypeOK
  <2>4. LockSound'
    BY <2>1 DEF LockSound
  <2> QED
    BY <2>2, <2>3, <2>4
<1>5. ASSUME NEW u \in Users, Destruct(u)
      PROVE  LockInv'
  <2>1. /\ m_locked' = [m_locked EXCEPT ![u] = FALSE]
        /\ writers' = writers \ {u} /\ readers' = readers \ {u}
    BY <1>5, UnlockStep DEF Destruct
  <2>2. LockTypeOK'
    BY <1>5, <2>1 DEF Destruct, LockTypeOK
  <2>3. FlagsMatch'
    BY <1>5, <2>1 DEF Destruct, FlagsMatch, LockTypeOK
  <2>4. LockSound'
    BY <2>1 DEF LockSound
  <2> QED
    BY <2>2, <2>3, <2>4
<1>6. CASE UNCHANGED vars
  BY <1>6 DEF vars, LockTypeOK, FlagsMatch, LockSound
<1> QED
  BY <1>1, <1>2, <1>3, <1>4, <1>5, <1>6 DEF Next, User

\* The flags of the guards tell who holds the lock and how, and it is held by
\* one writer or by readers, if no guard starts with a true m_locked.
THEOREM LockInvariance ==
    ASSUME FirstLocked \subseteq {FALSE}
    PROVE  Spec => []LockInv
<1>1. LockInv /\ [Next]_vars => LockInv'
  BY LockNext
<1> QED
  BY <1>1, LockInit, PTL DEF Spec

\* A thread that relies on an exclusive guard is alone with the lock then.
THEOREM Exclusion ==
    ASSUME FirstLocked \subseteq {FALSE}
    PROVE  Spec => []MutualExclusion
<1>1. LockInv => MutualExclusion
  BY DEF LockInv, LockTypeOK, FlagsMatch, LockSound, MutualExclusion, Guarded
<1> QED
  BY <1>1, LockInvariance, PTL
=============================================================================
