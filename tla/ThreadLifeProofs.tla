-------------------------- MODULE ThreadLifeProofs --------------------------
(***************************************************************************)
(* Thread objects, for any number of threads: ids are published before the *)
(* constructor returns, a kernel thread is given back once, and a thread   *)
(* whose callback uses its Thread object never meets a destroyed one if    *)
(* its owner joins it first.                                               *)
(***************************************************************************)
EXTENDS ThreadLife, TLAPS

-----------------------------------------------------------------------------
\* The inductive invariant

Begun == {"running", "finished"}

\* The thread has begun when the constructor returns, for the semaphore is
\* signalled by the thread only; and by then it has set its id.
BeginFits(t) ==
    /\ life[t] = "none" <=> owner[t] \in {"none", "failed"}
    /\ m_semaphore[t] > 0 => life[t] \in Begun
    /\ owner[t] \in {"alive", "gone"} => life[t] \in Begun
    /\ life[t] \in Begun => m_id[t] = t

\* m_thread is set while the kernel thread has to be given back.
ReleaseFits(t) ==
    /\ m_thread[t] <=> owner[t] \in {"constructing", "alive"} /\ ~joined[t]
    /\ joined[t] => owner[t] \in {"alive", "gone"} /\ life[t] = "finished"
    /\ detached[t] => owner[t] = "gone" /\ ~joined[t] /\ t \notin JoinsFirst
    /\ owner[t] = "gone" => joined[t] \/ detached[t]

ObjectInv == LifeTypeOK /\ \A t \in Threads : BeginFits(t) /\ ReleaseFits(t)

-----------------------------------------------------------------------------
\* Every step preserves it

\* A thread that a step leaves alone.
LEMMA ThreadKept ==
    ASSUME NEW u \in Threads, BeginFits(u), ReleaseFits(u),
           life'[u] = life[u], m_semaphore'[u] = m_semaphore[u], m_id'[u] = m_id[u],
           owner'[u] = owner[u], m_thread'[u] <=> m_thread[u],
           joined'[u] <=> joined[u], detached'[u] <=> detached[u]
    PROVE  (BeginFits(u) /\ ReleaseFits(u))'
<1>1. BeginFits(u)'
  BY DEF BeginFits
<1>2. ReleaseFits(u)'
  BY DEF ReleaseFits
<1> QED
  BY <1>1, <1>2

\* No Thread object has been constructed.
LEMMA ObjectInit == Init => ObjectInv
<1> SUFFICES ASSUME Init PROVE ObjectInv
  OBVIOUS
<1>1. LifeTypeOK
  <2>1. /\ m_thread \in [Threads -> BOOLEAN] /\ joined \in [Threads -> BOOLEAN]
        /\ detached \in [Threads -> BOOLEAN] /\ stale \in BOOLEAN
    BY Zenon DEF Init, ThreadInit
  <2> QED
    BY <2>1 DEF Init, ThreadInit, LifeTypeOK, ThreadTypeOK, Life
<1>2. ASSUME NEW t \in Threads
      PROVE  BeginFits(t) /\ ReleaseFits(t)
  <2>1. ~m_thread[t] /\ ~joined[t] /\ ~detached[t]
    BY Zenon DEF Init, ThreadInit
  <2>2. life[t] = "none" /\ owner[t] = "none" /\ m_semaphore[t] = 0
    BY DEF Init, ThreadInit
  <2> QED
    BY <2>1, <2>2 DEF BeginFits, ReleaseFits, Begun
<1> QED
  BY <1>1, <1>2 DEF ObjectInv

\* The constructor, up to its wait or to its exception.
LEMMA ConstructPreserves ==
    ASSUME ObjectInv, NEW t \in Threads, Construct(t) \/ ConstructFails(t)
    PROVE  ObjectInv'
<1>0. LifeTypeOK /\ ThreadTypeOK /\ BeginFits(t) /\ ReleaseFits(t)
  BY DEF ObjectInv, LifeTypeOK
<1>1. CASE Construct(t)
  <2>1. /\ life[t] = "none" /\ owner[t] = "none"
        /\ life' = [life EXCEPT ![t] = "created"]
        /\ owner' = [owner EXCEPT ![t] = "constructing"]
        /\ m_thread' = [m_thread EXCEPT ![t] = TRUE]
        /\ UNCHANGED <<m_id, m_semaphore, joined, detached, stale>>
    BY <1>1 DEF Construct, Create
  <2>2. /\ m_thread' \in [Threads -> BOOLEAN] /\ m_thread'[t]
        /\ \A u \in Threads \ {t} : m_thread'[u] <=> m_thread[u]
    BY <1>0, <2>1, Zenon DEF ThreadTypeOK
  <2>3. LifeTypeOK'
    BY <1>0, <2>1, <2>2 DEF LifeTypeOK, ThreadTypeOK, Life
  <2>4. life'[t] = "created" /\ owner'[t] = "constructing"
    BY <1>0, <2>1 DEF LifeTypeOK, ThreadTypeOK
  <2>5. BeginFits(t)'
    BY <1>0, <2>1, <2>4 DEF BeginFits, Begun
  <2>6. ReleaseFits(t)'
    BY <1>0, <2>1, <2>2, <2>4 DEF ReleaseFits
  <2>7. ASSUME NEW u \in Threads, u # t
        PROVE  (BeginFits(u) /\ ReleaseFits(u))'
    <3>1. life'[u] = life[u] /\ owner'[u] = owner[u]
      BY <1>0, <2>1, <2>7 DEF LifeTypeOK, ThreadTypeOK
    <3> QED
      BY <2>1, <2>2, <2>7, <3>1, ThreadKept DEF ObjectInv
  <2> QED
    BY <2>3, <2>5, <2>6, <2>7 DEF ObjectInv
<1>2. CASE ConstructFails(t)
  <2>1. /\ owner[t] = "none" /\ owner' = [owner EXCEPT ![t] = "failed"]
        /\ UNCHANGED <<life, m_id, m_thread, m_semaphore, joined, detached, stale>>
    BY <1>2 DEF ConstructFails, threadVars
  <2>2. LifeTypeOK'
    BY <1>0, <2>1 DEF LifeTypeOK, ThreadTypeOK
  <2>3. owner'[t] = "failed" /\ \A u \in Threads \ {t} : owner'[u] = owner[u]
    BY <1>0, <2>1 DEF LifeTypeOK
  <2>4. BeginFits(t)'
    BY <1>0, <2>1, <2>3 DEF BeginFits
  <2>5. ReleaseFits(t)'
    BY <1>0, <2>1, <2>3 DEF ReleaseFits
  <2>6. ASSUME NEW u \in Threads, u # t
        PROVE  (BeginFits(u) /\ ReleaseFits(u))'
    BY <2>1, <2>3, <2>6, ThreadKept DEF ObjectInv
  <2> QED
    BY <2>2, <2>4, <2>5, <2>6 DEF ObjectInv
<1> QED
  BY <1>1, <1>2

\* The constructor returns when the thread has signalled.
LEMMA ConstructedPreserves ==
    ASSUME ObjectInv, NEW t \in Threads, Constructed(t)
    PROVE  ObjectInv'
<1>0. LifeTypeOK /\ ThreadTypeOK /\ BeginFits(t) /\ ReleaseFits(t)
  BY DEF ObjectInv, LifeTypeOK
<1>1. /\ owner[t] = "constructing" /\ m_semaphore[t] > 0
      /\ owner' = [owner EXCEPT ![t] = "alive"]
      /\ m_semaphore' = [m_semaphore EXCEPT ![t] = @ - 1]
      /\ UNCHANGED <<life, m_id, m_thread, joined, detached, stale>>
  BY DEF Constructed, CtorWait, Wait
<1>2. LifeTypeOK'
  BY <1>0, <1>1 DEF LifeTypeOK, ThreadTypeOK
<1>3. /\ owner'[t] = "alive" /\ life[t] \in Begun
      /\ \A u \in Threads \ {t} : owner'[u] = owner[u] /\ m_semaphore'[u] = m_semaphore[u]
  BY <1>0, <1>1 DEF LifeTypeOK, ThreadTypeOK, BeginFits
<1>4. BeginFits(t)'
  BY <1>0, <1>1, <1>3 DEF BeginFits, Begun
<1>5. ReleaseFits(t)'
  BY <1>0, <1>1, <1>3 DEF ReleaseFits
<1>6. ASSUME NEW u \in Threads, u # t
      PROVE  (BeginFits(u) /\ ReleaseFits(u))'
  BY <1>1, <1>3, <1>6, ThreadKept DEF ObjectInv
<1> QED
  BY <1>2, <1>4, <1>5, <1>6 DEF ObjectInv

\* join() of a thread that is over.
LEMMA JoinPreserves ==
    ASSUME ObjectInv, NEW t \in Threads, JoinThread(t)
    PROVE  ObjectInv'
<1>0. LifeTypeOK /\ ThreadTypeOK /\ BeginFits(t) /\ ReleaseFits(t)
  BY DEF ObjectInv, LifeTypeOK
<1>1. /\ owner[t] = "alive" /\ m_thread[t] /\ life[t] = "finished"
      /\ m_thread' = [m_thread EXCEPT ![t] = FALSE]
      /\ joined' = [joined EXCEPT ![t] = TRUE]
      /\ UNCHANGED <<life, m_id, m_semaphore, owner, detached, stale>>
  BY DEF JoinThread, Join
<1>2. /\ m_thread' \in [Threads -> BOOLEAN] /\ ~m_thread'[t]
      /\ \A u \in Threads \ {t} : m_thread'[u] <=> m_thread[u]
  BY <1>0, <1>1, Zenon DEF ThreadTypeOK
<1>3. /\ joined' \in [Threads -> BOOLEAN] /\ joined'[t]
      /\ \A u \in Threads \ {t} : joined'[u] <=> joined[u]
  BY <1>0, <1>1, Zenon DEF LifeTypeOK
<1>4. LifeTypeOK'
  BY <1>0, <1>1, <1>2, <1>3 DEF LifeTypeOK, ThreadTypeOK
<1>5. BeginFits(t)'
  BY <1>0, <1>1 DEF BeginFits
<1>6. ReleaseFits(t)'
  BY <1>0, <1>1, <1>2, <1>3 DEF ReleaseFits
<1>7. ASSUME NEW u \in Threads, u # t
      PROVE  (BeginFits(u) /\ ReleaseFits(u))'
  BY <1>1, <1>2, <1>3, <1>7, ThreadKept DEF ObjectInv
<1> QED
  BY <1>4, <1>5, <1>6, <1>7 DEF ObjectInv

\* ~Thread detaches what has not been joined.
LEMMA DestroyPreserves ==
    ASSUME ObjectInv, NEW t \in Threads, Destroy(t)
    PROVE  ObjectInv'
<1>0. LifeTypeOK /\ ThreadTypeOK /\ BeginFits(t) /\ ReleaseFits(t)
  BY DEF ObjectInv, LifeTypeOK
<1>1. /\ owner[t] = "alive" /\ (t \in JoinsFirst => ~m_thread[t])
      /\ owner' = [owner EXCEPT ![t] = "gone"]
      /\ detached' = [detached EXCEPT ![t] = m_thread[t]]
      /\ UNCHANGED <<life, m_id, m_semaphore, joined, stale>>
  BY DEF Destroy, Detach, threadVars
<1>2. /\ m_thread' \in [Threads -> BOOLEAN] /\ ~m_thread'[t]
      /\ \A u \in Threads \ {t} : m_thread'[u] <=> m_thread[u]
  <2>1. CASE m_thread[t]
    <3>1. m_thread' = [m_thread EXCEPT ![t] = FALSE]
      BY <2>1 DEF Destroy, Detach
    <3> QED
      BY <1>0, <3>1, Zenon DEF ThreadTypeOK
  <2>2. CASE ~m_thread[t]
    <3>1. m_thread' = m_thread
      BY <2>2 DEF Destroy, threadVars
    <3> QED
      BY <1>0, <2>2, <3>1, Zenon DEF ThreadTypeOK
  <2> QED
    BY <2>1, <2>2
<1>3. /\ detached' \in [Threads -> BOOLEAN] /\ (detached'[t] <=> m_thread[t])
      /\ \A u \in Threads \ {t} : detached'[u] <=> detached[u]
  <2>1. m_thread[t] \in BOOLEAN
    BY <1>0, Zenon DEF ThreadTypeOK
  <2> QED
    BY <1>0, <1>1, <2>1, Zenon DEF LifeTypeOK
<1>4. owner'[t] = "gone" /\ \A u \in Threads \ {t} : owner'[u] = owner[u]
  BY <1>0, <1>1 DEF LifeTypeOK
<1>5. LifeTypeOK'
  BY <1>0, <1>1, <1>2, <1>3 DEF LifeTypeOK, ThreadTypeOK
<1>6. BeginFits(t)'
  BY <1>0, <1>1, <1>4 DEF BeginFits
<1>7. ReleaseFits(t)'
  BY <1>0, <1>1, <1>2, <1>3, <1>4 DEF ReleaseFits
<1>8. ASSUME NEW u \in Threads, u # t
      PROVE  (BeginFits(u) /\ ReleaseFits(u))'
  BY <1>1, <1>2, <1>3, <1>4, <1>8, ThreadKept DEF ObjectInv
<1> QED
  BY <1>5, <1>6, <1>7, <1>8 DEF ObjectInv

\* The thread begins: its id first, then the signal.
LEMMA BeginPreserves ==
    ASSUME ObjectInv, NEW t \in Threads, Begin(t)
    PROVE  ObjectInv'
<1>0. LifeTypeOK /\ ThreadTypeOK /\ BeginFits(t) /\ ReleaseFits(t)
  BY DEF ObjectInv, LifeTypeOK
<1>1. /\ life[t] = "created" /\ life' = [life EXCEPT ![t] = "running"]
      /\ m_id' = [m_id EXCEPT ![t] = t]
      /\ m_semaphore' = [m_semaphore EXCEPT ![t] = @ + 1]
      /\ stale' = (stale \/ owner[t] = "gone")
      /\ UNCHANGED <<m_thread, owner, joined, detached>>
  BY DEF Begin, RunProlog, Notify
<1>2. stale' \in BOOLEAN
  BY <1>1, Zenon
<1>3. LifeTypeOK'
  BY <1>0, <1>1, <1>2 DEF LifeTypeOK, ThreadTypeOK, Life
<1>4. /\ life'[t] = "running" /\ m_id'[t] = t
      /\ \A u \in Threads \ {t} :
            life'[u] = life[u] /\ m_id'[u] = m_id[u] /\ m_semaphore'[u] = m_semaphore[u]
  BY <1>0, <1>1 DEF ThreadTypeOK
<1>5. BeginFits(t)'
  BY <1>0, <1>1, <1>4 DEF BeginFits, Begun
<1>6. ReleaseFits(t)'
  BY <1>0, <1>1, <1>4 DEF ReleaseFits
<1>7. ASSUME NEW u \in Threads, u # t
      PROVE  (BeginFits(u) /\ ReleaseFits(u))'
  BY <1>1, <1>4, <1>7, ThreadKept DEF ObjectInv
<1> QED
  BY <1>3, <1>5, <1>6, <1>7 DEF ObjectInv

\* The callback uses the Thread object, or is over.
LEMMA CallbackPreserves ==
    ASSUME ObjectInv, NEW t \in Threads, UseThis(t) \/ Over(t)
    PROVE  ObjectInv'
<1>0. LifeTypeOK /\ ThreadTypeOK /\ BeginFits(t) /\ ReleaseFits(t)
  BY DEF ObjectInv, LifeTypeOK
<1>1. CASE UseThis(t)
  <2>1. UNCHANGED <<life, m_id, m_thread, m_semaphore, owner, joined, detached>>
    BY <1>1 DEF UseThis, threadVars
  <2>2. stale' \in BOOLEAN
    BY <1>1, Zenon DEF UseThis
  <2>3. LifeTypeOK'
    BY <1>0, <2>1, <2>2 DEF LifeTypeOK, ThreadTypeOK
  <2> QED
    BY <2>1, <2>3, ThreadKept DEF ObjectInv
<1>2. CASE Over(t)
  <2>1. /\ life[t] = "running" /\ life' = [life EXCEPT ![t] = "finished"]
        /\ UNCHANGED <<m_id, m_thread, m_semaphore, owner, joined, detached, stale>>
    BY <1>2 DEF Over, Finish, lifeVars
  <2>2. LifeTypeOK'
    BY <1>0, <2>1 DEF LifeTypeOK, ThreadTypeOK, Life
  <2>3. life'[t] = "finished" /\ \A u \in Threads \ {t} : life'[u] = life[u]
    BY <1>0, <2>1 DEF ThreadTypeOK
  <2>4. BeginFits(t)'
    BY <1>0, <2>1, <2>3 DEF BeginFits, Begun
  <2>5. ReleaseFits(t)'
    BY <1>0, <2>1, <2>3 DEF ReleaseFits
  <2>6. ASSUME NEW u \in Threads, u # t
        PROVE  (BeginFits(u) /\ ReleaseFits(u))'
    BY <2>1, <2>3, <2>6, ThreadKept DEF ObjectInv
  <2> QED
    BY <2>2, <2>4, <2>5, <2>6 DEF ObjectInv
<1> QED
  BY <1>1, <1>2

\* All steps together.
LEMMA ObjectNext == ObjectInv /\ [Next]_vars => ObjectInv'
<1> SUFFICES ASSUME ObjectInv, [Next]_vars PROVE ObjectInv'
  OBVIOUS
<1>1. CASE UNCHANGED vars
  <2>1. UNCHANGED <<life, m_id, m_thread, m_semaphore, owner, joined, detached, stale>>
    BY <1>1 DEF vars, threadVars, lifeVars
  <2>2. LifeTypeOK'
    BY <2>1 DEF ObjectInv, LifeTypeOK, ThreadTypeOK
  <2> QED
    BY <2>1, <2>2, ThreadKept DEF ObjectInv
<1> QED
  BY <1>1, ConstructPreserves, ConstructedPreserves, JoinPreserves, DestroyPreserves,
     BeginPreserves, CallbackPreserves DEF Next, Owner, Kernel

-----------------------------------------------------------------------------
\* What follows

\* The invariant holds of any number of threads.
LEMMA ObjectInvariance == Spec => []ObjectInv
BY ObjectInit, ObjectNext, PTL DEF Spec

\* getId() never gives the id of a thread that has not begun, and a kernel
\* thread is given back once, by join() or by ~Thread.
THEOREM LifeInvariance == Spec => []LifeInv
<1>1. ASSUME ObjectInv, NEW t \in Threads
      PROVE  /\ owner[t] \in {"alive", "gone"} => m_id[t] = t
             /\ ~(joined[t] /\ detached[t])
             /\ owner[t] = "gone" => joined[t] \/ detached[t]
             /\ joined[t] => life[t] = "finished"
  BY <1>1 DEF ObjectInv, BeginFits, ReleaseFits
<1>2. ObjectInv => LifeInv
  BY <1>1 DEF ObjectInv, LifeInv, IdPublished, ReleasedOnce
<1> QED
  BY <1>2, ObjectInvariance, PTL

\* A thread never touches a Thread object that is gone, if those whose callback
\* uses it are joined before the object is destroyed.
THEOREM ThisAlive == ASSUME UsesThis \subseteq JoinsFirst PROVE Spec => []NoStaleThis
<1>1. Init => NoStaleThis
  BY DEF Init, NoStaleThis
<1>2. ObjectInv /\ NoStaleThis /\ [Next]_vars => NoStaleThis'
  <2> SUFFICES ASSUME ObjectInv, NoStaleThis, [Next]_vars PROVE NoStaleThis'
    OBVIOUS
  <2>1. ASSUME NEW t \in Threads, Begin(t) \/ UseThis(t)
        PROVE  owner[t] # "gone" /\ stale' = (stale \/ owner[t] = "gone")
    <3>1. BeginFits(t) /\ ReleaseFits(t)
      BY DEF ObjectInv
    <3>2. CASE Begin(t)
      BY <3>1, <3>2 DEF Begin, RunProlog, BeginFits, Begun
    <3>3. CASE UseThis(t)
      BY <3>1, <3>3 DEF UseThis, ReleaseFits
    <3> QED
      BY <2>1, <3>2, <3>3
  <2>2. ASSUME NEW t \in Threads, Begin(t) \/ UseThis(t)
        PROVE  ~stale'
    BY <2>1, <2>2, Zenon DEF NoStaleThis
  <2>3. ASSUME NEW t \in Threads, Owner(t) \/ Over(t)
        PROVE  UNCHANGED stale
    BY <2>3 DEF Owner, Construct, ConstructFails, Constructed, JoinThread, Destroy, Over,
       lifeVars
  <2>4. CASE UNCHANGED vars
    BY <2>4 DEF vars, lifeVars, NoStaleThis
  <2> QED
    BY <2>2, <2>3, <2>4 DEF Next, Kernel, NoStaleThis
<1> QED
  BY <1>1, <1>2, ObjectInvariance, PTL DEF Spec
=============================================================================
