--------------------------- MODULE SchedulerProofs ---------------------------
(***************************************************************************)
(* Theorems about Scheduler, for every number of threads and jobs, with or *)
(* without the owner's thread, for every pinning of fibers and with fibers *)
(* that end while they are still queued.  In three parts:                  *)
(*                                                                         *)
(*   1. locks, the queue, its counters, and what a thread finds there;     *)
(*   2. fibers and jobs: no two threads share a stack, no assertion of the *)
(*      runners fails, a job is begun at most once and none is lost.  All  *)
(*      of it is for fibers that requeue themselves for their own thread   *)
(*      (~MayMigrate); run migrate shows that it is false otherwise;       *)
(*   3. what Scheduler promises its owner: the assertions hold, stop()     *)
(*      returns when all that was scheduled has been executed, and the     *)
(*      scheduler implements TaskPool.  What the invariants of the owner   *)
(*      and its threads say is true of every pool; what they imply for     *)
(*      jobs rests on part 2 and has its hypotheses.                       *)
(***************************************************************************)
EXTENDS Scheduler, FiniteSetTheorems, SequenceTheorems, TLAPS

-----------------------------------------------------------------------------
(* Part 1.                                                                 *)

\* Fiber's operations give a fiber of the same kind.
LEMMA FiberTypes ==
    ASSUME NEW C, NEW fb \in FiberOf(C)
    PROVE  /\ Entered(fb) \in FiberOf(C)
           /\ YieldMarked(fb) \in FiberOf(C)
           /\ Returned(fb) \in FiberOf(C)
           /\ Threw(fb) \in FiberOf(C)
           /\ \A p \in ResumePoint : SwappedOut(fb, p) \in FiberOf(C)
           /\ \A cb \in C \cup {None} : Reset(fb, cb) \in FiberOf(C)
BY DEF FiberOf, State, ResumePoint, Entered, YieldMarked, Returned, Threw,
       SwappedOut, Reset

\* The constructor of Fiber makes a fiber.
LEMMA NewFiberType ==
    ASSUME NEW C, NEW cb \in C \cup {None}
    PROVE  NewFiber(cb) \in FiberOf(C)
BY DEF FiberOf, State, ResumePoint, NewFiber

\* None is neither a job nor a fiber.
LEMMA NoneNotJob == None \notin Jobs
BY NoneAssumption, SchedulerAssumption

\* Erasing an entry leaves a queue of tasks.
LEMMA WithoutType ==
    ASSUME NEW S, NEW s \in Seq(S), NEW i \in 1..Len(s)
    PROVE  Without(s, i) \in Seq(S)
<1>1. SubSeq(s, 1, i - 1) \in Seq(S)
  <2>1. \A k \in 1..(i - 1) : s[k] \in S
    OBVIOUS
  <2> QED
    BY <2>1, SubSeqProperties
<1>2. SubSeq(s, i + 1, Len(s)) \in Seq(S)
  <2>1. \A k \in (i + 1)..Len(s) : s[k] \in S
    OBVIOUS
  <2> QED
    BY <2>1, SubSeqProperties
<1> QED
  BY <1>1, <1>2, ConcatProperties DEF Without

\* scheduleNoLock puts tasks into the queue.
LEMMA TaskTypes ==
    ASSUME NEW j \in Jobs, NEW pin \in Runners \cup {NoTid}
    PROVE  FiberTask(j, pin) \in Task /\ JobTask(j, pin) \in Task
BY NoneNotJob DEF FiberTask, CbTask, JobTask, Task, Jobs

\* How moving one thread to another place changes the sets that are counted.
LEMMA AtMoved ==
    ASSUME NEW p \in [Runners -> RunnerPC], NEW t \in Runners,
           NEW l \in RunnerPC, NEW q, q = [p EXCEPT ![t] = l], NEW S,
           NEW A, A = {u \in Runners : p[u] \in S},
           NEW B, B = {u \in Runners : q[u] \in S}
    PROVE  /\ Cardinality(A) \in Nat /\ Cardinality(B) \in Nat
           /\ Cardinality(B) = Cardinality(A)
                               + (IF l \in S THEN 1 ELSE 0)
                               - (IF p[t] \in S THEN 1 ELSE 0)
<1>1. IsFiniteSet(Runners)
  BY SchedulerAssumption, FS_AddElement DEF Runners
<1>2. IsFiniteSet(A) /\ IsFiniteSet(B)
  <2>1. A \in SUBSET Runners /\ B \in SUBSET Runners
    OBVIOUS
  <2> QED
    BY <1>1, <2>1, FS_Subset
<1>3. Cardinality(A) \in Nat /\ Cardinality(B) \in Nat
  BY <1>2, FS_CardinalityType
<1>4. t \in A <=> p[t] \in S
  OBVIOUS
<1>5. CASE l \in S
  <2>1. B = A \cup {t}
    BY <1>5
  <2>2. Cardinality(B) = IF t \in A THEN Cardinality(A) ELSE Cardinality(A) + 1
    BY <1>2, <2>1, FS_AddElement, Zenon
  <2> QED
    BY ONLY <1>3, <1>4, <1>5, <2>2
<1>6. CASE l \notin S
  <2>1. B = A \ {t}
    BY <1>6
  <2>2. Cardinality(B) = IF t \in A THEN Cardinality(A) - 1 ELSE Cardinality(A)
    BY <1>2, <2>1, FS_RemoveElement, Zenon
  <2> QED
    BY ONLY <1>3, <1>4, <1>6, <2>2
<1> QED
  BY <1>3, <1>5, <1>6

\* There are finitely many busy and idling threads.
LEMMA CountsType ==
    ASSUME pc \in [Runners -> RunnerPC]
    PROVE  /\ IsFiniteSet(Busy) /\ Cardinality(Busy) \in Nat
           /\ IsFiniteSet(Idling) /\ Cardinality(Idling) \in Nat
<1>1. IsFiniteSet(Runners)
  BY SchedulerAssumption, FS_AddElement DEF Runners
<1>2. Busy \in SUBSET Runners /\ Idling \in SUBSET Runners
  BY DEF Busy, Idling
<1> QED
  BY <1>1, <1>2, FS_Subset, FS_CardinalityType

\* The same for the two sets of the invariant.
LEMMA Moved ==
    ASSUME pc \in [Runners -> RunnerPC], NEW t \in Runners,
           NEW l \in RunnerPC, Goto(t, l)
    PROVE  /\ Cardinality(Busy') = Cardinality(Busy)
                  + (IF l \in BusyPC THEN 1 ELSE 0)
                  - (IF pc[t] \in BusyPC THEN 1 ELSE 0)
           /\ Cardinality(Idling') = Cardinality(Idling)
                  + (IF l \in IdlePC THEN 1 ELSE 0)
                  - (IF pc[t] \in IdlePC THEN 1 ELSE 0)
           /\ Cardinality(Busy) \in Nat /\ Cardinality(Busy') \in Nat
           /\ Cardinality(Idling) \in Nat /\ Cardinality(Idling') \in Nat
<1>1. pc' = [pc EXCEPT ![t] = l]
  BY DEF Goto
<1>2. /\ Cardinality({u \in Runners : pc'[u] \in BusyPC}) =
              Cardinality({u \in Runners : pc[u] \in BusyPC})
                  + (IF l \in BusyPC THEN 1 ELSE 0)
                  - (IF pc[t] \in BusyPC THEN 1 ELSE 0)
      /\ Cardinality({u \in Runners : pc'[u] \in BusyPC}) \in Nat
      /\ Cardinality({u \in Runners : pc[u] \in BusyPC}) \in Nat
  BY <1>1, AtMoved
<1>3. /\ Cardinality({u \in Runners : pc'[u] \in IdlePC}) =
              Cardinality({u \in Runners : pc[u] \in IdlePC})
                  + (IF l \in IdlePC THEN 1 ELSE 0)
                  - (IF pc[t] \in IdlePC THEN 1 ELSE 0)
      /\ Cardinality({u \in Runners : pc'[u] \in IdlePC}) \in Nat
      /\ Cardinality({u \in Runners : pc[u] \in IdlePC}) \in Nat
  BY <1>1, AtMoved
<1>4. /\ Busy = {u \in Runners : pc[u] \in BusyPC}
      /\ Busy' = {u \in Runners : pc'[u] \in BusyPC}
  BY DEF Busy
<1>5. /\ Idling = {u \in Runners : pc[u] \in IdlePC}
      /\ Idling' = {u \in Runners : pc'[u] \in IdlePC}
  BY DEF Idling
<1> QED
  BY <1>2, <1>3, <1>4, <1>5

\* The counters keep covering the threads if they follow t's move.
LEMMA CountsMoved ==
    ASSUME TypeOK, CountsCover, NEW t \in Runners, NEW l \in RunnerPC, Goto(t, l),
           NEW from, pc[t] = from,
           m_activeThreadCount' \in Int, m_idleThreadCount' \in Int,
           m_activeThreadCount' >= m_activeThreadCount
               + (IF l \in BusyPC THEN 1 ELSE 0) - (IF from \in BusyPC THEN 1 ELSE 0),
           m_idleThreadCount' >= m_idleThreadCount
               + (IF l \in IdlePC THEN 1 ELSE 0) - (IF from \in IdlePC THEN 1 ELSE 0)
    PROVE  /\ CountsCover'
           /\ m_activeThreadCount' \in Nat /\ m_idleThreadCount' \in Nat
<1>1. m_activeThreadCount \in Nat /\ m_idleThreadCount \in Nat
  BY DEF TypeOK
<1>2. /\ Cardinality(Busy') = Cardinality(Busy)
             + (IF l \in BusyPC THEN 1 ELSE 0) - (IF pc[t] \in BusyPC THEN 1 ELSE 0)
      /\ Cardinality(Idling') = Cardinality(Idling)
             + (IF l \in IdlePC THEN 1 ELSE 0) - (IF pc[t] \in IdlePC THEN 1 ELSE 0)
      /\ Cardinality(Busy) \in Nat /\ Cardinality(Busy') \in Nat
      /\ Cardinality(Idling) \in Nat /\ Cardinality(Idling') \in Nat
  BY Moved DEF TypeOK
<1>3. m_activeThreadCount' >= Cardinality(Busy')
  BY <1>1, <1>2 DEF CountsCover
<1>4. m_idleThreadCount' >= Cardinality(Idling')
  BY <1>1, <1>2 DEF CountsCover
<1> QED
  BY <1>2, <1>3, <1>4 DEF CountsCover

\* HasFiber survives a step that moves t and touches no other thread's locals.
LEMMA HasFiberMoved ==
    ASSUME TypeOK, HasFiber, NEW t \in Runners, NEW l \in RunnerPC, Goto(t, l),
           \A u \in Runners \ {t} : task'[u] = task[u] /\ cbFiber'[u] = cbFiber[u],
           l = "dispatch" => task'[t] \in Task,
           l \in BusyPC \ {"dispatch"} => Current(t)' \in Jobs
    PROVE  HasFiber'
<1> SUFFICES ASSUME NEW u \in Runners
             PROVE  /\ pc'[u] = "dispatch" => task'[u] \in Task
                    /\ pc'[u] \in BusyPC \ {"dispatch"} => Current(u)' \in Jobs
  BY DEF HasFiber
<1>1. CASE u = t
  BY <1>1 DEF Goto, TypeOK
<1>2. CASE u # t
  BY <1>2 DEF Goto, TypeOK, HasFiber, Current
<1> QED
  BY <1>1, <1>2

\* HasFiber depends on the places and the locals of the threads only.
LEMMA HasFiberKept ==
    ASSUME HasFiber, UNCHANGED <<pc, task, cbFiber>>
    PROVE  HasFiber'
BY DEF HasFiber, Current

\* CountsCover depends on the counters and the places of the threads only.
LEMMA CountsKept ==
    ASSUME CountsCover, UNCHANGED <<pc, countVars>>
    PROVE  CountsCover'
BY DEF CountsCover, Busy, Idling, countVars

\* The last branch of the loop, which two actions end in.
LEMMA IdleBranchStep ==
    ASSUME TypeOK, CountsCover, NEW t \in Runners, pc[t] \notin IdlePC, IdleBranch(t),
           UNCHANGED m_activeThreadCount
    PROVE  /\ pc' \in [Runners -> RunnerPC]
           /\ m_idleThreadCount' \in Nat
           /\ idleFiber' \in [Runners -> FiberObject]
           /\ CountsCover'
           /\ \E l \in {"done", "idle"} : Goto(t, l)
<1> USE DEF TypeOK
<1>1. CASE idleFiber[t].m_state = "TERM"
  <2>1. Goto(t, "done") /\ UNCHANGED <<m_idleThreadCount, idleFiber>>
    BY <1>1 DEF IdleBranch
  <2>2. CountsCover'
    BY <2>1, CountsMoved DEF RunnerPC, BusyPC, IdlePC
  <2> QED
    BY <2>1, <2>2 DEF Goto, RunnerPC
<1>2. CASE idleFiber[t].m_state # "TERM"
  <2>1. /\ Goto(t, "idle")
        /\ m_idleThreadCount' = m_idleThreadCount + 1
        /\ idleFiber' = [idleFiber EXCEPT ![t] = Entered(idleFiber[t])]
    BY <1>2 DEF IdleBranch
  <2>2. CountsCover'
    BY <2>1, CountsMoved DEF RunnerPC, BusyPC, IdlePC
  <2>3. Entered(idleFiber[t]) \in FiberObject
    BY FiberTypes DEF FiberObject
  <2> QED
    BY <2>1, <2>2, <2>3 DEF Goto, RunnerPC
<1> QED
  BY <1>1, <1>2

\* The locals of run() are fresh.
LEMMA RunEnterPreserves ==
    ASSUME IInv, NEW t \in Runners, RunEnter(t)
    PROVE  IInv'
<1> USE DEF IInv
<1>1. Goto(t, "loop") /\ pc[t] = "enter"
  BY DEF RunEnter
<1>2. NewFiber(IdleCb) \in FiberObject
  BY NewFiberType, SchedulerAssumption DEF FiberObject
<1>3. TypeOK'
  BY <1>1, <1>2 DEF RunEnter, TypeOK, ThreadTypeOK, Goto, RunnerPC, threadVars, listVars, countVars, flagVars,
         localVars, ownerVars, jobVars
<1>4. CountsCover'
  BY <1>1, CountsMoved DEF RunEnter, TypeOK, RunnerPC, BusyPC, IdlePC, countVars
<1>5. HasFiber'
  BY <1>1, HasFiberMoved DEF RunEnter, TypeOK, RunnerPC, BusyPC
<1> QED
  BY <1>3, <1>4, <1>5

\* Taking a task makes one more thread busy and counts it.
LEMMA TakePreserves ==
    ASSUME IInv, NEW t \in Runners, Take(t)
    PROVE  IInv'
<1> USE DEF IInv
<1>1. Goto(t, "dispatch") /\ pc[t] = "loop"
  BY DEF Take
<1>2. PICK i \in 1..Len(m_tasks) :
        /\ task' = [task EXCEPT ![t] = m_tasks[i]]
        /\ m_tasks' = Without(m_tasks, i)
  BY DEF Take
<1>3. m_tasks[i] \in Task /\ m_tasks' \in Seq(Task)
  BY <1>2, WithoutType DEF TypeOK
<1>4. TypeOK'
  BY <1>1, <1>2, <1>3 DEF Take, TypeOK, ThreadTypeOK, Goto, RunnerPC, threadVars, listVars, countVars, flagVars,
         localVars, ownerVars, jobVars
<1>5. CountsCover'
  BY <1>1, CountsMoved DEF Take, TypeOK, RunnerPC, BusyPC, IdlePC
<1>6. HasFiber'
  BY <1>1, <1>2, <1>3, HasFiberMoved DEF Take, TypeOK, RunnerPC, BusyPC
<1> QED
  BY <1>4, <1>5, <1>6

\* A thread that finds nothing is counted as idle, or leaves run().
LEMMA TakeNonePreserves ==
    ASSUME IInv, NEW t \in Runners, TakeNone(t)
    PROVE  IInv'
<1> USE DEF IInv
<1>1. pc[t] \notin IdlePC /\ IdleBranch(t) /\ UNCHANGED m_activeThreadCount
  BY DEF TakeNone, IdlePC
<1>2. /\ pc' \in [Runners -> RunnerPC]
      /\ m_idleThreadCount' \in Nat
      /\ idleFiber' \in [Runners -> FiberObject]
      /\ CountsCover'
      /\ \E l \in {"done", "idle"} : Goto(t, l)
  BY <1>1, IdleBranchStep
<1>3. TypeOK'
  BY <1>2 DEF TakeNone, TypeOK, ThreadTypeOK, threadVars, listVars, countVars, flagVars,
         localVars, ownerVars, jobVars
<1>4. HasFiber'
  BY <1>2, HasFiberMoved DEF TakeNone, RunnerPC, BusyPC
<1> QED
  BY <1>2, <1>3, <1>4

\* The idle fiber comes back and its thread is no longer counted as idle.
LEMMA IdleStepPreserves ==
    ASSUME IInv, NEW t \in Runners, IdleStep(t)
    PROVE  IInv'
<1> USE DEF IInv
<1>1. Goto(t, "loop") /\ pc[t] = "idle"
  BY DEF IdleStep
<1>2. m_idleThreadCount - 1 \in Nat /\ CountsCover'
  BY <1>1, CountsMoved DEF IdleStep, TypeOK, RunnerPC, BusyPC, IdlePC
<1>3. /\ SwappedOut(Returned(idleFiber[t]), "ended") \in FiberObject
      /\ SwappedOut(YieldMarked(idleFiber[t]), "yielded") \in FiberObject
  BY FiberTypes DEF TypeOK, FiberObject, ResumePoint
<1>4. idleFiber' \in [Runners -> FiberObject]
  BY <1>3 DEF IdleStep, TypeOK
<1>5. TypeOK'
  BY <1>1, <1>2, <1>4 DEF IdleStep, TypeOK, ThreadTypeOK, Goto, RunnerPC, threadVars, listVars, countVars, flagVars,
         localVars, ownerVars, jobVars
<1>6. HasFiber'
  BY <1>1, HasFiberMoved DEF IdleStep, RunnerPC, BusyPC
<1> QED
  BY <1>2, <1>5, <1>6

\* The task taken has the fiber that is switched to.
LEMMA DispatchFiberPreserves ==
    ASSUME IInv, NEW t \in Runners, DispatchFiber(t)
    PROVE  IInv'
<1> USE DEF IInv
<1>1. Goto(t, "swapIn") /\ pc[t] = "dispatch" /\ UNCHANGED localVars
  BY DEF DispatchFiber
<1>2. Current(t)' \in Jobs
  BY <1>1 DEF DispatchFiber, Current, TypeOK, Task, NoTask, localVars
<1>3. TypeOK'
  BY <1>1 DEF DispatchFiber, TypeOK, ThreadTypeOK, Goto, RunnerPC, threadVars, listVars, countVars, flagVars,
         localVars, ownerVars, jobVars
<1>4. CountsCover'
  BY <1>1, CountsMoved DEF DispatchFiber, TypeOK, RunnerPC, BusyPC, IdlePC,
         countVars
<1>5. HasFiber'
  BY <1>1, <1>2, HasFiberMoved DEF RunnerPC, localVars
<1> QED
  BY <1>3, <1>4, <1>5

\* A thread whose task has ended is busy no more, and its count stays.
LEMMA DispatchEndedPreserves ==
    ASSUME IInv, NEW t \in Runners, DispatchEnded(t)
    PROVE  IInv'
<1> USE DEF IInv
<1>1. pc[t] \notin IdlePC /\ IdleBranch(t) /\ UNCHANGED m_activeThreadCount
  BY DEF DispatchEnded, IdlePC
<1>2. /\ pc' \in [Runners -> RunnerPC]
      /\ m_idleThreadCount' \in Nat
      /\ idleFiber' \in [Runners -> FiberObject]
      /\ CountsCover'
      /\ \E l \in {"done", "idle"} : Goto(t, l)
  BY <1>1, IdleBranchStep
<1>3. TypeOK'
  BY <1>2 DEF DispatchEnded, TypeOK, ThreadTypeOK, threadVars, listVars, countVars, flagVars,
         localVars, ownerVars, jobVars
<1>4. HasFiber'
  BY <1>2, HasFiberMoved DEF DispatchEnded, TypeOK, RunnerPC, BusyPC
<1> QED
  BY <1>2, <1>3, <1>4

\* A callback gets a fiber, kept or new.
LEMMA DispatchCbPreserves ==
    ASSUME IInv, NEW t \in Runners, DispatchCb(t)
    PROVE  IInv'
<1> USE DEF IInv
<1> DEFINE f == IF cbFiber[t] # None THEN cbFiber[t] ELSE task[t].cb
<1>1. pc[t] = "dispatch" /\ task[t].fiber = None
  BY DEF DispatchCb
<1>2. task[t] \in Task
  BY <1>1 DEF HasFiber
<1>3. task[t].cb \in Jobs /\ f \in Jobs
  BY <1>1, <1>2 DEF Task, TypeOK, Jobs
<1>4. CASE cbFiber[t] # None /\ ~Idle(fib[f])
  <2>1. Goto(t, "abort") /\ UNCHANGED <<fib, cbFiber, task>>
    BY <1>4 DEF DispatchCb
  <2>2. TypeOK'
    BY <2>1 DEF DispatchCb, TypeOK, ThreadTypeOK, Goto, RunnerPC, threadVars, listVars, countVars, flagVars,
         localVars, ownerVars, jobVars
  <2>3. CountsCover'
    BY <1>1, <2>1, CountsMoved DEF DispatchCb, TypeOK, RunnerPC, BusyPC, IdlePC, countVars
  <2>4. HasFiber'
    BY <2>1, HasFiberMoved DEF RunnerPC, BusyPC
  <2> QED
    BY <2>2, <2>3, <2>4
<1>5. CASE ~(cbFiber[t] # None /\ ~Idle(fib[f]))
  <2>1. /\ fib' = [fib EXCEPT ![f] = IF cbFiber[t] # None THEN Reset(fib[f], task[t].cb)
                                                          ELSE NewFiber(task[t].cb)]
        /\ cbFiber' = [cbFiber EXCEPT ![t] = f]
        /\ task' = [task EXCEPT ![t] = NoTask]
        /\ Goto(t, "swapIn")
    BY <1>5 DEF DispatchCb
  <2>2. /\ Reset(fib[f], task[t].cb) \in FiberOf(Jobs)
        /\ NewFiber(task[t].cb) \in FiberOf(Jobs)
    BY <1>3, FiberTypes, NewFiberType DEF TypeOK
  <2>3. TypeOK'
    BY <1>3, <2>1, <2>2 DEF DispatchCb, TypeOK, ThreadTypeOK, Goto, RunnerPC,
         threadVars, listVars, countVars, flagVars,
         localVars, ownerVars, jobVars
  <2>4. CountsCover'
    BY <1>1, <2>1, CountsMoved DEF DispatchCb, TypeOK, RunnerPC, BusyPC, IdlePC, countVars
  <2>5. Current(t)' \in Jobs
    BY <1>3, <2>1 DEF Current, TypeOK, NoTask
  <2>6. HasFiber'
    BY <2>1, <2>5, HasFiberMoved DEF TypeOK, RunnerPC, BusyPC
  <2> QED
    BY <2>3, <2>4, <2>6
<1> QED
  BY <1>4, <1>5

\* swapIn leaves the thread busy, or stops it at an assertion.
LEMMA SwapInPreserves ==
    ASSUME IInv, NEW t \in Runners, SwapIn(t)
    PROVE  IInv'
<1> USE DEF IInv
<1>1. pc[t] = "swapIn" /\ UNCHANGED <<task, cbFiber, countVars>>
  BY DEF SwapIn, localVars
<1>2. Current(t) \in Jobs /\ Current(t)' \in Jobs
  BY <1>1 DEF HasFiber, BusyPC, Current
<1>3. PICK l \in {"body", "abort"} : Goto(t, l)
  BY DEF SwapIn
<1>4. fib' \in [Jobs -> FiberOf(Jobs)]
  <2>1. Entered(fib[Current(t)]) \in FiberOf(Jobs)
    BY <1>2, FiberTypes DEF TypeOK
  <2> QED
    BY <1>2, <2>1 DEF SwapIn, TypeOK
<1>5. runs' \in [Jobs -> Nat]
  <2>1. \/ runs' = runs
        \/ Job(t) \in Jobs /\ runs' = [runs EXCEPT ![Job(t)] = runs[Job(t)] + 1]
    BY DEF SwapIn
  <2>2. runs \in [Jobs -> Nat]
    BY DEF TypeOK
  <2> QED
    BY ONLY <2>1, <2>2
<1>6. TypeOK'
  BY <1>3, <1>4, <1>5 DEF SwapIn, TypeOK, ThreadTypeOK, Goto, RunnerPC, threadVars, listVars, countVars, flagVars,
         localVars, ownerVars, jobVars
<1>7. CountsCover'
  BY <1>1, <1>3, CountsMoved DEF TypeOK, RunnerPC, BusyPC, IdlePC, countVars
<1>8. HasFiber'
  BY <1>1, <1>2, <1>3, HasFiberMoved DEF RunnerPC
<1> QED
  BY <1>6, <1>7, <1>8

\* A job that schedules another only adds to the queue.
LEMMA BodySchedulePreserves ==
    ASSUME IInv, NEW t \in Runners, NEW j \in Jobs, NEW pin \in {NoTid, t},
           BodySchedule(t, j, pin)
    PROVE  IInv'
<1> USE DEF IInv
<1>1. JobTask(j, pin) \in Task
  BY TaskTypes
<1>2. TypeOK'
  BY <1>1 DEF BodySchedule, Schedule, TypeOK, ThreadTypeOK, threadVars, listVars, countVars, flagVars,
         localVars, ownerVars, jobVars
<1>3. CountsCover' /\ HasFiber'
  BY CountsKept, HasFiberKept DEF BodySchedule, localVars
<1> QED
  BY <1>2, <1>3

\* A job that requeues itself only adds to the queue.
LEMMA BodyRequeuePreserves ==
    ASSUME IInv, NEW t \in Runners, NEW pin \in {NoTid, t}, BodyRequeue(t, pin)
    PROVE  IInv'
<1> USE DEF IInv
<1>1. Current(t) \in Jobs
  BY DEF BodyRequeue, HasFiber, BusyPC
<1>2. FiberTask(Current(t), pin) \in Task
  BY <1>1, TaskTypes
<1>3. TypeOK'
  BY <1>2 DEF BodyRequeue, Schedule, TypeOK, ThreadTypeOK, threadVars, listVars, countVars, flagVars,
         localVars, ownerVars, jobVars
<1>4. CountsCover' /\ HasFiber'
  BY CountsKept, HasFiberKept DEF BodyRequeue, localVars
<1> QED
  BY <1>3, <1>4

\* YieldToReady marks the fiber the thread is on.
LEMMA BodyYieldPreserves ==
    ASSUME IInv, NEW t \in Runners, BodyYield(t)
    PROVE  IInv'
<1> USE DEF IInv
<1>1. pc[t] = "body" /\ UNCHANGED <<task, cbFiber, countVars>>
  BY DEF BodyYield, localVars
<1>2. Current(t) \in Jobs /\ Current(t)' \in Jobs
  BY <1>1 DEF HasFiber, BusyPC, Current
<1>3. PICK l \in {"yield", "abort"} : Goto(t, l)
  BY DEF BodyYield
<1>4. fib' \in [Jobs -> FiberOf(Jobs)]
  <2>1. YieldMarked(fib[Current(t)]) \in FiberOf(Jobs)
    BY <1>2, FiberTypes DEF TypeOK
  <2> QED
    BY <1>2, <2>1 DEF BodyYield, TypeOK
<1>5. TypeOK'
  BY <1>3, <1>4 DEF BodyYield, TypeOK, ThreadTypeOK, Goto, RunnerPC, threadVars, listVars, countVars, flagVars,
         localVars, ownerVars, jobVars
<1>6. CountsCover'
  BY <1>1, <1>3, CountsMoved DEF TypeOK, RunnerPC, BusyPC, IdlePC, countVars
<1>7. HasFiber'
  BY <1>1, <1>2, <1>3, HasFiberMoved DEF RunnerPC
<1> QED
  BY <1>5, <1>6, <1>7

\* A callback that returns leaves its thread busy until it is back in run().
LEMMA BodyReturnPreserves ==
    ASSUME IInv, NEW t \in Runners, BodyReturn(t)
    PROVE  IInv'
<1> USE DEF IInv
<1>1. Goto(t, "end") /\ pc[t] = "body" /\ UNCHANGED <<task, cbFiber, countVars>>
  BY DEF BodyReturn, localVars
<1>2. Current(t) \in Jobs /\ Current(t)' \in Jobs
  BY <1>1 DEF HasFiber, BusyPC, Current
<1>3. Job(t) \in Jobs \cup {None}
  BY <1>2 DEF Job, TypeOK, FiberOf
<1>4. Returned(fib[Current(t)]) \in FiberOf(Jobs)
  BY <1>2, FiberTypes DEF TypeOK
<1>5. TypeOK'
  BY <1>1, <1>2, <1>3, <1>4 DEF BodyReturn, TypeOK, ThreadTypeOK, Goto, RunnerPC,
         threadVars, listVars, countVars, flagVars,
         localVars, ownerVars, jobVars
<1>6. CountsCover'
  BY <1>1, CountsMoved DEF TypeOK, RunnerPC, BusyPC, IdlePC, countVars
<1>7. HasFiber'
  BY <1>1, <1>2, HasFiberMoved DEF RunnerPC
<1> QED
  BY <1>5, <1>6, <1>7

\* So does one that throws.
LEMMA BodyThrowPreserves ==
    ASSUME IInv, NEW t \in Runners, BodyThrow(t)
    PROVE  IInv'
<1> USE DEF IInv
<1>1. Goto(t, "end") /\ pc[t] = "body" /\ UNCHANGED <<task, cbFiber, countVars>>
  BY DEF BodyThrow, localVars
<1>2. Current(t) \in Jobs /\ Current(t)' \in Jobs
  BY <1>1 DEF HasFiber, BusyPC, Current
<1>3. Job(t) \in Jobs \cup {None}
  BY <1>2 DEF Job, TypeOK, FiberOf
<1>4. Threw(fib[Current(t)]) \in FiberOf(Jobs)
  BY <1>2, FiberTypes DEF TypeOK
<1>5. TypeOK'
  BY <1>1, <1>2, <1>3, <1>4 DEF BodyThrow, TypeOK, ThreadTypeOK, Goto, RunnerPC,
         threadVars, listVars, countVars, flagVars,
         localVars, ownerVars, jobVars
<1>6. CountsCover'
  BY <1>1, CountsMoved DEF TypeOK, RunnerPC, BusyPC, IdlePC, countVars
<1>7. HasFiber'
  BY <1>1, <1>2, HasFiberMoved DEF RunnerPC
<1> QED
  BY <1>5, <1>6, <1>7

\* swapOut goes back to run() with the count still held.
LEMMA SwapOutPreserves ==
    ASSUME IInv, NEW t \in Runners, SwapOut(t)
    PROVE  IInv'
<1> USE DEF IInv
<1>1. Goto(t, "back") /\ pc[t] \in {"yield", "end"} /\ UNCHANGED <<task, cbFiber, countVars>>
  BY DEF SwapOut, localVars
<1>2. Current(t) \in Jobs /\ Current(t)' \in Jobs
  BY <1>1 DEF HasFiber, BusyPC, Current
<1>3. \A p \in ResumePoint : SwappedOut(fib[Current(t)], p) \in FiberOf(Jobs)
  BY <1>2, FiberTypes DEF TypeOK
<1>4. fib' \in [Jobs -> FiberOf(Jobs)]
  BY <1>2, <1>3 DEF SwapOut, TypeOK, ResumePoint
<1>5. TypeOK'
  BY <1>1, <1>4 DEF SwapOut, TypeOK, ThreadTypeOK, Goto, RunnerPC, threadVars, listVars, countVars, flagVars,
         localVars, ownerVars, jobVars
<1>6. CountsCover'
  BY <1>1, CountsMoved DEF TypeOK, RunnerPC, BusyPC, IdlePC, countVars
<1>7. HasFiber'
  BY <1>1, <1>2, HasFiberMoved DEF RunnerPC
<1> QED
  BY <1>5, <1>6, <1>7

\* The only step that takes from m_activeThreadCount: t is one of the threads
\* the counter covers, so the counter is not zero.
LEMMA BackPreserves ==
    ASSUME IInv, NEW t \in Runners, Back(t)
    PROVE  IInv'
<1> USE DEF IInv
<1>1. /\ pc[t] = "back"
      /\ m_activeThreadCount' = m_activeThreadCount - 1
      /\ UNCHANGED m_idleThreadCount
  BY DEF Back
<1>2. PICK l \in {"loop", "recycle"} : Goto(t, l)
  BY DEF Back
<1>3. CountsCover' /\ m_activeThreadCount' \in Nat
  BY <1>1, <1>2, CountsMoved DEF TypeOK, RunnerPC, BusyPC, IdlePC
<1>4. TypeOK'
  BY <1>2, <1>3 DEF Back, TypeOK, ThreadTypeOK, Goto, RunnerPC, threadVars, listVars, countVars, flagVars,
         localVars, ownerVars, jobVars
<1>5. HasFiber'
  BY <1>2, HasFiberMoved DEF Back, TypeOK, RunnerPC, BusyPC
<1> QED
  BY <1>3, <1>4, <1>5

\* The fiber of a callback is kept or let go after the count is given back.
LEMMA RecyclePreserves ==
    ASSUME IInv, NEW t \in Runners, Recycle(t)
    PROVE  IInv'
<1> USE DEF IInv
<1>1. Goto(t, "loop") /\ pc[t] = "recycle" /\ UNCHANGED countVars
  BY DEF Recycle
<1>2. fib' \in [Jobs -> FiberOf(Jobs)]
  <2>1. CASE Ended(fib[cbFiber[t]])
    <3>1. fib' = [fib EXCEPT ![cbFiber[t]] = Reset(fib[cbFiber[t]], None)]
      BY <2>1 DEF Recycle
    <3>2. cbFiber[t] \in Jobs => Reset(fib[cbFiber[t]], None) \in FiberOf(Jobs)
      BY FiberTypes DEF TypeOK
    <3> QED
      BY <3>1, <3>2 DEF TypeOK
  <2>2. CASE ~Ended(fib[cbFiber[t]])
    BY <2>2 DEF Recycle, TypeOK
  <2> QED
    BY <2>1, <2>2
<1>3. cbFiber' \in [Runners -> Jobs \cup {None}]
  BY DEF Recycle, TypeOK
<1>4. TypeOK'
  BY <1>1, <1>2, <1>3 DEF Recycle, TypeOK, ThreadTypeOK, Goto, RunnerPC, threadVars, listVars, countVars, flagVars,
         localVars, ownerVars, jobVars
<1>5. CountsCover'
  BY <1>1, CountsMoved DEF TypeOK, RunnerPC, BusyPC, IdlePC, countVars
<1>6. HasFiber'
  BY <1>1, HasFiberMoved DEF Recycle, TypeOK, RunnerPC, BusyPC
<1> QED
  BY <1>4, <1>5, <1>6

\* Every step of run() preserves the invariant.
LEMMA RunPreserves ==
    ASSUME IInv, NEW t \in Runners, Run(t)
    PROVE  IInv'
<1>1. CASE Body(t)
  BY <1>1, BodySchedulePreserves, BodyRequeuePreserves, BodyYieldPreserves,
     BodyReturnPreserves, BodyThrowPreserves DEF Body
<1>2. CASE ~Body(t)
  BY <1>2, RunEnterPreserves, TakePreserves, TakeNonePreserves, IdleStepPreserves,
     DispatchFiberPreserves, DispatchEndedPreserves, DispatchCbPreserves,
     SwapInPreserves, SwapOutPreserves, BackPreserves, RecyclePreserves DEF Run
<1> QED
  BY <1>1, <1>2

\* Every step of a pool thread, from Thread::run to its end.
LEMMA PoolThreadPreserves ==
    ASSUME IInv, NEW t \in Threads, PoolThread(t)
    PROVE  IInv'
<1> USE DEF IInv
<1>1. t \in Runners
  BY DEF Runners
<1>2. CASE RunThread(t)
  <2>1. Goto(t, "enter") /\ UNCHANGED <<countVars, localVars>>
    BY <1>2 DEF RunThread
  <2>2. TypeOK'
    BY <1>1, <1>2, <2>1 DEF RunThread, RunProlog, Notify, TypeOK, ThreadTypeOK, Life, Goto,
         RunnerPC, threadVars, listVars, countVars, flagVars,
         localVars, ownerVars, jobVars
  <2>3. CountsCover'
    BY <1>1, <2>1, CountsMoved DEF TypeOK, RunnerPC, BusyPC, IdlePC, countVars
  <2>4. HasFiber'
    BY <1>1, <2>1, HasFiberMoved DEF RunnerPC, BusyPC, localVars
  <2> QED
    BY <2>2, <2>3, <2>4
<1>3. CASE Exit(t)
  <2>1. Goto(t, "off") /\ UNCHANGED <<countVars, localVars>>
    BY <1>3 DEF Exit
  <2>2. TypeOK'
    BY <1>1, <1>3, <2>1 DEF Exit, Finish, TypeOK, ThreadTypeOK, Life, Goto,
         RunnerPC, threadVars, listVars, countVars, flagVars,
         localVars, ownerVars, jobVars
  <2>3. CountsCover'
    BY <1>1, <1>3, <2>1, CountsMoved DEF Exit, TypeOK, RunnerPC, BusyPC, IdlePC, countVars
  <2>4. HasFiber'
    BY <1>1, <2>1, HasFiberMoved DEF RunnerPC, BusyPC, localVars
  <2> QED
    BY <2>2, <2>3, <2>4
<1>4. CASE Run(t)
  BY <1>1, <1>4, RunPreserves
<1> QED
  BY <1>2, <1>3, <1>4 DEF PoolThread

\* What the owner does outside run() preserves the invariant.  Most of its
\* steps leave the runners and the counters alone.
LEMMA OwnerPreserves ==
    ASSUME IInv, OwnerCall \/ InStart \/ InStop
    PROVE  IInv'
<1> USE DEF IInv
<1>1. ASSUME NEW j \in Jobs, NEW pin \in Runners \cup {NoTid}, OwnerSchedule(j, pin)
      PROVE  IInv'
  <2>1. JobTask(j, pin) \in Task
    BY TaskTypes
  <2>2. TypeOK'
    BY <1>1, <2>1 DEF OwnerSchedule, Schedule, TypeOK, ThreadTypeOK, OwnerPC,
         threadVars, listVars, countVars, flagVars,
         localVars, ownerVars, jobVars
  <2>3. CountsCover' /\ HasFiber'
    BY <1>1, CountsKept, HasFiberKept DEF OwnerSchedule, localVars
  <2> QED
    BY <2>2, <2>3
<1>2. CASE StartBegin
  <2>a. m_stopping' \in BOOLEAN
    BY <1>2, Zenon DEF StartBegin
  <2>b. mpc' \in OwnerPC
    BY <1>2 DEF StartBegin, OwnerPC, StartPC
  <2>c. UNCHANGED <<threadVars, m_tasks, listVars, countVars, m_autoStop, fib, pc,
                    localVars, m_rootFiber, m_threadCount, jobVars>>
    BY <1>2 DEF StartBegin
  <2>1. TypeOK'
    BY <2>a, <2>b, <2>c DEF TypeOK, ThreadTypeOK, threadVars, listVars, countVars, flagVars,
         localVars, ownerVars, jobVars
  <2>2. CountsCover' /\ HasFiber'
    BY <1>2, CountsKept, HasFiberKept DEF StartBegin, localVars
  <2> QED
    BY <2>1, <2>2
<1>3. CASE StopCall
  <2>1. TypeOK'
    BY <1>3 DEF StopCall, TypeOK, ThreadTypeOK, OwnerPC, StartPC, StopPC,
         threadVars, listVars, countVars, flagVars,
         localVars, ownerVars, jobVars
  <2>2. CountsCover' /\ HasFiber'
    BY <1>3, CountsKept, HasFiberKept DEF StopCall, localVars
  <2> QED
    BY <2>1, <2>2
<1>4. CASE Destroy
  <2>1. TypeOK'
    BY <1>4 DEF Destroy, TypeOK, ThreadTypeOK, OwnerPC, StartPC, StopPC,
         threadVars, listVars, countVars, flagVars,
         localVars, ownerVars, jobVars
  <2>2. CountsCover' /\ HasFiber'
    BY <1>4, CountsKept, HasFiberKept DEF Destroy, localVars
  <2> QED
    BY <2>1, <2>2
<1>5. CASE StopAutoStop
  <2>1. TypeOK'
    BY <1>5 DEF StopAutoStop, TypeOK, ThreadTypeOK, OwnerPC, StartPC, StopPC,
         threadVars, listVars, countVars, flagVars,
         localVars, ownerVars, jobVars
  <2>2. CountsCover' /\ HasFiber'
    BY <1>5, CountsKept, HasFiberKept DEF StopAutoStop, localVars
  <2> QED
    BY <2>1, <2>2
<1>6. CASE StopRootOnly
  <2>1. TypeOK'
    BY <1>6 DEF StopRootOnly, TypeOK, ThreadTypeOK, OwnerPC, StartPC, StopPC,
         threadVars, listVars, countVars, flagVars,
         localVars, ownerVars, jobVars
  <2>2. CountsCover' /\ HasFiber'
    BY <1>6, CountsKept, HasFiberKept DEF StopRootOnly, localVars
  <2> QED
    BY <2>1, <2>2
<1>7. CASE StopRootOnlyCheck
  <2>1. TypeOK'
    BY <1>7 DEF StopRootOnlyCheck, TypeOK, ThreadTypeOK, OwnerPC, StartPC, StopPC,
         threadVars, listVars, countVars, flagVars,
         localVars, ownerVars, jobVars
  <2>2. CountsCover' /\ HasFiber'
    BY <1>7, CountsKept, HasFiberKept DEF StopRootOnlyCheck, localVars
  <2> QED
    BY <2>1, <2>2
<1>8. CASE StopStopping
  <2>1. TypeOK'
    BY <1>8 DEF StopStopping, TypeOK, ThreadTypeOK, OwnerPC, StartPC, StopPC,
         threadVars, listVars, countVars, flagVars,
         localVars, ownerVars, jobVars
  <2>2. CountsCover' /\ HasFiber'
    BY <1>8, CountsKept, HasFiberKept DEF StopStopping, localVars
  <2> QED
    BY <2>1, <2>2
<1>9. CASE StopSwap
  <2>1. TypeOK'
    BY <1>9 DEF StopSwap, TypeOK, ThreadTypeOK, OwnerPC, StartPC, StopPC,
         threadVars, listVars, countVars, flagVars,
         localVars, ownerVars, jobVars
  <2>2. CountsCover' /\ HasFiber'
    BY <1>9, CountsKept, HasFiberKept DEF StopSwap, localVars
  <2> QED
    BY <2>1, <2>2
<1>10. ASSUME NEW t \in Threads, StartCreate(t)
      PROVE  IInv'
  <2>1. TypeOK'
    BY <1>10 DEF StartCreate, Create, Life, TypeOK, ThreadTypeOK, OwnerPC, StartPC,
         threadVars, listVars, countVars, flagVars,
         localVars, ownerVars, jobVars
  <2>2. CountsCover' /\ HasFiber'
    BY <1>10, CountsKept, HasFiberKept DEF StartCreate, localVars
  <2> QED
    BY <2>1, <2>2
<1>11. ASSUME NEW t \in Threads, StartWait(t)
      PROVE  IInv'
  <2>1. m_id[t] \in Runners \cup {NoTid}
    BY DEF TypeOK, ThreadTypeOK, Runners
  <2>2. m_threadIds' \in Seq(Runners \cup {NoTid})
    BY <1>11, <2>1 DEF StartWait, TypeOK
  <2>3. mpc' \in OwnerPC
    BY <1>11 DEF StartWait, OwnerPC, StartPC
  <2>4. ThreadTypeOK'
    BY <1>11 DEF StartWait, CtorWait, Wait, TypeOK, ThreadTypeOK
  <2>5. UNCHANGED <<m_tasks, m_threads, thrs, countVars, flagVars, fib, pc,
                    localVars, m_rootFiber, m_threadCount, jobVars>>
    BY <1>11 DEF StartWait
  <2>6. TypeOK'
    BY <2>2, <2>3, <2>4, <2>5 DEF TypeOK, countVars, flagVars, localVars, jobVars
  <2>7. CountsCover' /\ HasFiber'
    BY <1>11, CountsKept, HasFiberKept DEF StartWait, localVars
  <2> QED
    BY <2>6, <2>7
<1>12. CASE StopJoin
  <2>1. Tail(thrs) \in Seq(Threads)
    BY <1>12, HeadTailProperties DEF StopJoin, TypeOK
  <2>2. TypeOK'
    BY <1>12, <2>1 DEF StopJoin, Join, TypeOK, ThreadTypeOK, OwnerPC, StopPC,
         threadVars, listVars, countVars, flagVars,
         localVars, ownerVars, jobVars
  <2>3. CountsCover' /\ HasFiber'
    BY <1>12, CountsKept, HasFiberKept DEF StopJoin, localVars
  <2> QED
    BY <2>2, <2>3
<1>13. CASE StopCallRoot
  <2>1. Entered(m_rootFiber) \in FiberObject
    BY FiberTypes DEF TypeOK, FiberObject
  <2>2. CASE UNCHANGED <<pc, m_rootFiber>>
    <3>1. TypeOK'
      BY <1>13, <2>2 DEF StopCallRoot, TypeOK, ThreadTypeOK, OwnerPC, StopPC,
         threadVars, listVars, countVars, flagVars,
         localVars, ownerVars, jobVars
    <3>2. CountsCover' /\ HasFiber'
      BY <1>13, <2>2, CountsKept, HasFiberKept DEF StopCallRoot, localVars
    <3> QED
      BY <3>1, <3>2
  <2>3. CASE /\ m_rootFiber' = Entered(m_rootFiber)
             /\ mpc' = "called"
             /\ Goto(Caller, "enter")
    <3>1. Caller \in Runners
      BY DEF Runners
    <3>2. UNCHANGED <<countVars, localVars>>
      BY <1>13 DEF StopCallRoot
    <3>3. TypeOK'
      BY <1>13, <2>1, <2>3, <3>1 DEF StopCallRoot, TypeOK, ThreadTypeOK, OwnerPC,
         StopPC, Goto, RunnerPC, threadVars, listVars, countVars, flagVars,
         localVars, ownerVars, jobVars
    <3>4. CountsCover'
      BY <2>3, <3>1, <3>2, CountsMoved DEF TypeOK, RunnerPC, BusyPC, IdlePC, countVars
    <3>5. HasFiber'
      BY <2>3, <3>1, <3>2, HasFiberMoved DEF RunnerPC, BusyPC, localVars
    <3> QED
      BY <3>3, <3>4, <3>5
  <2> QED
    BY <1>13, <2>2, <2>3 DEF StopCallRoot
<1>14. CASE RootReturn
  <2>1. Caller \in Runners
    BY DEF Runners
  <2>2. /\ pc[Caller] = "done" /\ Goto(Caller, "off")
        /\ UNCHANGED <<countVars, localVars>>
    BY <1>14 DEF RootReturn
  <2>3. SwappedOut(Returned(m_rootFiber), "ended") \in FiberObject
    BY FiberTypes DEF TypeOK, FiberObject, ResumePoint
  <2>4. TypeOK'
    BY <1>14, <2>1, <2>2, <2>3 DEF RootReturn, TypeOK, ThreadTypeOK, OwnerPC,
         StopPC, Goto, RunnerPC, threadVars, listVars, countVars, flagVars,
         localVars, ownerVars, jobVars
  <2>5. CountsCover'
    BY <2>1, <2>2, CountsMoved DEF TypeOK, RunnerPC, BusyPC, IdlePC, countVars
  <2>6. HasFiber'
    BY <2>1, <2>2, HasFiberMoved DEF RunnerPC, BusyPC, localVars
  <2> QED
    BY <2>4, <2>5, <2>6
<1>15. CASE OwnerCall
  BY <1>1, <1>2, <1>3, <1>4, <1>15 DEF OwnerCall, Runners
<1>16. CASE InStart
  BY <1>10, <1>11, <1>16 DEF InStart
<1>17. CASE InStop
  BY <1>5, <1>6, <1>7, <1>8, <1>9, <1>12, <1>13, <1>14, <1>17 DEF InStop
<1> QED
  BY <1>15, <1>16, <1>17

\* A new scheduler has no tasks, no threads and nothing counted.
LEMMA InitInvariant == Init => IInv
<1> SUFFICES ASSUME Init PROVE IInv
  OBVIOUS
<1>1. /\ NewFiber(RunCb) \in FiberObject
      /\ NewFiber(IdleCb) \in FiberObject
      /\ \A j \in Jobs : NewFiber(j) \in FiberOf(Jobs)
  BY NewFiberType, SchedulerAssumption DEF FiberObject
<1>2. m_threadIds \in Seq(Runners \cup {NoTid})
  <2>1. <<Caller>> \in Seq(Runners \cup {NoTid}) /\ <<>> \in Seq(Runners \cup {NoTid})
    BY DEF Runners
  <2> QED
    BY <2>1 DEF Init
<1>3. ThreadTypeOK
  BY DEF Init, ThreadInit, ThreadTypeOK, Life
<1>a. m_stopping \in BOOLEAN /\ m_autoStop \in BOOLEAN
  BY Zenon DEF Init
<1>b. /\ m_tasks \in Seq(Task)
      /\ m_threads \in Seq(Threads)
      /\ thrs \in Seq(Threads)
  BY DEF Init
<1>c. /\ m_rootFiber \in FiberObject
      /\ fib \in [Jobs -> FiberOf(Jobs)]
      /\ idleFiber \in [Runners -> FiberObject]
  BY <1>1 DEF Init
<1>d. /\ pc \in [Runners -> RunnerPC]
      /\ task \in [Runners -> Task \cup {NoTask}]
      /\ cbFiber \in [Runners -> Jobs \cup {None}]
      /\ mpc \in OwnerPC
  BY DEF Init, RunnerPC, OwnerPC
<1>e. m_threadCount \in Nat
  BY SchedulerAssumption DEF Init
<1>4. TypeOK
  BY <1>2, <1>3, <1>a, <1>b, <1>c, <1>d, <1>e DEF Init, TypeOK
<1>5. Busy = {} /\ Idling = {}
  BY DEF Init, Busy, Idling, BusyPC, IdlePC
<1>6. CountsCover
  BY <1>5, FS_EmptySet DEF Init, CountsCover
<1>7. HasFiber
  BY DEF Init, HasFiber, BusyPC
<1> QED
  BY <1>4, <1>6, <1>7 DEF IInv

\* A thread from outside only adds to the queue.
LEMMA OutsideSchedulePreserves ==
    ASSUME IInv, NEW j \in Jobs, OutsideSchedule(j)
    PROVE  IInv'
<1> USE DEF IInv
<1>1. JobTask(j, NoTid) \in Task
  BY TaskTypes
<1>2. TypeOK'
  BY <1>1 DEF OutsideSchedule, Schedule, TypeOK, ThreadTypeOK, threadVars, listVars,
         countVars, flagVars, localVars, ownerVars, jobVars
<1>3. CountsCover' /\ HasFiber'
  BY CountsKept, HasFiberKept DEF OutsideSchedule, localVars
<1> QED
  BY <1>2, <1>3

\* IInv is inductive.
LEMMA NextInvariant == IInv /\ [Next]_vars => IInv'
<1> SUFFICES ASSUME IInv, [Next]_vars PROVE IInv'
  OBVIOUS
<1>1. CASE \E t \in Threads : PoolThread(t)
  BY <1>1, PoolThreadPreserves
<1>2. CASE Run(Caller)
  BY <1>2, RunPreserves DEF Runners
<1>3. CASE OwnerCall \/ InStart \/ InStop
  BY <1>3, OwnerPreserves
<1>5. CASE \E j \in Jobs : OutsideSchedule(j)
  BY <1>5, OutsideSchedulePreserves
<1>4. CASE UNCHANGED vars
  <2>1. TypeOK'
    BY <1>4 DEF IInv, vars, TypeOK, ThreadTypeOK, threadVars, listVars, countVars, flagVars,
         localVars, ownerVars, jobVars
  <2>2. CountsCover' /\ HasFiber'
    BY <1>4, CountsKept, HasFiberKept DEF IInv, vars, localVars
  <2> QED
    BY <2>1, <2>2 DEF IInv
<1> QED
  BY <1>1, <1>2, <1>3, <1>4, <1>5 DEF Next, Gone

\* The inductive invariant holds in every reachable state.
THEOREM Invariance == Spec => []IInv
BY InitInvariant, NextInvariant, PTL DEF Spec

\* Type correctness.  It includes that neither of the two counters of threads,
\* unsigned in the code, is ever decremented below zero.
THEOREM TypeCorrect == Spec => []TypeOK
<1>1. IInv => TypeOK
  BY DEF IInv
<1> QED
  BY <1>1, Invariance, PTL

\* stopping() holds only when no thread has a task in its hands: at zero the
\* counter covers an empty set of threads.
LEMMA QuietFromInvariant == IInv => StoppingMeansQuiet
<1> SUFFICES ASSUME IInv, Stopping PROVE Busy = {}
  BY DEF StoppingMeansQuiet
<1>1. IsFiniteSet(Busy) /\ Cardinality(Busy) \in Nat
  BY CountsType DEF IInv, TypeOK
<1>2. Cardinality(Busy) = 0
  BY <1>1 DEF IInv, CountsCover, Stopping
<1> QED
  BY <1>1, <1>2, FS_EmptySet

\* stopping() of scheduler.cpp is true only when no thread holds a task it has
\* taken from the queue, for every pool and every set of jobs.
THEOREM Quiet == Spec => []StoppingMeansQuiet
BY QuietFromInvariant, Invariance, PTL

\* What stopping() reads.
LEMMA StoppingKept ==
    ASSUME Stopping, UNCHANGED <<m_tasks, m_activeThreadCount, flagVars>>
    PROVE  Stopping'
BY DEF Stopping, flagVars

\* With nobody busy and the queue empty, a step of run() changes nothing that
\* stopping() reads.
LEMMA RunKeepsStopping ==
    ASSUME IInv, Stopping, NEW t \in Runners, Run(t)
    PROVE  Stopping'
<1>1. pc[t] \notin BusyPC
  BY QuietFromInvariant DEF StoppingMeansQuiet, Busy
<1>2. pc[t] \notin {"dispatch", "swapIn", "body", "yield", "end", "back"}
  BY <1>1 DEF BusyPC
<1>3. ~Take(t)
  BY DEF Take, Stopping
<1>4. ~Body(t)
  BY <1>2 DEF Body, BodySchedule, BodyRequeue, BodyYield, BodyReturn, BodyThrow
<1>5. /\ ~DispatchFiber(t) /\ ~DispatchEnded(t) /\ ~DispatchCb(t)
      /\ ~SwapIn(t) /\ ~SwapOut(t) /\ ~Back(t)
  BY <1>2 DEF DispatchFiber, DispatchEnded, DispatchCb, SwapIn, SwapOut, Back
<1>6. RunEnter(t) \/ TakeNone(t) \/ IdleStep(t) \/ Recycle(t)
  BY <1>3, <1>4, <1>5 DEF Run
<1>7. UNCHANGED <<m_tasks, m_activeThreadCount, flagVars>>
  BY <1>6 DEF RunEnter, TakeNone, IdleStep, Recycle, countVars
<1> QED
  BY <1>7, StoppingKept

\* The steps of stop() only set the two flags, and take no task.
LEMMA StopKeepsStopping ==
    ASSUME Stopping, InStop
    PROVE  Stopping'
<1>1. UNCHANGED <<m_tasks, m_activeThreadCount>>
  BY DEF InStop, StopAutoStop, StopRootOnly, StopRootOnlyCheck, StopStopping,
         StopCallRoot, StopSwap, StopJoin, RootReturn, countVars
<1>2. (m_autoStop' = TRUE \/ UNCHANGED m_autoStop)
      /\ (m_stopping' = TRUE \/ UNCHANGED m_stopping)
  BY Zenon DEF InStop, StopAutoStop, StopRootOnly, StopRootOnlyCheck, StopStopping,
         StopCallRoot, StopSwap, StopJoin, RootReturn, flagVars
<1>3. m_autoStop' /\ m_stopping'
  BY <1>2, Zenon DEF Stopping
<1> QED
  BY <1>1, <1>3 DEF Stopping

\* Once stopping() is true inside stop(), no step makes it false again but a
\* call of schedule() by a thread from outside.
THEOREM Stable == Spec => StoppingStable
<1> DEFINE NewFromOutside == \E j \in OutsideJobs : j \in submitted' \ submitted
<1>1. ASSUME IInv, [Next]_vars, Stopping, mpc \in StopPC
      PROVE  Stopping' \/ NewFromOutside
  <2>1. (~OwnerCall /\ ~InStart) \/ Destroy
    BY <1>1 DEF OwnerCall, OwnerSchedule, StartBegin, StopCall, Client, InStart,
           StartCreate, StartWait, StopPC
  <2>2. ~Destroy
    BY <1>1 DEF Destroy, StopPC
  <2>3. ASSUME NEW t \in Threads, RunThread(t) \/ Exit(t)
        PROVE  Stopping'
    BY <1>1, <2>3, StoppingKept DEF RunThread, Exit, countVars
  <2>4. ASSUME NEW t \in Threads, PoolThread(t)
        PROVE  Stopping'
    BY <1>1, <2>3, <2>4, RunKeepsStopping DEF PoolThread, Runners
  <2>5. CASE Run(Caller)
    BY <1>1, <2>5, RunKeepsStopping DEF Runners
  <2>6. CASE InStop
    BY <1>1, <2>6, StopKeepsStopping
  <2>7. CASE UNCHANGED vars
    BY <1>1, <2>7, StoppingKept DEF vars, countVars
  <2>8. ASSUME NEW j \in Jobs, OutsideSchedule(j)
        PROVE  NewFromOutside
    BY <2>8 DEF OutsideSchedule
  <2> QED
    BY <1>1, <2>1, <2>2, <2>4, <2>5, <2>6, <2>7, <2>8 DEF Next, Gone
<1>2. IInv /\ [Next]_vars =>
        [Stopping /\ mpc \in StopPC => Stopping' \/ NewFromOutside]_vars
  BY <1>1
<1> QED
  BY <1>2, Invariance, PTL DEF Spec, StoppingStable

-----------------------------------------------------------------------------
(* Part 2.                                                                 *)

\* The inductive invariant behind the properties of fibers and jobs, for fibers
\* that requeue themselves for their own thread (~MayMigrate).

\* The fiber a task is about: its fiber, or the one that is made for its
\* callback if the thread that takes it has none to reuse.
FiberFor(tk) == IF tk.fiber # None THEN tk.fiber ELSE tk.cb

\* Runner t has fiber f in its hands.
Holds(t, f) == FiberFor(task[t]) = f \/ cbFiber[t] = f

\* Some entry of the queue is about fiber f.
Queued(f) == \E i \in 1..Len(m_tasks) : FiberFor(m_tasks[i]) = f

\* A fiber is in the hands of one thread, and several entries of the queue, or a
\* thread and entries, have it at once only if the entries are for one thread,
\* for that one; a callback that waits for its fiber is in one place; and all
\* of them were scheduled.
OneHolder ==
    \A f \in Jobs : \A t, u \in Runners : Holds(t, f) /\ Holds(u, f) => t = u
EntriesAgree ==
    \A i, k \in 1..Len(m_tasks) :
        i # k /\ FiberFor(m_tasks[i]) = FiberFor(m_tasks[k]) =>
            /\ m_tasks[i].fiber # None
            /\ m_tasks[i].thread \in Runners
            /\ m_tasks[i].thread = m_tasks[k].thread
EntryOfHolder ==
    \A i \in 1..Len(m_tasks) : \A t \in Runners :
        Holds(t, FiberFor(m_tasks[i])) =>
            m_tasks[i].fiber # None /\ m_tasks[i].thread = t
PendingApart ==
    \A t \in Runners : task[t].cb # None =>
        cbFiber[t] # task[t].cb /\ ~Queued(task[t].cb)
Scheduled ==
    \A f \in Jobs : (Queued(f) \/ \E t \in Runners : Holds(t, f)) => f \in submitted
Homes == OneHolder /\ EntriesAgree /\ EntryOfHolder /\ PendingApart /\ Scheduled

\* A fiber nobody is on is new, has yielded or has ended, and its saved context
\* says the same.
Resting(fb) ==
    \/ fb.m_state = "INIT" /\ fb.m_ctx = "entry"
    \/ fb.m_state = "READY" /\ fb.m_ctx = "yielded"
    \/ Ended(fb) /\ fb.m_ctx = "ended"

\* Runner t is in the branch of run() for callbacks, after the dispatch.
InCallback(t) ==
    /\ task[t].fiber = None
    /\ pc[t] \in {"swapIn", "body", "yield", "end", "back", "recycle"}

\* The state of a fiber agrees with the place of the thread that is on it, and
\* a callback fiber that is kept has no callback and is not suspended.
FitsPlace(t) ==
    /\ pc[t] = "swapIn" => ~Ended(fib[Current(t)])
    /\ pc[t] = "body" => fib[Current(t)].m_state = "EXEC"
    /\ pc[t] = "yield" => fib[Current(t)].m_state = "READY"
    /\ pc[t] = "end" => Ended(fib[Current(t)])
    /\ pc[t] = "recycle" => cbFiber[t] # None /\ task[t].fiber = None
    /\ InCallback(t) /\ pc[t] \in {"swapIn", "body", "yield"} => Job(t) # None
    /\ cbFiber[t] # None /\ ~InCallback(t) =>
           fib[cbFiber[t]].m_cb = None /\ fib[cbFiber[t]].m_state # "READY"
    /\ task[t].cb # None => pc[t] = "dispatch"
    /\ pc[t] # "abort"
Rested == \A f \in Jobs : OnStack(f) = {} => Resting(fib[f])
Shapes == Rested /\ \A t \in Runners : FitsPlace(t)

\* A fiber object somebody still refers to, and a callback that has no fiber yet.
Live(f) ==
    \/ \E t \in Runners : task[t].fiber = f \/ cbFiber[t] = f
    \/ \E i \in 1..Len(m_tasks) : m_tasks[i].fiber = f
Pending(j) ==
    \/ \E t \in Runners : task[t].cb = j
    \/ \E i \in 1..Len(m_tasks) : m_tasks[i].cb = j

\* A job is in one live fiber or pending, never both, and what has become of it
\* can be read from its fiber; a job not scheduled yet is untouched.
OneFiber ==
    \A f, g \in Jobs : Live(f) /\ Live(g) /\ fib[f].m_cb = fib[g].m_cb =>
        f = g \/ fib[f].m_cb = None
JobOfFiber ==
    \A f, j \in Jobs : Live(f) /\ fib[f].m_cb = j =>
        /\ j \in submitted
        /\ runs[j] = IF fib[f].m_state = "INIT" THEN 0 ELSE 1
        /\ j \in ended <=> Ended(fib[f])
PendingFresh ==
    \A j \in Jobs : Pending(j) =>
        /\ runs[j] = 0
        /\ j \notin ended
        /\ \A f \in Jobs : Live(f) => fib[f].m_cb # j
NewFresh ==
    \A j \in Jobs \ submitted :
        runs[j] = 0 /\ j \notin ended /\ (j \in FiberJobs => fib[j] = NewFiber(j))
Tracking == OneFiber /\ JobOfFiber /\ PendingFresh /\ NewFresh

\* A fiber that yields is in the queue until its thread has let go of it.
YieldsQueued ==
    \A t \in Runners :
        pc[t] = "yield" \/ (pc[t] = "back" /\ ~Ended(fib[Current(t)])) =>
            Queued(Current(t))

\* A pool thread is in run() while it lives, the owner's while stop() calls it.
Placed ==
    /\ pc[Caller] # "off" => mpc = "called"
    /\ \A t \in Threads : pc[t] # "off" <=> life[t] = "running"

\* Each part is inductive relative to those before it.
JobInv ==
    /\ IInv /\ Placed /\ Homes /\ Shapes
    /\ Tracking /\ YieldsQueued /\ RunsOnce /\ JobsAccounted

-----------------------------------------------------------------------------
\* The queue

\* Where the entries of the queue are after an erase.
LEMMA WithoutAt ==
    ASSUME NEW S, NEW s \in Seq(S), NEW i \in 1..Len(s)
    PROVE  /\ Len(Without(s, i)) = Len(s) - 1
           /\ \A k \in 1..(Len(s) - 1) :
                Without(s, i)[k] = s[IF k < i THEN k ELSE k + 1]
<1> DEFINE a == SubSeq(s, 1, i - 1)
           b == SubSeq(s, i + 1, Len(s))
<1>1. a \in Seq(S) /\ Len(a) = i - 1 /\ \A k \in 1..(i - 1) : a[k] = s[k]
  <2>1. \A k \in 1..(i - 1) : s[k] \in S
    OBVIOUS
  <2> QED
    BY <2>1, SubSeqProperties
<1>2. /\ b \in Seq(S) /\ Len(b) = Len(s) - i
      /\ \A k \in 1..(Len(s) - i) : b[k] = s[i + k]
  <2>1. \A k \in (i + 1)..Len(s) : s[k] \in S
    OBVIOUS
  <2> QED
    BY <2>1, SubSeqProperties
<1> HIDE DEF a, b
<1>3. /\ Len(a \o b) = Len(a) + Len(b)
      /\ \A k \in 1..(Len(a) + Len(b)) :
            (a \o b)[k] = IF k <= Len(a) THEN a[k] ELSE b[k - Len(a)]
  BY <1>1, <1>2, ConcatProperties
<1>4. Len(a \o b) = Len(s) - 1
  BY <1>1, <1>2, <1>3
<1>5. ASSUME NEW k \in 1..(Len(s) - 1)
      PROVE  (a \o b)[k] = s[IF k < i THEN k ELSE k + 1]
  BY <1>1, <1>2, <1>3
<1> QED
  BY <1>4, <1>5 DEF Without, a, b

\* Taking entry i leaves exactly the others, each in one place.
LEMMA TakenQueue ==
    ASSUME m_tasks \in Seq(Task), NEW i \in 1..Len(m_tasks),
           m_tasks' = Without(m_tasks, i)
    PROVE  /\ \A k \in 1..Len(m_tasks') : \E n \in 1..Len(m_tasks) :
                n # i /\ m_tasks'[k] = m_tasks[n]
           /\ \A k, l \in 1..Len(m_tasks') : k # l =>
                \E n, o \in 1..Len(m_tasks) :
                    /\ n # o /\ n # i /\ o # i
                    /\ m_tasks'[k] = m_tasks[n] /\ m_tasks'[l] = m_tasks[o]
           /\ \A n \in 1..Len(m_tasks) : n # i =>
                \E k \in 1..Len(m_tasks') : m_tasks'[k] = m_tasks[n]
<1> DEFINE at(k) == IF k < i THEN k ELSE k + 1
<1>1. /\ Len(m_tasks') = Len(m_tasks) - 1
      /\ \A k \in 1..Len(m_tasks') : m_tasks'[k] = m_tasks[at(k)]
  BY WithoutAt
<1>2. \A k \in 1..Len(m_tasks') : at(k) \in 1..Len(m_tasks) /\ at(k) # i
  BY <1>1
<1>3. \A k, l \in 1..Len(m_tasks') : k # l => at(k) # at(l)
  BY <1>1
<1>4. ASSUME NEW n \in 1..Len(m_tasks), n # i
      PROVE  \E k \in 1..Len(m_tasks') : m_tasks'[k] = m_tasks[n]
  <2>1. CASE n < i
    BY <1>1, <2>1
  <2>2. CASE n > i
    <3>1. n - 1 \in 1..Len(m_tasks') /\ at(n - 1) = n
      BY <1>1, <2>2
    <3> QED
      BY <1>1, <3>1
  <2> QED
    BY <1>4, <2>1, <2>2
<1>5. ASSUME NEW k \in 1..Len(m_tasks'), NEW l \in 1..Len(m_tasks'), k # l
      PROVE  \E n, o \in 1..Len(m_tasks) :
                 /\ n # o /\ n # i /\ o # i
                 /\ m_tasks'[k] = m_tasks[n] /\ m_tasks'[l] = m_tasks[o]
  <2> HIDE DEF at
  <2>1. /\ at(k) \in 1..Len(m_tasks) /\ at(l) \in 1..Len(m_tasks)
        /\ at(k) # at(l) /\ at(k) # i /\ at(l) # i
        /\ m_tasks'[k] = m_tasks[at(k)] /\ m_tasks'[l] = m_tasks[at(l)]
    BY <1>1, <1>2, <1>3, <1>5
  <2> QED
    BY <2>1
<1> HIDE DEF at
<1>6. ASSUME NEW k \in 1..Len(m_tasks')
      PROVE  \E n \in 1..Len(m_tasks) : n # i /\ m_tasks'[k] = m_tasks[n]
  BY <1>1, <1>2
<1> QED
  BY <1>4, <1>5, <1>6

\* In particular, what is left was there before.
LEMMA TakenFrom ==
    ASSUME m_tasks \in Seq(Task), NEW i \in 1..Len(m_tasks),
           m_tasks' = Without(m_tasks, i)
    PROVE  \A k \in 1..Len(m_tasks') : \E n \in 1..Len(m_tasks) : m_tasks'[k] = m_tasks[n]
BY TakenQueue

\* Scheduling adds one entry at the end.
LEMMA AppendedQueue ==
    ASSUME m_tasks \in Seq(Task), NEW tk \in Task, m_tasks' = Append(m_tasks, tk)
    PROVE  /\ Len(m_tasks') = Len(m_tasks) + 1
           /\ \A k \in 1..Len(m_tasks) : m_tasks'[k] = m_tasks[k]
           /\ m_tasks'[Len(m_tasks')] = tk
           /\ \A k \in 1..Len(m_tasks') : k \in 1..Len(m_tasks) \/ k = Len(m_tasks')
           /\ Len(m_tasks) \in Nat
BY AppendProperties

\* A task is about a fiber object, and an empty one about none.
LEMMA FiberForTypes ==
    /\ \A tk \in Task : /\ FiberFor(tk) \in Jobs
                        /\ tk.fiber # None => FiberFor(tk) = tk.fiber /\ tk.cb = None
                        /\ tk.fiber = None => FiberFor(tk) = tk.cb
    /\ FiberFor(NoTask) = None /\ NoTask.fiber = None /\ NoTask.cb = None
    /\ NoTid \notin Runners
BY NoneNotJob, NoTidAssumption, SchedulerAssumption
   DEF FiberFor, Task, NoTask, Jobs, Runners

-----------------------------------------------------------------------------
\* Placed

\* A step of run() is made by a thread inside it, which stays there.
LEMMA RunPlace ==
    ASSUME IInv, NEW t \in Runners, Run(t)
    PROVE  /\ pc[t] # "off" /\ pc'[t] # "off"
           /\ \A u \in Runners \ {t} : pc'[u] = pc[u]
           /\ UNCHANGED <<threadVars, listVars, flagVars, ownerVars>>
<1>1. pc \in [Runners -> RunnerPC]
  BY DEF IInv, TypeOK
<1> QED
  BY <1>1 DEF Run, Body, RunEnter, Take, TakeNone, IdleBranch, IdleStep,
     DispatchFiber, DispatchEnded, DispatchCb, SwapIn, BodySchedule, BodyRequeue,
     BodyYield, BodyReturn, BodyThrow, SwapOut, Back, Recycle, Goto

\* Placed is inductive relative to IInv.
LEMMA PlacedNext ==
    ASSUME IInv, Placed, [Next]_vars
    PROVE  Placed'
<1>1. TypeOK /\ Caller \notin Threads
  BY SchedulerAssumption DEF IInv
<1>2. ASSUME NEW t \in Runners, Run(t)
      PROVE  Placed'
  BY <1>2, RunPlace DEF Placed, Runners, threadVars, ownerVars
<1>3. ASSUME NEW t \in Threads, RunThread(t) \/ Exit(t)
      PROVE  Placed'
  BY <1>1, <1>3 DEF Placed, Runners, RunThread, RunProlog, Exit, Finish, Goto, TypeOK,
     ThreadTypeOK, ownerVars
<1>4. ASSUME NEW t \in Threads, StartCreate(t) \/ StartWait(t)
      PROVE  Placed'
  BY <1>1, <1>4 DEF Placed, StartCreate, Create, StartWait, CtorWait, TypeOK,
     ThreadTypeOK
<1>5. CASE OwnerCall \/ StopAutoStop \/ StopRootOnly \/ StopRootOnlyCheck
           \/ StopStopping \/ StopSwap \/ StopJoin
  <2>1. UNCHANGED <<pc, life>> /\ mpc # "called"
    BY <1>5 DEF OwnerCall, OwnerSchedule, StartBegin, StopCall, Destroy, Client,
       StopAutoStop, StopRootOnly, StopRootOnlyCheck, StopStopping, StopSwap,
       StopJoin, Join, threadVars
  <2> QED
    BY <2>1 DEF Placed
<1>6. CASE StopCallRoot \/ RootReturn
  BY <1>1, <1>6 DEF Placed, StopCallRoot, RootReturn, Goto, TypeOK, Runners, threadVars
<1>7. CASE (\E j \in Jobs : OutsideSchedule(j)) \/ UNCHANGED vars
  BY <1>7 DEF Placed, OutsideSchedule, vars, threadVars, ownerVars
<1> QED
  BY <1>2, <1>3, <1>4, <1>5, <1>6, <1>7
     DEF Next, PoolThread, Runners, InStart, InStop, Gone

\* A step outside run() leaves a thread where it is, or moves one that is on
\* no fiber.
LEMMA OtherPlaces ==
    ASSUME IInv, Placed, Next, ~\E t \in Runners : Run(t), NEW u \in Runners
    PROVE  pc'[u] = pc[u] \/ (pc[u] \in {"off", "done"} /\ pc'[u] \in {"off", "enter"})
<1>1. TypeOK /\ Caller \notin Threads
  BY SchedulerAssumption DEF IInv
<1>2. ASSUME NEW t \in Threads, PoolThread(t)
      PROVE  pc'[u] = pc[u] \/ (pc[u] \in {"off", "done"} /\ pc'[u] \in {"off", "enter"})
  <2>1. RunThread(t) => pc[t] = "off"
    BY DEF RunThread, RunProlog, Placed
  <2> QED
    BY <1>1, <1>2, <2>1 DEF PoolThread, Runners, RunThread, Exit, Goto, TypeOK
<1>3. CASE OwnerCall \/ InStart \/ InStop \/ (\E j \in Jobs : OutsideSchedule(j)) \/ Gone
  <2>1. CASE StopCallRoot
    <3>1. pc[Caller] = "off"
      BY <2>1 DEF StopCallRoot, Placed
    <3> QED
      BY <1>1, <2>1, <3>1 DEF StopCallRoot, Goto, TypeOK
  <2>2. CASE RootReturn
    BY <1>1, <2>2 DEF RootReturn, Goto, TypeOK
  <2> QED
    BY <1>3, <2>1, <2>2 DEF OwnerCall, OwnerSchedule, StartBegin, StopCall, Destroy,
       InStart, StartCreate, StartWait, InStop, StopAutoStop, StopRootOnly,
       StopRootOnlyCheck, StopStopping, StopSwap, StopJoin, OutsideSchedule, Gone, vars
<1> QED
  BY <1>2, <1>3 DEF Next, Runners

-----------------------------------------------------------------------------
\* Homes

\* A step that only lets go of fibers keeps Homes.
LEMMA HomesDropped ==
    ASSUME TypeOK, Homes, UNCHANGED m_tasks, submitted \subseteq submitted',
           \A t \in Runners : task'[t] \in {task[t], NoTask}
                              /\ cbFiber'[t] \in {cbFiber[t], None}
    PROVE  Homes'
<1>1. \A f \in Jobs : \A t \in Runners : Holds(t, f)' => Holds(t, f)
  BY NoneNotJob, FiberForTypes DEF Holds
<1>2. \A f \in Jobs : Queued(f)' <=> Queued(f)
  BY DEF Queued
<1>3. OneHolder'
  BY <1>1 DEF Homes, OneHolder
<1>4. EntriesAgree'
  BY DEF Homes, EntriesAgree
<1>5. EntryOfHolder'
  <2>1. \A i \in 1..Len(m_tasks) : FiberFor(m_tasks[i]) \in Jobs
    BY FiberForTypes DEF TypeOK
  <2> QED
    BY <1>1, <2>1 DEF Homes, EntryOfHolder
<1>6. PendingApart'
  <2> SUFFICES ASSUME NEW t \in Runners, task'[t].cb # None
               PROVE  cbFiber'[t] # task'[t].cb /\ ~Queued(task[t].cb)'
    BY DEF PendingApart
  <2>1. task'[t] = task[t]
    BY FiberForTypes
  <2> QED
    BY <2>1 DEF Homes, PendingApart, Queued
<1>7. Scheduled'
  BY <1>1, <1>2 DEF Homes, Scheduled
<1> QED
  BY <1>3, <1>4, <1>5, <1>6, <1>7 DEF Homes

\* A job scheduled for the first time is in no other place.
LEMMA HomesSubmitted ==
    ASSUME TypeOK, Homes, NEW j \in Jobs \ submitted,
           NEW pin \in Runners \cup {NoTid},
           m_tasks' = Append(m_tasks, JobTask(j, pin)),
           UNCHANGED <<task, cbFiber>>, submitted' = submitted \cup {j}
    PROVE  Homes'
<1> DEFINE tk == JobTask(j, pin)
<1>1. tk \in Task /\ FiberFor(tk) = j
  BY TaskTypes, NoneNotJob DEF FiberFor, JobTask, FiberTask, CbTask
<1> HIDE DEF tk
<1>2. /\ Len(m_tasks') = Len(m_tasks) + 1
      /\ \A k \in 1..Len(m_tasks) : m_tasks'[k] = m_tasks[k]
      /\ m_tasks'[Len(m_tasks')] = tk
      /\ \A k \in 1..Len(m_tasks') : k \in 1..Len(m_tasks) \/ k = Len(m_tasks')
      /\ Len(m_tasks) \in Nat
  BY <1>1, AppendedQueue DEF TypeOK, tk
<1>3. ~Queued(j) /\ \A t \in Runners : ~Holds(t, j)
  BY DEF Homes, Scheduled
<1>4. \A f \in Jobs : Queued(f)' => Queued(f) \/ f = j
  BY <1>1, <1>2 DEF Queued
<1>5. \A f \in Jobs : \A t \in Runners : Holds(t, f)' <=> Holds(t, f)
  BY DEF Holds
<1>6. OneHolder'
  BY <1>5 DEF Homes, OneHolder
<1>7. EntriesAgree'
  BY <1>1, <1>2, <1>3 DEF Homes, EntriesAgree, Queued
<1>8. EntryOfHolder'
  <2>1. \A i \in 1..Len(m_tasks) : FiberFor(m_tasks[i]) \in Jobs
    BY FiberForTypes DEF TypeOK
  <2> QED
    BY <1>1, <1>2, <1>3, <1>5, <2>1 DEF Homes, EntryOfHolder
<1>9. PendingApart'
  <2> SUFFICES ASSUME NEW t \in Runners, task[t].cb # None
               PROVE  cbFiber[t] # task[t].cb /\ ~Queued(task[t].cb)'
    BY DEF PendingApart, Queued
  <2>1. task[t] \in Task
    BY FiberForTypes DEF TypeOK
  <2>2. task[t].cb \in Jobs /\ task[t].cb # j
    BY <1>3, <2>1, FiberForTypes DEF Holds
  <2> QED
    BY <1>4, <2>2 DEF Homes, PendingApart
<1>10. Scheduled'
  BY <1>4, <1>5 DEF Homes, Scheduled
<1> QED
  BY <1>6, <1>7, <1>8, <1>9, <1>10 DEF Homes

\* Taking a task moves it from the queue into the hands of one thread; no
\* other thread may have it, as its entry would be for that thread.
LEMMA HomesTake ==
    ASSUME TypeOK, Homes, NEW t \in Runners, Take(t)
    PROVE  Homes' /\ task'[t] \in Task
<1>1. PICK i \in 1..Len(m_tasks) :
        /\ First(t, i)
        /\ task' = [task EXCEPT ![t] = m_tasks[i]]
        /\ m_tasks' = Without(m_tasks, i)
  BY DEF Take
<1> DEFINE g == FiberFor(m_tasks[i])
<1>2. UNCHANGED <<cbFiber, submitted>>
  BY DEF Take, jobVars
<1>3. /\ m_tasks[i] \in Task /\ m_tasks[i].thread \in {NoTid, t} /\ g \in Jobs
      /\ task'[t] = m_tasks[i] /\ \A u \in Runners \ {t} : task'[u] = task[u]
  BY <1>1, FiberForTypes DEF First, Eligible, TypeOK
<1>4. /\ \A k \in 1..Len(m_tasks') : \E n \in 1..Len(m_tasks) :
            n # i /\ m_tasks'[k] = m_tasks[n]
      /\ \A k, l \in 1..Len(m_tasks') : k # l =>
            \E n, o \in 1..Len(m_tasks) :
                /\ n # o /\ n # i /\ o # i
                /\ m_tasks'[k] = m_tasks[n] /\ m_tasks'[l] = m_tasks[o]
  BY <1>1, TakenQueue DEF TypeOK
<1>5. \A u \in Runners : Holds(u, g) => u = t
  BY <1>3, FiberForTypes DEF Homes, EntryOfHolder
<1>6. Queued(g)
  BY DEF Queued
<1>7. \A f \in Jobs : Queued(f)' =>
        Queued(f) /\ (f = g => m_tasks[i].fiber # None)
  <2> SUFFICES ASSUME NEW f \in Jobs, Queued(f)'
               PROVE  Queued(f) /\ (f = g => m_tasks[i].fiber # None)
    OBVIOUS
  <2>1. PICK k \in 1..Len(m_tasks') : FiberFor(m_tasks'[k]) = f
    BY DEF Queued
  <2>2. PICK n \in 1..Len(m_tasks) : n # i /\ m_tasks'[k] = m_tasks[n]
    BY <1>4, <2>1
  <2> QED
    BY <2>1, <2>2 DEF Homes, EntriesAgree, Queued
<1>8. \A f \in Jobs : \A u \in Runners :
        Holds(u, f)' => Holds(u, f) \/ (u = t /\ f = g)
  BY <1>2, <1>3 DEF Holds
<1>9. OneHolder'
  BY <1>5, <1>8 DEF Homes, OneHolder
<1>10. EntriesAgree'
  BY <1>4 DEF Homes, EntriesAgree
<1>11. EntryOfHolder'
  <2> SUFFICES ASSUME NEW k \in 1..Len(m_tasks'), NEW u \in Runners,
                      Holds(u, FiberFor(m_tasks[k]))'
               PROVE  m_tasks'[k].fiber # None /\ m_tasks'[k].thread = u
    BY DEF EntryOfHolder
  <2>1. PICK n \in 1..Len(m_tasks) : n # i /\ m_tasks'[k] = m_tasks[n]
    BY <1>4
  <2>2. FiberFor(m_tasks[n]) \in Jobs
    BY FiberForTypes DEF TypeOK
  <2>3. CASE Holds(u, FiberFor(m_tasks[n]))
    BY <2>1, <2>3 DEF Homes, EntryOfHolder
  <2>4. CASE u = t /\ FiberFor(m_tasks[n]) = g
    BY <1>3, <2>1, <2>4, FiberForTypes DEF Homes, EntriesAgree
  <2>5. Holds(u, FiberFor(m_tasks[n])) \/ (u = t /\ FiberFor(m_tasks[n]) = g)
    BY <1>8, <2>1, <2>2 DEF Holds
  <2> QED
    BY <2>3, <2>4, <2>5
<1>12. PendingApart'
  <2> SUFFICES ASSUME NEW u \in Runners, task'[u].cb # None
               PROVE  cbFiber'[u] # task'[u].cb /\ ~Queued(task[u].cb)'
    BY DEF PendingApart
  <2>1. CASE u = t
    <3>1. m_tasks[i].fiber = None /\ task'[t].cb = g
      BY <1>3, <2>1, FiberForTypes
    <3>2. ~Holds(t, g)
      BY <3>1 DEF Homes, EntryOfHolder
    <3> QED
      BY <1>2, <1>3, <1>7, <2>1, <3>1, <3>2 DEF Holds, Queued
  <2>2. CASE u # t
    <3>1. task'[u] = task[u]
      BY <1>3, <2>2
    <3>2. task[u].cb \in Jobs
      BY <3>1, FiberForTypes DEF TypeOK, Task
    <3> QED
      BY <1>2, <1>7, <3>1, <3>2 DEF Homes, PendingApart, Queued
  <2> QED
    BY <2>1, <2>2
<1>13. Scheduled'
  BY <1>2, <1>6, <1>7, <1>8 DEF Homes, Scheduled
<1> QED
  BY <1>3, <1>9, <1>10, <1>11, <1>12, <1>13 DEF Homes

\* The callback's fiber is made for it, or one the thread had kept.
LEMMA HomesDispatchCb ==
    ASSUME IInv, Homes, NEW t \in Runners, DispatchCb(t)
    PROVE  Homes'
<1>1. TypeOK /\ task[t] \in Task /\ task[t].fiber = None
  BY DEF IInv, HasFiber, DispatchCb
<1>2. UNCHANGED <<m_tasks, submitted>>
  BY DEF DispatchCb, jobVars
<1>3. CASE UNCHANGED <<task, cbFiber>>
  BY <1>1, <1>2, <1>3, HomesDropped
<1>4. CASE /\ cbFiber' = [cbFiber EXCEPT ![t] =
                  IF cbFiber[t] # None THEN cbFiber[t] ELSE task[t].cb]
           /\ task' = [task EXCEPT ![t] = NoTask]
  <2> DEFINE j == task[t].cb
  <2>1. /\ j \in Jobs /\ j # None /\ FiberFor(task[t]) = j
        /\ task'[t] = NoTask /\ \A u \in Runners \ {t} : task'[u] = task[u]
        /\ cbFiber'[t] \in {cbFiber[t], j}
        /\ \A u \in Runners \ {t} : cbFiber'[u] = cbFiber[u]
    BY <1>1, <1>4, FiberForTypes, NoneNotJob DEF TypeOK
  <2>2. \A f \in Jobs : \A u \in Runners : Holds(u, f)' => Holds(u, f)
    BY <2>1, NoneNotJob, FiberForTypes DEF Holds
  <2>3. \A f \in Jobs : Queued(f)' <=> Queued(f)
    BY <1>2 DEF Queued
  <2>4. OneHolder'
    BY <2>2 DEF Homes, OneHolder
  <2>5. EntriesAgree'
    BY <1>2 DEF Homes, EntriesAgree
  <2>6. EntryOfHolder'
    <3>1. \A i \in 1..Len(m_tasks) : FiberFor(m_tasks[i]) \in Jobs
      BY <1>1, FiberForTypes DEF TypeOK
    <3> QED
      BY <1>2, <2>2, <3>1 DEF Homes, EntryOfHolder
  <2>7. PendingApart'
    <3> SUFFICES ASSUME NEW u \in Runners, task'[u].cb # None
                 PROVE  cbFiber'[u] # task'[u].cb /\ ~Queued(task[u].cb)'
      BY DEF PendingApart
    <3>1. u # t
      BY <2>1, FiberForTypes
    <3> QED
      BY <1>2, <2>1, <3>1 DEF Homes, PendingApart, Queued
  <2>8. Scheduled'
    BY <1>2, <2>2, <2>3 DEF Homes, Scheduled
  <2> QED
    BY <2>4, <2>5, <2>6, <2>7, <2>8 DEF Homes
<1> QED
  BY <1>3, <1>4 DEF DispatchCb

\* A thread that is to switch to a fiber, or is on one, holds it.
LEMMA HoldsCurrent ==
    ASSUME IInv, NEW t \in Runners, pc[t] \in BusyPC \ {"dispatch"}
    PROVE  Current(t) \in Jobs /\ Holds(t, Current(t))
BY NoneNotJob DEF IInv, HasFiber, Current, Holds, FiberFor

\* A fiber requeues itself for its own thread, and so it did before.
LEMMA HomesRequeue ==
    ASSUME ~MayMigrate, IInv, Homes, NEW t \in Runners, NEW pin \in {NoTid, t},
           BodyRequeue(t, pin)
    PROVE  Homes'
<1> DEFINE f == Current(t)
           tk == FiberTask(f, t)
<1>1. TypeOK /\ f \in Jobs /\ Holds(t, f)
  BY HoldsCurrent DEF IInv, BodyRequeue, BusyPC
<1>2. UNCHANGED <<task, cbFiber, submitted>> /\ m_tasks' = Append(m_tasks, tk)
  BY DEF BodyRequeue, localVars, Schedule
<1>3. tk \in Task /\ FiberFor(tk) = f /\ tk.fiber # None /\ tk.thread = t
  BY <1>1, TaskTypes, NoneNotJob DEF FiberFor, FiberTask
<1>4. /\ Len(m_tasks') = Len(m_tasks) + 1
      /\ \A k \in 1..Len(m_tasks) : m_tasks'[k] = m_tasks[k]
      /\ m_tasks'[Len(m_tasks')] = tk
      /\ \A k \in 1..Len(m_tasks') : k \in 1..Len(m_tasks) \/ k = Len(m_tasks')
      /\ Len(m_tasks) \in Nat
  BY <1>1, <1>2, <1>3, AppendedQueue DEF TypeOK
<1>5. \A i \in 1..Len(m_tasks) : FiberFor(m_tasks[i]) = f =>
        m_tasks[i].fiber # None /\ m_tasks[i].thread = t
  BY <1>1 DEF Homes, EntryOfHolder
<1> HIDE DEF f, tk
<1>6. \A g \in Jobs : Queued(g)' => Queued(g) \/ g = f
  BY <1>3, <1>4 DEF Queued
<1>7. \A g \in Jobs : \A u \in Runners : Holds(u, g)' <=> Holds(u, g)
  BY <1>2 DEF Holds
<1>8. OneHolder'
  BY <1>7 DEF Homes, OneHolder
<1>9. EntriesAgree'
  BY <1>3, <1>4, <1>5 DEF Homes, EntriesAgree
<1>10. EntryOfHolder'
  <2>1. \A i \in 1..Len(m_tasks) : FiberFor(m_tasks[i]) \in Jobs
    BY <1>1, FiberForTypes DEF TypeOK
  <2>2. \A u \in Runners : Holds(u, f) => u = t
    BY <1>1 DEF Homes, OneHolder
  <2> QED
    BY <1>1, <1>3, <1>4, <1>7, <2>1, <2>2 DEF Homes, EntryOfHolder
<1>11. PendingApart'
  <2> SUFFICES ASSUME NEW u \in Runners, task[u].cb # None
               PROVE  cbFiber[u] # task[u].cb /\ ~Queued(task[u].cb)'
    BY <1>2 DEF PendingApart
  <2>1. task[u] \in Task /\ task[u].fiber = None /\ task[u].cb \in Jobs
    BY <1>1, FiberForTypes DEF TypeOK
  <2>2. task[u].cb # f
    <3>1. ASSUME task[u].cb = f PROVE FALSE
      <4>1. u = t
        BY <1>1, <2>1, <3>1, FiberForTypes DEF Holds, Homes, OneHolder
      <4>2. f = cbFiber[t]
        BY <2>1, <4>1 DEF Current, f
      <4> QED
        BY <3>1, <4>1, <4>2 DEF Homes, PendingApart
    <3> QED
      BY <3>1
  <2> QED
    BY <1>2, <1>6, <2>1, <2>2 DEF Homes, PendingApart
<1>12. Scheduled'
  BY <1>1, <1>2, <1>6, <1>7 DEF Homes, Scheduled
<1> QED
  BY <1>8, <1>9, <1>10, <1>11, <1>12 DEF Homes

\* The steps of run() and of the jobs it runs keep Homes.
LEMMA HomesRun ==
    ASSUME ~MayMigrate, IInv, Homes, NEW t \in Runners, Run(t)
    PROVE  Homes'
<1>1. TypeOK
  BY DEF IInv
<1>2. CASE Take(t)
  BY <1>1, <1>2, HomesTake
<1>3. CASE DispatchCb(t)
  BY <1>3, HomesDispatchCb
<1>4. ASSUME NEW j \in Jobs, NEW pin \in {NoTid, t}, BodySchedule(t, j, pin)
      PROVE  Homes'
  BY <1>1, <1>4, HomesSubmitted DEF BodySchedule, Schedule, localVars
<1>5. ASSUME NEW pin \in {NoTid, t}, BodyRequeue(t, pin)
      PROVE  Homes'
  BY <1>5, HomesRequeue
<1>6. CASE RunEnter(t) \/ DispatchEnded(t) \/ Back(t)
  <2>1. /\ UNCHANGED <<m_tasks, submitted>>
        /\ \A u \in Runners : task'[u] \in {task[u], NoTask}
        /\ \A u \in Runners : cbFiber'[u] \in {cbFiber[u], None}
    BY <1>1, <1>6 DEF TypeOK, RunEnter, DispatchEnded, Back, jobVars
  <2> QED
    BY <1>1, <2>1, HomesDropped
<1>7. CASE Recycle(t)
  <2>1. /\ UNCHANGED <<m_tasks, submitted, task>>
        /\ \A u \in Runners : cbFiber'[u] \in {cbFiber[u], None}
    BY <1>1, <1>7 DEF TypeOK, Recycle, jobVars
  <2> QED
    BY <1>1, <2>1, HomesDropped
<1>8. CASE \/ TakeNone(t) \/ IdleStep(t) \/ DispatchFiber(t) \/ SwapIn(t)
           \/ BodyYield(t) \/ BodyReturn(t) \/ BodyThrow(t) \/ SwapOut(t)
  <2>1. UNCHANGED <<m_tasks, submitted, task, cbFiber>>
    BY <1>8 DEF TakeNone, IdleStep, DispatchFiber, SwapIn, BodyYield, BodyReturn,
           BodyThrow, SwapOut, localVars, jobVars
  <2> QED
    BY <1>1, <2>1, HomesDropped
<1> QED
  BY <1>2, <1>3, <1>4, <1>5, <1>6, <1>7, <1>8 DEF Run, Body

\* The steps of the owner and of threads outside the pool, and those of pool
\* threads outside run(), touch no fiber: they add a job or leave the queue.
LEMMA OtherSteps ==
    ASSUME IInv, Next, ~\E t \in Runners : Run(t)
    PROVE  /\ UNCHANGED <<fib, task, cbFiber, ended, runs>>
           /\ \/ UNCHANGED <<m_tasks, submitted>>
              \/ \E j \in Jobs \ submitted, pin \in Runners \cup {NoTid} :
                    /\ m_tasks' = Append(m_tasks, JobTask(j, pin))
                    /\ submitted' = submitted \cup {j}
<1>1. ASSUME NEW t \in Threads, PoolThread(t)
      PROVE  UNCHANGED <<fib, task, cbFiber, ended, runs, m_tasks, submitted>>
  BY <1>1 DEF PoolThread, Runners, RunThread, Exit, localVars, jobVars
<1>2. CASE InStart \/ InStop \/ StartBegin \/ StopCall \/ Destroy
  BY <1>2 DEF InStart, StartCreate, StartWait, InStop, StopAutoStop, StopRootOnly,
         StopRootOnlyCheck, StopStopping, StopCallRoot, StopSwap, StopJoin, RootReturn,
         StartBegin, StopCall, Destroy, localVars, jobVars
<1>3. ASSUME NEW j \in Jobs, NEW pin \in {NoTid, Caller},
             OwnerSchedule(j, pin) \/ OutsideSchedule(j)
      PROVE  /\ UNCHANGED <<fib, task, cbFiber, ended, runs>>
             /\ \E k \in Jobs \ submitted, q \in Runners \cup {NoTid} :
                    /\ m_tasks' = Append(m_tasks, JobTask(k, q))
                    /\ submitted' = submitted \cup {k}
  BY <1>3 DEF OwnerSchedule, OutsideSchedule, Schedule, Runners, localVars
<1>4. CASE Gone
  BY <1>4 DEF Gone, vars, localVars, jobVars
<1>5. CASE OwnerCall
  BY <1>2, <1>3, <1>5 DEF OwnerCall
<1> QED
  BY <1>1, <1>2, <1>3, <1>4, <1>5 DEF Next, Runners

\* Homes is inductive relative to IInv.
LEMMA HomesNext ==
    ASSUME ~MayMigrate, IInv, Homes, [Next]_vars
    PROVE  Homes'
<1>1. TypeOK
  BY DEF IInv
<1>2. CASE \E t \in Runners : Run(t)
  BY <1>2, HomesRun
<1>3. CASE UNCHANGED vars
  BY <1>1, <1>3, HomesDropped DEF vars, localVars, jobVars
<1>4. CASE Next /\ ~\E t \in Runners : Run(t)
  <2>1. CASE UNCHANGED <<m_tasks, submitted>>
    BY <1>1, <1>4, <2>1, OtherSteps, HomesDropped
  <2>2. CASE \E j \in Jobs \ submitted, pin \in Runners \cup {NoTid} :
                /\ m_tasks' = Append(m_tasks, JobTask(j, pin))
                /\ submitted' = submitted \cup {j}
    BY <1>1, <1>4, <2>2, OtherSteps, HomesSubmitted
  <2> QED
    BY <1>4, <2>1, <2>2, OtherSteps
<1> QED
  BY <1>2, <1>3, <1>4

\* The scheduler starts with an empty queue and empty hands.
LEMMA HomesInit == Init => Homes
<1> SUFFICES ASSUME Init PROVE Homes
  OBVIOUS
<1>1. m_tasks = <<>> /\ task = [t \in Runners |-> NoTask]
      /\ cbFiber = [t \in Runners |-> None]
  BY DEF Init
<1>2. \A f \in Jobs : ~Queued(f) /\ \A t \in Runners : ~Holds(t, f)
  BY <1>1, NoneNotJob, FiberForTypes DEF Queued, Holds
<1> QED
  BY <1>1, <1>2, FiberForTypes DEF Homes, OneHolder, EntriesAgree, EntryOfHolder,
     PendingApart, Scheduled

\* No two threads execute on the stack of one fiber, for every pool and every
\* set of jobs: a fiber that puts itself in the queue while it runs is only
\* taken by the thread that still is on it.
THEOREM Exclusive == ASSUME ~MayMigrate PROVE Spec => []FiberExclusive
<1>1. Init => IInv /\ Homes
  BY InitInvariant, HomesInit
<1>2. IInv /\ Homes /\ [Next]_vars => IInv' /\ Homes'
  BY NextInvariant, HomesNext
<1>3. IInv /\ Homes => FiberExclusive
  BY HoldsCurrent DEF FiberExclusive, OnStack, BusyPC, Homes, OneHolder
<1> QED
  BY <1>1, <1>2, <1>3, PTL DEF Spec

-----------------------------------------------------------------------------
\* Shapes

\* A step of run() on t leaves the places and locals of other threads alone,
\* changes only fibers t holds, and queues only those and jobs that are new.
LEMMA RunLocal ==
    ASSUME IInv, NEW t \in Runners, Run(t)
    PROVE  /\ \A u \in Runners \ {t} : /\ pc'[u] = pc[u]
                                       /\ task'[u] = task[u]
                                       /\ cbFiber'[u] = cbFiber[u]
           /\ \A g \in Jobs : fib'[g] = fib[g] \/ Holds(t, g)
           /\ \A g \in Jobs : Queued(g)' => Queued(g) \/ Holds(t, g) \/ g \notin submitted
<1>1. TypeOK
  BY DEF IInv
<1>2. \A u \in Runners \ {t} : /\ pc'[u] = pc[u]
                               /\ task'[u] = task[u]
                               /\ cbFiber'[u] = cbFiber[u]
  BY <1>1 DEF TypeOK, Run, Body, RunEnter, Take, TakeNone, IdleBranch, IdleStep,
     DispatchFiber, DispatchEnded, DispatchCb, SwapIn, BodySchedule, BodyRequeue,
     BodyYield, BodyReturn, BodyThrow, SwapOut, Back, Recycle, Goto, localVars
<1>3. ASSUME NEW g \in Jobs
      PROVE  fib'[g] = fib[g] \/ Holds(t, g)
  <2>1. CASE DispatchCb(t)
    <3>1. task[t] \in Task /\ task[t].fiber = None
      BY <2>1 DEF IInv, HasFiber, DispatchCb
    <3>2. FiberFor(task[t]) = task[t].cb
      BY <3>1, FiberForTypes
    <3> QED
      BY <1>1, <2>1, <3>2 DEF DispatchCb, Holds, TypeOK
  <2>2. CASE \/ SwapIn(t) \/ BodyYield(t) \/ BodyReturn(t) \/ BodyThrow(t) \/ SwapOut(t)
    <3>1. pc[t] \in BusyPC \ {"dispatch"}
      BY <2>2 DEF SwapIn, BodyYield, BodyReturn, BodyThrow, SwapOut, BusyPC
    <3>2. fib'[g] = fib[g] \/ g = Current(t)
      BY <1>1, <2>2 DEF TypeOK, SwapIn, BodyYield, BodyReturn, BodyThrow, SwapOut
    <3> QED
      BY <3>1, <3>2, HoldsCurrent
  <2>3. CASE Recycle(t)
    BY <1>1, <2>3 DEF TypeOK, Recycle, Holds
  <2>4. CASE UNCHANGED fib
    BY <2>4
  <2> QED
    BY <2>1, <2>2, <2>3, <2>4 DEF Run, Body, RunEnter, Take, TakeNone, IdleStep,
       DispatchFiber, DispatchEnded, BodySchedule, BodyRequeue, Back
<1>4. ASSUME NEW g \in Jobs, Queued(g)'
      PROVE  Queued(g) \/ Holds(t, g) \/ g \notin submitted
  <2>1. CASE Take(t)
    <3>1. PICK i \in 1..Len(m_tasks) : m_tasks' = Without(m_tasks, i)
      BY <2>1 DEF Take
    <3>2. \A k \in 1..Len(m_tasks') : \E n \in 1..Len(m_tasks) : m_tasks'[k] = m_tasks[n]
      <4>1. m_tasks \in Seq(Task)
        BY <1>1 DEF TypeOK
      <4> QED
        BY <3>1, <4>1, TakenFrom
    <3> QED
      BY <1>4, <3>2 DEF Queued
  <2>2. ASSUME NEW j \in Jobs, NEW pin \in {NoTid, t}, BodySchedule(t, j, pin)
        PROVE  Queued(g) \/ g \notin submitted
    <3>1. JobTask(j, pin) \in Task /\ FiberFor(JobTask(j, pin)) = j
      BY TaskTypes, NoneNotJob DEF FiberFor, JobTask, FiberTask, CbTask
    <3>2. m_tasks' = Append(m_tasks, JobTask(j, pin)) /\ j \notin submitted
      BY <2>2 DEF BodySchedule, Schedule
    <3> QED
      BY <1>1, <1>4, <3>1, <3>2, AppendedQueue DEF TypeOK, Queued
  <2>3. ASSUME NEW pin \in {NoTid, t}, BodyRequeue(t, pin)
        PROVE  Queued(g) \/ Holds(t, g)
    <3>1. Current(t) \in Jobs /\ Holds(t, Current(t))
      BY <2>3, HoldsCurrent DEF BodyRequeue, BusyPC
    <3>2. /\ FiberTask(Current(t), pin) \in Task
          /\ FiberFor(FiberTask(Current(t), pin)) = Current(t)
      BY <3>1, TaskTypes, NoneNotJob DEF FiberFor, FiberTask
    <3>3. m_tasks' = Append(m_tasks, FiberTask(Current(t), pin))
      BY <2>3 DEF BodyRequeue, Schedule
    <3> QED
      BY <1>1, <1>4, <3>1, <3>2, <3>3, AppendedQueue DEF TypeOK, Queued
  <2>4. CASE UNCHANGED m_tasks
    BY <1>4, <2>4 DEF Queued
  <2> QED
    BY <2>1, <2>2, <2>3, <2>4 DEF Run, Body, RunEnter, TakeNone, IdleStep,
       DispatchFiber, DispatchEnded, DispatchCb, SwapIn, BodyYield, BodyReturn,
       BodyThrow, SwapOut, Back, Recycle
<1> QED
  BY <1>2, <1>3, <1>4

\* What FitsPlace says of a thread depends on its place, its locals and the
\* fibers it holds.
LEMMA FitsPlaceKept ==
    ASSUME IInv, NEW u \in Runners, FitsPlace(u),
           pc'[u] = pc[u], task'[u] = task[u], cbFiber'[u] = cbFiber[u],
           \A g \in Jobs : Holds(u, g) => fib'[g] = fib[g]
    PROVE  FitsPlace(u)'
<1>1. Current(u)' = Current(u)
  BY DEF Current
<1>2. pc[u] \in {"swapIn", "body", "yield", "end", "back"} =>
        /\ Current(u) \in Jobs
        /\ fib'[Current(u)] = fib[Current(u)]
  BY <1>1, HoldsCurrent DEF BusyPC
<1>3. cbFiber[u] # None => fib'[cbFiber[u]] = fib[cbFiber[u]]
  BY DEF IInv, TypeOK, Holds
<1>4. InCallback(u)' <=> InCallback(u)
  BY DEF InCallback
<1> QED
  BY <1>1, <1>2, <1>3, <1>4 DEF FitsPlace, Job, InCallback

\* Fibers stay at rest if t's step leaves the stack of at most one fiber, f,
\* and that one is then at rest.
LEMMA RestedKept ==
    ASSUME Rested, NEW t \in Runners, NEW f,
           \A u \in Runners \ {t} : /\ pc'[u] = pc[u]
                                    /\ task'[u] = task[u]
                                    /\ cbFiber'[u] = cbFiber[u],
           \A g \in Jobs \ {f} : /\ fib'[g] = fib[g]
                                 /\ t \in OnStack(g) => t \in OnStack(g)',
           f \in Jobs => (t \notin OnStack(f)' => Resting(fib'[f]))
    PROVE  Rested'
<1> SUFFICES ASSUME NEW g \in Jobs, OnStack(g)' = {}
             PROVE  Resting(fib'[g])
  BY DEF Rested
<1>1. CASE g = f
  BY <1>1
<1>2. CASE g # f
  <2>1. \A u \in Runners \ {t} : u \in OnStack(g) => u \in OnStack(g)'
    BY DEF OnStack, Current
  <2>2. OnStack(g) = {}
    BY <1>2, <2>1 DEF OnStack
  <2> QED
    BY <1>2, <2>2 DEF Rested
<1> QED
  BY <1>1, <1>2

\* A step that changes no fiber and takes nobody onto or off a stack.
LEMMA RestedIdle ==
    ASSUME Rested, NEW t \in Runners, UNCHANGED fib,
           \A u \in Runners \ {t} : /\ pc'[u] = pc[u]
                                    /\ task'[u] = task[u]
                                    /\ cbFiber'[u] = cbFiber[u],
           \/ pc[t] \notin {"body", "yield", "end"}
           \/ pc'[t] = pc[t] /\ task'[t] = task[t] /\ cbFiber'[t] = cbFiber[t]
    PROVE  Rested'
<1>1. \A g \in Jobs : t \in OnStack(g) => t \in OnStack(g)'
  BY DEF OnStack, Current
<1> QED
  BY <1>1, RestedKept, NoneNotJob

\* The thread on the stack of a fiber holds it, so it is the only one there.
LEMMA NobodyOn ==
    ASSUME IInv, Homes, NEW t \in Runners, NEW f \in Jobs, Holds(t, f),
           pc[t] \notin {"body", "yield", "end"}
    PROVE  OnStack(f) = {}
BY HoldsCurrent DEF OnStack, BusyPC, Homes, OneHolder

\* SelfQueued in terms of Queued.
LEMMA SelfQueuedMeans ==
    ASSUME IInv, Homes, NEW t \in Runners, pc[t] \in BusyPC \ {"dispatch"}
    PROVE  SelfQueued(t) <=> Queued(Current(t))
<1>1. Current(t) \in Jobs /\ Holds(t, Current(t)) /\ Current(t) # None
  BY HoldsCurrent, NoneNotJob
<1>2. \A i \in 1..Len(m_tasks) : m_tasks[i] \in Task
  BY DEF IInv, TypeOK
<1> QED
  BY <1>1, <1>2, FiberForTypes DEF SelfQueued, Queued, Homes, EntryOfHolder

\* The fibers that a thread may enter, and those it keeps.
LEMMA FiberFacts ==
    ASSUME IInv, Homes, Shapes, NEW t \in Runners
    PROVE  /\ pc[t] = "swapIn" => /\ Enterable(fib[Current(t)])
                                  /\ fib[Current(t)].m_ctx # "ended"
           /\ pc[t] = "dispatch" /\ cbFiber[t] # None => Idle(fib[cbFiber[t]])
<1>1. ASSUME pc[t] = "swapIn"
      PROVE  Enterable(fib[Current(t)]) /\ fib[Current(t)].m_ctx # "ended"
  <2>1. Current(t) \in Jobs /\ Holds(t, Current(t))
    BY <1>1, HoldsCurrent DEF BusyPC
  <2>2. Resting(fib[Current(t)]) /\ ~Ended(fib[Current(t)])
    BY <1>1, <2>1, NobodyOn DEF Shapes, Rested, FitsPlace
  <2> QED
    BY <2>2 DEF Resting, Enterable
<1>2. ASSUME pc[t] = "dispatch", cbFiber[t] # None
      PROVE  Idle(fib[cbFiber[t]])
  <2>1. cbFiber[t] \in Jobs /\ Holds(t, cbFiber[t])
    BY <1>2 DEF IInv, TypeOK, Holds
  <2>2. Resting(fib[cbFiber[t]])
    BY <1>2, <2>1, NobodyOn DEF Shapes, Rested
  <2>3. fib[cbFiber[t]].m_state # "READY"
    BY <1>2 DEF Shapes, FitsPlace, InCallback
  <2> QED
    BY <2>2, <2>3 DEF Resting, Idle, Ended
<1> QED
  BY <1>1, <1>2

\* The steps that dispatch a task or find none.
LEMMA ShapesLoop ==
    ASSUME IInv, Homes, Shapes, NEW t \in Runners,
           \/ RunEnter(t) \/ Take(t) \/ TakeNone(t) \/ IdleStep(t)
           \/ DispatchFiber(t) \/ DispatchEnded(t)
    PROVE  FitsPlace(t)' /\ Rested'
<1>1. TypeOK /\ Rested /\ FitsPlace(t) /\ Run(t)
  BY DEF IInv, Shapes, Run
<1>2. UNCHANGED fib /\ pc[t] \notin {"body", "yield", "end"}
  BY DEF RunEnter, Take, TakeNone, IdleStep, DispatchFiber, DispatchEnded
<1>3. Rested'
  BY <1>1, <1>2, RunLocal, RestedIdle
<1>4. CASE RunEnter(t)
  <2>1. pc'[t] = "loop" /\ cbFiber'[t] = None /\ task'[t] = NoTask
    BY <1>1, <1>4 DEF RunEnter, Goto, TypeOK
  <2> QED
    BY <1>3, <2>1, FiberForTypes DEF FitsPlace
<1>5. CASE Take(t)
  <2>1. pc'[t] = "dispatch" /\ pc[t] = "loop" /\ UNCHANGED cbFiber
    BY <1>1, <1>5 DEF Take, Goto, TypeOK
  <2> QED
    BY <1>1, <1>2, <1>3, <2>1 DEF FitsPlace, InCallback
<1>6. CASE TakeNone(t) \/ DispatchEnded(t)
  <2>1. /\ pc'[t] \in {"done", "idle"} /\ pc[t] \in {"loop", "dispatch"}
        /\ UNCHANGED cbFiber
        /\ task'[t] = NoTask \/ (task'[t] = task[t] /\ pc[t] = "loop")
    BY <1>1, <1>6 DEF TakeNone, DispatchEnded, IdleBranch, Goto, TypeOK
  <2> QED
    BY <1>1, <1>2, <1>3, <2>1, FiberForTypes DEF FitsPlace, InCallback
<1>7. CASE IdleStep(t)
  <2>1. pc'[t] = "loop" /\ pc[t] = "idle" /\ UNCHANGED <<task, cbFiber>>
    BY <1>1, <1>7 DEF IdleStep, Goto, TypeOK
  <2> QED
    BY <1>1, <1>2, <1>3, <2>1 DEF FitsPlace, InCallback
<1>8. CASE DispatchFiber(t)
  <2>1. /\ pc'[t] = "swapIn" /\ pc[t] = "dispatch" /\ UNCHANGED <<task, cbFiber, m_tasks>>
        /\ task[t].fiber # None /\ ~Ended(fib[task[t].fiber])
    BY <1>1, <1>8 DEF DispatchFiber, Goto, TypeOK, localVars
  <2>2. Current(t)' = task[t].fiber
    BY <2>1 DEF Current
  <2>3. task[t].cb = None
    BY <1>1, <2>1, FiberForTypes DEF TypeOK
  <2> QED
    BY <1>1, <1>2, <1>3, <2>1, <2>2, <2>3 DEF FitsPlace, InCallback, Queued
<1> QED
  BY <1>3, <1>4, <1>5, <1>6, <1>7, <1>8

\* A callback gets a fiber that is at its entry; the assertion of reset holds.
LEMMA ShapesDispatchCb ==
    ASSUME IInv, Homes, Shapes, NEW t \in Runners, DispatchCb(t)
    PROVE  FitsPlace(t)' /\ Rested'
<1> DEFINE f == IF cbFiber[t] # None THEN cbFiber[t] ELSE task[t].cb
<1>1. TypeOK /\ Rested /\ FitsPlace(t) /\ Run(t)
  BY DEF IInv, Shapes, Run
<1>2. task[t] \in Task /\ task[t].fiber = None /\ pc[t] = "dispatch"
  BY DEF IInv, HasFiber, DispatchCb
<1>3. task[t].cb \in Jobs /\ f \in Jobs
  BY <1>1, <1>2, FiberForTypes DEF TypeOK
<1>4. ~(cbFiber[t] # None /\ ~Idle(fib[f]))
  BY <1>2, FiberFacts
<1>5. /\ fib' = [fib EXCEPT ![f] = IF cbFiber[t] # None THEN Reset(fib[f], task[t].cb)
                                                        ELSE NewFiber(task[t].cb)]
      /\ cbFiber' = [cbFiber EXCEPT ![t] = f]
      /\ task' = [task EXCEPT ![t] = NoTask]
      /\ Goto(t, "swapIn")
  BY <1>4 DEF DispatchCb
<1> HIDE DEF f
<1>6. /\ pc'[t] = "swapIn" /\ cbFiber'[t] = f /\ task'[t] = NoTask
      /\ \A g \in Jobs \ {f} : fib'[g] = fib[g]
  BY <1>1, <1>5 DEF Goto, TypeOK
<1>7. /\ fib'[f].m_state = "INIT" /\ fib'[f].m_ctx = "entry"
      /\ fib'[f].m_cb = task[t].cb
  BY <1>1, <1>3, <1>5 DEF TypeOK, FiberOf, Reset, NewFiber
<1>8. Current(t)' = f /\ Job(t)' = task[t].cb
  BY <1>6, <1>7, FiberForTypes DEF Current, Job
<1>9. FitsPlace(t)'
  BY <1>3, <1>6, <1>7, <1>8, NoneNotJob, FiberForTypes DEF FitsPlace, InCallback, Ended
<1>10. Rested'
  <2>1. Resting(fib'[f])
    BY <1>7 DEF Resting
  <2>2. \A g \in Jobs : t \notin OnStack(g)
    BY <1>2 DEF OnStack
  <2> QED
    BY <1>1, <1>6, <2>1, <2>2, RunLocal, RestedKept
<1> QED
  BY <1>9, <1>10

\* The assertions of swapIn hold and the thread enters the fiber.
LEMMA ShapesSwapIn ==
    ASSUME IInv, Homes, Shapes, NEW t \in Runners, SwapIn(t)
    PROVE  FitsPlace(t)' /\ Rested'
<1>0. PICK f \in Jobs : f = Current(t)
  BY HoldsCurrent DEF SwapIn, BusyPC
<1>1. TypeOK /\ Rested /\ FitsPlace(t) /\ Run(t)
  BY DEF IInv, Shapes, Run
<1>2. pc[t] = "swapIn" /\ f \in Jobs /\ UNCHANGED <<task, cbFiber, m_tasks>>
  BY <1>0, HoldsCurrent DEF SwapIn, BusyPC, localVars
<1>3. fib' = [fib EXCEPT ![f] = Entered(fib[f])] /\ Goto(t, "body")
  BY <1>0, <1>2, FiberFacts DEF SwapIn
<1>4. Current(t)' = f
  BY <1>0, <1>2 DEF Current
<1>5. pc'[t] = "body" /\ \A g \in Jobs \ {f} : fib'[g] = fib[g]
  BY <1>0, <1>1, <1>3 DEF Goto, TypeOK
<1>6. fib'[f].m_state = "EXEC" /\ fib'[f].m_cb = fib[f].m_cb
  BY <1>0, <1>1, <1>2, <1>3 DEF TypeOK, FiberOf, Entered
<1>7. Job(t)' = Job(t)
  BY <1>0, <1>4, <1>6 DEF Job
<1>8. Job(t) = None => task[t].fiber # None
  BY <1>0, <1>1, <1>2 DEF FitsPlace, InCallback, Current
<1>9. cbFiber[t] # None => cbFiber[t] \in Jobs
  BY <1>1 DEF TypeOK
<1>10. FitsPlace(t)'
  BY <1>0, <1>1, <1>2, <1>4, <1>5, <1>6, <1>7, <1>8, <1>9 DEF FitsPlace, InCallback, Queued
<1>11. Rested'
  <2>1. t \in OnStack(f)' /\ \A g \in Jobs : t \notin OnStack(g)
    BY <1>0, <1>2, <1>4, <1>5 DEF OnStack
  <2> QED
    BY <1>1, <1>5, <2>1, RunLocal, RestedKept
<1> QED
  BY <1>10, <1>11

\* What a job does short of leaving its function: it schedules others, or
\* itself if it still has a function to come back to.
LEMMA ShapesBodySchedule ==
    ASSUME IInv, Homes, Shapes, NEW t \in Runners, NEW pin \in {NoTid, t},
           (\E j \in Jobs : BodySchedule(t, j, pin)) \/ BodyRequeue(t, pin)
    PROVE  FitsPlace(t)' /\ Rested'
<1>1. TypeOK /\ Rested /\ FitsPlace(t) /\ Run(t)
  BY DEF IInv, Shapes, Run, Body
<1>2. pc[t] = "body" /\ UNCHANGED <<fib, pc, task, cbFiber>>
  BY DEF BodySchedule, BodyRequeue, localVars
<1>3. Rested'
  BY <1>1, <1>2, RunLocal, RestedIdle
<1>4. FitsPlace(t)'
  BY <1>1, <1>2, FitsPlaceKept
<1> QED
  BY <1>3, <1>4

\* The assertion of YieldToReady holds, and the fiber of a job that yields has
\* a function to come back to.
LEMMA ShapesBodyYield ==
    ASSUME IInv, Homes, Shapes, NEW t \in Runners, BodyYield(t)
    PROVE  FitsPlace(t)' /\ Rested'
<1>0. PICK f \in Jobs : f = Current(t)
  BY HoldsCurrent DEF BodyYield, BusyPC
<1>1. TypeOK /\ Rested /\ FitsPlace(t) /\ Run(t)
  BY DEF IInv, Shapes, Run, Body
<1>2. pc[t] = "body" /\ f \in Jobs /\ UNCHANGED <<task, cbFiber, m_tasks>>
  BY <1>0, HoldsCurrent DEF BodyYield, BusyPC, localVars
<1>3. fib' = [fib EXCEPT ![f] = YieldMarked(fib[f])] /\ Goto(t, "yield")
  BY <1>0, <1>1, <1>2 DEF BodyYield, FitsPlace
<1>4. Current(t)' = f
  BY <1>0, <1>2 DEF Current
<1>5. Job(t) # None
  BY DEF BodyYield
<1>6. fib[f].m_cb # None
  BY <1>0, <1>5 DEF Job
<1>7. pc'[t] = "yield" /\ \A g \in Jobs \ {f} : fib'[g] = fib[g]
  BY <1>0, <1>1, <1>3 DEF Goto, TypeOK
<1>8. fib'[f].m_state = "READY" /\ fib'[f].m_cb = fib[f].m_cb
  BY <1>0, <1>1, <1>2, <1>3 DEF TypeOK, FiberOf, YieldMarked
<1>9. Job(t)' # None
  BY <1>0, <1>4, <1>6, <1>8 DEF Job
<1>10. cbFiber[t] # None => cbFiber[t] \in Jobs
  BY <1>1 DEF TypeOK
<1>11. FitsPlace(t)'
  BY <1>0, <1>1, <1>2, <1>4, <1>6, <1>7, <1>8, <1>9, <1>10 DEF FitsPlace, InCallback
<1>12. Rested'
  <2>1. t \in OnStack(f)' /\ \A g \in Jobs \ {f} : t \notin OnStack(g)
    BY <1>0, <1>4, <1>7 DEF OnStack
  <2> QED
    BY <1>1, <1>7, <2>1, RunLocal, RestedKept
<1> QED
  BY <1>11, <1>12

\* A job returns or throws; a fiber whose callback was cleared can only throw.
LEMMA ShapesBodyEnd ==
    ASSUME IInv, Homes, Shapes, NEW t \in Runners, BodyReturn(t) \/ BodyThrow(t)
    PROVE  FitsPlace(t)' /\ Rested'
<1>0. PICK f \in Jobs : f = Current(t)
  BY HoldsCurrent DEF BodyReturn, BodyThrow, BusyPC
<1>1. TypeOK /\ Rested /\ FitsPlace(t) /\ Run(t)
  BY DEF IInv, Shapes, Run, Body
<1>2. /\ pc[t] = "body" /\ f \in Jobs /\ UNCHANGED <<task, cbFiber, m_tasks>>
      /\ Goto(t, "end")
  BY <1>0, HoldsCurrent DEF BodyReturn, BodyThrow, BusyPC, localVars
<1>3. \/ fib' = [fib EXCEPT ![f] = Returned(fib[f])]
      \/ fib' = [fib EXCEPT ![f] = Threw(fib[f])]
  BY <1>0 DEF BodyReturn, BodyThrow
<1>4. Current(t)' = f
  BY <1>0, <1>2 DEF Current
<1>5. pc'[t] = "end" /\ \A g \in Jobs \ {f} : fib'[g] = fib[g]
  BY <1>0, <1>1, <1>2, <1>3 DEF Goto, TypeOK
<1>6. /\ fib'[f].m_state \in {"TERM", "EXCEPT"}
      /\ fib'[f].m_cb = None \/ fib'[f].m_cb = fib[f].m_cb
  <2>1. fib \in [Jobs -> FiberOf(Jobs)]
    BY <1>1 DEF TypeOK
  <2>2. fib'[f] = Returned(fib[f]) \/ fib'[f] = Threw(fib[f])
    BY <1>3, <2>1
  <2> QED
    BY <2>1, <2>2 DEF FiberOf, Returned, Threw
<1>7. cbFiber[t] # None => cbFiber[t] \in Jobs
  BY <1>1 DEF TypeOK
<1>8. FitsPlace(t)'
  BY <1>0, <1>1, <1>2, <1>4, <1>5, <1>6, <1>7 DEF FitsPlace, InCallback, Ended
<1>9. Rested'
  <2>1. t \in OnStack(f)' /\ \A g \in Jobs \ {f} : t \notin OnStack(g)
    BY <1>0, <1>4, <1>5 DEF OnStack
  <2> QED
    BY <1>1, <1>5, <2>1, RunLocal, RestedKept
<1> QED
  BY <1>8, <1>9

\* The fiber's context is saved as the thread leaves its stack.
LEMMA ShapesSwapOut ==
    ASSUME IInv, Homes, Shapes, NEW t \in Runners, SwapOut(t)
    PROVE  FitsPlace(t)' /\ Rested'
<1> DEFINE f == Current(t)
           point == IF pc[t] = "yield" THEN "yielded" ELSE "ended"
<1>1. TypeOK /\ Rested /\ FitsPlace(t) /\ Run(t)
  BY DEF IInv, Shapes, Run
<1>2. /\ pc[t] \in {"yield", "end"} /\ f \in Jobs /\ UNCHANGED <<task, cbFiber>>
      /\ Goto(t, "back")
      /\ fib' = [fib EXCEPT ![f] = SwappedOut(fib[f], point)]
  BY HoldsCurrent DEF SwapOut, BusyPC, localVars
<1>3. pc[t] = "yield" => fib[f].m_state = "READY"
  BY <1>1 DEF FitsPlace
<1>4. pc[t] = "end" => Ended(fib[f])
  BY <1>1 DEF FitsPlace
<1>5. \A g \in Jobs \ {f} : t \notin OnStack(g)
  BY DEF OnStack
<1> HIDE DEF f
<1>6. pc'[t] = "back" /\ \A g \in Jobs \ {f} : fib'[g] = fib[g]
  BY <1>1, <1>2 DEF Goto, TypeOK
<1>7. /\ fib'[f].m_state = fib[f].m_state /\ fib'[f].m_cb = fib[f].m_cb
      /\ fib'[f].m_ctx = point
  BY <1>1, <1>2 DEF TypeOK, FiberOf, SwappedOut
<1>8. cbFiber[t] # None => cbFiber[t] \in Jobs
  BY <1>1 DEF TypeOK
<1>9. FitsPlace(t)'
  BY <1>1, <1>2, <1>6, <1>7, <1>8 DEF FitsPlace, InCallback
<1>10. Rested'
  <2>1. Resting(fib'[f])
    BY <1>2, <1>3, <1>4, <1>7 DEF Resting, Ended
  <2> QED
    BY <1>1, <1>5, <1>6, <2>1, RunLocal, RestedKept
<1> QED
  BY <1>9, <1>10

\* Back in run(), which keeps a callback's fiber only if it has ended.
LEMMA ShapesBack ==
    ASSUME IInv, Homes, Shapes, NEW t \in Runners, Back(t) \/ Recycle(t)
    PROVE  FitsPlace(t)' /\ Rested'
<1>1. TypeOK /\ Rested /\ FitsPlace(t) /\ Run(t)
  BY DEF IInv, Shapes, Run
<1>2. pc[t] \in {"back", "recycle"} /\ \A g \in Jobs : t \notin OnStack(g)
  BY DEF Back, Recycle, OnStack
<1>3. CASE Back(t)
  <2>1. /\ pc[t] = "back" /\ UNCHANGED <<fib, cbFiber>> /\ task'[t] = NoTask
        /\ pc'[t] = IF task[t].fiber # None THEN "loop" ELSE "recycle"
    BY <1>1, <1>3 DEF Back, Goto, TypeOK
  <2>2. Rested'
    BY <1>1, <1>2, <2>1, RunLocal, RestedIdle
  <2>3. task[t].fiber = None => cbFiber[t] # None
    BY <2>1, HoldsCurrent, NoneNotJob DEF Current, BusyPC
  <2> QED
    BY <1>1, <2>1, <2>2, <2>3, FiberForTypes DEF FitsPlace, InCallback
<1>4. CASE Recycle(t)
  <2> DEFINE f == cbFiber[t]
  <2>1. /\ pc[t] = "recycle" /\ f \in Jobs /\ UNCHANGED task
        /\ pc'[t] = "loop"
    BY <1>1, <1>4 DEF Recycle, Goto, TypeOK, FitsPlace
  <2>2. CASE /\ fib' = [fib EXCEPT ![f] = Reset(fib[f], None)]
             /\ UNCHANGED cbFiber
    <3> HIDE DEF f
    <3>1. /\ fib'[f].m_state = "INIT" /\ fib'[f].m_ctx = "entry"
          /\ fib'[f].m_cb = None
          /\ \A g \in Jobs \ {f} : fib'[g] = fib[g]
      BY <1>1, <2>1, <2>2 DEF TypeOK, FiberOf, Reset
    <3>2. Resting(fib'[f])
      BY <3>1 DEF Resting
    <3>3. Rested'
      BY <1>1, <1>2, <3>1, <3>2, RunLocal, RestedKept
    <3> QED
      BY <1>1, <2>1, <2>2, <3>1, <3>3 DEF FitsPlace, f
  <2>3. CASE cbFiber' = [cbFiber EXCEPT ![t] = None] /\ UNCHANGED fib
    <3>1. Rested'
      BY <1>1, <1>2, <2>1, <2>3, RunLocal, RestedIdle
    <3> QED
      BY <1>1, <2>1, <2>3, <3>1 DEF FitsPlace, TypeOK
  <2> QED
    BY <1>4, <2>2, <2>3 DEF Recycle
<1> QED
  BY <1>3, <1>4

\* Shapes is inductive relative to the invariants before it.
LEMMA ShapesNext ==
    ASSUME ~MayMigrate, IInv, Placed, Homes, Shapes, [Next]_vars
    PROVE  Shapes'
<1>1. ASSUME NEW t \in Runners, Run(t)
      PROVE  Shapes'
  <2>1. FitsPlace(t)' /\ Rested'
    BY <1>1, ShapesLoop, ShapesDispatchCb, ShapesSwapIn, ShapesBodySchedule,
       ShapesBodyYield, ShapesBodyEnd, ShapesSwapOut, ShapesBack DEF Run, Body
  <2>2. ASSUME NEW u \in Runners \ {t}
        PROVE  FitsPlace(u)'
    <3>1. \A g \in Jobs : Holds(u, g) => ~Holds(t, g)
      BY DEF Homes, OneHolder
    <3>2. FitsPlace(u)
      BY DEF Shapes
    <3> QED
      BY <1>1, <3>1, <3>2, RunLocal, FitsPlaceKept
  <2> QED
    BY <2>1, <2>2 DEF Shapes
<1>2. CASE UNCHANGED <<fib, task, cbFiber, pc, m_tasks>>
  BY <1>2 DEF Shapes, Rested, OnStack, FitsPlace, Current, Job, InCallback, Queued
<1>3. CASE Next /\ ~\E t \in Runners : Run(t)
  <2>1. UNCHANGED <<fib, task, cbFiber>>
    BY <1>3, OtherSteps
  <2>2. \A u \in Runners : \/ pc'[u] = pc[u]
                           \/ pc[u] \in {"off", "done"} /\ pc'[u] \in {"off", "enter"}
    BY <1>3, OtherPlaces
  <2>3. Rested'
    <3>1. \A g \in Jobs : OnStack(g)' = OnStack(g)
      BY <2>1, <2>2 DEF OnStack, Current
    <3> QED
      BY <2>1, <3>1 DEF Shapes, Rested
  <2>4. ASSUME NEW u \in Runners
        PROVE  FitsPlace(u)'
    <3>1. FitsPlace(u)
      BY DEF Shapes
    <3>2. CASE pc'[u] = pc[u]
      BY <2>1, <3>1, <3>2, FitsPlaceKept
    <3>3. CASE pc[u] \in {"off", "done"} /\ pc'[u] \in {"off", "enter"}
      BY <2>1, <3>1, <3>3 DEF FitsPlace, InCallback
    <3> QED
      BY <2>2, <3>2, <3>3
  <2> QED
    BY <2>3, <2>4 DEF Shapes
<1> QED
  BY <1>1, <1>2, <1>3 DEF vars, localVars

\* All fibers are new and no thread is in run().
LEMMA ShapesInit == Init => Placed /\ Shapes
<1> SUFFICES ASSUME Init PROVE Placed /\ Shapes
  OBVIOUS
<1>1. /\ pc = [t \in Runners |-> "off"] /\ cbFiber = [t \in Runners |-> None]
      /\ fib = [j \in Jobs |-> NewFiber(j)] /\ life = [t \in Threads |-> "none"]
      /\ task = [t \in Runners |-> NoTask]
  BY DEF Init, ThreadInit
<1> QED
  BY <1>1, FiberForTypes DEF Shapes, Rested, FitsPlace, Resting, NewFiber, InCallback, Placed, Runners

\* The invariants up to here hold in every reachable state.
LEMMA FiberInvariance ==
    ASSUME ~MayMigrate
    PROVE  Spec => [](IInv /\ Placed /\ Homes /\ Shapes)
<1>1. Init => IInv /\ Placed /\ Homes /\ Shapes
  BY InitInvariant, HomesInit, ShapesInit
<1>2. IInv /\ Placed /\ Homes /\ Shapes /\ [Next]_vars =>
        IInv' /\ Placed' /\ Homes' /\ Shapes'
  BY NextInvariant, PlacedNext, HomesNext, ShapesNext
<1> QED
  BY <1>1, <1>2, PTL DEF Spec

\* Fiber::reset, which clears a callback or installs the next, is never applied
\* to a fiber that a thread is on.
THEOREM ResetNeverOnStack == ASSUME ~MayMigrate PROVE Spec => ResetSafe
<1> DEFINE Safe(f) == (fib'[f].m_ctx = "entry" /\ fib[f] # fib'[f]
                          /\ fib'[f].m_state = "INIT") => OnStack(f) = {}
<1>1. ASSUME IInv, Placed, Homes, Shapes, [Next]_vars, NEW f \in Jobs
      PROVE  Safe(f)
  <2>1. ASSUME NEW t \in Runners, DispatchCb(t) \/ Recycle(t)
        PROVE  Safe(f)
    <3>1. Run(t) /\ pc[t] \notin {"body", "yield", "end"}
      BY <2>1 DEF Run, DispatchCb, Recycle
    <3> QED
      BY <1>1, <3>1, RunLocal, NobodyOn
  <2>2. ASSUME NEW t \in Runners,
               \/ SwapIn(t) \/ BodyYield(t) \/ BodyReturn(t) \/ BodyThrow(t) \/ SwapOut(t)
        PROVE  Safe(f)
    <3>1. fib \in [Jobs -> FiberOf(Jobs)]
      BY <1>1 DEF IInv, TypeOK
    <3>2. \/ fib'[f] = fib[f]
          \/ fib'[f] \in {Entered(fib[f]), YieldMarked(fib[f]), Returned(fib[f]),
                          Threw(fib[f]), SwappedOut(fib[f], "yielded"),
                          SwappedOut(fib[f], "ended")}
      BY <2>2, <3>1 DEF SwapIn, BodyYield, BodyReturn, BodyThrow, SwapOut
    <3> QED
      BY <3>1, <3>2 DEF FiberOf, Entered, YieldMarked, Returned, Threw, SwappedOut
  <2>3. CASE UNCHANGED fib
    BY <2>3
  <2>4. CASE \E t \in Runners : Run(t)
    BY <2>1, <2>2, <2>3, <2>4 DEF Run, Body, RunEnter, Take, TakeNone, IdleStep,
       DispatchFiber, DispatchEnded, BodySchedule, BodyRequeue, Back
  <2> QED
    BY <1>1, <2>3, <2>4, OtherSteps DEF vars
<1>2. IInv /\ Placed /\ Homes /\ Shapes /\ [Next]_vars => [\A f \in Jobs : Safe(f)]_vars
  BY <1>1
<1> QED
  BY <1>2, FiberInvariance, PTL DEF Spec, ResetSafe

-----------------------------------------------------------------------------
\* Tracking

\* A fiber that is in the hands of a thread, or in the queue, is live.
LEMMA LiveMeans ==
    ASSUME IInv, NEW f \in Jobs
    PROVE  /\ \A t \in Runners : task[t].fiber = f => Holds(t, f)
           /\ \A t \in Runners : cbFiber[t] = f => Holds(t, f)
           /\ \A i \in 1..Len(m_tasks) : m_tasks[i].fiber = f => Queued(f)
           /\ \A t \in Runners : pc[t] \in BusyPC \ {"dispatch"} =>
                Current(t) \in Jobs /\ Live(Current(t))
<1>1. f # None
  BY NoneNotJob
<1>2. ASSUME NEW t \in Runners, pc[t] \in BusyPC \ {"dispatch"}
      PROVE  Current(t) \in Jobs /\ Live(Current(t))
  BY <1>2 DEF IInv, HasFiber, Current, Live
<1> QED
  BY <1>1, <1>2 DEF Holds, FiberFor, Queued

\* A callback that is pending is in the hands of a thread, or in the queue.
LEMMA PendingMeans ==
    ASSUME IInv, NEW j \in Jobs
    PROVE  /\ \A t \in Runners : task[t].cb = j => Holds(t, j)
           /\ \A i \in 1..Len(m_tasks) : m_tasks[i].cb = j => Queued(j)
<1>1. j # None
  BY NoneNotJob
<1>2. ASSUME NEW t \in Runners, task[t].cb = j
      PROVE  Holds(t, j)
  <2>1. task[t] \in Task
    BY <1>1, <1>2, FiberForTypes DEF IInv, TypeOK
  <2> QED
    BY <1>1, <1>2, <2>1, FiberForTypes DEF Holds
<1>3. ASSUME NEW i \in 1..Len(m_tasks), m_tasks[i].cb = j
      PROVE  Queued(j)
  <2>1. m_tasks[i] \in Task
    BY DEF IInv, TypeOK
  <2> QED
    BY <1>1, <1>3, <2>1, FiberForTypes DEF Queued
<1> QED
  BY <1>2, <1>3

\* A live fiber was scheduled.
LEMMA LiveSubmitted ==
    ASSUME IInv, Homes, NEW f \in Jobs, Live(f)
    PROVE  f \in submitted
BY LiveMeans DEF Live, Homes, Scheduled

\* Tracking survives a step that makes no fiber live, no job pending, and
\* changes no fiber's job but to forget it, nor whether it is new or has ended.
LEMMA TrackingShrinks ==
    ASSUME IInv, Homes, Tracking, UNCHANGED <<runs, ended, submitted>>,
           \A j \in Jobs : Pending(j)' => Pending(j),
           \A f \in Jobs : Live(f)' => Live(f),
           \A f \in Jobs : fib'[f] = fib[f] \/
                /\ f \in submitted
                /\ \/ fib'[f].m_cb = None
                   \/ /\ fib'[f].m_cb = fib[f].m_cb
                      /\ fib'[f].m_state = "INIT" <=> fib[f].m_state = "INIT"
                      /\ Ended(fib'[f]) <=> Ended(fib[f])
    PROVE  Tracking'
<1>1. OneFiber'
  BY DEF Tracking, OneFiber
<1>2. JobOfFiber'
  BY NoneNotJob DEF Tracking, JobOfFiber
<1>3. PendingFresh'
  BY NoneNotJob DEF Tracking, PendingFresh
<1>4. NewFresh'
  BY SchedulerAssumption DEF Tracking, NewFresh, Jobs
<1> QED
  BY <1>1, <1>2, <1>3, <1>4 DEF Tracking

\* A job scheduled for the first time is pending, or in a fiber of its own.
LEMMA TrackingSubmitted ==
    ASSUME IInv, Homes, Tracking, NEW j \in Jobs \ submitted,
           NEW pin \in Runners \cup {NoTid},
           m_tasks' = Append(m_tasks, JobTask(j, pin)),
           UNCHANGED <<fib, task, cbFiber, runs, ended>>,
           submitted' = submitted \cup {j}
    PROVE  Tracking'
<1> DEFINE tk == JobTask(j, pin)
<1>1. tk \in Task /\ tk.fiber \in {j, None} /\ tk.cb \in {j, None}
      /\ (tk.fiber = j => j \in FiberJobs /\ tk.cb = None)
  BY TaskTypes, NoneNotJob DEF JobTask, FiberTask, CbTask
<1> HIDE DEF tk
<1>2. /\ \A k \in 1..Len(m_tasks) : m_tasks'[k] = m_tasks[k]
      /\ m_tasks'[Len(m_tasks')] = tk
      /\ \A k \in 1..Len(m_tasks') : k \in 1..Len(m_tasks) \/ k = Len(m_tasks')
  BY <1>1, AppendedQueue DEF IInv, TypeOK, tk
<1>3. \A f \in Jobs : Live(f)' => Live(f) \/ (f = j /\ tk.fiber = j)
  BY <1>1, <1>2, NoneNotJob DEF Live
<1>4. \A k \in Jobs : Pending(k)' => Pending(k) \/ (k = j /\ tk.fiber # j)
  BY <1>1, <1>2, NoneNotJob DEF Pending
<1>5. \A f \in Jobs : Live(f) => fib[f].m_cb # j
  BY DEF Tracking, JobOfFiber
<1>6. ~Pending(j)
  <2>1. \A i \in 1..Len(m_tasks) : m_tasks[i].cb # j
    BY PendingMeans DEF Homes, Scheduled
  <2>2. \A t \in Runners : task[t].cb # j
    BY PendingMeans DEF Homes, Scheduled
  <2> QED
    BY <2>1, <2>2 DEF Pending
<1>7. runs[j] = 0 /\ j \notin ended /\ (tk.fiber = j => fib[j] = NewFiber(j))
  BY <1>1 DEF Tracking, NewFresh
<1>8. tk.fiber = j => /\ fib[j].m_cb = j /\ fib[j].m_state = "INIT"
                      /\ ~Ended(fib[j])
  BY <1>7 DEF NewFiber, Ended
<1>9. OneFiber'
  BY <1>3, <1>5, <1>8 DEF Tracking, OneFiber
<1>10. JobOfFiber'
  BY <1>3, <1>7, <1>8 DEF Tracking, JobOfFiber
<1>11. PendingFresh'
  <2> SUFFICES ASSUME NEW k \in Jobs, Pending(k)'
               PROVE  /\ runs[k] = 0 /\ k \notin ended
                      /\ \A f \in Jobs : Live(f)' => fib[f].m_cb # k
    BY DEF PendingFresh
  <2>1. CASE Pending(k)
    BY <1>3, <1>6, <1>8, <2>1 DEF Tracking, PendingFresh
  <2>2. CASE k = j /\ tk.fiber # j
    BY <1>3, <1>5, <1>7, <2>2
  <2> QED
    BY <1>4, <2>1, <2>2
<1>12. NewFresh'
  BY DEF Tracking, NewFresh
<1> QED
  BY <1>9, <1>10, <1>11, <1>12 DEF Tracking

\* A pending job gets a fiber nobody else has and is pending no more.
LEMMA TrackingDispatchCb ==
    ASSUME IInv, Homes, Shapes, Tracking, NEW t \in Runners, DispatchCb(t)
    PROVE  /\ Tracking'
           /\ Job(t)' = task[t].cb
           /\ \A g \in Jobs : Live(g) => fib'[g].m_cb = fib[g].m_cb \/ fib[g].m_cb = None
<1>0. PICK f : f = IF cbFiber[t] # None THEN cbFiber[t] ELSE task[t].cb
  OBVIOUS
<1>1. TypeOK /\ FitsPlace(t)
  BY DEF IInv, Shapes
<1>2. task[t] \in Task /\ task[t].fiber = None /\ pc[t] = "dispatch"
  BY DEF IInv, HasFiber, DispatchCb
<1>3. PICK j \in Jobs : j = task[t].cb /\ j # None
  BY <1>2, FiberForTypes, NoneNotJob
<1>4. f \in Jobs /\ Holds(t, f) /\ Holds(t, j)
  BY <1>0, <1>1, <1>2, <1>3, FiberForTypes DEF TypeOK, Holds
<1>5. /\ fib' = [fib EXCEPT ![f] = IF cbFiber[t] # None THEN Reset(fib[f], j)
                                                        ELSE NewFiber(j)]
      /\ cbFiber' = [cbFiber EXCEPT ![t] = f]
      /\ task' = [task EXCEPT ![t] = NoTask]
      /\ UNCHANGED <<m_tasks, submitted, runs, ended>>
  BY <1>0, <1>2, <1>3, FiberFacts DEF DispatchCb, jobVars
<1>6. /\ fib'[f].m_state = "INIT" /\ fib'[f].m_cb = j /\ ~Ended(fib'[f])
      /\ \A g \in Jobs \ {f} : fib'[g] = fib[g]
  BY <1>1, <1>4, <1>5 DEF TypeOK, FiberOf, Reset, NewFiber, Ended
<1>7. /\ task'[t] = NoTask /\ \A u \in Runners \ {t} : task'[u] = task[u]
      /\ cbFiber'[t] = f /\ \A u \in Runners \ {t} : cbFiber'[u] = cbFiber[u]
  BY <1>1, <1>5 DEF TypeOK
<1>8. \A g \in Jobs : Live(g)' => Live(g) \/ g = f
  BY <1>5, <1>7, FiberForTypes, NoneNotJob DEF Live
<1>9. Live(f) => fib[f].m_cb = None
  <2>1. CASE cbFiber[t] # None
    BY <1>0, <1>1, <1>2, <2>1 DEF FitsPlace, InCallback
  <2>2. CASE cbFiber[t] = None
    <3>1. f = j /\ ~Queued(j)
      BY <1>0, <1>3, <2>2 DEF Homes, PendingApart
    <3>2. \A u \in Runners : Holds(u, j) => u = t
      BY <1>4 DEF Homes, OneHolder
    <3> QED
      BY <1>2, <1>3, <2>2, <3>1, <3>2, LiveMeans DEF Live
  <2> QED
    BY <2>1, <2>2
<1>10. Pending(j) /\ ~Pending(j)' /\ \A k \in Jobs : Pending(k)' => Pending(k)
  <2>1. Pending(j)
    BY <1>3 DEF Pending
  <2>2. \A u \in Runners \ {t} : task[u].cb # j
    BY <1>3, <1>4, PendingMeans DEF Homes, OneHolder
  <2>3. \A i \in 1..Len(m_tasks) : m_tasks[i].cb # j
    BY <1>3, PendingMeans DEF Homes, PendingApart
  <2>4. ~Pending(j)'
    BY <1>3, <1>5, <1>7, <2>2, <2>3, FiberForTypes DEF Pending
  <2>5. \A k \in Jobs : Pending(k)' => Pending(k)
    BY <1>5, <1>7, FiberForTypes, NoneNotJob DEF Pending
  <2> QED
    BY <2>1, <2>4, <2>5
<1>11. runs[j] = 0 /\ j \notin ended /\ \A g \in Jobs : Live(g) => fib[g].m_cb # j
  BY <1>10 DEF Tracking, PendingFresh
<1>12. j \in submitted /\ f \in submitted
  BY <1>4 DEF Homes, Scheduled
<1>13. OneFiber'
  BY <1>6, <1>8, <1>11 DEF Tracking, OneFiber
<1>14. JobOfFiber'
  BY <1>5, <1>6, <1>8, <1>11, <1>12 DEF Tracking, JobOfFiber
<1>15. PendingFresh'
  BY <1>5, <1>6, <1>8, <1>10 DEF Tracking, PendingFresh
<1>16. NewFresh'
  BY <1>5, <1>6, <1>12 DEF Tracking, NewFresh
<1>17. Job(t)' = task[t].cb
  BY <1>3, <1>6, <1>7, FiberForTypes DEF Job, Current
<1> QED
  BY <1>6, <1>9, <1>13, <1>14, <1>15, <1>16, <1>17 DEF Tracking

\* A job is entered at its beginning only from a new fiber, which it then has
\* to itself.
LEMMA TrackingSwapIn ==
    ASSUME IInv, Homes, Shapes, Tracking, RunsOnce, NEW t \in Runners, SwapIn(t)
    PROVE  /\ Tracking' /\ RunsOnce'
           /\ \A g \in Jobs : fib'[g].m_cb = fib[g].m_cb
<1>0. PICK f \in Jobs : f = Current(t) /\ Holds(t, f) /\ Live(f)
  BY HoldsCurrent, LiveMeans DEF SwapIn, BusyPC
<1>1. TypeOK /\ FitsPlace(t) /\ pc[t] = "swapIn" /\ UNCHANGED <<task, cbFiber, m_tasks>>
  BY DEF IInv, Shapes, SwapIn, localVars
<1>2. /\ fib' = [fib EXCEPT ![f] = Entered(fib[f])]
      /\ runs' = IF fib[f].m_ctx = "entry" /\ fib[f].m_cb \in Jobs
                 THEN [runs EXCEPT ![fib[f].m_cb] = runs[fib[f].m_cb] + 1] ELSE runs
      /\ UNCHANGED <<submitted, ended>>
  BY <1>0, <1>1, FiberFacts DEF SwapIn, Job
<1>3. /\ fib'[f].m_state = "EXEC" /\ fib'[f].m_cb = fib[f].m_cb
      /\ \A g \in Jobs \ {f} : fib'[g] = fib[g]
  BY <1>1, <1>2 DEF TypeOK, FiberOf, Entered
<1>4. /\ ~Ended(fib[f]) /\ ~Ended(fib'[f])
      /\ fib[f].m_ctx = "entry" <=> fib[f].m_state = "INIT"
  <2>1. Resting(fib[f]) /\ ~Ended(fib[f])
    BY <1>0, <1>1, NobodyOn DEF Shapes, Rested, FitsPlace
  <2> QED
    BY <1>3, <2>1 DEF Resting, Ended
<1>5. (\A g \in Jobs : Live(g)' <=> Live(g)) /\ (\A k \in Jobs : Pending(k)' <=> Pending(k))
  BY <1>1 DEF Live, Pending
<1>6. fib[f].m_cb \in Jobs \cup {None} /\ runs \in [Jobs -> Nat]
  BY <1>1 DEF TypeOK, FiberOf
<1>7. /\ \A k \in Jobs : k # fib[f].m_cb => runs'[k] = runs[k]
      /\ fib[f].m_cb \in Jobs => runs'[fib[f].m_cb] = 1
  BY <1>0, <1>2, <1>4, <1>6 DEF Tracking, JobOfFiber
<1>8. f \in submitted /\ (fib[f].m_cb \in Jobs => fib[f].m_cb \in submitted)
  BY <1>0, LiveSubmitted DEF Tracking, JobOfFiber
<1>9. OneFiber'
  BY <1>3, <1>5 DEF Tracking, OneFiber
<1>10. JobOfFiber'
  <2> SUFFICES ASSUME NEW g \in Jobs, NEW k \in Jobs, Live(g), fib'[g].m_cb = k
               PROVE  /\ k \in submitted
                      /\ runs'[k] = IF fib'[g].m_state = "INIT" THEN 0 ELSE 1
                      /\ k \in ended <=> Ended(fib'[g])
    BY <1>2, <1>5 DEF JobOfFiber
  <2>1. CASE g = f
    BY <1>0, <1>3, <1>4, <1>7, <2>1 DEF Tracking, JobOfFiber
  <2>2. CASE g # f
    <3>1. fib[f].m_cb # k
      BY <1>0, <1>3, <2>2, NoneNotJob DEF Tracking, OneFiber
    <3> QED
      BY <1>3, <1>7, <2>2, <3>1 DEF Tracking, JobOfFiber
  <2> QED
    BY <2>1, <2>2
<1>11. PendingFresh'
  <2> SUFFICES ASSUME NEW k \in Jobs, Pending(k)
               PROVE  /\ runs'[k] = 0 /\ k \notin ended
                      /\ \A g \in Jobs : Live(g) => fib'[g].m_cb # k
    BY <1>2, <1>5 DEF PendingFresh
  <2> QED
    BY <1>0, <1>3, <1>7 DEF Tracking, PendingFresh
<1>12. NewFresh'
  BY <1>2, <1>3, <1>7, <1>8 DEF Tracking, NewFresh
<1>13. RunsOnce'
  BY <1>6, <1>7 DEF RunsOnce
<1> QED
  BY <1>3, <1>9, <1>10, <1>11, <1>12, <1>13 DEF Tracking

\* A job that is over is so in its fiber and in no other.
LEMMA TrackingBodyEnd ==
    ASSUME IInv, Homes, Shapes, Tracking, NEW t \in Runners,
           BodyReturn(t) \/ BodyThrow(t)
    PROVE  /\ Tracking'
           /\ \A g, j \in Jobs : fib[g].m_cb = j /\ j \notin ended' /\ Live(g) =>
                fib'[g].m_cb = j
<1>0. PICK f \in Jobs : f = Current(t) /\ Holds(t, f) /\ Live(f)
  BY HoldsCurrent, LiveMeans DEF BodyReturn, BodyThrow, BusyPC
<1>1. /\ TypeOK /\ FitsPlace(t) /\ pc[t] = "body"
      /\ UNCHANGED <<task, cbFiber, m_tasks, submitted, runs>>
  BY DEF IInv, Shapes, BodyReturn, BodyThrow, localVars
<1>2. /\ \/ fib' = [fib EXCEPT ![f] = Returned(fib[f])]
         \/ fib' = [fib EXCEPT ![f] = Threw(fib[f])]
      /\ ended' = ended \cup ({fib[f].m_cb} \ {None})
  BY <1>0 DEF BodyReturn, BodyThrow, Job
<1>3. /\ fib'[f].m_state \in {"TERM", "EXCEPT"}
      /\ fib'[f].m_cb = None \/ fib'[f].m_cb = fib[f].m_cb
      /\ \A g \in Jobs \ {f} : fib'[g] = fib[g]
  <2>1. fib \in [Jobs -> FiberOf(Jobs)]
    BY <1>1 DEF TypeOK
  <2>2. CASE fib' = [fib EXCEPT ![f] = Returned(fib[f])]
    BY <2>1, <2>2 DEF FiberOf, Returned
  <2>3. CASE fib' = [fib EXCEPT ![f] = Threw(fib[f])]
    BY <2>1, <2>3 DEF FiberOf, Threw
  <2> QED
    BY <1>2, <2>2, <2>3
<1>4. fib[f].m_state = "EXEC" /\ Ended(fib'[f]) /\ fib'[f].m_state # "INIT"
  BY <1>0, <1>1, <1>3 DEF FitsPlace, Ended
<1>5. (\A g \in Jobs : Live(g)' <=> Live(g)) /\ (\A k \in Jobs : Pending(k)' <=> Pending(k))
  BY <1>1 DEF Live, Pending
<1>6. \A g \in Jobs : Live(g) /\ fib[g].m_cb = fib[f].m_cb /\ fib[f].m_cb # None => g = f
  BY <1>0 DEF Tracking, OneFiber
<1>7. \A k \in Jobs : k \in ended' <=> k \in ended \/ k = fib[f].m_cb
  BY <1>2, NoneNotJob
<1>8. f \in submitted /\ (fib[f].m_cb \in Jobs => fib[f].m_cb \in submitted)
  BY <1>0, LiveSubmitted DEF Tracking, JobOfFiber
<1>9. OneFiber'
  BY <1>3, <1>5 DEF Tracking, OneFiber
<1>10. JobOfFiber'
  <2> SUFFICES ASSUME NEW g \in Jobs, NEW k \in Jobs, Live(g), fib'[g].m_cb = k
               PROVE  /\ k \in submitted
                      /\ runs[k] = IF fib'[g].m_state = "INIT" THEN 0 ELSE 1
                      /\ k \in ended' <=> Ended(fib'[g])
    BY <1>1, <1>5 DEF JobOfFiber
  <2>1. CASE g = f
    <3>1. fib[f].m_cb = k
      BY <1>3, <2>1, NoneNotJob
    <3>2. runs[k] = 1
      BY <1>0, <1>4, <3>1 DEF Tracking, JobOfFiber
    <3> QED
      BY <1>4, <1>7, <1>8, <2>1, <3>1, <3>2
  <2>2. CASE g # f
    <3>1. fib[g].m_cb = k /\ fib[f].m_cb # k
      BY <1>3, <1>6, <2>2, NoneNotJob
    <3> QED
      BY <1>3, <1>7, <2>2, <3>1 DEF Tracking, JobOfFiber
  <2> QED
    BY <2>1, <2>2
<1>11. PendingFresh'
  <2> SUFFICES ASSUME NEW k \in Jobs, Pending(k)
               PROVE  /\ runs[k] = 0 /\ k \notin ended'
                      /\ \A g \in Jobs : Live(g) => fib'[g].m_cb # k
    BY <1>1, <1>5 DEF PendingFresh
  <2> QED
    BY <1>0, <1>3, <1>7, NoneNotJob DEF Tracking, PendingFresh
<1>12. NewFresh'
  BY <1>1, <1>3, <1>7, <1>8 DEF Tracking, NewFresh
<1> QED
  BY <1>3, <1>7, <1>9, <1>10, <1>11, <1>12 DEF Tracking

\* The other steps of run() forget fibers, or change neither whose job they run
\* nor how far it is.
LEMMA TrackingOther ==
    ASSUME IInv, Homes, Shapes, Tracking, NEW t \in Runners,
           \/ RunEnter(t) \/ Take(t) \/ TakeNone(t) \/ IdleStep(t)
           \/ DispatchFiber(t) \/ DispatchEnded(t)
           \/ \E pin \in {NoTid, t} : BodyRequeue(t, pin)
           \/ BodyYield(t) \/ SwapOut(t) \/ Back(t) \/ Recycle(t)
    PROVE  /\ Tracking'
           /\ UNCHANGED <<runs, submitted, ended>>
           /\ \A g, j \in Jobs : fib[g].m_cb = j /\ j \notin ended /\ Live(g) =>
                fib'[g].m_cb = j
<1>1. TypeOK /\ FitsPlace(t)
  BY DEF IInv, Shapes
<1>2. UNCHANGED <<runs, submitted, ended>>
  BY DEF RunEnter, Take, TakeNone, IdleStep, DispatchFiber, DispatchEnded, BodyRequeue,
     BodyYield, SwapOut, Back, Recycle, jobVars
<1>3. /\ \A f \in Jobs : Live(f)' => Live(f)
      /\ \A j \in Jobs : Pending(j)' => Pending(j)
  <2>1. CASE Take(t)
    <3>1. PICK i \in 1..Len(m_tasks) : /\ task' = [task EXCEPT ![t] = m_tasks[i]]
                                       /\ m_tasks' = Without(m_tasks, i)
      BY <2>1 DEF Take
    <3>2. \A k \in 1..Len(m_tasks') : \E n \in 1..Len(m_tasks) : m_tasks'[k] = m_tasks[n]
      <4>1. m_tasks \in Seq(Task)
        BY <1>1 DEF TypeOK
      <4> QED
        BY <3>1, <4>1, TakenFrom
    <3>3. task'[t] = m_tasks[i] /\ \A u \in Runners \ {t} : task'[u] = task[u]
      BY <1>1, <3>1 DEF TypeOK
    <3>4. UNCHANGED cbFiber
      BY <2>1 DEF Take
    <3> QED
      BY <3>2, <3>3, <3>4 DEF Live, Pending
  <2>2. CASE \E pin \in {NoTid, t} : BodyRequeue(t, pin)
    <3>1. PICK pin \in {NoTid, t} : BodyRequeue(t, pin)
      BY <2>2
    <3>2. Current(t) \in Jobs /\ Live(Current(t))
      BY <3>1, LiveMeans DEF BodyRequeue, BusyPC
    <3>3. FiberTask(Current(t), pin) \in Task
      BY <3>2, TaskTypes DEF Runners
    <3>4. /\ m_tasks' = Append(m_tasks, FiberTask(Current(t), pin))
          /\ UNCHANGED <<task, cbFiber>>
      BY <3>1 DEF BodyRequeue, Schedule, localVars
    <3>5. /\ \A k \in 1..Len(m_tasks) : m_tasks'[k] = m_tasks[k]
          /\ m_tasks'[Len(m_tasks')] = FiberTask(Current(t), pin)
          /\ \A k \in 1..Len(m_tasks') : k \in 1..Len(m_tasks) \/ k = Len(m_tasks')
      BY <1>1, <3>3, <3>4, AppendedQueue DEF TypeOK
    <3> QED
      BY <3>2, <3>4, <3>5, NoneNotJob DEF Live, Pending, FiberTask
  <2>3. ASSUME UNCHANGED m_tasks,
               \A u \in Runners : /\ task'[u] \in {task[u], NoTask}
                                  /\ cbFiber'[u] \in {cbFiber[u], None}
        PROVE  /\ \A f \in Jobs : Live(f)' => Live(f)
               /\ \A j \in Jobs : Pending(j)' => Pending(j)
    BY <2>3, FiberForTypes, NoneNotJob DEF Live, Pending
  <2>4. CASE RunEnter(t) \/ DispatchEnded(t) \/ Back(t)
    BY <1>1, <2>3, <2>4 DEF TypeOK, RunEnter, DispatchEnded, Back
  <2>5. CASE Recycle(t)
    BY <1>1, <2>3, <2>5 DEF TypeOK, Recycle
  <2>6. CASE \/ TakeNone(t) \/ IdleStep(t) \/ DispatchFiber(t)
             \/ BodyYield(t) \/ SwapOut(t)
    <3>1. UNCHANGED <<m_tasks, task, cbFiber>>
      BY <2>6 DEF TakeNone, IdleStep, DispatchFiber, BodyYield, SwapOut, localVars
    <3> QED
      BY <2>3, <3>1
  <2> QED
    BY <2>1, <2>2, <2>4, <2>5, <2>6
<1>4. \A f \in Jobs : fib'[f] = fib[f] \/
        /\ f \in submitted
        /\ \/ fib'[f].m_cb = None /\ Ended(fib[f])
           \/ /\ fib'[f].m_cb = fib[f].m_cb
              /\ fib'[f].m_state = "INIT" <=> fib[f].m_state = "INIT"
              /\ Ended(fib'[f]) <=> Ended(fib[f])
  <2>1. CASE BodyYield(t) \/ SwapOut(t)
    <3>1. PICK f \in Jobs : f = Current(t) /\ Holds(t, f)
      BY <2>1, HoldsCurrent DEF BodyYield, SwapOut, BusyPC
    <3>2. f \in submitted
      BY <3>1 DEF Homes, Scheduled
    <3>3. CASE fib' = [fib EXCEPT ![f] = YieldMarked(fib[f])] /\ fib[f].m_state = "EXEC"
      BY <1>1, <3>2, <3>3 DEF TypeOK, FiberOf, YieldMarked, Ended
    <3>4. CASE \E p : fib' = [fib EXCEPT ![f] = SwappedOut(fib[f], p)]
      BY <1>1, <3>2, <3>4 DEF TypeOK, FiberOf, SwappedOut, Ended
    <3> QED
      BY <2>1, <3>1, <3>3, <3>4 DEF BodyYield, SwapOut
  <2>2. CASE Recycle(t)
    <3>1. PICK f \in Jobs : f = cbFiber[t] /\ Holds(t, f)
      BY <1>1, <2>2 DEF Recycle, FitsPlace, TypeOK, Holds
    <3>2. f \in submitted
      BY <3>1 DEF Homes, Scheduled
    <3>3. CASE fib' = [fib EXCEPT ![f] = Reset(fib[f], None)] /\ Ended(fib[f])
      BY <1>1, <3>2, <3>3 DEF TypeOK, FiberOf, Reset
    <3> QED
      BY <2>2, <3>1, <3>3 DEF Recycle
  <2>3. CASE UNCHANGED fib
    BY <2>3
  <2> QED
    BY <2>1, <2>2, <2>3 DEF RunEnter, Take, TakeNone, IdleStep, DispatchFiber,
       DispatchEnded, BodyRequeue, Back
<1>5. Tracking'
  BY <1>2, <1>3, <1>4, TrackingShrinks
<1>6. ASSUME NEW g \in Jobs, NEW j \in Jobs, fib[g].m_cb = j, j \notin ended, Live(g)
      PROVE  fib'[g].m_cb = j
  <2>1. ~Ended(fib[g])
    BY <1>6 DEF Tracking, JobOfFiber
  <2> QED
    BY <1>4, <1>6, <2>1
<1> QED
  BY <1>2, <1>5, <1>6

\* A step of run() keeps Tracking, enters no job twice, and leaves a job that is
\* not over in the live fiber it is in.
LEMMA TrackingRun ==
    ASSUME IInv, Homes, Shapes, Tracking, RunsOnce, NEW t \in Runners, Run(t)
    PROVE  /\ Tracking' /\ RunsOnce'
           /\ ended \subseteq ended'
           /\ \A g, j \in Jobs : fib[g].m_cb = j /\ j \notin ended' /\ Live(g) =>
                fib'[g].m_cb = j
<1>1. CASE DispatchCb(t)
  <2>1. UNCHANGED <<runs, ended>>
    BY <1>1 DEF DispatchCb, jobVars
  <2> QED
    BY <1>1, <2>1, TrackingDispatchCb, NoneNotJob DEF RunsOnce
<1>2. CASE SwapIn(t)
  <2>1. UNCHANGED ended
    BY <1>2 DEF SwapIn
  <2> QED
    BY <1>2, <2>1, TrackingSwapIn
<1>3. CASE \E pin \in {NoTid, t} : \E j \in Jobs : BodySchedule(t, j, pin)
  <2>1. PICK pin \in {NoTid, t}, j \in Jobs : BodySchedule(t, j, pin)
    BY <1>3
  <2>2. /\ j \notin submitted /\ m_tasks' = Append(m_tasks, JobTask(j, pin))
        /\ UNCHANGED <<fib, task, cbFiber, runs, ended>>
        /\ submitted' = submitted \cup {j}
    BY <2>1 DEF BodySchedule, Schedule, localVars
  <2> QED
    BY <2>2, TrackingSubmitted DEF RunsOnce
<1>4. CASE BodyReturn(t) \/ BodyThrow(t)
  <2>1. UNCHANGED runs /\ ended \subseteq ended'
    BY <1>4 DEF BodyReturn, BodyThrow
  <2> QED
    BY <1>4, <2>1, TrackingBodyEnd DEF RunsOnce
<1>5. CASE \/ RunEnter(t) \/ Take(t) \/ TakeNone(t) \/ IdleStep(t)
           \/ DispatchFiber(t) \/ DispatchEnded(t)
           \/ \E pin \in {NoTid, t} : BodyRequeue(t, pin)
           \/ BodyYield(t) \/ SwapOut(t) \/ Back(t) \/ Recycle(t)
  BY <1>5, TrackingOther DEF RunsOnce
<1> QED
  BY <1>1, <1>2, <1>3, <1>4, <1>5 DEF Run, Body

\* Tracking and RunsOnce are inductive relative to the invariants before them.
LEMMA TrackingNext ==
    ASSUME IInv, Homes, Shapes, Tracking, RunsOnce, [Next]_vars
    PROVE  Tracking' /\ RunsOnce'
<1>1. CASE \E t \in Runners : Run(t)
  BY <1>1, TrackingRun
<1>2. CASE UNCHANGED <<fib, task, cbFiber, ended, runs, m_tasks, submitted>>
  BY <1>2, TrackingShrinks DEF Live, Pending, RunsOnce
<1>3. CASE Next /\ ~\E t \in Runners : Run(t)
  <2>1. UNCHANGED <<fib, task, cbFiber, ended, runs>>
    BY <1>3, OtherSteps
  <2>2. CASE UNCHANGED <<m_tasks, submitted>>
    BY <1>2, <2>1, <2>2
  <2>3. CASE \E j \in Jobs \ submitted, pin \in Runners \cup {NoTid} :
                /\ m_tasks' = Append(m_tasks, JobTask(j, pin))
                /\ submitted' = submitted \cup {j}
    BY <2>1, <2>3, TrackingSubmitted DEF RunsOnce
  <2> QED
    BY <1>3, <2>2, <2>3, OtherSteps
<1> QED
  BY <1>1, <1>2, <1>3 DEF vars, localVars, jobVars

\* No fiber is live and no job pending, begun or over.
LEMMA TrackingInit == Init => Tracking /\ RunsOnce
<1> SUFFICES ASSUME Init PROVE Tracking /\ RunsOnce
  OBVIOUS
<1>1. m_tasks = <<>> /\ task = [t \in Runners |-> NoTask]
      /\ cbFiber = [t \in Runners |-> None]
      /\ fib = [j \in Jobs |-> NewFiber(j)] /\ ended = {}
      /\ runs = [j \in Jobs |-> 0]
  BY DEF Init
<1>2. \A f \in Jobs : ~Live(f) /\ ~Pending(f)
  BY <1>1, NoneNotJob, FiberForTypes DEF Live, Pending
<1> QED
  BY <1>1, <1>2 DEF Tracking, OneFiber, JobOfFiber, PendingFresh, NewFresh, RunsOnce, Jobs

-----------------------------------------------------------------------------
\* YieldsQueued and JobsAccounted

\* An entry stays in the queue until it is taken.
LEMMA EntryStays ==
    ASSUME IInv, [Next]_vars, NEW i \in 1..Len(m_tasks)
    PROVE  \/ \E k \in 1..Len(m_tasks') : m_tasks'[k] = m_tasks[i]
           \/ \E t \in Runners :
                /\ Take(t)
                /\ task' = [task EXCEPT ![t] = m_tasks[i]]
                /\ Eligible(t, m_tasks[i])
<1>1. m_tasks \in Seq(Task)
  BY DEF IInv, TypeOK
<1>2. ASSUME NEW tk \in Task, m_tasks' = Append(m_tasks, tk)
      PROVE  \E k \in 1..Len(m_tasks') : m_tasks'[k] = m_tasks[i]
  BY <1>1, <1>2, AppendedQueue
<1>3. CASE UNCHANGED m_tasks
  BY <1>3
<1>4. ASSUME NEW t \in Runners, Run(t)
      PROVE  \/ \E k \in 1..Len(m_tasks') : m_tasks'[k] = m_tasks[i]
             \/ /\ Take(t)
                /\ task' = [task EXCEPT ![t] = m_tasks[i]]
                /\ Eligible(t, m_tasks[i])
  <2>1. CASE Take(t)
    <3>1. PICK n \in 1..Len(m_tasks) : /\ First(t, n)
                                       /\ task' = [task EXCEPT ![t] = m_tasks[n]]
                                       /\ m_tasks' = Without(m_tasks, n)
      BY <2>1 DEF Take
    <3> QED
      BY <1>1, <2>1, <3>1, TakenQueue DEF First
  <2>2. ASSUME NEW j \in Jobs, NEW pin \in {NoTid, t},
               BodySchedule(t, j, pin)
        PROVE  \E k \in 1..Len(m_tasks') : m_tasks'[k] = m_tasks[i]
    BY <1>2, <2>2, TaskTypes DEF BodySchedule, Schedule
  <2>3. ASSUME NEW pin \in {NoTid, t}, BodyRequeue(t, pin)
        PROVE  \E k \in 1..Len(m_tasks') : m_tasks'[k] = m_tasks[i]
    <3>1. Current(t) \in Jobs
      BY <2>3, HoldsCurrent DEF BodyRequeue, BusyPC
    <3> QED
      BY <1>2, <2>3, <3>1, TaskTypes DEF BodyRequeue, Schedule
  <2> QED
    BY <1>3, <1>4, <2>1, <2>2, <2>3 DEF Run, Body, RunEnter, TakeNone, IdleStep,
       DispatchFiber, DispatchEnded, DispatchCb, SwapIn, BodyYield, BodyReturn,
       BodyThrow, SwapOut, Back, Recycle
<1>5. CASE Next /\ ~\E t \in Runners : Run(t)
  BY <1>2, <1>3, <1>5, OtherSteps, TaskTypes
<1> QED
  BY <1>3, <1>4, <1>5 DEF vars

\* A fiber that is in a thread's hands and in the queue can be taken by this
\* thread only, so it stays in the queue whatever the others do.
LEMMA QueuedKept ==
    ASSUME IInv, Homes, [Next]_vars, NEW u \in Runners, NEW g \in Jobs,
           Holds(u, g), Queued(g), ~Take(u)
    PROVE  Queued(g)'
<1>1. PICK i \in 1..Len(m_tasks) : FiberFor(m_tasks[i]) = g
  BY DEF Queued
<1>2. m_tasks[i].thread = u /\ NoTid \notin Runners
  BY <1>1, FiberForTypes DEF Homes, EntryOfHolder
<1> QED
  BY <1>1, <1>2, EntryStays DEF Queued, Eligible

\* YieldsQueued is inductive relative to the invariants before it.
LEMMA YieldsQueuedNext ==
    ASSUME IInv, Placed, Homes, Shapes, YieldsQueued, [Next]_vars
    PROVE  YieldsQueued'
<1> SUFFICES ASSUME NEW u \in Runners,
                    pc'[u] = "yield" \/ (pc'[u] = "back" /\ ~Ended(fib[Current(u)])')
             PROVE  Queued(Current(u))'
  BY DEF YieldsQueued
<1>0. TypeOK /\ FitsPlace(u)
  BY DEF IInv, Shapes
<1>1. ASSUME Current(u)' = Current(u), pc[u] \in BusyPC \ {"dispatch"},
             Queued(Current(u)), ~Take(u)
      PROVE  Queued(Current(u))'
  <2>1. PICK f \in Jobs : f = Current(u) /\ Holds(u, f)
    BY <1>1, HoldsCurrent
  <2>2. Queued(f)'
    BY <1>1, <2>1, QueuedKept
  <2> QED
    BY <1>1, <2>1, <2>2 DEF Queued
<1>2. ASSUME pc'[u] = pc[u], task'[u] = task[u], cbFiber'[u] = cbFiber[u],
             \A g \in Jobs : Holds(u, g) => fib'[g] = fib[g], ~Take(u)
      PROVE  Queued(Current(u))'
  <2>1. Current(u)' = Current(u)
    BY <1>2 DEF Current
  <2>2. pc[u] \in BusyPC \ {"dispatch"}
    BY <1>2 DEF BusyPC
  <2>3. PICK f \in Jobs : f = Current(u) /\ Holds(u, f)
    BY <2>2, HoldsCurrent
  <2>4. pc[u] = "yield" \/ (pc[u] = "back" /\ ~Ended(fib[Current(u)]))
    BY <1>2, <2>1, <2>3
  <2> QED
    BY <1>1, <1>2, <2>1, <2>2, <2>4 DEF YieldsQueued
<1>3. CASE Run(u)
  <2>1. CASE BodyYield(u)
    <3>1. Current(u)' = Current(u) /\ SelfQueued(u) /\ pc[u] = "body"
      BY <2>1 DEF BodyYield, Current, localVars
    <3>2. pc[u] \in BusyPC \ {"dispatch"} /\ ~Take(u)
      BY <3>1 DEF BusyPC, Take
    <3> QED
      BY <1>1, <3>1, <3>2, SelfQueuedMeans
  <2>2. CASE SwapOut(u)
    <3>1. Current(u)' = Current(u) /\ pc[u] \in {"yield", "end"}
      BY <2>2 DEF SwapOut, Current, localVars
    <3>2. pc[u] \in BusyPC \ {"dispatch"} /\ ~Take(u)
      BY <3>1 DEF BusyPC, Take
    <3>3. PICK f \in Jobs : f = Current(u)
      BY <3>2, HoldsCurrent
    <3>4. pc'[u] = "back" /\ \E p : fib' = [fib EXCEPT ![f] = SwappedOut(fib[f], p)]
      BY <1>0, <2>2, <3>3 DEF TypeOK, SwapOut, Goto
    <3>5. fib'[f].m_state = fib[f].m_state
      BY <1>0, <3>4 DEF TypeOK, FiberOf, SwappedOut
    <3>6. pc[u] = "yield"
      BY <1>0, <3>1, <3>3, <3>4, <3>5 DEF FitsPlace, Ended
    <3> QED
      BY <1>1, <3>1, <3>2, <3>6 DEF YieldsQueued
  <2>3. CASE \E pin \in {NoTid, u} :
                \/ \E j \in Jobs : BodySchedule(u, j, pin)
                \/ BodyRequeue(u, pin)
    BY <2>3 DEF BodySchedule, BodyRequeue
  <2> QED
    BY <1>0, <1>3, <2>1, <2>2, <2>3 DEF Run, Body, RunEnter, Take, TakeNone, IdleBranch,
       IdleStep, DispatchFiber, DispatchEnded, DispatchCb, SwapIn, BodyReturn, BodyThrow,
       Back, Recycle, Goto, TypeOK
<1>4. ASSUME NEW t \in Runners, Run(t), t # u, ~Run(u)
      PROVE  Queued(Current(u))'
  <2>1. \A g \in Jobs : Holds(u, g) => fib'[g] = fib[g]
    BY <1>4, RunLocal DEF Homes, OneHolder
  <2> QED
    BY <1>2, <1>4, <2>1, RunLocal DEF Run
<1>5. CASE UNCHANGED <<fib, task, cbFiber, pc>> /\ ~Run(u)
  BY <1>2, <1>5 DEF Run
<1>6. CASE Next /\ ~\E t \in Runners : Run(t)
  <2>1. UNCHANGED <<fib, task, cbFiber>> /\ ~Take(u)
    BY <1>6, OtherSteps DEF Run
  <2>2. pc'[u] = pc[u]
    <3>1. \/ pc'[u] = pc[u]
          \/ pc'[u] \in {"off", "enter"}
      BY <1>6, OtherPlaces
    <3> QED
      BY <3>1
  <2> QED
    BY <1>2, <2>1, <2>2
<1> QED
  BY <1>3, <1>4, <1>5, <1>6 DEF vars, localVars

\* A thread that holds job j: as a callback not dispatched yet, or in its fiber.
LEMMA HeldMeans ==
    ASSUME IInv, Shapes, Tracking, NEW t \in Runners, NEW j \in Jobs, j \notin ended,
           Current(t) # None, Job(t) = j
    PROVE  /\ Current(t) \in Jobs /\ Live(Current(t)) /\ Holds(t, Current(t))
           /\ ~Ended(fib[Current(t)])
<1>1. Current(t) \in Jobs
  <2>1. task[t].fiber \in Jobs \cup {None} /\ cbFiber[t] \in Jobs \cup {None}
    BY FiberForTypes DEF IInv, TypeOK, Task
  <2> QED
    BY <2>1 DEF Current
<1>2. Live(Current(t)) /\ Holds(t, Current(t))
  BY <1>1 DEF Current, Live, Holds, FiberFor
<1> QED
  BY <1>1, <1>2 DEF Tracking, JobOfFiber, Job

\* A job in the queue, or in the hands of a thread whose step is not the one
\* that lets go of it, stays accounted for.
LEMMA AccountedRun ==
    ASSUME IInv, Homes, Shapes, Tracking, RunsOnce, YieldsQueued, JobsAccounted,
           NEW t \in Runners, Run(t), [Next]_vars, NEW j \in submitted, j \notin ended'
    PROVE  \/ \E i \in 1..Len(m_tasks') : Carries(m_tasks[i], j)'
           \/ \E u \in Busy' : task'[u].cb = j \/ (Current(u)' # None /\ Job(u)' = j)
<1>0. TypeOK /\ FitsPlace(t) /\ j \in Jobs /\ j # None
  BY NoneNotJob DEF IInv, Shapes, TypeOK
<1>1. /\ j \notin ended
      /\ \A g \in Jobs : fib[g].m_cb = j /\ Live(g) => fib'[g].m_cb = j
  BY <1>0, TrackingRun
<1>2. ASSUME NEW i \in 1..Len(m_tasks), Carries(m_tasks[i], j)
      PROVE  \/ \E k \in 1..Len(m_tasks') : Carries(m_tasks[k], j)'
             \/ \E u \in Busy' : task'[u].cb = j \/ (Current(u)' # None /\ Job(u)' = j)
  <2>1. m_tasks[i] \in Task
    BY <1>0 DEF TypeOK
  <2>2. m_tasks[i].fiber # None => m_tasks[i].fiber \in Jobs /\ Live(m_tasks[i].fiber)
    BY <2>1 DEF Live, Task
  <2>3. \/ m_tasks[i].cb = j
        \/ m_tasks[i].fiber # None /\ fib'[m_tasks[i].fiber].m_cb = j
    BY <1>1, <1>2, <2>2 DEF Carries
  <2>4. CASE \E k \in 1..Len(m_tasks') : m_tasks'[k] = m_tasks[i]
    BY <2>3, <2>4 DEF Carries
  <2>5. ASSUME NEW u \in Runners, Take(u), task' = [task EXCEPT ![u] = m_tasks[i]]
        PROVE  u \in Busy' /\ (task'[u].cb = j \/ (Current(u)' # None /\ Job(u)' = j))
    <3>1. task'[u] = m_tasks[i] /\ pc'[u] = "dispatch"
      BY <1>0, <2>5 DEF Take, Goto, TypeOK
    <3> QED
      BY <2>3, <3>1 DEF Busy, BusyPC, Current, Job
  <2> QED
    BY <2>4, <2>5, EntryStays
<1>3. ASSUME NEW u \in Busy, u # t, task[u].cb = j \/ (Current(u) # None /\ Job(u) = j)
      PROVE  \E v \in Busy' : task'[v].cb = j \/ (Current(v)' # None /\ Job(v)' = j)
  <2>1. /\ u \in Runners /\ pc'[u] = pc[u] /\ task'[u] = task[u]
        /\ cbFiber'[u] = cbFiber[u] /\ u \in Busy'
    BY <1>3, RunLocal DEF Busy
  <2>2. Current(u)' = Current(u)
    BY <2>1 DEF Current
  <2>3. Current(u) # None /\ Job(u) = j => fib'[Current(u)].m_cb = j
    BY <1>0, <1>1, <2>1, HeldMeans DEF Job
  <2> QED
    BY <1>3, <2>1, <2>2, <2>3 DEF Job
<1>4. ASSUME t \in Busy, pc'[t] \in BusyPC, UNCHANGED <<task, cbFiber>>,
             task[t].cb = j \/ (Current(t) # None /\ Job(t) = j)
      PROVE  \E v \in Busy' : task'[v].cb = j \/ (Current(v)' # None /\ Job(v)' = j)
  <2>1. Current(t)' = Current(t) /\ t \in Busy'
    BY <1>4 DEF Current, Busy
  <2>2. Current(t) # None /\ Job(t) = j => fib'[Current(t)].m_cb = j
    BY <1>0, <1>1, HeldMeans DEF Job
  <2> QED
    BY <1>4, <2>1, <2>2 DEF Job
<1>5. ASSUME t \in Busy, task[t].cb = j \/ (Current(t) # None /\ Job(t) = j)
      PROVE  \/ \E i \in 1..Len(m_tasks') : Carries(m_tasks[i], j)'
             \/ \E u \in Busy' : task'[u].cb = j \/ (Current(u)' # None /\ Job(u)' = j)
  <2>0. pc[t] \in BusyPC
    BY <1>5 DEF Busy
  <2>1. CASE DispatchEnded(t)
    <3>1. task[t] \in Task /\ task[t].fiber # None /\ Ended(fib[task[t].fiber])
      BY <2>1 DEF DispatchEnded, IInv, HasFiber
    <3>2. task[t].cb = None /\ Current(t) = task[t].fiber
      BY <3>1, FiberForTypes DEF Current
    <3> QED
      BY <1>0, <1>1, <1>5, <3>1, <3>2, HeldMeans
  <2>2. CASE DispatchCb(t)
    <3>1. task[t].fiber = None /\ pc[t] = "dispatch"
      BY <2>2 DEF DispatchCb
    <3>2. cbFiber[t] # None => fib[cbFiber[t]].m_cb = None
      BY <1>0, <3>1 DEF FitsPlace, InCallback
    <3>3. task[t].cb = j
      BY <1>0, <1>5, <3>1, <3>2 DEF Current, Job
    <3>4. Job(t)' = j
      BY <2>2, <3>3, TrackingDispatchCb
    <3>5. pc'[t] = "swapIn" /\ Current(t)' # None
      <4>1. ~(cbFiber[t] # None /\ ~Idle(fib[cbFiber[t]]))
        BY <3>1, FiberFacts
      <4>2. /\ task'[t] = NoTask /\ pc'[t] = "swapIn"
            /\ cbFiber'[t] = IF cbFiber[t] # None THEN cbFiber[t] ELSE task[t].cb
        BY <1>0, <2>2, <4>1 DEF DispatchCb, TypeOK, Goto
      <4> QED
        BY <1>0, <3>3, <4>2, FiberForTypes DEF Current
    <3> QED
      BY <3>4, <3>5 DEF Busy, BusyPC
  <2>3. CASE Back(t)
    <3>1. pc[t] = "back" /\ task[t].cb = None
      BY <1>0, <2>3 DEF Back, FitsPlace
    <3>2. PICK f \in Jobs : f = Current(t) /\ Holds(t, f) /\ ~Ended(fib[f]) /\ fib[f].m_cb = j
      BY <1>0, <1>1, <1>5, <3>1, HeldMeans DEF Job
    <3>3. Queued(f)
      BY <3>1, <3>2 DEF YieldsQueued
    <3>4. PICK i \in 1..Len(m_tasks) : FiberFor(m_tasks[i]) = f
      BY <3>3 DEF Queued
    <3>5. m_tasks[i].fiber = f
      BY <3>2, <3>4 DEF Homes, EntryOfHolder, FiberFor
    <3>6. Carries(m_tasks[i], j)
      BY <3>2, <3>5, NoneNotJob DEF Carries
    <3> QED
      BY <1>2, <3>6
  <2>4. CASE RunEnter(t) \/ Take(t) \/ TakeNone(t) \/ IdleStep(t) \/ Recycle(t)
    BY <2>0, <2>4 DEF RunEnter, Take, TakeNone, IdleStep, Recycle, BusyPC
  <2>5. CASE \/ DispatchFiber(t) \/ SwapIn(t) \/ Body(t) \/ SwapOut(t)
    <3>1. UNCHANGED <<task, cbFiber>>
      BY <2>5 DEF DispatchFiber, SwapIn, Body, BodySchedule, BodyRequeue, BodyYield,
         BodyReturn, BodyThrow, SwapOut, localVars
    <3>2. pc'[t] \in {"swapIn", "body", "yield", "end", "back", "abort"}
      BY <1>0, <2>5 DEF DispatchFiber, SwapIn, Body, BodySchedule, BodyRequeue, BodyYield,
         BodyReturn, BodyThrow, SwapOut, Goto, TypeOK
    <3>3. pc'[t] # "abort"
      <4>1. ASSUME pc[t] = "swapIn"
            PROVE  Enterable(fib[Current(t)]) /\ fib[Current(t)].m_ctx # "ended"
        BY <4>1, FiberFacts
      <4>2. pc[t] = "body" => fib[Current(t)].m_state = "EXEC"
        BY <1>0 DEF FitsPlace
      <4> QED
        BY <1>0, <2>5, <4>1, <4>2 DEF DispatchFiber, SwapIn, Body, BodySchedule,
           BodyRequeue, BodyYield, BodyReturn, BodyThrow, SwapOut, Goto, TypeOK
    <3> QED
      BY <1>4, <1>5, <3>1, <3>2, <3>3 DEF BusyPC
  <2> QED
    BY <2>1, <2>2, <2>3, <2>4, <2>5 DEF Run
<1> QED
  BY <1>0, <1>1, <1>2, <1>3, <1>5 DEF JobsAccounted

\* The entry of a job that is scheduled for the first time carries it.
LEMMA AccountedNew ==
    ASSUME IInv, Tracking, NEW j \in Jobs \ submitted, NEW pin \in Runners \cup {NoTid},
           m_tasks' = Append(m_tasks, JobTask(j, pin)), UNCHANGED fib
    PROVE  \E i \in 1..Len(m_tasks') : Carries(m_tasks[i], j)'
<1>1. JobTask(j, pin) \in Task
  BY TaskTypes
<1>2. /\ m_tasks'[Len(m_tasks')] = JobTask(j, pin)
      /\ Len(m_tasks') \in 1..Len(m_tasks')
  BY <1>1, AppendedQueue DEF IInv, TypeOK
<1>3. \/ JobTask(j, pin).cb = j
      \/ JobTask(j, pin).fiber = j /\ j # None /\ fib[j].m_cb = j
  <2>1. CASE j \in FiberJobs
    <3>1. fib[j] = NewFiber(j)
      BY <2>1 DEF Tracking, NewFresh
    <3> QED
      BY <2>1, <3>1, NoneNotJob DEF JobTask, FiberTask, NewFiber
  <2>2. CASE j \notin FiberJobs
    BY <2>2 DEF JobTask, CbTask
  <2> QED
    BY <2>1, <2>2
<1> QED
  BY <1>2, <1>3 DEF Carries

\* JobsAccounted is inductive relative to the invariants before it.
LEMMA AccountedNext ==
    ASSUME IInv, Placed, Homes, Shapes, Tracking, RunsOnce, YieldsQueued, JobsAccounted,
           [Next]_vars
    PROVE  JobsAccounted'
<1> SUFFICES ASSUME NEW j \in submitted' \ ended'
             PROVE  \/ \E i \in 1..Len(m_tasks') : Carries(m_tasks[i], j)'
                    \/ \E u \in Busy' :
                         task'[u].cb = j \/ (Current(u)' # None /\ Job(u)' = j)
  BY DEF JobsAccounted
<1>1. CASE UNCHANGED <<m_tasks, fib, pc, task, cbFiber, submitted, ended>>
  BY <1>1 DEF JobsAccounted, Carries, Busy, Current, Job
<1>2. ASSUME NEW t \in Runners, Run(t)
      PROVE  \/ \E i \in 1..Len(m_tasks') : Carries(m_tasks[i], j)'
             \/ \E u \in Busy' :
                  task'[u].cb = j \/ (Current(u)' # None /\ Job(u)' = j)
  <2>1. CASE j \in submitted
    BY <1>2, <2>1, AccountedRun
  <2>2. CASE j \notin submitted
    <3>1. PICK k \in Jobs, pin \in {NoTid, t} : BodySchedule(t, k, pin)
      BY <1>2, <2>2 DEF Run, Body, RunEnter, Take, TakeNone, IdleStep, DispatchFiber,
         DispatchEnded, DispatchCb, SwapIn, BodyRequeue, BodyYield, BodyReturn,
         BodyThrow, SwapOut, Back, Recycle, jobVars
    <3>2. /\ j = k /\ UNCHANGED fib
          /\ m_tasks' = Append(m_tasks, JobTask(k, pin))
      BY <2>2, <3>1 DEF BodySchedule, Schedule
    <3> QED
      BY <2>2, <3>2, AccountedNew
  <2> QED
    BY <2>1, <2>2
<1>3. CASE Next /\ ~\E t \in Runners : Run(t)
  <2>1. UNCHANGED <<fib, task, cbFiber, ended>>
    BY <1>3, OtherSteps
  <2>2. Busy' = Busy
    <3>1. \A u \in Runners : \/ pc'[u] = pc[u]
                             \/ pc[u] \in {"off", "done"} /\ pc'[u] \in {"off", "enter"}
      BY <1>3, OtherPlaces
    <3> QED
      BY <3>1 DEF Busy, BusyPC
  <2>3. CASE j \in submitted
    <3>1. ASSUME NEW i \in 1..Len(m_tasks), Carries(m_tasks[i], j)
          PROVE  \E k \in 1..Len(m_tasks') : Carries(m_tasks[k], j)'
      <4>1. PICK k \in 1..Len(m_tasks') : m_tasks'[k] = m_tasks[i]
        BY <1>3, EntryStays DEF Run
      <4> QED
        BY <2>1, <3>1, <4>1 DEF Carries
    <3>2. \A u \in Busy : Current(u)' = Current(u) /\ Job(u)' = Job(u)
      BY <2>1 DEF Current, Job
    <3> QED
      BY <2>1, <2>2, <2>3, <3>1, <3>2 DEF JobsAccounted
  <2>4. CASE j \notin submitted
    BY <1>3, <2>1, <2>4, OtherSteps, AccountedNew
  <2> QED
    BY <2>3, <2>4
<1> QED
  BY <1>1, <1>2, <1>3 DEF vars, localVars, jobVars

-----------------------------------------------------------------------------
\* The theorems about jobs

\* JobInv, the inductive invariant of the runners and their jobs, holds in
\* every reachable state.
THEOREM JobInvariance == ASSUME ~MayMigrate PROVE Spec => []JobInv
<1>1. Init => JobInv
  <2> SUFFICES ASSUME Init PROVE JobInv
    OBVIOUS
  <2>1. pc = [t \in Runners |-> "off"] /\ submitted = {}
    BY DEF Init
  <2>2. YieldsQueued /\ JobsAccounted
    BY <2>1 DEF YieldsQueued, JobsAccounted
  <2> QED
    BY <2>2, InitInvariant, HomesInit, ShapesInit, TrackingInit DEF JobInv
<1>2. JobInv /\ [Next]_vars => JobInv'
  BY NextInvariant, PlacedNext, HomesNext, ShapesNext, TrackingNext,
     YieldsQueuedNext, AccountedNext DEF JobInv
<1> QED
  BY <1>1, <1>2, PTL DEF Spec

\* A job is begun at most once, whatever fiber it runs in, however often it
\* yields and however its fiber is recycled.
THEOREM BegunOnce == ASSUME ~MayMigrate PROVE Spec => []RunsOnce
<1>1. JobInv => RunsOnce
  BY DEF JobInv
<1> QED
  BY <1>1, JobInvariance, PTL

\* No job is lost: until it is over it is in the queue or in the hands of a
\* thread that is counted as active.
THEOREM NoneLost == ASSUME ~MayMigrate PROVE Spec => []JobsAccounted
<1>1. JobInv => JobsAccounted
  BY DEF JobInv
<1> QED
  BY <1>1, JobInvariance, PTL

-----------------------------------------------------------------------------
(* Part 3.                                                                 *)

\* The inductive invariants of the owner and its threads

\* Thread t is in m_threads, or in thrs once stop() has swapped them.
Listed(t) ==
    \/ \E i \in 1..Len(m_threads) : m_threads[i] = t
    \/ \E i \in 1..Len(thrs) : thrs[i] = t

\* The threads of the pool are listed from their creation until they are joined.
Pooled ==
    /\ \A t \in Threads :
        /\ m_thread[t] <=> Listed(t)
        /\ life[t] \in {"none", "finished"} \/ m_thread[t]
        /\ life[t] = "none" => ~m_thread[t]
        /\ m_semaphore[t] > 0 => life[t] \in {"running", "finished"}
        /\ life[t] = "created" => mpc = "wait" /\ t = m_threads[Len(m_threads)]
    /\ \A i, k \in 1..Len(m_threads) : m_threads[i] = m_threads[k] => i = k
    /\ \A i, k \in 1..Len(thrs) : thrs[i] = thrs[k] => i = k
    /\ mpc = "join" <=> thrs # <<>>

\* Where the owner is, what it has started and the state of its root fiber.
Owning ==
    /\ m_threads # <<>> \/ mpc = "create" \/ ~UseCaller => m_threadCount # 0
    /\ mpc = "wait" => m_threads # <<>>
    /\ mpc \in {"rootOnly", "rootOnlyCheck"} => m_threadCount = 0 /\ UseCaller
    /\ mpc \in {"rootOnlyCheck", "callRoot", "called", "swap", "join", "stopped"} =>
        m_stopping
    /\ mpc \in StartPC => ~m_stopping
    /\ mpc \in {"join", "stopped"} \/ (mpc = "ready" /\ m_stopping) => m_threads = <<>>
    /\ ~UseCaller /\ (mpc \in StopPC \ {"join"} \/ (mpc = "ready" /\ ~m_stopping)) =>
        m_threads # <<>>
    /\ mpc \in {"callRoot", "called"} => UseCaller
    /\ mpc # "called" =>
        \/ m_rootFiber.m_state = "INIT" /\ m_rootFiber.m_ctx = "entry"
        \/ m_rootFiber.m_state = "TERM" /\ m_rootFiber.m_ctx = "ended"
    /\ ~MayReuse /\ mpc \in (StartPC \cup StopPC \cup {"ready"})
                             \ {"called", "swap", "join"} =>
        m_rootFiber.m_state = "INIT"

\* An idle fiber that has ended, a thread that has left run() and a stop() that
\* waits for its threads no more all have seen stopping() true.
Seen ==
    /\ \A t \in Runners :
        /\ pc[t] = "done" => idleFiber[t].m_state = "TERM"
        /\ pc[t] \notin {"off", "enter"} /\ idleFiber[t].m_state = "TERM" => Stopping
    /\ \A t \in Threads : life[t] = "finished" /\ m_thread[t] => Stopping
    /\ mpc = "stopped" \/ (UseCaller /\ mpc \in {"swap", "join"}) => Stopping

StopInv == Pooled /\ Owning /\ Seen

\* With schedule() from outside stopping() may become false again, but not the
\* flag m_stopping.
Flagged ==
    /\ \A t \in Runners :
        /\ pc[t] = "done" => idleFiber[t].m_state = "TERM"
        /\ pc[t] \notin {"off", "enter"} /\ idleFiber[t].m_state = "TERM" => m_stopping
    /\ \A t \in Threads : life[t] = "finished" /\ m_thread[t] => m_stopping
    /\ ~UseCaller /\ mpc \in {"autoStop", "stopping"} => ~m_stopping

\* The fiber of a task has a job and has not ended, if jobs do not end while
\* they are queued; that of a task for any thread has not even begun.
Unended ==
    /\ \A i \in 1..Len(m_tasks) : m_tasks[i].fiber # None =>
        /\ ~Ended(fib[m_tasks[i].fiber]) /\ fib[m_tasks[i].fiber].m_cb # None
        /\ m_tasks[i].thread = NoTid => fib[m_tasks[i].fiber].m_state = "INIT"
    /\ \A t \in Runners : pc[t] = "dispatch" /\ task[t].fiber # None =>
        ~Ended(fib[task[t].fiber]) /\ fib[task[t].fiber].m_cb # None

\* Somebody is left in run() for every task, but for those that came too late.
Attended ==
    \A i \in 1..Len(m_tasks) :
        /\ m_tasks[i].thread \in Threads =>
            pc[m_tasks[i].thread] \notin {"off", "enter", "done"}
        /\ m_tasks[i].thread = Caller =>
            UseCaller /\ mpc \notin {"swap", "join", "stopped"} /\ pc[Caller] # "done"
        /\ /\ m_tasks[i].thread = NoTid
           /\ mpc \in {"swap", "join", "stopped"} \/ pc[Caller] = "done"
           => \/ \E j \in late : Carries(m_tasks[i], j)
              \/ \E t \in Runners : pc[t] \notin {"off", "done"}

LateInv == Flagged /\ Unended /\ Attended

-----------------------------------------------------------------------------
\* Owning

\* The steps that are not the owner's leave its state alone.
LEMMA OwnerUntouched ==
    ASSUME IInv, [Next]_vars, ~OwnerCall, ~InStart, ~InStop
    PROVE  UNCHANGED listVars /\ UNCHANGED flagVars /\ UNCHANGED ownerVars
<1>1. ASSUME NEW t \in Runners, Run(t)
      PROVE  UNCHANGED listVars /\ UNCHANGED flagVars /\ UNCHANGED ownerVars
  BY <1>1, RunPlace
<1>2. ASSUME NEW t \in Threads, PoolThread(t)
      PROVE  UNCHANGED listVars /\ UNCHANGED flagVars /\ UNCHANGED ownerVars
  BY <1>1, <1>2 DEF RunThread, Exit, PoolThread, Runners
<1>3. ASSUME NEW j \in Jobs, OutsideSchedule(j)
      PROVE  UNCHANGED listVars /\ UNCHANGED flagVars /\ UNCHANGED ownerVars
  BY <1>3 DEF OutsideSchedule
<1>4. CASE UNCHANGED vars
  BY <1>4 DEF vars
<1>5. CASE Next
  BY <1>1, <1>2, <1>3, <1>4, <1>5 DEF Next, Runners, Gone
<1> QED
  BY <1>4, <1>5

\* Owning is inductive relative to the invariants of the runners.
LEMMA OwningNext ==
    ASSUME IInv, Placed, Owning, [Next]_vars
    PROVE  Owning'
<1>0. TypeOK
  BY DEF IInv
<1>1. CASE ~OwnerCall /\ ~InStart /\ ~InStop
  <2>1. UNCHANGED listVars /\ UNCHANGED flagVars /\ UNCHANGED ownerVars
    BY <1>1, OwnerUntouched
  <2>2. UNCHANGED <<m_threads, m_threadCount, m_stopping, mpc, m_rootFiber>>
    BY <2>1 DEF listVars, flagVars, ownerVars
  <2> QED
    BY <2>2 DEF Owning
<1>2. ASSUME NEW j \in Jobs, NEW pin, OwnerSchedule(j, pin)
      PROVE  Owning'
  <2>1. UNCHANGED <<m_threads, m_threadCount, m_stopping, m_rootFiber>>
    BY <1>2 DEF OwnerSchedule, listVars, flagVars
  <2>2. mpc' = "ready" /\ Client
    BY <1>2 DEF OwnerSchedule
  <2> QED
    BY <2>1, <2>2 DEF Owning, Client, StartPC, StopPC
<1>3. CASE StartBegin
  <2>1. /\ UNCHANGED <<m_threads, m_threadCount, m_rootFiber>> /\ m_stopping /\ Client
        /\ m_stopping' = FALSE
        /\ mpc' = IF m_threads # <<>> THEN "abort"
                  ELSE IF m_threadCount = 0 THEN "ready" ELSE "create"
    BY <1>3 DEF StartBegin, listVars
  <2> QED
    BY <2>1 DEF Owning, Client, StartPC, StopPC
<1>4. CASE StopCall
  <2>1. /\ UNCHANGED <<m_threads, m_threadCount, m_rootFiber, m_stopping>> /\ Client
        /\ (UseCaller \/ ~m_stopping) /\ mpc' = "autoStop"
    BY <1>4 DEF StopCall, listVars, flagVars
  <2> QED
    BY <2>1 DEF Owning, Client, StartPC, StopPC
<1>5. CASE Destroy
  <2>1. /\ UNCHANGED <<m_threads, m_threadCount, m_rootFiber, m_stopping>>
        /\ mpc \in {"stopped", "ready"} /\ mpc' \in {"destroyed", "abort"}
    BY <1>5 DEF Destroy, listVars, flagVars
  <2> QED
    BY <2>1 DEF Owning, StartPC, StopPC
<1>6. ASSUME NEW t \in Threads, StartCreate(t)
      PROVE  Owning'
  <2>1. /\ UNCHANGED <<m_threadCount, m_rootFiber, m_stopping>>
        /\ mpc = "create" /\ mpc' = "wait" /\ m_threads' = Append(m_threads, t)
    BY <1>6 DEF StartCreate, flagVars
  <2>2. m_threads' # <<>>
    BY <1>0, <2>1 DEF TypeOK
  <2> QED
    BY <2>1, <2>2 DEF Owning, StartPC, StopPC
<1>7. ASSUME NEW t \in Threads, StartWait(t)
      PROVE  Owning'
  <2>1. /\ UNCHANGED <<m_threads, m_threadCount, m_rootFiber, m_stopping>>
        /\ mpc = "wait" /\ mpc' \in {"create", "ready"}
    BY <1>7 DEF StartWait, flagVars
  <2> QED
    BY <2>1 DEF Owning, StartPC, StopPC
<1>8. CASE StopAutoStop
  <2>1. /\ UNCHANGED <<m_threads, m_threadCount, m_rootFiber, m_stopping>>
        /\ mpc = "autoStop"
        /\ \/ mpc' = "rootOnly" /\ UseCaller /\ m_threadCount = 0
           \/ mpc' = "stopping"
    BY <1>8 DEF StopAutoStop, listVars
  <2> QED
    BY <2>1 DEF Owning, StartPC, StopPC
<1>9. CASE StopRootOnly
  <2>1. /\ UNCHANGED <<m_threads, m_threadCount, m_rootFiber>>
        /\ mpc = "rootOnly" /\ mpc' = "rootOnlyCheck" /\ m_stopping' = TRUE
    BY <1>9 DEF StopRootOnly, listVars
  <2> QED
    BY <2>1 DEF Owning, StartPC, StopPC
<1>10. CASE StopRootOnlyCheck
  <2>1. /\ UNCHANGED <<m_threads, m_threadCount, m_rootFiber, m_stopping>>
        /\ mpc = "rootOnlyCheck" /\ mpc' \in {"stopped", "stopping"}
    BY <1>10 DEF StopRootOnlyCheck, listVars, flagVars
  <2> QED
    BY <2>1 DEF Owning, StartPC, StopPC
<1>11. CASE StopStopping
  <2>1. /\ UNCHANGED <<m_threads, m_threadCount, m_rootFiber>>
        /\ mpc = "stopping" /\ m_stopping' = TRUE
        /\ mpc' = IF UseCaller THEN "callRoot" ELSE "swap"
    BY <1>11 DEF StopStopping, listVars
  <2> QED
    BY <2>1 DEF Owning, StartPC, StopPC
<1>12. CASE StopCallRoot
  <2>1. /\ UNCHANGED <<m_threads, m_threadCount, m_stopping>>
        /\ mpc = "callRoot"
        /\ \/ mpc' = "called"
           \/ mpc' \in {"swap", "abort"} /\ UNCHANGED m_rootFiber
    BY <1>12 DEF StopCallRoot, listVars, flagVars
  <2> QED
    BY <2>1 DEF Owning, StartPC, StopPC
<1>13. CASE StopSwap
  <2>1. /\ UNCHANGED <<m_threadCount, m_rootFiber, m_stopping>>
        /\ mpc = "swap" /\ m_threads' = <<>>
        /\ mpc' = IF m_threads = <<>> THEN "stopped" ELSE "join"
    BY <1>13 DEF StopSwap, flagVars
  <2> QED
    BY <2>1 DEF Owning, StartPC, StopPC
<1>14. CASE StopJoin
  <2>1. /\ UNCHANGED <<m_threads, m_threadCount, m_rootFiber, m_stopping>>
        /\ mpc = "join" /\ mpc' \in {"stopped", "join"}
    BY <1>14 DEF StopJoin, flagVars
  <2> QED
    BY <2>1 DEF Owning, StartPC, StopPC
<1>15. CASE RootReturn
  <2>1. mpc = "called"
    BY <1>15 DEF RootReturn, Placed
  <2>2. /\ UNCHANGED <<m_threads, m_threadCount, m_stopping>>
        /\ mpc' = "swap"
        /\ m_rootFiber'.m_state = "TERM" /\ m_rootFiber'.m_ctx = "ended"
    BY <1>0, <1>15 DEF RootReturn, listVars, flagVars, SwappedOut, Returned, TypeOK,
       FiberObject, FiberOf
  <2> QED
    BY <2>1, <2>2 DEF Owning, StartPC, StopPC
<1> QED
  BY <1>1, <1>2, <1>3, <1>4, <1>5, <1>6, <1>7, <1>8, <1>9, <1>10, <1>11, <1>12,
     <1>13, <1>14, <1>15 DEF OwnerCall, InStart, InStop

\* A scheduler that has not been started.
LEMMA OwningInit == Init => Owning
BY SchedulerAssumption DEF Init, Owning, StartPC, StopPC, NewFiber

-----------------------------------------------------------------------------
\* Pooled

\* What Pooled says of one thread.
LEMMA PooledMeans ==
    Pooled <=>
      /\ \A t \in Threads :
          /\ m_thread[t] <=> Listed(t)
          /\ life[t] \notin {"none", "finished"} => Listed(t)
          /\ life[t] = "none" => ~Listed(t)
          /\ m_semaphore[t] > 0 => life[t] \in {"running", "finished"}
          /\ life[t] = "created" => mpc = "wait" /\ t = m_threads[Len(m_threads)]
      /\ \A i, k \in 1..Len(m_threads) : m_threads[i] = m_threads[k] => i = k
      /\ \A i, k \in 1..Len(thrs) : thrs[i] = thrs[k] => i = k
      /\ mpc = "join" <=> thrs # <<>>
BY Zenon DEF Pooled

\* The lists and the threads stay as they are.
LEMMA PooledKept ==
    ASSUME Pooled, UNCHANGED threadVars, UNCHANGED <<m_threads, thrs>>,
           mpc' = mpc \/ (mpc \notin {"wait", "join"} /\ mpc' # "join")
    PROVE  Pooled'
<1>1. UNCHANGED <<m_thread, life, m_semaphore>>
  BY DEF threadVars
<1> QED
  BY <1>1 DEF Pooled, Listed

\* A thread starts, or is over; its Thread object stays in its list.
LEMMA PooledThread ==
    ASSUME IInv, Pooled, NEW t \in Threads, RunThread(t) \/ Exit(t)
    PROVE  Pooled'
<1>1. ThreadTypeOK
  BY DEF IInv, TypeOK
<1>2. UNCHANGED <<m_threads, thrs, mpc, m_thread>>
  BY DEF RunThread, RunProlog, Exit, Finish, listVars, ownerVars
<1>3. \A u \in Threads : Listed(u)' <=> Listed(u)
  BY <1>2 DEF Listed
<1>4. CASE RunThread(t)
  <2>1. /\ life[t] = "created" /\ life'[t] = "running"
        /\ \A u \in Threads \ {t} : life'[u] = life[u] /\ m_semaphore'[u] = m_semaphore[u]
    BY <1>1, <1>4 DEF RunThread, RunProlog, Notify, ThreadTypeOK
  <2>2. Listed(t)
    BY <2>1, PooledMeans
  <2>3. ASSUME NEW u \in Threads
        PROVE  /\ m_thread'[u] <=> Listed(u)'
               /\ life'[u] \notin {"none", "finished"} => Listed(u)'
               /\ life'[u] = "none" => ~Listed(u)'
               /\ m_semaphore'[u] > 0 => life'[u] \in {"running", "finished"}
               /\ life'[u] = "created" => mpc' = "wait" /\ u = m_threads'[Len(m_threads')]
    <3>1. m_thread'[u] <=> Listed(u)'
      BY <1>2, <1>3, PooledMeans, Zenon
    <3> QED
      BY <1>2, <1>3, <2>1, <2>2, <3>1, PooledMeans
  <2> QED
    BY <1>2, <2>3, PooledMeans DEF Pooled
<1>5. CASE Exit(t)
  <2>1. /\ life[t] = "running" /\ life'[t] = "finished"
        /\ \A u \in Threads \ {t} : life'[u] = life[u]
        /\ UNCHANGED m_semaphore
    BY <1>1, <1>5 DEF Exit, Finish, ThreadTypeOK
  <2>2. ASSUME NEW u \in Threads
        PROVE  /\ m_thread'[u] <=> Listed(u)'
               /\ life'[u] \notin {"none", "finished"} => Listed(u)'
               /\ life'[u] = "none" => ~Listed(u)'
               /\ m_semaphore'[u] > 0 => life'[u] \in {"running", "finished"}
               /\ life'[u] = "created" => mpc' = "wait" /\ u = m_threads'[Len(m_threads')]
    <3>1. m_thread'[u] <=> Listed(u)'
      BY <1>2, <1>3, PooledMeans, Zenon
    <3> QED
      BY <1>2, <1>3, <2>1, <3>1, PooledMeans
  <2> QED
    BY <1>2, <2>2, PooledMeans DEF Pooled
<1> QED
  BY <1>4, <1>5

\* start() lists the thread it creates, which was in no list.
LEMMA PooledCreate ==
    ASSUME IInv, Owning, Pooled, NEW t \in Threads, StartCreate(t)
    PROVE  Pooled'
<1>1. TypeOK /\ ThreadTypeOK
  BY DEF IInv, TypeOK
<1>2. /\ mpc = "create" /\ mpc' = "wait" /\ m_threads' = Append(m_threads, t)
      /\ life[t] = "none" /\ UNCHANGED <<thrs, m_semaphore>>
  BY DEF StartCreate, Create
<1>3. /\ life'[t] = "created" /\ \A u \in Threads \ {t} : life'[u] = life[u]
      /\ m_thread'[t] /\ \A u \in Threads \ {t} : m_thread'[u] = m_thread[u]
  BY <1>1 DEF StartCreate, Create, ThreadTypeOK
<1>4. /\ Len(m_threads') = Len(m_threads) + 1 /\ Len(m_threads) \in Nat
      /\ \A k \in 1..Len(m_threads) : m_threads'[k] = m_threads[k]
      /\ m_threads'[Len(m_threads')] = t
  BY <1>1, <1>2, AppendProperties DEF TypeOK
<1>5. ~Listed(t) /\ thrs = <<>>
  BY <1>2, PooledMeans
<1>6. Listed(t)' /\ \A u \in Threads \ {t} : Listed(u)' <=> Listed(u)
  <2>1. Listed(t)'
    BY <1>4 DEF Listed
  <2>2. ASSUME NEW u \in Threads \ {t}, Listed(u)
        PROVE  Listed(u)'
    BY <1>2, <1>4, <2>2 DEF Listed
  <2>3. ASSUME NEW u \in Threads \ {t}, Listed(u)'
        PROVE  Listed(u)
    <3>1. ASSUME NEW i \in 1..Len(m_threads'), m_threads'[i] = u
          PROVE  i \in 1..Len(m_threads)
      BY <1>4, <3>1
    <3> QED
      BY <1>2, <1>4, <2>3, <3>1 DEF Listed
  <2> QED
    BY <2>1, <2>2, <2>3
<1>7. \A i, k \in 1..Len(m_threads') : m_threads'[i] = m_threads'[k] => i = k
  <2>1. \A i \in 1..Len(m_threads) : m_threads[i] # t
    BY <1>5 DEF Listed
  <2>2. \A i \in 1..Len(m_threads') : i \in 1..Len(m_threads) \/ i = Len(m_threads')
    BY <1>4
  <2> QED
    BY <1>4, <2>1, <2>2, PooledMeans
<1>8. ASSUME NEW u \in Threads
      PROVE  /\ m_thread'[u] <=> Listed(u)'
             /\ life'[u] \notin {"none", "finished"} => Listed(u)'
             /\ life'[u] = "none" => ~Listed(u)'
             /\ m_semaphore'[u] > 0 => life'[u] \in {"running", "finished"}
             /\ life'[u] = "created" => mpc' = "wait" /\ u = m_threads'[Len(m_threads')]
  <2>1. m_thread'[u] <=> Listed(u)'
    BY <1>3, <1>6, PooledMeans, Zenon
  <2>2. m_semaphore[t] = 0
    BY <1>1, <1>2, PooledMeans DEF ThreadTypeOK
  <2> QED
    BY <1>2, <1>3, <1>4, <1>6, <2>1, <2>2, PooledMeans
<1> QED
  BY <1>2, <1>5, <1>7, <1>8, PooledMeans DEF Pooled

\* stop() swaps the list into its own.
LEMMA PooledSwap ==
    ASSUME IInv, Pooled, StopSwap
    PROVE  Pooled'
<1>1. /\ thrs = <<>> /\ mpc = "swap" /\ thrs' = m_threads /\ m_threads' = <<>>
      /\ mpc' = IF m_threads = <<>> THEN "stopped" ELSE "join"
      /\ UNCHANGED <<m_thread, life, m_semaphore>>
  BY PooledMeans DEF StopSwap, threadVars
<1>2. \A u \in Threads : Listed(u)' <=> Listed(u)
  BY <1>1 DEF Listed
<1> QED
  BY <1>1, <1>2 DEF Pooled

\* The join takes the thread off the list.
LEMMA PooledJoin ==
    ASSUME IInv, Owning, Pooled, StopJoin
    PROVE  Pooled'
<1>1. TypeOK /\ ThreadTypeOK
  BY DEF IInv, TypeOK
<1>2. PICK t \in Threads : t = Head(thrs)
  BY <1>1 DEF StopJoin, TypeOK
<1>3. /\ mpc = "join" /\ thrs # <<>> /\ thrs' = Tail(thrs) /\ m_threads = <<>>
      /\ life[t] = "finished" /\ m_thread' = [m_thread EXCEPT ![t] = FALSE]
      /\ mpc' = IF thrs' = <<>> THEN "stopped" ELSE "join"
      /\ UNCHANGED <<m_threads, m_semaphore, life>>
  BY <1>2 DEF StopJoin, Join, Owning
<1>4. /\ Len(thrs) \in Nat \ {0} /\ Len(thrs') = Len(thrs) - 1 /\ thrs[1] = t
      /\ \A k \in 1..Len(thrs') : thrs'[k] = thrs[k + 1]
  BY <1>1, <1>2, <1>3, HeadTailProperties, EmptySeq DEF TypeOK
<1>5. \A i, k \in 1..Len(thrs') : thrs'[i] = thrs'[k] => i = k
  <2> SUFFICES ASSUME NEW i \in 1..Len(thrs'), NEW k \in 1..Len(thrs'),
                      thrs'[i] = thrs'[k]
               PROVE  i = k
    OBVIOUS
  <2>1. i + 1 \in 1..Len(thrs) /\ k + 1 \in 1..Len(thrs)
    BY <1>4
  <2>2. thrs[i + 1] = thrs[k + 1]
    BY <1>4
  <2>3. i + 1 = k + 1
    BY <2>1, <2>2, PooledMeans
  <2> QED
    BY <1>4, <2>3
<1>6. ~Listed(t)' /\ \A u \in Threads \ {t} : Listed(u)' <=> Listed(u)
  <2>1. \A i \in 1..Len(m_threads) : FALSE
    BY <1>3
  <2>2. ASSUME NEW k \in 1..Len(thrs')
        PROVE  k + 1 \in 1..Len(thrs) /\ thrs[k + 1] # t
    <3>1. k + 1 \in 1..Len(thrs) /\ 1 \in 1..Len(thrs) /\ k + 1 # 1
      BY <1>4
    <3> QED
      BY <1>4, <3>1, PooledMeans
  <2>3. ~Listed(t)'
    BY <1>3, <1>4, <2>1, <2>2 DEF Listed
  <2>4. ASSUME NEW u \in Threads \ {t}, Listed(u)
        PROVE  Listed(u)'
    <3>1. PICK i \in 1..Len(thrs) : thrs[i] = u
      BY <2>1, <2>4 DEF Listed
    <3>2. i - 1 \in 1..Len(thrs')
      BY <1>4, <3>1
    <3>3. thrs'[i - 1] = u
      BY <1>4, <3>1, <3>2
    <3> QED
      BY <3>2, <3>3 DEF Listed
  <2>5. ASSUME NEW u \in Threads \ {t}, Listed(u)'
        PROVE  Listed(u)
    BY <1>3, <1>4, <2>1, <2>2, <2>5 DEF Listed
  <2> QED
    BY <2>3, <2>4, <2>5
<1>7. ~m_thread'[t] /\ \A u \in Threads \ {t} : m_thread'[u] = m_thread[u]
  BY <1>1, <1>3 DEF ThreadTypeOK
<1>8. ASSUME NEW u \in Threads
      PROVE  /\ m_thread'[u] <=> Listed(u)'
             /\ life'[u] \notin {"none", "finished"} => Listed(u)'
             /\ life'[u] = "none" => ~Listed(u)'
             /\ m_semaphore'[u] > 0 => life'[u] \in {"running", "finished"}
             /\ life'[u] # "created"
  <2>1. m_thread'[u] <=> Listed(u)'
    BY <1>6, <1>7, PooledMeans, Zenon
  <2> QED
    BY <1>3, <1>6, <2>1, PooledMeans
<1>9. \A i, k \in 1..Len(m_threads') : m_threads'[i] = m_threads'[k] => i = k
  BY <1>3
<1> QED
  BY <1>3, <1>5, <1>8, <1>9 DEF Pooled

\* Pooled is inductive relative to Owning and the invariants of the runners.
LEMMA PooledNext ==
    ASSUME IInv, Placed, Owning, Pooled, [Next]_vars
    PROVE  Pooled'
<1>1. ASSUME NEW t \in Threads, StartWait(t)
      PROVE  Pooled'
  <2>1. TypeOK /\ ThreadTypeOK
    BY DEF IInv, TypeOK
  <2>2. /\ mpc = "wait" /\ mpc' \in {"create", "ready"}
        /\ t = m_threads[Len(m_threads)] /\ m_semaphore[t] > 0
        /\ UNCHANGED <<m_threads, thrs, life, m_thread>>
    BY <1>1 DEF StartWait, CtorWait, Wait
  <2>3. \A u \in Threads : m_semaphore'[u] > 0 => m_semaphore[u] > 0
    BY <1>1, <2>1 DEF StartWait, CtorWait, Wait, ThreadTypeOK
  <2>4. \A u \in Threads : life[u] # "created"
    BY <2>2 DEF Pooled
  <2> QED
    BY <2>2, <2>3, <2>4 DEF Pooled, Listed
<1>2. CASE \/ OwnerCall \/ StopAutoStop \/ StopRootOnly \/ StopRootOnlyCheck
           \/ StopStopping \/ StopCallRoot \/ RootReturn
  <2>1. UNCHANGED threadVars /\ UNCHANGED <<m_threads, thrs>>
    BY <1>2 DEF OwnerCall, OwnerSchedule, StartBegin, StopCall, Destroy, StopAutoStop,
       StopRootOnly, StopRootOnlyCheck, StopStopping, StopCallRoot, RootReturn, listVars
  <2>2. mpc \notin {"wait", "join"} /\ mpc' # "join"
    BY <1>2 DEF OwnerCall, OwnerSchedule, StartBegin, StopCall, Destroy, Client, Placed,
       StopAutoStop, StopRootOnly, StopRootOnlyCheck, StopStopping, StopCallRoot, RootReturn
  <2> QED
    BY <2>1, <2>2, PooledKept
<1>3. CASE \/ \E t \in Runners : Run(t)
           \/ \E j \in Jobs : OutsideSchedule(j)
           \/ UNCHANGED vars
  <2>1. UNCHANGED threadVars /\ UNCHANGED listVars /\ UNCHANGED ownerVars
    BY <1>3, RunPlace DEF OutsideSchedule, vars
  <2> QED
    BY <2>1, PooledKept DEF listVars, ownerVars
<1> QED
  BY <1>1, <1>2, <1>3, PooledThread, PooledCreate, PooledSwap, PooledJoin
     DEF Next, PoolThread, Runners, InStart, InStop, Gone

\* No thread has been created.
LEMMA PooledInit == Init => Pooled
BY DEF Init, ThreadInit, Pooled, Listed

-----------------------------------------------------------------------------
\* Seen

\* Before start(), and when stop() has returned, the pool has no threads.
LEMMA NobodyLeft ==
    ASSUME IInv, Placed, Owning, Pooled, mpc = "stopped" \/ (mpc = "ready" /\ m_stopping)
    PROVE  /\ \A t \in Runners : pc[t] = "off"
           /\ \A t \in Threads : ~m_thread[t] /\ life[t] \in {"none", "finished"}
<1>1. m_threads = <<>> /\ thrs = <<>> /\ mpc \notin {"called", "wait"}
  BY DEF Owning, Pooled
<1>2. \A t \in Threads : ~Listed(t)
  BY <1>1 DEF Listed
<1>3. \A t \in Threads : life[t] \in {"none", "finished"}
  BY <1>2, PooledMeans
<1>4. \A t \in Threads : ~m_thread[t]
  BY <1>2, PooledMeans, Zenon
<1>5. \A t \in Runners : pc[t] = "off"
  BY <1>1, <1>3 DEF Placed, Runners
<1> QED
  BY <1>3, <1>4, <1>5

\* Without schedule() from outside, stopping() stays true until the owner, who
\* has no threads then, schedules or starts again.
LEMMA StoppingUntilClient ==
    ASSUME IInv, Placed, Owning, Pooled, OutsideJobs = {}, Stopping, [Next]_vars
    PROVE  \/ Stopping'
           \/ /\ \A t \in Runners : pc[t] = "off" /\ pc'[t] = "off"
              /\ \A t \in Threads : ~m_thread[t] /\ ~m_thread'[t]
              /\ mpc' \in {"ready", "create", "abort"}
<1>0. m_stopping
  BY DEF Stopping
<1>1. CASE StopCall \/ Destroy
  BY <1>1, StoppingKept DEF StopCall, Destroy, countVars
<1>2. ASSUME \/ \E j \in Jobs : \E pin : OwnerSchedule(j, pin)
             \/ StartBegin
      PROVE  /\ \A t \in Runners : pc[t] = "off" /\ pc'[t] = "off"
             /\ \A t \in Threads : ~m_thread[t] /\ ~m_thread'[t]
             /\ mpc' \in {"ready", "create", "abort"}
  <2>1. mpc = "stopped" \/ (mpc = "ready" /\ m_stopping)
    BY <1>0, <1>2 DEF OwnerSchedule, StartBegin, Client
  <2>2. UNCHANGED <<pc, m_thread>> /\ mpc' \in {"ready", "create", "abort"}
    BY <1>2 DEF OwnerSchedule, StartBegin, threadVars
  <2> QED
    BY <2>1, <2>2, NobodyLeft
<1>3. CASE InStart
  BY <1>0, <1>3 DEF InStart, StartCreate, StartWait, StartPC, Owning
<1>4. CASE InStop
  BY <1>4, StopKeepsStopping
<1>5. ASSUME NEW t \in Runners, Run(t)
      PROVE  Stopping'
  BY <1>5, RunKeepsStopping
<1>6. ASSUME NEW t \in Threads, PoolThread(t)
      PROVE  Stopping'
  <2>1. CASE Run(t)
    BY <1>5, <2>1 DEF Runners
  <2>2. CASE RunThread(t) \/ Exit(t)
    BY <2>2, StoppingKept DEF RunThread, Exit, countVars
  <2> QED
    BY <1>6, <2>1, <2>2 DEF PoolThread
<1>7. CASE UNCHANGED vars
  BY <1>7, StoppingKept DEF vars, countVars
<1>8. \A j \in Jobs : ~OutsideSchedule(j)
  BY DEF OutsideSchedule
<1>9. CASE OwnerCall
  BY <1>1, <1>2, <1>9 DEF OwnerCall
<1> QED
  BY <1>3, <1>4, <1>5, <1>6, <1>7, <1>8, <1>9 DEF Next, Gone, Runners

\* An idle fiber ends only in idle(), when stopping() is true, and a thread
\* leaves run() only when its idle fiber has ended.
LEMMA IdleEnds ==
    ASSUME IInv, Placed, NEW u \in Runners, [Next]_vars,
           pc'[u] \notin {"off", "enter"}, idleFiber'[u].m_state = "TERM"
    PROVE  \/ Stopping /\ Stopping'
           \/ pc[u] \notin {"off", "enter"} /\ idleFiber[u].m_state = "TERM"
<1>0. TypeOK
  BY DEF IInv
<1>1. CASE IdleStep(u)
  <2>1. CASE Stopping
    BY <1>1, <2>1, StoppingKept DEF IdleStep
  <2>2. CASE ~Stopping
    BY <1>0, <1>1, <2>2 DEF IdleStep, TypeOK, FiberObject, FiberOf, YieldMarked, SwappedOut
  <2> QED
    BY <2>1, <2>2
<1>2. CASE RunEnter(u)
  BY <1>0, <1>2 DEF RunEnter, TypeOK, NewFiber
<1>3. CASE TakeNone(u) \/ DispatchEnded(u)
  <2>1. pc[u] \notin {"off", "enter"} /\ IdleBranch(u)
    BY <1>3 DEF TakeNone, DispatchEnded
  <2> QED
    BY <1>0, <2>1 DEF IdleBranch, TypeOK, FiberObject, FiberOf, Entered
<1>4. CASE \/ Take(u) \/ DispatchFiber(u) \/ DispatchCb(u) \/ SwapIn(u) \/ Body(u)
           \/ SwapOut(u) \/ Back(u) \/ Recycle(u)
  BY <1>4 DEF Take, DispatchFiber, DispatchCb, SwapIn, Body, BodySchedule, BodyRequeue,
     BodyYield, BodyReturn, BodyThrow, SwapOut, Back, Recycle, localVars
<1>5. CASE Run(u)
  BY <1>1, <1>2, <1>3, <1>4, <1>5 DEF Run
<1>6. ASSUME NEW t \in Runners, Run(t), t # u
      PROVE  pc[u] \notin {"off", "enter"} /\ idleFiber[u].m_state = "TERM"
  <2>1. pc'[u] = pc[u]
    BY <1>6, RunPlace
  <2>2. idleFiber'[u] = idleFiber[u]
    BY <1>0, <1>6 DEF Run, Body, RunEnter, Take, TakeNone, IdleBranch, IdleStep,
       DispatchFiber, DispatchEnded, DispatchCb, SwapIn, BodySchedule, BodyRequeue,
       BodyYield, BodyReturn, BodyThrow, SwapOut, Back, Recycle, localVars, TypeOK
  <2> QED
    BY <2>1, <2>2
<1>7. CASE Next /\ ~\E t \in Runners : Run(t)
  <2>1. pc'[u] = pc[u]
    BY <1>7, OtherPlaces
  <2>2. UNCHANGED localVars
    BY <1>7 DEF Next, PoolThread, Runners, RunThread, Exit, OwnerCall, OwnerSchedule,
       StartBegin, StopCall, Destroy, InStart, StartCreate, StartWait, InStop,
       StopAutoStop, StopRootOnly, StopRootOnlyCheck, StopStopping, StopCallRoot,
       StopSwap, StopJoin, RootReturn, OutsideSchedule, Gone, vars
  <2> QED
    BY <2>1, <2>2 DEF localVars
<1>8. CASE UNCHANGED vars
  BY <1>8 DEF vars, localVars
<1> QED
  BY <1>5, <1>6, <1>7, <1>8

\* A thread at the end of run() has an idle fiber that has ended.
LEMMA DoneMeansEnded ==
    ASSUME IInv, Placed, NEW u \in Runners, [Next]_vars, pc'[u] = "done",
           pc[u] = "done" => idleFiber[u].m_state = "TERM"
    PROVE  idleFiber'[u].m_state = "TERM"
<1>0. TypeOK
  BY DEF IInv
<1>1. CASE TakeNone(u) \/ DispatchEnded(u)
  <2>1. IdleBranch(u)
    BY <1>1 DEF TakeNone, DispatchEnded
  <2> QED
    BY <1>0, <2>1 DEF IdleBranch, Goto, TypeOK
<1>2. CASE \/ RunEnter(u) \/ IdleStep(u) \/ Take(u) \/ DispatchFiber(u) \/ DispatchCb(u)
           \/ SwapIn(u) \/ Body(u) \/ SwapOut(u) \/ Back(u) \/ Recycle(u)
  BY <1>0, <1>2 DEF RunEnter, IdleStep, Take, DispatchFiber, DispatchCb, SwapIn, Body,
     BodySchedule, BodyRequeue, BodyYield, BodyReturn, BodyThrow, SwapOut, Back, Recycle,
     Goto, TypeOK
<1>3. ASSUME NEW t \in Runners, Run(t), t # u
      PROVE  idleFiber'[u].m_state = "TERM"
  <2>1. pc'[u] = pc[u]
    BY <1>3, RunPlace
  <2>2. idleFiber'[u] = idleFiber[u]
    BY <1>0, <1>3 DEF Run, Body, RunEnter, Take, TakeNone, IdleBranch, IdleStep,
       DispatchFiber, DispatchEnded, DispatchCb, SwapIn, BodySchedule, BodyRequeue,
       BodyYield, BodyReturn, BodyThrow, SwapOut, Back, Recycle, localVars, TypeOK
  <2> QED
    BY <2>1, <2>2
<1>4. CASE Next /\ ~\E t \in Runners : Run(t)
  <2>1. pc'[u] = pc[u]
    BY <1>4, OtherPlaces
  <2>2. UNCHANGED localVars
    BY <1>4 DEF Next, PoolThread, Runners, RunThread, Exit, OwnerCall, OwnerSchedule,
       StartBegin, StopCall, Destroy, InStart, StartCreate, StartWait, InStop,
       StopAutoStop, StopRootOnly, StopRootOnlyCheck, StopStopping, StopCallRoot,
       StopSwap, StopJoin, RootReturn, OutsideSchedule, Gone, vars
  <2> QED
    BY <2>1, <2>2 DEF localVars
<1>5. CASE UNCHANGED vars
  BY <1>5 DEF vars, localVars
<1> QED
  BY <1>1, <1>2, <1>3, <1>4, <1>5 DEF Run

\* A thread that is over and not joined was so before, or is just over.
LEMMA FinishedThread ==
    ASSUME IInv, [Next]_vars, NEW t \in Threads, life'[t] = "finished", m_thread'[t]
    PROVE  (life[t] = "finished" /\ m_thread[t]) \/ Exit(t)
<1>0. ThreadTypeOK
  BY DEF IInv, TypeOK
<1>1. ASSUME NEW u \in Threads, StartCreate(u)
      PROVE  life[t] = "finished" /\ m_thread[t]
  BY <1>0, <1>1, Zenon DEF StartCreate, Create, ThreadTypeOK
<1>2. ASSUME NEW u \in Threads, RunThread(u)
      PROVE  life[t] = "finished" /\ m_thread[t]
  BY <1>0, <1>2, Zenon DEF RunThread, RunProlog, ThreadTypeOK
<1>3. ASSUME NEW u \in Threads, Exit(u), u # t
      PROVE  life[t] = "finished" /\ m_thread[t]
  BY <1>0, <1>3, Zenon DEF Exit, Finish, ThreadTypeOK
<1>4. CASE StopJoin
  BY <1>0, <1>4, Zenon DEF StopJoin, Join, ThreadTypeOK
<1>5. CASE UNCHANGED <<life, m_thread>>
  BY <1>5, Zenon
<1>6. ASSUME NEW u \in Runners, Run(u)
      PROVE  UNCHANGED <<life, m_thread>>
  BY <1>6, RunPlace DEF threadVars
<1>7. CASE OwnerCall \/ (InStop /\ ~StopJoin) \/ (\E j \in Jobs : OutsideSchedule(j))
  BY <1>5, <1>7 DEF OwnerCall, OwnerSchedule, StartBegin, StopCall, Destroy, InStop,
     StopAutoStop, StopRootOnly, StopRootOnlyCheck, StopStopping, StopCallRoot,
     StopSwap, RootReturn, OutsideSchedule, threadVars
<1>8. ASSUME NEW u \in Threads, StartWait(u)
      PROVE  UNCHANGED <<life, m_thread>>
  BY <1>8 DEF StartWait, CtorWait
<1>9. CASE UNCHANGED vars
  BY <1>5, <1>9 DEF vars, threadVars
<1> QED
  BY <1>1, <1>2, <1>3, <1>4, <1>5, <1>6, <1>7, <1>8, <1>9
     DEF Next, PoolThread, Runners, InStart, Gone

\* Seen is inductive relative to the invariants before it.
LEMMA SeenNext ==
    ASSUME IInv, Placed, Owning, Pooled, Seen, OutsideJobs = {}, [Next]_vars
    PROVE  Seen'
<1>0. TypeOK /\ ThreadTypeOK
  BY DEF IInv, TypeOK
<1>1. ASSUME NEW u \in Runners
      PROVE  /\ pc'[u] = "done" => idleFiber'[u].m_state = "TERM"
             /\ pc'[u] \notin {"off", "enter"} /\ idleFiber'[u].m_state = "TERM" => Stopping'
  BY IdleEnds, DoneMeansEnded, StoppingUntilClient DEF Seen
<1>2. ASSUME NEW t \in Threads, life'[t] = "finished", m_thread'[t]
      PROVE  Stopping'
  <2>1. CASE life[t] = "finished" /\ m_thread[t]
    BY <1>2, <2>1, StoppingUntilClient DEF Seen
  <2>2. CASE Exit(t)
    BY <2>2, StoppingUntilClient DEF Seen, Exit, Runners
  <2>3. (life[t] = "finished" /\ m_thread[t]) \/ Exit(t)
    BY <1>2, FinishedThread
  <2> QED
    BY <2>1, <2>2, <2>3
<1>3. ASSUME mpc' = "stopped" \/ (UseCaller /\ mpc' \in {"swap", "join"})
      PROVE  Stopping'
  <2>1. CASE InStop /\ Stopping
    BY <2>1, StopKeepsStopping
  <2>2. CASE InStop
    <3>1. CASE StopRootOnlyCheck \/ StopCallRoot
      BY <1>3, <2>1, <2>2, <3>1 DEF StopRootOnlyCheck, StopCallRoot
    <3>2. CASE RootReturn
      BY <2>1, <2>2, <3>2 DEF RootReturn, Seen, Runners
    <3>3. CASE StopSwap
      BY <1>3, <2>1, <2>2, <3>3 DEF StopSwap, Seen, Owning, StopPC
    <3>4. CASE StopJoin
      BY <1>0, <2>1, <2>2, <3>4 DEF StopJoin, Join, Seen, TypeOK
    <3>5. CASE StopAutoStop \/ StopRootOnly \/ StopStopping
      BY <1>3, <3>5 DEF StopAutoStop, StopRootOnly, StopStopping
    <3> QED
      BY <2>2, <3>1, <3>2, <3>3, <3>4, <3>5 DEF InStop
  <2>3. CASE OwnerCall \/ InStart
    BY <1>3, <2>3 DEF OwnerCall, OwnerSchedule, StartBegin, StopCall, Destroy, InStart,
       StartCreate, StartWait
  <2>4. CASE ~OwnerCall /\ ~InStart /\ ~InStop
    <3>1. mpc' = mpc
      BY <2>4, OwnerUntouched DEF ownerVars
    <3> QED
      BY <1>3, <3>1, StoppingUntilClient DEF Seen
  <2> QED
    BY <2>2, <2>3, <2>4
<1> QED
  BY <1>1, <1>2, <1>3 DEF Seen

\* No thread is in run().
LEMMA SeenInit == Init => Seen
BY DEF Init, ThreadInit, Seen

-----------------------------------------------------------------------------
\* Flagged

\* m_stopping becomes false only in start(), when the pool has no threads.
LEMMA FlagUntilStart ==
    ASSUME IInv, Placed, Owning, Pooled, m_stopping, [Next]_vars
    PROVE  \/ m_stopping'
           \/ /\ \A t \in Runners : pc[t] = "off" /\ pc'[t] = "off"
              /\ \A t \in Threads : ~m_thread[t] /\ ~m_thread'[t]
              /\ mpc' \in {"ready", "create", "abort"}
<1>1. CASE StartBegin
  <2>1. mpc = "stopped" \/ (mpc = "ready" /\ m_stopping)
    BY <1>1 DEF StartBegin, Client
  <2>2. UNCHANGED <<pc, m_thread>> /\ mpc' \in {"ready", "create", "abort"}
    BY <1>1 DEF StartBegin, threadVars
  <2> QED
    BY <2>1, <2>2, NobodyLeft
<1>2. CASE InStart \/ InStop
  <2>1. UNCHANGED m_stopping \/ m_stopping' = TRUE
    BY <1>2, Zenon DEF InStart, StartCreate, StartWait, InStop, StopAutoStop, StopRootOnly,
       StopRootOnlyCheck, StopStopping, StopCallRoot, StopSwap, StopJoin, RootReturn,
       flagVars
  <2> QED
    BY <2>1, Zenon
<1>3. CASE OwnerCall /\ ~StartBegin
  <2>1. UNCHANGED m_stopping
    BY <1>3, Zenon DEF OwnerCall, OwnerSchedule, StopCall, Destroy, flagVars
  <2> QED
    BY <2>1, Zenon
<1>4. CASE ~OwnerCall /\ ~InStart /\ ~InStop
  <2>1. UNCHANGED m_stopping
    BY <1>4, OwnerUntouched DEF flagVars
  <2> QED
    BY <2>1, Zenon
<1> QED
  BY <1>1, <1>2, <1>3, <1>4

\* Flagged is inductive relative to Owning, Pooled and the runners' invariants.
LEMMA FlaggedNext ==
    ASSUME IInv, Placed, Owning, Pooled, Flagged, [Next]_vars
    PROVE  Flagged'
<1>1. ASSUME NEW u \in Runners
      PROVE  pc'[u] = "done" => idleFiber'[u].m_state = "TERM"
  BY DoneMeansEnded DEF Flagged
<1>2. ASSUME NEW u \in Runners, pc'[u] \notin {"off", "enter"},
             idleFiber'[u].m_state = "TERM"
      PROVE  m_stopping'
  <2>1. CASE Stopping'
    BY <2>1 DEF Stopping
  <2>2. CASE pc[u] \notin {"off", "enter"} /\ idleFiber[u].m_state = "TERM"
    <3>1. m_stopping
      BY <2>2 DEF Flagged
    <3> QED
      BY <2>2, <3>1, FlagUntilStart
  <2> QED
    BY <1>2, <2>1, <2>2, IdleEnds
<1>3. ASSUME NEW t \in Threads, life'[t] = "finished", m_thread'[t]
      PROVE  m_stopping'
  <2>1. m_stopping
    <3>1. CASE life[t] = "finished" /\ m_thread[t]
      BY <3>1 DEF Flagged
    <3>2. CASE Exit(t)
      BY <3>2 DEF Exit, Flagged, Runners
    <3> QED
      BY <1>3, <3>1, <3>2, FinishedThread
  <2> QED
    BY <1>3, <2>1, FlagUntilStart
<1>4. ASSUME ~UseCaller, mpc' \in {"autoStop", "stopping"}
      PROVE  ~m_stopping'
  <2>1. CASE StopCall
    <3>1. UNCHANGED m_stopping /\ ~m_stopping
      BY <1>4, <2>1, Zenon DEF StopCall, flagVars
    <3> QED
      BY <3>1, Zenon
  <2>2. CASE StopAutoStop
    <3>1. UNCHANGED m_stopping /\ ~m_stopping
      BY <1>4, <2>2, Zenon DEF StopAutoStop, Flagged
    <3> QED
      BY <3>1, Zenon
  <2>3. CASE (OwnerCall /\ ~StopCall) \/ InStart \/ (InStop /\ ~StopAutoStop)
    BY <1>4, <2>3 DEF OwnerCall, OwnerSchedule, StartBegin, Destroy, InStart, StartCreate,
       StartWait, InStop, StopRootOnly, StopRootOnlyCheck, StopStopping, StopCallRoot,
       StopSwap, StopJoin, RootReturn, Owning
  <2>4. CASE ~OwnerCall /\ ~InStart /\ ~InStop
    <3>1. UNCHANGED m_stopping /\ mpc' = mpc
      BY <2>4, OwnerUntouched DEF flagVars, ownerVars
    <3>2. ~m_stopping
      BY <1>4, <3>1 DEF Flagged
    <3> QED
      BY <3>1, <3>2, Zenon
  <2> QED
    BY <2>1, <2>2, <2>3, <2>4
<1> QED
  BY <1>1, <1>2, <1>3, <1>4 DEF Flagged

-----------------------------------------------------------------------------
\* Unended

\* Where the entries of the queue come from.
LEMMA EntryOrigin ==
    ASSUME ~MayMigrate, IInv, [Next]_vars, NEW k \in 1..Len(m_tasks')
    PROVE  \/ \E i \in 1..Len(m_tasks) : m_tasks'[k] = m_tasks[i]
           \/ \E t \in Runners, j \in Jobs : \E pin \in {NoTid, t} :
                BodySchedule(t, j, pin) /\ m_tasks'[k] = JobTask(j, pin)
           \/ \E t \in Runners :
                BodyRequeue(t, t) /\ m_tasks'[k] = FiberTask(Current(t), t)
           \/ \E j \in Jobs, pin \in {NoTid} \cup (IF UseCaller THEN {Caller} ELSE {}) :
                OwnerSchedule(j, pin) /\ m_tasks'[k] = JobTask(j, pin)
           \/ \E j \in Jobs :
                OutsideSchedule(j) /\ m_tasks'[k] = JobTask(j, NoTid)
<1>1. m_tasks \in Seq(Task)
  BY DEF IInv, TypeOK
<1>2. ASSUME NEW tk \in Task, m_tasks' = Append(m_tasks, tk)
      PROVE  (\E i \in 1..Len(m_tasks) : m_tasks'[k] = m_tasks[i]) \/ m_tasks'[k] = tk
  BY <1>1, <1>2, AppendedQueue
<1>3. CASE UNCHANGED m_tasks
  BY <1>3
<1>4. ASSUME NEW t \in Runners, Take(t)
      PROVE  \E i \in 1..Len(m_tasks) : m_tasks'[k] = m_tasks[i]
  BY <1>1, <1>4, TakenQueue DEF Take
<1>5. ASSUME NEW t \in Runners, NEW j \in Jobs, NEW pin \in {NoTid, t},
             BodySchedule(t, j, pin)
      PROVE  (\E i \in 1..Len(m_tasks) : m_tasks'[k] = m_tasks[i])
             \/ m_tasks'[k] = JobTask(j, pin)
  BY <1>2, <1>5, TaskTypes DEF BodySchedule, Schedule
<1>6. ASSUME NEW t \in Runners, NEW pin \in {NoTid, t}, BodyRequeue(t, pin)
      PROVE  pin = t /\ ((\E i \in 1..Len(m_tasks) : m_tasks'[k] = m_tasks[i])
                         \/ m_tasks'[k] = FiberTask(Current(t), t))
  <2>1. Current(t) \in Jobs /\ pin = t
    BY <1>6, HoldsCurrent DEF BodyRequeue, BusyPC
  <2> QED
    BY <1>2, <1>6, <2>1, TaskTypes DEF BodyRequeue, Schedule
<1>7. ASSUME NEW j \in Jobs,
             NEW pin \in {NoTid} \cup (IF UseCaller THEN {Caller} ELSE {}),
             OwnerSchedule(j, pin)
      PROVE  (\E i \in 1..Len(m_tasks) : m_tasks'[k] = m_tasks[i])
             \/ m_tasks'[k] = JobTask(j, pin)
  BY <1>2, <1>7, TaskTypes DEF OwnerSchedule, Schedule, Runners
<1>8. ASSUME NEW j \in Jobs, OutsideSchedule(j)
      PROVE  (\E i \in 1..Len(m_tasks) : m_tasks'[k] = m_tasks[i])
             \/ m_tasks'[k] = JobTask(j, NoTid)
  BY <1>2, <1>8, TaskTypes DEF OutsideSchedule, Schedule
<1>9. ASSUME NEW t \in Runners, Run(t)
      PROVE  \/ \E i \in 1..Len(m_tasks) : m_tasks'[k] = m_tasks[i]
             \/ \E j \in Jobs : \E pin \in {NoTid, t} :
                  BodySchedule(t, j, pin) /\ m_tasks'[k] = JobTask(j, pin)
             \/ BodyRequeue(t, t) /\ m_tasks'[k] = FiberTask(Current(t), t)
  <2>1. CASE \E pin \in {NoTid, t} :
                \/ \E j \in Jobs : BodySchedule(t, j, pin)
                \/ BodyRequeue(t, pin)
    BY <1>5, <1>6, <2>1
  <2>2. CASE \/ RunEnter(t) \/ TakeNone(t) \/ IdleStep(t) \/ DispatchFiber(t)
             \/ DispatchEnded(t) \/ DispatchCb(t) \/ SwapIn(t) \/ BodyYield(t)
             \/ BodyReturn(t) \/ BodyThrow(t) \/ SwapOut(t) \/ Back(t) \/ Recycle(t)
    BY <1>3, <2>2 DEF RunEnter, TakeNone, IdleStep, DispatchFiber, DispatchEnded,
       DispatchCb, SwapIn, BodyYield, BodyReturn, BodyThrow, SwapOut, Back, Recycle
  <2> QED
    BY <1>4, <1>9, <2>1, <2>2 DEF Run, Body
<1>10. CASE Next /\ ~\E t \in Runners : Run(t)
  <2>1. CASE UNCHANGED m_tasks
    BY <1>3, <2>1
  <2>2. CASE OwnerCall
    BY <1>3, <1>7, <2>2 DEF OwnerCall, StartBegin, StopCall, Destroy
  <2>3. \/ UNCHANGED m_tasks \/ OwnerCall \/ \E j \in Jobs : OutsideSchedule(j)
    BY <1>10 DEF Next, PoolThread, Runners, RunThread, Exit, InStart, StartCreate,
       StartWait, InStop, StopAutoStop, StopRootOnly, StopRootOnlyCheck, StopStopping,
       StopCallRoot, StopSwap, StopJoin, RootReturn, Gone, vars
  <2> QED
    BY <1>8, <2>1, <2>2, <2>3
<1>11. CASE UNCHANGED vars
  BY <1>3, <1>11 DEF vars
<1> QED
  BY <1>9, <1>10, <1>11

\* A fiber in the queue keeps its job and does not end.
LEMMA QueuedFiberKept ==
    ASSUME ~EndQueued, IInv, Homes, Shapes, Unended, NEW t \in Runners, Run(t),
           NEW i \in 1..Len(m_tasks), NEW g \in Jobs, m_tasks[i].fiber = g
    PROVE  ~Ended(fib'[g]) /\ fib'[g].m_cb = fib[g].m_cb
<1>0. TypeOK /\ FitsPlace(t) /\ g # None
  BY NoneNotJob DEF IInv, Shapes
<1>1. ~Ended(fib[g]) /\ fib[g].m_cb # None /\ Queued(g)
  BY <1>0, LiveMeans DEF Unended
<1>2. CASE DispatchCb(t)
  <2>1. /\ cbFiber[t] # None /\ cbFiber[t] = g => fib[g].m_cb = None
        /\ task[t].fiber = None /\ pc[t] = "dispatch"
    BY <1>0, <1>2 DEF DispatchCb, FitsPlace, InCallback
  <2>2. task[t].cb # g
    BY <1>0, <1>1 DEF Homes, PendingApart
  <2>3. fib'[g] = fib[g]
    BY <1>0, <1>1, <1>2, <2>1, <2>2 DEF DispatchCb, TypeOK
  <2> QED
    BY <1>1, <2>3
<1>3. CASE SwapIn(t) \/ BodyYield(t) \/ SwapOut(t)
  <2>1. \/ fib'[g] = fib[g]
        \/ fib'[g] \in {Entered(fib[g]), YieldMarked(fib[g]), SwappedOut(fib[g], "yielded"),
                        SwappedOut(fib[g], "ended")}
    BY <1>0, <1>3 DEF SwapIn, BodyYield, SwapOut, TypeOK
  <2> QED
    BY <1>0, <1>1, <2>1 DEF TypeOK, FiberOf, Entered, YieldMarked, SwappedOut, Ended
<1>4. CASE BodyReturn(t) \/ BodyThrow(t)
  <2>1. pc[t] = "body"
    BY <1>4 DEF BodyReturn, BodyThrow
  <2>2. Current(t) # g
    <3> SUFFICES ASSUME Current(t) = g PROVE FALSE
      OBVIOUS
    <3>1. SelfQueued(t) /\ Job(t) # None
      BY <1>1, <2>1, SelfQueuedMeans DEF Job, BusyPC
    <3> QED
      BY <1>4, <3>1 DEF BodyReturn, BodyThrow, MayEnd
  <2>3. fib'[g] = fib[g]
    BY <1>0, <1>4, <2>2 DEF BodyReturn, BodyThrow, TypeOK
  <2> QED
    BY <1>1, <2>3
<1>5. CASE Recycle(t)
  <2>1. fib'[g] = fib[g]
    BY <1>0, <1>1, <1>5 DEF Recycle, TypeOK
  <2> QED
    BY <1>1, <2>1
<1>6. CASE UNCHANGED fib
  BY <1>1, <1>6
<1> QED
  BY <1>2, <1>3, <1>4, <1>5, <1>6 DEF Run, Body, RunEnter, Take, TakeNone, IdleStep,
     DispatchFiber, DispatchEnded, BodySchedule, BodyRequeue, Back

\* The same in every step; the fiber of a task for any thread is left alone.
LEMMA EntryFiberKept ==
    ASSUME ~EndQueued, IInv, Homes, Shapes, Unended, [Next]_vars,
           NEW i \in 1..Len(m_tasks), NEW g \in Jobs, m_tasks[i].fiber = g
    PROVE  /\ ~Ended(fib'[g]) /\ fib'[g].m_cb = fib[g].m_cb
           /\ m_tasks[i].thread = NoTid => fib'[g] = fib[g]
<1>0. ~Ended(fib[g]) /\ g # None
  BY NoneNotJob DEF Unended
<1>1. ASSUME NEW t \in Runners, Run(t)
      PROVE  /\ ~Ended(fib'[g]) /\ fib'[g].m_cb = fib[g].m_cb
             /\ m_tasks[i].thread = NoTid => fib'[g] = fib[g]
  <2>1. ~Ended(fib'[g]) /\ fib'[g].m_cb = fib[g].m_cb
    BY <1>1, QueuedFiberKept
  <2>2. ASSUME m_tasks[i].thread = NoTid
        PROVE  fib'[g] = fib[g]
    <3>1. ~Holds(t, g)
      BY <1>0, <2>2, FiberForTypes DEF Homes, EntryOfHolder, FiberFor
    <3> QED
      BY <1>1, <3>1, RunLocal
  <2> QED
    BY <2>1, <2>2
<1>2. CASE Next /\ ~\E t \in Runners : Run(t)
  BY <1>0, <1>2, OtherSteps
<1>3. CASE UNCHANGED vars
  BY <1>0, <1>3 DEF vars
<1> QED
  BY <1>1, <1>2, <1>3

\* A task that is new in the queue is about a new job, or is a fiber's that
\* asks for its own thread.
LEMMA NewEntry ==
    ASSUME ~MayMigrate, IInv, Shapes, Tracking, [Next]_vars, NEW k \in 1..Len(m_tasks'),
           ~\E i \in 1..Len(m_tasks) : m_tasks'[k] = m_tasks[i],
           NEW g \in Jobs, m_tasks'[k].fiber = g
    PROVE  /\ ~Ended(fib'[g]) /\ fib'[g].m_cb # None
           /\ m_tasks'[k].thread = NoTid => fib'[g].m_state = "INIT"
<1>0. NoTid \notin Runners /\ None \notin Jobs
  BY FiberForTypes, NoneNotJob
<1>1. ASSUME NEW j \in Jobs \ submitted, NEW pin, m_tasks'[k] = JobTask(j, pin), UNCHANGED fib
      PROVE  /\ ~Ended(fib'[g]) /\ fib'[g].m_cb # None
             /\ fib'[g].m_state = "INIT"
  <2>1. j = g /\ j \in FiberJobs
    BY <1>0, <1>1 DEF JobTask, FiberTask, CbTask
  <2>2. fib'[g] = NewFiber(g)
    BY <1>1, <2>1 DEF Tracking, NewFresh
  <2> QED
    BY <1>0, <2>2 DEF NewFiber, Ended
<1>2. ASSUME NEW t \in Runners, BodyRequeue(t, t), m_tasks'[k] = FiberTask(Current(t), t)
      PROVE  /\ ~Ended(fib'[g]) /\ fib'[g].m_cb # None
             /\ m_tasks'[k].thread # NoTid
  <2>1. g = Current(t) /\ m_tasks'[k].thread = t
    BY <1>2 DEF FiberTask
  <2>2. fib[g].m_state = "EXEC" /\ fib[g].m_cb \in Jobs /\ UNCHANGED fib
    BY <1>2, <2>1 DEF BodyRequeue, Shapes, FitsPlace, Job
  <2> QED
    BY <1>0, <2>1, <2>2 DEF Ended
<1>3. \/ \E j \in Jobs \ submitted : \E pin : m_tasks'[k] = JobTask(j, pin) /\ UNCHANGED fib
      \/ \E t \in Runners : BodyRequeue(t, t) /\ m_tasks'[k] = FiberTask(Current(t), t)
  BY EntryOrigin DEF BodySchedule, OwnerSchedule, OutsideSchedule
<1> QED
  BY <1>1, <1>2, <1>3

\* Unended is inductive relative to the invariants of fibers and jobs.
LEMMA UnendedNext ==
    ASSUME ~MayMigrate, ~EndQueued, IInv, Placed, Homes, Shapes, Tracking, Unended,
           IInv',
           [Next]_vars
    PROVE  Unended'
<1>0. TypeOK /\ m_tasks' \in Seq(Task)
  BY DEF IInv, TypeOK
<1>1. ASSUME NEW k \in 1..Len(m_tasks'), m_tasks'[k].fiber # None
      PROVE  /\ ~Ended(fib'[m_tasks'[k].fiber]) /\ fib'[m_tasks'[k].fiber].m_cb # None
             /\ m_tasks'[k].thread = NoTid => fib'[m_tasks'[k].fiber].m_state = "INIT"
  <2>1. PICK g \in Jobs : g = m_tasks'[k].fiber
    BY <1>0, <1>1, FiberForTypes
  <2>2. CASE \E i \in 1..Len(m_tasks) : m_tasks'[k] = m_tasks[i]
    <3>1. PICK i \in 1..Len(m_tasks) : m_tasks'[k] = m_tasks[i]
      BY <2>2
    <3>2. /\ ~Ended(fib'[g]) /\ fib'[g].m_cb = fib[g].m_cb
          /\ m_tasks[i].thread = NoTid => fib'[g] = fib[g]
      BY <2>1, <3>1, EntryFiberKept
    <3>3. fib[g].m_cb # None /\ (m_tasks[i].thread = NoTid => fib[g].m_state = "INIT")
      BY <1>1, <2>1, <3>1 DEF Unended
    <3> QED
      BY <2>1, <3>1, <3>2, <3>3
  <2>3. CASE ~\E i \in 1..Len(m_tasks) : m_tasks'[k] = m_tasks[i]
    BY <2>1, <2>3, NewEntry
  <2> QED
    BY <2>2, <2>3
<1>2. ASSUME NEW u \in Runners, pc'[u] = "dispatch", task'[u].fiber # None
      PROVE  ~Ended(fib'[task'[u].fiber]) /\ fib'[task'[u].fiber].m_cb # None
  <2>1. CASE Take(u)
    <3>1. PICK i \in 1..Len(m_tasks) : task' = [task EXCEPT ![u] = m_tasks[i]]
      BY <2>1 DEF Take
    <3>2. task'[u] = m_tasks[i] /\ m_tasks[i] \in Task /\ UNCHANGED fib
      BY <1>0, <2>1, <3>1 DEF Take, TypeOK
    <3> QED
      BY <1>2, <3>1, <3>2 DEF Unended
  <2>2. ASSUME pc[u] = "dispatch", task'[u] = task[u],
               \A g \in Jobs : Holds(u, g) => fib'[g] = fib[g]
        PROVE  ~Ended(fib'[task'[u].fiber]) /\ fib'[task'[u].fiber].m_cb # None
    <3>1. task[u] \in Task
      BY <2>2 DEF IInv, HasFiber
    <3>2. PICK g \in Jobs : g = task[u].fiber
      BY <1>2, <2>2, <3>1, FiberForTypes
    <3>3. Holds(u, g)
      BY <3>2, LiveMeans
    <3> QED
      BY <1>2, <2>2, <3>2, <3>3 DEF Unended
  <2>3. CASE Run(u) /\ ~Take(u)
    <3>1. pc'[u] # "dispatch"
      BY <1>0, <2>3 DEF Run, Body, RunEnter, TakeNone, IdleBranch, IdleStep, DispatchFiber,
         DispatchEnded, DispatchCb, SwapIn, BodySchedule, BodyRequeue, BodyYield, BodyReturn,
         BodyThrow, SwapOut, Back, Recycle, Goto, TypeOK
    <3> QED
      BY <1>2, <3>1
  <2>4. ASSUME NEW t \in Runners, Run(t), t # u
        PROVE  ~Ended(fib'[task'[u].fiber]) /\ fib'[task'[u].fiber].m_cb # None
    <3>1. pc[u] = "dispatch" /\ task'[u] = task[u]
      BY <1>2, <2>4, RunLocal
    <3>2. \A g \in Jobs : Holds(u, g) => fib'[g] = fib[g]
      BY <2>4, RunLocal DEF Homes, OneHolder
    <3> QED
      BY <2>2, <3>1, <3>2
  <2>5. CASE Next /\ ~\E t \in Runners : Run(t)
    <3>1. pc[u] = "dispatch"
      BY <1>2, <2>5, OtherPlaces DEF Placed
    <3> QED
      BY <2>2, <2>5, <3>1, OtherSteps
  <2>6. CASE UNCHANGED vars
    BY <1>2, <2>2, <2>6 DEF vars, localVars
  <2> QED
    BY <2>1, <2>3, <2>4, <2>5, <2>6
<1> QED
  BY <1>1, <1>2 DEF Unended

\* The queue is empty and nobody is in run().
LEMMA UnendedInit == Init => Unended
BY DEF Init, Unended

-----------------------------------------------------------------------------
\* Attended

\* The scan passes over no task that the thread may take: a fiber that is on a
\* stack and in the queue is there for the thread that is on it.
LEMMA EligibleAtLoop ==
    ASSUME IInv, Homes, Shapes, NEW t \in Runners, pc[t] = "loop",
           NEW i \in 1..Len(m_tasks), m_tasks[i].thread \in {NoTid, t}
    PROVE  Eligible(t, m_tasks[i])
<1> SUFFICES ASSUME m_tasks[i].fiber # None, fib[m_tasks[i].fiber].m_state = "EXEC"
             PROVE  FALSE
  BY DEF Eligible
<1>1. m_tasks[i] \in Task
  BY DEF IInv, TypeOK
<1>2. PICK g \in Jobs : g = m_tasks[i].fiber /\ g = FiberFor(m_tasks[i])
  BY <1>1, FiberForTypes
<1>3. PICK v \in Runners : v \in OnStack(g)
  BY <1>2 DEF Shapes, Rested, Resting, Ended, OnStack
<1>4. pc[v] \in {"body", "yield", "end"} /\ Holds(v, g)
  BY <1>3, HoldsCurrent DEF OnStack, BusyPC
<1>5. m_tasks[i].thread = v
  BY <1>2, <1>4 DEF Homes, EntryOfHolder
<1> QED
  BY <1>4, <1>5, FiberForTypes

\* A thread leaves run() only from the scan that finds nothing for it.
LEMMA StaysIn ==
    ASSUME IInv, Placed, Unended, [Next]_vars, NEW u \in Runners, pc[u] \notin {"off", "done"}
    PROVE  /\ pc'[u] # "off"
           /\ pc'[u] = "done" => TakeNone(u)
           /\ pc[u] # "enter" => pc'[u] # "enter"
<1>0. TypeOK
  BY DEF IInv
<1>1. ~DispatchEnded(u)
  BY DEF DispatchEnded, Unended
<1>2. CASE Run(u) /\ ~TakeNone(u)
  BY <1>0, <1>1, <1>2 DEF Run, Body, RunEnter, Take, IdleStep, DispatchFiber, DispatchCb,
     SwapIn, BodySchedule, BodyRequeue, BodyYield, BodyReturn, BodyThrow, SwapOut, Back,
     Recycle, Goto, TypeOK
<1>3. CASE TakeNone(u)
  BY <1>0, <1>3 DEF TakeNone, IdleBranch, Goto, TypeOK
<1>4. ASSUME NEW t \in Runners, Run(t), t # u
      PROVE  pc'[u] = pc[u]
  BY <1>4, RunPlace
<1>5. CASE Next /\ ~\E t \in Runners : Run(t)
  BY <1>5, OtherPlaces
<1>6. CASE UNCHANGED vars
  BY <1>6 DEF vars
<1> QED
  BY <1>2, <1>3, <1>4, <1>5, <1>6

\* A thread in run() stays there as long as the queue has a task for it.
LEMMA StaysFor ==
    ASSUME IInv, Placed, Homes, Shapes, Unended, [Next]_vars, NEW u \in Runners,
           pc[u] \notin {"off", "done"},
           NEW i \in 1..Len(m_tasks), m_tasks[i].thread \in {NoTid, u}
    PROVE  pc'[u] \notin {"off", "done"} /\ (pc[u] # "enter" => pc'[u] # "enter")
<1>1. ~TakeNone(u)
  BY EligibleAtLoop DEF TakeNone
<1> QED
  BY <1>1, StaysIn

\* How the owner comes to wait for the threads of the pool.
LEMMA IntoJoin ==
    ASSUME IInv, [Next]_vars, mpc' \in {"swap", "join", "stopped"},
           mpc \notin {"swap", "join", "stopped"}
    PROVE  \/ StopStopping /\ ~UseCaller
           \/ RootReturn
           \/ Stopping /\ UNCHANGED m_tasks
<1>1. OwnerCall \/ InStart \/ InStop
  BY OwnerUntouched DEF ownerVars
<1> QED
  BY <1>1 DEF OwnerCall, OwnerSchedule, StartBegin, StopCall, Destroy, InStart, StartCreate,
     StartWait, InStop, StopAutoStop, StopRootOnly, StopRootOnlyCheck, StopStopping,
     StopCallRoot, StopSwap, StopJoin

\* When stop() sets m_stopping and there is no use_caller, the first thread of
\* the pool is in run().
LEMMA PoolInRun ==
    ASSUME IInv, Placed, Owning, Pooled, Flagged, mpc = "stopping", ~UseCaller
    PROVE  \E t \in Threads : pc[t] \notin {"off", "done"}
<1>1. m_threads # <<>> /\ m_threads \in Seq(Threads) /\ ~m_stopping
  BY DEF Owning, StopPC, IInv, TypeOK, Flagged
<1>2. PICK t \in Threads : Listed(t)
  <2>1. m_threads[1] \in Threads /\ 1 \in 1..Len(m_threads)
    BY <1>1
  <2> QED
    BY <2>1 DEF Listed
<1>3. life[t] # "finished"
  <2>1. m_thread[t]
    BY <1>2, PooledMeans, Zenon
  <2> QED
    BY <1>1, <2>1, Zenon DEF Flagged
<1>4. life[t] = "running"
  <2>1. life[t] \in {"none", "created", "running", "finished"}
    BY DEF IInv, TypeOK, ThreadTypeOK, Life
  <2>2. life[t] # "created" /\ life[t] # "none"
    BY <1>2, PooledMeans
  <2> QED
    BY <1>3, <2>1, <2>2
<1>5. pc[t] # "off"
  BY <1>4 DEF Placed
<1>6. pc[t] # "done"
  BY <1>1 DEF Flagged, Runners
<1> QED
  BY <1>5, <1>6

\* A task that came too late stays so, until stop() is called again.
LEMMA LateStays ==
    ASSUME ~EndQueued, IInv, Homes, Shapes, Unended, [Next]_vars, ~StopCall,
           NEW i \in 1..Len(m_tasks), NEW j \in late, Carries(m_tasks[i], j),
           NEW k \in 1..Len(m_tasks'), m_tasks'[k] = m_tasks[i]
    PROVE  j \in late' /\ Carries(m_tasks[k], j)'
<1>1. j \in late'
  <2>1. late \subseteq late'
    <3>1. ASSUME NEW t \in Runners, Run(t)
          PROVE  late' = late
      BY <3>1 DEF Run, Body, RunEnter, Take, TakeNone, IdleStep, DispatchFiber,
         DispatchEnded, DispatchCb, SwapIn, BodySchedule, BodyRequeue, BodyYield,
         BodyReturn, BodyThrow, SwapOut, Back, Recycle, jobVars
    <3>2. CASE Next /\ ~\E t \in Runners : Run(t)
      BY <3>2 DEF Next, PoolThread, Runners, RunThread, Exit, OwnerCall, OwnerSchedule,
         StartBegin, Destroy, InStart, StartCreate, StartWait, InStop, StopAutoStop,
         StopRootOnly, StopRootOnlyCheck, StopStopping, StopCallRoot, StopSwap, StopJoin,
         RootReturn, OutsideSchedule, Gone, vars, jobVars
    <3>3. CASE UNCHANGED vars
      BY <3>3 DEF vars, jobVars
    <3> QED
      BY <3>1, <3>2, <3>3
  <2> QED
    BY <2>1
<1>2. m_tasks[i] \in Task
  BY DEF IInv, TypeOK
<1>3. CASE m_tasks[i].cb = j
  BY <1>1, <1>3 DEF Carries
<1>4. CASE m_tasks[i].fiber # None /\ fib[m_tasks[i].fiber].m_cb = j
  <2>1. PICK g \in Jobs : g = m_tasks[i].fiber
    BY <1>2, <1>4, FiberForTypes
  <2>2. fib'[g].m_cb = fib[g].m_cb
    BY <2>1, EntryFiberKept
  <2> QED
    BY <1>1, <1>4, <2>1, <2>2 DEF Carries
<1> QED
  BY <1>3, <1>4 DEF Carries

\* Attended, for a task that was in the queue before.
LEMMA AttendedOld ==
    ASSUME ~EndQueued, IInv, Placed, Homes, Shapes, Owning, Pooled, LateInv,
           [Next]_vars, NEW i \in 1..Len(m_tasks),
           NEW k \in 1..Len(m_tasks'), m_tasks'[k] = m_tasks[i]
    PROVE  /\ m_tasks[i].thread \in Threads =>
                pc'[m_tasks[i].thread] \notin {"off", "enter", "done"}
           /\ m_tasks[i].thread = Caller =>
                UseCaller /\ mpc' \notin {"swap", "join", "stopped"} /\ pc'[Caller] # "done"
           /\ /\ m_tasks[i].thread = NoTid
              /\ mpc' \in {"swap", "join", "stopped"} \/ pc'[Caller] = "done"
              => \/ \E j \in late' : Carries(m_tasks[k], j)'
                 \/ \E t \in Runners : pc'[t] \notin {"off", "done"}
<1>0. Flagged /\ Unended /\ Attended /\ Caller \in Runners /\ Caller # NoTid
  BY SchedulerAssumption DEF LateInv, Runners
<1>1. ASSUME m_tasks[i].thread \in Threads
      PROVE  pc'[m_tasks[i].thread] \notin {"off", "enter", "done"}
  BY <1>0, <1>1, StaysFor DEF Attended, Runners
<1>2. ASSUME m_tasks[i].thread \in {NoTid, Caller}, pc[Caller] # "done"
      PROVE  pc'[Caller] # "done"
  <2>1. CASE pc[Caller] = "off"
    <3>1. pc'[Caller] = pc[Caller] \/ pc'[Caller] \in {"off", "enter"}
      BY <1>0, <2>1, OtherPlaces, RunPlace DEF vars
    <3> QED
      BY <2>1, <3>1
  <2>2. CASE pc[Caller] # "off"
    BY <1>0, <1>2, <2>2, StaysFor
  <2> QED
    BY <2>1, <2>2
<1>3. ~(Stopping /\ UNCHANGED m_tasks)
  BY DEF Stopping
<1>4. ASSUME m_tasks[i].thread = Caller
      PROVE  UseCaller /\ mpc' \notin {"swap", "join", "stopped"} /\ pc'[Caller] # "done"
  <2>1. UseCaller /\ mpc \notin {"swap", "join", "stopped"} /\ pc[Caller] # "done"
    BY <1>0, <1>4 DEF Attended
  <2> QED
    BY <1>2, <1>3, <1>4, <2>1, IntoJoin DEF RootReturn
<1>5. ASSUME m_tasks[i].thread = NoTid,
             mpc' \in {"swap", "join", "stopped"} \/ pc'[Caller] = "done"
      PROVE  \/ \E j \in late' : Carries(m_tasks[k], j)'
             \/ \E t \in Runners : pc'[t] \notin {"off", "done"}
  <2>1. ASSUME NEW t \in Runners, pc[t] \notin {"off", "done"}
        PROVE  \E u \in Runners : pc'[u] \notin {"off", "done"}
    BY <1>0, <1>5, <2>1, StaysFor
  <2>2. CASE mpc \in {"swap", "join", "stopped"} \/ pc[Caller] = "done"
    <3>1. CASE \E j \in late : Carries(m_tasks[i], j)
      <4>1. ~StopCall
        <5> SUFFICES ASSUME StopCall PROVE FALSE
          OBVIOUS
        <5>1. mpc \in {"ready", "stopped"} /\ mpc' = "autoStop" /\ pc'[Caller] = pc[Caller]
          BY DEF StopCall, Client
        <5> QED
          BY <1>5, <5>1 DEF Placed
      <4>2. PICK j \in late : Carries(m_tasks[i], j)
        BY <3>1
      <4> QED
        BY <1>0, <4>1, <4>2, LateStays
    <3>2. CASE \E t \in Runners : pc[t] \notin {"off", "done"}
      BY <2>1, <3>2
    <3> QED
      BY <1>0, <1>5, <2>2, <3>1, <3>2 DEF Attended
  <2>3. CASE mpc \notin {"swap", "join", "stopped"} /\ pc[Caller] # "done"
    <3>1. StopStopping /\ ~UseCaller
      BY <1>2, <1>3, <1>5, <2>3, IntoJoin DEF RootReturn
    <3> QED
      BY <1>0, <2>1, <3>1, PoolInRun DEF StopStopping, Runners
  <2> QED
    BY <2>2, <2>3
<1> QED
  BY <1>1, <1>4, <1>5

\* Attended, for a task that is new in the queue.
LEMMA AttendedNew ==
    ASSUME ~MayMigrate, IInv, Placed, Owning, Tracking, [Next]_vars,
           NEW k \in 1..Len(m_tasks'),
           ~\E i \in 1..Len(m_tasks) : m_tasks'[k] = m_tasks[i]
    PROVE  /\ m_tasks'[k].thread \in Threads =>
                pc'[m_tasks'[k].thread] \notin {"off", "enter", "done"}
           /\ m_tasks'[k].thread = Caller =>
                UseCaller /\ mpc' \notin {"swap", "join", "stopped"} /\ pc'[Caller] # "done"
           /\ /\ m_tasks'[k].thread = NoTid
              /\ mpc' \in {"swap", "join", "stopped"} \/ pc'[Caller] = "done"
              => \/ \E j \in late' : Carries(m_tasks[k], j)'
                 \/ \E t \in Runners : pc'[t] \notin {"off", "done"}
<1>0. Caller \in Runners /\ Caller \notin Threads /\ NoTid \notin Runners /\ TypeOK
  BY SchedulerAssumption, FiberForTypes DEF Runners, IInv
<1>1. ASSUME NEW t \in Runners, pc'[t] = "body", pc[t] = "body", mpc' = mpc,
             m_tasks'[k].thread \in {NoTid, t}
      PROVE  /\ m_tasks'[k].thread \in Threads => m_tasks'[k].thread = t
             /\ m_tasks'[k].thread = Caller =>
                  UseCaller /\ mpc' \notin {"swap", "join", "stopped"} /\ t = Caller
             /\ \E u \in Runners : pc'[u] \notin {"off", "done"}
  <2>1. t = Caller => mpc = "called" /\ UseCaller
    BY <1>1 DEF Placed, Owning
  <2> QED
    BY <1>0, <1>1, <2>1 DEF Runners
<1>2. ASSUME NEW t \in Runners, NEW j \in Jobs, NEW pin \in {NoTid, t},
             BodySchedule(t, j, pin), m_tasks'[k] = JobTask(j, pin)
      PROVE  pc'[t] = "body" /\ pc[t] = "body" /\ mpc' = mpc /\ m_tasks'[k].thread \in {NoTid, t}
  BY <1>2 DEF BodySchedule, JobTask, FiberTask, CbTask, ownerVars
<1>3. ASSUME NEW t \in Runners, BodyRequeue(t, t), m_tasks'[k] = FiberTask(Current(t), t)
      PROVE  pc'[t] = "body" /\ pc[t] = "body" /\ mpc' = mpc /\ m_tasks'[k].thread \in {NoTid, t}
  BY <1>3 DEF BodyRequeue, FiberTask, ownerVars
<1>4. ASSUME NEW j \in Jobs, NEW pin \in {NoTid} \cup (IF UseCaller THEN {Caller} ELSE {}),
             OwnerSchedule(j, pin), m_tasks'[k] = JobTask(j, pin)
      PROVE  /\ m_tasks'[k].thread \notin Threads
             /\ m_tasks'[k].thread = Caller => UseCaller
             /\ mpc' = "ready" /\ pc'[Caller] # "done"
  <2>1. m_tasks'[k].thread = pin
    BY <1>4 DEF JobTask, FiberTask, CbTask
  <2>2. mpc' = "ready" /\ mpc # "called" /\ UNCHANGED pc
    BY <1>4 DEF OwnerSchedule, Client
  <2>3. pc'[Caller] # "done"
    BY <2>2 DEF Placed
  <2> QED
    BY <1>0, <2>1, <2>2, <2>3 DEF Runners
<1>5. ASSUME NEW j \in Jobs, OutsideSchedule(j), m_tasks'[k] = JobTask(j, NoTid)
      PROVE  /\ m_tasks'[k].thread = NoTid
             /\ mpc' \in {"swap", "join", "stopped"} \/ pc'[Caller] = "done" =>
                   j \in late' /\ Carries(m_tasks[k], j)'
  <2>1. m_tasks'[k].thread = NoTid
    BY <1>5 DEF JobTask, FiberTask, CbTask
  <2>2. mpc' = mpc /\ UNCHANGED <<pc, fib>> /\ j \notin submitted
    BY <1>5 DEF OutsideSchedule, ownerVars
  <2>3. ASSUME mpc' \in {"swap", "join", "stopped"} \/ pc'[Caller] = "done"
        PROVE  j \in late'
    <3>1. mpc \in StopPC \cup {"stopped"}
      BY <2>2, <2>3 DEF Placed, StopPC
    <3> QED
      BY <1>5, <3>1 DEF OutsideSchedule
  <2>4. Carries(m_tasks[k], j)'
    <3>1. CASE j \in FiberJobs
      <4>1. fib[j] = NewFiber(j)
        BY <2>2, <3>1 DEF Tracking, NewFresh
      <4>2. fib'[j].m_cb = j
        BY <2>2, <4>1 DEF NewFiber
      <4> QED
        BY <1>5, <3>1, <4>2, NoneNotJob DEF Carries, JobTask, FiberTask
    <3>2. CASE j \notin FiberJobs
      BY <1>5, <3>2 DEF Carries, JobTask, CbTask
    <3> QED
      BY <3>1, <3>2
  <2> QED
    BY <2>1, <2>3, <2>4
<1>6. CASE \E t \in Runners : /\ pc'[t] = "body" /\ pc[t] = "body" /\ mpc' = mpc
                              /\ m_tasks'[k].thread \in {NoTid, t}
  BY <1>0, <1>1, <1>6
<1>7. CASE \E j \in Jobs, pin \in {NoTid} \cup (IF UseCaller THEN {Caller} ELSE {}) :
             OwnerSchedule(j, pin) /\ m_tasks'[k] = JobTask(j, pin)
  BY <1>0, <1>4, <1>7
<1>8. CASE \E j \in Jobs : OutsideSchedule(j) /\ m_tasks'[k] = JobTask(j, NoTid)
  BY <1>0, <1>5, <1>8 DEF Runners
<1> QED
  BY <1>2, <1>3, <1>6, <1>7, <1>8, EntryOrigin

\* Attended is inductive relative to the invariants before it.
LEMMA AttendedNext ==
    ASSUME ~MayMigrate, ~EndQueued, IInv, Placed, Homes, Shapes, Tracking, Owning,
           Pooled, LateInv, [Next]_vars
    PROVE  Attended'
<1> SUFFICES ASSUME NEW k \in 1..Len(m_tasks')
             PROVE  /\ m_tasks'[k].thread \in Threads =>
                        pc'[m_tasks'[k].thread] \notin {"off", "enter", "done"}
                    /\ m_tasks'[k].thread = Caller =>
                        /\ UseCaller /\ mpc' \notin {"swap", "join", "stopped"}
                        /\ pc'[Caller] # "done"
                    /\ /\ m_tasks'[k].thread = NoTid
                       /\ mpc' \in {"swap", "join", "stopped"} \/ pc'[Caller] = "done"
                       => \/ \E j \in late' : Carries(m_tasks[k], j)'
                          \/ \E t \in Runners : pc'[t] \notin {"off", "done"}
  BY DEF Attended
<1>1. CASE \E i \in 1..Len(m_tasks) : m_tasks'[k] = m_tasks[i]
  <2>1. PICK i \in 1..Len(m_tasks) : m_tasks'[k] = m_tasks[i]
    BY <1>1
  <2> QED
    BY <2>1, AttendedOld
<1>2. CASE ~\E i \in 1..Len(m_tasks) : m_tasks'[k] = m_tasks[i]
  BY <1>2, AttendedNew
<1> QED
  BY <1>1, <1>2

-----------------------------------------------------------------------------
\* What the owner can rely on

\* Owning and Pooled hold of every pool, also of one whose fibers change threads,
\* whose fibers end while queued, that is used from outside or used again.
LEMMA OwnerInvariance == Spec => [](IInv /\ Placed /\ Owning /\ Pooled)
<1>1. Init => IInv /\ Placed /\ Owning /\ Pooled
  BY InitInvariant, ShapesInit, OwningInit, PooledInit
<1>2. IInv /\ Placed /\ Owning /\ Pooled /\ [Next]_vars =>
        IInv' /\ Placed' /\ Owning' /\ Pooled'
  BY NextInvariant, PlacedNext, OwningNext, PooledNext
<1> QED
  BY <1>1, <1>2, PTL DEF Spec

\* Without schedule() from outside Seen holds too.
LEMMA StopInvariance == ASSUME OutsideJobs = {} PROVE Spec => []StopInv
<1>1. Init => IInv /\ Placed /\ StopInv
  BY InitInvariant, ShapesInit, OwningInit, PooledInit, SeenInit DEF StopInv
<1>2. IInv /\ Placed /\ StopInv /\ [Next]_vars => IInv' /\ Placed' /\ StopInv'
  BY NextInvariant, PlacedNext, OwningNext, PooledNext, SeenNext DEF StopInv
<1> QED
  BY <1>1, <1>2, PTL DEF Spec

\* A scheduler that has not been used.
LEMMA LateInit == Init => LateInv
<1>1. Init => Flagged
  BY DEF Init, ThreadInit, Flagged
<1>2. Init => Attended
  BY DEF Init, Attended
<1> QED
  BY <1>1, <1>2, UnendedInit DEF LateInv

\* With schedule() from outside LateInv holds, if jobs do not end while they are
\* in the queue.
LEMMA LateInvariance ==
    ASSUME ~MayMigrate, ~EndQueued PROVE Spec => []LateInv
<1>1. JobInv /\ JobInv' /\ Owning /\ Pooled /\ LateInv /\ [Next]_vars => LateInv'
  <2> SUFFICES ASSUME JobInv, JobInv', Owning, Pooled, LateInv, [Next]_vars PROVE LateInv'
    OBVIOUS
  <2>1. IInv /\ IInv' /\ Placed /\ Homes /\ Shapes /\ Tracking /\ Flagged /\ Unended
    BY DEF JobInv, LateInv
  <2>2. Flagged'
    BY <2>1, FlaggedNext
  <2>3. Unended'
    BY <2>1, UnendedNext
  <2>4. Attended'
    BY <2>1, AttendedNext
  <2> QED
    BY <2>2, <2>3, <2>4 DEF LateInv
<1> QED
  BY <1>1, LateInit, JobInvariance, OwnerInvariance, PTL DEF Spec

\* No step of the owner fails an assertion, unless it stops a scheduler with
\* use_caller again: the root fiber cannot be entered twice.
LEMMA OwnerAsserts ==
    ASSUME ~(MayReuse /\ UseCaller), IInv, Owning, mpc # "abort", [Next]_vars
    PROVE  mpc' # "abort"
<1>1. CASE ~OwnerCall /\ ~InStart /\ ~InStop
  <2>1. mpc' = mpc
    BY <1>1, OwnerUntouched DEF ownerVars
  <2> QED
    BY <2>1
<1>2. CASE StartBegin
  <2>1. m_threads = <<>>
    BY <1>2 DEF StartBegin, Client, Owning
  <2> QED
    BY <1>2, <2>1 DEF StartBegin
<1>3. CASE Destroy
  <2>1. m_stopping
    BY <1>3 DEF Destroy, Owning
  <2>2. Idle(m_rootFiber)
    BY <1>3 DEF Destroy, Owning, Idle
  <2> QED
    BY <1>3, <2>1, <2>2 DEF Destroy
<1>4. CASE StopCallRoot
  <2>1. mpc = "callRoot"
    BY <1>4 DEF StopCallRoot
  <2>2. ~MayReuse
    BY <2>1 DEF Owning
  <2>3. m_rootFiber.m_state = "INIT" /\ m_rootFiber.m_ctx = "entry"
    BY <2>1, <2>2 DEF Owning, StopPC
  <2> QED
    BY <1>4, <2>3 DEF StopCallRoot, Enterable
<1>5. CASE \/ \E j \in Jobs, pin \in {NoTid} \cup (IF UseCaller THEN {Caller} ELSE {}) :
                OwnerSchedule(j, pin)
           \/ StopCall \/ InStart \/ (InStop /\ ~StopCallRoot)
  BY <1>5 DEF OwnerSchedule, StopCall, InStart, StartCreate, StartWait, InStop,
     StopAutoStop, StopRootOnly, StopRootOnlyCheck, StopStopping, StopSwap, StopJoin,
     RootReturn
<1> QED
  BY <1>1, <1>2, <1>3, <1>4, <1>5 DEF OwnerCall

\* No assertion of the scheduler, of its fibers or of its owner fails, provided
\* fibers stay with their thread and a scheduler with use_caller is stopped once.
THEOREM AssertionsNeverFail ==
    ASSUME ~MayMigrate, ~(MayReuse /\ UseCaller)
    PROVE  Spec => []AssertionsHold
<1>1. Init => mpc # "abort"
  BY DEF Init
<1>2. IInv /\ Owning /\ mpc # "abort" /\ [Next]_vars => (mpc # "abort")'
  BY OwnerAsserts
<1>3. JobInv /\ mpc # "abort" => AssertionsHold
  BY DEF JobInv, Shapes, FitsPlace, AssertionsHold
<1> QED
  BY <1>1, <1>2, <1>3, JobInvariance, OwnerInvariance, PTL DEF Spec

\* What is left when stop() has returned was late and has not begun.
OnlyLate == mpc = "stopped" => \A j \in submitted \ ended : j \in late /\ runs[j] = 0

\* Without schedule() from outside stop() returns with everything executed.
LEMMA DrainsFromInvariant ==
    ASSUME JobInv, StopInv
    PROVE  StopDrains /\ OnlyLate
<1> SUFFICES ASSUME mpc = "stopped"
             PROVE  /\ submitted \ ended = {}
                    /\ m_tasks = <<>>
                    /\ \A t \in Threads : life[t] \in {"none", "finished"} /\ ~m_thread[t]
                    /\ \A t \in Runners : pc[t] = "off"
  BY DEF StopDrains, OnlyLate
<1>1. Stopping
  BY DEF StopInv, Seen
<1>2. m_tasks = <<>>
  BY <1>1 DEF Stopping
<1>3. Busy = {}
  BY <1>1, QuietFromInvariant DEF JobInv, StoppingMeansQuiet
<1>4. submitted \ ended = {}
  BY <1>2, <1>3 DEF JobInv, JobsAccounted
<1> QED
  BY <1>2, <1>4, NobodyLeft DEF JobInv, StopInv

\* With it, what is left in the queue is for any thread and has not begun.
LEMMA DrainsFromLate ==
    ASSUME JobInv, Owning, Pooled, LateInv
    PROVE  StopDrains /\ OnlyLate
<1> SUFFICES ASSUME mpc = "stopped"
             PROVE  /\ \A j \in submitted \ ended : j \in late /\ runs[j] = 0
                    /\ \A i \in 1..Len(m_tasks) :
                         \E j \in late \ ended : Carries(m_tasks[i], j)
                    /\ \A t \in Threads : life[t] \in {"none", "finished"} /\ ~m_thread[t]
                    /\ \A t \in Runners : pc[t] = "off"
  BY DEF StopDrains, OnlyLate
<1>0. IInv /\ TypeOK /\ Placed /\ Tracking /\ JobsAccounted /\ Unended /\ Attended
  BY DEF JobInv, IInv, LateInv
<1>1. /\ \A t \in Runners : pc[t] = "off"
      /\ \A t \in Threads : life[t] \in {"none", "finished"} /\ ~m_thread[t]
  BY <1>0, NobodyLeft
<1>2. ASSUME NEW i \in 1..Len(m_tasks)
      PROVE  m_tasks[i] \in Task /\ m_tasks[i].thread = NoTid
  <2>1. m_tasks[i] \in Task /\ m_tasks[i].thread \in Runners \cup {NoTid}
    BY <1>0 DEF TypeOK, Task
  <2>2. m_tasks[i].thread \notin Threads /\ m_tasks[i].thread # Caller
    BY <1>0, <1>1 DEF Attended, Runners
  <2> QED
    BY <2>1, <2>2 DEF Runners
<1>3. ASSUME NEW i \in 1..Len(m_tasks)
      PROVE  \E j \in late : Carries(m_tasks[i], j)
  BY <1>0, <1>1, <1>2 DEF Attended
<1>4. ASSUME NEW i \in 1..Len(m_tasks), NEW j \in Jobs, Carries(m_tasks[i], j)
      PROVE  j \notin ended /\ runs[j] = 0
  <2>1. CASE m_tasks[i].cb = j
    BY <1>0, <2>1 DEF Tracking, PendingFresh, Pending
  <2>2. CASE m_tasks[i].fiber # None /\ fib[m_tasks[i].fiber].m_cb = j
    <3>1. PICK g \in Jobs : g = m_tasks[i].fiber
      BY <1>2, <2>2, FiberForTypes
    <3>2. ~Ended(fib[g]) /\ fib[g].m_state = "INIT"
      BY <1>0, <1>2, <2>2, <3>1 DEF Unended
    <3> QED
      BY <1>0, <2>2, <3>1, <3>2 DEF Tracking, JobOfFiber, Live
  <2> QED
    BY <1>4, <2>1, <2>2 DEF Carries
<1>5. ASSUME NEW tk \in Task, NEW j \in Jobs, NEW k \in Jobs, Carries(tk, j), Carries(tk, k)
      PROVE  j = k
  BY <1>5, FiberForTypes, NoneNotJob DEF Carries
<1>6. late \subseteq Jobs /\ submitted \subseteq Jobs /\ Busy = {}
  BY <1>0, <1>1 DEF TypeOK, Busy, BusyPC
<1>7. ASSUME NEW j \in submitted \ ended
      PROVE  j \in late /\ runs[j] = 0
  <2>1. PICK i \in 1..Len(m_tasks) : Carries(m_tasks[i], j)
    BY <1>0, <1>6 DEF JobsAccounted
  <2>2. PICK k \in late : Carries(m_tasks[i], k)
    BY <1>3
  <2> QED
    BY <1>2, <1>4, <1>5, <1>6, <2>1, <2>2
<1>8. ASSUME NEW i \in 1..Len(m_tasks)
      PROVE  \E j \in late \ ended : Carries(m_tasks[i], j)
  BY <1>3, <1>4, <1>6
<1> QED
  BY <1>1, <1>7, <1>8

\* Both together.
LEMMA LeftOver ==
    ASSUME ~MayMigrate, OutsideJobs = {} \/ ~EndQueued
    PROVE  Spec => [](StopDrains /\ OnlyLate)
<1>1. CASE OutsideJobs = {}
  BY <1>1, DrainsFromInvariant, JobInvariance, StopInvariance, PTL
<1>2. CASE ~EndQueued
  BY <1>2, DrainsFromLate, JobInvariance, OwnerInvariance, LateInvariance, PTL
<1> QED
  BY <1>1, <1>2

\* When stop() returns, all that was scheduled before it was called has been
\* executed, every thread of the pool has been joined and none is left in
\* run(), provided that fibers stay with their thread and that jobs which end
\* while they are in the queue do not meet schedule() from outside: a thread
\* that takes such a task leaves run() without looking at the queue again.
THEOREM Drained ==
    ASSUME ~MayMigrate, OutsideJobs = {} \/ ~EndQueued
    PROVE  Spec => []StopDrains
BY LeftOver, PTL

-----------------------------------------------------------------------------
\* The scheduler implements TaskPool

\* The refinement mapping: what has become of job j, and of stop().
PhaseOf(j) == CASE j \notin submitted -> "new"
                [] j \in ended -> "over"
                [] j \in submitted \ ended /\ runs[j] = 0 -> "waiting"
                [] OTHER -> "running"
StopOf == CASE mpc \in StopPC -> "called"
            [] mpc = "stopped" -> "returned"
            [] OTHER -> "no"

\* The cases of the mapping are exclusive.
LEMMA MappingMeans ==
    ASSUME Tracking
    PROVE  /\ \A j \in Jobs :
                /\ PhaseOf(j) = "new" <=> j \notin submitted
                /\ PhaseOf(j) = "over" <=> j \in ended
                /\ PhaseOf(j) = "waiting" <=> j \in submitted \ ended /\ runs[j] = 0
                /\ PhaseOf(j) = "running" <=> j \in submitted \ ended /\ runs[j] # 0
                /\ PhaseOf(j) \in {"new", "over", "waiting", "running"}
           /\ StopOf = "called" <=> mpc \in StopPC
           /\ StopOf = "returned" <=> mpc = "stopped"
           /\ StopOf \in {"called", "returned", "no"}
<1>1. \A j \in Jobs : j \notin submitted => j \notin ended
  BY DEF Tracking, NewFresh
<1> QED
  BY <1>1 DEF PhaseOf, StopOf, StopPC

\* One job goes on and the others stay as they are.
LEMMA MoveMeans ==
    ASSUME NEW j \in Jobs, NEW from, NEW to, PhaseOf(j) = from, PhaseOf(j)' = to,
           \A k \in Jobs \ {j} : PhaseOf(k)' = PhaseOf(k)
    PROVE  Pool!Move(j, from, to)
<1>1. [k \in Jobs |-> PhaseOf(k)][j] = from
  OBVIOUS
<1>2. [k \in Jobs |-> PhaseOf(k)]' = [[k \in Jobs |-> PhaseOf(k)] EXCEPT ![j] = to]
  OBVIOUS
<1> QED
  BY <1>1, <1>2, Zenon DEF Pool!Move, PhaseOf

\* The actions of TaskPool in terms of the mapping.
LEMMA PoolSteps ==
    ASSUME NEW j \in Jobs, \A k \in Jobs \ {j} : PhaseOf(k)' = PhaseOf(k)
    PROVE  /\ /\ PhaseOf(j) = "new" /\ PhaseOf(j)' = "waiting" /\ UNCHANGED late
              /\ StopOf' = IF StopOf = "returned" THEN "no" ELSE StopOf
              => Pool!Submit(j)
           /\ /\ PhaseOf(j) = "new" /\ PhaseOf(j)' = "waiting" /\ j \in OutsideJobs
              /\ StopOf' = StopOf /\ late' = IF StopOf = "no" THEN late ELSE late \cup {j}
              => Pool!SubmitOutside(j)
           /\ /\ PhaseOf(j) = "waiting" /\ PhaseOf(j)' = "running"
              /\ StopOf # "returned" /\ StopOf' = StopOf /\ UNCHANGED late
              => Pool!Begin(j)
           /\ /\ PhaseOf(j) = "running" /\ PhaseOf(j)' = "over"
              /\ StopOf # "returned" /\ StopOf' = StopOf /\ UNCHANGED late
              => Pool!End(j)
<1>1. ASSUME NEW from, NEW to, PhaseOf(j) = from, PhaseOf(j)' = to
      PROVE  Pool!Move(j, from, to)
  BY <1>1, MoveMeans
<1> QED
  BY <1>1, Zenon DEF Pool!Submit, Pool!SubmitOutside, Pool!Begin, Pool!End, StopOf

\* The steps of TaskPool that change no job.
LEMMA PoolStill ==
    ASSUME \A k \in Jobs : PhaseOf(k)' = PhaseOf(k)
    PROVE  /\ StopOf' = StopOf /\ UNCHANGED late => UNCHANGED Pool!poolVars
           /\ StopOf # "called" /\ StopOf' = "called" /\ late' = {} => Pool!StopCalled
           /\ /\ StopOf = "called" /\ StopOf' = "returned" /\ UNCHANGED late
              /\ \A j \in Jobs : \/ PhaseOf(j) \in {"new", "over"}
                                 \/ PhaseOf(j) = "waiting" /\ j \in late
              => Pool!StopReturns
           /\ StopOf = "returned" /\ StopOf' = "no" /\ UNCHANGED late => Pool!OwnerGoesOn
<1>1. [k \in Jobs |-> PhaseOf(k)]' = [k \in Jobs |-> PhaseOf(k)]
  OBVIOUS
<1>2. \A j \in Jobs : [k \in Jobs |-> PhaseOf(k)][j] = PhaseOf(j)
  OBVIOUS
<1>3. StopOf' = StopOf /\ UNCHANGED late => UNCHANGED Pool!poolVars
  BY <1>1, Zenon DEF Pool!poolVars, PhaseOf, StopOf
<1>4. StopOf # "called" /\ StopOf' = "called" /\ late' = {} => Pool!StopCalled
  BY <1>1, Zenon DEF Pool!StopCalled, PhaseOf, StopOf
<1>5. StopOf = "returned" /\ StopOf' = "no" /\ UNCHANGED late => Pool!OwnerGoesOn
  BY <1>1, Zenon DEF Pool!OwnerGoesOn, PhaseOf, StopOf
<1>6. ASSUME StopOf = "called", StopOf' = "returned", UNCHANGED late,
             \A j \in Jobs : \/ PhaseOf(j) \in {"new", "over"}
                             \/ PhaseOf(j) = "waiting" /\ j \in late
      PROVE  Pool!StopReturns
  <2>1. \A j \in Jobs : \/ [k \in Jobs |-> PhaseOf(k)][j] \in {"new", "over"}
                        \/ [k \in Jobs |-> PhaseOf(k)][j] = "waiting" /\ j \in late
    BY <1>2, <1>6
  <2> QED
    BY <1>1, <1>6, <2>1, Zenon DEF Pool!StopReturns, PhaseOf, StopOf
<1> QED
  BY <1>3, <1>4, <1>5, <1>6

\* A job is begun when its new fiber is entered, and over when its function is.
LEMMA RunRefines ==
    ASSUME JobInv, Tracking', NEW t \in Runners, Run(t), mpc # "stopped"
    PROVE  UNCHANGED Pool!poolVars \/ \E j \in Jobs : Pool!Submit(j) \/ Pool!Begin(j) \/ Pool!End(j)
<1>1. IInv /\ Homes /\ Shapes /\ Tracking /\ TypeOK /\ FitsPlace(t)
  BY DEF JobInv, IInv, Shapes
<1>2. StopOf' = StopOf /\ StopOf # "returned"
  <2>1. mpc' = mpc
    BY <1>1, RunPlace DEF ownerVars
  <2> QED
    BY <1>1, <2>1, MappingMeans DEF StopOf
<1>3. ASSUME UNCHANGED <<submitted, ended, runs, late>>
      PROVE  UNCHANGED Pool!poolVars
  <2>1. \A k \in Jobs : PhaseOf(k)' = PhaseOf(k)
    BY <1>3 DEF PhaseOf
  <2> QED
    BY <1>2, <1>3, <2>1, PoolStill
<1>4. ASSUME NEW j \in Jobs, NEW pin \in {NoTid, t}, BodySchedule(t, j, pin)
      PROVE  Pool!Submit(j)
  <2>1. /\ j \notin submitted /\ submitted' = submitted \cup {j}
        /\ UNCHANGED <<ended, runs, late>>
    BY <1>4 DEF BodySchedule
  <2>2. PhaseOf(j) = "new" /\ PhaseOf(j)' = "waiting"
    <3>1. j \notin ended /\ runs[j] = 0
      BY <1>1, <2>1 DEF Tracking, NewFresh
    <3> QED
      BY <2>1, <3>1 DEF PhaseOf
  <2>3. \A k \in Jobs \ {j} : PhaseOf(k)' = PhaseOf(k)
    BY <2>1 DEF PhaseOf
  <2> QED
    BY <1>2, <2>1, <2>2, <2>3, PoolSteps
<1>5. CASE SwapIn(t)
  <2>1. PICK f \in Jobs : f = Current(t) /\ Holds(t, f) /\ Live(f) /\ pc[t] = "swapIn"
    BY <1>1, <1>5, HoldsCurrent, LiveMeans DEF SwapIn, BusyPC
  <2>2. /\ runs' = IF fib[f].m_ctx = "entry" /\ fib[f].m_cb \in Jobs
                   THEN [runs EXCEPT ![fib[f].m_cb] = runs[fib[f].m_cb] + 1] ELSE runs
        /\ UNCHANGED <<submitted, ended, late>>
    BY <1>1, <1>5, <2>1, FiberFacts DEF SwapIn, Job
  <2>3. CASE fib[f].m_ctx = "entry" /\ fib[f].m_cb \in Jobs
    <3>1. PICK j \in Jobs : j = fib[f].m_cb
      BY <2>3
    <3>2. Resting(fib[f]) /\ ~Ended(fib[f])
      BY <1>1, <2>1, NobodyOn DEF Shapes, Rested, FitsPlace
    <3>3. fib[f].m_state = "INIT"
      BY <2>3, <3>2 DEF Resting
    <3>4. j \in submitted /\ j \notin ended /\ runs[j] = 0
      BY <1>1, <2>1, <3>1, <3>2, <3>3 DEF Tracking, JobOfFiber
    <3>5. runs'[j] = 1 /\ \A k \in Jobs \ {j} : runs'[k] = runs[k]
      BY <1>1, <2>2, <2>3, <3>1, <3>4 DEF TypeOK
    <3>6. PhaseOf(j) = "waiting" /\ PhaseOf(j)' = "running"
      BY <2>2, <3>4, <3>5 DEF PhaseOf
    <3>7. \A k \in Jobs \ {j} : PhaseOf(k)' = PhaseOf(k)
      BY <2>2, <3>5 DEF PhaseOf
    <3> QED
      BY <1>2, <2>2, <3>6, <3>7, PoolSteps
  <2> QED
    BY <1>3, <2>2, <2>3
<1>6. CASE BodyReturn(t) \/ BodyThrow(t)
  <2>1. PICK f \in Jobs : f = Current(t) /\ Holds(t, f) /\ Live(f) /\ pc[t] = "body"
    BY <1>1, <1>6, HoldsCurrent, LiveMeans DEF BodyReturn, BodyThrow, BusyPC
  <2>2. /\ ended' = ended \cup ({fib[f].m_cb} \ {None})
        /\ UNCHANGED <<submitted, runs, late>>
    BY <1>6, <2>1 DEF BodyReturn, BodyThrow, Job
  <2>3. fib[f].m_cb \in Jobs \cup {None}
    BY <1>1 DEF TypeOK, FiberOf
  <2>4. CASE fib[f].m_cb = None
    BY <1>3, <2>2, <2>4
  <2>5. CASE fib[f].m_cb \in Jobs
    <3>1. PICK j \in Jobs : j = fib[f].m_cb /\ j # None
      BY <2>5, NoneNotJob
    <3>2. fib[f].m_state = "EXEC"
      BY <1>1, <2>1 DEF FitsPlace
    <3>3. j \in submitted /\ j \notin ended /\ runs[j] # 0
      BY <1>1, <2>1, <3>1, <3>2 DEF Tracking, JobOfFiber, Ended
    <3>4. PhaseOf(j) = "running" /\ PhaseOf(j)' = "over"
      BY <2>2, <3>1, <3>3 DEF PhaseOf
    <3>5. \A k \in Jobs \ {j} : PhaseOf(k)' = PhaseOf(k)
      BY <2>2, <3>1 DEF PhaseOf
    <3> QED
      BY <1>2, <2>2, <3>4, <3>5, PoolSteps
  <2> QED
    BY <2>3, <2>4, <2>5
<1>7. CASE \/ RunEnter(t) \/ Take(t) \/ TakeNone(t) \/ IdleStep(t)
           \/ DispatchFiber(t) \/ DispatchEnded(t) \/ DispatchCb(t)
           \/ \E pin \in {NoTid, t} : BodyRequeue(t, pin)
           \/ BodyYield(t) \/ SwapOut(t) \/ Back(t) \/ Recycle(t)
  <2>1. UNCHANGED <<submitted, ended, runs, late>>
    BY <1>7 DEF RunEnter, Take, TakeNone, IdleStep, DispatchFiber, DispatchEnded,
       DispatchCb, BodyRequeue, BodyYield, SwapOut, Back, Recycle, jobVars
  <2> QED
    BY <1>3, <2>1
<1> QED
  BY <1>4, <1>5, <1>6, <1>7 DEF Run, Body

\* Every step of the scheduler is one of TaskPool or leaves it unchanged, if
\* nobody is in run() when stop() has returned, what is left then was late and
\* has not begun, and the owner does not fail.
LEMMA StepRefines ==
    ASSUME JobInv, Tracking', [Next]_vars, mpc' # "abort",
           mpc = "stopped" => \A t \in Runners : pc[t] = "off",
           mpc' = "stopped" => \A j \in submitted' \ ended' : j \in late' /\ runs'[j] = 0
    PROVE  [Pool!PoolNext]_(Pool!poolVars)
<1>1. IInv /\ Tracking /\ TypeOK /\ Placed
  BY DEF JobInv, IInv
<1>2. ASSUME UNCHANGED <<submitted, ended, runs>>
      PROVE  \A k \in Jobs : PhaseOf(k)' = PhaseOf(k)
  BY <1>2 DEF PhaseOf
<1>3. ASSUME NEW t \in Runners, Run(t)
      PROVE  [Pool!PoolNext]_(Pool!poolVars)
  <2>1. mpc # "stopped"
    BY <1>1, <1>3, RunPlace
  <2> QED
    BY <1>3, <2>1, RunRefines DEF Pool!PoolNext
<1>4. ASSUME UNCHANGED <<submitted, ended, runs, late>>, mpc' = mpc
      PROVE  UNCHANGED Pool!poolVars
  <2>1. StopOf' = StopOf
    BY <1>4 DEF StopOf
  <2> QED
    BY <1>2, <1>4, <2>1, PoolStill
<1>5. ASSUME NEW t \in Threads, RunThread(t) \/ Exit(t)
      PROVE  UNCHANGED Pool!poolVars
  BY <1>4, <1>5 DEF RunThread, Exit, jobVars, ownerVars
<1>6. ASSUME NEW j \in Jobs, NEW pin, OwnerSchedule(j, pin) \/ OutsideSchedule(j)
      PROVE  Pool!Submit(j) \/ Pool!SubmitOutside(j)
  <2>1. /\ j \notin submitted /\ submitted' = submitted \cup {j}
        /\ UNCHANGED <<ended, runs>>
    BY <1>6 DEF OwnerSchedule, OutsideSchedule
  <2>2. PhaseOf(j) = "new" /\ PhaseOf(j)' = "waiting"
    <3>1. j \notin ended /\ runs[j] = 0
      BY <1>1, <2>1 DEF Tracking, NewFresh
    <3> QED
      BY <2>1, <3>1 DEF PhaseOf
  <2>3. \A k \in Jobs \ {j} : PhaseOf(k)' = PhaseOf(k)
    BY <2>1 DEF PhaseOf
  <2>4. CASE OwnerSchedule(j, pin)
    <3>1. mpc \in {"ready", "stopped"} /\ mpc' = "ready" /\ UNCHANGED late
      BY <2>4 DEF OwnerSchedule, Client
    <3>2. StopOf' = IF StopOf = "returned" THEN "no" ELSE StopOf
      BY <3>1 DEF StopOf, StopPC
    <3> QED
      BY <2>2, <2>3, <3>1, <3>2, PoolSteps
  <2>5. CASE OutsideSchedule(j)
    <3>1. /\ mpc' = mpc /\ j \in OutsideJobs
          /\ late' = IF mpc \in StopPC \cup {"stopped"} THEN late \cup {j} ELSE late
      BY <2>5 DEF OutsideSchedule, ownerVars
    <3>2. StopOf' = StopOf /\ late' = IF StopOf = "no" THEN late ELSE late \cup {j}
      BY <3>1 DEF StopOf, StopPC
    <3> QED
      BY <2>2, <2>3, <3>1, <3>2, PoolSteps
  <2> QED
    BY <1>6, <2>4, <2>5
<1>7. CASE StartBegin \/ Destroy
  <2>1. UNCHANGED <<submitted, ended, runs, late>>
    BY <1>7 DEF StartBegin, Destroy, jobVars
  <2>2. mpc \in {"ready", "stopped"} /\ mpc' \in {"ready", "create", "destroyed", "abort"}
    BY <1>7 DEF StartBegin, Destroy, Client
  <2>3. StopOf' = "no" /\ StopOf \in {"no", "returned"}
    BY <2>2 DEF StopOf, StopPC
  <2> QED
    BY <1>2, <2>1, <2>3, PoolStill DEF Pool!PoolNext
<1>8. CASE StopCall
  <2>1. UNCHANGED <<submitted, ended, runs>> /\ late' = {}
    BY <1>8 DEF StopCall
  <2>2. mpc \in {"ready", "stopped"} /\ mpc' = "autoStop"
    BY <1>8 DEF StopCall, Client
  <2>3. StopOf' = "called" /\ StopOf # "called"
    BY <2>2 DEF StopOf, StopPC
  <2> QED
    BY <1>2, <2>1, <2>3, PoolStill DEF Pool!PoolNext
<1>9. CASE InStart
  <2>1. UNCHANGED <<submitted, ended, runs, late>>
    BY <1>9 DEF InStart, StartCreate, StartWait, jobVars
  <2>2. mpc \in {"create", "wait"} /\ mpc' \in {"create", "wait", "ready"}
    BY <1>9 DEF InStart, StartCreate, StartWait
  <2>3. StopOf' = StopOf
    BY <2>2 DEF StopOf, StopPC
  <2> QED
    BY <1>2, <2>1, <2>3, PoolStill
<1>10. CASE InStop
  <2>1. UNCHANGED <<submitted, ended, runs, late>>
    BY <1>10 DEF InStop, StopAutoStop, StopRootOnly, StopRootOnlyCheck, StopStopping,
       StopCallRoot, StopSwap, StopJoin, RootReturn, jobVars
  <2>2. mpc \in StopPC /\ mpc' \in StopPC \cup {"stopped"}
    BY <1>1, <1>10 DEF InStop, StopAutoStop, StopRootOnly, StopRootOnlyCheck,
       StopStopping, StopCallRoot, StopSwap, StopJoin, RootReturn, Placed, StopPC
  <2>3. CASE mpc' \in StopPC
    <3>1. StopOf' = StopOf
      BY <2>2, <2>3 DEF StopOf, StopPC
    <3> QED
      BY <1>2, <2>1, <3>1, PoolStill
  <2>4. CASE mpc' = "stopped"
    <3>1. StopOf = "called" /\ StopOf' = "returned"
      BY <2>2, <2>4 DEF StopOf, StopPC
    <3>2. \A j \in Jobs : \/ PhaseOf(j) \in {"new", "over"}
                          \/ PhaseOf(j) = "waiting" /\ j \in late
      BY <1>1, <2>1, <2>4, MappingMeans
    <3> QED
      BY <1>2, <2>1, <3>1, <3>2, PoolStill DEF Pool!PoolNext
  <2> QED
    BY <2>2, <2>3, <2>4
<1>11. CASE UNCHANGED vars
  BY <1>4, <1>11 DEF vars, jobVars, ownerVars
<1>12. CASE OwnerCall
  BY <1>6, <1>7, <1>8, <1>12 DEF OwnerCall, Pool!PoolNext
<1> QED
  BY <1>3, <1>5, <1>6, <1>9, <1>10, <1>11, <1>12
     DEF Next, PoolThread, Runners, Gone, Pool!PoolNext

\* The scheduler implements TaskPool: every job is begun once and ended once,
\* and stop() returns only when none is waiting or running but those that a
\* thread from outside handed over after it was called.
THEOREM Implements ==
    ASSUME ~MayMigrate, ~(MayReuse /\ UseCaller), OutsideJobs = {} \/ ~EndQueued
    PROVE  Spec => ImplementsTaskPool
<1>1. Init => Pool!PoolInit
  <2> SUFFICES ASSUME Init PROVE Pool!PoolInit
    OBVIOUS
  <2>1. submitted = {} /\ ended = {} /\ late = {} /\ mpc = "ready"
    BY DEF Init
  <2>2. StopOf = "no"
    BY <2>1 DEF StopOf, StopPC
  <2>3. \A j \in Jobs : PhaseOf(j) = "new"
    BY <2>1 DEF PhaseOf
  <2>4. [j \in Jobs |-> PhaseOf(j)] = [j \in Jobs |-> "new"]
    BY <2>3
  <2> QED
    BY <2>1, <2>2, <2>4, Zenon DEF Pool!PoolInit, PhaseOf, StopOf
<1>2. /\ JobInv /\ JobInv' /\ StopDrains /\ OnlyLate' /\ AssertionsHold' /\ [Next]_vars
      => [Pool!PoolNext]_(Pool!poolVars)
  <2> SUFFICES ASSUME JobInv, JobInv', StopDrains, OnlyLate', AssertionsHold', [Next]_vars
               PROVE  [Pool!PoolNext]_(Pool!poolVars)
    OBVIOUS
  <2>1. mpc = "stopped" => \A t \in Runners : pc[t] = "off"
    BY DEF StopDrains
  <2>2. Tracking' /\ mpc' # "abort"
    BY DEF JobInv, AssertionsHold
  <2>3. mpc' = "stopped" => \A j \in submitted' \ ended' : j \in late' /\ runs'[j] = 0
    BY DEF OnlyLate
  <2> QED
    BY <2>1, <2>2, <2>3, StepRefines
<1> QED
  BY <1>1, <1>2, JobInvariance, LeftOver, AssertionsNeverFail, PTL
     DEF Spec, ImplementsTaskPool, Pool!PoolSpec

=============================================================================
