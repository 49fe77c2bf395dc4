------------------------------ MODULE Scheduler ------------------------------
(***************************************************************************)
(* sylar::Scheduler (sylar/scheduler.h, sylar/scheduler.cpp): a pool of    *)
(* threads, and with use_caller the thread that owns the scheduler, run    *)
(* the fibers and callbacks of one shared queue.                           *)
(*                                                                         *)
(* The actors are the owner ("main": it calls start, schedule, stop and    *)
(* the destructor, and mpc is its place in them) and the runners, the      *)
(* threads inside Scheduler::run (pc[t]).  A step is one critical section  *)
(* of m_mutex, one access to an atomic, or one access to a fiber shared    *)
(* with other threads, together with what follows it on the thread's own   *)
(* data.  A failed SYLAR_ASSERT puts its thread at "abort".                *)
(*                                                                         *)
(* Jobs are the client's work.  A fiber job is a fiber the client made     *)
(* itself; a callback job runs in a fiber the runner makes or reuses.      *)
(* A fiber object is named by the job it was made for, and fib[f].m_cb is  *)
(* the job it runs now.  NoTid (-1) in a task means "any thread".          *)
(* tickle() of the base class only logs and has no action.                 *)
(***************************************************************************)
EXTENDS Fiber, Thread, Integers, Sequences, FiniteSets

CONSTANTS
    Caller,       \* tid of the owner's thread
    UseCaller,    \* the constructor's use_caller
    ThreadCounts, \* values of threads, less one with use_caller
    FiberJobs,    \* jobs scheduled as a Fiber::ptr
    CbJobs,       \* jobs scheduled as a std::function
    RunCb,        \* std::bind(&Scheduler::run, this)
    IdleCb,       \* std::bind(&Scheduler::idle, this)
    MayMigrate,   \* a fiber may requeue itself for any thread, not just its own
    EndQueued,    \* a job may end while its fiber is queued (requeue, then throw)
    OutsideJobs,  \* jobs that other threads than the owner's and the pool's schedule
    MayReuse,     \* the owner may schedule, start and stop again after stop()
    MaxRequeues   \* bound: times a job puts its own fiber in the queue

Jobs == FiberJobs \cup CbJobs
Runners == Threads \cup {Caller}

ASSUME SchedulerAssumption ==
    /\ IsFiniteSet(Threads)
    /\ Caller \notin Threads /\ Caller # NoTid
    /\ UseCaller \in BOOLEAN
    /\ ThreadCounts \subseteq Nat
    /\ UseCaller \/ 0 \notin ThreadCounts   \* the constructor's threads > 0
    /\ FiberJobs \cap CbJobs = {}
    /\ Callbacks = Jobs \cup {RunCb, IdleCb}
    /\ {RunCb, IdleCb} \cap Jobs = {}
    /\ MayMigrate \in BOOLEAN
    /\ EndQueued \in BOOLEAN
    /\ OutsideJobs \subseteq Jobs
    /\ MayReuse \in BOOLEAN
    /\ MaxRequeues \in Nat

VARIABLES
    m_tasks, m_threads, m_threadIds, m_threadCount, m_rootFiber,
    m_activeThreadCount, m_idleThreadCount, m_stopping, m_autoStop,
    fib,        \* the Fiber objects
    pc,         \* where each runner is in Scheduler::run
    task,       \* run(): the local task
    cbFiber,    \* run(): the local cbFiber, None when null
    idleFiber,  \* run(): the local idleFiber
    mpc,        \* where the owner is
    thrs,       \* stop(): the local thrs
    submitted, ended,  \* history: jobs scheduled, jobs whose function is over
    runs, requeues,    \* history: times a job was begun, put its fiber in the queue
    late               \* history: jobs others scheduled after stop() was called

listVars == <<m_threads, m_threadIds, thrs>>
countVars == <<m_activeThreadCount, m_idleThreadCount>>
flagVars == <<m_stopping, m_autoStop>>
localVars == <<task, cbFiber, idleFiber>>
ownerVars == <<mpc, m_rootFiber, m_threadCount>>
jobVars == <<submitted, ended, runs, requeues, late>>
vars == <<threadVars, m_tasks, listVars, countVars, flagVars, fib, pc,
          localVars, ownerVars, jobVars>>

-----------------------------------------------------------------------------
\* Types

NoTask == [fiber |-> None, cb |-> None, thread |-> NoTid]
\* What scheduleNoLock lets into the queue: a fiber or a callback.
Task == {tk \in [fiber : Jobs \cup {None}, cb : CbJobs \cup {None},
                 thread : Runners \cup {NoTid}] : tk.fiber # None <=> tk.cb = None}

RunnerPC == {"off", "enter", "loop", "dispatch", "swapIn", "body", "yield",
             "end", "back", "recycle", "idle", "done", "abort"}

StartPC == {"create", "wait"}
StopPC == {"autoStop", "rootOnly", "rootOnlyCheck", "stopping", "callRoot",
           "called", "swap", "join"}
OwnerPC == {"ready", "stopped", "destroyed", "abort"} \cup StartPC \cup StopPC

\* The type invariant; both counters are size_t and must not go below zero.
TypeOK ==
    /\ ThreadTypeOK
    /\ m_tasks \in Seq(Task)
    /\ m_threads \in Seq(Threads)
    /\ m_threadIds \in Seq(Runners \cup {NoTid})
    /\ thrs \in Seq(Threads)
    /\ m_rootFiber \in FiberObject
    /\ m_activeThreadCount \in Nat
    /\ m_idleThreadCount \in Nat
    /\ m_stopping \in BOOLEAN /\ m_autoStop \in BOOLEAN
    /\ fib \in [Jobs -> FiberOf(Jobs)]
    /\ pc \in [Runners -> RunnerPC]
    /\ task \in [Runners -> Task \cup {NoTask}]
    /\ cbFiber \in [Runners -> Jobs \cup {None}]
    /\ idleFiber \in [Runners -> FiberObject]
    /\ mpc \in OwnerPC
    /\ m_threadCount \in Nat
    /\ submitted \subseteq Jobs /\ ended \subseteq Jobs /\ late \subseteq Jobs
    /\ runs \in [Jobs -> Nat] /\ requeues \in [Jobs -> Nat]

-----------------------------------------------------------------------------
\* Shared state

\* m_mutex is held across steps only by start(), which creates the threads
\* inside its critical section.
MutexFree == mpc \notin StartPC

\* Mutant: stopping() does not look at the queue.
StoppingIgnoresQueue == m_autoStop /\ m_stopping /\ m_activeThreadCount = 0

\* Scheduler::stopping()
Stopping ==
    m_autoStop /\ m_stopping /\ m_tasks = <<>> /\ m_activeThreadCount = 0

\* The fiber runner t switches to, or is on: task.fiber or else cbFiber.
Current(t) == IF task[t].fiber # None THEN task[t].fiber ELSE cbFiber[t]

\* The job that fiber runs; None if its callback has been cleared.
Job(t) == fib[Current(t)].m_cb

\* schedule() and scheduleNoLock(): one critical section that appends a task.
Schedule(tk) ==
    /\ MutexFree
    /\ m_tasks' = Append(m_tasks, tk)

FiberTask(f, pin) == [fiber |-> f, cb |-> None, thread |-> pin]
CbTask(j, pin) == [fiber |-> None, cb |-> j, thread |-> pin]
JobTask(j, pin) == IF j \in FiberJobs THEN FiberTask(j, pin) ELSE CbTask(j, pin)

\* Some entry of the queue holds the fiber that t is on.
SelfQueued(t) ==
    \E i \in 1..Len(m_tasks) : m_tasks[i].fiber = Current(t)

Init ==
    /\ ThreadInit
    /\ m_tasks = <<>>
    /\ m_threads = <<>> /\ thrs = <<>>
    /\ m_threadIds = IF UseCaller THEN <<Caller>> ELSE <<>>
    /\ m_rootFiber = NewFiber(RunCb)
    /\ m_activeThreadCount = 0 /\ m_idleThreadCount = 0
    /\ m_stopping = TRUE /\ m_autoStop = FALSE
    /\ fib = [j \in Jobs |-> NewFiber(j)]
    /\ pc = [t \in Runners |-> "off"]
    /\ task = [t \in Runners |-> NoTask]
    /\ cbFiber = [t \in Runners |-> None]
    /\ idleFiber = [t \in Runners |-> NewFiber(IdleCb)]
    /\ mpc = "ready"
    /\ m_threadCount \in ThreadCounts
    /\ submitted = {} /\ ended = {} /\ late = {}
    /\ runs = [j \in Jobs |-> 0] /\ requeues = [j \in Jobs |-> 0]

-----------------------------------------------------------------------------
\* Scheduler::run

Goto(t, label) == pc' = [pc EXCEPT ![t] = label]

\* Thread::run of a pool thread up to its call of Scheduler::run.
RunThread(t) ==
    /\ RunProlog(t)
    /\ Goto(t, "enter")
    /\ UNCHANGED <<m_tasks, listVars, countVars, flagVars, fib, localVars,
                   ownerVars, jobVars>>

\* The locals of run().
RunEnter(t) ==
    /\ pc[t] = "enter"
    /\ Goto(t, "loop")
    /\ task' = [task EXCEPT ![t] = NoTask]
    /\ cbFiber' = [cbFiber EXCEPT ![t] = None]
    /\ idleFiber' = [idleFiber EXCEPT ![t] = NewFiber(IdleCb)]
    /\ UNCHANGED <<threadVars, m_tasks, listVars, countVars, flagVars, fib,
                   ownerVars, jobVars>>

\* Mutant: the scan does not look at the thread a task is meant for.
EligibleAnyThread(t, tk) ==
    tk.fiber # None => fib[tk.fiber].m_state # "EXEC"

\* The scan of the queue passes over tasks of other threads and over fibers
\* that are running.
Eligible(t, tk) ==
    /\ tk.thread \in {NoTid, t}
    /\ tk.fiber # None => fib[tk.fiber].m_state # "EXEC"

First(t, i) ==
    /\ Eligible(t, m_tasks[i])
    /\ \A k \in 1..(i - 1) : ~Eligible(t, m_tasks[k])

\* m_tasks.erase(it++)
Without(s, i) == SubSeq(s, 1, i - 1) \o SubSeq(s, i + 1, Len(s))

\* Mutant: the thread is not counted when it takes the task.
TakeUncounted(t) ==
    /\ pc[t] = "loop"
    /\ MutexFree
    /\ \E i \in 1..Len(m_tasks) :
        /\ First(t, i)
        /\ task' = [task EXCEPT ![t] = m_tasks[i]]
        /\ m_tasks' = Without(m_tasks, i)
    /\ Goto(t, "dispatch")
    /\ UNCHANGED <<threadVars, listVars, countVars, flagVars, fib, cbFiber,
                   idleFiber, ownerVars, jobVars>>

\* The critical section at the head of the loop takes the first eligible
\* task and counts its thread as active before the lock is released.
Take(t) ==
    /\ pc[t] = "loop"
    /\ MutexFree
    /\ \E i \in 1..Len(m_tasks) :
        /\ First(t, i)
        /\ task' = [task EXCEPT ![t] = m_tasks[i]]
        /\ m_tasks' = Without(m_tasks, i)
    /\ m_activeThreadCount' = m_activeThreadCount + 1
    /\ Goto(t, "dispatch")
    /\ UNCHANGED <<threadVars, listVars, m_idleThreadCount, flagVars, fib,
                   cbFiber, idleFiber, ownerVars, jobVars>>

\* The last branch of the loop: leave run() if the idle fiber is over,
\* otherwise enter it.
IdleBranch(t) ==
    IF idleFiber[t].m_state = "TERM"
    THEN /\ Goto(t, "done")
         /\ UNCHANGED <<m_idleThreadCount, idleFiber>>
    ELSE /\ Goto(t, "idle")
         /\ m_idleThreadCount' = m_idleThreadCount + 1
         /\ idleFiber' = [idleFiber EXCEPT ![t] = Entered(@)]

\* The critical section finds nothing for this thread.
TakeNone(t) ==
    /\ pc[t] = "loop"
    /\ MutexFree
    /\ \A i \in 1..Len(m_tasks) : ~Eligible(t, m_tasks[i])
    /\ IdleBranch(t)
    /\ UNCHANGED <<threadVars, m_tasks, listVars, m_activeThreadCount, flagVars,
                   fib, task, cbFiber, ownerVars, jobVars>>

\* Mutant: idle() without its loop.
IdleOnce(t) ==
    /\ pc[t] = "idle"
    /\ idleFiber' = [idleFiber EXCEPT ![t] = SwappedOut(Returned(@), "ended")]
    /\ m_idleThreadCount' = m_idleThreadCount - 1
    /\ Goto(t, "loop")
    /\ UNCHANGED <<threadVars, m_tasks, listVars, m_activeThreadCount, flagVars,
                   fib, task, cbFiber, ownerVars, jobVars>>

\* idle(): stopping() decides whether the idle fiber yields or ends; run()
\* goes back to its head either way.
IdleStep(t) ==
    /\ pc[t] = "idle"
    /\ MutexFree
    /\ idleFiber' = [idleFiber EXCEPT ![t] =
           IF Stopping THEN SwappedOut(Returned(@), "ended")
                       ELSE SwappedOut(YieldMarked(@), "yielded")]
    /\ m_idleThreadCount' = m_idleThreadCount - 1
    /\ Goto(t, "loop")
    /\ UNCHANGED <<threadVars, m_tasks, listVars, m_activeThreadCount, flagVars,
                   fib, task, cbFiber, ownerVars, jobVars>>

\* Mutant: the first branch also takes fibers that have ended.
DispatchAnyFiber(t) ==
    /\ pc[t] = "dispatch"
    /\ task[t].fiber # None
    /\ Goto(t, "swapIn")
    /\ UNCHANGED <<threadVars, m_tasks, listVars, countVars, flagVars, fib,
                   localVars, ownerVars, jobVars>>

\* First branch: a fiber that has not ended.
DispatchFiber(t) ==
    /\ pc[t] = "dispatch"
    /\ task[t].fiber # None
    /\ ~Ended(fib[task[t].fiber])
    /\ Goto(t, "swapIn")
    /\ UNCHANGED <<threadVars, m_tasks, listVars, countVars, flagVars, fib,
                   localVars, ownerVars, jobVars>>

\* A task whose fiber has ended falls through to the last branch: nothing
\* gives back the count Take added.  task.reset() comes with the next round.
DispatchEnded(t) ==
    /\ pc[t] = "dispatch"
    /\ task[t].fiber # None
    /\ Ended(fib[task[t].fiber])
    /\ task' = [task EXCEPT ![t] = NoTask]
    /\ IdleBranch(t)
    /\ UNCHANGED <<threadVars, m_tasks, listVars, m_activeThreadCount, flagVars,
                   fib, cbFiber, ownerVars, jobVars>>

\* Second branch: a callback gets the kept cbFiber or a new fiber.
DispatchCb(t) ==
    /\ pc[t] = "dispatch"
    /\ task[t].fiber = None
    /\ LET f == IF cbFiber[t] # None THEN cbFiber[t] ELSE task[t].cb
       IN  IF cbFiber[t] # None /\ ~Idle(fib[f])
           THEN /\ Goto(t, "abort")
                /\ UNCHANGED <<fib, cbFiber, task>>
           ELSE /\ fib' = [fib EXCEPT ![f] =
                       IF cbFiber[t] # None THEN Reset(@, task[t].cb)
                                            ELSE NewFiber(task[t].cb)]
                /\ cbFiber' = [cbFiber EXCEPT ![t] = f]
                /\ task' = [task EXCEPT ![t] = NoTask]
                /\ Goto(t, "swapIn")
    /\ UNCHANGED <<threadVars, m_tasks, listVars, countVars, flagVars, idleFiber,
                   ownerVars, jobVars>>

\* Fiber::swapIn jumps to the saved context: the start of the function, the
\* inside of a yield, or code nobody may reach.
SwapIn(t) ==
    /\ pc[t] = "swapIn"
    /\ LET f == Current(t) IN
        IF Enterable(fib[f]) /\ fib[f].m_ctx # "ended"
        THEN /\ fib' = [fib EXCEPT ![f] = Entered(@)]
             /\ runs' = IF fib[f].m_ctx = "entry" /\ Job(t) \in Jobs
                        THEN [runs EXCEPT ![Job(t)] = @ + 1] ELSE runs
             /\ Goto(t, "body")
        ELSE /\ Goto(t, "abort")
             /\ UNCHANGED <<fib, runs>>
    /\ UNCHANGED <<threadVars, m_tasks, listVars, countVars, flagVars, localVars,
                   ownerVars, submitted, ended, requeues, late>>

-----------------------------------------------------------------------------
\* What a job does while it runs on t

\* It schedules another job, for any thread or for its own.
BodySchedule(t, j, pin) ==
    /\ pc[t] = "body"
    /\ Job(t) # None
    /\ j \notin submitted
    /\ Schedule(JobTask(j, pin))
    /\ submitted' = submitted \cup {j}
    /\ UNCHANGED <<threadVars, listVars, countVars, flagVars, fib, pc, localVars,
                   ownerVars, ended, runs, requeues, late>>

\* It puts its own fiber in the queue, as run() asks of a fiber that is to
\* yield; a fiber may get there twice.
BodyRequeue(t, pin) ==
    /\ pc[t] = "body"
    /\ Job(t) \in Jobs
    /\ requeues[Job(t)] < MaxRequeues
    /\ MayMigrate \/ pin = t
    /\ Schedule(FiberTask(Current(t), pin))
    /\ requeues' = [requeues EXCEPT ![Job(t)] = @ + 1]
    /\ UNCHANGED <<threadVars, listVars, countVars, flagVars, fib, pc, localVars,
                   ownerVars, submitted, ended, runs, late>>

\* Fiber::YieldToReady up to swapOut, called by a job whose fiber is in the
\* queue: READY, but still on its stack.
BodyYield(t) ==
    /\ pc[t] = "body"
    /\ Job(t) # None
    /\ SelfQueued(t)
    /\ IF fib[Current(t)].m_state = "EXEC"
       THEN /\ fib' = [fib EXCEPT ![Current(t)] = YieldMarked(@)]
            /\ Goto(t, "yield")
       ELSE /\ Goto(t, "abort")
            /\ UNCHANGED fib
    /\ UNCHANGED <<threadVars, m_tasks, listVars, countVars, flagVars, localVars,
                   ownerVars, jobVars>>

MayEnd(t) == SelfQueued(t) => EndQueued

\* Fiber::MainFunc: the callback returns ...
BodyReturn(t) ==
    /\ pc[t] = "body"
    /\ Job(t) # None
    /\ MayEnd(t)
    /\ fib' = [fib EXCEPT ![Current(t)] = Returned(@)]
    /\ ended' = ended \cup {Job(t)}
    /\ Goto(t, "end")
    /\ UNCHANGED <<threadVars, m_tasks, listVars, countVars, flagVars, localVars,
                   ownerVars, submitted, runs, requeues, late>>

\* ... or throws; calling a cleared callback throws too.
BodyThrow(t) ==
    /\ pc[t] = "body"
    /\ Job(t) # None => MayEnd(t)
    /\ fib' = [fib EXCEPT ![Current(t)] = Threw(@)]
    /\ ended' = ended \cup ({Job(t)} \ {None})
    /\ Goto(t, "end")
    /\ UNCHANGED <<threadVars, m_tasks, listVars, countVars, flagVars, localVars,
                   ownerVars, submitted, runs, requeues, late>>

\* Fiber::swapOut: only now is the context saved and the stack left.
SwapOut(t) ==
    /\ pc[t] \in {"yield", "end"}
    /\ fib' = [fib EXCEPT ![Current(t)] =
                  SwappedOut(@, IF pc[t] = "yield" THEN "yielded" ELSE "ended")]
    /\ Goto(t, "back")
    /\ UNCHANGED <<threadVars, m_tasks, listVars, countVars, flagVars, localVars,
                   ownerVars, jobVars>>

\* Mutant: the callback branch forgets to give its count back.
BackForgets(t) ==
    /\ pc[t] = "back"
    /\ m_activeThreadCount' =
           IF task[t].fiber # None THEN m_activeThreadCount - 1 ELSE m_activeThreadCount
    /\ task' = [task EXCEPT ![t] = NoTask]
    /\ Goto(t, IF task[t].fiber # None THEN "loop" ELSE "recycle")
    /\ UNCHANGED <<threadVars, m_tasks, listVars, m_idleThreadCount, flagVars,
                   fib, cbFiber, idleFiber, ownerVars, jobVars>>

\* Back in run(): the count taken by Take is given back; a callback's fiber
\* is looked at afterwards.
Back(t) ==
    /\ pc[t] = "back"
    /\ m_activeThreadCount' = m_activeThreadCount - 1
    /\ task' = [task EXCEPT ![t] = NoTask]
    /\ Goto(t, IF task[t].fiber # None THEN "loop" ELSE "recycle")
    /\ UNCHANGED <<threadVars, m_tasks, listVars, m_idleThreadCount, flagVars,
                   fib, cbFiber, idleFiber, ownerVars, jobVars>>

\* Mutants: the runner resets the fiber whatever its state; it resets the
\* fiber and leaves the callback.
RecycleAny(t) ==
    /\ pc[t] = "recycle"
    /\ fib' = [fib EXCEPT ![cbFiber[t]] = Reset(@, None)]
    /\ Goto(t, "loop")
    /\ UNCHANGED <<threadVars, m_tasks, listVars, countVars, flagVars, task,
                   cbFiber, idleFiber, ownerVars, jobVars>>

RecycleUncleared(t) ==
    /\ pc[t] = "recycle"
    /\ IF Ended(fib[cbFiber[t]])
       THEN /\ fib' = [fib EXCEPT ![cbFiber[t]] = Reset(@, @.m_cb)]
            /\ UNCHANGED cbFiber
       ELSE /\ cbFiber' = [cbFiber EXCEPT ![t] = None]
            /\ UNCHANGED fib
    /\ Goto(t, "loop")
    /\ UNCHANGED <<threadVars, m_tasks, listVars, countVars, flagVars, task,
                   idleFiber, ownerVars, jobVars>>

\* An ended callback fiber is kept for the next callback, any other is left
\* to those who still hold it.
Recycle(t) ==
    /\ pc[t] = "recycle"
    /\ IF Ended(fib[cbFiber[t]])
       THEN /\ fib' = [fib EXCEPT ![cbFiber[t]] = Reset(@, None)]
            /\ UNCHANGED cbFiber
       ELSE /\ cbFiber' = [cbFiber EXCEPT ![t] = None]
            /\ UNCHANGED fib
    /\ Goto(t, "loop")
    /\ UNCHANGED <<threadVars, m_tasks, listVars, countVars, flagVars, task,
                   idleFiber, ownerVars, jobVars>>

\* run() has returned in a pool thread, and with it Thread::run.
Exit(t) ==
    /\ pc[t] = "done"
    /\ Finish(t)
    /\ Goto(t, "off")
    /\ UNCHANGED <<m_tasks, listVars, countVars, flagVars, fib, localVars,
                   ownerVars, jobVars>>

\* run() has returned in the owner's thread: CallerMainFunc ends the root
\* fiber and back() resumes stop().
RootReturn ==
    /\ pc[Caller] = "done"
    /\ m_rootFiber' = SwappedOut(Returned(m_rootFiber), "ended")
    /\ mpc' = "swap"
    /\ Goto(Caller, "off")
    /\ UNCHANGED <<threadVars, m_tasks, listVars, countVars, flagVars, fib,
                   localVars, m_threadCount, jobVars>>

Body(t) ==
    \/ \E pin \in {NoTid, t} :
        \/ \E j \in Jobs : BodySchedule(t, j, pin)
        \/ BodyRequeue(t, pin)
    \/ BodyYield(t) \/ BodyReturn(t) \/ BodyThrow(t)

Run(t) ==
    \/ RunEnter(t) \/ Take(t) \/ TakeNone(t) \/ IdleStep(t)
    \/ DispatchFiber(t) \/ DispatchEnded(t) \/ DispatchCb(t) \/ SwapIn(t)
    \/ Body(t)
    \/ SwapOut(t) \/ Back(t) \/ Recycle(t)

PoolThread(t) == RunThread(t) \/ Run(t) \/ Exit(t)

-----------------------------------------------------------------------------
\* The owner

\* The owner is between calls and may make another one.
Client == mpc = "ready" \/ (MayReuse /\ mpc = "stopped")

OwnerSchedule(j, pin) ==
    /\ Client
    /\ j \notin submitted
    /\ Schedule(JobTask(j, pin))
    /\ submitted' = submitted \cup {j}
    /\ mpc' = "ready"
    /\ UNCHANGED <<threadVars, listVars, countVars, flagVars, fib, pc, localVars,
                   m_rootFiber, m_threadCount, ended, runs, requeues, late>>

\* start() up to its loop.  A call when m_stopping is false changes nothing.
\* Bound: Threads are the kernel threads there are for all calls of start().
StartBegin ==
    /\ Client
    /\ m_stopping
    /\ m_threadCount <= Cardinality({t \in Threads : life[t] = "none"})
    /\ m_stopping' = FALSE
    /\ mpc' = IF m_threads # <<>> THEN "abort"
              ELSE IF m_threadCount = 0 THEN "ready" ELSE "create"
    /\ UNCHANGED <<threadVars, m_tasks, listVars, countVars, m_autoStop, fib, pc,
                   localVars, m_rootFiber, m_threadCount, jobVars>>

\* The loop: the constructor of one Thread, up to its wait ...
StartCreate(t) ==
    /\ mpc = "create"
    /\ Create(t)
    /\ m_threads' = Append(m_threads, t)
    /\ mpc' = "wait"
    /\ UNCHANGED <<m_tasks, m_threadIds, thrs, countVars, flagVars, fib, pc,
                   localVars, m_rootFiber, m_threadCount, jobVars>>

\* ... and the rest of the iteration; the last one releases m_mutex.
StartWait(t) ==
    /\ mpc = "wait"
    /\ t = m_threads[Len(m_threads)]
    /\ CtorWait(t)
    /\ m_threadIds' = Append(m_threadIds, m_id[t])
    /\ mpc' = IF Len(m_threads) < m_threadCount THEN "create" ELSE "ready"
    /\ UNCHANGED <<m_tasks, m_threads, thrs, countVars, flagVars, fib, pc,
                   localVars, m_rootFiber, m_threadCount, jobVars>>

\* stop() is called on a started scheduler, or on one that has the owner's
\* thread to run what is left.
StopCall ==
    /\ Client
    /\ UseCaller \/ ~m_stopping
    /\ mpc' = "autoStop"
    /\ late' = {}
    /\ UNCHANGED <<threadVars, m_tasks, listVars, countVars, flagVars, fib, pc,
                   localVars, m_rootFiber, m_threadCount, submitted, ended, runs,
                   requeues>>

StopAutoStop ==
    /\ mpc = "autoStop"
    /\ m_autoStop' = TRUE
    /\ mpc' = IF /\ UseCaller
                 /\ m_threadCount = 0
                 /\ m_rootFiber.m_state \in {"TERM", "INIT"}
              THEN "rootOnly" ELSE "stopping"
    /\ UNCHANGED <<threadVars, m_tasks, listVars, countVars, m_stopping, fib, pc,
                   localVars, m_rootFiber, m_threadCount, jobVars>>

\* The early return of a scheduler that has only the owner's thread.
StopRootOnly ==
    /\ mpc = "rootOnly"
    /\ m_stopping' = TRUE
    /\ mpc' = "rootOnlyCheck"
    /\ UNCHANGED <<threadVars, m_tasks, listVars, countVars, m_autoStop, fib, pc,
                   localVars, m_rootFiber, m_threadCount, jobVars>>

StopRootOnlyCheck ==
    /\ mpc = "rootOnlyCheck"
    /\ mpc' = IF Stopping THEN "stopped" ELSE "stopping"
    /\ UNCHANGED <<threadVars, m_tasks, listVars, countVars, flagVars, fib, pc,
                   localVars, m_rootFiber, m_threadCount, jobVars>>

\* Mutant: m_stopping is not set again.
StopForgets ==
    /\ mpc = "stopping"
    /\ mpc' = IF UseCaller THEN "callRoot" ELSE "swap"
    /\ UNCHANGED <<threadVars, m_tasks, listVars, countVars, flagVars, fib, pc,
                   localVars, m_rootFiber, m_threadCount, jobVars>>

StopStopping ==
    /\ mpc = "stopping"
    /\ m_stopping' = TRUE
    /\ mpc' = IF UseCaller THEN "callRoot" ELSE "swap"
    /\ UNCHANGED <<threadVars, m_tasks, listVars, countVars, m_autoStop, fib, pc,
                   localVars, m_rootFiber, m_threadCount, jobVars>>

\* If work is left the owner's thread runs it too: Fiber::call on the root
\* fiber, which must not have run to its end before.
StopCallRoot ==
    /\ mpc = "callRoot"
    /\ IF Stopping
       THEN mpc' = "swap" /\ UNCHANGED <<pc, m_rootFiber>>
       ELSE IF Enterable(m_rootFiber) /\ m_rootFiber.m_ctx = "entry"
       THEN /\ m_rootFiber' = Entered(m_rootFiber)
            /\ mpc' = "called"
            /\ Goto(Caller, "enter")
       ELSE mpc' = "abort" /\ UNCHANGED <<pc, m_rootFiber>>
    /\ UNCHANGED <<threadVars, m_tasks, listVars, countVars, flagVars, fib,
                   localVars, m_threadCount, jobVars>>

StopSwap ==
    /\ mpc = "swap"
    /\ thrs' = m_threads
    /\ m_threads' = <<>>
    /\ mpc' = IF m_threads = <<>> THEN "stopped" ELSE "join"
    /\ UNCHANGED <<threadVars, m_tasks, m_threadIds, countVars, flagVars, fib, pc,
                   localVars, m_rootFiber, m_threadCount, jobVars>>

StopJoin ==
    /\ mpc = "join"
    /\ thrs # <<>>
    /\ Join(Head(thrs))
    /\ thrs' = Tail(thrs)
    /\ mpc' = IF Tail(thrs) = <<>> THEN "stopped" ELSE "join"
    /\ UNCHANGED <<m_tasks, m_threads, m_threadIds, countVars, flagVars, fib, pc,
                   localVars, m_rootFiber, m_threadCount, jobVars>>

\* ~Scheduler, and ~Fiber of the root fiber.
Destroy ==
    /\ mpc = "stopped" \/ (mpc = "ready" /\ m_stopping)
    /\ mpc' = IF m_stopping /\ (UseCaller => Idle(m_rootFiber))
              THEN "destroyed" ELSE "abort"
    /\ UNCHANGED <<threadVars, m_tasks, listVars, countVars, flagVars, fib, pc,
                   localVars, m_rootFiber, m_threadCount, jobVars>>

\* schedule() by a thread that is neither the owner's nor in run(), for any
\* thread of the pool; it may come at any time while the scheduler exists.
OutsideSchedule(j) ==
    /\ mpc # "destroyed"
    /\ j \in OutsideJobs \ submitted
    /\ Schedule(JobTask(j, NoTid))
    /\ submitted' = submitted \cup {j}
    /\ late' = IF mpc \in StopPC \cup {"stopped"} THEN late \cup {j} ELSE late
    /\ UNCHANGED <<threadVars, listVars, countVars, flagVars, fib, pc, localVars,
                   ownerVars, ended, runs, requeues>>

\* The scheduler is gone.
Gone ==
    /\ mpc = "destroyed"
    /\ UNCHANGED vars

\* What the owner decides to do ...
OwnerCall ==
    \/ \E j \in Jobs, pin \in {NoTid} \cup (IF UseCaller THEN {Caller} ELSE {}) :
        OwnerSchedule(j, pin)
    \/ StartBegin \/ StopCall \/ Destroy

\* ... and the code of start() and stop() it is then in.
InStart == \E t \in Threads : StartCreate(t) \/ StartWait(t)
InStop ==
    \/ StopAutoStop \/ StopRootOnly \/ StopRootOnlyCheck \/ StopStopping
    \/ StopCallRoot \/ StopSwap \/ StopJoin \/ RootReturn

Next ==
    \/ \E t \in Threads : PoolThread(t)
    \/ Run(Caller)
    \/ OwnerCall \/ InStart \/ InStop
    \/ \E j \in Jobs : OutsideSchedule(j)
    \/ Gone

\* Threads are scheduled by the kernel and every call runs on; the owner is
\* never obliged to make one.
Fairness ==
    /\ \A t \in Threads : WF_vars(PoolThread(t))
    /\ WF_vars(Run(Caller))
    /\ WF_vars(InStart)
    /\ WF_vars(InStop)

Spec == Init /\ [][Next]_vars /\ Fairness

-----------------------------------------------------------------------------
\* Properties

\* Threads that hold a task taken from the queue, up to the point where run()
\* gives back their count.
BusyPC == {"dispatch", "swapIn", "body", "yield", "end", "back"}
Busy == {t \in Runners : pc[t] \in BusyPC}

IdlePC == {"idle"}
Idling == {t \in Runners : pc[t] \in IdlePC}

\* The two counters cover the threads they stand for.  They are not equal to
\* the numbers of these threads: DispatchEnded leaves a count behind.
CountsCover ==
    /\ m_activeThreadCount >= Cardinality(Busy)
    /\ m_idleThreadCount >= Cardinality(Idling)

\* A thread that is to switch to a fiber, or is on one, has one.
HasFiber ==
    \A t \in Runners :
        /\ pc[t] = "dispatch" => task[t] \in Task
        /\ pc[t] \in BusyPC \ {"dispatch"} => Current(t) \in Jobs

\* The inductive invariant behind StoppingMeansQuiet: every thread that took
\* a task is still counted, so the counters (size_t) never wrap below zero,
\* and no thread switches to a null fiber.
IInv == TypeOK /\ CountsCover /\ HasFiber

\* stopping() is true only when no thread holds a task: there is no gap
\* between taking a task from the queue and counting the thread as active in
\* which the idle fibers could end (run() erases and counts in one critical
\* section for this reason).
StoppingMeansQuiet == Stopping => Busy = {}

\* Once stopping() is true inside stop() it stays true until stop() has
\* returned: no worker that has not looked yet finds new work and none that
\* has left is missed; unless a thread from outside schedules, which is the
\* one thing that can bring new work then.
StoppingStable ==
    [][Stopping /\ mpc \in StopPC =>
        Stopping' \/ \E j \in OutsideJobs : j \in submitted' \ submitted]_vars

\* The threads that execute on the stack of fiber f.
OnStack(f) ==
    {t \in Runners : pc[t] \in {"body", "yield", "end"} /\ Current(t) = f}

\* No two threads execute on the stack of one fiber, although a fiber puts
\* itself in the shared queue while it still runs.
FiberExclusive ==
    \A f \in Jobs : \A t, u \in OnStack(f) : t = u

\* Fiber::reset never rebinds a fiber while a thread is on its stack, be it
\* the reset that clears a callback or the one that installs the next.
ResetSafe ==
    [][\A f \in Jobs :
        (fib'[f].m_ctx = "entry" /\ fib[f] # fib'[f]
            /\ fib'[f].m_state = "INIT") => OnStack(f) = {}]_vars

\* No SYLAR_ASSERT of swapIn, call, reset, YieldToReady, start, the destructor
\* or the "never reach" lines fails.
AssertionsHold ==
    /\ mpc # "abort"
    /\ \A t \in Runners : pc[t] # "abort"

\* The queue entry carries job j: its callback, or the fiber that runs it.
Carries(tk, j) ==
    \/ tk.cb = j
    \/ tk.fiber # None /\ fib[tk.fiber].m_cb = j

\* A job that was scheduled and has not ended is in the queue or in the hands
\* of a thread: none is dropped when fibers yield, are reused or let go.
JobsAccounted ==
    \A j \in submitted \ ended :
        \/ \E i \in 1..Len(m_tasks) : Carries(m_tasks[i], j)
        \/ \E t \in Busy : task[t].cb = j \/ (Current(t) # None /\ Job(t) = j)

\* A job is entered at its beginning at most once: a yielded fiber continues
\* where it yielded, and a reused callback fiber does not run a job again.
RunsOnce == \A j \in Jobs : runs[j] <= 1

\* When stop() returns all that was scheduled has been executed, but for jobs
\* that a thread from outside scheduled after stop() was called; only these are
\* in the queue, every pool thread has been joined and no runner is left in
\* run().
StopDrains ==
    mpc = "stopped" =>
        /\ submitted \ ended \subseteq late
        /\ \A i \in 1..Len(m_tasks) : \E j \in late \ ended : Carries(m_tasks[i], j)
        /\ \A t \in Threads : life[t] \in {"none", "finished"} /\ ~m_thread[t]
        /\ \A t \in Runners : pc[t] = "off"

\* stop() comes back, whatever was queued, running or yielding when it was
\* called.
StopReturns == mpc \in StopPC ~> mpc = "stopped"

\* stop() comes back unless a count has been left behind: the only way for it
\* to wait for ever is a task whose fiber had ended when it was taken
\* (DispatchEnded), after which m_activeThreadCount exceeds the threads that
\* are active.
StopReturnsOrLeaks ==
    mpc \in StopPC ~> (mpc = "stopped" \/ m_activeThreadCount > Cardinality(Busy))

\* A task that only the owner's thread may run waits for stop().
ForCaller(j) ==
    \E i \in 1..Len(m_tasks) : Carries(m_tasks[i], j) /\ m_tasks[i].thread = Caller

\* While the pool runs, a job it may execute is executed, also if stop() is
\* never called.
JobsComplete ==
    \A j \in Jobs :
        (j \in submitted /\ ~m_stopping /\ ~ForCaller(j)) ~> j \in ended

\* The scheduler implements TaskPool.
Pool == INSTANCE TaskPool WITH
    phase <- [j \in Jobs |-> CASE j \notin submitted -> "new"
                               [] j \in ended -> "over"
                               [] j \in submitted \ ended /\ runs[j] = 0 -> "waiting"
                               [] OTHER -> "running"],
    stop <- CASE mpc \in StopPC -> "called"
              [] mpc = "stopped" -> "returned"
              [] OTHER -> "no"

\* Every job handed over is begun once and ended once, and stop() returns only
\* when none is waiting or running but those that came too late for it.
ImplementsTaskPool == Pool!PoolSpec
=============================================================================
