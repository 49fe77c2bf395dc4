------------------------------- MODULE Thread -------------------------------
(***************************************************************************)
(* sylar::Thread (sylar/thread.h, sylar/thread.cpp) with the Semaphore of  *)
(* sylar/mutex.cpp its constructor waits on.  The actions below are the    *)
(* steps of the two parties: the code that owns the Thread object          *)
(* (constructor, join, destructor) and the new kernel thread (Thread::run).*)
(* Scheduler uses them for its pool, ThreadLife for a thread of its own.   *)
(* Names (m_name, t_thread_name) are left out.                             *)
(***************************************************************************)
EXTENDS Naturals

CONSTANTS
    Threads,  \* kernel threads that may be created; its members are the tids
    NoTid     \* -1: m_id before the thread has set it

ASSUME NoTidAssumption == NoTid \notin Threads

VARIABLES
    life,         \* the kernel thread
    m_id,         \* Thread::m_id
    m_thread,     \* Thread::m_thread # 0: neither joined nor detached yet
    m_semaphore   \* Thread::m_semaphore

threadVars == <<life, m_id, m_thread, m_semaphore>>

Life == {"none", "created", "running", "finished"}

ThreadTypeOK ==
    /\ life \in [Threads -> Life]
    /\ m_id \in [Threads -> Threads \cup {NoTid}]
    /\ m_thread \in [Threads -> BOOLEAN]
    /\ m_semaphore \in [Threads -> Nat]

ThreadInit ==
    /\ life = [t \in Threads |-> "none"]
    /\ m_id = [t \in Threads |-> NoTid]
    /\ m_thread = [t \in Threads |-> FALSE]
    /\ m_semaphore = [t \in Threads |-> 0]

\* Thread::Thread up to pthread_create.
Create(t) ==
    /\ life[t] = "none"
    /\ life' = [life EXCEPT ![t] = "created"]
    /\ m_thread' = [m_thread EXCEPT ![t] = TRUE]
    /\ UNCHANGED <<m_id, m_semaphore>>

\* Mutants of the steps below: the thread signals before it has set its id;
\* it never signals; wait() comes back without the signal; join comes back
\* while the thread still runs.
NotifyFirst(t) ==
    /\ life[t] = "created"
    /\ life' = [life EXCEPT ![t] = "running"]
    /\ m_semaphore' = [m_semaphore EXCEPT ![t] = @ + 1]
    /\ UNCHANGED <<m_id, m_thread>>

NoNotify(t) ==
    /\ life[t] = "created"
    /\ life' = [life EXCEPT ![t] = "running"]
    /\ m_id' = [m_id EXCEPT ![t] = t]
    /\ UNCHANGED <<m_thread, m_semaphore>>

NoWait(t) ==
    /\ m_semaphore' = [m_semaphore EXCEPT ![t] = @ - 1]
    /\ UNCHANGED <<life, m_id, m_thread>>

JoinEarly(t) ==
    /\ m_thread[t]
    /\ m_thread' = [m_thread EXCEPT ![t] = FALSE]
    /\ UNCHANGED <<life, m_id, m_semaphore>>

\* Semaphore::notify and Semaphore::wait.
Notify(t) == m_semaphore' = [m_semaphore EXCEPT ![t] = @ + 1]
Wait(t) ==
    /\ m_semaphore[t] > 0
    /\ m_semaphore' = [m_semaphore EXCEPT ![t] = @ - 1]

\* Thread::run up to m_semaphore.notify().
RunProlog(t) ==
    /\ life[t] = "created"
    /\ life' = [life EXCEPT ![t] = "running"]
    /\ m_id' = [m_id EXCEPT ![t] = t]
    /\ Notify(t)
    /\ UNCHANGED m_thread

\* Thread::Thread: m_semaphore.wait(), after which the constructor returns.
CtorWait(t) ==
    /\ Wait(t)
    /\ UNCHANGED <<life, m_id, m_thread>>

\* The callback has returned and so does Thread::run.
Finish(t) ==
    /\ life[t] = "running"
    /\ life' = [life EXCEPT ![t] = "finished"]
    /\ UNCHANGED <<m_id, m_thread, m_semaphore>>

\* Thread::join: pthread_join blocks until the thread has finished.
Join(t) ==
    /\ m_thread[t]
    /\ life[t] = "finished"
    /\ m_thread' = [m_thread EXCEPT ![t] = FALSE]
    /\ UNCHANGED <<life, m_id, m_semaphore>>

\* Thread::~Thread: detaches a thread nobody has joined.
Detach(t) ==
    /\ m_thread' = [m_thread EXCEPT ![t] = FALSE]
    /\ UNCHANGED <<life, m_id, m_semaphore>>
=============================================================================
