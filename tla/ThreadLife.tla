----------------------------- MODULE ThreadLife -----------------------------
(***************************************************************************)
(* Thread objects outside a scheduler, as in tests/test_thread.cpp: an     *)
(* owner constructs one, may join it and destroys it, while the kernel     *)
(* thread it stands for goes its own way.  ~Thread detaches a thread that  *)
(* nobody has joined, so the object may be gone before the thread is.      *)
(***************************************************************************)
EXTENDS Thread

CONSTANTS
    UsesThis,   \* threads whose callback uses Thread::GetThis() or Thread::SetName()
    JoinsFirst  \* threads whose owner joins them before it destroys the object

ASSUME ThreadLifeAssumption == UsesThis \subseteq Threads /\ JoinsFirst \subseteq Threads

VARIABLES
    owner,     \* where the owner of each Thread object is
    joined,    \* pthread_join has returned
    detached,  \* pthread_detach has been called
    stale      \* a thread has touched an object that is gone

lifeVars == <<owner, joined, detached, stale>>
vars == <<threadVars, lifeVars>>

\* The type invariant; the semaphore of a Thread never goes below zero.
LifeTypeOK ==
    /\ ThreadTypeOK
    /\ owner \in [Threads -> {"none", "constructing", "alive", "failed", "gone"}]
    /\ joined \in [Threads -> BOOLEAN]
    /\ detached \in [Threads -> BOOLEAN]
    /\ stale \in BOOLEAN

Init ==
    /\ ThreadInit
    /\ owner = [t \in Threads |-> "none"]
    /\ joined = [t \in Threads |-> FALSE]
    /\ detached = [t \in Threads |-> FALSE]
    /\ stale = FALSE

\* The constructor: pthread_create ...
Construct(t) ==
    /\ owner[t] = "none"
    /\ Create(t)
    /\ owner' = [owner EXCEPT ![t] = "constructing"]
    /\ UNCHANGED <<joined, detached, stale>>

\* ... which may fail, and then the constructor throws ...
ConstructFails(t) ==
    /\ owner[t] = "none"
    /\ owner' = [owner EXCEPT ![t] = "failed"]
    /\ UNCHANGED <<threadVars, joined, detached, stale>>

\* ... or waits for the thread and returns.
Constructed(t) ==
    /\ owner[t] = "constructing"
    /\ CtorWait(t)
    /\ owner' = [owner EXCEPT ![t] = "alive"]
    /\ UNCHANGED <<joined, detached, stale>>

\* join(): does nothing the second time.
JoinThread(t) ==
    /\ owner[t] = "alive"
    /\ Join(t)
    /\ joined' = [joined EXCEPT ![t] = TRUE]
    /\ UNCHANGED <<owner, detached, stale>>

\* ~Thread
Destroy(t) ==
    /\ owner[t] = "alive"
    /\ t \in JoinsFirst => ~m_thread[t]
    /\ owner' = [owner EXCEPT ![t] = "gone"]
    /\ detached' = [detached EXCEPT ![t] = m_thread[t]]
    /\ IF m_thread[t] THEN Detach(t) ELSE UNCHANGED threadVars
    /\ UNCHANGED <<joined, stale>>

\* Thread::run up to the callback: it reads and writes the Thread object.
Begin(t) ==
    /\ RunProlog(t)
    /\ stale' = (stale \/ owner[t] = "gone")
    /\ UNCHANGED <<owner, joined, detached>>

\* The callback asks for its Thread object.
UseThis(t) ==
    /\ t \in UsesThis
    /\ life[t] = "running"
    /\ stale' = (stale \/ owner[t] = "gone")
    /\ UNCHANGED <<threadVars, owner, joined, detached>>

\* The callback returns; Thread::run touches the object no more.
Over(t) ==
    /\ Finish(t)
    /\ UNCHANGED lifeVars

Owner(t) ==
    \/ Construct(t) \/ ConstructFails(t) \/ Constructed(t)
    \/ JoinThread(t) \/ Destroy(t)

Kernel(t) == Begin(t) \/ UseThis(t) \/ Over(t)

\* Everything ends when all threads are over and all objects gone.
Next == \E t \in Threads : Owner(t) \/ Kernel(t)

\* The kernel runs a thread it has created, and a constructor goes on.
Fairness == \A t \in Threads : WF_vars(Begin(t)) /\ WF_vars(Constructed(t))

Spec == Init /\ [][Next]_vars /\ Fairness

-----------------------------------------------------------------------------
\* When the constructor has returned the thread has set its id: getId() never
\* gives the -1 of a thread that has not begun.
IdPublished == \A t \in Threads : owner[t] \in {"alive", "gone"} => m_id[t] = t

\* A kernel thread is given back exactly once, by join or by the destructor,
\* and join returns only after the thread is over.
ReleasedOnce ==
    \A t \in Threads :
        /\ ~(joined[t] /\ detached[t])
        /\ owner[t] = "gone" => joined[t] \/ detached[t]
        /\ joined[t] => life[t] = "finished"

\* The life of a Thread object: types, ids and the one release.
LifeInv == LifeTypeOK /\ IdPublished /\ ReleasedOnce

\* The thread never touches a Thread object that has been destroyed.
NoStaleThis == ~stale

\* A constructor that has created its thread returns.
ConstructorReturns == \A t \in Threads : owner[t] = "constructing" ~> owner[t] = "alive"
=============================================================================
