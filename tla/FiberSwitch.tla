---------------------------- MODULE FiberSwitch ----------------------------
(***************************************************************************)
(* The switches of sylar/fiber.cpp on one thread: who runs, whose context  *)
(* is saved where, which fiber Fiber::GetThis names, and who still refers  *)
(* to a fiber object.                                                      *)
(*                                                                         *)
(* An execution is named by the fiber it belongs to; Main is the thread's  *)
(* own.  slot[x] is the execution whose registers are in x's m_ctx.        *)
(* swapIn and swapOut save and load through Scheduler::GetMainFiber(), the *)
(* fiber sched that runs Scheduler::run; call and back through the main    *)
(* fiber.  In the owner's thread sched is the root fiber, in a pool thread *)
(* Main.  (On a thread no scheduler runs on it is null and swapIn crashes: *)
(* such threads are left out.)                                             *)
(*                                                                         *)
(* The client is the one of scheduler.cpp: Main calls the root fiber, and  *)
(* the fiber sched makes, swaps in, resets and drops the others.           *)
(***************************************************************************)
EXTENDS Fiber, Naturals

CONSTANTS
    Main,         \* the main fiber of the thread
    Roots,        \* fibers made with isBackToCaller: at most one
    Tasks,        \* the other fibers
    MaxYields,    \* bound: yields of one fiber
    MaxResets     \* bound: calls of reset()

Fibers == Roots \cup Tasks
Executions == Fibers \cup {Main}

ASSUME FiberSwitchAssumption ==
    /\ Main \notin Fibers /\ Main # None
    /\ Callbacks = Fibers
    /\ Roots \cap Tasks = {}
    /\ \A r, s \in Roots : r = s
    /\ MaxYields \in Nat /\ MaxResets \in Nat

VARIABLES
    sched,    \* Scheduler's thread local t_scheduler_fiber: GetMainFiber()
    cur,      \* the execution that has the processor
    slot,     \* what is saved in each m_ctx
    t_fiber,  \* Fiber's thread local t_scheduler_fiber: what GetThis returns
    fib,      \* the Fiber objects
    entry,    \* the function makecontext bound
    object,   \* "none" before construction, "alive", "freed" after destruction
    handle,   \* the client holds a Fiber::ptr
    ownRefs,  \* Fiber::ptr locals on the fiber's own stack
    yields,   \* yields of each fiber so far
    resets,   \* calls of reset() so far
    fault     \* an assertion has failed or a stack in use has been freed

vars == <<sched, cur, slot, t_fiber, fib, entry, object, handle, ownRefs,
          yields, resets, fault>>

Entry == {"MainFunc", "CallerMainFunc"}

\* The type invariant: a fiber's own stack holds at most the Fiber::ptr of
\* MainFunc and the one of a YieldToReady.
FiberSwitchTypeOK ==
    /\ sched \in Executions
    /\ cur \in Executions
    /\ slot \in [Executions -> Executions]
    /\ t_fiber \in Executions \cup {None}
    /\ fib \in [Fibers -> FiberObject]
    /\ entry \in [Fibers -> Entry]
    /\ object \in [Fibers -> {"none", "alive", "freed"}]
    /\ handle \in [Fibers -> BOOLEAN]
    /\ ownRefs \in [Fibers -> 0..2]
    /\ fault \in BOOLEAN

\* The constructor of Scheduler, or run() in a pool thread, has set sched.
Init ==
    /\ sched \in Roots \cup {Main}
    /\ cur = Main
    /\ slot = [x \in Executions |-> x]
    /\ t_fiber = None
    /\ fib = [f \in Fibers |-> NewFiber(f)]
    /\ entry = [f \in Fibers |-> "MainFunc"]
    /\ object = [f \in Fibers |-> "none"]
    /\ handle = [f \in Fibers |-> FALSE]
    /\ ownRefs = [f \in Fibers |-> 0]
    /\ yields = [f \in Fibers |-> 0]
    /\ resets = 0
    /\ fault = FALSE

-----------------------------------------------------------------------------
\* Steps

\* SetThis(x)
SetThis(x) == t_fiber' = x

\* swapcontext(&save->m_ctx, &load->m_ctx)
SwapContext(save, load) ==
    LET saved == [slot EXCEPT ![save] = cur]
    IN  slot' = saved /\ cur' = saved[load]

\* swapOut of f: back to the fiber that dispatches.
SwapOut(f) == SetThis(sched) /\ SwapContext(f, sched)

\* back of f: to the main fiber of the thread.
Back(f) == SetThis(Main) /\ SwapContext(f, Main)

\* The last Fiber::ptr goes: ~Fiber runs as part of the same step, and its
\* assertion on m_state with it.
Dropped(f) ==
    /\ object' = [object EXCEPT ![f] = IF handle'[f] \/ ownRefs'[f] > 0 THEN @ ELSE "freed"]
    /\ fault' = (object'[f] = "freed" /\ ~Idle(fib[f]))

\* Fiber::Fiber(): a fiber for what the thread is doing already.
MainFiber == SetThis(Main)

\* Fiber::GetThis() for the first time: the main fiber.
MakeMain ==
    /\ t_fiber = None
    /\ MainFiber
    /\ UNCHANGED <<sched, cur, slot, fib, entry, object, handle, ownRefs, yields, resets, fault>>

\* Mutant: the constructor ignores isBackToCaller.
MakePlain(f) ==
    /\ t_fiber # None
    /\ object[f] = "none"
    /\ IF f \in Roots THEN f = sched /\ cur = Main ELSE cur = sched
    /\ object' = [object EXCEPT ![f] = "alive"]
    /\ handle' = [handle EXCEPT ![f] = TRUE]
    /\ UNCHANGED <<sched, cur, slot, t_fiber, fib, entry, ownRefs, yields, resets, fault>>

\* std::make_shared<Fiber>(cb, stacksize, isBackToCaller)
Make(f) ==
    /\ t_fiber # None
    /\ object[f] = "none"
    /\ IF f \in Roots THEN f = sched /\ cur = Main ELSE cur = sched
    /\ object' = [object EXCEPT ![f] = "alive"]
    /\ handle' = [handle EXCEPT ![f] = TRUE]
    /\ entry' = [entry EXCEPT ![f] = IF f \in Roots THEN "CallerMainFunc" ELSE "MainFunc"]
    /\ UNCHANGED <<sched, cur, slot, t_fiber, fib, ownRefs, yields, resets, fault>>

\* Fiber::ptr locals on f's stack once control is back where f left off: MainFunc
\* begins with one to itself; a YieldToReady that comes back drops its own.
RefsAt(f) ==
    CASE fib[f].m_ctx = "entry" -> 1
      [] fib[f].m_ctx = "yielded" -> ownRefs[f] - 1
      [] fib[f].m_ctx = "ended" -> ownRefs[f]

\* swapIn and call: control arrives where f left off, which is the "never reach"
\* if f left for the last time.
Enter(f, save) ==
    /\ SetThis(f)
    /\ IF Enterable(fib[f])
       THEN /\ fib' = [fib EXCEPT ![f] = Entered(@)]
            /\ SwapContext(save, f)
            /\ ownRefs' = [ownRefs EXCEPT ![f] = RefsAt(f)]
            /\ fault' = (fib[f].m_ctx = "ended")
       ELSE /\ fault' = TRUE
            /\ UNCHANGED <<fib, slot, cur, ownRefs>>
    /\ UNCHANGED <<sched, entry, object, handle, yields, resets>>

\* The dispatcher swaps in a task that has not ended.
SwapIn(f) ==
    /\ cur = sched
    /\ f \in Tasks
    /\ handle[f]
    /\ ~Ended(fib[f])
    /\ Enter(f, sched)

\* Mutant: the root fiber is entered like any other fiber.
CallThroughSched(f) ==
    /\ cur = Main
    /\ f \in Roots
    /\ handle[f]
    /\ Enter(f, sched)

\* The owner's thread enters the root fiber, whatever has become of it.
Call(f) ==
    /\ cur = Main
    /\ f \in Roots
    /\ handle[f]
    /\ Enter(f, Main)

\* Mutant: swapOut without its SetThis.
YieldNoSetThis(f) ==
    /\ cur = f
    /\ f \in Tasks
    /\ yields[f] < MaxYields
    /\ yields' = [yields EXCEPT ![f] = @ + 1]
    /\ fib' = [fib EXCEPT ![f] = SwappedOut(YieldMarked(@), "yielded")]
    /\ ownRefs' = [ownRefs EXCEPT ![f] = @ + 1]
    /\ SwapContext(f, sched)
    /\ UNCHANGED <<sched, t_fiber, entry, object, handle, resets, fault>>

\* YieldToReady on the running task: a second Fiber::ptr stays on its stack.
YieldToReady(f) ==
    /\ cur = f
    /\ f \in Tasks
    /\ yields[f] < MaxYields
    /\ yields' = [yields EXCEPT ![f] = @ + 1]
    /\ IF t_fiber = f /\ fib[f].m_state = "EXEC"
       THEN /\ fib' = [fib EXCEPT ![f] = SwappedOut(YieldMarked(@), "yielded")]
            /\ ownRefs' = [ownRefs EXCEPT ![f] = @ + 1]
            /\ SwapOut(f)
            /\ UNCHANGED fault
       ELSE /\ fault' = TRUE
            /\ UNCHANGED <<fib, ownRefs, t_fiber, slot, cur>>
    /\ UNCHANGED <<sched, entry, object, handle, resets>>

\* Mutant: MainFunc keeps its Fiber::ptr while it leaves for the last time.
EndKeepsRef(f, over) ==
    /\ cur = f
    /\ fib' = [fib EXCEPT ![f] = SwappedOut(over, "ended")]
    /\ IF entry[f] = "CallerMainFunc" THEN Back(f) ELSE SwapOut(f)
    /\ fault' = (cur' = f)
    /\ UNCHANGED <<sched, entry, object, handle, ownRefs, yields, resets>>

\* MainFunc and CallerMainFunc after the callback: the Fiber::ptr is dropped by
\* hand, then swapOut or back.  It must not be the last one, for ~Fiber would
\* free the stack in use; and coming back here is the "never reach".
End(f, over) ==
    /\ cur = f
    /\ fib' = [fib EXCEPT ![f] = SwappedOut(over, "ended")]
    /\ ownRefs' = [ownRefs EXCEPT ![f] = 0]
    /\ object' = [object EXCEPT ![f] = IF handle[f] THEN @ ELSE "freed"]
    /\ IF entry[f] = "CallerMainFunc" THEN Back(f) ELSE SwapOut(f)
    /\ fault' = (cur' = f \/ ~handle[f])
    /\ UNCHANGED <<sched, entry, handle, yields, resets>>

Return(f) == f \in Fibers /\ End(f, Returned(fib[f]))

\* run() itself does not throw: only tasks do.
Throw(f) == f \in Tasks /\ End(f, Threw(fib[f]))

\* The client lets go of a task it is not running.
Drop(f) ==
    /\ cur = sched
    /\ f \in Tasks
    /\ handle[f]
    /\ handle' = [handle EXCEPT ![f] = FALSE]
    /\ UNCHANGED ownRefs
    /\ Dropped(f)
    /\ UNCHANGED <<sched, cur, slot, t_fiber, fib, entry, yields, resets>>

\* reset(cb) of a task that has ended or not begun: always rebound to MainFunc.
ResetFiber(f) ==
    /\ cur = sched
    /\ f \in Tasks
    /\ handle[f]
    /\ Idle(fib[f])
    /\ resets < MaxResets
    /\ resets' = resets + 1
    /\ fib' = [fib EXCEPT ![f] = Reset(@, f)]
    /\ slot' = [slot EXCEPT ![f] = f]
    /\ entry' = [entry EXCEPT ![f] = "MainFunc"]
    /\ UNCHANGED <<sched, cur, t_fiber, object, handle, ownRefs, yields, fault>>

\* The client has nothing more to do, or the program has aborted.
Rest ==
    /\ cur = Main \/ fault
    /\ UNCHANGED vars

Step ==
    \/ MakeMain
    \/ \E f \in Fibers :
        \/ Make(f) \/ SwapIn(f) \/ Call(f)
        \/ YieldToReady(f) \/ Return(f) \/ Throw(f)
        \/ Drop(f) \/ ResetFiber(f)

Next == (~fault /\ Step) \/ Rest

Spec == Init /\ [][Next]_vars

-----------------------------------------------------------------------------
\* Every context a switch could load is the execution of the fiber it was
\* saved for: no fiber's m_ctx is overwritten by another's registers, the
\* "running away" that scheduler.cpp warns about.
OwnContext ==
    \A x \in Executions \ {cur} : slot[x] = x

\* The contexts of one thread's fibers are of their types and each is its own.
ContextInv == FiberSwitchTypeOK /\ OwnContext

\* Fiber::GetThis() names the fiber that is running, after every switch in
\* either direction.
GetThisRight == t_fiber # None => t_fiber = cur

\* Nothing goes wrong but by one misuse: calling the root fiber once more when
\* its run() is over, which arrives at the "never reach" of CallerMainFunc.  But
\* for that no fiber is resumed behind its last switch, none is entered while it
\* runs, yields in a wrong state or is freed while it is suspended, and none
\* frees the stack it is on.
OnlySecondCallFaults ==
    fault => cur \in Roots /\ fib[cur].m_state = "EXEC" /\ fib[cur].m_ctx = "ended"

\* A freed fiber is not running, and a fiber that has ended and that the client
\* has let go of is freed: the Fiber::ptr on its own stack does not keep it.
Reclaimed ==
    \A f \in Fibers :
        /\ object[f] = "freed" => cur # f /\ Idle(fib[f])
        /\ object[f] = "alive" /\ Ended(fib[f]) => handle[f]
=============================================================================
