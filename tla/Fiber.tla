------------------------------- MODULE Fiber -------------------------------
(***************************************************************************)
(* sylar::Fiber (sylar/fiber.h, sylar/fiber.cpp): the value a fiber object *)
(* holds and what each operation does to it.  The module has no variables: *)
(* Scheduler and FiberSwitch keep fiber objects in their state and apply    *)
(* these operators to them.                                                *)
(*                                                                         *)
(* A fiber object is a record:                                             *)
(*   m_state  the five states of Fiber::State;                             *)
(*   m_ctx    where the saved ucontext resumes: "entry" is the start of    *)
(*            MainFunc (makecontext), "yielded" is inside YieldToReady     *)
(*            after its swapOut, "ended" is after the last swapOut/back of *)
(*            MainFunc/CallerMainFunc, where the code asserts "never       *)
(*            reach";                                                      *)
(*   m_cb     the callback to run, None once it has been cleared.          *)
(* The stack memory, its size and getcontext failures are left out.        *)
(***************************************************************************)
CONSTANTS
    Callbacks,  \* what a fiber may run
    None        \* nullptr

ASSUME NoneAssumption == None \notin Callbacks

State == {"INIT", "READY", "EXEC", "TERM", "EXCEPT"}
ResumePoint == {"entry", "yielded", "ended"}

\* Fibers whose callback is one of C.
FiberOf(C) == [m_state : State, m_ctx : ResumePoint, m_cb : C \cup {None}]
FiberObject == FiberOf(Callbacks)

\* Fiber::Fiber(cb, ...): makecontext binds the entry function.
NewFiber(cb) == [m_state |-> "INIT", m_ctx |-> "entry", m_cb |-> cb]

\* The states in which Fiber::reset and ~Fiber assert the object to be.
Idle(fb) == fb.m_state \in {"EXCEPT", "TERM", "INIT"}

\* Fiber::reset: new callback, fresh context on the same stack.
Reset(fb, cb) ==
    [fb EXCEPT !.m_cb = cb, !.m_ctx = "entry", !.m_state = "INIT"]

\* The assertion of swapIn and call: the fiber is not running already.
Enterable(fb) == fb.m_state # "EXEC"

\* swapIn and call: EXEC, then the processor jumps to m_ctx.
Entered(fb) == [fb EXCEPT !.m_state = "EXEC"]

\* YieldToReady before its swapOut: READY while the stack is still in use.
YieldMarked(fb) == [fb EXCEPT !.m_state = "READY"]

\* MainFunc after the callback returned ...
Returned(fb) == [fb EXCEPT !.m_cb = None, !.m_state = "TERM"]

\* ... or threw, which leaves m_cb in place.
Threw(fb) == [fb EXCEPT !.m_state = "EXCEPT"]

\* swapOut and back: swapcontext saves where this fiber will resume.
SwappedOut(fb, point) == [fb EXCEPT !.m_ctx = point]

\* The fiber has run to its end and may not be entered again.
Ended(fb) == fb.m_state \in {"TERM", "EXCEPT"}
=============================================================================
