-------------------------- MODULE FiberSwitchProofs --------------------------
(***************************************************************************)
(* The switches of fiber.cpp, for any number of fibers, yields and resets: *)
(* every context is its own, Fiber::GetThis names the running fiber, no    *)
(* fiber frees the stack it is on, and no assertion fails but the one a    *)
(* second call of the root fiber meets.                                    *)
(***************************************************************************)
EXTENDS FiberSwitch, TLAPS

-----------------------------------------------------------------------------
\* The inductive invariant

\* Fiber f has the processor, or is the dispatcher that gave it to a task.
Running(f) == cur = f \/ (f = sched /\ cur \in Tasks)

\* The state of a fiber says where its context was saved and how many Fiber::ptr
\* are on its own stack: MainFunc's while it runs, YieldToReady's too while it
\* has yielded.
StackFits(f) ==
    /\ fib[f].m_state = "INIT" => fib[f].m_ctx = "entry" /\ ownRefs[f] = 0
    /\ fib[f].m_state = "EXEC" => ownRefs[f] = 1
    /\ fib[f].m_state = "READY" => fib[f].m_ctx = "yielded" /\ ownRefs[f] = 2
    /\ Ended(fib[f]) => fib[f].m_ctx = "ended" /\ ownRefs[f] = 0

\* The client holds what runs; what nobody holds but itself has yielded.
HeldFits(f) ==
    /\ Running(f) <=> fib[f].m_state = "EXEC"
    /\ Running(f) => handle[f]
    /\ handle[f] => object[f] = "alive"
    /\ object[f] = "alive" /\ ~handle[f] => fib[f].m_state = "READY"
    /\ fib[f].m_state = "READY" => object[f] = "alive" /\ f \in Tasks

\* A root fiber was made to dispatch on this thread and goes back to Main, any
\* other fiber goes back to the dispatcher.
EntryFits(f) ==
    IF f \in Tasks THEN entry[f] = "MainFunc"
    ELSE object[f] # "none" => f = sched /\ entry[f] = "CallerMainFunc"

NoFault == ~fault

\* The invariant until the root fiber has been called once too often.
SwitchInv ==
    /\ ContextInv /\ GetThisRight /\ NoFault
    /\ sched \in Roots \cup {Main}
    /\ cur \in Tasks \cup {sched, Main}
    /\ cur # Main => t_fiber # None
    /\ \A f \in Fibers : StackFits(f) /\ HeldFits(f) /\ EntryFits(f)

\* The program has met the "never reach" behind the last switch of the root
\* fiber, and stops there.
EndedCalled ==
    /\ fault /\ OnlySecondCallFaults
    /\ ContextInv /\ GetThisRight /\ Reclaimed

-----------------------------------------------------------------------------
\* Facts the steps share

\* None of the three kinds of execution is another.
LEMMA Kinds ==
    /\ Main \notin Fibers /\ Main # None /\ None \notin Fibers
    /\ Tasks \subseteq Fibers /\ Roots \cap Tasks = {}
    /\ Fibers \cap (Executions \ {Main}) = Fibers
    /\ Main \in Executions /\ Fibers \subseteq Executions
BY FiberSwitchAssumption, NoneAssumption DEF Fibers, Executions

\* swapcontext from the running execution to another, each context being its
\* own: control arrives there and every context is still its own.
LEMMA Switched ==
    ASSUME cur \in Executions, slot \in [Executions -> Executions], OwnContext,
           NEW load \in Executions, load # cur, SwapContext(cur, load)
    PROVE  cur' = load /\ slot' \in [Executions -> Executions] /\ OwnContext'
<1>1. slot' = [slot EXCEPT ![cur] = cur] /\ cur' = slot'[load]
  BY DEF SwapContext
<1>2. slot[load] = load
  BY DEF OwnContext
<1>3. cur' = load
  BY <1>1, <1>2
<1> QED
  BY <1>1, <1>3 DEF OwnContext

\* A fiber that a step leaves alone.
LEMMA FitsKept ==
    ASSUME NEW g \in Fibers, StackFits(g), HeldFits(g), EntryFits(g),
           fib'[g] = fib[g], ownRefs'[g] = ownRefs[g], object'[g] = object[g],
           entry'[g] = entry[g], sched' = sched,
           handle'[g] <=> handle[g], Running(g)' <=> Running(g)
    PROVE  (StackFits(g) /\ HeldFits(g) /\ EntryFits(g))'
<1>1. StackFits(g)'
  BY DEF StackFits
<1>2. EntryFits(g)'
  BY DEF EntryFits
<1>3. HeldFits(g)'
  BY DEF HeldFits
<1> QED
  BY <1>1, <1>2, <1>3

\* What is freed does not run and is not suspended; what has ended and is let go
\* of is freed.
LEMMA FreedFits ==
    ASSUME SwitchInv, NEW f \in Fibers
    PROVE  /\ object[f] = "freed" => ~Running(f) /\ Idle(fib[f])
           /\ object[f] = "alive" /\ Ended(fib[f]) => handle[f]
<1>1. HeldFits(f) /\ fib[f].m_state \in State
  BY DEF SwitchInv, ContextInv, FiberSwitchTypeOK, FiberObject, FiberOf
<1>2. object[f] = "freed" => ~Running(f)
  BY <1>1 DEF HeldFits
<1> QED
  BY <1>1, <1>2 DEF HeldFits, Idle, Ended, State

-----------------------------------------------------------------------------
\* Every step preserves the invariant

\* No fiber has been made.
LEMMA SwitchInit == Init => SwitchInv
<1> SUFFICES ASSUME Init PROVE SwitchInv
  OBVIOUS
<1>1. FiberSwitchTypeOK
  <2>1. \A f \in Fibers : NewFiber(f) \in FiberObject
    BY FiberSwitchAssumption DEF NewFiber, FiberObject, FiberOf, State, ResumePoint
  <2>2. handle \in [Fibers -> BOOLEAN] /\ fault \in BOOLEAN
    BY Zenon DEF Init
  <2>3. sched \in Executions /\ cur \in Executions /\ slot \in [Executions -> Executions]
    BY DEF Init, Executions, Fibers
  <2> QED
    BY <2>1, <2>2, <2>3 DEF Init, FiberSwitchTypeOK, Entry
<1>2. OwnContext /\ GetThisRight /\ NoFault /\ sched \in Roots \cup {Main} /\ cur = Main
  BY DEF Init, OwnContext, GetThisRight, NoFault
<1>3. ASSUME NEW f \in Fibers
      PROVE  StackFits(f) /\ HeldFits(f) /\ EntryFits(f)
  <2>1. fib[f].m_state = "INIT" /\ fib[f].m_ctx = "entry" /\ ownRefs[f] = 0
    BY DEF Init, NewFiber
  <2>2. object[f] = "none" /\ entry[f] = "MainFunc" /\ ~handle[f]
    BY DEF Init
  <2>3. ~Running(f)
    BY <1>2, Kinds DEF Running
  <2> QED
    BY <2>1, <2>2, <2>3 DEF StackFits, HeldFits, EntryFits, Ended
<1> QED
  BY <1>1, <1>2, <1>3 DEF SwitchInv, ContextInv

\* The main fiber is made before any other.
LEMMA MakeMainPreserves ==
    ASSUME SwitchInv, MakeMain
    PROVE  SwitchInv'
<1>1. /\ t_fiber = None /\ t_fiber' = Main
      /\ UNCHANGED <<sched, cur, slot, fib, entry, object, handle, ownRefs, fault>>
  BY DEF MakeMain, MainFiber, SetThis
<1>2. cur = Main
  BY <1>1 DEF SwitchInv
<1>3. ContextInv'
  BY <1>1, Kinds DEF SwitchInv, ContextInv, FiberSwitchTypeOK, OwnContext
<1>4. GetThisRight' /\ NoFault'
  BY <1>1, <1>2 DEF SwitchInv, GetThisRight, NoFault
<1>5. \A f \in Fibers : (StackFits(f) /\ HeldFits(f) /\ EntryFits(f))'
  <2> SUFFICES ASSUME NEW f \in Fibers PROVE (StackFits(f) /\ HeldFits(f) /\ EntryFits(f))'
    OBVIOUS
  <2>1. Running(f)' <=> Running(f)
    BY <1>1 DEF Running
  <2> QED
    BY <1>1, <2>1, FitsKept DEF SwitchInv
<1> QED
  BY <1>1, <1>2, <1>3, <1>4, <1>5 DEF SwitchInv

\* A fiber is made by the dispatcher, the root fiber by Main.
LEMMA MakePreserves ==
    ASSUME SwitchInv, NEW f \in Fibers, Make(f)
    PROVE  SwitchInv'
<1>1. /\ object[f] = "none" /\ t_fiber # None
      /\ UNCHANGED <<sched, cur, slot, t_fiber, fib, ownRefs, fault>>
      /\ f \notin Tasks => f = sched
  BY DEF Make, Fibers
<1>2. /\ object' = [object EXCEPT ![f] = "alive"]
      /\ entry' = [entry EXCEPT ![f] = IF f \in Roots THEN "CallerMainFunc" ELSE "MainFunc"]
      /\ handle' = [handle EXCEPT ![f] = TRUE]
  BY DEF Make
<1>3. ContextInv
  BY DEF SwitchInv
<1>4. handle' \in [Fibers -> BOOLEAN] /\ handle'[f] /\ \A g \in Fibers \ {f} : handle'[g] <=> handle[g]
  BY <1>2, <1>3, Zenon DEF ContextInv, FiberSwitchTypeOK
<1>5. ContextInv'
  <2>1. OwnContext'
    BY <1>1, <1>3 DEF ContextInv, OwnContext
  <2> QED
    BY <1>1, <1>2, <1>3, <1>4, <2>1 DEF ContextInv, FiberSwitchTypeOK, Entry
<1>6. GetThisRight' /\ NoFault'
  BY <1>1 DEF SwitchInv, GetThisRight, NoFault
<1>7. \A g \in Fibers : Running(g)' <=> Running(g)
  BY <1>1 DEF Running
<1>8. (StackFits(f) /\ HeldFits(f) /\ EntryFits(f))'
  <2>1. StackFits(f) /\ HeldFits(f)
    BY DEF SwitchInv
  <2>2. StackFits(f)'
    BY <1>1, <2>1 DEF StackFits
  <2>3. object'[f] = "alive" /\ entry'[f] = IF f \in Roots THEN "CallerMainFunc" ELSE "MainFunc"
    BY <1>2, <1>3 DEF ContextInv, FiberSwitchTypeOK
  <2>4. HeldFits(f)'
    BY <1>1, <1>4, <1>7, <2>1, <2>3 DEF HeldFits
  <2>5. EntryFits(f)'
    BY <1>1, <2>3, Kinds DEF EntryFits, Fibers
  <2> QED
    BY <2>2, <2>4, <2>5
<1>9. ASSUME NEW g \in Fibers, g # f
      PROVE  (StackFits(g) /\ HeldFits(g) /\ EntryFits(g))'
  <2>1. object'[g] = object[g] /\ entry'[g] = entry[g]
    BY <1>2, <1>3, <1>9 DEF ContextInv, FiberSwitchTypeOK
  <2> QED
    BY <1>1, <1>4, <1>7, <1>9, <2>1, FitsKept DEF SwitchInv
<1> QED
  BY <1>1, <1>5, <1>6, <1>8, <1>9 DEF SwitchInv

\* swapIn or call of fiber f by the running execution, which is not a task and
\* not f: the assertion holds, f does not return behind its last switch, and it
\* runs on its own context.
LEMMA EnterPreserves ==
    ASSUME SwitchInv, NEW f \in Fibers, cur \notin Tasks, f # cur, handle[f],
           cur = sched \/ f = sched, f \in Tasks => cur = sched,
           ~Ended(fib[f]), f \notin Tasks => f = sched, Enter(f, cur)
    PROVE  SwitchInv'
<1>0. /\ ContextInv /\ FiberSwitchTypeOK /\ OwnContext
      /\ StackFits(f) /\ HeldFits(f) /\ EntryFits(f)
  BY DEF SwitchInv, ContextInv
<1>1. fib[f].m_state \in {"INIT", "READY"}
  <2>1. ~Running(f)
    BY DEF Running
  <2> QED
    BY <1>0, <2>1 DEF HeldFits, FiberSwitchTypeOK, FiberObject, FiberOf, State, Ended
<1>2. /\ Enterable(fib[f]) /\ fib[f].m_ctx # "ended" /\ ~fault
      /\ RefsAt(f) = 1
  BY <1>0, <1>1 DEF StackFits, Enterable, SwitchInv, NoFault, RefsAt
<1>3. /\ fib' = [fib EXCEPT ![f] = Entered(@)]
      /\ ownRefs' = [ownRefs EXCEPT ![f] = 1]
      /\ SwapContext(cur, f) /\ t_fiber' = f
      /\ UNCHANGED <<sched, entry, object, handle>>
      /\ fault' = FALSE
  <2>1. fault' = (fib[f].m_ctx = "ended")
    BY <1>2 DEF Enter
  <2>2. fault' = FALSE
    BY <1>2, <2>1
  <2> QED
    BY <1>2, <2>2 DEF Enter, SetThis
<1>4. cur' = f /\ slot' \in [Executions -> Executions] /\ OwnContext'
  <2>1. f \in Executions
    BY Kinds
  <2> QED
    BY <1>0, <1>3, <2>1, Switched DEF FiberSwitchTypeOK
<1>5. /\ fib'[f] = Entered(fib[f]) /\ fib'[f] \in FiberObject
      /\ ownRefs'[f] = 1
      /\ \A g \in Fibers \ {f} : fib'[g] = fib[g] /\ ownRefs'[g] = ownRefs[g]
  <2>1. fib[f] \in FiberObject
    BY <1>0 DEF FiberSwitchTypeOK
  <2>2. Entered(fib[f]) \in FiberObject
    BY <2>1 DEF Entered, FiberObject, FiberOf, State
  <2> QED
    BY <1>0, <1>3, <2>2 DEF FiberSwitchTypeOK
<1>6. fib' \in [Fibers -> FiberObject] /\ ownRefs' \in [Fibers -> 0..2]
  BY <1>0, <1>3, <1>5 DEF FiberSwitchTypeOK
<1>7. ContextInv'
  BY <1>0, <1>3, <1>4, <1>6, Kinds DEF ContextInv, FiberSwitchTypeOK
<1>8. GetThisRight' /\ NoFault'
  BY <1>3, <1>4 DEF SwitchInv, GetThisRight, NoFault
<1>9. (StackFits(f) /\ HeldFits(f) /\ EntryFits(f))'
  <2>1. fib'[f].m_state = "EXEC" /\ Running(f)'
    BY <1>0, <1>4, <1>5 DEF Entered, FiberSwitchTypeOK, FiberObject, FiberOf, Running
  <2>2. StackFits(f)'
    BY <1>5, <2>1 DEF StackFits, Ended
  <2>3. HeldFits(f)'
    BY <1>0, <1>3, <2>1 DEF HeldFits
  <2>4. EntryFits(f)'
    BY <1>0, <1>3 DEF EntryFits
  <2> QED
    BY <2>2, <2>3, <2>4
<1>10. ASSUME NEW g \in Fibers, g # f
       PROVE  (StackFits(g) /\ HeldFits(g) /\ EntryFits(g))'
  <2>1. Running(g)' <=> Running(g)
    BY <1>3, <1>4, <1>10, Kinds DEF Running, SwitchInv
  <2> QED
    BY <1>3, <1>5, <1>10, <2>1, FitsKept DEF SwitchInv
<1>11. cur' \in Tasks \cup {sched', Main} /\ t_fiber' # None
  BY <1>3, <1>4, Kinds DEF Fibers
<1> QED
  BY <1>3, <1>7, <1>8, <1>9, <1>10, <1>11 DEF SwitchInv

\* The dispatcher swaps in a task.
LEMMA SwapInPreserves ==
    ASSUME SwitchInv, NEW f \in Fibers, SwapIn(f)
    PROVE  SwitchInv'
<1>1. sched \notin Tasks
  BY Kinds DEF SwitchInv, Fibers
<1> QED
  BY <1>1, EnterPreserves DEF SwapIn

\* Main calls the root fiber for the first time.
LEMMA CallPreserves ==
    ASSUME SwitchInv, NEW f \in Fibers, Call(f), ~Ended(fib[f])
    PROVE  SwitchInv'
<1>1. f \notin Tasks /\ cur = Main /\ Main \notin Tasks /\ f # Main
  BY Kinds DEF Call, Fibers
<1>2. object[f] = "alive"
  BY DEF SwitchInv, HeldFits, Call
<1>3. f = sched
  BY <1>1, <1>2 DEF SwitchInv, EntryFits
<1> QED
  BY <1>1, <1>3, EnterPreserves DEF Call

\* Main calls the root fiber when its run() is over: control arrives behind its
\* last switch, on its own context still.
LEMMA SecondCall ==
    ASSUME SwitchInv, NEW f \in Fibers, Call(f), Ended(fib[f])
    PROVE  EndedCalled'
<1>0. /\ FiberSwitchTypeOK /\ OwnContext /\ StackFits(f) /\ HeldFits(f)
      /\ f \in Roots /\ cur = Main /\ f # Main /\ f \in Executions
  BY Kinds DEF SwitchInv, ContextInv, Call
<1>1. fib[f].m_ctx = "ended" /\ Enterable(fib[f]) /\ object[f] = "alive"
  BY <1>0 DEF StackFits, HeldFits, Enterable, Ended, Call
<1>2. /\ fib' = [fib EXCEPT ![f] = Entered(@)]
      /\ ownRefs' = [ownRefs EXCEPT ![f] = ownRefs[f]]
      /\ SwapContext(cur, f) /\ t_fiber' = f
      /\ UNCHANGED <<sched, entry, object, handle>>
      /\ fault' = TRUE
  <2>1. RefsAt(f) = ownRefs[f]
    BY <1>1 DEF RefsAt
  <2>2. fault' = (fib[f].m_ctx = "ended")
    BY <1>1 DEF Call, Enter
  <2>3. fault' = TRUE
    BY <1>1, <2>2
  <2> QED
    BY <1>0, <1>1, <2>1, <2>3 DEF Call, Enter, SetThis
<1>3. cur' = f /\ slot' \in [Executions -> Executions] /\ OwnContext'
  BY <1>0, <1>2, Switched DEF FiberSwitchTypeOK
<1>4. /\ fib' \in [Fibers -> FiberObject] /\ \A g \in Fibers \ {f} : fib'[g] = fib[g]
      /\ fib'[f].m_state = "EXEC" /\ fib'[f].m_ctx = "ended"
  <2>1. fib[f] \in FiberObject
    BY <1>0 DEF FiberSwitchTypeOK
  <2>2. /\ Entered(fib[f]) \in FiberObject /\ Entered(fib[f]).m_state = "EXEC"
        /\ Entered(fib[f]).m_ctx = "ended"
    BY <1>1, <2>1 DEF Entered, FiberObject, FiberOf, State
  <2> QED
    BY <1>0, <1>2, <2>2 DEF FiberSwitchTypeOK
<1>5. ContextInv'
  BY <1>0, <1>2, <1>3, <1>4 DEF ContextInv, FiberSwitchTypeOK
<1>6. GetThisRight' /\ OnlySecondCallFaults'
  BY <1>0, <1>2, <1>3, <1>4 DEF GetThisRight, OnlySecondCallFaults
<1>7. Reclaimed'
  <2> SUFFICES ASSUME NEW g \in Fibers
               PROVE  /\ object[g] = "freed" => f # g /\ Idle(fib'[g])
                      /\ object[g] = "alive" /\ Ended(fib'[g]) => handle[g]
    BY <1>2, <1>3 DEF Reclaimed, Idle, Ended
  <2>1. CASE g = f
    BY <1>1, <1>4, <2>1 DEF Ended
  <2>2. CASE g # f
    BY <1>4, <2>2, FreedFits
  <2> QED
    BY <2>1, <2>2
<1> QED
  BY <1>2, <1>5, <1>6, <1>7 DEF EndedCalled

\* The running fiber leaves, a task to the dispatcher and the root fiber to
\* Main, with its new state and what is left of its own Fiber::ptr.
LEMMA LeavePreserves ==
    ASSUME SwitchInv, NEW f \in Fibers, cur = f,
           NEW load, load = IF f \in Tasks THEN sched ELSE Main,
           SetThis(load), SwapContext(f, load),
           fib' \in [Fibers -> FiberObject], ownRefs' \in [Fibers -> 0..2],
           \A g \in Fibers \ {f} : fib'[g] = fib[g] /\ ownRefs'[g] = ownRefs[g],
           \/ fib'[f].m_state = "READY" /\ fib'[f].m_ctx = "yielded"
              /\ ownRefs'[f] = 2 /\ f \in Tasks
           \/ Ended(fib'[f]) /\ fib'[f].m_ctx = "ended" /\ ownRefs'[f] = 0,
           UNCHANGED <<sched, entry, object, handle>>, ~fault', fault' \in BOOLEAN
    PROVE  SwitchInv'
<1>0. /\ ContextInv /\ FiberSwitchTypeOK /\ OwnContext
      /\ StackFits(f) /\ HeldFits(f) /\ EntryFits(f)
  BY DEF SwitchInv, ContextInv
<1>1. load \in Executions /\ load # f /\ load \in {sched, Main} /\ load \notin Tasks
  BY <1>0, Kinds DEF SwitchInv, FiberSwitchTypeOK, Fibers
<1>2. cur' = load /\ slot' \in [Executions -> Executions] /\ OwnContext'
  BY <1>0, <1>1, Switched DEF FiberSwitchTypeOK
<1>3. t_fiber' = load /\ load # None
  BY <1>1, Kinds DEF SetThis, Executions
<1>5. ContextInv'
  BY <1>0, <1>1, <1>2, <1>3 DEF ContextInv, FiberSwitchTypeOK
<1>6. GetThisRight' /\ NoFault'
  BY <1>2, <1>3 DEF GetThisRight, NoFault
<1>7. (StackFits(f) /\ HeldFits(f) /\ EntryFits(f))'
  <2>1. StackFits(f)'
    BY DEF StackFits, Ended
  <2>2. ~Running(f)' /\ handle[f]
    BY <1>0, <1>1, <1>2 DEF Running, HeldFits
  <2>3. HeldFits(f)'
    BY <1>0, <2>2 DEF HeldFits, Ended
  <2>4. EntryFits(f)'
    BY <1>0 DEF EntryFits
  <2> QED
    BY <2>1, <2>3, <2>4
<1>8. ASSUME NEW g \in Fibers, g # f
      PROVE  (StackFits(g) /\ HeldFits(g) /\ EntryFits(g))'
  <2>1. Running(g)' <=> Running(g)
    BY <1>1, <1>2, <1>8, Kinds DEF Running, SwitchInv
  <2> QED
    BY <1>8, <2>1, FitsKept DEF SwitchInv
<1> QED
  BY <1>1, <1>2, <1>3, <1>5, <1>6, <1>7, <1>8 DEF SwitchInv

\* YieldToReady of the running task.
LEMMA YieldPreserves ==
    ASSUME SwitchInv, NEW f \in Fibers, YieldToReady(f)
    PROVE  SwitchInv'
<1>0. FiberSwitchTypeOK /\ StackFits(f) /\ HeldFits(f) /\ ~fault
  BY DEF SwitchInv, ContextInv, NoFault
<1>1. cur = f /\ f \in Tasks /\ f # Main
  BY Kinds DEF YieldToReady
<1>2. t_fiber = f /\ fib[f].m_state = "EXEC" /\ ownRefs[f] = 1
  BY <1>0, <1>1 DEF SwitchInv, GetThisRight, HeldFits, Running, StackFits
<1>3. /\ fib' = [fib EXCEPT ![f] = SwappedOut(YieldMarked(@), "yielded")]
      /\ ownRefs' = [ownRefs EXCEPT ![f] = @ + 1]
      /\ SetThis(sched) /\ SwapContext(f, sched)
      /\ UNCHANGED <<sched, entry, object, handle, fault>>
  BY <1>2 DEF YieldToReady, SwapOut
<1>4. /\ SwappedOut(YieldMarked(fib[f]), "yielded") \in FiberObject
      /\ SwappedOut(YieldMarked(fib[f]), "yielded").m_state = "READY"
      /\ SwappedOut(YieldMarked(fib[f]), "yielded").m_ctx = "yielded"
  BY <1>0 DEF FiberSwitchTypeOK, FiberObject, FiberOf, SwappedOut, YieldMarked, State,
     ResumePoint
<1>5. /\ fib' \in [Fibers -> FiberObject] /\ ownRefs' \in [Fibers -> 0..2]
      /\ \A g \in Fibers \ {f} : fib'[g] = fib[g] /\ ownRefs'[g] = ownRefs[g]
      /\ fib'[f] = SwappedOut(YieldMarked(fib[f]), "yielded") /\ ownRefs'[f] = 2
  BY <1>0, <1>2, <1>3, <1>4 DEF FiberSwitchTypeOK
<1>6. ~fault' /\ fault' \in BOOLEAN
  BY <1>0, <1>3, Zenon DEF FiberSwitchTypeOK
<1> QED
  BY <1>1, <1>3, <1>4, <1>5, <1>6, LeavePreserves

\* MainFunc and CallerMainFunc leave for the last time: the client still holds
\* the fiber, so its stack is not freed under it.
LEMMA EndPreserves ==
    ASSUME SwitchInv, NEW f \in Fibers, NEW over \in FiberObject, Ended(over), End(f, over)
    PROVE  SwitchInv'
<1>0. FiberSwitchTypeOK /\ HeldFits(f) /\ EntryFits(f)
  BY DEF SwitchInv, ContextInv
<1>1. cur = f /\ handle[f] /\ object[f] = "alive"
  BY <1>0 DEF End, HeldFits, Running
<1>2. /\ fib' = [fib EXCEPT ![f] = SwappedOut(over, "ended")]
      /\ ownRefs' = [ownRefs EXCEPT ![f] = 0]
      /\ UNCHANGED <<sched, entry, handle>>
  BY DEF End
<1>3. object' = object
  BY <1>0, <1>1 DEF End, FiberSwitchTypeOK
<1>4. PICK load \in Executions : /\ load = IF f \in Tasks THEN sched ELSE Main
                                 /\ SetThis(load) /\ SwapContext(f, load)
  <2>1. IF f \in Tasks THEN entry[f] = "MainFunc" ELSE entry[f] = "CallerMainFunc"
    BY <1>0, <1>1 DEF EntryFits
  <2>2. sched \in Executions /\ Main \in Executions
    BY <1>0, Kinds DEF FiberSwitchTypeOK
  <2> QED
    BY <2>1, <2>2 DEF End, Back, SwapOut
<1>5. /\ fib' \in [Fibers -> FiberObject] /\ ownRefs' \in [Fibers -> 0..2]
      /\ \A g \in Fibers \ {f} : fib'[g] = fib[g] /\ ownRefs'[g] = ownRefs[g]
      /\ Ended(fib'[f]) /\ fib'[f].m_ctx = "ended" /\ ownRefs'[f] = 0
  <2>1. /\ SwappedOut(over, "ended") \in FiberObject /\ Ended(SwappedOut(over, "ended"))
        /\ SwappedOut(over, "ended").m_ctx = "ended"
    BY DEF FiberObject, FiberOf, SwappedOut, ResumePoint, Ended
  <2> QED
    BY <1>0, <1>2, <2>1 DEF FiberSwitchTypeOK
<1>6. ~fault' /\ fault' \in BOOLEAN
  <2>1. load # f
    BY <1>1, <1>4, Kinds DEF SwitchInv, Fibers
  <2>2. cur' # f
    BY <1>0, <1>1, <1>4, <2>1, Switched DEF SwitchInv, ContextInv, FiberSwitchTypeOK
  <2>3. fault' = (cur' = f \/ ~handle[f])
    BY DEF End
  <2> QED
    BY <1>1, <2>2, <2>3, Zenon
<1> QED
  BY <1>1, <1>2, <1>3, <1>4, <1>5, <1>6, LeavePreserves

\* The callback returns or throws.
LEMMA ReturnPreserves ==
    ASSUME SwitchInv, NEW f \in Fibers, Return(f) \/ Throw(f)
    PROVE  SwitchInv'
<1>1. fib[f] \in FiberObject
  BY DEF SwitchInv, ContextInv, FiberSwitchTypeOK
<1>2. Returned(fib[f]) \in FiberObject /\ Ended(Returned(fib[f]))
  BY <1>1 DEF Returned, Ended, FiberObject, FiberOf, State
<1>3. Threw(fib[f]) \in FiberObject /\ Ended(Threw(fib[f]))
  BY <1>1 DEF Threw, Ended, FiberObject, FiberOf, State
<1> QED
  BY <1>2, <1>3, EndPreserves DEF Return, Throw

\* The client lets go of a task that does not run: only one that is not on its
\* stack any more, or was never, is freed.
LEMMA DropPreserves ==
    ASSUME SwitchInv, NEW f \in Fibers, Drop(f)
    PROVE  SwitchInv'
<1>0. FiberSwitchTypeOK /\ StackFits(f) /\ HeldFits(f) /\ EntryFits(f)
  BY DEF SwitchInv, ContextInv
<1>1. /\ cur = sched /\ f \in Tasks /\ handle[f]
      /\ handle' = [handle EXCEPT ![f] = FALSE]
      /\ UNCHANGED <<sched, cur, slot, t_fiber, fib, entry, ownRefs>>
  BY DEF Drop
<1>2. handle' \in [Fibers -> BOOLEAN] /\ ~handle'[f] /\ \A g \in Fibers \ {f} : handle'[g] <=> handle[g]
  BY <1>0, <1>1, Zenon DEF FiberSwitchTypeOK
<1>3. ~Running(f) /\ \A g \in Fibers : Running(g)' <=> Running(g)
  BY <1>1, Kinds DEF Running, SwitchInv, Fibers
<1>4. /\ object' = [object EXCEPT ![f] = IF handle'[f] \/ ownRefs'[f] > 0 THEN @ ELSE "freed"]
      /\ fault' = (object'[f] = "freed" /\ ~Idle(fib[f]))
  BY DEF Drop, Dropped
<1>5. /\ object'[f] = IF ownRefs[f] > 0 THEN "alive" ELSE "freed"
      /\ \A g \in Fibers \ {f} : object'[g] = object[g]
      /\ object' \in [Fibers -> {"none", "alive", "freed"}]
  BY <1>0, <1>1, <1>2, <1>4 DEF FiberSwitchTypeOK, HeldFits
<1>6. IF ownRefs[f] > 0 THEN fib[f].m_state = "READY" ELSE Idle(fib[f])
  BY <1>0, <1>3 DEF FiberSwitchTypeOK, FiberObject, FiberOf, State, StackFits, HeldFits,
     Idle, Ended
<1>7. fault' = FALSE
  <2>1. ~(object'[f] = "freed" /\ ~Idle(fib[f]))
    BY <1>5, <1>6
  <2> QED
    BY <1>4, <2>1, Zenon
<1>8. ContextInv'
  <2>1. OwnContext'
    BY <1>1 DEF SwitchInv, ContextInv, OwnContext
  <2> QED
    BY <1>0, <1>1, <1>2, <1>5, <1>7, <2>1 DEF ContextInv, FiberSwitchTypeOK
<1>9. GetThisRight' /\ NoFault'
  BY <1>1, <1>7 DEF SwitchInv, GetThisRight, NoFault
<1>10. (StackFits(f) /\ HeldFits(f) /\ EntryFits(f))'
  <2>1. StackFits(f)'
    BY <1>0, <1>1 DEF StackFits
  <2>2. HeldFits(f)'
    BY <1>0, <1>1, <1>2, <1>3, <1>5, <1>6 DEF HeldFits, Idle
  <2>3. EntryFits(f)'
    BY <1>0, <1>1 DEF EntryFits
  <2> QED
    BY <2>1, <2>2, <2>3
<1>11. ASSUME NEW g \in Fibers, g # f
       PROVE  (StackFits(g) /\ HeldFits(g) /\ EntryFits(g))'
  BY <1>1, <1>2, <1>3, <1>5, <1>11, FitsKept DEF SwitchInv
<1> QED
  BY <1>1, <1>8, <1>9, <1>10, <1>11 DEF SwitchInv

\* reset() of a task that does not run and is not suspended.
LEMMA ResetPreserves ==
    ASSUME SwitchInv, NEW f \in Fibers, ResetFiber(f)
    PROVE  SwitchInv'
<1>0. FiberSwitchTypeOK /\ OwnContext /\ StackFits(f) /\ HeldFits(f) /\ EntryFits(f)
  BY DEF SwitchInv, ContextInv
<1>1. /\ cur = sched /\ f \in Tasks /\ handle[f] /\ Idle(fib[f])
      /\ fib' = [fib EXCEPT ![f] = Reset(@, f)]
      /\ slot' = [slot EXCEPT ![f] = f]
      /\ entry' = [entry EXCEPT ![f] = "MainFunc"]
      /\ UNCHANGED <<sched, cur, t_fiber, object, handle, ownRefs, fault>>
  BY DEF ResetFiber
<1>2. /\ Reset(fib[f], f) \in FiberObject /\ Reset(fib[f], f).m_state = "INIT"
      /\ Reset(fib[f], f).m_ctx = "entry"
  <2>1. fib[f] \in FiberObject /\ f \in Callbacks
    BY <1>0, FiberSwitchAssumption DEF FiberSwitchTypeOK
  <2> QED
    BY <2>1 DEF FiberObject, FiberOf, Reset, State, ResumePoint
<1>3. /\ fib' \in [Fibers -> FiberObject] /\ fib'[f] = Reset(fib[f], f)
      /\ \A g \in Fibers \ {f} : fib'[g] = fib[g] /\ entry'[g] = entry[g]
      /\ entry' \in [Fibers -> Entry] /\ entry'[f] = "MainFunc"
  BY <1>0, <1>1, <1>2 DEF FiberSwitchTypeOK, Entry
<1>4. slot' \in [Executions -> Executions] /\ OwnContext'
  BY <1>0, <1>1, Kinds DEF FiberSwitchTypeOK, OwnContext
<1>5. ContextInv'
  BY <1>0, <1>1, <1>3, <1>4 DEF ContextInv, FiberSwitchTypeOK
<1>6. GetThisRight' /\ NoFault'
  BY <1>1 DEF SwitchInv, GetThisRight, NoFault
<1>7. ~Running(f) /\ \A g \in Fibers : Running(g)' <=> Running(g)
  BY <1>1, Kinds DEF Running, SwitchInv, Fibers
<1>8. (StackFits(f) /\ HeldFits(f) /\ EntryFits(f))'
  <2>1. StackFits(f)'
    BY <1>0, <1>1, <1>2, <1>3 DEF StackFits, Idle, Ended
  <2>2. HeldFits(f)'
    BY <1>0, <1>1, <1>2, <1>3, <1>7 DEF HeldFits
  <2>3. EntryFits(f)'
    BY <1>1, <1>3 DEF EntryFits
  <2> QED
    BY <2>1, <2>2, <2>3
<1>9. ASSUME NEW g \in Fibers, g # f
      PROVE  (StackFits(g) /\ HeldFits(g) /\ EntryFits(g))'
  BY <1>1, <1>3, <1>7, <1>9, FitsKept DEF SwitchInv
<1> QED
  BY <1>1, <1>5, <1>6, <1>8, <1>9 DEF SwitchInv

\* All steps together.
LEMMA SwitchNext ==
    ASSUME SwitchInv \/ EndedCalled, [Next]_vars
    PROVE  SwitchInv' \/ EndedCalled'
<1>1. CASE UNCHANGED vars
  <2>1. UNCHANGED <<sched, cur, slot, t_fiber, fib, entry, object, handle, ownRefs, fault>>
    BY <1>1 DEF vars
  <2>2. /\ ContextInv => ContextInv'
        /\ GetThisRight => GetThisRight'
    BY <2>1 DEF ContextInv, FiberSwitchTypeOK, OwnContext, GetThisRight
  <2>3. /\ NoFault => NoFault'
        /\ Reclaimed => Reclaimed'
        /\ OnlySecondCallFaults => OnlySecondCallFaults'
    BY <2>1 DEF NoFault, Reclaimed, OnlySecondCallFaults
  <2>4. CASE EndedCalled
    BY <2>1, <2>2, <2>3, <2>4 DEF EndedCalled
  <2>5. CASE SwitchInv
    <3>1. ASSUME NEW f \in Fibers
          PROVE  (StackFits(f) /\ HeldFits(f) /\ EntryFits(f))'
      <4>1. Running(f)' <=> Running(f)
        BY <2>1 DEF Running
      <4> QED
        BY <2>1, <2>5, <4>1, FitsKept DEF SwitchInv
    <3> QED
      BY <2>1, <2>2, <2>3, <2>5, <3>1 DEF SwitchInv
  <2> QED
    BY <2>4, <2>5
<1>2. CASE ~fault /\ Step
  <2>1. SwitchInv
    BY <1>2 DEF EndedCalled
  <2>2. ASSUME NEW f \in Fibers, Call(f)
        PROVE  SwitchInv' \/ EndedCalled'
    <3>1. CASE Ended(fib[f])
      BY <2>1, <2>2, <3>1, SecondCall
    <3>2. CASE ~Ended(fib[f])
      BY <2>1, <2>2, <3>2, CallPreserves
    <3> QED
      BY <3>1, <3>2
  <2>3. CASE MakeMain
    BY <2>1, <2>3, MakeMainPreserves
  <2>4. ASSUME NEW f \in Fibers,
               \/ Make(f) \/ SwapIn(f) \/ YieldToReady(f)
               \/ Return(f) \/ Throw(f) \/ Drop(f) \/ ResetFiber(f)
        PROVE  SwitchInv'
    BY <2>1, <2>4, MakePreserves, SwapInPreserves, YieldPreserves, ReturnPreserves,
       DropPreserves, ResetPreserves
  <2> QED
    BY <1>2, <2>2, <2>3, <2>4 DEF Step
<1> QED
  BY <1>1, <1>2 DEF Next, Rest

-----------------------------------------------------------------------------
\* What follows

\* The invariant holds of any number of fibers, yields and resets.
LEMMA SwitchInvariance == Spec => [](SwitchInv \/ EndedCalled)
<1>1. (SwitchInv \/ EndedCalled) /\ [Next]_vars => (SwitchInv \/ EndedCalled)'
  BY SwitchNext
<1> QED
  BY <1>1, SwitchInit, PTL DEF Spec

\* No fiber's m_ctx is overwritten with the registers of another.
THEOREM ContextsOwn == Spec => []ContextInv
<1>1. SwitchInv \/ EndedCalled => ContextInv
  BY DEF SwitchInv, EndedCalled
<1> QED
  BY <1>1, SwitchInvariance, PTL

\* Fiber::GetThis names the fiber that runs, after every switch.
THEOREM ThisIsRunning == Spec => []GetThisRight
<1>1. SwitchInv \/ EndedCalled => GetThisRight
  BY DEF SwitchInv, EndedCalled
<1> QED
  BY <1>1, SwitchInvariance, PTL

\* No assertion of fiber.cpp fails, nothing is resumed behind its last switch
\* and no fiber frees the stack it is on, unless the root fiber is called once
\* more when its run() is over; that arrives at the "never reach".
THEOREM FaultNeedsSecondCall == Spec => []OnlySecondCallFaults
<1>1. SwitchInv \/ EndedCalled => OnlySecondCallFaults
  BY DEF SwitchInv, NoFault, OnlySecondCallFaults, EndedCalled
<1> QED
  BY <1>1, SwitchInvariance, PTL

\* What is freed does not run, and what has ended and is let go of is freed.
THEOREM FreedWhenOver == Spec => []Reclaimed
<1>1. SwitchInv => Reclaimed
  BY FreedFits DEF Reclaimed, Running
<1>2. SwitchInv \/ EndedCalled => Reclaimed
  BY <1>1 DEF EndedCalled
<1> QED
  BY <1>2, SwitchInvariance, PTL

=============================================================================
