# A TLA+ model of sylar

This directory holds TLA+ modules that model the concurrent core of the
`sylar` C++ library in `src/sylar`, the TLC configurations that check them on
small instances, and TLAPS proofs of what holds for every instance.
`PROJECT.json` lists components, runs, mutants, the map from definitions to
source lines, findings, hazards and theorems.

## 1. Inventory

| Component | State | Operations | Depends on |
|---|---|---|---|
| Scheduler (`scheduler.h/.cpp`) | `m_tasks`, `m_threads`, `m_threadIds`, `m_threadCount`, `m_rootFiber`, `m_activeThreadCount`, `m_idleThreadCount`, `m_stopping`, `m_autoStop`; thread locals `t_scheduler`, `t_scheduler_fiber`; locals of `run()` | constructor, destructor, `start`, `stop`, `schedule`, `run`, `stopping`, `idle`, `tickle` | Fiber, Thread, Mutex |
| Fiber (`fiber.h/.cpp`) | `m_state`, `m_ctx`, `m_stack`, `m_cb`; thread locals `t_scheduler_fiber` (the running fiber), `t_threadFiber` | constructors, destructor, `reset`, `swapIn`, `swapOut`, `call`, `back`, `YieldToReady`, `GetThis`, `SetThis`, `MainFunc`, `CallerMainFunc` | Scheduler (`GetMainFiber`), ucontext |
| Thread (`thread.h/.cpp`) | `m_id`, `m_thread`, `m_cb`, `m_semaphore`; thread local `t_thread` | constructor, `run`, `join`, destructor, `GetThis`, `SetName` | Semaphore, pthread |
| Locks (`mutex.h/.cpp`) | the pthread object; `m_locked` of a guard | `Semaphore`, `Mutex`, `RWMutex`, `Spinlock`, three RAII guards | pthread |
| Config (`config.h/.cpp`) | `ConfigVar`: `m_val`, `m_cbs`, `m_fun_id`; registry `s_datas` | `setValue`, `fromString`, listeners; `Lookup`, `LookupBase`, `LoadFromYaml`, `Visit`; `Lexical_cast` | RWMutex, yaml-cpp |
| Log (`log.h/.cpp`) | loggers with level and appenders, appenders with formatter, `LogFormatter` (`m_pattern`, `m_items`, `m_error`), `LoggerManager`, the `logs` variable | `log`, `LogFormatter::init` and `format`, `addAppender`, `clearAppenders`, `setFormatter`, `getLogger`, `eraseLogger`, the listener of `LogIniter` | Config, Spinlock |
| Singleton, util, macros | none of its own | `GetInstance`, `GetThreadId`, `Backtrace`, `SYLAR_ASSERT` | |

How they interact: `start()` creates `Thread`s whose callback is
`Scheduler::run`; `run()` takes tasks from the shared list under `m_mutex` and
switches to fibers through `Fiber::swapIn`; fibers come back through
`Scheduler::GetMainFiber`; a running task calls `schedule` on the scheduler it
runs in. With `use_caller` the thread that made the scheduler runs `run()` too,
in the root fiber and only inside `stop()`. A `ConfigVar` calls its listeners
with its own lock held for reading; `LogIniter` registers such a listener.

What is hard: a thread that has taken a task and is not counted as active;
a fiber that is in the queue while it still runs; a fiber that is reused while
somebody else holds it; `stop()` against tasks that schedule more tasks;
contexts saved in the wrong `m_ctx`; `Fiber::ptr`s on stacks that are never
unwound; a thread that outlives its `Thread`; flags read before they are set;
the gap between the two critical sections of `setValue`, and the one between
search and insertion in `Lookup`; threads that schedule while `stop()` is under
way; texts that one function writes and another reads.

What makes the parts correct:

* Scheduler: each job is executed exactly once; `stop()` returns, and only when
  everything is executed and joined; no two threads on one stack; no assertion
  fails; the `size_t` counters never wrap.
* Fiber: a switch resumes the execution it should; `GetThis` names it; an ended
  fiber is freed, a running one never.
* Thread: `getId()` is valid after construction, each thread is joined or
  detached once, the constructor returns.
* Locks: exclusion, and no lock is left behind or taken away.
* ConfigVar: registered listeners are told of every change and are alive when
  called.
* Registry: a pointer from `Lookup` is the variable documents are loaded into; a
  load sets what the document names and nothing else; values survive
  `toString` and `fromString`.
* LogFormatter: it reports exactly the ill-formed patterns and prints what the
  others mean.
* Log: loggers and what they output follow the configuration, also through
  pointers obtained before it was loaded.

## 2. Modules

```
TaskPool <--implements-- Scheduler --extends--> Fiber, Thread
FiberSwitch --extends--> Fiber        ThreadLife --extends--> Thread
ScopedLock        ConfigVar        Log --extends--> LogDefine        LogFormatter
MCConfigRegistry --extends--> ConfigRegistry, LexicalCast
MCScopedLock, MCConfigVar, MCConfigRegistry, MCLog: instances for TLC
SchedulerProofs, FiberSwitchProofs, ThreadLifeProofs, ScopedLockProofs,
ConfigVarProofs, ConfigRegistryProofs, LogProofs, LogFormatterProofs: theorems
about the module each is named after
```

**Fiber** has no variables. A fiber object is a record of state, callback and
the place its saved context resumes (`entry`, `yielded`, `ended`), and every
member function is an operator on it. **Thread** has the variables of `Thread`
objects and the steps of constructor, kernel thread, join and destructor; the
semaphore is a counter.

**Scheduler** composes both. `pc[t]` is the place of a thread in `run()`, `mpc`
the place of the owner in `start()`, `stop()` and the destructor. One step is
one critical section of `m_mutex`, one access to an atomic or one access to a
fiber that others may see, with what follows it on the thread's own data. The
scan of the queue reads fiber states inside one critical section; it is one
step. `start()` holds the mutex across several steps (it constructs threads
that wait), which `MutexFree` expresses. The correspondence:

| Code | Action |
|---|---|
| `run()` locals | `RunEnter` |
| critical section, 200-230 | `Take`, `TakeNone` |
| the three branches, 236-290 | `DispatchFiber`, `DispatchCb`, `DispatchEnded`/`IdleBranch`, then `SwapIn`, `Back`, `Recycle` |
| `idle()` and its `YieldToReady` | `IdleStep` |
| the client's function, `YieldToReady`, `MainFunc`, `swapOut` | `BodySchedule`, `BodyRequeue`, `BodyYield`, `BodyReturn`, `BodyThrow`, `SwapOut` |
| `schedule()` by the owner; by a thread from outside | `OwnerSchedule`; `OutsideSchedule` |
| `start()` | `StartBegin`, `StartCreate`, `StartWait` |
| `stop()` | `StopCall`, `StopAutoStop`, `StopRootOnly`, `StopRootOnlyCheck`, `StopStopping`, `StopCallRoot`, `RootReturn`, `StopSwap`, `StopJoin` |

A failed `SYLAR_ASSERT` puts its actor at `abort`. History variables
(`submitted`, `ended`, `runs`, `requeues`) record what became of the jobs; `late`
are the jobs that threads from outside scheduled after `stop()` was called.

**TaskPool** is the promise to the owner: a job goes from new to waiting to
running to over, and `stop()`, which is called and then returns, returns only
when no job is waiting or running but those that came from outside after the
call. `Scheduler` implements it under the mapping `Pool`.

**FiberSwitch** looks at one thread at the level of contexts: `slot[x]` is the
execution whose registers are in the `m_ctx` of x, and `swapcontext` (external)
saves `cur` in one slot and continues with another. `sched` is what
`Scheduler::GetMainFiber()` returns, the root fiber in the owner's thread and
the main fiber in a pool thread; Init chooses. Reference counts are a `handle`
of the client and the pointers on the fiber's own stack. `Main` may call the root
fiber whatever has become of it, as `call()` only asserts that it does not run.

**ThreadLife** is a client of Thread that constructs, joins and destroys
objects in any order while threads run, with `pthread_create` failing too.

**ScopedLock** is the three guards over one lock, including explicit calls of
`lock()` and `unlock()`. `FirstLocked` is what may be in `m_locked`, which no
constructor initialises.

**ConfigVar** is one variable and its clients. `setValue` is a read-locked loop
over the listeners, one step per call, and a write-locked assignment. `belief`
is what a listener knows. `heard` records for each `setValue` whose listeners it
has told, or were added when its loop was over; `disturbed` records that a call of `setValue`
overlapped with another or with `addListener`, or that a listener threw.

**ConfigRegistry** is the map of all variables and its clients. `Lookup` is a
search under the lock for reading and, for a name that is not there, a second
step that checks the name, creates and inserts under the lock for writing.
`LoadFromYaml` flattens its document (`ListAllMember`) and takes two steps for
each name, `LookupBase` and `fromString`. A document is a node with all that is
below it; `Lists` gives for a node and a prefix what is listed, `Unders`, without
the character set, what is there. `Visit` holds the lock while it calls
its callback with one variable after the other. A name is the sequence of the
words between its dots; of a word's letters only the classes count that
`find_first_not_of` tells apart. `contested` and `alone` record overlaps: two
first `Lookup`s of a name, a load and somebody else's change.

| Code | Action |
|---|---|
| `Lookup(name, default, description)`: search | `LookupFound`, `LookupMissing` |
| its refusal of a name; creation and insertion | `LookupThrow`; `LookupCreate` |
| `Lookup(name)` | `Find` |
| `LoadFromYaml`: list; `LookupBase`; `fromString`; end | `LoadFromYaml`; `LoadFind`; `LoadApply`; `LoadReturn` |
| `Visit` | `Visit`, `VisitCall`, `VisitReturn` |
| `setValue` through a pointer | `Assign` |

**LexicalCast** has no variables: the conversions from and to strings, recursive
over types, with yaml-cpp (external) as far as they use it: what printing a node
and loading a text do to null, quotes, comments, sequences and maps. Three
constants say so for the lines that occur: `NullWords` are read as null,
`Structure` gives what a line with an indicator is read as, if it is YAML at
all, and `Quotation` which scalars are printed in quotes; every other line is a
scalar of its letters. A conversion is the set of its results, empty if it
throws. It is a parameter of ConfigRegistry, bound in MCConfigRegistry.

**LogFormatter** is `init()` at the grain of its loops, one step per letter, with
its locals as variables; Init chooses the pattern. `Meaning` is the reference:
what a pattern denotes, read from the left by the grammar of the comment at
`log.cpp:272` (`%x`, `%x{fmt}`, `%%`), empty if it is ill-formed. An item prints
the name of its field, the time also its format; `strftime`'s buffer of 64
bytes (`log.cpp:195`) is beyond the lengths of the run.

**LogDefine** has no variables: levels, `LogDefine` and `LogAppenderDefine` with
their conversions from and to YAML, `operator==` as it is written, and the
appender a definition makes. A YAML node is a record of the keys the code reads.
`Initial` says which texts begin with the letter of a level, for
`LogLevel::FromString` looks at no other.

**Log** has the Logger objects, the manager's map from names to objects, the
value of the variable `logs`, the loaders and the clients. A loader is in
`setValue` (compare, listener under the lock for reading, write) and inside it
in the listener of `LogIniter`; a client holds a `Logger::ptr` and logs.

| Code | Action |
|---|---|
| `fromString`, `setValue` up to its comparison | `Load` |
| loop over `new_value`, 840-887 | `SkipDefine`, or `GetDefine`, `ApplyLevel`, `ApplyClear`, `ApplyAppender` |
| loop over `old_value` at its end, `eraseLogger` | `ApplyDone`, `EraseLevel`, `EraseClear` |
| end of the listener, the assignment in `setValue` | `ListenerDone`, `Write` |
| `SYLAR_LOG_LEVEL`, or `debug()` and its sisters | `LogMacro`, `LogDirect` |
| `Logger::log`: test of the level; loop over the appenders | `LogTest`; `LogOutput` with `Written` |
| `getLogger`, `addAppender`, `delAppender` by a client | `Hold`, `ClientAppender` |

History variables: `wanted`, the last configuration loaded; `known`, the names
ever configured; `missed`, the names with a change the code does not see;
`fresh` and `disturbed`, whether a load overlapped with a log statement or with
another load. A statement has two levels: the one it logs with (`lev`), which
`Logger::log` tests, and its event's (`ev`), which the appenders test;
`debug()` and its sisters take events of any level.

### What the clients do

* The owner calls from one thread. `start()` on a started scheduler changes
  nothing and has no action. Without `use_caller`, `stop()` is called after
  `start()` only (before it, it returns and leaves the queue as it is).
* Tasks are scheduled by the owner, by running tasks, and those in `OutsideJobs`
  also by threads from outside, at any time until the scheduler is destroyed.
  Pins are to any thread, to the scheduling task's own, or (by the owner) to the
  owner's; from outside to any thread only. (A late job pinned to a thread that
  has left would be waited for by the others for ever.)
* A task yields only after it has put its fiber in the queue, as the comment at
  `scheduler.cpp:241` asks. It names its own thread unless `MayMigrate`: run
  `migrate` shows why. `schedule()` looks for no other entry of the fiber, nor
  does `BodyRequeue`: a job on a callback fiber that still has a stale entry may
  put it in the queue a second time. A task may return or throw while its fiber
  is queued if `EndQueued`: `stop()` may then wait for ever (section 5).
* In the registry any client looks up, assigns and loads, one visits; callbacks
  of `Visit` do not call the registry back.
* Outside ScopedLock the locks are taken to work, that is `m_locked` to start
  false.

## 3. Runs

| Run | Instance | Shows |
|---|---|---|
| `caller` | `use_caller`, 0 or 1 pool thread, one fiber job, two callbacks, any of which may put itself in the queue once and end while queued | `IInv`; no shared stack (`FiberExclusive`), no reset under a running fiber (`ResetSafe`), no assertion, no job lost (`JobsAccounted`) or begun twice (`RunsOnce`), `ImplementsTaskPool`; `StopReturnsOrLeaks`: `stop()` returns unless an ended fiber was taken from the queue and its count left behind |
| `pool` | 1 or 2 pool threads, two callbacks, one of them also from outside, the scheduler may be started and stopped again | `StoppingMeansQuiet`, `StoppingStable`, `StopDrains`, refinement, `JobsComplete`, `StopReturns` |
| `migrate` | 2 pool threads, one callback, `MayMigrate` | **violated**: two threads on one stack |
| `fiber` | main, root and two task fibers, two yields each, two resets | `ContextInv` (each `m_ctx` holds its own fiber's registers), `GetThis`, no fault but by calling the root fiber after its end (`OnlySecondCallFaults`), reclamation |
| `thread_life` | three threads, one uses its `Thread` and is joined | `LifeInv` (ids published, single release), no stale access, constructors return |
| `scoped_lock` | four threads, `m_locked` starts false | exclusion, flags match the lock |
| `uninitialised` | two threads, `m_locked` starts anyhow | **violated**: two threads in an exclusive scope |
| `config` | three clients, two values, three keys, one listener may throw | `ConfigInv`, listeners alive, listeners told; no value is written that a listener registered in time was not told of (`WriteAnnounced`) |
| `registry` | two clients, three documents, requests for four names, one of them with two types | `PointerRegistered`, `LoadComplete`, `OnlyNamed`, `VisitSees`, `Restorable` |
| `formatter` | every pattern of up to 6 letters over two item letters, another character, `%`, `{`, `}` | `ErrorExact` and `FormatMeans` against `Meaning`, `InRange` |
| `log` | two loaders, three loads of four configurations of two loggers, one client | `LogInv` (pointers stay managed); `ConfigApplied` (loggers follow the last configuration but for overlooked changes, `missed`), `NoMixture`, `OutputFollows` (a statement goes to exactly the appenders configured for its two levels), `RoundTrip` |
| `log_stale` | one loader, two configurations that differ in an appender | **violated**: the logger keeps its old appenders |

The three violations are behaviours of the code, each against a sentence of its
comments or README; `findings` quotes them.

**Bounds.** Two threads and two or three jobs are enough for every race looked
at: taker against stopper, yielding fiber against second taker, kept callback
fiber against stale entry (which needs two callbacks on one runner). One requeue
per job gives a fiber each resume point, and a reused fiber two entries; idle
fibers yield without bound.
Kernel threads are the bound on restarts: with two of them a pool of one thread
is started twice. A job from outside comes before, during and after `stop()`,
also when one of two threads has left. Three clients of a variable let two calls of `setValue`
overlap while a third adds or erases; three keys let a stale key from before
`clearListener` meet a new one. Four threads on a lock allow one guard to
release another's lock while a reader or a writer waits. Three loads let a
logger be configured, dropped and configured again, or two loads overlap before
a third; the configurations add, change and drop a logger, name one twice, and
hold nodes that are skipped, an empty file name, a bad pattern and levels known
by their first letter only. The documents of the registry have a name by its path
and one with a dot, a name twice, a map that is itself a value, refused names with
valid ones below them, null, an empty string, `null` in quotes, half a sequence
and nodes that do not convert; a variable of strings starts with `null` and a
comment. Two of three documents may overlap. Six letters hold text, an item with
a format and what follows it, or two items with an open brace between them. Symmetry is over users of a lock,
loaders, and clients whose listener does not throw; no run with a liveness
property uses it.

**Deadlock** is checked everywhere but in `thread_life`, where everything ends.

**Fairness.** `Scheduler!Fairness` is weak fairness of every pool thread, of the
owner's thread while it is in `run()`, and of the owner inside `start()` and
`stop()`: the kernel schedules runnable threads, and the mutex is held across
steps only by `start()`, so that no action competes for ever. A job's steps are
among them, so jobs go on and end, which their bounded yields allow. The owner
is never obliged to call anything: `JobsComplete` holds without `stop()`.
`ThreadLife` has weak fairness of a created thread and of its waiting
constructor. The other modules claim no liveness.

Every property of a passing run has a mutant in `PROJECT.json`: a definition
with a plausible mistake under which TLC finds the property violated. The
mutants stand before the definitions they change and are commented as such.

## 4. Proofs

Assumptions are the named `ASSUME`s of the modules and no more: finiteness of
`Threads`, distinctness of the special values, `threads > 0` as the constructor
asserts, `tolower` leaving alone the letters `Lookup` accepts, names of loggers
and levels being what they are in the code (`LogAssumption`, `LogDefineAssumption`), documents being trees
without empty keys (`TreesAssumption`; the recursion of `ListAllMember` needs the
former), the letters of the known items being no punctuation (`NamesAreLetters`), and the like.
What clients have to observe is a hypothesis of the theorem that needs it;
for each, TLC has a counterexample without it (section 5, or the runs that
expect a violation). The inductive invariants that no run lists (`JobInv`,
`SwitchInv`, `ObjectInv`, `RegistryInv`, `LoadInv` of the registry, `LogProofInv`,
`FormatterInv`, and the parts of `StopInv` and `LateInv`) hold under the runs'
instances as well: added to the configurations, TLC finds no violation.

| Theorem | States | Hypotheses |
|---|---|---|
| `Invariance`, `TypeCorrect`, `Quiet`, `Stable` | `IInv`, `TypeOK`, `StoppingMeansQuiet`, `StoppingStable` | none |
| `Exclusive`, `ResetNeverOnStack`, `JobInvariance`, `BegunOnce`, `NoneLost` | `FiberExclusive`, `ResetSafe`, `JobInv`, `RunsOnce`, `JobsAccounted` | `~MayMigrate` |
| `AssertionsNeverFail` | `AssertionsHold` | `~MayMigrate`, `~(MayReuse /\ UseCaller)` |
| `Drained` | `StopDrains` | `~MayMigrate`, `OutsideJobs = {} \/ ~EndQueued` |
| `Implements` | `ImplementsTaskPool` | those of the two above |
| `ContextsOwn`, `ThisIsRunning`, `FaultNeedsSecondCall`, `FreedWhenOver` | `ContextInv`, `GetThisRight`, `OnlySecondCallFaults`, `Reclaimed` | none; `OnlySecondCallFaults` itself excepts the call of an ended root fiber |
| `LifeInvariance` | `LifeInv` | none |
| `ThisAlive` | `NoStaleThis` | `UsesThis \subseteq JoinsFirst` |
| `LockInvariance`, `Exclusion` | `LockInv`, `MutualExclusion` | `FirstLocked \subseteq {FALSE}` |
| `ConfigInvariance`, `NoCallAfterErase`, `ListenersUpToDate`, `NothingUnannounced` | `ConfigInv`, `ListenerAlive`, `ListenersKnow`, `WriteAnnounced` | none; `ListenersKnow` excepts `disturbed` |
| `PointersRegistered`, `VisitStable` | `PointerRegistered`, `VisitSees` | none |
| `LoadCompletes`, `LoadOnlyNamed` | `LoadComplete`, `OnlyNamed` | none |
| `LogInvariance`, `RoundTripHolds` | `LogInv`, `RoundTrip` | none |
| `ConfigAppliedHolds`, `NoMixtureHolds`, `OutputFollowsHolds` | `ConfigApplied`, `NoMixture`, `OutputFollows` | none; all three except `disturbed`, the first and the last also the names in `missed` |
| `InRangeHolds`, `ErrorExactHolds`, `FormatMeansHolds` | `InRange`, `ErrorExact`, `FormatMeans` | none |

**SchedulerProofs**, for every finite set of threads, all jobs, both values of
`use_caller` and all client disciplines, migrating fibers, fibers that end while
queued and threads that schedule from outside included:

* `Invariance`: `Spec => []IInv`. `TypeOK` is not inductive: `Back` decrements
  `m_activeThreadCount`, which stays a natural number only if it covers the
  threads that are going to decrement it. So `IInv` adds `CountsCover` (each
  counter is at least the number of threads at the places it stands for; not
  equal, because `DispatchEnded` leaves a count behind) and `HasFiber` (a thread
  about to switch has a fiber to switch to). One lemma per action; `CountsMoved`
  says how the counted sets change when one thread moves.
* `TypeCorrect`: the counters never wrap (`TypeOK` is checked as part of `IInv`).
* `Quiet`: `stopping()` implies that no thread holds a task, since zero covers
  the empty set only.
* `Stable`: once true inside `stop()`, `stopping()` stays true unless a thread
  from outside schedules: by `Quiet` nobody is busy, by definition the queue is
  empty, and the other steps that remain change nothing it reads.

Its **part 2** is about fibers and jobs, for fibers that are requeued
for the thread they run on (`~MayMigrate`; run `migrate` shows what happens
otherwise). `JobInv` is built in layers, each inductive relative to those before it:

* `Homes`: a fiber is in the hands of at most one thread; two entries of one
  fiber in the queue, which a reused fiber may have, are pinned to the same
  thread (`EntriesAgree`), and entries of a fiber in somebody's hands to that
  thread. This is what makes requeueing before the switch harmless: the only
  thread that may take the entry is the one that has not let go of the fiber.
  `Exclusive` follows from `IInv` and `Homes`.
* `Shapes`: a fiber nobody is on is `Resting` (new, yielded or ended, its saved
  context agreeing with its state), and the state of a fiber somebody is on fits
  the thread's place in `run()`. `ResetNeverOnStack` follows: `reset()` is called
  only on the callback fiber a thread keeps, which is at rest by then.
* `Tracking`: a job is in one live fiber or still pending, never both, and its
  history can be read from the fiber. `BegunOnce` follows: to begin a job is to
  enter a fiber whose state is `INIT`, or to make one for a pending callback,
  and in both cases the job has not run.
* `YieldsQueued`: a fiber that yields is in the queue until its thread has let
  go of it, so that letting go loses no job: `NoneLost`.

Its **part 3** is about the owner:

* `Pooled` (a pool thread is in `m_threads`, or in the list `stop()` has swapped,
  from creation to join) and `Owning` (what the owner's place says about
  flags, threads and the state of the root fiber) hold for every discipline of
  the clients. With `JobInv` they give `AssertionsNeverFail`. Its second
  hypothesis keeps a second `stop()` from calling a root fiber that has ended.
* `Drained` has two proofs. With `OutsideJobs = {}`, `stopping()` is stable
  (`Stable`), so everybody who acts on having seen it true is still right:
  `Seen` says so of idle fibers that have ended, threads that have left and a
  `stop()` that is past its waiting. With threads from outside it may turn false
  again; then `Attended` says that for every queued task that is not late
  somebody is still in `run()` who may take it, and this needs `~EndQueued`:
  a thread past its idle fiber leaves `run()` when it takes a fiber that has
  ended, whatever is queued (section 5).
* `Implements`: the initial state maps to `PoolInit`, each action to one action
  of TaskPool or a stutter; a return of `stop()` to one that leaves only late
  jobs waiting, by the argument for `Drained`.

**FiberSwitchProofs**, for any number of fibers, yields and resets, on a pool
thread and on the owner's: `SwitchInv` adds to `ContextInv` that the state of a
fiber says where its context was saved and how many `Fiber::ptr`s are on its own
stack (`StackFits`), that the client holds what runs and what nobody else holds
has yielded (`HeldFits`), and to whom each fiber goes back (`EntryFits`).
`FreedWhenOver` is then arithmetic on the references: zero of its own, and the
client's gone. `SwitchInv` includes that nothing has faulted and is left by one
step, the call of a root fiber that has ended; then the program is at the
"never reach" and stops, which is what `EndedCalled` says. The invariant proved is
`SwitchInv \/ EndedCalled`, and `FaultNeedsSecondCall` is its reading.

**ThreadLifeProofs**, for any number of threads: the semaphore is posted by the
new thread only and after it has set `m_id` (`BeginFits`), and `m_thread` is set
exactly while a kernel thread has to be given back (`ReleaseFits`). `ThisAlive`
needs the threads that use their object to be joined before it is destroyed.

**ScopedLockProofs**: `LockInvariance`, for any number of threads: the flags
tell exactly who holds the lock; exclusion follows. Run `uninitialised` shows
that the hypothesis on `m_locked` is needed.

**ConfigVarProofs**, for any number of clients, values and keys.
`ListenersKnow` speaks of moments without a `setValue`; the invariant follows one
through its loop: undisturbed it is alone, and the listeners its iterator has
passed (`Told`) know its argument, so that when none is left all of them do.
`NothingUnannounced` needs no such proviso: `HeardFits` says of every `setValue`,
disturbed or not, that it has told the listeners its iterator has passed. It is
inductive because no key at or below the iterator can come anew while the lock
is held for reading, although `clearListener` gives keys out again.

**ConfigRegistryProofs**, for any number of threads, names, documents and
conversions: `RegistryInv` adds to the types that an uncontested name is created
by one thread and not before it is registered (`CreatesAlone`), that an object
bears the name it was created for (`ObjectsNamed`; here `tolower` matters), and
that pointers are to registered names (`PointersFit`). So when an uncontested
name is inserted nobody has a pointer to a variable that the insertion could
replace. `VisitStable` follows from `ShownFits`: the insertion waits for the
lock, and while it has it no `Visit` has shown anything.

The theorems about `LoadFromYaml` hold for documents of any depth and width. First
`ListHas`, by induction over the depth of a node: what `ListAllMember` lists under
a prefix is what is reached from the node, under its full name, as far as the
name has allowed letters only; what is refused takes everything below it along,
for a name of allowed letters begins with such names (`ValidPrefix`). Then
`LoadInv`: every entry of the list is of a node of the document and has its name
(`EntriesFit`), so that whatever others do in between the variable found has
exactly that name (`FoundFits`), which gives `LoadOnlyNamed`; and while a loader
is alone every registered variable has the value of a node of its name or an
entry of that name is still to come (`Accounted`), which gives `LoadCompletes` once
the list is empty. `LoadComplete` is not inductive: it speaks of the end only.

**LogProofs**, for any number of loaders and clients, all names, events and
documents. `LogProofInv` has three layers:

* `ManagerInv`: types; every object is registered under its own name and a name
  leads to the object that bears it (`Managed`), which is more than `LogInv` says
  of the pointers clients hold; and what a loader remembers fits its place in
  the listener (`LocalsFit`): the logger in its hands is the one its definition
  names. Loggers are never dropped, so that this survives whatever others do.
  `RoundTripHolds` needs of it only that what is loaded was read from a node.
* `LoadInv`, which says nothing once two loads have overlapped (`disturbed`).
  While a loader is in `setValue` it is alone (`SettingIs`); every name ever
  configured is as `wanted` says, or `missed`, or still in front of the loader
  (`Pending`); the definition in its hands is applied up to its place; and a
  logger has appenders of one configuration. `ConfigApplied` says so of moments
  without a `setValue` only and is far from inductive: `Pending` carries it
  through the two loops of the listener. When the loops end nothing is
  pending, which is `ConfigApplied` for the value that is then written.
* `StatementFits`: for a statement that no load has overlapped with (`fresh`), what it
  has tested and written agrees with its logger. `OutputFollows` follows.

`Selected`, a recursive function on sequences, picks the appenders of a logger that
come from the configuration; `SelectedAppend` is proved by induction on the length.

**LogFormatterProofs**, for patterns of every length over any letters:

* `ReadInv`: while an item is read its first letter is a percent sign and those
  up to `n` belong to a name, or to a name, an opening brace and a format
  without a closing one; `str` and `fmt` are those parts of the pattern once they
  are complete. `InRangeHolds` follows.
* `MeansInv`: unless there has been an error, the pattern means what the entries and
  `nstr` will print (`Printed`, `nstr`), followed by what the rest of the pattern
  means; after an error it means nothing. Neither `ErrorExact` nor `FormatMeans`
  is inductive: both speak of the end only. A step that reads a letter moves
  one along the recursion of `Readings`; `ItemMeans` says that `PushItem`
  pushes what the grammar reads there and that a name `MakeItem` refuses has no
  reading; `Unclosed` the same of `PushError`; `MakeItem` moves an entry from one
  half of `Printed` to the other.

The library's induction theorems take an operator as parameter and cannot be
used. Induction on numbers goes through sets instead: a set that contains zero and
with every number its successor is all of `Nat` (`NatSet`, from `WFMin`). That
gives the recursive functions `Outputs`, `Readings`, `Selected`, `Lists`, `Unders` and
`FlattenSeq` their equations (`OutputsRun`, `ReadingsIs`, `ListsIs`, ...), of which
the prover otherwise knows nothing but a `CHOOSE`. `NodeRecursion` does so once for
both recursions over documents: a value for each node that depends on those of
its members can be defined.

**Only model-checked**: liveness (`StopReturns`, `StopReturnsOrLeaks`,
`JobsComplete`, `ConstructorReturns`: the prover has no fairness), and `Restorable`,
whose conversions recur over types and nodes with `RECURSIVE` operators, out of
the prover's reach.

## 5. Met on the way

Besides the findings, the models showed, or reading the code for them:

* A task whose fiber has ended (it requeued itself and then returned or threw)
  is counted when it is taken (`scheduler.cpp:224`) but matches neither branch
  of `run()` (236, 248), and nothing gives the count back: `stopping()` is false
  for ever and `stop()` does not return, although `scheduler.cpp:116` promises to
  wait for all tasks and then stop. `StopReturns` fails under `Caller.cfg`;
  `StopReturnsOrLeaks` shows that there is no other way to wait for ever.
* Threads from outside and such fibers together: a thread whose idle fiber has
  ended takes late work, then a task whose fiber has ended sends it out of
  `run()` with a job still queued. With `OutsideJobs = {c2}` in `Caller.cfg`,
  `StopDrains` fails; either alone does no harm (`Drained`).
* Two threads in the first `Lookup` of a name may each create the variable
  (`config.h:424`, 455); the one that inserts first keeps a pointer that no
  document reaches. `PointerRegistered` without `contested` fails.
* `ListAllMember` (`config.cpp:38`) refuses the digit 9, `Lookup`
  (`config.h:446`) does not: such a variable is never loaded, nor is anything
  below it. `LoadComplete` speaks of names `ListAllMember` takes; with
  `LookupChars` instead it fails.
* Names with capitals are refused by `Lookup` and by `ListAllMember`, so that
  `tolower` in `LoadFromYaml` and in the constructor of a variable has nothing to
  do: a document cannot spell a name otherwise.
* A scalar or null where a container is expected has size zero: the conversion
  does not throw and the container is emptied.
* Strings within a container are written as they are and read by `YAML::Load`
  (`config.h:155`, 193). An empty string, `null` (and its spellings) and a comment
  come back as `~`, a text like `[ 1 ]` as the sequence it spells, and one that is
  not YAML makes `toString` throw. `Restorable` says that these are exactly the
  values that are not restored: a container survives `toString` and `fromString`
  if and only if YAML prints each of its strings as it has read it. An empty
  string or `null` in quotes in a document reaches a `vector<string>` with its
  quotes and survives.
* With a brace left open, `<<pattern_error>>` is put before the text that
  precedes it (`log.cpp:362`: `nstr` is not pushed first).
* With `use_caller`, an owner that schedules more work after `stop()` and calls
  `stop()` again calls a root fiber that has ended (`scheduler.cpp:157`), and
  control comes back behind its last `back()` to the "never reach" of
  `fiber.cpp:286`: with `MayReuse = TRUE` in `Caller.cfg`, `AssertionsHold`
  fails. In `fiber` the root fiber is called again when it is over, and
  `OnlySecondCallFaults` shows that nothing else faults.
* A listener added between the two critical sections of `setValue`
  (`config.h:353-355`) is never told of the value that is then written, and two
  overlapping calls may leave listeners with a value that is not `m_val`:
  `ListenersTold`, which is `ListenersKnow` without `disturbed`, fails under
  `ConfigVar.cfg`.
* `clearListener` counts keys from the beginning again (`config.h:387`), although
  the comment at 395 asks for unique ones: a client that kept its key from before
  erases the listener another client has added since. `ConfigVar` has these
  steps; no property says that they are wrong.
* The loop that erases loggers (`log.cpp:890`) stands inside the loop over the
  new ones, behind a `continue`: a configuration that only drops loggers erases
  none. `LoggersFollow` fails for that reason too, though no run shows it by
  itself; `ConfigApplied` and `OutputFollows` except it (`missed`).
* A level is set before the old appenders are cleared (`log.cpp:860`, 670), and
  erasing lowers the level to `UNKNOW` first: an event below the old level that
  is logged in between reaches the old appenders. No property forbids it;
  `NoMixture` is about appenders and `OutputFollows` about statements that no
  load overlaps with.
* Two overlapping loads run the listener at the same time, and a logger may end
  up with the appenders of both (`NoMixture` without `disturbed` fails).
* `LogDefine` writes a file's name under `file` (`log.cpp:805`) and reads it
  under `fileName` (754): what `toString` returns loses its file appenders when
  it is loaded again.
* `tests/test_fiber.cpp:13-21` calls `swapIn` on a thread without a scheduler,
  where `Scheduler::GetMainFiber()` at `fiber.cpp:139` is null. FiberSwitch is
  about threads a scheduler runs on.
* `fiber.h:56` allows `reset()` in READY or TERM; `fiber.cpp:117` asserts EXCEPT,
  TERM or INIT. The model's clients follow the code.
* `thread.cpp:37` reaches the `Thread` object through `t_thread`, which still
  points at it after `~Thread` has detached the thread; the comment at 114-117
  is about the callback only. In `thread_life` a thread that uses its object
  (`UsesThis`) is joined first (`JoinsFirst`); without that `NoStaleThis` fails.
* The iterator version of `schedule` (`scheduler.h:87`) calls `scheduleNoLock`
  with one argument of two; it would not compile if used.

## 6. Not modelled

Iterator `schedule`; `pthread_create` failing inside `start()`; `pthread_join`
failing (`thread.cpp:90-94` logs, throws and keeps `m_thread`: for a thread that
is joinable and not oneself, as all here are, it does not fail); the assertions on
`Scheduler::GetThis()` in `stop()` (`scheduler.cpp:135`, 139: the owner is one
thread throughout); `stop()` of a
scheduler without `use_caller` that was never started (it returns at once and
leaves the queue); `stop()` by two threads; pins to threads that are not the
scheduler's; subclasses overriding `tickle`, `stopping`, `idle` (`tickle` of the
base class only logs); stack memory, fiber ids and counts; failures of ucontext
and semaphore calls; thread names; reads of a `ConfigVar` (`getValue` returns a
reference that outlives the lock: a torn read has no counterpart here);
listeners and callbacks of `Visit` that call back into the variable or the
registry (none of the repository's do; they may wait for a lock they hold);
conversions of types other than int, string, containers of them and
`LogDefine`; YAML itself: what a line means is given by constants, for the lines
that occur, and anchors, tags and non-scalar keys are left out; the streams behind the
appenders and `toYamlString` of loggers; the message the log listener itself
logs; Singleton, util and macros (no protocol of their own); tests and
configuration files.

## 7. Plan

In this order; all but the last is done.

1. Scheduler with Fiber, Thread and TaskPool; its invariant proved.
2. FiberSwitch, ThreadLife.
3. ScopedLock, exclusion proved.
4. ConfigVar, what listeners know proved.
5. Log with LogDefine: loggers, the manager, the configuration listener.
6. Config registry: `Lookup` (check, then create under another lock),
   `LookupBase`, `LoadFromYaml` with `ListAllMember` over small trees and its
   character set (`config.cpp:38` against `config.h:446`).
7. `LogFormatter::init` as a pure algorithm against a reference definition.
8. Outside threads racing `stop()`.
9. Proofs about Scheduler (jobs, `stop()`, the refinement of TaskPool),
   FiberSwitch, ThreadLife and the registry.
10. Proofs about Log (`LogInv`, `ConfigApplied`, `NoMixture`, `OutputFollows`) and
    LogFormatter (what a pattern means).
11. Proofs about `ListAllMember` (`LoadComplete`, `OnlyNamed`).
12. `pthread_create` failing inside `start()`.
