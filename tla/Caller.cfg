SPECIFICATION Spec
CONSTANTS
    Threads = {w1}
    FiberJobs = {f1}
    CbJobs = {c1, c2}
    Callbacks = {f1, c1, c2, RunCb, IdleCb}
    None = None
    NoTid = NoTid
    Caller = Caller
    RunCb = RunCb
    IdleCb = IdleCb
    UseCaller = TRUE
    ThreadCounts = {0, 1}
    MayMigrate = FALSE
    EndQueued = TRUE
    OutsideJobs = {}
    MayReuse = FALSE
    MaxRequeues = 1
INVARIANTS IInv FiberExclusive AssertionsHold JobsAccounted RunsOnce
PROPERTIES ResetSafe ImplementsTaskPool StopReturnsOrLeaks
