SPECIFICATION Spec
CONSTANTS
    Threads = {w1, w2}
    FiberJobs = {}
    CbJobs = {c1, c2}
    Callbacks = {c1, c2, RunCb, IdleCb}
    None = None
    NoTid = NoTid
    Caller = Caller
    RunCb = RunCb
    IdleCb = IdleCb
    UseCaller = FALSE
    ThreadCounts = {1, 2}
    MayMigrate = FALSE
    EndQueued = FALSE
    OutsideJobs = {c2}
    MayReuse = TRUE
    MaxRequeues = 1
INVARIANTS StoppingMeansQuiet StopDrains
PROPERTIES StoppingStable ImplementsTaskPool JobsComplete StopReturns
