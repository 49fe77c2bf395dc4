SPECIFICATION Spec
CONSTANTS
    Threads = {w1, w2}
    FiberJobs = {}
    CbJobs = {c1}
    Callbacks = {c1, RunCb, IdleCb}
    None = None
    NoTid = NoTid
    Caller = Caller
    RunCb = RunCb
    IdleCb = IdleCb
    UseCaller = FALSE
    ThreadCounts = {2}
    MayMigrate = TRUE
    EndQueued = FALSE
    OutsideJobs = {}
    MayReuse = FALSE
    MaxRequeues = 1
INVARIANT FiberExclusive
