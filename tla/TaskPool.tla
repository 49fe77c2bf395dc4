------------------------------ MODULE TaskPool ------------------------------
(***************************************************************************)
(* What sylar::Scheduler promises its owner, without threads, fibers or a  *)
(* queue: a job that was handed over is begun once and ended once, and     *)
(* stop() returns only when no job is waiting or running ("wait until all  *)
(* tasks have been executed, then stop", scheduler.cpp:116).  A job that   *)
(* somebody else hands over after stop() was called may be too late.       *)
(***************************************************************************)
CONSTANTS Jobs, OutsideJobs

VARIABLES
    phase,   \* what has become of each job
    stop,    \* has stop() been called, has it returned
    late     \* jobs that came from outside after the last call of stop()

poolVars == <<phase, stop, late>>

PoolInit ==
    /\ phase = [j \in Jobs |-> "new"]
    /\ stop = "no"
    /\ late = {}

Move(j, from, to) ==
    /\ phase[j] = from
    /\ phase' = [phase EXCEPT ![j] = to]

\* The owner, or a running job, hands over a job; the owner may do so between
\* a stop and a start.
Submit(j) ==
    /\ Move(j, "new", "waiting")
    /\ stop' = IF stop = "returned" THEN "no" ELSE stop
    /\ UNCHANGED late

SubmitOutside(j) ==
    /\ j \in OutsideJobs
    /\ Move(j, "new", "waiting")
    /\ late' = IF stop = "no" THEN late ELSE late \cup {j}
    /\ UNCHANGED stop

Begin(j) == stop # "returned" /\ Move(j, "waiting", "running") /\ UNCHANGED <<stop, late>>

End(j) == stop # "returned" /\ Move(j, "running", "over") /\ UNCHANGED <<stop, late>>

StopCalled ==
    /\ stop # "called"
    /\ stop' = "called"
    /\ late' = {}
    /\ UNCHANGED phase

\* A late job may be left waiting, but not in the middle.
StopReturns ==
    /\ stop = "called"
    /\ \A j \in Jobs : phase[j] \in {"new", "over"} \/ (phase[j] = "waiting" /\ j \in late)
    /\ stop' = "returned"
    /\ UNCHANGED <<phase, late>>

\* The owner starts or destroys the scheduler after a stop().
OwnerGoesOn ==
    /\ stop = "returned"
    /\ stop' = "no"
    /\ UNCHANGED <<phase, late>>

PoolNext ==
    \/ \E j \in Jobs : Submit(j) \/ SubmitOutside(j) \/ Begin(j) \/ End(j)
    \/ StopCalled \/ StopReturns \/ OwnerGoesOn

PoolSpec == PoolInit /\ [][PoolNext]_poolVars
=============================================================================
