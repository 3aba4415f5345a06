----------------------------- MODULE BoundedRuns -----------------------------
(***************************************************************************)
(* DurableRuns with a budget of operator requests and of faults.  The      *)
(* budget makes the state space of several runs small enough for TLC, and  *)
(* it is the environment assumption of the liveness properties: operators  *)
(* stop pausing and retrying at some point, and only finitely often does a *)
(* process die, a node fail or a heartbeat come too late.                  *)
(***************************************************************************)
EXTENDS DurableRuns

CONSTANTS
    MaxRequests,    \* cancel, pause, resume and retry requests in a behaviour
    MaxFaults       \* failures, crashes, interruptions and late heartbeats

ASSUME BoundsAssumption == MaxRequests \in Nat /\ MaxFaults \in Nat

VARIABLES requests, faults

boundedVars == <<vars, requests, faults>>

Free == UNCHANGED <<requests, faults>>

\* A heartbeat comes every LeaseTTL at the latest while the slot is processing,
\* so letting its lease run out takes a fault; other leases just expire.
HeldByProcessing(r) == \E w \in Worker : ValidLease(w, r) /\ Processing(w)

ControlRequest(r) ==
    /\ requests < MaxRequests
    /\ requests' = requests + 1
    /\ CancelRun(r) \/ PauseRun(r) \/ ResumeRun(r) \/ RetryFailedRun(r)
    /\ UNCHANGED faults

Failure ==
    /\ faults < MaxFaults
    /\ faults' = faults + 1
    /\ \/ \E w \in Worker : Fault(w)
       \/ \E r \in Run : HeldByProcessing(r) /\ job[r].ttl = 1 /\ Tick(r)
    /\ UNCHANGED requests

Passing(r) == Tick(r) /\ (HeldByProcessing(r) => job[r].ttl > 1)

BoundedInit == Init /\ requests = 0 /\ faults = 0

BoundedNext ==
    \/ \E r \in Run, streams \in SUBSET Stream : CreateRun(r, streams) /\ Free
    \/ \E r \in Run : ControlRequest(r)
    \/ \E r \in Run : Passing(r) /\ Free
    \/ RecoverOrphanedRuns /\ Free
    \/ \E w \in Worker, r \in Run : Claim(w, r) /\ Free
    \/ \E w \in Worker : Heartbeat(w) /\ Free
    \/ \E w \in Worker : WorkerStep(w) /\ Free
    \/ Failure

BoundedSpec == BoundedInit /\ [][BoundedNext]_boundedVars

\* A slot that is not dead keeps polling, stepping and heartbeating, and time
\* passes.  Nothing is assumed about operators, failures or process starts.
Fairness ==
    /\ \A w \in Worker : WF_boundedVars(WorkerStep(w) /\ Free)
    /\ \A w \in Worker : WF_boundedVars((\E r \in Run : Claim(w, r)) /\ Free)
    /\ \A r \in Run : WF_boundedVars(Passing(r) /\ Free)

FairSpec == BoundedSpec /\ Fairness

\* Every dispatched run is brought to a stop: completed, failed, cancelled,
\* superseded or paused, or its job is given up with an error, even when the
\* worker that held it crashed or lost its lease.
DispatchedRunsSettle ==
    \A r \in Run :
        (runStatus[r] \in {"pending", "running"} /\ job[r].status \in {"queued", "leased"})
            ~> (runStatus[r] \notin {"pending", "running"} \/ job[r].status = "failed")
=============================================================================
