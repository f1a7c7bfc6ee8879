---------------------------- MODULE ControlPlane ----------------------------
(***************************************************************************)
(* The components of the control plane on one state store: scheduling      *)
(* loops and API placements (Scheduler), health reconciliation             *)
(* (Reconciler), DCGM telemetry (DCGMIngestor), the simulated cluster      *)
(* (Simulator), and the API clients that register workers, submit          *)
(* workloads, drain workers and close workloads.  Each set of actors is a  *)
(* constant and may be empty: cmd/aegis runs one loop and the simulator;   *)
(* reconciliation and DCGM ingestion are library code it does not start.   *)
(*                                                                         *)
(* ConcurrentSpec lets them interleave between any two calls of the store, *)
(* as their goroutines do.  SerialSpec starts an operation only when none  *)
(* is in progress: what is violated in the first and holds in the second   *)
(* is violated by interleaving and by nothing else.                        *)
(***************************************************************************)
EXTENDS Scheduler, Reconciler, DCGMIngestor, Simulator

CONSTANTS
    Drainable,   \* the workers operators may drain
    Overrides,   \* what operators may do to a workload that is not over
    MaxTime      \* bound on the clock

ASSUME OverridesAssumption ==
    Overrides \subseteq [state : {"COMPLETED", "FAILED"}, cleared : BOOLEAN]

\* The bound leaves the clock its first reading.
ASSUME ClockAssumption == MaxTime \in Nat \ {0}

VARIABLE now     \* the clock; 0 is Go's zero time, before any start

actorVars == <<placer, recon, ingest, sim, active>>

vars == <<storeVars, actorVars, now>>

Init ==
    /\ SimulatorInit
    /\ placer = [p \in Placers |-> Idle]
    /\ ReconcilerInit
    /\ IngestorInit
    /\ now = 1

Tick ==
    /\ now < MaxTime
    /\ now' = now + 1
    /\ UNCHANGED <<storeVars, actorVars>>
-----------------------------------------------------------------------------
(***************************************************************************)
(* API clients whose request is one call of the store.                     *)
(***************************************************************************)
AddWorker ==
    \E w \in Workers : RegisterIdleWorker(w)

SubmitWorkload ==
    \E x \in Workloads : CreateUnplaced(x)

\* PUT /v1/workers/{id}: an operator drains a worker, keeping the rest of its
\* record as it is now.
Drain ==
    \E w \in Drainable \cap DOMAIN workers :
        /\ workers[w].state # "DRAINING"
        /\ UpdateWorker(w, [workers[w] EXCEPT !.state = "DRAINING"])

Over(workload) == workload.state \in {"COMPLETED", "FAILED"}

\* PUT /v1/workloads/{id}: an operator declares a workload over, and may clear
\* its assignment.
Override ==
    \E x \in DOMAIN workloads, o \in Overrides :
        /\ ~ Over(workloads[x])
        /\ UpdateWorkload(x, [workloads[x] EXCEPT
              !.state = o.state,
              !.assigned = IF o.cleared THEN NoWorker ELSE @])

Client ==
    /\ AddWorker \/ SubmitWorkload \/ Drain \/ Override
    /\ UNCHANGED <<actorVars, now>>
-----------------------------------------------------------------------------
(***************************************************************************)
(* Operations of several calls: the step that begins one, and those that   *)
(* carry it on.                                                            *)
(***************************************************************************)
PassStarts(p) == StartPass(p) /\ UNCHANGED <<recon, ingest, sim, active, now>>

PlaceStarts(p, x) == StartPlace(p, x) /\ UNCHANGED <<recon, ingest, sim, active, now>>

PlacerStep(p) == Proceed(p) /\ UNCHANGED <<recon, ingest, sim, active, now>>

ReconcileStarts(r) ==
    StartReconcile(r, now) /\ UNCHANGED <<placer, ingest, sim, active, now>>

ReconcilerStep(r) == ReconcileStep(r) /\ UNCHANGED <<placer, ingest, sim, active, now>>

IngestStarts(i, sample) ==
    StartIngest(i, sample, now) /\ UNCHANGED <<placer, recon, sim, active, now>>

IngestorStep(i) == StoreSample(i) /\ UNCHANGED <<placer, recon, sim, active, now>>

SimulatorTicks == SimulatorTick(now) /\ UNCHANGED <<placer, recon, ingest, now>>

SimulatorProceeds ==
    (StartSimulator \/ SimulatorStep(now)) /\ UNCHANGED <<placer, recon, ingest, now>>

Start ==
    \/ \E p \in Placers : PassStarts(p)
    \/ \E p \in Callers, x \in Workloads : PlaceStarts(p, x)
    \/ \E r \in Reconcilers : ReconcileStarts(r)
    \/ \E i \in Ingestors, sample \in Samples : IngestStarts(i, sample)
    \/ SimulatorTicks

Continue ==
    \/ \E p \in Placers : PlacerStep(p)
    \/ \E r \in Reconcilers : ReconcilerStep(r)
    \/ \E i \in Ingestors : IngestorStep(i)
    \/ SimulatorProceeds

ConcurrentNext == Start \/ Continue \/ Client \/ Tick

ConcurrentSpec == Init /\ [][ConcurrentNext]_vars

\* Nothing is in progress.
Quiet ==
    /\ \A p \in Placers : placer[p].at \in {"idle", "stopped"}
    /\ \A r \in Reconcilers : recon[r] = NoPass
    /\ \A i \in Ingestors : ingest[i] = NoSample
    /\ sim = Resting \/ sim.at = "stopped"

SerialNext == Continue \/ (Quiet /\ (Start \/ Client \/ Tick))

SerialSpec == Init /\ [][SerialNext]_vars

\* The clock and the tickers advance, operations in progress continue, and
\* reconciliation is run again and again.  The last is an assumption about
\* whoever calls ReconcileCluster: cmd/aegis does not.
Fairness ==
    /\ WF_vars(Tick)
    /\ \A p \in Loops : WF_vars(PassStarts(p))
    /\ \A p \in Placers : WF_vars(PlacerStep(p))
    /\ \A r \in Reconcilers :
          WF_vars(ReconcileStarts(r)) /\ WF_vars(ReconcilerStep(r))
    /\ \A i \in Ingestors : WF_vars(IngestorStep(i))
    /\ WF_vars(SimulatorTicks) /\ WF_vars(SimulatorProceeds)

FairSpec == ConcurrentSpec /\ Fairness
-----------------------------------------------------------------------------
(***************************************************************************)
(* Properties.                                                             *)
(***************************************************************************)

\* All components store and hold records of their types.
ControlPlaneTypeOK ==
    /\ SchedulerTypeOK
    /\ now \in 1 .. MaxTime
    /\ \A r \in Reconcilers :
          /\ \A w \in DOMAIN recon[r].updates : recon[r].updates[w] \in WorkerType
          /\ \A x \in DOMAIN recon[r].releases : recon[r].releases[x] \in ReleaseTargets
    /\ \A i \in Ingestors : ingest[i] # NoSample => ingest[i].record \in WorkerType
    /\ SimulatorTypeOK

\* When operations take turns, the books are straight whenever none is in
\* progress: no memory is both free and held, and every worker counts the
\* workloads it runs, whichever component placed, released or completed them.
BooksStraightAtRest == Quiet => NoOvercommit /\ ActiveCountExact

\* "Committed GPU memory cannot exceed the capacity available at placement
\* time" (README): whenever nothing is in progress, the workloads on a worker
\* fit into it.
CommittedFits ==
    Quiet =>
        \A w \in DOMAIN workers : Cardinality(HeldMemory(w)) <= workers[w].total

\* The reservation ledger the cluster represents.  Between the two writes of a
\* completion the simulator has returned the memory of a workload that is still
\* stored as placed.
Returned == IF sim.at = "freed" THEN {sim.job} ELSE {}

Outstanding == {GrantOf(x) : x \in Placed \ Returned}

ClusterLedger == INSTANCE Reservation WITH
    Jobs <- Workloads,
    Capacities <- {record.total : record \in WorkerRecords},
    capacity <- Capacity, free <- Free, grants <- Outstanding

\* All components together implement that ledger, taken over from the seeded
\* cluster: whoever places, releases and completes, each commit takes one
\* grant, each release and each completion returns exactly what its commit
\* took, once, and no heartbeat, sample, health update or operator makes memory
\* free.
ControlPlaneKeepsLedger == ClusterLedger!OpenedSpec

\* Telemetry, heartbeats and health updates cannot manufacture capacity
\* (README): except where the simulator completes a workload, a worker's
\* available memory only grows in a step in which the memory held on it
\* shrinks, and by no more than that.
CapacityReturnsOnlyWithRelease ==
    [][sim.at = "computed" \/
       \A w \in DOMAIN workers :
         workers'[w].avail > workers[w].avail =>
             workers'[w].avail + Cardinality(HeldMemory(w)')
                 <= workers[w].avail + Cardinality(HeldMemory(w))]_vars

\* A workload that is over is never started again, although the scheduler may
\* have chosen a worker for it before an operator declared it over.
OverIsFinal ==
    [][\A x \in DOMAIN workloads : Over(workloads[x]) => Over(workloads'[x])]_vars

\* Every workload the simulator tracks is completed, whatever the scheduler
\* and API clients do meanwhile, unless some workload was taken off its worker:
\* nothing else makes the simulator's loop fail or lose a workload.
RunningCompletes ==
    \A x \in Workloads :
        (x \in DOMAIN active)
            ~> \E y \in DOMAIN workloads :
                  \/ y = x /\ workloads[y].state = "COMPLETED"
                  \/ workloads[y].state \in {"FAILED", "RECOVERING"}

\* Taken off its worker, by a reconciliation pass or by an operator.
TakenOff(x) ==
    /\ workloads[x].assigned = NoWorker
    /\ workloads[x].state \in {"FAILED", "RECOVERING", "COMPLETED"}

\* The simulator's loop ends, and with it all heartbeats and completions, for
\* one reason only: a workload it tracks was taken off its worker.  However
\* stale what it holds is, no store call of its own fails, and it never takes
\* a workload that waits to be placed for one that runs.
SimulatorStopsForTakenOff ==
    Simulating /\ sim.at = "stopped" => \E x \in DOMAIN active : TakenOff(x)

\* "As workloads execute, lifecycle transitions keep scheduling state
\* synchronized with resource ownership.  Completion and failure paths release
\* reserved capacity" (README): a placed workload does not hold its memory for
\* ever.
PlacedCompletes ==
    \A x \in Workloads :
        (x \in DOMAIN workloads /\ workloads[x].state = "PLACED")
            ~> ~ (x \in DOMAIN workloads /\ workloads[x].state \in PlacedStates)

\* A workload on a worker whose heartbeat says it is dead.
Orphan(x) ==
    /\ x \in DOMAIN workloads
    /\ workloads[x].state \in PlacedStates
    /\ EvaluateWorkerHealth(workers[workloads[x].assigned], now) = "UNHEALTHY"

\* A reconciliation pass that nothing interleaves with leaves every worker in
\* the state its heartbeat says and no workload on a dead one ("failed workers
\* do not leave stale assignments", README).
PassLeavesClusterClean ==
    [][\A r \in Reconcilers :
         recon[r] # NoPass /\ recon'[r] = NoPass =>
             /\ \A w \in DOMAIN workers' :
                   workers'[w].state = EvaluateWorkerHealth(workers'[w], now)
             /\ \A x \in DOMAIN workloads : ~ Orphan(x)']_vars

\* Reconciliation takes workloads only off workers that are dead at that very
\* moment.  It decides from its snapshot: a heartbeat that comes back while the
\* pass is under way does not stop it, so this needs passes that nothing
\* interleaves with.
TakenOffDeadOnly ==
    [][UNCHANGED recon \/
       \A x \in DOMAIN workloads :
         /\ workloads[x].state \in PlacedStates
         /\ workloads'[x].state \notin PlacedStates
         => EvaluateWorkerHealth(workers[workloads[x].assigned], now)
               = "UNHEALTHY"]_vars

\* Telemetry and reconciliation never put a draining worker back to work.
DrainingKept ==
    [][\A w \in DOMAIN workers :
         workers[w].state = "DRAINING" => workers'[w].state = "DRAINING"]_vars

\* Operations that do not overlap never make a scheduling loop fail: Run
\* returns an error only when another goroutine came between its calls.
LoopsKeepRunning == \A p \in Loops : ~ Stopped(p)

\* A workload that was placed on a worker just when that worker was found
\* dead, too late for the pass that found it, is taken off it by a later one.
OrphansReleased == \A x \in Workloads : Orphan(x) ~> ~ Orphan(x)

\* "Checkpointable workloads affected by worker failure can transition through
\* RECOVERING and re-enter scheduling" (README, Workload Lifecycle).
RecoveringRescheduled ==
    \A x \in Workloads :
        (x \in DOMAIN workloads /\ workloads[x].state = "RECOVERING") ~> Schedulable(x)
=============================================================================
