---------------------------- MODULE ClusterTypes ----------------------------
(***************************************************************************)
(* The records of package internal/cluster and the pure functions on them: *)
(* validation, topology matching and health evaluation.                    *)
(*                                                                         *)
(* A record keeps the fields that some guard or property tells apart.  The *)
(* fields that are only range-checked when a record is written (IDs, model *)
(* name, utilisation, token counts, priority...) are one Boolean,          *)
(* wellFormed.  Memory is in MB, time in ticks; tick 0 is Go's zero time.  *)
(***************************************************************************)
EXTENDS Integers, FiniteSets

CONSTANTS
    Workers,         \* worker IDs
    Workloads,       \* workload IDs
    Places,          \* names of nodes, racks, links and domains, "" for none
    SuspectedAfter,  \* WorkerHealthConfig.SuspectedAfter
    UnhealthyAfter   \* WorkerHealthConfig.UnhealthyAfter

\* AssignedWorkerID of a workload that has no worker.
NoWorker == ""

\* IDs are non-empty strings (ValidateWorker rejects the empty one).
ASSUME WorkersAssumption == NoWorker \notin Workers

\* Only finitely many workloads exist.
ASSUME WorkloadsAssumption == IsFiniteSet(Workloads)

\* The thresholds are durations; the default configuration has 15s and 30s.
ASSUME ThresholdsAssumption ==
    SuspectedAfter \in Nat /\ UnhealthyAfter \in Nat
-----------------------------------------------------------------------------
TopologyKeys == {"node", "rack", "nvlink", "interconnect"}

Topologies == [TopologyKeys -> Places]

\* A worker's state is not validated: "OTHER" is any string that is none of
\* the four constants.
WorkerStates == {"HEALTHY", "SUSPECTED", "UNHEALTHY", "DRAINING", "OTHER"}

WorkloadStates ==
    {"PENDING", "QUEUED", "PLACED", "RUNNING",
     "PREEMPTED", "RECOVERING", "COMPLETED", "FAILED"}

WorkerType ==
    [total      : Nat,      \* TotalMemoryMB
     avail      : Nat,      \* AvailableMemoryMB
     active     : Int,      \* ActiveWorkloadCount
     state      : WorkerStates,
     heartbeat  : Nat,
     topology   : Topologies,
     domain     : Places,   \* TopologyDomain
     wellFormed : BOOLEAN]

WorkloadType ==
    [required       : Nat,        \* RequiredMemoryMB
     checkpointable : BOOLEAN,
     requirement    : Topologies, \* "" where nothing is required
     domain         : Places,     \* RequiredTopologyDomain
     state          : WorkloadStates \cup {"OTHER"},
     assigned       : Workers \cup {NoWorker},
     wellFormed     : BOOLEAN]

\* The states in which a workload occupies the worker it is assigned to.
PlacedStates == {"PLACED", "RUNNING"}

\* Mutated form of SchedulableStates: a workload that does not run yet may be
\* placed again.
SchedulableStatesPlaced == {"PENDING", "QUEUED", "PLACED"}

SchedulableStates == {"PENDING", "QUEUED"}

ReleaseTargets == {"QUEUED", "RECOVERING", "FAILED"}
-----------------------------------------------------------------------------
ValidateWorker(worker) ==
    /\ worker.wellFormed
    /\ worker.total > 0
    /\ worker.avail <= worker.total

ValidateWorkload(workload) ==
    /\ workload.wellFormed
    /\ workload.required > 0
    /\ workload.state \in WorkloadStates
    /\ workload.state \in PlacedStates => workload.assigned # NoWorker

\* A required domain is compared with the rack when the worker has one.
MatchesTopologyRequirement(workload, worker) ==
    /\ \A k \in TopologyKeys :
          workload.requirement[k] # "" =>
              worker.topology[k] = workload.requirement[k]
    /\ workload.domain # "" =>
          workload.domain = IF worker.topology["rack"] # ""
                            THEN worker.topology["rack"]
                            ELSE worker.domain

\* Mutated form of EvaluateWorkerHealth: a fresh heartbeat ends draining.
EvaluateWorkerHealthOfDraining(worker, now) ==
    LET age == now - worker.heartbeat
    IN  IF worker.heartbeat = 0 \/ age >= UnhealthyAfter THEN "UNHEALTHY"
        ELSE IF age >= SuspectedAfter THEN "SUSPECTED"
        ELSE "HEALTHY"

EvaluateWorkerHealth(worker, now) ==
    LET age == now - worker.heartbeat
    IN  IF worker.state = "DRAINING" THEN "DRAINING"
        ELSE IF worker.heartbeat = 0 \/ age >= UnhealthyAfter THEN "UNHEALTHY"
        ELSE IF age >= SuspectedAfter THEN "SUSPECTED"
        ELSE "HEALTHY"
=============================================================================
