----------------------------- MODULE Simulator ------------------------------
(***************************************************************************)
(* internal/simulator, the cluster that cmd/aegis schedules on: at each    *)
(* tick Run sends every worker's heartbeat, then completes the workloads   *)
(* whose time is over.  Both work on copies: the heartbeats store the      *)
(* worker records of one ListWorkers, and a completion is four calls of    *)
(* the store, GetWorkload, GetWorker, UpdateWorker, UpdateWorkload.        *)
(*                                                                         *)
(* Simulated utilisation only feeds scores and forecasts and is left out.  *)
(***************************************************************************)
EXTENDS StateStore

CONSTANTS
    Simulating,      \* whether Simulator.Run is called
    SeededWorkers,   \* the workers of SeedWorkers
    Seeded,          \* the workloads of SeedWorkloads
    Deadlines        \* when a seeded workload may end: arrival plus duration

ASSUME SeedAssumption ==
    SeededWorkers \subseteq Workers /\ Seeded \subseteq Workloads /\ Deadlines \subseteq Nat

VARIABLES
    sim,      \* what Run is doing
    active    \* WorkloadLifecycle.active: the deadline of each workload tracked

\* at: "start" before InitializeLifecycle; "loop" between workloads; "read"
\* when the workload to complete has been read, "computed" when its worker
\* has; "freed" when the worker has been stored; "stopped" after an error.
Resting ==
    [at |-> "loop", updates |-> <<>>, due |-> {}, job |-> "",
     workload |-> <<>>, worker |-> <<>>]

\* SeedWorkers and SeedWorkloads, which run before any goroutine is started:
\* each workload is placed on a worker of its own and set running.
SeededStore ==
    \E worker \in WorkerRecords,
       job \in [Seeded -> WorkloadRecords], on \in [Seeded -> SeededWorkers] :
        /\ \A x, y \in Seeded : on[x] = on[y] => x = y
        /\ worker.state = "HEALTHY" /\ worker.avail = worker.total
        /\ worker.active = 0 /\ ValidateWorker(worker)
        /\ \A x \in Seeded :
              /\ job[x].state \in SchedulableStates /\ ValidateWorkload(job[x])
              /\ job[x].required <= worker.total
              /\ MatchesTopologyRequirement(job[x], worker)
        /\ workers = [w \in SeededWorkers |->
              IF \E x \in Seeded : on[x] = w
              THEN LET x == CHOOSE y \in Seeded : on[y] = w
                   IN  [worker EXCEPT !.avail = @ - job[x].required, !.active = 1]
              ELSE worker]
        /\ workloads = [x \in Seeded |->
              [job[x] EXCEPT !.assigned = on[x], !.state = "RUNNING"]]

SimulatorInit ==
    /\ SeededStore
    /\ sim = [Resting EXCEPT !.at = IF Simulating THEN "start" ELSE "stopped"]
    /\ active = <<>>
-----------------------------------------------------------------------------
\* Mutated form of StartSimulator: whatever is not over is tracked.
StartSimulatorUnfinished ==
    /\ sim.at = "start"
    /\ active' \in [{x \in DOMAIN workloads :
                        workloads[x].state \notin {"COMPLETED", "FAILED"}} -> Deadlines]
    /\ sim' = Resting
    /\ UNCHANGED storeVars

\* InitializeLifecycle tracks the workloads that run when Run is called, and
\* nothing tracks a workload later.
StartSimulator ==
    /\ sim.at = "start"
    /\ active' \in [{x \in DOMAIN workloads :
                        /\ workloads[x].state = "RUNNING"
                        /\ workloads[x].assigned # NoWorker} -> Deadlines]
    /\ sim' = Resting
    /\ UNCHANGED storeVars

\* A tick at time t lists the workers.  The workloads tracked do not change
\* before AdvanceWorkloads lists them.
SimulatorTick(t) ==
    /\ sim = Resting
    /\ sim' = [sim EXCEPT !.updates = workers,
                          !.due = {x \in DOMAIN active : active[x] <= t}]
    /\ UNCHANGED <<workers, workloads, active>>

\* Mutated form of SendHeartbeat: the record's available memory is reset.
SendHeartbeatReset(t) ==
    /\ sim.at = "loop"
    /\ \E w \in DOMAIN sim.updates :
          /\ UpdateWorker(w, [sim.updates[w] EXCEPT !.heartbeat = t,
                                                    !.avail = sim.updates[w].total])
          /\ sim' = [sim EXCEPT !.updates = Without(@, w)]
    /\ UNCHANGED active

\* updateWorkers: the listed record, with a new heartbeat, replaces the stored
\* one.
SendHeartbeat(t) ==
    /\ sim.at = "loop"
    /\ \E w \in DOMAIN sim.updates :
          /\ UpdateWorker(w, [sim.updates[w] EXCEPT !.heartbeat = t])
          /\ sim' = [sim EXCEPT !.updates = Without(@, w)]
    /\ UNCHANGED active

\* AdvanceWorkloads visits the workloads that are due after all heartbeats.
Due(x) == sim.at = "loop" /\ sim.updates = <<>> /\ x \in sim.due

\* A workload someone else completed is no longer tracked.
Forget(x) ==
    /\ Due(x)
    /\ workloads[x].state = "COMPLETED"
    /\ active' = Without(active, x)
    /\ sim' = [sim EXCEPT !.due = @ \ {x}]
    /\ UNCHANGED storeVars

ReadWorkload(x) ==
    /\ Due(x)
    /\ workloads[x].state # "COMPLETED"
    /\ sim' = [sim EXCEPT !.at = "read", !.job = x, !.workload = workloads[x]]
    /\ UNCHANGED <<workers, workloads, active>>

\* Mutated form of WorkerAfter: the memory is not returned.
WorkerAfterCountOnly(worker, workload) ==
    [worker EXCEPT !.active = IF @ > 0 THEN @ - 1 ELSE @]

\* completeWorkload returns the memory as ReleasePlacement does.
WorkerAfter(worker, workload) ==
    [worker EXCEPT
        !.avail = IF @ + workload.required > worker.total
                  THEN worker.total ELSE @ + workload.required,
        !.active = IF @ > 0 THEN @ - 1 ELSE @]

ReadWorker ==
    /\ sim.at = "read"
    /\ sim.workload.assigned \in DOMAIN workers
    /\ sim' = [sim EXCEPT
                  !.at = "computed",
                  !.worker = WorkerAfter(workers[sim.workload.assigned], sim.workload)]
    /\ UNCHANGED <<workers, workloads, active>>

\* The workload was taken off its worker: GetWorker("") fails, Run returns.
Abandon ==
    /\ sim.at = "read"
    /\ sim.workload.assigned \notin DOMAIN workers
    /\ sim' = [Resting EXCEPT !.at = "stopped"]
    /\ UNCHANGED <<workers, workloads, active>>

FreeWorker ==
    /\ sim.at = "computed"
    /\ UpdateWorker(sim.workload.assigned, sim.worker)
    /\ sim' = [sim EXCEPT !.at = "freed"]
    /\ UNCHANGED active

\* Mutated form of Complete: the completed workload is not stored.
CompleteUnsaved ==
    /\ sim.at = "freed"
    /\ active' = Without(active, sim.job)
    /\ sim' = [Resting EXCEPT !.due = sim.due \ {sim.job}]
    /\ UNCHANGED storeVars

\* The workload keeps its AssignedWorkerID.
Complete ==
    /\ sim.at = "freed"
    /\ UpdateWorkload(sim.job, [sim.workload EXCEPT !.state = "COMPLETED"])
    /\ active' = Without(active, sim.job)
    /\ sim' = [Resting EXCEPT !.due = sim.due \ {sim.job}]

SimulatorStep(t) ==
    \/ SendHeartbeat(t)
    \/ \E x \in Workloads : Forget(x) \/ ReadWorkload(x)
    \/ ReadWorker
    \/ Abandon
    \/ FreeWorker
    \/ Complete
-----------------------------------------------------------------------------
\* What the simulator holds while it works, for the type invariants of the
\* modules that run it.  The workloads it tracks or is about to complete exist.
SimulatorTypeOK ==
    /\ sim.at \in {"start", "loop", "read", "computed", "freed", "stopped"}
    /\ \A w \in DOMAIN sim.updates : sim.updates[w] \in WorkerType
    /\ sim.at \in {"read", "computed", "freed"} => sim.workload \in WorkloadType
    /\ sim.at \in {"computed", "freed"} => sim.worker \in WorkerType
    /\ sim.due \cup DOMAIN active \subseteq DOMAIN workloads
=============================================================================
