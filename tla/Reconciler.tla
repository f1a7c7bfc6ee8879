----------------------------- MODULE Reconciler -----------------------------
(***************************************************************************)
(* ReconcileCluster (internal/cluster/reconcile.go): one pass over a       *)
(* snapshot that marks workers by the age of their heartbeat and takes     *)
(* workloads off the workers found unhealthy.                              *)
(*                                                                         *)
(* The pass reads once and writes often: each UpdateWorker stores the      *)
(* snapshot's whole record with a new state, each ReleasePlacement is      *)
(* decided from the snapshot's workloads.  What a pass will do is settled  *)
(* when it starts; other clients run between its writes.                   *)
(***************************************************************************)
EXTENDS StateStore

CONSTANT Reconcilers   \* goroutines that call ReconcileCluster

VARIABLE recon   \* what is left of each reconciler's pass

NoPass == [updates |-> <<>>, releases |-> <<>>]

ReconcilerInit == recon = [r \in Reconcilers |-> NoPass]

\* Workers whose state differs from what their heartbeat says at time t, with
\* the record the pass will store.
HealthUpdates(t) ==
    LET health == [w \in DOMAIN workers |-> EvaluateWorkerHealth(workers[w], t)]
    IN  [w \in {v \in DOMAIN workers : health[v] # workers[v].state} |->
            [workers[w] EXCEPT !.state = health[w]]]

\* Mutated form of Affected: only workers newly found unhealthy count.
AffectedByNewFailures(t) ==
    {x \in DOMAIN workloads :
        /\ workloads[x].assigned \in DOMAIN workers
        /\ EvaluateWorkerHealth(workers[workloads[x].assigned], t) = "UNHEALTHY"
        /\ workers[workloads[x].assigned].state # "UNHEALTHY"
        /\ workloads[x].state \in PlacedStates}

\* Mutated form of Affected: workloads that do not run yet are forgotten.
AffectedRunning(t) ==
    {x \in DOMAIN workloads :
        /\ workloads[x].assigned \in DOMAIN workers
        /\ EvaluateWorkerHealth(workers[workloads[x].assigned], t) = "UNHEALTHY"
        /\ workloads[x].state = "RUNNING"}

\* Mutated form of Affected: a suspected worker counts as dead.
AffectedBySuspicion(t) ==
    {x \in DOMAIN workloads :
        /\ workloads[x].assigned \in DOMAIN workers
        /\ EvaluateWorkerHealth(workers[workloads[x].assigned], t)
              \in {"SUSPECTED", "UNHEALTHY"}
        /\ workloads[x].state \in PlacedStates}

\* Workloads placed on a worker that is unhealthy at time t.
Affected(t) ==
    {x \in DOMAIN workloads :
        /\ workloads[x].assigned \in DOMAIN workers
        /\ EvaluateWorkerHealth(workers[workloads[x].assigned], t) = "UNHEALTHY"
        /\ workloads[x].state \in PlacedStates}

AfterFailure(workload) ==
    IF workload.checkpointable THEN "RECOVERING" ELSE "FAILED"

\* All that a pass that starts at time t has to do.
PassAt(t) ==
    [updates  |-> HealthUpdates(t),
     releases |-> [x \in Affected(t) |-> AfterFailure(workloads[x])]]

StartReconcile(r, t) ==
    /\ recon[r] = NoPass
    /\ recon' = [recon EXCEPT ![r] = PassAt(t)]
    /\ UNCHANGED storeVars

\* Workers are visited in map order.  UpdateWorker cannot fail: the record was
\* stored before, hence is valid, and workers are never removed.
UpdateStep(r) ==
    \E w \in DOMAIN recon[r].updates :
        /\ UpdateWorker(w, recon[r].updates[w])
        /\ recon' = [recon EXCEPT ![r].updates = Without(@, w)]

\* Releases come after all updates.
ReleaseStep(r) ==
    /\ recon[r].updates = <<>>
    /\ \E x \in DOMAIN recon[r].releases :
          /\ ReleasePlacement(x, recon[r].releases[x])
          /\ recon' = [recon EXCEPT ![r].releases = Without(@, x)]

\* The workload was released by someone else: the pass ends with an error.
AbortStep(r) ==
    /\ recon[r].updates = <<>>
    /\ \E x \in DOMAIN recon[r].releases :
          ~ ReleaseAllowed(x, recon[r].releases[x])
    /\ recon' = [recon EXCEPT ![r] = NoPass]
    /\ UNCHANGED storeVars

ReconcileStep(r) == UpdateStep(r) \/ ReleaseStep(r) \/ AbortStep(r)
=============================================================================
