----------------------- MODULE ControlPlaneSerial_proofs -----------------------
(***************************************************************************)
(* Theorems about ControlPlane when operations take turns (SerialSpec),    *)
(* for any number of actors: what ConcurrentSpec does not keep, and what   *)
(* the components therefore owe to nobody coming between their calls.      *)
(***************************************************************************)
EXTENDS ControlPlane_proofs

(***************************************************************************)
(* The inductive invariant: at most one operation is under way, and what   *)
(* it has read still agrees with the store.                                *)
(***************************************************************************)
PlacersRest == \A p \in Placers : placer[p].at \in {"idle", "stopped"}

ReconcilersRest == \A r \in Reconcilers : recon[r] = NoPass

IngestorsRest == \A i \in Ingestors : ingest[i] = NoSample

SimulatorRests == sim = Resting \/ sim.at = "stopped"

\* What placer p has found out still holds: a commit would be accepted, and what
\* a loop has listed still waits.
PlacerAtWork(p) ==
    /\ \A q \in Placers \ {p} : placer[q].at \in {"idle", "stopped"}
    /\ ReconcilersRest /\ IngestorsRest /\ SimulatorRests
    /\ placer[p].at = "commit" =>
          CommitAllowed(placer[p].workload, placer[p].worker)
    /\ p \in Loops => \A x \in placer[p].todo : Schedulable(x)

\* What is left of a pass is what a pass that started now would do.
ReconcilerAtWork(r) ==
    /\ \A s \in Reconcilers \ {r} : recon[s] = NoPass
    /\ PlacersRest /\ IngestorsRest /\ SimulatorRests
    /\ recon[r] = PassAt(now)

\* The record to be stored is the stored one with a sample applied.
IngestorAtWork(i) ==
    /\ \A j \in Ingestors \ {i} : ingest[j] = NoSample
    /\ PlacersRest /\ ReconcilersRest /\ SimulatorRests
    /\ ingest[i].worker \in DOMAIN workers
    /\ \E sample \in Samples :
          ingest[i].record = AppliedSample(workers[ingest[i].worker], sample)

\* The simulator's copies are what is stored; the worker of a completion is what
\* is stored with the memory returned.
SimulatorAgrees ==
    /\ sim.at = "loop" =>
          \A w \in DOMAIN sim.updates :
              w \in DOMAIN workers /\ sim.updates[w] = workers[w]
    /\ sim.at \in {"read", "computed", "freed"} =>
          /\ sim.job \in DOMAIN workloads
          /\ sim.workload = workloads[sim.job]
          /\ sim.workload.state # "COMPLETED"
    /\ sim.at = "computed" =>
          /\ sim.workload.assigned \in DOMAIN workers
          /\ sim.worker = WorkerAfter(workers[sim.workload.assigned], sim.workload)

SimulatorAtWork ==
    PlacersRest /\ ReconcilersRest /\ IngestorsRest /\ SimulatorAgrees

InTurn ==
    \/ Quiet
    \/ \E p \in Placers : PlacerAtWork(p)
    \/ \E r \in Reconcilers : ReconcilerAtWork(r)
    \/ \E i \in Ingestors : IngestorAtWork(i)
    \/ SimulatorAtWork

TurnInv == CPInv /\ InTurn /\ LoopsKeepRunning

(***************************************************************************)
(* What a step does besides, for the action properties.                    *)
(***************************************************************************)
\* Memory that becomes free was held.
CapacityKept(w) ==
    workers'[w].avail > workers[w].avail =>
        workers'[w].avail + Cardinality(HeldMemory(w)')
            <= workers[w].avail + Cardinality(HeldMemory(w))

WorkersKept ==
    \A w \in DOMAIN workers :
        /\ workers[w].state = "DRAINING" => workers'[w].state = "DRAINING"
        /\ sim.at = "computed" \/ CapacityKept(w)

PassesClean ==
    \A r \in Reconcilers :
        recon[r] # NoPass /\ recon'[r] = NoPass =>
            /\ \A w \in DOMAIN workers' :
                  workers'[w].state = EvaluateWorkerHealth(workers'[w], now)
            /\ \A x \in DOMAIN workloads : ~ Orphan(x)'

ReleasesDue ==
    UNCHANGED recon \/
    \A x \in DOMAIN workloads :
        /\ workloads[x].state \in PlacedStates
        /\ workloads'[x].state \notin PlacedStates
        => EvaluateWorkerHealth(workers[workloads[x].assigned], now) = "UNHEALTHY"

StepKept == WorkersKept /\ PassesClean /\ ReleasesDue

-----------------------------------------------------------------------------
(***************************************************************************)
(* Who rests does not move.                                                *)
(***************************************************************************)
LEMMA QuietIs ==
    Quiet <=> PlacersRest /\ ReconcilersRest /\ IngestorsRest /\ SimulatorRests
  BY DEF Quiet, PlacersRest, ReconcilersRest, IngestorsRest, SimulatorRests

LEMMA PlacerStands ==
    ASSUME NEW p, placer[p].at \in {"idle", "stopped"}
    PROVE  ~ PlacerStep(p)
  BY DEF PlacerStep, Proceed, Choose, NoneEligible, Refuse, Commit, Conflict

LEMMA ReconcilerStands ==
    ASSUME NEW r, recon[r] = NoPass
    PROVE  ~ ReconcilerStep(r)
  <1>1. recon[r].updates = <<>> /\ recon[r].releases = <<>> BY DEF NoPass
  <1>2. DOMAIN recon[r].updates = {} /\ DOMAIN recon[r].releases = {} BY <1>1
  <1> QED
    BY <1>2 DEF ReconcilerStep, ReconcileStep, UpdateStep, ReleaseStep, AbortStep

LEMMA IngestorStands ==
    ASSUME NEW i, ingest[i] = NoSample
    PROVE  ~ IngestorStep(i)
  BY DEF IngestorStep, StoreSample

LEMMA SimulatorStands == SimulatorRests => ~ SimulatorProceeds
  <1>1. CASE sim.at = "stopped"
    BY <1>1
    DEF SimulatorProceeds, StartSimulator, SimulatorStep, SendHeartbeat, Forget,
        ReadWorkload, Due, ReadWorker, Abandon, FreeWorker, Complete
  <1>2. CASE sim = Resting
    <2>1. sim.at = "loop" /\ sim.due = {} /\ DOMAIN sim.updates = {}
      BY <1>2, RestingFields
    <2> QED
      BY <2>1
      DEF SimulatorProceeds, StartSimulator, SimulatorStep, SendHeartbeat, Forget,
          ReadWorkload, Due, ReadWorker, Abandon, FreeWorker, Complete
  <1> QED BY <1>1, <1>2 DEF SimulatorRests

\* While one actor works the step is its own, unless nothing is in progress.
LEMMA StepOfPlacer ==
    ASSUME NEW p \in Placers, PlacerAtWork(p), SerialNext, ~ Quiet
    PROVE  PlacerStep(p)
  BY PlacerStands, ReconcilerStands, IngestorStands, SimulatorStands
  DEF PlacerAtWork, ReconcilersRest, IngestorsRest, SerialNext, Continue

LEMMA StepOfReconciler ==
    ASSUME NEW r \in Reconcilers, ReconcilerAtWork(r), SerialNext, ~ Quiet
    PROVE  ReconcilerStep(r)
  BY PlacerStands, ReconcilerStands, IngestorStands, SimulatorStands
  DEF ReconcilerAtWork, PlacersRest, IngestorsRest, SerialNext, Continue

LEMMA StepOfIngestor ==
    ASSUME NEW i \in Ingestors, IngestorAtWork(i), SerialNext, ~ Quiet
    PROVE  IngestorStep(i)
  BY PlacerStands, ReconcilerStands, IngestorStands, SimulatorStands
  DEF IngestorAtWork, PlacersRest, ReconcilersRest, SerialNext, Continue

LEMMA StepOfSimulator ==
    ASSUME SimulatorAtWork, SerialNext, ~ Quiet
    PROVE  SimulatorProceeds
  BY PlacerStands, ReconcilerStands, IngestorStands
  DEF SimulatorAtWork, PlacersRest, ReconcilersRest, IngestorsRest, SerialNext,
      Continue

-----------------------------------------------------------------------------
(***************************************************************************)
(* What the calls of the store do to a worker's health and free memory.    *)
(***************************************************************************)
SameHealth(old, new) == new.state = old.state /\ new.heartbeat = old.heartbeat

LEMMA SameHealthEvaluates ==
    ASSUME NEW old, NEW new, SameHealth(old, new), NEW t
    PROVE  EvaluateWorkerHealth(new, t) = EvaluateWorkerHealth(old, t)
  BY DEF SameHealth, EvaluateWorkerHealth

LEMMA CommitHealth ==
    ASSUME StoreInv, NEW x \in Workloads, NEW w \in Workers,
           CommitPlacement(x, w), NEW v \in DOMAIN workers
    PROVE  SameHealth(workers[v], workers'[v])
  <1>1. w \in DOMAIN workers /\ workers[w] \in WorkerType
    BY DEF CommitPlacement, CommitAllowed, StoreInv, TypeOK
  <1>2. workers' = [workers EXCEPT ![w] = Debited(workers[w], workloads[x])]
    BY DEF CommitPlacement, Debited
  <1>3. SameHealth(workers[w], Debited(workers[w], workloads[x]))
    BY <1>1 DEF SameHealth, Debited, WorkerType
  <1> QED BY <1>1, <1>2, <1>3 DEF SameHealth

LEMMA ReleaseHealth ==
    ASSUME StoreInv, NEW x \in Workloads, NEW next \in ReleaseTargets,
           ReleasePlacement(x, next), NEW v \in DOMAIN workers
    PROVE  SameHealth(workers[v], workers'[v])
  <1> DEFINE w == workloads[x].assigned
             new == ReleasedWorker(workers[w], workloads[x])
  <1>1. w \in DOMAIN workers /\ workers[w] \in WorkerType
    BY DEF ReleasePlacement, ReleaseAllowed, HoldsReservation, StoreInv, TypeOK
  <1>2. workers' = [workers EXCEPT ![w] = new] BY DEF ReleasePlacement
  <1>3. SameHealth(workers[w], new)
    BY <1>1 DEF SameHealth, ReleasedWorker, WorkerType
  <1> HIDE DEF w, new
  <1> QED BY <1>1, <1>2, <1>3 DEF SameHealth

LEMMA CommitKeeps ==
    ASSUME StoreInv, NEW x \in Workloads, NEW w \in Workers, CommitPlacement(x, w)
    PROVE  WorkersKept
  <1>1. /\ \A v \in DOMAIN workers : v # w => workers'[v] = workers[v]
        /\ x \in DOMAIN workloads /\ w \in DOMAIN workers
        /\ workers'[w].avail = workers[w].avail - workloads[x].required
    BY CommitFields
  <1>2. /\ workloads[x].required \in Nat
        /\ \A v \in DOMAIN workers : workers[v].avail \in Nat
    BY <1>1, PlacedAlways, WorkerNumbers
  <1>3. ASSUME NEW v \in DOMAIN workers
        PROVE  ~ workers'[v].avail > workers[v].avail
    BY <1>1, <1>2
  <1>4. \A v \in DOMAIN workers : workers'[v].state = workers[v].state
    BY CommitHealth DEF SameHealth
  <1> QED BY <1>3, <1>4 DEF WorkersKept, CapacityKept

LEMMA ReleaseKeeps ==
    ASSUME StoreInv, NEW x \in Workloads, NEW next \in ReleaseTargets,
           ReleasePlacement(x, next)
    PROVE  WorkersKept
  <1> DEFINE r == workloads[x].required
             block == {x} \X (1 .. r)
  <1>0. PICK w \in Workers : w = workloads[x].assigned
    BY ReleaseFields DEF StoreInv, TypeOK
  <1>1. /\ x \in DOMAIN workloads /\ w \in DOMAIN workers
        /\ \A v \in DOMAIN workers : v # w => workers'[v] = workers[v]
        /\ workers'[w].avail = IF r > workers[w].total - workers[w].avail
                               THEN workers[w].total ELSE workers[w].avail + r
    BY <1>0, ReleaseFields
  <1>2. r \in Nat BY <1>1, PlacedAlways
  <1>3. /\ workers[w].total \in Nat /\ workers[w].avail \in Nat
        /\ Cardinality(HeldMemory(w)) \in Nat
    BY <1>1, WorkerNumbers
  <1>4. workers'[w].avail <= workers[w].avail + r BY <1>1, <1>2, <1>3
  <1>5. block \subseteq HeldMemory(w) /\ HeldMemory(w)' = HeldMemory(w) \ block
    BY <1>0, ReleaseHeld
  <1>6. IsFiniteSet(block) /\ Cardinality(block) = r BY <1>2, BlockSize
  <1>7. IsFiniteSet(HeldMemory(w)) BY HeldFinite
  <1>8. Cardinality(HeldMemory(w)') = Cardinality(HeldMemory(w)) - r
    <2> HIDE DEF block
    <2> QED BY <1>5, <1>6, <1>7, RemoveBlock
  <1>9. \A v \in DOMAIN workers : v # w => workers'[v].avail = workers[v].avail
    BY <1>1
  <1>10. \A v \in DOMAIN workers : workers[v].avail \in Nat BY WorkerNumbers
  <1>11. \A v \in DOMAIN workers : workers'[v].state = workers[v].state
    BY ReleaseHealth DEF SameHealth
  <1>12. workers'[w].avail \in Nat BY <1>1, <1>2, <1>3
  <1>13. CapacityKept(w) BY <1>2, <1>3, <1>4, <1>8, <1>12 DEF CapacityKept
  <1>14. ASSUME NEW v \in DOMAIN workers, v # w PROVE CapacityKept(v)
    BY <1>9, <1>10, <1>14 DEF CapacityKept
  <1> QED BY <1>11, <1>13, <1>14 DEF WorkersKept

LEMMA StoredKeeps ==
    ASSUME StoreInv, NEW w \in DOMAIN workers, NEW record, UpdateWorker(w, record),
           workers[w].state = "DRAINING" => record.state = "DRAINING",
           \/ sim.at = "computed"
           \/ record.avail \in Nat /\ record.avail <= workers[w].avail
    PROVE  WorkersKept
  <1>1. /\ workers'[w] = record
        /\ \A v \in DOMAIN workers : v # w => workers'[v] = workers[v]
    BY DEF UpdateWorker, Put
  <1>2. \A v \in DOMAIN workers : workers[v].avail \in Nat BY WorkerNumbers
  <1>3. ASSUME NEW v \in DOMAIN workers
        PROVE  sim.at = "computed" \/ ~ workers'[v].avail > workers[v].avail
    BY <1>1, <1>2
  <1>4. ASSUME NEW v \in DOMAIN workers, workers[v].state = "DRAINING"
        PROVE  workers'[v].state = "DRAINING"
    BY <1>1, <1>4
  <1> QED BY <1>3, <1>4 DEF WorkersKept, CapacityKept

LEMMA SameWorkersKeep ==
    ASSUME StoreInv, \A w \in DOMAIN workers : workers'[w] = workers[w]
    PROVE  WorkersKept
  <1>1. \A w \in DOMAIN workers : workers[w].avail \in Nat BY WorkerNumbers
  <1> QED BY <1>1 DEF WorkersKept, CapacityKept

\* A step that leaves all passes alone is not one of reconciliation.
LEMMA NoReconciliation ==
    UNCHANGED recon => PassesClean /\ ReleasesDue
  BY DEF PassesClean, ReleasesDue

-----------------------------------------------------------------------------
(***************************************************************************)
(* A placer at work.                                                       *)
(***************************************************************************)
LEMMA RestStays ==
    /\ PlacersRest /\ UNCHANGED placer => PlacersRest'
    /\ ReconcilersRest /\ UNCHANGED recon => ReconcilersRest'
    /\ IngestorsRest /\ UNCHANGED ingest => IngestorsRest'
    /\ SimulatorRests /\ UNCHANGED sim => SimulatorRests'
  BY DEF PlacersRest, ReconcilersRest, IngestorsRest, SimulatorRests

LEMMA LoopsStay == LoopsKeepRunning /\ UNCHANGED placer => LoopsKeepRunning'
  BY DEF LoopsKeepRunning, Stopped

LEMMA DoneFields ==
    ASSUME NEW p, NEW x
    PROVE  /\ Done(p, x).at \in {"idle", "pass"}
           /\ Done(p, x).todo \subseteq placer[p].todo \ {x}
  BY DEF Done, Idle

\* After a commit, what else waited still waits.
LEMMA OthersWait ==
    ASSUME StoreInv, NEW x \in Workloads, NEW w \in Workers, CommitPlacement(x, w),
           NEW y, y # x, Schedulable(y)
    PROVE  Schedulable(y)'
  BY CommitFields DEF Schedulable

LEMMA PlacerTurn ==
    ASSUME CPInv, LoopsKeepRunning, NEW p \in Placers, PlacerAtWork(p), PlacerStep(p)
    PROVE  PlacerAtWork(p)' /\ LoopsKeepRunning' /\ StepKept
  <1>0. /\ StoreInv /\ placer \in [Placers -> PlacerType]
        /\ UNCHANGED <<recon, ingest, sim, now>> /\ Proceed(p)
    BY DEF CPInv, ActorsOK, PlacerOK, PlacerStep
  <1>1. ReconcilersRest' /\ IngestorsRest' /\ SimulatorRests'
    BY <1>0, RestStays DEF PlacerAtWork
  <1>2. ASSUME NEW new, placer' = [placer EXCEPT ![p] = new],
               new.at \in {"idle", "pass"} \/ (new.at = "commit" /\
                   CommitAllowed(new.workload, new.worker)'),
               p \in Loops => \A x \in new.todo : Schedulable(x)'
        PROVE  PlacerAtWork(p)' /\ LoopsKeepRunning'
    <2>1. placer'[p] = new /\ \A q \in Placers \ {p} : placer'[q] = placer[q]
      BY <1>0, <1>2
    <2>2. PlacerAtWork(p)' BY <1>1, <1>2, <2>1 DEF PlacerAtWork, CommitAllowed
    <2>3. LoopsKeepRunning'
      BY <1>2, <2>1 DEF LoopsKeepRunning, Stopped, Placers
    <2> QED BY <2>2, <2>3
  <1>3. PassesClean /\ ReleasesDue BY <1>0, NoReconciliation
  <1>4. CASE \E x \in Workloads : Choose(p, x)
    <2>1. PICK x, w :
              /\ x \in Workloads /\ w \in Eligible(x) /\ Schedulable(x) /\ UNCHANGED storeVars
              /\ placer' = [placer EXCEPT ![p].at = "commit",
                                          ![p].workload = x, ![p].worker = w]
      BY <1>4 DEF Choose
    <2>2. PICK new :
              /\ new = [placer[p] EXCEPT !.at = "commit", !.workload = x, !.worker = w]
              /\ placer' = [placer EXCEPT ![p] = new]
      BY <2>1
    <2>3. /\ new.at = "commit" /\ new.workload = x /\ new.worker = w
          /\ new.todo = placer[p].todo
      BY <1>0, <2>2 DEF PlacerType
    <2>4. CommitAllowed(x, w)'
      BY <2>1 DEF CommitAllowed, Schedulable, Eligible, storeVars
    <2>5. p \in Loops => \A y \in new.todo : Schedulable(y)'
      BY <2>1, <2>3 DEF PlacerAtWork, Schedulable, storeVars
    <2>6. CommitAllowed(new.workload, new.worker)'
      BY <2>3, <2>4 DEF CommitAllowed
    <2>7. WorkersKept BY <1>0, <2>1, SameWorkersKeep DEF storeVars
    <2> QED BY <1>2, <1>3, <2>2, <2>3, <2>5, <2>6, <2>7 DEF StepKept
  <1>5. CASE \E x \in Workloads : NoneEligible(p, x)
    <2>1. PICK x \in Workloads : UNCHANGED storeVars
                                 /\ placer' = [placer EXCEPT ![p] = Done(p, x)]
      BY <1>5 DEF NoneEligible
    <2>2. p \in Loops => \A y \in Done(p, x).todo : Schedulable(y)'
      BY <2>1, DoneFields DEF PlacerAtWork, Schedulable, storeVars
    <2>3. WorkersKept BY <1>0, <2>1, SameWorkersKeep DEF storeVars
    <2> QED BY <1>2, <1>3, <2>1, <2>2, <2>3, DoneFields DEF StepKept
  <1>6. CASE \E x \in Workloads : Refuse(p, x)
    <2>1. PICK x \in Workloads :
              /\ x \in placer[p].todo /\ ~ Schedulable(x) /\ UNCHANGED storeVars
              /\ placer' = [placer EXCEPT ![p] = Failed(p)]
      BY <1>6 DEF Refuse
    <2>2. p \notin Loops BY <2>1 DEF PlacerAtWork
    <2>3. Failed(p).at = "idle" BY <2>2 DEF Failed, Idle
    <2>4. WorkersKept BY <1>0, <2>1, SameWorkersKeep DEF storeVars
    <2> QED BY <1>2, <1>3, <2>1, <2>2, <2>3, <2>4 DEF StepKept
  <1>7. CASE Commit(p)
    <2>1. PICK x \in Workloads, w \in Workers :
              /\ x = placer[p].workload /\ CommitPlacement(x, w)
              /\ placer' = [placer EXCEPT ![p] = Done(p, x)]
      BY <1>0, <1>7, StoredTypes DEF Commit, CommitPlacement, CommitAllowed
    <2>2. p \in Loops => \A y \in Done(p, x).todo : Schedulable(y)'
      BY <1>0, <2>1, DoneFields, OthersWait DEF PlacerAtWork
    <2>3. WorkersKept BY <1>0, <2>1, CommitKeeps
    <2> QED BY <1>2, <1>3, <2>1, <2>2, <2>3, DoneFields DEF StepKept
  <1>8. ~ Conflict(p) BY DEF Conflict, PlacerAtWork
  <1> QED BY <1>0, <1>4, <1>5, <1>6, <1>7, <1>8 DEF Proceed

-----------------------------------------------------------------------------
(***************************************************************************)
(* A reconciler at work: each write takes exactly itself off what a pass   *)
(* that starts now would do.                                               *)
(***************************************************************************)
LEMMA MarkedHealth ==
    ASSUME NEW worker \in WorkerType, NEW t,
           EvaluateWorkerHealth(worker, t) # worker.state
    PROVE  LET marked == [worker EXCEPT !.state = EvaluateWorkerHealth(worker, t)]
           IN  /\ worker.state # "DRAINING"
               /\ marked.state = EvaluateWorkerHealth(worker, t)
               /\ marked.avail = worker.avail
               /\ EvaluateWorkerHealth(marked, t) = EvaluateWorkerHealth(worker, t)
  <1> DEFINE h == EvaluateWorkerHealth(worker, t)
             marked == [worker EXCEPT !.state = h]
  <1>1. worker.state # "DRAINING" BY DEF EvaluateWorkerHealth
  <1>2. h # "DRAINING" BY <1>1 DEF EvaluateWorkerHealth
  <1>3. /\ marked.state = h /\ marked.heartbeat = worker.heartbeat
        /\ marked.avail = worker.avail
    <2> HIDE DEF h
    <2> QED BY DEF WorkerType
  <1>4. EvaluateWorkerHealth(marked, t) = h
    <2> HIDE DEF marked
    <2> QED BY <1>1, <1>2, <1>3 DEF EvaluateWorkerHealth
  <1> QED BY <1>1, <1>3, <1>4

LEMMA UpdateShortensPass ==
    ASSUME StoreInv, NEW t, NEW w \in DOMAIN HealthUpdates(t),
           UpdateWorker(w, HealthUpdates(t)[w])
    PROVE  /\ HealthUpdates(t)' = Without(HealthUpdates(t), w)
           /\ Affected(t)' = Affected(t)
           /\ WorkersKept
  <1>1. /\ w \in DOMAIN workers
        /\ EvaluateWorkerHealth(workers[w], t) # workers[w].state
        /\ HealthUpdates(t)[w] =
              [workers[w] EXCEPT !.state = EvaluateWorkerHealth(workers[w], t)]
    BY DEF HealthUpdates
  <1>2. workers[w] \in WorkerType BY <1>1, StoredTypes
  <1>3. PICK marked : marked = HealthUpdates(t)[w] OBVIOUS
  <1>4. /\ workers[w].state # "DRAINING"
        /\ marked.state = EvaluateWorkerHealth(workers[w], t)
        /\ marked.avail = workers[w].avail
        /\ EvaluateWorkerHealth(marked, t) = EvaluateWorkerHealth(workers[w], t)
    BY <1>1, <1>2, <1>3, MarkedHealth
  <1>5. /\ DOMAIN workers' = DOMAIN workers /\ workers'[w] = marked
        /\ \A v \in DOMAIN workers : v # w => workers'[v] = workers[v]
        /\ workloads' = workloads
    BY <1>1, <1>3 DEF UpdateWorker, Put
  <1>6. \A v \in DOMAIN workers :
            EvaluateWorkerHealth(workers'[v], t) = EvaluateWorkerHealth(workers[v], t)
    BY <1>4, <1>5
  <1>7. HealthUpdates(t)' = Without(HealthUpdates(t), w)
    BY <1>4, <1>5, <1>6 DEF HealthUpdates, Without
  <1>8. Affected(t)' = Affected(t)
    BY <1>5, <1>6 DEF Affected
  <1>9. workers[w].avail \in Nat BY <1>2 DEF WorkerType
  <1>10. WorkersKept
    <2>1. UpdateWorker(w, marked) BY <1>3, Zenon
    <2>2. marked.avail \in Nat /\ marked.avail <= workers[w].avail BY <1>4, <1>9
    <2> QED BY <1>1, <1>4, <2>1, <2>2, StoredKeeps
  <1> QED BY <1>7, <1>8, <1>10

LEMMA ReleaseShortensPass ==
    ASSUME StoreInv, NEW t, HealthUpdates(t) = <<>>, NEW x \in Affected(t),
           ReleasePlacement(x, AfterFailure(workloads[x]))
    PROVE  /\ HealthUpdates(t)' = <<>>
           /\ Affected(t)' = Affected(t) \ {x}
           /\ \A y \in Affected(t)' : workloads'[y] = workloads[y]
           /\ WorkersKept
           /\ \A y \in DOMAIN workloads : y # x => workloads'[y] = workloads[y]
  <1>1. PICK next \in ReleaseTargets : ReleasePlacement(x, next)
    BY DEF AfterFailure, ReleaseTargets
  <1>2. x \in Workloads BY DEF Affected, StoreInv, TypeOK
  <1>3. /\ DOMAIN workers' = DOMAIN workers /\ DOMAIN workloads' = DOMAIN workloads
        /\ \A y \in DOMAIN workloads : y # x => workloads'[y] = workloads[y]
        /\ workloads'[x].state = next
    BY <1>1, <1>2, ReleaseFields
  <1>4. \A v \in DOMAIN workers : SameHealth(workers[v], workers'[v])
    BY <1>1, <1>2, ReleaseHealth
  <1>5. \A v \in DOMAIN workers :
            EvaluateWorkerHealth(workers'[v], t) = EvaluateWorkerHealth(workers[v], t)
    BY <1>4, SameHealthEvaluates
  <1>6. DOMAIN HealthUpdates(t) = {} OBVIOUS
  <1>7. \A v \in DOMAIN workers :
            EvaluateWorkerHealth(workers'[v], t) = workers'[v].state
    BY <1>4, <1>5, <1>6 DEF HealthUpdates, SameHealth
  <1>8. HealthUpdates(t)' = <<>>
    <2>1. DOMAIN HealthUpdates(t)' = {} BY <1>3, <1>7 DEF HealthUpdates
    <2> QED BY <2>1, <1>6 DEF HealthUpdates
  <1>9. \A v \in DOMAIN workers : workers'[v] \in {workers'[v]} OBVIOUS
  <1>10. next \notin PlacedStates BY DEF ReleaseTargets, PlacedStates
  <1>11. Affected(t)' = Affected(t) \ {x}
    BY <1>3, <1>5, <1>10 DEF Affected
  <1>12. \A y \in Affected(t)' : workloads'[y] = workloads[y]
    BY <1>3, <1>11 DEF Affected
  <1>13. WorkersKept BY <1>1, <1>2, ReleaseKeeps
  <1> QED BY <1>3, <1>8, <1>11, <1>12, <1>13

ClusterClean ==
    /\ \A w \in DOMAIN workers :
          workers[w].state = EvaluateWorkerHealth(workers[w], now)
    /\ \A x \in DOMAIN workloads : ~ Orphan(x)

LEMMA NothingLeftIsClean ==
    PlacedSomewhere /\ PassAt(now) = NoPass => ClusterClean
  <1> SUFFICES ASSUME PlacedSomewhere, PassAt(now) = NoPass PROVE ClusterClean
    OBVIOUS
  <1>1. HealthUpdates(now) = <<>>
        /\ [x \in Affected(now) |-> AfterFailure(workloads[x])] = <<>>
    BY DEF PassAt, NoPass
  <1>2. DOMAIN HealthUpdates(now) = {} /\ Affected(now) = {} BY <1>1
  <1> QED
    BY <1>2 DEF HealthUpdates, Affected, ClusterClean, Orphan, PlacedSomewhere

LEMMA ReconcilerTurn ==
    ASSUME CPInv, CPInv', LoopsKeepRunning,
           NEW r \in Reconcilers, ReconcilerAtWork(r), ReconcilerStep(r)
    PROVE  ReconcilerAtWork(r)' /\ LoopsKeepRunning' /\ StepKept
  <1>0. /\ StoreInv /\ DOMAIN recon = Reconcilers
        /\ UNCHANGED <<placer, ingest, sim, now>> /\ ReconcileStep(r)
    BY DEF CPInv, ActorsOK, ReconOK, ReconcilerStep
  <1>1. PlacersRest' /\ IngestorsRest' /\ SimulatorRests' /\ LoopsKeepRunning'
    BY <1>0, RestStays, LoopsStay DEF ReconcilerAtWork
  <1>2. PICK t : t = now OBVIOUS
  <1>3. /\ recon[r].updates = HealthUpdates(t)
        /\ recon[r].releases = [x \in Affected(t) |-> AfterFailure(workloads[x])]
        /\ DOMAIN recon[r] = {"updates", "releases"}
    BY <1>2 DEF ReconcilerAtWork, PassAt
  <1>4. ASSUME recon' = [recon EXCEPT ![r] = PassAt(t)'] 
        PROVE  ReconcilerAtWork(r)' /\ PassesClean
    <2>1. /\ recon'[r] = PassAt(now)'
          /\ \A s \in Reconcilers \ {r} : recon'[s] = recon[s]
      BY <1>0, <1>2, <1>4
    <2>2. ReconcilerAtWork(r)' BY <1>1, <2>1 DEF ReconcilerAtWork
    <2>3. (PlacedSomewhere /\ PassAt(now) = NoPass => ClusterClean)'
      BY NothingLeftIsClean, PTL
    <2>4. recon'[r] = NoPass => ClusterClean' BY <2>1, <2>3 DEF CPInv
    <2>5. DOMAIN workloads \subseteq DOMAIN workloads'
      BY <1>0, StepCPInv DEF ConcurrentNext, Continue, StoreStep
    <2>6. PassesClean
      BY <1>0, <2>1, <2>4, <2>5 DEF PassesClean, ClusterClean, ReconcilerAtWork
    <2> QED BY <2>2, <2>6
  <1>5. CASE UpdateStep(r)
    <2>1. PICK w \in DOMAIN HealthUpdates(t) :
              /\ UpdateWorker(w, HealthUpdates(t)[w])
              /\ recon' = [recon EXCEPT ![r].updates = Without(@, w)]
      BY <1>3, <1>5 DEF UpdateStep
    <2>2. /\ HealthUpdates(t)' = Without(HealthUpdates(t), w)
          /\ Affected(t)' = Affected(t) /\ WorkersKept
      BY <1>0, <2>1, UpdateShortensPass
    <2>3. workloads' = workloads BY <2>1 DEF UpdateWorker
    <2>4. recon' = [recon EXCEPT ![r] = PassAt(t)']
      <3>1. PassAt(t)' = [updates  |-> Without(recon[r].updates, w),
                          releases |-> recon[r].releases]
        BY <1>3, <2>2, <2>3 DEF PassAt
      <3>2. recon[r] = [updates  |-> recon[r].updates,
                        releases |-> recon[r].releases]
        BY <1>2, <1>3 DEF ReconcilerAtWork, PassAt
      <3>3. [recon[r] EXCEPT !.updates = Without(recon[r].updates, w)] =
               [updates  |-> Without(recon[r].updates, w),
                releases |-> recon[r].releases]
        BY <3>2
      <3>4. recon' = [recon EXCEPT ![r] =
                         [recon[r] EXCEPT !.updates = Without(recon[r].updates, w)]]
        BY <2>1
      <3> QED BY <3>1, <3>3, <3>4, Zenon
    <2>5. ReleasesDue BY <2>3 DEF ReleasesDue
    <2> QED BY <1>1, <1>4, <2>2, <2>4, <2>5 DEF StepKept
  <1>6. CASE ReleaseStep(r)
    <2>0. PICK x \in DOMAIN recon[r].releases :
              /\ recon[r].updates = <<>>
              /\ ReleasePlacement(x, recon[r].releases[x])
              /\ recon' = [recon EXCEPT ![r].releases = Without(@, x)]
      BY <1>6 DEF ReleaseStep
    <2>1. /\ x \in Affected(t) /\ HealthUpdates(t) = <<>>
          /\ ReleasePlacement(x, AfterFailure(workloads[x]))
      <3>1. x \in Affected(t) /\ recon[r].releases[x] = AfterFailure(workloads[x])
        BY <1>3
      <3> QED BY <1>3, <2>0, <3>1
    <2>2. /\ HealthUpdates(t)' = <<>>
          /\ Affected(t)' = Affected(t) \ {x}
          /\ \A y \in Affected(t)' : workloads'[y] = workloads[y]
          /\ \A y \in DOMAIN workloads : y # x => workloads'[y] = workloads[y]
          /\ WorkersKept
      BY <1>0, <2>1, ReleaseShortensPass
    <2>3. Without(recon[r].releases, x) =
              [y \in Affected(t)' |-> AfterFailure(workloads'[y])]
      BY <1>3, <2>2 DEF Without
    <2>4. recon' = [recon EXCEPT ![r] = PassAt(t)']
      <3>1. PassAt(t)' = [updates  |-> recon[r].updates,
                          releases |-> Without(recon[r].releases, x)]
        BY <1>3, <2>1, <2>2, <2>3 DEF PassAt
      <3>2. recon[r] = [updates  |-> recon[r].updates,
                        releases |-> recon[r].releases]
        BY <1>2, <1>3 DEF ReconcilerAtWork, PassAt
      <3>3. [recon[r] EXCEPT !.releases = Without(recon[r].releases, x)] =
               [updates  |-> recon[r].updates,
                releases |-> Without(recon[r].releases, x)]
        BY <3>2
      <3>4. recon' = [recon EXCEPT ![r] =
                         [recon[r] EXCEPT !.releases = Without(recon[r].releases, x)]]
        BY <2>0
      <3> QED BY <3>1, <3>3, <3>4, Zenon
    <2>5. ReleasesDue BY <1>2, <2>1, <2>2 DEF ReleasesDue, Affected
    <2> QED BY <1>1, <1>4, <2>2, <2>4, <2>5 DEF StepKept
  <1>7. ~ AbortStep(r)
    <2> SUFFICES ASSUME NEW x \in Affected(t)
                 PROVE  ReleaseAllowed(x, AfterFailure(workloads[x]))
      BY <1>3 DEF AbortStep
    <2>1. x \in Workloads /\ HoldsReservation(x)
      BY <1>0, StoredTypes DEF Affected, HoldsReservation
    <2>2. AfterFailure(workloads[x]) \in ReleaseTargets
      BY DEF AfterFailure, ReleaseTargets
    <2> QED BY <1>0, <2>1, <2>2, ReleaseRecords DEF ReleaseAllowed
  <1> QED BY <1>0, <1>5, <1>6, <1>7 DEF ReconcileStep

-----------------------------------------------------------------------------
(***************************************************************************)
(* An ingestor and the simulator at work.                                  *)
(***************************************************************************)
LEMMA AppliedFields ==
    ASSUME NEW worker \in WorkerType, NEW sample \in SampleType
    PROVE  LET new == AppliedSample(worker, sample)
           IN  /\ new.state = worker.state /\ new.active = worker.active
               /\ new.avail \in Nat /\ new.avail <= worker.avail
               /\ new.total = sample.total
  BY DEF AppliedSample, WorkerType, SampleType

LEMMA IngestorTurn ==
    ASSUME CPInv, LoopsKeepRunning,
           NEW i \in Ingestors, IngestorAtWork(i), IngestorStep(i)
    PROVE  Quiet' /\ LoopsKeepRunning' /\ StepKept
  <1>0. /\ StoreInv /\ DOMAIN ingest = Ingestors
        /\ UNCHANGED <<placer, recon, sim>> /\ StoreSample(i)
    BY DEF CPInv, ActorsOK, IngestOK, IngestorStep
  <1>1. PlacersRest' /\ ReconcilersRest' /\ SimulatorRests' /\ LoopsKeepRunning'
    BY <1>0, RestStays, LoopsStay DEF IngestorAtWork
  <1>2. IngestorsRest' BY <1>0 DEF StoreSample, IngestorAtWork, IngestorsRest
  <1>3. Quiet' BY <1>1, <1>2, QuietIs, PTL
  <1>4. PICK sample \in Samples :
            ingest[i].record = AppliedSample(workers[ingest[i].worker], sample)
    BY DEF IngestorAtWork
  <1>5. PICK w, record : w = ingest[i].worker /\ record = ingest[i].record
    OBVIOUS
  <1>6. /\ w \in DOMAIN workers
        /\ UpdateWorker(w, record)
        /\ record = AppliedSample(workers[w], sample)
    BY <1>0, <1>4, <1>5 DEF StoreSample, IngestorAtWork
  <1>7. workers[w] \in WorkerType /\ sample \in SampleType
    BY <1>0, <1>6, StoredTypes, SamplesAssumption
  <1>8. /\ record.state = workers[w].state
        /\ record.avail \in Nat /\ record.avail <= workers[w].avail
    BY <1>6, <1>7, AppliedFields
  <1>9. WorkersKept BY <1>0, <1>6, <1>8, StoredKeeps
  <1> QED BY <1>0, <1>1, <1>3, <1>9, NoReconciliation DEF StepKept

LEMMA HeartbeatFields ==
    ASSUME NEW worker \in WorkerType, NEW t
    PROVE  LET new == [worker EXCEPT !.heartbeat = t]
           IN  /\ new.state = worker.state /\ new.total = worker.total
               /\ new.avail = worker.avail /\ new.active = worker.active
  BY DEF WorkerType

\* A completion stores the worker as it is, with the memory returned.
LEMMA FreedWorker ==
    ASSUME CPInv, SimulatorAgrees, FreeWorker
    PROVE  LET w == sim.workload.assigned
               new == WorkerAfter(workers[w], workloads[sim.job])
           IN  /\ sim.at = "computed" /\ w \in DOMAIN workers
               /\ workers[w] \in WorkerType
               /\ sim.job \in DOMAIN workloads /\ sim.workload = workloads[sim.job]
               /\ workloads[sim.job] \in WorkloadType
               /\ UpdateWorker(w, new)
  BY StoredTypes DEF FreeWorker, SimulatorAgrees, CPInv

LEMMA SimulatorKeeps ==
    ASSUME CPInv, SimulatorAgrees, SimulatorProceeds
    PROVE  WorkersKept
  <1>0. StoreInv BY DEF CPInv
  <1>1. CASE UNCHANGED workers BY <1>0, <1>1, SameWorkersKeep
  <1>2. CASE SendHeartbeat(now)
    <2>1. PICK w \in DOMAIN sim.updates :
              UpdateWorker(w, [sim.updates[w] EXCEPT !.heartbeat = now])
      BY <1>2 DEF SendHeartbeat
    <2>2. w \in DOMAIN workers /\ sim.updates[w] = workers[w]
      BY <1>2 DEF SendHeartbeat, SimulatorAgrees
    <2>3. PICK record :
              /\ UpdateWorker(w, record)
              /\ record = [workers[w] EXCEPT !.heartbeat = now]
      BY <2>1, <2>2
    <2>4. workers[w] \in WorkerType /\ workers[w].avail \in Nat
      BY <1>0, <2>2, StoredTypes, WorkerNumbers
    <2>5. record.state = workers[w].state /\ record.avail = workers[w].avail
      BY <2>3, <2>4, HeartbeatFields
    <2>6. record.avail \in Nat /\ record.avail <= workers[w].avail BY <2>4, <2>5
    <2> QED BY <1>0, <2>2, <2>3, <2>5, <2>6, StoredKeeps
  <1>3. CASE FreeWorker
    <2>1. PICK w, record :
              /\ w \in DOMAIN workers
              /\ UpdateWorker(w, record)
              /\ record = WorkerAfter(workers[w], workloads[sim.job])
              /\ sim.at = "computed" /\ workers[w] \in WorkerType
              /\ workloads[sim.job] \in WorkloadType
      BY <1>3, FreedWorker
    <2>2. record.state = workers[w].state BY <2>1, WorkerAfterFields
    <2> QED BY <1>0, <2>1, <2>2, StoredKeeps
  <1> QED
    BY <1>1, <1>2, <1>3
    DEF SimulatorProceeds, StartSimulator, SimulatorStep, Forget, ReadWorkload,
        ReadWorker, Abandon, Complete, UpdateWorkload, storeVars

LEMMA SimulatorStillAgrees ==
    ASSUME CPInv, SimulatorAgrees, SimulatorProceeds
    PROVE  SimulatorAgrees'
  <1>0. DOMAIN sim = SimFields /\ sim.due \subseteq DOMAIN workloads
    BY DEF CPInv, ActorsOK, SimOK, SimulatorTypeOK
  <1>1. CASE StartSimulator
    <2>1. sim'.at = "loop" /\ DOMAIN sim'.updates = {}
      BY <1>1, RestingFields DEF StartSimulator
    <2> QED BY <2>1 DEF SimulatorAgrees
  <1>2. CASE SendHeartbeat(now)
    <2>1. PICK w, record :
              /\ w \in DOMAIN sim.updates
              /\ UpdateWorker(w, record)
              /\ sim' = [sim EXCEPT !.updates = Without(@, w)]
      BY <1>2 DEF SendHeartbeat
    <2>2. sim'.at = "loop" /\ sim'.updates = Without(sim.updates, w)
      BY <1>0, <1>2, <2>1 DEF SendHeartbeat, SimFields
    <2>3. ASSUME NEW v \in DOMAIN sim'.updates
          PROVE  v \in DOMAIN workers' /\ sim'.updates[v] = workers'[v]
      BY <1>2, <2>1, <2>2 DEF SendHeartbeat, Without, UpdateWorker, Put, SimulatorAgrees
    <2> QED BY <2>2, <2>3 DEF SimulatorAgrees
  <1>3. CASE \E x \in Workloads : Forget(x)
    <2>1. /\ sim'.at = "loop" /\ sim'.updates = sim.updates /\ sim.at = "loop"
          /\ UNCHANGED workers
      BY <1>0, <1>3 DEF Forget, Due, SimFields, storeVars
    <2> QED BY <2>1 DEF SimulatorAgrees
  <1>4. CASE \E x \in Workloads : ReadWorkload(x)
    <2>1. PICK x \in Workloads : ReadWorkload(x) BY <1>4
    <2>2. /\ sim'.at = "read" /\ sim'.job = x /\ sim'.workload = workloads[x]
          /\ x \in DOMAIN workloads /\ workloads[x].state # "COMPLETED"
          /\ UNCHANGED workloads
      BY <1>0, <2>1 DEF ReadWorkload, Due, SimFields
    <2> QED BY <2>2 DEF SimulatorAgrees
  <1>5. CASE ReadWorker
    <2>1. /\ sim.at = "read" /\ sim'.at = "computed"
          /\ sim'.job = sim.job /\ sim'.workload = sim.workload
          /\ sim'.worker = WorkerAfter(workers[sim.workload.assigned], sim.workload)
          /\ sim.workload.assigned \in DOMAIN workers
          /\ UNCHANGED <<workers, workloads>>
      BY <1>0, <1>5 DEF ReadWorker, SimFields
    <2> QED BY <2>1 DEF SimulatorAgrees
  <1>6. CASE Abandon
    <2>1. sim'.at = "stopped" BY <1>6 DEF Abandon, Resting
    <2> QED BY <2>1 DEF SimulatorAgrees
  <1>7. CASE FreeWorker
    <2>1. /\ sim.at = "computed" /\ sim'.at = "freed"
          /\ sim'.job = sim.job /\ sim'.workload = sim.workload
          /\ UNCHANGED workloads
      BY <1>0, <1>7 DEF FreeWorker, UpdateWorker, SimFields
    <2> QED BY <2>1 DEF SimulatorAgrees
  <1>8. CASE Complete
    <2>1. sim'.at = "loop" /\ DOMAIN sim'.updates = {}
      BY <1>8, RestingFields DEF Complete, SimFields
    <2> QED BY <2>1 DEF SimulatorAgrees
  <1> QED
    BY <1>1, <1>2, <1>3, <1>4, <1>5, <1>6, <1>7, <1>8
    DEF SimulatorProceeds, SimulatorStep

LEMMA SimulatorTurn ==
    ASSUME CPInv, LoopsKeepRunning, SimulatorAtWork, SimulatorProceeds
    PROVE  SimulatorAtWork' /\ LoopsKeepRunning' /\ StepKept
  <1>1. UNCHANGED <<placer, recon, ingest>> BY DEF SimulatorProceeds
  <1>2. SimulatorAgrees' /\ WorkersKept
    BY SimulatorStillAgrees, SimulatorKeeps DEF SimulatorAtWork
  <1> QED
    BY <1>1, <1>2, RestStays, LoopsStay, NoReconciliation DEF SimulatorAtWork, StepKept

-----------------------------------------------------------------------------
(***************************************************************************)
(* A step taken when nothing is in progress.                               *)
(***************************************************************************)
LEMMA ClientKeeps ==
    ASSUME StoreInv, Client
    PROVE  WorkersKept
  <1>1. CASE AddWorker \/ SubmitWorkload \/ Override
    <2>1. \A w \in DOMAIN workers : workers'[w] = workers[w]
      BY <1>1
      DEF AddWorker, RegisterIdleWorker, RegisterWorker, Put, SubmitWorkload,
          CreateUnplaced, CreateWorkload, Override, UpdateWorkload
    <2> QED BY <2>1, SameWorkersKeep
  <1>2. CASE Drain
    <2>1. PICK w \in DOMAIN workers :
              UpdateWorker(w, [workers[w] EXCEPT !.state = "DRAINING"])
      BY <1>2 DEF Drain
    <2>2. PICK record :
              /\ UpdateWorker(w, record)
              /\ record = [workers[w] EXCEPT !.state = "DRAINING"]
      BY <2>1
    <2>3. workers[w] \in WorkerType /\ workers[w].avail \in Nat
      BY StoredTypes, WorkerNumbers
    <2>4. record.state = "DRAINING" /\ record.avail = workers[w].avail
      BY <2>2, <2>3 DEF WorkerType
    <2>5. record.avail \in Nat /\ record.avail <= workers[w].avail BY <2>3, <2>4
    <2> QED BY <2>2, <2>4, <2>5, StoredKeeps
  <1> QED BY <1>1, <1>2 DEF Client

LEMMA PlacerStarts ==
    ASSUME CPInv, LoopsKeepRunning, Quiet, NEW p \in Placers,
           PassStarts(p) \/ (p \in Callers /\ \E x \in Workloads : PlaceStarts(p, x))
    PROVE  InTurn' /\ LoopsKeepRunning' /\ StepKept
  <1>0. /\ placer \in [Placers -> PlacerType] /\ StoreInv
        /\ UNCHANGED <<recon, ingest, sim>> /\ UNCHANGED storeVars
    BY DEF CPInv, ActorsOK, PlacerOK, PassStarts, StartPass, PlaceStarts, StartPlace
  <1>1. /\ PlacersRest
        /\ ReconcilersRest' /\ IngestorsRest' /\ SimulatorRests'
    BY <1>0, QuietIs, RestStays
  <1>2. PICK new :
            /\ placer' = [placer EXCEPT ![p] = new]
            /\ new.at = "pass"
            /\ p \in Loops => \A x \in new.todo : Schedulable(x)
    <2>1. CASE PassStarts(p)
      <3> DEFINE new == [Idle EXCEPT !.at = "pass",
                                     !.todo = {x \in Workloads : Schedulable(x)}]
      <3>1. placer' = [placer EXCEPT ![p] = new] BY <2>1 DEF PassStarts, StartPass
      <3>2. new.at = "pass" /\ new.todo = {x \in Workloads : Schedulable(x)}
        BY DEF Idle
      <3> HIDE DEF new
      <3> QED BY <3>1, <3>2
    <2>2. CASE p \in Callers /\ \E x \in Workloads : PlaceStarts(p, x)
      <3>1. PICK x \in Workloads : PlaceStarts(p, x) BY <2>2
      <3> DEFINE new == [Idle EXCEPT !.at = "pass", !.todo = {x}]
      <3>2. placer' = [placer EXCEPT ![p] = new] BY <3>1 DEF PlaceStarts, StartPlace
      <3>3. new.at = "pass" BY DEF Idle
      <3>4. p \notin Loops BY <2>2, PlacersAssumption
      <3> HIDE DEF new
      <3> QED BY <3>2, <3>3, <3>4
    <2> QED BY <2>1, <2>2
  <1>3. placer'[p] = new /\ \A q \in Placers \ {p} : placer'[q] = placer[q]
    BY <1>0, <1>2
  <1>4. \A x : Schedulable(x) => Schedulable(x)'
    BY <1>0 DEF storeVars, Schedulable
  <1>5. PlacerAtWork(p)'
    BY <1>1, <1>2, <1>3, <1>4 DEF PlacerAtWork, PlacersRest
  <1>6. LoopsKeepRunning'
    BY <1>2, <1>3 DEF LoopsKeepRunning, Stopped, Placers
  <1>7. WorkersKept BY <1>0, SameWorkersKeep DEF storeVars
  <1> QED BY <1>0, <1>5, <1>6, <1>7, NoReconciliation DEF InTurn, StepKept

LEMMA ReconcilerStarts ==
    ASSUME CPInv, LoopsKeepRunning, Quiet, NEW r \in Reconcilers, ReconcileStarts(r)
    PROVE  InTurn' /\ LoopsKeepRunning' /\ StepKept
  <1>0. /\ DOMAIN recon = Reconcilers /\ StoreInv
        /\ UNCHANGED <<placer, ingest, sim, now>> /\ UNCHANGED storeVars
        /\ recon' = [recon EXCEPT ![r] = PassAt(now)]
    BY DEF CPInv, ActorsOK, ReconOK, ReconcileStarts, StartReconcile
  <1>1. /\ ReconcilersRest
        /\ PlacersRest' /\ IngestorsRest' /\ SimulatorRests' /\ LoopsKeepRunning'
    BY <1>0, QuietIs, RestStays, LoopsStay
  <1>2. PassAt(now)' = PassAt(now)
    BY <1>0 DEF storeVars, PassAt, HealthUpdates, Affected
  <1>3. recon'[r] = PassAt(now)' /\ \A s \in Reconcilers \ {r} : recon'[s] = recon[s]
    BY <1>0, <1>2
  <1>4. ReconcilerAtWork(r)'
    BY <1>1, <1>3 DEF ReconcilerAtWork, ReconcilersRest
  <1>5. PassesClean BY <1>1 DEF PassesClean, ReconcilersRest
  <1>6. ReleasesDue BY <1>0 DEF ReleasesDue, storeVars
  <1>7. WorkersKept BY <1>0, SameWorkersKeep DEF storeVars
  <1> QED BY <1>1, <1>4, <1>5, <1>6, <1>7 DEF InTurn, StepKept

LEMMA IngestorStarts ==
    ASSUME CPInv, LoopsKeepRunning, Quiet,
           NEW i \in Ingestors, NEW sample \in Samples, IngestStarts(i, sample)
    PROVE  InTurn' /\ LoopsKeepRunning' /\ StepKept
  <1>0. /\ DOMAIN ingest = Ingestors /\ StoreInv
        /\ UNCHANGED <<placer, recon, sim>> /\ UNCHANGED storeVars
        /\ sample.worker \in DOMAIN workers
        /\ ingest' = [ingest EXCEPT ![i] =
              [worker |-> sample.worker,
               record |-> AppliedSample(workers[sample.worker], sample)]]
    BY DEF CPInv, ActorsOK, IngestOK, IngestStarts, StartIngest
  <1>1. /\ IngestorsRest
        /\ PlacersRest' /\ ReconcilersRest' /\ SimulatorRests' /\ LoopsKeepRunning'
    BY <1>0, QuietIs, RestStays, LoopsStay
  <1>2. /\ ingest'[i].worker = sample.worker
        /\ ingest'[i].record = AppliedSample(workers[sample.worker], sample)
        /\ \A j \in Ingestors \ {i} : ingest'[j] = ingest[j]
    BY <1>0
  <1>3. ingest'[i].record = AppliedSample(workers'[ingest'[i].worker], sample)
    BY <1>0, <1>2 DEF storeVars
  <1>4. IngestorAtWork(i)'
    BY <1>0, <1>1, <1>2, <1>3 DEF IngestorAtWork, IngestorsRest, storeVars
  <1>5. WorkersKept BY <1>0, SameWorkersKeep DEF storeVars
  <1> QED BY <1>0, <1>1, <1>4, <1>5, NoReconciliation DEF InTurn, StepKept

LEMMA SimulatorStarts ==
    ASSUME CPInv, LoopsKeepRunning, Quiet, SimulatorTicks
    PROVE  InTurn' /\ LoopsKeepRunning' /\ StepKept
  <1>0. /\ DOMAIN sim = SimFields /\ StoreInv
        /\ UNCHANGED <<placer, recon, ingest>> /\ UNCHANGED storeVars
    BY DEF CPInv, ActorsOK, SimOK, SimulatorTicks, SimulatorTick, storeVars
  <1>1. PlacersRest' /\ ReconcilersRest' /\ IngestorsRest' /\ LoopsKeepRunning'
    BY <1>0, QuietIs, RestStays, LoopsStay
  <1>2. sim'.at = "loop" /\ sim'.updates = workers
    BY <1>0, RestingFields DEF SimulatorTicks, SimulatorTick, SimFields
  <1>3. SimulatorAgrees' BY <1>0, <1>2 DEF SimulatorAgrees, storeVars
  <1>4. WorkersKept BY <1>0, SameWorkersKeep DEF storeVars
  <1> QED
    BY <1>0, <1>1, <1>3, <1>4, NoReconciliation DEF InTurn, SimulatorAtWork, StepKept

LEMMA QuietTurn ==
    ASSUME CPInv, LoopsKeepRunning, Quiet, Start \/ Client \/ Tick
    PROVE  InTurn' /\ LoopsKeepRunning' /\ StepKept
  <1>1. CASE Start
    <2>1. CASE \E p \in Placers : PassStarts(p)
      <3>1. PICK p \in Placers : PassStarts(p) BY <2>1
      <3> QED BY <3>1, PlacerStarts
    <2>2. CASE \E p \in Callers, x \in Workloads : PlaceStarts(p, x)
      <3>1. PICK p \in Callers : \E x \in Workloads : PlaceStarts(p, x) BY <2>2
      <3>2. p \in Placers BY DEF Placers
      <3>3. PassStarts(p) \/ (p \in Callers /\ \E x \in Workloads : PlaceStarts(p, x))
        BY <3>1
      <3> QED BY <3>2, <3>3, PlacerStarts
    <2>3. CASE \E r \in Reconcilers : ReconcileStarts(r)
      BY <2>3, ReconcilerStarts
    <2>4. CASE \E i \in Ingestors, sample \in Samples : IngestStarts(i, sample)
      BY <2>4, IngestorStarts
    <2>5. CASE SimulatorTicks BY <2>5, SimulatorStarts
    <2> QED BY <1>1, <2>1, <2>2, <2>3, <2>4, <2>5 DEF Start
  <1>2. CASE Client \/ Tick
    <2>1. UNCHANGED <<placer, recon, ingest, sim>>
      BY <1>2 DEF Client, Tick, actorVars
    <2>2. Quiet' BY <2>1 DEF Quiet
    <2>3. WorkersKept
      BY <1>2, ClientKeeps, SameWorkersKeep DEF CPInv, Tick, storeVars
    <2> QED
      BY <2>1, <2>2, <2>3, LoopsStay, NoReconciliation DEF InTurn, StepKept
  <1> QED BY <1>1, <1>2

-----------------------------------------------------------------------------
(***************************************************************************)
(* The step of the composition, and the theorems.                          *)
(***************************************************************************)
LEMMA InitTurnInv == Init => TurnInv
  <1> SUFFICES ASSUME Init PROVE TurnInv OBVIOUS
  <1>1. CPInv BY InitCPInv
  <1>2. PlacersRest /\ LoopsKeepRunning
    BY DEF Init, PlacersRest, LoopsKeepRunning, Stopped, Idle, Placers
  <1>3. ReconcilersRest /\ IngestorsRest
    BY DEF Init, ReconcilerInit, IngestorInit, ReconcilersRest, IngestorsRest
  <1>4. sim.at \in {"start", "stopped"} BY DEF Init, SimulatorInit, Resting
  <1>5. SimulatorAgrees BY <1>4 DEF SimulatorAgrees
  <1> QED BY <1>1, <1>2, <1>3, <1>5 DEF TurnInv, InTurn, SimulatorAtWork

LEMMA SerialStepConcurrent == [SerialNext]_vars => [ConcurrentNext]_vars
  BY DEF SerialNext, ConcurrentNext

LEMMA TurnStays ==
    ASSUME TurnInv, UNCHANGED vars
    PROVE  InTurn' /\ LoopsKeepRunning' /\ StepKept
  <1>1. UNCHANGED <<workers, workloads, placer, recon, ingest, sim, now>>
    BY DEF vars, storeVars, actorVars
  <1>2. PassAt(now)' = PassAt(now)
    BY <1>1 DEF PassAt, HealthUpdates, Affected
  <1>3. /\ Quiet => Quiet'
        /\ \A p \in Placers : PlacerAtWork(p) => PlacerAtWork(p)'
    BY <1>1
    DEF Quiet, PlacerAtWork, ReconcilersRest, IngestorsRest, SimulatorRests,
        CommitAllowed, Schedulable
  <1>4. /\ \A r \in Reconcilers : ReconcilerAtWork(r) => ReconcilerAtWork(r)'
        /\ \A i \in Ingestors : IngestorAtWork(i) => IngestorAtWork(i)'
        /\ SimulatorAtWork => SimulatorAtWork'
    BY <1>1, <1>2
    DEF ReconcilerAtWork, IngestorAtWork, SimulatorAtWork, SimulatorAgrees,
        PlacersRest, ReconcilersRest, IngestorsRest, SimulatorRests
  <1>5. WorkersKept BY <1>1, SameWorkersKeep DEF TurnInv, CPInv
  <1> QED
    BY <1>1, <1>3, <1>4, <1>5, LoopsStay, NoReconciliation
    DEF TurnInv, InTurn, StepKept

LEMMA SerialTurn ==
    TurnInv /\ [SerialNext]_vars => TurnInv' /\ StepKept
  <1> SUFFICES ASSUME TurnInv, [SerialNext]_vars PROVE TurnInv' /\ StepKept
    OBVIOUS
  <1>0. CPInv /\ LoopsKeepRunning BY DEF TurnInv
  <1>1. CPInv' BY <1>0, SerialStepConcurrent, StepCPInv
  <1>2. SUFFICES InTurn' /\ LoopsKeepRunning' /\ StepKept BY <1>1 DEF TurnInv
  <1>3. CASE UNCHANGED vars BY <1>3, TurnStays
  <1>4. CASE SerialNext /\ Quiet
    <2>1. ~ Continue
      BY <1>4, QuietIs, PlacerStands, ReconcilerStands, IngestorStands, SimulatorStands
      DEF Continue, PlacersRest, ReconcilersRest, IngestorsRest
    <2> QED BY <1>0, <1>4, <2>1, QuietTurn DEF SerialNext
  <1>5. CASE SerialNext /\ ~ Quiet
    <2>1. CASE \E p \in Placers : PlacerAtWork(p)
      <3>1. PICK p \in Placers : PlacerAtWork(p) BY <2>1
      <3> QED BY <1>0, <1>5, <3>1, StepOfPlacer, PlacerTurn DEF InTurn
    <2>2. CASE \E r \in Reconcilers : ReconcilerAtWork(r)
      <3>1. PICK r \in Reconcilers : ReconcilerAtWork(r) BY <2>2
      <3> QED BY <1>0, <1>1, <1>5, <3>1, StepOfReconciler, ReconcilerTurn DEF InTurn
    <2>3. CASE \E i \in Ingestors : IngestorAtWork(i)
      <3>1. PICK i \in Ingestors : IngestorAtWork(i) BY <2>3
      <3> QED BY <1>0, <1>5, <3>1, StepOfIngestor, IngestorTurn DEF InTurn
    <2>4. CASE SimulatorAtWork
      BY <1>0, <1>5, <2>4, StepOfSimulator, SimulatorTurn DEF InTurn
    <2> QED BY <1>5, <2>1, <2>2, <2>3, <2>4 DEF TurnInv, InTurn
  <1> QED BY <1>3, <1>4, <1>5

LEMMA AlwaysTurnInv == SerialSpec => []TurnInv
  BY InitTurnInv, SerialTurn, PTL DEF SerialSpec

(***************************************************************************)
(* When operations take turns, a scheduling loop never ends: a choice is   *)
(* always accepted, and what was listed always still waits.                *)
(***************************************************************************)
THEOREM LoopsNeverFail == SerialSpec => []LoopsKeepRunning
  <1>1. TurnInv => LoopsKeepRunning BY DEF TurnInv
  <1> QED BY <1>1, AlwaysTurnInv, PTL

(***************************************************************************)
(* Nor does a reconciliation pass end with an error: every release it has  *)
(* yet to make would be accepted, since nobody releases, completes or      *)
(* overrides a workload while the pass is under way.                       *)
(***************************************************************************)
THEOREM PassesNeverFail ==
    SerialSpec =>
        [](\A r \in Reconcilers : \A x \in DOMAIN recon[r].releases :
              ReleaseAllowed(x, recon[r].releases[x]))
  <1>1. ASSUME CPInv, NEW r \in Reconcilers, recon[r] = PassAt(now),
               NEW x \in DOMAIN recon[r].releases
        PROVE  ReleaseAllowed(x, recon[r].releases[x])
    <2>1. x \in Affected(now) /\ recon[r].releases[x] = AfterFailure(workloads[x])
      BY <1>1 DEF PassAt
    <2>2. StoreInv /\ x \in Workloads /\ HoldsReservation(x)
      BY <1>1, <2>1, StoredTypes DEF CPInv, Affected, HoldsReservation
    <2>3. AfterFailure(workloads[x]) \in ReleaseTargets
      BY DEF AfterFailure, ReleaseTargets
    <2> QED BY <2>1, <2>2, <2>3, ReleaseRecords DEF ReleaseAllowed
  <1>2. ASSUME TurnInv, NEW r \in Reconcilers
        PROVE  recon[r] = NoPass \/ recon[r] = PassAt(now)
    BY <1>2
    DEF TurnInv, InTurn, Quiet, PlacerAtWork, ReconcilerAtWork, IngestorAtWork,
        SimulatorAtWork, ReconcilersRest
  <1>3. DOMAIN NoPass.releases = {}
    <2>1. NoPass.releases = <<>> BY DEF NoPass
    <2> QED BY <2>1
  <1>4. TurnInv =>
            \A r \in Reconcilers : \A x \in DOMAIN recon[r].releases :
                ReleaseAllowed(x, recon[r].releases[x])
    BY <1>1, <1>2, <1>3 DEF TurnInv
  <1> QED BY <1>4, AlwaysTurnInv, PTL

(***************************************************************************)
(* No heartbeat, sample, health update or completion puts a draining       *)
(* worker back to work, because each stores the state it has just read.    *)
(***************************************************************************)
THEOREM DrainedStayDrained == SerialSpec => DrainingKept
  <1>1. TurnInv /\ [SerialNext]_vars =>
          [\A w \in DOMAIN workers :
             workers[w].state = "DRAINING" => workers'[w].state = "DRAINING"]_vars
    BY SerialTurn DEF StepKept, WorkersKept
  <1> QED BY <1>1, AlwaysTurnInv, PTL DEF SerialSpec, DrainingKept

(***************************************************************************)
(* Nothing manufactures capacity: except for the simulator's completions,  *)
(* a worker's free memory only grows by what a release took off it.        *)
(***************************************************************************)
THEOREM CapacityNotManufactured == SerialSpec => CapacityReturnsOnlyWithRelease
  <1>1. TurnInv /\ [SerialNext]_vars =>
          [sim.at = "computed" \/
           \A w \in DOMAIN workers :
             workers'[w].avail > workers[w].avail =>
                 workers'[w].avail + Cardinality(HeldMemory(w)')
                     <= workers[w].avail + Cardinality(HeldMemory(w))]_vars
    BY SerialTurn DEF StepKept, WorkersKept, CapacityKept
  <1> QED BY <1>1, AlwaysTurnInv, PTL DEF SerialSpec, CapacityReturnsOnlyWithRelease

(***************************************************************************)
(* Reconciliation takes workloads off workers that are dead at that very   *)
(* moment, ...                                                             *)
(***************************************************************************)
THEOREM OnlyDeadLoseWorkloads == SerialSpec => TakenOffDeadOnly
  <1>1. TurnInv /\ [SerialNext]_vars =>
          [UNCHANGED recon \/
           \A x \in DOMAIN workloads :
             /\ workloads[x].state \in PlacedStates
             /\ workloads'[x].state \notin PlacedStates
             => EvaluateWorkerHealth(workers[workloads[x].assigned], now)
                   = "UNHEALTHY"]_vars
    BY SerialTurn DEF StepKept, ReleasesDue
  <1> QED BY <1>1, AlwaysTurnInv, PTL DEF SerialSpec, TakenOffDeadOnly

(***************************************************************************)
(* ... and a pass does not end before every worker has the state its       *)
(* heartbeat says and no workload is left on a dead one.                   *)
(***************************************************************************)
THEOREM PassesLeaveClean == SerialSpec => PassLeavesClusterClean
  <1>1. TurnInv /\ [SerialNext]_vars =>
          [\A r \in Reconcilers :
             recon[r] # NoPass /\ recon'[r] = NoPass =>
                 /\ \A w \in DOMAIN workers' :
                       workers'[w].state = EvaluateWorkerHealth(workers'[w], now)
                 /\ \A x \in DOMAIN workloads : ~ Orphan(x)']_vars
    BY SerialTurn DEF StepKept, PassesClean
  <1> QED BY <1>1, AlwaysTurnInv, PTL DEF SerialSpec, PassLeavesClusterClean

-----------------------------------------------------------------------------
(***************************************************************************)
(* The books when operations take turns.  Two things spoil them without    *)
(* any interleaving, and are excluded by hypothesis: an operator who       *)
(* declares a placed workload over leaves its memory taken                 *)
(* (PlacedLeftAlone), and a sample lowers a worker's total to what it      *)
(* reports (ApplyDCGMSample).                                              *)
(***************************************************************************)
\* No sample reports less memory in all than its worker has.
SamplesKeepTotals ==
    \A i \in Ingestors :
        ingest[i] # NoSample =>
            ingest[i].record.total >= workers[ingest[i].worker].total

\* The simulator has returned a workload's memory and has not yet declared the
\* workload completed: the books are straight but for that one.
StraightButJob ==
    \A w \in DOMAIN workers :
        /\ workers[w].avail
             + Cardinality(HeldMemory(w) \ ({sim.job} \X (1 .. sim.workload.required)))
               <= workers[w].total
        /\ workers[w].active = Cardinality(Holders(w) \ {sim.job})

Books == Tidy /\ IF sim.at = "freed" THEN StraightButJob ELSE Straight

BooksInv == TurnInv /\ Books

-----------------------------------------------------------------------------
LEMMA NotFreed == SimulatorRests => sim.at # "freed"
  BY RestingFields DEF SimulatorRests

LEMMA SameStoreBooks ==
    ASSUME UNCHANGED storeVars
    PROVE  /\ Tidy => Tidy'
           /\ Straight => Straight'
           /\ StraightButJob /\ UNCHANGED sim => StraightButJob'
  <1>1. UNCHANGED <<workers, workloads>> BY DEF storeVars
  <1>2. \A v : Holders(v)' = Holders(v) /\ HeldMemory(v)' = HeldMemory(v)
    BY <1>1 DEF Holders, HeldMemory
  <1>3. Tidy => Tidy' BY <1>1 DEF Tidy
  <1>4. Straight => Straight'
    BY <1>1, <1>2 DEF Straight, NoOvercommit, ActiveCountExact
  <1>5. ASSUME StraightButJob, UNCHANGED sim PROVE StraightButJob'
    BY <1>1, <1>2, <1>5 DEF StraightButJob
  <1> QED BY <1>3, <1>4, <1>5

LEMMA PlaceReleaseBooks ==
    ASSUME StoreInv, Tidy, Straight, Place \/ Release
    PROVE  Tidy' /\ Straight'
  <1>1. CASE Place
    <2>1. PICK x \in Workloads, w \in Workers : CommitPlacement(x, w)
      BY <1>1 DEF Place
    <2>2. Straight' BY <2>1, CommitBooks DEF Straight
    <2>3. Tidy' BY <2>1, CommitFields DEF Tidy, PlacedStates
    <2> QED BY <2>2, <2>3
  <1>2. CASE Release
    <2>1. PICK x \in Workloads, next \in ReleaseTargets : ReleasePlacement(x, next)
      BY <1>2 DEF Release
    <2>2. Straight' BY <2>1, ReleaseBooks DEF Straight
    <2>3. Tidy' BY <2>1, ReleaseFields DEF Tidy
    <2> QED BY <2>2, <2>3
  <1> QED BY <1>1, <1>2

\* A record that counts the same workloads, offers no more and has no less.
LEMMA StoredBooks ==
    ASSUME StoreInv, Tidy, Straight, NEW w \in DOMAIN workers, NEW record,
           UpdateWorker(w, record), record.active = workers[w].active,
           record.avail \in Nat, record.avail <= workers[w].avail,
           record.total \in Nat, workers[w].total <= record.total
    PROVE  Tidy' /\ Straight'
  <1>1. /\ workloads' = workloads /\ DOMAIN workers' = DOMAIN workers
        /\ workers'[w] = record
        /\ \A v \in DOMAIN workers : v # w => workers'[v] = workers[v]
    BY DEF UpdateWorker, Put
  <1>2. Tidy' BY <1>1 DEF Tidy
  <1>3. \A v : Holders(v)' = Holders(v) /\ HeldMemory(v)' = HeldMemory(v)
    BY <1>1 DEF Holders, HeldMemory
  <1>4. ActiveCountExact' BY <1>1, <1>3 DEF Straight, ActiveCountExact
  <1>5. /\ workers[w].total \in Nat /\ workers[w].avail \in Nat
        /\ Cardinality(HeldMemory(w)) \in Nat
    BY WorkerNumbers
  <1>6. workers[w].avail + Cardinality(HeldMemory(w)) <= workers[w].total
    BY DEF Straight, NoOvercommit
  <1>7. record.avail + Cardinality(HeldMemory(w)) <= record.total
    BY <1>5, <1>6
  <1>8. NoOvercommit' BY <1>1, <1>3, <1>7 DEF Straight, NoOvercommit
  <1> QED BY <1>2, <1>4, <1>8 DEF Straight

\* Workloads that are not placed come and go.
LEMMA UnplacedBooks ==
    ASSUME Straight, workers' = workers,
           \A y \in DOMAIN workloads :
               /\ y \in DOMAIN workloads'
               /\ \/ workloads'[y] = workloads[y]
                  \/ /\ workloads[y].state \notin PlacedStates
                     /\ workloads'[y].state \notin PlacedStates,
           \A y \in DOMAIN workloads' \ DOMAIN workloads :
               workloads'[y].state \notin PlacedStates
    PROVE  Straight'
  <1>1. \A v : Holders(v)' = Holders(v) /\ HeldMemory(v)' = HeldMemory(v)
    BY SameHolders
  <1> QED BY <1>1 DEF Straight, NoOvercommit, ActiveCountExact

LEMMA RegisterBooks ==
    ASSUME StoreInv, PlacedSomewhere, Tidy, Straight,
           NEW w \in Workers, RegisterIdleWorker(w)
    PROVE  Tidy' /\ Straight'
  <1>1. /\ w \notin DOMAIN workers /\ workloads' = workloads
        /\ DOMAIN workers' = DOMAIN workers \cup {w}
        /\ \A v \in DOMAIN workers : workers'[v] = workers[v]
        /\ workers'[w].active = 0
        /\ workers'[w] \in WorkerType /\ ValidateWorker(workers'[w])
    BY RegisterFields
  <1>2. Tidy' BY <1>1 DEF Tidy
  <1>3. \A v : Holders(v)' = Holders(v) /\ HeldMemory(v)' = HeldMemory(v)
    BY <1>1 DEF Holders, HeldMemory
  <1>4. Holders(w) = {} BY <1>1 DEF Holders, PlacedSomewhere
  <1>5. HeldMemory(w) = {} BY <1>4 DEF HeldMemory
  <1>6. Cardinality(Holders(w)) = 0 /\ Cardinality(HeldMemory(w)) = 0
    BY <1>4, <1>5, FS_EmptySet
  <1>7. workers'[w].avail + 0 <= workers'[w].total
    BY <1>1 DEF WorkerType, ValidateWorker
  <1>8. NoOvercommit' BY <1>1, <1>3, <1>6, <1>7 DEF Straight, NoOvercommit
  <1>9. ActiveCountExact' BY <1>1, <1>3, <1>6 DEF Straight, ActiveCountExact
  <1> QED BY <1>2, <1>8, <1>9 DEF Straight

LEMMA OverrideBooks ==
    ASSUME StoreInv, Tidy, Straight, Override, PlacedLeftAlone
    PROVE  Tidy' /\ Straight'
  <1>1. /\ workers' = workers /\ DOMAIN workloads' = DOMAIN workloads
        /\ \A y \in DOMAIN workloads :
              \/ workloads'[y] = workloads[y]
              \/ /\ workloads[y].state \notin PlacedStates
                 /\ workloads'[y].state \notin PlacedStates
                 /\ workloads'[y].assigned = NoWorker
    BY OverrideFields
  <1>2. Tidy' BY <1>1 DEF Tidy
  <1>3. Straight' BY <1>1, UnplacedBooks
  <1> QED BY <1>2, <1>3

LEMMA ClientBooks ==
    ASSUME CPInv, Tidy, Straight, Client, PlacedLeftAlone
    PROVE  Tidy' /\ Straight'
  <1>0. StoreInv /\ PlacedSomewhere BY DEF CPInv
  <1>1. CASE AddWorker BY <1>0, <1>1, RegisterBooks DEF AddWorker
  <1>2. CASE SubmitWorkload
    <2>1. PICK x \in Workloads : CreateUnplaced(x) BY <1>2 DEF SubmitWorkload
    <2>2. /\ x \notin DOMAIN workloads /\ workers' = workers
          /\ DOMAIN workloads' = DOMAIN workloads \cup {x}
          /\ \A y \in DOMAIN workloads : workloads'[y] = workloads[y]
          /\ workloads'[x].state \notin PlacedStates
          /\ workloads'[x].assigned = NoWorker
      BY <1>0, <2>1, CreateFields
    <2>3. Tidy' BY <2>2 DEF Tidy
    <2>4. Straight' BY <2>2, UnplacedBooks
    <2> QED BY <2>3, <2>4
  <1>3. CASE Drain
    <2>1. PICK w \in DOMAIN workers :
              UpdateWorker(w, [workers[w] EXCEPT !.state = "DRAINING"])
      BY <1>3 DEF Drain
    <2>2. PICK record :
              /\ UpdateWorker(w, record)
              /\ record = [workers[w] EXCEPT !.state = "DRAINING"]
      BY <2>1
    <2>3. workers[w] \in WorkerType BY <1>0, StoredTypes
    <2>4. /\ record.active = workers[w].active /\ record.total = workers[w].total
          /\ record.avail = workers[w].avail
      BY <2>2, <2>3 DEF WorkerType
    <2>5. workers[w].avail \in Nat /\ workers[w].total \in Nat BY <1>0, WorkerNumbers
    <2>6. record.avail <= workers[w].avail /\ workers[w].total <= record.total
      BY <2>4, <2>5
    <2> QED BY <1>0, <2>2, <2>4, <2>5, <2>6, StoredBooks
  <1>4. CASE Override BY <1>0, <1>4, OverrideBooks
  <1> QED BY <1>1, <1>2, <1>3, <1>4 DEF Client

-----------------------------------------------------------------------------
(***************************************************************************)
(* The books after a step of each actor.                                   *)
(***************************************************************************)
LEMMA PlacerBooks ==
    ASSUME CPInv, Tidy, Straight, NEW p \in Placers, PlacerStep(p)
    PROVE  Tidy' /\ Straight'
  <1>1. StoreInv /\ placer \in [Placers -> PlacerType]
    BY DEF CPInv, ActorsOK, PlacerOK
  <1>2. CASE Commit(p)
    <2>1. PICK x \in Workloads, w \in Workers : CommitPlacement(x, w)
      BY <1>1, <1>2, StoredTypes DEF Commit, CommitPlacement, CommitAllowed
    <2> QED BY <1>1, <2>1, PlaceReleaseBooks DEF Place
  <1>3. CASE UNCHANGED storeVars BY <1>3, SameStoreBooks
  <1> QED
    BY <1>2, <1>3
    DEF PlacerStep, Proceed, Choose, NoneEligible, Refuse, Conflict

LEMMA ReconcilerBooks ==
    ASSUME CPInv, Tidy, Straight,
           NEW r \in Reconcilers, ReconcilerAtWork(r), ReconcilerStep(r)
    PROVE  Tidy' /\ Straight'
  <1>1. StoreInv /\ PassOK(recon[r]) BY DEF CPInv, ActorsOK, ReconOK
  <1>2. CASE UpdateStep(r)
    <2>1. PICK t : t = now OBVIOUS
    <2>2. PICK w \in DOMAIN HealthUpdates(t) : UpdateWorker(w, HealthUpdates(t)[w])
      BY <1>2, <2>1 DEF UpdateStep, ReconcilerAtWork, PassAt
    <2>3. /\ w \in DOMAIN workers
          /\ HealthUpdates(t)[w] =
                [workers[w] EXCEPT !.state = EvaluateWorkerHealth(workers[w], t)]
      BY DEF HealthUpdates
    <2>4. PICK record :
              /\ UpdateWorker(w, record)
              /\ record = [workers[w] EXCEPT
                              !.state = EvaluateWorkerHealth(workers[w], t)]
      BY <2>2, <2>3
    <2>5. workers[w] \in WorkerType BY <1>1, <2>3, StoredTypes
    <2>6. /\ record.active = workers[w].active /\ record.total = workers[w].total
          /\ record.avail = workers[w].avail
      BY <2>4, <2>5 DEF WorkerType
    <2>7. workers[w].avail \in Nat /\ workers[w].total \in Nat
      BY <1>1, <2>3, WorkerNumbers
    <2>8. record.avail <= workers[w].avail /\ workers[w].total <= record.total
      BY <2>6, <2>7
    <2> QED BY <1>1, <2>3, <2>4, <2>6, <2>7, <2>8, StoredBooks
  <1>3. CASE ReleaseStep(r)
    <2>1. PICK x \in DOMAIN recon[r].releases :
              ReleasePlacement(x, recon[r].releases[x])
      BY <1>3 DEF ReleaseStep
    <2>2. recon[r].releases[x] \in ReleaseTargets /\ x \in Workloads
      BY <1>1, <2>1
      DEF PassOK, FailureTargets, ReleaseTargets, ReleasePlacement, ReleaseAllowed,
          HoldsReservation, StoreInv, TypeOK
    <2> QED BY <1>1, <2>1, <2>2, PlaceReleaseBooks DEF Release
  <1>4. CASE AbortStep(r) BY <1>4, SameStoreBooks DEF AbortStep
  <1> QED BY <1>2, <1>3, <1>4 DEF ReconcilerStep, ReconcileStep

LEMMA IngestorBooks ==
    ASSUME CPInv, Tidy, Straight, SamplesKeepTotals,
           NEW i \in Ingestors, IngestorAtWork(i), IngestorStep(i)
    PROVE  Tidy' /\ Straight'
  <1>1. StoreInv /\ StoreSample(i) BY DEF CPInv, IngestorStep
  <1>2. PICK sample \in Samples :
            ingest[i].record = AppliedSample(workers[ingest[i].worker], sample)
    BY DEF IngestorAtWork
  <1>3. PICK w, record : w = ingest[i].worker /\ record = ingest[i].record
    OBVIOUS
  <1>4. /\ w \in DOMAIN workers
        /\ UpdateWorker(w, record)
        /\ record = AppliedSample(workers[w], sample)
        /\ record.total >= workers[w].total
    BY <1>1, <1>2, <1>3 DEF StoreSample, IngestorAtWork, SamplesKeepTotals
  <1>5. workers[w] \in WorkerType /\ sample \in SampleType
    BY <1>1, <1>4, StoredTypes, SamplesAssumption
  <1>6. /\ record.active = workers[w].active
        /\ record.avail \in Nat /\ record.avail <= workers[w].avail
        /\ record.total = sample.total
    BY <1>4, <1>5, AppliedFields
  <1>7. record.total \in Nat /\ workers[w].total \in Nat
    BY <1>1, <1>4, <1>5, <1>6, WorkerNumbers DEF SampleType
  <1>8. workers[w].total <= record.total BY <1>4, <1>7
  <1> QED BY <1>1, <1>4, <1>6, <1>7, <1>8, StoredBooks

\* The memory of the job comes back whole: it is placed, so the books count it.
LEMMA FreeBooks ==
    ASSUME CPInv, Tidy, Straight, SimulatorAgrees, FreeWorker
    PROVE  Tidy' /\ StraightButJob' /\ sim'.at = "freed"
  <1>0. StoreInv /\ DOMAIN sim = SimFields BY DEF CPInv, ActorsOK, SimOK
  <1>1. PICK w, job, r, record :
            /\ w = sim.workload.assigned /\ job = sim.job
            /\ r = workloads[sim.job].required
            /\ record = WorkerAfter(workers[w], workloads[sim.job])
    OBVIOUS
  <1>2. /\ sim.at = "computed" /\ w \in DOMAIN workers
        /\ workers[w] \in WorkerType
        /\ job \in DOMAIN workloads /\ sim.workload = workloads[job]
        /\ workloads[job] \in WorkloadType
        /\ UpdateWorker(w, record)
    BY <1>1, FreedWorker
  <1>3. /\ workloads' = workloads /\ DOMAIN workers' = DOMAIN workers
        /\ workers'[w] = record
        /\ \A v \in DOMAIN workers : v # w => workers'[v] = workers[v]
    BY <1>2 DEF UpdateWorker, Put
  <1>4. /\ sim'.at = "freed" /\ sim'.job = job
        /\ sim'.workload = sim.workload /\ sim'.workload.required = r
    BY <1>0, <1>1, <1>2 DEF FreeWorker, SimFields
  <1>5. Tidy' BY <1>3 DEF Tidy
  <1>6. workloads[job].assigned = w /\ workloads[job].state \in PlacedStates
    <2>1. workloads[job].assigned = w /\ workloads[job].state # "COMPLETED"
      BY <1>1, <1>2 DEF SimulatorAgrees
    <2>2. w # NoWorker BY <1>0, <1>2, StoredTypes, WorkersAssumption
    <2> QED BY <1>2, <2>1, <2>2 DEF Tidy
  <1>7. PICK block : block = {job} \X (1 .. r) OBVIOUS
  <1>8. r \in Nat BY <1>0, <1>1, <1>2, PlacedAlways
  <1>9. IsFiniteSet(block) /\ Cardinality(block) = r BY <1>7, <1>8, BlockSize
  <1>10. job \in Holders(w) /\ block \subseteq HeldMemory(w)
    <2>1. job \in Holders(w) BY <1>2, <1>6 DEF Holders
    <2> QED BY <1>1, <1>7, <2>1 DEF HeldMemory
  <1>11. ASSUME NEW v, v # w
         PROVE  Holders(v) \ {job} = Holders(v) /\ HeldMemory(v) \ block = HeldMemory(v)
    <2>1. job \notin Holders(v) BY <1>6, <1>11 DEF Holders
    <2>2. HeldMemory(v) \cap block = {} BY <1>7, <2>1 DEF HeldMemory
    <2> QED BY <2>1, <2>2
  <1>12. \A v : Holders(v)' = Holders(v) /\ HeldMemory(v)' = HeldMemory(v)
    BY <1>3 DEF Holders, HeldMemory
  <1>13. /\ workers[w].total \in Nat /\ workers[w].avail \in Nat
         /\ workers[w].active \in Int
         /\ Cardinality(HeldMemory(w)) \in Nat /\ Cardinality(Holders(w)) \in Nat
    BY <1>0, <1>2, WorkerNumbers
  <1>14. /\ Cardinality(HeldMemory(w) \ block) = Cardinality(HeldMemory(w)) - r
         /\ r <= Cardinality(HeldMemory(w))
    BY <1>0, <1>9, <1>10, HeldFinite, RemoveBlock
  <1>15. /\ Cardinality(Holders(w) \ {job}) = Cardinality(Holders(w)) - 1
         /\ Cardinality(Holders(w) \ {job}) \in Nat
    BY <1>0, <1>10, HeldFinite, FS_RemoveElement, FS_CardinalityType
  <1>16. /\ workers[w].avail + Cardinality(HeldMemory(w)) <= workers[w].total
         /\ workers[w].active = Cardinality(Holders(w))
    BY <1>2 DEF Straight, NoOvercommit, ActiveCountExact
  <1>17. /\ record.total = workers[w].total
         /\ record.avail = workers[w].avail + r
         /\ record.active = workers[w].active - 1
    <2>1. /\ record.total = workers[w].total
          /\ record.avail = IF workers[w].avail + r > workers[w].total
                            THEN workers[w].total ELSE workers[w].avail + r
          /\ record.active = IF workers[w].active > 0
                             THEN workers[w].active - 1 ELSE workers[w].active
      BY <1>1, <1>2, WorkerAfterFields
    <2> QED BY <1>8, <1>13, <1>14, <1>15, <1>16, <2>1
  <1>18. ASSUME NEW v \in DOMAIN workers
         PROVE  /\ workers'[v].avail + Cardinality(HeldMemory(v) \ block)
                      <= workers'[v].total
                /\ workers'[v].active = Cardinality(Holders(v) \ {job})
    <2>1. CASE v = w
      BY <1>3, <1>8, <1>13, <1>14, <1>15, <1>16, <1>17, <2>1
    <2>2. CASE v # w
      BY <1>3, <1>11, <2>2 DEF Straight, NoOvercommit, ActiveCountExact
    <2> QED BY <2>1, <2>2
  <1>19. StraightButJob'
    BY <1>3, <1>4, <1>7, <1>12, <1>18 DEF StraightButJob
  <1> QED BY <1>4, <1>5, <1>19

LEMMA CompleteBooks ==
    ASSUME CPInv, Tidy, StraightButJob, SimulatorAgrees, Complete
    PROVE  Tidy' /\ Straight'
  <1>0. StoreInv BY DEF CPInv
  <1>1. PICK job, r, record :
            /\ job = sim.job /\ r = sim.workload.required
            /\ record = [sim.workload EXCEPT !.state = "COMPLETED"]
    OBVIOUS
  <1>2. /\ job \in DOMAIN workloads /\ sim.workload = workloads[job]
        /\ r = workloads[job].required
        /\ UpdateWorkload(job, record)
    BY <1>1 DEF Complete, SimulatorAgrees
  <1>3. record.state = "COMPLETED"
    BY <1>0, <1>1, <1>2, StoredTypes DEF WorkloadType
  <1>4. /\ workers' = workers /\ DOMAIN workloads' = DOMAIN workloads
        /\ workloads'[job] = record
        /\ \A y \in DOMAIN workloads : y # job => workloads'[y] = workloads[y]
    BY <1>2 DEF UpdateWorkload, Put
  <1>5. Tidy' BY <1>3, <1>4 DEF Tidy
  <1>6. PICK block : block = {job} \X (1 .. r) OBVIOUS
  <1>7. \A v : Holders(v)' = Holders(v) \ {job}
    BY <1>3, <1>4 DEF Holders, PlacedStates
  <1>8. ASSUME NEW v PROVE HeldMemory(v)' = HeldMemory(v) \ block
    <2>1. \A y \in Holders(v) \ {job} : workloads'[y].required = workloads[y].required
      BY <1>4 DEF Holders
    <2>2. HeldMemory(v)' =
              UNION {{y} \X (1 .. workloads[y].required) : y \in Holders(v) \ {job}}
      BY <1>7, <2>1 DEF HeldMemory
    <2>3. \A y : y # job => ({y} \X (1 .. workloads[y].required)) \cap block = {}
      BY <1>6
    <2> QED BY <1>2, <1>6, <2>2, <2>3 DEF HeldMemory
  <1>9. NoOvercommit' BY <1>1, <1>4, <1>6, <1>8 DEF StraightButJob, NoOvercommit
  <1>10. ActiveCountExact' BY <1>1, <1>4, <1>7 DEF StraightButJob, ActiveCountExact
  <1> QED BY <1>5, <1>9, <1>10 DEF Straight

LEMMA SimulatorBooks ==
    ASSUME CPInv, Books, SimulatorAgrees, SimulatorProceeds
    PROVE  Books'
  <1>0. StoreInv /\ DOMAIN sim = SimFields /\ Tidy
    BY DEF CPInv, ActorsOK, SimOK, Books
  <1>1. CASE Complete
    <2>1. Tidy' /\ Straight'
      BY <1>0, <1>1, CompleteBooks DEF Books, Complete
    <2>2. sim'.at = "loop" BY <1>1, RestingFields DEF Complete, SimFields
    <2> QED BY <2>1, <2>2 DEF Books
  <1>2. CASE FreeWorker
    <2>1. sim.at = "computed" BY <1>2 DEF FreeWorker
    <2>2. Straight BY <2>1 DEF Books
    <2> QED BY <1>0, <1>2, <2>2, FreeBooks DEF Books
  <1>3. CASE SendHeartbeat(now)
    <2>1. sim.at = "loop" BY <1>3 DEF SendHeartbeat
    <2>2. PICK w \in DOMAIN sim.updates :
              /\ UpdateWorker(w, [sim.updates[w] EXCEPT !.heartbeat = now])
              /\ sim' = [sim EXCEPT !.updates = Without(@, w)]
      BY <1>3 DEF SendHeartbeat
    <2>3. sim'.at = "loop" BY <1>0, <2>1, <2>2 DEF SimFields
    <2>4. w \in DOMAIN workers /\ sim.updates[w] = workers[w]
      BY <2>1 DEF SimulatorAgrees
    <2>5. PICK record :
              /\ UpdateWorker(w, record)
              /\ record = [workers[w] EXCEPT !.heartbeat = now]
      BY <2>2, <2>4
    <2>6. workers[w] \in WorkerType BY <1>0, <2>4, StoredTypes
    <2>7. /\ record.active = workers[w].active /\ record.total = workers[w].total
          /\ record.avail = workers[w].avail
      BY <2>5, <2>6, HeartbeatFields
    <2>8. workers[w].avail \in Nat /\ workers[w].total \in Nat
      BY <1>0, <2>4, WorkerNumbers
    <2>9. record.avail <= workers[w].avail /\ workers[w].total <= record.total
      BY <2>7, <2>8
    <2>10. Straight BY <2>1 DEF Books
    <2>11. Tidy' /\ Straight'
      BY <1>0, <2>4, <2>5, <2>7, <2>8, <2>9, <2>10, StoredBooks
    <2> QED BY <2>3, <2>11 DEF Books
  <1>4. CASE \/ StartSimulator \/ ReadWorker \/ Abandon
             \/ \E x \in Workloads : Forget(x) \/ ReadWorkload(x)
    <2>1. UNCHANGED storeVars
      BY <1>4
      DEF StartSimulator, ReadWorker, Abandon, Forget, ReadWorkload, storeVars
    <2>2. sim.at # "freed" /\ sim'.at # "freed"
      BY <1>0, <1>4, RestingFields
      DEF StartSimulator, ReadWorker, Abandon, Forget, ReadWorkload, Due, SimFields
    <2> QED BY <2>1, <2>2, SameStoreBooks DEF Books
  <1> QED BY <1>1, <1>2, <1>3, <1>4 DEF SimulatorProceeds, SimulatorStep

LEMMA InitBooksInv == Init => BooksInv
  <1> SUFFICES ASSUME Init PROVE BooksInv OBVIOUS
  <1>1. TurnInv BY InitTurnInv
  <1>2. Tidy /\ Straight BY SeededBooks DEF Init, SimulatorInit
  <1>3. sim.at \in {"start", "stopped"} BY DEF Init, SimulatorInit, Resting
  <1> QED BY <1>1, <1>2, <1>3 DEF BooksInv, Books

\* A step of anybody but the simulator finds and leaves it at rest.
LEMMA OtherBooks ==
    ASSUME Books, SimulatorRests, Tidy /\ Straight => Tidy' /\ Straight',
           sim' = sim
    PROVE  Books'
  <1>1. sim.at # "freed" /\ sim'.at # "freed" BY NotFreed
  <1> QED BY <1>1 DEF Books

LEMMA SerialBooks ==
    BooksInv /\ SamplesKeepTotals /\ [PlacedLeftAlone]_vars /\ [SerialNext]_vars
        => BooksInv'
  <1> SUFFICES ASSUME BooksInv, SamplesKeepTotals,
                      [PlacedLeftAlone]_vars, [SerialNext]_vars
               PROVE  BooksInv'
    OBVIOUS
  <1>0. TurnInv /\ CPInv /\ InTurn /\ Books BY DEF BooksInv, TurnInv
  <1>1. TurnInv' BY <1>0, SerialTurn
  <1>2. SUFFICES Books' BY <1>1 DEF BooksInv
  <1>3. CASE UNCHANGED vars
    <2>1. UNCHANGED <<workers, workloads, sim>>
      BY <1>3 DEF vars, storeVars, actorVars
    <2> QED
      BY <1>0, <2>1, SameStoreBooks DEF Books, storeVars
  <1>4. CASE SerialNext /\ PlacedLeftAlone /\ Quiet
    <2>1. SimulatorRests BY <1>4, QuietIs
    <2>2. ~ Continue
      BY <1>4, QuietIs, PlacerStands, ReconcilerStands, IngestorStands, SimulatorStands
      DEF Continue, PlacersRest, ReconcilersRest, IngestorsRest
    <2>3. CASE SimulatorTicks
      <3>1. UNCHANGED storeVars BY <2>3 DEF SimulatorTicks, SimulatorTick, storeVars
      <3>2. sim'.at = "loop"
        BY <1>0, <2>3, RestingFields
        DEF SimulatorTicks, SimulatorTick, SimFields, CPInv, ActorsOK, SimOK
      <3> QED BY <1>0, <2>1, <3>1, <3>2, NotFreed, SameStoreBooks DEF Books
    <2>4. CASE (Start /\ ~ SimulatorTicks) \/ Tick
      <3>1. UNCHANGED storeVars /\ sim' = sim
        BY <2>4
        DEF Start, PassStarts, StartPass, PlaceStarts, StartPlace, ReconcileStarts,
            StartReconcile, IngestStarts, StartIngest, Tick, storeVars, actorVars
      <3> QED BY <1>0, <2>1, <3>1, SameStoreBooks, OtherBooks
    <2>5. CASE Client
      <3>1. sim' = sim BY <2>5 DEF Client, actorVars
      <3> QED BY <1>0, <1>4, <2>1, <2>5, <3>1, ClientBooks, OtherBooks
    <2> QED BY <1>4, <2>2, <2>3, <2>4, <2>5 DEF SerialNext
  <1>5. CASE SerialNext /\ ~ Quiet
    <2>1. CASE \E p \in Placers : PlacerAtWork(p)
      <3>1. PICK p \in Placers : PlacerAtWork(p) BY <2>1
      <3>2. PlacerStep(p) BY <1>5, <3>1, StepOfPlacer
      <3>3. SimulatorRests /\ sim' = sim BY <3>1, <3>2 DEF PlacerAtWork, PlacerStep
      <3> QED BY <1>0, <3>2, <3>3, PlacerBooks, OtherBooks
    <2>2. CASE \E r \in Reconcilers : ReconcilerAtWork(r)
      <3>1. PICK r \in Reconcilers : ReconcilerAtWork(r) BY <2>2
      <3>2. ReconcilerStep(r) BY <1>5, <3>1, StepOfReconciler
      <3>3. SimulatorRests /\ sim' = sim
        BY <3>1, <3>2 DEF ReconcilerAtWork, ReconcilerStep
      <3> QED BY <1>0, <3>1, <3>2, <3>3, ReconcilerBooks, OtherBooks
    <2>3. CASE \E i \in Ingestors : IngestorAtWork(i)
      <3>1. PICK i \in Ingestors : IngestorAtWork(i) BY <2>3
      <3>2. IngestorStep(i) BY <1>5, <3>1, StepOfIngestor
      <3>3. SimulatorRests /\ sim' = sim
        BY <3>1, <3>2 DEF IngestorAtWork, IngestorStep
      <3> QED BY <1>0, <3>1, <3>2, <3>3, IngestorBooks, OtherBooks
    <2>4. CASE SimulatorAtWork
      <3>1. SimulatorProceeds BY <1>5, <2>4, StepOfSimulator
      <3> QED BY <1>0, <2>4, <3>1, SimulatorBooks DEF SimulatorAtWork
    <2> QED BY <1>0, <1>5, <2>1, <2>2, <2>3, <2>4 DEF InTurn
  <1> QED BY <1>3, <1>4, <1>5

(***************************************************************************)
(* When operations take turns, the books are straight whenever none is in  *)
(* progress: whatever places, releases and completes workloads, no memory  *)
(* is both free and held and every worker counts the workloads it runs.    *)
(* This needs operators to leave placed workloads alone and samples not to *)
(* lower a worker's total; both are behaviours the code leaves to others.  *)
(***************************************************************************)
THEOREM BooksStraightInTurn ==
    SerialSpec /\ [][PlacedLeftAlone]_vars /\ []SamplesKeepTotals
        => []BooksStraightAtRest
  <1>1. BooksInv => BooksStraightAtRest
    BY QuietIs, NotFreed DEF BooksInv, Books, Straight, BooksStraightAtRest
  <1> QED BY <1>1, InitBooksInv, SerialBooks, PTL DEF SerialSpec

(***************************************************************************)
(* So what a worker's workloads hold then fits into it: that committed     *)
(* memory can exceed the capacity (CommittedFits) is due to nothing else   *)
(* than these two behaviours and interleaving.                             *)
(***************************************************************************)
THEOREM CommittedFitsInTurn ==
    SerialSpec /\ [][PlacedLeftAlone]_vars /\ []SamplesKeepTotals => []CommittedFits
  <1>1. ASSUME TurnInv, BooksStraightAtRest, Quiet, NEW w \in DOMAIN workers
        PROVE  Cardinality(HeldMemory(w)) <= workers[w].total
    <2>1. StoreInv BY <1>1 DEF TurnInv, CPInv
    <2>2. /\ workers[w].total \in Nat /\ workers[w].avail \in Nat
          /\ Cardinality(HeldMemory(w)) \in Nat
      BY <2>1, WorkerNumbers
    <2>3. workers[w].avail + Cardinality(HeldMemory(w)) <= workers[w].total
      BY <1>1 DEF BooksStraightAtRest, NoOvercommit
    <2> QED BY <2>2, <2>3
  <1>2. TurnInv /\ BooksStraightAtRest => CommittedFits
    BY <1>1 DEF CommittedFits
  <1> QED BY <1>2, BooksStraightInTurn, AlwaysTurnInv, PTL

-----------------------------------------------------------------------------
(***************************************************************************)
(* When operations take turns no write is stale: the ledger.               *)
(***************************************************************************)
\* A sample reports as much memory in all as its worker has.
SamplesMatchTotals ==
    \A i \in Ingestors :
        ingest[i] # NoSample =>
            ingest[i].record.total = workers[ingest[i].worker].total

LEMMA RestIsFresh == SimulatorRests => CompletionFresh /\ CompletionUndisturbed
  BY RestingFields
  DEF SimulatorRests, CompletionFresh, CompletionUndisturbed, FreeWorker

LEMMA SameWorkersFresh ==
    ASSUME StoreInv, workers' = workers
    PROVE  WorkersFresh
  BY WorkerNumbers DEF WorkersFresh

LEMMA StoredFresh ==
    ASSUME StoreInv, NEW w \in DOMAIN workers, NEW record, UpdateWorker(w, record),
           record.total = workers[w].total, record.avail <= workers[w].avail
    PROVE  WorkersFresh
  <1>1. /\ workers'[w] = record
        /\ \A v \in DOMAIN workers : v # w => workers'[v] = workers[v]
    BY DEF UpdateWorker, Put
  <1> QED BY <1>1, WorkerNumbers DEF WorkersFresh

LEMMA PlaceReleaseFresh ==
    ASSUME StoreInv, Place \/ Release
    PROVE  WorkersFresh
  <1>1. CASE Place
    <2>1. PICK x \in Workloads, w \in Workers : CommitPlacement(x, w)
      BY <1>1 DEF Place
    <2>2. workloads'[x].state = "PLACED" /\ workloads[x].state \in SchedulableStates
      BY <2>1, CommitFields DEF CommitPlacement, CommitAllowed
    <2> QED BY <2>2 DEF WorkersFresh, SchedulableStates
  <1>2. CASE Release
    <2>1. PICK x \in Workloads, next \in ReleaseTargets : ReleasePlacement(x, next)
      BY <1>2 DEF Release
    <2>2. workloads'[x].state = next /\ workloads[x].state \in PlacedStates
      BY <2>1, ReleaseFields
    <2> QED BY <2>2 DEF WorkersFresh, PlacedStates, ReleaseTargets
  <1> QED BY <1>1, <1>2

LEMMA ClientFresh ==
    ASSUME StoreInv, Client
    PROVE  WorkersFresh
  <1>1. CASE AddWorker
    <2>1. PICK w \in Workers : RegisterIdleWorker(w) BY <1>1 DEF AddWorker
    <2>2. \A v \in DOMAIN workers : workers'[v] = workers[v] BY <2>1, RegisterFields
    <2> QED BY <2>2, WorkerNumbers DEF WorkersFresh
  <1>2. CASE Drain
    <2>1. PICK w \in DOMAIN workers :
              UpdateWorker(w, [workers[w] EXCEPT !.state = "DRAINING"])
      BY <1>2 DEF Drain
    <2>2. PICK record :
              /\ UpdateWorker(w, record)
              /\ record = [workers[w] EXCEPT !.state = "DRAINING"]
      BY <2>1
    <2>3. workers[w] \in WorkerType /\ workers[w].avail \in Nat
      BY StoredTypes, WorkerNumbers
    <2>4. record.total = workers[w].total /\ record.avail = workers[w].avail
      BY <2>2, <2>3 DEF WorkerType
    <2>5. record.avail <= workers[w].avail BY <2>3, <2>4
    <2> QED BY <2>2, <2>4, <2>5, StoredFresh
  <1>3. CASE SubmitWorkload \/ Override
    BY <1>3, SameWorkersFresh
    DEF SubmitWorkload, CreateUnplaced, CreateWorkload, Override, UpdateWorkload
  <1> QED BY <1>1, <1>2, <1>3 DEF Client

LEMMA ReconcilerFresh ==
    ASSUME CPInv, NEW r \in Reconcilers, ReconcilerAtWork(r), ReconcilerStep(r)
    PROVE  WorkersFresh
  <1>1. StoreInv /\ PassOK(recon[r]) BY DEF CPInv, ActorsOK, ReconOK
  <1>2. CASE UpdateStep(r)
    <2>1. PICK w \in DOMAIN HealthUpdates(now) : UpdateWorker(w, HealthUpdates(now)[w])
      BY <1>2 DEF UpdateStep, ReconcilerAtWork, PassAt
    <2>2. /\ w \in DOMAIN workers
          /\ HealthUpdates(now)[w] =
                [workers[w] EXCEPT !.state = EvaluateWorkerHealth(workers[w], now)]
      BY DEF HealthUpdates
    <2>3. PICK record :
              /\ UpdateWorker(w, record)
              /\ record = [workers[w] EXCEPT
                              !.state = EvaluateWorkerHealth(workers[w], now)]
      BY <2>1, <2>2
    <2>4. workers[w] \in WorkerType /\ workers[w].avail \in Nat
      BY <1>1, <2>2, StoredTypes, WorkerNumbers
    <2>5. record.total = workers[w].total /\ record.avail = workers[w].avail
      BY <2>3, <2>4 DEF WorkerType
    <2>6. record.avail <= workers[w].avail BY <2>4, <2>5
    <2> QED BY <1>1, <2>2, <2>3, <2>5, <2>6, StoredFresh
  <1>3. CASE ReleaseStep(r)
    <2>1. PICK x \in DOMAIN recon[r].releases :
              ReleasePlacement(x, recon[r].releases[x])
      BY <1>3 DEF ReleaseStep
    <2>2. recon[r].releases[x] \in ReleaseTargets /\ x \in Workloads
      BY <1>1, <2>1
      DEF PassOK, FailureTargets, ReleaseTargets, ReleasePlacement, ReleaseAllowed,
          HoldsReservation, StoreInv, TypeOK
    <2> QED BY <1>1, <2>1, <2>2, PlaceReleaseFresh DEF Release
  <1>4. CASE AbortStep(r) BY <1>1, <1>4, SameWorkersFresh DEF AbortStep, storeVars
  <1> QED BY <1>2, <1>3, <1>4 DEF ReconcilerStep, ReconcileStep

LEMMA IngestorFresh ==
    ASSUME CPInv, SamplesMatchTotals,
           NEW i \in Ingestors, IngestorAtWork(i), IngestorStep(i)
    PROVE  WorkersFresh
  <1>1. StoreInv /\ StoreSample(i) BY DEF CPInv, IngestorStep
  <1>2. PICK w, record : w = ingest[i].worker /\ record = ingest[i].record
    OBVIOUS
  <1>3. PICK sample \in Samples : record = AppliedSample(workers[w], sample)
    BY <1>2 DEF IngestorAtWork
  <1>4. /\ w \in DOMAIN workers /\ UpdateWorker(w, record)
        /\ record.total = workers[w].total
    BY <1>1, <1>2 DEF StoreSample, IngestorAtWork, SamplesMatchTotals
  <1>5. workers[w] \in WorkerType /\ sample \in SampleType
    BY <1>1, <1>4, StoredTypes, SamplesAssumption
  <1>6. record.avail <= workers[w].avail BY <1>3, <1>5, AppliedFields
  <1> QED BY <1>1, <1>4, <1>6, StoredFresh

LEMMA SimulatorFresh ==
    ASSUME CPInv, SimulatorAgrees, SimulatorProceeds
    PROVE  CompletionFresh /\ CompletionUndisturbed /\ WorkersFresh
  <1>0. StoreInv BY DEF CPInv
  <1>1. CompletionFresh BY FreedWorker DEF CompletionFresh, SimulatorAgrees, FreeWorker
  <1>2. CompletionUndisturbed
    BY DEF CompletionUndisturbed, SimulatorProceeds, StartSimulator, SimulatorStep,
       SendHeartbeat, Forget, ReadWorkload, Due, ReadWorker, Abandon, FreeWorker
  <1>3. CASE SendHeartbeat(now)
    <2>1. PICK w \in DOMAIN sim.updates :
              UpdateWorker(w, [sim.updates[w] EXCEPT !.heartbeat = now])
      BY <1>3 DEF SendHeartbeat
    <2>2. w \in DOMAIN workers /\ sim.updates[w] = workers[w]
      BY <1>3 DEF SendHeartbeat, SimulatorAgrees
    <2>3. PICK record :
              /\ UpdateWorker(w, record)
              /\ record = [workers[w] EXCEPT !.heartbeat = now]
      BY <2>1, <2>2
    <2>4. workers[w] \in WorkerType /\ workers[w].avail \in Nat
      BY <1>0, <2>2, StoredTypes, WorkerNumbers
    <2>5. record.total = workers[w].total /\ record.avail = workers[w].avail
      BY <2>3, <2>4, HeartbeatFields
    <2>6. record.avail <= workers[w].avail BY <2>4, <2>5
    <2>7. WorkersFresh BY <1>0, <2>2, <2>3, <2>5, <2>6, StoredFresh
    <2> QED BY <1>1, <1>2, <2>7
  <1>4. CASE FreeWorker BY <1>1, <1>2, <1>4 DEF WorkersFresh
  <1>5. CASE workers' = workers BY <1>0, <1>1, <1>2, <1>5, SameWorkersFresh
  <1> QED
    BY <1>3, <1>4, <1>5
    DEF SimulatorProceeds, StartSimulator, SimulatorStep, Forget, ReadWorkload,
        ReadWorker, Abandon, Complete, UpdateWorkload, storeVars

LEMMA TurnIsFresh ==
    TurnInv /\ SamplesMatchTotals /\ [SerialNext]_vars /\ [PlacedLeftAlone]_vars
        => [FreshWrites]_vars
  <1> SUFFICES ASSUME TurnInv, SamplesMatchTotals, SerialNext, PlacedLeftAlone
               PROVE  CompletionFresh /\ CompletionUndisturbed /\ WorkersFresh
    BY DEF FreshWrites
  <1>0. CPInv /\ StoreInv /\ InTurn BY DEF TurnInv, CPInv
  <1>1. CASE Quiet
    <2>1. CompletionFresh /\ CompletionUndisturbed BY <1>1, QuietIs, RestIsFresh
    <2>2. ~ Continue
      BY <1>1, QuietIs, PlacerStands, ReconcilerStands, IngestorStands, SimulatorStands
      DEF Continue, PlacersRest, ReconcilersRest, IngestorsRest
    <2>3. CASE Start \/ Tick
      <3>1. workers' = workers
        BY <2>3
        DEF Start, PassStarts, StartPass, PlaceStarts, StartPlace, ReconcileStarts,
            StartReconcile, IngestStarts, StartIngest, SimulatorTicks, SimulatorTick,
            Tick, storeVars
      <3> QED BY <1>0, <2>1, <3>1, SameWorkersFresh
    <2>4. CASE Client BY <1>0, <2>1, <2>4, ClientFresh
    <2> QED BY <2>2, <2>3, <2>4 DEF SerialNext
  <1>2. CASE ~ Quiet
    <2>1. CASE \E p \in Placers : PlacerAtWork(p)
      <3>1. PICK p \in Placers : PlacerAtWork(p) BY <2>1
      <3>2. PlacerStep(p) BY <1>2, <3>1, StepOfPlacer
      <3>3. UNCHANGED storeVars \/ Place BY <1>0, <3>2, PlacerCall
      <3>4. WorkersFresh
        BY <1>0, <3>3, PlaceReleaseFresh, SameWorkersFresh DEF storeVars
      <3> QED BY <3>1, <3>4, RestIsFresh DEF PlacerAtWork
    <2>2. CASE \E r \in Reconcilers : ReconcilerAtWork(r)
      <3>1. PICK r \in Reconcilers : ReconcilerAtWork(r) BY <2>2
      <3>2. ReconcilerStep(r) BY <1>2, <3>1, StepOfReconciler
      <3> QED BY <1>0, <3>1, <3>2, ReconcilerFresh, RestIsFresh DEF ReconcilerAtWork
    <2>3. CASE \E i \in Ingestors : IngestorAtWork(i)
      <3>1. PICK i \in Ingestors : IngestorAtWork(i) BY <2>3
      <3>2. IngestorStep(i) BY <1>2, <3>1, StepOfIngestor
      <3> QED BY <1>0, <3>1, <3>2, IngestorFresh, RestIsFresh DEF IngestorAtWork
    <2>4. CASE SimulatorAtWork
      <3>1. SimulatorProceeds BY <1>2, <2>4, StepOfSimulator
      <3> QED BY <1>0, <2>4, <3>1, SimulatorFresh DEF SimulatorAtWork
    <2> QED BY <1>0, <1>2, <2>1, <2>2, <2>3, <2>4 DEF InTurn
  <1> QED BY <1>1, <1>2

(***************************************************************************)
(* Operations that take turns keep the reservation ledger, in every        *)
(* cluster in which operators leave placed workloads alone and samples     *)
(* agree with the registered totals: what each commit takes is returned    *)
(* once and in full by a release or a completion, and no heartbeat, health *)
(* update, sample or drain makes memory free.                              *)
(***************************************************************************)
THEOREM LedgerKeptInTurn ==
    SerialSpec /\ [][PlacedLeftAlone]_vars /\ []SamplesMatchTotals
        => ControlPlaneKeepsLedger
  <1>1. [SerialNext]_vars => [ConcurrentNext]_vars BY SerialStepConcurrent
  <1>2. TurnInv /\ SamplesMatchTotals /\ [SerialNext]_vars /\ [PlacedLeftAlone]_vars
            => [FreshWrites]_vars
    BY TurnIsFresh
  <1> QED
    BY <1>1, <1>2, AlwaysTurnInv, FreshWritesKeepLedger, PTL
    DEF SerialSpec, ConcurrentSpec
=============================================================================
