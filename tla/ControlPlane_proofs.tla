------------------------ MODULE ControlPlane_proofs -------------------------
(***************************************************************************)
(* Theorems about ControlPlane: what holds however its components          *)
(* interleave, for any number of loops, callers, reconcilers, ingestors,   *)
(* workers and workloads.                                                  *)
(***************************************************************************)
EXTENDS ControlPlane, Scheduler_proofs

(***************************************************************************)
(* The inductive invariant: what is stored would validate again, and what  *)
(* the actors hold between two calls are records of the types, which the   *)
(* store only has to validate when they come back.                         *)
(***************************************************************************)
PlacerOK == placer \in [Placers -> PlacerType]

\* What AfterFailure makes of a workload.
FailureTargets == {"RECOVERING", "FAILED"}

PassOK(pass) ==
    /\ DOMAIN pass = {"updates", "releases"}
    /\ \A w \in DOMAIN pass.updates : pass.updates[w] \in WorkerType
    /\ \A x \in DOMAIN pass.releases : pass.releases[x] \in FailureTargets

ReconOK == DOMAIN recon = Reconcilers /\ \A r \in Reconcilers : PassOK(recon[r])

SampleOK(held) == held # NoSample => held.record \in WorkerType

IngestOK == DOMAIN ingest = Ingestors /\ \A i \in Ingestors : SampleOK(ingest[i])

SimFields == {"at", "updates", "due", "job", "workload", "worker"}

SimOK == DOMAIN sim = SimFields /\ SimulatorTypeOK

ClockOK == now \in 1 .. MaxTime

ActorsOK == PlacerOK /\ ReconOK /\ IngestOK /\ SimOK

\* Workers are never removed, so that a placed workload is on a worker there is.
PlacedSomewhere ==
    \A x \in DOMAIN workloads :
        workloads[x].state \in PlacedStates => workloads[x].assigned \in DOMAIN workers

CPInv == StoreInv /\ PlacedSomewhere /\ ActorsOK /\ ClockOK

\* What becomes of a workload: it stays as it is, is placed while it waits, is
\* taken off its worker by reconciliation, or is over from then on, as the
\* simulator stores it or on a worker as before, or on none.
WorkloadStep(x) ==
    \/ workloads'[x] = workloads[x]
    \/ /\ workloads[x].state \in SchedulableStates
       /\ workloads'[x].state = "PLACED"
       /\ workloads'[x].assigned \in DOMAIN workers
    \/ /\ workloads[x].state \in PlacedStates
       /\ workloads'[x].state \in FailureTargets
       /\ workloads'[x].assigned = NoWorker
    \/ /\ Over(workloads'[x])
       /\ \/ workloads'[x].assigned \in {workloads[x].assigned, NoWorker}
          \/ Complete /\ x = sim.job

\* What every step of every component does to the store: nothing is deleted, no
\* workload moves in another way, and a new one is not placed.
StoreStep ==
    /\ DOMAIN workers \subseteq DOMAIN workers'
    /\ DOMAIN workloads \subseteq DOMAIN workloads'
    /\ \A x \in DOMAIN workloads : WorkloadStep(x)
    /\ \A x \in DOMAIN workloads' \ DOMAIN workloads :
          workloads'[x].state \notin PlacedStates /\ workloads'[x].assigned = NoWorker

-----------------------------------------------------------------------------
(***************************************************************************)
(* The operators of the components.                                        *)
(***************************************************************************)
LEMMA NowIsNat == ClockOK => now \in Nat
  BY ClockAssumption DEF ClockOK

LEMMA HealthIsState ==
    ASSUME NEW worker \in WorkerType, NEW t
    PROVE  EvaluateWorkerHealth(worker, t) \in WorkerStates
  BY DEF EvaluateWorkerHealth, WorkerStates

LEMMA WorkerSetState ==
    ASSUME NEW worker \in WorkerType, NEW s \in WorkerStates
    PROVE  [worker EXCEPT !.state = s] \in WorkerType
  BY DEF WorkerType

LEMMA WorkerSetHeartbeat ==
    ASSUME NEW worker \in WorkerType, NEW t \in Nat
    PROVE  [worker EXCEPT !.heartbeat = t] \in WorkerType
  BY DEF WorkerType

LEMMA AppliedSampleType ==
    ASSUME NEW worker \in WorkerType, NEW sample \in SampleType
    PROVE  AppliedSample(worker, sample) \in WorkerType
  BY DEF AppliedSample, WorkerType, SampleType

LEMMA WorkerAfterType ==
    ASSUME NEW worker \in WorkerType, NEW workload \in WorkloadType
    PROVE  WorkerAfter(worker, workload) \in WorkerType
  <1>1. /\ worker.total \in Nat /\ worker.avail \in Nat /\ worker.active \in Int
        /\ workload.required \in Nat
    BY DEF WorkerType, WorkloadType
  <1> DEFINE a == IF worker.avail + workload.required > worker.total
                  THEN worker.total ELSE worker.avail + workload.required
             c == IF worker.active > 0 THEN worker.active - 1 ELSE worker.active
  <1>2. a \in Nat /\ c \in Int BY <1>1
  <1>3. WorkerAfter(worker, workload) = [worker EXCEPT !.avail = a, !.active = c]
    BY DEF WorkerAfter
  <1> HIDE DEF a, c
  <1>4. [worker EXCEPT !.avail = a, !.active = c] \in WorkerType
    BY <1>2 DEF WorkerType
  <1> QED BY <1>3, <1>4

LEMMA WorkerAfterFields ==
    ASSUME NEW worker \in WorkerType, NEW workload \in WorkloadType
    PROVE  LET new == WorkerAfter(worker, workload)
           IN  /\ new.state = worker.state /\ new.total = worker.total
               /\ new.avail = IF worker.avail + workload.required > worker.total
                              THEN worker.total
                              ELSE worker.avail + workload.required
               /\ new.active = IF worker.active > 0
                               THEN worker.active - 1 ELSE worker.active
  BY DEF WorkerAfter, WorkerType, WorkloadType

LEMMA StoredTypes ==
    ASSUME StoreInv
    PROVE  /\ \A w \in DOMAIN workers : w \in Workers /\ workers[w] \in WorkerType
           /\ \A x \in DOMAIN workloads :
                 x \in Workloads /\ workloads[x] \in WorkloadType
  BY DEF StoreInv, TypeOK

\* A call of UpdateWorker with any record of the type keeps the store's
\* invariant, because the store validates it; so does UpdateWorkload.
LEMMA StoreInvUpdateWorker ==
    ASSUME StoreInv, NEW w, NEW record \in WorkerType, UpdateWorker(w, record)
    PROVE  StoreInv'
  BY StoredTypes, StoreInvPutWorker DEF UpdateWorker, UpdateWorkerAllowed

LEMMA StoreInvUpdateWorkload ==
    ASSUME StoreInv, NEW x, NEW record \in WorkloadType, UpdateWorkload(x, record)
    PROVE  StoreInv'
  BY StoredTypes, StoreInvPutWorkload DEF UpdateWorkload

LEMMA StoreInvStays ==
    ASSUME StoreInv, UNCHANGED storeVars
    PROVE  StoreInv'
  BY DEF StoreInv, TypeOK, StoredRecordsValid, storeVars
-----------------------------------------------------------------------------
(***************************************************************************)
(* The initial states.                                                     *)
(***************************************************************************)
\* A seeded worker that runs the workload it was given.
Loaded(worker, workload) ==
    [worker EXCEPT !.avail = @ - workload.required, !.active = 1]

LEMMA LoadedValid ==
    ASSUME NEW worker \in WorkerType, ValidateWorker(worker),
           worker.avail = worker.total,
           NEW workload \in WorkloadType, workload.required <= worker.total
    PROVE  Loaded(worker, workload) \in WorkerType
           /\ ValidateWorker(Loaded(worker, workload))
  <1> DEFINE a == worker.avail - workload.required
  <1>1. a \in 0 .. worker.total BY DEF WorkerType, WorkloadType
  <1>2. Loaded(worker, workload) = [worker EXCEPT !.avail = a, !.active = 1]
    BY DEF Loaded
  <1> HIDE DEF a
  <1>3. 1 \in Int OBVIOUS
  <1>4. /\ [worker EXCEPT !.avail = a, !.active = 1] \in WorkerType
        /\ ValidateWorker([worker EXCEPT !.avail = a, !.active = 1])
    BY <1>1, <1>3, WorkerEdit
  <1> QED BY <1>2, <1>4

LEMMA SeededStoreInv == SeededStore => StoreInv
  <1> SUFFICES ASSUME NEW worker \in WorkerRecords,
                      NEW job \in [Seeded -> WorkloadRecords],
                      NEW on \in [Seeded -> SeededWorkers],
                      worker.avail = worker.total, ValidateWorker(worker),
                      \A x \in Seeded : /\ job[x].required <= worker.total
                                        /\ ValidateWorkload(job[x]),
                      workers = [w \in SeededWorkers |->
                        IF \E x \in Seeded : on[x] = w
                        THEN Loaded(worker, job[CHOOSE y \in Seeded : on[y] = w])
                        ELSE worker],
                      workloads = [x \in Seeded |->
                        [job[x] EXCEPT !.assigned = on[x], !.state = "RUNNING"]]
               PROVE  StoreInv
    BY Zenon DEF SeededStore, Loaded
  <1>1. worker \in WorkerType BY RecordsAssumption
  <1>2. \A x \in Seeded : job[x] \in WorkloadType BY RecordsAssumption
  <1>3. \A x \in Seeded : Loaded(worker, job[x]) \in WorkerType
                          /\ ValidateWorker(Loaded(worker, job[x]))
    BY <1>1, <1>2, LoadedValid
  <1>4. ASSUME NEW w \in DOMAIN workers
        PROVE  workers[w] \in WorkerType /\ ValidateWorker(workers[w])
    <2>1. CASE \E x \in Seeded : on[x] = w
      <3>1. PICK y \in Seeded : workers[w] = Loaded(worker, job[y])
        BY <2>1, Zenon
      <3> QED BY <3>1, <1>3
    <2>2. CASE ~ \E x \in Seeded : on[x] = w
      <3>1. workers[w] = worker BY <2>2
      <3> QED BY <3>1, <1>1
    <2> QED BY <2>1, <2>2
  <1>5. ASSUME NEW x \in Seeded
        PROVE  LET run == [job[x] EXCEPT !.assigned = on[x], !.state = "RUNNING"]
               IN  run \in WorkloadType /\ ValidateWorkload(run)
    <2>1. on[x] \in Workers BY SeedAssumption
    <2>2. on[x] # NoWorker BY <2>1, WorkersAssumption
    <2>3. job[x] \in WorkloadType /\ ValidateWorkload(job[x])
      BY <1>2
    <2>4. "RUNNING" \in WorkloadStates BY DEF WorkloadStates
    <2> QED BY <2>1, <2>2, <2>3, <2>4, WorkloadEdit
  <1>6. \A x \in DOMAIN workloads :
            workloads[x] \in WorkloadType /\ ValidateWorkload(workloads[x])
    BY <1>5
  <1>7. DOMAIN workers \subseteq Workers /\ DOMAIN workloads \subseteq Workloads
    BY SeedAssumption
  <1>8. /\ workers = [w \in DOMAIN workers |-> workers[w]]
        /\ workloads = [x \in DOMAIN workloads |-> workloads[x]]
    OBVIOUS
  <1>9. /\ workers \in [DOMAIN workers -> WorkerType]
        /\ workloads \in [DOMAIN workloads -> WorkloadType]
    BY <1>4, <1>6, <1>8, Zenon
  <1> QED BY <1>4, <1>6, <1>7, <1>9, Zenon DEF StoreInv, TypeOK, StoredRecordsValid

LEMMA SeededOnSeeded ==
    ASSUME SeededStore, NEW x \in DOMAIN workloads
    PROVE  workloads[x].assigned \in DOMAIN workers
  <1>1. PICK job \in [Seeded -> WorkloadRecords], on \in [Seeded -> SeededWorkers] :
            /\ DOMAIN workers = SeededWorkers
            /\ workloads = [y \in Seeded |->
                  [job[y] EXCEPT !.assigned = on[y], !.state = "RUNNING"]]
    BY Zenon DEF SeededStore
  <1>2. x \in Seeded BY <1>1
  <1>3. job[x] \in WorkloadType BY <1>2, RecordsAssumption
  <1>4. workloads[x].assigned = on[x] BY <1>1, <1>2, <1>3 DEF WorkloadType
  <1> QED BY <1>1, <1>2, <1>4

LEMMA InitCPInv == Init => CPInv
  <1> SUFFICES ASSUME Init PROVE CPInv OBVIOUS
  <1>1. StoreInv BY SeededStoreInv DEF Init, SimulatorInit
  <1>2. PlacerOK
    <2>1. Idle \in PlacerType BY DEF Idle, PlacerType, NoWorkload
    <2> QED BY <2>1 DEF Init, PlacerOK
  <1>3. ReconOK
    BY DEF Init, ReconcilerInit, ReconOK, PassOK, NoPass
  <1>4. IngestOK
    BY DEF Init, IngestorInit, IngestOK, SampleOK
  <1>5. SimOK
    <2>1. PICK at \in {"start", "stopped"} : sim = [Resting EXCEPT !.at = at]
      BY Zenon DEF Init, SimulatorInit
    <2>2. /\ DOMAIN sim = SimFields
          /\ sim.updates = <<>> /\ sim.due = {} /\ sim.at = at
      BY <2>1 DEF Resting, SimFields
    <2>3. DOMAIN active = {} /\ DOMAIN sim.updates = {}
      BY <2>2 DEF Init, SimulatorInit
    <2> QED BY <2>2, <2>3 DEF SimOK, SimulatorTypeOK
  <1>6. ClockOK BY ClockAssumption DEF Init, ClockOK
  <1>7. PlacedSomewhere
    BY Zenon, SeededOnSeeded DEF Init, SimulatorInit, PlacedSomewhere
  <1> QED BY <1>1, <1>2, <1>3, <1>4, <1>5, <1>6, <1>7 DEF CPInv, ActorsOK

-----------------------------------------------------------------------------
(***************************************************************************)
(* What one step of each component does, given the types of what the actor *)
(* and the store hold.                                                     *)
(***************************************************************************)
LEMMA PlaceStoreStep == StoreInv /\ Place => StoreStep
  <1> SUFFICES ASSUME StoreInv, NEW x \in Workloads, NEW w \in Workers,
                      CommitPlacement(x, w)
               PROVE  StoreStep
    BY DEF Place
  <1>1. workloads[x].state \in SchedulableStates
    BY DEF CommitPlacement, CommitAllowed
  <1>2. /\ x \in DOMAIN workloads /\ w \in DOMAIN workers
        /\ DOMAIN workers' = DOMAIN workers
        /\ DOMAIN workloads' = DOMAIN workloads
        /\ \A y \in DOMAIN workloads : y # x => workloads'[y] = workloads[y]
    BY CommitFields
  <1>3. workloads'[x].state = "PLACED" /\ workloads'[x].assigned = w
    BY CommitFields
  <1> QED BY <1>1, <1>2, <1>3 DEF StoreStep, WorkloadStep

LEMMA ReleaseStoreStep ==
    ASSUME StoreInv, NEW x \in Workloads, NEW next \in FailureTargets,
           ReleasePlacement(x, next)
    PROVE  StoreStep
  <1>0. next \in ReleaseTargets BY DEF FailureTargets, ReleaseTargets
  <1>1. /\ workloads[x].state \in PlacedStates
        /\ DOMAIN workers' = DOMAIN workers
        /\ DOMAIN workloads' = DOMAIN workloads
        /\ \A y \in DOMAIN workloads : y # x => workloads'[y] = workloads[y]
        /\ workloads'[x].state = next /\ workloads'[x].assigned = NoWorker
    BY <1>0, ReleaseFields
  <1> QED BY <1>1 DEF StoreStep, WorkloadStep

LEMMA UpdateWorkerStoreStep ==
    ASSUME NEW w, NEW record, UpdateWorker(w, record)
    PROVE  StoreStep
  BY DEF UpdateWorker, Put, StoreStep, WorkloadStep

\* A workload may be declared over by anybody.
LEMMA OverStoreStep ==
    ASSUME NEW x, NEW record, UpdateWorkload(x, record), Over(record),
           \/ record.assigned \in {workloads[x].assigned, NoWorker}
           \/ Complete /\ x = sim.job
    PROVE  StoreStep
  BY DEF UpdateWorkload, Put, StoreStep, WorkloadStep

LEMMA UnchangedStoreStep == UNCHANGED storeVars => StoreStep
  BY DEF storeVars, StoreStep, WorkloadStep

LEMMA PlacedSomewhereStep ==
    PlacedSomewhere /\ StoreStep => PlacedSomewhere'
  <1> SUFFICES ASSUME PlacedSomewhere, StoreStep, NEW x \in DOMAIN workloads',
                      workloads'[x].state \in PlacedStates
               PROVE  workloads'[x].assigned \in DOMAIN workers'
    BY DEF PlacedSomewhere
  <1>1. x \in DOMAIN workloads /\ DOMAIN workers \subseteq DOMAIN workers'
    BY DEF StoreStep
  <1>2. ~ Over(workloads'[x]) /\ workloads'[x].state \notin FailureTargets
    BY DEF Over, PlacedStates, FailureTargets
  <1>3. CASE workloads'[x] = workloads[x] BY <1>1, <1>3 DEF PlacedSomewhere
  <1>4. CASE workloads'[x].assigned \in DOMAIN workers BY <1>1, <1>4
  <1> QED BY <1>1, <1>2, <1>3, <1>4 DEF StoreStep, WorkloadStep

LEMMA ClientStep == StoreInv /\ Client => StoreInv' /\ StoreStep
  <1> SUFFICES ASSUME StoreInv, AddWorker \/ SubmitWorkload \/ Drain \/ Override
               PROVE  StoreInv' /\ StoreStep
    BY DEF Client
  <1>1. CASE AddWorker
    <2>1. PICK w \in Workers, record \in WorkerRecords : RegisterWorker(w, record)
      BY <1>1 DEF AddWorker, RegisterIdleWorker
    <2> QED
      BY <2>1, StoreInvPutWorker, RecordsAssumption
      DEF RegisterWorker, Put, StoreStep, WorkloadStep
  <1>2. CASE SubmitWorkload
    <2>1. PICK x \in Workloads, record \in WorkloadRecords :
              /\ CreateWorkload(x, record)
              /\ record.state \notin PlacedStates /\ record.assigned = NoWorker
      BY <1>2 DEF SubmitWorkload, CreateUnplaced
    <2>2. StoreInv'
      BY <2>1, StoreInvPutWorkload, RecordsAssumption DEF CreateWorkload
    <2> QED BY <2>1, <2>2 DEF CreateWorkload, Put, StoreStep, WorkloadStep
  <1>3. CASE Drain
    <2>1. PICK w \in DOMAIN workers :
              UpdateWorker(w, [workers[w] EXCEPT !.state = "DRAINING"])
      BY <1>3 DEF Drain
    <2>2. "DRAINING" \in WorkerStates BY DEF WorkerStates
    <2>3. [workers[w] EXCEPT !.state = "DRAINING"] \in WorkerType
      BY <2>2, StoredTypes, WorkerSetState
    <2> QED BY <2>1, <2>3, StoreInvUpdateWorker, UpdateWorkerStoreStep
  <1>4. CASE Override
    <2>1. PICK x \in DOMAIN workloads, o \in Overrides :
              UpdateWorkload(x, [workloads[x] EXCEPT
                  !.state = o.state,
                  !.assigned = IF o.cleared THEN NoWorker ELSE @])
      BY <1>4 DEF Override
    <2> DEFINE a == IF o.cleared THEN NoWorker ELSE workloads[x].assigned
    <2>2. workloads[x] \in WorkloadType BY StoredTypes
    <2>3. a \in Workers \cup {NoWorker} BY <2>2 DEF WorkloadType
    <2>4. o.state \in WorkloadStates BY OverridesAssumption DEF WorkloadStates
    <2> HIDE DEF a
    <2> DEFINE record == [workloads[x] EXCEPT !.state = o.state, !.assigned = a]
    <2>5. record \in WorkloadType /\ record.state = o.state /\ record.assigned = a
      BY <2>2, <2>3, <2>4 DEF WorkloadType
    <2>6. UpdateWorkload(x, record) BY <2>1 DEF a
    <2>9. a \in {workloads[x].assigned, NoWorker} BY DEF a
    <2> HIDE DEF record
    <2>7. Over(record) BY <2>5, OverridesAssumption DEF Over
    <2>8. StoreStep BY <2>5, <2>6, <2>7, <2>9, OverStoreStep
    <2> QED BY <2>5, <2>6, <2>8, StoreInvUpdateWorkload
  <1> QED BY <1>1, <1>2, <1>3, <1>4

LEMMA PlacerStepInv ==
    ASSUME StoreInv, PlacerOK, PlacerNext
    PROVE  StoreInv' /\ StoreStep /\ PlacerOK'
  <1>1. PlacerOK' BY PlacerTypeStep DEF PlacerOK, StoreInv
  <1>2. Place \/ UNCHANGED storeVars
    <2>1. PICK p \in Placers :
              \/ StartPass(p)
              \/ \E x \in Workloads : StartPlace(p, x)
              \/ Proceed(p)
      BY DEF PlacerNext
    <2>2. CASE Commit(p)
      <3>1. CommitPlacement(placer[p].workload, placer[p].worker)
        BY <2>2 DEF Commit
      <3>2. placer[p].workload \in Workloads /\ placer[p].worker \in Workers
        BY <3>1, StoredTypes DEF CommitPlacement, CommitAllowed
      <3> QED BY <3>1, <3>2 DEF Place
    <2> QED
      BY <2>1, <2>2
      DEF StartPass, StartPlace, Proceed, Choose, NoneEligible, Refuse, Conflict
  <1> QED
    BY <1>1, <1>2, StoreInvPlace, StoreInvStays, PlaceStoreStep, UnchangedStoreStep

LEMMA WithoutShrinks ==
    ASSUME NEW f, NEW k
    PROVE  /\ DOMAIN Without(f, k) \subseteq DOMAIN f
           /\ \A j \in DOMAIN Without(f, k) : Without(f, k)[j] = f[j]
  BY DEF Without

LEMMA ReconcilePassOK ==
    ASSUME StoreInv, NEW t
    PROVE  PassOK(PassAt(t))
  <1>1. ASSUME NEW w \in DOMAIN HealthUpdates(t)
        PROVE  HealthUpdates(t)[w] \in WorkerType
    <2> DEFINE h == EvaluateWorkerHealth(workers[w], t)
    <2>1. w \in DOMAIN workers /\ HealthUpdates(t)[w] = [workers[w] EXCEPT !.state = h]
      BY DEF HealthUpdates
    <2>2. workers[w] \in WorkerType BY <2>1, StoredTypes
    <2>3. h \in WorkerStates BY <2>2, HealthIsState
    <2> HIDE DEF h
    <2> QED BY <2>1, <2>2, <2>3, WorkerSetState
  <1>2. \A x : AfterFailure(workloads[x]) \in FailureTargets
    BY DEF AfterFailure, FailureTargets
  <1> QED BY <1>1, <1>2 DEF PassOK, PassAt

LEMMA ReconcilerStepInv ==
    ASSUME StoreInv, ReconOK, NEW r \in Reconcilers,
           ReconcileStep(r) \/ StartReconcile(r, now)
    PROVE  StoreInv' /\ StoreStep /\ ReconOK'
  <1>0. DOMAIN recon = Reconcilers /\ \A s \in Reconcilers : PassOK(recon[s])
    BY DEF ReconOK
  <1>1. PassOK(NoPass) BY DEF NoPass, PassOK
  <1>2. ASSUME NEW pass, PassOK(pass), recon' = [recon EXCEPT ![r] = pass]
        PROVE  ReconOK'
    <2>1. \A s \in Reconcilers : PassOK(recon'[s]) BY <1>0, <1>2
    <2> QED BY <1>0, <1>2, <2>1 DEF ReconOK, PassOK
  <1>3. CASE StartReconcile(r, now)
    BY <1>2, <1>3, ReconcilePassOK, StoreInvStays, UnchangedStoreStep
    DEF StartReconcile
  <1>4. CASE UpdateStep(r)
    <2>1. PICK w \in DOMAIN recon[r].updates :
              /\ UpdateWorker(w, recon[r].updates[w])
              /\ recon' = [recon EXCEPT ![r].updates = Without(@, w)]
      BY <1>4 DEF UpdateStep
    <2> DEFINE pass == [recon[r] EXCEPT !.updates = Without(recon[r].updates, w)]
    <2>2. recon' = [recon EXCEPT ![r] = pass] BY <2>1
    <2>3. PassOK(pass) BY <1>0, WithoutShrinks DEF PassOK
    <2>4. recon[r].updates[w] \in WorkerType BY <1>0 DEF PassOK
    <2> HIDE DEF pass
    <2> QED
      BY <1>2, <2>1, <2>2, <2>3, <2>4, StoreInvUpdateWorker, UpdateWorkerStoreStep
  <1>5. CASE ReleaseStep(r)
    <2>1. PICK x \in DOMAIN recon[r].releases :
              /\ ReleasePlacement(x, recon[r].releases[x])
              /\ recon' = [recon EXCEPT ![r].releases = Without(@, x)]
      BY <1>5 DEF ReleaseStep
    <2> DEFINE pass == [recon[r] EXCEPT !.releases = Without(recon[r].releases, x)]
    <2>2. recon' = [recon EXCEPT ![r] = pass] BY <2>1
    <2>3. PassOK(pass) BY <1>0, WithoutShrinks DEF PassOK
    <2>4. x \in Workloads /\ recon[r].releases[x] \in FailureTargets
      BY <1>0, <2>1, StoredTypes
      DEF PassOK, ReleasePlacement, ReleaseAllowed, HoldsReservation
    <2>5. Release BY <2>1, <2>4 DEF Release, FailureTargets, ReleaseTargets
    <2>6. StoreStep BY <2>1, <2>4, ReleaseStoreStep
    <2> HIDE DEF pass
    <2> QED BY <1>2, <2>2, <2>3, <2>5, <2>6, StoreInvRelease
  <1>6. CASE AbortStep(r)
    BY <1>1, <1>2, <1>6, StoreInvStays, UnchangedStoreStep DEF AbortStep
  <1> QED BY <1>3, <1>4, <1>5, <1>6 DEF ReconcileStep

LEMMA IngestorStepInv ==
    ASSUME StoreInv, IngestOK, NEW i \in Ingestors,
           StoreSample(i) \/ \E sample \in Samples : StartIngest(i, sample, now)
    PROVE  StoreInv' /\ StoreStep /\ IngestOK'
  <1>0. DOMAIN ingest = Ingestors /\ \A j \in Ingestors : SampleOK(ingest[j])
    BY DEF IngestOK
  <1>1. ASSUME NEW held, SampleOK(held), ingest' = [ingest EXCEPT ![i] = held]
        PROVE  IngestOK'
    <2>1. \A j \in Ingestors : SampleOK(ingest'[j]) BY <1>0, <1>1
    <2> QED BY <1>0, <1>1, <2>1 DEF IngestOK, SampleOK
  <1>2. CASE StoreSample(i)
    <2>1. ingest[i].record \in WorkerType
      BY <1>0, <1>2 DEF StoreSample, SampleOK
    <2>2. SampleOK(NoSample) BY DEF SampleOK
    <2> QED
      BY <1>1, <1>2, <2>1, <2>2, StoreInvUpdateWorker, UpdateWorkerStoreStep
      DEF StoreSample
  <1>3. CASE \E sample \in Samples : StartIngest(i, sample, now)
    <2>1. PICK sample \in Samples : StartIngest(i, sample, now) BY <1>3
    <2> DEFINE record == AppliedSample(workers[sample.worker], sample)
    <2>2. record \in WorkerType
      BY <2>1, StoredTypes, SamplesAssumption, AppliedSampleType DEF StartIngest
    <2>3. ingest' = [ingest EXCEPT ![i] = [worker |-> sample.worker, record |-> record]]
      BY <2>1 DEF StartIngest
    <2>4. StoreInv' /\ StoreStep
      BY <2>1, StoreInvStays, UnchangedStoreStep DEF StartIngest
    <2> HIDE DEF record
    <2>5. SampleOK([worker |-> sample.worker, record |-> record])
      BY <2>2 DEF SampleOK
    <2> QED BY <1>1, <2>3, <2>4, <2>5
  <1> QED BY <1>2, <1>3

LEMMA RestingFields ==
    /\ DOMAIN Resting = SimFields
    /\ Resting.at = "loop" /\ Resting.due = {} /\ DOMAIN Resting.updates = {}
  <1>1. /\ DOMAIN Resting = SimFields
        /\ Resting.at = "loop" /\ Resting.due = {} /\ Resting.updates = <<>>
    BY DEF Resting, SimFields
  <1> QED BY <1>1

LEMMA SimulatorTickInv ==
    ASSUME StoreInv, SimOK, NEW t, SimulatorTick(t)
    PROVE  UNCHANGED storeVars /\ SimOK'
  <1>1. UNCHANGED storeVars /\ active' = active
    BY DEF SimulatorTick, storeVars
  <1>2. /\ DOMAIN sim = SimFields
        /\ DOMAIN active \subseteq DOMAIN workloads
        /\ sim.at = "loop"
    BY RestingFields DEF SimulatorTick, SimOK, SimulatorTypeOK
  <1>3. /\ DOMAIN sim' = SimFields
        /\ sim'.at = "loop" /\ sim'.updates = workers
        /\ sim'.due \subseteq DOMAIN active
    BY <1>2 DEF SimulatorTick, SimFields
  <1> QED
    BY <1>1, <1>2, <1>3, StoredTypes DEF SimOK, SimulatorTypeOK, storeVars

LEMMA StartSimulatorInv ==
    ASSUME StoreInv, StartSimulator
    PROVE  UNCHANGED storeVars /\ SimOK'
  <1>1. UNCHANGED storeVars BY DEF StartSimulator
  <1>2. DOMAIN active' \subseteq DOMAIN workloads'
    BY <1>1 DEF StartSimulator, storeVars
  <1>3. sim' = Resting BY DEF StartSimulator
  <1> QED BY <1>1, <1>2, <1>3, RestingFields DEF SimOK, SimulatorTypeOK

\* Of a step of the simulator: what it does to the store, ...
LEMMA SimulatorStepStore ==
    ASSUME StoreInv, SimOK, now \in Nat, SimulatorStep(now)
    PROVE  StoreInv' /\ StoreStep
  <1>1. CASE SendHeartbeat(now)
    <2>1. PICK w \in DOMAIN sim.updates :
              UpdateWorker(w, [sim.updates[w] EXCEPT !.heartbeat = now])
      BY <1>1 DEF SendHeartbeat
    <2>2. [sim.updates[w] EXCEPT !.heartbeat = now] \in WorkerType
      BY WorkerSetHeartbeat DEF SimOK, SimulatorTypeOK
    <2> QED BY <2>1, <2>2, StoreInvUpdateWorker, UpdateWorkerStoreStep
  <1>2. CASE FreeWorker
    <2>1. sim.worker \in WorkerType
      BY <1>2 DEF FreeWorker, SimOK, SimulatorTypeOK
    <2> QED
      BY <1>2, <2>1, StoreInvUpdateWorker, UpdateWorkerStoreStep DEF FreeWorker
  <1>3. CASE Complete
    <2> DEFINE done == [sim.workload EXCEPT !.state = "COMPLETED"]
    <2>1. sim.workload \in WorkloadType
      BY <1>3 DEF Complete, SimOK, SimulatorTypeOK
    <2>2. done \in WorkloadType /\ done.state = "COMPLETED"
      BY <2>1 DEF WorkloadType, WorkloadStates
    <2>3. UpdateWorkload(sim.job, done) BY <1>3 DEF Complete
    <2> HIDE DEF done
    <2>4. StoreInv' BY <2>2, <2>3, StoreInvUpdateWorkload
    <2>5. Over(done) BY <2>2 DEF Over
    <2> QED BY <1>3, <2>3, <2>4, <2>5, OverStoreStep
  <1>4. CASE UNCHANGED storeVars
    BY <1>4, StoreInvStays, UnchangedStoreStep
  <1> QED
    BY <1>1, <1>2, <1>3, <1>4
    DEF SimulatorStep, Forget, ReadWorkload, ReadWorker, Abandon, storeVars

\* ... and what it does next.
LEMMA SimulatorStepSim ==
    ASSUME StoreInv, SimOK, SimulatorStep(now),
           DOMAIN workloads \subseteq DOMAIN workloads'
    PROVE  SimOK'
  <1>0. /\ DOMAIN sim = SimFields
        /\ sim.at \in {"start", "loop", "read", "computed", "freed", "stopped"}
        /\ \A w \in DOMAIN sim.updates : sim.updates[w] \in WorkerType
        /\ sim.at \in {"read", "computed", "freed"} => sim.workload \in WorkloadType
        /\ sim.at \in {"computed", "freed"} => sim.worker \in WorkerType
        /\ sim.due \subseteq DOMAIN workloads
        /\ sim.due \subseteq DOMAIN workloads' /\ DOMAIN active \subseteq DOMAIN workloads'
    BY DEF SimOK, SimulatorTypeOK
  <1>1. CASE SendHeartbeat(now)
    <2>1. PICK w \in DOMAIN sim.updates :
              sim' = [sim EXCEPT !.updates = Without(@, w)]
      BY <1>1 DEF SendHeartbeat
    <2>2. /\ DOMAIN sim' = SimFields
          /\ sim'.updates = Without(sim.updates, w)
          /\ sim'.at = "loop" /\ sim'.due = sim.due
      BY <1>0, <1>1, <2>1 DEF SimFields, SendHeartbeat
    <2>3. active' = active BY <1>1 DEF SendHeartbeat
    <2> QED
      BY <1>0, <2>2, <2>3, WithoutShrinks DEF SimOK, SimulatorTypeOK
  <1>2. CASE \E x \in Workloads : Forget(x)
    <2>1. PICK x \in Workloads : Forget(x) BY <1>2
    <2>2. /\ DOMAIN sim' = SimFields /\ sim'.at = "loop"
          /\ sim'.updates = sim.updates /\ sim'.due \subseteq sim.due
      BY <1>0, <2>1 DEF Forget, Due, SimFields
    <2>3. DOMAIN active' \subseteq DOMAIN active
      BY <2>1, WithoutShrinks DEF Forget
    <2> QED BY <1>0, <2>2, <2>3 DEF SimOK, SimulatorTypeOK
  <1>3. CASE \E x \in Workloads : ReadWorkload(x)
    <2>1. PICK x \in Workloads : ReadWorkload(x) BY <1>3
    <2>2. active' = active BY <2>1 DEF ReadWorkload
    <2>3. workloads[x] \in WorkloadType
      BY <1>0, <2>1, StoredTypes DEF ReadWorkload, Due
    <2>4. /\ DOMAIN sim' = SimFields /\ sim'.at = "read"
          /\ sim'.updates = sim.updates /\ sim'.due = sim.due
          /\ sim'.workload = workloads[x]
      BY <1>0, <2>1 DEF ReadWorkload, SimFields
    <2> QED BY <1>0, <2>2, <2>3, <2>4 DEF SimOK, SimulatorTypeOK
  <1>4. CASE ReadWorker
    <2>1. active' = active BY <1>4 DEF ReadWorker
    <2>2. WorkerAfter(workers[sim.workload.assigned], sim.workload) \in WorkerType
      BY <1>0, <1>4, StoredTypes, WorkerAfterType DEF ReadWorker
    <2>3. /\ DOMAIN sim' = SimFields /\ sim'.at = "computed"
          /\ sim'.updates = sim.updates /\ sim'.due = sim.due
          /\ sim'.workload = sim.workload
          /\ sim'.worker = WorkerAfter(workers[sim.workload.assigned], sim.workload)
      BY <1>0, <1>4 DEF ReadWorker, SimFields
    <2> QED BY <1>0, <1>4, <2>1, <2>2, <2>3 DEF SimOK, SimulatorTypeOK, ReadWorker
  <1>5. CASE Abandon
    <2>1. active' = active BY <1>5 DEF Abandon
    <2>2. /\ DOMAIN sim' = SimFields /\ sim'.at = "stopped"
          /\ sim'.due = {} /\ DOMAIN sim'.updates = {}
      BY <1>5, RestingFields DEF Abandon, SimFields
    <2> QED BY <1>0, <2>1, <2>2 DEF SimOK, SimulatorTypeOK
  <1>6. CASE FreeWorker
    <2>1. /\ DOMAIN sim' = SimFields /\ sim'.at = "freed"
          /\ sim'.updates = sim.updates /\ sim'.due = sim.due
          /\ sim'.workload = sim.workload /\ sim'.worker = sim.worker
      BY <1>0, <1>6 DEF FreeWorker, SimFields
    <2>2. active' = active BY <1>6 DEF FreeWorker
    <2> QED BY <1>0, <1>6, <2>1, <2>2 DEF SimOK, SimulatorTypeOK, FreeWorker
  <1>7. CASE Complete
    <2>1. /\ DOMAIN sim' = SimFields /\ sim'.at = "loop"
          /\ sim'.due \subseteq sim.due /\ DOMAIN sim'.updates = {}
      BY <1>7, RestingFields DEF Complete, SimFields
    <2>2. DOMAIN active' \subseteq DOMAIN active
      BY <1>7, WithoutShrinks DEF Complete
    <2> QED BY <1>0, <2>1, <2>2 DEF SimOK, SimulatorTypeOK
  <1> QED BY <1>1, <1>2, <1>3, <1>4, <1>5, <1>6, <1>7 DEF SimulatorStep

-----------------------------------------------------------------------------
(***************************************************************************)
(* The step of the composition, by the component that takes it.            *)
(***************************************************************************)
LEMMA SimStays ==
    SimOK /\ StoreStep /\ UNCHANGED <<sim, active>> => SimOK'
  BY DEF SimOK, StoreStep, SimulatorTypeOK

LEMMA OthersStay ==
    /\ UNCHANGED placer /\ PlacerOK => PlacerOK'
    /\ UNCHANGED recon /\ ReconOK => ReconOK'
    /\ UNCHANGED ingest /\ IngestOK => IngestOK'
    /\ UNCHANGED now /\ ClockOK => ClockOK'
  BY DEF PlacerOK, ReconOK, PassOK, IngestOK, SampleOK, ClockOK

LEMMA StepCPInv == CPInv /\ [ConcurrentNext]_vars => CPInv' /\ StoreStep
  <1> SUFFICES ASSUME CPInv, [ConcurrentNext]_vars PROVE CPInv' /\ StoreStep
    OBVIOUS
  <1>0. StoreInv /\ PlacerOK /\ ReconOK /\ IngestOK /\ SimOK /\ ClockOK
    BY DEF CPInv, ActorsOK
  <1>00. StoreStep => PlacedSomewhere'
    BY PlacedSomewhereStep DEF CPInv
  <1> USE <1>00, SimStays, OthersStay DEF CPInv, ActorsOK
  <1>1. CASE \E p \in Placers :
                \/ PassStarts(p)
                \/ PlacerStep(p)
                \/ p \in Callers /\ \E x \in Workloads : PlaceStarts(p, x)
    <2>1. PlacerNext /\ UNCHANGED <<recon, ingest, sim, active, now>>
      BY <1>1 DEF PassStarts, PlacerStep, PlaceStarts, PlacerNext
    <2> QED BY <1>0, <2>1, PlacerStepInv
  <1>2. CASE \E r \in Reconcilers : ReconcileStarts(r) \/ ReconcilerStep(r)
    <2>1. PICK r \in Reconcilers :
              /\ ReconcileStep(r) \/ StartReconcile(r, now)
              /\ UNCHANGED <<placer, ingest, sim, active, now>>
      BY <1>2 DEF ReconcileStarts, ReconcilerStep
    <2> QED BY <1>0, <2>1, ReconcilerStepInv
  <1>3. CASE \E i \in Ingestors :
                IngestorStep(i) \/ \E sample \in Samples : IngestStarts(i, sample)
    <2>1. PICK i \in Ingestors :
              /\ StoreSample(i) \/ \E sample \in Samples : StartIngest(i, sample, now)
              /\ UNCHANGED <<placer, recon, sim, active, now>>
      BY <1>3 DEF IngestStarts, IngestorStep
    <2> QED BY <1>0, <2>1, IngestorStepInv
  <1>4. CASE SimulatorTicks \/ SimulatorProceeds
    <2>1. UNCHANGED <<placer, recon, ingest, now>>
      BY <1>4 DEF SimulatorTicks, SimulatorProceeds
    <2>2. CASE SimulatorTicks
      BY <1>0, <2>1, <2>2, SimulatorTickInv, StoreInvStays, UnchangedStoreStep
      DEF SimulatorTicks
    <2>3. CASE StartSimulator
      BY <1>0, <2>1, <2>3, StartSimulatorInv, StoreInvStays, UnchangedStoreStep
    <2>4. CASE SimulatorStep(now)
      <3>1. StoreInv' /\ StoreStep BY <1>0, <2>4, NowIsNat, SimulatorStepStore
      <3>2. SimOK' BY <1>0, <2>4, <3>1, SimulatorStepSim DEF StoreStep
      <3> QED BY <1>0, <2>1, <3>1, <3>2
    <2> QED BY <1>4, <2>2, <2>3, <2>4 DEF SimulatorProceeds
  <1>5. CASE Client
    BY <1>0, <1>5, ClientStep DEF Client, actorVars
  <1>6. CASE Tick
    <2>1. UNCHANGED <<storeVars, actorVars>> BY <1>6 DEF Tick
    <2>2. ClockOK' BY <1>0, <1>6, ClockAssumption DEF Tick, ClockOK
    <2> QED
      BY <1>0, <2>1, <2>2, StoreInvStays, UnchangedStoreStep DEF actorVars
  <1>7. CASE UNCHANGED vars
    BY <1>0, <1>7, StoreInvStays, UnchangedStoreStep DEF vars, actorVars
  <1> QED
    BY <1>1, <1>2, <1>3, <1>4, <1>5, <1>6, <1>7
    DEF ConcurrentNext, Start, Continue, Placers

LEMMA AlwaysCPInv == ConcurrentSpec => []CPInv
  BY InitCPInv, StepCPInv, PTL DEF ConcurrentSpec

-----------------------------------------------------------------------------
(***************************************************************************)
(* Whatever interleaves, every component finds and stores records of their *)
(* types, ...                                                              *)
(***************************************************************************)
THEOREM ControlPlaneTypes == ConcurrentSpec => []ControlPlaneTypeOK
  <1>1. CPInv => ControlPlaneTypeOK
    BY DEF CPInv, ActorsOK, StoreInv, ControlPlaneTypeOK, SchedulerTypeOK, PlacerOK,
           ReconOK, PassOK, FailureTargets, ReleaseTargets, IngestOK, SampleOK,
           SimOK, ClockOK
  <1> QED BY <1>1, AlwaysCPInv, PTL

(***************************************************************************)
(* ... every record in the store would be accepted by its validator again, *)
(* although heartbeats, health updates, samples and completions store      *)
(* records read some time before, and every reservation can be returned,   *)
(* so that reconciliation never fails on its validations, ...              *)
(***************************************************************************)
THEOREM ReservationsAlwaysReturnable ==
    ConcurrentSpec => [](StoredRecordsValid /\ ReleaseNeverStuck)
  <1>1. StoreInv => ReleaseNeverStuck
    BY ReleaseRecords DEF ReleaseNeverStuck, ReleaseAllowed
  <1>2. CPInv => StoredRecordsValid /\ ReleaseNeverStuck
    BY <1>1 DEF CPInv, StoreInv
  <1> QED BY <1>2, AlwaysCPInv, PTL

(***************************************************************************)
(* ... which every placed workload has, its worker being in the store, so  *)
(* that a release is never refused for any reason but that the workload    *)
(* was taken off its worker before, ...                                    *)
(***************************************************************************)
THEOREM PlacedAreReleasable ==
    ConcurrentSpec =>
        [](\A x \in DOMAIN workloads, next \in ReleaseTargets :
              workloads[x].state \in PlacedStates => ReleaseAllowed(x, next))
  <1>1. ASSUME CPInv, NEW x \in DOMAIN workloads, NEW next \in ReleaseTargets,
               workloads[x].state \in PlacedStates
        PROVE  ReleaseAllowed(x, next)
    <2>1. HoldsReservation(x)
      BY <1>1 DEF CPInv, PlacedSomewhere, HoldsReservation
    <2>2. StoreInv /\ x \in Workloads BY <1>1 DEF CPInv, StoreInv, TypeOK
    <2> QED BY <2>1, <2>2, ReleaseRecords DEF ReleaseAllowed
  <1>2. CPInv => \A x \in DOMAIN workloads, next \in ReleaseTargets :
                    workloads[x].state \in PlacedStates => ReleaseAllowed(x, next)
    BY <1>1
  <1> QED BY <1>2, AlwaysCPInv, PTL

(***************************************************************************)
(* ... a workload that is over stays so: no commit chosen before, no       *)
(* release decided on an old snapshot and no completion revives it, ...    *)
(***************************************************************************)
THEOREM OverStaysOver == ConcurrentSpec => OverIsFinal
  <1>1. CPInv /\ [ConcurrentNext]_vars =>
          [\A x \in DOMAIN workloads : Over(workloads[x]) => Over(workloads'[x])]_vars
    <2>1. StoreStep => \A x \in DOMAIN workloads :
                          Over(workloads[x]) => Over(workloads'[x])
      BY DEF StoreStep, WorkloadStep, Over, SchedulableStates, PlacedStates
    <2> QED BY <2>1, StepCPInv
  <1> QED BY <1>1, AlwaysCPInv, PTL DEF ConcurrentSpec, OverIsFinal

(***************************************************************************)
(* ... and a placed workload stays on the worker it was first given: even  *)
(* where interleaving spoils the books, no second placement replaces the   *)
(* first one.                                                              *)
(***************************************************************************)
THEOREM PlacementsStayFinal == ConcurrentSpec => PlacementIsFinal
  <1>1. ASSUME StoreStep, NEW x \in DOMAIN workloads,
               workloads[x].state \in PlacedStates,
               workloads'[x].state \in PlacedStates
        PROVE  workloads'[x] = workloads[x]
    BY <1>1
    DEF StoreStep, WorkloadStep, Over, SchedulableStates, PlacedStates, FailureTargets
  <1>2. CPInv /\ [ConcurrentNext]_vars =>
          [\A x \in DOMAIN workloads :
             /\ workloads[x].state \in PlacedStates
             /\ workloads'[x].state \in PlacedStates
             => /\ workloads'[x].assigned = workloads[x].assigned
                /\ workloads'[x].required = workloads[x].required]_storeVars
    BY <1>1, StepCPInv
  <1> QED BY <1>2, AlwaysCPInv, PTL DEF ConcurrentSpec, PlacementIsFinal

-----------------------------------------------------------------------------
(***************************************************************************)
(* The simulator's loop.  What it tracks was placed when it began, and can *)
(* only be taken off its worker or completed; so whatever interleaves, the *)
(* worker of a workload it completes is in the store unless the workload   *)
(* was taken off it.                                                       *)
(***************************************************************************)
TrackedStates == PlacedStates \cup FailureTargets \cup {"COMPLETED"}

Located ==
    \A x \in DOMAIN workloads :
        workloads[x].assigned \in DOMAIN workers \cup {NoWorker}

TrackedKnown == \A x \in DOMAIN active : workloads[x].state \in TrackedStates

\* The workload read is on a worker, or by now it is on none.
JobFound ==
    /\ sim.at = "read" =>
          /\ sim.job \in DOMAIN active
          /\ \/ sim.workload.assigned \in DOMAIN workers
             \/ workloads[sim.job].assigned = NoWorker
    /\ sim.at \in {"computed", "freed"} => sim.workload.assigned \in DOMAIN workers

Tracked ==
    /\ Located /\ TrackedKnown
    /\ sim.due \subseteq DOMAIN active
    /\ JobFound
    /\ SimulatorStopsForTakenOff

LEMMA OnNoneIsTakenOff ==
    ASSUME CPInv, TrackedKnown, NEW x \in DOMAIN active,
           workloads[x].assigned = NoWorker
    PROVE  TakenOff(x)
  <1>1. x \in DOMAIN workloads
    BY DEF CPInv, ActorsOK, SimOK, SimulatorTypeOK
  <1>2. NoWorker \notin DOMAIN workers
    BY StoredTypes, WorkersAssumption DEF CPInv
  <1>3. workloads[x].state \notin PlacedStates
    BY <1>1, <1>2 DEF CPInv, PlacedSomewhere
  <1> QED
    BY <1>3 DEF TrackedKnown, TrackedStates, FailureTargets, TakenOff

\* Of the workloads tracked, none is placed anew, and what is on no worker
\* stays so.
LEMMA TrackedStays ==
    ASSUME CPInv, Located, TrackedKnown, StoreStep, ~ Complete
    PROVE  /\ Located'
           /\ \A x \in DOMAIN active :
                 /\ workloads'[x].state \in TrackedStates
                 /\ workloads[x].assigned = NoWorker => workloads'[x].assigned = NoWorker
  <1>1. ASSUME NEW x \in DOMAIN workloads'
        PROVE  workloads'[x].assigned \in DOMAIN workers' \cup {NoWorker}
    BY <1>1 DEF StoreStep, WorkloadStep, Located
  <1>2. ASSUME NEW x \in DOMAIN active
        PROVE  /\ workloads'[x].state \in TrackedStates
               /\ workloads[x].assigned = NoWorker => workloads'[x].assigned = NoWorker
    <2>1. x \in DOMAIN workloads
      BY DEF CPInv, ActorsOK, SimOK, SimulatorTypeOK
    <2>2. workloads[x].state \in TrackedStates BY DEF TrackedKnown
    <2>3. workloads[x].state \notin SchedulableStates
      BY <2>2 DEF TrackedStates, PlacedStates, FailureTargets, SchedulableStates
    <2> QED
      BY <2>1, <2>2, <2>3
      DEF StoreStep, WorkloadStep, Over, TrackedStates, FailureTargets
  <1> QED BY <1>1, <1>2 DEF Located

\* Of the simulator's own steps, those that leave the store alone.
LEMMA TrackedSim ==
    ASSUME CPInv, CPInv', Tracked,
           \/ SimulatorTick(now)
           \/ StartSimulator
           \/ \E x \in Workloads : Forget(x) \/ ReadWorkload(x)
           \/ ReadWorker
           \/ Abandon
    PROVE  Tracked'
  <1>0. /\ DOMAIN sim = SimFields /\ DOMAIN sim' = SimFields
        /\ DOMAIN active \subseteq DOMAIN workloads
        /\ NoWorker \notin DOMAIN workers
    BY StoredTypes, WorkersAssumption
    DEF CPInv, ActorsOK, SimOK, SimulatorTypeOK
  <1>1. UNCHANGED <<workers, workloads>>
    BY DEF SimulatorTick, StartSimulator, Forget, ReadWorkload, ReadWorker, Abandon,
           storeVars
  <1>2. Located' BY <1>1 DEF Tracked, Located
  <1>3. CASE SimulatorTick(now)
    <2>1. active' = active /\ sim'.at = "loop" /\ sim'.due \subseteq DOMAIN active
      BY <1>0, <1>3, RestingFields DEF SimulatorTick, SimFields
    <2> QED
      BY <1>1, <1>2, <2>1
      DEF Tracked, TrackedKnown, JobFound, SimulatorStopsForTakenOff
  <1>4. CASE StartSimulator
    <2>1. /\ sim'.at = "loop" /\ sim'.due = {}
          /\ \A x \in DOMAIN active' : workloads[x].state = "RUNNING"
      BY <1>4, RestingFields DEF StartSimulator
    <2> QED
      BY <1>1, <1>2, <2>1
      DEF Tracked, TrackedKnown, JobFound, SimulatorStopsForTakenOff, TrackedStates,
          PlacedStates
  <1>5. CASE \E x \in Workloads : Forget(x)
    <2>1. PICK x \in Workloads : Forget(x) BY <1>5
    <2>2. /\ sim'.at = "loop" /\ sim'.due = sim.due \ {x}
          /\ DOMAIN active' = DOMAIN active \ {x}
      BY <1>0, <2>1 DEF Forget, Due, SimFields, Without
    <2> QED
      BY <1>1, <1>2, <2>2
      DEF Tracked, TrackedKnown, JobFound, SimulatorStopsForTakenOff
  <1>6. CASE \E x \in Workloads : ReadWorkload(x)
    <2>1. PICK x \in Workloads : ReadWorkload(x) BY <1>6
    <2>2. /\ sim'.at = "read" /\ sim'.due = sim.due /\ sim'.job = x
          /\ sim'.workload = workloads[x] /\ active' = active
      BY <1>0, <2>1 DEF ReadWorkload, SimFields
    <2>3. x \in DOMAIN active /\ x \in DOMAIN workloads
      BY <1>0, <2>1 DEF ReadWorkload, Due, Tracked
    <2>4. \/ workloads[x].assigned \in DOMAIN workers
          \/ workloads[x].assigned = NoWorker
      BY <2>3 DEF Tracked, Located
    <2> QED
      BY <1>1, <1>2, <2>2, <2>3, <2>4
      DEF Tracked, TrackedKnown, JobFound, SimulatorStopsForTakenOff
  <1>7. CASE ReadWorker
    <2>1. /\ sim'.at = "computed" /\ sim'.due = sim.due
          /\ sim'.workload = sim.workload /\ active' = active
          /\ sim.workload.assigned \in DOMAIN workers
      BY <1>0, <1>7 DEF ReadWorker, SimFields
    <2> QED
      BY <1>1, <1>2, <2>1
      DEF Tracked, TrackedKnown, JobFound, SimulatorStopsForTakenOff
  <1>8. CASE Abandon
    <2>1. /\ sim'.at = "stopped" /\ sim'.due = {} /\ active' = active
          /\ sim.at = "read" /\ sim.workload.assigned \notin DOMAIN workers
      BY <1>8, RestingFields DEF Abandon, SimFields
    <2>2. sim.job \in DOMAIN active /\ workloads[sim.job].assigned = NoWorker
      BY <2>1 DEF Tracked, JobFound
    <2>3. TakenOff(sim.job) BY <2>2, OnNoneIsTakenOff DEF Tracked
    <2>4. \E x \in DOMAIN active' : TakenOff(x)'
      <3>1. \A x : TakenOff(x) => TakenOff(x)' BY <1>1 DEF TakenOff
      <3> QED BY <2>1, <2>2, <2>3, <3>1
    <2> QED
      BY <1>1, <1>2, <2>1, <2>4
      DEF Tracked, TrackedKnown, JobFound, SimulatorStopsForTakenOff
  <1> QED BY <1>3, <1>4, <1>5, <1>6, <1>7, <1>8

\* Steps of the others, heartbeats, and the first write of a completion.
LEMMA TrackedElsewhere ==
    ASSUME CPInv, CPInv', Tracked, StoreStep, ~ Complete,
           active' = active, sim'.due = sim.due,
           sim'.job = sim.job, sim'.workload = sim.workload,
           \/ sim'.at = sim.at
           \/ FreeWorker /\ sim'.at = "freed"
    PROVE  Tracked'
  <1>1. /\ Located'
        /\ \A x \in DOMAIN active :
              /\ workloads'[x].state \in TrackedStates
              /\ workloads[x].assigned = NoWorker => workloads'[x].assigned = NoWorker
    BY TrackedStays DEF Tracked
  <1>2. TrackedKnown' BY <1>1 DEF TrackedKnown
  <1>3. DOMAIN workers \subseteq DOMAIN workers' BY DEF StoreStep
  <1>4. FreeWorker => sim.at = "computed" BY DEF FreeWorker
  <1>5. JobFound' BY <1>1, <1>3, <1>4 DEF Tracked, JobFound
  <1>6. SimulatorStopsForTakenOff'
    <2> SUFFICES ASSUME Simulating, sim'.at = "stopped"
                 PROVE  \E x \in DOMAIN active' : TakenOff(x)'
      BY DEF SimulatorStopsForTakenOff
    <2>1. PICK x \in DOMAIN active : workloads[x].assigned = NoWorker
      BY DEF Tracked, SimulatorStopsForTakenOff, TakenOff
    <2>2. x \in DOMAIN active' /\ workloads'[x].assigned = NoWorker BY <1>1, <2>1
    <2>3. TakenOff(x)'
      <3>1. /\ x \in DOMAIN workloads' /\ NoWorker \notin DOMAIN workers'
            /\ (workloads'[x].state \in PlacedStates =>
                  workloads'[x].assigned \in DOMAIN workers')
        <4>1. NoWorker \notin Workers BY WorkersAssumption
        <4>2. DOMAIN workers' \subseteq Workers BY DEF CPInv, StoreInv, TypeOK
        <4> QED
          BY <2>2, <4>1, <4>2
          DEF CPInv, ActorsOK, SimOK, SimulatorTypeOK, PlacedSomewhere
      <3>2. workloads'[x].state \in TrackedStates BY <1>1
      <3> QED BY <2>2, <3>1, <3>2 DEF TrackedStates, FailureTargets, TakenOff
    <2> QED BY <2>2, <2>3
  <1> QED BY <1>1, <1>2, <1>5, <1>6 DEF Tracked

\* The second write of a completion: what is completed is tracked no longer.
LEMMA TrackedComplete ==
    ASSUME CPInv, Tracked, Complete
    PROVE  Tracked'
  <1>0. DOMAIN sim = SimFields /\ sim.at = "freed" /\ sim.workload \in WorkloadType
    BY DEF CPInv, ActorsOK, SimOK, SimulatorTypeOK, Complete
  <1>1. /\ sim'.at = "loop" /\ sim'.due = sim.due \ {sim.job}
        /\ DOMAIN active' = DOMAIN active \ {sim.job}
    BY RestingFields DEF Complete, Without, SimFields
  <1>2. PICK done : /\ done = [sim.workload EXCEPT !.state = "COMPLETED"]
                    /\ UpdateWorkload(sim.job, done)
    BY DEF Complete
  <1>3. done.assigned \in DOMAIN workers
    BY <1>0, <1>2 DEF WorkloadType, Tracked, JobFound
  <1>4. /\ workers' = workers /\ DOMAIN workloads' = DOMAIN workloads
        /\ workloads'[sim.job] = done
        /\ \A x \in DOMAIN workloads : x # sim.job => workloads'[x] = workloads[x]
    BY <1>2 DEF UpdateWorkload, Put
  <1>5. Located' BY <1>3, <1>4 DEF Tracked, Located
  <1>6. TrackedKnown'
    BY <1>1, <1>4 DEF Tracked, TrackedKnown, CPInv, ActorsOK, SimOK, SimulatorTypeOK
  <1> QED
    BY <1>1, <1>5, <1>6 DEF Tracked, JobFound, SimulatorStopsForTakenOff

LEMMA TrackedStep == CPInv /\ Tracked /\ [ConcurrentNext]_vars => Tracked'
  <1> SUFFICES ASSUME CPInv, Tracked, [ConcurrentNext]_vars PROVE Tracked' OBVIOUS
  <1>0. CPInv' /\ StoreStep /\ DOMAIN sim = SimFields
    BY StepCPInv DEF CPInv, ActorsOK, SimOK
  <1>1. CASE UNCHANGED <<sim, active>>
    <2>1. ~ Complete
      BY <1>1, RestingFields, <1>0 DEF Complete, SimFields
    <2> QED BY <1>0, <1>1, <2>1, TrackedElsewhere
  <1>2. CASE SimulatorTicks BY <1>0, <1>2, TrackedSim DEF SimulatorTicks
  <1>3. CASE StartSimulator BY <1>0, <1>3, TrackedSim
  <1>4. CASE SimulatorStep(now)
    <2>1. CASE SendHeartbeat(now) \/ FreeWorker
      <3>1. /\ active' = active /\ sim'.due = sim.due
            /\ sim'.job = sim.job /\ sim'.workload = sim.workload
            /\ (sim'.at = sim.at \/ (FreeWorker /\ sim'.at = "freed"))
        BY <1>0, <2>1 DEF SendHeartbeat, FreeWorker, SimFields
      <3>2. ~ Complete BY <2>1 DEF SendHeartbeat, FreeWorker, Complete
      <3> QED BY <1>0, <3>1, <3>2, TrackedElsewhere
    <2>2. CASE Complete BY <2>2, TrackedComplete
    <2> QED BY <1>0, <1>4, <2>1, <2>2, TrackedSim DEF SimulatorStep
  <1> QED
    BY <1>1, <1>2, <1>3, <1>4
    DEF ConcurrentNext, Start, Continue, Client, Tick, PassStarts, PlaceStarts,
        PlacerStep, ReconcileStarts, ReconcilerStep, IngestStarts, IngestorStep,
        SimulatorProceeds, vars, actorVars

(***************************************************************************)
(* For any number of components, and however they interleave: the loop of  *)
(* the simulator ends only because a workload it tracks was taken off its  *)
(* worker, by reconciliation or by an operator.                            *)
(***************************************************************************)
THEOREM SimulatorStopExplained == ConcurrentSpec => []SimulatorStopsForTakenOff
  <1>1. Init => Tracked
    <2> SUFFICES ASSUME Init PROVE Tracked OBVIOUS
    <2>1. PICK at \in {"start", "stopped"} :
              /\ sim = [Resting EXCEPT !.at = at]
              /\ Simulating => at = "start"
      BY Zenon DEF Init, SimulatorInit
    <2>2. sim.at = at /\ sim.due = {} BY <2>1 DEF Resting
    <2>3. DOMAIN active = {} BY DEF Init, SimulatorInit
    <2>4. Located BY SeededOnSeeded, Zenon DEF Init, SimulatorInit, Located
    <2> QED
      BY <2>1, <2>2, <2>3, <2>4
      DEF Tracked, TrackedKnown, JobFound, SimulatorStopsForTakenOff
  <1>2. Tracked => SimulatorStopsForTakenOff BY DEF Tracked
  <1> QED BY <1>1, <1>2, TrackedStep, AlwaysCPInv, PTL DEF ConcurrentSpec

-----------------------------------------------------------------------------
(***************************************************************************)
(* The reservation ledger of the cluster.  ControlPlane keeps it not in    *)
(* every interleaving: that is what the runs that expect a violation show. *)
(* It keeps it in every interleaving in which no write is stale and no     *)
(* operator takes a workload off its worker behind the scheduler's back.   *)
(***************************************************************************)
\* A completion stores the worker as it is, with the memory of the workload as
\* it is.
CompletionFresh ==
    FreeWorker =>
        /\ sim.workload = workloads[sim.job]
        /\ sim.worker = WorkerAfter(workers[sim.workload.assigned], sim.workload)

\* Between the two writes of a completion nobody else writes the workload.
CompletionUndisturbed ==
    sim.at = "freed" /\ ~ Complete => workloads'[sim.job] = workloads[sim.job]

\* Every other write of a stored worker (heartbeat, health, sample, drain)
\* leaves its memory as it is, or makes some of it unavailable.
WorkersFresh ==
    \/ FreeWorker
    \/ workloads' # workloads
    \/ \A w \in DOMAIN workers :
          /\ workers'[w].total = workers[w].total
          /\ workers'[w].avail <= workers[w].avail

\* Operators leave placed workloads to the simulator and to reconciliation.
PlacedLeftAlone ==
    Override =>
        \A x \in DOMAIN workloads :
            workloads[x].state \in PlacedStates => workloads'[x] = workloads[x]

FreshWrites ==
    CompletionFresh /\ CompletionUndisturbed /\ WorkersFresh /\ PlacedLeftAlone

\* Only a workload that is on a worker, or was completed there, names it: what
\* the simulator completes is placed.
Tidy ==
    \A x \in DOMAIN workloads :
        workloads[x].state \notin PlacedStates \cup {"COMPLETED"} =>
            workloads[x].assigned = NoWorker

Straight == NoOvercommit /\ ActiveCountExact

\* What the simulator completes was not completed before, and is still placed
\* when its memory has been returned.
CompletionSound ==
    /\ sim.at \in {"read", "computed", "freed"} =>
          sim.job \in DOMAIN workloads /\ sim.workload.state # "COMPLETED"
    /\ sim.at = "freed" => workloads[sim.job].state \in PlacedStates

\* The inductive invariant.
FreshInv == CPInv /\ Tidy /\ CompletionSound /\ ClusterLedger!Opened

\* What is known of the ledger alone.
LedgerFacts == INSTANCE Reservation_proofs WITH
    Jobs <- Workloads,
    Capacities <- {record.total : record \in WorkerRecords},
    capacity <- Capacity, free <- Free, grants <- Outstanding

\* Each instance brings its own copy of FiniteSets.
LEMMA SameSizes ==
    /\ \A S : ClusterLedger!IsFiniteSet(S) = IsFiniteSet(S)
    /\ \A S : LedgerFacts!IsFiniteSet(S) = IsFiniteSet(S)
    /\ \A S : ClusterLedger!Cardinality(S) = Cardinality(S)
    /\ \A S : LedgerFacts!Cardinality(S) = Cardinality(S)
  <1>1. /\ \A S : ClusterLedger!IsFiniteSet(S) = IsFiniteSet(S)
        /\ \A S : LedgerFacts!IsFiniteSet(S) = IsFiniteSet(S)
    BY Zenon DEF ClusterLedger!IsFiniteSet, LedgerFacts!IsFiniteSet, IsFiniteSet
  <1>2. /\ \A S : ClusterLedger!Cardinality(S) = Cardinality(S)
        /\ \A S : LedgerFacts!Cardinality(S) = Cardinality(S)
    BY Zenon
    DEF ClusterLedger!Cardinality, LedgerFacts!Cardinality, Cardinality,
        ClusterLedger!IsFiniteSet, LedgerFacts!IsFiniteSet, IsFiniteSet
  <1> QED BY <1>1, <1>2

LEMMA SameLedger ==
    /\ LedgerFacts!Solvent <=> ClusterLedger!Solvent
    /\ LedgerFacts!Opened <=> ClusterLedger!Opened
    /\ LedgerFacts!Next <=> ClusterLedger!Next
    /\ LedgerFacts!vars = ClusterLedger!vars
  <1>1. LedgerFacts!Solvent <=> ClusterLedger!Solvent
    BY SameSizes, Zenon
    DEF LedgerFacts!Solvent, LedgerFacts!Held, ClusterLedger!Solvent,
        ClusterLedger!Held
  <1>2. LedgerFacts!Opened <=> ClusterLedger!Opened
    BY <1>1, SameSizes, Zenon DEF LedgerFacts!Opened, ClusterLedger!Opened
  <1>3. LedgerFacts!Next <=> ClusterLedger!Next
    BY Zenon
    DEF LedgerFacts!Next, LedgerFacts!Join, LedgerFacts!Withdraw, LedgerFacts!Grant,
        LedgerFacts!Return, LedgerFacts!Add,
        ClusterLedger!Next, ClusterLedger!Join, ClusterLedger!Withdraw,
        ClusterLedger!Grant, ClusterLedger!Return, ClusterLedger!Add
  <1>4. LedgerFacts!vars = ClusterLedger!vars
    BY DEF LedgerFacts!vars, ClusterLedger!vars
  <1> QED BY <1>1, <1>2, <1>3, <1>4

LEMMA OpenedStep ==
    ASSUME ClusterLedger!Opened, [ClusterLedger!Next]_(ClusterLedger!vars)
    PROVE  ClusterLedger!Opened'
  <1>1. {record.total : record \in WorkerRecords} \subseteq Nat
    BY RecordsAssumption DEF WorkerType
  <1>2. LedgerFacts!Opened BY SameLedger
  <1>3. [LedgerFacts!Next]_(LedgerFacts!vars) 
    <2>1. CASE ClusterLedger!Next BY <2>1, SameLedger
    <2>2. CASE UNCHANGED ClusterLedger!vars
      BY <2>2 DEF LedgerFacts!vars, ClusterLedger!vars
    <2> QED BY <2>1, <2>2
  <1>4. LedgerFacts!Opened' BY <1>1, <1>2, <1>3, LedgerFacts!StepOpened, Zenon
  <1>5. (LedgerFacts!Opened <=> ClusterLedger!Opened)' BY SameLedger, PTL
  <1> QED BY <1>4, <1>5

-----------------------------------------------------------------------------
(***************************************************************************)
(* Which call of the store a step is.                                      *)
(***************************************************************************)
\* All but the two writes of a completion.
OtherCall ==
    \/ UNCHANGED storeVars
    \/ Place \/ Release
    \/ \E w \in Workers : RegisterIdleWorker(w)
    \/ \E x \in Workloads : CreateUnplaced(x)
    \/ Override
    \/ \E w \in DOMAIN workers, record \in WorkerType : UpdateWorker(w, record)

\* ... which leave a completion under way alone.
NoCompletion == sim' = sim \/ (sim.at # "freed" /\ sim'.at # "freed")

LEMMA PlacerCall ==
    ASSUME CPInv, NEW p \in Placers, PlacerStep(p)
    PROVE  UNCHANGED storeVars \/ Place
  <1>1. StoreInv /\ placer \in [Placers -> PlacerType]
    BY DEF CPInv, ActorsOK, PlacerOK
  <1>2. ASSUME Commit(p) PROVE Place
    BY <1>1, <1>2, StoredTypes DEF Commit, CommitPlacement, CommitAllowed, Place
  <1> QED
    BY <1>2 DEF PlacerStep, Proceed, Choose, NoneEligible, Refuse, Conflict

LEMMA ReconcilerCall ==
    ASSUME CPInv, NEW r \in Reconcilers, ReconcilerStep(r)
    PROVE  OtherCall
  <1>1. StoreInv /\ PassOK(recon[r]) BY DEF CPInv, ActorsOK, ReconOK
  <1>2. CASE UpdateStep(r)
    BY <1>1, <1>2 DEF UpdateStep, PassOK, UpdateWorker, UpdateWorkerAllowed, OtherCall
  <1>3. CASE ReleaseStep(r)
    <2>1. PICK x \in DOMAIN recon[r].releases :
              ReleasePlacement(x, recon[r].releases[x])
      BY <1>3 DEF ReleaseStep
    <2>2. recon[r].releases[x] \in ReleaseTargets /\ x \in Workloads
      BY <1>1, <2>1
      DEF PassOK, FailureTargets, ReleaseTargets, ReleasePlacement, ReleaseAllowed,
          HoldsReservation, StoreInv, TypeOK
    <2> QED BY <2>1, <2>2 DEF Release, OtherCall
  <1>4. CASE AbortStep(r) BY <1>4 DEF AbortStep, OtherCall
  <1> QED BY <1>2, <1>3, <1>4 DEF ReconcilerStep, ReconcileStep

LEMMA SimulatorCall ==
    ASSUME CPInv, SimulatorTicks \/ SimulatorProceeds, ~ FreeWorker, ~ Complete
    PROVE  OtherCall /\ NoCompletion
  <1>0. DOMAIN sim = SimFields /\ \A w \in DOMAIN sim.updates : sim.updates[w] \in WorkerType
    BY DEF CPInv, ActorsOK, SimOK, SimulatorTypeOK
  <1>1. CASE SendHeartbeat(now)
    <2>1. PICK w \in DOMAIN sim.updates :
              /\ UpdateWorker(w, [sim.updates[w] EXCEPT !.heartbeat = now])
              /\ sim' = [sim EXCEPT !.updates = Without(@, w)]
      BY <1>1 DEF SendHeartbeat
    <2>2. PICK record : record = [sim.updates[w] EXCEPT !.heartbeat = now]
                        /\ UpdateWorker(w, record)
      BY <2>1
    <2>3. record \in WorkerType
      BY <1>0, <2>2, NowIsNat, WorkerSetHeartbeat DEF CPInv
    <2>4. OtherCall
      BY <2>2, <2>3 DEF UpdateWorker, UpdateWorkerAllowed, OtherCall
    <2>5. sim.at = "loop" /\ sim'.at = "loop"
      BY <1>0, <1>1, <2>1 DEF SendHeartbeat, SimFields
    <2> QED BY <2>4, <2>5 DEF NoCompletion
  <1>2. CASE \/ SimulatorTicks \/ StartSimulator \/ ReadWorker \/ Abandon
             \/ \E x \in Workloads : Forget(x) \/ ReadWorkload(x)
    <2>1. UNCHANGED storeVars
      BY <1>2
      DEF SimulatorTicks, SimulatorTick, StartSimulator, ReadWorker, Abandon, Forget,
          ReadWorkload, storeVars
    <2>2. sim.at # "freed" /\ sim'.at # "freed"
      BY <1>0, <1>2, RestingFields
      DEF SimulatorTicks, SimulatorTick, StartSimulator, ReadWorker, Abandon, Forget,
          ReadWorkload, Due, SimFields
    <2> QED BY <2>1, <2>2 DEF OtherCall, NoCompletion
  <1> QED
    BY <1>1, <1>2 DEF SimulatorProceeds, SimulatorStep

LEMMA ClientCall ==
    ASSUME CPInv, Client
    PROVE  OtherCall /\ NoCompletion
  <1>0. sim' = sim /\ StoreInv BY DEF Client, actorVars, CPInv
  <1>1. CASE Drain
    <2>1. PICK w \in DOMAIN workers :
              UpdateWorker(w, [workers[w] EXCEPT !.state = "DRAINING"])
      BY <1>1 DEF Drain
    <2>2. [workers[w] EXCEPT !.state = "DRAINING"] \in WorkerType
      BY <1>0, StoredTypes, WorkerSetState DEF WorkerStates
    <2> QED BY <1>0, <2>1, <2>2 DEF OtherCall, NoCompletion
  <1>2. CASE ~ Drain
    BY <1>0, <1>2 DEF Client, AddWorker, SubmitWorkload, OtherCall, NoCompletion
  <1> QED BY <1>1, <1>2

LEMMA CallOfStep ==
    ASSUME CPInv, [ConcurrentNext]_vars, ~ FreeWorker, ~ Complete
    PROVE  OtherCall /\ NoCompletion
  <1>1. CASE \E p \in Placers : PlacerStep(p)
    BY <1>1, PlacerCall DEF OtherCall, NoCompletion, PlacerStep
  <1>2. CASE \E r \in Reconcilers : ReconcilerStep(r)
    BY <1>2, ReconcilerCall DEF NoCompletion, ReconcilerStep
  <1>3. CASE \E i \in Ingestors : IngestorStep(i)
    <2>1. PICK i \in Ingestors : StoreSample(i) /\ sim' = sim
      BY <1>3 DEF IngestorStep
    <2>2. ingest[i].record \in WorkerType
      BY <2>1 DEF StoreSample, CPInv, ActorsOK, IngestOK, SampleOK
    <2> QED
      BY <2>1, <2>2
      DEF StoreSample, UpdateWorker, UpdateWorkerAllowed, OtherCall, NoCompletion
  <1>4. CASE SimulatorTicks \/ SimulatorProceeds
    BY <1>4, SimulatorCall
  <1>5. CASE Client BY <1>5, ClientCall
  <1>6. CASE (Start /\ ~ SimulatorTicks) \/ Tick \/ UNCHANGED vars
    <2>1. UNCHANGED storeVars /\ sim' = sim
      BY <1>6
      DEF Start, PassStarts, StartPass, PlaceStarts, StartPlace, ReconcileStarts,
          StartReconcile, IngestStarts, StartIngest, Tick, vars, storeVars, actorVars
    <2> QED BY <2>1 DEF OtherCall, NoCompletion
  <1> QED
    BY <1>1, <1>2, <1>3, <1>4, <1>5, <1>6 DEF ConcurrentNext, Continue

-----------------------------------------------------------------------------
(***************************************************************************)
(* What becomes of the workloads.                                          *)
(***************************************************************************)
\* Operators only touch what is not placed.
LEMMA OverrideFields ==
    ASSUME StoreInv, Tidy, Override, PlacedLeftAlone
    PROVE  /\ workers' = workers /\ DOMAIN workloads' = DOMAIN workloads
           /\ \A y \in DOMAIN workloads :
                 \/ workloads'[y] = workloads[y]
                 \/ /\ workloads[y].state \notin PlacedStates
                    /\ workloads'[y].state \notin PlacedStates
                    /\ workloads'[y].assigned = NoWorker
  <1>1. PICK x \in DOMAIN workloads, o \in Overrides :
            /\ ~ Over(workloads[x])
            /\ UpdateWorkload(x, [workloads[x] EXCEPT
                  !.state = o.state,
                  !.assigned = IF o.cleared THEN NoWorker ELSE @])
    BY DEF Override
  <1>2. PICK record :
            /\ record = [workloads[x] EXCEPT
                  !.state = o.state,
                  !.assigned = IF o.cleared THEN NoWorker ELSE @]
            /\ UpdateWorkload(x, record)
    BY <1>1
  <1>3. workloads[x] \in WorkloadType BY StoredTypes
  <1>4. /\ record.state = o.state
        /\ record.assigned \in {NoWorker, workloads[x].assigned}
    BY <1>2, <1>3 DEF WorkloadType
  <1>5. o.state \notin PlacedStates BY OverridesAssumption DEF PlacedStates
  <1>6. /\ workers' = workers /\ DOMAIN workloads' = DOMAIN workloads
        /\ workloads'[x] = record
        /\ \A y \in DOMAIN workloads : y # x => workloads'[y] = workloads[y]
    BY <1>2 DEF UpdateWorkload, Put
  <1>7. workloads[x].state \notin PlacedStates
    BY <1>4, <1>5, <1>6 DEF PlacedLeftAlone
  <1>8. workloads[x].assigned = NoWorker BY <1>1, <1>7 DEF Tidy, Over
  <1> QED BY <1>4, <1>5, <1>6, <1>7, <1>8

LEMMA CompleteFields ==
    ASSUME CPInv, Complete
    PROVE  /\ workers' = workers /\ DOMAIN workloads' = DOMAIN workloads
           /\ sim.at = "freed" /\ sim'.at = "loop"
           /\ sim.job \in DOMAIN workloads
           /\ workloads'[sim.job].state = "COMPLETED"
           /\ \A y \in DOMAIN workloads : y # sim.job => workloads'[y] = workloads[y]
  <1>1. PICK job, record :
            /\ job = sim.job /\ record = [sim.workload EXCEPT !.state = "COMPLETED"]
            /\ UpdateWorkload(job, record)
    BY DEF Complete
  <1>2. sim.at = "freed" /\ sim.workload \in WorkloadType
    BY DEF Complete, CPInv, ActorsOK, SimOK, SimulatorTypeOK
  <1>3. record.state = "COMPLETED" BY <1>1, <1>2 DEF WorkloadType
  <1>4. sim'.at = "loop" BY RestingFields DEF Complete, SimFields
  <1> QED BY <1>1, <1>2, <1>3, <1>4 DEF UpdateWorkload, Put

LEMMA FreeFields ==
    ASSUME CPInv, FreeWorker
    PROVE  LET w == sim.workload.assigned
           IN  /\ workloads' = workloads /\ DOMAIN workers' = DOMAIN workers
               /\ w \in DOMAIN workers /\ workers'[w] = sim.worker
               /\ \A v \in DOMAIN workers : v # w => workers'[v] = workers[v]
               /\ sim.at = "computed" /\ sim'.at = "freed"
               /\ sim'.job = sim.job /\ sim'.workload = sim.workload
  <1>1. DOMAIN sim = SimFields BY DEF CPInv, ActorsOK, SimOK
  <1>2. /\ sim.at = "computed" /\ sim'.at = "freed"
        /\ sim'.job = sim.job /\ sim'.workload = sim.workload
    BY <1>1 DEF FreeWorker, SimFields
  <1>3. PICK w, record :
            /\ w = sim.workload.assigned /\ record = sim.worker
            /\ UpdateWorker(w, record)
    BY DEF FreeWorker
  <1> QED BY <1>2, <1>3 DEF UpdateWorker, UpdateWorkerAllowed, Put

LEMMA TidyStep ==
    ASSUME CPInv, Tidy, PlacedLeftAlone, OtherCall \/ FreeWorker \/ Complete
    PROVE  Tidy'
  <1>0. StoreInv BY DEF CPInv
  <1>1. CASE Place
    <2>1. PICK x \in Workloads, w \in Workers : CommitPlacement(x, w)
      BY <1>1 DEF Place
    <2> QED BY <1>0, <2>1, CommitFields DEF Tidy, PlacedStates
  <1>2. CASE Release
    <2>1. PICK x \in Workloads, next \in ReleaseTargets : ReleasePlacement(x, next)
      BY <1>2 DEF Release
    <2> QED BY <1>0, <2>1, ReleaseFields DEF Tidy
  <1>3. CASE \E x \in Workloads : CreateUnplaced(x)
    BY <1>0, <1>3, CreateFields DEF Tidy
  <1>4. CASE Override BY <1>0, <1>4, OverrideFields DEF Tidy
  <1>5. CASE Complete BY <1>5, CompleteFields DEF Tidy
  <1>6. CASE workloads' = workloads BY <1>6 DEF Tidy
  <1>7. CASE \E w \in Workers : RegisterIdleWorker(w)
    BY <1>0, <1>6, <1>7, RegisterFields
  <1> QED
    BY <1>1, <1>2, <1>3, <1>4, <1>5, <1>6, <1>7, FreeFields
    DEF OtherCall, UpdateWorker, storeVars

\* What the simulator has read of a workload it completes.
LEMMA SoundStep ==
    ASSUME CPInv, Tidy, CompletionSound, [ConcurrentNext]_vars,
           CompletionUndisturbed, CompletionFresh
    PROVE  CompletionSound'
  <1>0. /\ StoreInv /\ DOMAIN sim = SimFields /\ sim.due \subseteq DOMAIN workloads
        /\ DOMAIN workloads \subseteq DOMAIN workloads'
    BY StepCPInv DEF CPInv, ActorsOK, SimOK, SimulatorTypeOK, StoreStep
  <1>1. CASE FreeWorker
    <2>1. PICK w : w = sim.workload.assigned OBVIOUS
    <2>2. /\ workloads' = workloads /\ w \in DOMAIN workers
          /\ sim.at = "computed" /\ sim'.at = "freed"
          /\ sim'.job = sim.job /\ sim'.workload = sim.workload
      BY <1>1, <2>1, FreeFields
    <2>3. /\ sim.job \in DOMAIN workloads /\ sim.workload.state # "COMPLETED"
          /\ sim.workload = workloads[sim.job]
      BY <1>1, <2>2 DEF CompletionSound, CompletionFresh
    <2>4. w # NoWorker BY <1>0, <2>2, StoredTypes, WorkersAssumption
    <2>5. workloads[sim.job].state \in PlacedStates BY <2>1, <2>3, <2>4 DEF Tidy
    <2> QED BY <2>2, <2>3, <2>5 DEF CompletionSound
  <1>2. CASE Complete BY <1>2, CompleteFields DEF CompletionSound
  <1>3. CASE sim' = sim /\ ~ Complete
    BY <1>0, <1>3 DEF CompletionSound, CompletionUndisturbed
  <1>4. CASE \E x \in Workloads : ReadWorkload(x)
    <2>1. PICK x : /\ x \in sim.due /\ workloads[x].state # "COMPLETED"
                   /\ sim' = [sim EXCEPT !.at = "read", !.job = x,
                                         !.workload = workloads[x]]
      BY <1>4 DEF ReadWorkload, Due
    <2>2. sim'.at = "read" /\ sim'.job = x /\ sim'.workload = workloads[x]
      BY <1>0, <2>1 DEF SimFields
    <2> QED BY <1>0, <2>1, <2>2 DEF CompletionSound
  <1>5. CASE ReadWorker
    <2>1. /\ sim.at = "read" /\ sim'.at = "computed"
          /\ sim'.job = sim.job /\ sim'.workload = sim.workload
      BY <1>0, <1>5 DEF ReadWorker, SimFields
    <2> QED BY <1>0, <2>1 DEF CompletionSound
  <1>6. CASE SendHeartbeat(now) \/ SimulatorTicks \/ StartSimulator \/ Abandon
             \/ \E x \in Workloads : Forget(x)
    <2>1. sim'.at \in {"loop", "stopped"}
      BY <1>0, <1>6, RestingFields
      DEF SendHeartbeat, SimulatorTicks, SimulatorTick, StartSimulator, Abandon,
          Forget, Due, SimFields
    <2> QED BY <2>1 DEF CompletionSound
  <1>7. CASE \E p \in Placers : PlacerStep(p) BY <1>2, <1>3, <1>7 DEF PlacerStep
  <1>8. CASE \E r \in Reconcilers : ReconcilerStep(r)
    BY <1>2, <1>3, <1>8 DEF ReconcilerStep
  <1>9. CASE \E i \in Ingestors : IngestorStep(i) BY <1>2, <1>3, <1>9 DEF IngestorStep
  <1>10. CASE Client BY <1>2, <1>3, <1>10 DEF Client, actorVars
  <1>11. CASE (Start /\ ~ SimulatorTicks) \/ Tick \/ UNCHANGED vars
    <2>1. sim' = sim
      BY <1>11
      DEF Start, PassStarts, StartPass, PlaceStarts, StartPlace, ReconcileStarts,
          StartReconcile, IngestStarts, StartIngest, Tick, vars, actorVars
    <2> QED BY <1>2, <1>3, <2>1
  <1> QED
    BY <1>1, <1>2, <1>3, <1>4, <1>5, <1>6, <1>7, <1>8, <1>9, <1>10, <1>11
    DEF ConcurrentNext, Continue, SimulatorProceeds, SimulatorStep

-----------------------------------------------------------------------------
(***************************************************************************)
(* The ledger of the seeded cluster.                                       *)
(***************************************************************************)
\* Each seeded workload runs on a worker of its own, and nothing else does.
LEMMA SeededApart ==
    ASSUME SeededStore
    PROVE  /\ \A x \in DOMAIN workloads :
                 workloads[x].state = "RUNNING" /\ workloads[x].required \in Nat
           /\ \A w \in DOMAIN workers :
                 /\ workers[w].total \in Nat /\ workers[w].avail \in Nat
                 /\ \/ /\ \A x \in DOMAIN workloads : workloads[x].assigned # w
                       /\ workers[w].avail = workers[w].total
                       /\ workers[w].active = 0
                    \/ \E y \in DOMAIN workloads :
                       /\ \A x \in DOMAIN workloads :
                             workloads[x].assigned = w <=> x = y
                       /\ workers[w].avail + workloads[y].required = workers[w].total
                       /\ workers[w].active = 1
  <1>1. PICK worker \in WorkerRecords,
             job \in [Seeded -> WorkloadRecords], on \in [Seeded -> SeededWorkers] :
            /\ \A x, y \in Seeded : on[x] = on[y] => x = y
            /\ worker.state = "HEALTHY" /\ worker.avail = worker.total
            /\ worker.active = 0 /\ ValidateWorker(worker)
            /\ \A x \in Seeded :
                  /\ job[x].state \in SchedulableStates /\ ValidateWorkload(job[x])
                  /\ job[x].required <= worker.total
                  /\ MatchesTopologyRequirement(job[x], worker)
            /\ workers = [w \in SeededWorkers |->
                  IF \E x \in Seeded : on[x] = w
                  THEN LET x == CHOOSE y \in Seeded : on[y] = w
                       IN  [worker EXCEPT !.avail = @ - job[x].required, !.active = 1]
                  ELSE worker]
            /\ workloads = [x \in Seeded |->
                  [job[x] EXCEPT !.assigned = on[x], !.state = "RUNNING"]]
    BY DEF SeededStore
  <1>2. worker \in WorkerType /\ \A x \in Seeded : job[x] \in WorkloadType
    BY RecordsAssumption
  <1>3. /\ DOMAIN workers = SeededWorkers /\ DOMAIN workloads = Seeded
        /\ \A x, y \in Seeded : on[x] = on[y] => x = y
        /\ worker.avail = worker.total /\ worker.active = 0
        /\ \A x \in Seeded : job[x].required <= worker.total
    BY <1>1
  <1>4. ASSUME NEW x \in Seeded
        PROVE  /\ workloads[x].state = "RUNNING" /\ workloads[x].assigned = on[x]
               /\ workloads[x].required = job[x].required
               /\ workloads[x].required \in Nat
    BY <1>1, <1>2 DEF WorkloadType
  <1>5. ASSUME NEW w \in SeededWorkers
        PROVE  \/ \E y \in Seeded : on[y] = w /\ workers[w] = Loaded(worker, job[y])
               \/ (\A y \in Seeded : on[y] # w) /\ workers[w] = worker
    <2>1. CASE \E y \in Seeded : on[y] = w
      <3>1. PICK y : y = CHOOSE z \in Seeded : on[z] = w OBVIOUS
      <3>2. y \in Seeded /\ on[y] = w BY <2>1, <3>1
      <3>3. workers[w] = Loaded(worker, job[y])
        BY <1>1, <2>1, <3>1, Zenon DEF Loaded
      <3> QED BY <3>2, <3>3
    <2>2. CASE \A y \in Seeded : on[y] # w BY <1>1, <2>2
    <2> QED BY <2>1, <2>2
  <1>6. worker.total \in Nat BY <1>2 DEF WorkerType
  <1>7. ASSUME NEW y \in Seeded
        PROVE  LET loaded == Loaded(worker, job[y])
               IN  /\ loaded.total = worker.total /\ loaded.active = 1
                   /\ loaded.avail = worker.total - job[y].required
    BY <1>2, <1>3 DEF Loaded, WorkerType
  <1>8. ASSUME NEW w \in SeededWorkers, NEW y \in Seeded, on[y] = w,
               workers[w] = Loaded(worker, job[y])
        PROVE  /\ workers[w].total \in Nat /\ workers[w].avail \in Nat
               /\ \A x \in Seeded : workloads[x].assigned = w <=> x = y
               /\ workers[w].avail + workloads[y].required = workers[w].total
               /\ workers[w].active = 1
    <2>1. /\ workers[w].total = worker.total /\ workers[w].active = 1
          /\ workers[w].avail = worker.total - job[y].required
      BY <1>7, <1>8
    <2>2. /\ job[y].required \in Nat /\ job[y].required <= worker.total
          /\ workloads[y].required = job[y].required
      BY <1>3, <1>4
    <2>3. \A x \in Seeded : workloads[x].assigned = w <=> x = y
      BY <1>3, <1>4, <1>8
    <2> QED BY <1>6, <2>1, <2>2, <2>3
  <1>9. ASSUME NEW w \in SeededWorkers, \A y \in Seeded : on[y] # w,
               workers[w] = worker
        PROVE  /\ workers[w].total \in Nat /\ workers[w].avail \in Nat
               /\ \A x \in Seeded : workloads[x].assigned # w
               /\ workers[w].avail = workers[w].total /\ workers[w].active = 0
    BY <1>3, <1>4, <1>6, <1>9
  <1>10. ASSUME NEW w \in SeededWorkers
         PROVE  /\ workers[w].total \in Nat /\ workers[w].avail \in Nat
                /\ \/ /\ \A x \in Seeded : workloads[x].assigned # w
                      /\ workers[w].avail = workers[w].total
                      /\ workers[w].active = 0
                   \/ \E y \in Seeded :
                      /\ \A x \in Seeded : workloads[x].assigned = w <=> x = y
                      /\ workers[w].avail + workloads[y].required = workers[w].total
                      /\ workers[w].active = 1
    <2>1. CASE (\A y \in Seeded : on[y] # w) /\ workers[w] = worker
      BY <1>9, <2>1
    <2>2. CASE \E y \in Seeded : on[y] = w /\ workers[w] = Loaded(worker, job[y])
      BY <1>8, <2>2
    <2> QED BY <1>5, <2>1, <2>2
  <1> QED BY <1>3, <1>4, <1>10

LEMMA SeededBooks == SeededStore => Tidy /\ Straight
  <1> SUFFICES ASSUME SeededStore PROVE Tidy /\ Straight OBVIOUS
  <1>1. \A x \in DOMAIN workloads :
            workloads[x].state = "RUNNING" /\ workloads[x].required \in Nat
    BY SeededApart
  <1>2. Tidy BY <1>1 DEF Tidy, PlacedStates
  <1>3. ASSUME NEW w \in DOMAIN workers
        PROVE  /\ workers[w].avail + Cardinality(HeldMemory(w)) <= workers[w].total
               /\ workers[w].active = Cardinality(Holders(w))
    <2>1. workers[w].total \in Nat /\ workers[w].avail \in Nat BY SeededApart
    <2>2. CASE /\ \A x \in DOMAIN workloads : workloads[x].assigned # w
               /\ workers[w].avail = workers[w].total
               /\ workers[w].active = 0
      <3>1. Holders(w) = {} BY <2>2 DEF Holders
      <3>2. HeldMemory(w) = {} BY <3>1 DEF HeldMemory
      <3> QED BY <2>1, <2>2, <3>1, <3>2, FS_EmptySet
    <2>3. CASE \E y \in DOMAIN workloads :
                 /\ \A x \in DOMAIN workloads : workloads[x].assigned = w <=> x = y
                 /\ workers[w].avail + workloads[y].required = workers[w].total
                 /\ workers[w].active = 1
      <3>1. PICK y \in DOMAIN workloads :
                /\ \A x \in DOMAIN workloads : workloads[x].assigned = w <=> x = y
                /\ workers[w].avail + workloads[y].required = workers[w].total
                /\ workers[w].active = 1
        BY <2>3
      <3>2. Holders(w) = {y} BY <1>1, <3>1 DEF Holders, PlacedStates
      <3>3. PICK r : r = workloads[y].required OBVIOUS
      <3>4. HeldMemory(w) = {y} \X (1 .. r) BY <3>2, <3>3 DEF HeldMemory
      <3>5. r \in Nat BY <1>1, <3>3
      <3>6. Cardinality(HeldMemory(w)) = r BY <3>4, <3>5, BlockSize
      <3>7. Cardinality(Holders(w)) = 1 BY <3>2, FS_Singleton
      <3> QED BY <2>1, <3>1, <3>3, <3>5, <3>6, <3>7
    <2> QED BY <2>2, <2>3, SeededApart
  <1> QED BY <1>2, <1>3 DEF Straight, NoOvercommit, ActiveCountExact

\* What the store's types say of the ledger.
LEMMA LedgerTypes ==
    ASSUME StoreInv, PlacedSomewhere
    PROVE  /\ Capacity \in [DOMAIN workers -> Nat]
           /\ Free \in [DOMAIN workers -> Nat]
           /\ IsFiniteSet(Outstanding)
           /\ \A g \in Outstanding : g.worker \in DOMAIN workers /\ g.size \in Nat
           /\ \A g, h \in Outstanding : g.job = h.job => g = h
  <1>1. Capacity \in [DOMAIN workers -> Nat] /\ Free \in [DOMAIN workers -> Nat]
    BY WorkerNumbers DEF Capacity, Free
  <1>2. IsFiniteSet(Outstanding)
    <2> DEFINE jobs == Placed \ Returned
               given == [x \in jobs |-> GrantOf(x)]
    <2>1. jobs \subseteq Workloads BY DEF Placed, StoreInv, TypeOK
    <2>2. IsFiniteSet(jobs) BY <2>1, WorkloadsAssumption, FS_Subset
    <2>3. given \in Surjection(jobs, Outstanding) BY DEF Surjection, Outstanding
    <2> QED BY <2>2, <2>3, FS_Surjection
  <1>3. \A g \in Outstanding : g.worker \in DOMAIN workers /\ g.size \in Nat
    BY StoredTypes DEF Outstanding, GrantOf, Placed, PlacedSomewhere, WorkloadType
  <1>4. \A g, h \in Outstanding : g.job = h.job => g = h
    BY DEF Outstanding, GrantOf
  <1> QED BY <1>1, <1>2, <1>3, <1>4

\* While no completion is half done, what is granted is what is held.
LEMMA GrantedIsHeld ==
    ASSUME Returned = {}, NEW w
    PROVE  ClusterLedger!Held(w) = HeldMemory(w)
  <1>1. Outstanding = {GrantOf(x) : x \in Placed} BY DEF Outstanding
  <1>2. ASSUME NEW m \in ClusterLedger!Held(w) PROVE m \in HeldMemory(w)
    <2>1. PICK g \in Outstanding : g.worker = w /\ m \in {g.job} \X (1 .. g.size)
      BY <1>2 DEF ClusterLedger!Held
    <2>2. PICK x \in Placed : g = GrantOf(x) BY <1>1, <2>1
    <2>3. x \in Holders(w) /\ m \in {x} \X (1 .. workloads[x].required)
      BY <2>1, <2>2 DEF GrantOf, Placed, Holders
    <2> QED BY <2>3 DEF HeldMemory
  <1>3. ASSUME NEW m \in HeldMemory(w) PROVE m \in ClusterLedger!Held(w)
    <2>1. PICK x \in Holders(w) : m \in {x} \X (1 .. workloads[x].required)
      BY <1>3 DEF HeldMemory
    <2>2. PICK g : g = GrantOf(x) OBVIOUS
    <2>3. /\ g \in Outstanding /\ g.worker = w /\ g.job = x
          /\ g.size = workloads[x].required
      BY <1>1, <2>1, <2>2 DEF GrantOf, Placed, Holders
    <2>4. m \in {g.job} \X (1 .. g.size) BY <2>1, <2>3
    <2> QED BY <2>3, <2>4 DEF ClusterLedger!Held
  <1> QED BY <1>2, <1>3

LEMMA InitFresh == Init => FreshInv
  <1> SUFFICES ASSUME Init PROVE FreshInv OBVIOUS
  <1>1. CPInv BY InitCPInv
  <1>2. SeededStore BY DEF Init, SimulatorInit
  <1>3. Tidy /\ NoOvercommit BY <1>2, SeededBooks DEF Straight
  <1>4. sim.at \in {"start", "stopped"}
    <2>1. PICK at \in {"start", "stopped"} : sim = [Resting EXCEPT !.at = at]
      BY Zenon DEF Init, SimulatorInit
    <2> QED BY <2>1 DEF Resting
  <1>5. CompletionSound BY <1>4 DEF CompletionSound
  <1>6. Returned = {} BY <1>4 DEF Returned
  <1>7. StoreInv /\ PlacedSomewhere BY <1>1 DEF CPInv
  <1>8. /\ DOMAIN Capacity = DOMAIN workers
        /\ \A w \in DOMAIN workers :
              Free[w] = workers[w].avail /\ Capacity[w] = workers[w].total
    BY DEF Capacity, Free
  <1>9. ClusterLedger!Solvent
    BY <1>3, <1>6, <1>7, <1>8, GrantedIsHeld, LedgerTypes, SameSizes
    DEF ClusterLedger!Solvent, NoOvercommit
  <1>10. ClusterLedger!Opened
    BY <1>7, <1>8, <1>9, LedgerTypes, SameSizes DEF ClusterLedger!Opened
  <1> QED BY <1>1, <1>3, <1>5, <1>10 DEF FreshInv

-----------------------------------------------------------------------------
(***************************************************************************)
(* What each call of the store does to the ledger.                         *)
(***************************************************************************)
LEMMA SameGrants ==
    ASSUME Placed' = Placed, Returned' = Returned,
           \A x \in Placed : workloads'[x] = workloads[x]
    PROVE  Outstanding' = Outstanding
  BY DEF Outstanding, GrantOf

LEMMA ReturnedStays == NoCompletion => Returned' = Returned
  BY DEF NoCompletion, Returned

LEMMA SameTables ==
    /\ workers' = workers => Capacity' = Capacity /\ Free' = Free
    /\ workloads' = workloads =>
          Placed' = Placed /\ \A x \in Placed : workloads'[x] = workloads[x]
  BY DEF Capacity, Free, Placed

\* What is returned already is not yet stored as completed.
LEMMA ReturnedArePlaced == CompletionSound => Returned \subseteq Placed
  BY DEF CompletionSound, Returned, Placed

LEMMA RoomFor ==
    ASSUME FreshInv, NEW x \in Placed \ Returned
    PROVE  LET w == workloads[x].assigned
           IN  /\ w \in DOMAIN workers /\ GrantOf(x) \in Outstanding
               /\ workers[w].avail + workloads[x].required <= workers[w].total
  <1>1. PICK g : g = GrantOf(x) OBVIOUS
  <1>2. /\ g \in Outstanding /\ g.worker = workloads[x].assigned
        /\ g.size = workloads[x].required
    BY <1>1 DEF Outstanding, GrantOf
  <1>3. g.worker \in DOMAIN workers
    BY <1>2, LedgerTypes DEF FreshInv, CPInv
  <1>4. LedgerFacts!Opened BY SameLedger DEF FreshInv
  <1>5. Free[g.worker] + g.size <= Capacity[g.worker]
    BY <1>2, <1>4, LedgerFacts!OpenedHasRoom
  <1> QED BY <1>1, <1>2, <1>3, <1>5 DEF Free, Capacity

LEMMA CallGrants ==
    ASSUME StoreInv, CompletionSound, NoCompletion,
           NEW x \in Workloads, NEW w \in Workers, CommitPlacement(x, w)
    PROVE  ClusterLedger!Grant(x, w)
  <1>1. PICK r :
            /\ w \in DOMAIN Free /\ r \in 1 .. Free[w]
            /\ Free' = [Free EXCEPT ![w] = Free[w] - r]
            /\ Capacity' = Capacity
            /\ x \notin Placed /\ Placed' = Placed \cup {x}
            /\ GrantOf(x)' = [job |-> x, worker |-> w, size |-> r]
            /\ \A y \in Placed : GrantOf(y)' = GrantOf(y)
    BY CommitMoves
  <1>2. Returned' = Returned /\ x \notin Returned
    BY <1>1, ReturnedStays, ReturnedArePlaced
  <1>3. \A g \in Outstanding : g.job # x BY <1>1 DEF Outstanding, GrantOf
  <1>4. Outstanding' = Outstanding \cup {[job |-> x, worker |-> w, size |-> r]}
    BY <1>1, <1>2 DEF Outstanding
  <1> QED BY <1>1, <1>3, <1>4, Zenon DEF ClusterLedger!Grant

LEMMA CallReturns ==
    ASSUME FreshInv, CompletionUndisturbed, NoCompletion, ~ Complete,
           NEW x \in Workloads, NEW next \in ReleaseTargets,
           ReleasePlacement(x, next)
    PROVE  \E g \in Outstanding : ClusterLedger!Return(g)
  <1>0. StoreInv BY DEF FreshInv, CPInv
  <1>1. PICK g, w, r :
            /\ g = GrantOf(x) /\ w = workloads[x].assigned
            /\ r = workloads[x].required
    OBVIOUS
  <1>2. g.worker = w /\ g.size = r BY <1>1 DEF GrantOf
  <1>3. /\ x \in Placed /\ w \in DOMAIN workers
        /\ workloads'[x].state = next
        /\ workers'[w].avail = IF r > workers[w].total - workers[w].avail
                               THEN workers[w].total ELSE workers[w].avail + r
    BY <1>0, <1>1, ReleaseFields DEF Placed
  <1>4. x \notin Returned
    BY <1>3 DEF Returned, CompletionUndisturbed, Placed, PlacedStates, ReleaseTargets
  <1>5. g \in Outstanding /\ workers[w].avail + r <= workers[w].total
    BY <1>1, <1>3, <1>4, RoomFor
  <1>6. /\ workers[w].avail \in Nat /\ workers[w].total \in Nat /\ r \in Nat
    BY <1>0, <1>1, <1>3, WorkerNumbers, StoredTypes DEF Placed, WorkloadType
  <1>7. workers'[w].avail = workers[w].avail + r BY <1>3, <1>5, <1>6
  <1>8. /\ Free' = [Free EXCEPT ![w] = Free[w] + r]
        /\ Capacity' = Capacity
        /\ Placed' = Placed \ {x}
        /\ \A y \in Placed : y # x => GrantOf(y)' = GrantOf(y)
    BY <1>0, <1>1, <1>7, ReleaseMoves
  <1>9. Returned' = Returned BY ReturnedStays
  <1>10. \A y \in Placed : y # x => GrantOf(y) # g BY <1>1 DEF GrantOf
  <1>11. Outstanding' = Outstanding \ {g}
    BY <1>1, <1>8, <1>9, <1>10 DEF Outstanding
  <1> QED BY <1>2, <1>5, <1>8, <1>11, Zenon DEF ClusterLedger!Return

LEMMA CallJoins ==
    ASSUME StoreInv, NoCompletion, NEW w \in Workers, RegisterIdleWorker(w)
    PROVE  ClusterLedger!Join(w)
  <1>1. /\ w \notin DOMAIN Capacity /\ workloads' = workloads
        /\ \E c \in {record.total : record \in WorkerRecords} : \E f \in 0 .. c :
              Capacity' = Put(Capacity, w, c) /\ Free' = Put(Free, w, f)
    BY RegisterMoves
  <1>2. Outstanding' = Outstanding BY <1>1, SameTables, SameGrants, ReturnedStays
  <1> QED BY <1>1, <1>2 DEF ClusterLedger!Join, ClusterLedger!Add, Put

LEMMA CallWithdraws ==
    ASSUME StoreInv, NoCompletion, WorkersFresh, ~ FreeWorker,
           NEW w \in DOMAIN workers, NEW record \in WorkerType,
           UpdateWorker(w, record)
    PROVE  w \in Workers /\ ClusterLedger!Withdraw(w)
  <1>1. /\ workloads' = workloads /\ DOMAIN workers' = DOMAIN workers
        /\ workers'[w] = record
        /\ \A v \in DOMAIN workers : v # w => workers'[v] = workers[v]
    BY DEF UpdateWorker, Put
  <1>2. record.total = workers[w].total /\ record.avail \in 0 .. workers[w].avail
    BY <1>1, WorkerNumbers DEF WorkersFresh, WorkerType
  <1>3. PICK f \in 0 .. Free[w] : f = record.avail BY <1>2 DEF Free
  <1>4. Free' = [Free EXCEPT ![w] = f] /\ w \in DOMAIN Free
    BY <1>1, <1>3 DEF Free
  <1>5. Capacity' = Capacity BY <1>1, <1>2 DEF Capacity
  <1>6. Outstanding' = Outstanding BY <1>1, SameTables, SameGrants, ReturnedStays
  <1>7. w \in Workers BY StoredTypes
  <1> QED BY <1>3, <1>4, <1>5, <1>6, <1>7 DEF ClusterLedger!Withdraw

LEMMA OtherCallLedger ==
    ASSUME FreshInv, FreshWrites, OtherCall, NoCompletion, ~ FreeWorker, ~ Complete
    PROVE  [ClusterLedger!Next]_(ClusterLedger!vars)
  <1>0. StoreInv /\ CompletionSound /\ Tidy BY DEF FreshInv, CPInv
  <1>1. CASE Place
    <2>1. PICK x \in Workloads, w \in Workers : CommitPlacement(x, w)
      BY <1>1 DEF Place
    <2> QED BY <1>0, <2>1, CallGrants DEF ClusterLedger!Next
  <1>2. CASE Release
    <2>1. PICK x \in Workloads, next \in ReleaseTargets : ReleasePlacement(x, next)
      BY <1>2 DEF Release
    <2> QED BY <2>1, CallReturns DEF ClusterLedger!Next, FreshWrites
  <1>3. CASE \E w \in Workers : RegisterIdleWorker(w)
    BY <1>0, <1>3, CallJoins DEF ClusterLedger!Next
  <1>4. CASE \E w \in DOMAIN workers, record \in WorkerType : UpdateWorker(w, record)
    BY <1>0, <1>4, CallWithdraws DEF ClusterLedger!Next, FreshWrites
  <1>5. ASSUME workers' = workers, Placed' = Placed,
               \A x \in Placed : workloads'[x] = workloads[x]
        PROVE  UNCHANGED ClusterLedger!vars
    BY <1>5, SameTables, SameGrants, ReturnedStays DEF ClusterLedger!vars
  <1>6. CASE \E x \in Workloads : CreateUnplaced(x)
    <2>1. PICK x \in Workloads : CreateUnplaced(x) BY <1>6
    <2>2. /\ workers' = workers /\ x \notin DOMAIN workloads
          /\ DOMAIN workloads' = DOMAIN workloads \cup {x}
          /\ \A y \in DOMAIN workloads : workloads'[y] = workloads[y]
          /\ workloads'[x].state \notin PlacedStates
      BY <1>0, <2>1, CreateFields
    <2> QED BY <1>5, <2>2 DEF Placed
  <1>7. CASE Override
    <2>1. /\ workers' = workers /\ DOMAIN workloads' = DOMAIN workloads
          /\ \A y \in DOMAIN workloads :
                \/ workloads'[y] = workloads[y]
                \/ /\ workloads[y].state \notin PlacedStates
                   /\ workloads'[y].state \notin PlacedStates
      BY <1>0, <1>7, OverrideFields DEF FreshWrites
    <2> QED BY <1>5, <2>1 DEF Placed
  <1>8. CASE UNCHANGED storeVars BY <1>5, <1>8, SameTables DEF storeVars
  <1> QED BY <1>1, <1>2, <1>3, <1>4, <1>6, <1>7, <1>8 DEF OtherCall

\* The first write of a completion returns the grant of the workload, ...
LEMMA FreeReturns ==
    ASSUME FreshInv, FreshWrites, FreeWorker
    PROVE  \E g \in Outstanding : ClusterLedger!Return(g)
  <1>0. CPInv /\ StoreInv /\ Tidy /\ CompletionSound BY DEF FreshInv, CPInv
  <1>1. PICK x, w, r, g :
            /\ x = sim.job /\ w = sim.workload.assigned
            /\ r = workloads[x].required /\ g = GrantOf(x)
    OBVIOUS
  <1>2. /\ workloads' = workloads /\ DOMAIN workers' = DOMAIN workers
        /\ w \in DOMAIN workers /\ workers'[w] = sim.worker
        /\ \A v \in DOMAIN workers : v # w => workers'[v] = workers[v]
        /\ sim.at = "computed" /\ sim'.at = "freed" /\ sim'.job = x
    BY <1>0, <1>1, FreeFields
  <1>3. /\ x \in DOMAIN workloads /\ sim.workload = workloads[x]
        /\ workloads[x].state # "COMPLETED"
        /\ sim.worker = WorkerAfter(workers[w], workloads[x])
    BY <1>0, <1>1, <1>2
    DEF CompletionSound, FreshWrites, CompletionFresh
  <1>4. w \in Workers /\ workers[w] \in WorkerType /\ workloads[x] \in WorkloadType
    BY <1>0, <1>2, <1>3, StoredTypes
  <1>5. x \in Placed
    <2>1. workloads[x].assigned # NoWorker
      BY <1>1, <1>3, <1>4, WorkersAssumption
    <2> QED BY <1>0, <1>3, <2>1 DEF Tidy, Placed
  <1>6. Returned = {} /\ Returned' = {x} BY <1>2 DEF Returned
  <1>7. g.worker = w /\ g.size = r BY <1>1, <1>3 DEF GrantOf
  <1>8. g \in Outstanding /\ workers[w].avail + r <= workers[w].total
    BY <1>1, <1>3, <1>5, <1>6, RoomFor
  <1>9. /\ workers[w].avail \in Nat /\ workers[w].total \in Nat /\ r \in Nat
    BY <1>1, <1>4 DEF WorkerType, WorkloadType
  <1>10. /\ workers'[w].total = workers[w].total
         /\ workers'[w].avail = workers[w].avail + r
    BY <1>1, <1>2, <1>3, <1>4, <1>8, <1>9, WorkerAfterFields
  <1>11. Free' = [Free EXCEPT ![w] = Free[w] + r] BY <1>2, <1>10 DEF Free
  <1>12. Capacity' = Capacity BY <1>2, <1>10 DEF Capacity
  <1>13. Outstanding' = Outstanding \ {g}
    <2>1. Placed' = Placed /\ \A y \in Placed : GrantOf(y)' = GrantOf(y)
      BY <1>2 DEF Placed, GrantOf
    <2>2. \A y \in Placed : y # x => GrantOf(y) # g BY <1>1 DEF GrantOf
    <2> QED BY <1>1, <1>6, <2>1, <2>2 DEF Outstanding
  <1> QED BY <1>7, <1>8, <1>11, <1>12, <1>13, Zenon DEF ClusterLedger!Return

\* ... and the second one stores what the ledger knows already.
LEMMA CompleteStutters ==
    ASSUME FreshInv, Complete
    PROVE  UNCHANGED ClusterLedger!vars
  <1>0. CPInv BY DEF FreshInv
  <1>1. PICK x : x = sim.job OBVIOUS
  <1>2. /\ workers' = workers /\ DOMAIN workloads' = DOMAIN workloads
        /\ sim.at = "freed" /\ sim'.at = "loop"
        /\ x \in DOMAIN workloads
        /\ workloads'[x].state = "COMPLETED"
        /\ \A y \in DOMAIN workloads : y # x => workloads'[y] = workloads[y]
    BY <1>0, <1>1, CompleteFields
  <1>3. Returned = {x} /\ Returned' = {} BY <1>1, <1>2 DEF Returned
  <1>4. Placed' = Placed \ {x} BY <1>2 DEF Placed, PlacedStates
  <1>5. \A y \in Placed \ {x} : GrantOf(y)' = GrantOf(y) BY <1>2 DEF Placed, GrantOf
  <1>6. Outstanding' = Outstanding BY <1>3, <1>4, <1>5 DEF Outstanding
  <1> QED BY <1>2, <1>6, SameTables DEF ClusterLedger!vars

LEMMA FreshStep ==
    FreshInv /\ [ConcurrentNext]_vars /\ [FreshWrites]_vars =>
        FreshInv' /\ [ClusterLedger!Next]_(ClusterLedger!vars)
  <1> SUFFICES ASSUME FreshInv, [ConcurrentNext]_vars, [FreshWrites]_vars
               PROVE  FreshInv' /\ [ClusterLedger!Next]_(ClusterLedger!vars)
    OBVIOUS
  <1>1. CPInv /\ CPInv' BY StepCPInv DEF FreshInv
  <1>2. CASE UNCHANGED vars
    <2>1. /\ workers' = workers /\ workloads' = workloads /\ sim' = sim
      BY <1>2 DEF vars, storeVars, actorVars
    <2>2. UNCHANGED ClusterLedger!vars
      BY <2>1 DEF ClusterLedger!vars, Capacity, Free, Outstanding, Placed, Returned, GrantOf
    <2>3. ClusterLedger!Opened' BY <2>2, OpenedStep DEF FreshInv
    <2> QED BY <1>1, <2>1, <2>2, <2>3 DEF FreshInv, Tidy, CompletionSound
  <1>3. CASE FreshWrites /\ ~ UNCHANGED vars
    <2>1. [ClusterLedger!Next]_(ClusterLedger!vars)
      <3>1. CASE FreeWorker BY <1>3, <3>1, FreeReturns DEF ClusterLedger!Next
      <3>2. CASE Complete BY <3>2, CompleteStutters
      <3>3. CASE ~ FreeWorker /\ ~ Complete
        BY <1>1, <1>3, <3>3, CallOfStep, OtherCallLedger
      <3> QED BY <3>1, <3>2, <3>3
    <2>2. ClusterLedger!Opened' BY <2>1, OpenedStep DEF FreshInv
    <2>3. Tidy' BY <1>1, <1>3, CallOfStep, TidyStep DEF FreshInv, FreshWrites
    <2>4. CompletionSound' BY <1>1, <1>3, SoundStep DEF FreshInv, FreshWrites
    <2> QED BY <1>1, <2>1, <2>2, <2>3, <2>4 DEF FreshInv
  <1> QED BY <1>2, <1>3

(***************************************************************************)
(* However the components interleave, as long as no write is stale and no  *)
(* operator takes a workload off its worker, all of them together keep the *)
(* reservation ledger: each commit takes one grant, each release and each  *)
(* completion returns it once and in full, and nothing else makes memory   *)
(* free.  It is the read-compute-write of UpdateWorker and UpdateWorkload, *)
(* not the mutex of the store, that the books depend on.                   *)
(***************************************************************************)
THEOREM FreshWritesKeepLedger ==
    ConcurrentSpec /\ [][FreshWrites]_vars => ControlPlaneKeepsLedger
  <1>1. Init => FreshInv BY InitFresh
  <1>2. FreshInv /\ [ConcurrentNext]_vars /\ [FreshWrites]_vars =>
            FreshInv' /\ [ClusterLedger!Next]_(ClusterLedger!vars)
    BY FreshStep
  <1>3. FreshInv => ClusterLedger!Opened BY DEF FreshInv
  <1> QED
    BY <1>1, <1>2, <1>3, PTL
    DEF ConcurrentSpec, ControlPlaneKeepsLedger, ClusterLedger!OpenedSpec

(***************************************************************************)
(* Then committed memory fits into the workers whenever nothing is in      *)
(* progress: the run that finds CommittedFits violated finds a write that  *)
(* is stale.                                                               *)
(***************************************************************************)
THEOREM FreshWritesFit == ConcurrentSpec /\ [][FreshWrites]_vars => []CommittedFits
  <1>1. Init => FreshInv BY InitFresh
  <1>2. FreshInv /\ [ConcurrentNext]_vars /\ [FreshWrites]_vars => FreshInv'
    BY FreshStep
  <1>3. FreshInv => CommittedFits
    <2> SUFFICES ASSUME FreshInv, Quiet, NEW w \in DOMAIN workers
                 PROVE  Cardinality(HeldMemory(w)) <= workers[w].total
      BY DEF CommittedFits
    <2>1. Returned = {}
      <3>1. sim.at \in {"loop", "stopped"} BY RestingFields DEF Quiet
      <3> QED BY <3>1 DEF Returned
    <2>2. /\ w \in DOMAIN Capacity /\ Free[w] = workers[w].avail
          /\ Capacity[w] = workers[w].total
      BY DEF Capacity, Free
    <2>3. Free[w] + Cardinality(HeldMemory(w)) <= Capacity[w]
      BY <2>1, <2>2, GrantedIsHeld, SameSizes
      DEF FreshInv, ClusterLedger!Opened, ClusterLedger!Solvent
    <2> QED BY <2>2, <2>3, WorkerNumbers DEF FreshInv, CPInv
  <1> QED BY <1>1, <1>2, <1>3, PTL DEF ConcurrentSpec
=============================================================================
