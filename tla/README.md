# Verification of the Aegis LLM control plane

TLA+ models of the Go program in this repository, the TLC runs that check them
on small instances and the TLAPS proofs of what holds for every instance.
Paths are relative to the repository; `README:n` is a line of its `README.md`.

## 1. The system

Aegis places LLM workloads on GPU workers. Its components share one in-memory
state store, and a second pair of stores for telemetry and forecasts; otherwise
they do not call one another.

| Component | State | Operations | Talks to |
|---|---|---|---|
| State store (`internal/cluster/memory_store.go`) | maps of workers and workloads, one RWMutex | Register/Update worker, Create/Update workload, CommitPlacement, ReleasePlacement, Get/List/Snapshot | everybody, by calls that are atomic one by one |
| Scheduler (`internal/scheduler/service.go`, `*placement.go`) | none kept; local snapshot, chosen worker | SchedulePending, PlaceWorkload under three policies, Run (a pass at each tick) | store: Snapshot, Snapshot, CommitPlacement |
| Pending queue (`queue.go`) | none | order by priority, age and arrival | scheduler |
| Selection policies (`scheduler.go`, `predictive.go`, `risk_aware.go`), risk (`internal/risk`) | none | SelectWorker and two variants; scores, penalties, risks | snapshot of the store, live forecast store |
| Reconciler (`reconcile.go`, `health.go`) | one snapshot per pass | ReconcileCluster | store: Snapshot, UpdateWorker..., ReleasePlacement... |
| DCGM ingestion (`telemetry/dcgm*.go`) | none | Ingest, ApplyDCGMSample | store: GetWorker, UpdateWorker |
| Simulator (`internal/simulator`) | the lifecycle's map of tracked workloads; a step counter per scenario | seeding, heartbeats with utilisations, completion of workloads | store: ListWorkers, Get..., Update... |
| Telemetry history (`internal/telemetry`) | append-only records | a snapshot of the cluster recorded at each tick | state store, predictor |
| Prediction (`internal/predictor`) | records read so far, a history per worker, the result store | incremental reading, a forecast with its error per worker | telemetry store; results read by selection |
| HTTP API (`internal/api`) | none | CRUD, place, schedule | store, scheduler |
| Benchmark (`cmd/benchmark`) | two workers and the running workloads of an offline run | place a stream of workloads under each policy and scenario | selection, risk |
| Process (`cmd/aegis`) | | starts the API, the scheduling loop, telemetry, prediction and the simulator | all |

What is hard here:

* *Atomicity.* Every method of the store holds its lock from first read to last
  write; nothing holds it across two methods. The scheduler is written for
  that: what it chose from a snapshot is checked again under the lock. The
  reconciler, the DCGM ingestor and the simulator are not: they read whole
  records, change a copy and store it back whole.
* *Errors that end loops.* `Service.Run` and `Simulator.Run` return at the
  first error, also when the error only says that another goroutine was faster.
* *Duplicated bookkeeping.* A reservation exists three times: as a workload's
  state and assignment, as the worker's missing memory, in the worker's counter.
  Commit, release, and the simulator's own completion each update all three.
* *Time.* Heartbeats, samples and forecasts age while passes are under way.
* *Reading what grows.* The predictor lists records that another goroutine is
  appending one by one, all of one tick with one time, and divides by the
  difference of times. Selection reads forecasts that a pass is overwriting,
  once to choose a worker and again to report its score.
* *Order and starvation.* A pass is ordered once, by a weight that grows while
  workloads wait; overtaking and starvation only show over many passes.
* *Map order.* Every list of workers is in the random order of a Go map.

What makes each part correct is listed with its runs in section 4;
`PROJECT.json` lists the hazards at their lines with the properties on guard.

## 2. Modules

```
ClusterTypes             records, validation, topology match, health
  StateStore             the store; free clients and clients under contract
    Reservation          what it promises: a ledger (refinement)
    Scheduler            SchedulePending, Place*, Run
      QueuedScheduler    the same in the order of the queue (refinement)
        WorkloadQueue    weights, aging, order
    Reconciler           ReconcileCluster
    DCGMIngestor         Ingest
    Simulator            Simulator.Run and the workload lifecycle
      ControlPlane       all of them, API clients and the clock
TelemetryService         ticks, snapshots, records
  TrendPredictor         the forecast from a history
    PredictionService    Service.Run, histories, results, a placement's reads
SimulatorScenarios       the loads the simulator makes up
WorkerSelection          the three selection loops
WorkerScoring            scores, penalties, risks
  Benchmark              cmd/benchmark on the two modules above
Reservation_proofs  StateStore_proofs  Scheduler_proofs  QueuedScheduler_proofs
ControlPlane_proofs  ControlPlaneSerial_proofs
WorkerSelection_proofs  PredictionService_proofs
MCStateStore  MCScheduler  MCControlPlane  MCWorkerSelection  MCBenchmark
MCPredictionService
```

**ClusterTypes.** `WorkerType` and `WorkloadType` keep the fields that guards
or properties tell apart. Fields that are only range-checked on a write are one
Boolean, `wellFormed`. A worker's `state` is not validated by the code, so it
may be `"OTHER"`. Memory in MB is an unbounded `Nat`; that no subtraction of
the store wraps around in `uint64` is part of what `TypeOK` and
`StoredRecordsValid` say.

**StateStore.** One action per method that changes state. A call that fails
changes nothing and is a disabled action. `Spec` has clients that store any
record that validates, as the API lets them do. `AtomicSpec` has clients that
keep a *contract*: workers are registered idle, workloads unplaced, and records
are updated in one uninterrupted read-modify-write that never raises available
memory and never enters or leaves `PLACED`/`RUNNING` (`ClientStates` are the
states it may store). `CommitPlacement`'s guards are `CommitAllowed`; the capped
return of memory is `ReleasedWorker`.

**Reservation.** The abstract ledger: workers join with a capacity, a grant
takes memory, a return gives back exactly what its grant took, and nothing else
makes memory free. `StateStore!ImplementsLedger` is the refinement, with a
workload in a placed state as the grant. `OpenedSpec` is the ledger taken over in
the middle of its business, `Opened` being what must hold then: `cmd/aegis` seeds
its store with workers that run workloads already.

**Scheduler.** A placer (`placer[p]`) is `idle`, in a `pass` over `todo`,
about to `commit`, or `stopped`. `StartPass` is the listing snapshot,
`Choose`/`NoneEligible`/`Refuse` the second snapshot with the checks made on
it, `Commit`/`Conflict` the call of `CommitPlacement`. `ErrNoEligibleWorker`
continues the pass; any other error ends it, and the loop. The choice among
eligible workers and the order of a pass are left open, so the results hold for
each policy and for any order.

**WorkloadQueue, QueuedScheduler.** `EffectivePriorityWeight` and `Before` are
`queue.go`; `First` is what the sorted list may begin with, the order of equals
being that of a Go map. `ListPending` is `StartPass` with the reading of the
clock that the pass is ordered by; `QueuedProceed` tries the first of what is
left. The clock is any element of `Times` at each pass: it may even go back,
which only makes the result stronger. `OrderWorkloads`, the order without
aging, is called by nothing but its tests.

**Reconciler.** What a pass will write is settled by its one snapshot
(`HealthUpdates`, `Affected`); then each `UpdateWorker` and each
`ReleasePlacement` is a step, updates first. An error ends the pass.

**DCGMIngestor.** `StartIngest` is `GetWorker` and `ApplyDCGMSample` with all
its acceptance rules, `StoreSample` the `UpdateWorker`.

**Simulator.** `SeededStore` is what `SeedWorkers` and `SeedWorkloads` leave
behind before a goroutine runs. A tick lists the workers; each heartbeat stores
a listed record; then each due workload is completed by four calls
(`ReadWorkload`, `ReadWorker`, `FreeWorker`, `Complete`). A failed `GetWorker`
stops the simulator (`Abandon`), which `SimulatorStopsForTakenOff` traces to a
release or an operator. `active` is `WorkloadLifecycle.active`.

**ControlPlane.** Everything on one store, plus the API's one-call requests
(`AddWorker`, `SubmitWorkload`, `Drain`, `Override`) and a clock.
`ConcurrentSpec` interleaves components between any two store calls.
`SerialSpec` starts an operation only when none is in progress. The pair
separates what interleaving breaks from what the components do on their own.
`ControlPlaneKeepsLedger` is the refinement of the same ledger by all of them
together (`ClusterLedger`). The grants are those of the placed workloads, except
one (`Outstanding`): between the two writes of a completion the memory has been
returned and the workload is still stored as running (`Returned`).
`cmd/aegis` starts one loop, the API and the simulator; reconciliation and DCGM
ingestion are library code that no goroutine of it starts, so they are constants
that a configuration turns on. What is found with only the loop and the
simulator is found in the program as it is wired.

**TelemetryService.** `CollectAt` takes a tick, perhaps late (`time.Ticker`
drops ticks nobody takes), and a snapshot of the cluster; each `AppendRecord` is one
`Append`, one per worker or one per workload assigned to it, all with the
tick's time. Nothing makes the collector finish.

**TrendPredictor.** `Projected` is `forecastAtHorizon`, `Backtested` and
`MeanError` the error estimator, which goes record by record and ignores how far
apart in time they are: a load that rises steadily is projected exactly whatever
ticks were missed, but backtested with an error, by up to what it changes in the
time by which the intervals differ (`SteadyErrorBounded`). The sum of the errors is
the size of a set with one pair per per cent, as the memory held on a worker is that
of a set with one pair per MB.
`Forecast` is what is stored for a worker.

**PredictionService.** A pass lists the records (`StartPass`), adds the new
ones to the histories one at a time (`AddRecord`, where the first record of a
tick is kept), and then visits each worker with a history: `SkipWorker` for too
few records, `StoreForecast`, which stops the service when the last intervals are
not positive. `basis`, the time of the record a forecast ends at, is added so
that properties can speak of it. `Decide` and `Report` are the two reads of a
placement. A decision made without a forecast leaves nothing to compare with and
is not tracked.

**SimulatorScenarios.** The utilisation curves, from which the pipeline run
takes its loads. A worker's index is its position in `ListWorkers`, hence free.

**WorkerSelection.** One run of one selection function: workers are visited in
any order, each visit reads whatever estimate the forecast store then holds.
Scores are integers; `seen` records the breakdown of each visited candidate
(the code keeps the selected one's only) so that properties can speak of them.

**WorkerScoring, Benchmark.** What the policies weigh, in sixteenths of a point
so that memory in GB is exact, and the loop of `cmd/benchmark` on it: release
what is complete, select with `WorkerSelection`'s own actions, place, record
which workers are under pressure. The benchmark's workers are a slice, visited
in order.

## 3. Constants and bounds

* Two workers and two workloads in the store run: two workloads compete for
  one worker and one workload for two. Sizes 1 and 2 on workers of 1 to 3 MB
  make memory run out, fit exactly and remain. Records include a wrong rack, a
  rack that shadows a domain, more memory available than total, a running
  workload without worker. Symmetric in both sets (no `CHOOSE`, no liveness).
* `ActiveBound` (store): a client that keeps storing a placed workload as
  pending has it counted at each placement; exploration stops above 2. That is
  beyond the truth already: one workload counted twice.
* `scheduler`: a batch and a critical workload two aging intervals apart
  (`AgingInterval = 1`) and clocks 1 and 3: at 3 the batch workload has
  caught up, at 1 it has not. `ClientStates` there are `RUNNING` and
  `COMPLETED`, so that placed workloads move on and pending ones are cancelled.
  Elsewhere the set is empty and other actions move workloads.
* `MaxTime = 3` (control plane), `SuspectedAfter = 1`, `UnhealthyAfter = 2`: a
  worker heard of at 1 goes through all three health states. `MaxSampleAge = 1`
  admits fresh, borderline and old samples. `Deadlines = {1, 2}`: a seeded
  workload ends at the first tick or while another operation runs.
* One worker in the concurrent runs: what interleave are the writers of one
  record. The serial run has two workers, because between them heartbeats,
  drains and placements differ. `scheduler` and `control_plane` have two
  workloads; `overcommit` has three, the number that shows the overcommit.
* `pipeline`: five ticks and a history of four records (16 in the code) let a
  history overflow and ticks be missed; a forecast is fresh for one tick, so that
  it expires. `Horizon = 6` ticks is the code's 30 seconds at its ticker of 5. One
  worker has two workloads and hence two records a tick; the second worker
  appears later. Snapshots do not come with any load at any time:
  `MCPipelineSpec` narrows `PipelineSpec` to a load that rises with the time of the
  snapshot and is level once the second worker is there, at the second tick at the
  earliest. Thus one history holds a
  load of constant rate over intervals that differ (`SteadyErrorBounded`), another
  one that stops rising.
* `benchmark`: three candidates for the selection loop by itself, so that the
  selected one may change twice, which a preference that is not transitive needs;
  two risk levels, three risks, three penalties, equal and different bases. The
  benchmark itself is run at its full size, all 48 steps of every scenario and policy.

## 4. Runs

| Run | Question | Answer |
|---|---|---|
| `store` | What survives clients that write anything that validates? | Types, validity of all stored records (`StoredRecordsValid`), and that a workload placed on a registered worker can always be released (`ReleaseNeverStuck`). Not the books: PUT of a workload or worker may contradict them, and PUT of a workload as placed on no registered worker makes one that cannot be released. |
| `scheduler` | What do racing placers, in the order of the queue, do to the store and for the workloads? | They keep the contract (`KeepsContract`), so the store stays the ledger (`ImplementsLedger`, `NoOvercommit`, `ActiveCountExact`, `AssignmentsSound`). Every placement is on a worker fit at the moment of the commit (`PlacedOnFitWorker`). A pass lets nobody overtake a workload that has waited an aging interval longer per class (`OvertakingBounded`). As long as some loop runs nobody is passed over (`PendingIsPlaced`). |
| `scheduler_conflict` | Does scheduling survive a conflict? | No: finding 3. |
| `control_plane_serial` | Are the components right when they take turns? | As a whole they are the ledger, at every step (`ControlPlaneKeepsLedger`): a completion that kept the memory, say, would leave books that balance at rest (`BooksStraightAtRest` bounds the memory from above) but would not be a return. Also `PassLeavesClusterClean`, `TakenOffDeadOnly`, `DrainingKept`, `PlacementIsFinal`, `CapacityReturnsOnlyWithRelease`. |
| `control_plane` | What survives every interleaving of loop, reconciler, simulator, operators? | Types, `ReleaseNeverStuck`, `OverIsFinal`; the simulator ends with an error only because a workload it tracks was taken off its worker, never by what is stale in its own hands (`SimulatorStopsForTakenOff`); every orphan is released in the end (`OrphansReleased`); every tracked workload completes unless one was taken away (`RunningCompletes`). |
| `overcommit` | ... and the books, with loop and simulator only? | No: finding 1. |
| `telemetry_capacity` | ... and with DCGM ingestion and a loop? | No: finding 2. |
| `recovery`, `lifecycle` | Do RECOVERING and PLACED workloads move on? | No: findings 4 and 5. |
| `pipeline` | What becomes of telemetry on its way to a placement? | No record is lost, read twice or out of order (`HistoryFaithful`), half recorded snapshots and several records a tick never stop the service (`PredictorKeepsRunning`), forecasts never go back or vanish (`ResultsAdvance`), catch up with the records again and again (`ForecastCatchesUp`) and lie between what the last two trends alone would give (`ForecastFollowsTrend`); missed ticks inflate the error estimated for a steady load by no more than the load changes in the time they differ by (`SteadyErrorBounded`); a reported score is never of an older forecast than the choice (`ReportNotOlder`). |
| `benchmark` | What do the policies return, and does the benchmark measure it? | The promised best, per policy, for every order of visits. The simulated workers stay what their workloads make of them (`BenchmarkBooks`), and the table at README:37 is what the modelled policies come to (`PublishedResults`): all 12 rows. |
| `lowest_risk` | Is the lowest risk always chosen? | No: finding 6. |

### Findings

1. *Heartbeats undo commits* (`overcommit`; `simulator/simulator.go:247`).
   The simulator lists the workers, a commit takes memory, the heartbeat
   stores the listed record: memory and counter are back, the workload stays
   placed. The next placement overcommits the worker, against README:187.
   `ReconcileCluster` (`reconcile.go:45`) writes snapshot records back in the
   same way.
2. *A sample undoes a commit* (`telemetry_capacity`; `dcgm_ingestor.go:57`),
   against README:206. In turn, the rule itself is right
   (`control_plane_serial`).
3. *A conflict ends scheduling* (`scheduler_conflict`; `service.go:160`). The
   store refuses a stale choice as README:196 says; the loop then returns the
   error and schedules nothing any more. With turns this cannot happen
   (`LoopsNeverFail`, proved), so no sequential test shows it.
4. *RECOVERING is final* (`recovery`; `service.go:62`), against README:222.
5. *PLACED is final* (`lifecycle`; `lifecycle.go:91`), against README:220:
   only workloads running when the simulator starts are tracked.
6. *The risk-aware preference is not transitive* (`lowest_risk`;
   `risk_aware.go:133`), against README:145: with one candidate that has no
   fresh forecast, map order decides and an assessed worker of higher risk may
   win. If all are assessed it is right (`AssessedLowestRisk`, proved).

Also seen, without a run of their own:

* The predictive and risk-aware loops break ties by map order, where only the
  baseline has the tie-breaking of README:94.
* The simulator's completion is outside the store's contract (four calls, and
  the completed workload keeps its `AssignedWorkerID`), which is why
  `CapacityReturnsOnlyWithRelease` exempts it.
* README:212 says that unhealthy workers are excluded from placements. That is
  so once a pass has marked them; `cmd/aegis` never calls `ReconcileCluster`, so
  the process as wired goes on placing on a dead worker.
* `GeneratedAt` is the time of the calculation. When telemetry stops, every pass
  forecasts the same records again and the result never becomes stale.
* The benchmark's stale scenario (README:194) gives both workers the same
  forecast. Equal penalties and risks cannot change a choice, so the benchmark
  would print the same numbers without the freshness check; `StaleFallsBack` is
  what shows that the check works.
* A workload without arrival time never ages, and the API stores what it is sent
  without giving it one.
* A large workload can starve however long it waits: no memory is ever held
  back for it while smaller ones keep arriving. `PendingIsPlaced` is about
  workloads that some worker keeps fitting.
* The simulator gives a worker the utilisation of its position in a list that is
  in map order, so that loads change places at each tick and forecasts see trends
  that no curve has.
* PUT of a workload (`server.go:227`, `memory_store.go:204`) checks ranges only. A
  client can store a workload as RUNNING on no worker, or on one that is not
  registered; `ReleasePlacement` then refuses it for good, and a simulator that
  tracks it stops. `ReleaseNeverStuck` is about workloads whose worker exists, and
  the operators of `ControlPlane` make no such request (`OverridesAssumption`).
* A drain is lost when a health update or a heartbeat stores a record listed before
  it. `DrainingKept` is about components that take turns.
* The backtest behind a forecast's error (`predictor.go:130`) ignores timestamps,
  which the forecast itself does not. Loads of 10, 20 and 30 at ticks 1, 2 and 3 and
  of 60 at tick 6 are forecast exactly and get an error of 20.

### Fairness

Weak fairness only, and only of steps the code takes by itself: the clock, a
loop's ticker (`PassStarts`, `ListPending`), the next call of an operation under
way, the simulator's tick, the prediction service's next step (`Predict`). No
request of a client and no release is fair; neither is telemetry, which may stop
anywhere in a snapshot, nor the reads of a placement. One assumption is about
code outside this repository: some caller runs `ReconcileCluster` again and
again (`OrphansReleased` needs it). Strong fairness is assumed nowhere: a ticker
fires and a runnable goroutine runs, but nothing guarantees that it runs at a
favourable moment. Deadlock is checked everywhere except in `benchmark` and
`lowest_risk`, whose functions return, and in `pipeline`, where the service stops
if an interval is not positive and `PredictorKeepsRunning` says it never does.

## 5. Proofs

All theorems hold for every value of the constants under the named assumptions:
`WorkersAssumption` (no worker has the empty ID), `WorkloadsAssumption` (finitely
many workloads, needed for cardinalities), `ClockAssumption` (the bound on the
clock admits its first reading), `PlacersAssumption` (a loop is not an API caller),
and those that type the constants
(`ThresholdsAssumption`, `RecordsAssumption`, `OverridesAssumption`,
`SeedAssumption`, `SamplesAssumption`, `QueueAssumption`, `TimesAssumption`,
`SelectionAssumption`, `SnapshotsAssumption`, `HorizonAssumption`,
`PredictionAssumption`).

*The store under any clients* (`StateStore_proofs`). `TypeOK` alone is not
inductive: a commit stores results without validating them, and the release's
validation could refuse. `StoreInv == TypeOK /\ StoredRecordsValid` is, since
`CommitAllowed` keeps the subtraction in range and the cap keeps the return in
range: `RecordsStayValid`. `ReservationsReturnable` follows from the invariant, for
the workloads whose worker is registered: of what clients store as placed elsewhere
it says nothing. That a placement made by the store never becomes one of those
unless the workload's own record is written is `PlacementsStayReturnable`: a write
of the worker keeps it registered and valid, whatever else it changes.

*The store under contract.* `LedgerInv` adds `NoOvercommit`,
`ActiveCountExact` and `AssignmentsSound`, which need each other: the count
is exact only if assignments are sound, and the return is never cut short by
the cap only because nothing is overcommitted. Memory is counted as the
cardinality of a set with one element per MB, so that no sum over a set and no
recursion is needed; lemmas `AddBlock`/`RemoveBlock` do the arithmetic once.
`BooksStraight` is the invariance, `StoreImplementsLedger` the refinement:
every step maps to a ledger step or a stutter; `PlacementsFinal` says that no
step moves a placed workload. What a commit and a release do to the books is in two
lemmas, `CommitBooks` and `ReleaseBooks`, that ask for no more than balanced books:
they are used again where turns are taken.

*The ledger by itself* (`Reservation_proofs`). `Opened` is inductive. From it
`LedgerSolvent`: no memory is both free and granted, none is granted twice; and
`RoomToReturn`: a grant can always be returned in full. So what refines the ledger
never loses memory to the caps of `ReleasePlacement` and of the completion.

*The scheduler* (`Scheduler_proofs`). Each step of a placer is an atomic commit
or leaves the store alone (`SchedulerKeepsContract`); so everything proved of
`AtomicSpec` holds of any number of racing loops and callers
(`PlacersKeepBooks`, `PlacementsNotReplaced`, `PlacersImplementLedger`).
`PlacementsRevalidated` is an action property from the guards of the commit,
`SchedulerTypes` the typing.

*The queue* (`QueuedScheduler_proofs`). `QueuedImplementsScheduler`: a scheduler
that takes workloads in the order of the queue is one that takes them in some
order, so all of the above holds of it. `AgingBoundsOvertaking`: the first of a
list by `Before` has the right to be, for any priorities, arrivals, clock
readings and interval. The arithmetic is in one lemma on integer division
(`BoostOfIntervals`); the invariant adds
that the workload a placer is about to commit is the first of what is left.

*Every interleaving* (`ControlPlane_proofs`). The books do not survive it (findings
1 and 2); what does is proved of `ConcurrentSpec` for any number of actors. `CPInv`
adds to `StoreInv` the types of what every actor holds between two of its calls:
an update of an old record cannot make the store invalid because the store
validates it, and cannot be of a wrong type because the actor computed it from a
stored one. That tracked workloads still exist is needed too, because a completion
reads them, and that a placed workload names a worker (`PlacedSomewhere`), the one
its release is charged to (`PlacedAreReleasable`). Every step is a `StoreStep`: a
commit, a release, writes of worker records or of one workload record. From this
`ControlPlaneTypes` (which includes that what the simulator tracks or is about to
complete is in the store), `ReservationsAlwaysReturnable` (of workloads whose worker
is in the store), `PlacementsStayFinal`, and, by what each step may do to a workload
that is over (`OverStays`), `OverStaysOver`. `SimulatorStopExplained` needs one
invariant more: each tracked workload is on a worker of the store or was taken off
(`TrackedStep` has what each step does to it), so that a read that fails is of the
second kind.

*Where the books are lost* (also `ControlPlane_proofs`). `FreshWrites` are four
conditions on the steps of an interleaving, and `FreshWritesKeepLedger` says that
they are enough: what breaks the ledger is a write that one of them forbids.
`CompletionFresh`: when a completion stores its worker, what it read is still
stored. `CompletionUndisturbed`: between its two writes nobody else writes the
workload. `WorkersFresh`: every other write of a worker leaves the total as it is
and makes no memory available, which a stale heartbeat, health update or sample
does. `PlacedLeftAlone`: operators do not overwrite placed workloads. None was left
out without TLC finding the ledger broken on a small instance. Placements and
releases are under no condition: they do their work under the store's lock. The
inductive invariant `FreshInv` is `CPInv`, the ledger's `Opened`, that only placed
or completed workloads name a worker (`Tidy`), and that a completion is of a
workload that is not completed yet (`CompletionSound`). `FreshWritesFit` is the
consequence at rest, the very invariant that `overcommit` finds violated.

*Turns* (`ControlPlaneSerial_proofs`). What interleaving breaks is proved of
`SerialSpec`, again for any number of workers, workloads and actors. It is not
inductive by itself: the next call of an operation is harmless only because nobody
wrote since its first. `TurnInv` therefore says, besides `CPInv`, that at most one
operation is under way and that what it holds agrees with the store (`InTurn`): a
placer's choice still fits and its list still waits; the record a heartbeat listed
is still the stored one, and a sampled record is the stored one with the sample
applied; the updates and releases left to a pass are exactly those that a pass
started now would make; the records a completion read are those stored, and its
workload is not completed yet. Each step has one lemma. `LoopsNeverFail` is about
scheduling loops only; `PassesNeverFail` says of reconciliation that every release
left to a pass would be accepted. The simulator may end with an error even in turn,
after a release or an operator took a tracked workload away. `DrainedStayDrained`,
`CapacityNotManufactured`, `OnlyDeadLoseWorkloads` and `PassesLeaveClean` follow
without further hypotheses, the last because a pass ends when nothing is left to it.

The books need more (`BooksInv`): while the simulator completes a workload it has
already returned the memory but not yet stored the workload as completed, so the
books are straight but for that one workload (`StraightButJob`), and straight
everywhere else (`Straight`). They also need two hypotheses about clients, stated
in the theorems `BooksStraightInTurn` and `CommittedFitsInTurn`: that operators do not
overwrite the state of placed workloads (`PlacedLeftAlone`; the API lets them, and
the memory then stays taken), and that a DCGM sample has no lower total than the worker is
stored with (`SamplesKeepTotals`; `dcgm.go:151` stores the total of the sample
whatever is reserved of the old one). The serial run satisfies
both. Together with the findings this says where the books can go wrong: by one of these
two, or by interleaving.

`TurnIsFresh` brings the two parts together: when operations take turns, every step
that overwrites no placed workload is one of `FreshWrites`. Hence `LedgerKeptInTurn`,
the refinement of the ledger at every step. Here a sample must have the very total
of its worker (`SamplesMatchTotals`), because the ledger's capacities are fixed.

*Forecasts* (`PredictionService_proofs`). `PipelineInv` has five parts. Records
are in the order of their times, because a snapshot carries one time and the next
a later one (`RecordsInv`). The history of a worker is strictly increasing, from
the records read, and covers each of them unless it is full of later ones
(`HistoryInv`): this is what makes intervals positive (`PredictorNeverStops`) and
the incremental reading faithful (`HistoriesAreFaithful`). A result is based on a
record not later than the last of its history, and generated not later than now
(`ResultsInv`), hence only replaced by later ones (`ForecastsAdvance`), and what a
decision saw is not later than the result there is (`DecisionInv`,
`ReportsAreNotOlder`). None of this depends on what a forecast is calculated to be.

What it is calculated to be rests on three facts about the quotient that is rounded
down (`RoundedDown`, `AtMostQuotient`, `AtLeastQuotient`). `MeanRateBetween`: the
projection of the mean of two rates lies between those of the two, although each is
rounded by itself; with `Clamping`, which is monotone, and the positive intervals of
`HistoryInv` this is `TrendsAreFollowed`. `MeanErrorWithin` bounds the set of errors by
a product of intervals, and so the mean by what bounds each error: by 100, which makes
every stored forecast one of percentages (`PipelineTypes`, by `Typed`, which adds to
`PipelineInv` what only the types need), and for a load of constant rate by the rate
times what the intervals differ by (`HalfWithin` for a backtest before clamping,
`ClampNearer` after it), which is `SteadyErrorsBounded`.

*Selection* (`WorkerSelection_proofs`). The inductive invariant `BestSeen` says
of the candidates *seen so far* what each property says at the end, and ties
breakdowns to the offers. `RiskBestSeen` holds only while all seen are assessed:
the place where the finding lives. `LevelMonotone` (a higher level has a higher
score) makes the comparison by level and then score one order.

All this holds for any scores and risks that are numbers. `ScoresAreAdmissible` says
that those of `WorkerScoring` are, for every worker that validates, every workload
and every stored forecast, the risk being a percentage. `RiskMonotone` is what makes
the risk policy aware of uncertainty: a larger workload, a higher forecast or a
forecast that may be wrong by more never lowers the risk, although shares are
rounded (`ShareMonotone`) and pressures cut off at 100 (`PercentBetween`).

Proved only: `LoopsNeverFail`, `PassesNeverFail`, `PlacementsStayReturnable` and the
two theorems about `CommittedFits`; no run checks what they state, because the
theorems leave nothing that a small instance could add.

Model-checked only: all liveness (`PendingIsPlaced`, `OrphansReleased`,
`RunningCompletes`, `ForecastCatchesUp`), which is out of the prover's reach; and
`BenchmarkBooks` and `PublishedResults`, which are facts about one program without
parameters: its run visits all there is, so that a proof could only repeat it.

## 6. Not modelled

* Floating point. Utilisations, errors and risks are whole per cents, quotients
  rounded down; properties of forecasts are stated so that they do not depend on
  the last per cent, and the published benchmark numbers come out the same. NaN
  utilisation, which passes the range checks of the validators, is not seen. In
  `dcgm.go:141` the sum of free and used is taken in `uint64`; with each already
  bounded by the total it wraps only for totals above 2^63 MB, and the model adds
  in `Nat`.
* Telemetry CSV export, HTTP routing and JSON, process start and shutdown: I/O
  without shared state. The API's PUT is modelled freely in `StateStore!Spec` and
  by named requests in `ControlPlane`.
* Of telemetry records, what no forecast reads (memory and queue figures, token
  rates); of the benchmark, latencies, averages and printing.
* `ControlPlane` and `PredictionService` are not composed into one: the forecasts
  reach the scheduler only through the choice among eligible workers, which
  `Scheduler` leaves open and `WorkerSelection` makes from any forecasts.
* A draining worker that dies keeps its workloads (`health.go:22`); no document
  promises otherwise, so no property is stated.

## 7. Plan

1. *Done*: the store, its ledger and the scheduler with proofs; reconciler,
   ingestion, simulator and their composition, with proofs of what every
   interleaving keeps, of the conditions under which one keeps the ledger, and of
   what holds when operations take turns; the queue and its refinement; telemetry
   and prediction with proofs, the forecasts included; selection and scoring with
   proofs; the benchmark.
2. *Left open*: a composition of `ControlPlane` with `PredictionService`, if
   selection should ever read more of the cluster than its snapshot. What is proved
   of `WorkerSelection` is not proved again of the selection inside the benchmark:
   the `benchmark` run checks it there on all there is.
3. *Runs* are grouped so that each asks one question; new questions join or
   replace existing ones where they ask the same of more actors.
