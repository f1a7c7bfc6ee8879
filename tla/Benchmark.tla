----------------------------- MODULE Benchmark ------------------------------
(***************************************************************************)
(* cmd/benchmark: the same stream of workloads is placed on two workers by *)
(* each policy, with forecasts made up for each scenario.  The selection   *)
(* loop is that of WorkerSelection, run on the scores of WorkerScoring; a  *)
(* step releases what is complete, selects, places, and records which      *)
(* workers are under pressure.                                             *)
(***************************************************************************)
EXTENDS WorkerSelection, WorkerScoring, FiniteSets

LOCAL INSTANCE FiniteSetsExt

Scenarios == {"steady", "rising", "uncertain", "stale"}

GPUIDs == {1, 2}

Steps == 48

PressureThreshold == 85

ASSUME BenchmarkAssumption == GPUIDs \subseteq Candidates

VARIABLES
    scenario,    \* "" when no benchmark runs
    phase,       \* of the loop over the workloads
    step,        \* the index of the workload
    gpus,        \* the two workers
    running,     \* benchmarkActiveWorkload records
    pressed,     \* the workers under pressure when this was last recorded
    tally        \* benchmarkResult, as far as it is modelled

benchmarkVars == <<scenario, phase, step, gpus, running, pressed, tally>>

Required(n) == IF n % 3 = 0 THEN 16000 ELSE 8000

Duration(required) == IF required >= 16000 THEN 10 ELSE 8

BenchmarkWorker(w) ==
    [avail |-> 64000, total |-> 80000, memory |-> 20, compute |-> 20,
     active |-> 0, cached |-> w = 1]

BenchmarkInit ==
    /\ scenario \in Scenarios
    /\ phase = "release"
    /\ step = 0
    /\ gpus = [w \in GPUIDs |-> BenchmarkWorker(w)]
    /\ running = {}
    /\ pressed = {}
    /\ tally = [placements |-> 0, rejections |-> 0, pressureSteps |-> 0,
                transitions |-> 0]
    /\ policy \in Policies
    /\ offers = <<>> /\ todo = {} /\ seen = <<>> /\ selected = 0
-----------------------------------------------------------------------------
Growth(w) ==
    CASE scenario = "steady"    -> [memory |-> 8, compute |-> 8, error |-> 3]
      [] scenario = "rising"    ->
            IF w = 1 THEN [memory |-> 22, compute |-> 25, error |-> 6]
            ELSE [memory |-> 8, compute |-> 8, error |-> 4]
      [] scenario = "uncertain" ->
            IF w = 1 THEN [memory |-> 5, compute |-> 5, error |-> 25]
            ELSE [memory |-> 15, compute |-> 15, error |-> 3]

\* The forecasts of a scenario; in the last one, 30 seconds old.
ForecastOf(w) ==
    IF scenario = "stale"
    THEN [memory |-> 100, compute |-> 100, contention |-> TRUE,
          memoryError |-> 30, computeError |-> 30]
    ELSE [memory       |-> Percent(gpus[w].memory + Growth(w).memory),
          compute      |-> Percent(gpus[w].compute + Growth(w).compute),
          contention   |-> FALSE,
          memoryError  |-> Growth(w).error,
          computeError |-> Growth(w).error]

EstimateOf(w) ==
    [fresh   |-> scenario # "stale",
     penalty |-> PredictionPenalty(ForecastOf(w)),
     risk    |-> PlacementRisk(Required(step), gpus[w], ForecastOf(w))]

MemoryUtilization(gpu, avail) == ((gpu.total - avail) * 100) \div gpu.total

\* releaseBenchmarkPlacement, of all workloads that completed on the worker.
Released(gpu, completed) ==
    LET sum   == MapThenSumSet(LAMBDA job : job.required, completed)
        n     == Cardinality(completed)
        avail == IF gpu.avail + sum > gpu.total THEN gpu.total ELSE gpu.avail + sum
    IN  IF n = 0 THEN gpu
        ELSE [gpu EXCEPT !.avail   = avail,
                         !.memory  = MemoryUtilization(gpu, avail),
                         !.active  = Larger(@ - n, 0),
                         !.compute = Larger(@ - 12 * n, 0)]

\* releaseCompletedWorkloads; then the policy is handed the two workers.
ReleaseCompleted ==
    LET over == {job \in running : job.until <= step}
        left == [w \in GPUIDs |->
                    Released(gpus[w], {job \in over : job.worker = w})]
    IN  /\ phase = "release" /\ step < Steps
        /\ gpus' = left
        /\ running' = running \ over
        /\ offers' = [w \in GPUIDs |->
                         [eligible |-> left[w].avail >= Required(step),
                          base     |-> BaseScore(left[w])]]
        /\ todo' = GPUIDs /\ seen' = <<>> /\ selected' = 0
        /\ phase' = "select"
        /\ UNCHANGED <<scenario, step, pressed, tally, policy>>

\* The workers are a slice here, and visited in its order.
VisitNext ==
    \E w \in todo :
        /\ phase = "select"
        /\ \A v \in todo : w <= v
        /\ todo' = todo \ {w}
        /\ Skip(w) \/ Weigh(w, EstimateOf(w))
        /\ UNCHANGED <<benchmarkVars, policy, offers>>

\* Mutated form of Placed: the compute utilisation stays.
PlacedIdle(gpu, required) ==
    LET avail == gpu.avail - required
    IN  [gpu EXCEPT !.avail   = avail,
                    !.memory  = MemoryUtilization(gpu, avail),
                    !.active  = @ + 1]

\* applyPlacement.
Placed(gpu, required) ==
    LET avail == gpu.avail - required
    IN  [gpu EXCEPT !.avail   = avail,
                    !.memory  = MemoryUtilization(gpu, avail),
                    !.active  = @ + 1,
                    !.compute = Percent(@ + 12)]

UnderPressure(gpu) ==
    gpu.memory >= PressureThreshold \/ gpu.compute >= PressureThreshold

\* What follows a placement: applyPlacement, trackBenchmarkWorkload and
\* recordPressure.
PlaceSelected ==
    LET required == Required(step)
        placed   == [gpus EXCEPT ![selected] = Placed(@, required)]
        now      == {w \in GPUIDs : UnderPressure(placed[w])}
    IN  /\ phase = "select" /\ todo = {}
        /\ gpus' = placed
        /\ running' = running \cup {[job |-> step, worker |-> selected,
                                     required |-> required,
                                     until |-> step + Duration(required)]}
        /\ pressed' = now
        /\ tally' = [tally EXCEPT
                        !.placements    = @ + 1,
                        !.transitions   = @ + Cardinality(now \ pressed),
                        !.pressureSteps = IF now = {} THEN @ ELSE @ + 1]
        /\ step' = step + 1
        /\ phase' = "release"
        /\ UNCHANGED <<scenario, selectionVars>>

\* Nothing is recorded of a step that places nothing.
Reject ==
    /\ phase = "select" /\ todo = {}
    /\ tally' = [tally EXCEPT !.rejections = @ + 1]
    /\ step' = step + 1
    /\ phase' = "release"
    /\ UNCHANGED <<scenario, gpus, running, pressed, selectionVars>>

FinishStep == IF selected = 0 THEN Reject ELSE PlaceSelected

BenchmarkNext == ReleaseCompleted \/ VisitNext \/ FinishStep

BenchmarkSpec ==
    BenchmarkInit /\ [][BenchmarkNext]_<<benchmarkVars, selectionVars>>
-----------------------------------------------------------------------------
(***************************************************************************)
(* Properties.                                                             *)
(***************************************************************************)

\* The simulated workers stay what the workloads placed on them make of them:
\* the caps on memory, utilisation and count, at which a release would take
\* away more or less than its placement added, are never reached in 48 steps.
BenchmarkBooks ==
    scenario # "" => \A w \in GPUIDs :
        LET mine == {job \in running : job.worker = w}
            held == MapThenSumSet(LAMBDA job : job.required, mine)
        IN  /\ gpus[w] \in GPUType
            /\ gpus[w].avail = 64000 - held
            /\ gpus[w].active = Cardinality(mine)
            /\ gpus[w].compute = 20 + 12 * Cardinality(mine)
            /\ gpus[w].memory = 20 + held \div 800

\* Pressure steps and contention transitions, from the README's table.
Published ==
    [steady    |-> [baseline |-> <<34, 8>>, predictive |-> <<33, 10>>,
                    riskaware |-> <<27, 27>>],
     rising    |-> [baseline |-> <<34, 8>>, predictive |-> <<27, 9>>,
                    riskaware |-> <<22, 16>>],
     uncertain |-> [baseline |-> <<34, 8>>, predictive |-> <<37, 3>>,
                    riskaware |-> <<22, 16>>],
     stale     |-> [baseline |-> <<34, 8>>, predictive |-> <<34, 8>>,
                    riskaware |-> <<34, 8>>]]

\* The table of benchmark results in the README is what the code computes: in
\* every scenario each policy places all workloads, with the published numbers
\* of steps under pressure and of workers that came under it.
PublishedResults ==
    scenario # "" /\ step = Steps =>
        /\ tally.placements = 48 /\ tally.rejections = 0
        /\ <<tally.pressureSteps, tally.transitions>> = Published[scenario][policy]
=============================================================================
