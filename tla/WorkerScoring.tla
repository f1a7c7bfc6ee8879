--------------------------- MODULE WorkerScoring ----------------------------
(***************************************************************************)
(* What the three policies weigh of a worker: ExplainWorkerScore, the      *)
(* penalties of ExplainPredictiveWorkerScore (internal/scheduler) and the  *)
(* risk of internal/risk.  Utilisations, errors and risks are whole per    *)
(* cents; a score counts sixteenths, so that the GB of a memory that is a  *)
(* multiple of 64 MB are exact.                                            *)
(***************************************************************************)
EXTENDS Integers

Point == 16

\* What scoring reads of a cluster.Worker; cached: its CachedModels name the
\* workload's model.
GPUType == [avail : Nat, total : Nat, memory : 0 .. 100, compute : 0 .. 100,
            active : Nat, cached : BOOLEAN]

Percent(v) == IF v < 0 THEN 0 ELSE IF v > 100 THEN 100 ELSE v

Larger(a, b) == IF a > b THEN a ELSE b

BaseScore(gpu) ==
    (gpu.avail * Point) \div 1024
        + Point * ((IF gpu.cached THEN 100 ELSE 0)
                      - gpu.compute - gpu.memory - 10 * gpu.active)

PredictionPenalty(forecast) ==
    Point * (forecast.memory + forecast.compute
                + (IF forecast.contention THEN 100 ELSE 0))

MemoryPressure(required, gpu, forecast) ==
    IF gpu.total = 0 THEN 100
    ELSE Percent(forecast.memory + forecast.memoryError
                     + (required * 100) \div gpu.total)

ComputePressure(forecast) == Percent(forecast.compute + forecast.computeError)

\* Mutated form of PlacementRisk: what the forecast may be wrong by is ignored.
PlacementRiskCertain(required, gpu, forecast) ==
    LET certain == [forecast EXCEPT !.memoryError = 0, !.computeError = 0]
    IN  Larger(MemoryPressure(required, gpu, certain), ComputePressure(certain))

\* Evaluate: the score of the greater pressure.
PlacementRisk(required, gpu, forecast) ==
    Larger(MemoryPressure(required, gpu, forecast), ComputePressure(forecast))
=============================================================================
