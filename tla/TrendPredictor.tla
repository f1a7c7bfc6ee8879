--------------------------- MODULE TrendPredictor ---------------------------
(***************************************************************************)
(* The forecast made from a worker's recent records, oldest first          *)
(* (internal/predictor: predictor.go, error_estimator.go).  Times are in   *)
(* intervals of the telemetry ticker.  The code calculates in floating     *)
(* point; here a quotient is rounded down to a whole per cent.             *)
(***************************************************************************)
EXTENDS TelemetryService, FiniteSets

CONSTANT Horizon   \* how far a forecast looks ahead, 30 seconds in cmd/aegis

ASSUME HorizonAssumption == Horizon \in Nat \ {0}

MemoryThreshold == 85

ComputeThreshold == 90

\* Mutated form of Clamp: a rising load passes 100 per cent.
ClampBelow(v) == IF v < 0 THEN 0 ELSE v

Clamp(v) == IF v < 0 THEN 0 ELSE IF v > 100 THEN 100 ELSE v

Magnitude(v) == IF v < 0 THEN -v ELSE v

Sufficient(recent) == Len(recent) >= 3

\* The last three of the records; the intervals between them must be positive.
Increasing(recent) ==
    LET n == Len(recent)
    IN  recent[n - 2].time < recent[n - 1].time /\ recent[n - 1].time < recent[n].time

\* Mutated form of Projected: the change per record is taken for a rate.
ProjectedPerRecord(recent, m) ==
    LET n == Len(recent)
        change == recent[n].load[m] - recent[n - 2].load[m]
    IN  Clamp(recent[n].load[m] + (Horizon * change) \div 2)

\* forecastAtHorizon: the latest utilisation, moved for the horizon at the mean
\* of the last two rates.
Projected(recent, m) ==
    LET n  == Len(recent)
        d1 == recent[n - 1].load[m] - recent[n - 2].load[m]
        d2 == recent[n].load[m] - recent[n - 1].load[m]
        i1 == recent[n - 1].time - recent[n - 2].time
        i2 == recent[n].time - recent[n - 1].time
    IN  Clamp(recent[n].load[m] +
                (Horizon * (d1 * i2 + d2 * i1)) \div (2 * i1 * i2))

\* Mutated form of Backtested: the change over two records is taken for that
\* of one.
BacktestedWhole(recent, i, m) ==
    Clamp(recent[i - 1].load[m] + (recent[i - 1].load[m] - recent[i - 3].load[m]))

\* forecastNext of record i from the three before it, whatever their times.
Backtested(recent, i, m) ==
    Clamp(recent[i - 1].load[m] +
            (recent[i - 1].load[m] - recent[i - 3].load[m]) \div 2)

BacktestError(recent, i, m) ==
    Magnitude(recent[i].load[m] - Backtested(recent, i, m))

\* The errors of all backtests, a pair for each per cent of each.
BacktestErrors(recent, m) ==
    UNION {{i} \X (1 .. BacktestError(recent, i, m)) : i \in 4 .. Len(recent)}

\* The mean absolute error of the backtests.
MeanError(recent, m) ==
    LET n == Len(recent)
    IN  IF n < 4 THEN 0 ELSE Cardinality(BacktestErrors(recent, m)) \div (n - 3)

Forecast(recent) ==
    LET load == [m \in Metrics |-> Projected(recent, m)]
    IN  [load       |-> load,
         contention |-> \/ load["memory"] >= MemoryThreshold
                        \/ load["compute"] >= ComputeThreshold,
         error      |-> [m \in Metrics |-> MeanError(recent, m)]]

ForecastType == [load : LoadType, contention : BOOLEAN, error : LoadType]
=============================================================================
