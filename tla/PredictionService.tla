------------------------- MODULE PredictionService --------------------------
(***************************************************************************)
(* internal/predictor: Service, HistoryStore and ResultStore, reading what *)
(* TelemetryService appends and read by the scheduler.  A pass lists all   *)
(* records, adds the new ones to the history of their worker, and stores a *)
(* new forecast for each worker, one by one, while records are appended,   *)
(* time passes and forecasts are read.                                     *)
(*                                                                         *)
(* A decision reads a worker's forecast twice: when it chooses the worker, *)
(* and again for the score it reports with the placement.                  *)
(***************************************************************************)
EXTENDS TrendPredictor, SequencesExt

CONSTANTS
    HistoryCapacity,   \* of NewHistoryStore: 16, and never below 3
    FreshFor           \* the age at which a forecast is no longer used: 15s

ASSUME PredictionAssumption ==
    HistoryCapacity \in Nat /\ HistoryCapacity >= 3 /\ FreshFor \in Nat

VARIABLES
    processed,    \* Service.processedRecords
    history,      \* HistoryStore.records: worker to its latest records
    predicting,   \* the pass under way
    results,      \* ResultStore.results
    decision      \* the worker chosen, with what was seen of its forecast

predictionVars == <<processed, history, predicting, results, decision>>

pipelineVars == <<telemetryVars, predictionVars>>

\* upto: the number of records listed; todo: the workers without new forecast.
NoPass == [at |-> "idle", upto |-> 0, todo |-> {}]

NoDecision == [worker |-> "", basis |-> 0, generated |-> 0]

PipelineInit ==
    /\ TelemetryInit
    /\ processed = 0
    /\ history = <<>>
    /\ predicting = NoPass
    /\ results = <<>>
    /\ decision = NoDecision

Assign(f, k, v) == [j \in DOMAIN f \cup {k} |-> IF j = k THEN v ELSE f[j]]

\* Mutated form of Truncated: a full history takes nothing new.
TruncatedAtEnd(recent) ==
    IF Len(recent) > HistoryCapacity THEN Front(recent) ELSE recent

Truncated(recent) ==
    IF Len(recent) > HistoryCapacity THEN Tail(recent) ELSE recent

\* Mutated form of Added: records of one tick are all kept.
AddedAlways(h, record) ==
    LET old == IF record.worker \in DOMAIN h THEN h[record.worker] ELSE <<>>
    IN  Assign(h, record.worker, Truncated(Append(old, record)))

\* HistoryStore.Add: of the records of one tick the first is kept.
Added(h, record) ==
    LET old == IF record.worker \in DOMAIN h THEN h[record.worker] ELSE <<>>
    IN  IF old # <<>> /\ Last(old).time = record.time THEN h
        ELSE Assign(h, record.worker, Truncated(Append(old, record)))

\* predict lists the records, whose number is kept in upto.  A list that has
\* become shorter is another store's: start afresh.
StartPass ==
    LET afresh == Len(records) < processed
    IN  /\ predicting = NoPass
        /\ history' = IF afresh THEN <<>> ELSE history
        /\ processed' = IF afresh THEN 0 ELSE processed
        /\ predicting' = [at |-> "adding", upto |-> Len(records), todo |-> {}]
        /\ UNCHANGED <<results, decision>>

\* The code sets processedRecords once all of the listed are added.
AddRecord ==
    /\ predicting.at = "adding" /\ processed < predicting.upto
    /\ history' = Added(history, records[processed + 1])
    /\ processed' = processed + 1
    /\ UNCHANGED <<predicting, results, decision>>

\* Mutated form of StartForecasts: the first record of the next list is
\* skipped.
StartForecastsPastNext ==
    /\ predicting.at = "adding" /\ processed = predicting.upto
    /\ predicting' = [at |-> "forecasting", upto |-> 0, todo |-> DOMAIN history]
    /\ processed' = IF processed < Len(records) THEN processed + 1 ELSE processed
    /\ UNCHANGED <<history, results, decision>>

StartForecasts ==
    /\ predicting.at = "adding" /\ processed = predicting.upto
    /\ predicting' = [at |-> "forecasting", upto |-> 0, todo |-> DOMAIN history]
    /\ UNCHANGED <<processed, history, results, decision>>

Visited(w) == [predicting EXCEPT !.todo = @ \ {w}]

\* ErrInsufficientHistory: the worker has no forecast yet.
SkipWorker(w) ==
    /\ w \in predicting.todo
    /\ ~ Sufficient(history[w])
    /\ predicting' = Visited(w)
    /\ UNCHANGED <<processed, history, results, decision>>

\* basis, the time of the latest record, is not kept by the code.
ResultFor(w) ==
    [forecast |-> Forecast(history[w]), basis |-> Last(history[w]).time,
     generated |-> now]

\* ErrInvalidTelemetryInterval: predict returns it, and Run with it.
StoppedOr(pass, w) ==
    IF Increasing(history[w]) THEN pass ELSE [predicting EXCEPT !.at = "stopped"]

\* Mutated form of StoreForecast: the store is rebuilt by each pass.
StoreForecastAnew(w) ==
    LET first == predicting.todo = DOMAIN history
    IN  /\ w \in predicting.todo
        /\ Sufficient(history[w])
        /\ results' = IF Increasing(history[w])
                      THEN Assign(IF first THEN <<>> ELSE results, w, ResultFor(w))
                      ELSE results
        /\ predicting' = StoppedOr(Visited(w), w)
        /\ UNCHANGED <<processed, history, decision>>

StoreForecast(w) ==
    /\ w \in predicting.todo
    /\ Sufficient(history[w])
    /\ results' = IF Increasing(history[w])
                  THEN Assign(results, w, ResultFor(w)) ELSE results
    /\ predicting' = StoppedOr(Visited(w), w)
    /\ UNCHANGED <<processed, history, decision>>

ForecastWorker ==
    \E w \in GPUs :
        /\ predicting.at = "forecasting"
        /\ SkipWorker(w) \/ StoreForecast(w)

EndPass ==
    /\ predicting.at = "forecasting" /\ predicting.todo = {}
    /\ predicting' = NoPass
    /\ UNCHANGED <<processed, history, results, decision>>

Predict ==
    /\ StartPass \/ AddRecord \/ StartForecasts \/ ForecastWorker \/ EndPass
    /\ UNCHANGED telemetryVars

\* The age at which a policy no longer uses a forecast.
Assessable(w) ==
    w \in DOMAIN results /\ now - results[w].generated <= FreshFor

\* SelectWorkerRiskAware returns w, which it assessed just now.  A choice made
\* without a forecast leaves nothing to compare the report with.
Decide(w) ==
    /\ decision = NoDecision
    /\ Assessable(w)
    /\ decision' = [worker |-> w, basis |-> results[w].basis,
                    generated |-> results[w].generated]
    /\ UNCHANGED <<processed, history, predicting, results>>

\* ExplainRiskAwareWorkerScore assesses it again for the reported score.
Report ==
    /\ decision # NoDecision
    /\ decision' = NoDecision
    /\ UNCHANGED <<processed, history, predicting, results>>

Schedule ==
    /\ (\E w \in fleet : Decide(w)) \/ Report
    /\ UNCHANGED telemetryVars

Observe == (Tick \/ CollectAt \/ AppendRecord) /\ UNCHANGED predictionVars

PipelineNext == Observe \/ Predict \/ Schedule

\* Service.Run goes on with its ticker.  Nothing is assumed of telemetry, which
\* may stop anywhere in a snapshot, nor of placements.
PipelineSpec ==
    PipelineInit /\ [][PipelineNext]_pipelineVars /\ WF_pipelineVars(Predict)
-----------------------------------------------------------------------------
(***************************************************************************)
(* Properties.                                                             *)
(***************************************************************************)
ResultType == [forecast : ForecastType, basis : Nat, generated : Nat]

\* The stores hold what their types say, every stored load and error being a
\* percentage.
PipelineTypeOK ==
    /\ TelemetryTypeOK
    /\ processed \in 0 .. Len(records)
    /\ DOMAIN history \subseteq GPUs
    /\ \A w \in DOMAIN history : history[w] \in Seq(RecordType)
    /\ predicting.at \in {"idle", "adding", "forecasting", "stopped"}
    /\ predicting.todo \subseteq DOMAIN history
    /\ predicting.at = "adding" => predicting.upto \in processed .. Len(records)
    /\ DOMAIN results \subseteq DOMAIN history
    /\ \A w \in DOMAIN results : results[w] \in ResultType

\* The records the collector really writes never make Forecast fail with
\* ErrInvalidTelemetryInterval, which would end Service.Run and with it every
\* later forecast: several records of one tick reach the history as one,
\* wherever a pass happens to cut the snapshot.
PredictorKeepsRunning == predicting.at # "stopped"

\* At the end of the records it has read, the history of a worker is the last
\* HistoryCapacity ticks it was seen at, each once, in order, with the load it
\* had then: no record is read twice or skipped by the incremental reading of
\* a list that grows in between.
HistoryFaithful ==
    \A w \in GPUs :
        LET recent == IF w \in DOMAIN history THEN history[w] ELSE <<>>
            times  == {recent[i].time : i \in 1 .. Len(recent)}
        IN  /\ times \subseteq Ticks(w, processed)
            /\ \A t \in Ticks(w, processed) \ times :
                  Len(recent) = HistoryCapacity /\ \A u \in times : t < u
            /\ \A i \in 2 .. Len(recent) : recent[i - 1].time < recent[i].time
            /\ \A i \in 1 .. Len(recent) :
                  \E j \in 1 .. processed : records[j] = recent[i]

\* A forecast, once published, is only ever replaced by one made later from
\* telemetry that is not older, whatever is recorded during the pass.
ResultsAdvance ==
    [][\A w \in DOMAIN results :
         /\ w \in DOMAIN results'
         /\ results'[w].basis >= results[w].basis
         /\ results'[w].generated >= results[w].generated]_pipelineVars

\* The score reported with a placement is assessed after the choice
\* (risk_aware_placement.go:94) and may differ from what the choice was made
\* on, but only one way: it is never of an older forecast, and no forecast is
\* reported where one was used only if that has expired since.
ReportNotOlder ==
    decision # NoDecision =>
        IF Assessable(decision.worker)
        THEN results[decision.worker].basis >= decision.basis
        ELSE now - decision.generated > FreshFor

\* Telemetry reaches the scheduler: again and again, the forecasts of all
\* workers of which enough is recorded are those made from the latest record.
ForecastCatchesUp ==
    []<>(\A w \in GPUs :
            \/ Cardinality(Ticks(w, Len(records))) < 3
            \/ /\ w \in DOMAIN results
               /\ \A i \in 1 .. Len(records) :
                     records[i].worker = w => records[i].time <= results[w].basis)

\* A projection lies between those that the first and the second of the two
\* latest intervals alone would give, and so is exact on a trend that has been
\* steady over the two, however far apart the ticks are.
ForecastFollowsTrend ==
    \A w \in DOMAIN history : Sufficient(history[w]) =>
        LET recent == history[w]
            n == Len(recent)
            ahead(m, i) ==
                Clamp(recent[n].load[m] +
                    (Horizon * (recent[i].load[m] - recent[i - 1].load[m]))
                        \div (recent[i].time - recent[i - 1].time))
        IN  \A m \in Metrics :
                \/ Projected(recent, m) \in ahead(m, n - 1) .. ahead(m, n)
                \/ Projected(recent, m) \in ahead(m, n) .. ahead(m, n - 1)

\* A forecast's error estimate is made from the order of the records alone
\* (predictor.go:130), so that a load rising steadily in time gets one although
\* it is forecast exactly, once a tick has been missed.  The estimate is at most
\* what the load changes by in the time by which the intervals differ: none as
\* long as no tick is missed.
SteadyErrorBounded ==
    \A w \in DOMAIN history : Sufficient(history[w]) =>
        LET recent == history[w]
            n == Len(recent)
            gap(i) == recent[i].time - recent[i - 1].time
            change(m, i) == recent[i].load[m] - recent[i - 1].load[m]
            rate(m) == change(m, 2) \div gap(2)
        IN  \A m \in Metrics, spread \in 0 .. MaxTime :
                /\ \A i \in 2 .. n : change(m, i) = rate(m) * gap(i)
                /\ \A i, j \in 2 .. n : gap(i) - gap(j) <= spread
                => MeanError(recent, m) <= Magnitude(rate(m)) * spread
=============================================================================
