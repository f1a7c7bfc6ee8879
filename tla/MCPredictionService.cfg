\* Every property of the telemetry and prediction pipeline.
SPECIFICATION MCPipelineSpec
CONSTANTS
    g1 = g1
    g2 = g2
    GPUs = {g1, g2}
    Snapshots <- MCSnapshots
    MaxTime = 5
    Horizon = 6
    HistoryCapacity = 4
    FreshFor = 1
INVARIANTS
    PipelineTypeOK
    PredictorKeepsRunning
    HistoryFaithful
    ReportNotOlder
    ForecastFollowsTrend
    SteadyErrorBounded
PROPERTIES
    ResultsAdvance
    ForecastCatchesUp
CHECK_DEADLOCK FALSE
