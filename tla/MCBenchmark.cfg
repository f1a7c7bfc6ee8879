\* The selection loop, by itself and in the benchmark.
SPECIFICATION MCSpec
CONSTANTS
    Candidates = {1, 2, 3}
    Offers <- MCOffers
    Estimates <- MCEstimates
INVARIANTS
    SelectionTypeOK
    BaselineChoosesBest
    PredictiveChoosesBest
    AssessedLowestRisk
    StaleFallsBack
    BenchmarkBooks
    PublishedResults
CHECK_DEADLOCK FALSE
