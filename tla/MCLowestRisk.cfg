SPECIFICATION SelectionSpec
CONSTANTS
    Candidates = {1, 2, 3}
    Offers <- MCOffers
    Estimates <- MCEstimates
INVARIANT
    LowestRiskSelected
CHECK_DEADLOCK FALSE
