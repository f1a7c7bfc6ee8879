SPECIFICATION SerialSpec
CONSTANTS
    Workers = {w1, w2}
    Workloads = {x1, x2}
    Places <- MCPlaces
    SuspectedAfter = 1
    UnhealthyAfter = 2
    WorkerRecords <- MCWorkerRecords
    WorkloadRecords <- MCWorkloadRecords
    ClientStates = {}
    Loops = {l1}
    Callers = {c1}
    Reconcilers = {r1}
    Ingestors = {i1}
    Samples <- MCSamples
    MaxSampleAge = 1
    Simulating = TRUE
    SeededWorkers = {w1}
    Seeded = {x1}
    Deadlines = {1, 2}
    Drainable = {w2}
    Overrides = {}
    MaxTime = 3
INVARIANTS
    BooksStraightAtRest
PROPERTIES
    PassLeavesClusterClean
    DrainingKept
    PlacementIsFinal
    TakenOffDeadOnly
    CapacityReturnsOnlyWithRelease
    ControlPlaneKeepsLedger
