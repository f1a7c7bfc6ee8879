SPECIFICATION ConcurrentSpec
CONSTANTS
    Workers = {w1}
    Workloads = {x1, x2}
    Places <- MCPlaces
    SuspectedAfter = 1
    UnhealthyAfter = 2
    WorkerRecords <- MCWorkerRecords
    WorkloadRecords <- MCWorkloadRecords
    ClientStates = {}
    Loops = {l1}
    Callers = {}
    Reconcilers = {}
    Ingestors = {i1}
    Samples <- MCSamples
    MaxSampleAge = 1
    Simulating = FALSE
    SeededWorkers = {w1}
    Seeded = {}
    Deadlines = {1, 2}
    Drainable = {}
    Overrides = {}
    MaxTime = 3
PROPERTY
    CapacityReturnsOnlyWithRelease
