SPECIFICATION ConcurrentSpec
CONSTANTS
    Workers = {w1}
    Workloads = {x1, x2, x3}
    Places <- MCPlaces
    SuspectedAfter = 1
    UnhealthyAfter = 2
    WorkerRecords <- MCWorkerRecords
    WorkloadRecords <- MCWorkloadRecords
    ClientStates = {}
    Loops = {l1}
    Callers = {}
    Reconcilers = {}
    Ingestors = {}
    Samples <- MCSamples
    MaxSampleAge = 1
    Simulating = TRUE
    SeededWorkers = {w1}
    Seeded = {x1}
    Deadlines = {1, 2}
    Drainable = {}
    Overrides = {}
    MaxTime = 3
INVARIANT
    CommittedFits
