SPECIFICATION FairQueuedSpec
CONSTANTS
    Workers = {w1}
    Workloads = {"x1", "x2"}
    Places <- MCPlaces
    SuspectedAfter = 1
    UnhealthyAfter = 2
    WorkerRecords <- MCWorkerRecords
    WorkloadRecords <- MCWorkloadRecords
    ClientStates = {"RUNNING", "COMPLETED"}
    Loops = {l1}
    Callers = {}
    Priority <- MCPriority
    ArrivalTime <- MCArrivalTime
    AgingInterval = 1
    Times = {1, 3}
PROPERTY
    PendingSurvivesConflicts
