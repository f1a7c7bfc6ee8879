SPECIFICATION Spec
CONSTANTS
    Workers = {w1, w2}
    Workloads = {x1, x2}
    Places <- MCPlaces
    SuspectedAfter = 1
    UnhealthyAfter = 2
    WorkerRecords <- MCWorkerRecords
    WorkloadRecords <- MCWorkloadRecords
    ClientStates = {}
SYMMETRY MCSymmetry
CONSTRAINT ActiveBound
INVARIANTS
    TypeOK
    StoredRecordsValid
    ReleaseNeverStuck
