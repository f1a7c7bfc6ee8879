----------------------------- MODULE StateStore -----------------------------
(***************************************************************************)
(* InMemoryStateStore (internal/cluster/memory_store.go): the shared state *)
(* of the control plane.  Every method holds the store's mutex from its    *)
(* first read to its last write, so each is one atomic action; what a      *)
(* client does between two calls is not atomic, and that is what the       *)
(* modules that extend this one are about.  A call that returns an error   *)
(* changes nothing and is a disabled action here.                          *)
(*                                                                         *)
(* Spec lets clients write any record that validates, as the API does.     *)
(* AtomicSpec restricts UpdateWorker and UpdateWorkload to a read-modify-  *)
(* write that nothing interleaves with and that leaves alone what the      *)
(* scheduler owns: the contract the store needs from its clients to keep   *)
(* the books straight.                                                     *)
(***************************************************************************)
EXTENDS ClusterTypes

CONSTANTS
    WorkerRecords,    \* the worker records clients may offer, valid or not
    WorkloadRecords,  \* the workload records clients may offer
    ClientStates      \* the states to which clients may move a workload

ASSUME RecordsAssumption ==
    /\ WorkerRecords \subseteq WorkerType
    /\ WorkloadRecords \subseteq WorkloadType
    /\ ClientStates \subseteq WorkloadStates

VARIABLES
    workers,    \* partial function from Workers to WorkerType
    workloads   \* partial function from Workloads to WorkloadType

storeVars == <<workers, workloads>>

\* The map f with f[k] = v, k new or not.
Put(f, k, v) == [j \in DOMAIN f \cup {k} |-> IF j = k THEN v ELSE f[j]]

\* The map f without k.
Without(f, k) == [j \in DOMAIN f \ {k} |-> f[j]]

StoreInit ==
    /\ workers = <<>>
    /\ workloads = <<>>
-----------------------------------------------------------------------------
RegisterWorker(w, record) ==
    /\ ValidateWorker(record)
    /\ w \notin DOMAIN workers
    /\ workers' = Put(workers, w, record)
    /\ UNCHANGED workloads

\* Mutated form of UpdateWorkerAllowed: the record is not validated.
UpdateWorkerAllowedUnvalidated(w, record) == w \in DOMAIN workers

\* The record replaces the stored one whatever happened since it was read.
UpdateWorkerAllowed(w, record) ==
    ValidateWorker(record) /\ w \in DOMAIN workers

UpdateWorker(w, record) ==
    /\ UpdateWorkerAllowed(w, record)
    /\ workers' = Put(workers, w, record)
    /\ UNCHANGED workloads

CreateWorkload(x, record) ==
    /\ ValidateWorkload(record)
    /\ x \notin DOMAIN workloads
    /\ workloads' = Put(workloads, x, record)
    /\ UNCHANGED workers

UpdateWorkload(x, record) ==
    /\ ValidateWorkload(record)
    /\ x \in DOMAIN workloads
    /\ workloads' = Put(workloads, x, record)
    /\ UNCHANGED workers
-----------------------------------------------------------------------------
\* Mutated forms of CommitAllowed: a guard of CommitPlacement is missing.
CommitAllowedNoStateCheck(x, w) ==
    /\ x \in DOMAIN workloads /\ w \in DOMAIN workers
    /\ workers[w].state = "HEALTHY"
    /\ MatchesTopologyRequirement(workloads[x], workers[w])
    /\ workers[w].avail >= workloads[x].required

CommitAllowedOffByOne(x, w) ==
    /\ x \in DOMAIN workloads /\ w \in DOMAIN workers
    /\ workers[w].state = "HEALTHY"
    /\ MatchesTopologyRequirement(workloads[x], workers[w])
    /\ workloads[x].state \in SchedulableStates
    /\ workers[w].avail + 1 >= workloads[x].required

\* What CommitPlacement checks again under the lock.
CommitAllowed(x, w) ==
    /\ x \in DOMAIN workloads /\ w \in DOMAIN workers
    /\ workers[w].state = "HEALTHY"
    /\ MatchesTopologyRequirement(workloads[x], workers[w])
    /\ workloads[x].state \in SchedulableStates
    /\ workers[w].avail >= workloads[x].required

\* Mutated form of CommitPlacement: the workload's memory is not taken.
CommitPlacementNoDebit(x, w) ==
    /\ CommitAllowed(x, w)
    /\ workers' = [workers EXCEPT ![w].active = @ + 1]
    /\ workloads' = [workloads EXCEPT ![x].assigned = w, ![x].state = "PLACED"]

CommitPlacement(x, w) ==
    /\ CommitAllowed(x, w)
    /\ workers' = [workers EXCEPT ![w].avail = @ - workloads[x].required,
                                  ![w].active = @ + 1]
    /\ workloads' = [workloads EXCEPT ![x].assigned = w, ![x].state = "PLACED"]
-----------------------------------------------------------------------------
\* Mutated forms of ReleasedWorker: memory returned without the cap, and
\* the active count decremented by nobody.
ReleasedWorkerUncapped(worker, workload) ==
    [worker EXCEPT !.avail = @ + workload.required,
                   !.active = IF @ > 0 THEN @ - 1 ELSE @]

ReleasedWorkerKeepsCount(worker, workload) ==
    [worker EXCEPT
        !.avail = IF workload.required > worker.total - @
                  THEN worker.total ELSE @ + workload.required]

\* The worker after its reservation is returned: never above its total.
ReleasedWorker(worker, workload) ==
    [worker EXCEPT
        !.avail = IF workload.required > worker.total - @
                  THEN worker.total ELSE @ + workload.required,
        !.active = IF @ > 0 THEN @ - 1 ELSE @]

\* Mutated form of ReleasedWorkload: the workload keeps its worker's ID.
ReleasedWorkloadKeepsWorker(workload, next) == [workload EXCEPT !.state = next]

ReleasedWorkload(workload, next) ==
    [workload EXCEPT !.assigned = NoWorker, !.state = next]

\* The checks of ReleasePlacement before it computes anything.
HoldsReservation(x) ==
    /\ x \in DOMAIN workloads
    /\ workloads[x].assigned \in DOMAIN workers
    /\ workloads[x].state \in PlacedStates

\* ... and those it makes on the records it is about to store.
ReleaseAllowed(x, next) ==
    /\ HoldsReservation(x)
    /\ next \in ReleaseTargets
    /\ ValidateWorker(ReleasedWorker(workers[workloads[x].assigned],
                                     workloads[x]))
    /\ ValidateWorkload(ReleasedWorkload(workloads[x], next))

ReleasePlacement(x, next) ==
    /\ ReleaseAllowed(x, next)
    /\ LET w == workloads[x].assigned
       IN  workers' = [workers EXCEPT ![w] = ReleasedWorker(@, workloads[x])]
    /\ workloads' = [workloads EXCEPT ![x] = ReleasedWorkload(@, next)]
-----------------------------------------------------------------------------
\* Placement and release, which only the store itself computes.
Place == \E x \in Workloads, w \in Workers : CommitPlacement(x, w)

Release == \E x \in Workloads, next \in ReleaseTargets : ReleasePlacement(x, next)

\* Writes by clients that store whatever they like.
Write ==
    \/ \E w \in Workers, record \in WorkerRecords :
          RegisterWorker(w, record) \/ UpdateWorker(w, record)
    \/ \E x \in Workloads, record \in WorkloadRecords :
          CreateWorkload(x, record) \/ UpdateWorkload(x, record)

Next == Place \/ Release \/ Write

Spec == StoreInit /\ [][Next]_storeVars
-----------------------------------------------------------------------------
(***************************************************************************)
(* The contract.  A client that keeps it registers a worker nobody runs    *)
(* on, creates a workload that is not placed, and updates a record in one  *)
(* step: a new health, heartbeat, and an available memory that is the      *)
(* smaller of the stored and the observed one (ApplyDCGMSample,            *)
(* ReconcileCluster); a new workload state that neither enters nor leaves  *)
(* the placed ones.                                                        *)
(***************************************************************************)
RegisterIdleWorker(w) ==
    \E record \in WorkerRecords :
        record.active = 0 /\ RegisterWorker(w, record)

CreateUnplaced(x) ==
    \E record \in WorkloadRecords :
        /\ record.state \notin PlacedStates /\ record.assigned = NoWorker
        /\ CreateWorkload(x, record)

RefreshWorker(w) ==
    /\ w \in DOMAIN workers
    /\ \E seen \in WorkerRecords :
          UpdateWorker(w, [workers[w] EXCEPT
              !.state = seen.state, !.heartbeat = seen.heartbeat,
              !.avail = IF seen.avail < @ THEN seen.avail ELSE @])

AdvanceWorkload(x) ==
    /\ x \in DOMAIN workloads
    /\ \E state \in ClientStates :
          /\ state \in PlacedStates <=> workloads[x].state \in PlacedStates
          /\ UpdateWorkload(x, [workloads[x] EXCEPT !.state = state])

AtomicWrite ==
    \/ \E w \in Workers : RegisterIdleWorker(w) \/ RefreshWorker(w)
    \/ \E x \in Workloads : CreateUnplaced(x) \/ AdvanceWorkload(x)

AtomicNext == Place \/ Release \/ AtomicWrite

AtomicSpec == StoreInit /\ [][AtomicNext]_storeVars
-----------------------------------------------------------------------------
(***************************************************************************)
(* Properties.                                                             *)
(***************************************************************************)

\* The stores hold records of their types.
TypeOK ==
    /\ DOMAIN workers \subseteq Workers
    /\ workers \in [DOMAIN workers -> WorkerType]
    /\ DOMAIN workloads \subseteq Workloads
    /\ workloads \in [DOMAIN workloads -> WorkloadType]

\* What is stored would be accepted by the validators again, although
\* CommitPlacement stores its results without validating them: a client can
\* always write back what it has read, and no subtraction of the store
\* (total - available) can wrap around.
StoredRecordsValid ==
    /\ \A w \in DOMAIN workers : ValidateWorker(workers[w])
    /\ \A x \in DOMAIN workloads : ValidateWorkload(workloads[x])

\* A workload placed on a worker that is registered can always be taken off it,
\* whatever clients wrote to the two records in the meantime: the validation at
\* the end of ReleasePlacement never turns a reservation into one nobody can
\* return.  (A client may also store a workload as placed that names no worker,
\* or none that is registered; it reserves nothing, and is refused.)
ReleaseNeverStuck ==
    \A x \in Workloads, next \in ReleaseTargets :
        HoldsReservation(x) => ReleaseAllowed(x, next)

Returnable(x) == \A next \in ReleaseTargets : ReleaseAllowed(x, next)

\* What the store itself has placed can be released from then on until the
\* workload's own record is written again, whatever clients store in place of
\* its worker's record: no write to one record can take the way back from a
\* reservation recorded in two.
CommittedStaysReturnable ==
    [][\A x \in Workloads :
         /\ (\E w \in Workers : CommitPlacement(x, w)) => Returnable(x)'
         /\ Returnable(x) /\ workloads'[x] = workloads[x] => Returnable(x)']_storeVars

\* The workloads that occupy worker w, and the MBs they occupy, one pair
\* per MB so that no sum over a set is needed.
Holders(w) ==
    {x \in DOMAIN workloads :
        workloads[x].state \in PlacedStates /\ workloads[x].assigned = w}

HeldMemory(w) == UNION {{x} \X (1 .. workloads[x].required) : x \in Holders(w)}

\* The reservation ledger the two maps represent: each placed workload is a
\* grant.
Capacity == [w \in DOMAIN workers |-> workers[w].total]

Free == [w \in DOMAIN workers |-> workers[w].avail]

Placed == {x \in DOMAIN workloads : workloads[x].state \in PlacedStates}

GrantOf(x) ==
    [job |-> x, worker |-> workloads[x].assigned, size |-> workloads[x].required]

Given == {GrantOf(x) : x \in Placed}

Ledger == INSTANCE Reservation WITH
    Jobs <- Workloads,
    Capacities <- {record.total : record \in WorkerRecords},
    capacity <- Capacity, free <- Free, grants <- Given

\* The store, used as the contract says, is that ledger: every commit takes
\* exactly one grant, every release returns exactly what its commit took (the
\* cap of ReleasePlacement never cuts a return short), no other call makes
\* memory free.
ImplementsLedger == Ledger!Spec

\* "Committed GPU memory cannot exceed the capacity available" (README): the
\* memory a worker still offers and the memory its workloads hold never add
\* up to more than it has.
NoOvercommit ==
    \A w \in DOMAIN workers :
        workers[w].avail + Cardinality(HeldMemory(w)) <= workers[w].total

\* ActiveWorkloadCount, a counter kept by increments and decrements, is the
\* number of workloads that occupy the worker.
ActiveCountExact ==
    \A w \in DOMAIN workers : workers[w].active = Cardinality(Holders(w))

\* No workload names a worker it does not occupy, nor occupies one that does
\* not exist or does not have the required topology.
AssignmentsSound ==
    \A x \in DOMAIN workloads :
        LET workload == workloads[x] IN
        IF workload.state \in PlacedStates
        THEN /\ workload.assigned \in DOMAIN workers
             /\ MatchesTopologyRequirement(workload, workers[workload.assigned])
        ELSE workload.assigned = NoWorker

\* A placed workload stays on the worker it was first given, with the memory
\* it was given, until it is released: a second placement never replaces the
\* first ("exactly one placement", README).
PlacementIsFinal ==
    [][\A x \in DOMAIN workloads :
         /\ workloads[x].state \in PlacedStates
         /\ workloads'[x].state \in PlacedStates
         => /\ workloads'[x].assigned = workloads[x].assigned
            /\ workloads'[x].required = workloads[x].required]_storeVars
=============================================================================
