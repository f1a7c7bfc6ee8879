-------------------------- MODULE StateStore_proofs --------------------------
(***************************************************************************)
(* Theorems about StateStore, for every set of workers, workloads and      *)
(* client records.                                                         *)
(***************************************************************************)
EXTENDS StateStore, FiniteSetTheorems, TLAPS

(***************************************************************************)
(* The stores stay well typed (no uint64 subtraction wraps) and every      *)
(* stored record stays valid: the two are one inductive invariant, since   *)
(* the type of a worker after a release depends on its validity before.    *)
(***************************************************************************)
StoreInv == TypeOK /\ StoredRecordsValid

\* The worker and the workload that a commit stores.
Debited(worker, workload) ==
    [worker EXCEPT !.avail = @ - workload.required, !.active = @ + 1]

Assigned(workload, w) == [workload EXCEPT !.assigned = w, !.state = "PLACED"]

LEMMA WorkerEdit ==
    ASSUME NEW worker \in WorkerType, ValidateWorker(worker),
           NEW a \in 0 .. worker.total, NEW c \in Int
    PROVE  LET new == [worker EXCEPT !.avail = a, !.active = c]
           IN  /\ new \in WorkerType /\ ValidateWorker(new)
               /\ new.avail = a /\ new.active = c
               /\ new.total = worker.total /\ new.topology = worker.topology
               /\ new.domain = worker.domain
  <1> DEFINE new == [worker EXCEPT !.avail = a, !.active = c]
  <1>0. worker.total \in Nat /\ a \in Nat BY DEF WorkerType
  <1>1. new \in WorkerType BY <1>0 DEF WorkerType
  <1>2. new.wellFormed = worker.wellFormed BY <1>0 DEF WorkerType
  <1>3. /\ new.avail = a /\ new.active = c
        /\ new.total = worker.total /\ new.topology = worker.topology
        /\ new.domain = worker.domain
    BY <1>0 DEF WorkerType
  <1>4. new.wellFormed
    <2>1. worker.wellFormed BY DEF ValidateWorker
    <2> QED BY <1>2, <2>1, Zenon
  <1>5. new.total > 0 /\ new.avail <= new.total
    BY <1>0, <1>3 DEF ValidateWorker
  <1>6. ValidateWorker(new)
    BY <1>4, <1>5, Zenon DEF ValidateWorker
  <1> QED BY <1>1, <1>3, <1>6

LEMMA WorkloadEdit ==
    ASSUME NEW workload \in WorkloadType, ValidateWorkload(workload),
           NEW w \in Workers \cup {NoWorker}, NEW state \in WorkloadStates,
           state \in PlacedStates => w # NoWorker
    PROVE  LET new == [workload EXCEPT !.assigned = w, !.state = state]
           IN  /\ new \in WorkloadType /\ ValidateWorkload(new)
               /\ new.assigned = w /\ new.state = state
               /\ new.required = workload.required
               /\ new.requirement = workload.requirement
               /\ new.domain = workload.domain
  <1> DEFINE new == [workload EXCEPT !.assigned = w, !.state = state]
  <1>1. new \in WorkloadType BY DEF WorkloadType
  <1>2. new.wellFormed = workload.wellFormed BY DEF WorkloadType
  <1>3. /\ new.assigned = w /\ new.state = state
        /\ new.required = workload.required
        /\ new.requirement = workload.requirement
        /\ new.domain = workload.domain
    BY DEF WorkloadType
  <1>4. new.wellFormed
    <2>1. workload.wellFormed BY DEF ValidateWorkload
    <2> QED BY <1>2, <2>1, Zenon
  <1>5. workload.required > 0 BY DEF ValidateWorkload
  <1>6. ValidateWorkload(new)
    BY <1>3, <1>4, <1>5, Zenon DEF ValidateWorkload
  <1> QED BY <1>1, <1>3, <1>6

LEMMA CommitRecords ==
    ASSUME StoreInv, NEW x \in Workloads, NEW w \in Workers, CommitAllowed(x, w)
    PROVE  /\ Debited(workers[w], workloads[x]) \in WorkerType
           /\ ValidateWorker(Debited(workers[w], workloads[x]))
           /\ Assigned(workloads[x], w) \in WorkloadType
           /\ ValidateWorkload(Assigned(workloads[x], w))
           /\ CommitPlacement(x, w) =>
                 /\ workers' = [workers EXCEPT
                                   ![w] = Debited(workers[w], workloads[x])]
                 /\ workloads' = [workloads EXCEPT
                                     ![x] = Assigned(workloads[x], w)]
  <1> DEFINE worker == workers[w]
             workload == workloads[x]
  <1>1. worker \in WorkerType /\ ValidateWorker(worker)
    BY DEF StoreInv, TypeOK, StoredRecordsValid, CommitAllowed
  <1>2. workload \in WorkloadType /\ ValidateWorkload(workload)
    BY DEF StoreInv, TypeOK, StoredRecordsValid, CommitAllowed
  <1>3. worker.avail >= workload.required
    BY DEF CommitAllowed
  <1> HIDE DEF worker, workload
  <1>4. /\ Debited(worker, workload) \in WorkerType
        /\ ValidateWorker(Debited(worker, workload))
    <2>1. worker.avail \in Nat /\ worker.total \in Nat /\ worker.active \in Int
      BY <1>1 DEF WorkerType
    <2>2. workload.required \in Nat BY <1>2 DEF WorkloadType
    <2>3. worker.avail <= worker.total BY <1>1 DEF ValidateWorker
    <2>4. worker.avail - workload.required \in 0 .. worker.total
      BY <1>3, <2>1, <2>2, <2>3
    <2>5. worker.active + 1 \in Int BY <2>1
    <2> QED BY <1>1, <2>4, <2>5, WorkerEdit DEF Debited
  <1>5. /\ Assigned(workload, w) \in WorkloadType
        /\ ValidateWorkload(Assigned(workload, w))
    <2>1. w \in Workers \cup {NoWorker} /\ w # NoWorker BY WorkersAssumption
    <2>2. "PLACED" \in WorkloadStates BY DEF WorkloadStates
    <2>3. LET new == [workload EXCEPT !.assigned = w, !.state = "PLACED"]
          IN  new \in WorkloadType /\ ValidateWorkload(new)
      BY <1>2, <2>1, <2>2, WorkloadEdit
    <2> QED BY <2>3, Zenon DEF Assigned
  <1>6. CommitPlacement(x, w) =>
            /\ workers' = [workers EXCEPT ![w] = Debited(worker, workload)]
            /\ workloads' = [workloads EXCEPT ![x] = Assigned(workload, w)]
    BY DEF CommitPlacement, Debited, Assigned, worker, workload
  <1> QED BY <1>4, <1>5, <1>6 DEF worker, workload

LEMMA ReleaseRecords ==
    ASSUME StoreInv, NEW x \in Workloads, NEW next \in ReleaseTargets,
           HoldsReservation(x)
    PROVE  LET w == workloads[x].assigned
               worker == ReleasedWorker(workers[w], workloads[x])
               workload == ReleasedWorkload(workloads[x], next)
           IN  /\ w \in Workers
               /\ worker \in WorkerType /\ ValidateWorker(worker)
               /\ workload \in WorkloadType /\ ValidateWorkload(workload)
  <1> DEFINE w == workloads[x].assigned
  <1>1. w \in Workers /\ workers[w] \in WorkerType /\ ValidateWorker(workers[w])
    BY DEF StoreInv, TypeOK, StoredRecordsValid, HoldsReservation
  <1>2. workloads[x] \in WorkloadType /\ ValidateWorkload(workloads[x])
    BY DEF StoreInv, TypeOK, StoredRecordsValid, HoldsReservation
  <1>3. /\ ReleasedWorker(workers[w], workloads[x]) \in WorkerType
        /\ ValidateWorker(ReleasedWorker(workers[w], workloads[x]))
    <2> DEFINE worker == workers[w]
               back == IF workloads[x].required > worker.total - worker.avail
                       THEN worker.total
                       ELSE worker.avail + workloads[x].required
               left == IF worker.active > 0 THEN worker.active - 1
                       ELSE worker.active
    <2>1. worker.avail \in Nat /\ worker.total \in Nat /\ worker.active \in Int
      BY <1>1 DEF WorkerType
    <2>2. workloads[x].required \in Nat BY <1>2 DEF WorkloadType
    <2>3. back \in 0 .. worker.total /\ left \in Int BY <2>1, <2>2
    <2>4. ReleasedWorker(worker, workloads[x]) =
              [worker EXCEPT !.avail = back, !.active = left]
      BY DEF ReleasedWorker
    <2> HIDE DEF back, left
    <2>5. /\ [worker EXCEPT !.avail = back, !.active = left] \in WorkerType
          /\ ValidateWorker([worker EXCEPT !.avail = back, !.active = left])
      <3> HIDE DEF worker
      <3> QED BY <1>1, <2>3, WorkerEdit DEF worker
    <2> QED BY <2>4, <2>5, Zenon
  <1>4. /\ ReleasedWorkload(workloads[x], next) \in WorkloadType
        /\ ValidateWorkload(ReleasedWorkload(workloads[x], next))
    <2>1. next \in WorkloadStates /\ next \notin PlacedStates
      BY DEF ReleaseTargets, PlacedStates, WorkloadStates
    <2>2. ReleasedWorkload(workloads[x], next) =
              [workloads[x] EXCEPT !.assigned = NoWorker, !.state = next]
      BY DEF ReleasedWorkload
    <2>3. LET new == [workloads[x] EXCEPT !.assigned = NoWorker, !.state = next]
          IN  new \in WorkloadType /\ ValidateWorkload(new)
      BY <1>2, <2>1, WorkloadEdit
    <2> QED BY <2>2, <2>3, Zenon
  <1> QED BY <1>1, <1>3, <1>4

LEMMA StoreInvPlace == StoreInv /\ Place => StoreInv'
  <1> SUFFICES ASSUME StoreInv, NEW x \in Workloads, NEW w \in Workers,
                      CommitPlacement(x, w)
               PROVE  StoreInv'
    BY DEF Place
  <1>1. CommitAllowed(x, w) BY DEF CommitPlacement
  <1>2. x \in DOMAIN workloads /\ w \in DOMAIN workers BY <1>1 DEF CommitAllowed
  <1> QED
    BY <1>1, <1>2, CommitRecords DEF StoreInv, TypeOK, StoredRecordsValid

LEMMA StoreInvRelease == StoreInv /\ Release => StoreInv'
  <1> SUFFICES ASSUME StoreInv, NEW x \in Workloads,
                      NEW next \in ReleaseTargets, ReleasePlacement(x, next)
               PROVE  StoreInv'
    BY DEF Release
  <1>1. HoldsReservation(x) BY DEF ReleasePlacement, ReleaseAllowed
  <1> QED
    BY <1>1, ReleaseRecords
    DEF ReleasePlacement, HoldsReservation, StoreInv, TypeOK, StoredRecordsValid

LEMMA StoreInvPutWorker ==
    ASSUME StoreInv, NEW w \in Workers, NEW record \in WorkerType,
           ValidateWorker(record), workers' = Put(workers, w, record),
           UNCHANGED workloads
    PROVE  StoreInv'
  <1>1. DOMAIN workers \subseteq Workers /\ workers \in [DOMAIN workers -> WorkerType]
    BY DEF StoreInv, TypeOK
  <1>2. /\ DOMAIN workers' = DOMAIN workers \cup {w}
        /\ workers' \in [DOMAIN workers' -> WorkerType]
        /\ workers'[w] = record
        /\ \A v \in DOMAIN workers : v # w => workers'[v] = workers[v]
    BY <1>1 DEF Put
  <1> QED BY <1>1, <1>2 DEF StoreInv, TypeOK, StoredRecordsValid

LEMMA StoreInvPutWorkload ==
    ASSUME StoreInv, NEW x \in Workloads, NEW record \in WorkloadType,
           ValidateWorkload(record), workloads' = Put(workloads, x, record),
           UNCHANGED workers
    PROVE  StoreInv'
  <1>1. /\ DOMAIN workloads \subseteq Workloads
        /\ workloads \in [DOMAIN workloads -> WorkloadType]
    BY DEF StoreInv, TypeOK
  <1>2. /\ DOMAIN workloads' = DOMAIN workloads \cup {x}
        /\ workloads' \in [DOMAIN workloads' -> WorkloadType]
        /\ workloads'[x] = record
        /\ \A y \in DOMAIN workloads : y # x => workloads'[y] = workloads[y]
    BY <1>1 DEF Put
  <1> QED BY <1>1, <1>2 DEF StoreInv, TypeOK, StoredRecordsValid

LEMMA StoreInvWrite == StoreInv /\ Write => StoreInv'
  <1> SUFFICES ASSUME StoreInv, Write PROVE StoreInv' OBVIOUS
  <1>1. ASSUME NEW w \in Workers, NEW record \in WorkerRecords,
               RegisterWorker(w, record) \/ UpdateWorker(w, record)
        PROVE  StoreInv'
    BY <1>1, StoreInvPutWorker, RecordsAssumption
    DEF RegisterWorker, UpdateWorker, UpdateWorkerAllowed
  <1>2. ASSUME NEW x \in Workloads, NEW record \in WorkloadRecords,
               CreateWorkload(x, record) \/ UpdateWorkload(x, record)
        PROVE  StoreInv'
    BY <1>2, StoreInvPutWorkload, RecordsAssumption
    DEF CreateWorkload, UpdateWorkload
  <1> QED BY <1>1, <1>2 DEF Write

(***************************************************************************)
(* Whatever clients write, memory amounts stay natural numbers and stored  *)
(* records stay valid (memory_store.go and validation.go).                 *)
(***************************************************************************)
THEOREM RecordsStayValid == Spec => [](TypeOK /\ StoredRecordsValid)
  <1>1. StoreInit => StoreInv
    BY DEF StoreInit, StoreInv, TypeOK, StoredRecordsValid
  <1>2. StoreInv /\ [Next]_storeVars => StoreInv'
    <2>1. StoreInv /\ UNCHANGED storeVars => StoreInv'
      BY DEF StoreInv, TypeOK, StoredRecordsValid, storeVars
    <2> QED
      BY <2>1, StoreInvPlace, StoreInvRelease, StoreInvWrite DEF Next
  <1> QED BY <1>1, <1>2, PTL DEF Spec, StoreInv

\* With valid records, the validation at the end of ReleasePlacement refuses
\* no reservation.
LEMMA RecordsReturnable == StoreInv => ReleaseNeverStuck
  <1> QED BY ReleaseRecords DEF ReleaseNeverStuck, ReleaseAllowed

(***************************************************************************)
(* ReleasePlacement accepts every workload that is placed on a registered  *)
(* worker: its closing validation never refuses one.  A client may also    *)
(* store a workload as placed on no worker, or on one that is not          *)
(* registered (StateStore.PUT checks neither); this theorem does not speak *)
(* of those, and ReleasePlacement refuses them.                            *)
(***************************************************************************)
THEOREM ReservationsReturnable == Spec => []ReleaseNeverStuck
  <1> QED BY RecordsReturnable, RecordsStayValid, PTL DEF StoreInv

\* No operation takes a record out of the store.
LEMMA NothingLeavesTheStore ==
    ASSUME StoreInv, [Next]_storeVars
    PROVE  /\ DOMAIN workers \subseteq DOMAIN workers'
           /\ DOMAIN workloads \subseteq DOMAIN workloads'
  <1>1. CASE Place
    BY <1>1 DEF Place, CommitPlacement
  <1>2. CASE Release
    BY <1>2 DEF Release, ReleasePlacement
  <1>3. CASE Write
    BY <1>3 DEF Write, RegisterWorker, UpdateWorker, CreateWorkload,
                UpdateWorkload, Put
  <1>4. CASE UNCHANGED storeVars
    BY <1>4 DEF storeVars
  <1> QED BY <1>1, <1>2, <1>3, <1>4 DEF Next

LEMMA PlacementHolds ==
    ASSUME StoreInv, NEW x \in Workloads, NEW w \in Workers, CommitPlacement(x, w)
    PROVE  HoldsReservation(x)'
  <1>1. x \in DOMAIN workloads /\ w \in DOMAIN workers
    BY DEF CommitPlacement, CommitAllowed
  <1>2. workloads[x] \in WorkloadType BY <1>1 DEF StoreInv, TypeOK
  <1>3. /\ x \in DOMAIN workloads' /\ w \in DOMAIN workers'
        /\ workloads'[x].assigned = w /\ workloads'[x].state = "PLACED"
    BY <1>1, <1>2 DEF CommitPlacement, WorkloadType
  <1> QED BY <1>3 DEF HoldsReservation, PlacedStates

(***************************************************************************)
(* What the store placed itself can be released until the workload's own   *)
(* record is written again, whatever clients store in place of its         *)
(* worker's record in the meantime.                                        *)
(***************************************************************************)
THEOREM PlacementsStayReturnable == Spec => CommittedStaysReturnable
  <1> DEFINE Step(x) ==
        /\ (\E w \in Workers : CommitPlacement(x, w)) => Returnable(x)'
        /\ Returnable(x) /\ workloads'[x] = workloads[x] => Returnable(x)'
  <1>1. StoreInv /\ ReleaseNeverStuck' /\ [Next]_storeVars
            => \A x \in Workloads : Step(x)
    <2> SUFFICES ASSUME StoreInv, ReleaseNeverStuck', [Next]_storeVars,
                        NEW x \in Workloads
                 PROVE  Step(x)
      OBVIOUS
    <2>1. HoldsReservation(x)' => Returnable(x)'
      BY DEF ReleaseNeverStuck, Returnable
    <2>2. ASSUME NEW w \in Workers, CommitPlacement(x, w) PROVE Returnable(x)'
      BY <2>1, <2>2, PlacementHolds
    <2>3. ASSUME Returnable(x), workloads'[x] = workloads[x]
          PROVE  Returnable(x)'
      <3>1. HoldsReservation(x)
        BY <2>3 DEF Returnable, ReleaseAllowed, ReleaseTargets
      <3>2. HoldsReservation(x)'
        BY <2>3, <3>1, NothingLeavesTheStore DEF HoldsReservation
      <3> QED BY <2>1, <3>2
    <2> QED BY <2>2, <2>3
  <1>2. StoreInv /\ StoreInv' /\ [Next]_storeVars
            => [\A x \in Workloads : Step(x)]_storeVars
    BY <1>1, RecordsReturnable, PTL
  <1> QED
    BY <1>2, RecordsStayValid, PTL
    DEF Spec, StoreInv, CommittedStaysReturnable

-----------------------------------------------------------------------------
(***************************************************************************)
(* The books under the contract (AtomicSpec).  First what a commit, a      *)
(* release and every other step do to the memory held on a worker.         *)
(***************************************************************************)
LEMMA HeldFinite ==
    ASSUME StoreInv, NEW w
    PROVE  IsFiniteSet(Holders(w)) /\ IsFiniteSet(HeldMemory(w))
  <1> DEFINE Held(x) == {x} \X (1 .. workloads[x].required)
             Parts == {Held(x) : x \in Holders(w)}
             part == [x \in Holders(w) |-> Held(x)]
  <1>1. IsFiniteSet(Holders(w))
    <2>1. Holders(w) \subseteq Workloads BY DEF Holders, StoreInv, TypeOK
    <2> QED BY <2>1, WorkloadsAssumption, FS_Subset
  <1>2. IsFiniteSet(Parts)
    <2>1. part \in Surjection(Holders(w), Parts) BY DEF Surjection
    <2> QED BY <1>1, <2>1, FS_Surjection
  <1>3. \A P \in Parts : IsFiniteSet(P)
    <2>1. ASSUME NEW x \in Holders(w) PROVE IsFiniteSet(Held(x))
      <3>1. workloads[x].required \in Nat
        BY DEF Holders, StoreInv, TypeOK, WorkloadType
      <3>2. IsFiniteSet({x}) /\ IsFiniteSet(1 .. workloads[x].required)
        <4>1. IsFiniteSet({x}) BY FS_Singleton
        <4>2. IsFiniteSet(1 .. workloads[x].required) BY <3>1, FS_Interval
        <4> QED BY <4>1, <4>2
      <3> QED BY <3>2, FS_Product, Zenon
    <2> QED BY <2>1
  <1>4. IsFiniteSet(UNION Parts)
    <2> HIDE DEF Parts
    <2> QED BY <1>2, <1>3, FS_UNION
  <1> QED BY <1>1, <1>4 DEF HeldMemory

LEMMA BlockSize ==
    ASSUME NEW x, NEW r \in Nat
    PROVE  IsFiniteSet({x} \X (1 .. r)) /\ Cardinality({x} \X (1 .. r)) = r
  <1>1. IsFiniteSet({x}) /\ Cardinality({x}) = 1 BY FS_Singleton
  <1>2. IsFiniteSet(1 .. r) BY FS_Interval
  <1>3. Cardinality(1 .. r) = r
    <2>1. 1 \in Int /\ r \in Int OBVIOUS
    <2>2. Cardinality(1 .. r) = IF 1 > r THEN 0 ELSE r - 1 + 1
      BY <2>1, FS_Interval, Zenon
    <2> QED BY <2>2
  <1>4. /\ IsFiniteSet({x} \X (1 .. r))
        /\ Cardinality({x} \X (1 .. r)) = Cardinality({x}) * Cardinality(1 .. r)
    BY <1>1, <1>2, FS_Product, Zenon
  <1> QED BY <1>1, <1>3, <1>4

LEMMA AddBlock ==
    ASSUME NEW M, IsFiniteSet(M), NEW B, IsFiniteSet(B), M \cap B = {}
    PROVE  Cardinality(M \cup B) = Cardinality(M) + Cardinality(B)
  <1>1. Cardinality(M) \in Nat /\ Cardinality(B) \in Nat BY FS_CardinalityType
  <1>2. Cardinality(M \cup B) =
            Cardinality(M) + Cardinality(B) - Cardinality(M \cap B)
    BY FS_Union, Zenon
  <1>3. Cardinality(M \cap B) = 0 BY FS_EmptySet, Zenon
  <1> QED BY <1>1, <1>2, <1>3

LEMMA RemoveBlock ==
    ASSUME NEW M, IsFiniteSet(M), NEW B, IsFiniteSet(B), B \subseteq M
    PROVE  /\ Cardinality(M \ B) = Cardinality(M) - Cardinality(B)
           /\ Cardinality(B) <= Cardinality(M)
  <1>1. M \cap B = B OBVIOUS
  <1>2. Cardinality(M \ B) = Cardinality(M) - Cardinality(M \cap B)
    BY FS_Difference, Zenon
  <1>3. Cardinality(B) <= Cardinality(M) BY FS_Subset, Zenon
  <1> QED BY <1>1, <1>2, <1>3

LEMMA CommitHeld ==
    ASSUME StoreInv, NEW x \in Workloads, NEW w \in Workers,
           CommitPlacement(x, w), NEW v
    PROVE  LET block == {x} \X (1 .. workloads[x].required)
           IN  /\ x \notin Holders(v)
               /\ HeldMemory(v) \cap block = {}
               /\ v = w => /\ Holders(v)' = Holders(v) \cup {x}
                          /\ HeldMemory(v)' = HeldMemory(v) \cup block
               /\ v # w => /\ Holders(v)' = Holders(v)
                          /\ HeldMemory(v)' = HeldMemory(v)
  <1>1. /\ x \in DOMAIN workloads /\ w \in DOMAIN workers
        /\ workloads[x].state \notin PlacedStates
    BY DEF CommitPlacement, CommitAllowed, SchedulableStates, PlacedStates
  <1>2. workloads[x] \in WorkloadType BY <1>1 DEF StoreInv, TypeOK
  <1>3. /\ DOMAIN workloads' = DOMAIN workloads
        /\ workloads'[x].assigned = w /\ workloads'[x].state \in PlacedStates
        /\ workloads'[x].required = workloads[x].required
        /\ \A y \in DOMAIN workloads : y # x => workloads'[y] = workloads[y]
    BY <1>1, <1>2 DEF CommitPlacement, WorkloadType, PlacedStates
  <1>4. x \notin Holders(v) BY <1>1 DEF Holders
  <1>5. /\ v = w => Holders(v)' = Holders(v) \cup {x}
        /\ v # w => Holders(v)' = Holders(v)
    BY <1>1, <1>3 DEF Holders
  <1>6. \A y \in Holders(v) : workloads'[y] = workloads[y]
    BY <1>3, <1>4 DEF Holders
  <1>7. HeldMemory(v) \cap ({x} \X (1 .. workloads[x].required)) = {}
    BY <1>4 DEF HeldMemory
  <1>8. v = w => HeldMemory(v)' =
                     HeldMemory(v) \cup ({x} \X (1 .. workloads[x].required))
    BY <1>3, <1>5, <1>6 DEF HeldMemory
  <1>9. v # w => HeldMemory(v)' = HeldMemory(v)
    BY <1>5, <1>6 DEF HeldMemory
  <1> QED BY <1>4, <1>5, <1>7, <1>8, <1>9

LEMMA ReleaseHeld ==
    ASSUME StoreInv, NEW x \in Workloads, NEW next \in ReleaseTargets,
           ReleasePlacement(x, next), NEW v
    PROVE  LET block == {x} \X (1 .. workloads[x].required)
               w == workloads[x].assigned
           IN  /\ v = w => /\ x \in Holders(v)
                          /\ block \subseteq HeldMemory(v)
                          /\ Holders(v)' = Holders(v) \ {x}
                          /\ HeldMemory(v)' = HeldMemory(v) \ block
               /\ v # w => /\ Holders(v)' = Holders(v)
                          /\ HeldMemory(v)' = HeldMemory(v)
  <1> DEFINE w == workloads[x].assigned
  <1>1. /\ x \in DOMAIN workloads /\ w \in DOMAIN workers
        /\ workloads[x].state \in PlacedStates
        /\ workloads[x] \in WorkloadType
    BY DEF ReleasePlacement, ReleaseAllowed, HoldsReservation, StoreInv, TypeOK
  <1>2. /\ DOMAIN workloads' = DOMAIN workloads
        /\ workloads'[x].state \notin PlacedStates
        /\ \A y \in DOMAIN workloads : y # x => workloads'[y] = workloads[y]
    <2>1. workloads' = [workloads EXCEPT ![x] =
                           [workloads[x] EXCEPT !.assigned = NoWorker,
                                                !.state = next]]
      BY <1>1 DEF ReleasePlacement, ReleasedWorkload
    <2>2. workloads'[x].state = next BY <1>1, <2>1 DEF WorkloadType
    <2> QED BY <2>1, <2>2 DEF ReleaseTargets, PlacedStates
  <1>3. /\ v = w => x \in Holders(v) /\ Holders(v)' = Holders(v) \ {x}
        /\ v # w => x \notin Holders(v) /\ Holders(v)' = Holders(v)
    BY <1>1, <1>2 DEF Holders
  <1>4. \A y \in Holders(v) : y # x => workloads'[y] = workloads[y]
    BY <1>2 DEF Holders
  <1> QED BY <1>3, <1>4 DEF HeldMemory

LEMMA SameHeld ==
    ASSUME NEW v,
           \A y \in Holders(v) : /\ y \in DOMAIN workloads'
                                 /\ workloads'[y].state \in PlacedStates
                                 /\ workloads'[y].assigned = v
                                 /\ workloads'[y].required = workloads[y].required,
           \A y \in DOMAIN workloads' :
               /\ workloads'[y].state \in PlacedStates
               /\ workloads'[y].assigned = v
               => y \in Holders(v)
    PROVE  Holders(v)' = Holders(v) /\ HeldMemory(v)' = HeldMemory(v)
  <1>1. Holders(v)' = Holders(v) BY DEF Holders
  <1> QED BY <1>1 DEF HeldMemory

(***************************************************************************)
(* What the four kinds of step do to the records, field by field.          *)
(***************************************************************************)
SamePlace(old, new) ==
    /\ new.total = old.total
    /\ new.topology = old.topology
    /\ new.domain = old.domain

SameNeeds(old, new) ==
    /\ new.required = old.required
    /\ new.requirement = old.requirement
    /\ new.domain = old.domain

LEMMA SameMatch ==
    ASSUME NEW worker, NEW worker2, NEW workload, NEW workload2,
           SamePlace(worker, worker2), SameNeeds(workload, workload2)
    PROVE  MatchesTopologyRequirement(workload2, worker2)
               <=> MatchesTopologyRequirement(workload, worker)
  BY DEF SamePlace, SameNeeds, MatchesTopologyRequirement

LEMMA CommitFields ==
    ASSUME StoreInv, NEW x \in Workloads, NEW w \in Workers,
           CommitPlacement(x, w)
    PROVE  /\ x \in DOMAIN workloads /\ w \in DOMAIN workers
           /\ DOMAIN workloads' = DOMAIN workloads
           /\ DOMAIN workers' = DOMAIN workers
           /\ \A v \in DOMAIN workers : v # w => workers'[v] = workers[v]
           /\ \A y \in DOMAIN workloads : y # x => workloads'[y] = workloads[y]
           /\ SamePlace(workers[w], workers'[w])
           /\ workers'[w].avail = workers[w].avail - workloads[x].required
           /\ workers'[w].active = workers[w].active + 1
           /\ SameNeeds(workloads[x], workloads'[x])
           /\ workloads'[x].assigned = w /\ workloads'[x].state = "PLACED"
  <1>1. /\ x \in DOMAIN workloads /\ w \in DOMAIN workers
        /\ workloads[x] \in WorkloadType /\ workers[w] \in WorkerType
    BY DEF CommitPlacement, CommitAllowed, StoreInv, TypeOK
  <1>2. workers' = [workers EXCEPT ![w] =
            [workers[w] EXCEPT !.avail = workers[w].avail - workloads[x].required,
                               !.active = workers[w].active + 1]]
    BY DEF CommitPlacement
  <1>3. workloads' = [workloads EXCEPT ![x] =
            [workloads[x] EXCEPT !.assigned = w, !.state = "PLACED"]]
    BY DEF CommitPlacement
  <1>4. /\ SamePlace(workers[w], workers'[w])
        /\ workers'[w].avail = workers[w].avail - workloads[x].required
        /\ workers'[w].active = workers[w].active + 1
    BY <1>1, <1>2 DEF WorkerType, SamePlace
  <1>5. /\ SameNeeds(workloads[x], workloads'[x])
        /\ workloads'[x].assigned = w /\ workloads'[x].state = "PLACED"
    BY <1>1, <1>3 DEF WorkloadType, SameNeeds
  <1> QED BY <1>1, <1>2, <1>3, <1>4, <1>5

LEMMA ReleaseFields ==
    ASSUME StoreInv, NEW x \in Workloads, NEW next \in ReleaseTargets,
           ReleasePlacement(x, next)
    PROVE  LET w == workloads[x].assigned
               r == workloads[x].required
           IN  /\ x \in DOMAIN workloads /\ w \in DOMAIN workers
               /\ workloads[x].state \in PlacedStates
               /\ DOMAIN workloads' = DOMAIN workloads
               /\ DOMAIN workers' = DOMAIN workers
               /\ \A v \in DOMAIN workers : v # w => workers'[v] = workers[v]
               /\ \A y \in DOMAIN workloads :
                     y # x => workloads'[y] = workloads[y]
               /\ SamePlace(workers[w], workers'[w])
               /\ workers'[w].avail =
                     IF r > workers[w].total - workers[w].avail
                     THEN workers[w].total ELSE workers[w].avail + r
               /\ workers'[w].active = IF workers[w].active > 0
                                       THEN workers[w].active - 1
                                       ELSE workers[w].active
               /\ SameNeeds(workloads[x], workloads'[x])
               /\ workloads'[x].assigned = NoWorker
               /\ workloads'[x].state = next
  <1> DEFINE w == workloads[x].assigned
  <1>1. /\ x \in DOMAIN workloads /\ w \in DOMAIN workers
        /\ workloads[x].state \in PlacedStates
        /\ workloads[x] \in WorkloadType /\ workers[w] \in WorkerType
    BY DEF ReleasePlacement, ReleaseAllowed, HoldsReservation, StoreInv, TypeOK
  <1>2. workers' = [workers EXCEPT
                       ![w] = ReleasedWorker(workers[w], workloads[x])]
    BY <1>1 DEF ReleasePlacement
  <1>3. workloads' = [workloads EXCEPT ![x] =
            [workloads[x] EXCEPT !.assigned = NoWorker, !.state = next]]
    BY <1>1 DEF ReleasePlacement, ReleasedWorkload
  <1>4. /\ SamePlace(workers[w], workers'[w])
        /\ workers'[w].avail =
              IF workloads[x].required > workers[w].total - workers[w].avail
              THEN workers[w].total
              ELSE workers[w].avail + workloads[x].required
        /\ workers'[w].active = IF workers[w].active > 0
                                THEN workers[w].active - 1
                                ELSE workers[w].active
    BY <1>1, <1>2 DEF WorkerType, SamePlace, ReleasedWorker
  <1>5. /\ SameNeeds(workloads[x], workloads'[x])
        /\ workloads'[x].assigned = NoWorker
        /\ workloads'[x].state = next
    BY <1>1, <1>3 DEF WorkloadType, SameNeeds
  <1> QED BY <1>1, <1>2, <1>3, <1>4, <1>5

LEMMA RefreshFields ==
    ASSUME StoreInv, NEW w \in Workers, RefreshWorker(w)
    PROVE  /\ w \in DOMAIN workers
           /\ workloads' = workloads
           /\ DOMAIN workers' = DOMAIN workers
           /\ \A v \in DOMAIN workers : v # w => workers'[v] = workers[v]
           /\ SamePlace(workers[w], workers'[w])
           /\ workers'[w].avail \in 0 .. workers[w].avail
           /\ workers'[w].active = workers[w].active
           /\ StoreInv'
  <1>1. PICK seen \in WorkerRecords :
            UpdateWorker(w, [workers[w] EXCEPT
                !.state = seen.state, !.heartbeat = seen.heartbeat,
                !.avail = IF seen.avail < @ THEN seen.avail ELSE @])
    BY DEF RefreshWorker
  <1> DEFINE new == [workers[w] EXCEPT
                !.state = seen.state, !.heartbeat = seen.heartbeat,
                !.avail = IF seen.avail < @ THEN seen.avail ELSE @]
  <1>2. w \in DOMAIN workers BY DEF RefreshWorker
  <1>3. workers[w] \in WorkerType /\ seen \in WorkerType
    BY <1>2, RecordsAssumption DEF StoreInv, TypeOK
  <1>4. /\ SamePlace(workers[w], new)
        /\ new.avail \in 0 .. workers[w].avail
        /\ new.active = workers[w].active
        /\ new \in WorkerType
    <2> DEFINE left == IF seen.avail < workers[w].avail
                       THEN seen.avail ELSE workers[w].avail
    <2>1. /\ workers[w].avail \in Nat
          /\ seen.avail \in Nat /\ seen.state \in WorkerStates
          /\ seen.heartbeat \in Nat
      BY <1>3 DEF WorkerType
    <2>2. left \in 0 .. workers[w].avail /\ left \in Nat BY <2>1
    <2>3. new = [workers[w] EXCEPT !.state = seen.state,
                    !.heartbeat = seen.heartbeat, !.avail = left]
      OBVIOUS
    <2> HIDE DEF new, left
    <2>4. /\ SamePlace(workers[w], new) /\ new.avail = left
          /\ new.active = workers[w].active
      BY <1>3, <2>3 DEF WorkerType, SamePlace
    <2>5. new \in WorkerType BY <1>3, <2>1, <2>2, <2>3 DEF WorkerType
    <2> QED BY <2>2, <2>4, <2>5
  <1>5. ValidateWorker(new) /\ workers' = Put(workers, w, new) /\ workloads' = workloads
    BY <1>1 DEF UpdateWorker, UpdateWorkerAllowed
  <1>6. /\ DOMAIN workers' = DOMAIN workers /\ workers'[w] = new
        /\ \A v \in DOMAIN workers : v # w => workers'[v] = workers[v]
    BY <1>2, <1>5 DEF Put
  <1> HIDE DEF new
  <1>7. StoreInv' BY <1>4, <1>5, StoreInvPutWorker
  <1> QED BY <1>2, <1>4, <1>5, <1>6, <1>7

LEMMA AdvanceFields ==
    ASSUME StoreInv, NEW x \in Workloads, AdvanceWorkload(x)
    PROVE  /\ x \in DOMAIN workloads
           /\ workers' = workers
           /\ DOMAIN workloads' = DOMAIN workloads
           /\ \A y \in DOMAIN workloads : y # x => workloads'[y] = workloads[y]
           /\ SameNeeds(workloads[x], workloads'[x])
           /\ workloads'[x].assigned = workloads[x].assigned
           /\ workloads'[x].state \in PlacedStates
                 <=> workloads[x].state \in PlacedStates
           /\ StoreInv'
  <1>1. PICK state \in ClientStates :
            /\ state \in PlacedStates <=> workloads[x].state \in PlacedStates
            /\ UpdateWorkload(x, [workloads[x] EXCEPT !.state = state])
    BY DEF AdvanceWorkload
  <1> DEFINE new == [workloads[x] EXCEPT !.state = state]
  <1>2. x \in DOMAIN workloads BY DEF AdvanceWorkload
  <1>3. workloads[x] \in WorkloadType BY <1>2 DEF StoreInv, TypeOK
  <1>4. /\ SameNeeds(workloads[x], new) /\ new \in WorkloadType
        /\ new.assigned = workloads[x].assigned /\ new.state = state
    <2>1. state \in WorkloadStates BY RecordsAssumption
    <2> QED BY <1>3, <2>1 DEF WorkloadType, SameNeeds
  <1>5. /\ ValidateWorkload(new) /\ workloads' = Put(workloads, x, new)
        /\ workers' = workers
    BY <1>1 DEF UpdateWorkload
  <1>6. /\ DOMAIN workloads' = DOMAIN workloads /\ workloads'[x] = new
        /\ \A y \in DOMAIN workloads : y # x => workloads'[y] = workloads[y]
    BY <1>2, <1>5 DEF Put
  <1> HIDE DEF new
  <1>7. StoreInv' BY <1>4, <1>5, StoreInvPutWorkload
  <1> QED BY <1>1, <1>2, <1>4, <1>5, <1>6, <1>7

-----------------------------------------------------------------------------
(***************************************************************************)
(* The inductive invariant of the books.  NoOvercommit alone is not        *)
(* inductive: that a release returns what was taken needs the workload to  *)
(* be counted on its worker, and that a newly registered worker starts     *)
(* with nothing on it needs every assignment to name a known worker.       *)
(***************************************************************************)
LedgerInv ==
    StoreInv /\ NoOvercommit /\ ActiveCountExact /\ AssignmentsSound

LEMMA WorkerNumbers ==
    ASSUME StoreInv, NEW w \in DOMAIN workers
    PROVE  /\ workers[w].total \in Nat /\ workers[w].avail \in Nat
           /\ workers[w].active \in Int
           /\ workers[w].avail <= workers[w].total
           /\ Cardinality(Holders(w)) \in Nat
           /\ Cardinality(HeldMemory(w)) \in Nat
  <1>1. workers[w] \in WorkerType /\ ValidateWorker(workers[w])
    BY DEF StoreInv, TypeOK, StoredRecordsValid
  <1>2. IsFiniteSet(Holders(w)) /\ IsFiniteSet(HeldMemory(w)) BY HeldFinite
  <1>3. /\ Cardinality(Holders(w)) \in Nat
        /\ Cardinality(HeldMemory(w)) \in Nat
    BY <1>2, FS_CardinalityType
  <1> QED BY <1>1, <1>3 DEF WorkerType, ValidateWorker

LEMMA PlacedAlways ==
    ASSUME StoreInv, NEW x \in DOMAIN workloads
    PROVE  workloads[x].required \in Nat /\ workloads[x].required > 0
  BY DEF StoreInv, TypeOK, StoredRecordsValid, WorkloadType, ValidateWorkload

\* A commit keeps the books straight whoever else writes to the store, ...
LEMMA CommitBooks ==
    ASSUME StoreInv, NoOvercommit, ActiveCountExact,
           NEW x \in Workloads, NEW w \in Workers, CommitPlacement(x, w)
    PROVE  NoOvercommit' /\ ActiveCountExact'
  <1> DEFINE r == workloads[x].required
             block == {x} \X (1 .. r)
  <1>1. /\ x \in DOMAIN workloads /\ w \in DOMAIN workers
        /\ DOMAIN workloads' = DOMAIN workloads
        /\ DOMAIN workers' = DOMAIN workers
        /\ \A v \in DOMAIN workers : v # w => workers'[v] = workers[v]
        /\ \A y \in DOMAIN workloads : y # x => workloads'[y] = workloads[y]
        /\ SamePlace(workers[w], workers'[w])
        /\ workers'[w].avail = workers[w].avail - r
        /\ workers'[w].active = workers[w].active + 1
        /\ SameNeeds(workloads[x], workloads'[x])
        /\ workloads'[x].assigned = w /\ workloads'[x].state = "PLACED"
    BY CommitFields
  <1>2. r \in Nat BY <1>1, PlacedAlways
  <1>3. IsFiniteSet(block) /\ Cardinality(block) = r BY <1>2, BlockSize
  <1>4. NoOvercommit'
    <2> SUFFICES ASSUME NEW v \in DOMAIN workers
                 PROVE  workers'[v].avail + Cardinality(HeldMemory(v)')
                            <= workers'[v].total
      BY <1>1 DEF NoOvercommit
    <2>1. workers[v].avail + Cardinality(HeldMemory(v)) <= workers[v].total
      BY DEF NoOvercommit
    <2>2. CASE v # w
      BY <1>1, <2>1, <2>2, CommitHeld
    <2>3. CASE v = w
      <3>1. Cardinality(HeldMemory(v)') = Cardinality(HeldMemory(v)) + r
        BY <1>3, <2>3, CommitHeld, HeldFinite, AddBlock
      <3>2. /\ workers[v].total \in Nat /\ workers[v].avail \in Nat
            /\ Cardinality(HeldMemory(v)) \in Nat
        BY WorkerNumbers
      <3> QED BY <1>1, <1>2, <2>1, <2>3, <3>1, <3>2 DEF SamePlace
    <2> QED BY <2>2, <2>3
  <1>5. ActiveCountExact'
    <2> SUFFICES ASSUME NEW v \in DOMAIN workers
                 PROVE  workers'[v].active = Cardinality(Holders(v)')
      BY <1>1 DEF ActiveCountExact
    <2>1. workers[v].active = Cardinality(Holders(v))
      BY DEF ActiveCountExact
    <2>2. CASE v # w
      BY <1>1, <2>1, <2>2, CommitHeld
    <2>3. CASE v = w
      <3>1. /\ x \notin Holders(v) /\ Holders(v)' = Holders(v) \cup {x}
            /\ IsFiniteSet(Holders(v))
        BY <2>3, CommitHeld, HeldFinite
      <3>2. Cardinality(Holders(v)') = Cardinality(Holders(v)) + 1
        BY <3>1, FS_AddElement
      <3> QED BY <1>1, <2>1, <2>3, <3>2
    <2> QED BY <2>2, <2>3
  <1> QED BY <1>4, <1>5

LEMMA LedgerInvCommit ==
    ASSUME LedgerInv, NEW x \in Workloads, NEW w \in Workers,
           CommitPlacement(x, w)
    PROVE  LedgerInv'
  <1> USE DEF LedgerInv
  <1>1. StoreInv' BY StoreInvPlace DEF Place
  <1>2. /\ x \in DOMAIN workloads /\ w \in DOMAIN workers
        /\ DOMAIN workloads' = DOMAIN workloads
        /\ DOMAIN workers' = DOMAIN workers
        /\ \A v \in DOMAIN workers : v # w => workers'[v] = workers[v]
        /\ \A y \in DOMAIN workloads : y # x => workloads'[y] = workloads[y]
        /\ SamePlace(workers[w], workers'[w])
        /\ SameNeeds(workloads[x], workloads'[x])
        /\ workloads'[x].assigned = w /\ workloads'[x].state = "PLACED"
    BY CommitFields
  <1>3. NoOvercommit' /\ ActiveCountExact' BY CommitBooks
  <1>4. AssignmentsSound'
    <2>1. \A v \in DOMAIN workers : SamePlace(workers[v], workers'[v])
      BY <1>2 DEF SamePlace
    <2>2. MatchesTopologyRequirement(workloads'[x], workers'[w])
      BY <1>2, SameMatch DEF CommitPlacement, CommitAllowed
    <2>3. ASSUME NEW y \in DOMAIN workloads, y # x,
                 workloads[y].state \in PlacedStates
          PROVE  /\ workloads[y].assigned \in DOMAIN workers
                 /\ MatchesTopologyRequirement(
                        workloads[y], workers'[workloads[y].assigned])
      <3>1. SameNeeds(workloads[y], workloads[y]) BY DEF SameNeeds
      <3> QED BY <2>1, <2>3, <3>1, SameMatch DEF AssignmentsSound
    <2> QED BY <1>2, <2>2, <2>3 DEF AssignmentsSound, PlacedStates
  <1> QED BY <1>1, <1>3, <1>4

\* ... and so does a release, whose cap never applies while they are.
LEMMA ReleaseBooks ==
    ASSUME StoreInv, NoOvercommit, ActiveCountExact,
           NEW x \in Workloads, NEW next \in ReleaseTargets,
           ReleasePlacement(x, next)
    PROVE  /\ NoOvercommit' /\ ActiveCountExact'
           /\ \A w \in Workers :
                 w = workloads[x].assigned =>
                     workers'[w].avail = workers[w].avail + workloads[x].required
  <1> DEFINE r == workloads[x].required
             block == {x} \X (1 .. r)
  <1>0. PICK w \in Workers : w = workloads[x].assigned
    BY ReleaseFields DEF StoreInv, TypeOK
  <1>1. /\ x \in DOMAIN workloads /\ w \in DOMAIN workers
        /\ DOMAIN workloads' = DOMAIN workloads
        /\ DOMAIN workers' = DOMAIN workers
        /\ \A v \in DOMAIN workers : v # w => workers'[v] = workers[v]
        /\ \A y \in DOMAIN workloads : y # x => workloads'[y] = workloads[y]
        /\ SamePlace(workers[w], workers'[w])
        /\ workers'[w].avail = IF r > workers[w].total - workers[w].avail
                               THEN workers[w].total ELSE workers[w].avail + r
        /\ workers'[w].active = IF workers[w].active > 0
                                THEN workers[w].active - 1
                                ELSE workers[w].active
        /\ workloads'[x].assigned = NoWorker /\ workloads'[x].state = next
    BY <1>0, ReleaseFields
  <1>2. r \in Nat BY <1>1, PlacedAlways
  <1>3. IsFiniteSet(block) /\ Cardinality(block) = r BY <1>2, BlockSize
  <1>4. /\ Cardinality(HeldMemory(w)') = Cardinality(HeldMemory(w)) - r
        /\ r <= Cardinality(HeldMemory(w))
    <2>1. /\ block \subseteq HeldMemory(w)
          /\ HeldMemory(w)' = HeldMemory(w) \ block
      BY <1>0, ReleaseHeld
    <2>2. IsFiniteSet(HeldMemory(w)) BY HeldFinite
    <2> HIDE DEF block
    <2> QED BY <1>3, <2>1, <2>2, RemoveBlock
  <1>5. /\ workers[w].total \in Nat /\ workers[w].avail \in Nat
        /\ workers[w].active \in Int
        /\ Cardinality(HeldMemory(w)) \in Nat
        /\ Cardinality(Holders(w)) \in Nat
    BY <1>1, WorkerNumbers
  <1>6. workers[w].avail + Cardinality(HeldMemory(w)) <= workers[w].total
    BY <1>1 DEF NoOvercommit
  <1>7. workers'[w].avail = workers[w].avail + r
    BY <1>1, <1>2, <1>4, <1>5, <1>6
  <1>8. NoOvercommit'
    <2> SUFFICES ASSUME NEW v \in DOMAIN workers
                 PROVE  workers'[v].avail + Cardinality(HeldMemory(v)')
                            <= workers'[v].total
      BY <1>1 DEF NoOvercommit
    <2>1. CASE v # w
      BY <1>0, <1>1, <2>1, ReleaseHeld DEF NoOvercommit
    <2>2. CASE v = w
      BY <1>1, <1>2, <1>4, <1>5, <1>6, <1>7, <2>2 DEF SamePlace
    <2> QED BY <2>1, <2>2
  <1>9. ActiveCountExact'
    <2> SUFFICES ASSUME NEW v \in DOMAIN workers
                 PROVE  workers'[v].active = Cardinality(Holders(v)')
      BY <1>1 DEF ActiveCountExact
    <2>1. workers[v].active = Cardinality(Holders(v))
      BY DEF ActiveCountExact
    <2>2. CASE v # w
      BY <1>0, <1>1, <2>1, <2>2, ReleaseHeld
    <2>3. CASE v = w
      <3>1. /\ x \in Holders(v) /\ Holders(v)' = Holders(v) \ {x}
            /\ IsFiniteSet(Holders(v))
        BY <1>0, <2>3, ReleaseHeld, HeldFinite
      <3>2. Cardinality(Holders(v)') = Cardinality(Holders(v)) - 1
        BY <3>1, FS_RemoveElement
      <3>3. Cardinality(Holders(v)') \in Nat
        BY <3>1, FS_RemoveElement, FS_CardinalityType
      <3> QED BY <1>1, <1>5, <2>1, <2>3, <3>2, <3>3
    <2> QED BY <2>2, <2>3
  <1> QED BY <1>0, <1>7, <1>8, <1>9

LEMMA LedgerInvRelease ==
    ASSUME LedgerInv, NEW x \in Workloads, NEW next \in ReleaseTargets,
           ReleasePlacement(x, next)
    PROVE  /\ LedgerInv'
           /\ \A w \in Workers :
                 w = workloads[x].assigned =>
                     workers'[w].avail = workers[w].avail + workloads[x].required
  <1> USE DEF LedgerInv
  <1>1. StoreInv' BY StoreInvRelease DEF Release
  <1>2. PICK w : w = workloads[x].assigned OBVIOUS
  <1>3. /\ x \in DOMAIN workloads
        /\ DOMAIN workloads' = DOMAIN workloads
        /\ DOMAIN workers' = DOMAIN workers
        /\ \A v \in DOMAIN workers : v # w => workers'[v] = workers[v]
        /\ \A y \in DOMAIN workloads : y # x => workloads'[y] = workloads[y]
        /\ SamePlace(workers[w], workers'[w])
        /\ workloads'[x].assigned = NoWorker /\ workloads'[x].state = next
    BY <1>2, ReleaseFields
  <1>4. AssignmentsSound'
    <2>1. \A v \in DOMAIN workers : SamePlace(workers[v], workers'[v])
      BY <1>3 DEF SamePlace
    <2>2. ASSUME NEW y \in DOMAIN workloads, y # x,
                 workloads[y].state \in PlacedStates
          PROVE  /\ workloads[y].assigned \in DOMAIN workers
                 /\ MatchesTopologyRequirement(
                        workloads[y], workers'[workloads[y].assigned])
      <3>1. SameNeeds(workloads[y], workloads[y]) BY DEF SameNeeds
      <3> QED BY <2>1, <2>2, <3>1, SameMatch DEF AssignmentsSound
    <2>3. next \notin PlacedStates BY DEF ReleaseTargets, PlacedStates
    <2> QED BY <1>3, <2>2, <2>3 DEF AssignmentsSound
  <1> QED BY <1>1, <1>4, ReleaseBooks

LEMMA RegisterFields ==
    ASSUME StoreInv, NEW w \in Workers, RegisterIdleWorker(w)
    PROVE  /\ w \notin DOMAIN workers
           /\ workloads' = workloads
           /\ DOMAIN workers' = DOMAIN workers \cup {w}
           /\ \A v \in DOMAIN workers : workers'[v] = workers[v]
           /\ workers'[w].active = 0
           /\ workers'[w] \in WorkerType /\ ValidateWorker(workers'[w])
           /\ workers'[w].total \in {record.total : record \in WorkerRecords}
           /\ StoreInv'
  <1>1. PICK record \in WorkerRecords :
            record.active = 0 /\ RegisterWorker(w, record)
    BY DEF RegisterIdleWorker
  <1>2. record \in WorkerType BY RecordsAssumption
  <1>3. /\ w \notin DOMAIN workers /\ ValidateWorker(record)
        /\ workers' = Put(workers, w, record) /\ workloads' = workloads
    BY <1>1 DEF RegisterWorker
  <1>4. /\ DOMAIN workers' = DOMAIN workers \cup {w} /\ workers'[w] = record
        /\ \A v \in DOMAIN workers : workers'[v] = workers[v]
    BY <1>3 DEF Put
  <1>5. StoreInv' BY <1>2, <1>3, StoreInvPutWorker
  <1> QED BY <1>1, <1>2, <1>3, <1>4, <1>5

LEMMA LedgerInvRegister ==
    ASSUME LedgerInv, NEW w \in Workers, RegisterIdleWorker(w)
    PROVE  LedgerInv'
  <1> USE DEF LedgerInv
  <1>1. /\ w \notin DOMAIN workers
        /\ workloads' = workloads
        /\ DOMAIN workers' = DOMAIN workers \cup {w}
        /\ \A v \in DOMAIN workers : workers'[v] = workers[v]
        /\ workers'[w].active = 0
        /\ workers'[w] \in WorkerType /\ ValidateWorker(workers'[w])
        /\ StoreInv'
    BY RegisterFields
  <1>2. \A v : Holders(v)' = Holders(v) /\ HeldMemory(v)' = HeldMemory(v)
    BY <1>1 DEF Holders, HeldMemory
  <1>3. Holders(w) = {} /\ HeldMemory(w) = {}
    BY <1>1 DEF Holders, HeldMemory, AssignmentsSound
  <1>4. Cardinality(Holders(w)) = 0 /\ Cardinality(HeldMemory(w)) = 0
    BY <1>3, FS_EmptySet
  <1>5. NoOvercommit'
    <2>1. workers'[w].avail + 0 <= workers'[w].total
      BY <1>1 DEF ValidateWorker, WorkerType
    <2> QED BY <1>1, <1>2, <1>4, <2>1 DEF NoOvercommit
  <1>6. ActiveCountExact'
    BY <1>1, <1>2, <1>4 DEF ActiveCountExact
  <1>7. AssignmentsSound'
    BY <1>1 DEF AssignmentsSound
  <1> QED BY <1>1, <1>5, <1>6, <1>7

LEMMA LedgerInvRefresh ==
    ASSUME LedgerInv, NEW w \in Workers, RefreshWorker(w)
    PROVE  LedgerInv'
  <1> USE DEF LedgerInv
  <1>1. /\ w \in DOMAIN workers
        /\ workloads' = workloads
        /\ DOMAIN workers' = DOMAIN workers
        /\ \A v \in DOMAIN workers : v # w => workers'[v] = workers[v]
        /\ SamePlace(workers[w], workers'[w])
        /\ workers'[w].avail \in 0 .. workers[w].avail
        /\ workers'[w].active = workers[w].active
    BY RefreshFields
  <1>2. StoreInv' BY RefreshFields
  <1>3. \A v : Holders(v)' = Holders(v) /\ HeldMemory(v)' = HeldMemory(v)
    BY <1>1 DEF Holders, HeldMemory
  <1>4. NoOvercommit'
    <2> SUFFICES ASSUME NEW v \in DOMAIN workers
                 PROVE  workers'[v].avail + Cardinality(HeldMemory(v))
                            <= workers'[v].total
      BY <1>1, <1>3 DEF NoOvercommit
    <2>1. /\ workers[v].avail + Cardinality(HeldMemory(v)) <= workers[v].total
          /\ workers[v].total \in Nat /\ workers[v].avail \in Nat
          /\ Cardinality(HeldMemory(v)) \in Nat
      BY WorkerNumbers DEF NoOvercommit
    <2>2. workers'[v].avail \in 0 .. workers[v].avail
      BY <1>1, <2>1
    <2>3. workers'[v].total = workers[v].total
      BY <1>1 DEF SamePlace
    <2> QED BY <2>1, <2>2, <2>3
  <1>5. ActiveCountExact'
    BY <1>1, <1>3 DEF ActiveCountExact
  <1>6. AssignmentsSound'
    <2>1. \A v \in DOMAIN workers : SamePlace(workers[v], workers'[v])
      BY <1>1 DEF SamePlace
    <2>2. ASSUME NEW y \in DOMAIN workloads,
                 workloads[y].state \in PlacedStates
          PROVE  /\ workloads[y].assigned \in DOMAIN workers
                 /\ MatchesTopologyRequirement(
                        workloads[y], workers'[workloads[y].assigned])
      <3>1. SameNeeds(workloads[y], workloads[y]) BY DEF SameNeeds
      <3> QED BY <2>1, <2>2, <3>1, SameMatch DEF AssignmentsSound
    <2> QED BY <1>1, <2>2 DEF AssignmentsSound
  <1> QED BY <1>2, <1>4, <1>5, <1>6

LEMMA CreateFields ==
    ASSUME StoreInv, NEW x \in Workloads, CreateUnplaced(x)
    PROVE  /\ x \notin DOMAIN workloads
           /\ workers' = workers
           /\ DOMAIN workloads' = DOMAIN workloads \cup {x}
           /\ \A y \in DOMAIN workloads : workloads'[y] = workloads[y]
           /\ workloads'[x].state \notin PlacedStates
           /\ workloads'[x].assigned = NoWorker
           /\ StoreInv'
  <1>1. PICK record \in WorkloadRecords :
            /\ record.state \notin PlacedStates /\ record.assigned = NoWorker
            /\ CreateWorkload(x, record)
    BY DEF CreateUnplaced
  <1>2. record \in WorkloadType BY RecordsAssumption
  <1>3. /\ x \notin DOMAIN workloads /\ ValidateWorkload(record)
        /\ workloads' = Put(workloads, x, record) /\ workers' = workers
    BY <1>1 DEF CreateWorkload
  <1>4. /\ DOMAIN workloads' = DOMAIN workloads \cup {x}
        /\ workloads'[x] = record
        /\ \A y \in DOMAIN workloads : workloads'[y] = workloads[y]
    BY <1>3 DEF Put
  <1>5. StoreInv' BY <1>2, <1>3, StoreInvPutWorkload
  <1> QED BY <1>1, <1>3, <1>4, <1>5

LEMMA SameHolders ==
    ASSUME \A y \in DOMAIN workloads :
               /\ y \in DOMAIN workloads'
               /\ workloads[y].state \in PlacedStates =>
                     /\ workloads'[y].assigned = workloads[y].assigned
                     /\ workloads'[y].required = workloads[y].required
               /\ workloads'[y].state \in PlacedStates
                     <=> workloads[y].state \in PlacedStates,
           \A y \in DOMAIN workloads' \ DOMAIN workloads :
               workloads'[y].state \notin PlacedStates
    PROVE  \A v : Holders(v)' = Holders(v) /\ HeldMemory(v)' = HeldMemory(v)
  <1> SUFFICES ASSUME NEW v
               PROVE  Holders(v)' = Holders(v) /\ HeldMemory(v)' = HeldMemory(v)
    OBVIOUS
  <1>1. \A y \in Holders(v) :
            /\ y \in DOMAIN workloads'
            /\ workloads'[y].state \in PlacedStates
            /\ workloads'[y].assigned = v
            /\ workloads'[y].required = workloads[y].required
    BY DEF Holders
  <1>2. \A y \in DOMAIN workloads' :
            /\ workloads'[y].state \in PlacedStates
            /\ workloads'[y].assigned = v
            => y \in Holders(v)
    BY DEF Holders
  <1> QED BY <1>1, <1>2, SameHeld

LEMMA LedgerInvSameHolders ==
    ASSUME LedgerInv, workers' = workers, StoreInv',
           NEW x \in Workloads,
           \A y \in DOMAIN workloads :
               /\ y \in DOMAIN workloads'
               /\ workloads'[y].assigned = workloads[y].assigned
               /\ workloads'[y].state \in PlacedStates
                     <=> workloads[y].state \in PlacedStates
               /\ SameNeeds(workloads[y], workloads'[y]),
           \A y \in DOMAIN workloads' \ DOMAIN workloads :
               /\ workloads'[y].state \notin PlacedStates
               /\ workloads'[y].assigned = NoWorker
    PROVE  LedgerInv'
  <1> USE DEF LedgerInv
  <1>1. \A v : Holders(v)' = Holders(v) /\ HeldMemory(v)' = HeldMemory(v)
    BY SameHolders DEF SameNeeds
  <1>2. NoOvercommit' BY <1>1 DEF NoOvercommit
  <1>3. ActiveCountExact' BY <1>1 DEF ActiveCountExact
  <1>4. AssignmentsSound'
    <2>1. ASSUME NEW y \in DOMAIN workloads,
                 workloads[y].state \in PlacedStates
          PROVE  /\ workloads[y].assigned \in DOMAIN workers
                 /\ MatchesTopologyRequirement(
                        workloads'[y], workers[workloads[y].assigned])
      <3>1. SamePlace(workers[workloads[y].assigned],
                      workers[workloads[y].assigned])
        BY DEF SamePlace
      <3> QED BY <2>1, <3>1, SameMatch DEF AssignmentsSound
    <2> QED BY <2>1 DEF AssignmentsSound
  <1> QED BY <1>2, <1>3, <1>4

LEMMA LedgerInvCreate ==
    ASSUME LedgerInv, NEW x \in Workloads, CreateUnplaced(x)
    PROVE  LedgerInv'
  <1>1. StoreInv BY DEF LedgerInv
  <1> QED BY <1>1, CreateFields, LedgerInvSameHolders DEF SameNeeds

LEMMA LedgerInvAdvance ==
    ASSUME LedgerInv, NEW x \in Workloads, AdvanceWorkload(x)
    PROVE  LedgerInv'
  <1>1. StoreInv BY DEF LedgerInv
  <1>2. /\ x \in DOMAIN workloads
        /\ workers' = workers
        /\ DOMAIN workloads' = DOMAIN workloads
        /\ \A y \in DOMAIN workloads : y # x => workloads'[y] = workloads[y]
        /\ SameNeeds(workloads[x], workloads'[x])
        /\ workloads'[x].assigned = workloads[x].assigned
        /\ workloads'[x].state \in PlacedStates
              <=> workloads[x].state \in PlacedStates
        /\ StoreInv'
    BY <1>1, AdvanceFields
  <1> QED BY <1>2, LedgerInvSameHolders DEF SameNeeds

LEMMA LedgerInvInductive ==
    /\ StoreInit => LedgerInv
    /\ LedgerInv /\ [AtomicNext]_storeVars => LedgerInv'
  <1>1. StoreInit => LedgerInv
    BY DEF StoreInit, LedgerInv, StoreInv, TypeOK, StoredRecordsValid,
           NoOvercommit, ActiveCountExact, AssignmentsSound
  <1>2. ASSUME LedgerInv, Place PROVE LedgerInv'
    BY <1>2, LedgerInvCommit DEF Place
  <1>3. ASSUME LedgerInv, Release PROVE LedgerInv'
    BY <1>3, LedgerInvRelease DEF Release
  <1>4. ASSUME LedgerInv, AtomicWrite PROVE LedgerInv'
    BY <1>4, LedgerInvRegister, LedgerInvRefresh, LedgerInvCreate,
       LedgerInvAdvance
    DEF AtomicWrite
  <1>5. ASSUME LedgerInv, UNCHANGED storeVars PROVE LedgerInv'
    BY <1>5
    DEF LedgerInv, StoreInv, TypeOK, StoredRecordsValid, NoOvercommit,
        ActiveCountExact, AssignmentsSound, Holders, HeldMemory, storeVars
  <1> QED BY <1>1, <1>2, <1>3, <1>4, <1>5 DEF AtomicNext

(***************************************************************************)
(* While clients keep the contract, what CommitPlacement takes and         *)
(* ReleasePlacement returns keeps the books straight: no worker is         *)
(* overcommitted, its workload count is exact, every assignment is sound.  *)
(***************************************************************************)
THEOREM BooksStraight ==
    AtomicSpec => [](NoOvercommit /\ ActiveCountExact /\ AssignmentsSound)
  <1>1. LedgerInv => NoOvercommit /\ ActiveCountExact /\ AssignmentsSound
    BY DEF LedgerInv
  <1> QED BY <1>1, LedgerInvInductive, PTL DEF AtomicSpec

LEMMA PlacementKept ==
    ASSUME StoreInv, [AtomicNext]_storeVars, NEW x \in DOMAIN workloads,
           workloads[x].state \in PlacedStates,
           workloads'[x].state \in PlacedStates
    PROVE  /\ workloads'[x].assigned = workloads[x].assigned
           /\ workloads'[x].required = workloads[x].required
  <1>1. CASE Place
    <2>1. PICK y \in Workloads, w \in Workers : CommitPlacement(y, w)
      BY <1>1 DEF Place
    <2>2. x # y
      BY <2>1 DEF CommitPlacement, CommitAllowed, SchedulableStates, PlacedStates
    <2> QED BY <2>1, <2>2, CommitFields
  <1>2. CASE Release
    <2>1. PICK y \in Workloads, next \in ReleaseTargets : ReleasePlacement(y, next)
      BY <1>2 DEF Release
    <2>2. workloads'[y].state \notin PlacedStates
      BY <2>1, ReleaseFields DEF ReleaseTargets, PlacedStates
    <2> QED BY <2>1, <2>2, ReleaseFields
  <1>3. CASE AtomicWrite
    <2>1. CASE \E w \in Workers : RegisterIdleWorker(w) \/ RefreshWorker(w)
      BY <2>1, RefreshFields DEF RegisterIdleWorker, RegisterWorker
    <2>2. CASE \E y \in Workloads : CreateUnplaced(y)
      BY <2>2, CreateFields
    <2>3. CASE \E y \in Workloads : AdvanceWorkload(y)
      BY <2>3, AdvanceFields DEF SameNeeds
    <2> QED BY <1>3, <2>1, <2>2, <2>3 DEF AtomicWrite
  <1>4. CASE UNCHANGED storeVars
    BY <1>4 DEF storeVars
  <1> QED BY <1>1, <1>2, <1>3, <1>4 DEF AtomicNext

(***************************************************************************)
(* A placed workload stays where it is, with the memory it has, until it   *)
(* is released: no second commit, no client's update of its record moves   *)
(* it.                                                                     *)
(***************************************************************************)
THEOREM PlacementsFinal == AtomicSpec => PlacementIsFinal
  <1>1. LedgerInv /\ [AtomicNext]_storeVars =>
          [\A x \in DOMAIN workloads :
             /\ workloads[x].state \in PlacedStates
             /\ workloads'[x].state \in PlacedStates
             => /\ workloads'[x].assigned = workloads[x].assigned
                /\ workloads'[x].required = workloads[x].required]_storeVars
    BY PlacementKept DEF LedgerInv
  <1> QED
    BY <1>1, LedgerInvInductive, PTL DEF AtomicSpec, PlacementIsFinal

-----------------------------------------------------------------------------
(***************************************************************************)
(* The store implements the ledger.                                        *)
(***************************************************************************)
\* What the calls of the store do to the state of the ledger.
LEMMA CommitMoves ==
    ASSUME StoreInv, NEW x \in Workloads, NEW w \in Workers, CommitPlacement(x, w)
    PROVE  LET r == workloads[x].required
           IN  /\ w \in DOMAIN Free /\ r \in 1 .. Free[w]
               /\ Free' = [Free EXCEPT ![w] = Free[w] - r]
               /\ Capacity' = Capacity
               /\ x \notin Placed /\ Placed' = Placed \cup {x}
               /\ GrantOf(x)' = [job |-> x, worker |-> w, size |-> r]
               /\ \A y \in Placed : GrantOf(y)' = GrantOf(y)
  <1> DEFINE r == workloads[x].required
  <1>1. /\ x \in DOMAIN workloads /\ w \in DOMAIN workers
        /\ DOMAIN workloads' = DOMAIN workloads
        /\ DOMAIN workers' = DOMAIN workers
        /\ \A v \in DOMAIN workers : v # w => workers'[v] = workers[v]
        /\ \A y \in DOMAIN workloads : y # x => workloads'[y] = workloads[y]
        /\ SamePlace(workers[w], workers'[w])
        /\ workers'[w].avail = workers[w].avail - r
        /\ SameNeeds(workloads[x], workloads'[x])
        /\ workloads'[x].assigned = w /\ workloads'[x].state = "PLACED"
    BY CommitFields
  <1>2. workloads[x].state \notin PlacedStates /\ workers[w].avail >= r
    BY DEF CommitPlacement, CommitAllowed, SchedulableStates, PlacedStates
  <1>3. /\ r \in Nat /\ r > 0 /\ workers[w].avail \in Nat
    BY <1>1, PlacedAlways, WorkerNumbers
  <1>4. r \in 1 .. Free[w] /\ w \in DOMAIN Free
    BY <1>1, <1>2, <1>3 DEF Free
  <1>5. Free' = [Free EXCEPT ![w] = Free[w] - r]
    BY <1>1 DEF Free
  <1>6. Capacity' = Capacity
    BY <1>1 DEF Capacity, SamePlace
  <1>7. x \notin Placed /\ Placed' = Placed \cup {x}
    BY <1>1, <1>2 DEF Placed, PlacedStates
  <1>8. \A y \in Placed : GrantOf(y)' = GrantOf(y)
    BY <1>1, <1>2 DEF Placed, GrantOf
  <1>9. GrantOf(x)' = [job |-> x, worker |-> w, size |-> r]
    BY <1>1 DEF GrantOf, SameNeeds
  <1> QED BY <1>4, <1>5, <1>6, <1>7, <1>8, <1>9

LEMMA ReleaseMoves ==
    ASSUME StoreInv, NEW x \in Workloads, NEW next \in ReleaseTargets,
           ReleasePlacement(x, next),
           LET w == workloads[x].assigned
           IN  workers'[w].avail = workers[w].avail + workloads[x].required
    PROVE  LET w == workloads[x].assigned
           IN  /\ Free' = [Free EXCEPT ![w] = Free[w] + workloads[x].required]
               /\ Capacity' = Capacity
               /\ x \in Placed /\ Placed' = Placed \ {x}
               /\ \A y \in Placed : y # x => GrantOf(y)' = GrantOf(y)
  <1>1. PICK w, r : w = workloads[x].assigned /\ r = workloads[x].required
    OBVIOUS
  <1>2. /\ x \in DOMAIN workloads /\ w \in DOMAIN workers
        /\ workloads[x].state \in PlacedStates
        /\ DOMAIN workloads' = DOMAIN workloads
        /\ DOMAIN workers' = DOMAIN workers
        /\ \A v \in DOMAIN workers : v # w => workers'[v] = workers[v]
        /\ \A y \in DOMAIN workloads : y # x => workloads'[y] = workloads[y]
        /\ SamePlace(workers[w], workers'[w])
        /\ workloads'[x].state = next
    BY <1>1, ReleaseFields
  <1>3. workers'[w].avail = workers[w].avail + r BY <1>1
  <1>4. Free' = [Free EXCEPT ![w] = Free[w] + r] BY <1>2, <1>3 DEF Free
  <1>5. Capacity' = Capacity BY <1>2 DEF Capacity, SamePlace
  <1>6. x \in Placed /\ Placed' = Placed \ {x}
    BY <1>2 DEF Placed, PlacedStates, ReleaseTargets
  <1>7. \A y \in Placed : y # x => GrantOf(y)' = GrantOf(y)
    BY <1>2 DEF Placed, GrantOf
  <1> QED BY <1>1, <1>4, <1>5, <1>6, <1>7

LEMMA RegisterMoves ==
    ASSUME StoreInv, NEW w \in Workers, RegisterIdleWorker(w)
    PROVE  /\ w \notin DOMAIN Capacity /\ workloads' = workloads
           /\ \E c \in {record.total : record \in WorkerRecords} : \E f \in 0 .. c :
                 Capacity' = Put(Capacity, w, c) /\ Free' = Put(Free, w, f)
  <1>1. /\ w \notin DOMAIN workers
        /\ workloads' = workloads
        /\ DOMAIN workers' = DOMAIN workers \cup {w}
        /\ \A v \in DOMAIN workers : workers'[v] = workers[v]
        /\ workers'[w] \in WorkerType /\ ValidateWorker(workers'[w])
        /\ workers'[w].total \in {record.total : record \in WorkerRecords}
    BY RegisterFields
  <1>2. PICK c \in {record.total : record \in WorkerRecords} :
            c = workers'[w].total
    BY <1>1
  <1>3. PICK f \in 0 .. c : f = workers'[w].avail
    BY <1>1, <1>2 DEF WorkerType, ValidateWorker
  <1>4. Capacity' = Put(Capacity, w, c) BY <1>1, <1>2 DEF Capacity, Put
  <1>5. Free' = Put(Free, w, f) BY <1>1, <1>3 DEF Free, Put
  <1>6. w \notin DOMAIN Capacity BY <1>1 DEF Capacity
  <1> QED BY <1>1, <1>2, <1>3, <1>4, <1>5, <1>6

LEMMA CommitGrants ==
    ASSUME LedgerInv, NEW x \in Workloads, NEW w \in Workers,
           CommitPlacement(x, w)
    PROVE  Ledger!Grant(x, w)
  <1>1. PICK r :
            /\ w \in DOMAIN Free /\ r \in 1 .. Free[w]
            /\ Free' = [Free EXCEPT ![w] = Free[w] - r]
            /\ Capacity' = Capacity
            /\ x \notin Placed /\ Placed' = Placed \cup {x}
            /\ GrantOf(x)' = [job |-> x, worker |-> w, size |-> r]
            /\ \A y \in Placed : GrantOf(y)' = GrantOf(y)
    BY CommitMoves DEF LedgerInv
  <1>2. \A g \in Given : g.job # x BY <1>1 DEF Given, GrantOf
  <1>3. Given' = Given \cup {[job |-> x, worker |-> w, size |-> r]}
    BY <1>1 DEF Given
  <1> QED BY <1>1, <1>2, <1>3 DEF Ledger!Grant

LEMMA ReleaseReturns ==
    ASSUME LedgerInv, NEW x \in Workloads, NEW next \in ReleaseTargets,
           ReleasePlacement(x, next)
    PROVE  \E g \in Given : Ledger!Return(g)
  <1>1. PICK g : g = GrantOf(x) OBVIOUS
  <1>2. g.worker = workloads[x].assigned /\ g.size = workloads[x].required
    BY <1>1 DEF GrantOf
  <1>3. workers'[g.worker].avail = workers[g.worker].avail + g.size
    <2>1. PICK w \in Workers : w = workloads[x].assigned
      BY ReleaseFields DEF LedgerInv, StoreInv, TypeOK
    <2> QED BY <1>2, <2>1, LedgerInvRelease
  <1>4. /\ Free' = [Free EXCEPT ![g.worker] = Free[g.worker] + g.size]
        /\ Capacity' = Capacity
        /\ x \in Placed /\ Placed' = Placed \ {x}
        /\ \A y \in Placed : y # x => GrantOf(y)' = GrantOf(y)
    BY <1>2, <1>3, ReleaseMoves DEF LedgerInv
  <1>5. g \in Given BY <1>1, <1>4 DEF Given
  <1>6. Given' = Given \ {g}
    <2>1. \A y \in Placed : y # x => GrantOf(y) # g BY <1>1 DEF GrantOf
    <2> QED BY <1>1, <1>4, <2>1 DEF Given
  <1>7. Ledger!Return(g) BY <1>4, <1>6 DEF Ledger!Return
  <1> QED BY <1>5, <1>7

LEMMA RegisterJoins ==
    ASSUME LedgerInv, NEW w \in Workers, RegisterIdleWorker(w)
    PROVE  Ledger!Join(w)
  <1>1. /\ w \notin DOMAIN Capacity /\ workloads' = workloads
        /\ \E c \in {record.total : record \in WorkerRecords} : \E f \in 0 .. c :
              Capacity' = Put(Capacity, w, c) /\ Free' = Put(Free, w, f)
    BY RegisterMoves DEF LedgerInv
  <1>2. Given' = Given BY <1>1 DEF Given, GrantOf, Placed
  <1> QED BY <1>1, <1>2 DEF Ledger!Join, Ledger!Add, Put

LEMMA RefreshWithdraws ==
    ASSUME LedgerInv, NEW w \in Workers, RefreshWorker(w)
    PROVE  Ledger!Withdraw(w)
  <1>1. /\ w \in DOMAIN workers
        /\ workloads' = workloads
        /\ DOMAIN workers' = DOMAIN workers
        /\ \A v \in DOMAIN workers : v # w => workers'[v] = workers[v]
        /\ SamePlace(workers[w], workers'[w])
        /\ workers'[w].avail \in 0 .. workers[w].avail
    BY RefreshFields DEF LedgerInv
  <1>2. PICK f \in 0 .. Free[w] : f = workers'[w].avail
    BY <1>1 DEF Free
  <1>3. Free' = [Free EXCEPT ![w] = f] BY <1>1, <1>2 DEF Free
  <1>4. Capacity' = Capacity BY <1>1 DEF Capacity, SamePlace
  <1>5. Given' = Given BY <1>1 DEF Given, GrantOf, Placed
  <1>6. w \in DOMAIN Free BY <1>1 DEF Free
  <1> QED BY <1>2, <1>3, <1>4, <1>5, <1>6 DEF Ledger!Withdraw

LEMMA OthersStutter ==
    ASSUME LedgerInv, NEW x \in Workloads,
           CreateUnplaced(x) \/ AdvanceWorkload(x)
    PROVE  UNCHANGED Ledger!vars
  <1> USE DEF LedgerInv
  <1>1. workers' = workers BY CreateFields, AdvanceFields
  <1>2. /\ \A y \in DOMAIN workloads :
              /\ y \in DOMAIN workloads'
              /\ workloads'[y].state \in PlacedStates
                    <=> workloads[y].state \in PlacedStates
              /\ workloads'[y].assigned = workloads[y].assigned
              /\ workloads'[y].required = workloads[y].required
        /\ \A y \in DOMAIN workloads' \ DOMAIN workloads :
              workloads'[y].state \notin PlacedStates
    BY CreateFields, AdvanceFields DEF SameNeeds
  <1>3. Placed' = Placed BY <1>2 DEF Placed
  <1>4. \A y \in Placed : GrantOf(y)' = GrantOf(y)
    BY <1>2 DEF Placed, GrantOf
  <1>5. Given' = Given BY <1>3, <1>4 DEF Given
  <1> QED
    BY <1>1, <1>5 DEF Ledger!vars, Capacity, Free

(***************************************************************************)
(* Under the contract the store refines the reservation ledger: commits    *)
(* are grants, releases return exactly what was granted, nothing else      *)
(* creates capacity.                                                       *)
(***************************************************************************)
THEOREM StoreImplementsLedger == AtomicSpec => ImplementsLedger
  <1>1. StoreInit => Ledger!Init
    BY DEF StoreInit, Ledger!Init, Capacity, Free, Given, Placed
  <1>2. LedgerInv /\ [AtomicNext]_storeVars => [Ledger!Next]_(Ledger!vars)
    <2>1. ASSUME LedgerInv, Place PROVE Ledger!Next
      BY <2>1, CommitGrants DEF Place, Ledger!Next
    <2>2. ASSUME LedgerInv, Release PROVE Ledger!Next
      <3>1. \E g \in Given : Ledger!Return(g)
        BY <2>2, ReleaseReturns DEF Release
      <3> QED BY <3>1 DEF Ledger!Next
    <2>3. ASSUME LedgerInv, AtomicWrite
          PROVE  Ledger!Next \/ UNCHANGED Ledger!vars
      BY <2>3, RegisterJoins, RefreshWithdraws, OthersStutter
      DEF AtomicWrite, Ledger!Next
    <2>4. ASSUME UNCHANGED storeVars PROVE UNCHANGED Ledger!vars
      BY <2>4 DEF storeVars, Ledger!vars, Capacity, Free, Given, GrantOf, Placed
    <2> QED BY <2>1, <2>2, <2>3, <2>4 DEF AtomicNext
  <1> QED
    BY <1>1, <1>2, LedgerInvInductive, PTL
    DEF AtomicSpec, ImplementsLedger, Ledger!Spec
=============================================================================
