-------------------------- MODULE Scheduler_proofs --------------------------
(***************************************************************************)
(* Theorems about Scheduler, for any number of loops and callers.          *)
(***************************************************************************)
EXTENDS Scheduler, StateStore_proofs

LEMMA PlacerStepAtomic ==
    LedgerInv /\ PlacerNext => Place \/ UNCHANGED storeVars
  <1> SUFFICES ASSUME LedgerInv, NEW p \in Placers,
                      \/ StartPass(p)
                      \/ \E x \in Workloads : StartPlace(p, x)
                      \/ Proceed(p)
               PROVE  Place \/ UNCHANGED storeVars
    BY DEF PlacerNext
  <1>1. CASE StartPass(p) \/ \E x \in Workloads : StartPlace(p, x)
    BY <1>1 DEF StartPass, StartPlace
  <1>2. CASE \E x \in Workloads :
                Choose(p, x) \/ NoneEligible(p, x) \/ Refuse(p, x)
    BY <1>2 DEF Choose, NoneEligible, Refuse
  <1>3. CASE Conflict(p)
    BY <1>3 DEF Conflict
  <1>4. CASE Commit(p)
    <2> DEFINE x == placer[p].workload
               w == placer[p].worker
    <2>1. CommitPlacement(x, w) BY <1>4 DEF Commit
    <2>2. x \in Workloads /\ w \in Workers
      BY <2>1
      DEF CommitPlacement, CommitAllowed, LedgerInv, StoreInv, TypeOK
    <2> QED BY <2>1, <2>2 DEF Place
  <1> QED BY <1>1, <1>2, <1>3, <1>4 DEF Proceed

LEMMA SchedulerStepAtomic ==
    LedgerInv /\ [SchedulerNext]_schedulerVars => [AtomicNext]_storeVars
  BY PlacerStepAtomic
  DEF SchedulerNext, OtherClients, AtomicNext, schedulerVars, storeVars

LEMMA SchedulerLedgerInv == SchedulerSpec => []LedgerInv
  <1>1. SchedulerInit => LedgerInv
    BY LedgerInvInductive DEF SchedulerInit
  <1>2. LedgerInv /\ [SchedulerNext]_schedulerVars => LedgerInv'
    BY SchedulerStepAtomic, LedgerInvInductive
  <1> QED BY <1>1, <1>2, PTL DEF SchedulerSpec

(***************************************************************************)
(* Any number of racing loops and API callers (service.go, placement.go    *)
(* and its variants) use the store as its contract demands.                *)
(***************************************************************************)
THEOREM SchedulerKeepsContract == SchedulerSpec => KeepsContract
  <1>1. SchedulerInit => StoreInit BY DEF SchedulerInit
  <1> QED
    BY <1>1, SchedulerStepAtomic, SchedulerLedgerInv, PTL
    DEF SchedulerSpec, KeepsContract, AtomicSpec

(***************************************************************************)
(* Hence no interleaving of placers overcommits a worker, miscounts its    *)
(* workloads, or leaves an unsound assignment, ...                         *)
(***************************************************************************)
THEOREM PlacersKeepBooks ==
    SchedulerSpec => [](NoOvercommit /\ ActiveCountExact /\ AssignmentsSound)
  BY SchedulerKeepsContract, BooksStraight, PTL DEF KeepsContract

(***************************************************************************)
(* ... nor does one placer take a workload that another one has placed     *)
(* ("exactly one placement succeeds", README), ...                         *)
(***************************************************************************)
THEOREM PlacementsNotReplaced == SchedulerSpec => PlacementIsFinal
  BY SchedulerKeepsContract, PlacementsFinal, PTL DEF KeepsContract

(***************************************************************************)
(* ... and every placement is a grant of the ledger.                       *)
(***************************************************************************)
THEOREM PlacersImplementLedger == SchedulerSpec => ImplementsLedger
  BY SchedulerKeepsContract, StoreImplementsLedger, PTL DEF KeepsContract

LEMMA AtomicStepFit ==
    ASSUME LedgerInv, [AtomicNext]_storeVars, NEW x \in DOMAIN workloads,
           workloads[x].state \notin PlacedStates,
           workloads'[x].state \in PlacedStates
    PROVE  workloads'[x].assigned \in Eligible(x)
  <1> USE DEF LedgerInv
  <1>1. CASE Place
    <2>1. PICK y \in Workloads, w \in Workers : CommitPlacement(y, w)
      BY <1>1 DEF Place
    <2>2. /\ y \in DOMAIN workloads /\ w \in DOMAIN workers
          /\ \A z \in DOMAIN workloads : z # y => workloads'[z] = workloads[z]
          /\ workloads'[y].assigned = w
      BY <2>1, CommitFields
    <2>3. x = y BY <2>2
    <2>4. w \in Eligible(y)
      BY <2>1, <2>2 DEF CommitPlacement, CommitAllowed, Eligible
    <2> QED BY <2>2, <2>3, <2>4
  <1>2. CASE Release
    <2>1. PICK y \in Workloads, next \in ReleaseTargets : ReleasePlacement(y, next)
      BY <1>2 DEF Release
    <2>2. /\ \A z \in DOMAIN workloads : z # y => workloads'[z] = workloads[z]
          /\ workloads'[y].state = next
      BY <2>1, ReleaseFields
    <2> QED BY <2>2 DEF ReleaseTargets, PlacedStates
  <1>3. CASE AtomicWrite
    <2>1. CASE \E w \in Workers : RegisterIdleWorker(w) \/ RefreshWorker(w)
      BY <2>1, RegisterFields, RefreshFields
    <2>2. CASE \E y \in Workloads : CreateUnplaced(y)
      BY <2>2, CreateFields
    <2>3. CASE \E y \in Workloads : AdvanceWorkload(y)
      <3>1. PICK y \in Workloads : AdvanceWorkload(y) BY <2>3
      <3> QED BY <3>1, AdvanceFields
    <2> QED BY <1>3, <2>1, <2>2, <2>3 DEF AtomicWrite
  <1>4. CASE UNCHANGED storeVars
    BY <1>4 DEF storeVars
  <1> QED BY <1>1, <1>2, <1>3, <1>4 DEF AtomicNext

(***************************************************************************)
(* Commit-time revalidation: a workload is only ever put on a worker that  *)
(* is fit at that moment, whatever happened since it was chosen.           *)
(***************************************************************************)
THEOREM PlacementsRevalidated == SchedulerSpec => PlacedOnFitWorker
  <1>1. LedgerInv /\ [SchedulerNext]_schedulerVars =>
          [\A x \in DOMAIN workloads :
             /\ workloads[x].state \notin PlacedStates
             /\ workloads'[x].state \in PlacedStates
             => workloads'[x].assigned \in Eligible(x)]_schedulerVars
    BY SchedulerStepAtomic, AtomicStepFit
  <1> QED BY <1>1, SchedulerLedgerInv, PTL DEF SchedulerSpec, PlacedOnFitWorker

LEMMA PlacerTypeStep ==
    ASSUME TypeOK, placer \in [Placers -> PlacerType], PlacerNext
    PROVE  placer' \in [Placers -> PlacerType]
  <1>1. PICK p \in Placers :
            \/ StartPass(p)
            \/ \E x \in Workloads : StartPlace(p, x)
            \/ Proceed(p)
    BY DEF PlacerNext
  <1>2. placer[p] \in PlacerType OBVIOUS
  <1>3. Idle \in PlacerType BY DEF Idle, PlacerType, NoWorkload
  <1>4. Failed(p) \in PlacerType BY <1>3 DEF Failed, Idle, PlacerType
  <1>5. \A x : Done(p, x) \in PlacerType
    BY <1>2, <1>3 DEF Done, Idle, PlacerType
  <1>6. CASE StartPass(p)
    <2>1. [Idle EXCEPT !.at = "pass",
                       !.todo = {x \in Workloads : Schedulable(x)}] \in PlacerType
      BY <1>3 DEF Idle, PlacerType
    <2> QED BY <1>6, <2>1 DEF StartPass
  <1>7. CASE \E x \in Workloads : StartPlace(p, x)
    <2>1. \A x \in Workloads :
              [Idle EXCEPT !.at = "pass", !.todo = {x}] \in PlacerType
      BY <1>3 DEF Idle, PlacerType
    <2> QED BY <1>7, <2>1 DEF StartPlace
  <1>8. CASE \E x \in Workloads : Choose(p, x)
    <2>1. PICK x \in Workloads : Choose(p, x) BY <1>8
    <2>2. PICK w \in Eligible(x) :
              placer' = [placer EXCEPT ![p].at = "commit",
                                       ![p].workload = x, ![p].worker = w]
      BY <2>1 DEF Choose
    <2>3. w \in Workers BY DEF Eligible, TypeOK
    <2>4. [placer[p] EXCEPT !.at = "commit", !.workload = x, !.worker = w]
              \in PlacerType
      BY <1>2, <2>3 DEF PlacerType
    <2>5. placer' = [placer EXCEPT ![p] =
              [placer[p] EXCEPT !.at = "commit", !.workload = x, !.worker = w]]
      BY <2>2
    <2> QED BY <2>4, <2>5
  <1>9. CASE \E x \in Workloads : NoneEligible(p, x) \/ Refuse(p, x)
    BY <1>4, <1>5, <1>9 DEF NoneEligible, Refuse
  <1>10. CASE Commit(p) \/ Conflict(p)
    BY <1>4, <1>5, <1>10 DEF Commit, Conflict
  <1> QED BY <1>1, <1>6, <1>7, <1>8, <1>9, <1>10 DEF Proceed

(***************************************************************************)
(* Type correctness of the scheduler.                                      *)
(***************************************************************************)
THEOREM SchedulerTypes == SchedulerSpec => []SchedulerTypeOK
  <1> DEFINE PlacerOK == placer \in [Placers -> PlacerType]
  <1>1. SchedulerInit => PlacerOK
    <2>1. Idle \in PlacerType BY DEF Idle, PlacerType, NoWorkload
    <2> QED BY <2>1 DEF SchedulerInit
  <1>2. LedgerInv /\ PlacerOK /\ [SchedulerNext]_schedulerVars => PlacerOK'
    <2>1. LedgerInv => TypeOK BY DEF LedgerInv, StoreInv
    <2> QED
      BY <2>1, PlacerTypeStep DEF SchedulerNext, OtherClients, schedulerVars
  <1>3. LedgerInv /\ PlacerOK => SchedulerTypeOK
    BY DEF LedgerInv, StoreInv, SchedulerTypeOK
  <1> QED BY <1>1, <1>2, <1>3, SchedulerLedgerInv, PTL DEF SchedulerSpec
=============================================================================
