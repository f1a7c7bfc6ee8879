----------------------- MODULE QueuedScheduler_proofs -----------------------
(***************************************************************************)
(* Theorems about WorkloadQueue and QueuedScheduler: aging bounds          *)
(* overtaking for all priorities, arrivals and intervals, and what is      *)
(* proved of Scheduler holds in the order of the queue.                    *)
(***************************************************************************)
EXTENDS QueuedScheduler, Scheduler_proofs

\* Each further interval of waiting is one more unit of weight.
LEMMA BoostOfIntervals ==
    ASSUME NEW i \in Nat \ {0}, NEW a \in Nat, NEW b \in Nat, NEW k \in Int,
           b + i * k <= a
    PROVE  (b \div i) + k <= a \div i
  <1> DEFINE qa == a \div i
             qb == b \div i
  <1>1. qa \in Int /\ qb \in Int
    OBVIOUS
  <1>2. i * qb <= b /\ a < i * qa + i
    OBVIOUS
  <1> HIDE DEF qa, qb
  <1>3. i * (qb + k) < i * (qa + 1)
    BY <1>1, <1>2
  <1>4. qb + k < qa + 1
    BY <1>1, <1>3
  <1> QED BY <1>1, <1>4 DEF qa, qb

\* A workload that has waited longer, classes reckoned in intervals, is put
\* before the other one by the order of the list.
LEMMA LongerWaitGoesFirst ==
    ASSUME NEW x \in Workloads, NEW y \in Workloads, NEW t \in Nat,
           WaitedLonger(y, x, t)
    PROVE  Before(y, x, t)
  <1> DEFINE px == PriorityWeight[Priority[x]]
             py == PriorityWeight[Priority[y]]
             wait(z) == t - ArrivalTime[z]
  <1>1. /\ ArrivalTime[x] \in Nat /\ ArrivalTime[y] \in Nat
        /\ AgingInterval \in Nat \ {0}
    BY QueueAssumption, TimesAssumption
  <1>2. px \in Int /\ py \in Int
    BY QueueAssumption, TimesAssumption DEF PriorityWeight, Priorities
  <1>3. /\ 0 < ArrivalTime[y] /\ ArrivalTime[y] < ArrivalTime[x]
        /\ ArrivalTime[x] <= t
        /\ ArrivalTime[y] + AgingInterval * (px - py) <= ArrivalTime[x]
    BY DEF WaitedLonger
  <1> HIDE DEF px, py
  <1>4. wait(x) \in Nat /\ wait(y) \in Nat
    BY <1>1, <1>3
  <1>5. wait(x) + AgingInterval * (px - py) <= wait(y)
    <2>1. AgingInterval * (px - py) \in Int BY <1>1, <1>2
    <2> QED BY <1>1, <1>3, <2>1
  <1> HIDE DEF wait
  <1>6. (wait(x) \div AgingInterval) + (px - py) <= wait(y) \div AgingInterval
    BY <1>1, <1>2, <1>4, <1>5, BoostOfIntervals
  <1>7. EffectivePriorityWeight(y, t) = py + (wait(y) \div AgingInterval)
    BY <1>1, <1>3 DEF EffectivePriorityWeight, py, wait
  <1>8. EffectivePriorityWeight(x, t) = px + (wait(x) \div AgingInterval)
    <2>1. CASE t = ArrivalTime[x]
      <3>1. wait(x) = 0 BY <1>1, <2>1 DEF wait
      <3>2. wait(x) \div AgingInterval = 0 BY <1>1, <3>1
      <3> QED BY <1>2, <2>1, <3>2 DEF EffectivePriorityWeight, px
    <2>2. CASE ArrivalTime[x] < t
      BY <1>1, <1>3, <2>2 DEF EffectivePriorityWeight, px, wait
    <2> QED BY <1>1, <1>3, <2>1, <2>2
  <1>9. /\ wait(x) \div AgingInterval \in Int
        /\ wait(y) \div AgingInterval \in Int
    BY <1>1, <1>4
  <1> QED BY <1>1, <1>2, <1>3, <1>6, <1>7, <1>8, <1>9 DEF Before

-----------------------------------------------------------------------------
\* A placer that is idle has no list, and the workload it commits is the
\* first of its list.
KeepsOrder(p) ==
    /\ listed[p] \in Nat
    /\ placer[p].at = "idle" => placer[p].todo = {}
    /\ placer[p].at = "commit" =>
          placer[p].workload \in First(placer[p].todo, listed[p])

QueuedInv ==
    /\ LedgerInv
    /\ placer \in [Placers -> PlacerType]
    /\ listed \in [Placers -> Nat]
    /\ \A p \in Placers : KeepsOrder(p)

LEMMA QueuedStepSimulates ==
    QueuedInv /\ [QueuedNext]_queuedVars => [SchedulerNext]_schedulerVars
  <1>1. ASSUME QueuedInv, NEW p \in Placers, QueuedProceed(p) PROVE PlacerNext
    <2>1. CASE Commit(p) \/ Conflict(p)
      BY <2>1 DEF PlacerNext, Proceed
    <2>2. CASE TryNext(p)
      <3>1. PICK x \in First(placer[p].todo, listed[p]) :
                Choose(p, x) \/ NoneEligible(p, x) \/ Refuse(p, x)
        BY <2>2 DEF TryNext
      <3>2. placer[p] \in PlacerType BY <1>1 DEF QueuedInv
      <3>3. x \in Workloads BY <3>2 DEF First, PlacerType
      <3> QED BY <3>1, <3>3 DEF PlacerNext, Proceed
    <2> QED BY <1>1, <2>1, <2>2 DEF QueuedProceed
  <1> QED
    BY <1>1
    DEF QueuedNext, ListPending, SchedulerNext, PlacerNext, queuedVars,
        schedulerVars

\* What a step does to the order of placer q: nothing, or q's list starts or
\* ends, or q is done with the first of its list.
ListStep(q) ==
    \/ placer'[q].todo = placer[q].todo
    \/ placer[q].todo = {}
    \/ placer'[q].todo = {}
    \/ \E x \in First(placer[q].todo, listed[q]) :
          placer'[q].todo = placer[q].todo \ {x}

\* The four ways a placer that proceeds changes its own record.
LEMMA ProceedFields ==
    ASSUME QueuedInv, NEW p \in Placers, QueuedProceed(p)
    PROVE  \/ \E x \in First(placer[p].todo, listed[p]), w \in Workers :
                 /\ placer' = [placer EXCEPT ![p] =
                       [placer[p] EXCEPT !.at = "commit", !.workload = x,
                                         !.worker = w]]
                 /\ listed' = listed
           \/ \E x \in First(placer[p].todo, listed[p]) :
                 placer' = [placer EXCEPT ![p] = Done(p, x)]
           \/ placer' = [placer EXCEPT ![p] = Failed(p)]
  <1>1. placer[p] \in PlacerType /\ KeepsOrder(p) /\ TypeOK
    BY DEF QueuedInv, LedgerInv, StoreInv
  <1>2. CASE Commit(p)
    <2>1. placer[p].workload \in First(placer[p].todo, listed[p])
      BY <1>1, <1>2 DEF Commit, KeepsOrder
    <2> QED BY <1>2, <2>1 DEF Commit
  <1>3. CASE Conflict(p)
    BY <1>3 DEF Conflict
  <1>4. CASE TryNext(p)
    <2>1. PICK x \in First(placer[p].todo, listed[p]) :
              Choose(p, x) \/ NoneEligible(p, x) \/ Refuse(p, x)
      BY <1>4 DEF TryNext
    <2>2. CASE Choose(p, x)
      <3>1. PICK w \in Eligible(x) :
                placer' = [placer EXCEPT ![p].at = "commit",
                                         ![p].workload = x, ![p].worker = w]
        BY <2>2 DEF Choose
      <3>2. w \in Workers BY <1>1 DEF Eligible, TypeOK
      <3>3. placer' = [placer EXCEPT ![p] =
              [placer[p] EXCEPT !.at = "commit", !.workload = x, !.worker = w]]
        BY <3>1
      <3>4. placer'[p].todo = placer[p].todo /\ x \in placer[p].todo
        <4>1. placer \in [Placers -> PlacerType] BY DEF QueuedInv
        <4>2. placer'[p] = [placer[p] EXCEPT !.at = "commit", !.workload = x,
                                             !.worker = w]
          BY <3>3, <4>1
        <4> QED BY <1>1, <4>2 DEF PlacerType, First
      <3>5. listed' = listed BY <3>4 DEF QueuedProceed
      <3> QED BY <3>2, <3>3, <3>5
    <2>3. CASE NoneEligible(p, x)
      BY <2>3 DEF NoneEligible
    <2>4. CASE Refuse(p, x)
      BY <2>4 DEF Refuse
    <2> QED BY <2>1, <2>2, <2>3, <2>4
  <1> QED BY <1>2, <1>3, <1>4 DEF QueuedProceed

\* A placer's record once it is done with a workload, or has failed.
LEMMA RestFields ==
    ASSUME NEW p \in Placers, NEW x
    PROVE  /\ Done(p, x).at # "commit" /\ Failed(p).at # "commit"
           /\ Done(p, x).todo = placer[p].todo \ {x}
           /\ Failed(p).todo = {}
           /\ Done(p, x).at = "idle" => Done(p, x).todo = {}
  BY DEF Done, Failed, Idle

LEMMA QueuedStepOrder ==
    ASSUME QueuedInv, QueuedNext
    PROVE  /\ listed' \in [Placers -> Nat]
           /\ \A q \in Placers : KeepsOrder(q)' /\ ListStep(q)
  <1> USE DEF QueuedInv
  <1>0. placer \in [Placers -> PlacerType] /\ listed \in [Placers -> Nat]
    OBVIOUS
  <1>1. ASSUME NEW p \in Placers, ListPending(p)
        PROVE  /\ listed' \in [Placers -> Nat]
               /\ \A q \in Placers : KeepsOrder(q)' /\ ListStep(q)
    <2>1. PICK t \in Times : listed' = [listed EXCEPT ![p] = t]
      BY <1>1 DEF ListPending
    <2>2. t \in Nat BY TimesAssumption
    <2>3. /\ placer[p].at = "idle"
          /\ placer' = [placer EXCEPT ![p] =
                [Idle EXCEPT !.at = "pass",
                             !.todo = {x \in Workloads : Schedulable(x)}]]
      BY <1>1 DEF ListPending, StartPass
    <2>4. placer[p].todo = {} BY <2>3 DEF KeepsOrder
    <2>5. placer'[p].at = "pass" BY <1>0, <2>3 DEF Idle
    <2>6. \A q \in Placers : q # p =>
              placer'[q] = placer[q] /\ listed'[q] = listed[q]
      BY <1>0, <2>1, <2>3
    <2>7. listed' \in [Placers -> Nat] BY <1>0, <2>1, <2>2
    <2> QED BY <2>4, <2>5, <2>6, <2>7 DEF KeepsOrder, ListStep
  <1>2. ASSUME NEW p \in Placers, NEW x \in Workloads, StartPlace(p, x),
               UNCHANGED listed
        PROVE  \A q \in Placers : KeepsOrder(q)' /\ ListStep(q)
    <2>1. /\ placer[p].at = "idle"
          /\ placer' = [placer EXCEPT ![p] =
                           [Idle EXCEPT !.at = "pass", !.todo = {x}]]
      BY <1>2 DEF StartPlace
    <2>2. placer[p].todo = {} BY <2>1 DEF KeepsOrder
    <2>3. placer'[p].at = "pass" BY <1>0, <2>1 DEF Idle
    <2>4. \A q \in Placers : q # p => placer'[q] = placer[q]
      BY <1>0, <2>1
    <2> QED BY <1>0, <1>2, <2>2, <2>3, <2>4 DEF KeepsOrder, ListStep
  <1>3. ASSUME NEW p \in Placers, QueuedProceed(p)
        PROVE  /\ listed' \in [Placers -> Nat]
               /\ \A q \in Placers : KeepsOrder(q)' /\ ListStep(q)
    <2>1. listed' \in [Placers -> Nat] /\ \A q \in Placers : q # p => listed'[q] = listed[q]
      BY <1>0, <1>3 DEF QueuedProceed
    <2>2. SUFFICES /\ \A q \in Placers : q # p => placer'[q] = placer[q]
                   /\ KeepsOrder(p)' /\ ListStep(p)
      BY <2>1 DEF KeepsOrder, ListStep
    <2>3. CASE \E x \in First(placer[p].todo, listed[p]), w \in Workers :
                 /\ placer' = [placer EXCEPT ![p] =
                       [placer[p] EXCEPT !.at = "commit", !.workload = x,
                                         !.worker = w]]
                 /\ listed' = listed
      <3>1. PICK x \in First(placer[p].todo, listed[p]), w \in Workers :
                 /\ placer' = [placer EXCEPT ![p] =
                       [placer[p] EXCEPT !.at = "commit", !.workload = x,
                                         !.worker = w]]
                 /\ listed' = listed
        BY <2>3
      <3>2. /\ placer'[p] = [placer[p] EXCEPT !.at = "commit", !.workload = x,
                                              !.worker = w]
            /\ \A q \in Placers : q # p => placer'[q] = placer[q]
        BY <1>0, <3>1
      <3>3. placer[p] \in PlacerType BY <1>0
      <3>4. /\ placer'[p].at = "commit" /\ placer'[p].workload = x
            /\ placer'[p].todo = placer[p].todo
        BY <3>2, <3>3 DEF PlacerType
      <3>5. listed'[p] = listed[p] /\ listed[p] \in Nat BY <1>0, <3>1
      <3> QED BY <3>2, <3>4, <3>5 DEF KeepsOrder, ListStep
    <2>4. CASE \E x \in First(placer[p].todo, listed[p]) :
                 placer' = [placer EXCEPT ![p] = Done(p, x)]
      <3>1. PICK x \in First(placer[p].todo, listed[p]) :
                 placer' = [placer EXCEPT ![p] = Done(p, x)]
        BY <2>4
      <3>2. /\ placer'[p] = Done(p, x)
            /\ \A q \in Placers : q # p => placer'[q] = placer[q]
        BY <1>0, <3>1
      <3> QED BY <2>1, <3>2, RestFields DEF KeepsOrder, ListStep
    <2>5. CASE placer' = [placer EXCEPT ![p] = Failed(p)]
      <3>1. /\ placer'[p] = Failed(p)
            /\ \A q \in Placers : q # p => placer'[q] = placer[q]
        BY <1>0, <2>5
      <3> QED BY <2>1, <3>1, RestFields DEF KeepsOrder, ListStep
    <2> QED BY <1>3, <2>3, <2>4, <2>5, ProceedFields
  <1>4. ASSUME OtherClients, UNCHANGED listed
        PROVE  \A q \in Placers : KeepsOrder(q)' /\ ListStep(q)
    BY <1>0, <1>4 DEF OtherClients, KeepsOrder, ListStep
  <1> QED BY <1>0, <1>1, <1>2, <1>3, <1>4 DEF QueuedNext

LEMMA QueuedInvInductive ==
    /\ QueuedInit => QueuedInv
    /\ QueuedInv /\ [QueuedNext]_queuedVars => QueuedInv'
  <1>1. QueuedInit => QueuedInv
    <2>1. Idle \in PlacerType BY DEF Idle, PlacerType, NoWorkload
    <2>2. Idle.at = "idle" /\ Idle.todo = {} BY DEF Idle
    <2> QED
      BY <2>1, <2>2, LedgerInvInductive
      DEF QueuedInit, SchedulerInit, QueuedInv, KeepsOrder
  <1>2. ASSUME QueuedInv, [QueuedNext]_queuedVars PROVE QueuedInv'
    <2>1. [SchedulerNext]_schedulerVars BY <1>2, QueuedStepSimulates
    <2>2. LedgerInv'
      BY <1>2, <2>1, SchedulerStepAtomic, LedgerInvInductive DEF QueuedInv
    <2>3. TypeOK BY <1>2 DEF QueuedInv, LedgerInv, StoreInv
    <2>4. placer' \in [Placers -> PlacerType]
      BY <1>2, <2>1, <2>3, PlacerTypeStep
      DEF QueuedInv, SchedulerNext, OtherClients, schedulerVars
    <2>5. /\ listed' \in [Placers -> Nat]
          /\ \A p \in Placers : KeepsOrder(p)'
      <3>1. CASE QueuedNext BY <1>2, <3>1, QueuedStepOrder
      <3>2. CASE UNCHANGED queuedVars
        BY <1>2, <3>2 DEF QueuedInv, queuedVars, KeepsOrder
      <3> QED BY <1>2, <3>1, <3>2
    <2> QED BY <2>2, <2>4, <2>5 DEF QueuedInv
  <1> QED BY <1>1, <1>2

(***************************************************************************)
(* The scheduler in the order of its queue is the scheduler in any order:  *)
(* all theorems of Scheduler_proofs hold of it.                            *)
(***************************************************************************)
THEOREM QueuedImplementsScheduler == QueuedSpec => SchedulerSpec
  <1>1. QueuedInit => SchedulerInit BY DEF QueuedInit
  <1> QED
    BY <1>1, QueuedStepSimulates, QueuedInvInductive, PTL
    DEF QueuedSpec, SchedulerSpec

(***************************************************************************)
(* Aging bounds overtaking, for all priorities, arrivals and intervals: a  *)
(* workload that has waited an interval longer per class is never left     *)
(* behind in a pass.                                                       *)
(***************************************************************************)
THEOREM AgingBoundsOvertaking == QueuedSpec => OvertakingBounded
  <1> DEFINE Bounded ==
        \A p \in Placers :
          \A x \in placer[p].todo \ placer'[p].todo, y \in placer'[p].todo :
             ~ WaitedLonger(y, x, listed[p])
  <1>1. QueuedInv /\ [QueuedNext]_queuedVars => [Bounded]_queuedVars
    <2> SUFFICES ASSUME QueuedInv, QueuedNext, NEW p \in Placers,
                        NEW x \in placer[p].todo \ placer'[p].todo,
                        NEW y \in placer'[p].todo
                 PROVE  ~ WaitedLonger(y, x, listed[p])
      OBVIOUS
    <2>1. ListStep(p) /\ KeepsOrder(p) BY QueuedStepOrder DEF QueuedInv
    <2>2. x \in First(placer[p].todo, listed[p]) /\ y \in placer[p].todo
      BY <2>1 DEF ListStep
    <2>3. ~ Before(y, x, listed[p]) BY <2>2 DEF First
    <2>4. listed[p] \in Nat BY <2>1 DEF KeepsOrder
    <2>5. placer[p] \in PlacerType BY DEF QueuedInv
    <2>6. x \in Workloads /\ y \in Workloads
      BY <2>2, <2>5 DEF PlacerType
    <2> QED BY <2>3, <2>4, <2>6, LongerWaitGoesFirst
  <1> QED
    BY <1>1, QueuedInvInductive, PTL DEF QueuedSpec, OvertakingBounded
=============================================================================
