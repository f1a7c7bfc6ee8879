--------------------------- MODULE WorkloadQueue ----------------------------
(***************************************************************************)
(* internal/scheduler/queue.go: the order in which a scheduling pass tries *)
(* the pending workloads.  A workload's weight is that of its priority,    *)
(* plus one for each full aging interval it has waited.                    *)
(***************************************************************************)
EXTENDS Integers

CONSTANTS
    Priority,       \* of each workload
    ArrivalTime,    \* of each workload, 0 for Go's zero time
    AgingInterval   \* workloadAgingInterval, 5 minutes

Priorities == {"critical", "standard", "batch"}

\* ValidateWorkload admits the three priorities and any arrival time.
ASSUME QueueAssumption ==
    /\ Priority \in [DOMAIN Priority -> Priorities]
    /\ ArrivalTime \in [DOMAIN Priority -> Nat]
    /\ AgingInterval \in Nat \ {0}

PriorityWeight ==
    [critical |-> 3, standard |-> 2, batch |-> 1]

\* Mutated form of EffectivePriorityWeight: waiting counts for nothing, as in
\* OrderWorkloads.
EffectivePriorityWeightUnaged(x, t) == PriorityWeight[Priority[x]]

\* At time t.  A workload without arrival time, or with one to come, does not
\* age.
EffectivePriorityWeight(x, t) ==
    PriorityWeight[Priority[x]] +
        IF ArrivalTime[x] = 0 \/ t <= ArrivalTime[x] THEN 0
        ELSE (t - ArrivalTime[x]) \div AgingInterval

\* OrderWorkloadsWithAging puts x before y.  Workloads of equal weight and
\* arrival stay in the order of the listing, which is that of a Go map.
Before(x, y, t) ==
    LET wx == EffectivePriorityWeight(x, t)
        wy == EffectivePriorityWeight(y, t)
    IN  wx > wy \/ (wx = wy /\ ArrivalTime[x] < ArrivalTime[y])

\* What the first workload of the ordered list may be.
First(list, t) == {x \in list : \A y \in list : ~ Before(y, x, t)}

\* y has the right to go before x at time t: it arrived first, and it has
\* waited an interval longer for each class that x is above it.
WaitedLonger(y, x, t) ==
    /\ ArrivalTime[y] > 0 /\ ArrivalTime[x] <= t
    /\ ArrivalTime[y] < ArrivalTime[x]
    /\ ArrivalTime[y] + AgingInterval *
          (PriorityWeight[Priority[x]] - PriorityWeight[Priority[y]])
       <= ArrivalTime[x]
=============================================================================
