-------------------------- MODULE QueuedScheduler ---------------------------
(***************************************************************************)
(* Scheduler with the order of SchedulePending: the workloads of a pass    *)
(* are tried as WorkloadQueue orders them, by the clock of the moment they *)
(* were listed.  Every behaviour of it is one of Scheduler, which takes    *)
(* them in any order.                                                      *)
(***************************************************************************)
EXTENDS Scheduler, WorkloadQueue

CONSTANT Times   \* readings of the clock

ASSUME TimesAssumption ==
    DOMAIN Priority = Workloads /\ Times \subseteq Nat /\ Times # {}

VARIABLE listed   \* when each placer's pass listed its workloads, 0 for no pass

queuedVars == <<workers, workloads, placer, listed>>

QueuedInit == SchedulerInit /\ listed = [p \in Placers |-> 0]

ListPending(p) ==
    /\ StartPass(p)
    /\ \E t \in Times : listed' = [listed EXCEPT ![p] = t]

\* The workload tried is the first of those left.
TryNext(p) ==
    \E x \in First(placer[p].todo, listed[p]) :
        Choose(p, x) \/ NoneEligible(p, x) \/ Refuse(p, x)

QueuedProceed(p) ==
    /\ TryNext(p) \/ Commit(p) \/ Conflict(p)
    /\ listed' = IF placer'[p].todo = {} THEN [listed EXCEPT ![p] = 0] ELSE listed

QueuedNext ==
    \/ \E p \in Placers :
          \/ ListPending(p)
          \/ \E x \in Workloads : StartPlace(p, x) /\ UNCHANGED listed
          \/ QueuedProceed(p)
    \/ OtherClients /\ UNCHANGED listed

QueuedSpec == QueuedInit /\ [][QueuedNext]_queuedVars

\* As SchedulerFairness.
QueuedFairness ==
    /\ \A p \in Loops : WF_queuedVars(ListPending(p))
    /\ \A p \in Placers : WF_queuedVars(QueuedProceed(p))

FairQueuedSpec == QueuedSpec /\ QueuedFairness
-----------------------------------------------------------------------------
(***************************************************************************)
(* Properties.                                                             *)
(***************************************************************************)

\* Aging bounds overtaking (TestOrderWorkloadsWithAgingPreventsStarvation): a
\* pass is done with a workload before another one of its list that arrived
\* earlier only if it is k > 0 classes above that one and arrived less than k
\* aging intervals after it.
OvertakingBounded ==
    [][\A p \in Placers :
         \A x \in placer[p].todo \ placer'[p].todo, y \in placer'[p].todo :
            ~ WaitedLonger(y, x, listed[p])]_queuedVars
=============================================================================
