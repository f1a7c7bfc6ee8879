----------------------------- MODULE Scheduler ------------------------------
(***************************************************************************)
(* The placement side of internal/scheduler: SchedulePending, the three    *)
(* Place functions and the Run loop, against the shared state store.       *)
(*                                                                         *)
(* A placer takes one snapshot to list the pending workloads, then for     *)
(* each of them another snapshot to choose a worker, and then commits its  *)
(* choice; other goroutines change the store between these calls.  Which   *)
(* eligible worker a policy prefers is the subject of WorkerSelection;     *)
(* here any eligible worker may be chosen, and a pass visits its workloads *)
(* in any order, so that what is shown holds for every policy and order.   *)
(***************************************************************************)
EXTENDS StateStore

CONSTANTS
    Loops,     \* goroutines in Service.Run: one pass at each tick
    Callers    \* API requests: POST .../place and POST /v1/schedule

\* A request is served by a goroutine of its own.
ASSUME PlacersAssumption == Loops \cap Callers = {}

Placers == Loops \cup Callers

VARIABLE placer   \* what each placer is doing

schedulerVars == <<workers, workloads, placer>>

\* No workload, no worker chosen.
NoWorkload == ""

Idle == [at |-> "idle", todo |-> {}, workload |-> NoWorkload, worker |-> NoWorker]

PlacerType ==
    [at       : {"idle", "pass", "commit", "stopped"},
     todo     : SUBSET Workloads,   \* IDs of this pass not dealt with yet
     workload : Workloads \cup {NoWorkload},
     worker   : Workers \cup {NoWorker}]

Schedulable(x) ==
    x \in DOMAIN workloads /\ workloads[x].state \in SchedulableStates

\* The candidates of SelectWorker and its two variants.
Eligible(x) ==
    {w \in DOMAIN workers :
        /\ workers[w].state = "HEALTHY"
        /\ workers[w].avail >= workloads[x].required
        /\ MatchesTopologyRequirement(workloads[x], workers[w])}

SchedulerInit == StoreInit /\ placer = [p \in Placers |-> Idle]
-----------------------------------------------------------------------------
\* The placer once it is done with x, without or with success.
Done(p, x) ==
    LET todo == placer[p].todo \ {x}
    IN  IF todo = {} THEN Idle ELSE [Idle EXCEPT !.at = "pass", !.todo = todo]

\* An error other than ErrNoEligibleWorker ends the pass.  A caller gets it as
\* its response; Run returns it, and its loop is over.
Failed(p) == IF p \in Loops THEN [Idle EXCEPT !.at = "stopped"] ELSE Idle

\* SchedulePending lists the pending workloads.  (A pass over none of them
\* changes nothing.)
StartPass(p) ==
    /\ placer[p].at = "idle"
    /\ \E x \in Workloads : Schedulable(x)
    /\ placer' = [placer EXCEPT ![p] =
                     [Idle EXCEPT !.at = "pass",
                                  !.todo = {x \in Workloads : Schedulable(x)}]]
    /\ UNCHANGED storeVars

\* A request to place one workload, of whatever state, known or not.
StartPlace(p, x) ==
    /\ p \in Callers
    /\ placer[p].at = "idle"
    /\ placer' = [placer EXCEPT ![p] = [Idle EXCEPT !.at = "pass", !.todo = {x}]]
    /\ UNCHANGED storeVars

\* PlaceWorkload: snapshot, find the workload, check its state, choose.
Choose(p, x) ==
    /\ placer[p].at = "pass" /\ x \in placer[p].todo
    /\ Schedulable(x)
    /\ \E w \in Eligible(x) :
          placer' = [placer EXCEPT ![p].at = "commit",
                                   ![p].workload = x, ![p].worker = w]
    /\ UNCHANGED storeVars

\* Mutated form of NoneEligible: the pass is given up.
NoneEligibleEndsPass(p, x) ==
    /\ placer[p].at = "pass" /\ x \in placer[p].todo
    /\ Schedulable(x) /\ Eligible(x) = {}
    /\ placer' = [placer EXCEPT ![p] = Idle]
    /\ UNCHANGED storeVars

\* ErrNoEligibleWorker: the pass goes on, the workload waits for the next one.
NoneEligible(p, x) ==
    /\ placer[p].at = "pass" /\ x \in placer[p].todo
    /\ Schedulable(x) /\ Eligible(x) = {}
    /\ placer' = [placer EXCEPT ![p] = Done(p, x)]
    /\ UNCHANGED storeVars

\* The workload is unknown, or no longer pending.
Refuse(p, x) ==
    /\ placer[p].at = "pass" /\ x \in placer[p].todo
    /\ ~ Schedulable(x)
    /\ placer' = [placer EXCEPT ![p] = Failed(p)]
    /\ UNCHANGED storeVars

\* Mutated form of Commit: the placer stores the placement itself, trusting
\* its choice.
CommitBlindly(p) ==
    LET x == placer[p].workload
        w == placer[p].worker
    IN  /\ placer[p].at = "commit"
        /\ workers' = [workers EXCEPT ![w].avail = @ - workloads[x].required,
                                      ![w].active = @ + 1]
        /\ workloads' = [workloads EXCEPT ![x].assigned = w,
                                          ![x].state = "PLACED"]
        /\ placer' = [placer EXCEPT ![p] = Done(p, x)]

Commit(p) ==
    /\ placer[p].at = "commit"
    /\ CommitPlacement(placer[p].workload, placer[p].worker)
    /\ placer' = [placer EXCEPT ![p] = Done(p, placer[p].workload)]

\* CommitPlacement refuses: something changed since the choice.
Conflict(p) ==
    /\ placer[p].at = "commit"
    /\ ~ CommitAllowed(placer[p].workload, placer[p].worker)
    /\ placer' = [placer EXCEPT ![p] = Failed(p)]
    /\ UNCHANGED storeVars

\* What a placer does once it has started.
Proceed(p) ==
    \/ \E x \in Workloads : Choose(p, x) \/ NoneEligible(p, x) \/ Refuse(p, x)
    \/ Commit(p)
    \/ Conflict(p)

PlacerNext ==
    \E p \in Placers :
        \/ StartPass(p)
        \/ \E x \in Workloads : StartPlace(p, x)
        \/ Proceed(p)
-----------------------------------------------------------------------------
(***************************************************************************)
(* The scheduler among clients that keep the store's contract.             *)
(***************************************************************************)
OtherClients == (AtomicWrite \/ Release) /\ UNCHANGED placer

SchedulerNext == PlacerNext \/ OtherClients

SchedulerSpec == SchedulerInit /\ [][SchedulerNext]_schedulerVars

\* A loop's goroutine runs and its ticker fires; a request that was accepted
\* is served.  Nothing makes a client send one.
SchedulerFairness ==
    /\ \A p \in Loops : WF_schedulerVars(StartPass(p))
    /\ \A p \in Placers : WF_schedulerVars(Proceed(p))

FairSchedulerSpec == SchedulerSpec /\ SchedulerFairness
-----------------------------------------------------------------------------
(***************************************************************************)
(* Properties.                                                             *)
(***************************************************************************)
SchedulerTypeOK == TypeOK /\ placer \in [Placers -> PlacerType]

\* Any number of racing placers uses the store as its contract demands: each
\* of their steps is one atomic commit or leaves the store alone.  With
\* BooksStraight and StoreImplementsLedger this is "exactly one placement
\* succeeds, the competing placement receives a conflict without partially
\* modifying worker or workload state" (README, Concurrent Overcommit
\* Protection).
KeepsContract == AtomicSpec

\* Whatever has happened to the worker since a placer chose it, a workload is
\* only ever put on a worker that is healthy, has the memory and has the
\* topology at the moment of the commit ("commit-time revalidation", README).
PlacedOnFitWorker ==
    [][\A x \in DOMAIN workloads :
         /\ workloads[x].state \notin PlacedStates
         /\ workloads'[x].state \in PlacedStates
         => workloads'[x].assigned \in Eligible(x)]_schedulerVars

Stopped(p) == placer[p].at = "stopped"

\* Some loop is left, and each pass of it deals with every workload of its
\* list: a workload that stays pending while some worker could take it is
\* not passed over for ever, whatever else is in the list.
PendingIsPlaced ==
    \A x \in Workloads :
        <>[](Schedulable(x) /\ Eligible(x) # {}) => <>(\A p \in Loops : Stopped(p))

\* "Aegis also handles state changes between selection and commit" (README):
\* the commit is refused, and the pending workload is still scheduled later,
\* as long as a worker can take it.
PendingSurvivesConflicts ==
    \A x \in Workloads : ~ <>[](Schedulable(x) /\ Eligible(x) # {})
=============================================================================
