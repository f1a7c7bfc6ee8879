-------------------------- MODULE TelemetryService --------------------------
(***************************************************************************)
(* internal/telemetry, without DCGM: at each tick Service takes a snapshot *)
(* of the cluster and Collector appends one record per worker, or one per  *)
(* workload assigned to it, to a store that only grows.  All records of a  *)
(* snapshot carry the time of the tick.  Each Append locks the store anew: *)
(* a reader may find a snapshot half recorded.                             *)
(***************************************************************************)
EXTENDS Integers, Sequences

CONSTANTS
    GPUs,        \* worker IDs
    Snapshots,   \* what the state store may be found to hold
    MaxTime      \* bound on the clock, in intervals of the ticker

\* A record keeps the utilisations, which are all that forecasts are made of.
Metrics == {"memory", "compute"}

LoadType == [Metrics -> 0 .. 100]

\* jobs: the workloads whose AssignedWorkerID is the worker.
ObservationType == [load : LoadType, jobs : Nat]

ASSUME SnapshotsAssumption ==
    /\ MaxTime \in Nat \ {0}
    /\ \A s \in Snapshots :
          DOMAIN s \subseteq GPUs /\ s \in [DOMAIN s -> ObservationType]

VARIABLES
    now,          \* the clock
    fleet,        \* the workers of the last snapshot; none ever goes away
    records,      \* InMemoryStore.records
    collecting    \* what is left of the snapshot being recorded

telemetryVars == <<now, fleet, records, collecting>>

RecordType == [worker : GPUs, time : Nat, load : LoadType]

\* time: of the last tick taken; worker, left: the worker being recorded and
\* the number of its records to come.
NoSnapshot == <<>>

TelemetryInit ==
    /\ now = 1
    /\ fleet = {}
    /\ records = <<>>
    /\ collecting = [time |-> 0, snapshot |-> NoSnapshot, todo |-> {},
                     worker |-> "", left |-> 0]

Tick ==
    /\ now < MaxTime
    /\ now' = now + 1
    /\ UNCHANGED <<fleet, records, collecting>>

\* The tick may be taken late, and carries its own time; ticks that nobody
\* takes are dropped.
CollectAt ==
    /\ collecting.snapshot = NoSnapshot
    /\ \E s \in Snapshots, t \in collecting.time + 1 .. now :
          /\ fleet \subseteq DOMAIN s
          /\ fleet' = DOMAIN s
          /\ collecting' = [collecting EXCEPT !.time = t, !.snapshot = s,
                                              !.todo = DOMAIN s]
    /\ UNCHANGED <<now, records>>

RecordsOf(observation) == IF observation.jobs = 0 THEN 1 ELSE observation.jobs

\* RecordSnapshot visits the workers in map order, and appends all records of
\* one before it turns to the next.
AppendRecord ==
    \E w \in IF collecting.left > 0 THEN {collecting.worker} ELSE collecting.todo :
        LET seen == collecting.snapshot[w]
            todo == collecting.todo \ {w}
            left == (IF collecting.left > 0 THEN collecting.left ELSE RecordsOf(seen)) - 1
        IN  /\ records' = Append(records, [worker |-> w, time |-> collecting.time,
                                           load |-> seen.load])
            /\ collecting' =
                  IF left = 0 /\ todo = {}
                  THEN [collecting EXCEPT !.snapshot = NoSnapshot, !.todo = {},
                                          !.worker = "", !.left = 0]
                  ELSE [collecting EXCEPT !.todo = todo, !.worker = w, !.left = left]
            /\ UNCHANGED <<now, fleet>>

\* The times at which w is on record among the first n records.
Ticks(w, n) == {records[i].time : i \in {j \in 1 .. n : records[j].worker = w}}

TelemetryTypeOK ==
    /\ now \in 1 .. MaxTime
    /\ fleet \subseteq GPUs
    /\ records \in Seq(RecordType)
    /\ collecting.time \in 0 .. now
    /\ collecting.todo \subseteq DOMAIN collecting.snapshot
=============================================================================
