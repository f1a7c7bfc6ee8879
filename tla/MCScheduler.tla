---------------------------- MODULE MCScheduler -----------------------------
(***************************************************************************)
(* Small instances of QueuedScheduler: a scheduling loop and an API caller *)
(* over a worker whose health and free memory change, and workloads that   *)
(* do not both fit and that change places in the queue as time goes by.    *)
(***************************************************************************)
EXTENDS QueuedScheduler

MCPlaces == {"", "a", "b"}

Nowhere == [k \in TopologyKeys |-> ""]

GPU(avail, state, rack) ==
    [total |-> 2, avail |-> avail, active |-> 0, state |-> state,
     heartbeat |-> 1, topology |-> [Nowhere EXCEPT !["rack"] = rack],
     domain |-> "", wellFormed |-> TRUE]

Job(required, domain, state) ==
    [required |-> required, checkpointable |-> FALSE,
     requirement |-> Nowhere, domain |-> domain, state |-> state,
     assigned |-> NoWorker, wellFormed |-> TRUE]

\* A worker in rack a, and what it may be found to be: sick and half full.
\* Or it is in rack b from the start.
MCWorkerRecords == {GPU(2, "HEALTHY", "a"), GPU(1, "SUSPECTED", "b")}

\* A small job bound to a rack and one that needs a worker of its own.
MCWorkloadRecords == {Job(1, "a", "PENDING"), Job(2, "", "QUEUED")}

\* The batch workload comes two intervals before the critical one: first by a
\* hair at time 3, behind it at time 1, when the other's arrival is to come.
MCPriority == [x1 |-> "batch", x2 |-> "critical"]

MCArrivalTime == [x1 |-> 1, x2 |-> 3]
=============================================================================
