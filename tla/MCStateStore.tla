---------------------------- MODULE MCStateStore ----------------------------
(***************************************************************************)
(* Small instances of StateStore: two workers, two workloads, and records  *)
(* chosen so that memory runs out, topologies differ, and some records do  *)
(* not validate.                                                           *)
(***************************************************************************)
EXTENDS StateStore, TLC

MCPlaces == {"", "a", "b"}

Nowhere == [k \in TopologyKeys |-> ""]

InRack(rack) == [Nowhere EXCEPT !["rack"] = rack]

GPU(total, avail, active, state, topology, domain) ==
    [total |-> total, avail |-> avail, active |-> active, state |-> state,
     heartbeat |-> 1, topology |-> topology, domain |-> domain,
     wellFormed |-> TRUE]

\* A healthy worker in rack a, a smaller sick one that only has a domain, one
\* that claims a workload, one with more memory available than it has.
MCWorkerRecords ==
    {GPU(2, 2, 0, "HEALTHY", InRack("a"), ""),
     GPU(2, 1, 0, "UNHEALTHY", Nowhere, "a"),
     GPU(1, 1, 1, "HEALTHY", InRack("b"), "a"),
     GPU(2, 3, 0, "HEALTHY", InRack("a"), "")}

Job(required, domain, state, assigned) ==
    [required |-> required, checkpointable |-> FALSE,
     requirement |-> Nowhere, domain |-> domain, state |-> state,
     assigned |-> assigned, wellFormed |-> TRUE]

\* Pending jobs of two sizes, one of them bound to domain a; jobs a client
\* stores as running on a worker of its choice, or on none; and a done one.
MCWorkloadRecords ==
    {Job(1, "", "PENDING", NoWorker),
     Job(2, "a", "QUEUED", NoWorker),
     Job(1, "", "COMPLETED", NoWorker),
     Job(1, "", "RUNNING", NoWorker)}
    \cup {Job(2, "", "RUNNING", w) : w \in Workers}

MCSymmetry == Permutations(Workers) \cup Permutations(Workloads)

\* A client that keeps storing a placed job as pending has it counted again at
\* each placement, without end: the runs stop at this count.
MaxActive == 2

ActiveBound == \A w \in DOMAIN workers : workers[w].active <= MaxActive
=============================================================================
