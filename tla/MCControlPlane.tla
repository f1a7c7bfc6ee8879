--------------------------- MODULE MCControlPlane ---------------------------
(***************************************************************************)
(* Small instances of ControlPlane: which actors run is chosen in the      *)
(* configuration.                                                          *)
(***************************************************************************)
EXTENDS ControlPlane

MCPlaces == {""}

Nowhere == [k \in TopologyKeys |-> ""]

\* A healthy worker last heard of at time 1.
MCWorkerRecords ==
    {[total |-> 2, avail |-> 2, active |-> 0, state |-> "HEALTHY",
      heartbeat |-> 1, topology |-> Nowhere, domain |-> "",
      wellFormed |-> TRUE]}

Job(required, checkpointable) ==
    [required |-> required, checkpointable |-> checkpointable,
     requirement |-> Nowhere, domain |-> "", state |-> "QUEUED",
     assigned |-> NoWorker, wellFormed |-> TRUE]

\* Two such jobs fill a worker, only one of the second kind fits.
MCWorkloadRecords == {Job(1, TRUE), Job(2, FALSE)}

Sample(w, timestamp, free) ==
    [worker |-> w, timestamp |-> timestamp, total |-> 2, free |-> free,
     used |-> 2 - free, inRange |-> TRUE]

\* An idle GPU, a half full one, and one that sends impossible numbers.
MCSamples ==
    {Sample(w, t, f) : w \in Workers, t \in 1 .. MaxTime, f \in {1, 2}}
    \cup {[Sample(w, 1, 2) EXCEPT !.free = 3] : w \in Workers}

\* An operator completes or cancels workloads.
MCOverrides ==
    {[state |-> "COMPLETED", cleared |-> FALSE],
     [state |-> "FAILED", cleared |-> TRUE]}
=============================================================================
