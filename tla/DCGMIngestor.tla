---------------------------- MODULE DCGMIngestor ----------------------------
(***************************************************************************)
(* DCGMIngestor.Ingest and ApplyDCGMSample (internal/telemetry): GPU       *)
(* samples applied to the stored workers.  The worker is read with one     *)
(* call of the store and written back whole with another.                  *)
(***************************************************************************)
EXTENDS StateStore

CONSTANTS
    Ingestors,     \* goroutines that call Ingest
    Samples,       \* the DCGM samples that may arrive
    MaxSampleAge   \* the ingestor's maxAge

\* Framebuffer sizes in MB; timestamp 0 is a missing one; utilisation is only
\* range-checked.
SampleType ==
    [worker : Workers, timestamp : Nat, total : Nat, free : Nat, used : Nat,
     inRange : BOOLEAN]

ASSUME SamplesAssumption == Samples \subseteq SampleType /\ MaxSampleAge \in Nat

VARIABLE ingest   \* the worker each ingestor is about to store

NoSample == [worker |-> NoWorker, record |-> <<>>]

IngestorInit == ingest = [i \in Ingestors |-> NoSample]

\* The checks of ApplyDCGMSample, at time t.
SampleAccepted(sample, t) ==
    /\ sample.timestamp # 0 /\ sample.timestamp <= t
    /\ t - sample.timestamp <= MaxSampleAge
    /\ sample.inRange
    /\ sample.total # 0
    /\ sample.free <= sample.total /\ sample.used <= sample.total
    /\ sample.free + sample.used <= sample.total

\* Mutated form of AppliedSample: the observed free memory is believed.
AppliedSampleBelieved(worker, sample) ==
    [worker EXCEPT !.total = sample.total, !.avail = sample.free,
                   !.heartbeat = sample.timestamp]

\* Observed free memory only ever lowers the available memory.
AppliedSample(worker, sample) ==
    [worker EXCEPT !.total = sample.total,
                   !.avail = IF sample.free < @ THEN sample.free ELSE @,
                   !.heartbeat = sample.timestamp]

\* GetWorker and ApplyDCGMSample; a rejected sample leaves no trace.
StartIngest(i, sample, t) ==
    /\ ingest[i] = NoSample
    /\ sample.worker \in DOMAIN workers
    /\ SampleAccepted(sample, t)
    /\ ingest' = [ingest EXCEPT ![i] =
                     [worker |-> sample.worker,
                      record |-> AppliedSample(workers[sample.worker], sample)]]
    /\ UNCHANGED storeVars

\* UpdateWorker, which accepts every record ApplyDCGMSample returns.
StoreSample(i) ==
    /\ ingest[i] # NoSample
    /\ UpdateWorker(ingest[i].worker, ingest[i].record)
    /\ ingest' = [ingest EXCEPT ![i] = NoSample]
=============================================================================
