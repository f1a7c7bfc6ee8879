---------------------------- MODULE MCBenchmark -----------------------------
(***************************************************************************)
(* The benchmark, in all its scenarios, and the selection loop by itself,  *)
(* on up to three workers that may offer, and be forecast, anything.       *)
(***************************************************************************)
EXTENDS Benchmark, MCWorkerSelection

NoBenchmark ==
    /\ scenario = "" /\ phase = "release" /\ step = 0
    /\ gpus = <<>> /\ running = {} /\ pressed = {}
    /\ tally = [placements |-> 0, rejections |-> 0, pressureSteps |-> 0,
                transitions |-> 0]

MCInit == BenchmarkInit \/ (NoBenchmark /\ SelectionInit)

SelectAlone == scenario = "" /\ SelectionNext /\ UNCHANGED benchmarkVars

MCNext == (scenario # "" /\ BenchmarkNext) \/ SelectAlone

MCSpec == MCInit /\ [][MCNext]_<<benchmarkVars, selectionVars>>
=============================================================================
