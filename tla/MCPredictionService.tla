------------------------ MODULE MCPredictionService ------------------------
(***************************************************************************)
(* Two workers of the simulator, of which the second registers later.  The *)
(* first runs two workloads, of which each snapshot makes a record, while  *)
(* its load rises as the simulator makes it, three of whose ticks lie      *)
(* between two snapshots; once the second is there, the first runs none    *)
(* and their loads are level.  FreshFor and HistoryCapacity are small      *)
(* enough for forecasts to expire and histories to overflow before the     *)
(* clock stops.                                                            *)
(***************************************************************************)
EXTENDS PredictionService

Sim == INSTANCE SimulatorScenarios

CONSTANTS g1, g2

Seen(scenario, step, index, jobs) ==
    [load |-> Sim!Utilization(scenario, step, index), jobs |-> jobs]

Before(t) == [w \in {g1} |-> Seen("RISING_PRESSURE", 3 * (t - 1), 0, 2)]

After ==
    [w \in {g1, g2} |-> IF w = g1 THEN Seen("STEADY", 0, 1, 0)
                        ELSE Seen("STEADY", 0, 0, 1)]

MCSnapshots == {Before(t) : t \in 1 .. 5} \cup {After}

\* A snapshot finds the load of its time; the first finds one worker.
MCCollectAt ==
    /\ CollectAt
    /\ \/ collecting'.snapshot = Before(collecting'.time)
       \/ collecting'.snapshot = After /\ collecting'.time > 1

MCObserve == (Tick \/ MCCollectAt \/ AppendRecord) /\ UNCHANGED predictionVars

MCPipelineNext == MCObserve \/ Predict \/ Schedule

MCPipelineSpec ==
    PipelineInit /\ [][MCPipelineNext]_pipelineVars /\ WF_pipelineVars(Predict)
=============================================================================
