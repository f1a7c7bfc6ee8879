------------------------- MODULE SimulatorScenarios -------------------------
(***************************************************************************)
(* The utilisations the simulator writes to the workers at its ticks       *)
(* (internal/simulator/scenario.go).  A worker's index is its position in  *)
(* ListWorkers, hence another one at every tick.                           *)
(***************************************************************************)
EXTENDS Integers

SimulatorScenario == {"STEADY", "RISING_PRESSURE", "BURST", "DISTRIBUTION_SHIFT"}

ClampUtilization(v) == IF v < 0 THEN 0 ELSE IF v > 100 THEN 100 ELSE v

Load(memory, compute) ==
    [memory |-> ClampUtilization(memory), compute |-> ClampUtilization(compute)]

Steady(index) == Load(48 + 2 * index, 42 + 2 * index)

RisingPressure(step, index) ==
    Load(35 + 5 * step + 2 * index, 30 + 5 * step + 2 * index)

Burst(step, index) ==
    IF step \in 6 .. 8 THEN Load(92 + 2 * index, 96 + 2 * index)
    ELSE Load(44 + 2 * index, 38 + 2 * index)

DistributionShift(step, index) ==
    IF step < 8 THEN RisingPressure(step, index)
    ELSE IF step < 11 THEN Load(96 - 2 * index, 95 - 3 * index)
    ELSE Load(40 + 2 * index, 35 + 2 * index)

Utilization(scenario, step, index) ==
    CASE scenario = "STEADY"             -> Steady(index)
      [] scenario = "RISING_PRESSURE"    -> RisingPressure(step, index)
      [] scenario = "BURST"              -> Burst(step, index)
      [] scenario = "DISTRIBUTION_SHIFT" -> DistributionShift(step, index)
=============================================================================
