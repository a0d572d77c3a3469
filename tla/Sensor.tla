------------------------------- MODULE Sensor -------------------------------
(***************************************************************************)
(* The sensor Simulation of main.ts (section 2) with everything that       *)
(* touches its state: the monotonic clock, the test-only broken-wire file, *)
(* and the ArrowUp / ArrowDown keys of the key handler.                    *)
(*                                                                         *)
(* Temperatures are integers in tenths of a degree Celsius, the resolution *)
(* the key handler prints.  SensorSimulationTick uses secondsRunning only  *)
(* modulo 3, modulo 4 and in an equality test with the previous second, so *)
(* the clock is kept modulo Cycle, a multiple of 12 longer than any lag.   *)
(***************************************************************************)
EXTENDS Integers

CONSTANTS
    Cycle,      \* seconds after which the modelled clock wraps
    MaxLag,     \* bound: seconds the event loop may run behind the clock
    MaxNudges   \* bound: arrow keys pressed in a behaviour

ASSUME CycleAssumption == Cycle \in Nat \ {0} /\ Cycle % 12 = 0
ASSUME MaxLagAssumption == MaxLag \in Nat \ {0} /\ MaxLag < Cycle
ASSUME MaxNudgesAssumption == MaxNudges \in Nat

ANALOG_INPUT_LOWEST == 180
ANALOG_INPUT_HIGHEST == 260
ANALOG_INPUT_STEP == 5
ArrowStep == 11
BINARY_INPUT_TOGGLE_SECONDS == 3
MULTI_STATE_INPUT_STEP_SECONDS == 4
MULTI_STATE_INPUT_NUMBER_OF_STATES == 3

NO_FAULT_DETECTED == "NO_FAULT_DETECTED"
OPEN_LOOP == "OPEN_LOOP"

VARIABLES
    clock,            \* performance.now() - g_simulationStarted, whole seconds
    lastSecond,       \* g_simulationLastSecond
    analogInput1,     \* g_analogInput1Value
    direction,        \* g_analogInputDirection
    reliability,      \* g_analogInput1Reliability
    binaryInput1,     \* g_binaryInput1Value
    multiStateInput1, \* g_multiStateInput1Value
    faultHook,        \* g_sensorFaultFile # "": the test hook is configured
    faultFile,        \* the configured file exists
    wireAge,          \* history: seconds since the file last came or went
    nudges            \* history: arrow keys pressed so far

objectVars == <<analogInput1, direction, reliability, binaryInput1, multiStateInput1>>
worldVars == <<faultHook, faultFile>>
historyVars == <<wireAge, nudges>>
sensorVars == <<clock, lastSecond, objectVars, worldVars, historyVars>>

TypeOK ==
    /\ clock \in 0..Cycle-1
    /\ lastSecond \in 0..Cycle-1
    /\ analogInput1 \in Int
    /\ direction \in {-1, 1}
    /\ reliability \in {NO_FAULT_DETECTED, OPEN_LOOP}
    /\ binaryInput1 \in {0, 1}
    /\ multiStateInput1 \in 1..MULTI_STATE_INPUT_NUMBER_OF_STATES
    /\ faultHook \in BOOLEAN
    /\ faultFile \in BOOLEAN
    /\ wireAge \in 0..MaxLag+1
    /\ nudges \in 0..MaxNudges

\* Seconds between the clock and the last second the simulation acted on.
Lag == IF clock >= lastSecond THEN clock - lastSecond ELSE clock + Cycle - lastSecond

SensorInit ==
    /\ clock = 0
    /\ lastSecond = 0
    /\ analogInput1 = 215
    /\ direction = 1
    /\ reliability = NO_FAULT_DETECTED
    /\ binaryInput1 = 0
    /\ multiStateInput1 = 1
    /\ faultHook \in BOOLEAN
    /\ faultFile \in BOOLEAN
    /\ wireAge = 0
    /\ nudges = 0

-----------------------------------------------------------------------------
\* A second passes.  The bound MaxLag is the longest the single-threaded event
\* loop keeps SensorSimulationTick from running.
SecondPasses ==
    /\ Lag < MaxLag
    /\ clock' = IF clock + 1 = Cycle THEN 0 ELSE clock + 1
    /\ wireAge' = IF wireAge <= MaxLag THEN wireAge + 1 ELSE wireAge
    /\ UNCHANGED <<lastSecond, objectVars, worldVars, nudges>>

\* A wire test creates or deletes the fault file.
WireChanges ==
    /\ faultFile' = ~faultFile
    /\ wireAge' = 0
    /\ UNCHANGED <<clock, lastSecond, objectVars, faultHook, nudges>>

-----------------------------------------------------------------------------
SensorWireBroken == faultHook /\ faultFile

\* Mutant: the fault latches, a repaired wire is never noticed.
MutLatchedFault ==
    IF SensorWireBroken \/ reliability = OPEN_LOOP THEN OPEN_LOOP ELSE NO_FAULT_DETECTED

\* The reliability the wire calls for.
ReliabilityNow == IF SensorWireBroken THEN OPEN_LOOP ELSE NO_FAULT_DETECTED

\* Mutant: the ends are met only exactly, = for >= and <=.
MutExactEnds ==
    IF analogInput1 = ANALOG_INPUT_HIGHEST THEN -1 ELSE IF analogInput1 = ANALOG_INPUT_LOWEST THEN 1 ELSE direction

\* The direction of the ramp, turned round at either end of the range.
RampDirection ==
    IF analogInput1 >= ANALOG_INPUT_HIGHEST THEN -1 ELSE IF analogInput1 <= ANALOG_INPUT_LOWEST THEN 1 ELSE direction

\* Mutant: the ramp stops at the upper end instead of turning round.
MutRampStops ==
    \/ /\ ReliabilityNow = NO_FAULT_DETECTED /\ analogInput1 < ANALOG_INPUT_HIGHEST
       /\ direction' = RampDirection
       /\ analogInput1' = analogInput1 + RampDirection * ANALOG_INPUT_STEP
    \/ /\ ReliabilityNow = OPEN_LOOP \/ analogInput1 >= ANALOG_INPUT_HIGHEST
       /\ UNCHANGED <<analogInput1, direction>>

\* Analog Input 1 moves one step, unless the wire counts as broken.
RampStep ==
    \/ /\ ReliabilityNow = NO_FAULT_DETECTED
       /\ direction' = RampDirection
       /\ analogInput1' = analogInput1 + RampDirection * ANALOG_INPUT_STEP
    \/ /\ ReliabilityNow = OPEN_LOOP
       /\ UNCHANGED <<analogInput1, direction>>

\* Mutant: the broken wire freezes Binary Input 1 as well.
MutFrozenToggle ==
    IF clock % BINARY_INPUT_TOGGLE_SECONDS = 0 /\ ~SensorWireBroken
    THEN 1 - binaryInput1 ELSE binaryInput1

ToggledBinaryInput ==
    IF clock % BINARY_INPUT_TOGGLE_SECONDS = 0 THEN 1 - binaryInput1 ELSE binaryInput1

\* Mutant: the state is not wrapped at Number_Of_States.
MutNoWrap ==
    IF clock % MULTI_STATE_INPUT_STEP_SECONDS = 0
    THEN multiStateInput1 + 1
    ELSE multiStateInput1

SteppedMultiStateInput ==
    IF clock % MULTI_STATE_INPUT_STEP_SECONDS = 0
    THEN (multiStateInput1 % MULTI_STATE_INPUT_NUMBER_OF_STATES) + 1
    ELSE multiStateInput1

\* The early return: the simulation already acted on this second.
SimulationIdle ==
    /\ clock = lastSecond
    /\ UNCHANGED sensorVars

SimulationStep ==
    /\ clock # lastSecond
    /\ lastSecond' = clock
    /\ reliability' = ReliabilityNow
    /\ RampStep
    /\ binaryInput1' = ToggledBinaryInput
    /\ multiStateInput1' = SteppedMultiStateInput
    /\ UNCHANGED <<clock, worldVars, historyVars>>

SensorSimulationTick == SimulationIdle \/ SimulationStep

\* The key handler's ArrowUp and ArrowDown cases.
Nudge(change) ==
    /\ nudges < MaxNudges
    /\ nudges' = nudges + 1
    /\ analogInput1' = analogInput1 + change
    /\ UNCHANGED <<clock, lastSecond, direction, reliability, binaryInput1,
                   multiStateInput1, worldVars, wireAge>>

ArrowUp == Nudge(ArrowStep)
ArrowDown == Nudge(-ArrowStep)

-----------------------------------------------------------------------------
SensorNext ==
    \/ SecondPasses
    \/ WireChanges
    \/ SensorSimulationTick
    \/ ArrowUp
    \/ ArrowDown

\* Time passes, and the 10 ms timer keeps running the tick.
SensorFairness ==
    /\ WF_sensorVars(SecondPasses)
    /\ WF_sensorVars(SensorSimulationTick)

\* What the simulation may do, without the promise that it does.
SensorSafety == SensorInit /\ [][SensorNext]_sensorVars

SensorSpec == SensorSafety /\ SensorFairness

-----------------------------------------------------------------------------
(* Properties                                                              *)

\* main.ts:249-250, sensing_test.py: Binary Input 1 toggles every 3 s and
\* Multi-State Input 1 steps every 4 s, so at every moment both are a function
\* of the second the simulation last acted on.
InPhase ==
    /\ binaryInput1 = (lastSecond \div 3) % 2
    /\ multiStateInput1 = ((lastSecond \div 4) % 3) + 1

\* sensing_test.py:99-101: while nobody presses an arrow key, every reading is
\* within the ramp's two ends, wire broken or not.
ReadingInRange ==
    nudges = 0 => analogInput1 \in ANALOG_INPUT_LOWEST..ANALOG_INPUT_HIGHEST

\* The ramp never carries a nudged reading away: it stays within one step of
\* the range plus what the keys themselves added.
ReadingBounded ==
    /\ analogInput1 < ANALOG_INPUT_HIGHEST + ANALOG_INPUT_STEP + ArrowStep * nudges
    /\ analogInput1 > ANALOG_INPUT_LOWEST - ANALOG_INPUT_STEP - ArrowStep * nudges

\* failure_modes_test.py: Reliability (and with it the FAULT flag) disagrees
\* with the wire for no longer than the event loop may lag.
FaultReportedInTime ==
    ~(reliability = OPEN_LOOP <=> SensorWireBroken) => wireAge <= MaxLag

\* README "carries on ramping from the new value": once the keys are left alone
\* and the wire is whole, the reading keeps swinging between both ends.
RampSwings ==
    <>[](~SensorWireBroken) =>
        /\ []<>(analogInput1 >= ANALOG_INPUT_HIGHEST)
        /\ []<>(analogInput1 <= ANALOG_INPUT_LOWEST)
=============================================================================
