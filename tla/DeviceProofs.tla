---------------------------- MODULE DeviceProofs ----------------------------
(***************************************************************************)
(* Safety of the sensor Simulation for every clock cycle, every bound on   *)
(* the event loop's lag and every number of arrow keys; of the device's    *)
(* event loop, for any set of requests and any bounds; the refinement from *)
(* the device to its sensor; and of the transport callbacks, for every set *)
(* of interface lists.                                                     *)
(***************************************************************************)
EXTENDS Device, Transport, TLAPS

-----------------------------------------------------------------------------
(* The sensor.  The theorems are about SensorSafety, which SensorSpec      *)
(* implies and which the device implements.                                *)

Constants == /\ Cycle \in Nat \ {0} /\ Cycle % 12 = 0
             /\ MaxLag \in Nat \ {0} /\ MaxLag < Cycle
             /\ MaxNudges \in Nat

\* The assumptions on the constants, gathered.
LEMMA ConstantsHold == Constants
  BY CycleAssumption, MaxLagAssumption, MaxNudgesAssumption DEF Constants

\* An idle tick changes nothing.
LEMMA IdleUnchanged == SimulationIdle => UNCHANGED sensorVars
  BY DEF SimulationIdle

\* Every variable of SensorSimulationTick, the keys and the wire keeps its type.
THEOREM TypeCorrect == SensorSafety => []TypeOK
  <1> USE ConstantsHold DEF Constants, MULTI_STATE_INPUT_NUMBER_OF_STATES
  <1>1. SensorInit => TypeOK
    BY DEF SensorInit, TypeOK, NO_FAULT_DETECTED, OPEN_LOOP
  <1>2. TypeOK /\ [SensorNext]_sensorVars => TypeOK'
    <2> SUFFICES ASSUME TypeOK, [SensorNext]_sensorVars
                 PROVE  TypeOK'
      OBVIOUS
    <2> USE DEF TypeOK
    <2>1. CASE SecondPasses
      BY <2>1 DEF SecondPasses, objectVars, worldVars
    <2>2. CASE WireChanges
      BY <2>2 DEF WireChanges, objectVars
    <2>3. CASE SimulationStep
      <3>1. /\ direction' \in {-1, 1}
            /\ analogInput1' \in Int
        BY <2>3 DEF SimulationStep, RampStep, RampDirection, ANALOG_INPUT_STEP,
                    ANALOG_INPUT_HIGHEST, ANALOG_INPUT_LOWEST
      <3>2. reliability' \in {NO_FAULT_DETECTED, OPEN_LOOP}
        BY <2>3 DEF SimulationStep, ReliabilityNow
      <3>3. binaryInput1' \in {0, 1}
        BY <2>3 DEF SimulationStep, ToggledBinaryInput
      <3>4. multiStateInput1' \in 1..3
        BY <2>3 DEF SimulationStep, SteppedMultiStateInput
      <3>5. QED
        BY <2>3, <3>1, <3>2, <3>3, <3>4 DEF SimulationStep, worldVars, historyVars
    <2>4. CASE ArrowUp \/ ArrowDown
      BY <2>4 DEF ArrowUp, ArrowDown, Nudge, ArrowStep, worldVars
    <2>5. CASE UNCHANGED sensorVars
      BY <2>5 DEF sensorVars, objectVars, worldVars, historyVars
    <2>6. QED
      BY <2>1, <2>2, <2>3, <2>4, <2>5, IdleUnchanged
         DEF SensorNext, SensorSimulationTick
  <1>3. QED
    BY <1>1, <1>2, PTL DEF SensorSafety

-----------------------------------------------------------------------------
\* Nobody nudged: the reading sits on the ramp's grid, within its ends.
OnGrid == nudges = 0 =>
    /\ analogInput1 % ANALOG_INPUT_STEP = 0
    /\ analogInput1 \in ANALOG_INPUT_LOWEST..ANALOG_INPUT_HIGHEST

\* A wire change not yet reported is no older than the second not yet acted on.
UnreportedIsRecent == ~(reliability = OPEN_LOOP <=> SensorWireBroken) => wireAge <= Lag

\* The inductive invariant of the simulation.
SensorInv == TypeOK /\ Lag <= MaxLag /\ OnGrid /\ ReadingBounded /\ UnreportedIsRecent

\* Every step of SensorSimulationTick, the keys, the wire and the clock keeps
\* the lag bounded, the reading on its grid and in its bounds, and unreported
\* wire changes recent.
LEMMA SensorInvInductive == SensorInv /\ [SensorNext]_sensorVars /\ TypeOK' => SensorInv'
  <1> SUFFICES ASSUME SensorInv, [SensorNext]_sensorVars, TypeOK'
               PROVE  SensorInv'
    OBVIOUS
  <1> USE ConstantsHold DEF Constants, SensorInv, TypeOK, OPEN_LOOP, NO_FAULT_DETECTED,
          ANALOG_INPUT_LOWEST, ANALOG_INPUT_HIGHEST, ANALOG_INPUT_STEP, ArrowStep,
          MULTI_STATE_INPUT_NUMBER_OF_STATES
  <1>1. CASE SecondPasses
    <2>1. Lag' = Lag + 1
      BY <1>1 DEF SecondPasses, Lag
    <2>2. Lag' <= MaxLag
      BY <1>1, <2>1 DEF SecondPasses, Lag
    <2>3. OnGrid' /\ ReadingBounded'
      BY <1>1 DEF SecondPasses, OnGrid, ReadingBounded, objectVars
    <2>4. UnreportedIsRecent'
      BY <1>1, <2>1 DEF SecondPasses, UnreportedIsRecent, SensorWireBroken, Lag,
                        objectVars, worldVars
    <2>5. QED
      BY <2>2, <2>3, <2>4
  <1>2. CASE WireChanges
    <2>1. Lag' = Lag /\ Lag >= 0
      BY <1>2 DEF WireChanges, Lag
    <2>2. OnGrid' /\ ReadingBounded'
      BY <1>2 DEF WireChanges, OnGrid, ReadingBounded, objectVars
    <2>3. UnreportedIsRecent'
      BY <1>2, <2>1 DEF WireChanges, UnreportedIsRecent
    <2>4. QED
      BY <2>1, <2>2, <2>3
  <1>3. CASE SimulationStep
    <2>1. Lag' = 0
      BY <1>3 DEF SimulationStep, Lag
    <2>2. OnGrid'
      <3>1. nudges' = nudges
        BY <1>3 DEF SimulationStep, historyVars
      <3>2. CASE analogInput1' = analogInput1
        BY <3>1, <3>2 DEF OnGrid
      <3>3. CASE analogInput1' = analogInput1 + 5 /\ analogInput1 < 260
        BY <3>1, <3>3 DEF OnGrid
      <3>4. CASE analogInput1' = analogInput1 - 5 /\ analogInput1 > 180
        BY <3>1, <3>4 DEF OnGrid
      <3>5. QED
        BY <1>3, <3>2, <3>3, <3>4 DEF SimulationStep, RampStep, RampDirection
    <2>3. ReadingBounded'
      BY <1>3 DEF SimulationStep, RampStep, RampDirection, ReadingBounded, historyVars
    <2>4. UnreportedIsRecent'
      BY <1>3 DEF SimulationStep, UnreportedIsRecent, ReliabilityNow, SensorWireBroken,
                  worldVars
    <2>5. QED
      BY <2>1, <2>2, <2>3, <2>4
  <1>4. CASE ArrowUp \/ ArrowDown
    <2>1. Lag' = Lag
      BY <1>4 DEF ArrowUp, ArrowDown, Nudge, Lag
    <2>2. OnGrid'
      BY <1>4 DEF ArrowUp, ArrowDown, Nudge, OnGrid
    <2>3. ReadingBounded'
      <3>1. nudges' = nudges + 1 /\ 11 * (nudges + 1) = 11 * nudges + 11
        BY <1>4 DEF ArrowUp, ArrowDown, Nudge
      <3>2. analogInput1' = analogInput1 + 11 \/ analogInput1' = analogInput1 - 11
        BY <1>4 DEF ArrowUp, ArrowDown, Nudge
      <3>3. QED
        BY <3>1, <3>2 DEF ReadingBounded
    <2>4. UnreportedIsRecent'
      BY <1>4, <2>1 DEF ArrowUp, ArrowDown, Nudge, UnreportedIsRecent, SensorWireBroken,
                        worldVars
    <2>5. QED
      BY <2>1, <2>2, <2>3, <2>4
  <1>5. CASE UNCHANGED sensorVars
    BY <1>5 DEF sensorVars, objectVars, worldVars, historyVars, Lag, OnGrid,
                ReadingBounded, UnreportedIsRecent, SensorWireBroken
  <1>6. QED
    BY <1>1, <1>2, <1>3, <1>4, <1>5, IdleUnchanged DEF SensorNext, SensorSimulationTick

\* The inductive invariant holds of every behaviour of the simulation.
LEMMA SensorInvariant == SensorSafety => []SensorInv
  <1>1. SensorInit /\ TypeOK => SensorInv
    BY ConstantsHold DEF Constants, SensorInit, SensorInv, Lag, OnGrid, ReadingBounded,
       UnreportedIsRecent, SensorWireBroken, NO_FAULT_DETECTED, OPEN_LOOP,
       ANALOG_INPUT_LOWEST, ANALOG_INPUT_HIGHEST, ANALOG_INPUT_STEP, ArrowStep
  <1>2. QED
    BY <1>1, SensorInvInductive, TypeCorrect, PTL DEF SensorSafety

\* sensing_test.py:99-101: a sensor nobody nudged reads within the ramp's ends.
THEOREM ReadingStaysInRange == SensorSafety => []ReadingInRange
  <1>1. SensorInv => ReadingInRange
    BY DEF SensorInv, OnGrid, ReadingInRange
  <1>2. QED
    BY <1>1, SensorInvariant, PTL

\* main.ts:295-300: the ramp never carries a nudged reading away.
THEOREM ReadingStaysBounded == SensorSafety => []ReadingBounded
  <1>1. SensorInv => ReadingBounded
    BY DEF SensorInv
  <1>2. QED
    BY <1>1, SensorInvariant, PTL

\* main.ts:286: Reliability follows the wire within the event loop's lag.
THEOREM FaultIsReportedInTime == SensorSafety => []FaultReportedInTime
  <1>1. SensorInv => FaultReportedInTime
    BY ConstantsHold DEF Constants, SensorInv, TypeOK, UnreportedIsRecent,
                         FaultReportedInTime, Lag
  <1>2. QED
    BY <1>1, SensorInvariant, PTL

-----------------------------------------------------------------------------
\* The period of both discrete inputs divides the clock's cycle, so one second
\* further moves them exactly when that second is a multiple of 3, or of 4.
LEMMA NextSecondPhase ==
    ASSUME NEW s \in 0..Cycle-1, NEW t \in 0..Cycle-1,
           t = IF s + 1 = Cycle THEN 0 ELSE s + 1
    PROVE  /\ t % 3 = 0 => (t \div 3) % 2 = 1 - ((s \div 3) % 2)
           /\ t % 3 # 0 => (t \div 3) % 2 = (s \div 3) % 2
           /\ t % 4 = 0 => (t \div 4) % 3 = (((s \div 4) % 3) + 1) % 3
           /\ t % 4 # 0 => (t \div 4) % 3 = (s \div 4) % 3
  BY ConstantsHold DEF Constants

\* main.ts:249-250: if the event loop never lags a whole second behind, Binary
\* Input 1 toggles every 3 s and Multi-State Input 1 steps every 4 s.
THEOREM PunctualInPhase ==
    ASSUME MaxLag = 1
    PROVE  SensorSafety => []InPhase
  <1>1. SensorInit => InPhase
    BY DEF SensorInit, InPhase
  <1>2. SensorInv /\ InPhase /\ [SensorNext]_sensorVars => InPhase'
    <2> SUFFICES ASSUME SensorInv, InPhase, [SensorNext]_sensorVars
                 PROVE  InPhase'
      OBVIOUS
    <2>1. CASE SimulationStep
      <3>1. /\ clock \in 0..Cycle-1 /\ lastSecond \in 0..Cycle-1
            /\ clock = IF lastSecond + 1 = Cycle THEN 0 ELSE lastSecond + 1
        BY <2>1, ConstantsHold DEF Constants, SimulationStep, SensorInv, TypeOK, Lag
      <3>2. lastSecond' = clock
        BY <2>1 DEF SimulationStep
      <3>3. binaryInput1' = (clock \div 3) % 2
        BY <2>1, <3>1, NextSecondPhase DEF SimulationStep, ToggledBinaryInput, InPhase,
           BINARY_INPUT_TOGGLE_SECONDS
      <3>4. multiStateInput1' = ((clock \div 4) % 3) + 1
        BY <2>1, <3>1, NextSecondPhase DEF SimulationStep, SteppedMultiStateInput, InPhase,
           MULTI_STATE_INPUT_STEP_SECONDS, MULTI_STATE_INPUT_NUMBER_OF_STATES
      <3>5. QED
        BY <3>2, <3>3, <3>4 DEF InPhase
    <2>2. CASE SecondPasses \/ WireChanges \/ ArrowUp \/ ArrowDown
      BY <2>2 DEF SecondPasses, WireChanges, ArrowUp, ArrowDown, Nudge, InPhase, objectVars
    <2>3. CASE UNCHANGED sensorVars
      BY <2>3 DEF sensorVars, objectVars, InPhase
    <2>4. QED
      BY <2>1, <2>2, <2>3, IdleUnchanged DEF SensorNext, SensorSimulationTick
  <1>3. QED
    BY <1>1, <1>2, SensorInvariant, PTL DEF SensorSafety
-----------------------------------------------------------------------------
(* The device                                                              *)

\* Every action of the device, in one list.
LEMMA DeviceActions ==
    DeviceNext => \/ BindSucceeds \/ SetupFails \/ StartLoop \/ StartThrows \/ EarlySignal
                  \/ \E r \in Requests : DatagramArrives(r)
                  \/ SocketError \/ Shutdown \/ ShutdownThrows \/ ArrowKey
                  \/ ImmediateRuns \/ TimerFires \/ RunLoopThrows
                  \/ PollDone \/ CheckDone \/ TimerNotDue \/ ProcessEnds \/ WorldMoves
  BY DEF DeviceNext, MainSteps, PollSteps, LoopSteps

\* main.ts:865-871 runs the Simulation from runLoop, :893-901 nudges it from the
\* keys, and nothing else in the device touches it.
THEOREM DeviceImplementsSensor == DeviceSpec => ImplementsSensor
  <1>1. DeviceInit => SensorInit
    BY DEF DeviceInit
  <1>2. [DeviceNext]_deviceVars => [SensorNext]_sensorVars
    <2> SUFFICES ASSUME [DeviceNext]_deviceVars
                 PROVE  [SensorNext]_sensorVars
      OBVIOUS
    <2>1. CASE ImmediateRuns \/ TimerFires
      BY <2>1 DEF ImmediateRuns, TimerFires, RunLoop, SensorNext
    <2>2. CASE ArrowKey
      BY <2>2 DEF ArrowKey, SensorNext
    <2>3. CASE WorldMoves
      BY <2>3 DEF WorldMoves, SensorNext
    <2>4. CASE \/ BindSucceeds \/ SetupFails \/ StartLoop \/ StartThrows \/ EarlySignal
               \/ \E r \in Requests : DatagramArrives(r)
               \/ SocketError \/ Shutdown \/ ShutdownThrows
               \/ RunLoopThrows \/ PollDone \/ CheckDone \/ TimerNotDue \/ ProcessEnds
      BY <2>4 DEF BindSucceeds, SetupFails, StartLoop, StartThrows, EarlySignal,
         DatagramArrives, SocketError, Shutdown, ShutdownThrows, RunLoopThrows,
         PollDone, CheckDone, TimerNotDue, EnterPhase, ProcessEnds
    <2>5. CASE UNCHANGED deviceVars
      BY <2>5 DEF deviceVars
    <2>6. QED
      BY <2>1, <2>2, <2>3, <2>4, <2>5, DeviceActions
  <1>3. QED
    BY <1>1, <1>2, PTL DEF DeviceSpec, ImplementsSensor, SensorSafety

\* failure_modes_test.py, on the whole device: an answer can show a Reliability
\* that disagrees with the wire only within the event loop's lag.
THEOREM DeviceReportsFaultInTime == DeviceSpec => []FaultReportedInTime
  BY DeviceImplementsSensor, FaultIsReportedInTime, PTL DEF ImplementsSensor

-----------------------------------------------------------------------------
\* A request that arrived after the hook was installed is in the queue only
\* while a runLoop is scheduled.
LateIsScheduled ==
    Alive => \A i \in DOMAIN receiveQueue : ~receiveQueue[i].early => loopScheduled

\* The timers phase is entered only with the setImmediate queue empty.
TimersAfterImmediates == Alive /\ loopPhase = "timers" => immediates = 0

\* The event loop's state, as far as the invariant needs it.
LoopType ==
    /\ receiveQueue \in Seq(Datagram)
    /\ immediates \in Nat
    /\ loopScheduled \in BOOLEAN
    /\ hook \in BOOLEAN

\* The inductive invariant of the event loop.
LoopInv == LoopType /\ OneLoopScheduled /\ LateIsScheduled /\ TimersAfterImmediates

\* What runLoop leaves of the queue.
LEMMA EmptyQueue == << >> \in Seq(Datagram) /\ \A i \in DOMAIN << >> : FALSE
  OBVIOUS

\* Every callback of the device keeps the loop's invariant.
LEMMA LoopInvInductive == LoopInv /\ [DeviceNext]_deviceVars => LoopInv'
  <1> SUFFICES ASSUME LoopInv, [DeviceNext]_deviceVars
               PROVE  LoopInv'
    OBVIOUS
  <1> USE DEF LoopInv, LoopType, OneLoopScheduled, LateIsScheduled, TimersAfterImmediates, Alive
  <1>1. CASE BindSucceeds
    BY <1>1 DEF BindSucceeds, queueVars
  <1>2. CASE SetupFails \/ EarlySignal \/ ProcessEnds
    BY <1>2 DEF SetupFails, EarlySignal, ProcessEnds, Exit
  <1>3. CASE StartLoop
    BY <1>3 DEF StartLoop
  <1>4. CASE StartThrows \/ RunLoopThrows
    BY <1>4 DEF StartThrows, RunLoopThrows, UncaughtException, Exit
  <1>5. ASSUME NEW r \in Requests, DatagramArrives(r)
        PROVE  LoopInv'
    <2> DEFINE d == [request |-> r, early |-> ~hook]
    <2>1. d \in Datagram
      BY DEF Datagram
    <2>2. receiveQueue' = Append(receiveQueue, d)
      BY <1>5 DEF DatagramArrives
    <2>3. LoopType'
      BY <1>5, <2>1, <2>2 DEF DatagramArrives, ScheduleLoop
    <2>4. OneLoopScheduled' /\ TimersAfterImmediates'
      BY <1>5 DEF DatagramArrives, ScheduleLoop, InPoll, processVars
    <2>5. LateIsScheduled'
      <3> SUFFICES ASSUME NEW i \in DOMAIN receiveQueue', ~receiveQueue'[i].early
                   PROVE  loopScheduled'
        OBVIOUS
      <3>1. CASE i = Len(receiveQueue) + 1
        <4>1. ~d.early
          BY <2>2, <3>1
        <4>2. hook
          BY <4>1
        <4>3. QED
          BY <1>5, <4>2 DEF DatagramArrives, ScheduleLoop
      <3>2. CASE i \in DOMAIN receiveQueue
        <4>1. receiveQueue'[i] = receiveQueue[i]
          BY <2>2, <3>2
        <4>2. loopScheduled
          BY <1>5, <3>2, <4>1 DEF DatagramArrives, InPoll
        <4>3. QED
          BY <1>5, <4>2 DEF DatagramArrives, ScheduleLoop
      <3>3. QED
        BY <2>2, <3>1, <3>2
    <2>6. QED
      BY <2>3, <2>4, <2>5
  <1>6. CASE SocketError \/ ArrowKey \/ WorldMoves
    BY <1>6 DEF SocketError, ArrowKey, WorldMoves, queueVars, processVars
  <1>7. CASE Shutdown
    BY <1>7 DEF Shutdown
  <1>8. CASE ShutdownThrows
    BY <1>8 DEF ShutdownThrows, Exit
  <1>9. CASE ImmediateRuns
    <2>1. /\ loopScheduled' = FALSE /\ receiveQueue' = << >> /\ immediates' = 0
          /\ loopPhase' = "check" /\ hook' = hook
      BY <1>9 DEF ImmediateRuns, RunLoop
    <2>2. QED
      BY <2>1, EmptyQueue
  <1>10. CASE TimerFires
    <2>1. /\ loopScheduled' = FALSE /\ receiveQueue' = << >> /\ immediates' = 0
          /\ loopPhase' = "poll" /\ hook' = hook
      BY <1>10 DEF TimerFires, RunLoop
    <2>2. QED
      BY <2>1, EmptyQueue
  <1>11. CASE PollDone \/ CheckDone \/ TimerNotDue
    BY <1>11 DEF PollDone, CheckDone, TimerNotDue, EnterPhase, queueVars, processVars
  <1>12. CASE UNCHANGED deviceVars
    BY <1>12 DEF deviceVars, queueVars, processVars
  <1>13. QED
    BY <1>1, <1>2, <1>3, <1>4, <1>5, <1>6, <1>7, <1>8, <1>9, <1>10, <1>11, <1>12,
       DeviceActions

\* The loop's invariant holds of every behaviour of the device.
LEMMA LoopInvariant == DeviceSpec => []LoopInv
  <1>1. DeviceInit => LoopInv
    <2> SUFFICES ASSUME DeviceInit PROVE LoopInv
      OBVIOUS
    <2>1. /\ receiveQueue = << >> /\ immediates = 0 /\ loopScheduled = FALSE
          /\ hook = FALSE
      BY DEF DeviceInit
    <2>2. QED
      BY <2>1, EmptyQueue DEF LoopInv, LoopType, OneLoopScheduled, LateIsScheduled,
                              TimersAfterImmediates
  <1>2. QED
    BY <1>1, LoopInvInductive, PTL DEF DeviceSpec

\* main.ts:866-877: never two runLoop calls wait, and loopScheduled tells.
THEOREM LoopScheduledOnce == DeviceSpec => []OneLoopScheduled
  <1>1. LoopInv => OneLoopScheduled
    BY DEF LoopInv
  <1>2. QED
    BY <1>1, LoopInvariant, PTL

\* main.ts:857-860: no request that arrives while the loop runs waits for the
\* timer.
THEOREM AnswersDoNotWait == DeviceSpec => []AnsweredWithoutTimer
  <1>1. LoopInv => AnsweredWithoutTimer
    BY DEF LoopInv, LoopType, OneLoopScheduled, LateIsScheduled, TimersAfterImmediates,
           AnsweredWithoutTimer
  <1>2. QED
    BY <1>1, LoopInvariant, PTL

-----------------------------------------------------------------------------
(* The process and its exit                                                *)

ProcessTyped ==
    /\ stage \in Stages
    /\ loopPhase \in {"poll", "check", "timers"}
    /\ exitCode \in {"none", "ok", "failed", "signal"}
    /\ errors \in 0..MaxErrors
    /\ arrived \in SUBSET Requests /\ answered \in SUBSET Requests
FlagsTyped ==
    /\ socketHeld \in BOOLEAN /\ socketOpen \in BOOLEAN
    /\ timer \in BOOLEAN /\ keyInput \in BOOLEAN
    /\ stopping \in BOOLEAN /\ threw \in BOOLEAN

\* Every assignment to a flag is a truth value.
LEMMA FlagsTypedInductive == FlagsTyped /\ [DeviceNext]_deviceVars => FlagsTyped'
  <1> SUFFICES ASSUME FlagsTyped, [DeviceNext]_deviceVars
               PROVE  FlagsTyped'
    OBVIOUS
  <1> USE DEF FlagsTyped, Exit, UncaughtException, socketVars, processVars
  <1>1. CASE BindSucceeds \/ SetupFails \/ StartThrows \/ EarlySignal
    BY <1>1, Zenon DEF BindSucceeds, SetupFails, StartThrows, EarlySignal
  <1>2. CASE StartLoop
    BY <1>2, Zenon DEF StartLoop
  <1>3. CASE (\E r \in Requests : DatagramArrives(r)) \/ SocketError \/ ArrowKey \/ WorldMoves
    BY <1>3, Zenon DEF DatagramArrives, SocketError, ArrowKey, WorldMoves
  <1>4. CASE Shutdown \/ ShutdownThrows
    BY <1>4, Zenon DEF Shutdown, ShutdownThrows
  <1>5. CASE ImmediateRuns \/ TimerFires
    BY <1>5, Zenon DEF ImmediateRuns, TimerFires, RunLoop
  <1>6. CASE RunLoopThrows \/ PollDone \/ CheckDone \/ TimerNotDue \/ ProcessEnds
    BY <1>6, Zenon DEF RunLoopThrows, PollDone, CheckDone, TimerNotDue, EnterPhase, ProcessEnds
  <1>7. CASE UNCHANGED deviceVars
    BY <1>7, Zenon DEF deviceVars
  <1>8. QED
    BY <1>1, <1>2, <1>3, <1>4, <1>5, <1>6, <1>7, DeviceActions

\* The phases, the queues and the counters stay within their bounds.
LEMMA ProcessTypedInductive == LoopInv /\ ProcessTyped /\ [DeviceNext]_deviceVars => ProcessTyped'
  <1> SUFFICES ASSUME LoopInv, ProcessTyped, [DeviceNext]_deviceVars
               PROVE  ProcessTyped'
    OBVIOUS
  <1> USE DEF ProcessTyped, Stages, Exit, UncaughtException, socketVars, processVars, historyOfRequests
  <1>1. CASE BindSucceeds \/ SetupFails \/ StartLoop \/ StartThrows \/ EarlySignal
    BY <1>1 DEF BindSucceeds, SetupFails, StartLoop, StartThrows, EarlySignal
  <1>2. ASSUME NEW r \in Requests, DatagramArrives(r)
        PROVE  ProcessTyped'
    BY <1>2 DEF DatagramArrives
  <1>3. CASE SocketError
    BY <1>3, MaxErrorsAssumption DEF SocketError
  <1>4. CASE ArrowKey \/ WorldMoves \/ Shutdown \/ ShutdownThrows
    BY <1>4 DEF ArrowKey, WorldMoves, Shutdown, ShutdownThrows
  <1>5. CASE ImmediateRuns \/ TimerFires
    <2>1. Queued \subseteq Requests
      <3>1. \A i \in DOMAIN receiveQueue : receiveQueue[i] \in Datagram
        BY DEF LoopInv, LoopType
      <3>2. QED
        BY <3>1 DEF Queued, Datagram
    <2>2. answered' \subseteq Requests
      BY <1>5, <2>1 DEF ImmediateRuns, TimerFires, RunLoop
    <2>3. QED
      BY <1>5, <2>2 DEF ImmediateRuns, TimerFires
  <1>6. CASE RunLoopThrows \/ PollDone \/ CheckDone \/ TimerNotDue \/ ProcessEnds
    BY <1>6 DEF RunLoopThrows, PollDone, CheckDone, TimerNotDue, EnterPhase, ProcessEnds
  <1>7. CASE UNCHANGED deviceVars
    BY <1>7 DEF deviceVars
  <1>8. QED
    BY <1>1, <1>2, <1>3, <1>4, <1>5, <1>6, <1>7, DeviceActions

\* The variables of the device keep their types, the sensor's by the refinement.
THEOREM DeviceTypeCorrect == DeviceSpec => []DeviceTypeOK
  <1>1. DeviceInit => ProcessTyped /\ FlagsTyped
    <2>1. DeviceInit => ProcessTyped
      BY MaxErrorsAssumption DEF DeviceInit, ProcessTyped, Stages
    <2>2. DeviceInit => FlagsTyped
      BY Zenon DEF DeviceInit, FlagsTyped
    <2>3. QED
      BY <2>1, <2>2
  <1>2. TypeOK /\ LoopInv /\ ProcessTyped /\ FlagsTyped => DeviceTypeOK
    BY Zenon DEF LoopInv, LoopType, ProcessTyped, FlagsTyped, DeviceTypeOK
  <1>3. QED
    BY <1>1, <1>2, LoopInvariant, FlagsTypedInductive, ProcessTypedInductive, DeviceImplementsSensor,
       TypeCorrect, PTL DEF DeviceSpec, ImplementsSensor

\* Without a socket error the socket held is open, shutdown() comes after the set-up,
\* and there is no exit status before the end.
SocketUsable ==
    /\ errors = 0 /\ Alive => (socketHeld => socketOpen)
    /\ stopping => stage \in {"running", "exited"}
    /\ Alive => exitCode = "none"

\* main.ts:880-885: shutdown() may be called any number of times, in any state of
\* the loop: without a socket error the process ends with status 0.
THEOREM ShutdownExitsCleanly == DeviceSpec => []CleanExit
  <1>1. DeviceInit => SocketUsable /\ CleanExit
    BY Zenon DEF DeviceInit, SocketUsable, CleanExit
  <1>2. ProcessTyped /\ SocketUsable /\ CleanExit /\ [DeviceNext]_deviceVars => SocketUsable' /\ CleanExit'
    <2> SUFFICES ASSUME ProcessTyped, SocketUsable, CleanExit, [DeviceNext]_deviceVars
                 PROVE  SocketUsable' /\ CleanExit'
      OBVIOUS
    <2> USE DEF SocketUsable, CleanExit, Alive, Exit, UncaughtException, SendThrows, socketVars, processVars,
                InPoll
    <2>1. CASE BindSucceeds
      BY <2>1, Zenon DEF BindSucceeds
    <2>2. CASE SetupFails \/ EarlySignal
      <3>1. ~stopping /\ stopping' = stopping
        BY <2>2 DEF SetupFails, EarlySignal
      <3>2. stage' = "exited"
        BY <2>2 DEF SetupFails, EarlySignal
      <3>3. QED
        BY <3>1, <3>2
    <2>3. CASE StartLoop
      BY <2>3, Zenon DEF StartLoop
    <2>4. CASE StartThrows \/ ShutdownThrows \/ RunLoopThrows
      <3>1. errors # 0 /\ errors' = errors /\ stage' = "exited"
        BY <2>4 DEF StartThrows, ShutdownThrows, RunLoopThrows
      <3>2. QED
        BY <3>1
    <2>5. CASE SocketError
      <3>1. errors' # 0
        BY <2>5, MaxErrorsAssumption DEF SocketError, ProcessTyped
      <3>2. UNCHANGED <<stage, stopping, exitCode>>
        BY <2>5 DEF SocketError
      <3>3. QED
        BY <3>1, <3>2
    <2>6. CASE Shutdown
      <3>1. stage = "running" /\ stage' = stage /\ exitCode' = exitCode /\ exitCode = "none"
        BY <2>6 DEF Shutdown
      <3>2. ~socketHeld'
        BY <2>6, Zenon DEF Shutdown
      <3>3. QED
        BY <3>1, <3>2
    <2>7. CASE ProcessEnds
      BY <2>7, Zenon DEF ProcessEnds
    <2>8. CASE \/ \E r \in Requests : DatagramArrives(r)
               \/ ArrowKey \/ WorldMoves \/ ImmediateRuns \/ TimerFires
               \/ PollDone \/ CheckDone \/ TimerNotDue
               \/ UNCHANGED deviceVars
      <3>1. UNCHANGED <<stage, errors, socketHeld, socketOpen, stopping, exitCode>>
        BY <2>8 DEF DatagramArrives, ArrowKey, WorldMoves, ImmediateRuns, TimerFires, PollDone, CheckDone,
                    TimerNotDue, EnterPhase, deviceVars
      <3>2. QED
        BY <3>1
    <2>9. QED
      BY <2>1, <2>2, <2>3, <2>4, <2>5, <2>6, <2>7, <2>8, DeviceActions
  <1>3. DeviceInit => ProcessTyped
    BY MaxErrorsAssumption DEF DeviceInit, ProcessTyped, Stages
  <1>4. QED
    BY <1>1, <1>2, <1>3, LoopInvariant, ProcessTypedInductive, PTL DEF DeviceSpec

-----------------------------------------------------------------------------
(* The transport callbacks and the device's own address.                   *)

\* What the send callback looks up is what main() captured.
SameInterface == started \in {"captured", "running"} => GetLocalIPv4 = reported

\* Nothing is sent before the address is captured.
NothingSentYet == started \in {"bound", "discovered"} => sent.for = "nothing"

TransportInv ==
    /\ interfaces \in InterfaceLists
    /\ SameInterface
    /\ NothingSentYet
    /\ BroadcastOnReportedNetwork

-----------------------------------------------------------------------------
\* The interface with the address GetLocalIPv4 looks for is the only one
\* with it, so the lookup finds that interface wherever the list has it.
LEMMA LookupFinds ==
    ASSUME NEW list \in InterfaceLists, NEW i \in 1..Len(list)
    PROVE  LocalIPv4(list, list[i].address) = list[i]
<1>1. list # <<>> /\ list[i].address \in Addresses(list)
  BY InterfaceListsAssumption DEF Addresses
<1>2. \A k \in 1..Len(list) : list[k].address = list[i].address => k = i
  BY InterfaceListsAssumption
<1>3. (CHOOSE k \in 1..Len(list) : list[k].address = list[i].address) = i
  BY <1>2
<1> QED
  BY <1>1, <1>3 DEF LocalIPv4

\* A change that keeps the interface in use does not change what
\* GetLocalIPv4 returns, whatever it does to the rest of the list.
LEMMA KeptKeeps ==
    ASSUME interfaces \in InterfaceLists, NEW list \in InterfaceLists,
           Kept(list), started # "bound"
    PROVE  LocalIPv4(list, primary) = GetLocalIPv4
<1>1. CASE interfaces = <<>> /\ list = <<>>
  BY <1>1 DEF LocalIPv4, GetLocalIPv4
<1>2. CASE interfaces # <<>> /\ primary \in Addresses(interfaces)
  <2>1. PICK k \in 1..Len(interfaces) : interfaces[k].address = primary
    BY <1>2 DEF Addresses
  <2>2. GetLocalIPv4 = interfaces[k]
    BY <2>1, LookupFinds DEF GetLocalIPv4
  <2>3. PICK i \in 1..Len(list) : list[i] = GetLocalIPv4
    BY <1>2 DEF Kept
  <2>4. list[i].address = primary
    BY <2>1, <2>2, <2>3
  <2> QED
    BY <2>3, <2>4, LookupFinds
<1>3. CASE interfaces # <<>> /\ primary \notin Addresses(interfaces)
  <2>1. /\ list[1] = GetLocalIPv4
        /\ primary \notin Addresses(list)
        /\ \E i \in 1..Len(list) : list[i] = GetLocalIPv4
    BY <1>3 DEF Kept
  <2>2. list # <<>>
    BY <2>1
  <2> QED
    BY <2>1, <2>2 DEF LocalIPv4
<1> QED
  BY <1>1, <1>2, <1>3 DEF Kept

\* With the interface in use kept, TransportInv is inductive.
LEMMA TransportInvInductive ==
    ASSUME PrimaryStays, TransportInv, [TransportNext]_transportVars
    PROVE  TransportInv'
<1> USE DEF TransportInv, SameInterface, NothingSentYet, BroadcastOnReportedNetwork
<1>1. CASE DiscoverPrimaryIPv4 \/ DiscoverFails
  BY <1>1 DEF DiscoverPrimaryIPv4, DiscoverFails
<1>2. CASE CaptureAddress
  BY <1>2 DEF CaptureAddress, GetLocalIPv4
<1>3. CASE InterfacesChange
  <2>1. interfaces' \in InterfaceLists /\ Kept(interfaces') /\ started' = started
        /\ primary' = primary /\ reported' = reported /\ sent' = sent
    BY <1>3 DEF InterfacesChange
  <2>2. started # "bound" => LocalIPv4(interfaces', primary) = GetLocalIPv4
    BY <2>1, KeptKeeps
  <2> QED
    BY <2>1, <2>2 DEF GetLocalIPv4
<1>4. CASE SendOnDataLink
  BY <1>4 DEF SendOnDataLink, GetLocalIPv4
<1>5. CASE SendIAm
  <2>1. SendTo(Broadcast(GetLocalIPv4), TRUE, TRUE) = Broadcast(GetLocalIPv4)
    BY DEF SendTo
  <2> QED
    BY <1>5, <2>1 DEF SendIAm, GetLocalIPv4
<1>6. CASE SendToOwnAddress
  <2>1. GetLocalIPv4 = reported
    BY <1>6 DEF SendToOwnAddress
  <2>2. SendTo(reported.address, TRUE, TRUE) = Broadcast(reported)
    BY <2>1 DEF SendTo
  <2> QED
    BY <1>6, <2>2 DEF SendToOwnAddress, GetLocalIPv4
<1>7. CASE SendRefused
  BY <1>7 DEF SendRefused, Nothing, GetLocalIPv4
<1>8. CASE \E peer \in Peers, ownPort \in BOOLEAN : SendAnswer(peer, ownPort)
  BY <1>8 DEF SendAnswer, GetLocalIPv4
<1>9. CASE UNCHANGED transportVars
  BY <1>9 DEF transportVars, GetLocalIPv4
<1> QED
  BY <1>1, <1>2, <1>3, <1>4, <1>5, <1>6, <1>7, <1>8, <1>9 DEF TransportNext

\* While the interface chosen at start-up keeps its address, every broadcast
\* goes to the network the Network Port object reports, for every set of
\* interface lists and every number of changes.
THEOREM BroadcastsStayOnNetwork ==
    ASSUME PrimaryStays
    PROVE  TransportSpec => []BroadcastOnReportedNetwork
<1>1. TransportInit => TransportInv
  BY DEF TransportInit, TransportInv, SameInterface, NothingSentYet,
         BroadcastOnReportedNetwork, Nothing
<1>2. TransportInv /\ [TransportNext]_transportVars => TransportInv'
  BY TransportInvInductive
<1>3. TransportInv => BroadcastOnReportedNetwork
  BY DEF TransportInv
<1> QED
  BY <1>1, <1>2, <1>3, PTL DEF TransportSpec

-----------------------------------------------------------------------------
Interface == [address : Nat, size : Nat \ {0}]

\* What is looked up is loopback or an interface of the list.
LEMMA LookupListed ==
    ASSUME NEW list \in InterfaceLists, NEW wanted
    PROVE  \/ LocalIPv4(list, wanted) = Loopback
           \/ \E i \in 1..Len(list) : LocalIPv4(list, wanted) = list[i]
<1>1. list \in Seq(Interface)
  BY InterfaceListsAssumption DEF Interface
<1>2. CASE list # <<>> /\ wanted \in Addresses(list)
  <2>1. \E i \in 1..Len(list) : list[i].address = wanted
    BY <1>2 DEF Addresses
  <2>2. (CHOOSE i \in 1..Len(list) : list[i].address = wanted) \in 1..Len(list)
    BY <2>1
  <2> QED
    BY <1>2, <2>2 DEF LocalIPv4
<1>3. CASE list # <<>> /\ wanted \notin Addresses(list)
  BY <1>1, <1>3 DEF LocalIPv4
<1>4. CASE list = <<>>
  BY <1>4 DEF LocalIPv4
<1> QED
  BY <1>2, <1>3, <1>4

\* What GetLocalIPv4 finds, the fallback included, is an interface.
LEMMA LookupTyped ==
    ASSUME NEW list \in InterfaceLists, NEW wanted
    PROVE  LocalIPv4(list, wanted) \in Interface
<1>1. list \in Seq(Interface)
  BY InterfaceListsAssumption DEF Interface
<1>2. Loopback \in Interface
  BY DEF Loopback, Interface
<1> QED
  BY <1>1, <1>2, LookupListed

\* The broadcast address is a number: the host part is less than the subnet's size.
LEMMA BroadcastTyped ==
    ASSUME NEW interface \in Interface
    PROVE  Broadcast(interface) \in Nat
<1>1. interface.address \in Nat /\ interface.size \in Nat \ {0}
  BY DEF Interface
<1>2. interface.address % interface.size \in 0..interface.size-1
  BY <1>1
<1> QED
  BY <1>1, <1>2 DEF Broadcast

\* Every destination is an address, whatever happens to the interfaces.
THEOREM TransportTypeCorrect == TransportSpec => []TransportTypeOK
<1>1. TransportInit => TransportTypeOK
  BY MaxChangesAssumption DEF TransportInit, TransportTypeOK, Nothing, Destination, Purposes
<1>2. TransportTypeOK /\ [TransportNext]_transportVars => TransportTypeOK'
  <2> SUFFICES ASSUME TransportTypeOK, [TransportNext]_transportVars
               PROVE  TransportTypeOK'
    OBVIOUS
  <2> USE MaxChangesAssumption DEF TransportTypeOK
  <2>1. GetLocalIPv4 \in Interface
    BY LookupTyped DEF GetLocalIPv4
  <2>2. Broadcast(GetLocalIPv4) \in Nat
    BY <2>1, BroadcastTyped
  <2>3. \A ip \in Nat, ownPort, broadcast \in BOOLEAN : SendTo(ip, ownPort, broadcast) \in Nat
    BY <2>2 DEF SendTo
  <2>4. CASE DiscoverPrimaryIPv4
    <3>1. PICK i \in 1..Len(interfaces) : primary' = interfaces[i].address
      BY <2>4 DEF DiscoverPrimaryIPv4, Addresses
    <3>2. interfaces \in Seq(Interface)
      BY InterfaceListsAssumption, Zenon DEF Interface
    <3>3. interfaces[i] \in Interface
      BY <3>2
    <3>4. primary' \in Nat
      BY <3>1, <3>3 DEF Interface
    <3> QED
      BY <2>4, <3>4 DEF DiscoverPrimaryIPv4
  <2>5. CASE DiscoverFails
    BY <2>5 DEF DiscoverFails
  <2>6. CASE CaptureAddress
    BY <2>1, <2>6 DEF CaptureAddress, Interface
  <2>7. CASE InterfacesChange
    BY <2>7 DEF InterfacesChange
  <2>8. CASE SendOnDataLink
    BY <2>2, <2>8 DEF SendOnDataLink, Destination, Purposes
  <2>9. CASE SendIAm
    BY <2>2, <2>3, <2>9 DEF SendIAm, Destination, Purposes
  <2>10. CASE SendToOwnAddress
    <3>1. SendTo(reported.address, TRUE, TRUE) \in Nat
      BY <2>3
    <3> QED
      BY <2>10, <3>1 DEF SendToOwnAddress, Destination, Purposes
  <2>11. CASE SendRefused
    BY <2>11 DEF SendRefused, Nothing, Destination, Purposes
  <2>12. ASSUME NEW peer \in Peers, NEW ownPort \in BOOLEAN, SendAnswer(peer, ownPort)
         PROVE  TransportTypeOK'
    <3>1. peer \in Nat /\ SendTo(peer, ownPort, FALSE) \in Nat
      BY <2>3, PeersAssumption
    <3> QED
      BY <2>12, <3>1 DEF SendAnswer, Destination, Purposes
  <2>13. CASE UNCHANGED transportVars
    BY <2>13 DEF transportVars
  <2> QED
    BY <2>4, <2>5, <2>6, <2>7, <2>8, <2>9, <2>10, <2>11, <2>12, <2>13 DEF TransportNext
<1> QED
  BY <1>1, <1>2, PTL DEF TransportSpec

\* The interface reported is one whose broadcast address is not its own.
ReportedIsHost == started \in {"captured", "running"} => Broadcast(reported) # reported.address

\* CASExampleHelper.ts: while the interface in use keeps its address, and no interface
\* has the broadcast address of its own subnet, a broadcast never goes to the device
\* itself, also when the stack addresses it to this socket.
THEOREM BroadcastsLeaveTheDevice ==
    ASSUME PrimaryStays,
           \A list \in InterfaceLists : \A i \in 1..Len(list) :
             Broadcast(list[i]) # list[i].address
    PROVE  TransportSpec => []BroadcastLeavesTheDevice
<1>1. TransportInit => TransportInv /\ ReportedIsHost
  BY DEF TransportInit, TransportInv, SameInterface, NothingSentYet,
         BroadcastOnReportedNetwork, Nothing, ReportedIsHost
<1>2. TransportInv /\ ReportedIsHost /\ [TransportNext]_transportVars => TransportInv' /\ ReportedIsHost'
  <2> SUFFICES ASSUME TransportInv, ReportedIsHost, [TransportNext]_transportVars
               PROVE  ReportedIsHost'
    BY TransportInvInductive
  <2>1. CASE CaptureAddress
    <3>1. reported' = GetLocalIPv4 /\ interfaces \in InterfaceLists
      BY <2>1 DEF CaptureAddress, TransportInv
    <3>2. Broadcast(Loopback) # Loopback.address
      BY DEF Broadcast, Loopback
    <3>3. Broadcast(GetLocalIPv4) # GetLocalIPv4.address
      BY <3>1, <3>2, LookupListed DEF GetLocalIPv4
    <3> QED
      BY <3>1, <3>3 DEF ReportedIsHost
  <2>2. CASE ~CaptureAddress
    BY <2>2 DEF TransportNext, DiscoverPrimaryIPv4, DiscoverFails, InterfacesChange,
                SendOnDataLink, SendIAm, SendToOwnAddress, SendRefused, SendAnswer, transportVars,
                ReportedIsHost
  <2> QED
    BY <2>1, <2>2
<1>3. TransportInv /\ ReportedIsHost /\ TransportTypeOK => BroadcastLeavesTheDevice
  BY DEF TransportInv, TransportTypeOK, BroadcastOnReportedNetwork, NothingSentYet, BroadcastLeavesTheDevice,
         ReportedIsHost
<1> QED
  BY <1>1, <1>2, <1>3, TransportTypeCorrect, PTL DEF TransportSpec
=============================================================================
