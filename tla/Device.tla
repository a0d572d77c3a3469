------------------------------- MODULE Device -------------------------------
(***************************************************************************)
(* The device process: main() from the bind to the exit, SimpleUDP's queue *)
(* and the Node event loop that runs runLoop.  The sensor Simulation is    *)
(* the module Sensor; runLoop steps it after the stack has been drained.   *)
(*                                                                         *)
(* One JavaScript callback is one action: nothing else runs before it      *)
(* returns.  Node calls them in a fixed cycle: "poll" (socket, key and     *)
(* signal events), "check" (the setImmediate queue), "timers".             *)
(*                                                                         *)
(* External, modelled from how main.ts and the helper use them: the CAS    *)
(* BACnet Stack (BACnetStack_Tick takes one datagram from the receive      *)
(* callback, answers it through the send callback and reports that it did  *)
(* work; every set-up call may be refused) and Node's dgram sockets.       *)
(***************************************************************************)
EXTENDS Sensor, Sequences

CONSTANTS
    Requests,      \* the requests clients may send, each at most once
    MaxErrors      \* bound: socket errors reported after the bind

ASSUME MaxErrorsAssumption == MaxErrors \in Nat

VARIABLES
    stage,         \* how far main() got
    loopPhase,     \* the event loop's phase
    receiveQueue,  \* SimpleUDP.receiveQueue
    hook,          \* SimpleUDP.onDatagramQueued # null
    socketHeld,    \* SimpleUDP.socket # null
    socketOpen,    \* the operating system's socket is bound
    loopScheduled, \* main's loopScheduled
    immediates,    \* runLoop calls waiting in the setImmediate queue
    timer,         \* the 10 ms interval is set
    keyInput,      \* StartKeyInput is listening
    exitCode,      \* the exit status, or "none" while the process lives
    arrived,       \* history: requests SimpleUDP received
    answered,      \* history: requests whose answer reached the network
    stopping,      \* history: shutdown was called
    errors,        \* history: socket errors so far
    threw          \* history: a socket call raised an exception

queueVars == <<receiveQueue, hook, loopScheduled, immediates>>
socketVars == <<socketHeld, socketOpen, errors>>
processVars == <<stage, timer, keyInput, exitCode, stopping, threw>>
historyOfRequests == <<arrived, answered>>
deviceVars == <<sensorVars, loopPhase, queueVars, socketVars, processVars, historyOfRequests>>

Stages == {"binding", "discovering", "running", "exited"}

\* early: the request arrived before main() installed the hook.
Datagram == [request : Requests, early : BOOLEAN]

DeviceTypeOK ==
    /\ TypeOK
    /\ stage \in Stages
    /\ loopPhase \in {"poll", "check", "timers"}
    /\ receiveQueue \in Seq(Datagram)
    /\ hook \in BOOLEAN
    /\ socketHeld \in BOOLEAN
    /\ socketOpen \in BOOLEAN
    /\ loopScheduled \in BOOLEAN
    /\ immediates \in Nat
    /\ timer \in BOOLEAN
    /\ keyInput \in BOOLEAN
    /\ exitCode \in {"none", "ok", "failed", "signal"}
    /\ arrived \in SUBSET Requests
    /\ answered \in SUBSET Requests
    /\ stopping \in BOOLEAN
    /\ errors \in 0..MaxErrors
    /\ threw \in BOOLEAN

DeviceInit ==
    /\ SensorInit
    /\ stage = "binding"
    /\ loopPhase = "poll"
    /\ receiveQueue = <<>>
    /\ hook = FALSE
    /\ socketHeld = FALSE
    /\ socketOpen = FALSE
    /\ loopScheduled = FALSE
    /\ immediates = 0
    /\ timer = FALSE
    /\ keyInput = FALSE
    /\ exitCode = "none"
    /\ arrived = {}
    /\ answered = {}
    /\ stopping = FALSE
    /\ errors = 0
    /\ threw = FALSE

-----------------------------------------------------------------------------
(* Leaving the process                                                     *)

\* The process is gone: whatever it held is closed.
Exit(code) ==
    /\ stage' = "exited"
    /\ exitCode' = code
    /\ socketOpen' = FALSE
    /\ timer' = FALSE
    /\ keyInput' = FALSE
    /\ immediates' = 0

\* An exception nobody catches ends the process.
UncaughtException ==
    /\ threw' = TRUE
    /\ Exit("failed")
    /\ UNCHANGED <<socketHeld, hook, loopScheduled, stopping, errors>>

\* A socket that an error closed is still held: using it raises
\* ERR_SOCKET_DGRAM_NOT_RUNNING.
SendThrows == socketHeld /\ ~socketOpen

Alive == stage # "exited"
InPoll == Alive /\ loopPhase = "poll"

-----------------------------------------------------------------------------
(* main(): bind, discover the address, set the stack up, start the loop    *)

BindSucceeds ==
    /\ stage = "binding"
    /\ socketOpen' = TRUE
    /\ socketHeld' = TRUE
    /\ stage' = "discovering"
    /\ UNCHANGED <<sensorVars, loopPhase, queueVars, errors, timer, keyInput, exitCode,
                   stopping, threw, historyOfRequests>>

\* The bind fails, or a later set-up call is refused: fail(), exit status 1.
SetupFails ==
    /\ stage \in {"binding", "discovering"}
    /\ Exit("failed")
    /\ UNCHANGED <<sensorVars, loopPhase, receiveQueue, hook, loopScheduled, socketHeld,
                   errors, stopping, threw, historyOfRequests>>

\* Mutant: the interval is not set; the loop runs from the hook alone.
MutNoInterval ==
    /\ stage = "discovering" /\ InPoll
    /\ stage' = "running"
    /\ hook' = TRUE
    /\ keyInput' = TRUE
    /\ UNCHANGED <<sensorVars, loopPhase, receiveQueue, loopScheduled, immediates, timer,
                   socketVars, exitCode, stopping, threw, historyOfRequests>>

\* DiscoverPrimaryIPv4 resolved: the rest of main() runs without a pause, from
\* the callbacks' registration and the I-Am to the signal handlers.
StartLoop ==
    /\ stage = "discovering" /\ InPoll
    /\ stage' = "running"
    /\ timer' = TRUE
    /\ hook' = TRUE
    /\ keyInput' = TRUE
    /\ threw' = (threw \/ SendThrows)
    /\ UNCHANGED <<sensorVars, loopPhase, receiveQueue, loopScheduled, immediates,
                   socketVars, exitCode, stopping, historyOfRequests>>

\* The I-Am's Send raised and the exception left BACnetStack_SendIAm: main()
\* rejects and the catch at the end of main.ts exits with status 1.
StartThrows ==
    /\ stage = "discovering" /\ InPoll
    /\ SendThrows
    /\ UncaughtException
    /\ UNCHANGED <<sensorVars, loopPhase, receiveQueue, historyOfRequests>>

\* Before main() registered its handlers SIGINT and SIGTERM kill the process.
EarlySignal ==
    /\ stage \in {"binding", "discovering"}
    /\ Exit("signal")
    /\ UNCHANGED <<sensorVars, loopPhase, receiveQueue, hook, loopScheduled, socketHeld,
                   errors, stopping, threw, historyOfRequests>>

-----------------------------------------------------------------------------
(* Poll: socket, key and signal events                                     *)

\* onDatagramQueued: at most one runLoop waits in the setImmediate queue.
ScheduleLoop ==
    /\ loopScheduled' = (loopScheduled \/ hook)
    /\ immediates' = IF hook /\ ~loopScheduled THEN immediates + 1 ELSE immediates

\* The socket's "message" event: queue the datagram, then call the hook.
DatagramArrives(r) ==
    /\ InPoll /\ socketOpen
    /\ r \notin arrived
    /\ arrived' = arrived \union {r}
    /\ receiveQueue' = Append(receiveQueue, [request |-> r, early |-> ~hook])
    /\ ScheduleLoop
    /\ UNCHANGED <<sensorVars, loopPhase, hook, socketVars, processVars, answered>>

\* The socket's "error" event after the bind: Setup's handler, armed with once,
\* closes the socket and rejects a promise that is already settled.
SocketError ==
    /\ InPoll /\ socketOpen
    /\ errors < MaxErrors
    /\ errors' = errors + 1
    /\ socketOpen' = FALSE
    /\ UNCHANGED <<sensorVars, loopPhase, queueVars, socketHeld, processVars,
                   historyOfRequests>>

\* Mutant: Shutdown closes the socket but keeps the reference.
MutKeepReference ==
    /\ stage = "running" /\ InPoll
    /\ socketOpen \/ ~socketHeld
    /\ timer' = FALSE
    /\ hook' = FALSE
    /\ keyInput' = FALSE
    /\ socketOpen' = FALSE
    /\ stopping' = TRUE
    /\ UNCHANGED <<sensorVars, loopPhase, receiveQueue, loopScheduled, immediates,
                   socketHeld, errors, stage, exitCode, threw, historyOfRequests>>

\* Mutant: shutdown does not clear the interval.
MutKeepInterval ==
    /\ stage = "running" /\ InPoll
    /\ socketOpen \/ ~socketHeld
    /\ hook' = FALSE
    /\ keyInput' = FALSE
    /\ socketOpen' = FALSE
    /\ socketHeld' = FALSE
    /\ stopping' = TRUE
    /\ UNCHANGED <<sensorVars, loopPhase, receiveQueue, loopScheduled, immediates,
                   timer, errors, stage, exitCode, threw, historyOfRequests>>

\* shutdown, from the q key, Ctrl+C or a signal; it may be called again.
Shutdown ==
    /\ stage = "running" /\ InPoll
    /\ socketOpen \/ ~socketHeld
    /\ timer' = FALSE
    /\ hook' = FALSE
    /\ keyInput' = FALSE
    /\ socketOpen' = FALSE
    /\ socketHeld' = FALSE
    /\ stopping' = TRUE
    /\ UNCHANGED <<sensorVars, loopPhase, receiveQueue, loopScheduled, immediates,
                   errors, stage, exitCode, threw, historyOfRequests>>

\* shutdown when an error already closed the socket: close raises.
ShutdownThrows ==
    /\ stage = "running" /\ InPoll
    /\ SendThrows
    /\ threw' = TRUE
    /\ stopping' = TRUE
    /\ hook' = FALSE
    /\ Exit("failed")
    /\ UNCHANGED <<sensorVars, loopPhase, receiveQueue, loopScheduled, socketHeld,
                   errors, historyOfRequests>>

\* An arrow key.
ArrowKey ==
    /\ stage = "running" /\ InPoll /\ keyInput
    /\ ArrowUp \/ ArrowDown
    /\ UNCHANGED <<loopPhase, queueVars, socketVars, processVars, historyOfRequests>>

-----------------------------------------------------------------------------
(* Check and timers: runLoop                                               *)

Queued == {receiveQueue[i].request : i \in DOMAIN receiveQueue}

\* Mutant: one BACnetStack_Tick per runLoop instead of the drain.
MutOneTick ==
    /\ loopScheduled' = FALSE
    /\ receiveQueue' = IF receiveQueue = <<>> THEN <<>> ELSE Tail(receiveQueue)
    /\ answered' = IF socketOpen /\ receiveQueue # <<>>
                   THEN answered \union {Head(receiveQueue).request} ELSE answered
    /\ threw' = (threw \/ (SendThrows /\ receiveQueue # <<>>))
    /\ SensorSimulationTick

\* Mutant: the Simulation moves on every loop, not once a second.
MutRampEveryLoop ==
    /\ loopScheduled' = FALSE
    /\ receiveQueue' = <<>>
    /\ answered' = IF socketOpen THEN answered \union Queued ELSE answered
    /\ threw' = (threw \/ (SendThrows /\ receiveQueue # <<>>))
    /\ RampStep
    /\ UNCHANGED <<clock, lastSecond, reliability, binaryInput1, multiStateInput1,
                   worldVars, historyVars>>

\* runLoop: every queued datagram is taken, and answered if the socket is
\* open (after Shutdown Send returns 0); then the Simulation steps.
RunLoop ==
    /\ loopScheduled' = FALSE
    /\ receiveQueue' = <<>>
    /\ answered' = IF socketOpen THEN answered \union Queued ELSE answered
    /\ threw' = (threw \/ (SendThrows /\ receiveQueue # <<>>))
    /\ SensorSimulationTick

\* The setImmediate queue runs before the loop goes on to its timers.
ImmediateRuns ==
    /\ Alive /\ loopPhase = "check" /\ immediates > 0
    /\ immediates' = immediates - 1
    /\ RunLoop
    /\ UNCHANGED <<loopPhase, hook, socketVars, stage, timer, keyInput, exitCode,
                   stopping, arrived>>

\* The 10 ms interval is due.
TimerFires ==
    /\ Alive /\ loopPhase = "timers" /\ timer
    /\ loopPhase' = "poll"
    /\ RunLoop
    /\ UNCHANGED <<hook, immediates, socketVars, stage, timer, keyInput, exitCode,
                   stopping, arrived>>

\* An answer's Send raised and the exception left BACnetStack_Tick and runLoop.
RunLoopThrows ==
    /\ Alive /\ SendThrows /\ receiveQueue # <<>>
    /\ \/ loopPhase = "check" /\ immediates > 0
       \/ loopPhase = "timers" /\ timer
    /\ UncaughtException
    /\ UNCHANGED <<sensorVars, loopPhase, receiveQueue, historyOfRequests>>

\* The loop moves on: from poll to check, and from check, the immediates done,
\* to the timers.
EnterPhase(from, to) ==
    /\ Alive /\ loopPhase = from
    /\ loopPhase' = to
    /\ UNCHANGED <<sensorVars, queueVars, socketVars, processVars, historyOfRequests>>

PollDone == EnterPhase("poll", "check")
CheckDone == immediates = 0 /\ EnterPhase("check", "timers")
TimerNotDue == EnterPhase("timers", "poll")

\* Nothing is left that keeps the event loop alive: the process ends.
ProcessEnds ==
    /\ stage = "running"
    /\ ~timer /\ ~keyInput /\ ~socketOpen /\ immediates = 0
    /\ Exit("ok")
    /\ UNCHANGED <<sensorVars, loopPhase, receiveQueue, hook, loopScheduled, socketHeld,
                   errors, stopping, threw, historyOfRequests>>

\* Time passes, and a wire test breaks or repairs the wire.
WorldMoves ==
    /\ SecondPasses \/ WireChanges
    /\ UNCHANGED <<loopPhase, queueVars, socketVars, processVars, historyOfRequests>>

-----------------------------------------------------------------------------
MainSteps == BindSucceeds \/ SetupFails \/ StartLoop \/ StartThrows \/ EarlySignal

PollSteps ==
    \/ \E r \in Requests : DatagramArrives(r)
    \/ SocketError
    \/ Shutdown
    \/ ShutdownThrows
    \/ ArrowKey

LoopSteps ==
    \/ ImmediateRuns
    \/ TimerFires
    \/ RunLoopThrows
    \/ PollDone
    \/ CheckDone
    \/ TimerNotDue
    \/ ProcessEnds

DeviceNext == MainSteps \/ PollSteps \/ LoopSteps \/ WorldMoves

\* The event loop keeps cycling, an interval that is due infinitely often is
\* served, and main()'s promises settle.  Nothing is assumed of the network,
\* the keys, the signals or the wire.
DeviceFairness ==
    /\ WF_deviceVars(PollDone)
    /\ WF_deviceVars(ImmediateRuns \/ CheckDone \/ RunLoopThrows)
    /\ WF_deviceVars(TimerFires \/ TimerNotDue)
    /\ SF_deviceVars(TimerFires)
    /\ WF_deviceVars(BindSucceeds \/ SetupFails)
    /\ SF_deviceVars(StartLoop \/ StartThrows)
    /\ WF_deviceVars(ProcessEnds)

DeviceSpec == DeviceInit /\ [][DeviceNext]_deviceVars /\ DeviceFairness

-----------------------------------------------------------------------------
(* Properties                                                              *)

\* main.ts:866-877: loopScheduled is true exactly while one runLoop waits in
\* the setImmediate queue; two never wait.
OneLoopScheduled ==
    Alive => immediates = IF loopScheduled THEN 1 ELSE 0

\* main.ts:857-860: a request that arrives while the loop runs is answered in
\* the same turn of the event loop; only those that came before the hook was
\* installed may wait for the timer.
AnsweredWithoutTimer ==
    Alive /\ loopPhase = "timers" =>
        \A i \in DOMAIN receiveQueue : receiveQueue[i].early

\* Every request SimpleUDP received is answered, unless the device stops, its
\* socket fails, or it never finished starting.
EveryRequestAnswered ==
    \A r \in Requests :
        r \in arrived ~> (r \in answered \/ stopping \/ errors > 0 \/ ~Alive)

\* main.ts:880-885: once shutdown is called the process ends.
ShutdownEnds == stopping ~> ~Alive

\* shutdown may be called any number of times, in any state of the loop: only
\* a failed set-up or a socket error makes the exit status non-zero.
CleanExit == stopping /\ errors = 0 => exitCode \in {"none", "ok"}

\* Every step of the device is a step of the sensor, or leaves it alone, so
\* the sensor's invariants hold of the whole device.
ImplementsSensor == SensorSafety

\* SimpleUDP.ts:86-90: "a send error is logged, not thrown".
SendNeverThrows == ~threw
=============================================================================
