# A verification project for BACnetProfileExample-B-SS-Node

The repository is an example BACnet device: a *smart sensor* (profile B-SS)
written in TypeScript on the CAS BACnet Stack, with wire tests in Python that
run the device as a program and talk to it over UDP.  This directory holds TLA+
models of both halves, TLC configurations that check them on small instances,
and TLAPS proofs of what matters most for every instance.

`PROJECT.json` lists the runs, maps every definition to the lines it stands for
and names the hazards, findings and theorems.

## 1. The system

### The device (`main.ts`, `common/`)

| Component | State | Operations | Module |
|---|---|---|---|
| Sensor Simulation (`main.ts` section 2) | reading, ramp direction, Reliability, Binary and Multi-State Input, the second last acted on | `SensorSimulationTick` once a second; arrow keys; a file that breaks the wire | `Sensor` |
| Event loop (`main()`, `SimpleUDP`) | receive queue, hook, `loopScheduled`, interval, key input, socket, exit status | bind, discover, start, datagram event, `runLoop` from the interval or `setImmediate`, socket error, `shutdown`, signals | `Device` (extends `Sensor`) |
| BACnet Surface (`main.ts` sections 1, 3, 4) | command line, accepted set-up calls, identity | three argument parsers, the ordered set-up calls, I-Am, six Get callbacks | `Surface` |
| Transport callbacks, own address (`CASExampleHelper.ts`) | interface list, primary address, reported address | `DiscoverPrimaryIPv4`, `GetLocalIPv4`, `SendIAm`, the send callback | `Transport` |
| Start-up (`main()`) | the two above | the set-up in the order of `main()`, on a host whose interfaces change | `Startup` (extends `Surface` and `Transport`) |
| CAS BACnet Stack | external | `BACnetStack_Tick`, `ReadProperty`, set-up calls | in each of the above, by its use |

The stack is a native library that calls back into the program: for every
datagram (receive callback), for every frame it sends (send callback) and for
every property a client reads (Get callbacks).  `runLoop` calls
`BACnetStack_Tick` until it reports no work, then steps the Simulation.  It runs
from a 10 ms interval and, so that an answer need not wait for that, from
`setImmediate` when a datagram was queued.

### The wire tests (`wiretest/`, `tests/`)

| Component | State | Operations | Module |
|---|---|---|---|
| Client and Endpoint | invoke id, frames kept | `request` with retries, `wait_for` | `Client` |
| SimulationControl | a UDP socket | `ask`: drain, send, wait, retry | `Control` |
| SimulatedServer | mode, failures, objects, priority arrays, write log | a background thread answers; the test switches mode and failures and reads values | `PeerServer` |
| Workstation | answers, notifications, a lock and a condition | requesting threads, `wait_for_notification`, the serving thread, `close` | `Workstation` |
| Program, IAmBroadcasts | the example's console and process, a console offset, a socket | `start`, `wait_for_output`, `wait_for_text`, `mark`, `counts`, `stop` | `Program` |
| codec, services, alarm | none | encode and decode values, APDUs, NPDUs and BVLL frames | `Codec`, `Apdu`, `Services` |
| SimulatedDevice, Client's reads | what the peer serves | a datagram sent, routed, decoded, answered and read | `Wire` |

`Exchange` is the abstract specification of a confirmed request as the callers
of `Client` and `Workstation` see it; both are shown to implement it.

### What is hard to test

Where it bites, line by line, is the `hazards` list of `PROJECT.json`.  In
short: two triggers for one loop and a flag between them; a shutdown with a run
of the loop still scheduled; a socket that fails after the bind; an event loop
that stalls over a second; an address looked up twice at different times;
properties the stack quietly makes up when a callback declines; answers without
an identifier, or with one that wraps; a mode a test may switch while a thread
is half way through a request; threads that wait on one condition for different
things; a process that ends between two looks at it; lengths at which an
encoding changes form, and datagrams that lose their end.

## 2. Modules

Each system module has an `MC…` module for TLC and, where it is proved about, a
`…Proofs` module.  No module uses a RECURSIVE operator.  Every property of a
passing run has a mutant: a definition `Mut…` beside the one it replaces, a
plausible bug under which TLC finds the property violated.  Where the code breaks
what its own text says, that statement is a property of its own with a
configuration in which TLC finds it violated (section 5), and the passing runs
check what the code does ensure.

### `Sensor`

One action per thing that touches the Simulation: `SecondPasses`, `WireChanges`,
`SensorSimulationTick` (the early return `SimulationIdle`, or `SimulationStep`),
`ArrowUp`, `ArrowDown`.  Temperatures are integers in tenths of a degree: every
constant of the code, 0.5 and 1.1 included, is a multiple of that.  The
rounding error of binary floating point, which the arrow keys' 1.1 can introduce,
is not modelled.  The clock is kept modulo `Cycle`, a multiple of 12: the code
looks at seconds modulo 3, modulo 4, and for equality with the last one, and
three states stepped every four seconds come round after twelve.  `MaxLag` is
the longest the loop stays away, in seconds; it is a bound on the environment,
because the code has none.

### `Device`

Extends `Sensor` with the process around it.  A JavaScript callback is one
action, since nothing else runs until it returns.  Node's loop visits *poll*
(socket, key and signal events), *check* (`setImmediate`) and *timers* in that
order.  `RunLoop` is the whole of `runLoop`: the flag cleared, the queue
drained, each request answered while the socket is open, the Simulation
stepped.  What happens to a JavaScript exception that passes through the native
stack is not something this repository decides: the model allows both outcomes,
that it leaves `BACnetStack_Tick` (`RunLoopThrows`, `StartThrows`) and that the
stack swallows it (`RunLoop`, `StartLoop`).

### `Surface`

`ReadCommandLine` is the three parsers over a command line given as tokens; what
a token spells is a constant, so no text is taken apart.  `SetupCalls` is the
sequence of stack calls of `main()`: any one may be refused, and the process
then exits.  A read is a pure operator, `ReadProperty(o, p, index)`: the stack
refuses what was not added or enabled, asks the callback of the property's
datatype, and falls back to a default when it declines.  The fallback is
modelled from the warnings in `main.ts` on how a half-added object behaves.
The reads asked about (`Properties`) are those the application serves.  A
B-SS device has other enabled properties that the stack answers by itself, by
design (`main.ts:59-62`, `343-351`), and nothing is said of them.  Served values
no property distinguishes are named by the variable they come from;
`SimulationSteps` stands for the Simulation.

### `Transport`

An address is a number, a netmask the size of the subnet it leaves.
`InterfacesChange` is the operating system between any two steps of the device.
`PrimaryStays` is the assumption that the interface in use keeps its address and
mask (and, when the probe failed and the first one is used, that it stays first);
`TransportMoves.cfg` is the configuration without it.

### `Startup`

Composes `Surface` and `Transport` in the order of `main()`: command line, bind,
discovery, the captured address, the set-up calls, the I-Am.  The I-Am is one
step of both (`StartupAnnounces`), and the Network Port's IP_Address and mask,
which `Surface` serves by the name of their variable, are `Transport`'s
`reported` (`Held`).  The interfaces change between any two steps.

### `Control`, `Client`

The network holds datagrams in sets: it loses, delays and reorders them, and in
`Client` duplicates them.  `Control` has no duplicates, being a loopback
channel, but a network that reports a closed port: the socket raises
`ConnectionResetError` in its turn among the answers.  `_drain` therefore ends at
the first of those, or at an empty socket, and leaves what is behind it (`Drain`);
in `ask` it counts as an attempt without an answer (`Unanswered`).  The example
carries a command out and answers `ok` (`Execute`) or refuses it with an `error`
(`Refuse`), on which `send()` raises (`Succeeds`).  Nothing keeps the network
quiet between commands; `settled` only records, as a command is asked, whether
anything of the earlier ones was late.  `Client` bounds the life of a datagram in *requests*: one is gone
`Lifetime` requests after it was sent.  With 256 invoke ids, the assumption
`Lifetime <= IdModulus` means that nothing is delivered 256 requests late.

### `PeerServer`

The serving thread's steps end where it reads or writes what the test thread may
touch: it looks at the mode up to four times for one request (`Answer`,
`CheckOffline`, `StartWrite`, `StoreValue`) and stores a command's octets before
it arbitrates (`StoreValue`, `Arbitrate`).  `SetMode` and `SetFailure` may come
between any two of them.  `writes`, `failed` and `switched` are history: the
writes taken, those a configured failure ended, and whether the mode was switched
under the request being served.  The refusals of `writable` and `check_write`,
which are the test's, may come for any write.  One commandable and one plain
object suffice: no code relates two objects.

### `Exchange`

What `request()` promises its caller: a call returns, with the answer to that
call or with none, and nothing changes until the next.  `Client` maps its last
request, `waiting` and `outcome` to it; `Workstation` those of one thread,
`Observed`.  Requesters are interchangeable, so one stands for all.

### `Workstation`

A step ends where a thread gives up the lock, sends or receives.  Requesting
threads go from `send` to `check` (with the lock), `blocked` (inside
`Condition.wait`) and, when the wait timed out, `late`; the loop condition is
the clock, so a thread in `check` may also find the deadline passed.  The
serving thread is at `select`, holds a frame at `keep`, and has a notification
to answer at `ack`.  `close()` is two steps with the join between them; the join
has a timeout of 2 s, and the model assumes the thread ends within it (`Joined`):
it waits in `select` for 0.1 s at most, and does nothing else that blocks.  The network is one set `underway`: a request
and its answer are one element of it, since every device step between them is
allowed at any time, and since nothing guarantees delivery a lost datagram is
one never received.  `Paced` is the assumption that no request is outstanding
while as many others are made as there are invoke ids.

### `Program`

The console is a sequence of lines and an offset a number of lines.  Each read
of the console, of the process state and of the socket is a step; the example
prints, broadcasts, hangs or ends between any two.  `Announce` prints the TX line
and puts the broadcast in flight.  `disturbed` records that a broadcast
overlapped `mark()` or `counts()`, about which the code promises nothing.

### `Codec`, `Apdu`, `Services`, `Wire`

Octets are numbers, and the encoders and decoders are operators with the names
of the Python functions.  `Codec` has tags, numbers, strings and values, `Apdu`
the frames with their three layers and the readers of tags, `Services` the
requests and answers of each service and of alarms.  A decoder that raises or
returns None gives `None`.  A parser that walks the octets is a recursive
function from a position to the tags from there on, so that nested values keep
their bounds.  What no decision depends on (a REAL, a date's fields, the letters
of a text) is a sequence of octets.  `Wire` composes them: a message is encoded,
addressed by one of `Routes` (direct, broadcast, forwarded by a BBMD, from a
foreign device, through a router), perhaps cut at the receiver's buffer size, decoded,
and, when it is a request to the simulated peer, answered and read back.  The
answer goes to the UDP source of the request (`Source`), which for a forwarded
datagram is the BBMD.  What the server answers (`Answer`, and for several
properties `AnsweredMultiple`) is kept apart from what it serves (`Served`,
`ServedEach`), so that the code's answer can differ from what is served.

The operators were compared with the Python code: the messages of
`wire_roundtrips` were encoded by both, and decoded by both, without a difference.

## 3. Runs

| Run | Bounds | What it shows |
|---|---|---|
| `sensor_stalled` | 12 s cycle, lag 2, one arrow key | Types, the reading within its bounds (`ReadingBounded`) and swinging for ever (`RampSwings`), the wire's state reported in time (`FaultReportedInTime`) though the loop may skip a second |
| `device_serves` | two requests, one socket error, one key | `AnsweredWithoutTimer`, `CleanExit`; the process implements the Simulation (`ImplementsSensor`), whose discrete inputs are in phase with the clock (`InPhase`) |
| `device_lives` | one request, one socket error | `EveryRequestAnswered`, `ShutdownEnds` |
| `device_send_throws` | the same | *Violation*: after a socket error `Send` throws |
| `startup_serves` | every command line of up to two options, `--deviceName Bronze` among them; lists of up to three of four interfaces, one with a /32 mask, with three changes; the one or the other varied (`BoundedSpec`) | `NothingInvented`, `StateHasLabel`, `IdentityAsConfigured`; `BroadcastOnReportedNetwork` and `BroadcastOnServedNetwork` while the interface in use stays |
| `control_retries` | two commands, one retry | `SettledAnswerIsOwn`, `SuccessWasCarriedOut`, `AskReturns` |
| `control_late` | the same | *Violation*: a late answer is taken for the next command's (`AnswerIsOwn`) |
| `client_wraps` | three invoke ids, lifetime 3, five requests, one retry | `AnswersOwnRequest`, `ImplementsExchange` across the wrap |
| `peer_serves` | two slots, two values, three requests | `ServedIsWinning`, `WritesAreKept`, `NullOnlyIfSwitched`, `EveryRequestHandled` |
| `workstation_serves` | two requesters, two invoke ids, three requests, one retry, two notifications kept | `NoLostWakeup`, `EveryOneAnswered`, `ImplementsExchange` |
| `wire_roundtrips` | messages at the edges of every encoding, four routes, every cut from 30 to 95 octets | `RoundTrip`, `WellFormed`, `Unambiguous`, `ReplyReachesSource`, `ReadsWhatIsServed`, `CutNeverWrong` |
| `program_watches` | four console lines, one foreign broadcast | `NothingMissedAtExit`, `EachTextOnce`, `NoOrphan`, `CountsAgree`, `EveryCallReturns` |

Why the bounds are enough:

- *Sensor*: twelve seconds are the full period of both discrete inputs.  The
  reading's whole range is reached, and one key already takes it off the
  half-degree grid and past an end.  Lag 2 is the first that skips a second.
- *Device*: two requests are the fewest for which one can arrive with a loop
  already scheduled, and be left behind by a drain that stops early.  One error
  is all a socket gives: it is closed by it.  `device_serves` treats the two
  requests as symmetric, which no action tells apart; `device_lives`, which
  checks liveness, does not.
- *Startup*: no step looks at both the command line and the interfaces, so they
  are varied in turn.  The interesting command lines repeat an option, end in
  one, or use one option's flag as another's value: two options do all of it.  A
  list of three has a primary interface with others before and after it; three
  changes allow a change at each stage.
- *Control*: one command can be late for one other, and one retry has two copies
  of a command, and an exception with an answer behind it, on the way at once.
- *Client*: a late answer must survive from one turn of the ids to the next, and
  one more request shows it is not repeated.
- *PeerServer*: a command, a second at another priority and a relinquish take
  three requests and two slots.
- *Workstation*: two threads that wait for different answers, and a watcher, are
  the fewest for which waking one is not waking the right one.  Three requests
  on two ids bring an id round while its old answer is in the list, and two
  notifications have one before and one after a mark.
- *Program*: four lines hold a ready line, two texts (the second found from the
  first one's offset) and a broadcast, or broadcasts before and after a mark.
- *Wire*: the values are those where a code path changes: 4 and 5, 253
  and 254 octets (see section 5), one octet more or less of a number, an index of 0, a
  missing optional parameter, a value that holds tags, an object repeated.  The
  smallest cut, 30 octets, leaves the headers; the others end in every place of
  the results.
  TLC's integers end at 2^31 - 1, so four-octet numbers stop there.

Some runs do not check for deadlock, since the program may really stop: the
device exits (`device_lives`, `device_send_throws`), `--help` and a failed
set-up end the process (`startup_serves`), a test sends its last command or
closes what it used.

### Fairness

- `SensorSpec`: time passes, and the tick is called while there is something to
  do; the interval guarantees it.
- `DeviceSpec`: each phase of the event loop is left in the end (weak).  An
  interval is strongly fair: the timers phase may be passed before the ten
  milliseconds are over, but not for ever.  `StartLoop` is strongly fair as
  well: the promise of the discovery is settled by the probe socket's `connect`
  callback or its `error` event, and the continuation runs only in the poll phase.  Nothing is
  assumed of network, keys, signals or wire.
- `ControlSpec`, `ClientSpec`: the socket's timeout fires, so a waiting call
  returns, retries or gives up.  Nothing is assumed of the other side.
- `PeerSpec`: the operating system schedules the serving thread.
- `WorkstationSpec`: each requesting thread is scheduled and the clock runs, so
  that a wait ends at its deadline.  Nothing is assumed of the serving thread.
- `ProgramSpec`: the test's thread runs inside a call, and the clock runs; which
  call comes next, and whether one does, is open.

## 4. Proofs

TLAPS proves these for every value of the constants, under the named
assumptions of the modules.

| Module | Theorems | Inductive invariant and why it is needed |
|---|---|---|
| `DeviceProofs`, about `Sensor` | `TypeCorrect`, `ReadingStaysInRange`, `ReadingStaysBounded`, `FaultIsReportedInTime`, `PunctualInPhase` | `SensorInv`.  That the reading stays in range rests on its being on the half-degree grid until a key moves it, and that a fault is reported on the lag being no longer than the wire has been as it is.  For `InPhase`, `MaxLag = 1` is assumed: no multiple of 3 or 4 is skipped |
| `DeviceProofs`, about `Device` | `DeviceImplementsSensor`, `DeviceReportsFaultInTime`, `LoopScheduledOnce`, `AnswersDoNotWait`, `ShutdownExitsCleanly`, `DeviceTypeCorrect` | Refinement: every action of `Device` is one of `Sensor` or leaves its variables alone, so the sensor's theorems carry over.  `LoopInv` ties the queue to the flag: a request that came with the hook installed is in the queue only while a run is scheduled, and the check phase is not left before it ran.  `SocketUsable`: without a socket error, a live process that holds the socket holds an open one, so nothing throws on the way out |
| `SurfaceProofs` | `ScanFindsFirst`, `IdentityIsAsConfigured`, `NothingIsInvented`, `EveryStateHasALabel`, `NamesDistinctExactly`, `NamesStayDistinct` (when no command line holds one of the four fixed names), `SurfaceTypeCorrect` | `SurfaceInv`: until the command line is read the identity is the built-in one and afterwards what the parsers return for it (`AsParsed`), and a device is ready only when the stack accepted every set-up call, the I-Am being the last step (`AnnouncedWhole`).  From the second follows which objects and properties the stack knows, and then, callback by callback, what a read gives |
| `SimulationProofs`, about `Control` | `SettledAnswersAreOwn`, `SuccessesWereCarriedOut`, `ControlTypeCorrect` | `OnlyCurrent`: when nothing was late as a command was asked, everything in flight, buffered or returned since is its own.  `Counted`: what the example has done for a command and the copies of it still under way are together no more than the attempts made, and every `ok`, under way, buffered or returned, is for a command carried out |
| `ClientProofs` | `ClientAnswersOwnRequest`, `ClientImplementsExchange` (both with `Lifetime <= IdModulus`), `ClientTypeCorrect` | `IdInv`: a datagram belongs to one of the last `Lifetime` requests, and its id is as far behind the current one, counting round the modulus, as its request is; so only the current request's has the current id |
| `DeviceProofs`, about `Transport` | `BroadcastsStayOnNetwork`, `BroadcastsLeaveTheDevice` (both with `PrimaryStays`, the second with interfaces whose address is not their broadcast address), `TransportTypeCorrect` | `TransportInv`: once captured, the address reported is the one a fresh lookup returns |
| `SimulationProofs`, about `PeerServer` | `PeerServesWinning` (with priorities within the array), `NullsOnlyIfSwitched`, `WritesAreAllKept`, `PeerTypeCorrect` | `PeerInv`: types of the frame and the array, with the property.  `NullInv`: unless the mode was switched under the request, it is not "offline" past the look at that, and a NULL passes the first look of `_write` only while the server refuses.  `LogInv`: every write taken is in the log, or a failure ended it, or it is the one still on its way there |
| `WorkstationProofs` | `NoWakeupLost`, `ConfirmedAreAnswered`, `WorkstationImplementsExchange` (with `Lifetime <= IdModulus`), `WorkstationTypeCorrect` | `Asleep` and `Watches`: a thread goes to sleep only on a list without what it wants, and every addition wakes all.  `Settles`: the account of acknowledgements is one behind exactly while the serving thread holds the last notification, and the socket outlives the thread.  `Owns`: as for the client, but for every requester at once; of the answers kept, none with a waiting requester's id is another's, because `request()` forgets them when it takes the id |
| `ProgramProofs` | `LastTextIsSeen`, `StopLeavesNothing`, `TextsReportedOnce`, `ChannelsAgree`, `ProgramTypeCorrect` | `Ended`: nothing runs in the second look at the console, and a process that has ended prints nothing more.  `Reported`: each report moves the offset past exactly one text.  `Agrees`: until a broadcast overlaps `mark()` or `counts()`, the I-Ams on the console since the mark are those sent, and those received and in flight add up to them |
| `WireProofs` | `FrameRoundTrip`, `ReplyReachesSourceHolds`, `ReadRequestRoundTrip`, `AckRoundTrip`, `ElementsRoundTrip`, `ReadOfServer`, `SinglesReadWhatIsServed`, `FixedRoundTrip`, `FixedUnambiguous`, `ReadsWellFormed` | `WireInv`: the datagram in the network is the message as it was routed, the frame the peer made of a request names its source, and the reply was made of that frame.  `ServedInv` adds, for a read or a Who-Is, that the frame the peer has holds the request and the frame the client has holds the server's answer to it.  `SentInv` adds that the frame a message that is an APDU was decoded from is addressed as it was routed and, when nothing was lost, holds the message |
| `CutProofs` | `CutResults`, `CutNeverWrongHolds`, `MultipleRoundTrip`, `ReadsWhatIsServedHolds` | `SeveralInv`, which adds to `WireInv`, for a ReadPropertyMultiple and its acknowledgement, that the frame the client has is the start of an answer that says nothing but what it should, which rests on the request having reached the server whole.  `AnsweredInv` adds to that, when nothing was lost, that the frame holds an answer that tells all it should |

The parsers' loop is a recursive function of the position in the command line.
That it returns the value after the first flag a valid value follows, for a line
of any length, is an induction; `ScanFindsFirst` and the lemmas before it make it
by the smallest counterexample (a non-empty set of naturals has a least member).
Of the constants it is assumed that command lines are sequences of strings and
that the program's own names fit the stack's buffer (`ArgvsAssumption`,
`TextsAssumption`, with `NumbersAssumption`).  `NamesDistinct` is the one property
of `Surface` that needs more: `NamesDistinctExactly` says that it fails for those
command lines alone that give the device one of the program's four other names.
`NothingIsInvented` is about the properties the application serves, no others.

`WireProofs` and `CutProofs` are about octets.  Under `ReplyReachesSourceHolds` lie the lemmas that
whatever the encoders of a request and the simulated server of `peer.py` make is a
sequence of octets (`RequestOctets`, `AnswerOctets`), for any nesting of what is
served, and that `Frame` undoes `npdu()` and the BVLC header (`FrameRoundTrip`):
both addresses present or absent, their lengths from 0 to 255, direct, broadcast,
forwarded and distributed.  A cut datagram is included, as long as its headers
arrive.

`FixedRoundTrip`, `FixedUnambiguous` and `ReadsWellFormed` are about the messages with
a fixed number of parts: a read, its acknowledgement, an error, a reject, an abort and
an I-Am.  Under them lie the arithmetic of one to four octets (`UnsignedReadBack`,
`ObjectReadBack`), the tag reader on a request's two or three tags
(`ReadRequestTags`), and, for the acknowledgement, that a value of whole tags put
between an opening and a closing tag is found again, whatever is nested in it
(`AckReads`): the reader sees in the middle of a message the tags it sees in the value
alone, moved (`ReadTagMoved`, `TagsMoved`), and the first closing tag outside the
nesting is the one that was put there.  `SinglesReadWhatIsServed` puts the two
directions together, through `ReadOfServer`: the request is decoded, the simulated
server chooses the value, the element, the length, the error or the abort, and the
client reads that from the answer.  That one element of an array is the one asked for
rests on `ElementsRoundTrip`: the octets of any number of primitives are split into
those primitives.

`CutNeverWrongHolds` (`CutProofs`, which extends `WireProofs`) is about the answers
that grow with what was asked, the acknowledgement of an example and the simulated server's own, and has two halves.
`CutResults` needs no encoder: of any octets whose end was lost, the parser refuses
the rest, or each result it gives is the one the whole gives for that key.  The part
that arrived has the whole's tags up to the last that is not a value
(`CutStructured`), so a result whose closing tag arrived has the key and the octets it
has in the whole (`CutEntry`).  The other half is that the whole says nothing wrong.
`Reading(data, p, R)` says of octets written so far that they are whole tags and that
every result in them is closed and is one of `R`; each piece an encoder appends, a
number, a value enclosed with anything nested in it, a property, an object, keeps it
(`Keeps`, `PropertyAdds`, `ObjectKeeps`), so every answer has it.  For the simulated
server `R` is what it holds of what was asked, and that it was asked nothing else is
the same argument for `read_access_specifications` on the request (`RequestAsks`,
`MultipleServed`).

That theorem says that no result is wrong; that none is missing when nothing was lost
is `MultipleRoundTrip`, for what an example answers, and `ReadsWhatIsServedHolds`, for
what a client reads from the simulated server.  `Told(data, p, q)` says that one of the
entries reads as `q`, and it stays so whatever is appended (`ToldGrows`).  Each piece that
reports a property tells its result (`Adds`), so the whole answer tells all of `R`, and
the parser, which gives nothing but `R`, gives exactly `R` (`WholeGives`).  On the
request's side `Leads(c, S, U)` says that appending `c` takes a request from `S` to `U`:
the reference to a property takes one in which the property may be missing to one in
which it has been collected, and what follows takes nothing back
(`ReferenceLeads`, `SpecificationLeads`, `LeadsFlattened`).  The last holds only while
no object is listed again, since `read_access_specifications` then starts it over, and
an array index is lost on the way (section 5).  What is read is therefore what is served
for the requests that ask for whole properties and list no object twice
(`WholeProperties`, the condition in `ReadsWhatIsServed` itself); for the others
`MultipleReadsTheSame` says what should be read, and is violated.

The loops of the code (over octets, over tags, over the
elements of a list) are recursive functions or folds here.  That each of them has
the value its definition gives is proved where it is needed, and then followed by the
smallest counterexample (`UpTo`), or, for the tag reader, whose next position the data
decide, by well-founded recursion (`WalkExists`).  Assumed of the constants: what a
test serves is application-tagged primitives, and the name is short enough for its
one length octet (`PeerAssumption`); the requests the peer answers have
parameters of their types (`MessagesAssumption`), those of a read within the widths
past which `_unsigned_octets` and `struct.pack` raise, an instance within 22 bits
(`ReadsAssumption`); `who_is()` is given both limits or none (`WhoIsAssumption`); ids,
errors and reasons of an answer fit their octets and the value of an acknowledgement
is whole tags (`AnswersAssumption`); an acknowledgement of several gives one result for
each key, with values of whole tags (`ReportsAssumption`); a request for several has
numbers that fit and is at most the 1476 octets of an unsegmented APDU on BACnet/IP
(`SpecificationsAssumption`), so that it is never the request that is cut; network numbers are two octets, addresses at
most 255 and absent without a network (`RoutesAssumption`); a cut spares the headers
(`CutSizesAssumption`).  TLC evaluates all of them for the run's constants.

The type invariants of `Surface`, `Device`, `Control`, `Client`, `Transport`, `PeerServer`,
`Workstation` and `Program` are proved and not among the invariants TLC checks.
The `...ImplementsExchange` theorems are about the safety part of `Exchange`,
`ExchangeSafety`; the runs check the whole, with the return of every call.

Only model-checked:

- liveness, which rests on fairness and ENABLED: `RampSwings`,
  `EveryRequestAnswered`, `ShutdownEnds`, `AskReturns`, `EveryRequestHandled`,
  `EveryCallReturns` and the liveness part of `ImplementsExchange`;
- of `Wire`: `RoundTrip` for the messages `FixedRoundTrip` and `MultipleRoundTrip` do
  not name, `Unambiguous` beyond reads and refusals, `WellFormed` beyond reads.  Those
  messages hold lists of constructed values of other forms, and that their decoder finds
  every item of the list is one more induction over the data for every decoder, beyond
  the loops followed above.

## 5. What the code does that its text does not say

Two are runs and findings of `PROJECT.json`:

- `device_send_throws`: a send on a socket an error closed throws, where
  `SimpleUDP.ts:86-87` says an error is "logged, not thrown".
- `control_late`: an answer that arrives after the drain, or was behind a
  `ConnectionResetError`, is taken for the next command's, where `control.py:42`
  says late answers are dropped.

The others have a configuration each beside the runs (`tlc -config X.cfg MC…`); it
checks the one property named, which states what the text says, and TLC finds it
violated:

| Configuration | Module | Property | What happens |
|---|---|---|---|
| `SensorSkips.cfg` | `MCSensor` | `InPhase` (`main.ts:249-250`) | A toggle or step due in a second the loop skipped is lost for good |
| `SurfaceNames.cfg` | `MCStartup` | `NamesDistinct` (`main.ts:363`) | `ParseDeviceNameArg` checks length and printability, so `--deviceName Bronze` starts a device with two objects of one name |
| `TransportMoves.cfg` | `MCStartup` | `BroadcastOnReportedNetwork` (`CASExampleHelper.ts:377-378`) | The Network Port keeps reporting the address captured at start-up, while `GetLocalIPv4` looks the interface up for every frame |
| `TransportTunnel.cfg` | `MCStartup` | `BroadcastLeavesTheDevice` (`CASExampleHelper.ts:322-324`) | For the mask 255.255.255.255 the broadcast address is the device's own |
| `PeerBetween.cfg` | `MCPeerServer` | `AlwaysWinning` (`peer.py:193-195`) | Between the two stores of a command, `value()`, which takes no lock, returns the octets as they were written |
| `PeerUnkept.cfg` | `MCPeerServer` | `EveryWriteIsKept` (`peer.py:174-175`) | A configured reject, abort or silent failure returns before the write is logged |
| `PeerNull.cfg` | `MCPeerServer` | `NullChangesNothing` (`peer.py:176`, `196-197`) | The mode refusing at the first look and online at the second stores a NULL in a property that is not commandable |
| `PeerPriority.cfg` | `MCPeerServer` | `EveryRequestHandled` (`peer.py:167`) | A priority above 16 raises IndexError in the serving thread, and nothing is answered any more |
| `WireIndexed.cfg`, `WireRepeated.cfg` | `MCWire` | `MultipleReadsTheSame` (`peer.py:166`) | `read_access_specifications` drops array indices, and starts an object over when it is listed twice |
| `WireLong.cfg` | `MCWire` | `RoundTrip` (`codec.py:825-828`) | A character string has one length octet whatever its length: from 254 octets on it is not read back, and above 255 it is not encoded at all |
| `WireForwarded.cfg` | `MCWire` | `AnswerGoesBack` (`peer.py:12-13`) | The answer to a forwarded request goes to the BBMD, not to the device it forwards for |

Other things met while modelling, which no run asks about:

- `main.ts:256-258` says the reading freezes while the wire is broken; the arrow
  keys move it all the same (`ArrowUp`, `ArrowDown` have no such guard).
- `wait_for_text` (`process.py:52-55`) looks at the console, then at the process:
  a text printed between the two, last thing before the exit, is missed.
  `wait_for_output` looks once more, which is what `NothingMissedAtExit` is about.
- Context-tagged octet and character strings have one length octet as well, and a
  bit string of more than 24 bits (`codec.py:497`) outgrows the tag's length field.
- Of an object it does not list, a ReadPropertyMultiple is answered per property
  with UNKNOWN_PROPERTY (`peer.py:354-363`), where a ReadProperty is answered
  with what the device itself serves or UNKNOWN_OBJECT; the class comment speaks of
  listed objects only, and the messages of `WireIndexed.cfg` and `WireRepeated.cfg`
  name no others.
- A confirmed notification received while `close()` waits for the thread is still
  answered; without the join it would meet a closed socket (`EveryOneAnswered`).

The passing properties say what the code ensures in spite of these: `InPhase` in
`device_serves` with a loop that skips no second; `BroadcastOnReportedNetwork`
while the interface in use stays; `SettledAnswerIsOwn` and `SuccessWasCarriedOut`
for a channel without identifiers; `ServedIsWinning` outside an unfinished
command; `WritesAreKept` but for the failures; `NullOnlyIfSwitched` for a mode
switched between requests; `EveryRequestHandled` with priorities of at most 16.

## 6. Not modelled

- The stack itself, beyond how the repository uses it, and Node's runtime.
- Texts: `SummarizeBacnetFrame`, the version and help output, console lines.
- `CommandFile` of `control.py`, which appends a line to a file; `wait.py` and
  `results.py`, which loop over a caller's function and count; the test scripts,
  which were read for what they promise.
- `Client.who_is` (the loop of `request` without an invoke id), the broadcast
  socket and `announce()` of the peers, `press()` of `Program`.
- Of the codec: BVLL requests with a fixed body, `fdt_entries`, `result_code` and
  the texts of `describe()`.  Cuts are modelled for the answers that grow with
  what was asked, ReadPropertyMultiple's, and spare the headers: an exception a
  decoder raises on a cut header ends the test that called it.

## 7. Plan

Every part of the repository with logic of its own is modelled.  Left, in this
order:

1. Proofs: `RoundTrip` for the decoders of the other lists (`parse_read_range_ack`, the
   values of a COV or event notification), along the argument of `MultipleRoundTrip`,
   and `WellFormed` and `Unambiguous` for the same messages.
2. `PeerServer` with the ReadPropertyMultiple of `Wire` under mode changes.
3. `Startup` within `Device`, so that what a client reads is asked for by a
   datagram of the queue.
