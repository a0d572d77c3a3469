--------------------------- MODULE SurfaceProofs ---------------------------
(***************************************************************************)
(* What a client sees of the sensor, for every command line it may be      *)
(* started with and whatever the tokens of that command line spell.        *)
(***************************************************************************)
EXTENDS Surface, WellFoundedInduction, TLAPS

-----------------------------------------------------------------------------
(* The command line                                                        *)

\* A set of numbers has a smallest one.
LEMMA Smallest ==
    ASSUME NEW T, T \subseteq Nat, T # {}
    PROVE  \E i \in T : \A j \in T : i <= j
  <1> DEFINE R == OpToRel(<, Nat)
  <1>1. IsWellFoundedOn(R, Nat)
    BY NatLessThanWellFounded
  <1> HIDE DEF R
  <1>2. PICK i \in T : \A j \in T : ~(<<j, i>> \in R)
    BY <1>1, WFMin
  <1>3. \A j \in T : ~(j < i)
    BY <1>2 DEF R, OpToRel
  <1>4. QED
    BY <1>3

\* The places from i on where a flag is followed by a valid value.
Places(flag, valid, i) == {j \in i..Len(argv)-1 : FollowsFlag(argv, flag, valid, j)}

\* What the first of some places gives.
AtFirst(places, default) ==
    IF places = {} THEN default
    ELSE argv[(CHOOSE i \in places : \A j \in places : i <= j) + 1]
First(flag, valid, default, i) == AtFirst(Places(flag, valid, i), default)

\* f is the loop of a parser: what it returns when it stands at i.
IsLoop(flag, valid, default, f) ==
    f = [i \in 1..Len(argv)+1 |->
           IF i + 1 > Len(argv) THEN default
           ELSE IF argv[i] = flag /\ argv[i+1] \in valid THEN argv[i+1]
           ELSE f[i+1]]

\* A parser that stands at i returns the first of the places from i on: the
\* value at i, when there is a valid one, or what it would return at i + 1.
LEMMA FirstStep ==
    ASSUME argv \in Seq(STRING), NEW flag, NEW valid, NEW default,
           NEW i \in 1..Len(argv)+1
    PROVE  First(flag, valid, default, i)
             = IF i + 1 > Len(argv) THEN default
               ELSE IF argv[i] = flag /\ argv[i+1] \in valid THEN argv[i+1]
               ELSE First(flag, valid, default, i+1)
  <1> DEFINE P(j) == Places(flag, valid, j)
  <1>0. Len(argv) \in Nat /\ i \in Nat
    OBVIOUS
  <1>1. CASE i + 1 > Len(argv)
    <2>1. P(i) = {}
      BY <1>0, <1>1 DEF Places
    <2>2. QED
      BY <1>1, <2>1 DEF First, AtFirst
  <1>2. CASE ~(i + 1 > Len(argv)) /\ FollowsFlag(argv, flag, valid, i)
    <2>1. i \in P(i) /\ \A k \in P(i) : k \in Nat /\ i <= k
      BY <1>0, <1>2 DEF Places
    <2>2. \A j \in P(i) : (\A k \in P(i) : j <= k) => j = i
      BY <1>0, <2>1
    <2>3. (CHOOSE j \in P(i) : \A k \in P(i) : j <= k) = i
      BY <2>1, <2>2
    <2>4. First(flag, valid, default, i) = argv[i+1]
      BY <2>1, <2>3, Zenon DEF First, AtFirst
    <2>5. QED
      BY <1>2, <2>4 DEF FollowsFlag
  <1>3. CASE ~(i + 1 > Len(argv)) /\ ~FollowsFlag(argv, flag, valid, i)
    <2>1. P(i) = P(i+1)
      BY <1>0, <1>3 DEF Places
    <2>2. First(flag, valid, default, i) = First(flag, valid, default, i+1)
      BY <2>1, Zenon DEF First
    <2>3. QED
      BY <1>3, <2>2 DEF FollowsFlag
  <1>4. QED
    BY <1>1, <1>2, <1>3

\* The loop of the three parsers is a well-defined function.
LEMMA LoopExists ==
    ASSUME argv \in Seq(STRING), NEW flag, NEW valid, NEW default
    PROVE  \E f : IsLoop(flag, valid, default, f)
  <1> DEFINE F == [i \in 1..Len(argv)+1 |-> First(flag, valid, default, i)]
  <1>1. ASSUME NEW i \in 1..Len(argv)+1
        PROVE  F[i] = IF i + 1 > Len(argv) THEN default
                      ELSE IF argv[i] = flag /\ argv[i+1] \in valid THEN argv[i+1]
                      ELSE F[i+1]
    <2>1. ~(i + 1 > Len(argv)) => i + 1 \in 1..Len(argv)+1
      OBVIOUS
    <2>2. ~(i + 1 > Len(argv)) => F[i+1] = First(flag, valid, default, i+1)
      BY <2>1
    <2>3. F[i] = First(flag, valid, default, i)
      OBVIOUS
    <2>4. QED
      BY <2>2, <2>3, FirstStep
  <1>2. F = [i \in 1..Len(argv)+1 |->
               IF i + 1 > Len(argv) THEN default
               ELSE IF argv[i] = flag /\ argv[i+1] \in valid THEN argv[i+1]
               ELSE F[i+1]]
    <2>1. F = [i \in 1..Len(argv)+1 |-> F[i]]
      OBVIOUS
    <2> HIDE DEF F
    <2>2. QED
      BY <1>1, <2>1
  <1>3. IsLoop(flag, valid, default, F)
    BY <1>2, Zenon DEF IsLoop
  <1>4. QED
    BY <1>3, Zenon

\* Whatever loop it is, it returns the first valid value: at the last place
\* where it would not, the next step of the loop would not either.
LEMMA LoopFindsFirst ==
    ASSUME argv \in Seq(STRING), NEW flag, NEW valid, NEW default,
           NEW f, IsLoop(flag, valid, default, f)
    PROVE  f[1] = First(flag, valid, default, 1)
  <1> DEFINE Last == Len(argv) + 1
             T == {k \in 0..Last-1 : f[Last - k] # First(flag, valid, default, Last - k)}
  <1>0. Last \in Nat \ {0}
    OBVIOUS
  <1>1. \A i \in 1..Last : f[i] = IF i + 1 > Len(argv) THEN default
                                  ELSE IF argv[i] = flag /\ argv[i+1] \in valid THEN argv[i+1]
                                  ELSE f[i+1]
    BY DEF IsLoop
  <1>2. T = {}
    <2> SUFFICES ASSUME T # {} PROVE FALSE
      OBVIOUS
    <2>1. T \subseteq Nat
      OBVIOUS
    <2>2. PICK k \in T : \A l \in T : k <= l
      BY <2>1, Smallest, Zenon
    <2> DEFINE i == Last - k
    <2>3. k \in 0..Last-1 /\ f[i] # First(flag, valid, default, i)
      OBVIOUS
    <2>4. i \in 1..Last
      BY <1>0, <2>3
    <2>5. ~(i + 1 > Len(argv)) => f[i+1] = First(flag, valid, default, i+1)
      <3> SUFFICES ASSUME ~(i + 1 > Len(argv)) PROVE f[i+1] = First(flag, valid, default, i+1)
        OBVIOUS
      <3>1. k - 1 \in 0..Last-1 /\ ~(k <= k - 1) /\ Last - (k - 1) = i + 1
        BY <1>0, <2>3
      <3>2. k - 1 \notin T
        BY <2>2, <3>1
      <3>3. QED
        BY <3>1, <3>2
    <2> HIDE DEF i
    <2>6. QED
      BY <1>1, <2>3, <2>4, <2>5, FirstStep
  <1>3. Last - 1 \in 0..Last-1 /\ Last - (Last - 1) = 1
    BY <1>0
  <1>4. QED
    BY <1>2, <1>3

\* ParseDeviceNameArg, ParseDeviceIdArg and ParsePortArg return the first valid
\* value that follows their flag, on a command line of any length.
THEOREM ScanFindsFirst ==
    ASSUME argv \in Seq(STRING), NEW flag, NEW valid, NEW default
    PROVE  Scan(flag, valid, default) = Configured(argv, flag, valid, default)
  <1>1. Scan(flag, valid, default) = (CHOOSE f : IsLoop(flag, valid, default, f))[1]
    BY Zenon DEF Scan, IsLoop
  <1>2. IsLoop(flag, valid, default, CHOOSE f : IsLoop(flag, valid, default, f))
    BY LoopExists, Zenon
  <1>3. Scan(flag, valid, default) = First(flag, valid, default, 1)
    BY <1>1, <1>2, LoopFindsFirst, Zenon
  <1>4. First(flag, valid, default, 1) = Configured(argv, flag, valid, default)
    BY Zenon DEF First, AtFirst, Configured, Places
  <1>5. QED
    BY <1>3, <1>4

\* What a parser returns is valid, or the default.
LEMMA ConfiguredIsValid ==
    ASSUME argv \in Seq(STRING), NEW flag, NEW valid, NEW default
    PROVE  Configured(argv, flag, valid, default) \in valid \cup {default}
  <1> DEFINE P == {i \in 1..Len(argv)-1 : FollowsFlag(argv, flag, valid, i)}
             least == CHOOSE i \in P : \A j \in P : i <= j
  <1>1. CASE P = {}
    BY <1>1, Zenon DEF Configured
  <1>2. CASE P # {}
    <2>1. P \subseteq Nat
      OBVIOUS
    <2>2. \E i \in P : \A j \in P : i <= j
      BY <1>2, <2>1, Smallest, Zenon
    <2>3. least \in P
      BY <2>2, Zenon
    <2>4. argv[least + 1] \in valid
      BY <2>3, Zenon DEF FollowsFlag
    <2>5. Configured(argv, flag, valid, default) = argv[least + 1]
      BY <1>2, Zenon DEF Configured
    <2>6. QED
      BY <2>4, <2>5
  <1>3. QED
    BY <1>1, <1>2

-----------------------------------------------------------------------------
(* The device as main() configures it                                      *)

ValidInstances == {t \in DOMAIN Numbers : Numbers[t] <= MaxInstance}
ValidPorts == {t \in DOMAIN Numbers : Numbers[t] \in 1..MaxPort}
ValidNames(line) == Tokens(line) \ (TooLong \cup Unprintable)

\* The variables keep their types, whatever the command line spells: the
\* instance is one a BACnet device may have and the port one that can be bound.
SurfaceTypeOK ==
    /\ argv \in Argvs
    /\ phase \in {"load", "setup", "ready", "exited"}
    /\ accepted \in 0..Len(SetupCalls)
    /\ instance \in 0..MaxInstance
    /\ port \in 1..MaxPort
    /\ multiState \in 1..MULTI_STATE_INPUT_NUMBER_OF_STATES
    /\ reliability \in {NO_FAULT_DETECTED, OPEN_LOOP}

\* What the command line configured is in place from the first set-up call on.
AsParsed ==
    phase \in {"setup", "ready"} =>
      /\ instance = Numbers[Configured(argv, "--deviceID", ValidInstances, DEFAULT_INSTANCE)]
      /\ name = Configured(argv, "--deviceName", ValidNames(argv), DEVICE_NAME)

\* The device is announced, once, when all of it is set up.
AnnouncedWhole ==
    /\ phase = "ready" => accepted = Len(SetupCalls)
    /\ announced = IF phase = "ready" THEN {instance} ELSE {}

SurfaceInv == SurfaceTypeOK /\ AsParsed /\ AnnouncedWhole

\* The number of set-up calls does not depend on the configuration.
LEMMA SetupLength == Len(SetupCalls) = 13 /\ Len(SetupCalls') = 13
  BY DEF SetupCalls

\* The defaults are within the bounds the parsers check.
LEMMA Bounds ==
    /\ MaxInstance \in Nat /\ MaxPort \in Nat
    /\ 389001 <= MaxInstance /\ 47808 <= MaxPort
    /\ UnconfiguredInstance = MaxInstance + 1
  BY SMT DEF MaxInstance, MaxPort, UnconfiguredInstance

\* The parsers of main.ts:711-742 return what the operator configured.
LEMMA Parsed ==
    ASSUME argv \in Argvs
    PROVE  /\ ParseDeviceIdArg
                = Numbers[Configured(argv, "--deviceID", ValidInstances, DEFAULT_INSTANCE)]
           /\ ParseDeviceNameArg = Configured(argv, "--deviceName", ValidNames(argv), DEVICE_NAME)
           /\ ParseDeviceIdArg \in 0..MaxInstance
           /\ ParsePortArg \in 1..MaxPort
  <1>0. argv \in Seq(STRING)
    BY ArgvsAssumption
  <1>1. ParseDeviceNameArg = Configured(argv, "--deviceName", ValidNames(argv), DEVICE_NAME)
    BY <1>0, ScanFindsFirst, Zenon DEF ParseDeviceNameArg, ValidNames
  <1>2. {t \in ParseWholeNumber : Numbers[t] < UnconfiguredInstance} = ValidInstances
    BY NumbersAssumption, Bounds, SMT DEF ParseWholeNumber, ValidInstances
  <1>3. ParseDeviceIdArg = Numbers[Configured(argv, "--deviceID", ValidInstances, DEFAULT_INSTANCE)]
    <2>1. ParseDeviceIdArg = Numbers[Scan("--deviceID", ValidInstances, DEFAULT_INSTANCE)]
      BY <1>2, Zenon DEF ParseDeviceIdArg
    <2>2. QED
      BY <1>0, <2>1, ScanFindsFirst, Zenon
  <1>4. ParsePortArg = Numbers[Configured(argv, "--port", ValidPorts, DEFAULT_PORT)]
    BY <1>0, ScanFindsFirst, Zenon DEF ParsePortArg, ParseWholeNumber, ValidPorts
  <1>5. Configured(argv, "--deviceID", ValidInstances, DEFAULT_INSTANCE)
          \in ValidInstances \cup {DEFAULT_INSTANCE}
    BY <1>0, ConfiguredIsValid, Zenon
  <1>6. Configured(argv, "--port", ValidPorts, DEFAULT_PORT) \in ValidPorts \cup {DEFAULT_PORT}
    BY <1>0, ConfiguredIsValid, Zenon
  <1>7. ParseDeviceIdArg \in 0..MaxInstance
    <2>1. \A t \in ValidInstances \cup {DEFAULT_INSTANCE} : Numbers[t] \in 0..MaxInstance
      BY NumbersAssumption, Bounds, SMT DEF ValidInstances
    <2>2. QED
      BY <1>3, <1>5, <2>1, Zenon
  <1>8. ParsePortArg \in 1..MaxPort
    <2>1. \A t \in ValidPorts \cup {DEFAULT_PORT} : Numbers[t] \in 1..MaxPort
      BY NumbersAssumption, Bounds, SMT DEF ValidPorts
    <2>2. QED
      BY <1>4, <1>6, <2>1, Zenon
  <1>9. QED
    BY <1>1, <1>3, <1>7, <1>8

\* main() starts with the defaults and reads the command line before it makes a
\* set-up call, so that nothing is announced before all calls were accepted.
LEMMA SurfaceInductive == SurfaceSpec => []SurfaceInv
  <1> USE DEF SurfaceInv, SurfaceTypeOK, AsParsed, AnnouncedWhole
  <1>1. SurfaceInit => SurfaceInv
    <2>1. Numbers[DEFAULT_INSTANCE] \in 0..MaxInstance /\ Numbers[DEFAULT_PORT] \in 1..MaxPort
      BY NumbersAssumption, Bounds, SMT
    <2>2. QED
      BY <2>1, SetupLength DEF SurfaceInit, MULTI_STATE_INPUT_NUMBER_OF_STATES
  <1>2. SurfaceInv /\ [SurfaceNext]_surfaceVars => SurfaceInv'
    <2> SUFFICES ASSUME SurfaceInv, [SurfaceNext]_surfaceVars
                 PROVE  SurfaceInv'
      OBVIOUS
    <2> USE SetupLength DEF config, live
    <2>1. CASE NotStarted
      BY <2>1 DEF NotStarted
    <2>2. CASE ReadCommandLine
      BY <2>2, Parsed DEF ReadCommandLine
    <2>3. CASE SetupCall
      BY <2>3 DEF SetupCall
    <2>4. CASE Fail
      BY <2>4 DEF Fail
    <2>5. CASE Announce
      BY <2>5 DEF Announce
    <2>6. CASE SimulationSteps
      BY <2>6 DEF SimulationSteps, MULTI_STATE_INPUT_NUMBER_OF_STATES
    <2>7. CASE UNCHANGED surfaceVars
      BY <2>7 DEF surfaceVars
    <2>8. QED
      BY <2>1, <2>2, <2>3, <2>4, <2>5, <2>6, <2>7 DEF SurfaceNext
  <1>3. QED
    BY <1>1, <1>2, PTL DEF SurfaceSpec

-----------------------------------------------------------------------------
(* What a client reads of the ready device                                 *)

\* No two objects of the device have the same type.
LEMMA ObjectTypes ==
    /\ Device[1] = "Device" /\ AnalogInput[1] = "Analog Input"
    /\ BinaryInput[1] = "Binary Input" /\ MultiStateInput[1] = "Multi-state Input"
    /\ NetworkPort[1] = "Network Port"
    /\ \A o \in Objects :
         /\ o[1] \in {"Device", "Analog Input", "Binary Input", "Multi-state Input",
                      "Network Port"}
         /\ o[1] = "Device" => o = Device
         /\ o[1] = "Analog Input" => o = AnalogInput
         /\ o[1] = "Binary Input" => o = BinaryInput
         /\ o[1] = "Multi-state Input" => o = MultiStateInput
         /\ o[1] = "Network Port" => o = NetworkPort
  BY DEF Objects, Device, AnalogInput, BinaryInput, MultiStateInput, NetworkPort

\* When every set-up call was accepted, all five objects were added and the
\* three optional properties enabled (main.ts:757-845).
LEMMA AllSetUp ==
    ASSUME accepted = Len(SetupCalls)
    PROVE  /\ Added = Objects
           /\ Enable(Device, "Description") \in Made
           /\ Enable(MultiStateInput, "State_Text") \in Made
           /\ Enable(AnalogInput, "Reliability") \in Made
  <1>0. accepted = 13
    BY SetupLength
  <1>1. /\ SetupCalls[1] = Add(Device) /\ SetupCalls[2] = Service("ReadProperty")
        /\ SetupCalls[3] = Service("Who-Is") /\ SetupCalls[4] = Service("I-Am")
        /\ SetupCalls[5] = Service("Who-Has") /\ SetupCalls[6] = Service("I-Have")
        /\ SetupCalls[7] = Add(AnalogInput) /\ SetupCalls[8] = Add(BinaryInput)
        /\ SetupCalls[9] = Add(MultiStateInput) /\ SetupCalls[10] = Add(NetworkPort)
        /\ SetupCalls[11] = Enable(Device, "Description")
        /\ SetupCalls[12] = Enable(MultiStateInput, "State_Text")
        /\ SetupCalls[13] = Enable(AnalogInput, "Reliability")
    BY DEF SetupCalls
  <1>2. \A i \in 1..13 : SetupCalls[i] \in Made
    BY <1>0 DEF Made
  <1>3. ASSUME NEW o \in Objects
        PROVE  Add(o) \in Made
    BY <1>1, <1>2 DEF Objects
  <1>4. ASSUME NEW o \in Objects
        PROVE  o \in Added
    <2>1. Add(o).call = "add" /\ Add(o).object = o
      BY DEF Add
    <2>2. QED
      BY <1>3, <2>1, Zenon DEF Added
  <1>5. ASSUME NEW i \in 1..13, SetupCalls[i].call = "add"
        PROVE  SetupCalls[i].object \in Objects
    <2>1. \A s : Service(s).call # "add"
      BY DEF Service
    <2>2. \A o, p : Enable(o, p).call # "add"
      BY DEF Enable
    <2>3. \A o : Add(o).object = o
      BY DEF Add
    <2>4. i \in {1, 7, 8, 9, 10}
      BY <1>1, <1>5, <2>1, <2>2
    <2>5. QED
      BY <1>1, <2>3, <2>4 DEF Objects
  <1>6. ASSUME NEW o \in Added
        PROVE  o \in Objects
    <2>1. PICK c \in Made : c.call = "add" /\ o = c.object
      BY Zenon DEF Added
    <2>2. PICK i \in 1..13 : c = SetupCalls[i]
      BY <1>0, Zenon DEF Made
    <2>3. QED
      BY <1>5, <2>1, <2>2, Zenon
  <1>7. Added = Objects
    BY <1>4, <1>6, Zenon
  <1>8. QED
    BY <1>1, <1>2, <1>7

\* The stack then answers a read of any of the five objects with what the
\* callback of the property's datatype returns.
LEMMA Answered ==
    ASSUME accepted = Len(SetupCalls), NEW o \in Objects, NEW p, NEW index
    PROVE  ReadProperty(o, p, index) = Fallback(Callback(o, p, index), p)
  <1>1. o \in Added
    BY AllSetUp
  <1>2. <<o[1], p>> \in OptionalProperties => Enable(o, p) \in Made
    <2>1. ASSUME <<o[1], p>> \in OptionalProperties
          PROVE  \/ o = Device /\ p = "Description"
                 \/ o = MultiStateInput /\ p = "State_Text"
                 \/ o = AnalogInput /\ p = "Reliability"
      <3>1. \/ o[1] = "Device" /\ p = "Description"
            \/ o[1] = "Multi-state Input" /\ p = "State_Text"
            \/ o[1] = "Analog Input" /\ p = "Reliability"
        BY <2>1 DEF OptionalProperties
      <3>2. QED
        BY <3>1, ObjectTypes
    <2>2. QED
      BY <2>1, AllSetUp
  <1>3. QED
    BY <1>1, <1>2 DEF ReadProperty

\* A property is listed with the type of its object.
LEMMA PropertyPairs == \A tp \in Properties : tp = <<tp[1], tp[2]>>
  <1>1. \A S, T : \A tp \in S \X T : tp = <<tp[1], tp[2]>>
    OBVIOUS
  <1>2. \A tp \in RealProperties \cup EnumeratedProperties \cup UnsignedProperties :
          tp = <<tp[1], tp[2]>>
    <2>1. \A tp \in RealProperties \cup EnumeratedProperties \cup UnsignedProperties :
            \E t, p : tp = <<t, p>>
      BY DEF RealProperties, EnumeratedProperties, UnsignedProperties
    <2>2. ASSUME NEW tp, NEW t, NEW p, tp = <<t, p>>
          PROVE  tp = <<tp[1], tp[2]>>
      BY <2>2
    <2>3. ASSUME NEW tp \in RealProperties \cup EnumeratedProperties \cup UnsignedProperties
          PROVE  tp = <<tp[1], tp[2]>>
      <3>1. PICK t, p : tp = <<t, p>>
        BY <2>1, Zenon
      <3>2. QED
        BY <2>2, <3>1
    <2>4. QED
      BY <2>3, Zenon
  <1>3. \A tp \in OctetStringProperties \cup BooleanProperties : tp = <<tp[1], tp[2]>>
    BY <1>1, Zenon DEF OctetStringProperties, BooleanProperties
  <1>4. \A tp \in StringProperties : tp = <<tp[1], tp[2]>>
    <2>1. <<"Multi-state Input", "State_Text">> \in {"Multi-state Input"} \X {"State_Text"}
      OBVIOUS
    <2>2. QED
      BY <1>1, <2>1, Zenon DEF StringProperties
  <1>5. QED
    BY <1>2, <1>3, <1>4, Zenon DEF Properties

\* The three answers of a callback are told apart by their kind.
LEMMA Kinds ==
    /\ \A v : Serve(v).kind = "ack" /\ Serve(v).value = v
    /\ \A code : Refuse(code).kind = "error"
    /\ \A v, p : Fallback(Serve(v), p) = Serve(v)
    /\ \A code, p : Fallback(Refuse(code), p) = Refuse(code)
  BY DEF Serve, Refuse, Fallback

\* Every table of a callback lists what the stack may ask that callback for.
LEMMA Served ==
    ASSUME NEW o \in Objects, NEW p,
           NEW index, p = "State_Text" => index \in 1..MULTI_STATE_INPUT_NUMBER_OF_STATES,
           p # "State_Text" => index = NoIndex,
           <<o[1], p>> \in Properties
    PROVE  \E v : Callback(o, p, index) = Serve(v)
  <1> DEFINE tp == <<o[1], p>>
  <1>1. CASE tp \in RealProperties
    <2>1. o = AnalogInput /\ p = "Present_Value"
      BY <1>1, ObjectTypes DEF RealProperties
    <2>2. Callback(o, p, index) = GetPropertyReal(o, p)
      BY <1>1 DEF Callback
    <2>3. QED
      BY <2>1, <2>2 DEF GetPropertyReal
  <1>2. CASE tp \in EnumeratedProperties \ RealProperties
    <2>1. \/ o = BinaryInput /\ p = "Present_Value"
          \/ o = BinaryInput /\ p = "Polarity"
          \/ o = AnalogInput /\ p = "Units"
          \/ o = AnalogInput /\ p = "Reliability"
          \/ o = NetworkPort /\ p = "BACnet_IP_Mode"
      BY <1>2, ObjectTypes DEF EnumeratedProperties
    <2>2. Callback(o, p, index) = GetPropertyEnumerated(o, p)
      BY <1>2 DEF Callback
    <2>3. QED
      BY <2>1, <2>2 DEF GetPropertyEnumerated
  <1>3. CASE tp \in UnsignedProperties \ (RealProperties \cup EnumeratedProperties)
    <2>1. \/ o = MultiStateInput /\ p = "Number_Of_States"
          \/ o = MultiStateInput /\ p = "Present_Value"
          \/ o = Device /\ p = "Vendor_Identifier"
          \/ o = NetworkPort /\ p = "APDU_Length"
          \/ o = NetworkPort /\ p = "Reference_Port"
          \/ o = NetworkPort /\ p = "BACnet_IP_UDP_Port"
      BY <1>3, ObjectTypes DEF UnsignedProperties
    <2>2. Callback(o, p, index) = GetPropertyUnsignedInteger(o, p, index # NoIndex, index)
      BY <1>3 DEF Callback
    <2>3. QED
      BY <2>1, <2>2 DEF GetPropertyUnsignedInteger
  <1>4. CASE tp \in OctetStringProperties
    <2>1. o = NetworkPort /\ p \in {"IP_Address", "IP_Subnet_Mask", "IP_Default_Gateway"}
      BY <1>4, ObjectTypes DEF OctetStringProperties
    <2>2. tp \notin RealProperties \cup EnumeratedProperties \cup UnsignedProperties
      BY <2>1 DEF RealProperties, EnumeratedProperties, UnsignedProperties
    <2>3. Callback(o, p, index) = GetPropertyOctetString(o, p)
      BY <1>4, <2>1, <2>2 DEF Callback
    <2>4. QED
      BY <2>1, <2>3 DEF GetPropertyOctetString
  <1>5. CASE tp \in BooleanProperties
    <2>1. /\ o[1] \in {"Analog Input", "Binary Input", "Multi-state Input", "Network Port"}
          /\ p = "Out_Of_Service"
      BY <1>5 DEF BooleanProperties
    <2>2. tp \notin RealProperties \cup EnumeratedProperties \cup UnsignedProperties
                     \cup OctetStringProperties
      BY <2>1 DEF RealProperties, EnumeratedProperties, UnsignedProperties,
                  OctetStringProperties
    <2>3. Callback(o, p, index) = GetPropertyBool(o, p)
      BY <1>5, <2>1, <2>2 DEF Callback
    <2>4. QED
      BY <2>1, <2>3 DEF GetPropertyBool
  <1>6. CASE tp \in StringProperties
    <2>1. \/ p = "Object_Name"
          \/ o = Device /\ p \in IdentityStrings
          \/ o = MultiStateInput /\ p = "State_Text"
      BY <1>6, ObjectTypes DEF StringProperties, IdentityStrings
    <2>2. tp \notin RealProperties \cup EnumeratedProperties \cup UnsignedProperties
                     \cup OctetStringProperties \cup BooleanProperties
      BY <2>1 DEF RealProperties, EnumeratedProperties, UnsignedProperties,
                  OctetStringProperties, BooleanProperties, IdentityStrings
    <2>3. p = "State_Text" => index # 0 /\ index # NoIndex
      BY DEF MULTI_STATE_INPUT_NUMBER_OF_STATES, NoIndex
    <2>4. Callback(o, p, index) = GetPropertyCharacterString(o, p, index # NoIndex, index)
      BY <2>2, <2>3 DEF Callback
    <2>5. CASE p = "Object_Name" \/ (o = Device /\ p \in IdentityStrings)
      <3>1. p # "State_Text"
        BY <2>5 DEF IdentityStrings
      <3>2. \E t : Callback(o, p, index) = ReturnCharacterString(t)
        BY <2>4, <2>5, <3>1 DEF GetPropertyCharacterString
      <3>3. QED
        BY <3>2 DEF ReturnCharacterString
    <2>6. CASE o = MultiStateInput /\ p = "State_Text"
      <3>1. Callback(o, p, index) = StateTextElement(index)
        <4>1. o = MultiStateInput /\ p = "State_Text" /\ index # NoIndex
          BY <2>3, <2>6
        <4>2. QED
          BY <2>4, <4>1 DEF GetPropertyCharacterString, IdentityStrings
      <3>2. StateTextElement(index) = ReturnCharacterString(StateText[index])
        BY <2>6 DEF StateTextElement, MULTI_STATE_INPUT_NUMBER_OF_STATES
      <3>3. QED
        BY <3>1, <3>2 DEF ReturnCharacterString
    <2>7. QED
      BY <2>1, <2>5, <2>6
  <1>7. QED
    BY <1>1, <1>2, <1>3, <1>4, <1>5, <1>6 DEF Properties

\* The ready device answers each read of a property the application serves with
\* the application's own value, whatever it was started with and wherever the
\* Simulation stands: no default of the stack, no error (main.ts:339-368).
THEOREM NothingIsInvented == SurfaceSpec => []NothingInvented
  <1>1. SurfaceInv => NothingInvented
    <2> SUFFICES ASSUME SurfaceInv, phase = "ready", NEW o \in Objects,
                        NEW tp \in Properties, tp[1] = o[1]
                 PROVE  ReadProperty(o, tp[2], IF tp[2] = "State_Text" THEN multiState
                                               ELSE NoIndex).kind = "ack"
      BY DEF NothingInvented
    <2> DEFINE p == tp[2]
               index == IF p = "State_Text" THEN multiState ELSE NoIndex
    <2>1. /\ accepted = Len(SetupCalls)
          /\ multiState \in 1..MULTI_STATE_INPUT_NUMBER_OF_STATES
      BY DEF SurfaceInv, AnnouncedWhole, SurfaceTypeOK
    <2>2. <<o[1], p>> = tp
      BY PropertyPairs
    <2>3. \E v : Callback(o, p, index) = Serve(v)
      BY <2>1, <2>2, Served
    <2>4. ReadProperty(o, p, index) = Fallback(Callback(o, p, index), p)
      BY <2>1, Answered, Zenon
    <2>5. ReadProperty(o, p, index).kind = "ack"
      BY <2>3, <2>4, Kinds
    <2>6. QED
      BY <2>5
  <1>2. QED
    BY <1>1, SurfaceInductive, PTL

\* The reads of the Multi-State Input and what they return.
LEMMA StateReads ==
    ASSUME accepted = Len(SetupCalls)
    PROVE  /\ ReadProperty(MultiStateInput, "State_Text", 0) = Serve(3)
           /\ ReadProperty(MultiStateInput, "Number_Of_States", NoIndex) = Serve(3)
           /\ ReadProperty(MultiStateInput, "Present_Value", NoIndex) = Serve(multiState)
           /\ \A i \in 1..3 : ReadProperty(MultiStateInput, "State_Text", i) = Serve(StateText[i])
           /\ ReadProperty(MultiStateInput, "State_Text", 4) = Refuse("invalid-array-index")
  <1> DEFINE o == MultiStateInput
  <1>0. o \in Objects /\ o[1] = "Multi-state Input"
    BY ObjectTypes DEF Objects
  <1> HIDE DEF o
  <1>1. \A p, i : ReadProperty(o, p, i) = Fallback(Callback(o, p, i), p)
    BY <1>0, Answered, Zenon
  <1>2. \A p : <<o[1], p>> \notin RealProperties \cup EnumeratedProperties
    BY <1>0 DEF RealProperties, EnumeratedProperties
  <1>3. /\ Callback(o, "State_Text", 0) = Serve(3)
        /\ Callback(o, "Number_Of_States", NoIndex) = Serve(3)
        /\ Callback(o, "Present_Value", NoIndex) = Serve(multiState)
    <2>1. /\ Callback(o, "State_Text", 0)
               = GetPropertyUnsignedInteger(o, "State_Text", 0 # NoIndex, 0)
          /\ \A p \in {"Number_Of_States", "Present_Value"} :
               Callback(o, p, NoIndex)
                 = GetPropertyUnsignedInteger(o, p, NoIndex # NoIndex, NoIndex)
      BY <1>0, <1>2 DEF Callback, UnsignedProperties
    <2>2. GetPropertyUnsignedInteger(o, "State_Text", 0 # NoIndex, 0) = Serve(3)
      BY DEF GetPropertyUnsignedInteger, o, NoIndex, MULTI_STATE_INPUT_NUMBER_OF_STATES
    <2>3. GetPropertyUnsignedInteger(o, "Number_Of_States", NoIndex # NoIndex, NoIndex) = Serve(3)
      BY DEF GetPropertyUnsignedInteger, o, MULTI_STATE_INPUT_NUMBER_OF_STATES
    <2>4. GetPropertyUnsignedInteger(o, "Present_Value", NoIndex # NoIndex, NoIndex)
            = Serve(multiState)
      BY DEF GetPropertyUnsignedInteger, o
    <2>5. QED
      BY <2>1, <2>2, <2>3, <2>4
  <1>4. ASSUME NEW i \in 1..4
        PROVE  Callback(o, "State_Text", i) = StateTextElement(i)
    <2>1. Callback(o, "State_Text", i)
            = GetPropertyCharacterString(o, "State_Text", i # NoIndex, i)
      <3>1. <<o[1], "State_Text">> \notin UnsignedProperties \cup OctetStringProperties
                                            \cup BooleanProperties
        BY <1>0 DEF UnsignedProperties, OctetStringProperties, BooleanProperties
      <3>2. i # 0
        OBVIOUS
      <3>3. QED
        BY <1>2, <3>1, <3>2 DEF Callback
    <2>2. i # NoIndex
      BY DEF NoIndex
    <2>3. QED
      BY <2>1, <2>2 DEF GetPropertyCharacterString, IdentityStrings, o
  <1>5. ASSUME NEW i \in 1..3
        PROVE  StateTextElement(i) = Serve(StateText[i])
    <2>1. StateText[i] \notin TooLong
      <3>1. StateText[1] = "On" /\ StateText[2] = "Off" /\ StateText[3] = "Auto"
        BY DEF StateText
      <3>2. StateText[i] \in {"On", "Off", "Auto"}
        BY <3>1
      <3>3. QED
        BY <3>2, TextsAssumption
    <2>2. QED
      BY <2>1 DEF StateTextElement, ReturnCharacterString, MULTI_STATE_INPUT_NUMBER_OF_STATES
  <1>6. StateTextElement(4) = Refuse("invalid-array-index")
    BY DEF StateTextElement, MULTI_STATE_INPUT_NUMBER_OF_STATES
  <1>7. QED
    BY <1>1, <1>3, <1>4, <1>5, <1>6, Kinds DEF o

\* The state the Multi-State Input is in always has a label, and the labels end
\* where Number_Of_States says (main.ts:466-481 and :623-646 agree).
THEOREM EveryStateHasALabel == SurfaceSpec => []StateHasLabel
  <1>1. SurfaceInv => StateHasLabel
    <2> SUFFICES ASSUME SurfaceInv, phase = "ready"
                 PROVE  StateHasLabel
      BY DEF StateHasLabel
    <2>1. accepted = Len(SetupCalls) /\ multiState \in 1..3
      BY DEF SurfaceInv, AnnouncedWhole, SurfaceTypeOK, MULTI_STATE_INPUT_NUMBER_OF_STATES
    <2>2. ReadProperty(MultiStateInput, "State_Text", 0).value = 3
      BY <2>1, StateReads, Kinds
    <2>3. ReadProperty(MultiStateInput, "Number_Of_States", NoIndex).value = 3
      BY <2>1, StateReads, Kinds
    <2>4. ReadProperty(MultiStateInput, "Present_Value", NoIndex).value \in 1..3
      BY <2>1, StateReads, Kinds
    <2>5. QED
      BY <2>1, <2>2, <2>3, <2>4, StateReads DEF StateHasLabel
  <1>2. QED
    BY <1>1, SurfaceInductive, PTL

-----------------------------------------------------------------------------
(* The names of the device                                                 *)

OtherNames == {"Bronze", "Emerald", "Hot Pink", "Vermilion"}

\* Which name is whose.
LEMMA ObjectNamesAre ==
    /\ ObjectName(Device) = name /\ ObjectName(AnalogInput) = "Bronze"
    /\ ObjectName(BinaryInput) = "Emerald" /\ ObjectName(MultiStateInput) = "Hot Pink"
    /\ ObjectName(NetworkPort) = "Vermilion"
  BY ObjectTypes DEF ObjectName

\* The name a parser accepts fits the stack's buffer.
LEMMA NameFits ==
    ASSUME SurfaceInv, phase \in {"setup", "ready"}
    PROVE  name \notin TooLong
  <1>1. name = Configured(argv, "--deviceName", ValidNames(argv), DEVICE_NAME)
    BY DEF SurfaceInv, AsParsed
  <1>2. argv \in Seq(STRING)
    BY ArgvsAssumption DEF SurfaceInv, SurfaceTypeOK
  <1>3. name \in ValidNames(argv) \cup {DEVICE_NAME}
    BY <1>1, <1>2, ConfiguredIsValid, Zenon
  <1>4. QED
    BY <1>3, TextsAssumption DEF ValidNames

\* Each object reads back its own name, uncut.
LEMMA NameReads ==
    ASSUME SurfaceInv, phase = "ready", NEW o \in Objects
    PROVE  ReadProperty(o, "Object_Name", NoIndex) = Serve(ObjectName(o))
  <1>1. ReadProperty(o, "Object_Name", NoIndex)
          = Fallback(Callback(o, "Object_Name", NoIndex), "Object_Name")
    BY Answered, Zenon DEF SurfaceInv, AnnouncedWhole
  <1>2. Callback(o, "Object_Name", NoIndex)
          = GetPropertyCharacterString(o, "Object_Name", NoIndex # NoIndex, NoIndex)
    <2>1. <<o[1], "Object_Name">>
            \notin RealProperties \cup EnumeratedProperties \cup UnsignedProperties
                     \cup OctetStringProperties \cup BooleanProperties
      BY DEF RealProperties, EnumeratedProperties, UnsignedProperties,
             OctetStringProperties, BooleanProperties
    <2>2. QED
      BY <2>1 DEF Callback
  <1>3. GetPropertyCharacterString(o, "Object_Name", NoIndex # NoIndex, NoIndex)
          = ReturnCharacterString(ObjectName(o))
    BY DEF GetPropertyCharacterString, IdentityStrings
  <1>4. ObjectName(o) \notin TooLong
    <2>1. ObjectName(o) \in {name} \cup OtherNames
      BY ObjectNamesAre DEF Objects, OtherNames
    <2>2. QED
      BY <2>1, NameFits, TextsAssumption DEF OtherNames
  <1>5. QED
    BY <1>1, <1>2, <1>3, <1>4, Kinds DEF ReturnCharacterString

\* No two objects of the ready device share a name, exactly when the operator
\* did not give the device the name of one of its inputs or of its port
\* (main.ts:648-664; ParseDeviceNameArg does not compare them).
THEOREM NamesDistinctExactly ==
    SurfaceSpec => [](phase = "ready" => (NamesDistinct <=> name \notin OtherNames))
  <1>1. SurfaceInv => (phase = "ready" => (NamesDistinct <=> name \notin OtherNames))
    <2> SUFFICES ASSUME SurfaceInv, phase = "ready"
                 PROVE  NamesDistinct <=> name \notin OtherNames
      OBVIOUS
    <2>1. Added = Objects
      BY AllSetUp DEF SurfaceInv, AnnouncedWhole
    <2>2. \A o \in Objects : ReadProperty(o, "Object_Name", NoIndex) = Serve(ObjectName(o))
      BY NameReads, Zenon
    <2>3. \A o1, o2 \in Objects :
            ReadProperty(o1, "Object_Name", NoIndex) = ReadProperty(o2, "Object_Name", NoIndex)
              <=> ObjectName(o1) = ObjectName(o2)
      BY <2>2, Kinds
    <2>4. NamesDistinct <=> \A o1, o2 \in Objects : o1 # o2 => ObjectName(o1) # ObjectName(o2)
      BY <2>1, <2>3, Zenon DEF NamesDistinct
    <2>5. ASSUME name \notin OtherNames, NEW o1 \in Objects, NEW o2 \in Objects, o1 # o2
          PROVE  ObjectName(o1) # ObjectName(o2)
      <3>1. \A o \in Objects \ {Device} : ObjectName(o) \in OtherNames
        BY ObjectNamesAre DEF Objects, OtherNames
      <3>2. CASE o1 = Device \/ o2 = Device
        BY <2>5, <3>1, <3>2, ObjectNamesAre
      <3>3. CASE o1 # Device /\ o2 # Device
        BY <2>5, <3>3, ObjectNamesAre DEF Objects
      <3>4. QED
        BY <3>2, <3>3
    <2>6. ASSUME name \in OtherNames
          PROVE  \E o2 \in Objects : Device # o2 /\ ObjectName(Device) = ObjectName(o2)
      BY <2>6, ObjectNamesAre, ObjectTypes DEF Objects, OtherNames
    <2>7. Device \in Objects
      BY DEF Objects
    <2>8. QED
      BY <2>4, <2>5, <2>6, <2>7, Zenon
  <1>2. QED
    BY <1>1, SurfaceInductive, PTL

\* In particular, the names are distinct on every command line that does not
\* contain one of the four names.
THEOREM NamesStayDistinct ==
    ASSUME \A line \in Argvs : Tokens(line) \cap OtherNames = {}
    PROVE  SurfaceSpec => []NamesDistinct
  <1>1. SurfaceInv /\ phase = "ready" => name \notin OtherNames
    <2> SUFFICES ASSUME SurfaceInv, phase = "ready"
                 PROVE  name \notin OtherNames
      OBVIOUS
    <2>1. name = Configured(argv, "--deviceName", ValidNames(argv), DEVICE_NAME)
      BY DEF SurfaceInv, AsParsed
    <2>2. argv \in Argvs /\ argv \in Seq(STRING)
      BY ArgvsAssumption DEF SurfaceInv, SurfaceTypeOK
    <2>3. name \in ValidNames(argv) \cup {DEVICE_NAME}
      BY <2>1, <2>2, ConfiguredIsValid, Zenon
    <2>4. DEVICE_NAME \notin OtherNames
      BY DEF DEVICE_NAME, OtherNames
    <2>5. QED
      BY <2>2, <2>3, <2>4 DEF ValidNames
  <1>2. ~(phase = "ready") => NamesDistinct
    BY DEF NamesDistinct
  <1>3. QED
    BY <1>1, <1>2, SurfaceInductive, NamesDistinctExactly, PTL

\* The instance the device broadcasts and the name it reads back are the first
\* valid ones of the command line, however long the command line is and whatever
\* invalid, repeated or dangling options it holds (CASExampleHelper.ts:498-562,
\* main.ts:711-742, :847-855).
THEOREM IdentityIsAsConfigured == SurfaceSpec => []IdentityAsConfigured
  <1>1. SurfaceInv => IdentityAsConfigured
    <2> SUFFICES ASSUME SurfaceInv, announced # {}
                 PROVE  IdentityAsConfigured
      BY DEF IdentityAsConfigured
    <2>1. phase = "ready" /\ announced = {instance}
      BY DEF SurfaceInv, AnnouncedWhole
    <2>2. /\ instance = Numbers[Configured(argv, "--deviceID", ValidInstances, DEFAULT_INSTANCE)]
          /\ name = Configured(argv, "--deviceName", ValidNames(argv), DEVICE_NAME)
      BY <2>1 DEF SurfaceInv, AsParsed
    <2>3. <<"Device", CHOOSE i \in announced : TRUE>> = Device
      BY <2>1 DEF Device
    <2>4. ReadProperty(Device, "Object_Name", NoIndex) = Serve(name)
      <3>1. Device \in Objects
        BY DEF Objects
      <3>2. QED
        BY <2>1, <3>1, NameReads, ObjectNamesAre, Zenon
    <2>5. QED
      BY <2>1, <2>2, <2>3, <2>4, Zenon DEF IdentityAsConfigured, ValidInstances, ValidNames
  <1>2. QED
    BY <1>1, SurfaceInductive, PTL

\* The start-up configuration is valid and the live values stay in range: the
\* instance is within 0..4194302 and the port within 1..65535, whatever tokens
\* the command line holds.
THEOREM SurfaceTypeCorrect == SurfaceSpec => []SurfaceTypeOK
  <1>1. SurfaceInv => SurfaceTypeOK
    BY DEF SurfaceInv
  <1>2. QED
    BY <1>1, SurfaceInductive, PTL
=============================================================================
