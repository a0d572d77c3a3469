------------------------------- MODULE Surface -------------------------------
(***************************************************************************)
(* The BACnet Surface of the sensor: what main() configures from the       *)
(* command line and adds to the stack, and what the six Get callbacks      *)
(* answer when a client reads a property.                                  *)
(*                                                                         *)
(* A token of the command line is a string; what it spells (a number, too  *)
(* long a text, an unprintable one) is given by the constants.  A served   *)
(* value whose content no property looks at is named by its variable.      *)
(*                                                                         *)
(* External, modelled from the comments on its use in main.ts: the stack.  *)
(* It answers a read of what was added and enabled, asks the callback of   *)
(* the property's datatype, and substitutes a default when that declines.  *)
(***************************************************************************)
EXTENDS Naturals, Sequences

CONSTANTS
    Argvs,        \* the command lines to start with
    Numbers,      \* the number each all-digits token spells
    TooLong,      \* the tokens over a name's 255 bytes and the stack's 256
    Unprintable   \* the empty token and those with a control character

DEFAULT_INSTANCE == "389001"
DEFAULT_PORT == "47808"
DEVICE_NAME == "Chipkin Example B-SS"
MULTI_STATE_INPUT_NUMBER_OF_STATES == 3
NO_FAULT_DETECTED == 0
OPEN_LOOP == 4
UnconfiguredInstance == 4194303
MaxInstance == 4194302
MaxPort == 65535
NETWORK_PORT_REFERENCE_PORT_NONE == 4194303

ASSUME NumbersAssumption ==
    /\ \A t \in DOMAIN Numbers : Numbers[t] \in Nat
    /\ Numbers[DEFAULT_INSTANCE] = 389001
    /\ Numbers[DEFAULT_PORT] = 47808

ASSUME ArgvsAssumption == Argvs \subseteq Seq(STRING)

\* The program's own names and labels are short.
ASSUME TextsAssumption ==
    TooLong \cap {DEVICE_NAME, "Bronze", "Emerald", "Hot Pink", "Vermilion",
                  "On", "Off", "Auto"} = {}

VARIABLES
    argv,          \* the command line
    phase,         \* "load", "setup", "ready" or "exited"
    accepted,      \* how many of the set-up calls the stack accepted
    instance,      \* g_deviceInstance
    name,          \* g_deviceName
    port,          \* g_bacnetIpUdpPort
    announced,     \* the instances broadcast in an I-Am
    multiState,    \* g_multiStateInput1Value
    reliability    \* g_analogInput1Reliability

config == <<instance, name, port>>
live == <<multiState, reliability>>
surfaceVars == <<argv, phase, accepted, config, announced, live>>

AnalogInput == <<"Analog Input", 1>>
BinaryInput == <<"Binary Input", 1>>
MultiStateInput == <<"Multi-state Input", 1>>
NetworkPort == <<"Network Port", 1>>
Device == <<"Device", instance>>
Objects == {Device, AnalogInput, BinaryInput, MultiStateInput, NetworkPort}

SurfaceInit ==
    /\ argv \in Argvs
    /\ phase = "load"
    /\ accepted = 0
    /\ instance = Numbers[DEFAULT_INSTANCE]
    /\ name = DEVICE_NAME
    /\ port = Numbers[DEFAULT_PORT]
    /\ announced = {}
    /\ multiState = 1
    /\ reliability = NO_FAULT_DETECTED

-----------------------------------------------------------------------------
(* The command line                                                        *)

HandleHelpAndVersionArgs ==
    \E i \in 1..Len(argv) : argv[i] \in {"--help", "-h", "/?", "--version"}

\* Mutant: a later value overrides an earlier one.
MutLastWins(flag, valid, default) ==
    LET upTo[i \in 0..Len(argv)] ==
          IF i < 2 THEN default
          ELSE IF argv[i-1] = flag /\ argv[i] \in valid THEN argv[i]
          ELSE upTo[i-1]
    IN  upTo[Len(argv)]

\* The loop of the three parsers: the first flag followed by a valid value.
Scan(flag, valid, default) ==
    LET from[i \in 1..Len(argv)+1] ==
          IF i + 1 > Len(argv) THEN default
          ELSE IF argv[i] = flag /\ argv[i+1] \in valid THEN argv[i+1]
          ELSE from[i+1]
    IN  from[1]

ParseWholeNumber == DOMAIN Numbers
ParsePortArg ==
    Numbers[Scan("--port", {t \in ParseWholeNumber : Numbers[t] \in 1..MaxPort}, DEFAULT_PORT)]

ParseDeviceIdArg ==
    Numbers[Scan("--deviceID",
                 {t \in ParseWholeNumber : Numbers[t] < UnconfiguredInstance}, DEFAULT_INSTANCE)]

Tokens(line) == {line[i] : i \in 1..Len(line)}
ParseDeviceNameArg ==
    Scan("--deviceName", Tokens(argv) \ (TooLong \cup Unprintable), DEVICE_NAME)

-----------------------------------------------------------------------------
(* main(): the calls that set the stack up, in order                       *)

Add(o) == [call |-> "add", object |-> o, what |-> "object"]
Service(s) == [call |-> "service", object |-> Device, what |-> s]
Enable(o, p) == [call |-> "enable", object |-> o, what |-> p]

\* Mutant: the Device's Description is served but not enabled.
MutNotEnabled ==
    << Add(Device), Service("ReadProperty"), Service("Who-Is"), Service("I-Am"),
       Service("Who-Has"), Service("I-Have"), Add(AnalogInput), Add(BinaryInput),
       Add(MultiStateInput), Add(NetworkPort),
       Enable(MultiStateInput, "State_Text"), Enable(AnalogInput, "Reliability") >>

SetupCalls ==
    << Add(Device), Service("ReadProperty"), Service("Who-Is"), Service("I-Am"),
       Service("Who-Has"), Service("I-Have"), Add(AnalogInput), Add(BinaryInput),
       Add(MultiStateInput), Add(NetworkPort), Enable(Device, "Description"),
       Enable(MultiStateInput, "State_Text"), Enable(AnalogInput, "Reliability") >>

Made == {SetupCalls[i] : i \in 1..accepted}
Added == {c.object : c \in {d \in Made : d.call = "add"}}

\* The stack did not load, or --help or --version was given: nothing starts.
NotStarted ==
    /\ phase = "load"
    /\ phase' = "exited"
    /\ UNCHANGED <<argv, accepted, config, announced, live>>

ReadCommandLine ==
    /\ phase = "load"
    /\ ~HandleHelpAndVersionArgs
    /\ port' = ParsePortArg
    /\ instance' = ParseDeviceIdArg
    /\ name' = ParseDeviceNameArg
    /\ phase' = "setup"
    /\ UNCHANGED <<argv, accepted, announced, live>>

SetupCall ==
    /\ phase = "setup"
    /\ accepted < Len(SetupCalls)
    /\ accepted' = accepted + 1
    /\ UNCHANGED <<argv, phase, config, announced, live>>

\* The bind fails or the stack refuses a call: fail().
Fail ==
    /\ phase = "setup"
    /\ phase' = "exited"
    /\ UNCHANGED <<argv, accepted, config, announced, live>>

\* The I-Am that announces the device; Transport has where it goes.
Announce ==
    /\ phase = "setup"
    /\ accepted = Len(SetupCalls)
    /\ announced' = announced \cup {instance}
    /\ phase' = "ready"
    /\ UNCHANGED <<argv, accepted, config, live>>

-----------------------------------------------------------------------------
(* The Get callbacks.  A callback serves a value, declines, or fails with  *)
(* an error code.                                                          *)

Serve(v) == [kind |-> "ack", value |-> v]
Decline == [kind |-> "decline"]
Refuse(code) == [kind |-> "error", code |-> code]

GetPropertyReal(o, p) ==
    IF <<o, p>> = <<AnalogInput, "Present_Value">> THEN Serve("g_analogInput1Value") ELSE Decline

GetPropertyEnumerated(o, p) ==
    CASE <<o, p>> = <<BinaryInput, "Present_Value">> -> Serve("g_binaryInput1Value")
      [] <<o, p>> = <<BinaryInput, "Polarity">> -> Serve("normal")
      [] <<o, p>> = <<AnalogInput, "Units">> -> Serve("degrees-celsius")
      [] <<o, p>> = <<AnalogInput, "Reliability">> -> Serve(reliability)
      [] <<o, p>> = <<NetworkPort, "BACnet_IP_Mode">> -> Serve("normal")
      [] OTHER -> Decline

GetPropertyUnsignedInteger(o, p, useIndex, index) ==
    CASE \/ <<o, p>> = <<MultiStateInput, "Number_Of_States">>
         \/ <<o, p>> = <<MultiStateInput, "State_Text">> /\ useIndex /\ index = 0
           -> Serve(MULTI_STATE_INPUT_NUMBER_OF_STATES)
      [] <<o, p>> = <<MultiStateInput, "Present_Value">> -> Serve(multiState)
      [] <<o, p>> = <<Device, "Vendor_Identifier">> -> Serve(389)
      [] <<o, p>> = <<NetworkPort, "APDU_Length">> -> Serve(1476)
      [] <<o, p>> = <<NetworkPort, "Reference_Port">> -> Serve(NETWORK_PORT_REFERENCE_PORT_NONE)
      [] <<o, p>> = <<NetworkPort, "BACnet_IP_UDP_Port">> -> Serve(port)
      [] OTHER -> Decline

\* Matches the object type and not the instance.
GetPropertyBool(o, p) ==
    IF /\ p = "Out_Of_Service"
       /\ o[1] \in {"Analog Input", "Binary Input", "Multi-state Input", "Network Port"}
    THEN Serve(FALSE) ELSE Decline

\* Mutant: the gateway is served as the address.
MutGateway(o, p) ==
    CASE <<o, p>> = <<NetworkPort, "IP_Subnet_Mask">> -> Serve("g_ipSubnetMask")
      [] o = NetworkPort /\ p \in {"IP_Address", "IP_Default_Gateway"} -> Serve("g_ipDefaultGateway")
      [] OTHER -> Decline

GetPropertyOctetString(o, p) ==
    CASE <<o, p>> = <<NetworkPort, "IP_Address">> -> Serve("g_ipAddress")
      [] <<o, p>> = <<NetworkPort, "IP_Subnet_Mask">> -> Serve("g_ipSubnetMask")
      [] <<o, p>> = <<NetworkPort, "IP_Default_Gateway">> -> Serve("g_ipDefaultGateway")
      [] OTHER -> Decline

\* The text, cut to the 256 bytes of the stack's buffer.
ReturnCharacterString(text) == Serve(IF text \in TooLong THEN "cut" ELSE text)

StateText == <<"On", "Off", "Auto">>

\* Mutant: the table is indexed from 0, as JavaScript arrays are.
MutStateTextFromZero(index) ==
    IF index >= 0 /\ index < MULTI_STATE_INPUT_NUMBER_OF_STATES
    THEN ReturnCharacterString(StateText[index+1])
    ELSE Refuse("invalid-array-index")

StateTextElement(index) ==
    IF index >= 1 /\ index <= MULTI_STATE_INPUT_NUMBER_OF_STATES
    THEN ReturnCharacterString(StateText[index])
    ELSE Refuse("invalid-array-index")

ObjectName(o) ==
    CASE o = Device -> name
      [] o = AnalogInput -> "Bronze"
      [] o = BinaryInput -> "Emerald"
      [] o = MultiStateInput -> "Hot Pink"
      [] o = NetworkPort -> "Vermilion"

\* The Device's identity strings, each named by its property.
IdentityStrings == {"Description", "Vendor_Name", "Model_Name", "Firmware_Revision",
                    "Application_Software_Version"}

GetPropertyCharacterString(o, p, useIndex, index) ==
    CASE o = MultiStateInput /\ p = "State_Text" /\ useIndex -> StateTextElement(index)
      [] o \in Objects /\ p = "Object_Name" -> ReturnCharacterString(ObjectName(o))
      [] o = Device /\ p \in IdentityStrings -> ReturnCharacterString(p)
      [] OTHER -> Decline

-----------------------------------------------------------------------------
(* The stack (external)                                                    *)

\* The properties the application serves, by the callback that is asked.
RealProperties == {<<"Analog Input", "Present_Value">>}
EnumeratedProperties ==
    {<<"Binary Input", "Present_Value">>, <<"Binary Input", "Polarity">>,
     <<"Analog Input", "Units">>, <<"Analog Input", "Reliability">>,
     <<"Network Port", "BACnet_IP_Mode">>}
UnsignedProperties ==
    {<<"Multi-state Input", "Present_Value">>, <<"Multi-state Input", "Number_Of_States">>,
     <<"Device", "Vendor_Identifier">>, <<"Network Port", "APDU_Length">>,
     <<"Network Port", "Reference_Port">>, <<"Network Port", "BACnet_IP_UDP_Port">>}
OctetStringProperties ==
    {"Network Port"} \X {"IP_Address", "IP_Subnet_Mask", "IP_Default_Gateway"}
StringProperties ==
    ({"Device", "Analog Input", "Binary Input", "Multi-state Input", "Network Port"}
        \X {"Object_Name"})
    \cup ({"Device"} \X {"Description", "Vendor_Name", "Model_Name", "Firmware_Revision",
                         "Application_Software_Version"})
    \cup {<<"Multi-state Input", "State_Text">>}
BooleanProperties ==
    {"Analog Input", "Binary Input", "Multi-state Input", "Network Port"}
        \X {"Out_Of_Service"}
Properties == RealProperties \cup EnumeratedProperties \cup UnsignedProperties
              \cup OctetStringProperties \cup StringProperties \cup BooleanProperties
OptionalProperties == {<<"Device", "Description">>, <<"Multi-state Input", "State_Text">>,
                       <<"Analog Input", "Reliability">>}

\* Declining one of these is an error; declining any other reads a default.
NeverInvented == {"Present_Value", "Number_Of_States", "APDU_Length"}

Fallback(result, p) ==
    IF result.kind # "decline" THEN result
    ELSE IF p \in NeverInvented THEN Refuse("read-access-denied")
    ELSE [kind |-> "default"]

\* The index of a read is an array element, or NoIndex.
NoIndex == 99
Callback(o, p, index) ==
    LET tp == <<o[1], p>>
    IN  IF tp \in RealProperties THEN GetPropertyReal(o, p)
        ELSE IF tp \in EnumeratedProperties THEN GetPropertyEnumerated(o, p)
        ELSE IF tp \in UnsignedProperties \/ (p = "State_Text" /\ index = 0)
             THEN GetPropertyUnsignedInteger(o, p, index # NoIndex, index)
        ELSE IF tp \in OctetStringProperties THEN GetPropertyOctetString(o, p)
        ELSE IF tp \in BooleanProperties THEN GetPropertyBool(o, p)
        ELSE GetPropertyCharacterString(o, p, index # NoIndex, index)

ReadProperty(o, p, index) ==
    IF o \notin Added THEN Refuse("unknown-object")
    ELSE IF <<o[1], p>> \in OptionalProperties /\ Enable(o, p) \notin Made
         THEN Refuse("unknown-property")
    ELSE Fallback(Callback(o, p, index), p)

\* The Simulation between two requests (the module Sensor has its detail).
SimulationSteps ==
    /\ phase = "ready"
    /\ \/ /\ multiState' = (multiState % MULTI_STATE_INPUT_NUMBER_OF_STATES) + 1
          /\ UNCHANGED reliability
       \/ /\ reliability' \in {NO_FAULT_DETECTED, OPEN_LOOP} \ {reliability}
          /\ UNCHANGED multiState
    /\ UNCHANGED <<argv, phase, accepted, config, announced>>

SurfaceNext ==
    \/ NotStarted \/ ReadCommandLine \/ SetupCall \/ Fail \/ Announce
    \/ SimulationSteps

SurfaceSpec == SurfaceInit /\ [][SurfaceNext]_surfaceVars

-----------------------------------------------------------------------------
(* Properties                                                              *)

\* A client that reads a property the application serves gets the value a
\* callback served, for every object the ready device lists: never the
\* default the stack substitutes when a callback declines, never an error
\* because main() forgot to add the object or to enable the property.
NothingInvented ==
    phase = "ready" =>
      \A o \in Objects : \A tp \in {q \in Properties : q[1] = o[1]} :
        ReadProperty(o, tp[2], IF tp[2] = "State_Text" THEN multiState ELSE NoIndex).kind = "ack"

\* Once the device is ready, the state its Multi-State Input is in has a
\* label: State_Text at the index Present_Value reads is a text, every label
\* up to Number_Of_States is, and an element past it is refused.
StateHasLabel ==
    phase = "ready" =>
      LET n == ReadProperty(MultiStateInput, "State_Text", 0).value
          Label(i) == ReadProperty(MultiStateInput, "State_Text", i)
      IN  /\ n = ReadProperty(MultiStateInput, "Number_Of_States", NoIndex).value
          /\ ReadProperty(MultiStateInput, "Present_Value", NoIndex).value \in 1..n
          /\ \A i \in 1..n : Label(i) = Serve(StateText[i])
          /\ Label(n + 1) = Refuse("invalid-array-index")

\* No two objects of the ready device read back the same Object_Name:
\* main.ts:363 "duplicate object names within one device, a spec violation
\* and a hard BTL failure".
NamesDistinct ==
    phase = "ready" =>
      \A o1, o2 \in Added : o1 # o2 =>
        ReadProperty(o1, "Object_Name", NoIndex) # ReadProperty(o2, "Object_Name", NoIndex)

\* The first valid value that follows the flag on the command line.
FollowsFlag(line, flag, valid, i) == line[i] = flag /\ line[i+1] \in valid
Configured(line, flag, valid, default) ==
    LET places == {i \in 1..Len(line)-1 : FollowsFlag(line, flag, valid, i)}
    IN  IF places = {} THEN default
        ELSE line[(CHOOSE i \in places : \A j \in places : i <= j) + 1]

\* The identity the operator configured is the one the network sees: the
\* instance in the I-Am and the whole Object_Name of the Device object are the
\* first valid --deviceID and --deviceName of the command line.
IdentityAsConfigured ==
    announced # {} =>
      /\ announced = {Numbers[Configured(argv, "--deviceID",
                        {t \in DOMAIN Numbers : Numbers[t] <= MaxInstance}, DEFAULT_INSTANCE)]}
      /\ ReadProperty(<<"Device", CHOOSE i \in announced : TRUE>>, "Object_Name", NoIndex)
           = Serve(Configured(argv, "--deviceName",
                              Tokens(argv) \ (TooLong \cup Unprintable), DEVICE_NAME))
=============================================================================
