------------------------------- MODULE Startup -------------------------------
(***************************************************************************)
(* main() from the command line to the running device: the Surface it      *)
(* configures on the stack together with the address it takes for its own. *)
(* The two meet in the order of main() (the address is captured between    *)
(* the bind and the first set-up call), in the I-Am that ends the set-up,  *)
(* and in the Network Port, which serves the address that was captured.    *)
(* The host's interfaces change between any two steps.                     *)
(***************************************************************************)
EXTENDS Surface, Transport

startupVars == <<surfaceVars, transportVars>>

StartupInit == SurfaceInit /\ TransportInit

\* Nothing of the address is known before the command line was read.
BeforeTheBind == (NotStarted \/ ReadCommandLine) /\ UNCHANGED transportVars

\* The bind, or a set-up call, fails.
StartupFails == Fail /\ started # "discovered" /\ UNCHANGED transportVars

\* The socket is bound: the address is discovered, then captured.
OwnAddress ==
    /\ phase = "setup" /\ accepted = 0
    /\ DiscoverPrimaryIPv4 \/ DiscoverFails \/ CaptureAddress
    /\ UNCHANGED surfaceVars

\* The stack is set up with the callbacks registered, once the address is known.
SetUp == started = "captured" /\ SetupCall /\ UNCHANGED transportVars

\* The I-Am leaves when every set-up call was accepted.
StartupAnnounces == Announce /\ SendIAm

\* The stack's frames, and the Simulation, while the loop runs.
Runs ==
    \/ /\ SendOnDataLink \/ SendToOwnAddress \/ SendRefused
          \/ \E peer \in Peers, ownPort \in BOOLEAN : SendAnswer(peer, ownPort)
       /\ UNCHANGED surfaceVars
    \/ SimulationSteps /\ UNCHANGED transportVars

HostChanges == phase # "exited" /\ InterfacesChange /\ UNCHANGED surfaceVars

StartupNext ==
    \/ BeforeTheBind \/ OwnAddress \/ SetUp \/ StartupAnnounces
    \/ Runs \/ HostChanges \/ StartupFails

StartupSpec == StartupInit /\ [][StartupNext]_startupVars

-----------------------------------------------------------------------------
(* Properties                                                              *)

\* What the variable holds that the Network Port serves an address from.
Held(variable) ==
    CASE variable = "g_ipAddress" -> reported.address
      [] variable = "g_ipSubnetMask" -> reported.size
      [] variable = "g_ipDefaultGateway" -> 0
Read(p) == Held(ReadProperty(NetworkPort, p, NoIndex).value)

\* From the I-Am on, what the device broadcasts goes to the network that a
\* client finds when it reads the address and the mask of the Network Port
\* (main.ts:849-850 "the Network Port's own network").
BroadcastOnServedNetwork ==
    sent.for = "broadcast" =>
      sent.ip = Broadcast([address |-> Read("IP_Address"), size |-> Read("IP_Subnet_Mask")])
=============================================================================
