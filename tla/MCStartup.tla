------------------------------ MODULE MCStartup ------------------------------
(* Start-up with the command lines of at most two options, on a host with a *)
(* LAN adapter, a virtual switch and a VPN.                                 *)
EXTENDS Startup, TLC

MCNumbers == "389001" :> 389001 @@ "47808" :> 47808 @@ "0" :> 0
             @@ "4194302" :> 4194302 @@ "4194303" :> 4194303
MCTooLong == {"<257 bytes>"}
MCUnprintable == {""}
Flags == {"--deviceID", "--deviceName", "--port"}
\* A name that is free, and one that an object of the program has.
PlainValues == {"0", "4194302", "4194303", "<257 bytes>", "", "Unit 2", "Bronze"}

\* Up to two options, a flag with nothing after it, a flag taken for a value.
Lines(values) ==
    {<<>>, <<"--help">>} \cup {<<f>> : f \in Flags}
      \cup (Flags \X (values \cup Flags))
      \cup (Flags \X (values \cup Flags) \X values)
      \cup (Flags \X values \X Flags \X values)
MCArgvs == Lines(PlainValues)

Lan == [address |-> 18, size |-> 8]
Moved == [address |-> 34, size |-> 8]
VirtualSwitch == [address |-> 65, size |-> 16]
Tunnel == [address |-> 40, size |-> 1]   \* a /32 mask, as tunnels have

Listings(set) ==
    {<<>>} \cup {<<a>> : a \in set}
      \cup {<<a, b>> : a, b \in set} \cup {<<a, b, c>> : a, b, c \in set}
Distinct(lists) ==
    {l \in lists : \A i, j \in 1..Len(l) : l[i] = l[j] => i = j}
MCInterfaceLists == Distinct(Listings({Lan, Moved, VirtualSwitch, Tunnel}))

\* Bound: the command line and the interfaces are varied in turn; no step
\* of main() looks at both.
BoundedInit == StartupInit /\ (argv # <<>> => interfaces = <<Lan>>)
BoundedNext == StartupNext /\ (argv # <<>> => UNCHANGED changes)
BoundedSpec == BoundedInit /\ [][BoundedNext]_startupVars
=============================================================================
