------------------------------ MODULE Transport ------------------------------
(***************************************************************************)
(* common/CASExampleHelper.ts: which interface the device takes for its    *)
(* own (DiscoverPrimaryIPv4, GetLocalIPv4), what the Network Port object   *)
(* reports of it, and where the send callback sends a frame.               *)
(*                                                                         *)
(* main() captures the address once; the send callback looks it up again   *)
(* for every frame.  In between the host's interfaces change: a lease is   *)
(* renewed, a VPN comes up, a virtual switch is listed first.              *)
(*                                                                         *)
(* An address is a number, a netmask the size of the subnet it leaves (a   *)
(* power of two).  External: the operating system's interface list and its *)
(* choice of a route, and the stack, which hands the callback a connection *)
(* string.                                                                 *)
(***************************************************************************)
EXTENDS Integers, Sequences

CONSTANTS
    InterfaceLists,  \* the lists os.networkInterfaces may return
    Peers,           \* the addresses requests come from
    PrimaryStays,    \* the interface chosen at start-up keeps its address
    MaxChanges       \* bound: changes of the interface list

NoAddress == -1
Loopback == [address |-> 0, size |-> 2]
Addresses(list) == {list[i].address : i \in 1..Len(list)}

ASSUME InterfaceListsAssumption ==
    \A list \in InterfaceLists :
      /\ list \in Seq([address : Nat, size : Nat \ {0}])
      /\ \A i, j \in 1..Len(list) : list[i].address = list[j].address => i = j
ASSUME PeersAssumption == Peers \subseteq Nat
ASSUME PrimaryStaysAssumption == PrimaryStays \in BOOLEAN
ASSUME MaxChangesAssumption == MaxChanges \in Nat

VARIABLES
    interfaces,  \* the host's non-internal IPv4 interfaces
    changes,     \* how often they changed
    started,     \* "bound", "discovered", "captured" or "running"
    primary,     \* g_primaryAddress
    reported,    \* g_ipAddress and g_ipSubnetMask
    sent         \* the last datagram sent: its purpose and its destination

transportVars == <<interfaces, changes, started, primary, reported, sent>>

Purposes == {"nothing", "broadcast", "answer"}
Destination == [for : Purposes, peer : Nat \cup {NoAddress}, ip : Nat \cup {NoAddress}]
Nothing == [for |-> "nothing", peer |-> NoAddress, ip |-> NoAddress]

TransportTypeOK ==
    /\ interfaces \in InterfaceLists
    /\ changes \in 0..MaxChanges
    /\ started \in {"bound", "discovered", "captured", "running"}
    /\ primary \in Nat \cup {NoAddress}
    /\ reported \in [address : Nat, size : Nat]
    /\ sent \in Destination

TransportInit ==
    /\ interfaces \in InterfaceLists
    /\ changes = 0
    /\ started = "bound"
    /\ primary = NoAddress
    /\ reported = [address |-> 0, size |-> 0]
    /\ sent = Nothing

-----------------------------------------------------------------------------
(* Choosing the interface                                                  *)

\* Mutant: the first interface is taken whatever the route says.
MutFirstInterface(list, wanted) == IF list = <<>> THEN Loopback ELSE list[1]

\* GetLocalIPv4 on a given list: the primary interface if it is listed, else
\* the first one, else loopback.
LocalIPv4(list, wanted) ==
    IF list = <<>> THEN Loopback
    ELSE IF wanted \in Addresses(list)
         THEN list[CHOOSE i \in 1..Len(list) : list[i].address = wanted]
         ELSE list[1]

GetLocalIPv4 == LocalIPv4(interfaces, primary)

\* The address with every host bit set.
Broadcast(interface) ==
    (interface.address - (interface.address % interface.size)) + (interface.size - 1)

\* The probe socket is connected: the route goes out through an interface.
DiscoverPrimaryIPv4 ==
    /\ started = "bound"
    /\ primary' \in Addresses(interfaces)
    /\ started' = "discovered"
    /\ UNCHANGED <<interfaces, changes, reported, sent>>

\* The probe fails (no route): the first-interface fallback stays in place.
DiscoverFails ==
    /\ started = "bound"
    /\ started' = "discovered"
    /\ UNCHANGED <<interfaces, changes, primary, reported, sent>>

CaptureAddress ==
    /\ started = "discovered"
    /\ reported' = GetLocalIPv4
    /\ started' = "captured"
    /\ UNCHANGED <<interfaces, changes, primary, sent>>

\* External: the interface list changes.  The one in use keeps its address
\* and mask when PrimaryStays.
Kept(list) ==
    \/ started = "bound"
    \/ interfaces = <<>> /\ list = <<>>
    \/ /\ interfaces # <<>>
       /\ \E i \in 1..Len(list) : list[i] = GetLocalIPv4
       /\ primary \notin Addresses(interfaces) =>
            /\ list[1] = GetLocalIPv4
            /\ primary \notin Addresses(list)

InterfacesChange ==
    /\ changes < MaxChanges
    /\ changes' = changes + 1
    /\ interfaces' \in InterfaceLists
    /\ PrimaryStays => Kept(interfaces')
    /\ UNCHANGED <<started, primary, reported, sent>>

-----------------------------------------------------------------------------
(* The send callback.  Port numbers: a connection string carries this      *)
(* socket's own port (ownPort) or another one.                             *)

\* A broadcast addressed to this socket goes to the subnet; every other
\* address is sent to as given.
SendTo(ip, ownPort, broadcast) ==
    IF broadcast /\ ownPort /\ ip = GetLocalIPv4.address
    THEN Broadcast(GetLocalIPv4) ELSE ip

\* A connection string of length 0: broadcast on this data link.
SendOnDataLink ==
    /\ started = "running"
    /\ sent' = [for |-> "broadcast", peer |-> NoAddress, ip |-> Broadcast(GetLocalIPv4)]
    /\ UNCHANGED <<interfaces, changes, started, primary, reported>>

\* SendIAm at the end of the set-up: the connection string holds the
\* subnet's broadcast address.  Then the loop starts.
SendIAm ==
    /\ started = "captured"
    /\ started' = "running"
    /\ sent' = [for |-> "broadcast", peer |-> NoAddress,
                ip |-> SendTo(Broadcast(GetLocalIPv4), TRUE, TRUE)]
    /\ UNCHANGED <<interfaces, changes, primary, reported>>

\* A broadcast the stack addresses to this socket, by the MAC_Address it
\* builds from the IP_Address the Network Port reports.
SendToOwnAddress ==
    /\ started = "running"
    /\ sent' = [for |-> "broadcast", peer |-> NoAddress,
                ip |-> SendTo(reported.address, TRUE, TRUE)]
    /\ UNCHANGED <<interfaces, changes, started, primary, reported>>

\* An answer, to the address and port the request came from.
SendAnswer(peer, ownPort) ==
    /\ started = "running"
    /\ sent' = [for |-> "answer", peer |-> peer, ip |-> SendTo(peer, ownPort, FALSE)]
    /\ UNCHANGED <<interfaces, changes, started, primary, reported>>

\* A connection string of 1 to 5 octets, or another Network Port: refused.
SendRefused ==
    /\ started = "running"
    /\ sent' = Nothing
    /\ UNCHANGED <<interfaces, changes, started, primary, reported>>

TransportNext ==
    \/ DiscoverPrimaryIPv4 \/ DiscoverFails \/ CaptureAddress \/ InterfacesChange
    \/ SendOnDataLink \/ SendIAm \/ SendToOwnAddress \/ SendRefused
    \/ \E peer \in Peers, ownPort \in BOOLEAN : SendAnswer(peer, ownPort)

TransportSpec == TransportInit /\ [][TransportNext]_transportVars

-----------------------------------------------------------------------------
(* Properties                                                              *)

\* Every frame the stack broadcasts goes to the subnet of the address and
\* mask the Network Port object reports, however the other interfaces of the
\* host come, go and are reordered after main() captured it.
BroadcastOnReportedNetwork ==
    sent.for = "broadcast" => sent.ip = Broadcast(reported)

\* A broadcast is never sent to the device itself: CASExampleHelper.ts:322-324
\* "Unicast to ourselves, no other device would ever receive it, so it goes to
\* the subnet broadcast instead."
BroadcastLeavesTheDevice ==
    sent.for = "broadcast" => sent.ip # reported.address
=============================================================================
