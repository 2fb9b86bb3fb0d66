------------------------------ MODULE Connector ------------------------------
(***************************************************************************)
(* The ECHONET Lite network connector (src/connectors/echonet.rs): the     *)
(* list of sockets that Network::initialise builds, and the two loops that *)
(* open them (connect) and close them (disconnect).                        *)
(*                                                                         *)
(* A socket is its position in the order in which the nested loops         *)
(* "for ila in ilas { for is in ila.sockets }" visit it.  That order comes *)
(* from a HashSet, so nothing may depend on it; only the position matters. *)
(* Which addresses of which interface end up in the list, and which of     *)
(* them carry the multicast membership, is the subject of module           *)
(* Interfaces; here the list has any length up to MaxSockets and any       *)
(* subset of it is selected.                                               *)
(***************************************************************************)
EXTENDS Naturals

CONSTANT MaxSockets       \* a bound on the length of the socket list

ASSUME MaxSocketsAssumption == MaxSockets \in Nat

VARIABLES
    sockets,              \* number of InterfaceSockets in self.ilas
    multicast_selected,   \* the ones with multicast_selected set
    open,                 \* the ones whose RefCell holds Some(UdpSocket)
    joined,               \* the ones that are members of the multicast group
    left,                 \* the ones that left the group by a leave_multicast call
    cursor                \* where the connect or disconnect loop stands

connectorVars == <<sockets, multicast_selected, open, joined, left, cursor>>

ConnectorTypeOK ==
    /\ sockets \in 0..MaxSockets
    /\ multicast_selected \subseteq 1..sockets
    /\ open \subseteq 1..sockets
    /\ joined \subseteq 1..sockets
    /\ left \subseteq 1..sockets
    /\ cursor \in 1..(sockets + 1)

\* Network::new: ilas is None, which both loops treat as an empty list.
ConnectorInit ==
    /\ sockets = 0
    /\ multicast_selected = {}
    /\ open = {}
    /\ joined = {}
    /\ left = {}
    /\ cursor = 1

\* Network::initialise, when every call in it succeeds: the list is saved as
\* its last statement.
SaveSockets ==
    /\ \E n \in 0..MaxSockets :
          /\ sockets' = n
          /\ multicast_selected' \in SUBSET (1..n)
    /\ cursor' = 1
    /\ UNCHANGED <<open, joined, left>>

\* Network::initialise, when getifaddrs fails, whose result is unwrapped, or
\* if_nametoindex, whose error is returned: both before the list is saved.
SaveNothing == UNCHANGED connectorVars

\* Mutant: the loop bound is off by one.
LoopDoneLate == cursor > sockets + 1

LoopDone == cursor > sockets

\* Mutant: the multicast_selected test is lost, every socket joins the group.
OpenSocketAlwaysJoins ==
    /\ ~ LoopDone
    /\ open' = open \union {cursor}
    /\ joined' = joined \union {cursor}
    /\ cursor' = cursor + 1
    /\ UNCHANGED <<sockets, multicast_selected, left>>

\* One round of the loop of connect: bind, join the group when the socket is
\* selected, and only then save the socket.
OpenSocket ==
    /\ ~ LoopDone
    /\ open' = open \union {cursor}
    /\ joined' = joined \union ({cursor} \intersect multicast_selected)
    /\ cursor' = cursor + 1
    /\ UNCHANGED <<sockets, multicast_selected, left>>

\* bind or join_multicast fails: the half-made socket is a local and is
\* dropped, the ones saved in earlier rounds stay as they are.
OpenSocketFails ==
    /\ ~ LoopDone
    /\ UNCHANGED connectorVars

\* disconnect starts its own loop over the same list.
Rewind ==
    /\ cursor' = 1
    /\ UNCHANGED <<sockets, multicast_selected, open, joined, left>>

\* Mutant: the socket is dropped without leaving the group first.
CloseSocketNoLeave ==
    /\ ~ LoopDone
    /\ joined' = joined \ {cursor}
    /\ open' = open \ {cursor}
    /\ cursor' = cursor + 1
    /\ UNCHANGED <<sockets, multicast_selected, left>>

\* One round of the loop of disconnect: leave the group when the socket is
\* open and selected, then drop the socket.
CloseSocket ==
    /\ ~ LoopDone
    /\ LET leaves == {cursor} \intersect open \intersect multicast_selected
       IN  /\ left' = left \union leaves
           /\ joined' = joined \ leaves
    /\ open' = open \ {cursor}
    /\ cursor' = cursor + 1
    /\ UNCHANGED <<sockets, multicast_selected>>

\* leave_multicast fails: the "?" returns before the socket is dropped.  A
\* socket that is not selected makes no call that can fail.
CloseSocketFails ==
    /\ ~ LoopDone
    /\ cursor \in open \intersect multicast_selected
    /\ UNCHANGED connectorVars

\* main returns and the Network is dropped: every socket still held is closed,
\* and the kernel ends the memberships of a closed socket.
DropNetwork ==
    /\ open' = {}
    /\ joined' = {}
    /\ UNCHANGED <<sockets, multicast_selected, left, cursor>>

=============================================================================
