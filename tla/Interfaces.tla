------------------------------ MODULE Interfaces ------------------------------
(***************************************************************************)
(* Network::initialise (src/connectors/echonet.rs): from the addresses the *)
(* kernel reports and the configuration, the addresses to listen on, and   *)
(* the one of each family on each interface that joins the ECHONET Lite    *)
(* multicast group.                                                        *)
(*                                                                         *)
(* getifaddrs answers once, and the answer is read one entry at a time.    *)
(* The code asks for the index of each entry's name only then, and keys    *)
(* its list by that index: the names of a device's aliases resolve to one  *)
(* index, but a device that is made anew in between has another one.  An   *)
(* address is its family and the class that is_loopback, is_link_local,    *)
(* is_private and is_globalish put it in.  The netmask and the network it  *)
(* gives are computed and never read, so they are left out, as is the      *)
(* interface name, which is only logged.                                   *)
(***************************************************************************)
EXTENDS Config, Naturals, Sequences, FiniteSets

CONSTANTS
    Devices,       \* the network devices, each named by its first index
    Indices,       \* every index the kernel may give out
    Names,         \* the names of the devices, aliases included
    DeviceOf,      \* the device of each name
    FlagChoices,   \* the flags the devices may have, as functions on Devices
    Addresses,     \* the addresses an entry may carry
    Sections,      \* the network sections a configuration file may hold
    MaxEntries     \* a bound on the number of addresses that get a socket

Flags == {"UP", "RUNNING", "LOOPBACK", "POINTOPOINT", "MULTICAST"}

Families == {"v4", "v6"}

\* 1000 for each class, in the order in which the "if" chain of the choice of
\* the multicast address asks for them.
ClassWeight ==
    [linklocal |-> 1000, local |-> 2000, global |-> 3000, other |-> 5000]

Classes == DOMAIN ClassWeight \union {"loopback"}

ASSUME InterfacesAssumption ==
    /\ Devices \subseteq Indices
    /\ Indices \subseteq Nat
    /\ DeviceOf \in [Names -> Devices]
    /\ FlagChoices \subseteq [Devices -> SUBSET Flags]
    /\ Addresses \subseteq [family : Families \union {"other"}, class : Classes]
    /\ Sections \subseteq NetworkSections
    /\ MaxEntries \in Nat

VARIABLES
    config,        \* config.network
    flags,         \* the flags of each device
    index,         \* what if_nametoindex answers for the names of each device
    listened,      \* the entries that got a socket so far, and the index of each
    found,         \* the local HashSet, as the sockets of each interface
    pending,       \* the interfaces that the multicast loop has still to visit
    ilas,          \* self.ilas
    pc

vars == <<config, flags, index, listened, found, pending, ilas, pc>>

DEFAULT_PORT == 3610

\* maybe_only_interfaces: a missing or empty list is no filter, and the map
\* collected from the list keeps the last element of each name.
Filter == IF config.interfaces = <<>> THEN <<>> ELSE config.interfaces[1]

Filtered == Filter # <<>>

Configured(name) == {k \in DOMAIN Filter : Filter[k].name = name}

ConfigOf(name) ==
    Filter[CHOOSE k \in Configured(name) : \A j \in Configured(name) : j <= k]

\* Mutant: the port is put in network order in a word of 32 bits.
PortOfWide(name) ==
    (IF Filtered THEN ConfigOf(name).port ELSE DEFAULT_PORT) * 2^16

PortOf(name) == IF Filtered THEN ConfigOf(name).port ELSE DEFAULT_PORT

FamilyEnabled(name, family) ==
    Filtered => IF family = "v4" THEN ConfigOf(name).ipv4 ELSE ConfigOf(name).ipv6

\* The chain of "continue"s: whether an entry gets a socket.
Wanted(entry) ==
    LET its == flags[DeviceOf[entry.name]] IN
    /\ {"UP", "RUNNING"} \subseteq its
    /\ "LOOPBACK" \notin its
    /\ ~ (config.skip_ptp /\ "POINTOPOINT" \in its)
    /\ Filtered => Configured(entry.name) # {}
    /\ entry.address.family \in Families
    /\ entry.address.class # "loopback"
    /\ FamilyEnabled(entry.name, entry.address.family)

SocketFor(entry) ==
    [address |-> entry.address,
     port |-> PortOf(entry.name),
     multicast_capable |-> "MULTICAST" \in flags[DeviceOf[entry.name]],
     multicast_selected |-> FALSE]

------------------------------------------------------------------------------
(* The choice of the multicast address.                                    *)

\* The sort key of position k, which Rust counts from 0.
Preference(sockets, k) == (k - 1) + ClassWeight[sockets[k].address.class]

\* Mutant: the family of the address is not asked for.
AnyCapable(sockets, family) ==
    {k \in DOMAIN sockets : sockets[k].multicast_capable}

\* The positions that pass the filter: of the family, on an interface that can
\* do multicast.
Capable(sockets, family) ==
    {k \in DOMAIN sockets :
        /\ sockets[k].address.family = family
        /\ sockets[k].multicast_capable
        /\ Preference(sockets, k) < 1000000}

\* What a stable sort by preference puts first, if there is anything to sort.
Foremost(sockets, family) ==
    LET candidates == Capable(sockets, family)
        Key(k) == Preference(sockets, k)
    IN  {k \in candidates :
            \A j \in candidates : Key(k) < Key(j) \/ (Key(k) = Key(j) /\ k <= j)}

\* Mutant: the second family is an "else" of the first.
SelectInOneFamily(sockets) ==
    LET chosen == IF Foremost(sockets, "v4") # {} THEN Foremost(sockets, "v4")
                                                  ELSE Foremost(sockets, "v6") IN
    [k \in DOMAIN sockets |->
        [sockets[k] EXCEPT !.multicast_selected = @ \/ k \in chosen]]

SelectIn(sockets) ==
    LET chosen == Foremost(sockets, "v4") \union Foremost(sockets, "v6") IN
    [k \in DOMAIN sockets |->
        [sockets[k] EXCEPT !.multicast_selected = @ \/ k \in chosen]]

------------------------------------------------------------------------------
(* The steps of initialise.                                                *)

Init ==
    /\ config \in {ParseNetwork(section) : section \in Sections}
    /\ flags \in FlagChoices
    /\ index = [d \in Devices |-> d]
    /\ listened = <<>>
    /\ found = [i \in Indices |-> <<>>]
    /\ pending = {}
    /\ ilas = <<>>
    /\ pc = "scan"

IndexOf(entry) == index[DeviceOf[entry.name]]

\* Mutant: the entry of the HashSet is replaced where it should be extended.
PushFresh(entry) ==
    /\ found' = [found EXCEPT ![IndexOf(entry)] = <<SocketFor(entry)>>]
    /\ UNCHANGED ilas

\* Mutant: the list is published while it grows.
PushPublishes(entry) ==
    /\ found' = [found EXCEPT ![IndexOf(entry)] = Append(@, SocketFor(entry))]
    /\ ilas' = <<found'>>

\* The interface is taken out of the HashSet, or made, gets the socket and goes
\* back in.
Push(entry) ==
    /\ found' = [found EXCEPT ![IndexOf(entry)] = Append(@, SocketFor(entry))]
    /\ UNCHANGED ilas

Listen(entry) ==
    /\ pc = "scan"
    /\ Wanted(entry)
    /\ Len(listened) < MaxEntries
    /\ listened' = Append(listened, [entry |-> entry, index |-> IndexOf(entry)])
    /\ Push(entry)
    /\ UNCHANGED <<config, flags, index, pending, pc>>

\* "continue".
Skip(entry) ==
    /\ pc = "scan"
    /\ ~ Wanted(entry)
    /\ UNCHANGED vars

\* The interface is gone by the time if_nametoindex asks for it: "?" returns.
LookupFails(entry) ==
    /\ pc = "scan"
    /\ Wanted(entry)
    /\ pc' = "failed"
    /\ UNCHANGED <<config, flags, index, listened, found, pending, ilas>>

\* A device is removed and made anew while the answer of getifaddrs is read.
\* The kernel counts its indices up and gives none out twice.
Renumber(d) ==
    /\ pc = "scan"
    /\ \E i \in Indices :
          /\ \A other \in Devices : index[other] < i
          /\ index' = [index EXCEPT ![d] = i]
    /\ UNCHANGED <<config, flags, listened, found, pending, ilas, pc>>

\* The kernel's list ends; the HashSet becomes a Vec.
EndScan ==
    /\ pc = "scan"
    /\ pending' = {i \in Indices : found[i] # <<>>}
    /\ pc' = "select"
    /\ UNCHANGED <<config, flags, index, listened, found, ilas>>

\* One round of the multicast loop.  The rounds come in the HashSet's order.
SelectMulticast(i) ==
    /\ pc = "select"
    /\ i \in pending
    /\ found' = [found EXCEPT ![i] = SelectIn(@)]
    /\ pending' = pending \ {i}
    /\ UNCHANGED <<config, flags, index, listened, ilas, pc>>

Save ==
    /\ pc = "select"
    /\ pending = {}
    /\ ilas' = <<found>>
    /\ pc' = "done"
    /\ UNCHANGED <<config, flags, index, listened, found, pending>>

Next ==
    \/ \E name \in Names, address \in Addresses :
          LET entry == [name |-> name, address |-> address] IN
          Listen(entry) \/ Skip(entry) \/ LookupFails(entry)
    \/ \E d \in Devices : Renumber(d)
    \/ EndScan
    \/ \E i \in Indices : SelectMulticast(i)
    \/ Save

Spec == Init /\ [][Next]_vars

------------------------------------------------------------------------------
(* Properties.                                                             *)

InterfaceSocket ==
    [address : Addresses, port : Ports,
     multicast_capable : BOOLEAN, multicast_selected : BOOLEAN]

SocketLists == [Indices -> Seq(InterfaceSocket)]

Entries == [name : Names, address : Addresses]

\* The types of the variables: in particular every socket has a port number,
\* and a socket is only ever made for an address.
TypeOK ==
    /\ config \in NetworkConfigurations
    /\ flags \in FlagChoices
    /\ index \in [Devices -> Indices]
    /\ listened \in Seq([entry : Entries, index : Indices])
    /\ found \in SocketLists
    /\ pending \subseteq Indices
    /\ ilas \in Option(SocketLists)
    /\ pc \in {"scan", "select", "done", "failed"}

\* The entries that were read under index i.
ReadAs(i) == {n \in DOMAIN listened : listened[n].index = i}

\* The place of the n-th entry among those that were read under its index.
PlaceOf(n) == Cardinality({m \in ReadAs(listened[n].index) : m <= n})

\* A list that connect can see has one socket for each wanted address, at the
\* interface whose index the address had when it was read, in the kernel's
\* order and with the configured port: nothing is lost between taking an
\* interface out of the HashSet and putting it back, whatever becomes of its
\* index in the meantime, and no part of a list is ever visible.
SavedWhole ==
    \A o \in DOMAIN ilas :
        /\ \A i \in Indices : Len(ilas[o][i]) = Cardinality(ReadAs(i))
        /\ \A n \in DOMAIN listened :
              LET socket == ilas[o][listened[n].index][PlaceOf(n)] IN
              /\ socket.address = listened[n].entry.address
              /\ socket.port = PortOf(listened[n].entry.name)

Selected(sockets, family) ==
    {k \in DOMAIN sockets :
        sockets[k].multicast_selected /\ sockets[k].address.family = family}

\* The classes from the one to prefer down.
ClassOrder == <<"linklocal", "local", "global", "other">>

RankOf(socket) ==
    CHOOSE r \in DOMAIN ClassOrder : ClassOrder[r] = socket.address.class

\* Position k is the first of the best class that the family has.
FirstOfBestClass(sockets, family, k) ==
    \A j \in Capable(sockets, family) :
        \/ RankOf(sockets[k]) < RankOf(sockets[j])
        \/ RankOf(sockets[k]) = RankOf(sockets[j]) /\ k <= j

\* "We do not want more than one address on the same interface to listen for
\* the multicast": in a list that connect can see, each interface has exactly
\* one member of each family for which it has a capable address, and it is the
\* first address of the best class, whatever order the addresses came in.
OneMember ==
    \A o \in DOMAIN ilas, i \in Indices, family \in Families :
        LET sockets == ilas[o][i] IN
        /\ Selected(sockets, family) \subseteq Capable(sockets, family)
        /\ \A k \in Selected(sockets, family), j \in Selected(sockets, family) : k = j
        /\ Capable(sockets, family) # {} => Selected(sockets, family) # {}
        /\ \A k \in Selected(sockets, family) : FirstOfBestClass(sockets, family, k)

\* The indices under which a device was read with an address of the family that
\* can do multicast.
IndicesRead(d, family) ==
    {listened[n].index : n \in
        {m \in DOMAIN listened :
            /\ DeviceOf[listened[m].entry.name] = d
            /\ listened[m].entry.address.family = family
            /\ "MULTICAST" \in flags[d]}}

\* The same for the devices behind the list.  A device that keeps its index has
\* one member of the family, whatever becomes of the others' indices.  One that
\* is made anew while its addresses are read ends up as two interfaces, and
\* gets its multicast messages once for each index it was read under, no more.
MembersPerDevice ==
    \A o \in DOMAIN ilas, d \in Devices, family \in Families :
        LET members == UNION {{<<i, k>> : k \in Selected(ilas[o][i], family)} :
                                 i \in IndicesRead(d, family)}
        IN  /\ Cardinality(members) = Cardinality(IndicesRead(d, family))
            /\ index[d] = d => Cardinality(members) <= 1

\* "For ECHONET Lite on standard UDP/IP networks, port 3610 is used for all
\* communication" (README): a socket listens there unless the configuration
\* names another port.  It is the file that says what is named.
StandardPort ==
    \A o \in DOMAIN ilas, i \in Indices : \A k \in DOMAIN ilas[o][i] :
        \/ ilas[o][i][k].port = DEFAULT_PORT
        \/ \E section \in Sections :
              /\ ParseNetwork(section) = config
              /\ \E p \in DOMAIN section : \E s \in DOMAIN section[p].interfaces :
                    \E e \in DOMAIN section[p].interfaces[s] :
                        section[p].interfaces[s][e].port = <<ilas[o][i][k].port>>

------------------------------------------------------------------------------
(* What connect and disconnect see of it: module Connector, which knows a  *)
(* socket by its position in the order in which their loops visit it.      *)

\* The sockets of a list, each as its interface and its place there.
Sockets(list) == UNION {{<<i, k>> : k \in DOMAIN list[i]} : i \in Indices}

\* The round of the loops in which a socket is visited.  The interfaces come in
\* some order, here that of the indices, the sockets of one in that of its Vec.
Round(list, socket) ==
    Cardinality({other \in Sockets(list) :
        other[1] < socket[1] \/ (other[1] = socket[1] /\ other[2] <= socket[2])})

MemberRounds(list) ==
    {Round(list, socket) : socket \in
        {s \in Sockets(list) : list[s[1]][s[2]].multicast_selected}}

\* self.ilas, where None is treated as an empty list.
Saved == IF ilas = <<>> THEN [i \in Indices |-> <<>>] ELSE ilas[1]

Network ==
    INSTANCE Connector WITH
        MaxSockets <- MaxEntries,
        sockets <- Cardinality(Sockets(Saved)),
        multicast_selected <- MemberRounds(Saved),
        open <- {}, joined <- {}, left <- {}, cursor <- 1

\* initialise does to the connector what SaveSockets says, once, and nothing
\* else that another method of the connector could see: no list before the
\* whole one, no change of a list that connect may be walking, and no list at
\* all after an error.
ImplementsConnector ==
    /\ Network!ConnectorInit
    /\ [][pc' = "done" /\ ilas = <<>> /\ Network!SaveSockets]_ilas

=============================================================================
