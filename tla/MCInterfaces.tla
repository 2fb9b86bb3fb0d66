----------------------------- MODULE MCInterfaces -----------------------------
(***************************************************************************)
(* Two devices, the first with an alias, of which one may be made anew and *)
(* get a third index; every flag that initialise tests set and cleared on  *)
(* the first; configuration files that leave each thing out that may be    *)
(* left out.                                                               *)
(***************************************************************************)
EXTENDS Interfaces

MCDevices == {1, 2}

MCIndices == {1, 2, 3}

MCNames == {"eth0", "eth0:1", "eth1"}

MCDeviceOf == [n \in MCNames |-> IF n = "eth1" THEN 2 ELSE 1]

Running == {"UP", "RUNNING", "MULTICAST"}

MCFlagChoices ==
    {[d \in MCDevices |-> IF d = 1 THEN first ELSE Running] :
        first \in {Running, Running \ {"UP"}, Running \ {"RUNNING"},
                   Running \ {"MULTICAST"}, Running \union {"LOOPBACK"},
                   Running \union {"POINTOPOINT"}}}

Address(family, class) == [family |-> family, class |-> class]

\* "other" as a family is AF_PACKET and the like, and an entry without address.
MCAddresses ==
    {Address("v4", "linklocal"), Address("v4", "global"), Address("v4", "other"),
     Address("v6", "local"), Address("v6", "loopback"), Address("other", "other")}

Entry(name, port, ipv4, ipv6) ==
    [name |-> name, port |-> port, ipv4 |-> ipv4, ipv6 |-> ipv6]

Section(interfaces, skip_ptp) ==
    <<[interfaces |-> interfaces, skip_ptp |-> skip_ptp]>>

\* No section, an empty one, an empty list, one interface in full, two with
\* parts left out and one name twice.
MCSections ==
    {<<>>,
     Section(<<>>, <<>>),
     Section(<< <<>> >>, <<TRUE>>),
     Section(<< <<Entry("eth0", <<3611>>, <<TRUE>>, <<TRUE>>)>> >>, <<TRUE>>),
     Section(<< <<Entry("eth0", <<3610>>, <<TRUE>>, <<>>),
                  Entry("eth1", <<3610>>, <<>>, <<TRUE>>),
                  Entry("eth0", <<3612>>, <<FALSE>>, <<TRUE>>)>> >>, <<FALSE>>)}

\* The interface is named and its families are enabled; the port is left out.
NoPortSections ==
    {Section(<< <<Entry("eth0", <<>>, <<TRUE>>, <<TRUE>>)>> >>, <<>>)}

\* An interface with so many addresses, of which the first is local, the last
\* link local and the rest of another family.
ManyAddresses(n) ==
    [k \in 1..n |->
        [address |-> CASE k = 1 -> Address("v4", "local")
                       [] k = n -> Address("v4", "linklocal")
                       [] OTHER -> Address("v6", "other"),
         multicast_capable |-> TRUE]]

\* The link local address is the one to prefer, and is as long as there are not
\* more than a thousand.
ASSUME KeysOverlap ==
    /\ Foremost(ManyAddresses(1000), "v4") = {1000}
    /\ Foremost(ManyAddresses(1001), "v4") = {1}

=============================================================================
