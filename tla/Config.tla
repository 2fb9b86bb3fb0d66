-------------------------------- MODULE Config --------------------------------
(***************************************************************************)
(* The network section of the configuration file (src/config.rs): what the *)
(* file may say, and the AppNetworkConfiguration that serde makes of it.   *)
(*                                                                         *)
(* A value the file may leave out, and a Rust Option, is a sequence: <<>>  *)
(* when there is none and <<v>> for v.                                     *)
(***************************************************************************)
EXTENDS Naturals, Sequences

Ports == 0..65535

Option(S) == {o \in Seq(S) : Len(o) <= 1}

\* One element of "interfaces" and the whole section, as the file has them.
InterfaceEntries ==
    [name : STRING, port : Option(Ports),
     ipv4 : Option(BOOLEAN), ipv6 : Option(BOOLEAN)]

NetworkSections ==
    Option([interfaces : Option(Seq(InterfaceEntries)), skip_ptp : Option(BOOLEAN)])

\* AppInterfaceConfiguration and AppNetworkConfiguration.
InterfaceConfigurations ==
    [name : STRING, port : Ports, ipv4 : BOOLEAN, ipv6 : BOOLEAN]

NetworkConfigurations ==
    [interfaces : Option(Seq(InterfaceConfigurations)), skip_ptp : BOOLEAN]

OrElse(option, default) == IF option = <<>> THEN default ELSE option[1]

\* AppNetworkConfiguration::default(), for a file without a network section.
DefaultNetwork == [interfaces |-> <<>>, skip_ptp |-> TRUE]

\* One element of "interfaces".  A field that is left out takes the default of
\* its type, "#[serde(default)]", and not that of the struct's Default.
ParseInterface(entry) ==
    [name |-> entry.name,
     port |-> OrElse(entry.port, 0),
     ipv4 |-> OrElse(entry.ipv4, FALSE),
     ipv6 |-> OrElse(entry.ipv6, FALSE)]

ParseInterfaces(entries) ==
    [k \in DOMAIN entries |-> ParseInterface(entries[k])]

\* The network section, which is left out or has optional fields of its own.
ParseNetwork(section) ==
    IF section = <<>>
    THEN DefaultNetwork
    ELSE [interfaces |-> [k \in DOMAIN section[1].interfaces |->
                             ParseInterfaces(section[1].interfaces[k])],
          skip_ptp |-> OrElse(section[1].skip_ptp, FALSE)]

=============================================================================
