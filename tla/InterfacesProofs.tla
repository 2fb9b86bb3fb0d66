--------------------------- MODULE InterfacesProofs ---------------------------
(***************************************************************************)
(* Proofs about Network::initialise for every host, every configuration    *)
(* file and every order of the kernel's answers.  The choice of the        *)
(* multicast member adds the position of an address to a multiple of 1000  *)
(* for its class, so the theorems about it assume that no more than 1000   *)
(* addresses get a socket.                                                 *)
(***************************************************************************)
EXTENDS Interfaces, Functions, FiniteSetTheorems, FunctionTheorems,
        WellFoundedInduction, TLAPS

FewAddresses == MaxEntries <= 1000

-----------------------------------------------------------------------------
(* The configuration.                                                      *)

\* A non-empty set of numbers has a smallest one.
LEMMA LeastExists ==
    ASSUME NEW S, S \subseteq Nat, S # {}
    PROVE  \E least \in S : \A n \in S : least <= n
<1>1. PICK least \in S : \A n \in S : ~ (<<n, least>> \in OpToRel(<, Nat))
  BY NatLessThanWellFounded, WFMin
<1>2. ASSUME NEW n \in S
      PROVE  least <= n
  <2>1. n \in Nat /\ least \in Nat /\ <<n, least>> \notin OpToRel(<, Nat)
    BY <1>1
  <2> QED
    BY <2>1 DEF OpToRel
<1> QED
  BY <1>2

\* A non-empty set of positions has a last one.
LEMMA LastExists ==
    ASSUME NEW length \in Nat, NEW S, S \subseteq 1..length, S # {}
    PROVE  \E last \in S : \A k \in S : k <= last
<1> DEFINE Above == {m \in Nat : \A k \in S : k <= m}
<1>1. length \in Above
  OBVIOUS
<1>2. PICK m \in Above : \A n \in Above : m <= n
  <2>1. Above \subseteq Nat /\ Above # {}
    BY <1>1
  <2> HIDE DEF Above
  <2> QED
    BY <2>1, LeastExists
<1>3. m \in S
  <2> SUFFICES ASSUME m \notin S
               PROVE  FALSE
    OBVIOUS
  <2>1. \A k \in S : k \in Nat /\ k >= 1 /\ k <= m /\ k # m
    BY <1>2
  <2>2. m >= 1
    <3>1. PICK k \in S : TRUE
      OBVIOUS
    <3>2. k \in Nat /\ k >= 1 /\ k <= m /\ m \in Nat
      BY <2>1, <1>2, <3>1
    <3> QED
      BY <3>2
  <2>3. m - 1 \in Above
    BY <2>1, <2>2, <1>2
  <2> QED
    BY <2>3, <1>2
<1> QED
  BY <1>2, <1>3

\* The value of an option that has one.
LEMMA OptionValue ==
    ASSUME NEW S, NEW option \in Option(S), option # <<>>
    PROVE  option[1] \in S
BY DEF Option

\* A value left out takes the default.
LEMMA OrElseTyped ==
    ASSUME NEW S, NEW option \in Option(S), NEW default \in S
    PROVE  OrElse(option, default) \in S
BY DEF OrElse, Option

\* What serde makes of a file is an AppNetworkConfiguration.
LEMMA ParseNetworkTyped ==
    ASSUME NEW section \in NetworkSections
    PROVE  ParseNetwork(section) \in NetworkConfigurations
<1>1. CASE section = <<>>
  BY <1>1 DEF ParseNetwork, DefaultNetwork, NetworkConfigurations, Option
<1>2. CASE section # <<>>
  <2> DEFINE file == section[1]
  <2>1. file \in [interfaces : Option(Seq(InterfaceEntries)), skip_ptp : Option(BOOLEAN)]
    BY <1>2, OptionValue DEF NetworkSections
  <2>2. OrElse(file.skip_ptp, FALSE) \in BOOLEAN
    BY <2>1, OrElseTyped
  <2>3. ASSUME NEW entries \in Seq(InterfaceEntries)
        PROVE  ParseInterfaces(entries) \in Seq(InterfaceConfigurations)
    <3>1. ASSUME NEW entry \in InterfaceEntries
          PROVE  ParseInterface(entry) \in InterfaceConfigurations
      <4>1. /\ OrElse(entry.port, 0) \in Ports
            /\ OrElse(entry.ipv4, FALSE) \in BOOLEAN
            /\ OrElse(entry.ipv6, FALSE) \in BOOLEAN
        <5>1. 0 \in Ports
          BY DEF Ports
        <5> QED
          BY <5>1, OrElseTyped DEF InterfaceEntries
      <4> QED
        BY <4>1 DEF ParseInterface, InterfaceConfigurations, InterfaceEntries
    <3>2. \A k \in 1..Len(entries) : ParseInterface(entries[k]) \in InterfaceConfigurations
      BY <3>1
    <3> QED
      BY <3>2 DEF ParseInterfaces
  <2>4. [k \in DOMAIN file.interfaces |-> ParseInterfaces(file.interfaces[k])]
           \in Option(Seq(InterfaceConfigurations))
    <3>1. file.interfaces \in Seq(Seq(InterfaceEntries)) /\ Len(file.interfaces) <= 1
      BY <2>1 DEF Option
    <3>2. \A k \in 1..Len(file.interfaces) :
             ParseInterfaces(file.interfaces[k]) \in Seq(InterfaceConfigurations)
      BY <3>1, <2>3
    <3> QED
      BY <3>1, <3>2 DEF Option
  <2>5. ParseNetwork(section) =
           [interfaces |-> [k \in DOMAIN file.interfaces |-> ParseInterfaces(file.interfaces[k])],
            skip_ptp |-> OrElse(file.skip_ptp, FALSE)]
    BY <1>2 DEF ParseNetwork
  <2> QED
    <3> DEFINE interfaces == [k \in DOMAIN file.interfaces |->
                                 ParseInterfaces(file.interfaces[k])]
               skip_ptp == OrElse(file.skip_ptp, FALSE)
    <3>1. ParseNetwork(section) = [interfaces |-> interfaces, skip_ptp |-> skip_ptp]
      BY <2>5
    <3>2. /\ interfaces \in Option(Seq(InterfaceConfigurations))
          /\ skip_ptp \in BOOLEAN
      BY <2>2, <2>4
    <3> HIDE DEF interfaces, skip_ptp
    <3> QED
      BY <3>1, <3>2 DEF NetworkConfigurations
<1> QED
  BY <1>1, <1>2

\* The interface that a filter names has a configuration and so a port.
LEMMA PortTyped ==
    ASSUME config \in NetworkConfigurations, NEW name,
           Filtered => Configured(name) # {}
    PROVE  PortOf(name) \in Ports
<1>1. CASE ~ Filtered
  BY <1>1 DEF PortOf, DEFAULT_PORT, Ports
<1>2. CASE Filtered
  <2>1. Filter \in Seq(InterfaceConfigurations)
    <3>1. config.interfaces \in Seq(Seq(InterfaceConfigurations)) /\ Len(config.interfaces) <= 1
      BY DEF NetworkConfigurations, Option
    <3>2. CASE config.interfaces = <<>>
      BY <3>2 DEF Filter
    <3>3. CASE config.interfaces # <<>>
      BY <3>1, <3>3 DEF Filter
    <3> QED
      BY <3>2, <3>3
  <2>2. Configured(name) \subseteq 1..Len(Filter) /\ Len(Filter) \in Nat
    BY <2>1 DEF Configured
  <2> DEFINE last == CHOOSE k \in Configured(name) : \A j \in Configured(name) : j <= k
  <2>3. last \in Configured(name)
    BY <2>2, <1>2, LastExists
  <2>4. Filter[last] \in InterfaceConfigurations
    BY <2>1, <2>2, <2>3
  <2>5. ConfigOf(name) = Filter[last]
    BY DEF ConfigOf
  <2> HIDE DEF last
  <2> QED
    BY <2>4, <2>5, <1>2 DEF PortOf, InterfaceConfigurations
<1> QED
  BY <1>1, <1>2

-----------------------------------------------------------------------------
(* The choice of the multicast member.                                     *)

\* The sockets that initialise makes have one of the two families and one of
\* the classes that the choice tells apart.
Usable(sockets) ==
    \A k \in DOMAIN sockets :
        /\ sockets[k].address.family \in Families
        /\ sockets[k].address.class \in DOMAIN ClassWeight

Unselected(sockets) == \A k \in DOMAIN sockets : ~ sockets[k].multicast_selected

\* What OneMember says of one family of one interface.
RightMember(sockets, family) ==
    /\ Selected(sockets, family) \subseteq Capable(sockets, family)
    /\ \A k \in Selected(sockets, family), j \in Selected(sockets, family) : k = j
    /\ Capable(sockets, family) # {} => Selected(sockets, family) # {}
    /\ \A k \in Selected(sockets, family) : FirstOfBestClass(sockets, family, k)

\* The weights of the classes go up with their ranks, by 1000 at least.
LEMMA Weights ==
    ASSUME NEW socket, socket.address.class \in DOMAIN ClassWeight
    PROVE  LET rank == RankOf(socket)
               weight == ClassWeight[socket.address.class]
           IN  \/ rank = 1 /\ weight = 1000
               \/ rank = 2 /\ weight = 2000
               \/ rank = 3 /\ weight = 3000
               \/ rank = 4 /\ weight = 5000
<1> DEFINE class == socket.address.class
<1>1. class \in {"linklocal", "local", "global", "other"}
  BY DEF ClassWeight
<1>2. DOMAIN ClassOrder = 1..4
  BY DEF ClassOrder
<1> HIDE DEF class
<1>3. ASSUME NEW r \in 1..4, ClassOrder[r] = class
      PROVE  (CHOOSE s \in DOMAIN ClassOrder : ClassOrder[s] = class) = r
  BY <1>2, <1>3 DEF ClassOrder
<1>4. /\ class = "linklocal" => ClassOrder[1] = class /\ ClassWeight[class] = 1000
      /\ class = "local" => ClassOrder[2] = class /\ ClassWeight[class] = 2000
      /\ class = "global" => ClassOrder[3] = class /\ ClassWeight[class] = 3000
      /\ class = "other" => ClassOrder[4] = class /\ ClassWeight[class] = 5000
  BY DEF ClassOrder, ClassWeight
<1>5. RankOf(socket) = (CHOOSE s \in DOMAIN ClassOrder : ClassOrder[s] = class)
  BY DEF RankOf, class
<1>6. 1 \in 1..4 /\ 2 \in 1..4 /\ 3 \in 1..4 /\ 4 \in 1..4
  OBVIOUS
<1>7. /\ class = "linklocal" => RankOf(socket) = 1
      /\ class = "local" => RankOf(socket) = 2
      /\ class = "global" => RankOf(socket) = 3
      /\ class = "other" => RankOf(socket) = 4
  BY <1>3, <1>4, <1>5, <1>6
<1> QED
  BY <1>1, <1>4, <1>7 DEF class

\* Of at most 1000 sockets, the sort key orders by class first and then by
\* position, and none is mistaken for one that cannot be chosen.
LEMMA KeySeparates ==
    ASSUME NEW sockets \in Seq(InterfaceSocket), Len(sockets) <= 1000, Usable(sockets),
           NEW j \in DOMAIN sockets, NEW k \in DOMAIN sockets
    PROVE  /\ Preference(sockets, k) \in Nat
           /\ Preference(sockets, k) < 1000000
           /\ Preference(sockets, k) <= Preference(sockets, j) =>
                 \/ RankOf(sockets[k]) < RankOf(sockets[j])
                 \/ RankOf(sockets[k]) = RankOf(sockets[j]) /\ k <= j
           /\ Preference(sockets, k) = Preference(sockets, j) => k = j
<1>1. /\ Len(sockets) \in Nat
      /\ j \in 1..Len(sockets) /\ k \in 1..Len(sockets)
  OBVIOUS
<1>2. /\ j \in Nat /\ 1 <= j /\ j <= 1000
      /\ k \in Nat /\ 1 <= k /\ k <= 1000
  BY <1>1
<1> DEFINE Rank(i) == RankOf(sockets[i])
           Weight(i) == ClassWeight[sockets[i].address.class]
<1>3. ASSUME NEW i \in DOMAIN sockets
      PROVE  \/ Rank(i) = 1 /\ Weight(i) = 1000
             \/ Rank(i) = 2 /\ Weight(i) = 2000
             \/ Rank(i) = 3 /\ Weight(i) = 3000
             \/ Rank(i) = 4 /\ Weight(i) = 5000
  BY Weights DEF Usable
<1>4. /\ Preference(sockets, j) = (j - 1) + Weight(j)
      /\ Preference(sockets, k) = (k - 1) + Weight(k)
  BY DEF Preference
<1> HIDE DEF Rank, Weight
<1>5. Preference(sockets, k) \in Nat /\ Preference(sockets, k) < 1000000
  BY <1>2, <1>3, <1>4, SMT
<1>6. /\ Preference(sockets, k) <= Preference(sockets, j) =>
            Rank(k) < Rank(j) \/ (Rank(k) = Rank(j) /\ k <= j)
      /\ Preference(sockets, k) = Preference(sockets, j) => k = j
  <2>1. CASE Rank(k) < Rank(j)
    <3>1. Weight(j) >= Weight(k) + 1000 /\ Weight(k) \in Nat /\ Weight(j) \in Nat
      BY <2>1, <1>3, SMT
    <3> QED
      BY <3>1, <2>1, <1>2, <1>4, SMT
  <2>2. CASE Rank(k) = Rank(j)
    BY <2>2, <1>2, <1>3, <1>4, SMT
  <2>3. CASE Rank(k) > Rank(j)
    <3>1. Weight(k) >= Weight(j) + 1000 /\ Weight(k) \in Nat /\ Weight(j) \in Nat
      BY <2>3, <1>3, SMT
    <3> QED
      BY <3>1, <2>3, <1>2, <1>4, SMT
  <2> QED
    BY <2>1, <2>2, <2>3, <1>3, SMT
<1> QED
  BY <1>5, <1>6, SMT DEF Rank

\* One socket comes first, if there is one to choose from.
LEMMA ForemostIsFirst ==
    ASSUME NEW sockets \in Seq(InterfaceSocket), Len(sockets) <= 1000, Usable(sockets),
           NEW family
    PROVE  /\ Foremost(sockets, family) \subseteq Capable(sockets, family)
           /\ \A k \in Foremost(sockets, family), j \in Foremost(sockets, family) : k = j
           /\ Capable(sockets, family) # {} => Foremost(sockets, family) # {}
           /\ \A k \in Foremost(sockets, family) : FirstOfBestClass(sockets, family, k)
<1> DEFINE candidates == Capable(sockets, family)
           Key(k) == Preference(sockets, k)
<1>1. Capable(sockets, family) \subseteq DOMAIN sockets /\ DOMAIN sockets \subseteq Nat
  BY SMT DEF Capable
<1>2. \A k \in candidates, j \in candidates :
         /\ Key(k) \in Nat
         /\ Key(k) <= Key(j) =>
               \/ RankOf(sockets[k]) < RankOf(sockets[j])
               \/ RankOf(sockets[k]) = RankOf(sockets[j]) /\ k <= j
         /\ Key(k) = Key(j) => k = j
  BY <1>1, KeySeparates
<1>3. Foremost(sockets, family) =
         {k \in candidates :
             \A j \in candidates : Key(k) < Key(j) \/ (Key(k) = Key(j) /\ k <= j)}
  BY DEF Foremost
<1>4. candidates \subseteq Nat
  BY <1>1
<1>5. \A j : j \in Capable(sockets, family) <=> j \in candidates
  OBVIOUS
<1> HIDE DEF candidates, Key
<1>6. \A k \in Foremost(sockets, family), j \in Foremost(sockets, family) : k = j
  BY <1>2, <1>3
<1>7. ASSUME candidates # {}
      PROVE  Foremost(sockets, family) # {}
  <2> DEFINE Keys == {Key(k) : k \in candidates}
  <2>1. Keys \subseteq Nat /\ Keys # {}
    BY <1>2, <1>7
  <2> HIDE DEF Keys
  <2>2. PICK least \in Keys : \A n \in Keys : least <= n
    BY <2>1, LeastExists
  <2> USE DEF Keys
  <2>3. PICK k \in candidates : least = Key(k)
    BY <2>2
  <2>4. \A j \in candidates : Key(k) <= Key(j)
    BY <2>2, <2>3
  <2>5. \A j \in candidates : Key(k) < Key(j) \/ (Key(k) = Key(j) /\ k <= j)
    BY <2>3, <2>4, <1>2, <1>4
  <2> QED
    BY <2>3, <2>5, <1>3
<1>8. ASSUME NEW k \in Foremost(sockets, family)
      PROVE  FirstOfBestClass(sockets, family, k)
  <2>1. k \in candidates /\ \A j \in candidates : Key(k) <= Key(j)
    BY <1>2, <1>3
  <2> QED
    BY <2>1, <1>2, <1>5 DEF FirstOfBestClass
<1> QED
  BY <1>3, <1>5, <1>6, <1>7, <1>8

\* A round of the multicast loop selects, and changes nothing else.
LEMMA SelectInKeeps ==
    ASSUME NEW sockets \in Seq(InterfaceSocket)
    PROVE  LET selected == SelectIn(sockets) IN
           /\ selected \in Seq(InterfaceSocket)
           /\ Len(selected) = Len(sockets)
           /\ DOMAIN selected = DOMAIN sockets
           /\ \A k \in DOMAIN sockets :
                 /\ selected[k].address = sockets[k].address
                 /\ selected[k].port = sockets[k].port
                 /\ selected[k].multicast_capable = sockets[k].multicast_capable
                 /\ selected[k].multicast_selected =
                       (\/ sockets[k].multicast_selected
                        \/ k \in Foremost(sockets, "v4") \union Foremost(sockets, "v6"))
<1> DEFINE chosen == Foremost(sockets, "v4") \union Foremost(sockets, "v6")
           Socket(k) == [sockets[k] EXCEPT !.multicast_selected = @ \/ k \in chosen]
<1>1. SelectIn(sockets) = [k \in DOMAIN sockets |-> Socket(k)]
  BY DEF SelectIn
<1>2. ASSUME NEW k \in DOMAIN sockets
      PROVE  /\ Socket(k) \in InterfaceSocket
             /\ Socket(k).address = sockets[k].address
             /\ Socket(k).port = sockets[k].port
             /\ Socket(k).multicast_capable = sockets[k].multicast_capable
             /\ Socket(k).multicast_selected = (sockets[k].multicast_selected \/ k \in chosen)
  <2> HIDE DEF chosen
  <2>1. sockets[k] \in InterfaceSocket
    OBVIOUS
  <2> QED
    BY <2>1 DEF InterfaceSocket
<1>3. DOMAIN sockets = 1..Len(sockets) /\ Len(sockets) \in Nat
  OBVIOUS
<1> HIDE DEF Socket
<1>4. SelectIn(sockets) \in [1..Len(sockets) -> InterfaceSocket]
  BY <1>1, <1>2, <1>3
<1>5. SelectIn(sockets) \in Seq(InterfaceSocket) /\ Len(SelectIn(sockets)) = Len(sockets)
  BY <1>3, <1>4
<1>6. \A k \in DOMAIN sockets : SelectIn(sockets)[k] = Socket(k)
  BY <1>1
<1>7. DOMAIN SelectIn(sockets) = DOMAIN sockets
  BY <1>1
<1>8. ASSUME NEW k \in DOMAIN sockets
      PROVE  /\ SelectIn(sockets)[k].address = sockets[k].address
             /\ SelectIn(sockets)[k].port = sockets[k].port
             /\ SelectIn(sockets)[k].multicast_capable = sockets[k].multicast_capable
             /\ SelectIn(sockets)[k].multicast_selected =
                   (sockets[k].multicast_selected \/ k \in chosen)
  BY <1>2, <1>6, Zenon
<1> QED
  BY <1>5, <1>7, <1>8, Zenon

\* A round of the multicast loop selects the right members.
LEMMA SelectInSelects ==
    ASSUME NEW sockets \in Seq(InterfaceSocket), Len(sockets) <= 1000, Usable(sockets),
           Unselected(sockets), NEW family \in Families
    PROVE  RightMember(SelectIn(sockets), family)
<1> DEFINE selected == SelectIn(sockets)
<1>1. /\ DOMAIN selected = DOMAIN sockets
      /\ \A k \in DOMAIN sockets :
            /\ selected[k].address = sockets[k].address
            /\ selected[k].multicast_capable = sockets[k].multicast_capable
            /\ selected[k].multicast_selected =
                  (\/ sockets[k].multicast_selected
                   \/ k \in Foremost(sockets, "v4") \union Foremost(sockets, "v6"))
  BY SelectInKeeps
<1> HIDE DEF selected
<1>2. Capable(selected, family) = Capable(sockets, family)
  <2> DEFINE InRange(p) == p < 1000000
  <2>1. \A k \in DOMAIN sockets : Preference(selected, k) = Preference(sockets, k)
    BY <1>1, Zenon DEF Preference
  <2>2. Capable(selected, family) =
           {k \in DOMAIN sockets :
               /\ selected[k].address.family = family
               /\ selected[k].multicast_capable
               /\ InRange(Preference(selected, k))}
    BY <1>1, SMT DEF Capable
  <2>3. Capable(sockets, family) =
           {k \in DOMAIN sockets :
               /\ sockets[k].address.family = family
               /\ sockets[k].multicast_capable
               /\ InRange(Preference(sockets, k))}
    BY SMT DEF Capable
  <2> HIDE DEF InRange
  <2> QED
    BY <1>1, <2>1, <2>2, <2>3, Zenon
<1>3. \A k \in DOMAIN sockets :
         selected[k].multicast_selected
            <=> k \in Foremost(sockets, "v4") \union Foremost(sockets, "v6")
  BY <1>1 DEF Unselected
<1>4. \A g : \A k \in Foremost(sockets, g) :
         k \in DOMAIN sockets /\ sockets[k].address.family = g
  <2>1. \A g : Foremost(sockets, g) \subseteq Capable(sockets, g)
    BY DEF Foremost
  <2> QED
    BY <2>1, SMT DEF Capable
<1>5. Selected(selected, family) = Foremost(sockets, family)
  <2>1. Selected(selected, family) =
           {k \in DOMAIN sockets :
               selected[k].multicast_selected /\ sockets[k].address.family = family}
    BY <1>1 DEF Selected
  <2>2. ASSUME NEW k \in DOMAIN sockets
        PROVE  (/\ k \in Foremost(sockets, "v4") \union Foremost(sockets, "v6")
                /\ sockets[k].address.family = family)
                  <=> k \in Foremost(sockets, family)
    BY <1>4 DEF Families
  <2>3. Foremost(sockets, family) \subseteq DOMAIN sockets
    BY <1>4
  <2> QED
    BY <2>1, <2>2, <2>3, <1>3
<1>6. \A k \in Foremost(sockets, family) : FirstOfBestClass(selected, family, k)
  <2>1. \A k \in DOMAIN sockets : RankOf(selected[k]) = RankOf(sockets[k])
    BY <1>1 DEF RankOf
  <2>2. \A k \in Foremost(sockets, family) : FirstOfBestClass(sockets, family, k)
    BY ForemostIsFirst
  <2>3. Capable(sockets, family) \subseteq DOMAIN sockets
    BY SMT DEF Capable
  <2> QED
    BY <2>1, <2>2, <2>3, <1>2, <1>4 DEF FirstOfBestClass
<1>7. /\ Foremost(sockets, family) \subseteq Capable(sockets, family)
      /\ \A k \in Foremost(sockets, family), j \in Foremost(sockets, family) : k = j
      /\ Capable(sockets, family) # {} => Foremost(sockets, family) # {}
  BY ForemostIsFirst
<1> QED
  BY <1>2, <1>5, <1>6, <1>7 DEF RightMember, selected

-----------------------------------------------------------------------------
(* The inductive invariant.                                                *)

\* The n-th entry has its socket in a list, with the flag of its device.
Placed(lists, n) ==
    LET i == listened[n].index
        name == listened[n].entry.name
        socket == lists[i][PlaceOf(n)]
    IN  /\ PlaceOf(n) \in DOMAIN lists[i]
        /\ socket.address = listened[n].entry.address
        /\ socket.port = PortOf(name)
        /\ socket.multicast_capable = ("MULTICAST" \in flags[DeviceOf[name]])

\* SavedWhole of any list.
Whole(lists) ==
    /\ \A i \in Indices : Len(lists[i]) = Cardinality(ReadAs(i))
    /\ \A n \in DOMAIN listened : Placed(lists, n)

\* The local list is whole at any time, and can be chosen from.
Gathered ==
    /\ Whole(found)
    /\ \A i \in Indices : Usable(found[i])
    /\ Len(listened) <= MaxEntries

\* connect sees the local list when it is finished, and nothing before.
Published == ilas = IF pc = "done" THEN <<found>> ELSE <<>>

\* Nothing is selected before the round of an interface, the right members are
\* after it.
Settled ==
    \A i \in Indices :
        /\ pc = "scan" \/ (pc = "select" /\ i \in pending) => Unselected(found[i])
        /\ pc = "done" \/ (pc = "select" /\ i \notin pending) =>
              \A family \in Families : RightMember(found[i], family)

\* A device that has its first index was never read under another.
Numbered ==
    /\ \A d \in Devices : d <= index[d]
    /\ \A n \in DOMAIN listened :
          LET d == DeviceOf[listened[n].entry.name] IN
          index[d] = d => listened[n].index = d

Inv == TypeOK /\ Gathered /\ Published /\ Numbered

Sets(S) == IsFiniteSet(S) /\ Cardinality(S) \in Nat

\* The entries read under an index are finitely many, and each has a place.
LEMMA ReadAsFinite ==
    ASSUME listened \in Seq([entry : Entries, index : Indices])
    PROVE  /\ \A i : ReadAs(i) \subseteq 1..Len(listened) /\ Sets(ReadAs(i))
           /\ \A i : Cardinality(ReadAs(i)) <= Len(listened)
           /\ \A n \in DOMAIN listened : PlaceOf(n) \in Nat
<1>1. Len(listened) \in Nat /\ DOMAIN listened = 1..Len(listened)
  OBVIOUS
<1>2. /\ IsFiniteSet(1..Len(listened))
      /\ Cardinality(1..Len(listened)) = Len(listened)
  <2>1. /\ IsFiniteSet(1..Len(listened))
        /\ Cardinality(1..Len(listened)) =
              IF 1 > Len(listened) THEN 0 ELSE Len(listened) - 1 + 1
    BY <1>1, FS_Interval
  <2> QED
    BY <1>1, <2>1
<1>3. ASSUME NEW S, S \subseteq 1..Len(listened)
      PROVE  Sets(S) /\ Cardinality(S) <= Len(listened)
  BY <1>2, <1>3, FS_Subset, FS_CardinalityType DEF Sets
<1>4. \A i : ReadAs(i) \subseteq 1..Len(listened)
  BY <1>1 DEF ReadAs
<1>5. ASSUME NEW n \in DOMAIN listened
      PROVE  PlaceOf(n) \in Nat
  <2>1. {m \in ReadAs(listened[n].index) : m <= n} \subseteq 1..Len(listened)
    BY <1>4
  <2> QED
    BY <2>1, <1>3 DEF PlaceOf, Sets
<1> QED
  BY <1>1, <1>3, <1>4, <1>5

\* An entry that is read comes last among those of its index, and moves none.
LEMMA ReadAsAppend ==
    ASSUME listened \in Seq([entry : Entries, index : Indices]),
           NEW reading \in [entry : Entries, index : Indices],
           listened' = Append(listened, reading),
           NEW last, last = Len(listened) + 1
    PROVE  LET i == reading.index
           IN  /\ \A j : j # i => ReadAs(j)' = ReadAs(j)
               /\ Cardinality(ReadAs(i)') = Cardinality(ReadAs(i)) + 1
               /\ \A n \in DOMAIN listened : PlaceOf(n)' = PlaceOf(n)
               /\ PlaceOf(last)' = Cardinality(ReadAs(i)) + 1
<1> DEFINE i == reading.index
<1>1. /\ Len(listened) \in Nat
      /\ DOMAIN listened = 1..Len(listened)
      /\ DOMAIN listened' = DOMAIN listened \union {last}
      /\ last \notin DOMAIN listened
  OBVIOUS
<1>2. /\ \A n \in DOMAIN listened : listened'[n] = listened[n]
      /\ listened'[last] = reading
  OBVIOUS
<1>3. \A j : j # i => ReadAs(j)' = ReadAs(j)
  BY <1>1, <1>2 DEF ReadAs
<1>4. ReadAs(i)' = ReadAs(i) \union {last}
  BY <1>1, <1>2 DEF ReadAs
<1>5. /\ \A j : ReadAs(j) \subseteq 1..Len(listened) /\ Sets(ReadAs(j))
  BY ReadAsFinite
<1>6. Cardinality(ReadAs(i)') = Cardinality(ReadAs(i)) + 1
  <2>1. last \notin ReadAs(i) /\ IsFiniteSet(ReadAs(i))
    BY <1>1, <1>5 DEF Sets
  <2> HIDE DEF i
  <2> QED
    BY <2>1, <1>4, FS_AddElement
<1>7. ASSUME NEW n \in DOMAIN listened
      PROVE  PlaceOf(n)' = PlaceOf(n)
  <2>1. ~ (last <= n)
    BY <1>1
  <2> DEFINE j == listened[n].index
  <2>2. listened'[n].index = j
    BY <1>2
  <2>3. ReadAs(j)' = ReadAs(j) \/ ReadAs(j)' = ReadAs(j) \union {last}
    BY <1>3, <1>4
  <2>4. PlaceOf(n) = Cardinality({m \in ReadAs(j) : m <= n})
    BY DEF PlaceOf
  <2>5. PlaceOf(n)' = Cardinality({m \in ReadAs(j)' : m <= n})
    BY <2>2 DEF PlaceOf
  <2> HIDE DEF j
  <2>6. {m \in ReadAs(j)' : m <= n} = {m \in ReadAs(j) : m <= n}
    BY <2>1, <2>3
  <2> QED
    BY <2>4, <2>5, <2>6
<1>8. PlaceOf(last)' = Cardinality(ReadAs(i)) + 1
  <2>1. \A m \in ReadAs(i)' : m <= last
    <3>1. ReadAs(i) \subseteq 1..Len(listened)
      BY <1>5
    <3> QED
      BY <3>1, <1>1, <1>4
  <2>2. {m \in ReadAs(i)' : m <= last} = ReadAs(i)'
    BY <2>1
  <2>3. PlaceOf(last)' = Cardinality({m \in ReadAs(i)' : m <= last})
    BY <1>2 DEF PlaceOf
  <2> QED
    BY <2>2, <2>3, <1>6
<1> QED
  BY <1>3, <1>6, <1>7, <1>8

\* An entry that passes the filters makes a socket that can be chosen from.
LEMMA SocketTyped ==
    ASSUME TypeOK, NEW entry \in Entries, Wanted(entry)
    PROVE  /\ SocketFor(entry) \in InterfaceSocket
           /\ SocketFor(entry).address = entry.address
           /\ SocketFor(entry).port = PortOf(entry.name)
           /\ SocketFor(entry).multicast_capable =
                 ("MULTICAST" \in flags[DeviceOf[entry.name]])
           /\ ~ SocketFor(entry).multicast_selected
           /\ entry.address.family \in Families
           /\ entry.address.class \in DOMAIN ClassWeight
           /\ IndexOf(entry) \in Indices
           /\ DeviceOf[entry.name] \in Devices
<1> DEFINE port == PortOf(entry.name)
           capable == "MULTICAST" \in flags[DeviceOf[entry.name]]
<1>1. port \in Ports
  BY PortTyped DEF TypeOK, Wanted
<1>2. entry.name \in Names /\ entry.address \in Addresses
  BY DEF Entries
<1>3. capable \in BOOLEAN
  OBVIOUS
<1>4. SocketFor(entry) = [address |-> entry.address, port |-> port,
                          multicast_capable |-> capable, multicast_selected |-> FALSE]
  BY DEF SocketFor
<1>5. entry.address.class \in Classes /\ entry.address.class # "loopback"
  BY <1>2, InterfacesAssumption DEF Wanted
<1>6. /\ DeviceOf[entry.name] \in Devices
      /\ IndexOf(entry) \in Indices
  BY <1>2, InterfacesAssumption DEF TypeOK, IndexOf
<1>7. entry.address.family \in Families
  BY DEF Wanted
<1> HIDE DEF port, capable
<1>8. SocketFor(entry) \in InterfaceSocket
  BY <1>1, <1>2, <1>3, <1>4 DEF InterfaceSocket
<1> QED
  BY <1>4, <1>5, <1>6, <1>7, <1>8 DEF Classes, port, capable

\* An entry that gets a socket.
LEMMA ListenKeeps ==
    ASSUME Inv, NEW entry \in Entries, Listen(entry)
    PROVE  Inv'
<1>a. PICK i, socket, reading :
         /\ i = IndexOf(entry)
         /\ socket = SocketFor(entry)
         /\ reading = [entry |-> entry, index |-> i]
  OBVIOUS
<1>1. /\ TypeOK /\ Gathered /\ Published /\ Numbered
      /\ Wanted(entry) /\ Len(listened) < MaxEntries /\ pc = "scan"
      /\ listened' = Append(listened, reading)
      /\ found' = [found EXCEPT ![i] = Append(@, socket)]
      /\ UNCHANGED <<config, flags, index, pending, pc, ilas>>
  BY <1>a DEF Inv, Listen, Push
<1>2. /\ socket \in InterfaceSocket
      /\ socket.address = entry.address
      /\ socket.port = PortOf(entry.name)
      /\ socket.multicast_capable = ("MULTICAST" \in flags[DeviceOf[entry.name]])
      /\ entry.address.family \in Families
      /\ entry.address.class \in DOMAIN ClassWeight
      /\ i \in Indices
      /\ DeviceOf[entry.name] \in Devices
  BY <1>a, <1>1, SocketTyped
<1>3. i = index[DeviceOf[entry.name]]
  BY <1>a DEF IndexOf
<1>4. /\ listened \in Seq([entry : Entries, index : Indices])
      /\ found \in [Indices -> Seq(InterfaceSocket)]
  BY <1>1 DEF TypeOK, SocketLists
<1>5. reading \in [entry : Entries, index : Indices] /\ reading.index = i /\ reading.entry = entry
  BY <1>a, <1>2
<1>6. PICK last : last = Len(listened) + 1
  OBVIOUS
<1>7. /\ \A j : j # i => ReadAs(j)' = ReadAs(j)
      /\ Cardinality(ReadAs(i)') = Cardinality(ReadAs(i)) + 1
      /\ \A n \in DOMAIN listened : PlaceOf(n)' = PlaceOf(n)
      /\ PlaceOf(last)' = Cardinality(ReadAs(i)) + 1
  BY <1>1, <1>4, <1>5, <1>6, ReadAsAppend
<1>8. /\ Len(listened) \in Nat
      /\ DOMAIN listened' = DOMAIN listened \union {last}
      /\ \A n \in DOMAIN listened : listened'[n] = listened[n]
      /\ listened'[last] = reading
      /\ Len(listened') = Len(listened) + 1
      /\ listened' \in Seq([entry : Entries, index : Indices])
  BY <1>1, <1>4, <1>5, <1>6
<1>9. /\ \A j \in Indices : j # i => found'[j] = found[j]
      /\ found'[i] = Append(found[i], socket)
      /\ found' \in [Indices -> Seq(InterfaceSocket)]
  BY <1>1, <1>2, <1>4
<1>10. /\ found[i] \in Seq(InterfaceSocket)
       /\ Len(found'[i]) = Len(found[i]) + 1
       /\ DOMAIN found'[i] = DOMAIN found[i] \union {Len(found[i]) + 1}
       /\ \A k \in DOMAIN found[i] : found'[i][k] = found[i][k]
       /\ found'[i][Len(found[i]) + 1] = socket
  <2>1. found[i] \in Seq(InterfaceSocket)
    BY <1>2, <1>4
  <2> QED
    BY <2>1, <1>2, <1>9
<1>11. TypeOK'
  BY <1>1, <1>8, <1>9 DEF TypeOK, SocketLists
<1>12. \A name : PortOf(name)' = PortOf(name)
  BY <1>1 DEF PortOf, ConfigOf, Configured, Filtered, Filter
<1>13. Whole(found)'
  <2>1. Whole(found)
    BY <1>1 DEF Gathered
  <2>2. ASSUME NEW j \in Indices
        PROVE  Len(found'[j]) = Cardinality(ReadAs(j)')
    <3>1. Len(found[j]) = Cardinality(ReadAs(j))
      BY <2>1 DEF Whole
    <3> QED
      BY <3>1, <1>7, <1>9, <1>10
  <2>3. ASSUME NEW n \in DOMAIN listened
        PROVE  Placed(found, n)'
    <3>1. PICK j, e, p : j = listened[n].index /\ e = listened[n].entry /\ p = PlaceOf(n)
      OBVIOUS
    <3>2. listened'[n] = listened[n] /\ PlaceOf(n)' = p /\ flags' = flags
      BY <3>1, <1>1, <1>7, <1>8
    <3>3. j \in Indices
      <4>1. ASSUME NEW S, listened \in Seq(S)
            PROVE  listened[n] \in S
        BY <4>1
      <4>2. listened[n] \in [entry : Entries, index : Indices]
        BY <4>1, <1>4
      <4> QED
        BY <4>2, <3>1
    <3>4. /\ p \in DOMAIN found[j]
          /\ found[j][p].address = e.address
          /\ found[j][p].port = PortOf(e.name)
          /\ found[j][p].multicast_capable = ("MULTICAST" \in flags[DeviceOf[e.name]])
      BY <2>1, <3>1 DEF Whole, Placed
    <3>5. p \in DOMAIN found'[j] /\ found'[j][p] = found[j][p]
      <4>1. CASE j = i
        BY <4>1, <3>4, <1>10
      <4>2. CASE j # i
        BY <4>2, <3>3, <3>4, <1>9
      <4> QED
        BY <4>1, <4>2
    <3>6. PortOf(e.name)' = PortOf(e.name)
      BY <1>12
    <3> QED
      BY <3>1, <3>2, <3>4, <3>5, <3>6, Zenon DEF Placed
  <2>4. Placed(found, last)'
    <3>1. PICK p : p = Len(found[i]) + 1
      OBVIOUS
    <3>2. PlaceOf(last)' = p
      BY <2>1, <3>1, <1>2, <1>7 DEF Whole
    <3>3. found'[i][p] = socket /\ p \in DOMAIN found'[i]
      BY <3>1, <1>10
    <3>4. flags' = flags /\ PortOf(entry.name)' = PortOf(entry.name)
      BY <1>1, <1>12
    <3>5. listened'[last].entry = entry /\ listened'[last].index = i
      BY <1>5, <1>8
    <3> QED
      BY <3>2, <3>3, <3>4, <3>5, <1>2, Zenon DEF Placed
  <2> QED
    BY <2>2, <2>3, <2>4, <1>8, Zenon DEF Whole
<1>14. \A j \in Indices : Usable(found'[j])
  <2> SUFFICES ASSUME NEW j \in Indices
               PROVE  Usable(found'[j])
    OBVIOUS
  <2>1. Usable(found[j])
    BY <1>1 DEF Gathered
  <2>2. CASE j = i
    BY <2>1, <2>2, <1>2, <1>10 DEF Usable
  <2>3. CASE j # i
    BY <2>1, <2>3, <1>9
  <2> QED
    BY <2>2, <2>3
<1>15. Gathered'
  <2>1. MaxEntries \in Nat
    BY InterfacesAssumption
  <2>2. Len(listened') <= MaxEntries
    BY <2>1, <1>1, <1>8
  <2> QED
    BY <2>2, <1>13, <1>14 DEF Gathered
<1>16. Published'
  BY <1>1 DEF Published
<1>17. Numbered'
  BY <1>1, <1>3, <1>5, <1>8 DEF Numbered
<1> QED
  BY <1>11, <1>15, <1>16, <1>17 DEF Inv

\* A round of the multicast loop.
LEMMA SelectKeeps ==
    ASSUME Inv, NEW i \in Indices, SelectMulticast(i)
    PROVE  Inv'
<1>1. /\ TypeOK /\ Gathered /\ Published /\ Numbered
      /\ pc = "select" /\ i \in pending
      /\ found' = [found EXCEPT ![i] = SelectIn(@)]
      /\ pending' = pending \ {i}
      /\ UNCHANGED <<config, flags, index, listened, ilas, pc>>
  BY DEF Inv, SelectMulticast
<1>2. found \in [Indices -> Seq(InterfaceSocket)]
  BY <1>1 DEF TypeOK, SocketLists
<1>3. found[i] \in Seq(InterfaceSocket)
  BY <1>2
<1>4. /\ SelectIn(found[i]) \in Seq(InterfaceSocket)
      /\ Len(SelectIn(found[i])) = Len(found[i])
      /\ DOMAIN SelectIn(found[i]) = DOMAIN found[i]
      /\ \A k \in DOMAIN found[i] :
            /\ SelectIn(found[i])[k].address = found[i][k].address
            /\ SelectIn(found[i])[k].port = found[i][k].port
            /\ SelectIn(found[i])[k].multicast_capable = found[i][k].multicast_capable
  BY <1>3, SelectInKeeps, Zenon
<1>5. /\ \A j \in Indices : j # i => found'[j] = found[j]
      /\ found'[i] = SelectIn(found[i])
      /\ found' \in [Indices -> Seq(InterfaceSocket)]
  BY <1>1, <1>2, <1>4, Zenon
<1>6. ASSUME NEW j \in Indices
      PROVE  /\ Len(found'[j]) = Len(found[j])
             /\ DOMAIN found'[j] = DOMAIN found[j]
             /\ \A k \in DOMAIN found[j] :
                   /\ found'[j][k].address = found[j][k].address
                   /\ found'[j][k].port = found[j][k].port
                   /\ found'[j][k].multicast_capable = found[j][k].multicast_capable
  <2>1. CASE j = i
    BY <2>1, <1>4, <1>5, Zenon
  <2>2. CASE j # i
    BY <2>2, <1>5, Zenon
  <2> QED
    BY <2>1, <2>2
<1>7. TypeOK'
  BY <1>1, <1>5 DEF TypeOK, SocketLists
<1>8. Whole(found)'
  <2>1. Whole(found)
    BY <1>1 DEF Gathered
  <2>2. ASSUME NEW j \in Indices
        PROVE  Len(found'[j]) = Cardinality(ReadAs(j)')
    <3>1. Len(found[j]) = Cardinality(ReadAs(j)) /\ ReadAs(j)' = ReadAs(j)
      BY <2>1, <1>1 DEF Whole, ReadAs
    <3> QED
      BY <3>1, <1>6
  <2>3. ASSUME NEW n \in DOMAIN listened
        PROVE  Placed(found, n)'
    <3>1. PICK j, e, p : j = listened[n].index /\ e = listened[n].entry /\ p = PlaceOf(n)
      OBVIOUS
    <3>2. /\ listened'[n].index = j /\ listened'[n].entry = e
          /\ PlaceOf(n)' = p /\ flags' = flags
      BY <3>1, <1>1 DEF PlaceOf, ReadAs
    <3>3. j \in Indices
      <4>1. ASSUME NEW S, listened \in Seq(S)
            PROVE  listened[n] \in S
        BY <4>1
      <4>2. listened[n] \in [entry : Entries, index : Indices]
        BY <4>1, <1>1 DEF TypeOK
      <4> QED
        BY <4>2, <3>1
    <3>4. /\ p \in DOMAIN found[j]
          /\ found[j][p].address = e.address
          /\ found[j][p].port = PortOf(e.name)
          /\ found[j][p].multicast_capable = ("MULTICAST" \in flags[DeviceOf[e.name]])
      BY <2>1, <3>1 DEF Whole, Placed
    <3>5. PortOf(e.name)' = PortOf(e.name)
      BY <1>1 DEF PortOf, ConfigOf, Configured, Filtered, Filter
    <3> QED
      BY <3>2, <3>3, <3>4, <3>5, <1>6, Zenon DEF Placed
  <2> QED
    BY <2>2, <2>3, <1>1, Zenon DEF Whole
<1>9. Gathered'
  <2>1. \A j \in Indices : Usable(found'[j])
    BY <1>1, <1>6 DEF Gathered, Usable
  <2> QED
    BY <2>1, <1>1, <1>8 DEF Gathered
<1>10. Published'
  BY <1>1 DEF Published
<1>11. Numbered'
  BY <1>1 DEF Numbered
<1> QED
  BY <1>7, <1>9, <1>10, <1>11 DEF Inv

\* A list that nothing was added to stays whole.
LEMMA GatheredStays ==
    ASSUME Gathered, UNCHANGED <<config, flags, listened, found>>
    PROVE  Gathered'
<1>1. /\ \A i : ReadAs(i)' = ReadAs(i)
      /\ \A n : PlaceOf(n)' = PlaceOf(n)
      /\ \A name : PortOf(name)' = PortOf(name)
  BY DEF PlaceOf, ReadAs, PortOf, ConfigOf, Configured, Filtered, Filter
<1>2. Whole(found) <=> Whole(found)'
  <2>1. \A n : Placed(found, n)' <=> Placed(found, n)
    <3> SUFFICES ASSUME NEW n
                 PROVE  Placed(found, n)' <=> Placed(found, n)
      OBVIOUS
    <3>1. PICK p, i, entry, port :
             /\ p = PlaceOf(n) /\ i = listened[n].index /\ entry = listened[n].entry
             /\ port = PortOf(entry.name)
      OBVIOUS
    <3>2. /\ p = PlaceOf(n)' /\ i = listened'[n].index /\ entry = listened'[n].entry
          /\ port = PortOf(entry.name)'
      BY <3>1, <1>1
    <3> QED
      BY <3>1, <3>2, Zenon DEF Placed
  <2> QED
    BY <2>1, <1>1, Zenon DEF Whole
<1> QED
  BY <1>2, Zenon DEF Gathered, Usable

\* The invariant holds at the start.
LEMMA InitInv == Init => Inv
<1> SUFFICES ASSUME Init
             PROVE  Inv
  OBVIOUS
<1>1. /\ config \in NetworkConfigurations
      /\ flags \in FlagChoices
  BY ParseNetworkTyped, InterfacesAssumption DEF Init
<1>2. /\ index = [d \in Devices |-> d] /\ listened = <<>>
      /\ found = [i \in Indices |-> <<>>] /\ pending = {} /\ ilas = <<>> /\ pc = "scan"
  BY DEF Init
<1>3. TypeOK
  <2>1. index \in [Devices -> Indices]
    BY <1>2, InterfacesAssumption
  <2>2. found \in SocketLists /\ ilas \in Option(SocketLists)
    BY <1>2 DEF SocketLists, Option
  <2> QED
    BY <1>1, <1>2, <2>1, <2>2 DEF TypeOK
<1>4. Gathered
  <2>1. \A i : ReadAs(i) = {}
    BY <1>2 DEF ReadAs
  <2>2. Whole(found)
    BY <2>1, <1>2, FS_EmptySet DEF Whole
  <2>3. \A i \in Indices : Usable(found[i])
    BY <1>2 DEF Usable
  <2> QED
    BY <2>2, <2>3, <1>2, InterfacesAssumption DEF Gathered
<1>5. Published
  BY <1>2 DEF Published
<1>6. Numbered
  <2>1. \A d \in Devices : d \in Nat /\ index[d] = d
    BY <1>2, InterfacesAssumption
  <2> QED
    BY <1>2, <2>1 DEF Numbered
<1> QED
  BY <1>3, <1>4, <1>5, <1>6 DEF Inv

\* Every step keeps the invariant.
LEMMA NextInv == Inv /\ [Next]_vars => Inv'
<1> SUFFICES ASSUME Inv, [Next]_vars
             PROVE  Inv'
  OBVIOUS
<1>0. TypeOK /\ Gathered /\ Published /\ Numbered
  BY DEF Inv
<1>1. ASSUME NEW name \in Names, NEW address \in Addresses, NEW entry,
             entry = [name |-> name, address |-> address],
             Listen(entry) \/ Skip(entry) \/ LookupFails(entry)
      PROVE  Inv'
  <2>1. entry \in Entries
    BY <1>1 DEF Entries
  <2>2. CASE Listen(entry)
    BY <2>1, <2>2, ListenKeeps
  <2>3. CASE Skip(entry)
    <3>1. UNCHANGED vars
      BY <2>3 DEF Skip
    <3>2. Gathered'
      BY <3>1, <1>0, GatheredStays DEF vars
    <3> QED
      BY <3>1, <3>2, <1>0 DEF Inv, TypeOK, Published, Numbered, vars
  <2>4. CASE LookupFails(entry)
    <3>1. /\ pc = "scan" /\ pc' = "failed"
          /\ UNCHANGED <<config, flags, index, listened, found, pending, ilas>>
      BY <2>4 DEF LookupFails
    <3>2. Gathered'
      BY <3>1, <1>0, GatheredStays
    <3> QED
      BY <3>1, <3>2, <1>0 DEF Inv, TypeOK, Published, Numbered
  <2> QED
    BY <1>1, <2>2, <2>3, <2>4
<1>2. ASSUME NEW d \in Devices, Renumber(d)
      PROVE  Inv'
  <2>1. PICK i \in Indices :
           /\ pc = "scan"
           /\ \A other \in Devices : index[other] < i
           /\ index' = [index EXCEPT ![d] = i]
           /\ UNCHANGED <<config, flags, listened, found, pending, ilas, pc>>
    BY <1>2 DEF Renumber
  <2>2. index \in [Devices -> Indices]
    BY <1>0 DEF TypeOK
  <2>3. TypeOK'
    BY <2>1, <2>2, <1>0 DEF TypeOK
  <2>4. Gathered'
    BY <2>1, <1>0, GatheredStays
  <2>5. Published'
    BY <2>1, <1>0 DEF Published
  <2>6. Numbered'
    <3>1. \A e \in Devices : e \in Nat /\ index[e] \in Nat /\ i \in Nat
      BY <2>2, InterfacesAssumption
    <3>2. \A e \in Devices : e <= index[e]
      BY <1>0 DEF Numbered
    <3>3. \A e \in Devices : e <= index'[e] /\ (index'[e] = e => index[e] = e)
      BY <2>1, <2>2, <3>1, <3>2
    <3>4. ASSUME NEW n \in DOMAIN listened
          PROVE  DeviceOf[listened[n].entry.name] \in Devices
      <4>1. ASSUME NEW S, listened \in Seq(S)
            PROVE  listened[n] \in S
        BY <4>1
      <4>2. listened[n] \in [entry : Entries, index : Indices]
        BY <4>1, <1>0 DEF TypeOK
      <4> QED
        BY <4>2, InterfacesAssumption DEF Entries
    <3> QED
      BY <2>1, <3>3, <3>4, <1>0 DEF Numbered
  <2> QED
    BY <2>3, <2>4, <2>5, <2>6 DEF Inv
<1>3. CASE EndScan
  <2>1. /\ pc = "scan" /\ pc' = "select"
        /\ pending' = {i \in Indices : found[i] # <<>>}
        /\ UNCHANGED <<config, flags, index, listened, found, ilas>>
    BY <1>3 DEF EndScan
  <2>2. Gathered'
    BY <2>1, <1>0, GatheredStays
  <2> QED
    BY <2>1, <2>2, <1>0 DEF Inv, TypeOK, Published, Numbered
<1>4. ASSUME NEW i \in Indices, SelectMulticast(i)
      PROVE  Inv'
  BY <1>4, SelectKeeps
<1>5. CASE Save
  <2>1. /\ ilas' = <<found>> /\ pc' = "done"
        /\ UNCHANGED <<config, flags, index, listened, found, pending>>
    BY <1>5 DEF Save
  <2>2. Gathered'
    BY <2>1, <1>0, GatheredStays
  <2>3. ilas' \in Option(SocketLists)
    BY <2>1, <1>0 DEF TypeOK, Option
  <2> QED
    BY <2>1, <2>2, <2>3, <1>0 DEF Inv, TypeOK, Published, Numbered
<1>6. CASE UNCHANGED vars
  <2>1. Gathered'
    BY <1>6, <1>0, GatheredStays DEF vars
  <2> QED
    BY <2>1, <1>0, <1>6 DEF Inv, TypeOK, Published, Numbered, vars
<1> QED
  BY <1>1, <1>2, <1>3, <1>4, <1>5, <1>6 DEF Next

\* Every step keeps what is selected right, as long as the sort key can tell
\* the classes apart.
LEMMA NextSettled ==
    ASSUME FewAddresses, Inv, Settled, [Next]_vars
    PROVE  Settled'
<1>0. TypeOK /\ Gathered
  BY DEF Inv
<1>1. ASSUME NEW name \in Names, NEW address \in Addresses, NEW entry,
             entry = [name |-> name, address |-> address],
             Listen(entry) \/ Skip(entry) \/ LookupFails(entry)
      PROVE  Settled'
  <2>1. entry \in Entries
    BY <1>1 DEF Entries
  <2>2. CASE Listen(entry)
    <3>1. PICK i, socket : i = IndexOf(entry) /\ socket = SocketFor(entry)
      OBVIOUS
    <3>2. /\ pc = "scan" /\ pc' = "scan" /\ Wanted(entry)
          /\ found' = [found EXCEPT ![i] = Append(@, socket)]
      BY <2>2, <3>1 DEF Listen, Push
    <3>3. i \in Indices /\ socket \in InterfaceSocket /\ ~ socket.multicast_selected
      BY <1>0, <2>1, <3>1, <3>2, SocketTyped
    <3>4. found \in [Indices -> Seq(InterfaceSocket)]
      BY <1>0 DEF TypeOK, SocketLists
    <3>5. ASSUME NEW j \in Indices
          PROVE  Unselected(found'[j])
      <4>1. Unselected(found[j]) /\ found[j] \in Seq(InterfaceSocket)
        BY <3>2, <3>4 DEF Settled
      <4>2. CASE j = i
        <5>1. found'[j] = Append(found[j], socket)
          BY <4>2, <3>2, <3>4
        <5>2. DOMAIN found'[j] = DOMAIN found[j] \union {Len(found[j]) + 1}
          BY <5>1, <4>1, <3>3
        <5>3. /\ \A k \in DOMAIN found[j] : found'[j][k] = found[j][k]
              /\ found'[j][Len(found[j]) + 1] = socket
          BY <5>1, <4>1, <3>3
        <5> QED
          BY <4>1, <5>2, <5>3, <3>3, Zenon DEF Unselected
      <4>3. CASE j # i
        BY <4>1, <4>3, <3>2, <3>4
      <4> QED
        BY <4>2, <4>3
    <3> QED
      BY <3>2, <3>5 DEF Settled
  <2>3. CASE Skip(entry)
    BY <2>3 DEF Skip, vars, Settled
  <2>4. CASE LookupFails(entry)
    BY <2>4 DEF LookupFails, Settled
  <2> QED
    BY <1>1, <2>2, <2>3, <2>4
<1>2. ASSUME NEW d \in Devices, Renumber(d)
      PROVE  Settled'
  BY <1>2 DEF Renumber, Settled
<1>3. CASE EndScan
  <2>1. /\ pc = "scan" /\ pc' = "select"
        /\ pending' = {i \in Indices : found[i] # <<>>}
        /\ found' = found
    BY <1>3 DEF EndScan
  <2>2. ASSUME NEW i \in Indices, i \notin pending', NEW family \in Families
        PROVE  RightMember(found'[i], family)
    <3>1. found'[i] = <<>>
      BY <2>1, <2>2
    <3>2. /\ Selected(<<>>, family) = {} /\ Capable(<<>>, family) = {}
      BY SMT DEF Selected, Capable
    <3> QED
      BY <3>1, <3>2, Zenon DEF RightMember
  <2>3. \A i \in Indices : Unselected(found'[i])
    BY <2>1 DEF Settled
  <2> QED
    BY <2>1, <2>2, <2>3 DEF Settled
<1>4. ASSUME NEW i \in Indices, SelectMulticast(i)
      PROVE  Settled'
  <2>1. /\ pc = "select" /\ pc' = "select" /\ i \in pending
        /\ found' = [found EXCEPT ![i] = SelectIn(@)]
        /\ pending' = pending \ {i}
    BY <1>4 DEF SelectMulticast
  <2>2. found \in [Indices -> Seq(InterfaceSocket)]
    BY <1>0 DEF TypeOK, SocketLists
  <2>3. /\ found'[i] = SelectIn(found[i])
        /\ \A j \in Indices : j # i => found'[j] = found[j]
    BY <2>1, <2>2
  <2>4. Len(found[i]) <= 1000
    <3>1. Len(found[i]) = Cardinality(ReadAs(i)) /\ Len(listened) <= MaxEntries
      BY <1>0 DEF Gathered, Whole
    <3>2. listened \in Seq([entry : Entries, index : Indices])
      BY <1>0 DEF TypeOK
    <3>3. Cardinality(ReadAs(i)) <= Len(listened) /\ Cardinality(ReadAs(i)) \in Nat
      BY <3>2, ReadAsFinite DEF Sets
    <3>4. Len(listened) \in Nat
      BY <3>2
    <3> QED
      BY <3>1, <3>3, <3>4, InterfacesAssumption DEF FewAddresses
  <2>5. Unselected(found[i]) /\ Usable(found[i]) /\ found[i] \in Seq(InterfaceSocket)
    BY <1>0, <2>1, <2>2 DEF Settled, Gathered
  <2>6. \A family \in Families : RightMember(found'[i], family)
    BY <2>3, <2>4, <2>5, SelectInSelects
  <2> QED
    BY <2>1, <2>3, <2>6, Zenon DEF Settled
<1>5. CASE Save
  BY <1>5 DEF Save, Settled
<1>6. CASE UNCHANGED vars
  BY <1>6 DEF vars, Settled
<1> QED
  BY <1>1, <1>2, <1>3, <1>4, <1>5, <1>6 DEF Next

-----------------------------------------------------------------------------
(* The theorems.                                                           *)

\* What the invariant says of the list that connect can see.
LEMMA PublishedIsFound ==
    ASSUME Inv, NEW o \in DOMAIN ilas
    PROVE  ilas[o] = found /\ pc = "done"
<1>1. CASE pc = "done"
  BY <1>1 DEF Inv, Published
<1>2. CASE pc # "done"
  BY <1>2 DEF Inv, Published
<1> QED
  BY <1>1, <1>2

\* The types of the variables, among them a port and an address for a socket.
THEOREM TypeCorrect == Spec => []TypeOK
<1>1. Inv => TypeOK
  BY DEF Inv
<1> QED
  BY <1>1, InitInv, NextInv, PTL DEF Spec

\* The list that initialise saves has every wanted address, at the index it was
\* read under, in order and with its port.
THEOREM ListIsWhole == Spec => []SavedWhole
<1>1. ASSUME Inv
      PROVE  SavedWhole
  <2>1. ASSUME NEW o \in DOMAIN ilas
        PROVE  ilas[o] = found /\ Whole(found)
    BY <1>1, <2>1, PublishedIsFound DEF Inv, Gathered
  <2> QED
    BY <2>1, Zenon DEF SavedWhole, Whole, Placed
<1> QED
  BY <1>1, InitInv, NextInv, PTL DEF Spec

\* With no more than 1000 addresses, each interface has one member of each
\* family that it has a capable address of: the first of the best class.
THEOREM MemberIsFirst ==
    ASSUME FewAddresses
    PROVE  Spec => []OneMember
<1>1. Init => Settled
  BY DEF Init, Settled, Unselected
<1>2. Inv /\ Settled /\ [Next]_vars => (Inv /\ Settled)'
  BY NextInv, NextSettled
<1>3. ASSUME Inv, Settled
      PROVE  OneMember
  <2>1. ASSUME NEW o \in DOMAIN ilas, NEW i \in Indices, NEW family \in Families
        PROVE  RightMember(ilas[o][i], family)
    BY <1>3, <2>1, PublishedIsFound DEF Settled
  <2> QED
    BY <2>1, Zenon DEF OneMember, RightMember
<1> QED
  BY <1>1, <1>2, <1>3, InitInv, PTL DEF Spec

Pairs(S, Chosen) == UNION {{<<i, k>> : k \in Chosen[i]} : i \in S}

\* One pair for each index.
LEMMA OneEach ==
    ASSUME NEW S, IsFiniteSet(S), NEW Chosen,
           \A i \in S : Chosen[i] # {} /\ \A k \in Chosen[i], j \in Chosen[i] : k = j
    PROVE  Cardinality(Pairs(S, Chosen)) = Cardinality(S)
<1> DEFINE T == UNION {{<<i, k>> : k \in Chosen[i]} : i \in S}
           f == [i \in S |-> <<i, CHOOSE k \in Chosen[i] : TRUE>>]
<1>1. ASSUME NEW i \in S
      PROVE  \E k \in Chosen[i] : f[i] = <<i, k>> /\ f[i] \in T
  <2>1. PICK k \in Chosen[i] : k = CHOOSE j \in Chosen[i] : TRUE
    OBVIOUS
  <2>2. f[i] = <<i, k>>
    BY <2>1
  <2> QED
    BY <2>2
<1>2. ASSUME NEW t \in T
      PROVE  \E i \in S : \E k \in Chosen[i] : t = <<i, k>>
  OBVIOUS
<1>3. DOMAIN f = S /\ f = [i \in S |-> f[i]]
  OBVIOUS
<1> HIDE DEF f, T
<1>4. f \in [S -> T]
  BY <1>1, <1>3
<1>5. \A i, j \in S : f[i] = f[j] => i = j
  BY <1>1
<1>6. \A t \in T : \E i \in S : f[i] = t
  <2> SUFFICES ASSUME NEW t \in T
               PROVE  \E i \in S : f[i] = t
    OBVIOUS
  <2>1. PICK i \in S : \E k \in Chosen[i] : t = <<i, k>>
    BY <1>2
  <2>2. PICK j \in Chosen[i] : f[i] = <<i, j>>
    BY <1>1
  <2> QED
    BY <2>1, <2>2
<1>7. f \in Bijection(S, T)
  BY <1>4, <1>5, <1>6, Fun_IsBij
<1>8. Cardinality(T) = Cardinality(S)
  BY <1>7, FS_Bijection DEF ExistsBijection
<1> QED
  BY <1>8 DEF T, Pairs

\* The indices a device was read under are no more than the entries.
LEMMA IndicesReadFinite ==
    ASSUME TypeOK, NEW d, NEW family
    PROVE  IsFiniteSet(IndicesRead(d, family))
<1> DEFINE S == {m \in DOMAIN listened :
                    /\ DeviceOf[listened[m].entry.name] = d
                    /\ listened[m].entry.address.family = family
                    /\ "MULTICAST" \in flags[d]}
           f == [n \in S |-> listened[n].index]
<1>1. IsFiniteSet(S)
  <2>1. DOMAIN listened = 1..Len(listened) /\ Len(listened) \in Nat
    BY DEF TypeOK
  <2>2. IsFiniteSet(1..Len(listened))
    BY <2>1, FS_Interval
  <2> QED
    BY <2>1, <2>2, FS_Subset
<1>2. IndicesRead(d, family) = {f[n] : n \in S}
  BY DEF IndicesRead
<1>3. DOMAIN f = S /\ f = [n \in S |-> f[n]]
  OBVIOUS
<1> HIDE DEF S, f
<1>4. f \in Surjection(S, IndicesRead(d, family))
  <2>1. f \in [S -> IndicesRead(d, family)]
    BY <1>2, <1>3
  <2>2. \A t \in IndicesRead(d, family) : \E n \in S : f[n] = t
    BY <1>2
  <2> QED
    BY <2>1, <2>2, Fun_IsSurj
<1> QED
  BY <1>1, <1>4, FS_Surjection

\* With no more than 1000 addresses, a device has one member of each family for
\* each index it was read under, and one only if it kept its index.
THEOREM MembersCounted ==
    ASSUME FewAddresses
    PROVE  Spec => []MembersPerDevice
<1>1. Init => Settled
  BY DEF Init, Settled, Unselected
<1>2. Inv /\ Settled /\ [Next]_vars => (Inv /\ Settled)'
  BY NextInv, NextSettled
<1>3. ASSUME Inv, Settled
      PROVE  MembersPerDevice
  <2> SUFFICES ASSUME NEW o \in DOMAIN ilas, NEW d \in Devices, NEW family \in Families
               PROVE  LET S == IndicesRead(d, family)
                          members == UNION {{<<i, k>> : k \in Selected(ilas[o][i], family)} :
                                               i \in S}
                      IN  /\ Cardinality(members) = Cardinality(S)
                          /\ index[d] = d => Cardinality(members) <= 1
    BY DEF MembersPerDevice
  <2> DEFINE S == IndicesRead(d, family)
             Chosen == [i \in S |-> Selected(ilas[o][i], family)]
             members == UNION {{<<i, k>> : k \in Selected(ilas[o][i], family)} : i \in S}
  <2>1. TypeOK /\ Whole(found) /\ Numbered
    BY <1>3 DEF Inv, Gathered
  <2>2. ASSUME NEW n \in DOMAIN listened
        PROVE  listened[n] \in [entry : Entries, index : Indices]
    <3>1. ASSUME NEW R, listened \in Seq(R)
          PROVE  listened[n] \in R
      BY <3>1
    <3> QED
      BY <2>1, <3>1 DEF TypeOK
  <2>3. ASSUME NEW i \in S
        PROVE  /\ Chosen[i] # {}
               /\ \A k \in Chosen[i], j \in Chosen[i] : k = j
    <3>1. PICK n \in DOMAIN listened :
             /\ i = listened[n].index
             /\ DeviceOf[listened[n].entry.name] = d
             /\ listened[n].entry.address.family = family
             /\ "MULTICAST" \in flags[d]
      BY DEF IndicesRead
    <3>2. i \in Indices
      BY <2>2, <3>1
    <3>3. ilas[o] = found /\ RightMember(found[i], family)
      BY <1>3, <3>2, PublishedIsFound DEF Settled
    <3>4. /\ PlaceOf(n) \in DOMAIN found[i]
          /\ found[i][PlaceOf(n)].address.family = family
          /\ found[i][PlaceOf(n)].multicast_capable
      BY <2>1, <3>1, Zenon DEF Whole, Placed
    <3>5. Preference(found[i], PlaceOf(n)) < 1000000
      <4>1. Len(found[i]) <= 1000
        <5>1. Len(found[i]) = Cardinality(ReadAs(i)) /\ Len(listened) <= MaxEntries
          BY <1>3, <3>2 DEF Inv, Gathered, Whole
        <5>2. listened \in Seq([entry : Entries, index : Indices])
          BY <2>1 DEF TypeOK
        <5>3. Cardinality(ReadAs(i)) <= Len(listened) /\ Cardinality(ReadAs(i)) \in Nat
          BY <5>2, ReadAsFinite DEF Sets
        <5>4. Len(listened) \in Nat
          BY <5>2
        <5> QED
          BY <5>1, <5>3, <5>4, InterfacesAssumption DEF FewAddresses
      <4>2. found[i] \in Seq(InterfaceSocket) /\ Usable(found[i])
        BY <1>3, <2>1, <3>2 DEF TypeOK, SocketLists, Inv, Gathered
      <4> QED
        BY <3>4, <4>1, <4>2, KeySeparates, SMT
    <3>6. PlaceOf(n) \in Capable(found[i], family)
      BY <3>4, <3>5, SMT DEF Capable
    <3> QED
      BY <3>3, <3>6, Zenon DEF RightMember
  <2>4. IsFiniteSet(S)
    BY <2>1, IndicesReadFinite
  <2>5. Cardinality(members) = Cardinality(S)
    <3>1. members = Pairs(S, Chosen)
      <4>1. \A i \in S : Chosen[i] = Selected(ilas[o][i], family)
        OBVIOUS
      <4> HIDE DEF S, Chosen
      <4> QED
        BY <4>1 DEF Pairs
    <3>2. Cardinality(Pairs(S, Chosen)) = Cardinality(S)
      <4>1. \A i \in S : Chosen[i] # {} /\ \A k \in Chosen[i], j \in Chosen[i] : k = j
        BY <2>3
      <4> HIDE DEF S, Chosen
      <4> QED
        BY <4>1, <2>4, OneEach, Zenon
    <3> QED
      BY <3>1, <3>2
  <2>6. ASSUME index[d] = d
        PROVE  Cardinality(S) <= 1
    <3>1. \A i \in S : i = d
      BY <2>1, <2>6 DEF IndicesRead, Numbered
    <3>2. S = {} \/ S = {d}
      BY <3>1
    <3>3. Cardinality({}) = 0 /\ Cardinality({d}) = 1
      BY FS_EmptySet, FS_Singleton, Zenon
    <3> HIDE DEF S
    <3> QED
      BY <3>2, <3>3
  <2> QED
    BY <2>5, <2>6
<1> QED
  BY <1>1, <1>2, <1>3, InitInv, PTL DEF Spec

-----------------------------------------------------------------------------
(* The connector.                                                          *)

\* The local list has one socket for each address read.
Counted ==
    /\ IsFiniteSet(Sockets(found))
    /\ Cardinality(Sockets(found)) = Len(listened)

\* The sockets of a list depend on the lengths of its parts only.
LEMMA SameSockets ==
    ASSUME NEW list, NEW other, \A i \in Indices : DOMAIN other[i] = DOMAIN list[i]
    PROVE  Sockets(other) = Sockets(list)
BY Zenon DEF Sockets

\* A socket that is pushed is one more.
LEMMA OneMoreSocket ==
    ASSUME NEW list \in SocketLists, NEW i \in Indices, NEW socket \in InterfaceSocket,
           IsFiniteSet(Sockets(list))
    PROVE  LET longer == [list EXCEPT ![i] = Append(@, socket)] IN
           /\ IsFiniteSet(Sockets(longer))
           /\ Cardinality(Sockets(longer)) = Cardinality(Sockets(list)) + 1
<1> DEFINE longer == [list EXCEPT ![i] = Append(@, socket)]
           new == <<i, Len(list[i]) + 1>>
<1>1. list[i] \in Seq(InterfaceSocket) /\ DOMAIN list = Indices
  BY DEF SocketLists
<1>2. /\ DOMAIN longer[i] = DOMAIN list[i] \union {Len(list[i]) + 1}
      /\ Len(list[i]) + 1 \notin DOMAIN list[i]
  <2>1. longer[i] = Append(list[i], socket)
    BY <1>1
  <2> HIDE DEF longer
  <2> QED
    BY <1>1, <2>1
<1>3. \A j \in Indices : j # i => longer[j] = list[j]
  BY <1>1
<1> HIDE DEF longer
<1>4. Sockets(longer) = Sockets(list) \union {new}
  <2>1. ASSUME NEW s
        PROVE  s \in Sockets(longer) <=> s \in Sockets(list) \/ s = new
    <3>1. s \in Sockets(longer) <=> \E j \in Indices : \E k \in DOMAIN longer[j] : s = <<j, k>>
      BY DEF Sockets
    <3>2. s \in Sockets(list) <=> \E j \in Indices : \E k \in DOMAIN list[j] : s = <<j, k>>
      BY DEF Sockets
    <3> QED
      BY <3>1, <3>2, <1>2, <1>3
  <2> QED
    BY <2>1
<1>5. new \notin Sockets(list)
  BY <1>2 DEF Sockets
<1> HIDE DEF new
<1> QED
  BY <1>4, <1>5, FS_AddElement DEF longer

\* Every step that reads an address makes one socket, and no other makes any.
LEMMA NextCounted ==
    ASSUME Inv, Counted, [Next]_vars
    PROVE  Counted'
<1>0. TypeOK /\ found \in SocketLists
  BY DEF Inv, TypeOK
<1>1. ASSUME NEW name \in Names, NEW address \in Addresses, NEW entry,
             entry = [name |-> name, address |-> address],
             Listen(entry)
      PROVE  Counted'
  <2>1. PICK i, socket, reading :
           i = IndexOf(entry) /\ socket = SocketFor(entry)
             /\ reading = [entry |-> entry, index |-> i]
    OBVIOUS
  <2>2. /\ Wanted(entry)
        /\ listened' = Append(listened, reading)
        /\ found' = [found EXCEPT ![i] = Append(@, socket)]
    BY <1>1, <2>1 DEF Listen, Push
  <2>3. i \in Indices /\ socket \in InterfaceSocket
    <3>1. entry \in Entries
      BY <1>1 DEF Entries
    <3> QED
      BY <3>1, <1>0, <2>1, <2>2, SocketTyped
  <2>4. /\ IsFiniteSet(Sockets(found'))
        /\ Cardinality(Sockets(found')) = Cardinality(Sockets(found)) + 1
    BY <1>0, <2>2, <2>3, OneMoreSocket DEF Counted
  <2>5. Len(listened') = Len(listened) + 1
    BY <1>0, <2>2 DEF TypeOK
  <2>6. Sockets(found)' = Sockets(found')
    BY DEF Sockets
  <2> QED
    BY <2>4, <2>5, <2>6 DEF Counted
<1>2. ASSUME UNCHANGED <<found, listened>>
      PROVE  Counted'
  BY <1>2 DEF Counted, Sockets
<1>3. ASSUME NEW i \in Indices, SelectMulticast(i)
      PROVE  Counted'
  <2>1. found' = [found EXCEPT ![i] = SelectIn(@)] /\ listened' = listened
    BY <1>3 DEF SelectMulticast
  <2>2. found[i] \in Seq(InterfaceSocket) /\ DOMAIN found = Indices
    BY <1>0 DEF SocketLists
  <2>3. DOMAIN SelectIn(found[i]) = DOMAIN found[i]
    BY <2>2, SelectInKeeps
  <2>4. \A j \in Indices : DOMAIN found'[j] = DOMAIN found[j]
    BY <2>1, <2>2, <2>3
  <2>5. Sockets(found') = Sockets(found)
    BY <2>4, SameSockets
  <2>6. Sockets(found)' = Sockets(found')
    BY DEF Sockets
  <2> QED
    BY <2>1, <2>5, <2>6 DEF Counted
<1>4. CASE UNCHANGED vars
  BY <1>2, <1>4 DEF vars
<1>5. CASE EndScan \/ Save
  BY <1>2, <1>5 DEF EndScan, Save
<1>6. ASSUME NEW d \in Devices, Renumber(d)
      PROVE  Counted'
  BY <1>2, <1>6 DEF Renumber
<1>7. ASSUME NEW entry, Skip(entry) \/ LookupFails(entry)
      PROVE  Counted'
  BY <1>2, <1>7 DEF Skip, LookupFails, vars
<1> QED
  BY <1>1, <1>3, <1>4, <1>5, <1>6, <1>7 DEF Next

\* A list that has not been saved has no sockets.
LEMMA NoSockets == Sockets([i \in Indices |-> <<>>]) = {}
BY DEF Sockets

\* The rounds are numbered from 1 to the number of sockets.
LEMMA RoundInRange ==
    ASSUME NEW list, DOMAIN list = Indices, \A i \in Indices : list[i] \in Seq(InterfaceSocket),
           IsFiniteSet(Sockets(list)), NEW socket \in Sockets(list)
    PROVE  Round(list, socket) \in 1..Cardinality(Sockets(list))
<1> DEFINE S == {other \in Sockets(list) :
                    other[1] < socket[1] \/ (other[1] = socket[1] /\ other[2] <= socket[2])}
<1>1. Cardinality(Sockets(list)) \in Nat
  BY FS_CardinalityType
<1>2. S \subseteq Sockets(list)
  OBVIOUS
<1>3. socket \in S
  <2>1. PICK i \in Indices : \E k \in DOMAIN list[i] : socket = <<i, k>>
    BY DEF Sockets
  <2>2. PICK k \in DOMAIN list[i] : socket = <<i, k>>
    BY <2>1
  <2>3. k \in Nat /\ socket[1] = i /\ socket[2] = k
    BY <2>2
  <2> QED
    BY <2>3
<1>4. /\ IsFiniteSet(S)
      /\ Cardinality(S) <= Cardinality(Sockets(list))
  BY <1>2, FS_Subset
<1>5. Cardinality(S) \in Nat /\ Cardinality(S) # 0
  BY <1>3, <1>4, FS_CardinalityType, FS_EmptySet
<1>6. Round(list, socket) = Cardinality(S)
  BY DEF Round
<1> HIDE DEF S
<1> QED
  BY <1>1, <1>4, <1>5, <1>6

\* initialise changes what the connector can see once, from nothing to a list
\* that SaveSockets may save: as many sockets as addresses were read, and the
\* members among them.
THEOREM ConnectorImplemented == Spec => ImplementsConnector
<1> DEFINE Saving == pc' = "done" /\ ilas = <<>> /\ Network!SaveSockets
<1>1. Init => Network!ConnectorInit
  <2> SUFFICES ASSUME Init
               PROVE  Network!ConnectorInit
    OBVIOUS
  <2>1. Sockets(Saved) = {}
    BY NoSockets DEF Init, Saved
  <2>2. MemberRounds(Saved) = {}
    BY <2>1 DEF MemberRounds
  <2>3. Cardinality({}) = 0
    BY FS_EmptySet
  <2> QED
    BY <2>1, <2>2, <2>3 DEF Network!ConnectorInit
<1>2. Init => Counted
  <2> SUFFICES ASSUME Init
               PROVE  Counted
    OBVIOUS
  <2>1. found = [i \in Indices |-> <<>>] /\ listened = <<>>
    BY DEF Init
  <2>2. Sockets(found) = {}
    BY <2>1, NoSockets
  <2> QED
    BY <2>1, <2>2, FS_EmptySet DEF Counted
<1>3. Inv /\ Counted /\ [Next]_vars => (Inv /\ Counted)'
  BY NextInv, NextCounted
<1>4. ASSUME Inv, Counted, [Next]_vars
      PROVE  [Saving]_ilas
  <2>1. CASE Save
    <3>1. pc = "select" /\ pc' = "done" /\ ilas' = <<found>>
      BY <2>1 DEF Save
    <3>2. ilas = <<>>
      BY <1>4, <3>1 DEF Inv, Published
    <3>3. Saved' = found
      BY <3>1 DEF Saved
    <3> DEFINE n == Cardinality(Sockets(found))
    <3>4. n \in 0..MaxEntries
      <4>1. n = Len(listened) /\ Len(listened) <= MaxEntries /\ Len(listened) \in Nat
        BY <1>4 DEF Counted, Inv, Gathered, TypeOK
      <4> QED
        BY <4>1, InterfacesAssumption
    <3>5. MemberRounds(found) \in SUBSET (1..n)
      <4>1. /\ DOMAIN found = Indices
            /\ \A i \in Indices : found[i] \in Seq(InterfaceSocket)
        BY <1>4 DEF Inv, TypeOK, SocketLists
      <4>2. ASSUME NEW s \in Sockets(found)
            PROVE  Round(found, s) \in 1..n
        BY <1>4, <4>1, RoundInRange DEF Counted
      <4> QED
        BY <4>2 DEF MemberRounds
    <3>6. /\ Cardinality(Sockets(Saved))' = n
          /\ MemberRounds(Saved)' = MemberRounds(found)
      <4>1. Sockets(Saved)' = Sockets(found)
        BY <3>3 DEF Sockets
      <4>2. MemberRounds(Saved)' = MemberRounds(found)
        BY <3>3, <4>1 DEF MemberRounds, Round
      <4> QED
        BY <4>1, <4>2
    <3> HIDE DEF n
    <3>7. Network!SaveSockets
      BY <3>4, <3>5, <3>6 DEF Network!SaveSockets
    <3> QED
      BY <3>1, <3>2, <3>7
  <2>2. CASE ~ Save
    BY <1>4, <2>2 DEF Next, vars, Listen, Push, Skip, LookupFails, Renumber, EndScan,
                     SelectMulticast
  <2> QED
    BY <2>1, <2>2
<1> QED
  BY <1>1, <1>2, <1>3, <1>4, InitInv, PTL DEF Spec, ImplementsConnector

=============================================================================
