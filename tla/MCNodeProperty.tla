--------------------------- MODULE MCNodeProperty ---------------------------
(***************************************************************************)
(* The values with which TLC exercises a property of each kind.            *)
(***************************************************************************)
EXTENDS FactoryProperty

AllKinds ==
    {k \in DOMAIN Property :
        \E group_class \in {NodeProfileClass, ControllerClass}, epc \in Byte :
            PropertyFactory(group_class, epc) = Ok(k)}

Ascii12 == [i \in 1..12 |-> 65 + i]

EOJs == {<<5, 255, 1>>, <<14, 240, 2>>}

\* A map of so many operations, in cells of every row.
MapOf(n) == [cells |-> {<<i % 8, i>> : i \in 0..(n - 1)}, count |-> n]

\* A map that counts an operation twice.
Drifted == [MapOf(2) EXCEPT !.count = 3]

\* The digits of the bytes 01 02 .. .
HexOf(n) == HD!DigitsOf([i \in 1..n |-> <<0, i % 16>>])

UpperCase == <<0, 16 + 10, 16 + 11, 12, 0, 13>>

MCFaults ==
    {Fault(name, 0) :
        name \in {"None", "RecoverableByCleaning", "RecoverableUserDefined",
                  "RepairSafetyDevice", "RepairSensor", "RepairControlBoard",
                  "Indeterminate"}}
      \union {Fault("RecoverableUserDefined", 4), Fault("RepairSafetyDevice", 9),
              Fault("RepairSafetyDevice", 15), Fault("RepairControlBoard", 20),
              Fault("RepairUserDefined", 111), Fault("RepairUserDefined", 257),
              Fault("RepairUserDefined", 1000), Fault("EchonetMiddleware", 1001),
              Fault("EchonetMiddleware", 1004)}

\* Canonical values: the ends of the range, what lies just outside, and a value
\* in the middle.
MCCanonicals(k) ==
    LET p == Property[k]
    IN  CASE p.family = "boolean" -> BOOLEAN
          [] k = "instance_count" -> {0, 74565, 16777213, 16777214, 16777215, 33554431}
          [] p.family = "integer" /\ k # "instance_count" ->
                {0, 258, 16384, 65533, 65534, 65535}
          [] p.family = "packed" ->
                {Finite(h) : h \in {-2, -1, 0, 1, 3, 2 * p.max - 1, 2 * p.max,
                                    2 * p.max + 1}}
                    \union {Float(c) : c \in {"nan", "inf", "neg_inf"}}
          [] p.family = "hex" ->
                {HexOf(n) : n \in {0, p.size - 2, p.size, p.size + 1}}
                    \union {UpperCase}
          [] p.family = "ascii" -> {<<>>, Ascii12, [Ascii12 EXCEPT ![12] = 128]}
          [] p.family = "date" ->
                {[year |-> d[1], month |-> d[2], day |-> d[3]] :
                    d \in {<<-1, 12, 31>>, <<0, 1, 1>>, <<1999, 12, 20>>,
                           <<2000, 2, 29>>, <<65535, 1, 31>>, <<67535, 12, 20>>}}
          [] p.family = "time" ->
                {[hour |-> t[1], minute |-> t[2], second |-> t[3]] :
                    t \in {<<0, 0, 0>>, <<12, 34, 56>>, <<23, 59, 59>>}}
          [] p.family = "duration" ->
                [seconds : {0, 60}, too_long : {FALSE}]
                    \union [seconds : {0}, too_long : {TRUE}]
          [] p.family = "property_map" ->
                {MapOf(n) : n \in {0, 3, 14, 15, 16}} \union {Drifted}
          [] p.family = "eoj_array" ->
                {<<>>, Constantly(<<5, 255, 1>>, 86)}
                    \union UNION {[1..n -> EOJs] : n \in 1..2}
          [] p.family = "location" ->
                [place : {"living_room", "other"}, number : {0, 3, 7, 31, 128}]
                    \union [place : {"not_specified", "indefinite", "location"},
                            number : {0}]
                    \union [place : {"user_defined"}, number : {0, 7, 258}]
          [] p.family = "profile_version" ->
                [major : {1}, minor : {0, 14},
                 specified : BOOLEAN, arbitrary : BOOLEAN]
          [] p.family = "device_version" ->
                [release : {0, 81, 113, 128}, revision : {0, 1}]
          [] p.family = "fault_code" ->
                [manufacturer_code :
                    {HexOf(n) : n \in {0, 2, 3, 4}} \union {Constantly(0, 6)},
                 fault_code : {HexOf(n) : n \in {0, 1, 4}}
                                  \union {<<0, 0, 0, 1>>, <<0, 0, 1, 0>>}]
          [] p.family = "fault" -> MCFaults
          [] p.family = "remote_control" -> [public : BOOLEAN, line_ok : BOOLEAN]

\* Data from a peer: what this program would send, cut short by a byte, with a
\* byte too many, and every one-byte and some two-byte values.
Own(k) ==
    {encoded \in {Encode(k, canonical) : canonical \in MCCanonicals(k)} :
        encoded.tag = "ok" /\ Len(encoded.value) >= 2}

MCEdts(k) ==
    UNION {LET data == DataOf(encoded.value)
           IN  {data, Append(data, 1),
                SubSeq(data, 1, Len(data) - 1)} : encoded \in Own(k)}
      \union {<<>>}
      \union {<<byte>> : byte \in {0, 1, 2, 15, 48, 65, 98, 100, 128, 254, 255}}
      \union {<<65, 0, 0, 0, 59>>, <<68, 0, 0, 0, 1>>, <<69, 0, 0, 0, 1>>,
              <<7, 207, 13, 1>>, <<7, 207, 2, 29>>}

-----------------------------------------------------------------------------
(* Every deviation that module FactoryProperty lists is one.                *)

\* The value is not accepted by a property that stores nothing.
Refuses(k, canonical) ==
    LET encoded == Encode(k, canonical)
    IN  \/ encoded.tag # "ok"
        \/ Len(encoded.value) < 2
        \/ Validate(k, Sent(k, encoded.value), Err) # Ok(TRUE)

\* Some data is answered Ok(false), which set takes for Ok(true).
Unchecked(k) ==
    \E edt \in MCEdts(k) :
        Validate(k, Sent(k, Header \o edt), Err) = Ok(FALSE)

\* Some data is accepted, in the way set accepts it, that cannot be read.
SetsUnreadable(k) ==
    \E edt \in MCEdts(k) :
        LET internal == Sent(k, Header \o edt)
        IN  /\ Validate(k, internal, Err).tag = "ok"
            /\ Decode(k, internal) = Panic

\* No value is excused that does not change, unless it cannot be written; every
\* value that is excused for being refused is; of the perilous ones of a kind
\* one does panic, and all do but fault codes; and no kind is unchecked that
\* would not need it.
ASSUME DeviationsAreReal ==
    /\ \A k \in AllKinds : \A canonical \in MCCanonicals(k) :
          /\ Altered(k, canonical) =>
                \/ ~ ConvertsBack(k, canonical)
                \/ Encode(k, canonical).tag # "ok"
          /\ Refused(k, canonical) => Refuses(k, canonical)
          /\ Perilous(k, canonical) /\ k # "fault_code" =>
                Encode(k, canonical) = Panic
    /\ \E canonical \in MCCanonicals("fault_code") :
          Encode("fault_code", canonical) = Panic
    /\ SetsUnreadable("installation_location")
    /\ \A k \in UncheckedKinds : Unchecked(k)
    /\ \A n \in {15, 16} :
          Validate("set_property_map", Announced("set_property_map", MapOf(n)),
                   Err) = Err

=============================================================================
