--------------------------- MODULE FactoryProperty ---------------------------
(***************************************************************************)
(* A property as property_factory (src/middleware/epc_types.rs) makes it:  *)
(* StaticNodeProperty with the three closures of its kind.  What a caller  *)
(* and a peer can expect of such a property depends on whether its         *)
(* closures agree with each other, which nothing in the code makes sure    *)
(* of; the properties below say in what way they do, and for which values  *)
(* and kinds they do not.                                                  *)
(***************************************************************************)
EXTENDS NodeProperty, EpcProperties, FiniteSets

-----------------------------------------------------------------------------
(* The canonical values of each kind: the members of its Rust type.        *)

Word == 0..(2^16 - 1)

HexStrings == {chars \in Seq(HD!Digit) : Len(chars) % 2 = 0}

\* A 32-bit value counts as any number.
IntegersOf(p) == IF p.saturates THEN Nat ELSE Word

Floats ==
    [class : {"finite"}, halves : Int]
        \union [class : {"nan", "inf", "neg_inf"}, halves : {0}]

Dates ==
    {date \in [year : Int, month : 1..12, day : 1..31] :
        date.day <= DaysIn(date.year, date.month)}

\* The count of a map is never below the number of its operations, and exceeds
\* it by less than the list limit (CountDrift of module PropertyMap).
PropertyMaps ==
    {map \in [cells : SUBSET PM!Cells, count : Nat] :
        map.count - Cardinality(map.cells) \in 0..15}

EOJ == Byte \X Byte \X Byte

Locations ==
    [place : {Places[i] : i \in DOMAIN Places}, number : Byte]
        \union [place : {"not_specified", "indefinite", "location"},
                number : {0}]
        \union [place : {"user_defined"}, number : Nat]

Faults ==
    [name : {"None", "Indeterminate"}
                \union {Recoverable[i] : i \in DOMAIN Recoverable},
     payload : {0}]
        \union [name : {"RecoverableUserDefined"} \union DOMAIN Indexed,
                payload : Byte]
        \union [name : {"RepairUserDefined", "EchonetMiddleware"},
                payload : Word]

CanonicalsOf(k) ==
    LET p == Property[k]
    IN  CASE p.family = "boolean"         -> BOOLEAN
          [] p.family = "integer"         -> IntegersOf(p)
          [] p.family = "packed"          -> Floats
          [] p.family = "hex"             -> HexStrings
          [] p.family = "ascii"           -> Seq(Byte)
          [] p.family = "date"            -> Dates
          [] p.family = "time"            ->
                [hour : 0..23, minute : 0..59, second : 0..59]
          [] p.family = "duration"        ->
                [seconds : Int, too_long : BOOLEAN]
          [] p.family = "property_map"    -> PropertyMaps
          [] p.family = "eoj_array"       -> Seq(EOJ)
          [] p.family = "location"        -> Locations
          [] p.family = "profile_version" ->
                [major : Byte, minor : Byte,
                 specified : BOOLEAN, arbitrary : BOOLEAN]
          [] p.family = "device_version"  -> [release : Nat, revision : Byte]
          [] p.family = "fault_code"      ->
                [manufacturer_code : HexStrings, fault_code : HexStrings]
          [] p.family = "fault"           -> Faults
          [] p.family = "remote_control"  ->
                [public : BOOLEAN, line_ok : BOOLEAN]

\* The kinds are the factory's, and so are the values and what becomes of them.
ASSUME FactoryAssumption ==
    \A k \in Kinds :
        /\ k \in DOMAIN Property
        /\ Epc(k) = EpcOf(k)
        /\ Canonicals(k) \subseteq CanonicalsOf(k)
        /\ \A canonical \in Canonicals(k) :
              FromCanonicalFn(k, canonical) = Encode(k, canonical)

-----------------------------------------------------------------------------
(* How the closures of a kind belong together.                             *)

\* The canonical values that the type, as the factory describes it, can hold.
\* (An instance count above the largest is held as "overflow": the test "when
\* overflow" of node_object_instance_count_to_wire_tests_success.)
Representable(k, canonical) ==
    LET p == Property[k]
    IN  CASE p.family = "integer" ->
                p.sentinels /\ ~ p.saturates => canonical < 2^16 - 2
          [] p.family = "packed" -> canonical.class # "nan"
          [] p.family = "hex" -> HD!ByteLen(canonical) = p.size
          [] p.family = "ascii" -> Len(canonical) = p.size /\ IsAscii(canonical)
          [] p.family = "duration" -> ~ canonical.too_long
          [] p.family = "profile_version" ->
                canonical.specified \/ canonical.arbitrary
          [] p.family = "device_version" -> canonical.release < 128
          [] p.family = "fault_code" ->
                HD!ByteLen(canonical.manufacturer_code) = 3
          [] OTHER -> TRUE

\* The nearest float that is a whole number of steps and in range.
NearestFloat(p, canonical) ==
    IF canonical.class # "finite" THEN canonical
    ELSE IF canonical.halves < 0 THEN Float("neg_inf")
    ELSE IF canonical.halves > 2 * p.max THEN Float("inf")
    ELSE Finite(canonical.halves + (canonical.halves % 2))

\* The value of the type that is nearest to a canonical value.  HexStrings that
\* differ in case are equal as their comparison with strings says.
Nearest(k, canonical) ==
    LET p == Property[k]
    IN  CASE p.family = "packed" -> NearestFloat(p, canonical)
          [] p.family = "integer" ->
                IF p.saturates /\ canonical >= 256^p.size - 1
                THEN 256^p.size - 1
                ELSE canonical
          [] p.family = "hex" -> HD!Lower(canonical)
          [] p.family = "time" -> [canonical EXCEPT !.second = 0]
          [] p.family = "device_version" ->
                [canonical EXCEPT !.release = Uppercase(@)]
          [] p.family = "fault_code" ->
                [manufacturer_code |-> HD!Lower(canonical.manufacturer_code),
                 fault_code        |-> HD!Lower(canonical.fault_code)]
          [] OTHER -> canonical

\* A buffer with its header.
Sent(k, internal) ==
    [internal EXCEPT ![1] = EpcOf(k), ![2] = PDC(Len(internal) - 2)]

\* What is written as a canonical value can be converted "back to the
\* canonical form" (the comment in from_canonical), and is then that value up
\* to what its type cannot hold.
RoundTrip == ReadsBack(Nearest)

\* The two conversions are each other's inverse, whatever the validator says of
\* the bytes in between: what from_canonical_fn makes of a value has room for
\* the header, and to_canonical_fn makes that value of it again.
ConvertsBack(k, canonical) ==
    LET encoded == Encode(k, canonical)
    IN  encoded.tag = "ok" =>
            /\ Len(encoded.value) >= 2
            /\ Decode(k, Sent(k, encoded.value)) = Ok(Nearest(k, canonical))

\* What from_canonical_fn makes of a value passes the validator now.
IsAccepted(canonical) ==
    LET encoded == Encode(kind, canonical)
    IN  /\ encoded.tag = "ok"
        /\ Len(encoded.value) >= 2
        /\ Verdict(WithHeader(encoded.value)) = Ok(TRUE)

\* A value that the type can hold is never refused, whatever was stored before.
RepresentableIsAccepted ==
    \A canonical \in Canonicals(kind) :
        Representable(kind, canonical) => IsAccepted(canonical)

\* The buffer that set makes of the data in which a peer announces a map, which
\* is what NodeObjectPropertyMap's decode makes of it.
Announced(k, map) == Sent(k, Header \o PM!Decode(map.cells, map.count))

-----------------------------------------------------------------------------
(* The values and kinds whose closures do not agree with each other, by     *)
(* what comes of it.  Each property is checked for all but the ones listed. *)

\* The faults that are the same after the wire: not "None", not a fault with an
\* index beyond its range or with a high byte, and of the user's codes only
\* those whose low byte is above the other codes.
Unambiguous(fault) ==
    \/ \E i \in DOMAIN Recoverable : Recoverable[i] = fault.name
    \/ fault = Fault("RecoverableUserDefined", 0)
    \/ /\ fault.name \in DOMAIN Indexed
       /\ LET codes == Indexed[fault.name]
          IN  codes.first + fault.payload <= codes.last
    \/ /\ fault.name = "RepairUserDefined"
       /\ fault.payload \in 111..1000
       /\ fault.payload % 256 >= 111
    \/ fault.name = "EchonetMiddleware" /\ fault.payload \in 1001..1004
    \/ fault.name = "Indeterminate"

\* A manufacturer's code that is not moved to the right by the fault code.
NotMoved(canonical) ==
    /\ HD!ByteLen(canonical.manufacturer_code) = 3
    /\ \/ canonical.fault_code = <<>>
       \/ \A i \in 1..6 : canonical.manufacturer_code[i] = 0

\* The values that change on their way to the wire and back: a date whose year
\* does not fit into 16 bits, an ambiguous fault, the number of a location and
\* all of a location that is no place, the EOJs of a list after the first, a
\* manufacturer's code that is moved, every property map, and every version of
\* a device but the one that is all zero.
Altered(k, canonical) ==
    LET p == Property[k]
    IN  CASE p.family = "date" -> canonical.year \notin Word
          [] p.family = "fault" -> ~ Unambiguous(canonical)
          [] p.family = "location" ->
                /\ canonical.place \notin {"not_specified", "indefinite"}
                /\ IsPlace(canonical.place) => canonical.number # 7
          [] p.family = "eoj_array" -> Len(canonical) > 1
          [] p.family = "fault_code" -> ~ NotMoved(canonical)
          [] p.family = "device_version" ->
                canonical # [release |-> 0, revision |-> 0]
          [] p.family = "property_map" -> TRUE
          [] OTHER -> FALSE

\* The values that are refused although the type can hold them: both of a
\* Boolean, every identification number, duration and fault, the count that is
\* the sentinel for too small and all that saturate to the one for too large,
\* the locations that are no place, and the maps of one operation or none.
Refused(k, canonical) ==
    LET p == Property[k]
    IN  CASE p.family \in {"boolean", "duration", "fault"} -> TRUE
          [] p.family = "hex" -> p.media # {}
          [] p.family = "integer" ->
                p.saturates /\ canonical >= 256^p.size - 2
          [] p.family = "location" ->
                canonical.place \in {"user_defined", "location"}
          [] p.family = "property_map" -> canonical.count < 2
          [] OTHER -> FALSE

\* The values that cannot be encoded without a panic: every duration that has
\* an amount, the location "location", and a fault code whose manufacturer's
\* code is too short for the slices.
Perilous(k, canonical) ==
    LET p == Property[k]
    IN  CASE p.family = "duration" -> ~ canonical.too_long
          [] p.family = "location" -> canonical.place = "location"
          [] p.family = "fault_code" ->
                HD!ByteLen(canonical.manufacturer_code) < 3
          [] OTHER -> FALSE

\* The data that cannot be read without a panic: of a location, no data, or a
\* byte that has a number and no place.
Unreadable(k, internal) ==
    /\ Property[k].family = "location"
    /\ \/ Len(internal) < 3
       \/ internal[3] \in (1..7) \union (128..135)

\* The kinds whose validator answers Ok(false), which set takes for Ok(true).
UncheckedKinds ==
    {"class_list", "installation_location", "instance_list",
     "instance_notification"}

\* RoundTrip, but for the values that change.
RoundTripElsewhere ==
    written.tag = "ok" =>
        (~ Altered(kind, written.value) => RoundTrip)

\* ConvertsBack, but for the values that change.
ConvertsBackElsewhere ==
    \A canonical \in Canonicals(kind) :
        ~ Altered(kind, canonical) => ConvertsBack(kind, canonical)

\* A property map that a peer announces, as a list or as a bitmap, means that
\* map, and as a list of up to 14 operations it is accepted.  (A list of 15 and
\* every bitmap are refused.)
MapsUnderstood ==
    Property[kind].family = "property_map" =>
        \A map \in Canonicals(kind) :
            map.count = Cardinality(map.cells) =>
                /\ Decode(kind, Announced(kind, map)) = Ok(map)
                /\ map.count < 15 =>
                      Validate(kind, Announced(kind, map), Err) = Ok(TRUE)

\* RepresentableIsAccepted, but for the values that are refused.
AcceptedElsewhere ==
    \A canonical \in Canonicals(kind) :
        Representable(kind, canonical) /\ ~ Refused(kind, canonical) =>
            IsAccepted(canonical)

\* NeverPanics, but for the values and the data that are perilous: encoding
\* panics only on such a value, reading only on such data, and no other call
\* panics, whatever was stored before.
CalmElsewhere ==
    /\ Read.tag = "panic" => Unreadable(kind, last_value)
    /\ \A canonical \in Canonicals(kind) :
          Encode(kind, canonical).tag = "panic" => Perilous(kind, canonical)
    /\ ~ NeverPanics =>
          \/ /\ result.call = "from_canonical"
             /\ \E canonical \in Canonicals(kind) : Perilous(kind, canonical)
          \/ result.call = "to_canonical" /\ Unreadable(kind, last_value)

\* StoredIsValid, but for data that set has stored of a kind whose validator
\* answers Ok(false).
ValidElsewhere ==
    kind \notin UncheckedKinds \/ written.tag = "ok" => StoredIsValid

=============================================================================
