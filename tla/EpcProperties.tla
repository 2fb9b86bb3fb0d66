---------------------------- MODULE EpcProperties ----------------------------
(***************************************************************************)
(* property_factory (src/middleware/epc_types.rs): the properties of the   *)
(* superclasses and of the node profile, the conversions that the factory  *)
(* gives to a single one of them in place, and the three closures each     *)
(* property ends up with.                                                  *)
(***************************************************************************)
EXTENDS EpcCodecs, FaultDescription

-----------------------------------------------------------------------------
(* Installation location.                                                  *)

Places ==
    <<"living_room", "dining_room", "kitchen", "bathroom", "lavatory",
      "washroom", "passageway", "room", "stairway", "front_door", "storeroom",
      "garden", "garage", "veranda", "other">>

IsPlace(name) == \E i \in DOMAIN Places : Places[i] = name

PlaceCode(place) == 8 * (CHOOSE i \in DOMAIN Places : Places[i] = place)

\* "code | (number | 0x07)": the number sets the three low bits, whatever it is,
\* and what it has above them runs into the place.
LocationByte(place, number) ==
    LET Value(i) ==
            IF Bit(PlaceCode(place), i) \/ Bit(number, i) THEN 2^i ELSE 0
    IN  7 + Value(3) + Value(4) + Value(5) + Value(6) + Value(7)

EncodeLocation(p, canonical) ==
    CASE IsPlace(canonical.place) ->
            Ok(Header \o <<LocationByte(canonical.place, canonical.number)>>)
      [] canonical.place = "not_specified" -> Ok(Header \o <<0>>)
      [] canonical.place = "indefinite"    -> Ok(Header \o <<255>>)
      [] canonical.place = "user_defined"  -> Ok(BigEndian(canonical.number, 4))
      [] canonical.place = "location"      -> Panic

\* A first byte of 0x01 compares nine bytes with eight, and both that and what
\* remains end in a panic; 0x80..0x87 and 0x02..0x07 reach "unreachable!()".
DecodeLocation(p, internal) ==
    IF Len(internal) < 3 THEN Panic
    ELSE LET code  == internal[3]
             index == (code \div 8) % 16
         IN  CASE code = 0   -> Ok([place |-> "not_specified", number |-> 0])
               [] code = 255 -> Ok([place |-> "indefinite", number |-> 0])
               [] code \notin {0, 255} /\ index = 0 -> Panic
               [] code \notin {0, 255} /\ index # 0 ->
                     Ok([place |-> Places[index], number |-> code % 8])

ValidateLocation(p, internal) ==
    Ok(\/ internal[1] = 1 /\ Len(internal) = 17
       \/ Len(internal) = 3)

-----------------------------------------------------------------------------
(* Version information, of a profile object and of a device object.        *)

EncodeProfileVersion(p, canonical) ==
    IF canonical.specified \/ canonical.arbitrary
    THEN Ok(Header \o <<canonical.major, canonical.minor,
                        (IF canonical.specified THEN 1 ELSE 0)
                            + (IF canonical.arbitrary THEN 2 ELSE 0), 0>>)
    ELSE Err

DecodeProfileVersion(p, internal) ==
    IF Len(internal) < 5 THEN Panic
    ELSE Ok([major |-> internal[3], minor |-> internal[4],
             specified |-> Bit(internal[5], 0),
             arbitrary |-> Bit(internal[5], 1)])

ValidateProfileVersion(p, internal) ==
    IF Len(internal) = 6 /\ (Bit(internal[5], 0) \/ Bit(internal[5], 1))
    THEN Ok(TRUE)
    ELSE Err

\* to_ascii_uppercase.
Uppercase(char) == IF char \in 97..122 THEN char - 32 ELSE char

\* The release goes into the third byte of data and is read from the first.
EncodeDeviceVersion(p, canonical) ==
    Ok(Header \o <<0, 0, Uppercase(canonical.release) % 256,
                   canonical.revision>>)

DecodeDeviceVersion(p, internal) ==
    IF Len(internal) < 4 THEN Panic
    ELSE Ok([release |-> internal[3], revision |-> internal[4]])

ValidateDeviceVersion(p, internal) ==
    IF Len(internal) = 6 /\ internal[5] < 128 THEN Ok(TRUE) ELSE Err

-----------------------------------------------------------------------------
(* Manufacturer's fault code.                                              *)

\* The manufacturer's code is right aligned in all of the data, and the fault
\* code then right aligned in what follows the first three bytes.
EncodeFaultCode(p, canonical) ==
    LET size == HD!ByteLen(canonical.manufacturer_code)
                    + HD!ByteLen(canonical.fault_code)
        manufacturer == BytesOfHex(canonical.manufacturer_code, size)
        fault == BytesOfHex(canonical.fault_code, size - 3)
    IN  IF manufacturer.tag # "ok" THEN manufacturer
        ELSE IF size < 3 THEN Panic
        ELSE IF fault.tag # "ok" THEN fault
        ELSE Ok(Header \o SubSeq(manufacturer.value, 1, 3) \o fault.value)

DecodeFaultCode(p, internal) ==
    IF Len(internal) < 5 THEN Panic
    ELSE Ok([manufacturer_code |-> HexOfBytes(SubSeq(internal, 3, 5)).value,
             fault_code |->
                 HexOfBytes(SubSeq(internal, 6, Len(internal))).value])

ValidateFaultCode(p, internal) ==
    IF Len(internal) >= 5 THEN Ok(TRUE) ELSE Err

-----------------------------------------------------------------------------
(* Fault content.                                                          *)

EncodeFault(p, canonical) == Ok(Header \o BigEndian(ToU16(canonical), 2))

DecodeFault(p, internal) ==
    IF Len(internal) # 4 THEN Panic ELSE TryFromU16(Number(DataOf(internal)))

\* The enum is resolved from the value that is stored, not from the one that
\* is being validated.
ValidateFault(p, internal, stored) ==
    IF HasLength(internal, 2) = Err THEN Err
    ELSE IF stored.tag = "ok" THEN Ok(TRUE) ELSE [tag |-> stored.tag]

-----------------------------------------------------------------------------
(* Remote control.                                                         *)

EncodeRemoteControl(p, canonical) ==
    Ok(Header \o <<(IF canonical.public THEN 66 ELSE 65)
                       + (IF canonical.line_ok THEN 32 ELSE 0)>>)

DecodeRemoteControl(p, internal) ==
    IF Len(internal) < 3 THEN Panic
    ELSE Ok([public  |-> ~ (Bit(internal[3], 0) /\ Bit(internal[3], 6)),
             line_ok |-> Bit(internal[3], 5) /\ Bit(internal[3], 6)])

ValidateRemoteControl(p, internal) ==
    IF /\ HasLength(internal, 1) = Ok(TRUE)
       /\ Bit(internal[3], 6)
       /\ Bit(internal[3], 0) \/ Bit(internal[3], 1)
    THEN Ok(TRUE)
    ELSE Err

-----------------------------------------------------------------------------
(* The factory's table.                                                    *)

Boolean(epc, on, off) ==
    [epc |-> epc, family |-> "boolean", on |-> on, off |-> off]

IntegerOf(epc, size, sentinels, saturates) ==
    [epc |-> epc, family |-> "integer", size |-> size,
     sentinels |-> sentinels, saturates |-> saturates]

Packed(epc, size, max) ==
    [epc |-> epc, family |-> "packed", size |-> size, max |-> max]

Hex(epc, size, media) ==
    [epc |-> epc, family |-> "hex", size |-> size, media |-> media]

Ascii(epc, size) == [epc |-> epc, family |-> "ascii", size |-> size]

Plain(epc, family) == [epc |-> epc, family |-> family]

\* The properties that the factory can make, by name.
Property ==
    [operating_status       |-> Boolean(128, 48, 49),
     installation_location  |-> Plain(129, "location"),
     profile_version        |-> Plain(130, "profile_version"),
     device_version         |-> Plain(130, "device_version"),
     profile_identification |-> Hex(131, 17, {254}),
     device_identification  |-> Hex(131, 17, {0, 254, 255}),
     instantaneous_power    |-> IntegerOf(132, 2, TRUE, FALSE),
     cumulative_power       |-> Packed(133, 4, 999999999),
     fault_code             |-> Plain(134, "fault_code"),
     current_limit          |-> Packed(135, 1, 100),
     fault_status           |-> Boolean(136, 65, 66),
     fault_content          |-> Plain(137, "fault"),
     manufacturer_code      |-> Hex(138, 3, {}),
     business_facility_code |-> Hex(139, 3, {}),
     product_code           |-> Ascii(140, 12),
     serial_number          |-> Ascii(141, 12),
     production_date        |-> Plain(142, "date"),
     power_saving           |-> Boolean(143, 65, 66),
     remote_control         |-> Plain(147, "remote_control"),
     current_time           |-> Plain(151, "time"),
     current_date           |-> Plain(152, "date"),
     power_limit            |-> IntegerOf(153, 2, TRUE, FALSE),
     operating_time         |-> Plain(154, "duration"),
     announcement_map       |-> Plain(157, "property_map"),
     set_property_map       |-> Plain(158, "property_map"),
     get_property_map       |-> Plain(159, "property_map"),
     unique_identifier      |-> IntegerOf(191, 2, FALSE, FALSE),
     instance_count         |-> IntegerOf(211, 3, TRUE, TRUE),
     class_count            |-> IntegerOf(212, 2, TRUE, FALSE),
     instance_notification  |-> Plain(213, "eoj_array"),
     instance_list          |-> Plain(214, "eoj_array"),
     class_list             |-> Plain(215, "eoj_array")]

\* A NodeGroupClass is its group and its class.
NodeProfileClass == <<14, 240>>
ControllerClass  == <<5, 255>>

IsProfile(group_class) == group_class[1] = NodeProfileClass[1]

ProfileForms == {"profile_version", "profile_identification"}
DeviceForms  == {"device_version", "device_identification"}

\* property_factory: what it makes of an EPC, for a class of objects.
PropertyFactory(group_class, epc) ==
    LET named == {kind \in DOMAIN Property : Property[kind].epc = epc}
        made  ==
            CASE epc \in 128..159 ->
                    named \ (IF IsProfile(group_class) THEN DeviceForms
                             ELSE ProfileForms)
              [] epc \in 160..239 ->
                    IF group_class = NodeProfileClass THEN named ELSE {}
              [] OTHER -> {}
    IN  IF made = {} THEN Err ELSE Ok(CHOOSE kind \in made : TRUE)

EpcOf(kind) == Property[kind].epc

\* from_canonical_fn.
Encode(kind, canonical) ==
    LET p == Property[kind]
    IN  CASE p.family = "boolean"         -> EncodeBoolean(p, canonical)
          [] p.family = "integer"         -> EncodeInteger(p, canonical)
          [] p.family = "packed"          -> EncodePacked(p, canonical)
          [] p.family = "hex"             -> EncodeHex(p, canonical)
          [] p.family = "ascii"           -> EncodeAscii(p, canonical)
          [] p.family = "date"            -> EncodeDate(p, canonical)
          [] p.family = "time"            -> EncodeTime(p, canonical)
          [] p.family = "duration"        -> EncodeDuration(p, canonical)
          [] p.family = "property_map"    -> EncodeMap(p, canonical)
          [] p.family = "eoj_array"       -> EncodeEOJs(p, canonical)
          [] p.family = "location"        -> EncodeLocation(p, canonical)
          [] p.family = "profile_version" -> EncodeProfileVersion(p, canonical)
          [] p.family = "device_version"  -> EncodeDeviceVersion(p, canonical)
          [] p.family = "fault_code"      -> EncodeFaultCode(p, canonical)
          [] p.family = "fault"           -> EncodeFault(p, canonical)
          [] p.family = "remote_control"  -> EncodeRemoteControl(p, canonical)

\* to_canonical_fn.
Decode(kind, internal) ==
    LET p == Property[kind]
    IN  CASE p.family = "boolean"         -> DecodeBoolean(p, internal)
          [] p.family = "integer"         -> DecodeInteger(p, internal)
          [] p.family = "packed"          -> DecodePacked(p, internal)
          [] p.family = "hex"             -> DecodeHex(p, internal)
          [] p.family = "ascii"           -> DecodeAscii(p, internal)
          [] p.family = "date"            -> DecodeDate(p, internal)
          [] p.family = "time"            -> DecodeTime(p, internal)
          [] p.family = "duration"        -> DecodeDuration(p, internal)
          [] p.family = "property_map"    -> DecodeMap(p, internal)
          [] p.family = "eoj_array"       -> DecodeEOJs(p, internal)
          [] p.family = "location"        -> DecodeLocation(p, internal)
          [] p.family = "profile_version" -> DecodeProfileVersion(p, internal)
          [] p.family = "device_version"  -> DecodeDeviceVersion(p, internal)
          [] p.family = "fault_code"      -> DecodeFaultCode(p, internal)
          [] p.family = "fault"           -> DecodeFault(p, internal)
          [] p.family = "remote_control"  -> DecodeRemoteControl(p, internal)

\* validator_fn; stored is what to_canonical returns when it is called.
Validate(kind, internal, stored) ==
    LET p == Property[kind]
    IN  CASE p.family = "boolean"         -> ValidateBoolean(p, internal)
          [] p.family = "integer"         -> ValidateInteger(p, internal)
          [] p.family = "packed"          -> ValidatePacked(p, internal)
          [] p.family = "hex"             -> ValidateHex(p, internal)
          [] p.family = "ascii"           -> ValidateAscii(p, internal)
          [] p.family = "date"            -> ValidateDate(p, internal)
          [] p.family = "time"            -> ValidateTime(p, internal)
          [] p.family = "duration"        -> ValidateDuration(p, internal)
          [] p.family = "property_map"    -> ValidateMap(p, internal)
          [] p.family = "eoj_array"       -> ValidateEOJs(p, internal)
          [] p.family = "location"        -> ValidateLocation(p, internal)
          [] p.family = "profile_version" -> ValidateProfileVersion(p, internal)
          [] p.family = "device_version"  -> ValidateDeviceVersion(p, internal)
          [] p.family = "fault_code"      -> ValidateFaultCode(p, internal)
          [] p.family = "fault"           -> ValidateFault(p, internal, stored)
          [] p.family = "remote_control"  -> ValidateRemoteControl(p, internal)

=============================================================================
