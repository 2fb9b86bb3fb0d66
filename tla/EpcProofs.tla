------------------------------ MODULE EpcProofs ------------------------------
(***************************************************************************)
(* Lemmas about the conversions of the properties: the factory's table,    *)
(* what a closure of each kind may return, and in what way the three       *)
(* closures of a kind belong together.  They hold for every canonical      *)
(* value and every sequence of bytes.                                      *)
(***************************************************************************)
EXTENDS FactoryProperty, TLAPS

-----------------------------------------------------------------------------
(* The table.                                                              *)

\* The families of property.
LEMMA Families ==
    ASSUME NEW k \in DOMAIN Property
    PROVE  Property[k].family \in
               {"boolean", "integer", "packed", "hex", "ascii", "date", "time",
                "duration", "property_map", "eoj_array", "location",
                "profile_version", "device_version", "fault_code", "fault",
                "remote_control"}
  BY SMT DEF Property, Boolean, IntegerOf, Packed, Hex, Ascii, Plain

\* The families with a few members.
LEMMA SmallFamilies ==
    ASSUME NEW k \in DOMAIN Property
    PROVE  /\ Property[k].family = "location" => k = "installation_location"
           /\ Property[k].family = "duration" => k = "operating_time"
           /\ Property[k].family = "fault_code" => k = "fault_code"
           /\ Property[k].family = "eoj_array" =>
                k \in {"instance_notification", "instance_list", "class_list"}
  BY SMT DEF Property, Boolean, IntegerOf, Packed, Hex, Ascii, Plain

\* What the table says of the properties with parameters.
LEMMA EpcByte == \A k \in DOMAIN Property : EpcOf(k) \in Byte
  BY SMT DEF EpcOf, Byte, Property, Boolean, IntegerOf, Packed, Hex, Ascii,
             Plain

LEMMA BooleanParameters ==
    ASSUME NEW k \in DOMAIN Property, Property[k].family = "boolean"
    PROVE  /\ Property[k].on # Property[k].off
           /\ Property[k].on \in Byte /\ Property[k].off \in Byte
  BY SMT DEF Byte, Property, Boolean, IntegerOf, Packed, Hex, Ascii, Plain

LEMMA IntegerParameters ==
    ASSUME NEW k \in DOMAIN Property, Property[k].family = "integer"
    PROVE  /\ \/ Property[k].size = 2 /\ Property[k].saturates = FALSE
              \/ Property[k].size = 3 /\ Property[k].saturates = TRUE
           /\ Property[k].sentinels = FALSE \/ Property[k].sentinels = TRUE
           /\ Property[k].saturates = TRUE => k = "instance_count"
  BY SMT DEF Property, Boolean, IntegerOf, Packed, Hex, Ascii, Plain

LEMMA PackedParameters ==
    ASSUME NEW k \in DOMAIN Property, Property[k].family = "packed"
    PROVE  \/ Property[k].size = 1 /\ Property[k].max = 100
           \/ Property[k].size = 4 /\ Property[k].max = 10^9 - 1
  BY SMT DEF Property, Boolean, IntegerOf, Packed, Hex, Ascii, Plain

LEMMA HexParameters ==
    ASSUME NEW k \in DOMAIN Property, Property[k].family = "hex",
           Property[k].media = {}
    PROVE  Property[k].size = 3
<1>1. /\ 254 \in Property["profile_identification"].media
      /\ 254 \in Property["device_identification"].media
  BY SMT DEF Property, Hex
<1>2. k \notin {"device_identification", "profile_identification"}
  BY <1>1
<1> QED
  BY SMT, <1>2 DEF Property, Boolean, IntegerOf, Packed, Hex, Ascii, Plain

LEMMA AsciiParameters ==
    ASSUME NEW k \in DOMAIN Property, Property[k].family = "ascii"
    PROVE  Property[k].size = 12
  BY SMT DEF Property, Boolean, IntegerOf, Packed, Hex, Ascii, Plain

\* Each closure is that of the family.
LEMMA Encodes ==
    ASSUME NEW k \in DOMAIN Property, NEW canonical
    PROVE  LET p == Property[k]
           IN  /\ p.family = "boolean" =>
                    Encode(k, canonical) = EncodeBoolean(p, canonical)
               /\ p.family = "integer" =>
                    Encode(k, canonical) = EncodeInteger(p, canonical)
               /\ p.family = "packed" =>
                    Encode(k, canonical) = EncodePacked(p, canonical)
               /\ p.family = "hex" =>
                    Encode(k, canonical) = EncodeHex(p, canonical)
               /\ p.family = "ascii" =>
                    Encode(k, canonical) = EncodeAscii(p, canonical)
               /\ p.family = "date" =>
                    Encode(k, canonical) = EncodeDate(p, canonical)
               /\ p.family = "time" =>
                    Encode(k, canonical) = EncodeTime(p, canonical)
               /\ p.family = "duration" =>
                    Encode(k, canonical) = EncodeDuration(p, canonical)
               /\ p.family = "property_map" =>
                    Encode(k, canonical) = EncodeMap(p, canonical)
               /\ p.family = "eoj_array" =>
                    Encode(k, canonical) = EncodeEOJs(p, canonical)
               /\ p.family = "location" =>
                    Encode(k, canonical) = EncodeLocation(p, canonical)
               /\ p.family = "profile_version" =>
                    Encode(k, canonical) = EncodeProfileVersion(p, canonical)
               /\ p.family = "device_version" =>
                    Encode(k, canonical) = EncodeDeviceVersion(p, canonical)
               /\ p.family = "fault_code" =>
                    Encode(k, canonical) = EncodeFaultCode(p, canonical)
               /\ p.family = "fault" =>
                    Encode(k, canonical) = EncodeFault(p, canonical)
               /\ p.family = "remote_control" =>
                    Encode(k, canonical) = EncodeRemoteControl(p, canonical)
  BY Zenon DEF Encode

LEMMA Decodes ==
    ASSUME NEW k \in DOMAIN Property, NEW internal
    PROVE  LET p == Property[k]
           IN  /\ p.family = "boolean" =>
                    Decode(k, internal) = DecodeBoolean(p, internal)
               /\ p.family = "integer" =>
                    Decode(k, internal) = DecodeInteger(p, internal)
               /\ p.family = "packed" =>
                    Decode(k, internal) = DecodePacked(p, internal)
               /\ p.family = "hex" =>
                    Decode(k, internal) = DecodeHex(p, internal)
               /\ p.family = "ascii" =>
                    Decode(k, internal) = DecodeAscii(p, internal)
               /\ p.family = "date" =>
                    Decode(k, internal) = DecodeDate(p, internal)
               /\ p.family = "time" =>
                    Decode(k, internal) = DecodeTime(p, internal)
               /\ p.family = "duration" =>
                    Decode(k, internal) = DecodeDuration(p, internal)
               /\ p.family = "property_map" =>
                    Decode(k, internal) = DecodeMap(p, internal)
               /\ p.family = "eoj_array" =>
                    Decode(k, internal) = DecodeEOJs(p, internal)
               /\ p.family = "location" =>
                    Decode(k, internal) = DecodeLocation(p, internal)
               /\ p.family = "profile_version" =>
                    Decode(k, internal) = DecodeProfileVersion(p, internal)
               /\ p.family = "device_version" =>
                    Decode(k, internal) = DecodeDeviceVersion(p, internal)
               /\ p.family = "fault_code" =>
                    Decode(k, internal) = DecodeFaultCode(p, internal)
               /\ p.family = "fault" =>
                    Decode(k, internal) = DecodeFault(p, internal)
               /\ p.family = "remote_control" =>
                    Decode(k, internal) = DecodeRemoteControl(p, internal)
  BY Zenon DEF Decode

LEMMA Validates ==
    ASSUME NEW k \in DOMAIN Property, NEW internal, NEW stored
    PROVE  LET p == Property[k]
           IN  /\ p.family = "boolean" =>
                    Validate(k, internal, stored) = ValidateBoolean(p, internal)
               /\ p.family = "integer" =>
                    Validate(k, internal, stored) = ValidateInteger(p, internal)
               /\ p.family = "packed" =>
                    Validate(k, internal, stored) = ValidatePacked(p, internal)
               /\ p.family = "hex" =>
                    Validate(k, internal, stored) = ValidateHex(p, internal)
               /\ p.family = "ascii" =>
                    Validate(k, internal, stored) = ValidateAscii(p, internal)
               /\ p.family = "date" =>
                    Validate(k, internal, stored) = ValidateDate(p, internal)
               /\ p.family = "time" =>
                    Validate(k, internal, stored) = ValidateTime(p, internal)
               /\ p.family = "duration" =>
                    Validate(k, internal, stored) = ValidateDuration(p, internal)
               /\ p.family = "property_map" =>
                    Validate(k, internal, stored) = ValidateMap(p, internal)
               /\ p.family = "eoj_array" =>
                    Validate(k, internal, stored) = ValidateEOJs(p, internal)
               /\ p.family = "location" =>
                    Validate(k, internal, stored) = ValidateLocation(p, internal)
               /\ p.family = "profile_version" =>
                    Validate(k, internal, stored) = ValidateProfileVersion(p, internal)
               /\ p.family = "device_version" =>
                    Validate(k, internal, stored) = ValidateDeviceVersion(p, internal)
               /\ p.family = "fault_code" =>
                    Validate(k, internal, stored) = ValidateFaultCode(p, internal)
               /\ p.family = "fault" =>
                    Validate(k, internal, stored) = ValidateFault(p, internal, stored)
               /\ p.family = "remote_control" =>
                    Validate(k, internal, stored) = ValidateRemoteControl(p, internal)
  BY Zenon DEF Validate

-----------------------------------------------------------------------------
(* Verdicts.                                                               *)

\* A validator that does not resolve an enum looks only at the bytes.
LEMMA VerdictOnBytes ==
    ASSUME NEW k \in DOMAIN Property, Property[k].family # "fault",
           NEW internal, NEW stored, NEW other
    PROVE  Validate(k, internal, stored) = Validate(k, internal, other)
<1> DEFINE p == Property[k]
<1>1. p.family \in {"boolean", "integer", "packed", "hex", "ascii"} =>
          Validate(k, internal, stored) = Validate(k, internal, other)
  BY Validates
<1>2. p.family \in {"date", "time", "duration", "property_map", "eoj_array"} =>
          Validate(k, internal, stored) = Validate(k, internal, other)
  BY Validates
<1>3. p.family \in {"location", "profile_version", "device_version",
                    "fault_code", "remote_control"} =>
          Validate(k, internal, stored) = Validate(k, internal, other)
  BY Validates
<1> QED
  BY <1>1, <1>2, <1>3, Families

\* Nearly every validator answers Ok(true) or Err.
LEMMA VerdictDecided ==
    ASSUME NEW k \in DOMAIN Property, NEW internal, NEW stored,
           Property[k].family \notin {"fault", "eoj_array", "location"}
    PROVE  Validate(k, internal, stored) \in {Ok(TRUE), Err}
<1> DEFINE p == Property[k]
<1>1. ValidateBoolean(p, internal) \in {Ok(TRUE), Err}
  BY DEF ValidateBoolean
<1>2. ValidateInteger(p, internal) \in {Ok(TRUE), Err}
  BY DEF ValidateInteger
<1>3. ValidatePacked(p, internal) \in {Ok(TRUE), Err}
  BY DEF ValidatePacked
<1>4. ValidateHex(p, internal) \in {Ok(TRUE), Err}
  BY DEF ValidateHex, HasLength
<1>5. ValidateAscii(p, internal) \in {Ok(TRUE), Err}
  BY DEF ValidateAscii, HasLength
<1>6. ValidateDate(p, internal) \in {Ok(TRUE), Err}
  BY DEF ValidateDate, HasLength
<1>7. ValidateTime(p, internal) \in {Ok(TRUE), Err}
  BY DEF ValidateTime
<1>8. ValidateDuration(p, internal) \in {Ok(TRUE), Err}
  BY DEF ValidateDuration
<1>9. ValidateMap(p, internal) \in {Ok(TRUE), Err}
  BY DEF ValidateMap
<1>10. ValidateProfileVersion(p, internal) \in {Ok(TRUE), Err}
  BY DEF ValidateProfileVersion
<1>11. ValidateDeviceVersion(p, internal) \in {Ok(TRUE), Err}
  BY DEF ValidateDeviceVersion
<1>12. ValidateFaultCode(p, internal) \in {Ok(TRUE), Err}
  BY DEF ValidateFaultCode
<1>13. ValidateRemoteControl(p, internal) \in {Ok(TRUE), Err}
  BY DEF ValidateRemoteControl
<1> HIDE DEF p
<1>14. p.family \in {"boolean", "integer", "packed", "hex", "ascii"} =>
           Validate(k, internal, stored) \in {Ok(TRUE), Err}
  BY <1>1, <1>2, <1>3, <1>4, <1>5, Validates DEF p
<1>15. p.family \in {"date", "time", "duration", "property_map"} =>
           Validate(k, internal, stored) \in {Ok(TRUE), Err}
  BY <1>6, <1>7, <1>8, <1>9, Validates DEF p
<1>16. p.family \in {"profile_version", "device_version", "fault_code",
                     "remote_control"} =>
           Validate(k, internal, stored) \in {Ok(TRUE), Err}
  BY <1>10, <1>11, <1>12, <1>13, Validates DEF p
<1> QED
  BY <1>14, <1>15, <1>16, Families DEF p

\* The validators that answer Ok(false).
LEMMA VerdictUndecided ==
    ASSUME NEW k \in DOMAIN Property, NEW internal, NEW stored,
           Property[k].family \in {"eoj_array", "location"}
    PROVE  Validate(k, internal, stored).tag = "ok"
  BY Validates DEF ValidateEOJs, ValidateLocation, Ok

\* The description of a fault is accepted only when one can be read already.
LEMMA VerdictOnFault ==
    ASSUME NEW k \in DOMAIN Property, Property[k].family = "fault",
           NEW internal \in Seq(Byte), NEW stored
    PROVE  /\ Validate(k, internal, stored).tag \in {"err", stored.tag}
           /\ Validate(k, internal, stored).tag = "ok" => stored.tag = "ok"
           /\ Validate(k, internal, stored).tag = "ok" => Len(internal) = 4
<1>1. Validate(k, internal, stored) = ValidateFault(Property[k], internal, stored)
  BY Validates
<1>2. CASE HasLength(internal, 2) = Err
  BY <1>1, <1>2 DEF ValidateFault, Err
<1>3. CASE HasLength(internal, 2) # Err
  <2>1. Len(internal) = 2 + 2
    BY <1>3 DEF HasLength
  <2>2. CASE stored.tag = "ok"
    BY <1>1, <1>3, <2>1, <2>2 DEF ValidateFault, Ok
  <2>3. CASE stored.tag # "ok"
    BY <1>1, <1>3, <2>1, <2>3 DEF ValidateFault
  <2> QED
    BY <2>2, <2>3
<1> QED
  BY <1>2, <1>3

-----------------------------------------------------------------------------
(* Panics.                                                                 *)

\* A HexString has whole bytes, and fits into as many.
LEMMA HexFits ==
    ASSUME NEW chars \in HexStrings
    PROVE  /\ HD!ByteLen(chars) \in Nat
           /\ 2 * HD!ByteLen(chars) = Len(chars)
<1>1. chars \in Seq(HD!Digit) /\ Len(chars) % 2 = 0
  BY DEF HexStrings
<1>2. Len(chars) \in Nat
  BY <1>1
<1>3. \A n \in Nat : n % 2 = 0 => n \div 2 \in Nat /\ 2 * (n \div 2) = n
  OBVIOUS
<1> QED
  BY <1>1, <1>2, <1>3 DEF HD!ByteLen

\* A buffer with as many bytes as a HexString, or more, has room for it.
LEMMA HexDecodes ==
    ASSUME NEW chars \in HexStrings, NEW size \in Nat, size >= HD!ByteLen(chars)
    PROVE  BytesOfHex(chars, size) =
               Ok(BytesOf(HD!RightAlignedPairs(chars, size, 0)))
<1>1. 2 * size >= Len(chars)
  BY HexFits
<1>2. HD!DecodeInto(chars, size) = HD!Ok(HD!RightAlignedPairs(chars, size, 0))
  BY <1>1 DEF HD!DecodeInto
<1> QED
  BY <1>2 DEF BytesOfHex, HD!Ok, Ok

\* Bytes are always a HexString of the same length.
LEMMA HexEncodes ==
    ASSUME NEW bytes \in Seq(Byte)
    PROVE  HexOfBytes(bytes) =
               Ok(HD!DigitsOf(HD!LeftPadded(PairsOf(bytes), 0, Len(bytes))))
<1>1. Len(PairsOf(bytes)) = Len(bytes)
  BY DEF PairsOf
<1>2. Len(bytes) \in Nat
  OBVIOUS
<1>3. ~ (Len(bytes) < Len(PairsOf(bytes)))
  BY <1>1, <1>2
<1>4. ~ (Len(bytes) < Len(PairsOf(bytes)) - 0)
  BY <1>1, <1>2
<1> QED
  BY <1>3, <1>4 DEF HexOfBytes, HD!FromBytes, HD!Ok, Ok

\* A location that is not "location" has a byte, or the bytes of its number.
LEMMA LocationEncodes ==
    ASSUME NEW p, NEW canonical \in Locations, canonical.place # "location"
    PROVE  EncodeLocation(p, canonical).tag = "ok"
<1>1. \/ IsPlace(canonical.place)
      \/ canonical.place \in {"not_specified", "indefinite", "user_defined"}
  BY DEF Locations, IsPlace
<1> QED
  BY <1>1 DEF EncodeLocation, Ok

\* A manufacturer's code of three bytes leaves room for the fault code.
LEMMA FaultCodeEncodes ==
    ASSUME NEW p,
           NEW canonical \in [manufacturer_code : HexStrings,
                              fault_code : HexStrings],
           HD!ByteLen(canonical.manufacturer_code) >= 3
    PROVE  EncodeFaultCode(p, canonical).tag = "ok"
<1> DEFINE manufacturer == canonical.manufacturer_code
           fault == canonical.fault_code
           size == HD!ByteLen(manufacturer) + HD!ByteLen(fault)
<1>1. manufacturer \in HexStrings /\ fault \in HexStrings
  OBVIOUS
<1>2. HD!ByteLen(manufacturer) \in Nat /\ HD!ByteLen(fault) \in Nat
  BY <1>1, HexFits
<1>3. /\ size \in Nat /\ size >= HD!ByteLen(manufacturer)
      /\ size - 3 \in Nat /\ size - 3 >= HD!ByteLen(fault)
      /\ ~ (size < 3)
  BY <1>2
<1>4. BytesOfHex(manufacturer, size).tag = "ok"
  BY <1>1, <1>3, HexDecodes DEF Ok
<1>5. BytesOfHex(fault, size - 3).tag = "ok"
  BY <1>1, <1>3, HexDecodes DEF Ok
<1> QED
  BY <1>3, <1>4, <1>5 DEF EncodeFaultCode, Ok

\* The values whose conversion to the wire may panic.
LEMMA PerilousOf ==
    ASSUME NEW k \in DOMAIN Property, NEW canonical, ~ Perilous(k, canonical)
    PROVE  LET p == Property[k]
           IN  /\ p.family = "duration" => canonical.too_long
               /\ p.family = "location" => canonical.place # "location"
               /\ p.family = "fault_code" =>
                    ~ (HD!ByteLen(canonical.manufacturer_code) < 3)
  BY Zenon DEF Perilous

\* No conversion to the wire panics, but for the perilous values.
LEMMA EncodeReturns ==
    ASSUME NEW k \in DOMAIN Property, NEW canonical \in CanonicalsOf(k),
           ~ Perilous(k, canonical)
    PROVE  Encode(k, canonical).tag \in {"ok", "err"}
<1> DEFINE p == Property[k]
           Answers(encoded) == encoded.tag \in {"ok", "err"}
<1>1. Answers(EncodeBoolean(p, canonical))
  BY DEF EncodeBoolean, Ok
<1>2. Answers(EncodeInteger(p, canonical))
  BY DEF EncodeInteger, Ok
<1>3. ASSUME p.family = "packed" PROVE Answers(EncodePacked(p, canonical))
  <2>1. canonical \in Floats
    BY <1>3 DEF CanonicalsOf
  <2>2. canonical.class \in {"nan", "neg_inf", "inf", "finite"}
    BY <2>1 DEF Floats
  <2> QED
    BY <2>2 DEF EncodePacked, PackedAs, Ok, Err
<1>4. ASSUME p.family = "hex" PROVE Answers(EncodeHex(p, canonical))
  <2>1. canonical \in HexStrings
    BY <1>4 DEF CanonicalsOf
  <2>2. BytesOfHex(canonical, HD!ByteLen(canonical)).tag = "ok"
    BY <2>1, HexFits, HexDecodes DEF Ok
  <2> QED
    BY <2>2 DEF EncodeHex, Ok
<1>5. Answers(EncodeAscii(p, canonical))
  BY DEF EncodeAscii, Ok, Err
<1>6. Answers(EncodeDate(p, canonical))
  BY DEF EncodeDate, Ok
<1>7. Answers(EncodeTime(p, canonical))
  BY DEF EncodeTime, Ok
<1>8. Answers(EncodeMap(p, canonical))
  BY DEF EncodeMap, Ok
<1>9. Answers(EncodeEOJs(p, canonical))
  BY DEF EncodeEOJs, Ok
<1>10. Answers(EncodeProfileVersion(p, canonical))
  BY DEF EncodeProfileVersion, Ok, Err
<1>11. Answers(EncodeDeviceVersion(p, canonical))
  BY DEF EncodeDeviceVersion, Ok
<1>12. Answers(EncodeFault(p, canonical))
  BY DEF EncodeFault, Ok
<1>13. Answers(EncodeRemoteControl(p, canonical))
  BY DEF EncodeRemoteControl, Ok
<1>14. p.family = "duration" => Answers(EncodeDuration(p, canonical))
  BY PerilousOf DEF EncodeDuration, Err
<1>15. ASSUME p.family = "location" PROVE Answers(EncodeLocation(p, canonical))
  <2>1. canonical \in Locations
    BY <1>15 DEF CanonicalsOf
  <2> QED
    BY <1>15, <2>1, PerilousOf, LocationEncodes
<1>16. ASSUME p.family = "fault_code"
       PROVE  Answers(EncodeFaultCode(p, canonical))
  <2>1. canonical \in [manufacturer_code : HexStrings, fault_code : HexStrings]
    BY <1>16 DEF CanonicalsOf
  <2>2. canonical.manufacturer_code \in HexStrings
    BY <2>1
  <2>3. HD!ByteLen(canonical.manufacturer_code) \in Nat
    BY <2>2, HexFits
  <2>4. HD!ByteLen(canonical.manufacturer_code) >= 3
    BY <1>16, <2>3, PerilousOf
  <2> QED
    BY <2>1, <2>4, FaultCodeEncodes
<1> HIDE DEF p, Answers
<1>17. p.family \in {"duration", "location", "fault_code"} =>
           Answers(Encode(k, canonical))
  BY <1>14, <1>15, <1>16, Encodes DEF p
<1>18. p.family \in {"boolean", "integer", "packed", "hex", "ascii"} =>
           Answers(Encode(k, canonical))
  BY <1>1, <1>2, <1>3, <1>4, <1>5, Encodes DEF p
<1>19. p.family \in {"date", "time", "property_map", "eoj_array"} =>
           Answers(Encode(k, canonical))
  BY <1>6, <1>7, <1>8, <1>9, Encodes DEF p
<1>20. p.family \in {"profile_version", "device_version", "fault",
                     "remote_control"} =>
           Answers(Encode(k, canonical))
  BY <1>10, <1>11, <1>12, <1>13, Encodes DEF p
<1> QED
  BY <1>17, <1>18, <1>19, <1>20, Families DEF p, Answers

\* What a fault is made of is Ok or Err.
LEMMA FaultReturns ==
    ASSUME NEW value \in Word
    PROVE  TryFromU16(value).tag \in {"ok", "err"}
<1>1. FromWord(value).tag \in {"ok", "err"}
  BY DEF FromWord, Ok, Err
<1>2. \A low, high : FromLowByte(low, high).tag \in {"ok", "err"}
  BY DEF FromLowByte, Ok, Err
<1> QED
  BY <1>1, <1>2 DEF TryFromU16

\* What a byte is, without its bounds as a range.
LEMMA ByteBounds == \A byte \in Byte : byte \in Nat /\ byte <= 255
  BY DEF Byte

LEMMA ByteAt ==
    ASSUME NEW bytes \in Seq(Byte), NEW i \in DOMAIN bytes
    PROVE  bytes[i] \in Nat /\ bytes[i] <= 255
<1>1. bytes[i] \in Byte
  OBVIOUS
<1> QED
  BY <1>1, ByteBounds

\* The number in two bytes.
LEMMA NumberOfTwo ==
    ASSUME NEW bytes, Len(bytes) = 2, bytes[1] \in Nat, bytes[2] \in Nat
    PROVE  Number(bytes) = 256 * bytes[1] + bytes[2]
  BY DEF Number

\* The data of a buffer of four bytes is a 16-bit number.
LEMMA WordOfData ==
    ASSUME NEW internal \in Seq(Byte), Len(internal) = 4
    PROVE  /\ Number(DataOf(internal)) = 256 * internal[3] + internal[4]
           /\ Number(DataOf(internal)) \in Word
<1>1. /\ Len(DataOf(internal)) = 2
      /\ DataOf(internal)[1] = internal[3]
      /\ DataOf(internal)[2] = internal[4]
  BY DEF DataOf
<1>2. 3 \in DOMAIN internal /\ 4 \in DOMAIN internal
  OBVIOUS
<1>3. /\ internal[3] \in Nat /\ internal[3] <= 255
      /\ internal[4] \in Nat /\ internal[4] <= 255
  BY <1>2, ByteAt
<1>4. Number(DataOf(internal)) = 256 * internal[3] + internal[4]
  BY <1>1, <1>3, NumberOfTwo
<1>5. 256 * internal[3] + internal[4] \in Word
  BY <1>3 DEF Word
<1> QED
  BY <1>4, <1>5

\* A location is read from a byte that is one of the two that are no place, or
\* has a place above its number.
LEMMA LocationReads ==
    ASSUME NEW p, NEW internal \in Seq(Byte), Len(internal) >= 3,
           internal[3] \notin (1..7) \union (128..135)
    PROVE  DecodeLocation(p, internal).tag = "ok"
<1> DEFINE code == internal[3]
           index == (code \div 8) % 16
<1>1. 3 \in DOMAIN internal
  OBVIOUS
<1>2. code \in Nat /\ code <= 255
  BY <1>1, ByteAt
<1>3. code = 0 \/ (8 <= code /\ code <= 127) \/ 136 <= code
  BY <1>2
<1> HIDE DEF code
<1>4. 8 <= code /\ code <= 127 => index # 0
  BY <1>2
<1>5. 136 <= code => index # 0
  BY <1>2
<1>6. code = 0 \/ index # 0
  BY <1>3, <1>4, <1>5
<1>7. Len(internal) >= 3
  OBVIOUS
<1> QED
  BY <1>6, <1>7 DEF DecodeLocation, Ok, code

\* Bytes on which the validator answers Ok can be read, but for a location that
\* has no place.
LEMMA AcceptedReadable ==
    ASSUME NEW k \in DOMAIN Property,
           NEW internal \in Seq(Byte), NEW stored,
           Validate(k, internal, stored).tag = "ok",
           ~ Unreadable(k, internal)
    PROVE  Decode(k, internal).tag \in {"ok", "err"}
<1> DEFINE p == Property[k]
           Answers(decoded) == decoded.tag \in {"ok", "err"}
           Reads(verdict, decoded) == verdict.tag = "ok" => Answers(decoded)
<1>1. Reads(ValidateBoolean(p, internal), DecodeBoolean(p, internal))
  <2>1. ValidateBoolean(p, internal).tag = "ok" => Len(internal) = 3
    BY DEF ValidateBoolean, Err
  <2>2. Len(internal) = 3 => Answers(DecodeBoolean(p, internal))
    BY DEF DecodeBoolean, Ok, Err
  <2> QED
    BY <2>1, <2>2
<1>2. Reads(ValidateInteger(p, internal), DecodeInteger(p, internal))
  <2>1. ValidateInteger(p, internal).tag = "ok" => Len(internal) = p.size + 2
    BY DEF ValidateInteger, Err
  <2>2. Len(internal) = p.size + 2 => Answers(DecodeInteger(p, internal))
    BY DEF DecodeInteger, Ok
  <2> QED
    BY <2>1, <2>2
<1>3. Reads(ValidatePacked(p, internal), DecodePacked(p, internal))
  <2>1. ValidatePacked(p, internal).tag = "ok" => Len(DataOf(internal)) = p.size
    BY DEF ValidatePacked, Err
  <2>2. Len(DataOf(internal)) = p.size => Answers(DecodePacked(p, internal))
    BY DEF DecodePacked, Ok
  <2> QED
    BY <2>1, <2>2
<1>4. Answers(DecodeHex(p, internal))
  <2>1. DataOf(internal) \in Seq(Byte)
    BY DEF DataOf
  <2>2. HexOfBytes(DataOf(internal)).tag = "ok"
    BY <2>1, HexEncodes DEF Ok
  <2> QED
    BY <2>2 DEF DecodeHex
<1>5. Answers(DecodeAscii(p, internal))
  BY DEF DecodeAscii, Ok
<1>6. Reads(ValidateDate(p, internal), DecodeDate(p, internal))
  <2>1. ValidateDate(p, internal).tag = "ok" => Len(internal) = 4 + 2
    BY DEF ValidateDate, HasLength, Err
  <2>2. Len(internal) = 4 + 2 => Answers(DecodeDate(p, internal))
    BY DEF DecodeDate, Ok, Err
  <2> QED
    BY <2>1, <2>2
<1>7. Reads(ValidateTime(p, internal), DecodeTime(p, internal))
  <2>1. ValidateTime(p, internal).tag = "ok" => Len(internal) = 4
    BY DEF ValidateTime, Err
  <2>2. Len(internal) = 4 => Answers(DecodeTime(p, internal))
    BY DEF DecodeTime, Ok, Err
  <2> QED
    BY <2>1, <2>2
<1>8. Answers(DecodeMap(p, internal))
  BY DEF DecodeMap, Ok, Err
<1>9. Answers(DecodeEOJs(p, internal))
  BY DEF DecodeEOJs, Ok
<1>10. Reads(ValidateProfileVersion(p, internal),
             DecodeProfileVersion(p, internal))
  <2>1. ValidateProfileVersion(p, internal).tag = "ok" => Len(internal) = 6
    BY DEF ValidateProfileVersion, Err
  <2>2. Len(internal) = 6 => Answers(DecodeProfileVersion(p, internal))
    BY DEF DecodeProfileVersion, Ok
  <2> QED
    BY <2>1, <2>2
<1>11. Reads(ValidateDeviceVersion(p, internal),
             DecodeDeviceVersion(p, internal))
  <2>1. ValidateDeviceVersion(p, internal).tag = "ok" => Len(internal) = 6
    BY DEF ValidateDeviceVersion, Err
  <2>2. Len(internal) = 6 => Answers(DecodeDeviceVersion(p, internal))
    BY DEF DecodeDeviceVersion, Ok
  <2> QED
    BY <2>1, <2>2
<1>12. Len(internal) = 4 => Answers(DecodeFault(p, internal))
  <2> SUFFICES ASSUME Len(internal) = 4 PROVE Answers(DecodeFault(p, internal))
    OBVIOUS
  <2>1. DecodeFault(p, internal) = TryFromU16(Number(DataOf(internal)))
    BY DEF DecodeFault
  <2>2. Number(DataOf(internal)) \in Word
    BY WordOfData
  <2> QED
    BY <2>1, <2>2, FaultReturns
<1>13. Reads(ValidateRemoteControl(p, internal),
             DecodeRemoteControl(p, internal))
  <2>1. ValidateRemoteControl(p, internal).tag = "ok" => Len(internal) = 1 + 2
    BY DEF ValidateRemoteControl, HasLength, Err, Ok
  <2>2. Len(internal) = 1 + 2 => Answers(DecodeRemoteControl(p, internal))
    BY DEF DecodeRemoteControl, Ok
  <2> QED
    BY <2>1, <2>2
<1>14. ASSUME p.family = "location" PROVE Answers(DecodeLocation(p, internal))
  <2>1. /\ ~ (Len(internal) < 3)
        /\ internal[3] \notin (1..7) \union (128..135)
    BY <1>14 DEF Unreadable
  <2>2. Len(internal) >= 3
    BY <2>1
  <2> QED
    BY <2>1, <2>2, LocationReads
<1>15. p.family = "fault" => Answers(Decode(k, internal))
  <2> SUFFICES ASSUME p.family = "fault" PROVE Answers(Decode(k, internal))
    OBVIOUS
  <2>1. Decode(k, internal) = DecodeFault(p, internal)
    BY Decodes
  <2>2. Len(internal) = 4
    BY VerdictOnFault
  <2> QED
    BY <2>1, <2>2, <1>12
<1>16. Reads(ValidateDuration(p, internal), DecodeDuration(p, internal))
  <2>1. ValidateDuration(p, internal).tag = "ok" =>
            Len(internal) = 7 /\ internal[3] \in DOMAIN SecondsIn
    BY DEF ValidateDuration, Err
  <2> QED
    BY <2>1 DEF DecodeDuration, Ok
<1>17. Reads(ValidateFaultCode(p, internal), DecodeFaultCode(p, internal))
  <2>1. Len(internal) \in Nat
    OBVIOUS
  <2>2. ValidateFaultCode(p, internal).tag = "ok" => Len(internal) >= 5
    BY <2>1 DEF ValidateFaultCode, Err
  <2>3. Len(internal) >= 5 => ~ (Len(internal) < 5)
    BY <2>1
  <2> QED
    BY <2>2, <2>3 DEF DecodeFaultCode, Ok
<1> HIDE DEF p, Answers
<1>18. p.family \in {"boolean", "integer", "packed", "hex", "ascii"} =>
           Answers(Decode(k, internal))
  BY <1>1, <1>2, <1>3, <1>4, <1>5, Validates, Decodes DEF p
<1>19. p.family \in {"date", "time", "property_map", "eoj_array"} =>
           Answers(Decode(k, internal))
  BY <1>6, <1>7, <1>8, <1>9, Validates, Decodes DEF p
<1>20. p.family \in {"profile_version", "device_version", "remote_control"} =>
           Answers(Decode(k, internal))
  BY <1>10, <1>11, <1>13, Validates, Decodes DEF p
<1>21. p.family \in {"location", "duration", "fault_code"} =>
           Answers(Decode(k, internal))
  BY <1>14, <1>16, <1>17, Validates, Decodes DEF p
<1> QED
  BY <1>15, <1>18, <1>19, <1>20, <1>21, Families DEF p, Answers

-----------------------------------------------------------------------------
(* Every closure returns Ok or Err or panics.                              *)

\* The number of a HexString's characters does not matter for that.
LEMMA HexTagged ==
    ASSUME NEW chars, NEW size
    PROVE  BytesOfHex(chars, size).tag \in Tags
<1>1. HD!DecodeFrom(chars, size, HD!PadEnd(chars, size)).tag \in Tags
  BY DEF HD!DecodeFrom, HD!Panic, HD!Err, HD!Ok, Tags
<1>2. HD!DecodeInto(chars, size).tag \in Tags
  BY <1>1 DEF HD!DecodeInto, HD!Ok, Tags
<1> QED
  BY <1>2 DEF BytesOfHex, Ok, Tags

LEMMA EncodeTagged ==
    ASSUME NEW k \in DOMAIN Property, NEW canonical \in CanonicalsOf(k)
    PROVE  Encode(k, canonical).tag \in Tags
<1> DEFINE p == Property[k]
<1>1. CASE ~ Perilous(k, canonical)
  BY <1>1, EncodeReturns DEF Tags
<1>2. EncodeDuration(p, canonical).tag \in Tags
  BY DEF EncodeDuration, Err, Panic, Tags
<1>3. ASSUME p.family = "location"
      PROVE  EncodeLocation(p, canonical).tag \in Tags
  <2>1. canonical \in Locations
    BY <1>3 DEF CanonicalsOf
  <2>2. \/ IsPlace(canonical.place)
        \/ canonical.place \in {"not_specified", "indefinite", "location",
                                "user_defined"}
    BY <2>1 DEF Locations, IsPlace
  <2> QED
    BY <2>2 DEF EncodeLocation, Ok, Panic, Tags
<1>4. EncodeFaultCode(p, canonical).tag \in Tags
  BY HexTagged DEF EncodeFaultCode, Ok, Panic, Tags
<1>5. CASE Perilous(k, canonical)
  <2>1. p.family \in {"location", "duration", "fault_code"}
    BY Zenon, <1>5 DEF Perilous
  <2> HIDE DEF p
  <2> QED
    BY <1>2, <1>3, <1>4, <2>1, Encodes DEF p
<1> QED
  BY <1>1, <1>5

\* A validator panics only when it reads a stored value and that panics.
LEMMA ValidateCalm ==
    ASSUME NEW k \in DOMAIN Property, NEW internal \in Seq(Byte), NEW stored,
           Validate(k, internal, stored).tag = "panic"
    PROVE  Property[k].family = "fault" /\ stored.tag = "panic"
<1>1. CASE Property[k].family \notin {"fault", "eoj_array", "location"}
  <2>1. Validate(k, internal, stored) \in {Ok(TRUE), Err}
    BY <1>1, VerdictDecided
  <2> QED
    BY <2>1 DEF Ok, Err
<1>2. CASE Property[k].family \in {"eoj_array", "location"}
  BY <1>2, VerdictUndecided
<1>3. CASE Property[k].family = "fault"
  BY <1>3, VerdictOnFault
<1> QED
  BY <1>1, <1>2, <1>3

LEMMA ValidateTagged ==
    ASSUME NEW k \in DOMAIN Property, NEW internal, NEW stored,
           stored.tag \in Tags
    PROVE  Validate(k, internal, stored).tag \in Tags
<1>1. CASE Property[k].family \notin {"fault", "eoj_array", "location"}
  <2>1. Validate(k, internal, stored) \in {Ok(TRUE), Err}
    BY <1>1, VerdictDecided
  <2> QED
    BY <2>1 DEF Ok, Err, Tags
<1>2. CASE Property[k].family \in {"eoj_array", "location"}
  BY <1>2, VerdictUndecided DEF Tags
<1>3. CASE Property[k].family = "fault"
  <2>1. Validate(k, internal, stored) = ValidateFault(Property[k], internal, stored)
    BY <1>3, Validates
  <2>2. ValidateFault(Property[k], internal, stored).tag \in Tags
    BY DEF ValidateFault, Ok, Err, Tags
  <2> QED
    BY <2>1, <2>2
<1> QED
  BY <1>1, <1>2, <1>3

LEMMA DecodeTagged ==
    ASSUME NEW k \in DOMAIN Property, NEW internal \in Seq(Byte)
    PROVE  Decode(k, internal).tag \in Tags
<1> DEFINE p == Property[k]
           Answers(decoded) == decoded.tag \in Tags
<1>1. Answers(DecodeBoolean(p, internal))
  BY DEF DecodeBoolean, Ok, Err, Panic, Tags
<1>2. Answers(DecodeInteger(p, internal))
  BY DEF DecodeInteger, Ok, Panic, Tags
<1>3. Answers(DecodePacked(p, internal))
  BY DEF DecodePacked, Ok, Panic, Tags
<1>4. Answers(DecodeHex(p, internal))
  BY DEF DecodeHex, Panic, Tags
<1>5. Answers(DecodeAscii(p, internal))
  BY DEF DecodeAscii, Ok, Tags
<1>6. Answers(DecodeDate(p, internal))
  BY DEF DecodeDate, Ok, Err, Panic, Tags
<1>7. Answers(DecodeTime(p, internal))
  BY DEF DecodeTime, Ok, Err, Panic, Tags
<1>8. Answers(DecodeDuration(p, internal))
  BY DEF DecodeDuration, Ok, Panic, Tags
<1>9. Answers(DecodeMap(p, internal))
  BY DEF DecodeMap, Ok, Err, Tags
<1>10. Answers(DecodeEOJs(p, internal))
  BY DEF DecodeEOJs, Ok, Tags
<1>11. Answers(DecodeLocation(p, internal))
  BY DEF DecodeLocation, Ok, Panic, Tags
<1>12. Answers(DecodeProfileVersion(p, internal))
  BY DEF DecodeProfileVersion, Ok, Panic, Tags
<1>13. Answers(DecodeDeviceVersion(p, internal))
  BY DEF DecodeDeviceVersion, Ok, Panic, Tags
<1>14. Answers(DecodeFaultCode(p, internal))
  BY DEF DecodeFaultCode, Ok, Panic, Tags
<1>15. Answers(DecodeFault(p, internal))
  <2>1. CASE Len(internal) = 4
    <3>1. Number(DataOf(internal)) \in Word
      BY <2>1, WordOfData
    <3>2. DecodeFault(p, internal) = TryFromU16(Number(DataOf(internal)))
      BY <2>1 DEF DecodeFault
    <3> QED
      BY <3>1, <3>2, FaultReturns DEF Tags
  <2>2. CASE Len(internal) # 4
    BY <2>2 DEF DecodeFault, Panic, Tags
  <2> QED
    BY <2>1, <2>2
<1>16. Answers(DecodeRemoteControl(p, internal))
  BY DEF DecodeRemoteControl, Ok, Panic, Tags
<1> HIDE DEF p, Answers
<1>17. p.family \in {"boolean", "integer", "packed", "hex", "ascii"} =>
           Answers(Decode(k, internal))
  BY <1>1, <1>2, <1>3, <1>4, <1>5, Decodes DEF p
<1>18. p.family \in {"date", "time", "duration", "property_map"} =>
           Answers(Decode(k, internal))
  BY <1>6, <1>7, <1>8, <1>9, Decodes DEF p
<1>19. p.family \in {"eoj_array", "location", "profile_version",
                     "device_version"} =>
           Answers(Decode(k, internal))
  BY <1>10, <1>11, <1>12, <1>13, Decodes DEF p
<1>20. p.family \in {"fault_code", "fault", "remote_control"} =>
           Answers(Decode(k, internal))
  BY <1>14, <1>15, <1>16, Decodes DEF p
<1> QED
  BY <1>17, <1>18, <1>19, <1>20, Families DEF p, Answers

=============================================================================
