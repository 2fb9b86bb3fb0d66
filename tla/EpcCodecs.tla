------------------------------ MODULE EpcCodecs ------------------------------
(***************************************************************************)
(* The conversions of the properties (src/middleware/epc_types.rs): for    *)
(* each family of property the closure that encodes a canonical value, the *)
(* one that decodes stored bytes and the one that validates them, and the  *)
(* factory's table of the properties made from the families.               *)
(*                                                                         *)
(* Bytes are numbered from 1 here and from 0 in the code: internal[1] is   *)
(* the EPC, internal[2] the PDC and internal[3] the first byte of data.    *)
(* Rust's slices panic where a sequence would be read outside its domain.  *)
(***************************************************************************)
EXTENDS Integers, Sequences, EpcResults

-----------------------------------------------------------------------------
(* Bytes.                                                                  *)

Header == <<0, 0>>

DataOf(internal) == SubSeq(internal, 3, Len(internal))

Bit(byte, i) == (byte \div 2^i) % 2 = 1

\* to_be_bytes and from_be_bytes.
BigEndian(n, size) == [i \in 1..size |-> (n \div 256^(size - i)) % 256]

\* No property has numbers of more than four bytes.
Number(bytes) ==
    LET FromEnd(i) == IF i <= Len(bytes) THEN bytes[Len(bytes) - i + 1] ELSE 0
    IN  FromEnd(1) + 256 * FromEnd(2) + 256^2 * FromEnd(3)
            + 256^3 * FromEnd(4)

\* <= on numbers given as big-endian bytes of the same length.
AtMost(bytes, limit) ==
    \/ bytes = limit
    \/ \E i \in DOMAIN bytes :
          /\ bytes[i] < limit[i]
          /\ \A j \in 1..(i - 1) : bytes[j] = limit[j]

Constantly(byte, size) == [i \in 1..size |-> byte]

\* ff .. ff and ff .. fe stand for a value too large and a value too small.
Overflow(size)  == Constantly(255, size)
Underflow(size) == [Overflow(size) EXCEPT ![size] = 254]

\* validate_length: the length is that of the data.
HasLength(internal, size) ==
    IF Len(internal) = size + 2 THEN Ok(TRUE) ELSE Err

-----------------------------------------------------------------------------
(* boolean_property.                                                       *)

EncodeBoolean(p, canonical) ==
    Ok(Header \o <<IF canonical THEN p.on ELSE p.off>>)

DecodeBoolean(p, internal) ==
    IF Len(internal) < 3 THEN Panic
    ELSE IF internal[3] \in {p.on, p.off} THEN Ok(internal[3] = p.on)
    ELSE Err

\* The byte compared is internal[0] of the code, which holds the EPC.
ValidateBoolean(p, internal) ==
    IF Len(internal) = 3 /\ internal[1] \in {p.on, p.off} THEN Ok(TRUE) ELSE Err

-----------------------------------------------------------------------------
(* integer_property, for u16, NodeObjectUniqueIdentifier (no sentinels) and *)
(* NodeObjectInstanceCount (three bytes of a u32, saturating).             *)

EncodeInteger(p, canonical) ==
    Ok(Header \o (IF p.saturates /\ canonical >= 256^p.size - 1
                  THEN Overflow(p.size)
                  ELSE BigEndian(canonical, p.size)))

\* try_into().unwrap() panics when the length is not the type's.
DecodeInteger(p, internal) ==
    IF Len(internal) # p.size + 2 THEN Panic ELSE Ok(Number(DataOf(internal)))

\* Mutant: the length is not compared.
ValidateAnyLength(p, internal) ==
    IF p.sentinels /\ DataOf(internal) \in {Underflow(p.size), Overflow(p.size)}
    THEN Err
    ELSE Ok(TRUE)

ValidateInteger(p, internal) ==
    IF \/ Len(internal) # p.size + 2
       \/ /\ p.sentinels
          /\ DataOf(internal) \in {Underflow(p.size), Overflow(p.size)}
    THEN Err
    ELSE Ok(TRUE)

-----------------------------------------------------------------------------
(* unsigned_integer_packed_float_property.  A float is a class and, when it *)
(* is finite, a number of half steps of the property's precision; the       *)
(* inexactness of the division is left out.                                 *)

Finite(halves) == [class |-> "finite", halves |-> halves]
Float(class)   == [class |-> class, halves |-> 0]

\* f64::round: half away from zero.
Rounded(halves) ==
    IF halves >= 0 THEN (halves + 1) \div 2 ELSE - ((1 - halves) \div 2)

\* The bytes for so many steps.
StepBytes(p, steps) ==
    IF steps < 0 THEN Underflow(p.size)
    ELSE IF steps > p.max THEN Overflow(p.size)
    ELSE BigEndian(steps, p.size)

\* The bytes for a float that is so many steps when it is finite.
PackedAs(p, canonical, steps) ==
    CASE canonical.class = "nan"     -> Err
      [] canonical.class = "neg_inf" -> Ok(Header \o Underflow(p.size))
      [] canonical.class = "inf"     -> Ok(Header \o Overflow(p.size))
      [] canonical.class = "finite"  -> Ok(Header \o StepBytes(p, steps))

\* Mutant: the fraction is cut off instead of rounded.
EncodePackedTruncated(p, canonical) ==
    PackedAs(p, canonical, canonical.halves \div 2)

EncodePacked(p, canonical) == PackedAs(p, canonical, Rounded(canonical.halves))

\* A single byte is the first of the data; more are all of it, or try_into
\* panics.
DecodePacked(p, internal) ==
    LET data == DataOf(internal)
        missing == IF p.size = 1 THEN Len(data) = 0 ELSE Len(data) # p.size
    IN  CASE data = Underflow(p.size) -> Ok(Float("neg_inf"))
          [] data = Overflow(p.size)  -> Ok(Float("inf"))
          [] missing                  -> Panic
          [] OTHER -> Ok(Finite(2 * Number(SubSeq(data, 1, p.size))))

\* Mutant: the largest value is refused.
ValidatePackedBelow(p, internal) ==
    LET data == DataOf(internal)
    IN  IF /\ Len(data) = p.size
           /\ \/ AtMost(data, BigEndian(p.max - 1, p.size))
              \/ data \in {Underflow(p.size), Overflow(p.size)}
        THEN Ok(TRUE)
        ELSE Err

ValidatePacked(p, internal) ==
    LET data == DataOf(internal)
    IN  IF /\ Len(data) = p.size
           /\ \/ AtMost(data, BigEndian(p.max, p.size))
              \/ data \in {Underflow(p.size), Overflow(p.size)}
        THEN Ok(TRUE)
        ELSE Err

-----------------------------------------------------------------------------
(* hex_string_property and ascii_string_property.  A HexString is the       *)
(* digits of module HexDigits, a String its UTF-8 bytes.                    *)

HD == INSTANCE HexDigits WITH Base <- 16, Letters <- 10..15

PairsOf(bytes) == [i \in DOMAIN bytes |-> <<bytes[i] \div 16, bytes[i] % 16>>]

BytesOf(pairs) == [i \in DOMAIN pairs |-> 16 * pairs[i][1] + pairs[i][2]]

\* decode_into_slice, for a buffer of the given size.
BytesOfHex(chars, size) ==
    LET pairs == HD!DecodeInto(chars, size)
    IN  IF pairs.tag = "ok" THEN Ok(BytesOf(pairs.value)) ELSE pairs

\* from_bytes, for the length of the slice.
HexOfBytes(bytes) == HD!FromBytes(PairsOf(bytes), Len(bytes))

EncodeHex(p, canonical) ==
    LET data == BytesOfHex(canonical, HD!ByteLen(canonical))
    IN  IF data.tag = "ok" THEN Ok(Header \o data.value) ELSE data

\* into(), which unwraps.
DecodeHex(p, internal) ==
    LET canonical == HexOfBytes(DataOf(internal))
    IN  IF canonical.tag = "ok" THEN canonical ELSE Panic

\* Of the identification number the validator looks at internal[0] of the
\* code, which holds the EPC, and counts the header in the length.
ValidateHex(p, internal) ==
    IF p.media = {} THEN HasLength(internal, p.size)
    ELSE IF Len(internal) = p.size /\ internal[1] \in p.media THEN Ok(TRUE)
    ELSE Err

IsAscii(bytes) == \A i \in DOMAIN bytes : bytes[i] < 128

EncodeAscii(p, canonical) ==
    IF IsAscii(canonical) THEN Ok(Header \o canonical) ELSE Err

DecodeAscii(p, internal) == Ok(DataOf(internal))

ValidateAscii(p, internal) ==
    IF IsAscii(DataOf(internal)) THEN HasLength(internal, p.size) ELSE Err

-----------------------------------------------------------------------------
(* date_property, time_property and duration_property.                     *)

Leap(year) == year % 4 = 0 /\ (year % 100 # 0 \/ year % 400 = 0)

DaysIn(year, month) ==
    CASE month = 2 -> IF Leap(year) THEN 29 ELSE 28
      [] month \in {4, 6, 9, 11} -> 30
      [] OTHER -> 31

\* The year is cut to 16 bits, and read back without a sign.
EncodeDate(p, canonical) ==
    Ok(Header \o BigEndian(canonical.year % 2^16, 2)
              \o <<canonical.month, canonical.day>>)

\* chrono's from_ymd_opt decides whether there is such a day.
DecodeDate(p, internal) ==
    LET year == Number(SubSeq(internal, 3, 4))
        month == internal[5]
        day == internal[6]
    IN  IF Len(internal) < 6 THEN Panic
        ELSE IF month \in 1..12 /\ day \in 1..DaysIn(year, month)
        THEN Ok([year |-> year, month |-> month, day |-> day])
        ELSE Err

ValidateDate(p, internal) == HasLength(internal, 4)

EncodeTime(p, canonical) == Ok(Header \o <<canonical.hour, canonical.minute>>)

DecodeTime(p, internal) ==
    IF Len(internal) < 4 THEN Panic
    ELSE IF internal[3] < 24 /\ internal[4] < 60
    THEN Ok([hour |-> internal[3], minute |-> internal[4], second |-> 0])
    ELSE Err

ValidateTime(p, internal) ==
    IF Len(internal) = 4 /\ internal[3] < 24 /\ internal[4] < 60
    THEN Ok(TRUE)
    ELSE Err

SecondsIn == [unit \in 65..68 |->
    CASE unit = 65 -> 1 [] unit = 66 -> 60 [] unit = 67 -> 3600
      [] unit = 68 -> 86400]

\* Whatever the unit, the amount is copied to internal[3..8] of a buffer of 7
\* bytes; only a duration too long for every unit is turned away before that.
EncodeDuration(p, canonical) == IF canonical.too_long THEN Err ELSE Panic

DecodeDuration(p, internal) ==
    IF Len(internal) # 7 \/ internal[3] \notin DOMAIN SecondsIn
    THEN Panic
    ELSE Ok([seconds |-> Number(SubSeq(internal, 4, 7)) * SecondsIn[internal[3]],
             too_long |-> FALSE])

ValidateDuration(p, internal) ==
    IF Len(internal) = 7 /\ internal[3] \in DOMAIN SecondsIn
    THEN Ok(TRUE)
    ELSE Err

-----------------------------------------------------------------------------
(* property_map_property.  The map is the one of module PropertyMap, at its *)
(* full size.                                                               *)

PM == INSTANCE PropertyMap WITH
        Rows <- 8, Cols <- 16, ListLimit <- 16, Maps <- {}, Wires <- {},
        operations <- <<>>, operations_count <- <<>>, outcome <- "none"

\* decode makes no room for the header.
EncodeMap(p, canonical) == Ok(PM!Decode(canonical.cells, canonical.count))

DecodeMap(p, internal) ==
    LET data == DataOf(internal)
    IN  IF PM!Accepts(data)
        THEN Ok([cells |-> PM!CellsOfWire(data),
                 count |-> PM!CountOfWire(data)])
        ELSE Err

\* Mutant: one byte of header is counted.
ValidateMapOneByte(p, internal) ==
    IF /\ Len(internal) > 2
       /\ \/ internal[2] < 16 /\ internal[2] + 1 = Len(internal)
          \/ Len(internal) = 17
    THEN Ok(TRUE)
    ELSE Err

ValidateMap(p, internal) ==
    IF /\ Len(internal) > 2
       /\ \/ internal[2] < 16 /\ internal[2] + 2 = Len(internal)
          \/ Len(internal) = 17
    THEN Ok(TRUE)
    ELSE Err

-----------------------------------------------------------------------------
(* eoj_array_property.  An EOJ is its three bytes.                         *)

EncodeEOJs(p, canonical) ==
    Ok(Header \o [i \in 1..(3 * Len(canonical)) |->
                      canonical[(i + 2) \div 3][((i - 1) % 3) + 1]])

\* The i-th EOJ is read from the i-th byte of the data on.
DecodeEOJs(p, internal) ==
    Ok([i \in 1..((Len(internal) - 2) \div 3) |->
           SubSeq(internal, i + 2, i + 4)])

ValidateEOJs(p, internal) ==
    Ok((Len(internal) - 2) % 3 = 0 /\ internal[2] % 3 = 0)

=============================================================================
