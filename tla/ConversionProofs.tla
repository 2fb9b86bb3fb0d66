--------------------------- MODULE ConversionProofs ---------------------------
(***************************************************************************)
(* Lemmas about the values that the conversions of the properties compute: *)
(* that decoding is the inverse of encoding but for the values that        *)
(* FactoryProperty lists, that what is encoded passes the validator but    *)
(* for the values it lists, and that the property maps of other nodes are  *)
(* understood.                                                             *)
(***************************************************************************)
EXTENDS NodePropertyProofs, EpcProofs, SequenceTheorems, FiniteSetTheorems

-----------------------------------------------------------------------------
(* Buffers.                                                                *)

\* The header is put before the data, which stays as it is.
LEMMA SentData ==
    ASSUME NEW k \in DOMAIN Property, NEW data \in Seq(Byte)
    PROVE  /\ Sent(k, Header \o data) \in Seq(Byte)
           /\ Len(Sent(k, Header \o data)) = Len(data) + 2
           /\ Sent(k, Header \o data)[1] = EpcOf(k)
           /\ Sent(k, Header \o data)[2] = PDC(Len(data))
           /\ \A i \in DOMAIN data : Sent(k, Header \o data)[i + 2] = data[i]
           /\ DataOf(Sent(k, Header \o data)) = data
<1> DEFINE buffer == Header \o data
           internal == Sent(k, buffer)
<1>1. Header \in Seq(Byte) /\ Len(Header) = 2
  BY DEF Header, Byte
<1>2. /\ buffer \in Seq(Byte)
      /\ Len(buffer) = 2 + Len(data)
      /\ \A i \in DOMAIN data : buffer[i + 2] = data[i]
  <2>1. /\ buffer \in Seq(Byte)
        /\ Len(buffer) = Len(Header) + Len(data)
        /\ \A i \in 1..(Len(Header) + Len(data)) :
              buffer[i] = IF i <= Len(Header) THEN Header[i]
                          ELSE data[i - Len(Header)]
    BY <1>1, ConcatProperties
  <2>2. ASSUME NEW i \in DOMAIN data PROVE buffer[i + 2] = data[i]
    <3>1. i \in Nat \ {0} /\ i <= Len(data) /\ Len(data) \in Nat
      OBVIOUS
    <3> QED
      BY <1>1, <2>1, <3>1
  <2> QED
    BY <1>1, <2>1, <2>2
<1>3. Len(data) \in Nat /\ PDC(Len(data)) \in Byte
  <2>1. Len(data) \in Nat
    OBVIOUS
  <2>2. PDC(Len(data)) \in Byte
    BY <2>1, PDCByte
  <2> QED
    BY <2>1, <2>2
<1>4. EpcOf(k) \in Byte
  BY EpcByte
<1> HIDE DEF buffer
<1>5. internal = [buffer EXCEPT ![1] = EpcOf(k), ![2] = PDC(Len(data))]
  BY <1>2, <1>3 DEF Sent
<1>6. DOMAIN buffer = 1..(2 + Len(data))
  BY <1>2
<1>7. /\ internal \in Seq(Byte)
      /\ Len(internal) = Len(data) + 2
  BY <1>2, <1>3, <1>4, <1>5, <1>6
<1>8. 1 \in DOMAIN buffer /\ 2 \in DOMAIN buffer
  BY <1>3, <1>6
<1>9. internal[1] = EpcOf(k) /\ internal[2] = PDC(Len(data))
  BY <1>5, <1>8
<1>10. ASSUME NEW i \in DOMAIN data
       PROVE  internal[i + 2] = data[i]
  <2>1. i + 2 \in DOMAIN buffer /\ i + 2 # 1 /\ i + 2 # 2
    BY <1>3, <1>6
  <2> QED
    BY <1>2, <1>5, <2>1
<1>11. DataOf(internal) = data
  <2> HIDE DEF internal
  <2>1. /\ DataOf(internal) \in Seq(Byte)
        /\ Len(DataOf(internal)) = Len(data)
        /\ \A i \in 1..Len(data) : DataOf(internal)[i] = internal[i + 2]
    BY <1>3, <1>7 DEF DataOf
  <2> QED
    BY <1>10, <2>1
<1> QED
  BY <1>7, <1>9, <1>10, <1>11 DEF buffer

\* The first bytes of the data, by their places in the buffer.
LEMMA SentBytes ==
    ASSUME NEW k \in DOMAIN Property, NEW data \in Seq(Byte)
    PROVE  LET internal == Sent(k, Header \o data)
           IN  /\ Len(data) >= 1 => internal[3] = data[1]
               /\ Len(data) >= 2 => internal[4] = data[2]
               /\ Len(data) >= 3 => internal[5] = data[3]
               /\ Len(data) >= 4 => internal[6] = data[4]
<1> DEFINE internal == Sent(k, Header \o data)
<1>1. \A i \in DOMAIN data : internal[i + 2] = data[i]
  BY SentData
<1> HIDE DEF internal
<1>2. ASSUME NEW i \in Nat \ {0}, Len(data) >= i
      PROVE  internal[i + 2] = data[i]
  BY <1>1, <1>2
<1>3. /\ Len(data) >= 1 => internal[1 + 2] = data[1]
      /\ Len(data) >= 2 => internal[2 + 2] = data[2]
      /\ Len(data) >= 3 => internal[3 + 2] = data[3]
      /\ Len(data) >= 4 => internal[4 + 2] = data[4]
  BY <1>2
<1> QED
  BY <1>3 DEF internal

-----------------------------------------------------------------------------
(* Numbers.                                                                *)

LEMMA Powers ==
    /\ 256^0 = 1
    /\ 256^1 = 256
    /\ 256^2 = 65536
    /\ 256^3 = 16777216
  BY SMT

\* The bytes of a number.
LEMMA BigEndianBytes ==
    ASSUME NEW n \in Nat, NEW size \in {1, 2, 3, 4}
    PROVE  /\ BigEndian(n, size) \in Seq(Byte)
           /\ Len(BigEndian(n, size)) = size
<1> DEFINE Positive(e) == 256^e \in Nat \ {0}
<1>1. Positive(0) /\ Positive(1) /\ Positive(2) /\ Positive(3)
  BY Powers
<1>2. ASSUME NEW i \in 1..size
      PROVE  (n \div 256^(size - i)) % 256 \in Byte
  <2>1. \A m \in Nat : m % 256 \in 0..255
    OBVIOUS
  <2>2. size - i \in {0, 1, 2, 3}
    OBVIOUS
  <2>3. Positive(size - i)
    <3> HIDE DEF Positive
    <3>1. \A e \in {0, 1, 2, 3} : Positive(e)
      BY <1>1
    <3> QED
      BY <2>2, <3>1
  <2>4. n \div 256^(size - i) \in Nat
    BY <2>3
  <2> QED
    BY <2>1, <2>4 DEF Byte
<1> QED
  BY <1>2 DEF BigEndian

LEMMA BigEndianOne ==
    ASSUME NEW n \in Nat
    PROVE  BigEndian(n, 1)[1] = n % 256
  BY Powers DEF BigEndian

LEMMA BigEndianTwo ==
    ASSUME NEW n \in Nat
    PROVE  /\ BigEndian(n, 2)[1] = (n \div 256) % 256
           /\ BigEndian(n, 2)[2] = n % 256
  BY Powers DEF BigEndian

LEMMA BigEndianThree ==
    ASSUME NEW n \in Nat
    PROVE  /\ BigEndian(n, 3)[1] = (n \div 256^2) % 256
           /\ BigEndian(n, 3)[2] = (n \div 256) % 256
           /\ BigEndian(n, 3)[3] = n % 256
  BY Powers DEF BigEndian

LEMMA BigEndianFour ==
    ASSUME NEW n \in Nat
    PROVE  /\ BigEndian(n, 4)[1] = (n \div 256^3) % 256
           /\ BigEndian(n, 4)[2] = (n \div 256^2) % 256
           /\ BigEndian(n, 4)[3] = (n \div 256) % 256
           /\ BigEndian(n, 4)[4] = n % 256
  BY Powers DEF BigEndian

\* The numbers in so many bytes.
LEMMA NumberOfOne ==
    ASSUME NEW bytes, Len(bytes) = 1, bytes[1] \in Nat
    PROVE  Number(bytes) = bytes[1]
  BY Powers DEF Number

LEMMA NumberOfThree ==
    ASSUME NEW bytes, Len(bytes) = 3,
           bytes[1] \in Nat, bytes[2] \in Nat, bytes[3] \in Nat
    PROVE  Number(bytes) = 256^2 * bytes[1] + 256 * bytes[2] + bytes[3]
  BY Powers DEF Number

LEMMA NumberOfFour ==
    ASSUME NEW bytes, Len(bytes) = 4, bytes[1] \in Nat, bytes[2] \in Nat,
           bytes[3] \in Nat, bytes[4] \in Nat
    PROVE  Number(bytes) = 256^3 * bytes[1] + 256^2 * bytes[2]
                               + 256 * bytes[3] + bytes[4]
  BY Powers DEF Number

LEMMA BytesAreNumbers ==
    ASSUME NEW n \in Nat, NEW size \in {1, 2, 3, 4}
    PROVE  \A i \in 1..size : BigEndian(n, size)[i] \in Nat
<1>1. ASSUME NEW i \in 1..size PROVE BigEndian(n, size)[i] \in Nat
  BY BigEndianBytes, ByteAt
<1> QED
  BY <1>1

\* A number that fits into the bytes is read back from them.
LEMMA NumberReadsBack ==
    ASSUME NEW size \in {1, 2, 3, 4}, NEW n \in Nat, n < 256^size
    PROVE  Number(BigEndian(n, size)) = n
<1>1. CASE size = 1
  <2>1. n = n % 256
    BY <1>1, Powers
  <2>2. BigEndian(n, 1)[1] \in Nat /\ Len(BigEndian(n, 1)) = 1
    BY BytesAreNumbers, BigEndianBytes
  <2>3. Number(BigEndian(n, 1)) = BigEndian(n, 1)[1]
    BY <2>2, NumberOfOne
  <2> QED
    BY <1>1, <2>1, <2>3, BigEndianOne
<1>2. CASE size = 2
  <2>1. n = 256 * ((n \div 256) % 256) + (n % 256)
    BY <1>2, Powers
  <2>2. /\ BigEndian(n, 2)[1] \in Nat /\ BigEndian(n, 2)[2] \in Nat
        /\ Len(BigEndian(n, 2)) = 2
    BY BytesAreNumbers, BigEndianBytes
  <2>3. Number(BigEndian(n, 2))
            = 256 * BigEndian(n, 2)[1] + BigEndian(n, 2)[2]
    BY <2>2, NumberOfTwo
  <2> QED
    BY <1>2, <2>1, <2>3, BigEndianTwo
<1>3. CASE size = 3
  <2>1. /\ BigEndian(n, 3)[1] \in Nat /\ BigEndian(n, 3)[2] \in Nat
        /\ BigEndian(n, 3)[3] \in Nat /\ Len(BigEndian(n, 3)) = 3
    BY BytesAreNumbers, BigEndianBytes
  <2>2. Number(BigEndian(n, 3))
            = 256^2 * BigEndian(n, 3)[1] + 256 * BigEndian(n, 3)[2]
                + BigEndian(n, 3)[3]
    BY <2>1, NumberOfThree
  <2> DEFINE a == BigEndian(n, 3)[1]
             b == BigEndian(n, 3)[2]
             c == BigEndian(n, 3)[3]
  <2>3. n = 256^2 * a + 256 * b + c
    <3>1. n < 256^3
      BY <1>3
    <3>2. /\ a = (n \div 256^2) % 256
          /\ b = (n \div 256) % 256
          /\ c = n % 256
      BY BigEndianThree
    <3> HIDE DEF a, b, c
    <3> QED
      BY SMT, <3>1, <3>2, Powers
  <2> QED
    BY Zenon, <1>3, <2>2, <2>3
<1>4. CASE size = 4
  <2>1. /\ BigEndian(n, 4)[1] \in Nat /\ BigEndian(n, 4)[2] \in Nat
        /\ BigEndian(n, 4)[3] \in Nat /\ BigEndian(n, 4)[4] \in Nat
        /\ Len(BigEndian(n, 4)) = 4
    BY BytesAreNumbers, BigEndianBytes
  <2>2. Number(BigEndian(n, 4))
            = 256^3 * BigEndian(n, 4)[1] + 256^2 * BigEndian(n, 4)[2]
                + 256 * BigEndian(n, 4)[3] + BigEndian(n, 4)[4]
    BY <2>1, NumberOfFour
  <2> DEFINE a == BigEndian(n, 4)[1]
             b == BigEndian(n, 4)[2]
             c == BigEndian(n, 4)[3]
             d == BigEndian(n, 4)[4]
  <2>3. n = 256^3 * a + 256^2 * b + 256 * c + d
    <3>1. n < 256^4
      BY <1>4
    <3>2. /\ a = (n \div 256^3) % 256
          /\ b = (n \div 256^2) % 256
          /\ c = (n \div 256) % 256
          /\ d = n % 256
      BY BigEndianFour
    <3> HIDE DEF a, b, c, d
    <3> QED
      BY SMT, <3>1, <3>2, Powers
  <2> QED
    BY Zenon, <1>4, <2>2, <2>3
<1> QED
  BY <1>1, <1>2, <1>3, <1>4

-----------------------------------------------------------------------------
(* What FactoryProperty says of each family.                               *)

LEMMA CanonicalsTyped ==
    ASSUME NEW k \in DOMAIN Property, NEW canonical \in CanonicalsOf(k)
    PROVE  LET p == Property[k]
           IN  /\ p.family = "boolean" => canonical \in BOOLEAN
               /\ p.family = "integer" => canonical \in IntegersOf(p)
               /\ p.family = "packed" => canonical \in Floats
               /\ p.family = "hex" => canonical \in HexStrings
               /\ p.family = "ascii" => canonical \in Seq(Byte)
               /\ p.family = "date" => canonical \in Dates
               /\ p.family = "time" =>
                    canonical \in
                        [hour : 0..23, minute : 0..59, second : 0..59]
               /\ p.family = "property_map" => canonical \in PropertyMaps
               /\ p.family = "eoj_array" => canonical \in Seq(EOJ)
               /\ p.family = "location" => canonical \in Locations
               /\ p.family = "profile_version" =>
                    canonical \in [major : Byte, minor : Byte,
                                   specified : BOOLEAN, arbitrary : BOOLEAN]
               /\ p.family = "device_version" =>
                    canonical \in [release : Nat, revision : Byte]
               /\ p.family = "fault_code" =>
                    canonical \in [manufacturer_code : HexStrings,
                                   fault_code : HexStrings]
               /\ p.family = "fault" => canonical \in Faults
               /\ p.family = "remote_control" =>
                    canonical \in [public : BOOLEAN, line_ok : BOOLEAN]
  BY Zenon DEF CanonicalsOf

LEMMA NearestOf ==
    ASSUME NEW k \in DOMAIN Property, NEW canonical
    PROVE  LET p == Property[k]
           IN  /\ p.family = "packed" =>
                    Nearest(k, canonical) = NearestFloat(p, canonical)
               /\ p.family = "integer" =>
                    Nearest(k, canonical) =
                        IF p.saturates /\ canonical >= 256^p.size - 1
                        THEN 256^p.size - 1
                        ELSE canonical
               /\ p.family = "hex" =>
                    Nearest(k, canonical) = HD!Lower(canonical)
               /\ p.family = "time" =>
                    Nearest(k, canonical) = [canonical EXCEPT !.second = 0]
               /\ p.family = "device_version" =>
                    Nearest(k, canonical) =
                        [canonical EXCEPT !.release = Uppercase(@)]
               /\ p.family = "fault_code" =>
                    Nearest(k, canonical) =
                        [manufacturer_code |->
                             HD!Lower(canonical.manufacturer_code),
                         fault_code |-> HD!Lower(canonical.fault_code)]
               /\ p.family \notin {"packed", "integer", "hex", "time",
                                   "device_version", "fault_code"} =>
                    Nearest(k, canonical) = canonical
  BY Zenon DEF Nearest

LEMMA AlteredOf ==
    ASSUME NEW k \in DOMAIN Property, NEW canonical, ~ Altered(k, canonical)
    PROVE  LET p == Property[k]
           IN  /\ p.family = "date" => canonical.year \in Word
               /\ p.family = "fault" => Unambiguous(canonical)
               /\ p.family = "location" =>
                    \/ canonical.place \in {"not_specified", "indefinite"}
                    \/ IsPlace(canonical.place) /\ canonical.number = 7
               /\ p.family = "eoj_array" => ~ (Len(canonical) > 1)
               /\ p.family = "fault_code" => NotMoved(canonical)
               /\ p.family = "device_version" =>
                    canonical = [release |-> 0, revision |-> 0]
               /\ p.family # "property_map"
  BY Zenon DEF Altered

LEMMA RepresentableOf ==
    ASSUME NEW k \in DOMAIN Property, NEW canonical,
           Representable(k, canonical)
    PROVE  LET p == Property[k]
           IN  /\ p.family = "integer" =>
                    (p.sentinels /\ ~ p.saturates => canonical < 2^16 - 2)
               /\ p.family = "packed" => canonical.class # "nan"
               /\ p.family = "hex" => HD!ByteLen(canonical) = p.size
               /\ p.family = "ascii" =>
                    Len(canonical) = p.size /\ IsAscii(canonical)
               /\ p.family = "profile_version" =>
                    canonical.specified \/ canonical.arbitrary
               /\ p.family = "device_version" => canonical.release < 128
               /\ p.family = "fault_code" =>
                    HD!ByteLen(canonical.manufacturer_code) = 3
  BY Zenon DEF Representable

LEMMA RefusedOf ==
    ASSUME NEW k \in DOMAIN Property, NEW canonical, ~ Refused(k, canonical)
    PROVE  LET p == Property[k]
           IN  /\ p.family \notin {"boolean", "duration", "fault"}
               /\ p.family = "hex" => p.media = {}
               /\ p.family = "integer" =>
                    ~ (p.saturates /\ canonical >= 256^p.size - 2)
               /\ p.family = "location" =>
                    canonical.place \notin {"user_defined", "location"}
               /\ p.family = "property_map" => ~ (canonical.count < 2)
  BY Zenon DEF Refused

-----------------------------------------------------------------------------
(* Decoding is the inverse of encoding.                                    *)

\* The buffer an encoder makes always has room for the header.
LEMMA BackFromData ==
    ASSUME NEW k \in DOMAIN Property, NEW canonical, NEW data \in Seq(Byte),
           Encode(k, canonical) = Ok(Header \o data),
           Decode(k, Sent(k, Header \o data)) = Ok(Nearest(k, canonical))
    PROVE  ConvertsBack(k, canonical)
<1>1. Header \in Seq(Byte) /\ Len(Header) = 2 /\ Len(data) \in Nat
  BY DEF Header, Byte
<1>2. Len(Header \o data) = Len(Header) + Len(data)
  BY <1>1, ConcatProperties
<1>3. Len(Header \o data) >= 2
  BY <1>1, <1>2
<1> QED
  BY <1>3 DEF ConvertsBack, Ok

LEMMA BooleanBack ==
    ASSUME NEW k \in DOMAIN Property, Property[k].family = "boolean",
           NEW canonical \in CanonicalsOf(k)
    PROVE  ConvertsBack(k, canonical)
<1> DEFINE p == Property[k]
           data == <<IF canonical THEN p.on ELSE p.off>>
           internal == Sent(k, Header \o data)
<1>1. canonical \in BOOLEAN
  BY CanonicalsTyped
<1>2. p.on # p.off /\ p.on \in Byte /\ p.off \in Byte
  BY BooleanParameters
<1>3. data \in Seq(Byte) /\ Len(data) = 1 /\ 1 \in DOMAIN data
  BY <1>1, <1>2
<1>4. Encode(k, canonical) = Ok(Header \o data)
  BY Encodes DEF EncodeBoolean
<1>5. Len(internal) = 3 /\ internal[3] = data[1]
  <2> HIDE DEF data
  <2>1. Len(internal) = Len(data) + 2
    BY <1>3, SentData
  <2>2. Len(data) >= 1 => internal[3] = data[1]
    BY <1>3, SentBytes
  <2> QED
    BY <1>3, <2>1, <2>2
<1>6. DecodeBoolean(p, internal) = Ok(canonical)
  <2> HIDE DEF internal
  <2> QED
    BY <1>1, <1>2, <1>5 DEF DecodeBoolean
<1>7. Decode(k, internal) = Ok(Nearest(k, canonical))
  BY <1>6, Decodes, NearestOf
<1> QED
  BY <1>3, <1>4, <1>7, BackFromData

\* The bytes of the largest number.
LEMMA OverflowBytes ==
    ASSUME NEW size \in {1, 2, 3, 4}
    PROVE  /\ Overflow(size) \in Seq(Byte) /\ Len(Overflow(size)) = size
           /\ \A i \in 1..size : Overflow(size)[i] = 255
           /\ Underflow(size) \in Seq(Byte) /\ Len(Underflow(size)) = size
           /\ \A i \in 1..size :
                 Underflow(size)[i] = IF i = size THEN 254 ELSE 255
<1>1. 254 \in Byte /\ 255 \in Byte
  BY DEF Byte
<1>2. /\ Overflow(size) \in Seq(Byte) /\ Len(Overflow(size)) = size
      /\ \A i \in 1..size : Overflow(size)[i] = 255
  BY <1>1 DEF Overflow, Constantly
<1> HIDE DEF Overflow
<1>3. Underflow(size) = [Overflow(size) EXCEPT ![size] = 254]
  BY DEF Underflow
<1>4. DOMAIN Overflow(size) = 1..size
  BY <1>2
<1> QED
  BY <1>1, <1>2, <1>3, <1>4

\* Their lengths.
LEMMA LimitLengths ==
    ASSUME NEW size \in {1, 2, 3, 4}
    PROVE  /\ Overflow(size) \in Seq(Byte) /\ Len(Overflow(size)) = size
           /\ Underflow(size) \in Seq(Byte) /\ Len(Underflow(size)) = size
<1>1. 254 \in Byte /\ 255 \in Byte
  BY DEF Byte
<1>2. Overflow(size) \in Seq(Byte) /\ Len(Overflow(size)) = size
  BY <1>1 DEF Overflow, Constantly
<1> HIDE DEF Overflow
<1>3. Underflow(size) = [Overflow(size) EXCEPT ![size] = 254]
  BY DEF Underflow
<1> QED
  BY <1>1, <1>2, <1>3

LEMMA IntegerBack ==
    ASSUME NEW k \in DOMAIN Property, Property[k].family = "integer",
           NEW canonical \in CanonicalsOf(k)
    PROVE  ConvertsBack(k, canonical)
<1> DEFINE p == Property[k]
           large == p.saturates /\ canonical >= 256^p.size - 1
           data == IF large THEN Overflow(p.size)
                   ELSE BigEndian(canonical, p.size)
           internal == Sent(k, Header \o data)
<1>1. \/ p.size = 2 /\ p.saturates = FALSE /\ canonical \in Word
      \/ p.size = 3 /\ p.saturates = TRUE /\ canonical \in Nat
  <2>1. canonical \in IntegersOf(p)
    BY CanonicalsTyped
  <2>2. \/ p.size = 2 /\ p.saturates = FALSE
        \/ p.size = 3 /\ p.saturates = TRUE
    BY IntegerParameters
  <2> QED
    BY <2>1, <2>2 DEF IntegersOf
<1>2. p.size \in {1, 2, 3, 4} /\ canonical \in Nat
  BY <1>1 DEF Word
<1>3. data \in Seq(Byte) /\ Len(data) = p.size
  <2> HIDE DEF p
  <2>1. Overflow(p.size) \in Seq(Byte) /\ Len(Overflow(p.size)) = p.size
    BY <1>2, LimitLengths
  <2>2. /\ BigEndian(canonical, p.size) \in Seq(Byte)
        /\ Len(BigEndian(canonical, p.size)) = p.size
    BY <1>2, BigEndianBytes
  <2> QED
    BY <2>1, <2>2
<1>4. Encode(k, canonical) = Ok(Header \o data)
  BY Encodes DEF EncodeInteger
<1>5. Number(data) = Nearest(k, canonical)
  <2>1. CASE large
    <3>1. p.size = 3 /\ data = Overflow(3)
      BY <1>1, <2>1
    <3>2. Nearest(k, canonical) = 256^3 - 1
      <4>1. Nearest(k, canonical) = 256^p.size - 1
        BY <2>1, NearestOf
      <4> QED
        BY <3>1, <4>1
    <3>3. /\ Len(Overflow(3)) = 3 /\ Overflow(3)[1] = 255
          /\ Overflow(3)[2] = 255 /\ Overflow(3)[3] = 255
      BY OverflowBytes
    <3>4. Number(Overflow(3)) = 256^2 * 255 + 256 * 255 + 255
      BY <3>3, NumberOfThree
    <3>5. 256^3 - 1 = 256^2 * 255 + 256 * 255 + 255
      BY SMT, Powers
    <3> QED
      BY SMT, <3>1, <3>2, <3>4, <3>5
  <2>2. CASE ~ large
    <3>1. canonical < 256^p.size
      <4>1. ASSUME p.size = 2, canonical \in Word
            PROVE  canonical < 256^p.size
        <5>1. canonical < 256^2
          BY SMT, <4>1, Powers DEF Word
        <5> QED
          BY <4>1, <5>1
      <4>2. ASSUME p.size = 3, p.saturates = TRUE
            PROVE  canonical < 256^p.size
        <5>1. ~ (canonical >= 256^3 - 1)
          BY <2>2, <4>2
        <5>2. canonical < 256^3
          BY SMT, <1>2, <5>1, Powers
        <5> QED
          BY <4>2, <5>2
      <4> QED
        BY <1>1, <4>1, <4>2
    <3>2. Number(data) = canonical
      BY <1>2, <2>2, <3>1, NumberReadsBack
    <3>3. Nearest(k, canonical) = canonical
      BY <2>2, NearestOf
    <3> QED
      BY <3>2, <3>3
  <2> QED
    BY <2>1, <2>2
<1>6. DecodeInteger(p, internal) = Ok(Nearest(k, canonical))
  <2> HIDE DEF data
  <2>1. Len(internal) = Len(data) + 2 /\ DataOf(internal) = data
    BY <1>3, SentData
  <2> HIDE DEF internal
  <2>2. Len(internal) = p.size + 2
    BY <1>3, <2>1
  <2> QED
    BY <1>5, <2>1, <2>2 DEF DecodeInteger
<1>7. Decode(k, internal) = Ok(Nearest(k, canonical))
  BY <1>6, Decodes
<1> HIDE DEF data
<1> QED
  BY <1>3, <1>4, <1>7, BackFromData

LEMMA AsciiBack ==
    ASSUME NEW k \in DOMAIN Property, Property[k].family = "ascii",
           NEW canonical \in CanonicalsOf(k)
    PROVE  ConvertsBack(k, canonical)
<1> DEFINE internal == Sent(k, Header \o canonical)
<1>1. canonical \in Seq(Byte)
  BY CanonicalsTyped
<1>2. CASE ~ IsAscii(canonical)
  BY <1>2, Encodes DEF ConvertsBack, EncodeAscii, Err
<1>3. CASE IsAscii(canonical)
  <2>1. Encode(k, canonical) = Ok(Header \o canonical)
    BY <1>3, Encodes DEF EncodeAscii
  <2>2. DataOf(internal) = canonical
    BY <1>1, SentData
  <2>3. Decode(k, internal) = Ok(Nearest(k, canonical))
    BY <2>2, Decodes, NearestOf DEF DecodeAscii
  <2> QED
    BY <1>1, <2>1, <2>3, BackFromData
<1> QED
  BY <1>2, <1>3

LEMMA TimeBack ==
    ASSUME NEW k \in DOMAIN Property, Property[k].family = "time",
           NEW canonical \in CanonicalsOf(k)
    PROVE  ConvertsBack(k, canonical)
<1> DEFINE p == Property[k]
           data == <<canonical.hour, canonical.minute>>
           internal == Sent(k, Header \o data)
<1>1. canonical \in [hour : 0..23, minute : 0..59, second : 0..59]
  BY CanonicalsTyped
<1>2. data \in Seq(Byte) /\ Len(data) = 2
  BY <1>1 DEF Byte
<1>3. Encode(k, canonical) = Ok(Header \o data)
  BY Encodes DEF EncodeTime
<1>4. /\ Len(internal) = 4
      /\ internal[3] = canonical.hour /\ internal[4] = canonical.minute
  <2>1. data[1] = canonical.hour /\ data[2] = canonical.minute
    OBVIOUS
  <2> HIDE DEF data
  <2>2. Len(internal) = Len(data) + 2
    BY <1>2, SentData
  <2>3. /\ Len(data) >= 1 => internal[3] = data[1]
        /\ Len(data) >= 2 => internal[4] = data[2]
    BY <1>2, SentBytes
  <2> QED
    BY <1>2, <2>1, <2>2, <2>3
<1>5. DecodeTime(p, internal) = Ok([canonical EXCEPT !.second = 0])
  <2> HIDE DEF internal
  <2> QED
    BY <1>1, <1>4 DEF DecodeTime
<1>6. Decode(k, internal) = Ok(Nearest(k, canonical))
  BY <1>5, Decodes, NearestOf
<1> HIDE DEF data
<1> QED
  BY <1>2, <1>3, <1>6, BackFromData

\* A whole number of steps that is in range is neither of the two limits.
LEMMA StepsNotLimits ==
    ASSUME NEW size, NEW max, NEW steps \in Nat, steps <= max,
           \/ size = 1 /\ max = 100
           \/ size = 4 /\ max = 10^9 - 1
    PROVE  /\ BigEndian(steps, size) \notin {Underflow(size), Overflow(size)}
           /\ Number(BigEndian(steps, size)) = steps
<1>1. CASE size = 1 /\ max = 100
  <2>1. BigEndian(steps, 1)[1] = steps % 256 /\ steps % 256 = steps
    BY <1>1, BigEndianOne
  <2>2. Overflow(1)[1] = 255 /\ Underflow(1)[1] = 254
    BY OverflowBytes
  <2>3. Number(BigEndian(steps, 1)) = steps
    BY <1>1, Powers, NumberReadsBack
  <2> QED
    BY <1>1, <2>1, <2>2, <2>3
<1>2. CASE size = 4 /\ max = 10^9 - 1
  <2>1. 10^9 - 1 < 256^3 * 60 /\ 256^4 = 256^3 * 256
    BY SMT, Powers
  <2>2. BigEndian(steps, 4)[1] = (steps \div 256^3) % 256
    BY ZenonT(60), BigEndianFour
  <2>3. (steps \div 256^3) % 256 < 60
    BY SMT, <1>2, <2>1, Powers
  <2>4. Overflow(4)[1] = 255 /\ Underflow(4)[1] = 255
    BY OverflowBytes
  <2>5. Number(BigEndian(steps, 4)) = steps
    <3>1. steps < 256^4
      BY SMT, <1>2, <2>1, Powers
    <3> QED
      BY <3>1, NumberReadsBack
  <2>6. BigEndian(steps, 4)[1] # 255
    BY <2>2, <2>3
  <2>7. BigEndian(steps, 4) \notin {Underflow(4), Overflow(4)}
    BY <2>4, <2>6
  <2> QED
    BY <1>2, <2>5, <2>7
<1> QED
  BY <1>1, <1>2

LEMMA PackedBack ==
    ASSUME NEW k \in DOMAIN Property, Property[k].family = "packed",
           NEW canonical \in CanonicalsOf(k)
    PROVE  ConvertsBack(k, canonical)
<1> DEFINE p == Property[k]
           steps == Rounded(canonical.halves)
           Back(data) ==
               /\ data \in Seq(Byte)
               /\ Encode(k, canonical) = Ok(Header \o data)
               /\ DecodePacked(p, Sent(k, Header \o data))
                      = Ok(NearestFloat(p, canonical))
<1>1. canonical \in Floats
  BY CanonicalsTyped
<1>2. \/ p.size = 1 /\ p.max = 100
      \/ p.size = 4 /\ p.max = 10^9 - 1
  BY PackedParameters
<1>3. p.size \in {1, 2, 3, 4} /\ p.max \in Nat
  BY SMT, <1>2
<1>4. Encode(k, canonical) = EncodePacked(p, canonical)
  BY Encodes
<1>5. Underflow(p.size) # Overflow(p.size)
  <2>1. Underflow(p.size)[p.size] = 254 /\ Overflow(p.size)[p.size] = 255
    BY <1>3, OverflowBytes
  <2> QED
    BY <2>1
<1>6. ASSUME NEW data \in Seq(Byte)
      PROVE  DataOf(Sent(k, Header \o data)) = data
  BY SentData
<1>7. ASSUME NEW data \in Seq(Byte), data = Underflow(p.size)
      PROVE  DecodePacked(p, Sent(k, Header \o data)) = Ok(Float("neg_inf"))
  <2>1. DataOf(Sent(k, Header \o data)) = Underflow(p.size)
    BY <1>6, <1>7
  <2>2. Len(Underflow(p.size)) = p.size
    BY <1>3, LimitLengths
  <2>3. ~ (IF p.size = 1 THEN Len(Underflow(p.size)) = 0
                         ELSE Len(Underflow(p.size)) # p.size)
    BY <2>2
  <2> QED
    BY Zenon, <1>5, <2>1, <2>3 DEF DecodePacked
<1>8. ASSUME NEW data \in Seq(Byte), data = Overflow(p.size)
      PROVE  DecodePacked(p, Sent(k, Header \o data)) = Ok(Float("inf"))
  <2>1. DataOf(Sent(k, Header \o data)) = Overflow(p.size)
    BY <1>6, <1>8
  <2>2. Len(Overflow(p.size)) = p.size
    BY <1>3, LimitLengths
  <2>3. ~ (IF p.size = 1 THEN Len(Overflow(p.size)) = 0
                         ELSE Len(Overflow(p.size)) # p.size)
    BY <2>2
  <2> QED
    BY Zenon, <1>5, <2>1, <2>3 DEF DecodePacked
<1>9. ASSUME NEW data \in Seq(Byte), Len(data) = p.size,
             data \notin {Underflow(p.size), Overflow(p.size)}
      PROVE  DecodePacked(p, Sent(k, Header \o data))
                 = Ok(Finite(2 * Number(data)))
  <2>1. SubSeq(data, 1, p.size) = data
    BY <1>9, SubSeqFull
  <2>2. p.size = 1 => Len(data) # 0
    BY <1>9
  <2> QED
    BY <1>6, <1>9, <2>1, <2>2 DEF DecodePacked
<1>10. CASE canonical.class = "nan"
  <2>1. Encode(k, canonical).tag = "err"
    BY <1>4, <1>10 DEF EncodePacked, PackedAs, Err
  <2> QED
    BY <2>1 DEF ConvertsBack
<1>11. CASE canonical.class = "neg_inf"
  <2>1. canonical = Float("neg_inf")
    BY <1>1, <1>11 DEF Floats, Float
  <2>2. Encode(k, canonical) = Ok(Header \o Underflow(p.size))
    BY <1>4, <1>11 DEF EncodePacked, PackedAs
  <2>3. NearestFloat(p, canonical) = canonical
    BY <1>11 DEF NearestFloat
  <2>4. Back(Underflow(p.size))
    BY <1>3, <1>7, <2>1, <2>2, <2>3, OverflowBytes
  <2> QED
    BY <2>4, BackFromData, Decodes, NearestOf
<1>12. CASE canonical.class = "inf"
  <2>1. canonical = Float("inf")
    BY <1>1, <1>12 DEF Floats, Float
  <2>2. Encode(k, canonical) = Ok(Header \o Overflow(p.size))
    BY <1>4, <1>12 DEF EncodePacked, PackedAs
  <2>3. NearestFloat(p, canonical) = canonical
    BY <1>12 DEF NearestFloat
  <2>4. Back(Overflow(p.size))
    BY <1>3, <1>8, <2>1, <2>2, <2>3, OverflowBytes
  <2> QED
    BY <2>4, BackFromData, Decodes, NearestOf
<1>13. CASE canonical.class = "finite"
  <2>1. canonical.halves \in Int
    BY <1>1, <1>13 DEF Floats
  <2>2. Encode(k, canonical) = Ok(Header \o StepBytes(p, steps))
    BY <1>4, <1>13 DEF EncodePacked, PackedAs
  <2>3. CASE canonical.halves < 0
    <3>1. steps < 0
      BY <2>1, <2>3 DEF Rounded
    <3>2. StepBytes(p, steps) = Underflow(p.size)
      BY <3>1 DEF StepBytes
    <3>3. NearestFloat(p, canonical) = Float("neg_inf")
      BY <1>13, <2>3 DEF NearestFloat
    <3>4. Back(Underflow(p.size))
      BY SMTT(30), <1>3, <1>7, <2>2, <3>2, <3>3, OverflowBytes
    <3> QED
      BY <3>4, BackFromData, Decodes, NearestOf
  <2>4. CASE canonical.halves > 2 * p.max
    <3>1. steps > p.max /\ ~ (steps < 0)
      BY <1>3, <2>1, <2>4 DEF Rounded
    <3>2. StepBytes(p, steps) = Overflow(p.size)
      BY <3>1 DEF StepBytes
    <3>3. NearestFloat(p, canonical) = Float("inf")
      BY <1>3, <1>13, <2>1, <2>4 DEF NearestFloat
    <3>4. Back(Overflow(p.size))
      BY SMTT(30), <1>3, <1>8, <2>2, <3>2, <3>3, OverflowBytes
    <3> QED
      BY <3>4, BackFromData, Decodes, NearestOf
  <2>5. CASE canonical.halves >= 0 /\ canonical.halves <= 2 * p.max
    <3>1. /\ steps \in Nat /\ steps <= p.max
          /\ 2 * steps = canonical.halves + (canonical.halves % 2)
      BY <1>3, <2>1, <2>5 DEF Rounded
    <3> HIDE DEF steps
    <3>2. StepBytes(p, steps) = BigEndian(steps, p.size)
      BY <1>3, <3>1 DEF StepBytes
    <3>3. NearestFloat(p, canonical) = Finite(2 * steps)
      BY <1>3, <1>13, <2>1, <2>5, <3>1 DEF NearestFloat
    <3>4. /\ BigEndian(steps, p.size)
                 \notin {Underflow(p.size), Overflow(p.size)}
          /\ Number(BigEndian(steps, p.size)) = steps
      BY <1>2, <3>1, StepsNotLimits
    <3>5. /\ BigEndian(steps, p.size) \in Seq(Byte)
          /\ Len(BigEndian(steps, p.size)) = p.size
      BY <1>3, <3>1, BigEndianBytes
    <3>6. Back(BigEndian(steps, p.size))
      BY <1>9, <2>2, <3>2, <3>3, <3>4, <3>5
    <3> QED
      BY <3>6, BackFromData, Decodes, NearestOf
  <2> QED
    BY <1>3, <2>1, <2>3, <2>4, <2>5
<1> QED
  BY <1>1, <1>10, <1>11, <1>12, <1>13 DEF Floats

LEMMA DateBack ==
    ASSUME NEW k \in DOMAIN Property, Property[k].family = "date",
           NEW canonical \in CanonicalsOf(k), canonical.year \in Word
    PROVE  ConvertsBack(k, canonical)
<1> DEFINE p == Property[k]
           year == BigEndian(canonical.year % 2^16, 2)
           rest == <<canonical.month, canonical.day>>
           data == year \o rest
           internal == Sent(k, Header \o data)
<1>1. /\ canonical \in [year : Int, month : 1..12, day : 1..31]
      /\ canonical.day <= DaysIn(canonical.year, canonical.month)
  BY CanonicalsTyped DEF Dates
<1>2. /\ canonical.year \in Nat /\ canonical.year < 256^2
      /\ canonical.year % 2^16 = canonical.year
  BY SMT, Powers DEF Word
<1>3. /\ year \in Seq(Byte) /\ Len(year) = 2
      /\ year[1] \in Nat /\ year[2] \in Nat
      /\ Number(year) = canonical.year
  <2>1. year = BigEndian(canonical.year, 2)
    BY <1>2
  <2> HIDE DEF year
  <2>2. year \in Seq(Byte) /\ Len(year) = 2
    BY <1>2, <2>1, BigEndianBytes
  <2>3. year[1] \in Nat /\ year[2] \in Nat
    BY <1>2, <2>1, BytesAreNumbers
  <2>4. Number(year) = canonical.year
    BY <1>2, <2>1, NumberReadsBack
  <2> QED
    BY <2>2, <2>3, <2>4
<1>4. /\ rest \in Seq(Byte) /\ Len(rest) = 2
      /\ rest[1] = canonical.month /\ rest[2] = canonical.day
  BY <1>1 DEF Byte
<1> HIDE DEF year, rest
<1>5. /\ data \in Seq(Byte) /\ Len(data) = 2 + 2
      /\ data[1] = year[1] /\ data[2] = year[2]
      /\ data[3] = canonical.month /\ data[4] = canonical.day
  <2>1. /\ data \in Seq(Byte)
        /\ Len(data) = Len(year) + Len(rest)
        /\ \A i \in 1..(Len(year) + Len(rest)) :
              data[i] = IF i <= Len(year) THEN year[i] ELSE rest[i - Len(year)]
    BY <1>3, <1>4, ConcatProperties
  <2> HIDE DEF data
  <2> QED
    BY <1>3, <1>4, <2>1
<1>6. Encode(k, canonical) = Ok(Header \o data)
  <2>1. Header \in Seq(Byte)
    BY DEF Header, Byte
  <2>2. (Header \o year) \o rest = Header \o data
    BY SMTT(30), <1>3, <1>4, <2>1, ConcatAssociative
  <2> QED
    BY <2>2, Encodes DEF EncodeDate, year, rest
<1> HIDE DEF data
<1>7. /\ Len(internal) = 6 /\ internal \in Seq(Byte)
      /\ internal[3] = year[1] /\ internal[4] = year[2]
      /\ internal[5] = canonical.month /\ internal[6] = canonical.day
  <2>1. internal \in Seq(Byte) /\ Len(internal) = Len(data) + 2
    BY <1>5, SentData
  <2>2. /\ Len(data) >= 1 => internal[3] = data[1]
        /\ Len(data) >= 2 => internal[4] = data[2]
        /\ Len(data) >= 3 => internal[5] = data[3]
        /\ Len(data) >= 4 => internal[6] = data[4]
    BY <1>5, SentBytes
  <2> QED
    BY <1>5, <2>1, <2>2
<1>8. Number(SubSeq(internal, 3, 4)) = canonical.year
  <2> HIDE DEF internal
  <2>1. /\ Len(SubSeq(internal, 3, 4)) = 2
        /\ SubSeq(internal, 3, 4)[1] = year[1]
        /\ SubSeq(internal, 3, 4)[2] = year[2]
    BY <1>7
  <2>2. Number(SubSeq(internal, 3, 4)) = 256 * year[1] + year[2]
    BY <1>3, <2>1, NumberOfTwo
  <2>3. Number(year) = 256 * year[1] + year[2]
    BY <1>3, NumberOfTwo
  <2> QED
    BY <1>3, <2>2, <2>3
<1>9. DecodeDate(p, internal) = Ok(canonical)
  <2> HIDE DEF internal
  <2>1. /\ canonical.month \in 1..12
        /\ canonical.day \in 1..DaysIn(canonical.year, canonical.month)
    <3>1. DaysIn(canonical.year, canonical.month) \in {28, 29, 30, 31}
      BY DEF DaysIn
    <3> QED
      BY <1>1, <3>1
  <2>2. canonical = [year |-> canonical.year, month |-> canonical.month,
                     day |-> canonical.day]
    BY <1>1
  <2> QED
    BY <1>7, <1>8, <2>1, <2>2 DEF DecodeDate
<1>10. Decode(k, internal) = Ok(Nearest(k, canonical))
  BY <1>9, Decodes, NearestOf
<1> QED
  BY <1>5, <1>6, <1>10, BackFromData

LEMMA ProfileVersionBack ==
    ASSUME NEW k \in DOMAIN Property, Property[k].family = "profile_version",
           NEW canonical \in CanonicalsOf(k)
    PROVE  ConvertsBack(k, canonical)
<1> DEFINE p == Property[k]
           flags == (IF canonical.specified THEN 1 ELSE 0)
                        + (IF canonical.arbitrary THEN 2 ELSE 0)
           data == <<canonical.major, canonical.minor, flags, 0>>
           internal == Sent(k, Header \o data)
<1>1. canonical \in [major : Byte, minor : Byte,
                     specified : BOOLEAN, arbitrary : BOOLEAN]
  BY CanonicalsTyped
<1>2. flags \in {0, 1, 2, 3}
  BY <1>1
<1>3. /\ data \in Seq(Byte) /\ Len(data) = 4
      /\ data[1] = canonical.major /\ data[2] = canonical.minor
      /\ data[3] = flags
  BY <1>1, <1>2 DEF Byte
<1>4. CASE ~ (canonical.specified \/ canonical.arbitrary)
  <2>1. Encode(k, canonical) = Err
    BY <1>4, Encodes DEF EncodeProfileVersion
  <2> QED
    BY <2>1 DEF ConvertsBack, Err
<1>5. CASE canonical.specified \/ canonical.arbitrary
  <2>1. Encode(k, canonical) = Ok(Header \o data)
    BY <1>5, Encodes DEF EncodeProfileVersion
  <2>2. /\ Len(internal) = 6
        /\ internal[3] = canonical.major /\ internal[4] = canonical.minor
        /\ internal[5] = flags
    <3> HIDE DEF data
    <3>1. Len(internal) = Len(data) + 2
      BY <1>3, SentData
    <3>2. /\ Len(data) >= 1 => internal[3] = data[1]
          /\ Len(data) >= 2 => internal[4] = data[2]
          /\ Len(data) >= 3 => internal[5] = data[3]
      BY <1>3, SentBytes
    <3> QED
      BY <1>3, <3>1, <3>2
  <2>3. Bit(flags, 0) = canonical.specified /\ Bit(flags, 1) = canonical.arbitrary
    BY <1>1 DEF Bit
  <2>4. DecodeProfileVersion(p, internal) = Ok(canonical)
    <3> HIDE DEF internal, flags
    <3>1. canonical = [major |-> canonical.major, minor |-> canonical.minor,
                       specified |-> canonical.specified,
                       arbitrary |-> canonical.arbitrary]
      BY <1>1
    <3> QED
      BY <2>2, <2>3, <3>1 DEF DecodeProfileVersion
  <2>5. Decode(k, internal) = Ok(Nearest(k, canonical))
    BY <2>4, Decodes, NearestOf
  <2> HIDE DEF data
  <2> QED
    BY <1>3, <2>1, <2>5, BackFromData
<1> QED
  BY <1>4, <1>5

\* Of the device's version only the one that is all zero comes back.
LEMMA DeviceVersionBack ==
    ASSUME NEW k \in DOMAIN Property, Property[k].family = "device_version",
           NEW canonical, canonical = [release |-> 0, revision |-> 0]
    PROVE  ConvertsBack(k, canonical)
<1> DEFINE p == Property[k]
           data == <<0, 0, 0, 0>>
           internal == Sent(k, Header \o data)
<1>1. /\ data \in Seq(Byte) /\ Len(data) = 4
      /\ data[1] = 0 /\ data[2] = 0
  BY DEF Byte
<1>2. Uppercase(0) = 0 /\ 0 % 256 = 0
  BY DEF Uppercase
<1>3. Encode(k, canonical) = Ok(Header \o data)
  BY <1>2, Encodes DEF EncodeDeviceVersion
<1>4. Len(internal) = 6 /\ internal[3] = 0 /\ internal[4] = 0
  <2> HIDE DEF data
  <2>1. Len(internal) = Len(data) + 2
    BY <1>1, SentData
  <2>2. /\ Len(data) >= 1 => internal[3] = data[1]
        /\ Len(data) >= 2 => internal[4] = data[2]
    BY <1>1, SentBytes
  <2> QED
    BY <1>1, <2>1, <2>2
<1>5. DecodeDeviceVersion(p, internal) = Ok(canonical)
  <2> HIDE DEF internal
  <2> QED
    BY <1>4 DEF DecodeDeviceVersion
<1>6. Nearest(k, canonical) = canonical
  BY <1>2, NearestOf
<1>7. Decode(k, internal) = Ok(Nearest(k, canonical))
  BY <1>5, <1>6, Decodes
<1> HIDE DEF data
<1> QED
  BY <1>1, <1>3, <1>7, BackFromData

LEMMA RemoteControlBack ==
    ASSUME NEW k \in DOMAIN Property, Property[k].family = "remote_control",
           NEW canonical \in CanonicalsOf(k)
    PROVE  ConvertsBack(k, canonical)
<1> DEFINE p == Property[k]
           code == (IF canonical.public THEN 66 ELSE 65)
                       + (IF canonical.line_ok THEN 32 ELSE 0)
           data == <<code>>
           internal == Sent(k, Header \o data)
<1>1. canonical \in [public : BOOLEAN, line_ok : BOOLEAN]
  BY CanonicalsTyped
<1>2. data \in Seq(Byte) /\ Len(data) = 1 /\ data[1] = code
  BY <1>1 DEF Byte
<1>3. Encode(k, canonical) = Ok(Header \o data)
  BY Encodes DEF EncodeRemoteControl
<1>4. Len(internal) = 3 /\ internal[3] = code
  <2> HIDE DEF data
  <2>1. Len(internal) = Len(data) + 2
    BY <1>2, SentData
  <2>2. Len(data) >= 1 => internal[3] = data[1]
    BY <1>2, SentBytes
  <2> QED
    BY <1>2, <2>1, <2>2
<1>5. /\ Bit(code, 6)
      /\ Bit(code, 0) = ~ canonical.public
      /\ Bit(code, 5) = canonical.line_ok
  BY <1>1 DEF Bit
<1>6. DecodeRemoteControl(p, internal) = Ok(canonical)
  <2> HIDE DEF internal, code
  <2>1. canonical = [public |-> canonical.public,
                     line_ok |-> canonical.line_ok]
    BY <1>1
  <2>2. /\ (~ (Bit(code, 0) /\ Bit(code, 6))) = canonical.public
        /\ (Bit(code, 5) /\ Bit(code, 6)) = canonical.line_ok
    BY <1>1, <1>5
  <2>3. DecodeRemoteControl(p, internal)
            = Ok([public  |-> ~ (Bit(code, 0) /\ Bit(code, 6)),
                  line_ok |-> Bit(code, 5) /\ Bit(code, 6)])
    BY <1>4 DEF DecodeRemoteControl
  <2> QED
    BY Zenon, <2>1, <2>2, <2>3
<1>7. Decode(k, internal) = Ok(Nearest(k, canonical))
  BY <1>6, Decodes, NearestOf
<1> HIDE DEF data
<1> QED
  BY <1>2, <1>3, <1>7, BackFromData

LEMMA EOJsBack ==
    ASSUME NEW k \in DOMAIN Property, Property[k].family = "eoj_array",
           NEW canonical \in CanonicalsOf(k), ~ (Len(canonical) > 1)
    PROVE  ConvertsBack(k, canonical)
<1> DEFINE p == Property[k]
           data == [i \in 1..(3 * Len(canonical)) |->
                       canonical[(i + 2) \div 3][((i - 1) % 3) + 1]]
           internal == Sent(k, Header \o data)
<1>1. canonical \in Seq(EOJ) /\ Len(canonical) \in {0, 1}
  <2>1. canonical \in Seq(EOJ)
    BY CanonicalsTyped
  <2>2. Len(canonical) \in Nat
    BY <2>1
  <2>3. \A n \in Nat : ~ (n > 1) => n = 0 \/ n = 1
    OBVIOUS
  <2> QED
    BY <2>1, <2>2, <2>3
<1>2. Encode(k, canonical) = Ok(Header \o data)
  BY Encodes DEF EncodeEOJs
<1>3. CASE Len(canonical) = 0
  <2>1. canonical = <<>> /\ data = <<>>
    BY <1>1, <1>3
  <2>2. <<>> \in Seq(Byte) /\ Len(<<>>) = 0
    OBVIOUS
  <2> HIDE DEF data
  <2>3. Len(internal) = 0 + 2
    BY <2>1, <2>2, SentData
  <2>4. DecodeEOJs(p, internal) = Ok(canonical)
    <3> HIDE DEF internal
    <3>1. (Len(internal) - 2) \div 3 = 0
      BY <2>3
    <3> QED
      BY <2>1, <3>1 DEF DecodeEOJs
  <2>5. Decode(k, internal) = Ok(Nearest(k, canonical))
    BY <2>4, Decodes, NearestOf
  <2> QED
    BY <1>2, <2>1, <2>2, <2>5, BackFromData
<1>4. CASE Len(canonical) = 1
  <2> DEFINE eoj == canonical[1]
  <2>1. canonical = <<eoj>> /\ eoj \in EOJ
    <3>1. 1 \in DOMAIN canonical
      BY <1>1, <1>4
    <3>2. eoj \in EOJ
      BY <1>1, <3>1
    <3> QED
      BY <1>1, <1>4, <3>2
  <2>2. /\ eoj[1] \in Byte /\ eoj[2] \in Byte /\ eoj[3] \in Byte
        /\ eoj = <<eoj[1], eoj[2], eoj[3]>>
    BY <2>1 DEF EOJ
  <2>3. /\ data \in Seq(Byte) /\ Len(data) = 3
        /\ data[1] = eoj[1] /\ data[2] = eoj[2] /\ data[3] = eoj[3]
    BY <1>4, <2>2
  <2> HIDE DEF data
  <2>4. /\ Len(internal) = 5
        /\ internal[3] = eoj[1] /\ internal[4] = eoj[2]
        /\ internal[5] = eoj[3] /\ internal \in Seq(Byte)
    <3>1. Len(internal) = Len(data) + 2 /\ internal \in Seq(Byte)
      BY <2>3, SentData
    <3>2. /\ Len(data) >= 1 => internal[3] = data[1]
          /\ Len(data) >= 2 => internal[4] = data[2]
          /\ Len(data) >= 3 => internal[5] = data[3]
      BY <2>3, SentBytes
    <3> QED
      BY <2>3, <3>1, <3>2
  <2>5. DecodeEOJs(p, internal) = Ok(canonical)
    <3> HIDE DEF internal, eoj
    <3>1. (Len(internal) - 2) \div 3 = 1
      BY <2>4
    <3>2. SubSeq(internal, 3, 5) = eoj
      BY <2>2, <2>4
    <3> QED
      BY <2>1, <3>1, <3>2 DEF DecodeEOJs
  <2>6. Decode(k, internal) = Ok(Nearest(k, canonical))
    BY <2>5, Decodes, NearestOf
  <2> QED
    BY <1>2, <2>3, <2>6, BackFromData
<1> QED
  BY <1>1, <1>3, <1>4

\* The places by their codes.
LEMMA PlaceCodes ==
    /\ DOMAIN Places = 1..15
    /\ \A i \in 1..15 : PlaceCode(Places[i]) = 8 * i
    /\ ~ IsPlace("not_specified") /\ ~ IsPlace("indefinite")
    /\ ~ IsPlace("user_defined") /\ ~ IsPlace("location")
<1>1. DOMAIN Places = 1..15
  BY DEF Places
<1>2. \A i, j \in 1..15 : Places[i] = Places[j] => i = j
  BY DEF Places
<1>3. ASSUME NEW i \in 1..15 PROVE PlaceCode(Places[i]) = 8 * i
  <2> DEFINE Same(j) == Places[j] = Places[i]
  <2>1. (CHOOSE j \in DOMAIN Places : Same(j)) = i
    <3>1. i \in DOMAIN Places /\ Same(i)
      BY <1>1
    <3>2. \A j \in DOMAIN Places : Same(j) => j = i
      BY <1>1, <1>2
    <3> HIDE DEF Same
    <3> QED
      BY <3>1, <3>2
  <2> QED
    BY <2>1 DEF PlaceCode
<1>4. /\ ~ IsPlace("not_specified") /\ ~ IsPlace("indefinite")
      /\ ~ IsPlace("user_defined") /\ ~ IsPlace("location")
  BY DEF IsPlace, Places
<1> QED
  BY <1>1, <1>3, <1>4

LEMMA LocationSeven ==
    ASSUME NEW i \in 1..15
    PROVE  LocationByte(Places[i], 7) = 8 * i + 7
<1>1. PlaceCode(Places[i]) = 8 * i
  BY PlaceCodes
<1>2. /\ 2^3 = 8 /\ 2^4 = 16 /\ 2^5 = 32 /\ 2^6 = 64 /\ 2^7 = 128
  BY SMT
<1> QED
  BY <1>1, <1>2 DEF LocationByte, Bit

LEMMA LocationBack ==
    ASSUME NEW k \in DOMAIN Property, Property[k].family = "location",
           NEW canonical \in CanonicalsOf(k),
           \/ canonical.place \in {"not_specified", "indefinite"}
           \/ IsPlace(canonical.place) /\ canonical.number = 7
    PROVE  ConvertsBack(k, canonical)
<1> DEFINE p == Property[k]
           Buffer(byte) == Sent(k, Header \o <<byte>>)
<1>1. canonical \in Locations
  BY CanonicalsTyped
<1>2. Encode(k, canonical) = EncodeLocation(p, canonical)
  BY Encodes
<1>3. Nearest(k, canonical) = canonical
  BY NearestOf
<1>4. ASSUME NEW byte \in Byte
      PROVE  /\ <<byte>> \in Seq(Byte)
             /\ Len(Buffer(byte)) = 3 /\ Buffer(byte)[3] = byte
  <2> DEFINE data == <<byte>>
  <2>1. data \in Seq(Byte) /\ Len(data) = 1 /\ data[1] = byte
    OBVIOUS
  <2> HIDE DEF data
  <2>2. Len(Sent(k, Header \o data)) = Len(data) + 2
    BY <2>1, SentData
  <2>3. Len(data) >= 1 => Sent(k, Header \o data)[3] = data[1]
    BY <2>1, SentBytes
  <2> QED
    BY <2>1, <2>2, <2>3 DEF data
<1>5. ASSUME NEW byte \in Byte,
             EncodeLocation(p, canonical) = Ok(Header \o <<byte>>),
             DecodeLocation(p, Buffer(byte)) = Ok(canonical)
      PROVE  ConvertsBack(k, canonical)
  BY <1>2, <1>3, <1>4, <1>5, BackFromData, Decodes
<1>6. CASE canonical.place = "not_specified"
  <2>1. canonical = [place |-> "not_specified", number |-> 0]
    BY <1>1, <1>6, PlaceCodes DEF Locations, IsPlace
  <2>2. EncodeLocation(p, canonical) = Ok(Header \o <<0>>)
    BY Zenon, <1>6, PlaceCodes DEF EncodeLocation
  <2>3. 0 \in Byte
    BY DEF Byte
  <2> HIDE DEF Buffer
  <2>4. DecodeLocation(p, Buffer(0)) = Ok(canonical)
    BY <1>4, <2>1, <2>3 DEF DecodeLocation
  <2> QED
    BY <1>5, <2>2, <2>3, <2>4
<1>7. CASE canonical.place = "indefinite"
  <2>1. canonical = [place |-> "indefinite", number |-> 0]
    BY <1>1, <1>7, PlaceCodes DEF Locations, IsPlace
  <2>2. EncodeLocation(p, canonical) = Ok(Header \o <<255>>)
    BY Zenon, <1>7, PlaceCodes DEF EncodeLocation
  <2>3. 255 \in Byte
    BY DEF Byte
  <2> HIDE DEF Buffer
  <2>4. DecodeLocation(p, Buffer(255)) = Ok(canonical)
    BY <1>4, <2>1, <2>3 DEF DecodeLocation
  <2> QED
    BY <1>5, <2>2, <2>3, <2>4
<1>8. CASE IsPlace(canonical.place) /\ canonical.number = 7
  <2>1. PICK i \in 1..15 : canonical.place = Places[i]
    BY <1>8, PlaceCodes DEF IsPlace
  <2>2. canonical = [place |-> Places[i], number |-> 7]
    BY <1>1, <1>8, <2>1 DEF Locations
  <2> DEFINE code == 8 * i + 7
  <2>3. EncodeLocation(p, canonical) = Ok(Header \o <<code>>)
    <3>1. LocationByte(canonical.place, canonical.number) = code
      BY <1>8, <2>1, LocationSeven
    <3> QED
      BY Zenon, <1>8, <3>1, PlaceCodes DEF EncodeLocation
  <2>4. /\ code \in Byte /\ code \notin {0, 255}
        /\ (code \div 8) % 16 = i /\ code % 8 = 7
    BY DEF Byte
  <2> HIDE DEF Buffer, code
  <2>5. DecodeLocation(p, Buffer(code)) = Ok(canonical)
    <3>1. Len(Buffer(code)) = 3 /\ Buffer(code)[3] = code
      BY <1>4, <2>4
    <3>2. DecodeLocation(p, Buffer(code))
              = Ok([place |-> Places[i], number |-> 7])
      BY <2>4, <3>1 DEF DecodeLocation
    <3> QED
      BY <2>2, <3>2
  <2> QED
    BY <1>5, <2>3, <2>4, <2>5
<1> QED
  BY <1>6, <1>7, <1>8

\* A digit is a half of a byte, in either case.
LEMMA Nibbles ==
    ASSUME NEW digit \in HD!Digit
    PROVE  HD!Nibble(digit) \in 0..15
  BY DEF HD!Digit, HD!Nibble

LEMMA BytesOfNibbles ==
    ASSUME NEW a \in 0..15, NEW b \in 0..15
    PROVE  /\ 16 * a + b \in Byte
           /\ (16 * a + b) \div 16 = a
           /\ (16 * a + b) % 16 = b
<1>1. a \in Nat /\ a <= 15 /\ b \in Nat /\ b <= 15
  OBVIOUS
<1>2. \A n \in Nat : n <= 255 => n \in Byte
  BY DEF Byte
<1>3. 16 * a + b \in Nat /\ 16 * a + b <= 255
  BY <1>1
<1> QED
  BY <1>1, <1>2, <1>3

\* The bytes that the digits of a HexString make.
LEMMA PairsRead ==
    ASSUME NEW chars \in Seq(HD!Digit), NEW size \in Nat,
           Len(chars) = 2 * size
    PROVE  LET pairs == HD!RightAlignedPairs(chars, size, 0)
               bytes == BytesOf(pairs)
           IN  /\ DOMAIN pairs = 1..size
               /\ \A j \in 1..size :
                     pairs[j] = <<HD!Nibble(chars[2 * j - 1]),
                                  HD!Nibble(chars[2 * j])>>
               /\ bytes \in Seq(Byte) /\ Len(bytes) = size
               /\ PairsOf(bytes) = pairs
<1> DEFINE pairs == HD!RightAlignedPairs(chars, size, 0)
           bytes == BytesOf(pairs)
<1>1. DOMAIN pairs = 1..size
  BY DEF HD!RightAlignedPairs
<1>2. ASSUME NEW j \in 1..size
      PROVE  pairs[j] = <<HD!Nibble(chars[2 * j - 1]), HD!Nibble(chars[2 * j])>>
  <2> DEFINE at == Len(chars) - 2 * (size - j) - 2
  <2>1. at = 2 * j - 2 /\ at >= 0 /\ at + 1 = 2 * j - 1 /\ at + 2 = 2 * j
    OBVIOUS
  <2>2. pairs[j] = IF at >= 0
                   THEN <<HD!Nibble(chars[at + 1]), HD!Nibble(chars[at + 2])>>
                   ELSE HD!ZeroByte
    BY DEF HD!RightAlignedPairs
  <2> HIDE DEF pairs, at
  <2> QED
    BY <2>1, <2>2
<1>3. ASSUME NEW j \in 1..size
      PROVE  pairs[j][1] \in 0..15 /\ pairs[j][2] \in 0..15
  <2>1. 2 * j - 1 \in DOMAIN chars /\ 2 * j \in DOMAIN chars
    OBVIOUS
  <2>2. chars[2 * j - 1] \in HD!Digit /\ chars[2 * j] \in HD!Digit
    BY <2>1
  <2> HIDE DEF pairs
  <2> QED
    BY <1>2, <2>2, Nibbles
<1> HIDE DEF pairs
<1>4. bytes = [j \in 1..size |-> 16 * pairs[j][1] + pairs[j][2]]
  BY <1>1 DEF BytesOf
<1>5. \A j \in 1..size : 16 * pairs[j][1] + pairs[j][2] \in Byte
  BY <1>3, BytesOfNibbles
<1>6. bytes \in Seq(Byte) /\ Len(bytes) = size /\ DOMAIN bytes = 1..size
  BY <1>4, <1>5
<1>7. ASSUME NEW j \in 1..size
      PROVE  <<bytes[j] \div 16, bytes[j] % 16>> = pairs[j]
  <2>1. pairs[j] = <<pairs[j][1], pairs[j][2]>>
    BY <1>2
  <2>2. bytes[j] = 16 * pairs[j][1] + pairs[j][2]
    BY <1>4
  <2>3. bytes[j] \div 16 = pairs[j][1] /\ bytes[j] % 16 = pairs[j][2]
    <3> DEFINE a == pairs[j][1]
               b == pairs[j][2]
    <3>1. a \in 0..15 /\ b \in 0..15 /\ bytes[j] = 16 * a + b
      BY <1>3, <2>2
    <3> HIDE DEF a, b
    <3>2. (16 * a + b) \div 16 = a /\ (16 * a + b) % 16 = b
      BY <3>1, BytesOfNibbles
    <3> QED
      BY Zenon, <3>1, <3>2 DEF a, b
  <2> QED
    BY <2>1, <2>3
<1> HIDE DEF bytes
<1>8. PairsOf(bytes) = [j \in 1..size |-> pairs[j]]
  BY <1>6, <1>7 DEF PairsOf
<1>9. pairs = [j \in 1..size |-> pairs[j]]
  BY <1>1 DEF pairs, HD!RightAlignedPairs
<1> QED
  BY <1>1, <1>2, <1>6, <1>8, <1>9 DEF bytes, pairs

\* A HexString is read back from its bytes in lower case.
LEMMA HexReadsBack ==
    ASSUME NEW chars \in Seq(HD!Digit), NEW size \in Nat,
           Len(chars) = 2 * size
    PROVE  LET bytes == BytesOf(HD!RightAlignedPairs(chars, size, 0))
           IN  /\ bytes \in Seq(Byte) /\ Len(bytes) = size
               /\ HexOfBytes(bytes) = Ok(HD!Lower(chars))
<1> DEFINE pairs == HD!RightAlignedPairs(chars, size, 0)
           bytes == BytesOf(pairs)
<1>1. /\ DOMAIN pairs = 1..size
      /\ \A j \in 1..size :
            pairs[j] = <<HD!Nibble(chars[2 * j - 1]), HD!Nibble(chars[2 * j])>>
      /\ bytes \in Seq(Byte) /\ Len(bytes) = size
      /\ PairsOf(bytes) = pairs
  BY PairsRead
<1> HIDE DEF pairs, bytes
<1>2. Len(pairs) = size
  BY <1>1 DEF pairs, HD!RightAlignedPairs
<1> DEFINE padded == HD!LeftPadded(pairs, 0, size)
<1>3. /\ DOMAIN padded = 1..size /\ Len(padded) = size
      /\ \A j \in 1..size : padded[j] = pairs[j]
  <2>1. padded = [j \in 1..size |->
                     IF j <= size - (size - 0) THEN HD!ZeroByte
                     ELSE pairs[j - (size - (size - 0)) + 0]]
    BY <1>2 DEF HD!LeftPadded
  <2> QED
    BY <2>1
<1>4. HexOfBytes(bytes) = Ok(HD!DigitsOf(padded))
  BY <1>1, HexEncodes
<1> HIDE DEF padded
<1>5. ASSUME NEW j \in 1..(2 * size)
      PROVE  padded[(j + 1) \div 2][IF j % 2 = 1 THEN 1 ELSE 2]
                 = HD!Nibble(chars[j])
  <2>1. (j + 1) \div 2 \in 1..size
    OBVIOUS
  <2>2. padded[(j + 1) \div 2] = <<HD!Nibble(chars[2 * ((j + 1) \div 2) - 1]),
                                   HD!Nibble(chars[2 * ((j + 1) \div 2)])>>
    BY <1>1, <1>3, <2>1
  <2>3. CASE j % 2 = 1
    <3>1. 2 * ((j + 1) \div 2) - 1 = j
      BY <2>3
    <3> QED
      BY <2>2, <2>3, <3>1
  <2>4. CASE j % 2 # 1
    <3>1. 2 * ((j + 1) \div 2) = j
      BY <2>4
    <3> QED
      BY <2>2, <2>4, <3>1
  <2> QED
    BY <2>3, <2>4
<1>6. HD!DigitsOf(padded) = HD!Lower(chars)
  <2>1. HD!DigitsOf(padded) = [j \in 1..(2 * size) |-> HD!Nibble(chars[j])]
    BY <1>3, <1>5 DEF HD!DigitsOf
  <2>2. DOMAIN chars = 1..(2 * size)
    OBVIOUS
  <2> QED
    BY <2>1, <2>2 DEF HD!Lower
<1> QED
  BY <1>1, <1>4, <1>6 DEF bytes, pairs

LEMMA HexBack ==
    ASSUME NEW k \in DOMAIN Property, Property[k].family = "hex",
           NEW canonical \in CanonicalsOf(k)
    PROVE  ConvertsBack(k, canonical)
<1> DEFINE size == HD!ByteLen(canonical)
           data == BytesOf(HD!RightAlignedPairs(canonical, size, 0))
           internal == Sent(k, Header \o data)
<1>1. canonical \in HexStrings
  BY CanonicalsTyped
<1>2. size \in Nat /\ 2 * size = Len(canonical)
  BY <1>1, HexFits
<1>3. canonical \in Seq(HD!Digit)
  BY <1>1 DEF HexStrings
<1>4. BytesOfHex(canonical, size) = Ok(data)
  BY <1>1, <1>2, HexDecodes
<1>5. data \in Seq(Byte) /\ HexOfBytes(data) = Ok(HD!Lower(canonical))
  BY <1>2, <1>3, HexReadsBack
<1> HIDE DEF data
<1>6. Encode(k, canonical) = Ok(Header \o data)
  BY <1>4, Encodes DEF EncodeHex, Ok
<1>7. DataOf(internal) = data
  BY <1>5, SentData
<1>8. DecodeHex(Property[k], internal) = Ok(HD!Lower(canonical))
  BY <1>5, <1>7 DEF DecodeHex, Ok
<1>9. Decode(k, internal) = Ok(Nearest(k, canonical))
  BY <1>8, Decodes, NearestOf
<1> QED
  BY <1>5, <1>6, <1>9, BackFromData

\* A manufacturer's code that is not moved fills the first three bytes.
LEMMA ManufacturerBytes ==
    ASSUME NEW chars \in Seq(HD!Digit), Len(chars) = 6, NEW size \in Nat,
           \/ size = 3
           \/ size >= 3 /\ \A i \in 1..6 : chars[i] = 0
    PROVE  SubSeq(BytesOf(HD!RightAlignedPairs(chars, size, 0)), 1, 3)
               = BytesOf(HD!RightAlignedPairs(chars, 3, 0))
<1> DEFINE wide == HD!RightAlignedPairs(chars, size, 0)
           three == HD!RightAlignedPairs(chars, 3, 0)
<1>1. \A j \in 1..3 : wide[j] = three[j]
  <2>1. CASE size = 3
    BY <2>1
  <2>2. CASE size >= 3 /\ \A i \in 1..6 : chars[i] = 0
    <3>1. ASSUME NEW n \in Nat, n >= 3, NEW j \in 1..3
          PROVE  HD!RightAlignedPairs(chars, n, 0)[j] = HD!ZeroByte
      <4> DEFINE at == Len(chars) - 2 * (n - j) - 2
      <4>1. at \in Int /\ at <= 4
        BY <3>1
      <4>2. HD!RightAlignedPairs(chars, n, 0)[j] =
                IF at >= 0
                THEN <<HD!Nibble(chars[at + 1]), HD!Nibble(chars[at + 2])>>
                ELSE HD!ZeroByte
        BY <3>1 DEF HD!RightAlignedPairs
      <4> HIDE DEF at
      <4>3. at >= 0 => chars[at + 1] = 0 /\ chars[at + 2] = 0
        BY <2>2, <4>1
      <4>4. HD!Nibble(0) = 0
        BY DEF HD!Nibble
      <4> QED
        BY <4>2, <4>3, <4>4 DEF HD!ZeroByte
    <3> QED
      BY <2>2, <3>1
  <2> QED
    BY <2>1, <2>2
<1>2. DOMAIN wide = 1..size /\ DOMAIN three = 1..3 /\ size >= 3
  BY DEF HD!RightAlignedPairs
<1> HIDE DEF wide, three
<1>3. /\ BytesOf(wide) = [j \in 1..size |-> 16 * wide[j][1] + wide[j][2]]
      /\ BytesOf(three) = [j \in 1..3 |-> 16 * three[j][1] + three[j][2]]
  BY <1>2 DEF BytesOf
<1>4. SubSeq(BytesOf(wide), 1, 3) = [j \in 1..3 |-> BytesOf(wide)[j]]
  BY <1>2, <1>3
<1>5. \A j \in 1..3 : BytesOf(wide)[j] = 16 * three[j][1] + three[j][2]
  BY <1>1, <1>2, <1>3
<1> HIDE DEF BytesOf
<1> QED
  BY <1>3, <1>4, <1>5 DEF wide, three

LEMMA FaultCodeBack ==
    ASSUME NEW k \in DOMAIN Property, Property[k].family = "fault_code",
           NEW canonical \in CanonicalsOf(k), NotMoved(canonical)
    PROVE  ConvertsBack(k, canonical)
<1> DEFINE p == Property[k]
           maker == canonical.manufacturer_code
           code == canonical.fault_code
           n == HD!ByteLen(code)
           size == HD!ByteLen(maker) + n
           first == BytesOf(HD!RightAlignedPairs(maker, 3, 0))
           rest == BytesOf(HD!RightAlignedPairs(code, n, 0))
           data == first \o rest
           internal == Sent(k, Header \o data)
<1>1. canonical \in [manufacturer_code : HexStrings, fault_code : HexStrings]
  BY CanonicalsTyped
<1>2. /\ maker \in HexStrings /\ maker \in Seq(HD!Digit)
      /\ code \in HexStrings /\ code \in Seq(HD!Digit)
  BY <1>1 DEF HexStrings
<1>3. /\ HD!ByteLen(maker) = 3 /\ Len(maker) = 2 * 3
      /\ n \in Nat /\ Len(code) = 2 * n
  BY <1>2, HexFits DEF NotMoved
<1>4. size \in Nat /\ size = 3 + n /\ size - 3 = n
  BY <1>3
<1>5. BytesOfHex(maker, size)
          = Ok(BytesOf(HD!RightAlignedPairs(maker, size, 0)))
  BY <1>2, <1>3, <1>4, HexDecodes
<1>6. BytesOfHex(code, size - 3) = Ok(rest)
  BY <1>2, <1>3, <1>4, HexDecodes
<1>7. SubSeq(BytesOf(HD!RightAlignedPairs(maker, size, 0)), 1, 3) = first
  <2>1. code = <<>> => n = 0
    BY <1>3
  <2>2. \/ size = 3
        \/ size >= 3 /\ \A i \in 1..6 : maker[i] = 0
    BY <1>3, <1>4, <2>1 DEF NotMoved
  <2>3. Len(maker) = 6
    BY <1>3
  <2> QED
    BY <1>2, <1>4, <2>2, <2>3, ManufacturerBytes
<1>8. /\ first \in Seq(Byte) /\ Len(first) = 3
      /\ HexOfBytes(first) = Ok(HD!Lower(maker))
  BY <1>2, <1>3, HexReadsBack
<1>9. /\ rest \in Seq(Byte) /\ Len(rest) = n
      /\ HexOfBytes(rest) = Ok(HD!Lower(code))
  BY <1>2, <1>3, HexReadsBack
<1> HIDE DEF first, rest, n
<1>10. Encode(k, canonical) = Ok(Header \o data)
  <2>1. Encode(k, canonical) = EncodeFaultCode(p, canonical)
    BY Encodes
  <2>2. ~ (size < 3)
    BY <1>3, <1>4
  <2>3. EncodeFaultCode(p, canonical) = Ok(Header \o first \o rest)
    <3> DEFINE manufacturer == BytesOfHex(maker, size)
               fault == BytesOfHex(code, size - 3)
    <3>1. /\ manufacturer.tag = "ok"
          /\ SubSeq(manufacturer.value, 1, 3) = first
      BY <1>5, <1>7 DEF Ok
    <3>2. fault.tag = "ok" /\ fault.value = rest
      BY <1>6 DEF Ok
    <3>3. EncodeFaultCode(p, canonical) =
              IF manufacturer.tag # "ok" THEN manufacturer
              ELSE IF size < 3 THEN Panic
              ELSE IF fault.tag # "ok" THEN fault
              ELSE Ok(Header \o SubSeq(manufacturer.value, 1, 3)
                             \o fault.value)
      BY DEF EncodeFaultCode, n
    <3> HIDE DEF manufacturer, fault, size
    <3> QED
      BY Zenon, <2>2, <3>1, <3>2, <3>3
  <2>4. Header \in Seq(Byte)
    BY DEF Header, Byte
  <2>5. (Header \o first) \o rest = Header \o data
    BY <1>8, <1>9, <2>4, ConcatAssociative
  <2> QED
    BY <2>1, <2>3, <2>5
<1>11. /\ data \in Seq(Byte) /\ Len(data) = 3 + n
       /\ \A i \in 1..(3 + n) :
             data[i] = IF i <= 3 THEN first[i] ELSE rest[i - 3]
  <2>1. /\ data \in Seq(Byte)
        /\ Len(data) = Len(first) + Len(rest)
        /\ \A i \in 1..(Len(first) + Len(rest)) :
              data[i] = IF i <= Len(first) THEN first[i]
                        ELSE rest[i - Len(first)]
    BY <1>8, <1>9, ConcatProperties
  <2> HIDE DEF data
  <2> QED
    BY <1>8, <1>9, <2>1
<1> HIDE DEF data
<1>12. /\ internal \in Seq(Byte) /\ Len(internal) = 5 + n
       /\ \A i \in DOMAIN data : internal[i + 2] = data[i]
  <2>1. /\ internal \in Seq(Byte) /\ Len(internal) = Len(data) + 2
        /\ \A i \in DOMAIN data : internal[i + 2] = data[i]
    BY <1>11, SentData
  <2> HIDE DEF internal
  <2> QED
    BY <1>3, <1>11, <2>1
<1> HIDE DEF internal
<1>13. SubSeq(internal, 3, 5) = first
  <2>1. \A i \in 1..3 : internal[i + 2] = first[i]
    <3>1. \A i \in 1..3 : i \in DOMAIN data
      BY <1>3, <1>11
    <3>2. \A i \in 1..3 : data[i] = first[i]
      BY <1>3, <1>11
    <3> QED
      BY <1>12, <3>1, <3>2
  <2>2. SubSeq(internal, 3, 5) = [i \in 1..3 |-> internal[i + 2]]
    BY <1>3, <1>12
  <2>3. first = [i \in 1..3 |-> first[i]]
    BY <1>8
  <2> QED
    BY <2>1, <2>2, <2>3
<1>14. SubSeq(internal, 6, Len(internal)) = rest
  <2>1. ASSUME NEW i \in 1..n PROVE internal[i + 5] = rest[i]
    <3>1. i + 3 \in DOMAIN data /\ (i + 3) + 2 = i + 5
      BY <1>3, <1>11
    <3>2. internal[(i + 3) + 2] = data[i + 3]
      BY <1>12, <3>1
    <3>3. data[i + 3] = rest[(i + 3) - 3] /\ (i + 3) - 3 = i
      BY <1>3, <1>11
    <3> QED
      BY <3>1, <3>2, <3>3
  <2>2. /\ SubSeq(internal, 6, 5 + n) \in Seq(Byte)
        /\ Len(SubSeq(internal, 6, 5 + n)) = n
        /\ \A i \in 1..n : SubSeq(internal, 6, 5 + n)[i] = internal[i + 5]
    BY <1>3, <1>12
  <2>3. SubSeq(internal, 6, 5 + n) = rest
    BY <1>9, <2>1, <2>2, SeqEqual
  <2> QED
    BY <1>12, <2>3
<1>15. DecodeFaultCode(p, internal) = Ok(Nearest(k, canonical))
  <2>1. ~ (Len(internal) < 5)
    BY <1>3, <1>12
  <2>2. Nearest(k, canonical) =
            [manufacturer_code |-> HD!Lower(maker),
             fault_code |-> HD!Lower(code)]
    BY NearestOf
  <2>3. /\ HexOfBytes(SubSeq(internal, 3, 5)).value = HD!Lower(maker)
        /\ HexOfBytes(SubSeq(internal, 6, Len(internal))).value
               = HD!Lower(code)
    <3>1. \A value : Ok(value).value = value
      BY DEF Ok
    <3> QED
      BY Zenon, <1>8, <1>9, <1>13, <1>14, <3>1
  <2> QED
    BY Zenon, <2>1, <2>2, <2>3 DEF DecodeFaultCode
<1>16. Decode(k, internal) = Ok(Nearest(k, canonical))
  BY <1>15, Decodes
<1> QED
  BY <1>10, <1>11, <1>16, BackFromData DEF internal

-----------------------------------------------------------------------------
(* The description of a fault.                                             *)

\* The names, by the part of the enum they belong to.
LEMMA FaultNames ==
    /\ DOMAIN Recoverable = 1..6
    /\ \A i, j \in 1..6 : Recoverable[i] = Recoverable[j] => i = j
    /\ \A i \in 1..6 :
          /\ Recoverable[i] \notin DOMAIN Indexed
          /\ Recoverable[i] \notin {"None", "RecoverableUserDefined",
                                    "RepairUserDefined", "EchonetMiddleware",
                                    "Indeterminate"}
    /\ "None" \notin DOMAIN Indexed
    /\ "RecoverableUserDefined" \notin DOMAIN Indexed
    /\ "RepairUserDefined" \notin DOMAIN Indexed
    /\ "EchonetMiddleware" \notin DOMAIN Indexed
    /\ "Indeterminate" \notin DOMAIN Indexed
<1>1. DOMAIN Indexed = {"RepairSafetyDevice", "RepairSwitch", "RepairSensor",
                        "RepairComponent", "RepairControlBoard"}
  BY DEF Indexed
<1>2. DOMAIN Recoverable = 1..6
  BY DEF Recoverable
<1>3. \A i, j \in 1..6 : Recoverable[i] = Recoverable[j] => i = j
  BY DEF Recoverable
<1>4. \A i \in 1..6 :
          /\ Recoverable[i] \notin DOMAIN Indexed
          /\ Recoverable[i] \notin {"None", "RecoverableUserDefined",
                                    "RepairUserDefined", "EchonetMiddleware",
                                    "Indeterminate"}
  BY <1>1 DEF Recoverable
<1> QED
  BY <1>1, <1>2, <1>3, <1>4

\* The codes of the variants with an index are apart from each other and from
\* the others.
LEMMA IndexedCodes ==
    /\ \A name \in DOMAIN Indexed :
          /\ Indexed[name].first \in Nat /\ Indexed[name].last \in Nat
          /\ Indexed[name].first >= 10 /\ Indexed[name].last <= 110
    /\ \A name, other \in DOMAIN Indexed :
          Indexed[other].first <= Indexed[name].last
            /\ Indexed[name].first <= Indexed[other].last => name = other
  BY DEF Indexed

\* What a fault is on the wire.
LEMMA FaultCodes ==
    ASSUME NEW fault
    PROVE  /\ \A i \in 1..6 : fault.name = Recoverable[i] => ToU16(fault) = i
           /\ fault.name = "RecoverableUserDefined" =>
                ToU16(fault) = 256 * fault.payload + 9
           /\ fault.name \in DOMAIN Indexed =>
                ToU16(fault) = Indexed[fault.name].first + fault.payload
           /\ fault.name \in {"RepairUserDefined", "EchonetMiddleware"} =>
                ToU16(fault) = fault.payload
           /\ fault.name = "Indeterminate" => ToU16(fault) = 1023
<1> DEFINE Recovers == \E i \in DOMAIN Recoverable : Recoverable[i] = fault.name
<1>1. ASSUME NEW i \in 1..6, fault.name = Recoverable[i]
      PROVE  ToU16(fault) = i
  <2>1. (CHOOSE j \in DOMAIN Recoverable : Recoverable[j] = fault.name) = i
    BY <1>1, FaultNames
  <2>2. Recovers /\ fault.name # "None"
    BY <1>1, FaultNames
  <2>3. /\ fault.name # "RecoverableUserDefined"
        /\ fault.name \notin DOMAIN Indexed
        /\ fault.name \notin {"RepairUserDefined", "EchonetMiddleware"}
        /\ fault.name # "Indeterminate"
    BY <1>1, FaultNames
  <2> QED
    BY Zenon, <2>1, <2>2, <2>3 DEF ToU16
<1>2. fault.name \in {"RecoverableUserDefined", "RepairUserDefined",
                      "EchonetMiddleware", "Indeterminate"} => ~ Recovers
  BY FaultNames
<1>3. fault.name \in DOMAIN Indexed => ~ Recovers
  BY FaultNames
<1>4. ASSUME fault.name = "RecoverableUserDefined"
      PROVE  ToU16(fault) = 256 * fault.payload + 9
  BY Zenon, <1>2, <1>4, FaultNames DEF ToU16
<1>5. ASSUME fault.name \in DOMAIN Indexed
      PROVE  ToU16(fault) = Indexed[fault.name].first + fault.payload
  <2>1. /\ ~ Recovers /\ fault.name # "None"
        /\ fault.name # "RecoverableUserDefined"
        /\ fault.name \notin {"RepairUserDefined", "EchonetMiddleware"}
        /\ fault.name # "Indeterminate"
    BY <1>3, <1>5, FaultNames
  <2> QED
    BY Zenon, <1>5, <2>1 DEF ToU16
<1>6. ASSUME fault.name \in {"RepairUserDefined", "EchonetMiddleware"}
      PROVE  ToU16(fault) = fault.payload
  <2>1. /\ ~ Recovers /\ fault.name # "None"
        /\ fault.name # "RecoverableUserDefined"
        /\ fault.name \notin DOMAIN Indexed
        /\ fault.name # "Indeterminate"
    BY <1>2, <1>6, FaultNames
  <2> QED
    BY Zenon, <1>6, <2>1 DEF ToU16
<1>7. ASSUME fault.name = "Indeterminate"
      PROVE  ToU16(fault) = 1023
  <2>1. /\ ~ Recovers /\ fault.name # "None"
        /\ fault.name # "RecoverableUserDefined"
        /\ fault.name \notin DOMAIN Indexed
        /\ fault.name \notin {"RepairUserDefined", "EchonetMiddleware"}
    BY <1>2, <1>7, FaultNames
  <2> QED
    BY <1>7, <2>1 DEF ToU16
<1> QED
  BY <1>1, <1>4, <1>5, <1>6, <1>7

\* What a number on the wire is read as, by the codes it is one of.
LEMMA FaultsByCode ==
    ASSUME NEW code \in Nat
    PROVE  /\ \A i \in 1..6 :
                 code = i => TryFromU16(code) = Ok(Fault(Recoverable[i], 0))
           /\ code = 9 =>
                TryFromU16(code) = Ok(Fault("RecoverableUserDefined", 0))
           /\ \A name \in DOMAIN Indexed :
                 code >= Indexed[name].first /\ code <= Indexed[name].last =>
                    TryFromU16(code)
                        = Ok(Fault(name, code - Indexed[name].first))
           /\ code \in 111..1000 /\ (code % 256) >= 111 =>
                TryFromU16(code) = Ok(Fault("RepairUserDefined", code))
           /\ code \in 1001..1004 =>
                TryFromU16(code) = Ok(Fault("EchonetMiddleware", code))
           /\ code = 1023 => TryFromU16(code) = Ok(Fault("Indeterminate", 0))
<1>1. HighByte(code) = 0
  BY DEF HighByte
<1>2. (code % 256) < 111 => TryFromU16(code) = FromLowByte(code % 256, 0)
  BY Zenon, <1>1 DEF TryFromU16
<1>3. ~ ((code % 256) < 111) => TryFromU16(code) = FromWord(code)
  BY Zenon, <1>1 DEF TryFromU16
<1>4. code <= 110 => TryFromU16(code) = FromLowByte(code, 0)
  <2>1. code <= 110 => (code % 256) = code /\ (code % 256) < 111
    OBVIOUS
  <2> QED
    BY <1>2, <2>1
<1>5. ASSUME NEW i \in 1..6, code = i
      PROVE  TryFromU16(code) = Ok(Fault(Recoverable[i], 0))
  BY <1>4, <1>5, FaultNames DEF FromLowByte
<1>6. ASSUME code = 9
      PROVE  TryFromU16(code) = Ok(Fault("RecoverableUserDefined", 0))
  BY <1>4, <1>6, FaultNames DEF FromLowByte
<1>7. ASSUME NEW name \in DOMAIN Indexed,
             code >= Indexed[name].first, code <= Indexed[name].last
      PROVE  TryFromU16(code) = Ok(Fault(name, code - Indexed[name].first))
  <2>1. /\ code >= 10 /\ code <= 110
        /\ code \in Indexed[name].first..Indexed[name].last
    BY <1>7, IndexedCodes
  <2>2. ASSUME NEW other \in DOMAIN Indexed,
               code \in Indexed[other].first..Indexed[other].last
        PROVE  name = other
    <3>1. /\ code >= Indexed[other].first /\ code <= Indexed[other].last
      BY <2>2, IndexedCodes
    <3>2. /\ Indexed[other].first <= Indexed[name].last
          /\ Indexed[name].first <= Indexed[other].last
      BY <1>7, <3>1, IndexedCodes
    <3> QED
      BY <3>2, IndexedCodes
  <2>3. (CHOOSE other \in DOMAIN Indexed :
             code \in Indexed[other].first..Indexed[other].last) = name
    BY <2>1, <2>2
  <2>4. code \notin DOMAIN Recoverable /\ code # 9
    BY <2>1, FaultNames
  <2>5. FromLowByte(code, 0) = Ok(Fault(name, code - Indexed[name].first))
    BY Zenon, <2>1, <2>3, <2>4 DEF FromLowByte
  <2> QED
    BY <1>4, <2>1, <2>5
<1>8. ASSUME code \in 111..1000, (code % 256) >= 111
      PROVE  TryFromU16(code) = Ok(Fault("RepairUserDefined", code))
  <2>1. TryFromU16(code) = FromWord(code)
    BY <1>3, <1>8
  <2>2. code # 0 /\ code \notin 1001..1004 /\ code # 1023
    BY <1>8
  <2>3. FromWord(code) = Ok(Fault("RepairUserDefined", code))
    BY <1>8, <2>2 DEF FromWord
  <2> QED
    BY <2>1, <2>3
<1>9. ASSUME code \in 1001..1004
      PROVE  TryFromU16(code) = Ok(Fault("EchonetMiddleware", code))
  <2>1. (code % 256) >= 111
    BY <1>9
  <2>2. TryFromU16(code) = FromWord(code)
    BY <1>3, <2>1
  <2>3. code # 0 /\ code \notin 111..1000 /\ code # 1023
    BY <1>9
  <2>4. FromWord(code) = Ok(Fault("EchonetMiddleware", code))
    BY <1>9, <2>3 DEF FromWord
  <2> QED
    BY <2>2, <2>4
<1>10. ASSUME code = 1023
       PROVE  TryFromU16(code) = Ok(Fault("Indeterminate", 0))
  <2>1. (code % 256) >= 111
    BY <1>10
  <2>2. TryFromU16(code) = FromWord(code)
    BY <1>3, <2>1
  <2>3. code # 0 /\ code \notin 111..1000 /\ code \notin 1001..1004
    BY <1>10
  <2>4. FromWord(code) = Ok(Fault("Indeterminate", 0))
    BY <1>10, <2>3 DEF FromWord
  <2> QED
    BY <2>2, <2>4
<1> QED
  BY <1>5, <1>6, <1>7, <1>8, <1>9, <1>10

\* A fault that is unambiguous is read back from its code.
LEMMA UnambiguousReadsBack ==
    ASSUME NEW fault \in Faults, Unambiguous(fault)
    PROVE  /\ ToU16(fault) \in Word
           /\ TryFromU16(ToU16(fault)) = Ok(fault)
<1> DEFINE Back == /\ ToU16(fault) \in Word
                   /\ TryFromU16(ToU16(fault)) = Ok(fault)
           UserCode == /\ fault.name = "RepairUserDefined"
                       /\ fault.payload \in 111..1000
                       /\ fault.payload % 256 >= 111
           MiddlewareCode == /\ fault.name = "EchonetMiddleware"
                             /\ fault.payload \in 1001..1004
<1> SUFFICES Back
  OBVIOUS
<1>1. fault = Fault(fault.name, fault.payload)
  BY DEF Faults, Fault
<1>2. CASE \E i \in DOMAIN Recoverable : Recoverable[i] = fault.name
  <2>1. PICK i \in 1..6 : Recoverable[i] = fault.name
    BY <1>2, FaultNames
  <2>2. fault.payload = 0
    BY <2>1, FaultNames DEF Faults
  <2>3. ToU16(fault) = i
    BY <2>1, FaultCodes
  <2>4. i \in Word /\ i \in Nat
    BY DEF Word
  <2>5. TryFromU16(i) = Ok(Fault(Recoverable[i], 0))
    BY <2>4, FaultsByCode
  <2> QED
    BY <1>1, <2>1, <2>2, <2>3, <2>4, <2>5
<1>3. CASE fault = Fault("RecoverableUserDefined", 0)
  <2>1. fault.name = "RecoverableUserDefined" /\ fault.payload = 0
    BY <1>3 DEF Fault
  <2>2. ToU16(fault) = 9
    BY <2>1, FaultCodes
  <2>3. 9 \in Word /\ 9 \in Nat
    BY DEF Word
  <2> QED
    BY <1>3, <2>2, <2>3, FaultsByCode
<1>4. CASE /\ fault.name \in DOMAIN Indexed
           /\ Indexed[fault.name].first + fault.payload
                  <= Indexed[fault.name].last
  <2> DEFINE codes == Indexed[fault.name]
             code  == codes.first + fault.payload
  <2>1. fault.payload \in Nat
    <3>1. fault.payload \in Byte
      BY <1>4, FaultNames DEF Faults
    <3> QED
      BY <3>1, ByteBounds
  <2>2. /\ codes.first \in Nat /\ codes.last \in Nat /\ codes.last <= 110
    BY <1>4, IndexedCodes
  <2>3. ToU16(fault) = code
    BY <1>4, FaultCodes
  <2> HIDE DEF codes
  <2>4. /\ code \in Nat /\ code >= codes.first /\ code <= codes.last
        /\ code - codes.first = fault.payload
    BY <1>4, <2>1, <2>2 DEF codes
  <2>5. code \in Word
    BY <2>2, <2>4 DEF Word
  <2>6. TryFromU16(code) = Ok(Fault(fault.name, code - codes.first))
    <3> HIDE DEF code
    <3> QED
      BY <1>4, <2>4, FaultsByCode DEF codes
  <2> QED
    BY <1>1, <2>3, <2>4, <2>5, <2>6
<1>5. CASE UserCode
  <2>1. ToU16(fault) = fault.payload
    BY <1>5, FaultCodes
  <2>2. fault.payload \in Word /\ fault.payload \in Nat
    <3>1. fault.payload \in 111..1000
      BY <1>5
    <3> QED
      BY SMTT(30), <3>1 DEF Word
  <2>3. TryFromU16(fault.payload)
            = Ok(Fault("RepairUserDefined", fault.payload))
    BY <1>5, <2>2, FaultsByCode
  <2> QED
    BY <1>1, <1>5, <2>1, <2>2, <2>3
<1>6. CASE MiddlewareCode
  <2>1. ToU16(fault) = fault.payload
    BY <1>6, FaultCodes
  <2>2. fault.payload \in Word /\ fault.payload \in Nat
    BY <1>6 DEF Word
  <2>3. TryFromU16(fault.payload)
            = Ok(Fault("EchonetMiddleware", fault.payload))
    BY <1>6, <2>2, FaultsByCode
  <2> QED
    BY <1>1, <1>6, <2>1, <2>2, <2>3
<1>7. CASE fault.name = "Indeterminate"
  <2>1. fault.payload = 0
    BY <1>7, FaultNames DEF Faults
  <2>2. ToU16(fault) = 1023
    BY <1>7, FaultCodes
  <2>3. 1023 \in Word /\ 1023 \in Nat
    BY DEF Word
  <2>4. TryFromU16(1023) = Ok(Fault("Indeterminate", 0))
    BY <2>3, FaultsByCode
  <2> QED
    BY <1>1, <1>7, <2>1, <2>2, <2>3, <2>4
<1>8. \/ \E i \in DOMAIN Recoverable : Recoverable[i] = fault.name
      \/ fault = Fault("RecoverableUserDefined", 0)
      \/ /\ fault.name \in DOMAIN Indexed
         /\ Indexed[fault.name].first + fault.payload
                <= Indexed[fault.name].last
      \/ UserCode
      \/ MiddlewareCode
      \/ fault.name = "Indeterminate"
  BY Zenon DEF Unambiguous
<1> HIDE DEF Back, UserCode, MiddlewareCode
<1> QED
  BY Zenon, <1>2, <1>3, <1>4, <1>5, <1>6, <1>7, <1>8

LEMMA FaultBack ==
    ASSUME NEW k \in DOMAIN Property, Property[k].family = "fault",
           NEW canonical \in CanonicalsOf(k), Unambiguous(canonical)
    PROVE  ConvertsBack(k, canonical)
<1> DEFINE p == Property[k]
           code == ToU16(canonical)
           data == BigEndian(code, 2)
           internal == Sent(k, Header \o data)
<1>1. canonical \in Faults
  BY CanonicalsTyped
<1>2. code \in Word /\ TryFromU16(code) = Ok(canonical)
  BY <1>1, UnambiguousReadsBack
<1> HIDE DEF code
<1>3. code \in Nat /\ code < 256^2
  BY SMT, <1>2, Powers DEF Word
<1>4. data \in Seq(Byte) /\ Len(data) = 2
  BY <1>3, BigEndianBytes
<1>5. Encode(k, canonical) = Ok(Header \o data)
  BY Encodes DEF EncodeFault, code
<1>6. Number(data) = code
  BY <1>3, NumberReadsBack
<1> HIDE DEF data
<1>7. Len(internal) = Len(data) + 2 /\ DataOf(internal) = data
  BY <1>4, SentData
<1> HIDE DEF internal
<1>8. Decode(k, internal) = Ok(Nearest(k, canonical))
  <2>1. DecodeFault(p, internal) = Ok(canonical)
    BY <1>2, <1>4, <1>6, <1>7 DEF DecodeFault
  <2> QED
    BY <2>1, Decodes, NearestOf
<1> QED
  BY <1>4, <1>5, <1>8, BackFromData DEF internal

-----------------------------------------------------------------------------
(* All kinds.                                                              *)

\* But for the values that change, what from_canonical_fn makes of a canonical
\* value is that value again for to_canonical_fn.
LEMMA UnalteredBack ==
    ASSUME NEW k \in DOMAIN Property, NEW canonical \in CanonicalsOf(k),
           ~ Altered(k, canonical)
    PROVE  ConvertsBack(k, canonical)
<1> DEFINE family == Property[k].family
<1>1. CASE family = "duration"
  <2>1. Encode(k, canonical).tag # "ok"
    BY <1>1, Encodes DEF EncodeDuration, Panic, Err
  <2> QED
    BY <2>1 DEF ConvertsBack
<1>2. CASE family \in {"boolean", "integer", "packed", "hex", "ascii", "time",
                       "profile_version", "remote_control"}
  BY <1>2, BooleanBack, IntegerBack, PackedBack, HexBack, AsciiBack, TimeBack,
     ProfileVersionBack, RemoteControlBack
<1>3. CASE family \in {"date", "fault", "location", "eoj_array", "fault_code",
                       "device_version"}
  BY <1>3, AlteredOf, DateBack, FaultBack, LocationBack, EOJsBack,
     FaultCodeBack, DeviceVersionBack
<1>4. family # "property_map"
  BY AlteredOf
<1> QED
  BY <1>1, <1>2, <1>3, <1>4, Families

-----------------------------------------------------------------------------
(* What is encoded passes the validator.                                   *)

\* from_canonical_fn makes bytes of the value that the validator accepts,
\* whatever is stored.
Accepted(k, canonical) ==
    LET encoded == Encode(k, canonical)
    IN  /\ encoded.tag = "ok"
        /\ encoded.value \in Seq(Byte)
        /\ Len(encoded.value) >= 2
        /\ \A stored :
              Validate(k, Sent(k, encoded.value), stored) = Ok(TRUE)

LEMMA AcceptedFromData ==
    ASSUME NEW k \in DOMAIN Property, NEW canonical, NEW data \in Seq(Byte),
           Encode(k, canonical) = Ok(Header \o data),
           \A stored :
              Validate(k, Sent(k, Header \o data), stored) = Ok(TRUE)
    PROVE  Accepted(k, canonical)
<1>1. Header \in Seq(Byte)
  BY DEF Header, Byte
<1>2. Len(data) \in Nat /\ Len(Header) = 2
  BY DEF Header
<1>3. Header \o data \in Seq(Byte) /\ Len(Header \o data) = Len(Header) + Len(data)
  BY <1>1, ConcatProperties
<1>4. Len(Header \o data) >= 2
  BY <1>2, <1>3
<1> QED
  BY <1>3, <1>4 DEF Accepted, Ok

LEMMA WordAccepted ==
    ASSUME NEW k \in DOMAIN Property, Property[k].family = "integer",
           Property[k].saturates = FALSE,
           NEW canonical \in CanonicalsOf(k), Representable(k, canonical)
    PROVE  Accepted(k, canonical)
<1> DEFINE p == Property[k]
           data == BigEndian(canonical, 2)
           internal == Sent(k, Header \o data)
<1>1. /\ p.size = 2 /\ p.saturates = FALSE
      /\ p.sentinels = FALSE \/ p.sentinels = TRUE
  BY IntegerParameters
<1>2. canonical \in Word
  BY <1>1, CanonicalsTyped DEF IntegersOf
<1>3. canonical \in Nat /\ canonical < 256^2
  BY SMT, <1>2, Powers DEF Word
<1>4. data \in Seq(Byte) /\ Len(data) = 2 /\ Number(data) = canonical
  BY <1>3, BigEndianBytes, NumberReadsBack
<1>5. Encode(k, canonical) = Ok(Header \o data)
  BY <1>1, Encodes DEF EncodeInteger
<1>6. p.sentinels => data \notin {Underflow(2), Overflow(2)}
  <2>1. p.sentinels => canonical < 65534
    BY <1>1, RepresentableOf
  <2>2. /\ Len(Overflow(2)) = 2 /\ Len(Underflow(2)) = 2
        /\ Overflow(2)[1] = 255 /\ Overflow(2)[2] = 255
        /\ Underflow(2)[1] = 255 /\ Underflow(2)[2] = 254
    BY OverflowBytes
  <2>3. Number(Overflow(2)) = 65535 /\ Number(Underflow(2)) = 65534
    BY <2>2, NumberOfTwo
  <2> QED
    BY <1>2, <1>4, <2>1, <2>3 DEF Word
<1> HIDE DEF data
<1>7. Len(internal) = Len(data) + 2 /\ DataOf(internal) = data
  BY <1>4, SentData
<1> HIDE DEF internal
<1>8. ValidateInteger(p, internal) = Ok(TRUE)
  BY <1>1, <1>4, <1>6, <1>7 DEF ValidateInteger
<1>9. \A stored : Validate(k, internal, stored) = Ok(TRUE)
  BY <1>8, Validates
<1> QED
  BY <1>4, <1>5, <1>9, AcceptedFromData DEF internal

\* A count below the two sentinels.
LEMMA CountAccepted ==
    ASSUME NEW k \in DOMAIN Property, Property[k].family = "integer",
           Property[k].saturates = TRUE,
           NEW canonical \in CanonicalsOf(k), ~ Refused(k, canonical)
    PROVE  Accepted(k, canonical)
<1> DEFINE p == Property[k]
           data == BigEndian(canonical, 3)
           internal == Sent(k, Header \o data)
<1>1. p.size = 3 /\ p.saturates = TRUE
  BY IntegerParameters
<1>2. canonical \in Nat
  BY <1>1, CanonicalsTyped DEF IntegersOf
<1>3. canonical < 16777214 /\ canonical < 256^3
  <2>1. ~ (canonical >= 256^3 - 2)
    BY <1>1, RefusedOf
  <2> QED
    BY SMT, <1>2, <2>1, Powers
<1>4. data \in Seq(Byte) /\ Len(data) = 3 /\ Number(data) = canonical
  BY <1>2, <1>3, BigEndianBytes, NumberReadsBack
<1>5. Encode(k, canonical) = Ok(Header \o data)
  <2>1. ~ (canonical >= 256^3 - 1)
    BY SMT, <1>2, <1>3, Powers
  <2> QED
    BY <1>1, <2>1, Encodes DEF EncodeInteger
<1>6. data \notin {Underflow(3), Overflow(3)}
  <2>1. /\ Len(Overflow(3)) = 3 /\ Len(Underflow(3)) = 3
        /\ Overflow(3)[1] = 255 /\ Overflow(3)[2] = 255
        /\ Overflow(3)[3] = 255
        /\ Underflow(3)[1] = 255 /\ Underflow(3)[2] = 255
        /\ Underflow(3)[3] = 254
    BY OverflowBytes
  <2>2. /\ Number(Overflow(3)) = 256^2 * 255 + 256 * 255 + 255
        /\ Number(Underflow(3)) = 256^2 * 255 + 256 * 255 + 254
    BY <2>1, NumberOfThree
  <2> HIDE DEF data
  <2> QED
    BY <1>3, <1>4, <2>2, Powers
<1> HIDE DEF data
<1>7. Len(internal) = Len(data) + 2 /\ DataOf(internal) = data
  BY <1>4, SentData
<1> HIDE DEF internal
<1>8. ValidateInteger(p, internal) = Ok(TRUE)
  BY <1>1, <1>4, <1>6, <1>7 DEF ValidateInteger
<1>9. \A stored : Validate(k, internal, stored) = Ok(TRUE)
  BY <1>8, Validates
<1> QED
  BY <1>4, <1>5, <1>9, AcceptedFromData DEF internal

LEMMA IntegerAccepted ==
    ASSUME NEW k \in DOMAIN Property, Property[k].family = "integer",
           NEW canonical \in CanonicalsOf(k),
           Representable(k, canonical), ~ Refused(k, canonical)
    PROVE  Accepted(k, canonical)
  BY IntegerParameters, WordAccepted, CountAccepted

\* The bytes of numbers are ordered as the numbers are.
LEMMA NumbersInOrder ==
    ASSUME NEW size \in {1, 4}, NEW n \in Nat, NEW limit \in Nat,
           n <= limit, limit < 256^size
    PROVE  AtMost(BigEndian(n, size), BigEndian(limit, size))
<1> DEFINE bytes == BigEndian(n, size)
           most == BigEndian(limit, size)
<1>1. /\ Len(bytes) = size /\ Len(most) = size
      /\ bytes \in Seq(Byte) /\ most \in Seq(Byte)
      /\ DOMAIN bytes = 1..size /\ DOMAIN most = 1..size
  <2>1. size \in {1, 2, 3, 4}
    OBVIOUS
  <2>2. bytes \in Seq(Byte) /\ Len(bytes) = size
    BY <2>1, BigEndianBytes
  <2>3. most \in Seq(Byte) /\ Len(most) = size
    BY <2>1, BigEndianBytes
  <2> HIDE DEF bytes, most
  <2> QED
    BY <2>2, <2>3
<1>2. \A i \in 1..size : /\ bytes[i] \in Nat /\ bytes[i] <= 255
                         /\ most[i] \in Nat /\ most[i] <= 255
  BY <1>1, ByteAt
<1>3. n < 256^size
  <2>1. CASE size = 1
    BY SMT, <2>1, Powers
  <2>2. CASE size = 4
    <3>1. 256^4 \in Nat
      BY SMT
    <3> QED
      BY <2>2, <3>1
  <2> QED
    BY <2>1, <2>2
<1>4. Number(bytes) = n /\ Number(most) = limit
  <2>1. size \in {1, 2, 3, 4}
    OBVIOUS
  <2>2. Number(bytes) = n
    BY ZenonT(60), <1>3, <2>1, NumberReadsBack
  <2>3. Number(most) = limit
    BY ZenonT(60), <2>1, NumberReadsBack
  <2> QED
    BY <2>2, <2>3
<1> HIDE DEF bytes, most
<1>5. CASE size = 1
  <2>1. /\ Number(bytes) = bytes[1] /\ Number(most) = most[1]
    BY <1>1, <1>2, <1>5, NumberOfOne
  <2>2. bytes[1] = most[1] => bytes = most
    BY <1>1, <1>5
  <2>3. bytes[1] < most[1] => AtMost(bytes, most)
    BY <1>1, <1>5 DEF AtMost
  <2>4. bytes[1] < most[1] \/ bytes[1] = most[1]
    BY <1>2, <1>4, <1>5, <2>1
  <2> QED
    BY <2>2, <2>3, <2>4 DEF AtMost, bytes, most
<1>6. CASE size = 4
  <2> DEFINE a == bytes[1]
             b == bytes[2]
             c == bytes[3]
             d == bytes[4]
             e == most[1]
             f == most[2]
             g == most[3]
             h == most[4]
  <2>1. /\ a \in Nat /\ a <= 255 /\ b \in Nat /\ b <= 255
        /\ c \in Nat /\ c <= 255 /\ d \in Nat /\ d <= 255
        /\ e \in Nat /\ e <= 255 /\ f \in Nat /\ f <= 255
        /\ g \in Nat /\ g <= 255 /\ h \in Nat /\ h <= 255
    BY <1>2, <1>6
  <2>2. /\ n = 256^3 * a + 256^2 * b + 256 * c + d
        /\ limit = 256^3 * e + 256^2 * f + 256 * g + h
    <3>1. Len(bytes) = 4 /\ Len(most) = 4
      BY <1>1, <1>6
    <3>2. Number(bytes) = 256^3 * a + 256^2 * b + 256 * c + d
      BY <2>1, <3>1, NumberOfFour
    <3>3. Number(most) = 256^3 * e + 256^2 * f + 256 * g + h
      BY <2>1, <3>1, NumberOfFour
    <3> HIDE DEF a, b, c, d, e, f, g, h
    <3> QED
      BY Zenon, <1>4, <3>2, <3>3
  <2>3. \/ a < e
        \/ a = e /\ b < f
        \/ a = e /\ b = f /\ c < g
        \/ a = e /\ b = f /\ c = g /\ d <= h
    <3> HIDE DEF a, b, c, d, e, f, g, h
    <3> QED
      BY SMT, <2>1, <2>2, Powers
  <2>4. a < e => AtMost(bytes, most)
    BY <1>1, <1>6 DEF AtMost
  <2>5. a = e /\ b < f => AtMost(bytes, most)
    <3>1. \A j \in 1..(2 - 1) : j = 1
      OBVIOUS
    <3> QED
      BY <1>1, <1>6, <3>1 DEF AtMost
  <2>6. a = e /\ b = f /\ c < g => AtMost(bytes, most)
    <3>1. \A j \in 1..(3 - 1) : j = 1 \/ j = 2
      OBVIOUS
    <3> QED
      BY <1>1, <1>6, <3>1 DEF AtMost
  <2>7. a = e /\ b = f /\ c = g /\ d < h => AtMost(bytes, most)
    <3>1. \A j \in 1..(4 - 1) : j = 1 \/ j = 2 \/ j = 3
      OBVIOUS
    <3> QED
      BY <1>1, <1>6, <3>1 DEF AtMost
  <2>8. a = e /\ b = f /\ c = g /\ d = h => bytes = most
    <3>1. \A j \in 1..4 : j = 1 \/ j = 2 \/ j = 3 \/ j = 4
      OBVIOUS
    <3> QED
      BY <1>1, <1>6, <3>1
  <2>9. d <= h => d < h \/ d = h
    BY <2>1
  <2> QED
    BY <2>3, <2>4, <2>5, <2>6, <2>7, <2>8, <2>9 DEF AtMost, bytes, most
<1> QED
  BY <1>5, <1>6

LEMMA PackedAccepted ==
    ASSUME NEW k \in DOMAIN Property, Property[k].family = "packed",
           NEW canonical \in CanonicalsOf(k), Representable(k, canonical)
    PROVE  Accepted(k, canonical)
<1> DEFINE p == Property[k]
           steps == Rounded(canonical.halves)
<1>1. canonical \in Floats /\ canonical.class # "nan"
  BY CanonicalsTyped, RepresentableOf
<1>2. \/ p.size = 1 /\ p.max = 100
      \/ p.size = 4 /\ p.max = 10^9 - 1
  BY PackedParameters
<1>3. p.size \in {1, 2, 3, 4} /\ p.size \in {1, 4} /\ p.max \in Nat
  BY SMT, <1>2
<1>4. p.max < 256^p.size
  <2>1. 100 < 256^1 /\ 10^9 - 1 < 256^4
    BY SMT, Powers
  <2> QED
    BY <1>2, <2>1
<1>5. Encode(k, canonical) = EncodePacked(p, canonical)
  BY Encodes
<1>6. ASSUME NEW data \in Seq(Byte), Len(data) = p.size,
             \/ AtMost(data, BigEndian(p.max, p.size))
             \/ data \in {Underflow(p.size), Overflow(p.size)},
             EncodePacked(p, canonical) = Ok(Header \o data)
      PROVE  Accepted(k, canonical)
  <2>1. DataOf(Sent(k, Header \o data)) = data
    BY SentData
  <2>2. ValidatePacked(p, Sent(k, Header \o data)) = Ok(TRUE)
    BY Zenon, <1>6, <2>1 DEF ValidatePacked
  <2>3. \A stored :
            Validate(k, Sent(k, Header \o data), stored) = Ok(TRUE)
    BY <2>2, Validates
  <2> QED
    BY <1>5, <1>6, <2>3, AcceptedFromData
<1>7. /\ Underflow(p.size) \in Seq(Byte) /\ Len(Underflow(p.size)) = p.size
      /\ Overflow(p.size) \in Seq(Byte) /\ Len(Overflow(p.size)) = p.size
  <2>1. Underflow(p.size) \in Seq(Byte) /\ Len(Underflow(p.size)) = p.size
    BY <1>3, LimitLengths
  <2>2. Overflow(p.size) \in Seq(Byte) /\ Len(Overflow(p.size)) = p.size
    BY <1>3, LimitLengths
  <2> QED
    BY Zenon, <2>1, <2>2
<1>8. CASE canonical.class = "neg_inf"
  <2>1. EncodePacked(p, canonical) = Ok(Header \o Underflow(p.size))
    BY <1>8 DEF EncodePacked, PackedAs
  <2> QED
    BY <1>6, <1>7, <2>1
<1>9. CASE canonical.class = "inf"
  <2>1. EncodePacked(p, canonical) = Ok(Header \o Overflow(p.size))
    BY <1>9 DEF EncodePacked, PackedAs
  <2> QED
    BY <1>6, <1>7, <2>1
<1>10. CASE canonical.class = "finite"
  <2>1. EncodePacked(p, canonical) = Ok(Header \o StepBytes(p, steps))
    BY <1>10 DEF EncodePacked, PackedAs
  <2>2. steps \in Int
    BY <1>1, <1>10 DEF Floats, Rounded
  <2> HIDE DEF steps
  <2>3. CASE steps < 0
    <3>1. StepBytes(p, steps) = Underflow(p.size)
      BY <2>3 DEF StepBytes
    <3> QED
      BY <1>6, <1>7, <2>1, <3>1
  <2>4. CASE ~ (steps < 0) /\ steps > p.max
    <3>1. StepBytes(p, steps) = Overflow(p.size)
      BY <2>4 DEF StepBytes
    <3> QED
      BY <1>6, <1>7, <2>1, <3>1
  <2>5. CASE ~ (steps < 0) /\ ~ (steps > p.max)
    <3>1. StepBytes(p, steps) = BigEndian(steps, p.size)
      BY <2>5 DEF StepBytes
    <3>2. steps \in Nat /\ steps <= p.max
      BY <1>3, <2>2, <2>5
    <3>3. AtMost(BigEndian(steps, p.size), BigEndian(p.max, p.size))
      BY <1>3, <1>4, <3>2, NumbersInOrder
    <3>4. /\ BigEndian(steps, p.size) \in Seq(Byte)
          /\ Len(BigEndian(steps, p.size)) = p.size
      BY <1>3, <3>2, BigEndianBytes
    <3> QED
      BY <1>6, <2>1, <3>1, <3>3, <3>4
  <2> QED
    BY <2>3, <2>4, <2>5
<1> QED
  BY <1>1, <1>8, <1>9, <1>10 DEF Floats

LEMMA HexAccepted ==
    ASSUME NEW k \in DOMAIN Property, Property[k].family = "hex",
           NEW canonical \in CanonicalsOf(k),
           Representable(k, canonical), ~ Refused(k, canonical)
    PROVE  Accepted(k, canonical)
<1> DEFINE p == Property[k]
           size == HD!ByteLen(canonical)
           data == BytesOf(HD!RightAlignedPairs(canonical, size, 0))
           internal == Sent(k, Header \o data)
<1>1. p.media = {} /\ p.size = 3 /\ size = 3
  BY HexParameters, RepresentableOf, RefusedOf
<1>2. canonical \in HexStrings
  BY CanonicalsTyped
<1>3. canonical \in Seq(HD!Digit)
  BY <1>2 DEF HexStrings
<1>4. size \in Nat /\ 2 * size = Len(canonical)
  BY <1>2, HexFits
<1>5. BytesOfHex(canonical, size) = Ok(data)
  BY <1>2, <1>4, HexDecodes
<1>6. data \in Seq(Byte) /\ Len(data) = size
  BY <1>3, <1>4, HexReadsBack
<1> HIDE DEF data
<1>7. Encode(k, canonical) = Ok(Header \o data)
  BY <1>5, Encodes DEF EncodeHex, Ok
<1>8. Len(internal) = Len(data) + 2
  BY <1>6, SentData
<1> HIDE DEF internal
<1>9. ValidateHex(p, internal) = Ok(TRUE)
  BY <1>1, <1>6, <1>8 DEF ValidateHex, HasLength
<1>10. \A stored : Validate(k, internal, stored) = Ok(TRUE)
  BY <1>9, Validates
<1> QED
  BY <1>6, <1>7, <1>10, AcceptedFromData DEF internal

LEMMA AsciiAccepted ==
    ASSUME NEW k \in DOMAIN Property, Property[k].family = "ascii",
           NEW canonical \in CanonicalsOf(k), Representable(k, canonical)
    PROVE  Accepted(k, canonical)
<1> DEFINE p == Property[k]
           internal == Sent(k, Header \o canonical)
<1>1. canonical \in Seq(Byte)
  BY CanonicalsTyped
<1>2. Len(canonical) = p.size /\ IsAscii(canonical)
  BY RepresentableOf
<1>3. Encode(k, canonical) = Ok(Header \o canonical)
  BY <1>2, Encodes DEF EncodeAscii
<1>4. Len(internal) = Len(canonical) + 2 /\ DataOf(internal) = canonical
  BY <1>1, SentData
<1> HIDE DEF internal
<1>5. ValidateAscii(p, internal) = Ok(TRUE)
  BY <1>2, <1>4 DEF ValidateAscii, HasLength
<1>6. \A stored : Validate(k, internal, stored) = Ok(TRUE)
  BY <1>5, Validates
<1> QED
  BY <1>1, <1>3, <1>6, AcceptedFromData DEF internal

LEMMA DateAccepted ==
    ASSUME NEW k \in DOMAIN Property, Property[k].family = "date",
           NEW canonical \in CanonicalsOf(k)
    PROVE  Accepted(k, canonical)
<1> DEFINE p == Property[k]
           year == BigEndian(canonical.year % 2^16, 2)
           rest == <<canonical.month, canonical.day>>
           data == year \o rest
           internal == Sent(k, Header \o data)
<1>1. canonical \in [year : Int, month : 1..12, day : 1..31]
  BY CanonicalsTyped DEF Dates
<1>2. canonical.year % 2^16 \in Nat
  <2>1. 2^16 \in Nat \ {0}
    BY SMT
  <2>2. canonical.year \in Int
    BY <1>1
  <2> QED
    BY <2>1, <2>2
<1>3. year \in Seq(Byte) /\ Len(year) = 2
  BY <1>2, BigEndianBytes
<1>4. rest \in Seq(Byte) /\ Len(rest) = 2
  BY <1>1 DEF Byte
<1> HIDE DEF year, rest
<1>5. data \in Seq(Byte) /\ Len(data) = 4
  <2>1. data \in Seq(Byte) /\ Len(data) = Len(year) + Len(rest)
    BY <1>3, <1>4, ConcatProperties
  <2> QED
    BY <1>3, <1>4, <2>1
<1>6. Encode(k, canonical) = Ok(Header \o data)
  <2>1. Header \in Seq(Byte)
    BY DEF Header, Byte
  <2>2. (Header \o year) \o rest = Header \o data
    BY SMTT(30), <1>3, <1>4, <2>1, ConcatAssociative
  <2> QED
    BY <2>2, Encodes DEF EncodeDate, year, rest
<1> HIDE DEF data
<1>7. Len(internal) = Len(data) + 2
  BY <1>5, SentData
<1> HIDE DEF internal
<1>8. ValidateDate(p, internal) = Ok(TRUE)
  BY <1>5, <1>7 DEF ValidateDate, HasLength
<1>9. \A stored : Validate(k, internal, stored) = Ok(TRUE)
  BY <1>8, Validates
<1> QED
  BY <1>5, <1>6, <1>9, AcceptedFromData DEF internal

LEMMA TimeAccepted ==
    ASSUME NEW k \in DOMAIN Property, Property[k].family = "time",
           NEW canonical \in CanonicalsOf(k)
    PROVE  Accepted(k, canonical)
<1> DEFINE p == Property[k]
           data == <<canonical.hour, canonical.minute>>
           internal == Sent(k, Header \o data)
<1>1. canonical \in [hour : 0..23, minute : 0..59, second : 0..59]
  BY CanonicalsTyped
<1>2. /\ data \in Seq(Byte) /\ Len(data) = 2
      /\ data[1] < 24 /\ data[2] < 60
  BY <1>1 DEF Byte
<1>3. Encode(k, canonical) = Ok(Header \o data)
  BY Encodes DEF EncodeTime
<1> HIDE DEF data
<1>4. Len(internal) = Len(data) + 2
  BY <1>2, SentData
<1>5. /\ Len(data) >= 1 => internal[3] = data[1]
      /\ Len(data) >= 2 => internal[4] = data[2]
  BY <1>2, SentBytes
<1> HIDE DEF internal
<1>6. ValidateTime(p, internal) = Ok(TRUE)
  <2>1. Len(internal) = 4 /\ internal[3] < 24 /\ internal[4] < 60
    BY <1>2, <1>4, <1>5
  <2> QED
    BY Zenon, <2>1 DEF ValidateTime
<1>7. \A stored : Validate(k, internal, stored) = Ok(TRUE)
  BY <1>6, Validates
<1> QED
  BY <1>2, <1>3, <1>7, AcceptedFromData DEF internal

LEMMA ProfileVersionAccepted ==
    ASSUME NEW k \in DOMAIN Property, Property[k].family = "profile_version",
           NEW canonical \in CanonicalsOf(k), Representable(k, canonical)
    PROVE  Accepted(k, canonical)
<1> DEFINE p == Property[k]
           flags == (IF canonical.specified THEN 1 ELSE 0)
                        + (IF canonical.arbitrary THEN 2 ELSE 0)
           data == <<canonical.major, canonical.minor, flags, 0>>
           internal == Sent(k, Header \o data)
<1>1. canonical \in [major : Byte, minor : Byte,
                     specified : BOOLEAN, arbitrary : BOOLEAN]
  BY CanonicalsTyped
<1>2. canonical.specified \/ canonical.arbitrary
  BY RepresentableOf
<1>3. flags \in {1, 2, 3}
  BY <1>1, <1>2
<1>4. Bit(flags, 0) \/ Bit(flags, 1)
  <2>1. 2^0 = 1 /\ 2^1 = 2
    BY SMT
  <2> HIDE DEF flags
  <2> QED
    BY <1>3, <2>1 DEF Bit
<1>5. data \in Seq(Byte) /\ Len(data) = 4 /\ data[3] = flags
  BY <1>1, <1>3 DEF Byte
<1>6. Encode(k, canonical) = Ok(Header \o data)
  BY <1>2, Encodes DEF EncodeProfileVersion
<1> HIDE DEF data, flags
<1>7. Len(internal) = Len(data) + 2
  BY <1>5, SentData
<1>8. Len(data) >= 3 => internal[5] = data[3]
  BY <1>5, SentBytes
<1> HIDE DEF internal
<1>9. ValidateProfileVersion(p, internal) = Ok(TRUE)
  <2>1. Len(internal) = 6 /\ internal[5] = flags
    BY <1>5, <1>7, <1>8
  <2> QED
    BY Zenon, <1>4, <2>1 DEF ValidateProfileVersion
<1>10. \A stored : Validate(k, internal, stored) = Ok(TRUE)
  BY <1>9, Validates
<1> QED
  BY <1>5, <1>6, <1>10, AcceptedFromData DEF internal

LEMMA DeviceVersionAccepted ==
    ASSUME NEW k \in DOMAIN Property, Property[k].family = "device_version",
           NEW canonical \in CanonicalsOf(k), Representable(k, canonical)
    PROVE  Accepted(k, canonical)
<1> DEFINE p == Property[k]
           release == Uppercase(canonical.release) % 256
           data == <<0, 0, release, canonical.revision>>
           internal == Sent(k, Header \o data)
<1>1. canonical \in [release : Nat, revision : Byte]
  BY CanonicalsTyped
<1>2. canonical.release < 128
  BY RepresentableOf
<1>3. release \in Nat /\ release < 128
  BY <1>1, <1>2 DEF Uppercase
<1> HIDE DEF release
<1>4. release \in Byte /\ 0 \in Byte
  BY <1>3 DEF Byte
<1>5. data \in Seq(Byte) /\ Len(data) = 4 /\ data[3] = release
  BY <1>1, <1>4
<1>6. Encode(k, canonical) = Ok(Header \o data)
  BY Encodes DEF EncodeDeviceVersion, release
<1> HIDE DEF data
<1>7. Len(internal) = Len(data) + 2
  BY <1>5, SentData
<1>8. Len(data) >= 3 => internal[5] = data[3]
  BY <1>5, SentBytes
<1> HIDE DEF internal
<1>9. ValidateDeviceVersion(p, internal) = Ok(TRUE)
  <2>1. Len(internal) = 6 /\ internal[5] < 128
    BY <1>3, <1>5, <1>7, <1>8
  <2> QED
    BY Zenon, <2>1 DEF ValidateDeviceVersion
<1>10. \A stored : Validate(k, internal, stored) = Ok(TRUE)
  BY <1>9, Validates
<1> QED
  BY <1>5, <1>6, <1>10, AcceptedFromData DEF internal

LEMMA RemoteControlAccepted ==
    ASSUME NEW k \in DOMAIN Property, Property[k].family = "remote_control",
           NEW canonical \in CanonicalsOf(k)
    PROVE  Accepted(k, canonical)
<1> DEFINE p == Property[k]
           code == (IF canonical.public THEN 66 ELSE 65)
                       + (IF canonical.line_ok THEN 32 ELSE 0)
           data == <<code>>
           internal == Sent(k, Header \o data)
<1>1. canonical \in [public : BOOLEAN, line_ok : BOOLEAN]
  BY CanonicalsTyped
<1>2. data \in Seq(Byte) /\ Len(data) = 1 /\ data[1] = code
  BY <1>1 DEF Byte
<1>3. Encode(k, canonical) = Ok(Header \o data)
  BY Encodes DEF EncodeRemoteControl
<1>4. Bit(code, 6) /\ (Bit(code, 0) \/ Bit(code, 1))
  BY <1>1 DEF Bit
<1> HIDE DEF data, code
<1>5. Len(internal) = Len(data) + 2
  BY <1>2, SentData
<1>6. Len(data) >= 1 => internal[3] = data[1]
  BY <1>2, SentBytes
<1> HIDE DEF internal
<1>7. ValidateRemoteControl(p, internal) = Ok(TRUE)
  <2>1. Len(internal) = 3 /\ internal[3] = code
    BY <1>2, <1>5, <1>6
  <2>2. HasLength(internal, 1) = Ok(TRUE)
    BY <2>1 DEF HasLength
  <2> QED
    BY Zenon, <1>4, <2>1, <2>2 DEF ValidateRemoteControl
<1>8. \A stored : Validate(k, internal, stored) = Ok(TRUE)
  BY <1>7, Validates
<1> QED
  BY <1>2, <1>3, <1>8, AcceptedFromData DEF internal

\* The length of a list of EOJs is a multiple of three even where it is cut to
\* a byte.
LEMMA EOJsAccepted ==
    ASSUME NEW k \in DOMAIN Property, Property[k].family = "eoj_array",
           NEW canonical \in CanonicalsOf(k)
    PROVE  Accepted(k, canonical)
<1> DEFINE p == Property[k]
           count == Len(canonical)
           data == [i \in 1..(3 * count) |->
                       canonical[(i + 2) \div 3][((i - 1) % 3) + 1]]
           internal == Sent(k, Header \o data)
<1>1. canonical \in Seq(EOJ)
  BY CanonicalsTyped
<1>2. count \in Nat /\ DOMAIN canonical = 1..count
  BY <1>1
<1>3. ASSUME NEW i \in 1..(3 * count)
      PROVE  canonical[(i + 2) \div 3][((i - 1) % 3) + 1] \in Byte
  <2>1. (i + 2) \div 3 \in 1..count
    BY <1>2, <1>3
  <2>2. canonical[(i + 2) \div 3] \in EOJ
    BY <1>1, <1>2, <2>1
  <2>3. ((i - 1) % 3) + 1 \in {1, 2, 3}
    BY <1>2, <1>3
  <2>4. \A eoj \in EOJ : \A j \in {1, 2, 3} : eoj[j] \in Byte
    BY DEF EOJ
  <2> QED
    BY <2>2, <2>3, <2>4
<1>4. data \in Seq(Byte) /\ Len(data) = 3 * count
  BY <1>2, <1>3
<1>5. Encode(k, canonical) = Ok(Header \o data)
  BY Encodes DEF EncodeEOJs
<1> HIDE DEF data
<1>6. Len(internal) = Len(data) + 2 /\ internal[2] = PDC(Len(data))
  BY <1>4, SentData
<1> HIDE DEF internal
<1>7. ValidateEOJs(p, internal) = Ok(TRUE)
  <2> HIDE DEF count
  <2>1. (Len(internal) - 2) % 3 = 0
    BY <1>2, <1>4, <1>6
  <2>2. internal[2] % 3 = 0
    BY <1>2, <1>4, <1>6 DEF PDC
  <2> QED
    BY <2>1, <2>2 DEF ValidateEOJs
<1>8. \A stored : Validate(k, internal, stored) = Ok(TRUE)
  BY <1>7, Validates
<1> QED
  BY <1>4, <1>5, <1>8, AcceptedFromData DEF internal

\* The digits of a HexString make bytes in a buffer of any size.
LEMMA WideBytes ==
    ASSUME NEW chars \in Seq(HD!Digit), NEW size \in Nat
    PROVE  LET bytes == BytesOf(HD!RightAlignedPairs(chars, size, 0))
           IN  bytes \in Seq(Byte) /\ Len(bytes) = size
<1> DEFINE pairs == HD!RightAlignedPairs(chars, size, 0)
<1>1. DOMAIN pairs = 1..size
  BY DEF HD!RightAlignedPairs
<1>2. ASSUME NEW j \in 1..size
      PROVE  pairs[j][1] \in 0..15 /\ pairs[j][2] \in 0..15
  <2> DEFINE at == Len(chars) - 2 * (size - j) - 2
  <2>1. at \in Int
    OBVIOUS
  <2>2. pairs[j] = IF at >= 0
                   THEN <<HD!Nibble(chars[at + 1]), HD!Nibble(chars[at + 2])>>
                   ELSE HD!ZeroByte
    BY DEF HD!RightAlignedPairs
  <2>3. at >= 0 => at + 1 \in DOMAIN chars /\ at + 2 \in DOMAIN chars
    OBVIOUS
  <2> HIDE DEF at, pairs
  <2>4. at >= 0 => chars[at + 1] \in HD!Digit /\ chars[at + 2] \in HD!Digit
    BY <2>3
  <2>5. at >= 0 => /\ HD!Nibble(chars[at + 1]) \in 0..15
                   /\ HD!Nibble(chars[at + 2]) \in 0..15
    BY <2>4, Nibbles
  <2> QED
    BY <2>2, <2>5 DEF HD!ZeroByte
<1> HIDE DEF pairs
<1>3. \A j \in 1..size : 16 * pairs[j][1] + pairs[j][2] \in Byte
  BY <1>2, BytesOfNibbles
<1>4. BytesOf(pairs) = [j \in 1..size |-> 16 * pairs[j][1] + pairs[j][2]]
  BY <1>1 DEF BytesOf
<1> QED
  BY <1>3, <1>4 DEF pairs

\* The manufacturer's code may be moved by the fault code and is accepted all
\* the same.
LEMMA FaultCodeAccepted ==
    ASSUME NEW k \in DOMAIN Property, Property[k].family = "fault_code",
           NEW canonical \in CanonicalsOf(k), Representable(k, canonical)
    PROVE  Accepted(k, canonical)
<1> DEFINE p == Property[k]
           maker == canonical.manufacturer_code
           code == canonical.fault_code
           n == HD!ByteLen(code)
           size == HD!ByteLen(maker) + n
           wide == BytesOf(HD!RightAlignedPairs(maker, size, 0))
           first == SubSeq(wide, 1, 3)
           rest == BytesOf(HD!RightAlignedPairs(code, n, 0))
           data == first \o rest
           internal == Sent(k, Header \o data)
<1>1. /\ maker \in HexStrings /\ maker \in Seq(HD!Digit)
      /\ code \in HexStrings /\ code \in Seq(HD!Digit)
  <2>1. canonical \in [manufacturer_code : HexStrings, fault_code : HexStrings]
    BY CanonicalsTyped
  <2> QED
    BY <2>1 DEF HexStrings
<1>2. /\ HD!ByteLen(maker) = 3 /\ Len(maker) = 2 * 3
      /\ n \in Nat /\ Len(code) = 2 * n
  BY <1>1, HexFits, RepresentableOf
<1>3. size \in Nat /\ size >= 3 /\ size - 3 = n
  BY <1>2
<1>4. BytesOfHex(maker, size) = Ok(wide)
  BY <1>1, <1>2, <1>3, HexDecodes
<1>5. BytesOfHex(code, size - 3) = Ok(rest)
  BY <1>1, <1>2, <1>3, HexDecodes
<1>6. first \in Seq(Byte) /\ Len(first) = 3
  <2>1. wide \in Seq(Byte) /\ Len(wide) = size
    BY <1>1, <1>2, <1>3, WideBytes
  <2> HIDE DEF wide
  <2> QED
    BY <1>3, <2>1
<1>7. rest \in Seq(Byte)
  BY <1>1, <1>2, HexReadsBack
<1>8. Encode(k, canonical) = Ok(Header \o data)
  <2>1. Encode(k, canonical) = EncodeFaultCode(p, canonical)
    BY Encodes
  <2> DEFINE manufacturer == BytesOfHex(maker, size)
             fault == BytesOfHex(code, size - 3)
  <2>2. manufacturer.tag = "ok" /\ manufacturer.value = wide
    BY <1>4 DEF Ok
  <2>3. fault.tag = "ok" /\ fault.value = rest
    BY <1>5 DEF Ok
  <2>4. EncodeFaultCode(p, canonical) =
            IF manufacturer.tag # "ok" THEN manufacturer
            ELSE IF size < 3 THEN Panic
            ELSE IF fault.tag # "ok" THEN fault
            ELSE Ok(Header \o SubSeq(manufacturer.value, 1, 3) \o fault.value)
    BY DEF EncodeFaultCode
  <2>5. ~ (size < 3)
    BY <1>3
  <2> HIDE DEF manufacturer, fault, size, wide, rest, n
  <2>6. EncodeFaultCode(p, canonical) = Ok((Header \o first) \o rest)
    BY Zenon, <2>2, <2>3, <2>4, <2>5
  <2>7. Header \in Seq(Byte)
    BY DEF Header, Byte
  <2>8. (Header \o first) \o rest = Header \o data
    <3> HIDE DEF first
    <3> QED
      BY SMTT(30), <1>6, <1>7, <2>7, ConcatAssociative
  <2> QED
    BY <2>1, <2>6, <2>8
<1> HIDE DEF first, rest
<1>9. data \in Seq(Byte) /\ Len(data) >= 3
  <2>1. data \in Seq(Byte) /\ Len(data) = Len(first) + Len(rest)
    BY <1>6, <1>7, ConcatProperties
  <2>2. Len(rest) \in Nat
    BY <1>7
  <2> QED
    BY <1>6, <2>1, <2>2
<1> HIDE DEF data
<1>10. Len(internal) = Len(data) + 2
  BY <1>9, SentData
<1> HIDE DEF internal
<1>11. ValidateFaultCode(p, internal) = Ok(TRUE)
  <2>1. Len(internal) >= 5
    <3>1. Len(data) \in Nat
      BY <1>9
    <3> QED
      BY <1>9, <1>10, <3>1
  <2> QED
    BY <2>1 DEF ValidateFaultCode
<1>12. \A stored : Validate(k, internal, stored) = Ok(TRUE)
  BY <1>11, Validates
<1> QED
  BY <1>8, <1>9, <1>12, AcceptedFromData DEF internal

\* A location that is a place or one of the two bytes that are none.
LEMMA LocationAccepted ==
    ASSUME NEW k \in DOMAIN Property, Property[k].family = "location",
           NEW canonical \in CanonicalsOf(k), ~ Refused(k, canonical)
    PROVE  Accepted(k, canonical)
<1> DEFINE p == Property[k]
<1>1. /\ canonical \in Locations
      /\ canonical.place \notin {"user_defined", "location"}
  BY CanonicalsTyped, RefusedOf
<1>2. \E byte \in Byte : EncodeLocation(p, canonical) = Ok(Header \o <<byte>>)
  <2>1. CASE IsPlace(canonical.place)
    <3> DEFINE byte == LocationByte(canonical.place, canonical.number)
    <3>1. byte \in Byte
      <4>1. /\ 2^3 = 8 /\ 2^4 = 16 /\ 2^5 = 32 /\ 2^6 = 64 /\ 2^7 = 128
        BY SMT
      <4> DEFINE Has(i) == \/ Bit(PlaceCode(canonical.place), i)
                           \/ Bit(canonical.number, i)
      <4>2. byte = 7 + (IF Has(3) THEN 8 ELSE 0) + (IF Has(4) THEN 16 ELSE 0)
                       + (IF Has(5) THEN 32 ELSE 0) + (IF Has(6) THEN 64 ELSE 0)
                       + (IF Has(7) THEN 128 ELSE 0)
        BY <4>1 DEF LocationByte
      <4> HIDE DEF Has, byte
      <4> QED
        BY <4>2 DEF Byte
    <3>2. EncodeLocation(p, canonical) = Ok(Header \o <<byte>>)
      BY Zenon, <2>1, PlaceCodes DEF EncodeLocation
    <3> QED
      BY <3>1, <3>2
  <2>2. CASE canonical.place = "not_specified"
    <3>1. EncodeLocation(p, canonical) = Ok(Header \o <<0>>)
      BY Zenon, <2>2, PlaceCodes DEF EncodeLocation
    <3> QED
      BY <3>1 DEF Byte
  <2>3. CASE canonical.place = "indefinite"
    <3>1. EncodeLocation(p, canonical) = Ok(Header \o <<255>>)
      BY Zenon, <2>3, PlaceCodes DEF EncodeLocation
    <3> QED
      BY <3>1 DEF Byte
  <2> QED
    BY <1>1, <2>1, <2>2, <2>3 DEF Locations, IsPlace
<1>3. PICK byte \in Byte : EncodeLocation(p, canonical) = Ok(Header \o <<byte>>)
  BY <1>2
<1> DEFINE data == <<byte>>
           internal == Sent(k, Header \o data)
<1>4. data \in Seq(Byte) /\ Len(data) = 1
  OBVIOUS
<1>5. Encode(k, canonical) = Ok(Header \o data)
  BY <1>3, Encodes
<1> HIDE DEF data
<1>6. Len(internal) = Len(data) + 2
  BY <1>4, SentData
<1> HIDE DEF internal
<1>7. ValidateLocation(p, internal) = Ok(TRUE)
  BY <1>4, <1>6 DEF ValidateLocation
<1>8. \A stored : Validate(k, internal, stored) = Ok(TRUE)
  BY <1>7, Validates
<1> QED
  BY <1>4, <1>5, <1>8, AcceptedFromData DEF internal

-----------------------------------------------------------------------------
(* Property maps.                                                          *)

MapProofs == INSTANCE PropertyMapProofs WITH
        Rows <- 8, Cols <- 16, ListLimit <- 16, Maps <- {}, Wires <- {},
        operations <- <<>>, operations_count <- <<>>, outcome <- "none"

\* The maps of PropertyMapProofs at their full size are those of EpcCodecs.
LEMMA SameCells ==
    /\ PM!Cells = MapProofs!Cells
    /\ \A S : Cardinality(S) = MapProofs!Cardinality(S)
<1>1. PM!Cells = MapProofs!Cells
  BY DEF PM!Cells, MapProofs!Cells
<1>2. \A S : Cardinality(S) = MapProofs!Cardinality(S)
  BY Zenon DEF Cardinality, MapProofs!Cardinality
<1> QED
  BY <1>1, <1>2

LEMMA SameDecode ==
    ASSUME NEW cells, NEW count
    PROVE  PM!Decode(cells, count) = MapProofs!Decode(cells, count)
  BY Zenon
     DEF PM!Decode, PM!as_operations_list, PM!Operation, PM!CellOf, PM!Base,
         PM!Cardinality, PM!ColumnByte, PM!Bit,
         MapProofs!Decode, MapProofs!as_operations_list, MapProofs!Operation,
         MapProofs!CellOf, MapProofs!Base, MapProofs!Cardinality,
         MapProofs!ColumnByte, MapProofs!Bit

LEMMA SameFromBytes ==
    ASSUME NEW wire
    PROVE  /\ PM!Accepts(wire) <=> MapProofs!Accepts(wire)
           /\ PM!CellsOfWire(wire) = MapProofs!CellsOfWire(wire)
           /\ PM!CountOfWire(wire) = MapProofs!CountOfWire(wire)
<1>1. PM!ColumnCells(wire) = MapProofs!ColumnCells(wire)
  BY Zenon DEF PM!ColumnCells, PM!Cells,
               MapProofs!ColumnCells, MapProofs!Cells
<1>2. PM!ListCells(wire) = MapProofs!ListCells(wire)
  BY Zenon DEF PM!ListCells, PM!CellOf, PM!Base,
               MapProofs!ListCells, MapProofs!CellOf, MapProofs!Base
<1>3. PM!WellFormed(wire) <=> MapProofs!WellFormed(wire)
  BY Zenon DEF PM!WellFormed, MapProofs!WellFormed
<1>4. \A operation : PM!Valid(operation) <=> MapProofs!Valid(operation)
  BY Zenon DEF PM!Valid, PM!Base, MapProofs!Valid, MapProofs!Base
<1>5. \A S : PM!Cardinality(S) = MapProofs!Cardinality(S)
  BY Zenon DEF PM!Cardinality, MapProofs!Cardinality
<1>6. PM!Accepts(wire) <=> MapProofs!Accepts(wire)
  BY Zenon, <1>1, <1>3, <1>4, <1>5 DEF PM!Accepts, MapProofs!Accepts
<1>7. PM!CellsOfWire(wire) = MapProofs!CellsOfWire(wire)
  BY Zenon, <1>1, <1>2 DEF PM!CellsOfWire, MapProofs!CellsOfWire
<1>8. PM!CountOfWire(wire) = MapProofs!CountOfWire(wire)
  BY Zenon DEF PM!CountOfWire, MapProofs!CountOfWire
<1> QED
  BY Zenon, <1>6, <1>7, <1>8

\* The byte of a column.
LEMMA ColumnBytes ==
    ASSUME NEW cells, NEW j PROVE PM!ColumnByte(cells, j) \in Byte
<1>1. /\ 2^0 = 1 /\ 2^1 = 2 /\ 2^2 = 4 /\ 2^3 = 8
      /\ 2^4 = 16 /\ 2^5 = 32 /\ 2^6 = 64 /\ 2^7 = 128
  BY SMT
<1> DEFINE At(i) == <<i, j>> \in cells
<1>2. PM!ColumnByte(cells, j)
          = (IF At(0) THEN 1 ELSE 0) + (IF At(1) THEN 2 ELSE 0)
              + (IF At(2) THEN 4 ELSE 0) + (IF At(3) THEN 8 ELSE 0)
              + (IF At(4) THEN 16 ELSE 0) + (IF At(5) THEN 32 ELSE 0)
              + (IF At(6) THEN 64 ELSE 0) + (IF At(7) THEN 128 ELSE 0)
  BY <1>1 DEF PM!ColumnByte, PM!Bit
<1> HIDE DEF At
<1> QED
  BY <1>2 DEF Byte

\* The count of a map is a byte.
LEMMA CountIsByte ==
    ASSUME NEW map \in PropertyMaps
    PROVE  /\ map \in [cells : SUBSET PM!Cells, count : Nat]
           /\ map.cells \in SUBSET PM!Cells
           /\ map.count \in Nat /\ map.count \in Byte
<1>1. /\ map \in [cells : SUBSET PM!Cells, count : Nat]
      /\ map.cells \in SUBSET PM!Cells /\ map.count \in Nat
      /\ map.count - Cardinality(map.cells) \in 0..15
  BY DEF PropertyMaps
<1>2. /\ IsFiniteSet(PM!Cells)
      /\ Cardinality(PM!Cells) = 128
  <2>1. PM!Cells = (0..7) \X (0..15)
    BY DEF PM!Cells
  <2>2. /\ IsFiniteSet(0..7) /\ Cardinality(0..7) = 7 - 0 + 1
        /\ IsFiniteSet(0..15) /\ Cardinality(0..15) = 15 - 0 + 1
    <3>1. \A n \in Nat :
              IsFiniteSet(0..n) /\ Cardinality(0..n) = n - 0 + 1
      <4> SUFFICES ASSUME NEW n \in Nat
                   PROVE  IsFiniteSet(0..n) /\ Cardinality(0..n) = n - 0 + 1
        OBVIOUS
      <4>1. ~ (0 > n)
        OBVIOUS
      <4> QED
        BY <4>1, FS_Interval
    <3> QED
      BY <3>1
  <2>3. 8 * 16 = 128
    BY SMT
  <2> QED
    BY <2>1, <2>2, <2>3, FS_Product
<1>3. /\ Cardinality(map.cells) <= 128
      /\ Cardinality(map.cells) \in Nat
  BY <1>1, <1>2, FS_Subset, FS_CardinalityType
<1> QED
  BY <1>1, <1>3 DEF Byte

\* The bytes of a map, as a list or as a bitmap.
LEMMA MapBytes ==
    ASSUME NEW map \in PropertyMaps
    PROVE  LET data == PM!Decode(map.cells, map.count)
           IN  /\ data \in Seq(Byte)
               /\ Len(data) = IF map.count < 16 THEN map.count + 1 ELSE 17
<1> DEFINE count == map.count
           list == PM!as_operations_list(map.cells)
           entries == IF count < 16
                      THEN [i \in 1..count |->
                                IF i <= Len(list) THEN list[i] ELSE 0]
                      ELSE [i \in 1..16 |-> PM!ColumnByte(map.cells, i - 1)]
           data == PM!Decode(map.cells, count)
<1>1. map.cells \in SUBSET PM!Cells /\ count \in Nat /\ count \in Byte
  BY CountIsByte
<1>2. \A i \in 1..Len(list) : list[i] \in Byte
  <2>1. map.cells \in SUBSET MapProofs!Cells
    BY <1>1, SameCells
  <2>2. list = MapProofs!as_operations_list(map.cells)
    BY Zenon
       DEF PM!as_operations_list, PM!Operation, PM!CellOf, PM!Base,
           PM!Cardinality, MapProofs!as_operations_list, MapProofs!Operation,
           MapProofs!CellOf, MapProofs!Base, MapProofs!Cardinality
  <2>3. list \in Seq(MapProofs!Operation)
    BY <2>1, <2>2, MapProofs!ListOfCells
  <2>4. MapProofs!Operation \subseteq Byte
    BY DEF MapProofs!Operation, MapProofs!Base, Byte
  <2> HIDE DEF list
  <2> QED
    BY <2>3, <2>4
<1>3. data = <<count>> \o entries
  BY Zenon DEF PM!Decode
<1>4. 0 \in Byte
  BY DEF Byte
<1>5. entries \in Seq(Byte) /\ Len(entries) = IF count < 16 THEN count ELSE 16
  <2> HIDE DEF list, count
  <2>1. CASE count < 16
    BY <1>1, <1>2, <1>4, <2>1
  <2>2. CASE ~ (count < 16)
    BY <2>2, ColumnBytes
  <2> QED
    BY <2>1, <2>2
<1> HIDE DEF entries, count, list, data
<1>6. <<count>> \in Seq(Byte) /\ Len(<<count>>) = 1
  BY <1>1
<1>7. /\ <<count>> \o entries \in Seq(Byte)
      /\ Len(<<count>> \o entries) = Len(<<count>>) + Len(entries)
  BY <1>5, <1>6, ConcatProperties
<1>8. data \in Seq(Byte) /\ Len(data) = IF count < 16 THEN count + 1 ELSE 17
  BY <1>1, <1>3, <1>5, <1>6, <1>7
<1> QED
  BY <1>8 DEF data, count

\* A map of more than one operation passes the validator although there is no
\* room for the header in its bytes.
LEMMA MapAccepted ==
    ASSUME NEW k \in DOMAIN Property, Property[k].family = "property_map",
           NEW canonical \in CanonicalsOf(k), ~ Refused(k, canonical)
    PROVE  Accepted(k, canonical)
<1> DEFINE buffer == PM!Decode(canonical.cells, canonical.count)
           internal == Sent(k, buffer)
<1>1. /\ canonical \in PropertyMaps
      /\ canonical.count \in Nat /\ ~ (canonical.count < 2)
  BY CanonicalsTyped, RefusedOf, CountIsByte
<1>2. /\ buffer \in Seq(Byte)
      /\ Len(buffer) = IF canonical.count < 16 THEN canonical.count + 1 ELSE 17
  BY <1>1, MapBytes
<1>3. Encode(k, canonical) = Ok(buffer)
  BY Encodes DEF EncodeMap
<1> HIDE DEF buffer
<1>4. Len(internal) = Len(buffer) /\ internal[2] = PDC(Len(buffer) - 2)
  <2>1. 1 \in DOMAIN buffer /\ 2 \in DOMAIN buffer
    BY <1>1, <1>2
  <2> QED
    BY <1>2, <2>1 DEF Sent
<1> HIDE DEF internal
<1>5. ValidateMap(Property[k], internal) = Ok(TRUE)
  <2>1. Len(internal) > 2
    BY <1>1, <1>2, <1>4
  <2>2. CASE canonical.count < 16
    <3>1. internal[2] = canonical.count - 1
      BY <1>1, <1>2, <1>4, <2>2 DEF PDC
    <3>2. internal[2] < 16 /\ internal[2] + 2 = Len(internal)
      BY <1>1, <1>2, <1>4, <2>2, <3>1
    <3> QED
      BY Zenon, <2>1, <3>2 DEF ValidateMap
  <2>3. CASE ~ (canonical.count < 16)
    <3>1. Len(internal) = 17
      BY <1>2, <1>4, <2>3
    <3> QED
      BY Zenon, <2>1, <3>1 DEF ValidateMap
  <2> QED
    BY <2>2, <2>3
<1>6. \A stored : Validate(k, internal, stored) = Ok(TRUE)
  BY <1>5, Validates
<1>7. Len(buffer) >= 2
  BY <1>1, <1>2
<1> QED
  <2>1. Encode(k, canonical).tag = "ok" /\ Encode(k, canonical).value = buffer
    BY <1>3 DEF Ok
  <2> QED
    BY <1>2, <1>6, <1>7, <2>1 DEF Accepted, internal

\* A map that a peer announces is read as that map, and is accepted as a list of
\* up to 14 operations.
LEMMA MapUnderstood ==
    ASSUME NEW k \in DOMAIN Property, Property[k].family = "property_map",
           NEW map \in PropertyMaps, map.count = Cardinality(map.cells)
    PROVE  /\ Decode(k, Announced(k, map)) = Ok(map)
           /\ map.count < 15 =>
                 Validate(k, Announced(k, map), Err) = Ok(TRUE)
<1> DEFINE data == PM!Decode(map.cells, map.count)
           internal == Sent(k, Header \o data)
<1>1. /\ map \in [cells : SUBSET PM!Cells, count : Nat]
      /\ map.cells \in SUBSET PM!Cells /\ map.count \in Nat
  BY CountIsByte
<1>2. /\ data \in Seq(Byte)
      /\ map.count < 16 => Len(data) = map.count + 1
  BY MapBytes
<1>3. /\ PM!Accepts(data)
      /\ PM!CellsOfWire(data) = map.cells
      /\ PM!CountOfWire(data) = map.count
  <2>1. /\ map.cells \in SUBSET MapProofs!Cells
        /\ map.count = MapProofs!Cardinality(map.cells)
    BY <1>1, SameCells
  <2>2. data = MapProofs!Decode(map.cells, map.count)
    BY SameDecode
  <2>3. /\ MapProofs!Accepts(data)
        /\ MapProofs!CellsOfWire(data) = map.cells
        /\ MapProofs!CountOfWire(data) = map.count
    BY <2>1, <2>2, MapProofs!DecodeReadsBack
  <2> QED
    BY <2>3, SameFromBytes
<1> HIDE DEF data
<1>4. /\ Len(internal) = Len(data) + 2
      /\ internal[2] = PDC(Len(data))
      /\ DataOf(internal) = data
  BY <1>2, SentData
<1> HIDE DEF internal
<1>5. ASSUME map.count < 15
      PROVE  Validate(k, internal, Err) = Ok(TRUE)
  <2>1. PDC(Len(data)) = map.count + 1
    BY <1>1, <1>2, <1>5 DEF PDC
  <2>2. /\ Len(internal) > 2
        /\ internal[2] < 16 /\ internal[2] + 2 = Len(internal)
    BY <1>1, <1>2, <1>4, <1>5, <2>1
  <2>3. ValidateMap(Property[k], internal) = Ok(TRUE)
    BY Zenon, <2>2 DEF ValidateMap
  <2> QED
    BY <2>3, Validates
<1>6. Decode(k, internal) = Ok(map)
  <2>1. map = [cells |-> map.cells, count |-> map.count]
    BY <1>1
  <2>2. DecodeMap(Property[k], internal) = Ok(map)
    BY <1>3, <1>4, <2>1 DEF DecodeMap
  <2> QED
    BY <2>2, Decodes
<1> QED
  BY <1>5, <1>6 DEF Announced, internal, data

-----------------------------------------------------------------------------
(* Every kind.                                                             *)

\* But for the values listed, every value that the type can hold is accepted.
LEMMA RepresentableAccepted ==
    ASSUME NEW k \in DOMAIN Property, NEW canonical \in CanonicalsOf(k),
           Representable(k, canonical), ~ Refused(k, canonical)
    PROVE  Accepted(k, canonical)
<1> DEFINE family == Property[k].family
<1>1. family \notin {"boolean", "duration", "fault"}
  BY RefusedOf
<1>2. CASE family \in {"integer", "packed", "hex", "ascii", "date", "time"}
  BY <1>2, IntegerAccepted, PackedAccepted, HexAccepted, AsciiAccepted,
     DateAccepted, TimeAccepted
<1>3. CASE family \in {"eoj_array", "profile_version", "device_version",
                       "fault_code", "remote_control"}
  BY <1>3, EOJsAccepted, ProfileVersionAccepted, DeviceVersionAccepted,
     FaultCodeAccepted, RemoteControlAccepted
<1>4. CASE family \in {"location", "property_map"}
  BY <1>4, LocationAccepted, MapAccepted
<1> QED
  BY <1>1, <1>2, <1>3, <1>4, Families

=============================================================================
