--------------------------- MODULE HexStringProofs ---------------------------
(***************************************************************************)
(* Proofs about HexString for every base, all texts, slices and lengths:   *)
(* if callers give decode_into_slice a buffer that is large enough, or one *)
(* whose padding the loop judges right, a value stays the number it came   *)
(* in as and is refused only when it does not fit.                         *)
(***************************************************************************)
EXTENDS HexString, WellFoundedInduction, TLAPS

-----------------------------------------------------------------------------
(* Digits.                                                                 *)

\* A digit's value is a digit, and its own value.
LEMMA NibbleType ==
    ASSUME NEW digit \in Digit
    PROVE  /\ Nibble(digit) \in 0..(Base - 1)
           /\ Nibble(Nibble(digit)) = Nibble(digit)
BY BaseAssumption DEF Nibble, Digit

\* A slice has two digits for each byte.
LEMMA DigitsType ==
    ASSUME NEW bytes \in Seq(HexByte)
    PROVE  /\ DigitsOf(bytes) \in Seq(Digit)
           /\ Len(DigitsOf(bytes)) = 2 * Len(bytes)
<1> DEFINE Column(k) == IF k % 2 = 1 THEN 1 ELSE 2
           Byte(k) == bytes[(k + 1) \div 2]
<1>1. Len(bytes) \in Nat
  OBVIOUS
<1>2. ASSUME NEW k \in 1..(2 * Len(bytes))
      PROVE  Byte(k)[Column(k)] \in Digit
  <2>1. (k + 1) \div 2 \in 1..Len(bytes)
    BY <1>1
  <2>2. Byte(k) \in HexByte
    BY <2>1
  <2> QED
    BY <2>2, BaseAssumption DEF HexByte, Digit
<1>3. DigitsOf(bytes) = [k \in 1..(2 * Len(bytes)) |-> Byte(k)[Column(k)]]
  BY DEF DigitsOf
<1>4. DigitsOf(bytes) \in [1..(2 * Len(bytes)) -> Digit]
  BY <1>2, <1>3
<1>5. 2 * Len(bytes) \in Nat
  BY <1>1
<1> QED
  BY <1>4, <1>5

\* The digits of a slice, counted from the right.
LEMMA PlaceOfDigits ==
    ASSUME NEW bytes \in Seq(HexByte), NEW n \in Nat
    PROVE  Place(DigitsOf(bytes), n) =
               IF n < 2 * Len(bytes)
               THEN bytes[Len(bytes) - n \div 2][IF n % 2 = 0 THEN 2 ELSE 1]
               ELSE 0
<1>1. Len(bytes) \in Nat
  OBVIOUS
<1>2. Len(DigitsOf(bytes)) = 2 * Len(bytes)
  BY DigitsType
<1>3. CASE n < 2 * Len(bytes)
  <2> DEFINE k == 2 * Len(bytes) - n
             column == IF n % 2 = 0 THEN 2 ELSE 1
  <2>1. k \in 1..(2 * Len(bytes))
    BY <1>1, <1>3
  <2>2. (k + 1) \div 2 = Len(bytes) - n \div 2
    BY <1>1, <1>3
  <2>3. (k % 2 = 1) <=> (n % 2 # 0)
    BY <1>1, <1>3
  <2>4. DigitsOf(bytes)[k] = bytes[Len(bytes) - n \div 2][column]
    BY <2>1, <2>2, <2>3 DEF DigitsOf
  <2>5. Len(bytes) - n \div 2 \in 1..Len(bytes)
    BY <1>1, <1>3
  <2>6. bytes[Len(bytes) - n \div 2] \in HexByte
    BY <2>5
  <2>7. bytes[Len(bytes) - n \div 2][column] \in 0..(Base - 1)
    BY <2>6 DEF HexByte
  <2>8. Nibble(DigitsOf(bytes)[k]) = DigitsOf(bytes)[k]
    BY <2>4, <2>7, BaseAssumption DEF Nibble
  <2> HIDE DEF k
  <2>9. Place(DigitsOf(bytes), n) = Nibble(DigitsOf(bytes)[k])
    BY <1>2, <1>3 DEF Place, k
  <2> QED
    BY <2>4, <2>8, <2>9, <1>3
<1>4. CASE ~ (n < 2 * Len(bytes))
  BY <1>2, <1>4 DEF Place
<1> QED
  BY <1>3, <1>4

-----------------------------------------------------------------------------
(* new.                                                                    *)

\* A non-empty set of numbers has a smallest one.
LEMMA LeastExists ==
    ASSUME NEW S, S \subseteq Nat, S # {}
    PROVE  \E least \in S : \A n \in S : least <= n
<1>1. PICK least \in S : \A n \in S : ~ (<<n, least>> \in OpToRel(<, Nat))
  BY NatLessThanWellFounded, WFMin
<1>2. ASSUME NEW n \in S
      PROVE  least <= n
  <2>1. n \in Nat /\ least \in Nat /\ <<n, least>> \notin OpToRel(<, Nat)
    BY <1>1
  <2> QED
    BY <2>1 DEF OpToRel
<1> QED
  BY <1>2

\* What new makes of a text is made of digits, in pairs, and the same number.
LEMMA NewKeeps ==
    ASSUME NEW text \in Seq(Character), New(text).tag = "ok"
    PROVE  /\ New(text).value \in Seq(Digit)
           /\ Len(New(text).value) = 2 * ((Len(text) + 1) \div 2)
           /\ \A n \in Nat : Place(New(text).value, n) = Place(text, n)
<1>1. Len(text) \in Nat
  OBVIOUS
<1>2. \A k \in 1..Len(text) : text[k] \in Digit
  BY DEF New, Err
<1>3. text \in Seq(Digit)
  BY <1>2
<1>4. CASE Len(text) % 2 = 0
  <2>1. New(text).value = text
    BY <1>2, <1>4 DEF New, Ok
  <2> QED
    BY <2>1, <1>1, <1>3, <1>4
<1>5. CASE Len(text) % 2 # 0
  <2> DEFINE padded == <<0>> \o text
  <2>1. New(text).value = padded
    BY <1>2, <1>5 DEF New, Ok
  <2>2. 0 \in Digit
    BY BaseAssumption DEF Digit
  <2>3. padded \in Seq(Digit) /\ Len(padded) = Len(text) + 1
    BY <2>2, <1>3
  <2>4. ASSUME NEW n \in Nat
        PROVE  Place(padded, n) = Place(text, n)
    <3>1. CASE n < Len(text)
      <4>1. padded[Len(text) + 1 - n] = text[Len(text) - n]
        BY <1>1, <1>3, <3>1
      <4> QED
        BY <4>1, <2>3, <1>1, <3>1 DEF Place
    <3>2. CASE n = Len(text)
      <4>1. padded[Len(text) + 1 - n] = 0
        BY <1>1, <1>3, <3>2
      <4>2. Nibble(0) = 0
        BY BaseAssumption DEF Nibble
      <4> QED
        BY <4>1, <4>2, <2>3, <1>1, <3>2 DEF Place
    <3>3. CASE n > Len(text)
      BY <2>3, <1>1, <3>3 DEF Place
    <3> QED
      BY <3>1, <3>2, <3>3, <1>1
  <2> HIDE DEF padded
  <2> QED
    BY <2>1, <2>3, <2>4, <1>1, <1>5
<1> QED
  BY <1>4, <1>5

-----------------------------------------------------------------------------
(* from_bytes.                                                             *)

\* Everything before the end of the padding is zero, and a byte there is not.
LEMMA PaddingEnds ==
    ASSUME NEW buf \in Seq(HexByte)
    PROVE  /\ PadEndOfBytes(buf) \in 0..Len(buf)
           /\ \A k \in 1..PadEndOfBytes(buf) : buf[k] = ZeroByte
           /\ PadEndOfBytes(buf) < Len(buf) =>
                 buf[PadEndOfBytes(buf) + 1] # ZeroByte
<1>1. Len(buf) \in Nat /\ DOMAIN buf = 1..Len(buf)
  OBVIOUS
<1>2. CASE \A k \in DOMAIN buf : buf[k] = ZeroByte
  BY <1>1, <1>2 DEF PadEndOfBytes
<1>3. CASE \E k \in DOMAIN buf : buf[k] # ZeroByte
  <2> DEFINE NonZero == {k \in 1..Len(buf) : buf[k] # ZeroByte}
             First(k) == /\ buf[k] # ZeroByte
                         /\ \A j \in DOMAIN buf : j < k => buf[j] = ZeroByte
  <2>1. \E k \in NonZero : \A j \in NonZero : k <= j
    <3>1. NonZero \subseteq Nat /\ NonZero # {}
      BY <1>1, <1>3
    <3> QED
      BY <3>1, LeastExists
  <2>2. PICK k \in DOMAIN buf : First(k)
    BY <2>1, <1>1
  <2>3. PadEndOfBytes(buf) = (CHOOSE j \in DOMAIN buf : First(j)) - 1
    BY <1>3 DEF PadEndOfBytes
  <2> DEFINE first == CHOOSE j \in DOMAIN buf : First(j)
  <2>4. first \in DOMAIN buf /\ First(first)
    BY <2>2
  <2> HIDE DEF first
  <2> QED
    BY <2>3, <2>4, <1>1 DEF first
<1> QED
  BY <1>2, <1>3

\* Padding with zeros, and leaving zeros out, keeps the number.
LEMMA PaddingKeeps ==
    ASSUME NEW buf \in Seq(HexByte), NEW start \in 0..Len(buf),
           NEW length \in Nat, length >= Len(buf) - start,
           \A k \in 1..start : buf[k] = ZeroByte
    PROVE  /\ LeftPadded(buf, start, length) \in Seq(HexByte)
           /\ Len(LeftPadded(buf, start, length)) = length
           /\ \A n \in Nat : Place(DigitsOf(LeftPadded(buf, start, length)), n)
                                = Place(DigitsOf(buf), n)
<1> DEFINE pad == length - (Len(buf) - start)
           padded == LeftPadded(buf, start, length)
<1>1. Len(buf) \in Nat /\ pad \in Nat
  OBVIOUS
<1>2. ZeroByte \in HexByte
  BY BaseAssumption DEF ZeroByte, HexByte
<1>3. padded = [i \in 1..length |->
                   IF i <= pad THEN ZeroByte ELSE buf[i - pad + start]]
  BY DEF LeftPadded
<1>4. ASSUME NEW i \in 1..length, ~ (i <= pad)
      PROVE  i - pad + start \in 1..Len(buf)
  BY <1>1, <1>4
<1>5. padded \in [1..length -> HexByte]
  BY <1>2, <1>3, <1>4
<1>6. padded \in Seq(HexByte) /\ Len(padded) = length
  BY <1>5
<1>7. ASSUME NEW n \in Nat
      PROVE  Place(DigitsOf(padded), n) = Place(DigitsOf(buf), n)
  <2> DEFINE m == n \div 2
             column == IF n % 2 = 0 THEN 2 ELSE 1
  <2> HIDE DEF pad, padded
  <2>1. /\ Place(DigitsOf(padded), n) =
              IF n < 2 * length THEN padded[length - m][column] ELSE 0
        /\ Place(DigitsOf(buf), n) =
              IF n < 2 * Len(buf) THEN buf[Len(buf) - m][column] ELSE 0
    BY <1>6, PlaceOfDigits
  <2>2. m \in Nat /\ (n < 2 * length <=> m < length)
                  /\ (n < 2 * Len(buf) <=> m < Len(buf))
    BY <1>1
  <2>3. ZeroByte[column] = 0
    BY DEF ZeroByte
  <2> HIDE DEF m, column
  <2>4. CASE m < Len(buf) - start
    <3>1. length - m \in 1..length /\ ~ (length - m <= pad)
      BY <2>2, <2>4, <1>1 DEF pad
    <3>2. (length - m) - pad + start = Len(buf) - m
      BY <2>2, <1>1 DEF pad
    <3>3. padded[length - m] = buf[Len(buf) - m]
      BY <3>1, <3>2, <1>3
    <3> QED
      BY <3>1, <3>3, <2>1, <2>2, <2>4, <1>1
  <2>5. CASE m >= Len(buf) - start
    <3>1. m < Len(buf) => buf[Len(buf) - m] = ZeroByte
      <4>1. m < Len(buf) => Len(buf) - m \in 1..start
        BY <2>2, <2>5, <1>1
      <4> QED
        BY <4>1
    <3>2. m < length => padded[length - m] = ZeroByte
      <4>1. m < length => length - m \in 1..length /\ length - m <= pad
        BY <2>2, <2>5, <1>1 DEF pad
      <4> QED
        BY <4>1, <1>3
    <3> QED
      BY <3>1, <3>2, <2>1, <2>2, <2>3
  <2> QED
    BY <2>2, <2>4, <2>5, <1>1
<1> QED
  BY <1>6, <1>7

\* What from_bytes makes of a slice has the length asked for and is the same
\* number; it refuses a slice only for a digit that does not fit.
LEMMA FromBytesKeeps ==
    ASSUME NEW buf \in Seq(HexByte), NEW length \in Nat
    PROVE  LET encoded == FromBytes(buf, length)
           IN  \/ /\ encoded.tag = "ok"
                  /\ encoded.value \in Seq(Digit)
                  /\ Len(encoded.value) = 2 * length
                  /\ \A n \in Nat : Place(encoded.value, n)
                                       = Place(DigitsOf(buf), n)
               \/ /\ encoded.tag = "err"
                  /\ length < Len(buf)
                  /\ \E n \in Nat : /\ n >= 2 * length
                                    /\ Place(DigitsOf(buf), n) # 0
<1> DEFINE start == IF length < Len(buf) THEN PadEndOfBytes(buf) ELSE 0
           padded == LeftPadded(buf, start, length)
<1>1. Len(buf) \in Nat
  OBVIOUS
<1>2. start \in 0..Len(buf) /\ \A k \in 1..start : buf[k] = ZeroByte
  BY <1>1, PaddingEnds
<1>3. CASE length >= Len(buf) - start
  <2>1. FromBytes(buf, length) = Ok(DigitsOf(padded))
    BY <1>1, <1>2, <1>3 DEF FromBytes
  <2>2. /\ padded \in Seq(HexByte) /\ Len(padded) = length
        /\ \A n \in Nat : Place(DigitsOf(padded), n) = Place(DigitsOf(buf), n)
    <3> HIDE DEF start
    <3> QED
      BY <1>2, <1>3, PaddingKeeps
  <2> HIDE DEF padded
  <2>3. DigitsOf(padded) \in Seq(Digit) /\ Len(DigitsOf(padded)) = 2 * length
    BY <2>2, DigitsType
  <2> QED
    BY <2>1, <2>2, <2>3 DEF Ok
<1>4. CASE ~ (length >= Len(buf) - start)
  <2>1. FromBytes(buf, length) = Err /\ length < Len(buf)
    BY <1>1, <1>2, <1>4 DEF FromBytes
  <2>2. start < Len(buf) /\ buf[start + 1] # ZeroByte
    BY <1>1, <1>2, <1>4, <2>1, PaddingEnds
  <2> HIDE DEF start
  <2>3. buf[start + 1] \in HexByte
    BY <1>1, <1>2, <2>2
  <2>4. PICK column \in {1, 2} : buf[start + 1][column] # 0
    BY <2>2, <2>3 DEF HexByte, ZeroByte
  <2> DEFINE m == Len(buf) - (start + 1)
             n == IF column = 2 THEN 2 * m ELSE 2 * m + 1
  <2>5. m \in Nat /\ m >= length
    BY <1>1, <1>2, <1>4, <2>2
  <2>6. /\ n \in Nat /\ n < 2 * Len(buf) /\ n >= 2 * length
        /\ n \div 2 = m
        /\ (IF n % 2 = 0 THEN 2 ELSE 1) = column
    <3>1. m < Len(buf)
      BY <1>1, <1>2
    <3> HIDE DEF m
    <3>2. CASE column = 2
      BY <2>5, <3>1, <3>2, <1>1
    <3>3. CASE column = 1
      BY <2>5, <3>1, <3>3, <1>1
    <3> QED
      BY <3>2, <3>3
  <2>7. Len(buf) - n \div 2 = start + 1
    <3>1. Len(buf) - m = start + 1
      BY <1>1, <1>2
    <3> HIDE DEF m, n
    <3> QED
      BY <2>6, <3>1
  <2> HIDE DEF m, n
  <2>8. Place(DigitsOf(buf), n) = buf[start + 1][column]
    BY <2>6, <2>7, PlaceOfDigits
  <2> QED
    BY <2>1, <2>4, <2>6, <2>8 DEF Err
<1> QED
  BY <1>3, <1>4

-----------------------------------------------------------------------------
(* decode_into_slice.                                                      *)

\* Only the digit 0 has the value 0.
LEMMA NibbleZero ==
    ASSUME NEW digit \in Digit
    PROVE  Nibble(digit) = 0 <=> digit = 0
BY BaseAssumption DEF Nibble, Digit

\* Right aligned in a large enough buffer, the digits after some zeros are the
\* same number.
LEMMA AlignmentKeeps ==
    ASSUME NEW chars \in Seq(Digit), Len(chars) % 2 = 0, NEW size \in Nat,
           NEW start \in 0..Len(chars), start % 2 = 0,
           2 * size >= Len(chars) - start,
           \A k \in 1..start : chars[k] = 0
    PROVE  LET bytes == RightAlignedPairs(chars, size, start)
           IN  /\ bytes \in Seq(HexByte)
               /\ Len(bytes) = size
               /\ \A n \in Nat : Place(DigitsOf(bytes), n) = Place(chars, n)
<1> DEFINE At(k) == Len(chars) - 2 * (size - k) - 2
           Pair(k) == <<Nibble(chars[At(k) + 1]), Nibble(chars[At(k) + 2])>>
           bytes == RightAlignedPairs(chars, size, start)
<1>1. Len(chars) \in Nat /\ DOMAIN chars = 1..Len(chars)
  OBVIOUS
<1>2. bytes = [k \in 1..size |-> IF At(k) >= start THEN Pair(k) ELSE ZeroByte]
  BY DEF RightAlignedPairs
<1>3. ZeroByte \in HexByte
  BY BaseAssumption DEF ZeroByte, HexByte
<1>4. ASSUME NEW k \in 1..size, At(k) >= start
      PROVE  Pair(k) \in HexByte
  <2>1. At(k) + 1 \in DOMAIN chars /\ At(k) + 2 \in DOMAIN chars
    BY <1>1, <1>4
  <2>2. chars[At(k) + 1] \in Digit /\ chars[At(k) + 2] \in Digit
    BY <2>1
  <2> HIDE DEF At
  <2> QED
    BY <2>2, NibbleType DEF HexByte
<1>5. bytes \in [1..size -> HexByte]
  <2> HIDE DEF Pair, At
  <2> QED
    BY <1>2, <1>3, <1>4
<1>6. bytes \in Seq(HexByte) /\ Len(bytes) = size
  BY <1>5
<1>7. ASSUME NEW n \in Nat
      PROVE  Place(DigitsOf(bytes), n) = Place(chars, n)
  <2> DEFINE m == n \div 2
             column == IF n % 2 = 0 THEN 2 ELSE 1
  <2>1. Place(DigitsOf(bytes), n) =
            IF n < 2 * size THEN bytes[size - m][column] ELSE 0
    <3> HIDE DEF bytes
    <3> QED
      BY <1>6, PlaceOfDigits
  <2>2. /\ m \in Nat /\ (n < 2 * size => size - m \in 1..size)
        /\ n = IF column = 2 THEN 2 * m ELSE 2 * m + 1
        /\ column \in {1, 2}
    OBVIOUS
  <2>3. At(size - m) = Len(chars) - 2 * m - 2
    BY <1>1, <2>2
  <2>4. CASE n < 2 * size /\ At(size - m) >= start
    <3>1. bytes[size - m] = Pair(size - m)
      BY <1>2, <2>2, <2>4
    <3> HIDE DEF m, column, bytes
    <3>2. Pair(size - m)[column] = Nibble(chars[Len(chars) - n])
      <4>1. CASE column = 1
        <5>1. At(size - m) + 1 = Len(chars) - n
          BY <4>1, <2>2, <2>3, <1>1
        <5> HIDE DEF At
        <5> QED
          BY <4>1, <5>1
      <4>2. CASE column = 2
        <5>1. At(size - m) + 2 = Len(chars) - n
          BY <4>2, <2>2, <2>3, <1>1
        <5> HIDE DEF At
        <5> QED
          BY <4>2, <5>1
      <4> QED
        BY <4>1, <4>2, <2>2
    <3>3. n < Len(chars)
      BY <2>2, <2>3, <2>4, <1>1
    <3> HIDE DEF Pair, At
    <3> QED
      BY <3>1, <3>2, <3>3, <2>1, <2>4 DEF Place
  <2>5. CASE ~ (n < 2 * size /\ At(size - m) >= start)
    <3>1. Len(chars) - n <= start
      <4>1. CASE n < 2 * size
        <5>1. Len(chars) - 2 * m - 2 < start
          BY <4>1, <2>3, <2>5, <1>1
        <5>2. Len(chars) - 2 * m <= start
          BY <5>1, <2>2, <1>1
        <5> QED
          BY <5>2, <2>2, <1>1
      <4>2. CASE ~ (n < 2 * size)
        BY <4>2, <1>1
      <4> QED
        BY <4>1, <4>2
    <3>2. Place(chars, n) = 0
      <4>1. CASE n < Len(chars)
        <5>1. Len(chars) - n \in 1..start
          BY <3>1, <4>1, <1>1
        <5>2. Nibble(0) = 0
          BY BaseAssumption DEF Nibble
        <5> QED
          BY <5>1, <5>2, <4>1 DEF Place
      <4> QED
        BY <4>1 DEF Place
    <3>3. n < 2 * size => bytes[size - m] = ZeroByte
      BY <1>2, <2>2, <2>5
    <3>4. ZeroByte[column] = 0
      BY DEF ZeroByte
    <3> HIDE DEF m, column, bytes
    <3> QED
      BY <2>1, <3>2, <3>3, <3>4
  <2> QED
    BY <2>4, <2>5
<1> HIDE DEF bytes
<1> QED
  BY <1>6, <1>7 DEF bytes

\* Padding that is judged right ends where the first pair that is not 00 is.
LEMMA JudgedRight ==
    ASSUME NEW chars \in Seq(Digit), NEW size \in Nat, JudgesPadding(chars)
    PROVE  \E i \in PairStarts(chars) :
               /\ PadEnd(chars, size) = Ok(i)
               /\ {chars[i + 1], chars[i + 2]} # {0}
               /\ \A k \in 1..i : chars[k] = 0
<1>1. PICK i \in PairStarts(chars) :
          /\ Breaks(chars, i)
          /\ {chars[i + 1], chars[i + 2]} # {0}
          /\ \A k \in 1..i : chars[k] = 0
  BY DEF JudgesPadding
<1>2. PairStarts(chars) \subseteq Nat
  BY DEF PairStarts
<1>3. ASSUME NEW j \in PairStarts(chars)
      PROVE  ~ Panics(chars, j) /\ (Breaks(chars, j) => j = i)
  <2>1. i \in Nat /\ j \in Nat
    BY <1>2
  <2>2. j < i => ~ ReadsOutside(chars, j) /\ ~ StopsAt(chars, j)
    BY <1>1 DEF Breaks, Reaches
  <2>3. i < j => ~ Reaches(chars, j)
    BY <1>1 DEF Breaks, Reaches
  <2>4. ~ ReadsOutside(chars, i)
    BY <1>1 DEF Breaks
  <2>5. j < i \/ j = i \/ i < j
    BY <2>1
  <2> QED
    BY <2>2, <2>3, <2>4, <2>5 DEF Breaks, Panics
<1>4. (CHOOSE j \in PairStarts(chars) : Breaks(chars, j)) = i
  BY <1>1, <1>3
<1>5. PadEnd(chars, size) = Ok(i)
  BY <1>1, <1>3, <1>4 DEF PadEnd
<1> QED
  BY <1>1, <1>5

\* What decode_into_slice leaves in a careful caller's buffer is the same
\* number; it refuses a HexString only for a digit that does not fit.
LEMMA DecodeKeeps ==
    ASSUME NEW chars \in Seq(Digit), Len(chars) % 2 = 0, NEW size \in Nat,
           2 * size >= Len(chars) \/ JudgesPadding(chars)
    PROVE  LET bytes == DecodeInto(chars, size)
           IN  \/ /\ bytes.tag = "ok"
                  /\ bytes.value \in Seq(HexByte)
                  /\ Len(bytes.value) = size
                  /\ \A n \in Nat : Place(DigitsOf(bytes.value), n)
                                       = Place(chars, n)
               \/ /\ bytes.tag = "err"
                  /\ 2 * size < Len(chars)
                  /\ \E n \in Nat : n >= 2 * size /\ Place(chars, n) # 0
<1>1. Len(chars) \in Nat
  OBVIOUS
<1>2. CASE 2 * size >= Len(chars)
  <2>1. DecodeInto(chars, size) = Ok(RightAlignedPairs(chars, size, 0))
    BY <1>2 DEF DecodeInto
  <2>2. /\ 0 \in 0..Len(chars) /\ 0 % 2 = 0 /\ 2 * size >= Len(chars) - 0
        /\ \A k \in 1..0 : chars[k] = 0
    BY <1>1, <1>2
  <2> QED
    BY <2>1, <2>2, AlignmentKeeps DEF Ok
<1>3. CASE ~ (2 * size >= Len(chars))
  <2>1. PICK i \in PairStarts(chars) :
            /\ PadEnd(chars, size) = Ok(i)
            /\ {chars[i + 1], chars[i + 2]} # {0}
            /\ \A k \in 1..i : chars[k] = 0
    BY <1>3, JudgedRight
  <2>2. i \in 0..(Len(chars) - 1) /\ i % 2 = 0
    BY DEF PairStarts
  <2>3. DecodeInto(chars, size) =
            IF 2 * size < Len(chars) - i THEN Err
            ELSE Ok(RightAlignedPairs(chars, size, i))
    <3>1. DecodeInto(chars, size) = DecodeFrom(chars, size, Ok(i))
      BY <1>3, <2>1 DEF DecodeInto
    <3> QED
      BY <3>1 DEF DecodeFrom, Ok
  <2>4. CASE 2 * size < Len(chars) - i
    <3>1. i + 1 \in 1..Len(chars) /\ i + 2 \in 1..Len(chars)
      BY <1>1, <2>2
    <3>2. PICK k \in {i + 1, i + 2} : chars[k] # 0
      BY <2>1
    <3>3. k \in 1..Len(chars) /\ k <= i + 2
      BY <3>1, <3>2, <2>2
    <3>4. Len(chars) - k \in Nat /\ Len(chars) - k >= 2 * size
      BY <3>3, <2>2, <2>4, <1>1
    <3>5. Nibble(chars[k]) # 0
      BY <3>2, <3>3, NibbleZero
    <3>6. Len(chars) - k < Len(chars) /\ Len(chars) - (Len(chars) - k) = k
      BY <3>3, <1>1
    <3>7. Place(chars, Len(chars) - k) # 0
      BY <3>5, <3>6 DEF Place
    <3> QED
      BY <2>3, <2>4, <3>4, <3>7, <1>1, <1>3 DEF Err
  <2>5. CASE ~ (2 * size < Len(chars) - i)
    <3>1. 2 * size >= Len(chars) - i /\ i \in 0..Len(chars)
      BY <2>2, <2>5, <1>1
    <3> DEFINE pairs == RightAlignedPairs(chars, size, i)
    <3>2. /\ pairs \in Seq(HexByte) /\ Len(pairs) = size
          /\ \A n \in Nat : Place(DigitsOf(pairs), n) = Place(chars, n)
      BY <2>1, <2>2, <3>1, AlignmentKeeps
    <3>3. DecodeInto(chars, size) = Ok(pairs)
      BY <2>3, <2>5
    <3> HIDE DEF pairs
    <3> QED
      BY <3>2, <3>3 DEF Ok
  <2> QED
    BY <2>4, <2>5
<1> QED
  BY <1>2, <1>3

-----------------------------------------------------------------------------
(* The invariant.                                                          *)

\* NumberKept, for every place.
AllPlacesKept == \A n \in Nat : Place(Characters, n) = Place(denotes, n)

Inv == TypeOK /\ AllPlacesKept /\ LengthAsAsked /\ RefusesOnlyMisfits

CharactersOf(newForm, value) ==
    IF newForm = "bytes" THEN DigitsOf(value) ELSE value

\* What a call returns is the number it was given, as a HexString or slice of
\* the length asked for, or an error that the size or a character justifies.
Delivers(outcome, newForm, call, length) ==
    \/ /\ outcome.tag = "ok"
       /\ \/ /\ newForm = "hex"
             /\ outcome.value \in Seq(Digit)
             /\ Len(outcome.value) = 2 * length
          \/ /\ newForm = "bytes"
             /\ outcome.value \in Seq(HexByte)
             /\ Len(outcome.value) = length
       /\ \A n \in Nat : Place(CharactersOf(newForm, outcome.value), n)
                            = Place(Characters, n)
    \/ /\ outcome.tag = "err"
       /\ \/ call = "new"
          \/ \E n \in Nat : n >= 2 * length /\ Place(Characters, n) # 0

\* A digit beyond the size keeps a number from fitting.
LEMMA Misfit ==
    ASSUME NEW chars \in Seq(Character), NEW size \in Nat, NEW n \in Nat,
           n >= 2 * size, Place(chars, n) # 0
    PROVE  ~ Fits(chars, size)
<1>1. Len(chars) \in Nat
  OBVIOUS
<1>2. n < Len(chars)
  BY DEF Place
<1>3. n \in 0..Len(chars)
  BY <1>1, <1>2
<1> QED
  BY <1>3 DEF Fits

\* A call that delivers keeps the invariant.
LEMMA DeliveryKeeps ==
    ASSUME Inv, Alive,
           NEW outcome, NEW newForm, NEW length \in Nat,
           NEW call \in {"new", "from", "from_bytes", "decode",
                         "decode_into_slice"},
           Delivers(outcome, newForm, call, length),
           Becomes(newForm, outcome, call, length)
    PROVE  Inv'
<1>1. /\ result' = [call |-> call, length |-> length, tag |-> outcome.tag]
      /\ denotes' = denotes
      /\ denotes \in Seq(Character)
  BY DEF Becomes, Inv, TypeOK
<1>2. CASE outcome.tag = "ok"
  <2>1. form' = newForm /\ held' = outcome.value
    BY <1>2 DEF Becomes
  <2>2. Characters' = CharactersOf(newForm, outcome.value)
    BY <2>1 DEF Characters, CharactersOf
  <2>3. AllPlacesKept'
    BY <2>2, <1>1, <1>2 DEF AllPlacesKept, Delivers, Inv
  <2>4. RefusesOnlyMisfits'
    BY <1>1, <1>2 DEF RefusesOnlyMisfits
  <2>5. result' \in [call : {"none", "new", "from", "from_bytes", "decode",
                             "decode_into_slice"},
                     length : Nat, tag : Tags]
    BY <1>1, <1>2 DEF Tags
  <2>6. CASE newForm = "hex"
    <3>1. held' \in Seq(Digit) /\ Len(held') = 2 * length
      BY <2>1, <2>6, <1>2 DEF Delivers
    <3>2. Len(held') % 2 = 0 /\ Len(held') \div 2 = length
      BY <3>1
    <3>3. TypeOK'
      BY <2>1, <2>5, <2>6, <3>1, <3>2, <1>1 DEF TypeOK
    <3>4. LengthAsAsked'
      BY <2>1, <2>6, <3>2, <1>1 DEF LengthAsAsked, ByteLen
    <3> QED
      BY <2>3, <2>4, <3>3, <3>4 DEF Inv
  <2>7. CASE newForm = "bytes"
    <3>1. held' \in Seq(HexByte) /\ Len(held') = length
      BY <2>1, <2>7, <1>2 DEF Delivers
    <3>2. TypeOK'
      BY <2>1, <2>5, <2>7, <3>1, <1>1 DEF TypeOK
    <3>3. LengthAsAsked'
      BY <2>1, <2>7, <3>1, <1>1 DEF LengthAsAsked
    <3> QED
      BY <2>3, <2>4, <3>2, <3>3 DEF Inv
  <2> QED
    BY <2>6, <2>7, <1>2 DEF Delivers
<1>3. CASE outcome.tag = "err"
  <2>1. UNCHANGED <<form, held>>
    BY <1>3 DEF Becomes
  <2>2. TypeOK' /\ AllPlacesKept' /\ LengthAsAsked'
    BY <2>1, <1>1, <1>3
       DEF Inv, TypeOK, AllPlacesKept, LengthAsAsked, Characters, Tags
  <2>3. RefusesOnlyMisfits'
    <3>1. CASE call = "new"
      BY <3>1, <1>1, <1>3 DEF RefusesOnlyMisfits
    <3>2. CASE \E n \in Nat : n >= 2 * length /\ Place(Characters, n) # 0
      <4>1. PICK n \in Nat : n >= 2 * length /\ Place(Characters, n) # 0
        BY <3>2
      <4>2. Place(denotes, n) # 0
        BY <4>1 DEF Inv, AllPlacesKept
      <4>3. ~ Fits(denotes, length)
        BY <4>1, <4>2, <1>1, Misfit
      <4>4. ~ Fits(denotes', result'.length)
        BY <4>3, <1>1
      <4> QED
        BY <4>4, <1>1, <1>3 DEF RefusesOnlyMisfits
    <3> QED
      BY <3>1, <3>2, <1>3 DEF Delivers
  <2> QED
    BY <2>2, <2>3 DEF Inv
<1> QED
  BY <1>2, <1>3 DEF Delivers

LEMMA InitInv == Init => Inv
<1> SUFFICES ASSUME Init PROVE Inv
  OBVIOUS
<1>1. result = [call |-> "none", length |-> 0, tag |-> "ok"]
  BY DEF Init
<1>2. CASE form = "text" /\ held \in Texts /\ denotes = held
  <2>1. held \in Seq(Character)
    BY <1>2, ValuesAssumption
  <2> QED
    BY <1>1, <1>2, <2>1 DEF Inv, TypeOK, AllPlacesKept, LengthAsAsked,
                            RefusesOnlyMisfits, Characters, Tags
<1>3. CASE form = "bytes" /\ held \in Buffers /\ denotes = DigitsOf(held)
  <2>1. held \in Seq(HexByte)
    BY <1>3, ValuesAssumption
  <2>2. DigitsOf(held) \in Seq(Character)
    BY <2>1, DigitsType DEF Character
  <2> QED
    BY <1>1, <1>3, <2>1, <2>2 DEF Inv, TypeOK, AllPlacesKept, LengthAsAsked,
                                  RefusesOnlyMisfits, Characters, Tags
<1> QED
  BY <1>2, <1>3 DEF Init

LEMMA ParseKeeps == ASSUME Inv, Alive, Parse PROVE Inv'
<1> DEFINE length == (Len(held) + 1) \div 2
<1>1. held \in Seq(Character) /\ form = "text"
  BY DEF Parse, Inv, TypeOK
<1>2. length \in Nat
  BY <1>1
<1>3. New(held).tag \in {"ok", "err"}
  BY DEF New, Ok, Err
<1>4. New(held).tag = "ok" => /\ New(held).value \in Seq(Digit)
                              /\ Len(New(held).value) = 2 * length
                              /\ \A n \in Nat : Place(New(held).value, n)
                                                   = Place(held, n)
  BY <1>1, NewKeeps
<1>5. Delivers(New(held), "hex", "new", length)
  <2> HIDE DEF length
  <2> QED
    BY <1>1, <1>3, <1>4 DEF Delivers, CharactersOf, Characters
<1>6. Becomes("hex", New(held), "new", length)
  BY DEF Parse
<1> HIDE DEF length
<1> QED
  BY <1>2, <1>5, <1>6, DeliveryKeeps

\* from_bytes delivers, whatever length it is asked for.
LEMMA FromBytesDelivers ==
    ASSUME Inv, form = "bytes", NEW length \in Nat, NEW call
    PROVE  /\ Delivers(FromBytes(held, length), "hex", call, length)
           /\ length = Len(held) => FromBytes(held, length).tag = "ok"
<1>1. held \in Seq(HexByte) /\ Characters = DigitsOf(held)
  BY DEF Inv, TypeOK, Characters
<1>2. Len(held) \in Nat
  BY <1>1
<1> DEFINE encoded == FromBytes(held, length)
<1>3. \/ /\ encoded.tag = "ok"
         /\ encoded.value \in Seq(Digit)
         /\ Len(encoded.value) = 2 * length
         /\ \A n \in Nat : Place(encoded.value, n) = Place(DigitsOf(held), n)
      \/ /\ encoded.tag = "err"
         /\ length < Len(held)
         /\ \E n \in Nat : n >= 2 * length /\ Place(DigitsOf(held), n) # 0
  BY <1>1, FromBytesKeeps
<1> HIDE DEF encoded
<1>4. Delivers(encoded, "hex", call, length)
  BY <1>1, <1>3 DEF Delivers, CharactersOf
<1> QED
  BY <1>2, <1>3, <1>4 DEF encoded

LEMMA FromKeeps == ASSUME Inv, Alive, From PROVE Inv'
<1> DEFINE encoded == FromBytes(held, Len(held))
<1>1. form = "bytes" /\ Len(held) \in Nat
  BY DEF From, Inv, TypeOK
<1>2. Delivers(encoded, "hex", "from", Len(held)) /\ encoded.tag = "ok"
  BY <1>1, FromBytesDelivers
<1>3. Becomes("hex", encoded, "from", Len(held))
  BY <1>2 DEF From
<1> HIDE DEF encoded
<1> QED
  BY <1>1, <1>2, <1>3, DeliveryKeeps

LEMMA EncodeKeeps ==
    ASSUME Inv, Alive, NEW length \in Nat, Encode(length) PROVE Inv'
<1>1. Delivers(FromBytes(held, length), "hex", "from_bytes", length)
  BY FromBytesDelivers DEF Encode
<1> QED
  BY <1>1, DeliveryKeeps DEF Encode

\* decode_into_slice delivers to a careful caller.
LEMMA DecodeDelivers ==
    ASSUME Inv, form = "hex", NEW size \in Nat, NEW call,
           2 * size >= Len(held) \/ JudgesPadding(held)
    PROVE  /\ Delivers(DecodeInto(held, size), "bytes", call, size)
           /\ 2 * size >= Len(held) => DecodeInto(held, size).tag = "ok"
<1>1. /\ held \in Seq(Digit) /\ Len(held) % 2 = 0
      /\ Characters = held
  BY DEF Inv, TypeOK, Characters
<1>2. Len(held) \in Nat
  BY <1>1
<1> DEFINE bytes == DecodeInto(held, size)
<1>3. \/ /\ bytes.tag = "ok"
         /\ bytes.value \in Seq(HexByte)
         /\ Len(bytes.value) = size
         /\ \A n \in Nat : Place(DigitsOf(bytes.value), n) = Place(held, n)
      \/ /\ bytes.tag = "err"
         /\ 2 * size < Len(held)
         /\ \E n \in Nat : n >= 2 * size /\ Place(held, n) # 0
  BY <1>1, DecodeKeeps
<1> HIDE DEF bytes
<1>4. Delivers(bytes, "bytes", call, size)
  BY <1>1, <1>3 DEF Delivers, CharactersOf
<1> QED
  BY <1>2, <1>3, <1>4 DEF bytes

LEMMA DecodeIntoSliceKeeps ==
    ASSUME CarefulCallers, Inv, Alive, NEW size \in Nat, DecodeIntoSlice(size)
    PROVE  Inv'
<1>1. form = "hex" /\ held \in Seq(Digit) /\ MayDecodeInto(held, size)
  BY DEF DecodeIntoSlice, Inv, TypeOK
<1>2. 2 * size >= Len(held) \/ JudgesPadding(held)
  BY <1>1 DEF CarefulCallers
<1>3. Delivers(DecodeInto(held, size), "bytes", "decode_into_slice", size)
  BY <1>1, <1>2, DecodeDelivers
<1> QED
  BY <1>3, DeliveryKeeps DEF DecodeIntoSlice

LEMMA DecodeToVecKeeps == ASSUME Inv, Alive, DecodeToVec PROVE Inv'
<1> DEFINE size == ByteLen(held)
           bytes == DecodeInto(held, size)
<1>1. form = "hex" /\ held \in Seq(Digit) /\ Len(held) % 2 = 0
  BY DEF DecodeToVec, Inv, TypeOK
<1>2. size \in Nat /\ 2 * size >= Len(held)
  <2>1. Len(held) \in Nat
    BY <1>1
  <2> QED
    BY <2>1, <1>1 DEF ByteLen
<1>3. Delivers(bytes, "bytes", "decode", size) /\ bytes.tag = "ok"
  <2> HIDE DEF size
  <2> QED
    BY <1>1, <1>2, DecodeDelivers
<1>4. Becomes("bytes", bytes, "decode", size)
  BY <1>3 DEF DecodeToVec, Decode
<1> HIDE DEF bytes, size
<1> QED
  BY <1>2, <1>3, <1>4, DeliveryKeeps

LEMMA InvInductive ==
    ASSUME CarefulCallers, Inv, [Next]_vars
    PROVE  Inv'
<1>1. CASE Alive /\ Parse
  BY <1>1, ParseKeeps
<1>2. CASE Alive /\ From
  BY <1>2, FromKeeps
<1>3. ASSUME Alive, NEW length \in Lengths, Encode(length)
      PROVE  Inv'
  BY <1>3, EncodeKeeps, ValuesAssumption
<1>4. ASSUME Alive, NEW size \in Lengths, DecodeIntoSlice(size)
      PROVE  Inv'
  BY <1>4, DecodeIntoSliceKeeps, ValuesAssumption
<1>5. CASE Alive /\ DecodeToVec
  BY <1>5, DecodeToVecKeeps
<1>6. CASE UNCHANGED vars
  BY <1>6 DEF vars, Inv, TypeOK, AllPlacesKept, LengthAsAsked,
              RefusesOnlyMisfits, Characters
<1> QED
  BY <1>1, <1>2, <1>3, <1>4, <1>5, <1>6 DEF Next

-----------------------------------------------------------------------------
\* The variables have their types; a HexString is always a whole number of
\* bytes.
THEOREM TypeCorrect == ASSUME CarefulCallers PROVE Spec => []TypeOK
<1>1. Inv => TypeOK
  BY DEF Inv
<1> QED
  BY <1>1, InitInv, InvInductive, PTL DEF Spec

\* Through any calls of new, from_bytes, decode and decode_into_slice, a value
\* stays the number it came in as, for every base and all lengths.
THEOREM NumberIsKept == ASSUME CarefulCallers PROVE Spec => []NumberKept
<1>1. Inv => NumberKept
  <2> SUFFICES ASSUME Inv PROVE NumberKept
    OBVIOUS
  <2>1. ASSUME NEW n \in 0..(Len(Characters) + Len(denotes))
        PROVE  Place(Characters, n) = Place(denotes, n)
    <3>1. Characters \in Seq(Character)
      BY DigitsType DEF Inv, TypeOK, Characters, Character
    <3>2. denotes \in Seq(Character)
      BY DEF Inv, TypeOK
    <3>3. Len(Characters) \in Nat /\ Len(denotes) \in Nat
      BY <3>1, <3>2
    <3> QED
      BY <3>3 DEF Inv, AllPlacesKept
  <2> QED
    BY <2>1 DEF NumberKept, SameNumber
<1> QED
  BY <1>1, InitInv, InvInductive, PTL DEF Spec

\* A call that succeeds yields the length it was asked for.
THEOREM LengthIsAsAsked == ASSUME CarefulCallers PROVE Spec => []LengthAsAsked
<1>1. Inv => LengthAsAsked
  BY DEF Inv
<1> QED
  BY <1>1, InitInv, InvInductive, PTL DEF Spec

\* No call panics, and a value is refused for its size only when its digits do
\* not fit.
THEOREM OnlyMisfitsRefused ==
    ASSUME CarefulCallers PROVE Spec => []RefusesOnlyMisfits
<1>1. Inv => RefusesOnlyMisfits
  BY DEF Inv
<1> QED
  BY <1>1, InitInv, InvInductive, PTL DEF Spec

=============================================================================
