------------------------------ MODULE HexDigits ------------------------------
(***************************************************************************)
(* The conversions of HexString (src/middleware/api.rs) between characters *)
(* and bytes.                                                              *)
(*                                                                         *)
(* The digits are 0 .. Base - 1; the program's Base is 16.  Those in       *)
(* Letters have a second, upper-case form, Base above the first.  Every    *)
(* character that is no digit is OtherChar.  A byte is its two digits.     *)
(*                                                                         *)
(* Rust's indices start at 0; the operators below take such indices and add *)
(* one where they read a sequence.                                         *)
(***************************************************************************)
EXTENDS Integers, Sequences, EpcResults

CONSTANTS Base, Letters

ASSUME BaseAssumption == Base \in Nat \ {0} /\ Letters \subseteq 1..(Base - 1)

HexByte == (0..(Base - 1)) \X (0..(Base - 1))

ZeroByte == <<0, 0>>

Digit == (0..(Base - 1)) \union {Base + n : n \in Letters}

OtherChar == 2 * Base

\* from_str_radix, for one digit.
Nibble(digit) == IF digit >= Base THEN digit - Base ELSE digit

Lower(chars) == [k \in DOMAIN chars |-> Nibble(chars[k])]

\* PartialEq<&str>, which does not tell upper from lower case as the derived
\* equality of two HexStrings does.
EqualsStr(chars, other) == Lower(chars) = Lower(other)

\* Mutant: an odd number of characters is left as it is.
NewUnpadded(text) ==
    IF \E k \in DOMAIN text : text[k] \notin Digit THEN Err ELSE Ok(text)

\* new, from_str and TryFrom<String>.
New(text) ==
    IF \E k \in DOMAIN text : text[k] \notin Digit THEN Err
    ELSE IF Len(text) % 2 = 0 THEN Ok(text)
    ELSE Ok(<<0>> \o text)

ByteLen(chars) == Len(chars) \div 2

-----------------------------------------------------------------------------
(* From bytes.                                                             *)

\* write!("{:02x}") for each byte.
DigitsOf(bytes) ==
    [k \in 1..(2 * Len(bytes)) |->
        bytes[(k + 1) \div 2][IF k % 2 = 1 THEN 1 ELSE 2]]

\* The index of the first byte that is not zero, if there is one.
PadEndOfBytes(buf) ==
    IF \A k \in DOMAIN buf : buf[k] = ZeroByte THEN Len(buf)
    ELSE (CHOOSE k \in DOMAIN buf :
             /\ buf[k] # ZeroByte
             /\ \A j \in DOMAIN buf : j < k => buf[j] = ZeroByte) - 1

\* The bytes from start on, left padded to the length.
LeftPadded(buf, start, length) ==
    LET pad == length - (Len(buf) - start)
    IN  [i \in 1..length |->
            IF i <= pad THEN ZeroByte ELSE buf[i - pad + start]]

\* Mutant: padding is not looked for.
FromBytesStrict(buf, length) ==
    IF length < Len(buf) THEN Err ELSE Ok(DigitsOf(LeftPadded(buf, 0, length)))

\* Mutant: the length only limits, it does not pad.
FromBytesUnpadded(buf, length) ==
    LET start == IF length < Len(buf) THEN PadEndOfBytes(buf) ELSE 0
    IN  IF length < Len(buf) - start THEN Err
        ELSE Ok(DigitsOf(SubSeq(buf, start + 1, Len(buf))))

FromBytes(buf, length) ==
    LET start == IF length < Len(buf) THEN PadEndOfBytes(buf) ELSE 0
    IN  IF length < Len(buf) - start THEN Err
        ELSE Ok(DigitsOf(LeftPadded(buf, start, length)))

-----------------------------------------------------------------------------
(* Into bytes.                                                             *)

\* The even indices, at which the digit pairs start.
PairStarts(chars) == {i \in 0..(Len(chars) - 1) : i % 2 = 0}

\* The test of the padding loop at i reads internal[i] and, when that is zero,
\* internal[i + i].
ReadsOutside(chars, i) == chars[i + 1] = 0 /\ 2 * i >= Len(chars)

StopsAt(chars, i) == chars[i + 1] = 0 => chars[2 * i + 1] # 0

\* The rounds of the loop before i neither stop nor panic.
Reaches(chars, i) ==
    \A j \in PairStarts(chars) :
        j < i => ~ ReadsOutside(chars, j) /\ ~ StopsAt(chars, j)

Panics(chars, i) == Reaches(chars, i) /\ ReadsOutside(chars, i)

Breaks(chars, i) ==
    Reaches(chars, i) /\ ~ ReadsOutside(chars, i) /\ StopsAt(chars, i)

\* Where the padding loop leaves pad_end.
PadEnd(chars, size) ==
    IF \E i \in PairStarts(chars) : Panics(chars, i) THEN Panic
    ELSE IF \E i \in PairStarts(chars) : Breaks(chars, i)
    THEN Ok(CHOOSE i \in PairStarts(chars) : Breaks(chars, i))
    ELSE Ok(size)

\* Mutant: the value is left aligned.
LeftAlignedPairs(chars, size, start) ==
    [k \in 1..size |->
        IF start + 2 * k <= Len(chars)
        THEN <<Nibble(chars[start + 2 * k - 1]), Nibble(chars[start + 2 * k])>>
        ELSE ZeroByte]

\* The digits from start on, right aligned in a buffer of the given size.
RightAlignedPairs(chars, size, start) ==
    [k \in 1..size |->
        LET at == Len(chars) - 2 * (size - k) - 2
        IN  IF at >= start THEN <<Nibble(chars[at + 1]), Nibble(chars[at + 2])>>
            ELSE ZeroByte]

\* decode_into_slice, as far as it depends on where the padding ends.
DecodeFrom(chars, size, end) ==
    IF end.tag = "panic" THEN Panic
    ELSE IF 2 * size < Len(chars) - end.value THEN Err
    ELSE Ok(RightAlignedPairs(chars, size, end.value))

DecodeInto(chars, size) ==
    IF 2 * size >= Len(chars) THEN Ok(RightAlignedPairs(chars, size, 0))
    ELSE DecodeFrom(chars, size, PadEnd(chars, size))

\* decode, which unwraps.
Decode(chars) ==
    LET bytes == DecodeInto(chars, ByteLen(chars))
    IN  IF bytes.tag = "ok" THEN bytes ELSE Panic

\* The padding loop stops at the first pair that is not 00.
JudgesPadding(chars) ==
    \E i \in PairStarts(chars) :
        /\ Breaks(chars, i)
        /\ {chars[i + 1], chars[i + 2]} # {0}
        /\ \A k \in 1..i : chars[k] = 0

=============================================================================
