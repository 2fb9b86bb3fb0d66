------------------------------ MODULE HexString ------------------------------
(***************************************************************************)
(* A value on its way through HexString (src/middleware/api.rs): it starts *)
(* as text or as bytes, becomes a HexString, is decoded into a buffer of   *)
(* some size, becomes a HexString of some length again, and so on.  Along  *)
(* the way it may be padded and stripped of padding, and should never      *)
(* become another number.                                                  *)
(***************************************************************************)
EXTENDS HexDigits

CONSTANTS
    Texts,             \* strings given to new
    Buffers,           \* byte slices given to from_bytes
    Lengths,           \* the lengths and buffer sizes that callers choose
    MayDecodeInto(_, _)   \* the calls of decode_into_slice that callers make:
                          \*   HexString, size of the buffer

Character == Digit \union {OtherChar}

ASSUME ValuesAssumption ==
    /\ Texts \subseteq Seq(Character)
    /\ Buffers \subseteq Seq(HexByte)
    /\ Lengths \subseteq Nat

VARIABLES
    form,       \* "text", "hex" for a HexString, or "bytes" for a slice
    held,       \* its characters or its bytes
    denotes,    \* the characters of the value as it came in
    result      \* the call made last, the length it was asked for, its outcome

vars == <<form, held, denotes, result>>

Init ==
    /\ \/ form = "text" /\ held \in Texts /\ denotes = held
       \/ form = "bytes" /\ held \in Buffers /\ denotes = DigitsOf(held)
    /\ result = [call |-> "none", length |-> 0, tag |-> "ok"]

\* A panic ends the process.
Alive == result.tag # "panic"

Becomes(newForm, outcome, call, length) ==
    /\ result' = [call |-> call, length |-> length, tag |-> outcome.tag]
    /\ IF outcome.tag = "ok"
       THEN form' = newForm /\ held' = outcome.value
       ELSE UNCHANGED <<form, held>>
    /\ UNCHANGED denotes

Parse ==
    /\ form = "text"
    /\ Becomes("hex", New(held), "new", (Len(held) + 1) \div 2)

\* From<&[u8]>, From<Vec<u8>> and From<[u8; N]> unwrap a from_bytes of the
\* slice's own length.
From ==
    /\ form = "bytes"
    /\ LET encoded == FromBytes(held, Len(held))
       IN  Becomes("hex", IF encoded.tag = "ok" THEN encoded ELSE Panic,
                   "from", Len(held))

Encode(length) ==
    /\ form = "bytes"
    /\ Becomes("hex", FromBytes(held, length), "from_bytes", length)

\* decode_into_slice, and with it TryFrom<HexString> for [u8; N].
DecodeIntoSlice(size) ==
    /\ form = "hex"
    /\ MayDecodeInto(held, size)
    /\ Becomes("bytes", DecodeInto(held, size), "decode_into_slice", size)

DecodeToVec ==
    /\ form = "hex"
    /\ Becomes("bytes", Decode(held), "decode", ByteLen(held))

Next ==
    /\ Alive
    /\ \/ Parse
       \/ From
       \/ \E length \in Lengths : Encode(length) \/ DecodeIntoSlice(length)
       \/ DecodeToVec

Spec == Init /\ [][Next]_vars

-----------------------------------------------------------------------------
(* Properties.                                                             *)

Characters == IF form = "bytes" THEN DigitsOf(held) ELSE held

\* The types of the variables; a HexString has a whole number of bytes.
TypeOK ==
    /\ form \in {"text", "hex", "bytes"}
    /\ form = "text" => held \in Seq(Character)
    /\ form = "hex" => held \in Seq(Digit) /\ Len(held) % 2 = 0
    /\ form = "bytes" => held \in Seq(HexByte)
    /\ denotes \in Seq(Character)
    /\ result \in [call : {"none", "new", "from", "from_bytes", "decode",
                           "decode_into_slice"},
                   length : Nat, tag : Tags]

\* The n-th digit from the right, counted from 0; to the left of a number
\* there are zeros.
Place(chars, n) == IF n < Len(chars) THEN Nibble(chars[Len(chars) - n]) ELSE 0

SameNumber(chars, others) ==
    \A n \in 0..(Len(chars) + Len(others)) : Place(chars, n) = Place(others, n)

\* Whatever calls it goes through, and with whatever lengths, a value stays the
\* number it came in as: padding is added and taken away, digits are not
\* ("without losing information").
NumberKept == SameNumber(Characters, denotes)

\* Callers give decode_into_slice room for the whole HexString, or leave it to
\* judge padding that it judges right.
CarefulCallers ==
    \A chars \in Seq(Digit), size \in Nat :
        MayDecodeInto(chars, size) =>
            2 * size >= Len(chars) \/ JudgesPadding(chars)

\* A call that succeeds yields exactly the length it was asked for: the buffer
\* is filled, and the HexString is left padded to it.
LengthAsAsked ==
    result.tag = "ok" /\ result.call # "none" =>
        result.length = IF form = "hex" THEN ByteLen(held) ELSE Len(held)

Fits(chars, size) == \A n \in 0..Len(chars) : n >= 2 * size => Place(chars, n) = 0

\* A value is refused for its size only when its digits do not fit, however
\* much padding it carries; and no call panics.
RefusesOnlyMisfits ==
    /\ result.tag # "panic"
    /\ result.tag = "err" /\ result.call # "new" => ~ Fits(denotes, result.length)

=============================================================================
