----------------------------- MODULE MCHexString -----------------------------
(***************************************************************************)
(* Base 3, whose largest digit is the one letter: all texts and slices of  *)
(* up to so many characters and bytes.                                     *)
(***************************************************************************)
EXTENDS HexString

BoundedSeq(S, n) == UNION {[1..m -> S] : m \in 0..n}

MCTexts == BoundedSeq(Digit, 6) \union BoundedSeq({0, 1, OtherChar}, 3)

MCBuffers == BoundedSeq({<<0, 0>>, <<0, 1>>, <<1, 0>>, <<2, 2>>}, 3)

MCLengths == 0..4

\* "The caller is required to make sure the size of the slice is big enough";
\* with a smaller one the padding must be judged right.
Careful(chars, size) == 2 * size >= Len(chars) \/ JudgesPadding(chars)

\* There are strings of every sort that the padding loop misjudges: it panics
\* though the value would fit, panics though it would not, lets a value lose
\* digits, and refuses zero.
ASSUME PaddingMisjudged ==
    /\ DecodeInto(<<0, 0, 0, 1>>, 1) = Panic
    /\ DecodeInto(<<0, 1, 0, 1>>, 1) = Panic
    /\ DecodeInto(<<0, 2, 1, 2>>, 1) = Ok(<< <<1, 2>> >>)
    /\ DecodeInto(<<0, 0>>, 0) = Err

=============================================================================
