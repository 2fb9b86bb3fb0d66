---------------------------- MODULE MCPropertyMap ----------------------------
(***************************************************************************)
(* The wires that TLC gives to from_bytes.  Entries range over the         *)
(* operations and the largest byte that is not one; the column bytes over  *)
(* every combination of rows.                                              *)
(***************************************************************************)
EXTENDS PropertyMap

Entries == (Base - 1)..(2 * Base - 1)

ListWires ==
    {<<n>> \o list :
        n \in 0..(ListLimit - 1),
        list \in UNION {[1..k -> Entries] : k \in 0..(ListLimit - 1)}}

ColumnWires ==
    {<<n>> \o columns :
        n \in ListLimit..(Base + 1), columns \in [1..Cols -> 0..(2^Rows - 1)]}

AnyWires == {<<>>} \union ListWires \union ColumnWires

\* No operation is listed twice.
DistinctWires == {wire \in AnyWires : NoRepeat(wire)}

\* What a repeated entry does to the wire form: from_bytes accepts a list that
\* decode then writes with a zero at its end, which from_bytes refuses.
ASSUME RepeatedListIsNotReadBack ==
    \E wire \in AnyWires :
        /\ Accepts(wire)
        /\ ~ NoRepeat(wire)
        /\ ~ Accepts(Decode(CellsOfWire(wire), CountOfWire(wire)))

=============================================================================
