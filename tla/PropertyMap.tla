----------------------------- MODULE PropertyMap -----------------------------
(***************************************************************************)
(* NodeObjectPropertyMap (src/middleware/api.rs): the set of operations    *)
(* (EPCs) that an ECHONET Lite object announces, sets or gets, kept as a   *)
(* bit matrix together with a count, and its two wire forms.               *)
(*                                                                         *)
(* The matrix has a row for each high nibble 8..f and a column for each    *)
(* low nibble 0..f.  On the wire a map of fewer than 16 operations is the  *)
(* count and the operations; a larger one is the count and one byte for    *)
(* each column, whose bit i is row i.  The count is not recomputed from    *)
(* the matrix, it is maintained beside it: what may go wrong is that the   *)
(* two drift apart.                                                        *)
(***************************************************************************)
EXTENDS Integers, Sequences, FiniteSets

CONSTANTS
    Rows,         \* 8 in the code
    Cols,         \* 16 in the code
    ListLimit,    \* 16 in the code: counts below it use the list form
    Maps,         \* the property maps in existence
    Wires         \* the byte sequences from_bytes is given

\* A column of the matrix is a byte on the wire.
ASSUME RowsAssumption == Rows \in 1..8
ASSUME ColsAssumption == Cols \in Nat \ {0}
ASSUME ListLimitAssumption == ListLimit \in Nat \ {0}

VARIABLES
    operations,         \* for each map, the cells of its matrix that are set
    operations_count,   \* for each map, its count
    outcome             \* what the last call returned

vars == <<operations, operations_count, outcome>>

-----------------------------------------------------------------------------
(* Operations and cells.                                                   *)

Cells == (0..(Rows - 1)) \X (0..(Cols - 1))

\* 0x80: the bytes below it are not operations.  8 rows of 16 make it equal to
\* the number of cells, and a byte is less than twice that.
Base == Rows * Cols

Byte == 0..(2 * Base - 1)

Operation == Base..(2 * Base - 1)

ASSUME WiresAssumption == Wires \subseteq Seq(Byte)

\* (operation - 0x80) >> 4 and operation & 0x0f.
CellOf(operation) ==
    <<(operation - Base) \div Cols, (operation - Base) % Cols>>

\* validate_operation.
Valid(operation) == operation >= Base

-----------------------------------------------------------------------------
(* The wire forms.                                                         *)

\* The enabled operations in ascending order: the k-th is the one that has k
\* enabled operations up to and including itself.
as_operations_list(cells) ==
    LET enabled == {operation \in Operation : CellOf(operation) \in cells}
        UpTo(operation) == {other \in enabled : other <= operation}
    IN  [k \in 1..Cardinality(enabled) |->
            CHOOSE operation \in enabled : Cardinality(UpTo(operation)) = k]

\* The value of row i in the byte of column j.
Bit(cells, i, j) == IF <<i, j>> \in cells THEN 2^i ELSE 0

ColumnByte(cells, j) ==
    Bit(cells, 0, j) + Bit(cells, 1, j) + Bit(cells, 2, j) + Bit(cells, 3, j)
        + Bit(cells, 4, j) + Bit(cells, 5, j) + Bit(cells, 6, j) + Bit(cells, 7, j)

\* Mutant: the list form is used one operation too far.
DecodeListAtLimit(cells, count) ==
    <<count>> \o
        IF count <= ListLimit
        THEN LET list == as_operations_list(cells)
             IN  [k \in 1..count |-> IF k <= Len(list) THEN list[k] ELSE 0]
        ELSE [k \in 1..Cols |-> ColumnByte(cells, k - 1)]

\* decode.  The list is written into a buffer of count zeros; PanicsOnDecode
\* says when it does not fit.
Decode(cells, count) ==
    <<count>> \o
        IF count < ListLimit
        THEN LET list == as_operations_list(cells)
             IN  [k \in 1..count |-> IF k <= Len(list) THEN list[k] ELSE 0]
        ELSE [k \in 1..Cols |-> ColumnByte(cells, k - 1)]

PanicsOnDecode(cells, count) ==
    count < ListLimit /\ Cardinality(cells) > count

\* The length check at the head of from_bytes.
WellFormed(wire) ==
    /\ Len(wire) > 0
    /\ wire[1] < ListLimit => Len(wire) = wire[1] + 1
    /\ wire[1] >= ListLimit => Len(wire) = Cols + 1

ListCells(wire) == {CellOf(wire[k]) : k \in 2..Len(wire)}

ColumnCells(wire) ==
    {cell \in Cells : (wire[cell[2] + 2] \div 2^cell[1]) % 2 = 1}

CellsOfWire(wire) ==
    IF wire[1] < ListLimit THEN ListCells(wire) ELSE ColumnCells(wire)

\* from_bytes returns Ok.  In the list form every entry must be an operation;
\* in the column form the number of bits must be the count.
Accepts(wire) ==
    /\ WellFormed(wire)
    /\ IF wire[1] < ListLimit
       THEN \A k \in 2..Len(wire) : Valid(wire[k])
       ELSE Cardinality(ColumnCells(wire)) = wire[1]

\* The count that from_bytes stores: in the list form the number of entries,
\* which is not the number of cells when an entry is repeated.
CountOfWire(wire) == wire[1]

\* A list form in which no operation occurs twice (the code does not look).
NoRepeat(wire) ==
    Accepts(wire) /\ wire[1] < ListLimit =>
        \A j, k \in 2..Len(wire) : wire[j] = wire[k] => j = k

-----------------------------------------------------------------------------
Outcomes == {"none", "true", "false", "ok", "error"}

TypeOK ==
    /\ operations \in [Maps -> SUBSET Cells]
    /\ operations_count \in [Maps -> Nat]
    /\ outcome \in Outcomes

\* new, for every map.
Init ==
    /\ operations = [m \in Maps |-> {}]
    /\ operations_count = [m \in Maps |-> 0]
    /\ outcome = "none"

\* A call that changes nothing and returns the given outcome.
Returns(result) ==
    /\ outcome' = result
    /\ UNCHANGED <<operations, operations_count>>

\* Mutant: an operation that is already enabled is counted again.
EnableAgain(m, operation) ==
    /\ Valid(operation)
    /\ operations' = [operations EXCEPT ![m] = @ \union {CellOf(operation)}]
    /\ operations_count' = [operations_count EXCEPT ![m] = @ + 1]
    /\ outcome' = "true"

\* enable_operation, the call that enables.
Enable(m, operation) ==
    /\ Valid(operation)
    /\ CellOf(operation) \notin operations[m]
    /\ operations' = [operations EXCEPT ![m] = @ \union {CellOf(operation)}]
    /\ operations_count' = [operations_count EXCEPT ![m] = @ + 1]
    /\ outcome' = "true"

\* Mutant: the count goes down whether or not the operation was enabled.
DisableUnchecked(m, operation) ==
    /\ Valid(operation)
    /\ operations' = [operations EXCEPT ![m] = @ \ {CellOf(operation)}]
    /\ operations_count' = [operations_count EXCEPT ![m] = @ - 1]
    /\ outcome' = "true"

\* disable_operation, the call that disables.
Disable(m, operation) ==
    /\ Valid(operation)
    /\ CellOf(operation) \in operations[m]
    /\ operations' = [operations EXCEPT ![m] = @ \ {CellOf(operation)}]
    /\ operations_count' = [operations_count EXCEPT ![m] = @ - 1]
    /\ outcome' = "true"

\* enable_operation and disable_operation when there is nothing to do.
EnableNothing(m, operation) ==
    /\ Valid(operation)
    /\ CellOf(operation) \in operations[m]
    /\ Returns("false")

DisableNothing(m, operation) ==
    /\ Valid(operation)
    /\ CellOf(operation) \notin operations[m]
    /\ Returns("false")

\* Any call given an operation below 0x80.
RejectOperation(operation) ==
    /\ ~ Valid(operation)
    /\ Returns("error")

\* Mutant: the count survives the reset.
DisableAllKeepsCount(m) ==
    /\ operations_count[m] > 0
    /\ operations' = [operations EXCEPT ![m] = {}]
    /\ outcome' = "true"
    /\ UNCHANGED operations_count

\* disable_all: the test is on the count, not on the matrix.
DisableAll(m) ==
    /\ operations_count[m] > 0
    /\ operations' = [operations EXCEPT ![m] = {}]
    /\ operations_count' = [operations_count EXCEPT ![m] = 0]
    /\ outcome' = "true"

DisableAllNothing(m) ==
    /\ operations_count[m] = 0
    /\ Returns("false")

\* Mutant: only the matrix is copied.
CopyFromMatrixOnly(m, other) ==
    /\ operations' = [operations EXCEPT ![m] = operations[other]]
    /\ outcome' = "ok"
    /\ UNCHANGED operations_count

\* copy_from; the borrow checker excludes m = other.
CopyFrom(m, other) ==
    /\ m # other
    /\ operations' = [operations EXCEPT ![m] = operations[other]]
    /\ operations_count' =
          [operations_count EXCEPT ![m] = operations_count[other]]
    /\ outcome' = "ok"

\* from_bytes makes a new map, which takes the place of m.
FromBytes(m, wire) ==
    /\ Accepts(wire)
    /\ operations' = [operations EXCEPT ![m] = CellsOfWire(wire)]
    /\ operations_count' = [operations_count EXCEPT ![m] = CountOfWire(wire)]
    /\ outcome' = "ok"

RejectBytes(wire) ==
    /\ ~ Accepts(wire)
    /\ Returns("error")

Next ==
    \/ \E m \in Maps, operation \in Operation :
          \/ Enable(m, operation)
          \/ EnableNothing(m, operation)
          \/ Disable(m, operation)
          \/ DisableNothing(m, operation)
    \/ \E operation \in 0..(Base - 1) : RejectOperation(operation)
    \/ \E m \in Maps : DisableAll(m) \/ DisableAllNothing(m)
    \/ \E m, other \in Maps : CopyFrom(m, other)
    \/ \E m \in Maps, wire \in Wires : FromBytes(m, wire)
    \/ \E wire \in Wires : RejectBytes(wire)

Spec == Init /\ [][Next]_vars

-----------------------------------------------------------------------------
(* Properties.                                                             *)

\* decode writes the list into a buffer sized by the count, without a check of
\* its own: it never runs over the end, after any sequence of calls.
DecodeInBounds ==
    \A m \in Maps : ~ PanicsOnDecode(operations[m], operations_count[m])

\* The count is the number of operations enabled.
CountExact ==
    \A m \in Maps : operations_count[m] = Cardinality(operations[m])

\* The count is never below the number of operations enabled (so the
\* decrement of disable_operation cannot wrap) and exceeds it by less than the
\* longest list from_bytes accepts (so the cast of the count to a byte in
\* decode does not truncate it).
CountDrift ==
    \A m \in Maps :
        operations_count[m] - Cardinality(operations[m]) \in 0..(ListLimit - 1)

\* What decode writes from_bytes reads back as the same map (decode:
\* "Convert to bytes (in the expected EPC wire format)").
RoundTrip ==
    \A m \in Maps :
        LET wire == Decode(operations[m], operations_count[m])
        IN  /\ Accepts(wire)
            /\ CellsOfWire(wire) = operations[m]
            /\ CountOfWire(wire) = operations_count[m]

\* enable_operation, disable_operation and disable_all return Ok(true) exactly
\* when the set of enabled operations changes, and a call that fails leaves
\* every map alone.
ReportsChange ==
    [][ /\ outcome' = "true" => operations' # operations
        /\ outcome' \in {"false", "error"} =>
              UNCHANGED <<operations, operations_count>> ]_vars

=============================================================================
