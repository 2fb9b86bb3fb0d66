-------------------------- MODULE PropertyMapProofs --------------------------
(***************************************************************************)
(* Proofs about module PropertyMap, for a matrix of up to eight rows, any  *)
(* limit of the list form, any set of maps and any set of wires.           *)
(***************************************************************************)
EXTENDS PropertyMap, FiniteSetTheorems, TLAPS

-----------------------------------------------------------------------------
(* Cells and operations.                                                   *)

\* The number of operations is a positive number.
LEMMA BaseType == Base \in Nat \ {0}
BY RowsAssumption, ColsAssumption DEF Base

\* The matrix is finite, and so is the set of operations of any map.
LEMMA CellsFinite ==
    \A S \in SUBSET Cells : IsFiniteSet(S) /\ Cardinality(S) \in Nat
<1>1. IsFiniteSet(0..(Rows - 1)) /\ IsFiniteSet(0..(Cols - 1))
    BY FS_Interval, RowsAssumption, ColsAssumption
<1>2. IsFiniteSet(Cells)
    BY <1>1, FS_Product DEF Cells
<1> QED
    BY <1>2, FS_Subset, FS_CardinalityType

\* The quotient of a number below Rows * Cols by Cols is a row.
LEMMA DivisionBound ==
    ASSUME NEW q \in Int, NEW r \in Int, NEW a \in Nat \ {0},
           NEW c \in Nat \ {0}, r >= 0, r < c,
           c * q + r >= 0, c * q + r < a * c
    PROVE  q \in 0..(a - 1)
<1>1. q >= 0
  <2> SUFFICES ASSUME q <= -1 PROVE FALSE
      OBVIOUS
  <2>1. c * q <= c * (-1)
      OBVIOUS
  <2> QED
      BY <2>1
<1>2. q < a
  <2> SUFFICES ASSUME q >= a PROVE FALSE
      OBVIOUS
  <2>1. c * q >= c * a
      OBVIOUS
  <2> QED
      BY <2>1
<1> QED
    BY <1>1, <1>2

\* The nibbles of an operation name a cell of the matrix.
LEMMA CellOfType == \A operation \in Operation : CellOf(operation) \in Cells
<1> SUFFICES ASSUME NEW operation \in Operation
             PROVE  CellOf(operation) \in Cells
    OBVIOUS
<1>1. PICK n \in Nat : n = operation - Base /\ n < Rows * Cols
    BY BaseType DEF Operation, Base
<1>2. PICK q \in Int, r \in 0..(Cols - 1) :
         q = n \div Cols /\ r = n % Cols /\ n = Cols * q + r
  <2>1. n \div Cols \in Int
      BY ColsAssumption
  <2>2. n % Cols \in 0..(Cols - 1)
      BY ColsAssumption
  <2>3. n = Cols * (n \div Cols) + (n % Cols)
      BY ColsAssumption
  <2> QED
      BY <2>1, <2>2, <2>3
<1>3. q \in 0..(Rows - 1)
  <2>1. /\ r \in Int /\ r >= 0 /\ r < Cols
        /\ Cols * q + r >= 0 /\ Cols * q + r < Rows * Cols
      BY <1>1, <1>2, ColsAssumption
  <2> QED
      BY <2>1, DivisionBound, RowsAssumption, ColsAssumption
<1> QED
    BY <1>1, <1>2, <1>3 DEF CellOf, Cells

\* Two operations have different cells.
LEMMA CellOfInjective ==
    \A a, b \in Operation : CellOf(a) = CellOf(b) => a = b
<1> SUFFICES ASSUME NEW a \in Operation, NEW b \in Operation,
                    CellOf(a) = CellOf(b)
             PROVE  a = b
    OBVIOUS
<1>1. /\ a - Base \in Nat /\ b - Base \in Nat
      /\ a \in Int /\ b \in Int /\ Base \in Int
    BY BaseType DEF Operation
<1>2. /\ a - Base = Cols * ((a - Base) \div Cols) + ((a - Base) % Cols)
      /\ b - Base = Cols * ((b - Base) \div Cols) + ((b - Base) % Cols)
    BY <1>1, ColsAssumption
<1>3. /\ (a - Base) \div Cols = (b - Base) \div Cols
      /\ (a - Base) % Cols = (b - Base) % Cols
    BY DEF CellOf
<1>4. a - Base = b - Base
    BY <1>2, <1>3
<1> QED
    BY <1>1, <1>4

-----------------------------------------------------------------------------
(* Wires.                                                                  *)

\* An accepted list has an operation in every place after the first, and its
\* count is the number of those places.
LEMMA AcceptedList ==
    ASSUME NEW wire \in Wires, Accepts(wire), wire[1] < ListLimit
    PROVE  /\ Len(wire) \in Nat /\ Len(wire) > 0
           /\ wire[1] \in Nat /\ wire[1] = Len(wire) - 1
           /\ \A k \in 2..Len(wire) : wire[k] \in Operation
<1>1. wire \in Seq(Byte)
    BY WiresAssumption
<1>2. Len(wire) \in Nat /\ Len(wire) > 0 /\ Len(wire) = wire[1] + 1
    BY <1>1 DEF Accepts, WellFormed
<1>3. \A k \in 1..Len(wire) : wire[k] \in Byte
    BY <1>1
<1>4. wire[1] \in Nat
    BY <1>2, <1>3, BaseType DEF Byte
<1>5. \A k \in 2..Len(wire) : wire[k] \in Operation
    BY <1>2, <1>3, BaseType DEF Accepts, Valid, Byte, Operation
<1> QED
    BY <1>2, <1>4, <1>5

\* A list sets no more cells than it has entries, and as many as it has
\* entries when none is repeated.
LEMMA ListCount ==
    ASSUME NEW wire \in Wires, Accepts(wire), wire[1] < ListLimit
    PROVE  /\ ListCells(wire) \in SUBSET Cells
           /\ Cardinality(ListCells(wire)) <= wire[1]
           /\ NoRepeat(wire) => Cardinality(ListCells(wire)) = wire[1]
<1> DEFINE Places == 2..Len(wire)
           f == [k \in Places |-> CellOf(wire[k])]
<1>1. /\ Len(wire) \in Nat /\ Len(wire) > 0
      /\ wire[1] \in Nat /\ wire[1] = Len(wire) - 1
      /\ \A k \in Places : wire[k] \in Operation
    BY AcceptedList
<1>2. ListCells(wire) \in SUBSET Cells
    BY <1>1, CellOfType DEF ListCells
<1>3. IsFiniteSet(Places) /\ Cardinality(Places) = wire[1]
  <2>1. PICK n \in Nat : n = Len(wire) /\ n > 0
      BY <1>1
  <2>2. IsFiniteSet(2..n) /\ Cardinality(2..n) = n - 1
    <3>1. 2 \in Int /\ n \in Int
        BY <2>1
    <3>2. /\ IsFiniteSet(2..n)
          /\ Cardinality(2..n) = IF 2 > n THEN 0 ELSE n - 2 + 1
        BY <3>1, FS_Interval, Zenon
    <3> QED
        BY <2>1, <3>2
  <2> QED
      BY <1>1, <2>1, <2>2
<1>4. f \in Surjection(Places, ListCells(wire))
    BY DEF Surjection, ListCells
<1>5. /\ Cardinality(ListCells(wire)) <= Cardinality(Places)
      /\ Cardinality(ListCells(wire)) = Cardinality(Places)
            <=> f \in Injection(Places, ListCells(wire))
    BY <1>3, <1>4, FS_Surjection
<1>6. ASSUME NoRepeat(wire)
      PROVE  f \in Injection(Places, ListCells(wire))
  <2>1. \A j, k \in Places : wire[j] = wire[k] => j = k
      BY <1>6 DEF NoRepeat
  <2>2. \A j, k \in Places : f[j] = f[k] => j = k
    <3> SUFFICES ASSUME NEW j \in Places, NEW k \in Places, f[j] = f[k]
                 PROVE  j = k
        OBVIOUS
    <3>1. wire[j] \in Operation /\ wire[k] \in Operation
        BY <1>1
    <3>2. CellOf(wire[j]) = CellOf(wire[k])
        OBVIOUS
    <3>3. wire[j] = wire[k]
        BY <3>1, <3>2, CellOfInjective
    <3> QED
        BY <2>1, <3>3
  <2> QED
      BY <1>4, <2>2 DEF Surjection, Injection, IsInjective
<1> QED
    BY <1>2, <1>3, <1>5, <1>6

\* What from_bytes builds from any accepted wire: cells of the matrix, and a
\* count that exceeds their number only by repeated entries of a list.
LEMMA AcceptedWire ==
    ASSUME NEW wire \in Wires, Accepts(wire)
    PROVE  LET surplus == CountOfWire(wire) - Cardinality(CellsOfWire(wire))
           IN  /\ CellsOfWire(wire) \in SUBSET Cells
               /\ CountOfWire(wire) \in Nat
               /\ surplus \in 0..(ListLimit - 1)
               /\ NoRepeat(wire) => surplus = 0
<1>1. CASE wire[1] < ListLimit
  <2>1. /\ ListCells(wire) \in SUBSET Cells
        /\ Cardinality(ListCells(wire)) <= wire[1]
        /\ NoRepeat(wire) => Cardinality(ListCells(wire)) = wire[1]
      BY <1>1, ListCount
  <2>2. wire[1] \in Nat
      BY <1>1, AcceptedList
  <2>3. Cardinality(ListCells(wire)) \in Nat
      BY <2>1, CellsFinite
  <2> QED
      BY <1>1, <2>1, <2>2, <2>3, ListLimitAssumption
      DEF CountOfWire, CellsOfWire
<1>2. CASE ~ (wire[1] < ListLimit)
  <2>1. ColumnCells(wire) \in SUBSET Cells
      BY DEF ColumnCells
  <2>2. Cardinality(ColumnCells(wire)) \in Nat
      BY <2>1, CellsFinite
  <2>3. Cardinality(ColumnCells(wire)) = wire[1]
      BY <1>2 DEF Accepts
  <2> QED
      BY <1>2, <2>1, <2>2, <2>3, ListLimitAssumption
      DEF CountOfWire, CellsOfWire
<1> QED
    BY <1>1, <1>2

-----------------------------------------------------------------------------
(* The wire forms.                                                         *)

Weights == {1, 2, 4, 8, 16, 32, 64, 128}

\* What a division by a power of two leaves, and its last bit.
LEMMA ShiftedBit ==
    ASSUME NEW weight \in Weights, NEW low \in Nat, low < weight,
           NEW bit \in {0, 1}, NEW high \in Nat
    PROVE  ((low + weight * (bit + 2 * high)) \div weight) % 2 = bit
<1> DEFINE q == bit + 2 * high
           x == low + weight * q
<1>1. q \in Nat /\ q % 2 = bit
  OBVIOUS
<1> HIDE DEF q
<1>2. x \div weight = q
  <2>1. CASE weight = 1
    BY <2>1, <1>1
  <2>2. CASE weight = 2
    BY <2>2, <1>1
  <2>3. CASE weight = 4
    BY <2>3, <1>1
  <2>4. CASE weight = 8
    BY <2>4, <1>1
  <2>5. CASE weight = 16
    BY <2>5, <1>1
  <2>6. CASE weight = 32
    BY <2>6, <1>1
  <2>7. CASE weight = 64
    BY <2>7, <1>1
  <2>8. CASE weight = 128
    BY <2>8, <1>1
  <2> QED
    BY <2>1, <2>2, <2>3, <2>4, <2>5, <2>6, <2>7, <2>8 DEF Weights
<1> QED
  BY <1>1, <1>2 DEF q

\* A byte put together of eight bits has these bits.
LEMMA BitsOfByte ==
    ASSUME NEW b \in [0..7 -> {0, 1}],
           NEW x, x = b[0] + 2 * b[1] + 4 * b[2] + 8 * b[3]
                         + 16 * b[4] + 32 * b[5] + 64 * b[6] + 128 * b[7]
    PROVE  \A i \in 0..7 : (x \div 2^i) % 2 = b[i]
<1>1. /\ b[0] \in {0, 1} /\ b[1] \in {0, 1} /\ b[2] \in {0, 1} /\ b[3] \in {0, 1}
      /\ b[4] \in {0, 1} /\ b[5] \in {0, 1} /\ b[6] \in {0, 1} /\ b[7] \in {0, 1}
  OBVIOUS
<1>2. ASSUME NEW i \in 0..7, NEW weight \in Weights, NEW low \in Nat, NEW high \in Nat,
             2^i = weight, low < weight, x = low + weight * (b[i] + 2 * high)
      PROVE  (x \div 2^i) % 2 = b[i]
  <2>1. b[i] \in {0, 1}
    OBVIOUS
  <2>2. ((low + weight * (b[i] + 2 * high)) \div weight) % 2 = b[i]
    BY <1>2, <2>1, ShiftedBit
  <2> QED
    BY <1>2, <2>2
<1>0. PICK h7 \in Nat : h7 = 0
  OBVIOUS
<1> DEFINE l1 == b[0]
           l2 == l1 + 2 * b[1]
           l3 == l2 + 4 * b[2]
           l4 == l3 + 8 * b[3]
           l5 == l4 + 16 * b[4]
           l6 == l5 + 32 * b[5]
           l7 == l6 + 64 * b[6]
           h6 == b[7]
           h5 == b[6] + 2 * h6
           h4 == b[5] + 2 * h5
           h3 == b[4] + 2 * h4
           h2 == b[3] + 2 * h3
           h1 == b[2] + 2 * h2
           h0 == b[1] + 2 * h1
<1>3. /\ 0 \in Nat /\ l1 \in Nat /\ l2 \in Nat /\ l3 \in Nat /\ l4 \in Nat /\ l5 \in Nat
      /\ l6 \in Nat /\ l7 \in Nat
      /\ 0 < 1 /\ l1 < 2 /\ l2 < 4 /\ l3 < 8 /\ l4 < 16 /\ l5 < 32 /\ l6 < 64 /\ l7 < 128
  BY <1>1
<1>4. /\ h0 \in Nat /\ h1 \in Nat /\ h2 \in Nat /\ h3 \in Nat /\ h4 \in Nat /\ h5 \in Nat
      /\ h6 \in Nat
  BY <1>1
<1>5. /\ x = 0 + 1 * (b[0] + 2 * h0) /\ x = l1 + 2 * (b[1] + 2 * h1)
      /\ x = l2 + 4 * (b[2] + 2 * h2) /\ x = l3 + 8 * (b[3] + 2 * h3)
      /\ x = l4 + 16 * (b[4] + 2 * h4) /\ x = l5 + 32 * (b[5] + 2 * h5)
      /\ x = l6 + 64 * (b[6] + 2 * h6) /\ x = l7 + 128 * (b[7] + 2 * h7)
  BY <1>0, <1>1
<1>6. /\ 2^0 = 1 /\ 2^1 = 2 /\ 2^2 = 4 /\ 2^3 = 8 /\ 2^4 = 16 /\ 2^5 = 32 /\ 2^6 = 64
      /\ 2^7 = 128
  OBVIOUS
<1>7. /\ 1 \in Weights /\ 2 \in Weights /\ 4 \in Weights /\ 8 \in Weights
      /\ 16 \in Weights /\ 32 \in Weights /\ 64 \in Weights /\ 128 \in Weights
  BY DEF Weights
<1>8. /\ 0 \in 0..7 /\ 1 \in 0..7 /\ 2 \in 0..7 /\ 3 \in 0..7
      /\ 4 \in 0..7 /\ 5 \in 0..7 /\ 6 \in 0..7 /\ 7 \in 0..7
  OBVIOUS
<1> HIDE DEF l1, l2, l3, l4, l5, l6, l7, h0, h1, h2, h3, h4, h5, h6
<1>9. (x \div 2^0) % 2 = b[0]
  BY <1>2, <1>3, <1>4, <1>5, <1>6, <1>7, <1>8
<1>10. (x \div 2^1) % 2 = b[1]
  BY <1>2, <1>3, <1>4, <1>5, <1>6, <1>7, <1>8
<1>11. (x \div 2^2) % 2 = b[2]
  BY <1>2, <1>3, <1>4, <1>5, <1>6, <1>7, <1>8
<1>12. (x \div 2^3) % 2 = b[3]
  BY <1>2, <1>3, <1>4, <1>5, <1>6, <1>7, <1>8
<1>13. (x \div 2^4) % 2 = b[4]
  BY <1>2, <1>3, <1>4, <1>5, <1>6, <1>7, <1>8
<1>14. (x \div 2^5) % 2 = b[5]
  BY <1>2, <1>3, <1>4, <1>5, <1>6, <1>7, <1>8
<1>15. (x \div 2^6) % 2 = b[6]
  BY <1>2, <1>3, <1>4, <1>5, <1>6, <1>7, <1>8
<1>16. (x \div 2^7) % 2 = b[7]
  BY <1>2, <1>3, <1>4, <1>5, <1>6, <1>7, <1>8
<1> DEFINE Shifted(i) == (x \div 2^i) % 2
<1>17. /\ Shifted(0) = b[0] /\ Shifted(1) = b[1] /\ Shifted(2) = b[2] /\ Shifted(3) = b[3]
       /\ Shifted(4) = b[4] /\ Shifted(5) = b[5] /\ Shifted(6) = b[6] /\ Shifted(7) = b[7]
  BY <1>9, <1>10, <1>11, <1>12, <1>13, <1>14, <1>15, <1>16
<1> HIDE DEF Shifted
<1>18. \A i \in 0..7 : Shifted(i) = b[i]
  <2> SUFFICES ASSUME NEW i \in 0..7
               PROVE  Shifted(i) = b[i]
    OBVIOUS
  <2>1. i = 0 \/ i = 1 \/ i = 2 \/ i = 3 \/ i = 4 \/ i = 5 \/ i = 6 \/ i = 7
    OBVIOUS
  <2> QED
    BY <1>17, <2>1
<1> QED
  BY <1>18 DEF Shifted

\* The byte of a column has the bits of the rows that are set in it.
LEMMA ColumnByteBits ==
    ASSUME NEW cells \in SUBSET Cells, NEW i \in 0..7, NEW j
    PROVE  (ColumnByte(cells, j) \div 2^i) % 2 = 1 <=> <<i, j>> \in cells
<1> DEFINE b == [k \in 0..7 |-> IF <<k, j>> \in cells THEN 1 ELSE 0]
<1>1. b \in [0..7 -> {0, 1}]
  OBVIOUS
<1>2. ASSUME NEW k \in 0..7
      PROVE  Bit(cells, k, j) = IF b[k] = 1 THEN 2^k ELSE 0
  BY DEF Bit
<1>3. /\ 2^0 = 1 /\ 2^1 = 2 /\ 2^2 = 4 /\ 2^3 = 8 /\ 2^4 = 16 /\ 2^5 = 32 /\ 2^6 = 64
      /\ 2^7 = 128
  OBVIOUS
<1>4. b[i] = 1 <=> <<i, j>> \in cells
  OBVIOUS
<1> HIDE DEF b
<1>5. /\ Bit(cells, 0, j) = b[0] /\ Bit(cells, 1, j) = 2 * b[1]
      /\ Bit(cells, 2, j) = 4 * b[2] /\ Bit(cells, 3, j) = 8 * b[3]
      /\ Bit(cells, 4, j) = 16 * b[4] /\ Bit(cells, 5, j) = 32 * b[5]
      /\ Bit(cells, 6, j) = 64 * b[6] /\ Bit(cells, 7, j) = 128 * b[7]
  BY <1>1, <1>2, <1>3
<1>6. (ColumnByte(cells, j) \div 2^i) % 2 = b[i]
  <2>1. ColumnByte(cells, j) = b[0] + 2 * b[1] + 4 * b[2] + 8 * b[3]
                         + 16 * b[4] + 32 * b[5] + 64 * b[6] + 128 * b[7]
    BY <1>5 DEF ColumnByte
  <2> QED
    BY <1>1, <2>1, BitsOfByte
<1> QED
  BY <1>4, <1>6

\* The operations are as many as the cells, so each cell has its operation.
LEMMA CellOfOnto ==
    \A cell \in Cells : \E operation \in Operation : CellOf(operation) = cell
<1> DEFINE f == [operation \in Operation |-> CellOf(operation)]
<1>1. f \in Injection(Operation, Cells)
  BY CellOfType, CellOfInjective DEF Injection, IsInjective
<1>2. /\ IsFiniteSet(Operation)
      /\ Cardinality(Operation) = Base
  <2>1. PICK last \in Int : last = 2 * Base - 1
    BY BaseType
  <2>2. /\ IsFiniteSet(Base..last)
        /\ Cardinality(Base..last) = IF Base > last THEN 0 ELSE last - Base + 1
    BY BaseType, FS_Interval
  <2> QED
    BY <2>1, <2>2, BaseType DEF Operation
<1>3. /\ IsFiniteSet(Cells)
      /\ Cardinality(Cells) = Base
  <2>1. PICK r \in Int, c \in Int : r = Rows - 1 /\ c = Cols - 1
    BY RowsAssumption, ColsAssumption
  <2>2. /\ IsFiniteSet(0..r) /\ Cardinality(0..r) = IF 0 > r THEN 0 ELSE r - 0 + 1
        /\ IsFiniteSet(0..c) /\ Cardinality(0..c) = IF 0 > c THEN 0 ELSE c - 0 + 1
    BY FS_Interval
  <2>3. Cardinality(0..r) = Rows /\ Cardinality(0..c) = Cols
    BY <2>1, <2>2, RowsAssumption, ColsAssumption
  <2>4. /\ IsFiniteSet((0..r) \X (0..c))
        /\ Cardinality((0..r) \X (0..c)) = Rows * Cols
    BY <2>2, <2>3, FS_Product
  <2> QED
    BY <2>1, <2>4 DEF Cells, Base
<1>4. f \in Surjection(Operation, Cells)
  BY <1>1, <1>2, <1>3, FS_Injection
<1> QED
  BY <1>4 DEF Surjection

\* The list of a map names each enabled operation once and nothing else.
LEMMA ListOfCells ==
    ASSUME NEW cells \in SUBSET Cells
    PROVE  LET list == as_operations_list(cells) IN
           /\ list \in Seq(Operation)
           /\ Len(list) = Cardinality(cells)
           /\ {CellOf(list[k]) : k \in 1..Len(list)} = cells
<1> DEFINE enabled == {operation \in Operation : CellOf(operation) \in cells}
           UpTo(operation) == {other \in enabled : other <= operation}
           n == Cardinality(enabled)
           rank == [operation \in enabled |-> Cardinality(UpTo(operation))]
           Choice(k) == CHOOSE operation \in enabled : Cardinality(UpTo(operation)) = k
           list == [k \in 1..n |-> Choice(k)]
<1>1. enabled \subseteq Operation /\ enabled \subseteq Nat /\ IsFiniteSet(enabled)
  <2>1. IsFiniteSet(Operation)
    BY FS_Interval, BaseType DEF Operation
  <2> QED
    BY <2>1, FS_Subset, BaseType DEF Operation
<1>2. n = Cardinality(cells)
  <2> DEFINE f == [operation \in enabled |-> CellOf(operation)]
  <2>1. f \in [enabled -> cells]
    OBVIOUS
  <2>2. \A x, y \in enabled : f[x] = f[y] => x = y
    BY <1>1, CellOfInjective
  <2>3. \A cell \in cells : \E x \in enabled : f[x] = cell
    BY CellOfOnto
  <2> HIDE DEF f, enabled
  <2>4. f \in Injection(enabled, cells) /\ f \in Surjection(enabled, cells)
    BY <2>1, <2>2, <2>3 DEF Injection, IsInjective, Surjection
  <2> QED
    BY <1>1, <2>4, FS_Surjection
<1>3. as_operations_list(cells) = list
  BY DEF as_operations_list
<1>4. {CellOf(operation) : operation \in enabled} = cells
  BY CellOfOnto
<1> HIDE DEF enabled
<1>5. n \in Nat
  BY <1>1, FS_CardinalityType
<1>6. ASSUME NEW x \in enabled
      PROVE  /\ UpTo(x) \subseteq enabled /\ IsFiniteSet(UpTo(x))
             /\ x \in UpTo(x)
             /\ Cardinality(UpTo(x)) \in 1..n
  <2>1. UpTo(x) \subseteq enabled /\ x \in UpTo(x)
    BY <1>1
  <2>2. IsFiniteSet(UpTo(x)) /\ Cardinality(UpTo(x)) <= n
    BY <1>1, <2>1, FS_Subset
  <2>3. Cardinality(UpTo(x)) \in Nat /\ Cardinality(UpTo(x)) # 0
    BY <2>1, <2>2, FS_CardinalityType, FS_EmptySet
  <2> QED
    BY <2>1, <2>2, <2>3, <1>5
<1>7. ASSUME NEW x \in enabled, NEW y \in enabled, x < y
      PROVE  Cardinality(UpTo(x)) < Cardinality(UpTo(y))
  <2>1. UpTo(x) \subseteq UpTo(y) /\ y \in UpTo(y) /\ y \notin UpTo(x)
    <3>1. x \in Nat /\ y \in Nat /\ \A z \in enabled : z \in Nat
      BY <1>1
    <3>2. \A z \in Nat : z <= x => z <= y
      BY <1>7, <3>1
    <3>3. ~ (y <= x)
      BY <1>7, <3>1
    <3>4. ASSUME NEW z \in UpTo(x)
          PROVE  z \in UpTo(y)
      BY <3>1, <3>2
    <3>5. y \in UpTo(y) /\ y \notin UpTo(x)
      BY <3>1, <3>3
    <3> HIDE DEF UpTo
    <3> QED
      BY <3>4, <3>5
  <2>2. Cardinality(UpTo(x)) <= Cardinality(UpTo(y))
        /\ (Cardinality(UpTo(x)) = Cardinality(UpTo(y)) => UpTo(x) = UpTo(y))
    BY <1>6, <2>1, FS_Subset
  <2> QED
    BY <1>6, <2>1, <2>2
<1>8. ASSUME NEW x \in enabled, NEW y \in enabled,
             Cardinality(UpTo(x)) = Cardinality(UpTo(y))
      PROVE  x = y
  <2>1. ~ (x < y) /\ ~ (y < x)
    BY <1>6, <1>7, <1>8
  <2> QED
    BY <1>1, <2>1
<1>9. rank \in Injection(enabled, 1..n)
  BY <1>6, <1>8 DEF Injection, IsInjective
<1>10. rank \in Surjection(enabled, 1..n)
  <2>1. IsFiniteSet(1..n) /\ Cardinality(1..n) = n
    <3>1. /\ IsFiniteSet(1..n)
          /\ Cardinality(1..n) = IF 1 > n THEN 0 ELSE n - 1 + 1
      BY <1>5, FS_Interval
    <3> QED
      BY <1>5, <3>1
  <2> HIDE DEF rank, n
  <2>2. Cardinality(enabled) = Cardinality(1..n)
    BY <2>1 DEF n
  <2> QED
    BY <1>9, <2>1, <2>2, FS_Injection
<1>11. ASSUME NEW k \in 1..n
       PROVE  Choice(k) \in enabled /\ Cardinality(UpTo(Choice(k))) = k
  <2>1. \E x \in enabled : rank[x] = k
    BY <1>10 DEF Surjection
  <2>2. \E x \in enabled : Cardinality(UpTo(x)) = k
    BY <2>1
  <2> HIDE DEF UpTo, n, rank
  <2> QED
    BY <2>2
<1>12. list \in Seq(Operation) /\ Len(list) = n
  <2>1. \A k \in 1..n : Choice(k) \in Operation
    BY <1>1, <1>11
  <2> HIDE DEF Choice, n
  <2>2. list \in [1..n -> Operation]
    BY <2>1
  <2> QED
    BY <1>5, <2>2
<1>13. {list[k] : k \in 1..n} = enabled
  <2>1. ASSUME NEW k \in 1..n
        PROVE  list[k] \in enabled
    BY <1>11
  <2>2. ASSUME NEW x \in enabled
        PROVE  \E k \in 1..n : list[k] = x
    <3>1. PICK k \in 1..n : k = Cardinality(UpTo(x))
      BY <1>6
    <3>2. Choice(k) \in enabled /\ Cardinality(UpTo(Choice(k))) = Cardinality(UpTo(x))
      BY <1>11, <3>1
    <3>3. Choice(k) = x
      BY <1>8, <3>2
    <3>4. list[k] = Choice(k)
      OBVIOUS
    <3> QED
      BY <3>3, <3>4
  <2> HIDE DEF list, n
  <2> QED
    BY <2>1, <2>2
<1> HIDE DEF list, n
<1>14. {CellOf(list[k]) : k \in 1..n} = cells
  BY <1>4, <1>13
<1> QED
  BY <1>2, <1>3, <1>12, <1>14

\* What decode writes of a map whose count is exact from_bytes reads back.
LEMMA DecodeReadsBack ==
    ASSUME NEW cells \in SUBSET Cells, NEW count, count = Cardinality(cells)
    PROVE  LET wire == Decode(cells, count)
           IN  /\ Accepts(wire)
               /\ CellsOfWire(wire) = cells
               /\ CountOfWire(wire) = count
<1> DEFINE wire == Decode(cells, count)
<1>1. count \in Nat
  BY CellsFinite
<1>2. CASE count < ListLimit
  <2> DEFINE list == as_operations_list(cells)
             body == [k \in 1..count |-> IF k <= Len(list) THEN list[k] ELSE 0]
  <2>1. /\ list \in Seq(Operation)
        /\ Len(list) = count
        /\ {CellOf(list[k]) : k \in 1..Len(list)} = cells
    BY ListOfCells
  <2>2. wire = <<count>> \o body
    BY <1>2 DEF Decode
  <2> HIDE DEF wire, list
  <2>3. body \in Seq(Operation) /\ Len(body) = count
        /\ \A k \in 1..count : body[k] = list[k] /\ body[k] \in Operation
    BY <1>1, <2>1
  <2> HIDE DEF body
  <2>4. /\ Len(wire) = count + 1
        /\ wire[1] = count
        /\ \A k \in 1..count : wire[k + 1] = list[k] /\ list[k] \in Operation
    BY <1>1, <2>2, <2>3
  <2>5. \A k \in 2..Len(wire) : k - 1 \in 1..count /\ wire[k] = list[k - 1]
    <3> SUFFICES ASSUME NEW k \in 2..Len(wire)
                 PROVE  k - 1 \in 1..count /\ wire[k] = list[k - 1]
      OBVIOUS
    <3>1. k - 1 \in 1..count /\ (k - 1) + 1 = k
      BY <1>1, <2>4
    <3> QED
      BY <2>4, <3>1
  <2>6. Accepts(wire)
    <3>1. \A k \in 2..Len(wire) : Valid(wire[k])
      BY <2>4, <2>5, BaseType DEF Valid, Operation
    <3> QED
      BY <1>1, <1>2, <2>4, <3>1, ListLimitAssumption DEF Accepts, WellFormed
  <2>7. CellsOfWire(wire) = cells
    <3>1. ListCells(wire) = {CellOf(wire[k]) : k \in 2..Len(wire)}
      BY DEF ListCells
    <3>2. {CellOf(wire[k]) : k \in 2..Len(wire)} = {CellOf(list[k]) : k \in 1..count}
      <4>1. ASSUME NEW k \in 1..count
            PROVE  k + 1 \in 2..Len(wire) /\ wire[k + 1] = list[k]
        BY <1>1, <2>4
      <4> QED
        BY <2>5, <4>1
    <3> QED
      BY <1>2, <2>1, <2>4, <3>1, <3>2 DEF CellsOfWire
  <2> QED
    BY <2>4, <2>6, <2>7 DEF CountOfWire, wire
<1>3. CASE ~ (count < ListLimit)
  <2> DEFINE body == [k \in 1..Cols |-> ColumnByte(cells, k - 1)]
  <2>1. wire = <<count>> \o body
    BY <1>3 DEF Decode
  <2> HIDE DEF wire
  <2>2. /\ Len(wire) = Cols + 1
        /\ wire[1] = count
        /\ \A k \in 1..Cols : wire[k + 1] = ColumnByte(cells, k - 1)
    <3>1. DOMAIN body = 1..Cols /\ Cols \in Nat
      BY ColsAssumption
    <3> DEFINE S == {ColumnByte(cells, k - 1) : k \in 1..Cols}
    <3>2. body \in [1..Cols -> S]
      OBVIOUS
    <3>3. \A k \in 1..Cols : body[k] = ColumnByte(cells, k - 1)
      OBVIOUS
    <3> HIDE DEF S
    <3>4. body \in Seq(S) /\ Len(body) = Cols
      BY <3>1, <3>2
    <3> HIDE DEF body
    <3> QED
      BY <2>1, <3>1, <3>3, <3>4
  <2>3. ColumnCells(wire) = cells
    <3>1. ASSUME NEW cell \in Cells
          PROVE  (wire[cell[2] + 2] \div 2^cell[1]) % 2 = 1 <=> cell \in cells
      <4>1. PICK i \in 0..(Rows - 1), j \in 0..(Cols - 1) : cell = <<i, j>>
        BY DEF Cells
      <4>2. i \in 0..7 /\ j + 1 \in 1..Cols /\ (j + 1) + 1 = j + 2 /\ (j + 1) - 1 = j
        BY RowsAssumption, ColsAssumption
      <4>3. wire[j + 2] = ColumnByte(cells, j)
        BY <2>2, <4>2
      <4>4. (ColumnByte(cells, j) \div 2^i) % 2 = 1 <=> <<i, j>> \in cells
        BY <4>2, ColumnByteBits
      <4>5. cell[1] = i /\ cell[2] = j
        BY <4>1
      <4> QED
        BY <4>1, <4>3, <4>4, <4>5, Zenon
    <3> QED
      BY <3>1, Zenon DEF ColumnCells
  <2>4. Accepts(wire)
    BY <1>1, <1>3, <2>2, <2>3, ListLimitAssumption, ColsAssumption DEF Accepts, WellFormed
  <2> QED
    BY <1>3, <2>2, <2>3, <2>4 DEF CellsOfWire, CountOfWire, wire
<1> QED
  BY <1>2, <1>3

-----------------------------------------------------------------------------
(* The invariants.  CountDrift is inductive together with TypeOK: every    *)
(* call moves the count of a map and the number of its cells alike, except *)
(* from_bytes, which starts them anew.  CountExact follows the same path   *)
(* when no list repeats an operation.                                      *)

Drift(m) == operations_count[m] - Cardinality(operations[m])

\* The wires given to from_bytes list no operation twice.
DistinctWires == \A wire \in Wires : NoRepeat(wire)

\* Initially every map is empty and counts nothing.
LEMMA InitType == Init => TypeOK /\ \A m \in Maps : Drift(m) = 0
<1> SUFFICES ASSUME Init PROVE TypeOK /\ \A m \in Maps : Drift(m) = 0
    OBVIOUS
<1>1. TypeOK
    BY DEF Init, TypeOK, Outcomes
<1>2. \A m \in Maps : operations[m] = {} /\ operations_count[m] = 0
    BY DEF Init
<1> QED
    BY <1>1, <1>2, FS_EmptySet DEF Drift

\* The cells of a map are finitely many.
LEMMA MapFinite ==
    TypeOK => \A m \in Maps :
                 /\ IsFiniteSet(operations[m])
                 /\ Cardinality(operations[m]) \in Nat
                 /\ operations_count[m] \in Nat
BY CellsFinite DEF TypeOK

\* A step either leaves the drift of a map alone, copies another map's,
\* resets it, or takes it from an accepted wire.  The type invariant needs the
\* drift to be non-negative: a count of zero would wrap in disable_operation.
LEMMA StepDrift ==
    TypeOK /\ CountDrift /\ [Next]_vars =>
        /\ TypeOK'
        /\ \A m \in Maps :
              \/ \E other \in Maps : Drift(m)' = Drift(other)
              \/ Drift(m)' = 0
              \/ /\ Drift(m)' \in 0..(ListLimit - 1)
                 /\ DistinctWires => Drift(m)' = 0
<1> SUFFICES ASSUME TypeOK, CountDrift, [Next]_vars
             PROVE  /\ TypeOK'
                    /\ \A m \in Maps :
                          \/ \E other \in Maps : Drift(m)' = Drift(other)
                          \/ Drift(m)' = 0
                          \/ /\ Drift(m)' \in 0..(ListLimit - 1)
                             /\ DistinctWires => Drift(m)' = 0
    OBVIOUS
<1> DEFINE Unchanged(m) == /\ operations'[m] = operations[m]
                           /\ operations_count'[m] = operations_count[m]
<1>0. \A m \in Maps : Unchanged(m) => Drift(m)' = Drift(m)
    BY DEF Drift
<1>1. ASSUME NEW m \in Maps, NEW operation \in Operation,
             Enable(m, operation)
      PROVE  TypeOK' /\ \A k \in Maps : Drift(k)' = Drift(k)
  <2>1. /\ operations'[m] = operations[m] \union {CellOf(operation)}
        /\ operations_count'[m] = operations_count[m] + 1
        /\ \A k \in Maps \ {m} : Unchanged(k)
      BY <1>1 DEF Enable, TypeOK
  <2>2. Cardinality(operations'[m]) = Cardinality(operations[m]) + 1
      BY <1>1, <2>1, MapFinite, FS_AddElement DEF Enable
  <2>3. Drift(m)' = Drift(m)
      BY <2>1, <2>2, MapFinite DEF Drift
  <2>4. TypeOK'
      BY <1>1, CellOfType DEF Enable, TypeOK, Outcomes
  <2> QED
      BY <1>0, <2>1, <2>3, <2>4
<1>2. ASSUME NEW m \in Maps, NEW operation \in Operation,
             Disable(m, operation)
      PROVE  TypeOK' /\ \A k \in Maps : Drift(k)' = Drift(k)
  <2>1. /\ operations'[m] = operations[m] \ {CellOf(operation)}
        /\ operations_count'[m] = operations_count[m] - 1
        /\ \A k \in Maps \ {m} : Unchanged(k)
      BY <1>2 DEF Disable, TypeOK
  <2>2. /\ Cardinality(operations'[m]) = Cardinality(operations[m]) - 1
        /\ Cardinality(operations[m]) > 0
    <3>1. Cardinality(operations'[m]) = Cardinality(operations[m]) - 1
        BY <1>2, <2>1, MapFinite, FS_RemoveElement DEF Disable
    <3>2. Cardinality(operations[m]) # 0
        BY <1>2, MapFinite, FS_EmptySet DEF Disable
    <3> QED
        BY <3>1, <3>2, MapFinite
  <2>3. operations_count[m] > 0
      BY <2>2, MapFinite, ListLimitAssumption DEF CountDrift
  <2>4. Drift(m)' = Drift(m)
      BY <2>1, <2>2, MapFinite DEF Drift
  <2>5. TypeOK'
      BY <1>2, <2>3 DEF Disable, TypeOK, Outcomes
  <2> QED
      BY <1>0, <2>1, <2>4, <2>5
<1>3. ASSUME NEW m \in Maps, DisableAll(m)
      PROVE  /\ TypeOK'
             /\ \A k \in Maps : Drift(k)' = 0 \/ Drift(k)' = Drift(k)
  <2>1. /\ operations'[m] = {} /\ operations_count'[m] = 0
        /\ \A k \in Maps \ {m} : Unchanged(k)
      BY <1>3 DEF DisableAll, TypeOK
  <2>2. Drift(m)' = 0
      BY <2>1, FS_EmptySet DEF Drift
  <2>3. TypeOK'
      BY <1>3 DEF DisableAll, TypeOK, Outcomes
  <2> QED
      BY <1>0, <2>1, <2>2, <2>3
<1>4. ASSUME NEW m \in Maps, NEW other \in Maps, CopyFrom(m, other)
      PROVE  /\ TypeOK'
             /\ \A k \in Maps :
                   Drift(k)' = Drift(other) \/ Drift(k)' = Drift(k)
  <2>1. /\ operations'[m] = operations[other]
        /\ operations_count'[m] = operations_count[other]
        /\ \A k \in Maps \ {m} : Unchanged(k)
      BY <1>4 DEF CopyFrom, TypeOK
  <2>2. Drift(m)' = Drift(other)
      BY <2>1 DEF Drift
  <2>3. TypeOK'
      BY <1>4 DEF CopyFrom, TypeOK, Outcomes
  <2> QED
      BY <1>0, <2>1, <2>2, <2>3
<1>5. ASSUME NEW m \in Maps, NEW wire \in Wires, FromBytes(m, wire)
      PROVE  /\ TypeOK'
             /\ \A k \in Maps :
                   \/ /\ Drift(k)' \in 0..(ListLimit - 1)
                      /\ DistinctWires => Drift(k)' = 0
                   \/ Drift(k)' = Drift(k)
  <2>1. /\ operations'[m] = CellsOfWire(wire)
        /\ operations_count'[m] = CountOfWire(wire)
        /\ \A k \in Maps \ {m} : Unchanged(k)
      BY <1>5 DEF FromBytes, TypeOK
  <2>2. /\ CellsOfWire(wire) \in SUBSET Cells
        /\ CountOfWire(wire) \in Nat
        /\ Drift(m)' \in 0..(ListLimit - 1)
        /\ NoRepeat(wire) => Drift(m)' = 0
      BY <1>5, <2>1, AcceptedWire DEF FromBytes, Drift
  <2>3. TypeOK'
      BY <1>5, <2>2 DEF FromBytes, TypeOK, Outcomes
  <2> QED
      BY <1>0, <2>1, <2>2, <2>3 DEF DistinctWires
<1>6. ASSUME UNCHANGED <<operations, operations_count>>,
             outcome' \in Outcomes
      PROVE  TypeOK' /\ \A k \in Maps : Drift(k)' = Drift(k)
    BY <1>0, <1>6 DEF TypeOK
<1>7. CASE \/ \E m \in Maps, operation \in Operation :
                 EnableNothing(m, operation) \/ DisableNothing(m, operation)
           \/ \E operation \in 0..(Base - 1) : RejectOperation(operation)
           \/ \E m \in Maps : DisableAllNothing(m)
           \/ \E wire \in Wires : RejectBytes(wire)
           \/ UNCHANGED vars
  <2>1. /\ UNCHANGED <<operations, operations_count>>
        /\ outcome' \in Outcomes
      BY <1>7
      DEF EnableNothing, DisableNothing, RejectOperation, DisableAllNothing,
          RejectBytes, Returns, vars, TypeOK, Outcomes
  <2> QED
      BY <1>6, <2>1
<1> QED
    BY <1>1, <1>2, <1>3, <1>4, <1>5, <1>7 DEF Next

-----------------------------------------------------------------------------
(* The theorems.                                                           *)

\* CountDrift in terms of Drift.
LEMMA DriftRange ==
    CountDrift <=> \A m \in Maps : Drift(m) \in 0..(ListLimit - 1)
BY DEF CountDrift, Drift

\* The types and the bound on the drift are inductive.
LEMMA DriftInductive == Spec => [](TypeOK /\ CountDrift)
<1>1. Init => TypeOK /\ CountDrift
    BY InitType, DriftRange, ListLimitAssumption
<1>2. TypeOK /\ CountDrift /\ [Next]_vars => TypeOK' /\ CountDrift'
  <2> SUFFICES ASSUME TypeOK, CountDrift, [Next]_vars
               PROVE  TypeOK' /\ CountDrift'
      OBVIOUS
  <2>1. \A m \in Maps : Drift(m)' \in 0..(ListLimit - 1)
      BY StepDrift, DriftRange, ListLimitAssumption
  <2> QED
      BY <2>1, StepDrift DEF CountDrift, Drift
<1> QED
    BY <1>1, <1>2, PTL DEF Spec

\* Matrix, count and outcome keep their types; in particular the count never
\* goes below zero.
THEOREM TypeCorrect == Spec => []TypeOK
BY DriftInductive, PTL

\* The count is at least the number of operations enabled and exceeds it by
\* less than the limit of the list form, whatever wires are read.
THEOREM DriftBounded == Spec => []CountDrift
BY DriftInductive, PTL

\* decode never writes past the end of its buffer, whatever wires are read.
THEOREM NeverOverruns == Spec => []DecodeInBounds
<1>1. TypeOK /\ CountDrift => DecodeInBounds
    BY MapFinite, ListLimitAssumption
    DEF CountDrift, DecodeInBounds, PanicsOnDecode
<1> QED
    BY <1>1, DriftInductive, PTL

\* The count is exact as long as no wire lists an operation twice.
THEOREM CountIsExact ==
    ASSUME DistinctWires
    PROVE  Spec => []CountExact
<1>1. Init => CountExact
    BY InitType, MapFinite DEF CountExact, Drift
<1>2. TypeOK /\ CountDrift /\ CountExact /\ [Next]_vars => CountExact'
  <2> SUFFICES ASSUME TypeOK, CountDrift, CountExact, [Next]_vars
               PROVE  CountExact'
      OBVIOUS
  <2>1. \A m \in Maps : Drift(m) = 0
      BY MapFinite DEF CountExact, Drift
  <2>2. TypeOK' /\ \A m \in Maps : Drift(m)' = 0
      BY <2>1, StepDrift, DistinctWires
  <2>3. \A m \in Maps : /\ Cardinality(operations'[m]) \in Nat
                        /\ operations_count'[m] \in Nat
      BY <2>2, CellsFinite DEF TypeOK
  <2> QED
      BY <2>2, <2>3 DEF CountExact, Drift
<1> QED
    BY <1>1, <1>2, DriftInductive, PTL DEF Spec

\* As long as no wire lists an operation twice, the calls report a change
\* exactly when there is one, and a call that fails changes nothing.
THEOREM ReportsAreHonest ==
    ASSUME DistinctWires
    PROVE  Spec => ReportsChange
<1> DEFINE Honest == /\ outcome' = "true" => operations' # operations
                     /\ outcome' \in {"false", "error"} =>
                           UNCHANGED <<operations, operations_count>>
<1>1. TypeOK /\ CountExact /\ [Next]_vars => [Honest]_vars
  <2> SUFFICES ASSUME TypeOK, CountExact, Next PROVE Honest
      OBVIOUS
  <2>1. ASSUME NEW m \in Maps, NEW operation \in Operation,
               Enable(m, operation) \/ Disable(m, operation)
        PROVE  Honest
    <3>1. outcome' = "true" /\ operations'[m] # operations[m]
        BY <2>1 DEF Enable, Disable, TypeOK
    <3> QED
        BY <3>1
  <2>2. ASSUME NEW m \in Maps, DisableAll(m)
        PROVE  Honest
    <3>1. operations[m] # {}
        BY <2>2, FS_EmptySet DEF DisableAll, CountExact
    <3>2. outcome' = "true" /\ operations'[m] = {}
        BY <2>2 DEF DisableAll, TypeOK
    <3> QED
        BY <3>1, <3>2
  <2>3. ASSUME NEW m \in Maps, NEW other \in Maps, CopyFrom(m, other)
        PROVE  Honest
      BY <2>3 DEF CopyFrom
  <2>4. ASSUME NEW m \in Maps, NEW wire \in Wires, FromBytes(m, wire)
        PROVE  Honest
      BY <2>4 DEF FromBytes
  <2>5. CASE \/ \E m \in Maps, operation \in Operation :
                   EnableNothing(m, operation) \/ DisableNothing(m, operation)
             \/ \E operation \in 0..(Base - 1) : RejectOperation(operation)
             \/ \E m \in Maps : DisableAllNothing(m)
             \/ \E wire \in Wires : RejectBytes(wire)
      BY <2>5
      DEF EnableNothing, DisableNothing, RejectOperation,
          DisableAllNothing, RejectBytes, Returns
  <2> QED
      BY <2>1, <2>2, <2>3, <2>4, <2>5 DEF Next
<1> QED
    BY <1>1, DriftInductive, CountIsExact, PTL DEF Spec, ReportsChange

\* As long as no wire lists an operation twice, what decode writes from_bytes
\* reads back as the same map, in either of the two wire forms.
THEOREM WireReadsBack ==
    ASSUME DistinctWires
    PROVE  Spec => []RoundTrip
<1>1. TypeOK /\ CountExact => RoundTrip
  <2> SUFFICES ASSUME TypeOK, CountExact, NEW m \in Maps
               PROVE  LET wire == Decode(operations[m], operations_count[m])
                      IN  /\ Accepts(wire)
                          /\ CellsOfWire(wire) = operations[m]
                          /\ CountOfWire(wire) = operations_count[m]
    BY DEF RoundTrip
  <2>1. operations[m] \in SUBSET Cells /\ operations_count[m] = Cardinality(operations[m])
    BY DEF TypeOK, CountExact
  <2> QED
    BY <2>1, DecodeReadsBack
<1> QED
  BY <1>1, TypeCorrect, CountIsExact, PTL

=============================================================================
