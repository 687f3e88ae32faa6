--------------------------- MODULE DeclaredRange ---------------------------
(***************************************************************************)
(* A range as declared, [left:right], and the translation of the indices   *)
(* written against it to positions, counted from 0 at the least            *)
(* significant end.  A Result is a set: of the one value of Ok or Some, or *)
(* empty for Err or None.                                                  *)
(***************************************************************************)
EXTENDS Integers

CONSTANT IndexBits    \* Bits of an index: 32.

ASSUME IndexBitsAssumption == IndexBits \in Nat \ {0} /\ 2^IndexBits \in Nat \ {0}

Index == 0 .. (2^IndexBits - 1)
Bounds == [left : Index, right : Index]

PlainRange(width) == [left |-> width - 1, right |-> 0]

IsPlain(range)   == range.right = 0
Ascending(range) == range.left < range.right
Low(range)       == IF Ascending(range) THEN range.left ELSE range.right
High(range)      == IF Ascending(range) THEN range.right ELSE range.left
RangeWidth(range) == High(range) - Low(range) + 1

(* How Verilog numbers: the index of the bit k places from the right-hand  *)
(* end of the declaration, which is its least significant.                 *)
IndexAt(range, k) == IF range.left < range.right THEN range.right - k ELSE range.right + k

(* The position of an index, when the declaration has it.                  *)
WrongPosition(range, index) == {index - Low(range)} \cap 0..(RangeWidth(range) - 1)
Position(range, index) ==
    IF index < Low(range) \/ index > High(range) THEN {}
    ELSE {IF Ascending(range) THEN range.right - index ELSE index - range.right}

(* The positions, most significant first, of a part-select between two     *)
(* indices, which as written must run the way its declaration does.        *)
Positions(range, first, second, written_as_range) ==
    IF written_as_range /\ first # second /\ (first < second) # Ascending(range) THEN {}
    ELSE {IF a > b THEN <<a, b>> ELSE <<b, a>> :
             a \in Position(range, first), b \in Position(range, second)}

(* The indices, highest first, of [base +: width] and [base -: width].     *)
IndexedRange(base, symbol, width) ==
    {r \in {IF symbol = "+:" THEN <<base + width - 1, base>> ELSE <<base, base - width + 1>>} :
        width > 0 /\ r[1] \in Index /\ r[2] \in Index}

(* A constant used as a bound or a part-select's index loses what an index *)
(* has no bits for.                                                        *)
ConstantIndex(value) == value % 2^IndexBits
=============================================================================
