---------------------------- MODULE RangeProofs ----------------------------
(***************************************************************************)
(* Theorems about DeclaredRange, for ranges of any bounds that run either  *)
(* way: an index is translated to the bit that has it.                     *)
(***************************************************************************)
EXTENDS DeclaredRange, TLAPS

(* The bounds of a range are numbers below 2^IndexBits.                    *)
LEMMA BoundsType ==
    ASSUME NEW range \in Bounds
    PROVE  /\ range.left \in Nat /\ range.left < 2^IndexBits
           /\ range.right \in Nat /\ range.right < 2^IndexBits
           /\ 2^IndexBits \in Nat \ {0}
BY IndexBitsAssumption DEF Bounds, Index

(* What a difference of words is, in words of any number of values.        *)
LEMMA Wrapped ==
    ASSUME NEW M \in Nat \ {0}, NEW d \in Int, 0 - M <= d, d < M
    PROVE  d % M = IF d < 0 THEN d + M ELSE d
<1>1. CASE d >= 0
  BY <1>1
<1>2. CASE d < 0
  BY <1>2
<1> QED  BY <1>1, <1>2

(* A constant index is translated to the position whose bit Verilog gives  *)
(* that index, and to none when the declaration does not have it           *)
(* (DeclaredRange::position).                                              *)
THEOREM IndexTranslated ==
    ASSUME NEW range \in Bounds, NEW index \in Index
    PROVE  Position(range, index)
               = {k \in 0..(RangeWidth(range) - 1) : IndexAt(range, k) = index}
<1>1. /\ range.left \in Nat /\ range.right \in Nat /\ index \in Nat
  BY BoundsType DEF Index
<1>2. CASE range.left < range.right
  BY <1>1, <1>2 DEF Position, RangeWidth, IndexAt, Ascending, Low, High
<1>3. CASE ~(range.left < range.right)
  BY <1>1, <1>3 DEF Position, RangeWidth, IndexAt, Ascending, Low, High
<1> QED  BY <1>2, <1>3

(* A part-select written as its declaration runs is translated to the bits *)
(* from its second index up to its first, and is as wide as written        *)
(* (DeclaredRange::positions).                                             *)
THEOREM PartSelectTranslated ==
    ASSUME NEW range \in Bounds, NEW first \in Index, NEW second \in Index,
           NEW p \in Positions(range, first, second, TRUE)
    PROVE  /\ p[1] \in 0..(RangeWidth(range) - 1) /\ p[2] \in 0..p[1]
           /\ IndexAt(range, p[1]) = first /\ IndexAt(range, p[2]) = second
           /\ p[1] - p[2] = IF first > second THEN first - second ELSE second - first
<1>1. /\ range.left \in Nat /\ range.right \in Nat /\ first \in Nat /\ second \in Nat
  BY BoundsType DEF Index
<1>2. /\ ~(first # second /\ (first < second) # Ascending(range))
      /\ \E a \in Position(range, first), b \in Position(range, second) :
            p = IF a > b THEN <<a, b>> ELSE <<b, a>>
  BY DEF Positions
<1>3. PICK a \in Position(range, first), b \in Position(range, second) :
         p = IF a > b THEN <<a, b>> ELSE <<b, a>>
  BY <1>2
<1>4. /\ a \in 0..(RangeWidth(range) - 1) /\ IndexAt(range, a) = first
      /\ b \in 0..(RangeWidth(range) - 1) /\ IndexAt(range, b) = second
  BY IndexTranslated
<1>5. a >= b
  <2>1. CASE range.left < range.right
    <3>1. first = range.right - a /\ second = range.right - b
      BY <1>4, <2>1 DEF IndexAt
    <3>2. first <= second
      BY <1>1, <1>2, <2>1 DEF Ascending
    <3> QED  BY <1>1, <1>4, <3>1, <3>2
  <2>2. CASE ~(range.left < range.right)
    <3>1. first = range.right + a /\ second = range.right + b
      BY <1>4, <2>2 DEF IndexAt
    <3>2. first >= second
      BY <1>1, <1>2, <2>2 DEF Ascending
    <3> QED  BY <1>1, <1>4, <3>1, <3>2
  <2> QED  BY <2>1, <2>2
<1>6. p[1] = a /\ p[2] = b
  <2>1. CASE a > b
    BY <1>3, <2>1
  <2>2. CASE a = b
    BY <1>3, <2>2
  <2> QED  BY <1>4, <1>5, <2>1, <2>2
<1>7. a - b = IF first > second THEN first - second ELSE second - first
  BY <1>1, <1>4, <1>5 DEF IndexAt
<1> QED  BY <1>4, <1>5, <1>6, <1>7

(* The word that the difference built for an index computed at run time    *)
(* evaluates to, in words of M values.                                     *)
RuntimePosition(range, index, M) ==
    IF IsPlain(range) THEN index
    ELSE IF Ascending(range) THEN (range.right - index) % M
    ELSE (index - range.right) % M

(* An index computed at run time reaches the same bit as the same index    *)
(* written as a constant, and one out of range reaches beyond the signal,  *)
(* however the difference wrapped (DeclaredRange::position_expr), if the   *)
(* words are not narrower than a bound.                                    *)
THEOREM RuntimeIndexTranslated ==
    ASSUME NEW range \in Bounds, NEW M \in Nat, M >= 2^IndexBits, NEW index \in 0..(M - 1)
    PROVE  /\ Position(range, index) # {} =>
                 Position(range, index) = {RuntimePosition(range, index, M)}
           /\ Position(range, index) = {} =>
                 RuntimePosition(range, index, M) >= RangeWidth(range)
<1> DEFINE n == RuntimePosition(range, index, M)
<1> SUFFICES /\ Position(range, index) # {} => Position(range, index) = {n}
             /\ Position(range, index) = {} => n >= RangeWidth(range)
  OBVIOUS
<1>1. /\ range.left \in Nat /\ range.left < M /\ range.right \in Nat /\ range.right < M
      /\ index \in Nat /\ index < M /\ M \in Nat \ {0}
  BY BoundsType
<1>2. CASE Ascending(range)
  <2>1. range.left < range.right /\ ~IsPlain(range)
    BY <1>1, <1>2 DEF Ascending, IsPlain
  <2>2. n = (range.right - index) % M
    BY <1>2, <2>1 DEF RuntimePosition
  <2> HIDE DEF n
  <2>3. n = IF range.right - index < 0 THEN range.right - index + M ELSE range.right - index
    <3>1. range.right - index \in Int /\ 0 - M <= range.right - index /\ range.right - index < M
      BY <1>1
    <3> QED  BY <1>1, <2>2, <3>1, Wrapped
  <2>4. /\ Position(range, index)
             = IF index < range.left \/ index > range.right THEN {} ELSE {range.right - index}
        /\ RangeWidth(range) = range.right - range.left + 1
    BY <1>2 DEF Position, RangeWidth, Low, High
  <2>5. CASE index < range.left \/ index > range.right
    BY <1>1, <2>1, <2>3, <2>4, <2>5
  <2>6. CASE ~(index < range.left \/ index > range.right)
    BY <1>1, <2>3, <2>4, <2>6
  <2> QED  BY <2>5, <2>6
<1>3. CASE ~Ascending(range)
  <2>1. range.left >= range.right
    BY <1>1, <1>3 DEF Ascending
  <2>2. n = IF index - range.right < 0 THEN index - range.right + M ELSE index - range.right
    <3>1. CASE IsPlain(range)
      BY <1>1, <3>1 DEF RuntimePosition, IsPlain
    <3>2. CASE ~IsPlain(range)
      <4>1. n = (index - range.right) % M
        BY <1>3, <3>2 DEF RuntimePosition
      <4>2. index - range.right \in Int /\ 0 - M <= index - range.right /\ index - range.right < M
        BY <1>1
      <4> HIDE DEF n
      <4> QED  BY <1>1, <4>1, <4>2, Wrapped
    <3> QED  BY <3>1, <3>2
  <2> HIDE DEF n
  <2>3. /\ Position(range, index)
             = IF index < range.right \/ index > range.left THEN {} ELSE {index - range.right}
        /\ RangeWidth(range) = range.left - range.right + 1
    BY <1>3 DEF Position, RangeWidth, Low, High
  <2>4. CASE index < range.right \/ index > range.left
    BY <1>1, <2>1, <2>2, <2>3, <2>4
  <2>5. CASE ~(index < range.right \/ index > range.left)
    BY <1>1, <2>2, <2>3, <2>5
  <2> QED  BY <2>4, <2>5
<1> QED  BY <1>2, <1>3
=============================================================================
