----------------------------- MODULE WriteProofs -----------------------------
(***************************************************************************)
(* Committing the queue of an edge, bit by bit, for every word width: what *)
(* a partial write does to each bit of the word it is put into, and that   *)
(* the last queued write that reaches a bit decides it.                    *)
(***************************************************************************)
EXTENDS KernelWrites, KernelProofs

-----------------------------------------------------------------------------
(***************************************************************************)
(* Division with remainder, and powers of two.                             *)
(***************************************************************************)

(* A division with remainder is the only one.                              *)
LEMMA DivModUnique ==
    ASSUME NEW n \in Nat, NEW d \in Nat \ {0}, NEW q \in Nat, NEW r \in 0..(d - 1),
           n = d * q + r
    PROVE  n \div d = q /\ n % d = r
<1> DEFINE p == n \div d
           s == n % d
<1>1. p \in Nat /\ s \in 0..(d - 1) /\ n = d * p + s
  OBVIOUS
<1> HIDE DEF p, s
<1>2. d * (p - q) = r - s
  BY <1>1
<1>3. CASE p >= q + 1
  <2>1. PICK k \in Nat : p = q + 1 + k
    BY <1>1, <1>3
  <2>2. d * (1 + k) = r - s
    BY <2>1, <1>1, <1>2
  <2>3. d * k \in Nat /\ d * (1 + k) = d + d * k
    OBVIOUS
  <2> QED  BY <2>2, <2>3, <1>1
<1>4. CASE q >= p + 1
  <2>1. PICK k \in Nat : q = p + 1 + k
    BY <1>1, <1>4
  <2>2. d * (1 + k) = s - r
    BY <2>1, <1>1, <1>2
  <2>3. d * k \in Nat /\ d * (1 + k) = d + d * k
    OBVIOUS
  <2> QED  BY <2>2, <2>3, <1>1
<1>5. p = q
  BY <1>1, <1>3, <1>4
<1>6. s = r
  BY <1>1, <1>5
<1> QED  BY <1>5, <1>6 DEF p, s

(* What division with remainder is.                                        *)
LEMMA DivMod ==
    ASSUME NEW n \in Nat, NEW d \in Nat \ {0}
    PROVE  /\ n \div d \in Nat
           /\ n % d \in 0..(d - 1)
           /\ n = d * (n \div d) + (n % d)
OBVIOUS

(* A multiple of the divisor adds to the quotient alone.                   *)
LEMMA DivModShift ==
    ASSUME NEW d \in Nat \ {0}, NEW a \in Nat, NEW y \in Nat
    PROVE  (d * a + y) \div d = a + y \div d /\ (d * a + y) % d = y % d
<1> DEFINE p == y \div d
           s == y % d
<1>1. p \in Nat /\ s \in 0..(d - 1) /\ y = d * p + s
  OBVIOUS
<1> HIDE DEF p, s
<1>2. d * a \in Nat /\ d * p \in Nat
  BY <1>1
<1>3. d * a + y = d * (a + p) + s
  BY <1>1, <1>2
<1>4. d * a + y \in Nat /\ a + p \in Nat
  BY <1>1, <1>2
<1>5. (d * a + y) \div d = a + p /\ (d * a + y) % d = s
  BY <1>1, <1>3, <1>4, DivModUnique
<1> QED  BY <1>5 DEF p, s

(* Dividing twice is dividing by the product.                              *)
LEMMA DivDiv ==
    ASSUME NEW x \in Nat, NEW a \in Nat \ {0}, NEW b \in Nat \ {0}
    PROVE  (x \div a) \div b = x \div (a * b)
<1> DEFINE q == x \div a
           r == x % a
           p == q \div b
           s == q % b
<1>1. q \in Nat /\ r \in 0..(a - 1) /\ x = a * q + r
  OBVIOUS
<1>2. p \in Nat /\ s \in 0..(b - 1) /\ q = b * p + s
  BY <1>1
<1> HIDE DEF q, r, p, s
<1>3. a * b \in Nat \ {0} /\ a * s \in Nat
  BY <1>2
<1>4. x = (a * b) * p + (a * s + r)
  BY <1>1, <1>2
<1>5. a * s <= a * (b - 1)
  <2>1. PICK k \in Nat : b - 1 = s + k
    BY <1>2
  <2>2. a * k \in Nat /\ a * (s + k) = a * s + a * k
    BY <1>2
  <2> QED  BY <2>1, <2>2, <1>3
<1>6. a * (b - 1) = a * b - a
  OBVIOUS
<1>7. a * s + r \in 0..(a * b - 1)
  BY <1>1, <1>3, <1>5, <1>6
<1>8. x \div (a * b) = p
  <2> DEFINE ab == a * b
             t  == a * s + r
  <2>1. ab \in Nat \ {0} /\ t \in 0..(ab - 1) /\ x = ab * p + t
    BY <1>3, <1>4, <1>7
  <2> HIDE DEF ab, t
  <2>2. x \div ab = p
    BY <2>1, <1>2, DivModUnique
  <2> QED  BY <2>2 DEF ab
<1> QED  BY <1>8 DEF p, q

(* The power of a sum is the product of the powers: by the smallest        *)
(* exponent for which it would not be.                                     *)
LEMMA PowersMultiply ==
    ASSUME NEW a \in Nat, NEW b \in Nat, a + b <= WordWidth
    PROVE  2^(a + b) = 2^a * 2^b
<1> DEFINE Odd == {k \in Nat : a + k <= WordWidth /\ 2^(a + k) # 2^a * 2^k}
<1>1. SUFFICES ASSUME Odd # {} PROVE FALSE
  BY <1>1
<1>2. PICK k \in Odd : \A j \in Odd : k <= j
  BY <1>1, LeastNumber
<1>3. k \in Nat /\ a + k <= WordWidth /\ 2^(a + k) # 2^a * 2^k
  BY <1>2
<1>4. a \in 0..WordWidth /\ 2^a \in Nat
  BY PowerAssumption, WordAssumption
<1>5. k # 0
  <2>1. a + 0 = a /\ 2^a * 1 = 2^a
    BY <1>4
  <2> QED  BY <1>3, <2>1, DoublingAssumption
<1>6. k - 1 \in Nat /\ a + (k - 1) <= WordWidth /\ k - 1 \notin Odd
  BY <1>2, <1>3, <1>5, WordAssumption
<1>7. 2^(a + (k - 1)) = 2^a * 2^(k - 1)
  BY <1>6
<1>8. a + (k - 1) \in 0..(WordWidth - 1) /\ k - 1 \in 0..(WordWidth - 1) /\ k - 1 \in 0..WordWidth
  BY <1>3, <1>6, WordAssumption
<1>9. 2^((a + (k - 1)) + 1) = 2 * 2^(a + (k - 1)) /\ 2^((k - 1) + 1) = 2 * 2^(k - 1)
  BY <1>8, DoublingAssumption
<1>10. (a + (k - 1)) + 1 = a + k /\ (k - 1) + 1 = k
  BY <1>3
<1>11. 2^(k - 1) \in Nat
  BY <1>8, PowerAssumption
<1> DEFINE p == 2^a
           q == 2^(k - 1)
<1>12. 2^(a + k) = 2 * (p * q) /\ 2^k = 2 * q
  BY <1>7, <1>9, <1>10
<1>13. p \in Nat /\ q \in Nat
  BY <1>4, <1>11
<1> HIDE DEF p, q
<1>14. 2 * (p * q) = p * (2 * q)
  BY <1>13
<1>15. p = 2^a
  BY DEF p
<1> QED  BY <1>3, <1>12, <1>14, <1>15

-----------------------------------------------------------------------------
(***************************************************************************)
(* Bits of words.                                                          *)
(***************************************************************************)

(* A word made of a high and a low part: the bits below the split are the  *)
(* low part's, the others the high part's.                                 *)
LEMMA BitOfSplit ==
    ASSUME NEW l \in 0..WordWidth, NEW a \in Nat, NEW r \in 0..(2^l - 1),
           NEW i \in 0..(WordWidth - 1)
    PROVE  Bit(2^l * a + r, i) = IF i < l THEN Bit(r, i) ELSE Bit(a, i - l)
<1> DEFINE d == 2^l
<1>1. d \in Nat \ {0} /\ r \in Nat
  BY PowerAssumption
<1>2. CASE i < l
  <2> DEFINE p == 2^i
             c == 2^(l - i - 1)
  <2>1. i \in 0..WordWidth /\ l - i - 1 \in 0..(WordWidth - 1) /\ l - i - 1 \in 0..WordWidth
    BY <1>2, WordAssumption
  <2>2. p \in Nat \ {0} /\ c \in Nat \ {0}
    BY <2>1, PowerAssumption
  <2>3. 2^((l - i - 1) + 1) = 2 * c
    BY <2>1, DoublingAssumption
  <2>4. (l - i - 1) + 1 = l - i /\ i \in Nat /\ l - i \in Nat /\ i + (l - i) = l
    BY <1>2, WordAssumption
  <2>5. 2^(i + (l - i)) = 2^i * 2^(l - i)
    BY <2>4, PowersMultiply, WordAssumption
  <2>6. d = p * (2 * c)
    BY <2>3, <2>4, <2>5
  <2>7. Bit(2^l * a + r, i) = ((d * a + r) \div p) % 2 /\ Bit(r, i) = (r \div p) % 2
    BY DEF Bit
  <2> HIDE DEF d, p, c
  <2>8. d * a + r = p * (2 * (c * a)) + r
    BY <2>2, <2>6
  <2>9. c * a \in Nat /\ 2 * (c * a) \in Nat /\ r \div p \in Nat
    BY <1>1, <2>2
  <2>10. (d * a + r) \div p = 2 * (c * a) + r \div p
    BY <1>1, <2>2, <2>8, <2>9, DivModShift
  <2>11. (2 * (c * a) + r \div p) % 2 = (r \div p) % 2
    BY <2>9, DivModShift
  <2> QED  BY <1>2, <2>7, <2>10, <2>11
<1>3. CASE l <= i
  <2> DEFINE c == 2^(i - l)
  <2>1. i \in 0..WordWidth /\ i - l \in 0..WordWidth
           /\ l \in Nat /\ i - l \in Nat /\ l + (i - l) = i
    BY <1>3, WordAssumption
  <2>2. c \in Nat \ {0}
    BY <2>1, PowerAssumption
  <2>3. 2^(l + (i - l)) = 2^l * 2^(i - l)
    BY <2>1, PowersMultiply, WordAssumption
  <2>4. 2^i = d * c
    BY <2>1, <2>3
  <2>5. Bit(2^l * a + r, i) = ((d * a + r) \div (d * c)) % 2 /\ Bit(a, i - l) = (a \div c) % 2
    BY <2>4 DEF Bit
  <2>6. r \in 0..(d - 1)
    OBVIOUS
  <2> HIDE DEF d, c
  <2>7. d * a + r \in Nat
    BY <1>1
  <2>8. (d * a + r) \div d = a
    BY <1>1, <2>6, <2>7, DivModUnique
  <2>9. ((d * a + r) \div d) \div c = (d * a + r) \div (d * c)
    BY <1>1, <2>2, <2>7, DivDiv
  <2> QED  BY <1>3, <2>5, <2>8, <2>9
<1> QED  BY <1>2, <1>3, WordAssumption

(* Taking a word modulo a power of two keeps the bits below it.            *)
LEMMA BitOfLow ==
    ASSUME NEW x \in Nat, NEW w \in 0..WordWidth, NEW i \in 0..(WordWidth - 1), i < w
    PROVE  Bit(x % 2^w, i) = Bit(x, i)
<1> DEFINE d == 2^w
           q == x \div d
           r == x % d
<1>1. d \in Nat \ {0}
  BY PowerAssumption
<1>2. q \in Nat /\ r \in 0..(d - 1) /\ x = d * q + r
  BY <1>1, DivMod
<1> HIDE DEF q, r
<1>3. Bit(d * q + r, i) = Bit(r, i)
  BY <1>2, BitOfSplit
<1>4. r = x % 2^w
  BY DEF r
<1> QED  BY <1>2, <1>3, <1>4

(* Dividing a word by a power of two moves the bits above it down.         *)
LEMMA BitOfHigh ==
    ASSUME NEW x \in Nat, NEW l \in 0..WordWidth, NEW i \in 0..(WordWidth - 1), l <= i
    PROVE  Bit(x \div 2^l, i - l) = Bit(x, i)
<1> DEFINE d == 2^l
           q == x \div d
           r == x % d
<1>1. d \in Nat \ {0}
  BY PowerAssumption
<1>2. q \in Nat /\ r \in 0..(d - 1) /\ x = d * q + r
  BY <1>1, DivMod
<1> HIDE DEF q, r
<1>3. Bit(d * q + r, i) = Bit(q, i - l)
  <2>1. ~(i < l)
    OBVIOUS
  <2> QED  BY <1>2, <2>1, BitOfSplit
<1>4. q = x \div 2^l
  BY DEF q
<1> QED  BY <1>2, <1>3, <1>4

(* Masking to a width keeps the bits of the width.                         *)
LEMMA BitOfMask ==
    ASSUME NEW value \in Nat, NEW width \in Nat, NEW i \in 0..(Kept(width) - 1)
    PROVE  Bit(Mask(value, width), i) = Bit(value, i)
<1>1. Kept(width) \in 0..WordWidth
  BY KeptType
<1>2. i \in 0..(WordWidth - 1) /\ i < Kept(width)
  BY <1>1, WordAssumption
<1> QED  BY <1>1, <1>2, BitOfLow DEF Mask

(* Two words of a width with the same bits are the same word, so that what *)
(* holds of every bit holds of the word: by the smallest width for which   *)
(* they would not be.                                                      *)
THEOREM BitsMakeTheWord ==
    ASSUME NEW w \in 0..WordWidth, NEW x \in 0..(2^w - 1), NEW y \in 0..(2^w - 1),
           \A i \in 0..(w - 1) : Bit(x, i) = Bit(y, i)
    PROVE  x = y
<1> DEFINE Apart(k) == \E a, b \in 0..(2^k - 1) :
                          a # b /\ \A i \in 0..(k - 1) : Bit(a, i) = Bit(b, i)
           Odd == {k \in 0..WordWidth : Apart(k)}
<1> SUFFICES ASSUME x # y PROVE FALSE
  OBVIOUS
<1>1. w \in Odd
  OBVIOUS
<1>2. PICK k \in Odd : \A j \in Odd : k <= j
  <2>1. Odd \subseteq Nat
    OBVIOUS
  <2> HIDE DEF Odd
  <2> QED  BY <1>1, <2>1, LeastNumber
<1>3. k \in 0..WordWidth /\ Apart(k)
  BY <1>2
<1>4. PICK a \in 0..(2^k - 1), b \in 0..(2^k - 1) :
          a # b /\ \A i \in 0..(k - 1) : Bit(a, i) = Bit(b, i)
  BY <1>3
<1>5. k # 0
  <2>1. k = 0 => a \in 0..0 /\ b \in 0..0
    BY DoublingAssumption
  <2> QED  BY <1>4, <2>1
<1> DEFINE j == k - 1
           c == a \div 2
           d == b \div 2
<1>6. j \in 0..(WordWidth - 1) /\ j \in 0..WordWidth /\ j + 1 = k /\ j \notin Odd
  BY <1>2, <1>3, <1>5, WordAssumption
<1>7. 2^j \in Nat \ {0} /\ 2^k = 2 * 2^j
  BY <1>6, PowerAssumption, DoublingAssumption
<1>8. a \in Nat /\ b \in Nat /\ a = 2 * c + (a % 2) /\ b = 2 * d + (b % 2)
  <2>1. a \in Nat /\ b \in Nat
    OBVIOUS
  <2> QED  BY <2>1, DivMod
<1>9. c \in 0..(2^j - 1) /\ d \in 0..(2^j - 1)
  <2> DEFINE p == 2^j
  <2>1. p \in Nat \ {0} /\ a \in 0..(2 * p - 1) /\ b \in 0..(2 * p - 1)
    BY <1>7
  <2> HIDE DEF p
  <2>2. a \div 2 \in 0..(p - 1) /\ b \div 2 \in 0..(p - 1)
    BY <2>1
  <2> QED  BY <2>2 DEF p
<1>10. a % 2 = b % 2
  <2>1. 0 \in 0..(k - 1) /\ 2^0 = 1
    BY <1>3, <1>5, DoublingAssumption
  <2>2. Bit(a, 0) = Bit(b, 0)
    BY <1>4, <2>1
  <2>3. a \div 1 = a /\ b \div 1 = b
    BY <1>8
  <2> QED  BY <2>1, <2>2, <2>3 DEF Bit
<1>11. \A i \in 0..(j - 1) : Bit(c, i) = Bit(d, i)
  <2> SUFFICES ASSUME NEW i \in 0..(j - 1) PROVE Bit(c, i) = Bit(d, i)
    OBVIOUS
  <2>1. i + 1 \in 0..(k - 1) /\ i + 1 \in 0..(WordWidth - 1) /\ 1 \in 0..WordWidth
           /\ 1 <= i + 1 /\ (i + 1) - 1 = i
    BY <1>3, <1>6, WordAssumption
  <2>2. 2^1 = 2
    <3>1. 0 \in 0..(WordWidth - 1) /\ 0 + 1 = 1
      BY WordAssumption
    <3> QED  BY <3>1, DoublingAssumption
  <2>3. Bit(a \div 2^1, (i + 1) - 1) = Bit(a, i + 1)
    BY <1>8, <2>1, BitOfHigh
  <2>4. Bit(b \div 2^1, (i + 1) - 1) = Bit(b, i + 1)
    BY <1>8, <2>1, BitOfHigh
  <2> QED  BY <1>4, <2>1, <2>2, <2>3, <2>4
<1>12. c = d
  BY <1>6, <1>9, <1>11
<1> QED  BY <1>4, <1>8, <1>10, <1>12

(* A partial write replaces the bits of its range by the low bits of the   *)
(* value, and leaves every other bit of the word as it was (apply_write).  *)
THEOREM PartialWriteBits ==
    ASSUME NEW current \in Nat, NEW value \in Nat,
           NEW msb \in 0..(WordWidth - 1), NEW lsb \in 0..(WordWidth - 1), lsb <= msb,
           NEW i \in 0..(WordWidth - 1)
    PROVE  Bit(Insert(current, msb, lsb, value), i) =
              IF lsb <= i /\ i <= msb THEN Bit(value, i - lsb) ELSE Bit(current, i)
<1> DEFINE m == msb + 1
           n == msb - lsb + 1
           P == 2^m
           L == 2^lsb
           N == 2^n
           bits == Mask(value, n)
           low  == current % L
           rest == L * bits + low
           high == current \div P
<1>1. m \in 0..WordWidth /\ lsb \in 0..WordWidth /\ n \in 0..WordWidth
         /\ n \in Nat \ {0} /\ lsb + n = m
  BY WordAssumption
<1>2. P \in Nat \ {0} /\ L \in Nat \ {0} /\ N \in Nat \ {0} /\ P = L * N
  <2>1. 2^(lsb + n) = 2^lsb * 2^n
    BY <1>1, PowersMultiply, WordAssumption
  <2>2. P = L * N
    BY <1>1, <2>1
  <2> QED  BY <1>1, <2>2, PowerAssumption
<1>3. Kept(n) = n
  BY <1>1, WordAssumption DEF Kept
<1>4. bits \in 0..(N - 1)
  BY <1>1, <1>3, MaskType
<1>5. low \in 0..(L - 1)
  BY <1>2
<1>6. high \in Nat
  BY <1>2
<1>7. Insert(current, msb, lsb, value) = P * high + rest
  <2>1. Insert(current, msb, lsb, value) = high * P + bits * L + low
    BY DEF Insert
  <2> HIDE DEF high, P, bits, L, low
  <2>2. high * P + bits * L + low = P * high + (L * bits + low)
    BY <1>2, <1>4, <1>5, <1>6
  <2> QED  BY <2>1, <2>2
<1>8. rest \in 0..(P - 1)
  <2> HIDE DEF P, bits, L, low, N
  <2>1. PICK k \in Nat : N = bits + 1 + k
    BY <1>2, <1>4
  <2>2. L * (bits + 1 + k) = L * bits + L + L * k /\ L * k \in Nat /\ L * bits \in Nat
    BY <1>2, <1>4
  <2> QED  BY <1>2, <1>4, <1>5, <2>1, <2>2
<1>9. Bit(P * high + rest, i) = IF i < m THEN Bit(rest, i) ELSE Bit(high, i - m)
  <2> HIDE DEF rest, high
  <2> QED  BY <1>1, <1>6, <1>8, BitOfSplit
<1>10. Bit(rest, i) = IF i < lsb THEN Bit(low, i) ELSE Bit(bits, i - lsb)
  <2> HIDE DEF bits, low
  <2>1. bits \in Nat
    BY <1>2, <1>4
  <2> QED  BY <1>1, <1>5, <2>1, BitOfSplit
<1> HIDE DEF rest
<1>11. CASE i < lsb
  <2>1. Bit(low, i) = Bit(current, i)
    BY <1>1, <1>11, BitOfLow
  <2>2. i < m /\ ~(lsb <= i)
    BY <1>11
  <2> QED  BY <1>7, <1>9, <1>10, <1>11, <2>1, <2>2
<1>12. CASE lsb <= i /\ i <= msb
  <2>1. i - lsb \in 0..(Kept(n) - 1)
    BY <1>3, <1>12
  <2>2. Bit(bits, i - lsb) = Bit(value, i - lsb)
    BY <1>1, <2>1, BitOfMask
  <2>3. i < m /\ ~(i < lsb)
    BY <1>12
  <2> QED  BY <1>7, <1>9, <1>10, <1>12, <2>2, <2>3
<1>13. CASE msb < i
  <2>1. m <= i /\ ~(i < m) /\ ~(lsb <= i /\ i <= msb)
    BY <1>13
  <2>2. Bit(high, i - m) = Bit(current, i)
    BY <1>1, <2>1, BitOfHigh
  <2> QED  BY <1>7, <1>9, <2>1, <2>2
<1> QED  BY <1>11, <1>12, <1>13

-----------------------------------------------------------------------------
(***************************************************************************)
(* Writes to the places of the state.                                      *)
(***************************************************************************)

(* What apply_write makes of each bit of a scalar.                         *)
LEMMA BitOfScalar ==
    ASSUME NEW vals \in Values, NEW t \in SignalId, NEW r \in Ranges, NEW value \in Word,
           NEW i \in 0..(Kept(Width[t]) - 1)
    PROVE  Bit(WriteScalar(vals, t, r, value)[t], i) =
              IF r = None THEN Bit(value, i)
              ELSE IF r[2] <= i /\ i <= r[1] THEN Bit(value, i - r[2])
              ELSE Bit(vals[t], i)
<1>1. Width[t] \in Nat \ {0} /\ vals[t] \in Word /\ DOMAIN vals = SignalId
  BY SignalAssumption DEF Values
<1>2. vals[t] \in Nat /\ value \in Nat
  BY <1>1, WordType
<1>3. Kept(Width[t]) \in 0..WordWidth /\ i \in 0..(WordWidth - 1)
  BY <1>1, KeptType, WordAssumption
<1> DEFINE new == IF r = None THEN value ELSE Insert(vals[t], r[1], r[2], value)
<1>4. WriteScalar(vals, t, r, value)[t] = Mask(new, Width[t])
  BY <1>1 DEF WriteScalar
<1>5. CASE r = None
  BY <1>1, <1>2, <1>4, <1>5, BitOfMask
<1>6. CASE r # None
  <2>1. r[1] \in 0..(WordWidth - 1) /\ r[2] \in 0..(WordWidth - 1) /\ r[2] <= r[1]
    BY <1>6 DEF Ranges
  <2>2. new \in Nat /\ new = Insert(vals[t], r[1], r[2], value)
    BY <1>2, <1>6, <2>1, InsertType
  <2>3. Bit(new, i) = IF r[2] <= i /\ i <= r[1] THEN Bit(value, i - r[2]) ELSE Bit(vals[t], i)
    BY <1>2, <1>3, <2>1, <2>2, PartialWriteBits
  <2> HIDE DEF new
  <2>4. Bit(Mask(new, Width[t]), i) = Bit(new, i)
    BY <1>1, <2>2, BitOfMask
  <2> QED  BY <1>4, <1>6, <2>3, <2>4
<1> QED  BY <1>5, <1>6

(* A place is a scalar's or an element's.                                  *)
LEMMA PlaceType ==
    ASSUME NEW place \in Places
    PROVE  \/ \E s \in SignalId : place = <<s>>
           \/ \E s \in SignalId : \E e \in Elements(s) : place = <<s, e>>
BY DEF Places

(* A write decides the bits it reaches, and changes no other.              *)
LEMMA BitOfHeldAfter ==
    ASSUME values \in Values, arrays \in Arrays,
           NEW u \in PendingWrite, ApplyWrite(u),
           NEW place \in Places, NEW i \in BitsOf(place)
    PROVE  Bit(Held(place)', i) =
              IF PlaceOf(u) = place /\ Reaches(u, i) THEN BitOf(u, i) ELSE Bit(Held(place), i)
<1>1. CASE u.kind = "Scalar"
  <2>1. u.target \in SignalId /\ u.range \in Ranges /\ u.value \in Word
    BY <1>1 DEF PendingWrite
  <2>2. values' = WriteScalar(values, u.target, u.range, u.value) /\ arrays' = arrays
    BY <1>1 DEF ApplyWrite
  <2>3. PlaceOf(u) = <<u.target>>
    BY <1>1 DEF PlaceOf
  <2>4. CASE \E s \in SignalId : place = <<s>>
    <3>1. PICK s \in SignalId : place = <<s>>
      BY <2>4
    <3>2. Held(place) = values[s] /\ Held(place)' = values'[s] /\ i \in 0..(Kept(Width[s]) - 1)
      BY <3>1 DEF Held, BitsOf
    <3>3. CASE s = u.target
      <4>1. PlaceOf(u) = place
        BY <2>3, <3>1, <3>3
      <4>2. Bit(values'[s], i) =
              IF u.range = None THEN Bit(u.value, i)
              ELSE IF u.range[2] <= i /\ i <= u.range[1] THEN Bit(u.value, i - u.range[2])
              ELSE Bit(values[s], i)
        BY <2>1, <2>2, <3>2, <3>3, BitOfScalar
      <4> QED  BY <1>1, <3>2, <4>1, <4>2 DEF Reaches, BitOf, Partial
    <3>4. CASE s # u.target
      <4>1. values'[s] = values[s]
        BY <2>2, <3>4 DEF WriteScalar, Values
      <4>2. PlaceOf(u) # place
        BY <2>3, <3>1, <3>4
      <4> QED  BY <3>2, <4>1, <4>2
    <3> QED  BY <3>3, <3>4
  <2>5. CASE \E s \in SignalId : \E e \in Elements(s) : place = <<s, e>>
    <3>0. PICK s \in SignalId : \E e \in Elements(s) : place = <<s, e>>
      BY <2>5
    <3>1. PICK e \in Elements(s) : place = <<s, e>>
      BY <3>0
    <3>2. PlaceOf(u) # place
      BY <2>3, <3>1
    <3>3. Held(place)' = Held(place)
      BY <2>2, <3>1 DEF Held
    <3> QED  BY <3>2, <3>3
  <2> QED  BY <2>4, <2>5, PlaceType
<1>2. CASE u.kind = "Array"
  <2>1. u.array \in SignalId /\ u.index \in Word /\ u.value \in Word
    BY <1>2 DEF PendingWrite
  <2>2. arrays' = WriteArray(arrays, u.array, u.index, u.value) /\ values' = values
    BY <1>2 DEF ApplyWrite
  <2>3. PlaceOf(u) = <<u.array, u.index>> /\ ~Partial(u)
    BY <1>2 DEF PlaceOf, Partial
  <2>4. CASE \E s \in SignalId : place = <<s>>
    <3>1. PICK s \in SignalId : place = <<s>>
      BY <2>4
    <3>2. PlaceOf(u) # place
      BY <2>3, <3>1
    <3>3. Held(place)' = Held(place)
      BY <2>2, <3>1 DEF Held
    <3> QED  BY <3>2, <3>3
  <2>5. CASE \E s \in SignalId : \E e \in Elements(s) : place = <<s, e>>
    <3>0. PICK s \in SignalId : \E e \in Elements(s) : place = <<s, e>>
      BY <2>5
    <3>1. PICK e \in Elements(s) : place = <<s, e>>
      BY <3>0
    <3>2. Held(place) = arrays[s][e] /\ Held(place)' = arrays'[s][e]
             /\ i \in 0..(Kept(Width[s]) - 1)
      BY <3>1 DEF Held, BitsOf
    <3>3. arrays[s] \in [Elements(s) -> Fits(s)] /\ DOMAIN arrays = SignalId
      BY DEF Arrays
    <3>4. CASE s = u.array /\ e = u.index
      <4>1. arrays'[s][e] = Mask(u.value, Width[s])
        BY <2>2, <3>3, <3>4 DEF WriteArray
      <4>2. Bit(Mask(u.value, Width[s]), i) = Bit(u.value, i)
        BY <2>1, <3>2, WordType, SignalAssumption, BitOfMask
      <4>3. PlaceOf(u) = place
        BY <2>3, <3>1, <3>4
      <4> QED  BY <2>3, <3>2, <4>1, <4>2, <4>3 DEF Reaches, BitOf
    <3>5. CASE ~(s = u.array /\ e = u.index)
      <4>1. arrays'[s][e] = arrays[s][e]
        BY <2>1, <2>2, <3>3, <3>5 DEF WriteArray
      <4>2. PlaceOf(u) # place
        BY <2>3, <3>1, <3>5
      <4> QED  BY <3>2, <4>1, <4>2
    <3> QED  BY <3>4, <3>5
  <2> QED  BY <2>4, <2>5, PlaceType
<1> QED  BY <1>1, <1>2 DEF PendingWrite

-----------------------------------------------------------------------------
(***************************************************************************)
(* The commit.                                                             *)
(***************************************************************************)

(* The greatest element of a set is what Max yields.                       *)
LEMMA GreatestOf ==
    ASSUME NEW n \in Nat, NEW D \in SUBSET (1..n), NEW x \in D, \A y \in D : y <= x
    PROVE  Max(D) = x
<1>1. D \subseteq Int
  OBVIOUS
<1>2. \A y \in D : x >= y
  BY <1>1
<1>3. Max(D) \in D /\ \A y \in D : Max(D) >= y
  BY <1>2 DEF Max
<1>4. Max(D) >= x /\ x >= Max(D)
  BY <1>2, <1>3
<1>5. Max(D) \in Int /\ x \in Int
  BY <1>1, <1>3
<1> DEFINE m == Max(D)
<1> HIDE DEF m
<1>6. m \in Int /\ m >= x /\ x >= m
  BY <1>4, <1>5 DEF m
<1>7. m = x
  BY <1>5, <1>6
<1> QED  BY <1>7 DEF m

(* A nonempty set of positions has a greatest.                             *)
LEMMA HasGreatest ==
    ASSUME NEW n \in Nat, NEW D \in SUBSET (1..n), D # {}
    PROVE  \E x \in D : \A y \in D : y <= x
<1> DEFINE T == {k \in Nat : \E x \in D : k = n - x}
<1>1. T # {}
  <2>1. PICK x \in D : TRUE
    OBVIOUS
  <2>2. n - x \in Nat
    OBVIOUS
  <2> QED  BY <2>2
<1>2. PICK k \in T : \A j \in T : k <= j
  BY <1>1, LeastNumber
<1>3. PICK x \in D : k = n - x
  BY <1>2
<1>4. ASSUME NEW y \in D PROVE y <= x
  <2>1. n - y \in T
    OBVIOUS
  <2>2. n - x <= n - y
    BY <1>2, <1>3, <2>1
  <2> QED  BY <2>2
<1> QED  BY <1>4

(* Applying the first write of the queue leaves what is decided: a later   *)
(* write to the bit decides it as before, and without one the first write  *)
(* has just put there what it decided.                                     *)
LEMMA CommitKeepsDecided ==
    ASSUME TypeOK, CommitWrite, NEW place \in Places, NEW i \in BitsOf(place)
    PROVE  Decided(place, i)' = Decided(place, i)
<1> DEFINE u == Head(updates)
           T == Tail(updates)
           n == Len(T)
           Settles(k) == PlaceOf(updates[k]) = place /\ Reaches(updates[k], i)
           D == Deciding(place, i)
           E == {k \in 1..n : PlaceOf(T[k]) = place /\ Reaches(T[k], i)}
<1>1. updates \in Seq(PendingWrite) /\ updates # <<>> /\ updates' = T /\ ApplyWrite(u)
  BY DEF TypeOK, CommitWrite
<1>2. u \in PendingWrite /\ u = updates[1] /\ T \in Seq(PendingWrite) /\ n \in Nat
         /\ DOMAIN updates = 1..(n + 1) /\ DOMAIN T = 1..n
         /\ \A k \in 1..n : T[k] = updates[k + 1]
  BY <1>1
<1>3. Bit(Held(place)', i) =
         IF PlaceOf(u) = place /\ Reaches(u, i) THEN BitOf(u, i) ELSE Bit(Held(place), i)
  BY <1>1, <1>2, BitOfHeldAfter DEF TypeOK
<1>4. Deciding(place, i)' = E
  BY <1>1, <1>2 DEF Deciding
<1>5. D = {k \in 1..(n + 1) : Settles(k)}
  BY <1>2 DEF Deciding
<1>6. \A k \in 1..n : k \in E <=> k + 1 \in D
  BY <1>2, <1>5
<1>7. 1 \in D <=> PlaceOf(u) = place /\ Reaches(u, i)
  BY <1>2, <1>5
<1>8. Decided(place, i)' = IF E = {} THEN Bit(Held(place)', i) ELSE BitOf(T[Max(E)], i)
  BY <1>1, <1>4 DEF Decided
<1>9. Decided(place, i) = IF D = {} THEN Bit(Held(place), i) ELSE BitOf(updates[Max(D)], i)
  BY DEF Decided
<1>10. D \in SUBSET (1..(n + 1)) /\ E \in SUBSET (1..n) /\ n + 1 \in Nat
  BY <1>2, <1>5
<1> HIDE DEF D, E, n, T, u, Settles
<1>11. CASE E = {}
  <2>1. \A k \in D : k = 1
    <3> SUFFICES ASSUME NEW k \in D, k # 1 PROVE FALSE
      OBVIOUS
    <3>1. k - 1 \in 1..n /\ (k - 1) + 1 = k
      BY <1>2, <1>10
    <3> QED  BY <1>6, <1>11, <3>1
  <2>2. CASE D = {}
    BY <1>3, <1>7, <1>8, <1>9, <1>11, <2>2
  <2>3. CASE D # {}
    <3>1. 1 \in D
      BY <2>1, <2>3
    <3>2. Max(D) = 1
      BY <1>10, <2>1, <3>1, GreatestOf
    <3> QED  BY <1>2, <1>3, <1>7, <1>8, <1>9, <1>11, <2>3, <3>1, <3>2
  <2> QED  BY <2>2, <2>3
<1>12. CASE E # {}
  <2>1. PICK x \in E : \A y \in E : y <= x
    BY <1>2, <1>10, <1>12, HasGreatest
  <2>2. x \in 1..n /\ x + 1 \in D
    BY <1>6, <1>10, <2>1
  <2>3. ASSUME NEW k \in D PROVE k <= x + 1
    <3>1. CASE k = 1
      BY <2>2, <3>1
    <3>2. CASE k # 1
      <4>1. k - 1 \in 1..n /\ (k - 1) + 1 = k
        BY <1>2, <1>10, <3>2
      <4>2. k - 1 <= x
        BY <1>6, <2>1, <4>1
      <4> QED  BY <2>2, <4>1, <4>2
    <3> QED  BY <3>1, <3>2
  <2>4. Max(E) = x /\ Max(D) = x + 1
    <3>1. Max(E) = x
      BY <1>2, <1>10, <2>1, GreatestOf
    <3>2. Max(D) = x + 1
      BY <1>10, <2>2, <2>3, GreatestOf
    <3> QED  BY <3>1, <3>2
  <2>5. D # {}
    BY <2>2
  <2> QED  BY <1>2, <1>8, <1>9, <1>12, <2>2, <2>4, <2>5
<1> QED  BY <1>11, <1>12

(* No other step that changes the state is taken while the queue is being  *)
(* committed.                                                              *)
LEMMA StepLastWriteWins ==
    ASSUME TypeOK, DriverInv, [Next]_vars, pc = "commit",
           NEW place \in Places, NEW i \in BitsOf(place)
    PROVE  Decided(place, i)' = Decided(place, i)
<1>1. CASE CommitWrite
  BY <1>1, CommitKeepsDecided
<1>2. CASE EndCommit \/ UNCHANGED vars
  <2>1. values' = values /\ arrays' = arrays /\ updates' = updates
    BY <1>2 DEF EndCommit, vars
  <2> QED  BY <2>1 DEF Decided, Deciding, Held
<1>3. todo = <<>>
  BY DEF DriverInv
<1>4. ~EvalStmts
  BY <1>3 DEF EvalStmts, QueueWrite, WriteNow, Branch, CaseArm, CaseDefault, Running
<1>5. ~Settle
  BY DEF Settle, SettleAssign, EndAssigns, ReturnToTick, ReturnToDriver, NextPass, Panic, PassDone
<1>6. ~StartProcess /\ ~EndClocked /\ ~Call
  BY DEF StartProcess, EndClocked, Call, SetAll, Tick
<1> QED  BY <1>1, <1>2, <1>4, <1>5, <1>6 DEF Next, Inside, Edge

(* Whatever the processes of an edge queue, in whatever order and over     *)
(* whatever parts of the signals, the last write to a bit decides it, and  *)
(* no write disturbs a bit that it does not reach (tick, apply_write).     *)
THEOREM LastWriteDecides == Spec => LastWriteWins
<1>1. ASSUME TypeOK, DriverInv, [Next]_vars
      PROVE  [pc = "commit" =>
                 \A place \in Places : \A i \in BitsOf(place) :
                     Decided(place, i)' = Decided(place, i)]_vars
  BY <1>1, StepLastWriteWins
<1>2. Spec => []TypeOK
  BY TypeCorrect
<1>3. Spec => []DriverInv
  BY DriversSeparate
<1> QED  BY <1>1, <1>2, <1>3, PTL DEF Spec, LastWriteWins
=============================================================================
