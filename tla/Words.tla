-------------------------------- MODULE Words --------------------------------
(***************************************************************************)
(* Machine words: unsigned integers of WordWidth bits (u64 in the program, *)
(* a few bits in the instances), and the three ways the kernel cuts them.  *)
(***************************************************************************)
EXTENDS Integers

CONSTANT WordWidth    \* Bits of a word: 64 in the program.

ASSUME WordAssumption == WordWidth \in Nat \ {0}

(* Powers of two up to the word, which the provers know nothing about:     *)
(* they are positive, none is above the word's, and each is twice the last.*)
ASSUME PowerAssumption ==
    \A w \in 0..WordWidth : 2^w \in Nat \ {0} /\ 2^w <= 2^WordWidth

ASSUME DoublingAssumption ==
    2^0 = 1 /\ \A w \in 0..(WordWidth - 1) : 2^(w + 1) = 2 * 2^w

Word == 0 .. (2^WordWidth - 1)

Bit(x, i) == (x \div 2^i) % 2

(* The low width bits of value, which is cut to a word in any case.        *)
Kept(width) == IF width >= WordWidth THEN WordWidth ELSE width
Mask(value, width) == value % 2^Kept(width)

(* Bits msb..lsb of current replaced by the low bits of value.             *)
Insert(current, msb, lsb, value) ==
    (current \div 2^(msb + 1)) * 2^(msb + 1)
        + Mask(value, msb - lsb + 1) * 2^lsb
        + (current % 2^lsb)
=============================================================================
