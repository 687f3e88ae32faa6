---------------------------- MODULE VerilogText ----------------------------
(***************************************************************************)
(* What Verilog text means, from IEEE 1800 11.6 and 11.8.1 and without a   *)
(* word of the lowering: its own width and signedness, and the bits it has *)
(* when a context evaluates it at a width w, signed or not.                *)
(***************************************************************************)
EXTENDS LowerExpr

LOCAL INSTANCE SequencesExt    \* FoldLeft, Max, Min

Arithmetic  == {"+", "-", "*", "&", "|", "^"}
Shifts      == {"<<", "<<<", ">>", ">>>"}
Comparisons == {"==", "!=", "<", "<=", ">", ">="}

(* The operands whose signs decide whether t is signed.                    *)
RECURSIVE Deciders(_)
Deciders(t) ==
    CASE t.form = "Unary" /\ t.symbol \in {"-", "+", "~"} -> Deciders(t.arg)
      [] t.form = "Binary" /\ t.symbol \in Shifts -> Deciders(t.left)
      [] t.form = "Binary" /\ t.symbol \in Arithmetic -> Deciders(t.left) \cup Deciders(t.right)
      [] t.form = "Cond" -> Deciders(t.yes) \cup Deciders(t.no)
      [] OTHER -> {t}

(* An unsized number or an integer variable, both of them signed.          *)
IsInteger(t) == t.form = "Integer" \/ (t.form = "Name" /\ t.id \in IntegerVars)
OwnSigned(t) ==
    \A d \in Deciders(t) : IsInteger(d) \/ (d.form = "Call" /\ d.name = "$signed")

(* Signed by its integers: a sign that no expression records (width 43).   *)
Unrecorded(t) == OwnSigned(t) /\ \E d \in Deciders(t) : IsInteger(d)

(* An integer variable is a signal that only loops use.                    *)
WidthOf(id)  == IF id \in IntegerVars THEN IndexBits ELSE Width[id]
PackedOf(id) == IF id \in IntegerVars THEN PlainRange(IndexBits) ELSE Packed[id]

RECURSIVE OwnWidth(_)
OwnWidth(t) ==
    CASE t.form = "Name"   -> WidthOf(t.id)
      [] t.form \in {"Number", "Digits"} -> t.width
      [] t.form = "Integer" -> IndexBits
      [] t.form = "Call"   -> OwnWidth(t.arg)
      [] t.form = "Unary"  -> IF t.symbol \in {"-", "+", "~"} THEN OwnWidth(t.arg) ELSE 1
      [] t.form = "Binary" ->
            IF t.symbol \in Arithmetic THEN Max({OwnWidth(t.left), OwnWidth(t.right)})
            ELSE IF t.symbol \in Shifts THEN OwnWidth(t.left) ELSE 1
      [] t.form = "Cond"   -> Max({OwnWidth(t.yes), OwnWidth(t.no)})
      [] t.form = "Concat" -> FoldLeft(LAMBDA sum, p : sum + OwnWidth(p), 0, t.parts)
      [] t.form = "Repeat" -> t.count.value * OwnWidth(t.arg)
      [] t.form = "Index"  -> IF IsArray(t.id) THEN Width[t.id] ELSE 1
      [] t.form = "Part"   -> IF t.first.value > t.second.value
                              THEN t.first.value - t.second.value + 1
                              ELSE t.second.value - t.first.value + 1
      [] t.form = "Indexed" -> t.width.value

(* A pattern of w bits as an integer, and in a context of more bits.       *)
Integer(x, w, signed) == IF signed /\ Bit(x, w - 1) = 1 THEN x - 2^w ELSE x
Extend(x, from, w, signed) == Integer(x, from, signed) % 2^w

Truth(b) == IF b THEN 1 ELSE 0

Compares(symbol, x, y) ==
    CASE symbol = "==" -> x = y
      [] symbol = "!=" -> x # y
      [] symbol = "<"  -> x < y
      [] symbol = "<=" -> x <= y
      [] symbol = ">"  -> x > y
      [] symbol = ">=" -> x >= y

(* Operations of w-bit patterns.                                           *)
OfBits(symbol, x, y, w) ==
    CASE symbol = "+" -> (x + y) % 2^w
      [] symbol = "-" -> (x - y) % 2^w
      [] symbol = "*" -> (x * y) % 2^w
      [] symbol = "&" -> x & y
      [] symbol = "|" -> x | y
      [] symbol = "^" -> x ^^ y

Shifted(symbol, x, n, w, signed) ==
    CASE symbol \in {"<<", "<<<"} -> (x * 2^n) % 2^w
      [] symbol = ">>"  -> x \div 2^n
      [] symbol = ">>>" -> (Integer(x, w, signed) \div 2^n) % 2^w

RECURSIVE Bits(_, _, _, _, _)
OwnBits(t, v, a) == Bits(t, OwnWidth(t), OwnSigned(t), v, a)
OwnInteger(t, v, a) == Integer(OwnBits(t, v, a), OwnWidth(t), OwnSigned(t))

(* The places of the bits whose indices run from i to j.                   *)
PlacesOf(s, i, j) ==
    {k \in 0..(WidthOf(s) - 1) : IndexAt(PackedOf(s), k) \in i..j \cup j..i}
Selected(t, v, a) ==
    CASE t.form = "Index" ->
            LET i == OwnInteger(t.index, v, a) IN PlacesOf(t.id, i, i)
      [] t.form = "Part" ->
            PlacesOf(t.id, OwnInteger(t.first, v, a), OwnInteger(t.second, v, a))
      [] t.form = "Indexed" ->
            LET i == OwnInteger(t.base, v, a)
            IN  PlacesOf(t.id, i, IF t.symbol = "+:" THEN i + t.width.value - 1
                                                     ELSE i - t.width.value + 1)
BitsAt(x, places) == IF places = {} THEN 0 ELSE (x \div 2^Min(places)) % 2^Cardinality(places)

(* Forms whose operands the context does not reach.                        *)
Alone(t, v, a) ==
    CASE t.form = "Name"   -> v[t.id]
      [] t.form = "Number" -> t.value % 2^t.width
      [] t.form = "Digits" ->
            FoldLeft(LAMBDA n, d : 2 * n + Truth(d = "1"), 0, t.digits) % 2^t.width
      [] t.form = "Integer" -> t.value % 2^IndexBits
      [] t.form = "Call"   -> OwnBits(t.arg, v, a)
      [] t.form = "Unary"  ->
            LET w   == OwnWidth(t.arg)
                x   == OwnBits(t.arg, v, a)
                odd == Cardinality({i \in 0..(w - 1) : Bit(x, i) = 1}) % 2
            IN (CASE t.symbol = "!"  -> Truth(x = 0)
                  [] t.symbol = "&"  -> Truth(x = 2^w - 1)
                  [] t.symbol = "~&" -> Truth(x # 2^w - 1)
                  [] t.symbol = "|"  -> Truth(x # 0)
                  [] t.symbol = "~|" -> Truth(x = 0)
                  [] t.symbol = "^"  -> odd
                  [] t.symbol = "~^" -> 1 - odd)
      [] t.form = "Binary" /\ t.symbol \in Comparisons ->
            LET wide   == Max({OwnWidth(t.left), OwnWidth(t.right)})
                signed == OwnSigned(t.left) /\ OwnSigned(t.right)
                Side(s) == Integer(Bits(s, wide, signed, v, a), wide, signed)
            IN  Truth(Compares(t.symbol, Side(t.left), Side(t.right)))
      [] t.form = "Binary" /\ t.symbol = "&&" ->
            Truth(OwnBits(t.left, v, a) # 0 /\ OwnBits(t.right, v, a) # 0)
      [] t.form = "Binary" /\ t.symbol = "||" ->
            Truth(OwnBits(t.left, v, a) # 0 \/ OwnBits(t.right, v, a) # 0)
      [] t.form = "Concat" ->
            FoldLeft(LAMBDA sum, p : sum * 2^OwnWidth(p) + OwnBits(p, v, a), 0, t.parts)
      [] t.form = "Repeat" ->
            FoldLeft(LAMBDA sum, p : sum * 2^OwnWidth(p) + OwnBits(p, v, a), 0,
                     [i \in 1..t.count.value |-> t.arg])
      [] t.form = "Index" /\ IsArray(t.id) ->
            LET i == OwnInteger(t.index, v, a)
            IN  IF i \in Low(Unpacked[t.id])..High(Unpacked[t.id])
                THEN a[t.id][i - Low(Unpacked[t.id])] ELSE 0
      [] OTHER -> BitsAt(v[t.id], Selected(t, v, a))

(* The bits of t in a context of w bits, signed or not.                    *)
Bits(t, w, signed, v, a) ==
    CASE t.form = "Unary" /\ t.symbol = "+" -> Bits(t.arg, w, signed, v, a)
      [] t.form = "Unary" /\ t.symbol = "-" -> (0 - Bits(t.arg, w, signed, v, a)) % 2^w
      [] t.form = "Unary" /\ t.symbol = "~" -> 2^w - 1 - Bits(t.arg, w, signed, v, a)
      [] t.form = "Binary" /\ t.symbol \in Arithmetic ->
            OfBits(t.symbol, Bits(t.left, w, signed, v, a), Bits(t.right, w, signed, v, a), w)
      [] t.form = "Binary" /\ t.symbol \in Shifts ->
            Shifted(t.symbol, Bits(t.left, w, signed, v, a), OwnBits(t.right, v, a), w, signed)
      [] t.form = "Cond" ->
            IF OwnBits(t.cond, v, a) # 0 THEN Bits(t.yes, w, signed, v, a)
                                         ELSE Bits(t.no, w, signed, v, a)
      [] OTHER -> Extend(Alone(t, v, a), OwnWidth(t), w, signed)

-----------------------------------------------------------------------------

Scalars == {s \in DOMAIN Width : Depth[s] = 0}
Stored(s) == 0 .. (2^Width[s] - 1)

(* Every content of the scalars, and one of the arrays, whose elements     *)
(* differ.  There is a slot for each signal, as in the kernel.             *)
ScalarStates == {v \in [DOMAIN Width -> UNION {Stored(s) : s \in DOMAIN Width}] :
                    \A s \in DOMAIN Width : v[s] \in IF s \in Scalars THEN Stored(s) ELSE {0}}
ArrayStates  == {[s \in DOMAIN Width |-> [i \in 0..(Depth[s] - 1) |-> (i + 1) % 2^Width[s]]]}

(* The states in which only the scalars of S differ.                       *)
StatesOver == [S \in SUBSET Scalars |-> {v \in ScalarStates : \A s \in Scalars \ S : v[s] = 0}]

(* A text and all its parts.                                               *)
RECURSIVE Parts(_)
Parts(t) ==
    {t} \cup (CASE t.form \in {"Unary", "Call"} -> Parts(t.arg)
                [] t.form = "Repeat" -> Parts(t.arg)
                [] t.form = "Index"  -> Parts(t.index)
                [] t.form = "Binary" -> Parts(t.left) \cup Parts(t.right)
                [] t.form = "Cond"   -> Parts(t.cond) \cup Parts(t.yes) \cup Parts(t.no)
                [] t.form = "Concat" -> UNION {Parts(t.parts[i]) : i \in DOMAIN t.parts}
                [] OTHER             -> {})

SignalsOf(t) ==
    {p.id : p \in {q \in Parts(t) : q.form \in {"Name", "Index", "Part", "Indexed"}}}

(* Six forms the frontend is known to read otherwise than Verilog does: a  *)
(* negated reduction, a signed shift amount, more bits than a word, a      *)
(* constant index computed with operators, a narrow computed index into a  *)
(* range that does not end at 0, and a sign that is unrecorded where it is *)
(* read: by >>>, an order or an index.                                     *)
IsNegatedReduction(t) == t.form = "Unary" /\ t.symbol \in DOMAIN NegatedReduction
HasSignedAmount(t)    ==
    /\ t.form = "Binary" /\ t.symbol \in Shifts
    /\ OwnSigned(t.right) /\ t.right.form \notin {"Name", "Integer"}
IsTooWide(t)          == OwnWidth(t) > WordWidth
HasComputedIndex(t)   ==
    /\ t.form = "Index" /\ ~IsArray(t.id) /\ t.index.form \notin {"Number", "Digits", "Integer"}
    /\ \A p \in Parts(t.index) : p.form \notin {"Name", "Index"}

HasWidenedIndex(t)   ==
    /\ t.form = "Index" /\ OwnWidth(t.index) < IndexBits
    /\ IF Depth[t.id] = 0 THEN Packed[t.id].right # 0 ELSE Low(Unpacked[t.id]) # 0
    /\ \/ t.index.form = "Unary" /\ t.index.symbol \in {"-", "+", "~"}
       \/ t.index.form = "Binary" /\ t.index.symbol \in Arithmetic \cup Shifts
       \/ t.index.form = "Cond"

(* An integer itself is not negative; what is computed from it may be.     *)
LosesSign(t) == Unrecorded(t) /\ ~IsInteger(t)
ReadsLostSign(t) ==
    \/ t.form = "Index" /\ LosesSign(t.index)
    \/ t.form = "Binary" /\ t.symbol = ">>>" /\ LosesSign(t.left)
    \/ /\ t.form = "Binary" /\ t.symbol \in {"<", "<=", ">", ">="}
       /\ OwnSigned(t.left) /\ OwnSigned(t.right)
       /\ LosesSign(t.left) \/ LosesSign(t.right)

Odd(t) ==
    \/ IsNegatedReduction(t) \/ HasSignedAmount(t) \/ IsTooWide(t)
    \/ HasComputedIndex(t) \/ HasWidenedIndex(t) \/ ReadsLostSign(t)

Ordinary(t) == \A p \in Parts(t) : ~Odd(p)
=============================================================================
