------------------------------ MODULE LowerExpr ------------------------------
(***************************************************************************)
(* lower_expr: the expression of the intermediate representation that the  *)
(* frontend builds for Verilog text, in a place where some constants are   *)
(* bound to names.  A Result is a set: of the one value of Ok, or empty    *)
(* for Err.                                                                *)
(*                                                                         *)
(* Text is a record whose "form" is "Name", "Number" (of a stated width),  *)
(* "Integer" (unsized), "Digits" (binary), "Unary", "Binary" (in           *)
(* parentheses), "Cond", "Concat", "Repeat", "Call", "Index" (s[index]),   *)
(* "Part" (s[first:second]) or "Indexed" (s[base +: width]).               *)
(***************************************************************************)
EXTENDS Widths, DeclaredRange, TLC

LOCAL INSTANCE SequencesExt    \* FoldLeft, Range

CONSTANTS
    Packed,     \* Packed[s]: the range s declares for its bits,
    Unpacked,   \* Unpacked[s]: and for its elements.
    IntegerVars \* The variables declared integer, which have no signal.

ASSUME RangesAssumption ==
    \A s \in DOMAIN Width :
        /\ Packed[s] \in Bounds /\ Width[s] = RangeWidth(Packed[s])
        /\ Depth[s] > 0 => Unpacked[s] \in Bounds /\ Depth[s] = RangeWidth(Unpacked[s])

NoBindings == <<>>

IsZero(x)         == [op |-> "Not", inner |-> x, width |-> 1]
OverBits(o, x, w) == [op |-> o, inner |-> x, width |-> w]
Both(o, x, y)     == [op |-> o, lhs |-> x, rhs |-> y]
Literal(n, w)     == [op |-> "Literal", value |-> n, width |-> w]

-----------------------------------------------------------------------------

(* The value of an expression that reads no signal, over whole words; no   *)
(* value for others, nor for a shift amount that overflows its type.       *)
RECURSIVE TryConstFold(_)
TryConstFold(e) ==
    CASE e.op = "Literal" -> {e.value}
      [] e.op \in {"Ref", "DynamicBitSelect", "ArrayRead"} -> {}
      [] e.op \in UnaryOps -> {Unary(e.op, x, e.width) : x \in TryConstFold(e.inner)}
      [] e.op \in {"Shl", "Shr"} ->
            {Binary(e.op, x, n) : x \in TryConstFold(e.lhs),
                                  n \in TryConstFold(e.rhs) \cap Index}
      [] e.op \in BinaryOps \ {"Shl", "Shr"} ->
            {Binary(e.op, x, y) : x \in TryConstFold(e.lhs), y \in TryConstFold(e.rhs)}
      [] e.op = "Select" ->
            {Mask(x \div 2^PlainShift(e.lsb), e.msb - e.lsb + 1) : x \in TryConstFold(e.base)}
      [] e.op = "Concat" ->
            {FoldLeft(LAMBDA result, part :
                          AsWord(result * 2^PlainShift(part.width)) | Mask(part.value, part.width),
                      0, parts) :
                parts \in Collected([i \in DOMAIN e.parts |->
                    {[value |-> x, width |-> e.parts[i].width] :
                        x \in TryConstFold(e.parts[i].expr)}])}
      [] e.op = "Ternary" ->
            UNION {IF c # 0 THEN TryConstFold(e.then_val) ELSE TryConstFold(e.else_val) :
                      c \in TryConstFold(e.cond)}

-----------------------------------------------------------------------------

Reduction == "&" :> "ReduceAnd" @@ "|" :> "ReduceOr" @@ "^" :> "ReduceXor"
NegatedReduction == "~&" :> "ReduceAnd" @@ "~|" :> "ReduceOr" @@ "~^" :> "ReduceXor"

(* 0 - x, with a zero of the operand's width and signedness.               *)
Negated(x, w) ==
    Both("Sub", IF IsSigned(x) THEN Extended(Literal(0, w), w) ELSE Literal(0, w), x)

UnarySymbols == {"!", "-", "+", "~"} \cup DOMAIN Reduction \cup DOMAIN NegatedReduction

LowerUnary(symbol, x) ==
    CASE symbol = "!" -> {IsZero(x)}
      [] symbol = "+" -> {x}
      [] symbol = "-" -> {Negated(x, w) : w \in ExprWidth(x)}
      [] symbol = "~" -> {OverBits("BitwiseNot", x, w) : w \in ExprWidth(x)}
      [] symbol \in DOMAIN Reduction ->
            {OverBits(Reduction[symbol], x, w) : w \in ExprWidth(x)}
      [] symbol \in DOMAIN NegatedReduction ->
            {OverBits("BitwiseNot", OverBits(NegatedReduction[symbol], x, w), 1) :
                w \in ExprWidth(x)}

Plain ==
    "+" :> "Add" @@ "-" :> "Sub" @@ "*" :> "Mul" @@ "<<" :> "Shl" @@ "<<<" :> "Shl"
        @@ "&" :> "And" @@ "|" :> "Or" @@ "^" :> "Xor" @@ "==" :> "Eq" @@ "!=" :> "Ne"
        @@ "&&" :> "LogicalAnd" @@ "||" :> "LogicalOr"
Ordering == "<" :> "Lt" @@ "<=" :> "Le" @@ ">" :> "Gt" @@ ">=" :> "Ge"

(* The four comparisons of signed operands, made of one.                   *)
SignedOrdering(symbol, x, y) ==
    CASE symbol = "<"  -> Both("SignedLt", x, y)
      [] symbol = ">"  -> Both("SignedLt", y, x)
      [] symbol = "<=" -> IsZero(Both("SignedLt", y, x))
      [] symbol = ">=" -> IsZero(Both("SignedLt", x, y))

BinarySymbols == DOMAIN Plain \cup DOMAIN Ordering \cup {">>", ">>>"}

ApplyBinaryOp(symbol, x, y) ==
    CASE symbol \in DOMAIN Plain -> {Both(Plain[symbol], x, y)}
      [] symbol \in DOMAIN Ordering ->
            IF IsSigned(x) # IsSigned(y) THEN {}
            ELSE IF IsSigned(x) THEN {SignedOrdering(symbol, x, y)}
            ELSE {Both(Ordering[symbol], x, y)}
      [] symbol = ">>"  -> IF IsSigned(x) THEN {} ELSE {Both("Shr", x, y)}
      [] symbol = ">>>" -> {Both(IF IsSigned(x) THEN "AShr" ELSE "Shr", x, y)}

(* $signed and $unsigned.                                                  *)
LowerCall(name, x) ==
    {IF name = "$signed" THEN Extended(x, w) ELSE Part(x, w) : w \in ExprWidth(x)}

LowerConcat(parts) ==
    {[op |-> "Concat", parts |-> p] : p \in
        Collected([i \in DOMAIN parts |->
            {[expr |-> parts[i], width |-> w] : w \in ExprWidth(parts[i])}])}

(* {count{x}}, with a count that is a literal as it stands.                *)
LowerRepeat(count, x) ==
    IF count.op # "Literal" \/ count.value = 0 THEN {}
    ELSE LowerConcat([i \in 1..count.value |-> x])

Ref(s) == [op |-> "Ref", id |-> s]
Field(x, p) == [op |-> "Select", base |-> x, msb |-> p[1], lsb |-> p[2]]

(* What a name stands for: a signal, or a constant in the place where it   *)
(* is bound.  An array is no value without an index.                       *)
IsArray(id) == id \in DOMAIN Width /\ Depth[id] > 0
LowerName(id, bindings) ==
    CASE id \in DOMAIN Width -> {Ref(id)}
      [] id \in DOMAIN bindings -> {Literal(bindings[id].value, bindings[id].width)}
      [] OTHER -> {}

PackedRange(base) == IF base.op = "Ref" THEN Packed[base.id] ELSE PlainRange(base.width)

(* The position an index computed at run time selects: a difference, which *)
(* wraps to a position that is not there when the index is out of range.   *)
WrongTranslated(range, index) ==
    IF IsPlain(range) THEN index ELSE Both("Sub", index, Literal(range.right, IndexBits))
Translated(range, index) ==
    LET lsb_index == Literal(range.right, IndexBits)
    IN  IF IsPlain(range) THEN index
        ELSE IF Ascending(range) THEN Both("Sub", lsb_index, index)
        ELSE Both("Sub", index, lsb_index)

FromLow(range, index) ==
    IF Low(range) = 0 THEN index ELSE Both("Sub", index, Literal(Low(range), IndexBits))

(* base[index]: a bit at a constant position, or one computed at run time. *)
LowerBit(base, index) ==
    IF TryConstFold(index) = {}
    THEN {[op |-> "DynamicBitSelect", base |-> base, index |-> Translated(PackedRange(base), index)]}
    ELSE {Field(base, p) :
             p \in UNION {Positions(PackedRange(base), n, n, FALSE) : n \in TryConstFold(index) \cap Index}}

LowerElement(array, index) ==
    {[op |-> "ArrayRead", array |-> array, index |-> FromLow(Unpacked[array], index)]}

-----------------------------------------------------------------------------

(* A binary literal's digits as a number.  x and z are 0; ? is no digit    *)
(* outside the items of casez and casex.                                   *)
FromDigits(digits) ==
    IF "?" \in Range(digits) THEN {}
    ELSE {FoldLeft(LAMBDA n, d : 2 * n + (IF d = "1" THEN 1 ELSE 0), 0, digits)}

RECURSIVE LowerText(_, _)

(* A constant where one is required: a bound, or a part-select's width.    *)
(* lower_constant_expr, which reads operators in another way (BinaryChain),*)
(* agrees with LowerText on the literals that are bounds here.             *)
ConstantOf(t, bindings) ==
    {ConstantIndex(n) : n \in UNION {TryConstFold(e) : e \in LowerText(t, bindings)}}

(* The positions s[first:second], s[base +: width] or s[base -: width]     *)
(* selects from the range its signal declares.                             *)
SelectedRange(range, t, bindings) ==
    IF t.form = "Part"
    THEN UNION {Positions(range, first, second, TRUE) :
                   first \in ConstantOf(t.first, bindings), second \in ConstantOf(t.second, bindings)}
    ELSE UNION {Positions(range, r[1], r[2], FALSE) :
                   r \in UNION {IndexedRange(base, t.symbol, width) :
                       base \in Index \cap UNION {TryConstFold(e) : e \in LowerText(t.base, bindings)},
                       width \in ConstantOf(t.width, bindings)}}

LowerText(t, bindings) ==
    CASE t.form = "Name" -> IF IsArray(t.id) THEN {} ELSE LowerName(t.id, bindings)
      [] t.form = "Number"  -> {Literal(t.value, t.width)}
      [] t.form = "Integer" -> {Literal(t.value, IndexBits)}
      [] t.form = "Digits"  -> {Literal(n, t.width) : n \in FromDigits(t.digits)}
      [] t.form = "Unary" -> UNION {LowerUnary(t.symbol, x) : x \in LowerText(t.arg, bindings)}
      [] t.form = "Binary" ->
            UNION {ApplyBinaryOp(t.symbol, x, y) :
                      x \in LowerText(t.left, bindings), y \in LowerText(t.right, bindings)}
      [] t.form = "Cond" ->
            {[op |-> "Ternary", cond |-> c, then_val |-> x, else_val |-> y] :
                c \in LowerText(t.cond, bindings),
                x \in LowerText(t.yes, bindings), y \in LowerText(t.no, bindings)}
      [] t.form = "Concat" ->
            UNION {LowerConcat(parts) :
                      parts \in Collected([i \in DOMAIN t.parts |-> LowerText(t.parts[i], bindings)])}
      [] t.form = "Repeat" ->
            UNION {LowerRepeat(count, x) :
                      count \in LowerText(t.count, bindings), x \in LowerText(t.arg, bindings)}
      [] t.form = "Call" -> UNION {LowerCall(t.name, x) : x \in LowerText(t.arg, bindings)}
      [] t.form = "Index" ->
            UNION {IF IsArray(t.id) THEN LowerElement(t.id, x)
                   ELSE UNION {LowerBit(base, x) : base \in LowerName(t.id, bindings)} :
                      x \in LowerText(t.index, bindings)}
      [] t.form \in {"Part", "Indexed"} ->
            IF IsArray(t.id) THEN {}
            ELSE UNION {{Field(base, p) : p \in SelectedRange(PackedRange(base), t, bindings)} :
                           base \in LowerName(t.id, bindings)}
=============================================================================
