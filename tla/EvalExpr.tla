------------------------------ MODULE EvalExpr ------------------------------
(***************************************************************************)
(* eval_expr: the value of an expression of the intermediate               *)
(* representation over machine words, in the state given by the scalar     *)
(* values v and the array contents a.  An expression is a record whose     *)
(* "op" is the name of the Rust variant.                                   *)
(***************************************************************************)
EXTENDS Words, Sequences, Bitwise, FiniteSets

LOCAL INSTANCE SequencesExt    \* FoldLeft

Ones == 2^WordWidth - 1

BoolVal(b) == IF b THEN 1 ELSE 0

(* A word read as a two's-complement integer (as i64), and back (as u64).  *)
AsSigned(x) == IF Bit(x, WordWidth - 1) = 1 THEN x - 2^WordWidth ELSE x
AsWord(x)   == x % 2^WordWidth

SmallerOf(x, y) == IF x < y THEN x ELSE y

(* A plain << or >> takes its amount modulo the word (in a release build;  *)
(* a debug build panics instead when the amount is a word or more).        *)
PlainShift(n) == n % WordWidth

(* Signed(inner, width): the sign bit of a width-bit value, replicated.    *)
SignExtend(x, width) ==
    IF width = 0 \/ width >= WordWidth THEN x
    ELSE LET low == Mask(x, width)
         IN  IF Bit(low, width - 1) = 1 THEN low + (Ones - (2^width - 1)) ELSE low

Unary(op, x, width) ==
    CASE op = "Not"        -> BoolVal(x = 0)
      [] op = "BitwiseNot" -> Mask(Ones - x, width)
      [] op = "ReduceAnd"  -> BoolVal(Mask(x, width) = Mask(Ones, width))
      [] op = "ReduceOr"   -> BoolVal(Mask(x, width) # 0)
      [] op = "ReduceXor"  ->
            Cardinality({i \in 0..(WordWidth - 1) : Bit(Mask(x, width), i) = 1}) % 2
      [] op = "Signed"     -> SignExtend(x, width)

Binary(op, x, y) ==
    CASE op = "Add" -> AsWord(x + y)
      [] op = "Sub" -> AsWord(x - y)
      [] op = "Mul" -> AsWord(x * y)
      [] op = "Shl" -> IF y < WordWidth THEN AsWord(x * 2^y) ELSE 0
      [] op = "Shr" -> IF y < WordWidth THEN x \div 2^y ELSE 0
      [] op = "AShr" -> AsWord(AsSigned(x) \div 2^SmallerOf(y, WordWidth - 1))
      [] op = "And" -> x & y
      [] op = "Or"  -> x | y
      [] op = "Xor" -> x ^^ y
      [] op = "Eq"  -> BoolVal(x = y)
      [] op = "Ne"  -> BoolVal(x # y)
      [] op = "Lt"  -> BoolVal(x < y)
      [] op = "Le"  -> BoolVal(x <= y)
      [] op = "Gt"  -> BoolVal(x > y)
      [] op = "Ge"  -> BoolVal(x >= y)
      [] op = "SignedLt"   -> BoolVal(AsSigned(x) < AsSigned(y))
      [] op = "LogicalAnd" -> BoolVal(x # 0 /\ y # 0)
      [] op = "LogicalOr"  -> BoolVal(x # 0 \/ y # 0)

UnaryOps  == {"Not", "BitwiseNot", "ReduceAnd", "ReduceOr", "ReduceXor", "Signed"}
BinaryOps == {"Add", "Sub", "Mul", "Shl", "Shr", "AShr", "And", "Or", "Xor", "Eq", "Ne",
              "Lt", "Le", "Gt", "Ge", "SignedLt", "LogicalAnd", "LogicalOr"}

RECURSIVE EvalExpr(_, _, _)
EvalExpr(e, v, a) ==
    CASE e.op = "Literal"   -> e.value
      [] e.op = "Ref"       -> v[e.id]
      [] e.op = "ArrayRead" ->
            LET i == EvalExpr(e.index, v, a)
            IN  IF i \in DOMAIN a[e.array] THEN a[e.array][i] ELSE 0
      [] e.op \in UnaryOps  -> Unary(e.op, EvalExpr(e.inner, v, a), e.width)
      [] e.op \in BinaryOps ->
            Binary(e.op, EvalExpr(e.lhs, v, a), EvalExpr(e.rhs, v, a))
      [] e.op = "Select"    ->
            Mask(EvalExpr(e.base, v, a) \div 2^PlainShift(e.lsb), e.msb - e.lsb + 1)
      [] e.op = "Concat"    ->
            LET Shift(result, part) ==
                  AsWord(result * 2^PlainShift(part.width)) | Mask(EvalExpr(part.expr, v, a), part.width)
            IN  FoldLeft(Shift, 0, e.parts)
      [] e.op = "DynamicBitSelect" ->
            LET i == EvalExpr(e.index, v, a)
            IN  IF i >= WordWidth THEN 0 ELSE Bit(EvalExpr(e.base, v, a), i)
      [] e.op = "Ternary"   ->
            IF EvalExpr(e.cond, v, a) # 0
            THEN EvalExpr(e.then_val, v, a) ELSE EvalExpr(e.else_val, v, a)
=============================================================================
