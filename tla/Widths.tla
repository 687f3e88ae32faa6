------------------------------- MODULE Widths -------------------------------
(***************************************************************************)
(* The width pass: the type an expression has on its own, and the          *)
(* rewriting that makes the kernel's evaluation over whole words give the  *)
(* value Verilog defines at the width of the context.                      *)
(*                                                                         *)
(* A Result is a set: of the one value of Ok, or empty for Err.            *)
(***************************************************************************)
EXTENDS EvalExpr, Signals

LOCAL INSTANCE SequencesExt    \* FoldLeft, Max

Type(width, signed) == [width |-> width, signed |-> signed]

(* A sequence of results as a result: Err when one of them is.             *)
Collected(results) ==
    IF \E i \in DOMAIN results : results[i] = {} THEN {}
    ELSE {[i \in DOMAIN results |-> CHOOSE x \in results[i] : TRUE]}

ReduceOps  == {"ReduceAnd", "ReduceOr", "ReduceXor"}
CarryOps   == {"Add", "Sub", "Mul"}
BitOps     == {"And", "Or", "Xor"}
ShiftOps   == {"Shl", "Shr", "AShr"}
CompareOps == {"Eq", "Ne", "Lt", "Le", "Gt", "Ge", "SignedLt"}
LogicalOps == {"LogicalAnd", "LogicalOr"}

(* IEEE 1800 11.8.1: every operand evaluated in the context must be signed.*)
RECURSIVE IsSigned(_)
IsSigned(e) ==
    CASE e.op = "Signed"     -> TRUE
      [] e.op = "BitwiseNot" -> IsSigned(e.inner)
      [] e.op \in CarryOps \cup BitOps -> IsSigned(e.lhs) /\ IsSigned(e.rhs)
      [] e.op \in ShiftOps   -> IsSigned(e.lhs)
      [] e.op = "Ternary"    -> IsSigned(e.then_val) /\ IsSigned(e.else_val)
      [] OTHER               -> FALSE

RECURSIVE SelfType(_)

(* The type of operands evaluated together: Err when only some are signed. *)
JointType(operands) ==
    LET results == {SelfType(e) : e \in operands}
        types   == UNION results
        agree   == {} \notin results /\ \A t, u \in types : t.signed = u.signed
    IN  IF agree THEN {Type(Max({t.width : t \in types}), \A t \in types : t.signed)} ELSE {}

WrongShiftType(e) == JointType({e.lhs, e.rhs})
ShiftType(e) == SelfType(e.lhs)

SelfType(e) ==
    CASE e.op \in {"Literal", "Signed"} -> {Type(e.width, e.op = "Signed")}
      [] e.op = "Ref"        -> {Type(Width[e.id], FALSE)}
      [] e.op = "ArrayRead"  -> {Type(Width[e.array], FALSE)}
      [] e.op = "Select"     -> {Type(e.msb - e.lsb + 1, FALSE)}
      [] e.op = "Concat"     ->
            {Type(FoldLeft(LAMBDA sum, part : sum + part.width, 0, e.parts), FALSE)}
      [] e.op \in {"DynamicBitSelect", "Not"} \cup ReduceOps \cup LogicalOps -> {Type(1, FALSE)}
      [] e.op \in CompareOps -> {Type(1, FALSE) : t \in JointType({e.lhs, e.rhs})}
      [] e.op = "BitwiseNot" -> SelfType(e.inner)
      [] e.op \in CarryOps \cup BitOps -> JointType({e.lhs, e.rhs})
      [] e.op \in ShiftOps   -> ShiftType(e)
      [] e.op = "Ternary"    -> JointType({e.then_val, e.else_val})

ExprWidth(e) == {t.width : t \in SelfType(e)}

-----------------------------------------------------------------------------

Part(e, width) == [op |-> "Select", base |-> e, msb |-> width - 1, lsb |-> 0]
Extended(e, width) == [op |-> "Signed", inner |-> e, width |-> width]

Truncate(e, width) == IF width >= WordWidth THEN e ELSE Part(e, width)

(* An expression that may carry past the context, in canonical form.       *)
Canonical(e, ctx) ==
    IF ctx.width >= WordWidth THEN e
    ELSE IF ctx.signed THEN Extended(e, ctx.width) ELSE Truncate(e, ctx.width)

(* The cut is only for a consumer that reads high bits.                    *)
WrongFinish(e, ctx, demand) == e
Finish(e, ctx, demand) == IF demand = "Canonical" THEN Canonical(e, ctx) ELSE e

(* A result the kernel leaves as a bit pattern, which a signed context     *)
(* wants extended.                                                         *)
Resigned(e, ctx, demand) ==
    IF ctx.signed /\ demand = "Canonical" THEN Extended(e, ctx.width) ELSE e

RECURSIVE Contextualize(_, _, _)

SelfDetermined(e) == UNION {Contextualize(e, t, "Canonical") : t \in SelfType(e)}

WithInner(e, results) == {[e EXCEPT !.inner = x] : x \in results}
WithBoth(e, left, right) == {[e EXCEPT !.lhs = l, !.rhs = r] : l \in left, r \in right}

(* Comparison operands are sized to each other, whatever surrounds them.   *)
Compare(e) ==
    UNION {WithBoth(e, Contextualize(e.lhs, t, "Canonical"), Contextualize(e.rhs, t, "Canonical")) :
              t \in JointType({e.lhs, e.rhs})}

(* >> fills with zeros whatever the type, so it must see no extension.     *)
ShiftedOperand(e, ctx) ==
    IF e.op = "Shr" /\ ctx.signed
    THEN {Truncate(x, ctx.width) : x \in Contextualize(e.lhs, ctx, "LowBits")}
    ELSE Contextualize(e.lhs, ctx, "Canonical")

Contextualize(e, ctx, demand) ==
    CASE e.op = "Literal"   -> {[e EXCEPT !.value = Mask(@, e.width)]}
      [] e.op = "Ref"       -> {e}
      [] e.op = "ArrayRead" -> {[e EXCEPT !.index = x] : x \in SelfDetermined(e.index)}
      [] e.op = "Select"    -> {[e EXCEPT !.base = x] : x \in SelfDetermined(e.base)}
      [] e.op = "DynamicBitSelect" ->
            {[e EXCEPT !.base = x, !.index = y] :
                x \in SelfDetermined(e.base), y \in SelfDetermined(e.index)}
      [] e.op = "Concat" ->
            {[e EXCEPT !.parts = parts] : parts \in Collected([i \in DOMAIN e.parts |->
                UNION {{[e.parts[i] EXCEPT !.expr = x] :
                            x \in Contextualize(e.parts[i].expr, t, "LowBits")} :
                       t \in SelfType(e.parts[i].expr)}])}
      [] e.op \in {"Not"} \cup ReduceOps -> WithInner(e, SelfDetermined(e.inner))
      [] e.op \in LogicalOps -> WithBoth(e, SelfDetermined(e.lhs), SelfDetermined(e.rhs))
      [] e.op \in CompareOps -> Compare(e)
      [] e.op \in CarryOps ->
            {Finish(x, ctx, demand) : x \in WithBoth(e, Contextualize(e.lhs, ctx, "LowBits"),
                                                        Contextualize(e.rhs, ctx, "LowBits"))}
      [] e.op = "Shl" ->
            {Finish(x, ctx, demand) : x \in WithBoth(e, Contextualize(e.lhs, ctx, "LowBits"),
                                                        SelfDetermined(e.rhs))}
      [] e.op \in BitOps ->
            WithBoth(e, Contextualize(e.lhs, ctx, demand), Contextualize(e.rhs, ctx, demand))
      [] e.op = "Ternary" ->
            {[e EXCEPT !.cond = c, !.then_val = x, !.else_val = y] :
                c \in SelfDetermined(e.cond), x \in Contextualize(e.then_val, ctx, demand),
                y \in Contextualize(e.else_val, ctx, demand)}
      [] e.op = "BitwiseNot" ->
            {Resigned([e EXCEPT !.inner = x, !.width = ctx.width], ctx, demand) :
                x \in Contextualize(e.inner, ctx, "LowBits")}
      [] e.op = "Shr" ->
            {Resigned(x, ctx, demand) :
                x \in WithBoth(e, ShiftedOperand(e, ctx), SelfDetermined(e.rhs))}
      [] e.op = "AShr" -> WithBoth(e, ShiftedOperand(e, ctx), SelfDetermined(e.rhs))
      [] e.op = "Signed" ->
            {IF ctx.signed THEN [e EXCEPT !.inner = x] ELSE Truncate(x, e.width) :
                x \in UNION {Contextualize(e.inner, t, "LowBits") : t \in SelfType(e.inner)}}

-----------------------------------------------------------------------------

(* The right-hand side of an assignment to target_width bits.              *)
WrongForAssignment(e, target_width) ==
    UNION {Contextualize(e, t, "LowBits") : t \in SelfType(e)}
ForAssignment(e, target_width) ==
    UNION {Contextualize(e, Type(Max({t.width, target_width}), t.signed), "LowBits") :
              t \in SelfType(e)}

(* Expressions evaluated against each other, at extra_width or more.       *)
WrongJointly(exprs, extra_width) ==
    LET Prepared(i) == UNION {Contextualize(exprs[i], t, "Canonical") : t \in SelfType(exprs[i])}
    IN  {[exprs |-> p, width |-> extra_width] : p \in Collected([i \in DOMAIN exprs |-> Prepared(i)])}
Jointly(exprs, extra_width) ==
    UNION {LET ctx == Type(Max({t.width, extra_width}), t.signed)
           IN  {[exprs |-> p, width |-> ctx.width] : p \in
                   Collected([i \in DOMAIN exprs |-> Contextualize(exprs[i], ctx, "Canonical")])} :
           t \in JointType({exprs[i] : i \in DOMAIN exprs})}
=============================================================================
