------------------------------- MODULE IrVisit -------------------------------
(***************************************************************************)
(* The traversals of the intermediate representation: what an expression   *)
(* or a statement reads (Expr::visit, Expr::reads, Stmt::visit_exprs) and  *)
(* the statements nested in a body (the recursion of collect_targets).     *)
(***************************************************************************)
EXTENDS EvalExpr

Operands(e) ==
    CASE e.op \in {"Literal", "Ref"} -> {}
      [] e.op \in UnaryOps  -> {e.inner}
      [] e.op \in BinaryOps -> {e.lhs, e.rhs}
      [] e.op = "Select"    -> {e.base}
      [] e.op = "DynamicBitSelect" -> {e.base, e.index}
      [] e.op = "ArrayRead" -> {e.index}
      [] e.op = "Concat"    -> {e.parts[i].expr : i \in DOMAIN e.parts}
      [] e.op = "Ternary"   -> {e.cond, e.then_val, e.else_val}

(* An expression and all those it is made of.                              *)
RECURSIVE Nodes(_)
Nodes(e) == {e} \cup UNION {Nodes(x) : x \in Operands(e)}

(* The signals an expression reads, an array being indexed included.       *)
Reads(e) ==
    UNION {CASE x.op = "Ref" -> {x.id} [] x.op = "ArrayRead" -> {x.array} [] OTHER -> {} :
              x \in Nodes(e)}

(* The bodies nested directly in a statement.                              *)
SubBodies(s) ==
    CASE s.kind = "If"   -> {s.then_branch, s.else_branch}
      [] s.kind = "Case" -> {s.arms[i].body : i \in DOMAIN s.arms} \cup {s.default}
      [] OTHER           -> {}

RECURSIVE StmtsOf(_)
StmtsOf(body) ==
    UNION {{body[i]} \cup UNION {StmtsOf(b) : b \in SubBodies(body[i])} : i \in DOMAIN body}

(* The expressions one statement evaluates itself, not its sub-bodies.     *)
StmtExprs(s) ==
    CASE s.kind \in {"NonBlockingAssign", "BlockingAssign"} -> {s.value}
      [] s.kind \in {"ArrayAssign", "BlockingArrayAssign"}  -> {s.index, s.value}
      [] s.kind = "If"   -> {s.cond}
      [] s.kind = "Case" ->
            {s.selector} \cup UNION {{v.expr : v \in {w \in {s.arms[i].values[k] :
                                                             k \in DOMAIN s.arms[i].values} :
                                                          w.kind = "Exact"}} :
                                         i \in DOMAIN s.arms}

BodyReads(body) == UNION {UNION {Reads(e) : e \in StmtExprs(s)} : s \in StmtsOf(body)}
=============================================================================
