----------------------------- MODULE Precedence -----------------------------
(***************************************************************************)
(* Verilog's binary operators by how tightly they bind, and how a chain    *)
(* of them groups.  Operand i of a chain stands left of operator i.  What  *)
(* has been combined is known by its span, the operands first..last, and   *)
(* a grouping says which operator was applied last to make a span.         *)
(***************************************************************************)
EXTENDS Integers, Sequences

(* From the loosest to the tightest.                                       *)
Levels == <<{"||"}, {"&&"}, {"|"}, {"^", "^~", "~^"}, {"&"}, {"==", "!=", "===", "!=="},
            {"<", "<=", ">", ">="}, {"<<", ">>", "<<<", ">>>"}, {"+", "-"},
            {"*", "/", "%"}, {"**"}>>

LevelsOf(symbol) == {i \in 1..11 : symbol \in Levels[i]}

(* The rest is rejected wherever it lands.                                 *)
PrecedenceOf(symbol) ==
    IF LevelsOf(symbol) = {} THEN 0 ELSE CHOOSE i \in LevelsOf(symbol) : TRUE

Supported ==
    {"*", "+", "-", "<<", "<<<", ">>", ">>>", "<", "<=", ">", ">=", "==", "!=",
     "&", "^", "|", "&&", "||"}

Grouping(first, op, last) == [first |-> first, op |-> op, last |-> last]

(* The operator Verilog applies last in a span: none there binds looser,   *)
(* and those as loose stand to its left (all are left-associative).        *)
GroupsAsVerilog(rank, g) ==
    /\ g.first <= g.op /\ g.op < g.last
    /\ \A j \in g.first..(g.op - 1)    : rank[j] >= rank[g.op]
    /\ \A j \in (g.op + 1)..(g.last - 1) : rank[j] > rank[g.op]
=============================================================================
