------------------------------- MODULE Designs -------------------------------
(***************************************************************************)
(* Constructors for the modules the instances simulate: the expressions    *)
(* and statements of the intermediate representation, spelled as in its    *)
(* source, and the constants of Ir computed from a set of modules.         *)
(***************************************************************************)
EXTENDS IrVisit

Lit(n)         == [op |-> "Literal", value |-> n]
Ref(s)         == [op |-> "Ref", id |-> s]
At(m, i)       == [op |-> "ArrayRead", array |-> m, index |-> i]
Un(o, x, w)    == [op |-> o, inner |-> x, width |-> w]
Bin(o, x, y)   == [op |-> o, lhs |-> x, rhs |-> y]
Sel(x, hi, lo) == [op |-> "Select", base |-> x, msb |-> hi, lsb |-> lo]
Cond(c, x, y)  == [op |-> "Ternary", cond |-> c, then_val |-> x, else_val |-> y]

Whole == <<>>

NBA(t, r, e) == [kind |-> "NonBlockingAssign", target |-> t, range |-> r, value |-> e]
BA(t, r, e)  == [kind |-> "BlockingAssign", target |-> t, range |-> r, value |-> e]
NBArray(m, i, e) == [kind |-> "ArrayAssign", array |-> m, index |-> i, value |-> e]
BArray(m, i, e)  == [kind |-> "BlockingArrayAssign", array |-> m, index |-> i, value |-> e]
IfElse(c, t, e)  == [kind |-> "If", cond |-> c, then_branch |-> t, else_branch |-> e]
CaseOf(x, arms, d) == [kind |-> "Case", selector |-> x, arms |-> arms, default |-> d]
Arm(items, body) == [values |-> items, body |-> body]
Exactly(e)       == [kind |-> "Exact", expr |-> e]
Wild(n, care)    == [kind |-> "Wildcard", value |-> n, care_mask |-> care]

Assigned(t, e) == [target |-> t, value |-> e]
(* Signal 1 is the clock.                                                  *)
Design(assigns, comb, clocked) ==
    [assigns |-> assigns,
     comb_processes |-> [i \in DOMAIN comb |-> [body |-> comb[i]]],
     clocked_processes |-> [i \in DOMAIN clocked |-> [clock |-> 1, body |-> clocked[i]]]]

(* The sequences that list each element of S once.                         *)
Orders(S) == {o \in [1..Cardinality(S) -> S] : \A x \in S : \E k \in DOMAIN o : o[k] = x}

(* All the statements of a set of modules, and the expressions evaluated.  *)
AllStmts(modules) ==
    UNION {UNION {StmtsOf(m.comb_processes[i].body) : i \in DOMAIN m.comb_processes}
               \cup UNION {StmtsOf(m.clocked_processes[i].body) :
                               i \in DOMAIN m.clocked_processes} : m \in modules}

AllExprs(modules) ==
    UNION {StmtExprs(s) : s \in AllStmts(modules)}
        \cup UNION {{m.assigns[i].value : i \in DOMAIN m.assigns} : m \in modules}
=============================================================================
