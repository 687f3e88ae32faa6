----------------------------- MODULE Statements -----------------------------
(***************************************************************************)
(* lower_statement_item bottom-up: the statements of the intermediate      *)
(* representation built for each form of procedural Verilog.  source is    *)
(* the statement read, lowered what it becomes on its own: a set that is   *)
(* empty when the frontend rejects it, as it does a body that reads the    *)
(* variable of a loop it is not yet in.                                    *)
(*                                                                         *)
(* A source statement is a record whose "kind" is "Assign" (to a list of   *)
(* targets, a concatenation when there are several), "Block", "If" (with   *)
(* its else-if clauses), "Case", "For" or "Task".                          *)
(***************************************************************************)
EXTENDS LowerExpr, IrVisit

LOCAL INSTANCE SequencesExt    \* FlattenSeq, FoldLeft, FoldRight

CONSTANTS
    EmptyTasks,            \* The tasks whose body is empty.
    MAX_LOOP_ITERATIONS,   \* Iterations after which unrolling gives up.
    Assignments,           \* The statements that source starts from.
    Others,                \* The statements put beside source.
    Conditions,            \* The texts of conditions.
    CaseHeads,             \* Selectors, with the items of two arms.
    LoopHeads,             \* Loop variables, with start, condition and step.
    MaxForms               \* Bound: how many forms are nested.

VARIABLES
    source,     \* The statement read so far.
    lowered,    \* The bodies it can become: one, or none.
    forms       \* How many forms have been added.

vars == <<source, lowered, forms>>

ASSUME LoopAssumption == MAX_LOOP_ITERATIONS \in Nat \ {0}

-----------------------------------------------------------------------------
(***************************************************************************)
(* Assignments.                                                            *)
(***************************************************************************)

(* The bits a target writes: all of a scalar, or a constant range of it.   *)
TargetRange(t, bindings) ==
    CASE t.form = "Name"  -> {None}
      [] t.form = "Index" ->
            UNION {Positions(Packed[t.id], n, n, FALSE) :
                      n \in Index \cap UNION {TryConstFold(e) : e \in LowerText(t.index, bindings)}}
      [] t.form \in {"Part", "Indexed"} -> SelectedRange(Packed[t.id], t, bindings)

WrittenWidth(t, range) == IF range = None THEN Width[t.id] ELSE range[1] - range[2] + 1

WriteOf(blocking, t, range, value) ==
    [kind |-> IF blocking THEN "BlockingAssign" ELSE "NonBlockingAssign",
     target |-> t.id, range |-> range, value |-> value]

LowerElementAssign(s, t, value, bindings) ==
    {<<[kind |-> IF s.blocking THEN "BlockingArrayAssign" ELSE "ArrayAssign",
        array |-> t.id, index |-> i, value |-> x]>> :
        i \in UNION {SelfDetermined(FromLow(Unpacked[t.id], e)) : e \in LowerText(t.index, bindings)},
        x \in ForAssignment(value, Width[t.id])}

LowerTargetAssign(s, t, value, bindings) ==
    UNION {{<<WriteOf(s.blocking, t, range, x)>> : x \in ForAssignment(value, WrittenWidth(t, range))} :
              range \in TargetRange(t, bindings)}

(* A part but the last is written while the value is still to be read.     *)
WrongReadsWritten(s, value) == FALSE
ReadsWritten(s, value) ==
    s.blocking /\ \E i \in 1..(Len(s.targets) - 1) : s.targets[i].id \in Reads(value)

(* The lowest bit of part i: what is to the right of it is below it.       *)
WrongLowBit(widths, i) == FoldLeft(+, 0, SubSeq(widths, 1, i - 1))
LowBit(widths, i) == FoldLeft(+, 0, SubSeq(widths, i + 1, Len(widths)))

(* {a, b, ...} = value: one statement for each part, with its slice.       *)
LowerConcatAssign(s, value, bindings) ==
    LET Writes(ranges) ==
            LET widths == [i \in DOMAIN ranges |-> WrittenWidth(s.targets[i], ranges[i])]
                Slice(x, i) ==
                    [op |-> "Select", base |-> x,
                     msb |-> LowBit(widths, i) + widths[i] - 1, lsb |-> LowBit(widths, i)]
            IN  {[i \in DOMAIN ranges |->
                     WriteOf(s.blocking, s.targets[i], ranges[i], Slice(x, i))] :
                     x \in ForAssignment(value, FoldLeft(+, 0, widths))}
    IN  IF \/ \E i \in DOMAIN s.targets : IsArray(s.targets[i].id)
           \/ ReadsWritten(s, value)
        THEN {}
        ELSE UNION {Writes(ranges) : ranges \in
                 Collected([i \in DOMAIN s.targets |-> TargetRange(s.targets[i], bindings)])}

(* lower_procedural_assign                                                 *)
LowerAssign(s, bindings) ==
    LET t == s.targets[1]
    IN  UNION {IF Len(s.targets) > 1 THEN LowerConcatAssign(s, value, bindings)
               ELSE IF ~IsArray(t.id) THEN LowerTargetAssign(s, t, value, bindings)
               ELSE IF t.form = "Index" THEN LowerElementAssign(s, t, value, bindings)
               ELSE {} : value \in LowerText(s.value, bindings)}

-----------------------------------------------------------------------------
(***************************************************************************)
(* Case items.                                                             *)
(***************************************************************************)

AllOnes(width) == 2^width - 1

(* lower_wildcard_binary: what must match, and the bits it must match in.  *)
(* Digits that are not written are zeros, which must match.                *)
WildcardOf(digits, width) ==
    LET Shift(d) == [f \in {"value", "care_mask"} |->
                        IF d = "?" \/ (f = "value" /\ d = "0") THEN 0 ELSE 1]
        bits == FoldLeft(LAMBDA acc, d : [f \in DOMAIN acc |-> 2 * acc[f] + Shift(d)[f]],
                         [value |-> 0, care_mask |-> 0], digits)
        unwritten == IF Len(digits) < width THEN AllOnes(width) - AllOnes(Len(digits)) ELSE 0
    IN  [bits EXCEPT !.care_mask = @ + unwritten]

IsWildcard(s, t) == s.mode # "case" /\ t.form = "Digits"

(* The widest of the items that are compared as wildcards.                 *)
WildcardWidth(s) ==
    LET widths == UNION {{t.width : t \in {u \in {s.arms[i].items[k] : k \in DOMAIN s.arms[i].items} :
                                              IsWildcard(s, u)}} : i \in DOMAIN s.arms}
    IN  CHOOSE w \in widths \cup {0} : \A x \in widths : x <= w

ExtendedCare(t, joint) ==
    WildcardOf(t.digits, t.width).care_mask | (AllOnes(joint) - AllOnes(t.width))

RECURSIVE LowerStatement(_, _)

(* The selector is item <<0, 0>>, item k of arm i is <<i, k>>.             *)
LowerCase(s, bindings) ==
    LET items == UNION {{<<i, k>> : k \in DOMAIN s.arms[i].items} : i \in DOMAIN s.arms}
        exact == {p \in items : ~IsWildcard(s, s.arms[p[1]].items[p[2]])}
        Text(p) == IF p = <<0, 0>> THEN s.selector ELSE s.arms[p[1]].items[p[2]]
        CaseValue(p, jointly) ==
            IF p \in exact THEN [kind |-> "Exact", expr |-> jointly.exprs[p]]
            ELSE [kind |-> "Wildcard", value |-> WildcardOf(Text(p).digits, Text(p).width).value,
                  care_mask |-> ExtendedCare(Text(p), jointly.width)]
        Arm(i, jointly, body) ==
            [values |-> [k \in DOMAIN s.arms[i].items |-> CaseValue(<<i, k>>, jointly)], body |-> body]
    IN  {[kind |-> "Case", selector |-> jointly.exprs[<<0, 0>>], default |-> default,
          arms |-> [i \in DOMAIN s.arms |-> Arm(i, jointly, bodies[i])]] :
            jointly \in UNION {Jointly(exprs, WildcardWidth(s)) : exprs \in
                Collected([p \in exact \cup {<<0, 0>>} |-> LowerText(Text(p), bindings)])},
            bodies \in Collected([i \in DOMAIN s.arms |-> LowerStatement(s.arms[i].body, bindings)]),
            default \in LowerStatement(s.default, bindings)}

-----------------------------------------------------------------------------
(***************************************************************************)
(* Conditions and loops.                                                   *)
(***************************************************************************)

Condition(t, bindings) == UNION {SelfDetermined(e) : e \in LowerText(t, bindings)}

(* The else-if clauses, folded from the last onto the final else.          *)
WrongChain(clauses, otherwise) ==
    FoldLeft(LAMBDA rest, c : <<[kind |-> "If", cond |-> c.cond, then_branch |-> c.body,
                                 else_branch |-> rest]>>, otherwise, clauses)
Chain(clauses, otherwise) ==
    FoldRight(LAMBDA c, rest : <<[kind |-> "If", cond |-> c.cond, then_branch |-> c.body,
                                  else_branch |-> rest]>>, clauses, otherwise)

LowerIf(s, bindings) ==
    {Chain([i \in DOMAIN s.clauses |-> [cond |-> conds[i], body |-> bodies[i]]], otherwise) :
        conds \in Collected([i \in DOMAIN s.clauses |-> Condition(s.clauses[i].cond, bindings)]),
        bodies \in Collected([i \in DOMAIN s.clauses |-> LowerStatement(s.clauses[i].body, bindings)]),
        otherwise \in LowerStatement(s.otherwise, bindings)}

(* constant_underflow, of an expression or of any in it.                   *)
WrongUnderflows(e) == FALSE
Underflows(e) ==
    \E sub \in {n \in Nodes(e) : n.op = "Sub"} :
        \E x \in TryConstFold(sub.lhs), y \in TryConstFold(sub.rhs) : x < y

BodyUnderflows(body) == \E s \in StmtsOf(body) : \E e \in StmtExprs(s) : Underflows(e)

(* loop_variable: the loop may assign var.                                 *)
LoopVariable(var, bindings) == var \in IntegerVars \ DOMAIN bindings

(* loop_control: a start, condition or step that is a constant below the   *)
(* sign bit of an integer.                                                 *)
LoopControl(t, bindings) ==
    UNION {TryConstFold(e) : e \in {x \in LowerText(t, bindings) : ~Underflows(x)}}
        \cap 0..(2^(IndexBits - 1) - 1)

(* The iterations that follow done others, when the variable has value.    *)
WrongUnrolledFull(done) == done >= MAX_LOOP_ITERATIONS - 1
UnrolledFull(done) == done >= MAX_LOOP_ITERATIONS

RECURSIVE Unrolled(_, _, _, _)
Unrolled(s, bindings, value, done) ==
    LET inner == (s.var :> [value |-> value, width |-> IndexBits]) @@ bindings
        Rest  == UNION {Unrolled(s, bindings, next, done + 1) : next \in LoopControl(s.step, inner)}
        Iteration ==
            {body \o rest : body \in {b \in LowerStatement(s.body, inner) : ~BodyUnderflows(b)},
                            rest \in Rest}
    IN  UNION {IF c = 0 THEN {<<>>} ELSE IF UnrolledFull(done) THEN {} ELSE Iteration :
                  c \in LoopControl(s.cond, inner)}

LowerFor(s, bindings) ==
    IF ~LoopVariable(s.var, bindings) THEN {}
    ELSE UNION {Unrolled(s, bindings, start, 0) : start \in LoopControl(s.start, bindings)}

LowerStatement(s, bindings) ==
    CASE s.kind = "Assign" -> LowerAssign(s, bindings)
      [] s.kind = "Block"  ->
            {FlattenSeq(bodies) : bodies \in
                Collected([i \in DOMAIN s.body |-> LowerStatement(s.body[i], bindings)])}
      [] s.kind = "If"     -> LowerIf(s, bindings)
      [] s.kind = "Case"   -> {<<c>> : c \in LowerCase(s, bindings)}
      [] s.kind = "For"    -> LowerFor(s, bindings)
      [] s.kind = "Task"   -> IF s.name \in EmptyTasks THEN {<<>>} ELSE {}

-----------------------------------------------------------------------------
(***************************************************************************)
(* Reading a statement.                                                    *)
(***************************************************************************)

Nothing     == [kind |-> "Block", body |-> <<>>]
Block(body) == [kind |-> "Block", body |-> body]
If(clauses, otherwise) == [kind |-> "If", clauses |-> clauses, otherwise |-> otherwise]
Clause(cond, body)     == [cond |-> cond, body |-> body]

(* A loop around a statement can bind the variables it reads.              *)
Bound == [var \in IntegerVars |-> [value |-> 1, width |-> IndexBits]]
Acceptable(s) == \E B \in SUBSET IntegerVars :
    LowerStatement(s, [var \in B |-> Bound[var]]) # {}

Init ==
    /\ source \in Assignments
    /\ lowered = LowerStatement(source, NoBindings)
    /\ forms = 0

Wrapped(form) ==
    /\ forms < MaxForms
    /\ Acceptable(source)
    /\ source' = form
    /\ lowered' = LowerStatement(form, NoBindings)
    /\ forms' = forms + 1

AddSequence == UNION {{Block(<<o, source>>), Block(<<source, o>>)} : o \in Others}

AddIf ==
    {If(<<Clause(c, source)>>, Nothing) : c \in Conditions}
        \cup {If(<<Clause(c, o)>>, source) : c \in Conditions, o \in Others}

AddElseIf ==
    {If(<<Clause(cs[1], o), Clause(cs[2], source)>>, o) :
        cs \in {p \in Conditions \X Conditions : p[1] # p[2]}, o \in Others}

AddCase ==
    LET Case(head, first, second, default) ==
            [kind |-> "Case", mode |-> head.mode, selector |-> head.selector, default |-> default,
             arms |-> <<[items |-> head.first, body |-> first],
                        [items |-> head.second, body |-> second]>>]
    IN  UNION {{Case(head, source, o, Nothing), Case(head, o, source, Nothing),
                Case(head, Nothing, o, source)} : head \in CaseHeads, o \in Others}

AddLoop ==
    {[kind |-> "For", var |-> head.var, start |-> head.start, cond |-> head.cond,
      step |-> head.step, body |-> source] : head \in LoopHeads}

Next == \E form \in AddSequence \cup AddIf \cup AddElseIf \cup AddCase \cup AddLoop : Wrapped(form)

Spec == Init /\ [][Next]_vars
=============================================================================
