-------------------------- MODULE VerilogStatements --------------------------
(***************************************************************************)
(* What a procedural statement of Verilog does, executed as it is written: *)
(* loops loop, an integer is a variable, a concatenation is assigned at    *)
(* once, and each non-blocking write waits its turn.  The properties of    *)
(* Statements compare the body it is lowered to.                           *)
(***************************************************************************)
EXTENDS Statements, VerilogText, BodyMeaning

LOCAL INSTANCE SequencesExt    \* FoldLeft

(* values and arrays, with the integers among the values, the writes that  *)
(* wait, whether the frontend is known to read something otherwise, and    *)
(* whether a loop went on after the last iteration allowed.                *)
Start(v, a) ==
    [values |-> [i \in IntegerVars |-> 0] @@ v, arrays |-> a, waiting |-> <<>>,
     odd |-> FALSE, endless |-> FALSE]

-----------------------------------------------------------------------------
(***************************************************************************)
(* Evaluation.                                                             *)
(***************************************************************************)

IsConstant(t) ==
    \A p \in Parts(t) : /\ p.form \notin {"Index", "Part", "Indexed"}
                        /\ p.form = "Name" => p.id \in IntegerVars

(* Constants are unsigned numbers to the frontend, which says so of loops  *)
(* and looks there for the subtractions that would show it.                *)
ReadsAlike(t, st, looping) ==
    \A p \in Parts(t) :
        (OwnSigned(p) /\ IsConstant(p) /\ OwnInteger(p, st.values, st.arrays) < 0)
            => looping /\ p.form \in {"Unary", "Binary"} /\ p.symbol = "-"

Noting(st, texts, looping) ==
    [st EXCEPT !.odd = @ \/ \E t \in texts : ~ReadsAlike(t, st, looping)]

Holds(t, st) == OwnBits(t, st.values, st.arrays) # 0

-----------------------------------------------------------------------------
(***************************************************************************)
(* Assignment.                                                             *)
(***************************************************************************)

(* Where target t is now: an element, or bits of a scalar.                 *)
Place(t, st) ==
    IF IsArray(t.id)
    THEN [id |-> t.id, element |-> OwnInteger(t.index, st.values, st.arrays) - Low(Unpacked[t.id])]
    ELSE [id |-> t.id, places |-> IF t.form = "Name" THEN 0..(Width[t.id] - 1)
                                  ELSE Selected(t, st.values, st.arrays)]

(* The bits of x at these places, which are next to each other, replaced.  *)
WithBitsAt(x, places, value) ==
    IF places = {} THEN x
    ELSE x + ((value % 2^Cardinality(places)) - BitsAt(x, places)) * 2^Min(places)

Write(st, w) ==
    IF IsArray(w.place.id)
    THEN [st EXCEPT !.arrays[w.place.id] =
             [i \in DOMAIN @ |-> IF i = w.place.element THEN w.value ELSE @[i]]]
    ELSE [st EXCEPT !.values[w.place.id] = WithBitsAt(@, w.place.places, w.value)]

RECURSIVE WriteAll(_, _)
WriteAll(st, writes) ==
    IF writes = <<>> THEN st ELSE WriteAll(Write(st, Head(writes)), Tail(writes))

RECURSIVE TotalOf(_)
TotalOf(widths) == IF widths = <<>> THEN 0 ELSE Head(widths) + TotalOf(Tail(widths))

(* The value is evaluated once, at the width of all the targets or wider,  *)
(* and the targets take its bits from the right.                           *)
AssignTo(s, st) ==
    LET widths == [i \in DOMAIN s.targets |-> OwnWidth(s.targets[i])]
        Below(i) == TotalOf(SubSeq(widths, i + 1, Len(widths)))
        value  == Bits(s.value, Max({TotalOf(widths), OwnWidth(s.value)}), OwnSigned(s.value),
                       st.values, st.arrays)
        writes == [i \in DOMAIN s.targets |->
                      [place |-> Place(s.targets[i], st),
                       value |-> (value \div 2^Below(i)) % 2^widths[i]]]
    IN  IF s.blocking THEN WriteAll(st, writes)
        ELSE [st EXCEPT !.waiting = @ \o writes]

-----------------------------------------------------------------------------
(***************************************************************************)
(* Control.                                                                *)
(***************************************************************************)

(* An item of a case, at the width of the selector and of all the items.   *)
Digit(t, i) == IF i < Len(t.digits) THEN t.digits[Len(t.digits) - i] ELSE "0"
ItemChosen(s, t, width, st) ==
    LET signed == \A u \in {s.selector} \cup UNION {Range(s.arms[i].items) : i \in DOMAIN s.arms} :
                      OwnSigned(u)
        Value(u) == Bits(u, width, signed, st.values, st.arrays)
    IN  IF s.mode # "case" /\ t.form = "Digits"
        THEN \A i \in 0..(width - 1) : Digit(t, i) # "?" => Digit(t, i) = ToString(Bit(Value(s.selector), i))
        ELSE Value(t) = Value(s.selector)

ChosenArms(s, st) ==
    LET items == UNION {Range(s.arms[i].items) : i \in DOMAIN s.arms}
        width == Max({OwnWidth(t) : t \in items \cup {s.selector}})
    IN  {i \in DOMAIN s.arms : \E t \in Range(s.arms[i].items) : ItemChosen(s, t, width, st)}

SetInteger(st, var, t) ==
    [st EXCEPT !.values[var] = Bits(t, IndexBits, OwnSigned(t), st.values, st.arrays)]

RECURSIVE Executed(_, _, _)

(* One turn more of a loop that is about to test its condition in st.      *)
RECURSIVE Looped(_, _, _)
Turned(s, st, done) ==
    IF ~Holds(s.cond, st) THEN st
    ELSE IF done > MAX_LOOP_ITERATIONS THEN [st EXCEPT !.endless = TRUE]
    ELSE Looped(s, SetInteger(Noting(Executed(s.body, st, TRUE), {s.step}, TRUE), s.var, s.step),
                done + 1)
Looped(s, st, done) == Turned(s, Noting(st, {s.cond}, TRUE), done)

(* The branch taken, of an if-else chain and of a case.                    *)
Branch(s, true) == IF true = {} THEN s.otherwise ELSE s.clauses[Min(true)].body
Arm(s, arms)    == IF arms = {} THEN s.default ELSE s.arms[Min(arms)].body

Executed(s, st, looping) ==
    CASE s.kind = "Assign" ->
            AssignTo(s, Noting(st, {s.value} \cup {s.targets[i] : i \in DOMAIN s.targets}, looping))
      [] s.kind = "Block" ->
            IF s.body = <<>> THEN st
            ELSE Executed(Block(Tail(s.body)), Executed(Head(s.body), st, looping), looping)
      [] s.kind = "If" ->
            Executed(Branch(s, {i \in DOMAIN s.clauses : Holds(s.clauses[i].cond, st)}),
                     Noting(st, {s.clauses[i].cond : i \in DOMAIN s.clauses}, looping), looping)
      [] s.kind = "Case" ->
            Executed(Arm(s, ChosenArms(s, st)), Noting(st, {s.selector}, looping), looping)
      [] s.kind = "For" ->
            Looped(s, SetInteger(Noting(st, {s.start}, TRUE), s.var, s.start), 0)
      [] s.kind = "Task" -> st

-----------------------------------------------------------------------------

Final(st) == WriteAll(st, st.waiting)

(* A run of a lowered body leaves what the execution did: at the end of    *)
(* the block, and once the writes that waited are made.                    *)
SameState(got, want, final) ==
    \A s \in DOMAIN Width :
        IF s \in Scalars
        THEN /\ got.values[s] = want.values[s]
             /\ Committed(got.queue, s, -1, got.values[s]) = final.values[s]
        ELSE /\ got.arrays[s] = want.arrays[s]
             /\ \A i \in DOMAIN got.arrays[s] :
                   Committed(got.queue, s, i, got.arrays[s][i]) = final.arrays[s][i]


(* The states in which a loop tests its condition, most of them at most.   *)
RECURSIVE Tests(_, _, _)
Tests(s, st, most) ==
    IF most = 0 THEN <<>>
    ELSE <<st>> \o (IF Holds(s.cond, st)
                    THEN Tests(s, SetInteger(st, s.var, s.step), most - 1) ELSE <<>>)

ReadsOnly(t, var) == IsConstant(t) /\ \A p \in Parts(t) : p.form = "Name" => p.id = var

RunsOf(s, tests) == {i \in DOMAIN tests : Holds(s.cond, tests[i])}

ControlAlike(s, st) ==
    ReadsAlike(s.cond, st, FALSE) /\ (Holds(s.cond, st) => ReadsAlike(s.step, st, FALSE))

BodyAccepted(s, st) ==
    \E body \in LowerStatement(s.body,
            s.var :> [value |-> st.values[s.var], width |-> IndexBits]) : ~BodyUnderflows(body)

(* A loop is unrolled when it runs at most MAX_LOOP_ITERATIONS times and   *)
(* its body is accepted in each of them, and only then: not one iteration  *)
(* less, and never because of a value the loop does not reach.  Its        *)
(* control must be constant, and nothing in it negative.                   *)
LoopsUnrolledExactly ==
    (source.kind = "For" /\ \A t \in {source.start, source.cond, source.step} :
                                ReadsOnly(t, source.var)) =>
        \A v \in {[s \in DOMAIN Width |-> 0]}, a \in ArrayStates :
        \A first \in {SetInteger(Start(v, a), source.var, source.start)} :
        \A tests \in {Tests(source, first, MAX_LOOP_ITERATIONS + 2)} :
            (/\ source.var \in IntegerVars
             /\ ReadsAlike(source.start, first, FALSE)
             /\ \A i \in DOMAIN tests : ControlAlike(source, tests[i])) =>
                (lowered # {} <=>
                    /\ Cardinality(RunsOf(source, tests)) <= MAX_LOOP_ITERATIONS
                    /\ \A i \in RunsOf(source, tests) : BodyAccepted(source, tests[i]))
=============================================================================
