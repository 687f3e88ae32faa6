------------------------------ MODULE Elaborate ------------------------------
(***************************************************************************)
(* Elaboration: lower_file_with_parameters and lower_module, which resolve *)
(* a module's parameters, select its generate branches, lower its items    *)
(* and flatten the modules it instantiates into it.  The recursion of      *)
(* lower_module is a stack of frames, the module being lowered on top.     *)
(*                                                                         *)
(* A module is declared as its items in source order; a generate-if is an  *)
(* item followed by those of its branches, which it names by the first and *)
(* the last.  An expression is an operator over names, "Name" for a name   *)
(* that stands alone; lowered, over signals and parameters' values.  A     *)
(* body is the assignments in it.  Results are sets, empty for Err.        *)
(***************************************************************************)
EXTENDS Words, DeclaredRange, SequencesExt

CONSTANTS
    Designs,          \* The files given, with the parameters overridden.
    Constant(_, _)    \* Constant(text, parameters): the value of a constant.

VARIABLES
    design,     \* The file being lowered, and the overrides given.
    stack,      \* The modules being lowered, outermost first.
    outcome     \* "Lowering", then "Ok" or "Err".

vars == <<design, stack, outcome>>

Nothing == <<>>

EmptyModule ==
    [signals |-> <<>>, clocked_processes |-> <<>>, comb_processes |-> <<>>, assigns |-> <<>>]

NewFrame(name, overrides) ==
    [name |-> name, overrides |-> overrides, phase |-> "Parameters", at |-> 1,
     parameters |-> <<>>, excluded |-> {}, generate_ifs |-> {}, module |-> EmptyModule,
     pending |-> <<>>, remap |-> <<>>, port_assigns |-> <<>>]

(* What the names of a list are bound to; a value that may be left out is  *)
(* a set, and then binds nothing.                                          *)
Bound(list)   == {i \in DOMAIN list : list[i].value # {}}
Unique(list)  == \A i, j \in Bound(list) : list[i].name = list[j].name => i = j
Binding(list) == [n \in {list[i].name : i \in Bound(list)} |->
                     CHOOSE v \in UNION {list[i].value : i \in Bound(list)} :
                         \E i \in Bound(list) : list[i].name = n /\ v \in list[i].value]

-----------------------------------------------------------------------------
(***************************************************************************)
(* Walks over a module's items, past those a generate-if left out.         *)
(***************************************************************************)

Library == {design.file[k].name : k \in DOMAIN design.file}
ItemsOf(name) == (design.file[CHOOSE k \in DOMAIN design.file : design.file[k].name = name]).items
Items(f) == ItemsOf(f.name)

Within(spans, p) == \E s \in spans : p \in s[1]..s[2]
Excludes(f, p) == Within(f.excluded, p)

(* The walks, in order, with the kinds of items each is about and the      *)
(* phase that follows it.                                                  *)
Walks == {"Parameters", "Generates", "Declarations", "Processes", "Assigns", "Instances"}
Visited ==
    [walk \in Walks |->
        CASE walk = "Parameters" -> {"Parameter"}
          [] walk = "Generates" -> {"GenerateIf", "GenerateFor"}
          [] walk = "Declarations" -> {"Port", "Signal"}
          [] walk = "Processes" -> {"Always"}
          [] walk = "Assigns" -> {"Assign", "Signal"}
          [] walk = "Instances" -> {"Instance"}]
NextPhase ==
    [walk \in Walks |->
        CASE walk = "Parameters" -> "Generates"
          [] walk = "Generates" -> "Declarations"
          [] walk = "Declarations" -> "Processes"
          [] walk = "Processes" -> "Assigns"
          [] walk = "Assigns" -> "Instances"
          [] walk = "Instances" -> "Flatten"]

Ahead(f) ==
    {p \in f.at..Len(Items(f)) : Items(f)[p].item \in Visited[f.phase] /\ ~Excludes(f, p)}

Frame == stack[Len(stack)]
In(phase) == outcome = "Lowering" /\ stack # <<>> /\ Frame.phase = phase

(* The item the walk of this phase is at.                                  *)
Visits(phase) ==
    IF In(phase) THEN {p \in Ahead(Frame) : \A q \in Ahead(Frame) : p <= q} ELSE {}

WrongReject == UNCHANGED vars
Reject == outcome' = "Err" /\ UNCHANGED <<design, stack>>

(* The module on top becomes f; the one of results, or is rejected.        *)
Become(f) == stack' = [stack EXCEPT ![Len(stack)] = f] /\ UNCHANGED <<design, outcome>>
Continue(results) ==
    \/ results = {} /\ Reject
    \/ \E f \in results : Become(f)

-----------------------------------------------------------------------------
(***************************************************************************)
(* Parameters and generates.                                               *)
(***************************************************************************)

(* [left:right], of constants.                                             *)
RangeIn(range, parameters) ==
    {[left |-> ConstantIndex(l), right |-> ConstantIndex(r)] :
        l \in Constant(range[1], parameters), r \in Constant(range[2], parameters)}

ParameterWidth(d, f) ==
    IF d.range = Nothing THEN {IndexBits}
    ELSE {RangeWidth(r) : r \in {x \in RangeIn(d.range, f.parameters) : IsPlain(x)}}

DefaultValue(d, f) == UNION {Constant(t, f.parameters) : t \in d.default}

ParameterValue(d, width, f) ==
    CASE d.name \notin DOMAIN f.overrides -> DefaultValue(d, f)
      [] d.name \in DOMAIN f.overrides /\ ~d.local ->
            {v \in {f.overrides[d.name]} : Mask(v, width) = v}
      [] OTHER -> {}

WithParameter(p) ==
    LET d == Items(Frame)[p]
    IN  {[Frame EXCEPT !.at = p + 1, !.parameters = d.name :> b @@ @] :
            b \in UNION {[value : ParameterValue(d, w, Frame), width : {w}] :
                             w \in ParameterWidth(d, Frame)}}

ResolveParameter == \E p \in Visits("Parameters") : Continue(WithParameter(p))

(* A branch that is not selected is left out of every walk that follows,   *)
(* and so are the constructs in it of this one.                            *)
WithoutBranch(p) ==
    LET d == Items(Frame)[p]
    IN  {[Frame EXCEPT !.at = p + 1, !.generate_ifs = @ \cup {<<p, d.last>>},
              !.excluded = @ \cup {IF c # 0 THEN d.else_span ELSE d.then_span}] :
            c \in IF d.item = "GenerateFor" THEN {} ELSE Constant(d.cond, Frame.parameters)}

SelectBranch == \E p \in Visits("Generates") : Continue(WithoutBranch(p))

ParameterAt(f) == {p \in DOMAIN Items(f) : Items(f)[p].item = "Parameter"}

(* What is checked when a walk is over.                                    *)
UnknownOverrides(f) ==
    DOMAIN f.overrides \ {Items(f)[p].name : p \in {q \in ParameterAt(f) : ~Items(f)[q].local}}
WalkAccepts(f) ==
    /\ f.phase = "Parameters" => UnknownOverrides(f) = {}
    /\ f.phase = "Generates" => \A p \in ParameterAt(f) : ~Within(f.generate_ifs, p)

FinishWalk ==
    /\ outcome = "Lowering" /\ stack # <<>> /\ Frame.phase \in Walks
    /\ Ahead(Frame) = {}
    /\ Continue(IF WalkAccepts(Frame)
                THEN {[Frame EXCEPT !.phase = NextPhase[@], !.at = 1]} ELSE {})

-----------------------------------------------------------------------------
(***************************************************************************)
(* Signals, processes and continuous assignments.                          *)
(***************************************************************************)

WrongPushed(m, signal) == [m EXCEPT !.signals = <<signal>> \o @]
Pushed(m, signal) == [m EXCEPT !.signals = Append(@, signal)]

(* A port or an internal signal; integers get none.  Of the declarations   *)
(* with an initial value only a net's are accepted, by the walk over       *)
(* continuous assignments.                                                 *)
DeclaredSignal(d, f) ==
    {[name |-> <<d.name>>, direction |-> d.direction, width |-> RangeWidth(r), depth |-> n] :
        r \in IF d.range = Nothing THEN {PlainRange(1)} ELSE RangeIn(d.range, f.parameters),
        n \in IF d.elements = Nothing THEN {0}
              ELSE {RangeWidth(e) : e \in RangeIn(d.elements, f.parameters)}}

WithSignal(p) ==
    LET d == Items(Frame)[p]
        rejected == \/ d.type # "net" /\ d.value # {}
                    \/ d.type = "integer" /\ d.elements # Nothing
                    \/ d.direction # "none" /\ d.elements # Nothing
    IN  {[Frame EXCEPT !.at = p + 1, !.module = IF d.type = "integer" THEN @ ELSE Pushed(@, s)] :
            s \in IF rejected THEN {} ELSE DeclaredSignal(d, Frame)}

Declare == \E p \in Visits("Declarations") : Continue(WithSignal(p))

(* The first signal of that name: a module's signals are those of its own  *)
(* declarations until its instances are flattened into it.                 *)
SignalId(m, name) ==
    {i \in DOMAIN m.signals :
        m.signals[i].name = <<name>> /\ \A j \in 1..(i - 1) : m.signals[j].name # <<name>>}

Operand(name, f) ==
    IF SignalId(f.module, name) # {} THEN {<<"Ref", i>> : i \in SignalId(f.module, name)}
    ELSE {<<"Literal", f.parameters[n].value>> : n \in {name} \cap DOMAIN f.parameters}

(* The sequences that take each element from the set in its place.         *)
Picks(sets) ==
    {s \in [DOMAIN sets -> UNION {sets[i] : i \in DOMAIN sets}] :
        \A i \in DOMAIN sets : s[i] \in sets[i]}

IsArrayName(e, m) == e.op = "Name" /\ \E i \in SignalId(m, e.names[1]) : m.signals[i].depth # 0
Lowered(e, f) ==
    {[op |-> e.op, operands |-> o] :
        o \in IF IsArrayName(e, f.module) THEN {}
              ELSE Picks([i \in DOMAIN e.names |-> Operand(e.names[i], f)])}

LoweredAssign(target, e, f) ==
    {[target |-> t, value |-> v] : t \in SignalId(f.module, target), v \in Lowered(e, f)}

LoweredBody(body, f) == Picks([i \in DOMAIN body |-> LoweredAssign(body[i].target, body[i].value, f)])

(* The process of an always block: the first of its events' edges must be  *)
(* rising, and the first event is of the clock.  @* has no events, and     *)
(* then nothing is queued.                                                 *)
RisingEdge(events) ==
    \E i \in DOMAIN events :
        events[i].edge = "posedge" /\ \A j \in 1..(i - 1) : events[j].edge = "none"

WithProcess(d, f) ==
    IF d.events = Nothing
    THEN {[f.module EXCEPT !.comb_processes = Append(@, [body |-> b])] :
             b \in {x \in LoweredBody(d.body, f) : \A i \in DOMAIN d.body : d.body[i].blocking}}
    ELSE {[f.module EXCEPT !.clocked_processes = Append(@, [clock |-> c, body |-> b])] :
             c \in {s \in SignalId(f.module, d.events[1].signal) : RisingEdge(d.events)},
             b \in LoweredBody(d.body, f)}

LowerAlways ==
    \E p \in Visits("Processes") :
        Continue({[Frame EXCEPT !.at = p + 1, !.module = m] : m \in WithProcess(Items(Frame)[p], Frame)})

(* assign t = e, or a net declared with a value; other declarations are    *)
(* passed over.  No element of an array is driven like this.               *)
WrongWithAssign(p) ==
    LET d == Items(Frame)[p]
        target == IF d.item = "Assign" THEN d.target ELSE d.name
    IN  IF d.value = {} THEN {[Frame EXCEPT !.at = p + 1]}
        ELSE {[Frame EXCEPT !.at = p + 1, !.module.assigns = Append(@, a)] :
                 a \in UNION {LoweredAssign(target, e, Frame) : e \in d.value}}
WithAssign(p) ==
    LET d == Items(Frame)[p]
        target == IF d.item = "Assign" THEN d.target ELSE d.name
    IN  IF d.value = {} THEN {[Frame EXCEPT !.at = p + 1]}
        ELSE {[Frame EXCEPT !.at = p + 1, !.module.assigns = Append(@, a)] :
                 a \in {x \in UNION {LoweredAssign(target, e, Frame) : e \in d.value} :
                            Frame.module.signals[x.target].depth = 0}}

LowerAssign == \E p \in Visits("Assigns") : Continue(WithAssign(p))

-----------------------------------------------------------------------------
(***************************************************************************)
(* Instances.                                                              *)
(***************************************************************************)

Beginning(k) == {stack[i].name : i \in 1..k}

(* The values an instance gives its module's parameters, constants of the  *)
(* module it is in.                                                        *)
GivenOverrides(d, f) ==
    IF ~Unique(d.overrides) THEN {}
    ELSE LET given == Binding(d.overrides)
             values == [n \in DOMAIN given |-> Constant(given[n], f.parameters)]
         IN  Picks(values)

(* The module an instance names is lowered on its own, unless it is one of *)
(* those the module on top is being lowered for.                           *)
MayInstantiate(d) ==
    /\ d.module \in Library \ Beginning(Len(stack) - 1)
    /\ d.name \notin {Frame.pending[i].name : i \in DOMAIN Frame.pending}

Instantiate ==
    \E p \in Visits("Instances") :
        LET d == Items(Frame)[p]
            overrides == IF MayInstantiate(d) THEN GivenOverrides(d, Frame) ELSE {}
        IN  \/ overrides = {} /\ Reject
            \/ \E o \in overrides :
                  /\ stack' = Append([stack EXCEPT ![Len(stack)].at = p], NewFrame(d.module, o))
                  /\ UNCHANGED <<design, outcome>>

PortId(m, name) == {i \in SignalId(m, name) : m.signals[i].direction # "none"}

(* What each of the child's ports is connected to, if anything.            *)
Connections(d, child, f) ==
    LET ports == {c.name : c \in {d.connections[i] : i \in DOMAIN d.connections}}
        twice == \E i, j \in DOMAIN d.connections : i # j /\ d.connections[i].name = d.connections[j].name
        given == Binding(d.connections)
        values == [n \in DOMAIN given |-> Lowered(given[n], f)]
    IN  IF twice \/ \E n \in ports : PortId(child, n) = {} THEN {}
        ELSE {[i \in UNION {PortId(child, n) : n \in DOMAIN given} |-> c[child.signals[i].name[1]]] :
                 c \in Picks(values)}

(* The module above the one on top, and the instance that one is for.      *)
Caller ==
    IF In("Done") /\ Len(stack) > 1
    THEN LET f == stack[Len(stack) - 1] IN {[frame |-> f, instance |-> Items(f)[f.at]]}
    ELSE {}

(* A module that has been lowered is connected where it is instantiated.   *)
Connect ==
    \E caller \in Caller :
        LET f == caller.frame
            d == caller.instance
            results == Connections(d, Frame.module, f)
            above == SubSeq(stack, 1, Len(stack) - 1)
        IN  \/ results = {} /\ Reject
            \/ \E c \in results :
                  /\ stack' = [above EXCEPT ![Len(above)] =
                                  [f EXCEPT !.at = @ + 1,
                                      !.pending = Append(@, [name |-> d.name,
                                          child |-> Frame.module, connections |-> c])]]
                  /\ UNCHANGED <<design, outcome>>

-----------------------------------------------------------------------------
(***************************************************************************)
(* Flattening: the first pending instance is merged into the module, its   *)
(* signals one at a time and then the rest of it, renumbered.              *)
(***************************************************************************)

Instance == Head(Frame.pending)
PortNo == Len(Frame.remap) + 1
Port == Instance.child.signals[PortNo]

(* What the port at hand is connected to: a set, as everywhere.            *)
Connection == {Instance.connections[i] : i \in {PortNo} \cap DOMAIN Instance.connections}

IsWhole(e) == e.op = "Name" /\ 1 \in DOMAIN e.operands /\ e.operands[1][1] = "Ref"
WrongSameShape(a, b) == TRUE
SameShape(a, b) == a.width = b.width /\ a.depth = b.depth

(* The signals a port may stand for, having its shape.                     *)
Aliases == {e.operands[1][2] : e \in {x \in Connection : IsWhole(x)}}
Alias == {s \in Aliases : SameShape(Frame.module.signals[s], Port)}

Flattens == In("Flatten") /\ Frame.pending # <<>> /\ Len(Frame.remap) < Len(Instance.child.signals)

(* The signal at hand becomes signal id, of module m.                      *)
Mapped(m, id, assigns) ==
    Become([Frame EXCEPT !.module = m, !.remap = Append(@, id), !.port_assigns = @ \o assigns])

Copied ==
    Pushed(Frame.module, [name |-> <<Instance.name>> \o Port.name, direction |-> "none",
                          width |-> Port.width, depth |-> Port.depth])
WrongCopyId == Len(Copied.signals) + 1
CopyId == Len(Frame.module.signals) + 1
WholeSignal(id) == [op |-> "Name", operands |-> <<<<"Ref", id>>>>]

CopySignal ==
    /\ Flattens
    /\ \/ Port.direction = "none"
       \/ Port.direction = "output" /\ Connection = {}
    /\ Mapped(Copied, CopyId, <<>>)

AliasPort ==
    /\ Flattens /\ Port.direction # "none"
    /\ \E s \in Alias : Mapped(Frame.module, s, <<>>)

DriveInput ==
    /\ Flattens /\ Port.direction = "input" /\ Alias = {}
    /\ \E e \in Connection : Mapped(Copied, CopyId, <<[target |-> CopyId, value |-> e]>>)

ReadOutput ==
    /\ Flattens /\ Port.direction = "output" /\ Alias = {}
    /\ \E s \in Aliases : Mapped(Copied, CopyId, <<[target |-> s, value |-> WholeSignal(CopyId)]>>)

RejectPort ==
    /\ Flattens
    /\ \/ Port.direction = "input" /\ Connection = {}
       \/ Port.direction = "output" /\ \E e \in Connection : ~IsWhole(e)
    /\ Reject

(* remap_signals, on an expression and on the assignments of a body.       *)
WrongRemappedExpr(e, remap) == e
RemappedExpr(e, remap) ==
    [e EXCEPT !.operands = [i \in DOMAIN @ |-> IF @[i][1] = "Ref" THEN <<"Ref", remap[@[i][2]]>> ELSE @[i]]]
RemappedAssign(a, remap) ==
    [target |-> remap[a.target], value |-> RemappedExpr(a.value, remap)]
RemappedBody(body, remap) == [i \in DOMAIN body |-> RemappedAssign(body[i], remap)]

MergeInstance ==
    /\ In("Flatten") /\ Frame.pending # <<>> /\ Len(Frame.remap) = Len(Instance.child.signals)
    /\ LET child == Instance.child
           r == Frame.remap
           clocked == [i \in DOMAIN child.clocked_processes |->
                          [clock |-> r[child.clocked_processes[i].clock],
                           body |-> RemappedBody(child.clocked_processes[i].body, r)]]
           comb == [i \in DOMAIN child.comb_processes |->
                       [body |-> RemappedBody(child.comb_processes[i].body, r)]]
           assigns == [i \in DOMAIN child.assigns |-> RemappedAssign(child.assigns[i], r)]
       IN  Become([Frame EXCEPT
                       !.module.clocked_processes = @ \o clocked,
                       !.module.comb_processes = @ \o comb,
                       !.module.assigns = @ \o assigns \o Frame.port_assigns,
                       !.pending = Tail(@), !.remap = <<>>, !.port_assigns = <<>>])

-----------------------------------------------------------------------------
(***************************************************************************)
(* The checks on the module, once flat.                                    *)
(***************************************************************************)

BodyTargets(body) == {body[i].target : i \in DOMAIN body}

(* The places of module m that drive signal s.                             *)
Drivers(m, s) ==
    {<<"clocked", i>> : i \in {j \in DOMAIN m.clocked_processes :
                                  s \in BodyTargets(m.clocked_processes[j].body)}}
    \cup {<<"comb", i>> : i \in {j \in DOMAIN m.comb_processes :
                                    s \in BodyTargets(m.comb_processes[j].body)}}
    \cup {<<"assign", i>> : i \in {j \in DOMAIN m.assigns : s = m.assigns[j].target}}

WrongSingleDriver(m) == \A s \in DOMAIN m.signals : Cardinality(Drivers(m, s)) <= 1
SingleDriver(m) ==
    \A s \in DOMAIN m.signals :
        /\ m.signals[s].direction = "input" => Drivers(m, s) = {}
        /\ Cardinality(Drivers(m, s)) <= 1

RejectMultipleDrivers ==
    /\ In("Flatten") /\ Frame.pending = <<>>
    /\ Continue(IF SingleDriver(Frame.module) THEN {[Frame EXCEPT !.phase = "Done"]} ELSE {})

(* Only of the whole design: ticking it is one edge of all its processes.  *)
Clocks(m) == {m.clocked_processes[i].clock : i \in DOMAIN m.clocked_processes}
SingleClock(m) == Cardinality(Clocks(m)) <= 1

Finish ==
    /\ In("Done") /\ Len(stack) = 1
    /\ outcome' = IF SingleClock(Frame.module) THEN "Ok" ELSE "Err"
    /\ UNCHANGED <<design, stack>>

(* The first module of the file is the top.                                *)
Begin ==
    /\ outcome = "Lowering" /\ stack = <<>>
    /\ IF /\ Unique(design.overrides)
          /\ design.file # <<>>
          /\ \A i, j \in DOMAIN design.file : design.file[i].name = design.file[j].name => i = j
       THEN /\ stack' = <<NewFrame(design.file[1].name, Binding(design.overrides))>>
            /\ UNCHANGED <<design, outcome>>
       ELSE Reject

-----------------------------------------------------------------------------

Init == design \in Designs /\ stack = <<>> /\ outcome = "Lowering"

Flatten ==
    CopySignal \/ AliasPort \/ DriveInput \/ ReadOutput \/ RejectPort \/ MergeInstance

Next ==
    \/ Begin \/ Finish
    \/ ResolveParameter \/ SelectBranch \/ FinishWalk
    \/ Declare \/ LowerAlways \/ LowerAssign
    \/ Instantiate \/ Connect
    \/ Flatten \/ RejectMultipleDrivers

(* Elaboration is a call that runs to its end.                             *)
Spec == Init /\ [][Next]_vars /\ WF_vars(Next)
-----------------------------------------------------------------------------
(***************************************************************************)
(* The numbers of signals.                                                 *)
(***************************************************************************)

ExprWithin(e, n) ==
    \A i \in DOMAIN e.operands : e.operands[i][1] = "Ref" => e.operands[i][2] \in 1..n
AssignWithin(a, n) == a.target \in 1..n /\ ExprWithin(a.value, n)
BodyWithin(body, n) == \A i \in DOMAIN body : AssignWithin(body[i], n)

ModuleWithin(m) ==
    LET n == Len(m.signals)
    IN  /\ \A i \in DOMAIN m.clocked_processes :
              m.clocked_processes[i].clock \in 1..n /\ BodyWithin(m.clocked_processes[i].body, n)
        /\ \A i \in DOMAIN m.comb_processes : BodyWithin(m.comb_processes[i].body, n)
        /\ \A i \in DOMAIN m.assigns : AssignWithin(m.assigns[i], n)

PendingWithin(p, n) ==
    /\ ModuleWithin(p.child)
    /\ \A c \in DOMAIN p.connections : ExprWithin(p.connections[c], n)

(* Hazard: a number taken in one module is used in another, or before the  *)
(* signal it is given to is there.                                         *)
(* Every signal that a module being lowered, or an instance waiting to be  *)
(* merged in, refers to is one of its own; and so are those that stand for *)
(* the signals of the instance being merged (lower_instances,              *)
(* flatten_instance).                                                      *)
NumbersHold ==
    \A k \in DOMAIN stack :
        LET f == stack[k]
            n == Len(f.module.signals)
        IN  /\ ModuleWithin(f.module)
            /\ \A i \in DOMAIN f.pending : PendingWithin(f.pending[i], n)
            /\ \A i \in DOMAIN f.remap : f.remap[i] \in 1..n
            /\ \A i \in DOMAIN f.port_assigns : AssignWithin(f.port_assigns[i], n)

(* What the kernel takes for granted of the module it is given: there an   *)
(* assignment writes a signal's scalar slot, and a name that stands alone  *)
(* reads it, which says nothing of an array.                               *)
IsScalar(s) == s.depth = 0
ReadsScalars(e, signals) == IsWhole(e) => IsScalar(signals[e.operands[1][2]])
BodyReadsScalars(body, signals) == \A i \in DOMAIN body : ReadsScalars(body[i].value, signals)

SuitsKernel(m) ==
    /\ ModuleWithin(m) /\ SingleDriver(m) /\ SingleClock(m)
    /\ \A i \in DOMAIN m.assigns :
          /\ IsScalar(m.signals[m.assigns[i].target])
          /\ ReadsScalars(m.assigns[i].value, m.signals)
    /\ \A i \in DOMAIN m.clocked_processes :
          BodyReadsScalars(m.clocked_processes[i].body, m.signals)
    /\ \A i \in DOMAIN m.comb_processes :
          BodyReadsScalars(m.comb_processes[i].body, m.signals)

(* Hazard: what is checked of a module on its own, before its signals have *)
(* become others, or after it and before the next instance is merged in,   *)
(* need not hold of the design that is simulated, and the kernel does not  *)
(* look again.                                                             *)
(* An accepted design is one module with nothing left to merge in, whose   *)
(* numbers are of its own signals, with one clock and one driver for each  *)
(* signal and none for its inputs, and in which nothing reads or drives an *)
(* array as if it were a scalar (reject_multiple_drivers,                  *)
(* reject_multiple_clocks, lower_expr, lower_continuous_assign).           *)
AcceptedSuitsKernel ==
    outcome = "Ok" =>
        Len(stack) = 1 /\ stack[1].pending = <<>> /\ SuitsKernel(stack[1].module)

(* Hazard: what a child's expressions were widened to, before it was       *)
(* merged in, is wrong where one of its signals becomes another.           *)
(* The signal that stands for one of an instance's has its width and its   *)
(* depth, for as long as the instance is being merged (flatten_instance).  *)
ShapesKept ==
    \A k \in DOMAIN stack :
        LET f == stack[k]
        IN  \A i \in DOMAIN f.remap :
                LET signal == f.module.signals[f.remap[i]]
                    of == Head(f.pending).child.signals[i]
                IN  signal.width = of.width /\ signal.depth = of.depth

(* Hazard: the numbers handed out are used long after, by what was lowered *)
(* before an instance is merged in.                                        *)
(* No step renumbers the signals of a module being lowered, or changes one *)
(* of its processes, assignments or instances: they are only added to,     *)
(* until the instances are merged in, in order (flatten_instance).         *)
NothingRenumbered ==
    [][\A k \in DOMAIN stack \cap DOMAIN stack' :
          LET m == stack[k].module
              n == stack'[k].module
          IN  /\ IsPrefix(m.signals, n.signals)
              /\ IsPrefix(m.clocked_processes, n.clocked_processes)
              /\ IsPrefix(m.comb_processes, n.comb_processes)
              /\ IsPrefix(m.assigns, n.assigns)
              /\ \/ IsPrefix(stack[k].pending, stack'[k].pending)
                 \/ stack'[k].pending = Tail(stack[k].pending)]_vars

(* Hazard: elaboration follows instances from module to module.            *)
(* Every file is accepted or rejected in the end: a module that            *)
(* instantiates itself does not keep it going (the stack of lower_module). *)
ElaborationEnds == <>(outcome # "Lowering")
=============================================================================
