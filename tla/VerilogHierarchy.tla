-------------------------- MODULE VerilogHierarchy --------------------------
(***************************************************************************)
(* What a file of modules means (IEEE 1800): a tree of instances, each     *)
(* with its own parameters and the items its generates keep, whose ports   *)
(* are joined to expressions of the instance above; and the properties     *)
(* that relate Elaborate to it.                                            *)
(***************************************************************************)
EXTENDS Elaborate

(* The parameters of a module after its first k items, a set: empty when   *)
(* one has no value.                                                       *)
RECURSIVE ValuesTo(_, _, _)
ValuesTo(items, overrides, k) ==
    IF k = 0 THEN {<<>>}
    ELSE LET d == items[k]
             Values(T) == IF d.name \in DOMAIN overrides THEN {overrides[d.name]}
                          ELSE UNION {Constant(t, T) : t \in d.default}
             Bits(T) == IF d.range = Nothing THEN {IndexBits} ELSE {RangeWidth(r) : r \in RangeIn(d.range, T)}
         IN  IF d.item # "Parameter" THEN ValuesTo(items, overrides, k - 1)
             ELSE UNION {{(d.name :> [value |-> v, width |-> w]) @@ T : v \in Values(T), w \in Bits(T)} :
                            T \in ValuesTo(items, overrides, k - 1)}

(* The items a module has with parameters T: each generate-if around one   *)
(* selects the branch it is in.                                            *)
Selects(d, T, k) ==
    \E c \in Constant(d.cond, T) :
        k \in IF c # 0 THEN d.then_span[1]..d.then_span[2] ELSE d.else_span[1]..d.else_span[2]

Present(items, T, kinds) ==
    {k \in DOMAIN items :
        /\ items[k].item \in kinds
        /\ \A p \in 1..(k - 1) :
              items[p].item = "GenerateIf" /\ k <= items[p].last => Selects(items[p], T, k)}

Kinds == {"GenerateIf", "GenerateFor", "Port", "Signal", "Always", "Assign", "Instance"}

(* The signals of a module, with the shape their declarations give them.   *)
Shapes(has, T) ==
    {[name |-> d.name, direction |-> d.direction, width |-> RangeWidth(r), depth |-> n] :
        <<d, r, n>> \in
            UNION {{d} \X (IF d.range = Nothing THEN {PlainRange(1)} ELSE RangeIn(d.range, T))
                       \X (IF d.elements = Nothing THEN {0}
                           ELSE {RangeWidth(e) : e \in RangeIn(d.elements, T)}) :
                      d \in {x \in has : x.item \in {"Port", "Signal"} /\ x.type # "integer"}}}

IsSignalOf(signals, e) == e.op = "Name" /\ \E s \in signals : s.name = e.names[1]
ShapeIn(signals, name) == CHOOSE s \in signals : s.name = name

(* The instances of the design: where each is, what it is an instance of,  *)
(* what its ports are joined to in the instance above (a set with it, but  *)
(* at the top) and the net each of its signals is, named by its place: a   *)
(* port joined to a whole signal of its shape is that signal.  A module in *)
(* itself is followed once.                                                *)
RECURSIVE Subtree(_, _, _, _, _, _)
Subtree(path, name, overrides, connections, up, above) ==
    LET items == ItemsOf(name)
        values == ValuesTo(items, overrides, Len(items))
        has == {items[k] : k \in UNION {Present(items, T, Kinds) : T \in values}}
        signals == UNION {Shapes(has, T) : T \in values}
        Joined(port) ==
            UNION {connections[i].value : i \in {j \in DOMAIN connections : connections[j].name = port}}
        Same(s) ==
            IF s.direction = "none" THEN {}
            ELSE UNION {{u.net[e.names[1]] :
                            e \in {x \in Joined(s.name) :
                                /\ IsSignalOf(u.signals, x)
                                /\ ShapeIn(u.signals, x.names[1]).width = s.width
                                /\ ShapeIn(u.signals, x.names[1]).depth = s.depth}} : u \in up}
        OwnNet(s) == IF Same(s) = {} THEN Append(path, s.name) ELSE CHOOSE x \in Same(s) : TRUE
        node == [path |-> path, name |-> name, overrides |-> overrides, values |-> values,
                 above |-> above, has |-> has, signals |-> signals,
                 joined |-> [n \in {s.name : s \in signals} |-> Joined(n)],
                 net |-> [n \in {s.name : s \in signals} |-> OwnNet(ShapeIn(signals, n))]]
        Children(T) ==
            {k \in Present(items, T, {"Instance"}) :
                /\ items[k].module \in Library
                /\ Unique(items[k].overrides)
                /\ Cardinality({i \in DOMAIN above : above[i] = items[k].module}) <= 1}
        Given(k, T) ==
            LET given == Binding(items[k].overrides)
            IN  Picks([n \in DOMAIN given |-> Constant(given[n], T)])
    IN  {node} \cup
        UNION {UNION {Subtree(Append(path, items[k].name), items[k].module, o,
                              items[k].connections, {node}, Append(above, name)) :
                         o \in Given(k, T)} :
                  <<k, T>> \in UNION {Children(T) \X {T} : T \in values}}

Hierarchy == Subtree(<<>>, design.file[1].name, Binding(design.overrides), <<>>, {}, <<>>)

Values(n) == CHOOSE T \in n.values : TRUE
Has(n, kinds) == {d \in n.has : d.item \in kinds}
NamesOf(n) == DOMAIN n.net
IsSignal(n, e) == IsSignalOf(n.signals, e)
Up(H, n) == CHOOSE x \in H : x.path = SubSeq(n.path, 1, Len(n.path) - 1)

Meaning(n, e) ==
    [op |-> e.op,
     operands |-> [i \in DOMAIN e.names |->
         IF e.names[i] \in NamesOf(n) THEN <<"Ref", n.net[e.names[i]]>>
         ELSE <<"Literal", Values(n)[e.names[i]].value>>]]

Assigned(n, target, e) == [target |-> n.net[target], value |-> Meaning(n, e)]
AssignedIn(n, d) == [i \in DOMAIN d.body |-> Assigned(n, d.body[i].target, d.body[i].value)]

(* The assignments that join the ports of an instance which are nets of    *)
(* their own to the instance above.                                        *)
PortAssigns(up, n) ==
    UNION {{IF s.direction = "input"
            THEN [target |-> n.net[s.name], value |-> Meaning(up, e)]
            ELSE [target |-> up.net[e.names[1]],
                  value |-> [op |-> "Name", operands |-> <<<<"Ref", n.net[s.name]>>>>]] :
               e \in n.joined[s.name]} :
              s \in {x \in n.signals : x.direction # "none" /\ n.net[x.name] = Append(n.path, x.name)}}

(* The continuous assignments, and the processes, with where each is.      *)
AssignsOf(H, n) ==
    {<<"item", n.path, d, Assigned(n, IF d.item = "Assign" THEN d.target ELSE d.name, e)>> :
        <<d, e>> \in UNION {{d} \X d.value : d \in Has(n, {"Assign", "Signal"})}}
    \cup (IF n.path = <<>> THEN {}
          ELSE {<<"port", Up(H, n).path, n.path, a>> : a \in PortAssigns(Up(H, n), n)})
ProcessesOf(n) == {<<"item", n.path, d, AssignedIn(n, d)>> : d \in Has(n, {"Always"})}

-----------------------------------------------------------------------------
(***************************************************************************)
(* What is accepted.                                                       *)
(***************************************************************************)

Reading(d) ==
    CASE d.item = "Always" -> {d.body[i].value : i \in DOMAIN d.body}
      [] d.item \in {"Assign", "Signal"} -> d.value
      [] d.item = "Instance" -> UNION {d.connections[i].value : i \in DOMAIN d.connections}

ParametersOK(n, items) ==
    LET overridable == {k \in DOMAIN items : items[k].item = "Parameter" /\ ~items[k].local}
        plain(d) == d.range = Nothing \/ \A r \in RangeIn(d.range, Values(n)) : IsPlain(r)
    IN  /\ n.values # {}
        /\ \A k \in DOMAIN items : items[k].item = "Parameter" => plain(items[k])
        /\ DOMAIN n.overrides \subseteq {items[k].name : k \in overridable}
        /\ \A x \in DOMAIN n.overrides : n.overrides[x] < 2^Values(n)[x].width
        /\ \A k, p \in DOMAIN items :
              ~(items[p].item = "GenerateIf" /\ items[k].item = "Parameter" /\ k \in p..items[p].last)

(* An array, which as a whole is no value and no port.  The subset has no  *)
(* continuous assignment that drives one, or an element; in a body, an     *)
(* assignment to an array is to an element.                                *)
IsMemory(n, name) == \E s \in n.signals : s.name = name /\ s.depth # 0

ItemsOK(n) ==
    /\ Has(n, {"GenerateFor"}) = {}
    /\ \A d \in Has(n, {"GenerateIf"}) : Constant(d.cond, Values(n)) # {}
    /\ \A d \in Has(n, {"Port", "Signal"}) :
          /\ d.range # Nothing => RangeIn(d.range, Values(n)) # {}
          /\ d.type # "net" => d.value = {}
          /\ d.direction # "none" \/ d.value # {} => d.elements = Nothing
    /\ \A d \in Has(n, {"Always", "Assign", "Signal", "Instance"}) :
          \A e \in Reading(d) :
              /\ \A i \in DOMAIN e.names : e.names[i] \in NamesOf(n) \cup DOMAIN Values(n)
              /\ e.op = "Name" => ~IsMemory(n, e.names[1])
    /\ \A d \in Has(n, {"Assign"}) : d.target \in NamesOf(n) /\ ~IsMemory(n, d.target)
    /\ \A d \in Has(n, {"Always"}) :
          /\ \A i \in DOMAIN d.body : d.body[i].target \in NamesOf(n)
          /\ IF d.events = Nothing THEN \A i \in DOMAIN d.body : d.body[i].blocking
             ELSE d.events \in {<<[edge |-> "posedge", signal |-> s]>> : s \in NamesOf(n)}

InstancesOK(H, n) ==
    \A d \in Has(n, {"Instance"}) :
        /\ d.module \in Library
        /\ \A x \in Has(n, {"Instance"}) : x.name = d.name => x = d
        /\ \E c \in H :
              /\ c.path = Append(n.path, d.name)
              /\ \A i \in DOMAIN d.connections :
                    /\ \E s \in c.signals : s.name = d.connections[i].name /\ s.direction # "none"
                    /\ \A j \in DOMAIN d.connections : d.connections[i].name = d.connections[j].name => i = j
              /\ \A s \in c.signals :
                    /\ s.direction = "input" => c.joined[s.name] # {}
                    /\ s.direction = "output" => \A e \in c.joined[s.name] : IsSignal(n, e)

(* What drives each net, and from where.                                   *)
DriversIn(H) ==
    UNION {{[at |-> a[2], place |-> a, net |-> a[4].target] : a \in AssignsOf(H, n)}
           \cup UNION {{[at |-> n.path, place |-> p, net |-> p[4][i].target] : i \in DOMAIN p[4]} :
                          p \in ProcessesOf(n)} : n \in H}

NetsOK(H) ==
    LET drivers == DriversIn(H)
        clocked == UNION {{<<n, d>> : d \in {x \in Has(n, {"Always"}) : x.events # Nothing}} : n \in H}
    IN  /\ \A x, y \in drivers : x.net = y.net => x.place = y.place
        /\ \A n \in H : \A s \in {x \in n.signals : x.direction = "input"} :
              ~\E x \in drivers : x.net = n.net[s.name] /\ IsPrefix(n.path, x.at)
        /\ Cardinality({c[1].net[c[2].events[1].signal] : c \in clocked}) <= 1

FileOK ==
    /\ design.file # <<>>
    /\ \A i, j \in DOMAIN design.file : design.file[i].name = design.file[j].name => i = j
    /\ \A i, j \in DOMAIN design.overrides : design.overrides[i].name = design.overrides[j].name => i = j

InItself(H) == \E n \in H : \E i \in DOMAIN n.above : n.above[i] = n.name

Legal(H) ==
    /\ \A n \in H : ParametersOK(n, ItemsOf(n.name)) /\ ItemsOK(n)
    /\ \A n \in H : InstancesOK(H, n)
    /\ NetsOK(H)

(* Hazard: a rule that holds of each module may fail of the design they    *)
(* make, and one that fails may be of a branch that is not there.          *)
(* A file is accepted exactly when the tree of instances it stands for     *)
(* breaks no rule: its overrides name parameters and fit them, its items   *)
(* refer to what exists, every input is connected, and in the whole tree   *)
(* no net has two drivers, no input is driven from inside its instance and *)
(* there is one clock.  A design with a module inside itself may be        *)
(* rejected (lower_module, reject_multiple_drivers, elaborate_generates).  *)
AcceptsExactlyLegal ==
    /\ outcome = "Ok" => FileOK /\ Legal(Hierarchy)
    /\ outcome = "Err" => ~FileOK \/ InItself(Hierarchy) \/ ~Legal(Hierarchy)

(* Hazard: a port that is an alias, renumbered wrongly, or joined to a     *)
(* signal of another shape, changes what a signal far from it is.          *)
(* The flat module is the tree: its signals are the tree's nets, with      *)
(* their shapes, and its assignments and processes are those of all the    *)
(* instances, each with its own parameters, over the nets they are on,     *)
(* with one assignment for each port that is a net of its own              *)
(* (flatten_instance, lower_parameters, elaborate_generates).              *)
FlatIsHierarchy ==
    outcome = "Ok" =>
        LET H == Hierarchy
            m == stack[1].module
            name == [i \in DOMAIN m.signals |-> m.signals[i].name]
            Named(a) ==
                [target |-> name[a.target],
                 value |-> [op |-> a.value.op,
                            operands |-> [i \in DOMAIN a.value.operands |->
                                LET o == a.value.operands[i]
                                IN  IF o[1] = "Ref" THEN <<"Ref", name[o[2]]>> ELSE o]]]
            NamedBody(body) == [i \in DOMAIN body |-> Named(body[i])]
            nets == UNION {{[name |-> n.net[s.name], width |-> s.width, depth |-> s.depth] :
                               s \in n.signals} : n \in H}
            top == CHOOSE n \in H : n.path = <<>>
            ports == {<<<<s.name>>, s.direction>> : s \in {x \in top.signals : x.direction # "none"}}
        IN  /\ {[name |-> s.name, width |-> s.width, depth |-> s.depth] :
                   s \in {m.signals[i] : i \in DOMAIN m.signals}} = nets
            /\ Cardinality(nets) = Len(m.signals)
            /\ {<<s.name, s.direction>> : s \in {m.signals[i] :
                   i \in {j \in DOMAIN m.signals : m.signals[j].direction # "none"}}} = ports
            /\ {Named(m.assigns[i]) : i \in DOMAIN m.assigns}
                   = UNION {{a[4] : a \in AssignsOf(H, n)} : n \in H}
            /\ {NamedBody(m.comb_processes[i].body) : i \in DOMAIN m.comb_processes}
                   = UNION {{p[4] : p \in {x \in ProcessesOf(n) : x[3].events = Nothing}} : n \in H}
            /\ {<<name[p.clock], NamedBody(p.body)>> :
                   p \in {m.clocked_processes[i] : i \in DOMAIN m.clocked_processes}}
                   = UNION {{<<n.net[p[3].events[1].signal], p[4]>> :
                                p \in {x \in ProcessesOf(n) : x[3].events # Nothing}} : n \in H}

(* Hazard: a block waiting for more than an edge of the clock, whose other *)
(* events are dropped, runs at fewer moments than it was written to.       *)
(* An always block with events is accepted when what it waits for is the   *)
(* rising edge of the clock its process runs at, and only that: an         *)
(* explicit sensitivity list is rejected (lower_always).                   *)
EventsHeard ==
    outcome = "Ok" =>
        LET m == stack[1].module
        IN  \A n \in Hierarchy : \A d \in Has(n, {"Always"}) :
                d.events # Nothing =>
                    {<<d.events[i].edge, n.net[d.events[i].signal]>> : i \in DOMAIN d.events}
                        = {<<"posedge", m.signals[c].name>> : c \in Clocks(m)}
=============================================================================
