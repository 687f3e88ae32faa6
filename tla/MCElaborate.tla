----------------------------- MODULE MCElaborate -----------------------------
(***************************************************************************)
(* Elaboration of small files: a top that instantiates "mid", by itself or *)
(* with another, with ports joined in every way; modules whose parameters  *)
(* select their generates and size their signals; files that break a rule, *)
(* some only in a branch that is not there; and modules inside themselves. *)
(***************************************************************************)
EXTENDS VerilogHierarchy

(* Constants, of which LowerExpr has more: of names, only a parameter is   *)
(* one.                                                                    *)
RECURSIVE MCConstant(_, _)
MCConstant(text, parameters) ==
    CASE text.form = "Integer" -> {text.value}
      [] text.form = "Name" -> {parameters[n].value : n \in {text.id} \cap DOMAIN parameters}
      [] text.form = "Binary" ->
            {CASE text.symbol = "+" -> Mask(x + y, WordWidth)
               [] text.symbol = "-" -> Mask(x - y, WordWidth)
               [] text.symbol = "==" -> IF x = y THEN 1 ELSE 0 :
                x \in MCConstant(text.left, parameters), y \in MCConstant(text.right, parameters)}

-----------------------------------------------------------------------------

Num(n)       == [form |-> "Integer", value |-> n]
Par(p)       == [form |-> "Name", id |-> p]
Bin(x, o, y) == [form |-> "Binary", symbol |-> o, left |-> x, right |-> y]
Upto(text)   == <<Bin(text, "-", Num(1)), Num(0)>>

N(n)     == [op |-> "Name", names |-> <<n>>]
Op(m, n) == [op |-> "+", names |-> <<m, n>>]

Parameter(n, range, default) ==
    [item |-> "Parameter", name |-> n, local |-> FALSE, range |-> range, default |-> default]
Memory(n, range, elements) ==
    [item |-> "Signal", name |-> n, direction |-> "none", range |-> range, elements |-> elements,
     type |-> "variable", value |-> {}]
Local(n, text) ==
    [item |-> "Parameter", name |-> n, local |-> TRUE, range |-> <<>>, default |-> {text}]
Declaration(item, n, direction, range, type, value) ==
    [item |-> item, name |-> n, direction |-> direction, range |-> range, elements |-> <<>>,
     type |-> type, value |-> value]
Input(n, range)   == Declaration("Port", n, "input", range, "net", {})
Output(n, range)  == Declaration("Port", n, "output", range, "net", {})
Reg(n, range)  == Declaration("Signal", n, "none", range, "variable", {})
Wire(n, range) == Declaration("Signal", n, "none", range, "net", {})
Net1(n, e)     == Declaration("Signal", n, "none", <<>>, "net", {e})
Drive(t, e)    == [item |-> "Assign", target |-> t, value |-> {e}]
Sets(t, e, b)  == [target |-> t, value |-> e, blocking |-> b]
At(edge, n)    == [edge |-> edge, signal |-> n]
Always(events, t, e) ==
    [item |-> "Always", events |-> events, body |-> <<Sets(t, e, events = <<>>)>>]
If(cond, then_span, else_span, last) ==
    [item |-> "GenerateIf", cond |-> cond, then_span |-> then_span, else_span |-> else_span, last |-> last]
For == [item |-> "GenerateFor"]
Give(n, value) == [name |-> n, value |-> value]
Inst(module, overrides, n, connections) ==
    [item |-> "Instance", module |-> module, overrides |-> overrides, name |-> n, connections |-> connections]

Module(n, items) == [name |-> n, items |-> items]
File(modules, overrides) == [file |-> modules, overrides |-> overrides]

Clk == <<At("posedge", "clk")>>

(* A net, and a stage that registers its input when W is 1 and is          *)
(* combinational otherwise; its inner instance is registered or not by the *)
(* value of a local parameter.                                             *)
Leaf == Module("leaf", <<Input("i", <<>>), Output("o", <<>>), Drive("o", N("i"))>>)

MidItems ==
    <<Parameter("W", <<>>, {Num(1)}), Parameter("K", <<Num(0), Num(0)>>, {Num(0)}),
      Local("L", Bin(Par("W"), "+", Par("K"))),
      Input("clk", <<>>), Input("d", Upto(Par("W"))), Output("q", Upto(Par("W"))), Reg("r", Upto(Par("L"))),
      Memory("m", Upto(Par("W")), <<Num(0), Par("L")>>),
      If(Bin(Par("W"), "==", Num(1)), <<10, 10>>, <<11, 13>>, 13),
      [item |-> "Always", events |-> Clk, body |-> <<Sets("r", Op("m", "r"), FALSE), Sets("m", N("d"), FALSE)>>],
      If(Par("K"), <<12, 12>>, <<13, 13>>, 13),
      Always(Clk, "r", Op("d", "L")),
      Always(<<>>, "r", N("d")),
      Drive("q", N("r"))>>
Mid == Module("mid", MidItems)
MidWith(item) == Module("mid", Append(MidItems, item))
Nested == MidWith(Inst("leaf", <<>>, "in", <<Give("i", {N("d")}), Give("o", {})>>))

TopItems ==
    <<Parameter("P", <<Num(1), Num(0)>>, {Num(1)}), Input("clk", <<>>), Input("en", <<>>), Input("a", <<>>),
      Input("b", Upto(Num(2))), Output("x", <<>>), Output("y", Upto(Num(2))), Net1("g", Op("clk", "en"))>>
Top(items) == Module("top", TopItems \o items)

Joins(clk, d, q) == <<Give("clk", {N(clk)}), Give("d", d), Give("q", q)>>
Stage(overrides, clk, d, q) == Inst("mid", overrides, "u", Joins(clk, d, q))

Plain == Joins("clk", {N("a")}, {N("x")})

-----------------------------------------------------------------------------

(* Every way to join the ports of an instance of one bit, and of two.      *)
Joined1 ==
    {File(<<Top(<<Stage(<<Give("W", {w})>>, clk, d, q), Drive("y", N("x"))>>), mid, Leaf>>, <<>>) :
        w \in {Par("P"), Num(2)}, clk \in {"clk", "g"},
        d \in {{}, {N("a")}, {N("b")}, {Op("a", "P")}, {N("P")}},
        q \in {{}, {N("x")}, {N("y")}, {N("a")}, {Op("x", "a")}}, mid \in {Mid, Nested}}

(* Two instances, of the same name or joined to the same net or to two     *)
(* clocks, by a net or through a port of another width.                    *)
Two ==
    {File(<<Top(<<Stage(<<>>, "clk", {N("a")}, {N("x")}),
                  Inst("mid", <<Give("W", {w}), Give("K", {k})>>, n, Joins(clk, {N("b")}, {q}))>>),
            Nested, Leaf>>, <<>>) :
        w \in {Num(1), Num(2)}, k \in {Num(1), Num(0)}, n \in {"u", "v"}, clk \in {"clk", "g", "en"},
        q \in {N("x"), N("y"), N("b")}}

(* Overrides, at the top and where mid is instantiated.                    *)
Overridden ==
    {File(<<Top(<<Inst("mid", inner, "u", Plain)>>), Mid>>, outer) :
        inner \in {<<>>, <<Give("W", {Par("P")})>>, <<Give("W", {Num(1)}), Give("W", {Num(1)})>>,
                   <<Give("K", {Num(2)})>>, <<Give("K", {Par("P")})>>, <<Give("L", {Num(1)})>>,
                   <<Give("Z", {Num(1)})>>, <<Give("W", {Par("a")})>>,
                   <<Give("W", {}), Give("K", {Num(1)})>>},
        outer \in {<<>>, <<Give("P", {2})>>, <<Give("P", {4})>>, <<Give("P", {1}), Give("P", {1})>>,
                   <<Give("Q", {1})>>}}

(* A branch each: what is wrong in it matters when P selects it.           *)
Branch(item) ==
    {File(<<Top(<<If(Bin(Par("P"), "==", Num(1)), <<10, 10>>, <<11, 11>>, 11), item,
                  Drive("x", N("a")), Inst("mid", <<>>, "u", Joins("clk", {N("b")}, {N("y")}))>>),
            Mid>>, <<Give("P", {p})>>) : p \in {1, 2}}
Branches ==
    UNION {Branch(item) : item \in
        {Drive("x", N("en")), Drive("y", N("en")), Drive("b", N("en")), Drive("nowhere", N("a")),
         Drive("x", N("nothing")), For, Inst("absent", <<>>, "u", <<>>), Local("Q", Num(1)),
         If(Par("en"), <<11, 10>>, <<11, 10>>, 10), Inst("mid", <<>>, "u", Plain),
         Always(<<At("negedge", "clk")>>, "x", N("a")), Always(<<At("none", "a")>>, "x", N("a")),
         Always(Clk, "x", N("P")),
         [item |-> "Always", events |-> <<>>, body |-> <<Sets("x", N("a"), FALSE)>>],
         Declaration("Signal", "s", "none", <<>>, "variable", {N("a")}),
         Declaration("Signal", "s", "none", <<>>, "integer", {})}}

(* Rules of mid that only the design it is in breaks, or keeps.            *)
Wrong ==
    {File(<<Top(<<Inst("mid", <<Give("W", {Num(1)})>>, "u", Plain)>>), MidWith(item), Leaf>>, <<>>) :
        item \in {Drive("d", N("r")), Drive("r", N("d")),
                  Inst("leaf", <<>>, "v", <<Give("i", {N("r")}), Give("o", {N("d")})>>),
                  Inst("leaf", <<>>, "v", <<Give("i", {N("r")}), Give("o", {N("q")})>>),
                  Inst("leaf", <<>>, "v", <<Give("i", {N("r")}), Give("i", {N("d")})>>),
                  Inst("leaf", <<>>, "v", <<Give("i", {N("r")}), Give("j", {N("d")})>>)}}
    \cup {File(<<Top(<<>>), Leaf, Leaf>>, <<>>), File(<<>>, <<>>),
          File(<<Top(<<Drive("x", N("a")), Drive("y", N("b"))>>), Module("other", <<For>>)>>, <<>>)}

(* An array where a scalar is wanted, and where one of its elements is.    *)
Whole ==
    {File(<<Top(<<Memory("n", Upto(Num(2)), <<Num(0), Num(1)>>), item>>), Mid, Leaf>>, <<>>) :
        item \in {Drive("n", N("b")), Drive("y", N("n")), Drive("y", Op("n", "b")),
                  Always(<<>>, "y", N("n")), Always(Clk, "n", N("b")),
                  Inst("leaf", <<>>, "v", <<Give("i", {N("n")}), Give("o", {N("x")})>>),
                  Inst("leaf", <<>>, "v", <<Give("i", {N("a")}), Give("o", {N("n")})>>),
                  [Input("p", <<>>) EXCEPT !.elements = <<Num(0), Num(1)>>],
                  [Net1("p", N("a")) EXCEPT !.elements = <<Num(0), Num(1)>>]}}

(* Modules inside themselves: always, or down to a parameter's value, or   *)
(* through another.                                                        *)
Again(module) ==
    Inst(module, <<Give("D", {Bin(Par("D"), "-", Num(1))})>>, "u", <<Give("i", {N("i")}), Give("o", {N("o")})>>)
Down(n, module) ==
    Module(n, <<Parameter("D", <<>>, {Num(0)}), Input("i", <<>>), Output("o", <<>>),
                If(Par("D"), <<5, 5>>, <<6, 6>>, 6), Again(module), Drive("o", N("i"))>>)
Inside ==
    {File(<<Down("a", "a")>>, <<Give("D", {n})>>) : n \in 0..2}
        \cup {File(<<Down("a", "b"), Down("b", "a")>>, <<Give("D", {n})>>) : n \in 0..3}
        \cup {File(<<Module("a", <<Input("i", <<>>), Output("o", <<>>),
                                   Inst("a", <<>>, "u", <<Give("i", {N("i")})>>)>>)>>, <<>>)}

(* Blocks that wait for one or two events, of the clock or of a reset.     *)
MCEvents ==
    LET events == [edge : {"posedge", "negedge", "none"}, signal : {"clk", "en"}]
    IN  {File(<<Top(<<Always(e, "x", N("a"))>>)>>, <<>>) : e \in {<<x>> : x \in events} \cup (events \X events)}

MCDesigns == Joined1 \cup Two \cup Overridden \cup Branches \cup Wrong \cup Whole \cup Inside
=============================================================================
