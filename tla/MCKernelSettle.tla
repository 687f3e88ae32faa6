--------------------------- MODULE MCKernelSettle ---------------------------
(***************************************************************************)
(* Kernel on combinational logic with so few states that its depth can be  *)
(* found by trying them all.  With one answer: a chain of nets from two    *)
(* inputs and a toggling register, each net a continuous assignment or an  *)
(* always @* block, one of them an array, declared in every order;         *)
(* MAX_PASSES is the least number the deepest chain needs, so its boundary *)
(* is met exactly.  And logic that feeds back: every pair of equations of  *)
(* a pool for two nets, each an assignment or a block that keeps its net   *)
(* when its input is low (an inferred latch); some settle, some for some   *)
(* inputs, some never, and some only look like feedback.  And logic that   *)
(* holds state without feeding back: latches that one input opens and the  *)
(* other feeds.                                                            *)
(***************************************************************************)
EXTENDS KernelReference, KernelAnswer, Designs

(* A SignalId is an index into Module::signals.  The clock is an input     *)
(* like another: a driver can set it without an edge, and logic can read it.*)
clk  == 1
i    == 2
r    == 3
a    == 4
b    == 5
m    == 6
c    == 7

MCSignals == 1..7
MCWidth   == [s \in MCSignals |-> 1]
MCDepth   == [s \in MCSignals |-> IF s = m THEN 2 ELSE 0]
MCInputs  == {clk, i}

(* a, b, m and c in dependency order, with what each computes.             *)
Equation == [n \in {a, b, m, c} |->
    CASE n = a -> Bin("Xor", Ref(i), Ref(r))
      [] n = b -> Un("Not", Ref(a), 1)
      [] n = m -> Bin("Or", Ref(a), Ref(clk))
      [] n = c -> Bin("Xor", At(m, Ref(a)), Un("BitwiseNot", Ref(b), 1))]

(* A default that is then overridden; a case; an element of an array, and  *)
(* the other from it, so that the block reads what it has written.         *)
Block(n) ==
    CASE n \in {a, c} ->
            <<BA(n, Whole, Lit(0)), IfElse(Equation[n], <<BA(n, Whole, Lit(1))>>, <<>>)>>
      [] n = b ->
            <<CaseOf(Ref(a), <<Arm(<<Wild(1, 1)>>, <<BA(b, <<0, 0>>, Lit(0))>>)>>,
                     <<BA(b, Whole, Lit(1))>>)>>
      [] n = m ->
            <<BArray(m, Ref(b), Equation[m]),
              BArray(m, Un("Not", Ref(b), 1), Un("Not", At(m, Ref(b)), 1))>>

Toggle == <<NBA(r, Whole, Un("Not", Ref(r), 1))>>

Chains ==
    UNION {{Design([k \in DOMAIN o |-> Assigned(o[k], Equation[o[k]])],
                   [k \in DOMAIN p |-> Block(p[k])], <<Toggle>>) :
                o \in Orders(S), p \in Orders({a, b, m, c} \ S)} :
           S \in SUBSET {a, b, c}}

-----------------------------------------------------------------------------

I == Ref(i)
X == Ref(a)
Y == Ref(b)

Pool == {I, X, Y, Un("Not", X, 1), Un("Not", Y, 1), Bin("Or", I, Bin("Xor", X, Y)),
         Bin("And", I, Un("Not", X, 1)), Bin("Or", X, Y), Bin("And", Y, Un("Not", Y, 1))}

Latch(n, f) == <<IfElse(I, <<BA(n, Whole, f)>>, <<>>)>>

(* c is downstream of the loop, and never part of it.                      *)
Observer == Assigned(c, Bin("Xor", X, I))

Feedback ==
    {Design(<<Observer, Assigned(a, f), Assigned(b, g)>>, <<>>, <<>>) : f, g \in Pool}
        \cup {Design(<<Assigned(a, f), Observer>>, <<Latch(b, g)>>, <<>>) : f, g \in Pool}

-----------------------------------------------------------------------------

(* The latch of b reads the other input or a net computed from it and from *)
(* the register; c is downstream of it.                                    *)
Latches ==
    {Design(<<Assigned(c, Bin("Xor", Y, I)), Assigned(a, f)>>, <<Latch(b, g)>>, <<Toggle>>) :
        f \in {Ref(clk), Bin("Xor", Ref(clk), Ref(r))}, g \in {X, Un("Not", X, 1), Ref(clk)}}

-----------------------------------------------------------------------------

MCModules == Chains \cup Feedback \cup Latches
MCStmts == AllStmts(MCModules)
MCExprs == AllExprs(MCModules)
MCDrive == {0, 1}
=============================================================================
