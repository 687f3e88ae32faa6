---------------------------- MODULE MCKernelEdge ----------------------------
(***************************************************************************)
(* Kernel on clocked designs: every body of one or two statements of a     *)
(* pool of non-blocking and blocking writes, whole, partial and to an      *)
(* array (an index can be past its end), under if and case, in one process *)
(* and, for writes to separate registers, in two.                          *)
(***************************************************************************)
EXTENDS KernelReference, KernelWrites, Designs

(* A SignalId is an index into Module::signals.                            *)
clk  == 1
d    == 2
p    == 3
q    == 4
m    == 5
w    == 6

MCSignals == 1..6
MCWidth   == [s \in MCSignals |-> CASE s \in {p, q} -> 2 [] OTHER -> 1]
MCDepth   == [s \in MCSignals |-> IF s = m THEN 2 ELSE 0]
MCInputs  == {d}

D == Ref(d)
P == Ref(p)
Q == Ref(q)
W == Ref(w)

(* w reads registers, an array element and the input; the sum can carry    *)
(* into a bit that w does not have.                                        *)
Net == <<Assigned(w, Bin("Add", Bin("Lt", P, Q), Bin("Xor", D, At(m, Lit(0)))))>>

Swap     == NBA(p, Whole, Q)
Count    == NBA(q, Whole, Bin("Add", P, Lit(1)))
TopBit   == NBA(p, <<1, 1>>, D)
LowBit   == NBA(p, <<0, 0>>, W)
Store    == NBArray(m, P, D)
Load     == IfElse(W, <<NBA(q, Whole, At(m, Q))>>, <<NBA(q, <<0, 0>>, At(m, P))>>)
Step     == BA(p, Whole, Bin("Sub", P, Lit(1)))
StepTop  == BA(p, <<1, 1>>, Q)
StoreNow == BArray(m, Q, W)
Decode   == CaseOf(Q, <<Arm(<<Exactly(Lit(0)), Exactly(P)>>, <<Count, LowBit>>),
                        Arm(<<Wild(2, 2)>>, <<NBA(q, Whole, Lit(0))>>)>>,
                   <<NBArray(m, Lit(1), W), NBA(q, Whole, Lit(3))>>)

Pool == {Swap, Count, TopBit, LowBit, Store, Load, Step, StepTop, StoreNow, Decode}

OneProcess ==
    {Design(Net, <<>>, <<<<s, t>>>>) : s, t \in Pool}
        \cup {Design(Net, <<>>, <<<<s, t, u>>>>) :
                  s, t, u \in {Swap, TopBit, LowBit, StepTop, Store, StoreNow}}
TwoProcesses ==
    {Design(Net, <<>>, <<<<s>>, <<t>>>>) : s \in {Swap, TopBit, Step, StepTop}, t \in {Count, Load}}
    \cup {Design(Net, <<>>, <<<<Load>>, <<s>>, <<t>>>>) : s \in {Swap, Step}, t \in {Store, StoreNow}}

MCModules == OneProcess \cup TwoProcesses
MCStmts   == AllStmts(MCModules)
MCExprs   == AllExprs(MCModules)
(* 3 does not fit the input and is cut to 1.                               *)
MCDrive   == {0, 3}
=============================================================================
