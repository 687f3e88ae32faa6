---------------------------- MODULE MCKernelLatch ----------------------------
(***************************************************************************)
(* Kernel on an inferred latch whose enable is computed by another block:  *)
(*     always @* n = ~i;                                                   *)
(*     always @* if (i & n) held = 1;                                      *)
(* The enable is never 1 in a settled state.                               *)
(***************************************************************************)
EXTENDS KernelReference, Designs

(* A SignalId is an index into Module::signals.                            *)
clk  == 1
i    == 2
n    == 3
held == 4

MCSignals == 1..4
MCWidth   == [s \in MCSignals |-> 1]
MCDepth   == [s \in MCSignals |-> 0]
MCInputs  == {i}

Inverter == <<BA(n, Whole, Un("Not", Ref(i), 1))>>
Latch    == <<IfElse(Bin("And", Ref(i), Ref(n)), <<BA(held, Whole, Lit(1))>>, <<>>)>>

MCModules == {Design(<<>>, <<Inverter, Latch>>, <<>>)}
MCStmts   == AllStmts(MCModules)
MCExprs   == AllExprs(MCModules)
MCDrive   == {0, 1}
=============================================================================
