--------------------------- MODULE KernelReference ---------------------------
(***************************************************************************)
(* What the kernel's calls must compute, said without its loops: the       *)
(* equations settling has to solve, and the state a clock edge makes of    *)
(* the state before it, bit by bit.  The properties of Kernel that need    *)
(* these definitions are stated here.                                      *)
(***************************************************************************)
EXTENDS KernelCycle, IrVisit, BodyMeaning

LOCAL INSTANCE TLC              \* @@
LOCAL INSTANCE Relation         \* TransitiveClosure
LOCAL INSTANCE SequencesExt     \* FlattenSeq

RECURSIVE RunAll(_, _)
RunAll(processes, st) ==
    IF processes = <<>> THEN st ELSE RunAll(Tail(processes), Run(Head(processes).body, st))

(* The state the clock edge makes of <<values, arrays>>.                   *)
EdgeResolved(m, pre) ==
    LET st == RunAll(m.clocked_processes, State(pre[1], pre[2], <<>>))
    IN  <<[s \in SignalId |-> Committed(st.queue, s, -1, st.values[s])],
          [s \in SignalId |-> [i \in Elements(s) |-> Committed(st.queue, s, i, st.arrays[s][i])]]>>

-----------------------------------------------------------------------------
(***************************************************************************)
(* The equations of the combinational nets.                                *)
(***************************************************************************)

(* Every assignment holds, and running a combinational block changes       *)
(* nothing.                                                                *)
EquationsHold(m, st) ==
    /\ \A i \in DOMAIN m.assigns :
          LET t == m.assigns[i].target
          IN  st[1][t] = Overwritten(t, 0, None, Eval(m.assigns[i].value, st[1], st[2]))
    /\ \A i \in DOMAIN m.comb_processes :
          Run(m.comb_processes[i].body, State(st[1], st[2], <<>>)) = State(st[1], st[2], <<>>)

-----------------------------------------------------------------------------
(***************************************************************************)
(* Settling as a function: what the passes over a module's combinational   *)
(* logic, in its declaration order, make of a starting state.              *)
(***************************************************************************)

(* The assignments and blocks of m as one body, in the order of a pass.    *)
PassBody(m) ==
    [i \in DOMAIN m.assigns |->
        [kind |-> "BlockingAssign", target |-> m.assigns[i].target, range |-> None,
         value |-> m.assigns[i].value]]
      \o FlattenSeq([i \in DOMAIN m.comb_processes |-> m.comb_processes[i].body])

RECURSIVE Passes(_, _, _)
Passes(body, st, n) ==
    LET next == Run(body, st)
    IN  IF next = st \/ n = 0 THEN next ELSE Passes(body, next, n - 1)

SettleOf(m, st) ==
    LET end == Passes(PassBody(m), State(st[1], st[2], <<>>), MAX_PASSES)
    IN  <<end.values, end.arrays>>

Permuted(seq) ==
    {[i \in DOMAIN seq |-> seq[p[i]]] :
        p \in {q \in [DOMAIN seq -> DOMAIN seq] : \A i, k \in DOMAIN seq : i # k => q[i] # q[k]}}

(* The module with its declarations in other orders.                       *)
Reorderings(m) ==
    {[m EXCEPT !.assigns = x, !.comb_processes = y] :
        x \in Permuted(m.assigns), y \in Permuted(m.comb_processes)}

-----------------------------------------------------------------------------
(***************************************************************************)
(* Properties.                                                             *)
(***************************************************************************)

Reference == INSTANCE CycleSim WITH
    status <- IF pc = "panic" THEN "panic"
              ELSE IF caller = "new" /\ pc # "idle" THEN "new" ELSE "ready",
    state  <- shown,
    Solves <- EquationsHold,
    EdgeOf <- EdgeResolved

(* CycleSim with the equations and the edge of this module: the state that *)
(* a call shows has the registers that the queued writes, resolved bit by  *)
(* bit and the last one winning, give (eval_stmts, tick, apply_write).     *)
ImplementsReference == Reference!Spec

(* The state with the inputs in D as they now are.                         *)
WithInputs(st, D) ==
    <<[s \in D |-> values[s]] @@ st[1], st[2]>>

(* Signal s is computed from t without a register in between: the same     *)
(* assignment or combinational block writes s and reads t.                 *)
DependsOn(m, s, t) ==
    \/ \E i \in DOMAIN m.assigns :
          m.assigns[i].target = s /\ t \in Reads(m.assigns[i].value)
    \/ \E i \in DOMAIN m.comb_processes :
          LET body == m.comb_processes[i].body
          IN  s \in Targets(StmtsOf(body)) /\ t \in BodyReads(body)

(* The nets computed from themselves, through any number of others.        *)
OnLoop(m) ==
    LET depends == TransitiveClosure([x, y \in Nets(m) |-> DependsOn(m, x, y)], Nets(m))
    IN  {s \in Nets(m) : depends[s, s]}

(* The modules without loops.  Those of arrays do not count: a block may   *)
(* read the element it has written.                                        *)
Loopless == {m \in Modules : \A s \in OnLoop(m) : Depth[s] > 0}

(* The state st with nothing in the signals of T.                          *)
Emptied(st, T) ==
    <<[s \in SignalId |-> IF s \in T /\ Depth[s] = 0 THEN 0 ELSE st[1][s]],
      [s \in SignalId |-> [k \in Elements(s) |-> IF s \in T THEN 0 ELSE st[2][s][k]]]>>

(* What a block makes of the signals it drives depends on what they held:  *)
(* an inferred latch, that does not assign on every path.                  *)
HoldsState(body) ==
    \E v \in Values, arrs \in Arrays :
        LET none == Emptied(<<v, arrs>>, Targets(StmtsOf(body)))
        IN  Run(body, State(v, arrs, <<>>)) # Run(body, State(none[1], none[2], <<>>))

CombBodies(m) == {m.comb_processes[i].body : i \in DOMAIN m.comb_processes}
Holding == {body \in UNION {CombBodies(m) : m \in Loopless} : HoldsState(body)}

(* Ordinary combinational logic: no loop, and no block that holds state.   *)
Stateless == {m \in Loopless : CombBodies(m) \cap Holding = {}}

(* The state the last settle of the current call started from.             *)
SettledFrom ==
    CASE caller = "new"        -> Zero
      [] caller = "set_all"    -> WithInputs(shown, Inputs)
      [] caller = "tick_after" -> EdgeResolved(module, shown)

(* The order in which assignments and combinational blocks are declared    *)
(* does not affect the state a call returns with, of a module without      *)
(* combinational loops.                                                    *)
OrderDoesNotMatter ==
    [][pc # "idle" /\ pc' = "idle" /\ module \in Loopless =>
          \A m \in Reorderings(module) : SettleOf(m, SettledFrom) = shown']_vars

(* The state after the inputs in D are set and settled, then the others.   *)
SetOneByOne(D) ==
    LET first == SettleOf(module, WithInputs(shown, D))
    IN  SettleOf(module, WithInputs(first, Inputs))

(* Driving inputs in one set_all is indistinguishable from driving them    *)
(* with one set after another, in any order, unless there is a loop or a   *)
(* block that holds state, for which set_all is made.                      *)
SetAllIsRepeatedSet ==
    [][pc # "idle" /\ pc' = "idle" /\ caller = "set_all" /\ module \in Stateless =>
          \A D \in SUBSET Inputs : SetOneByOne(D) = shown']_vars

(* Block i of the module is one if without an else that only inputs open.  *)
OpenedByInputs(i) ==
    LET body == module.comb_processes[i].body
    IN  /\ Len(body) = 1 /\ body[1].kind = "If"
        /\ body[1].else_branch = <<>> /\ Reads(body[1].cond) \subseteq Inputs

(* A latch that a call leaves closed holds what it held before the call,   *)
(* whatever else the call drives or clocks: its inputs are written in one  *)
(* instant, and it never captures what a signal is on the way (set_all).   *)
ClosedLatchesHold ==
    [][pc # "idle" /\ pc' = "idle" =>
          \A i \in DOMAIN module.comb_processes :
              LET body == module.comb_processes[i].body
              IN  OpenedByInputs(i) /\ EvalExpr(body[1].cond, values, arrays) = 0 =>
                      \A s \in Targets(StmtsOf(body)) :
                          values[s] = shown[1][s] /\ arrays[s] = shown[2][s]]_vars

(* A call panics only in a module with a combinational loop, and the       *)
(* message is right: among the signals it names there is one that depends  *)
(* on itself with no register in between.                                  *)
PanicNamesALoop ==
    pc = "panic" => unstable \cap OnLoop(module) # {}
=============================================================================
