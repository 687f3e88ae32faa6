----------------------------- MODULE KernelCycle -----------------------------
(***************************************************************************)
(* The kernel as an implementation of CycleSim, in a form that can be      *)
(* reasoned about.  What a body of statements and a clock edge compute is  *)
(* defined by the steps of eval_stmts and tick alone, from configuration   *)
(* to configuration: no passes, snapshots or callers.  KernelReference     *)
(* says the same without the steps.                                        *)
(***************************************************************************)
EXTENDS Kernel

-----------------------------------------------------------------------------
(***************************************************************************)
(* Steps of a body and of an edge.                                         *)
(***************************************************************************)

States == Values \X Arrays

(* left are the processes an edge has yet to start, st is the values and   *)
(* arrays so far.                                                          *)
Config ==
    [left : Seq(ClockedProcess), st : States, todo : Seq(Stmt), updates : Seq(PendingWrite)]

Stage(processes, st, body, queue) ==
    [left |-> processes, st |-> st, todo |-> body, updates |-> queue]

(* apply_write, from one state to another.                                 *)
After(w, st) ==
    IF w.kind = "Scalar"
    THEN <<WriteScalar(st[1], w.target, w.range, w.value), st[2]>>
    ELSE <<st[1], WriteArray(st[2], w.array, w.index, w.value)>>

(* Arm i is the one that case statement s takes.                           *)
FirstMatch(s, i, st) ==
    ArmMatches(s, i, st[1], st[2]) /\ \A k \in 1..(i - 1) : ~ArmMatches(s, k, st[1], st[2])

(* What eval_stmts puts in front of the rest: the branch of if or case s   *)
(* that is taken in state st.                                              *)
Taken(s, st) ==
    IF s.kind = "If"
    THEN IF Eval(s.cond, st[1], st[2]) # 0 THEN s.then_branch ELSE s.else_branch
    ELSE IF \E i \in DOMAIN s.arms : FirstMatch(s, i, st)
    THEN s.arms[CHOOSE i \in DOMAIN s.arms : FirstMatch(s, i, st)].body
    ELSE s.default

(* eval_stmts runs the first statement.                                    *)
StmtStep(c) ==
    LET s    == Head(c.todo)
        rest == Tail(c.todo)
        w    == EvalWrite(s, c.st[1], c.st[2])
    IN  IF s.kind \in NonBlockingKinds
        THEN Stage(c.left, c.st, rest, Append(c.updates, w))
        ELSE IF s.kind \in BlockingKinds
        THEN Stage(c.left, After(w, c.st), rest, c.updates)
        ELSE Stage(c.left, c.st, Taken(s, c.st) \o rest, c.updates)

(* The edge starts its next clocked process.                               *)
StartStep(c) == Stage(Tail(c.left), c.st, Head(c.left).body, c.updates)

(* All have run: the edge commits the oldest write of the queue.           *)
CommitStep(c) == Stage(<<>>, After(Head(c.updates), c.st), <<>>, Tail(c.updates))

Ended(c) == c.todo = <<>> /\ c.left = <<>> /\ c.updates = <<>>

StepOf(c) ==
    IF c.todo # <<>> THEN StmtStep(c)
    ELSE IF c.left # <<>> THEN StartStep(c)
    ELSE CommitStep(c)

(* The state that is left when there is nothing more to do.                *)
RunEnd[c \in Config] == IF Ended(c) THEN c.st ELSE RunEnd[StepOf(c)]

-----------------------------------------------------------------------------
(***************************************************************************)
(* The equations of a module, and its edge.                                *)
(***************************************************************************)

(* What running a body makes of st.                                        *)
RunBody(body, st) == RunEnd[Stage(<<>>, st, body, <<>>)]

(* Assignment i of m holds in st.                                          *)
Holds(m, i, st) ==
    LET a == m.assigns[i]
    IN  st[1][a.target] = Mask(Eval(a.value, st[1], st[2]), Width[a.target])

(* Every assignment holds, and every block that is run ends where it began.*)
Solves(m, st) ==
    /\ \A i \in DOMAIN m.assigns : Holds(m, i, st)
    /\ \A i \in DOMAIN m.comb_processes : RunBody(m.comb_processes[i].body, st) = st

(* What the clock edge, from its first process to its last write, makes of *)
(* st.                                                                     *)
EdgeOf(m, st) == RunEnd[Stage(m.clocked_processes, st, <<>>, <<>>)]

(* The signals driven combinationally.                                     *)
Nets(m) == {m.assigns[i].target : i \in DOMAIN m.assigns} \cup Targets(CombStmts(m))

Zero == <<[s \in SignalId |-> 0], [s \in SignalId |-> [i \in Elements(s) |-> 0]]>>

-----------------------------------------------------------------------------

Now == <<values, arrays>>

(* The state a driver can read is the one of the last return.              *)
Cycle == INSTANCE CycleSim WITH
    status <- IF pc = "panic" THEN "panic"
              ELSE IF caller = "new" /\ pc # "idle" THEN "new" ELSE "ready",
    state  <- shown

(* The kernel implements the atomic simulation: each call appears to the   *)
(* driver as one step to a solution of the equations, with the registers   *)
(* of the edge, or to its end in a panic.                                  *)
ImplementsCycleSim == Cycle!Spec

-----------------------------------------------------------------------------
(***************************************************************************)
(* Inductive invariants, which CycleProofs proves.                         *)
(***************************************************************************)

CombBody(i) == module.comb_processes[i].body

(* Block i has changed something that it drives since the pass began.      *)
Disturbed(i) ==
    \E s \in Targets(Within(CombBody(i))) :
        <<values[s], arrays[s]>> # <<before[1][s], before[2][s]>>

(* A pass has finished the blocks below this number.                       *)
Done == IF todo = <<>> THEN cursor ELSE cursor - 1

(* The block that runs is the one before the cursor, and what is left of   *)
(* it are statements of it.                                                *)
BlockInv ==
    pc = "comb" /\ todo # <<>> =>
        /\ cursor - 1 \in DOMAIN module.comb_processes
        /\ todo \in Seq(Within(CombBody(cursor - 1)))

(* Nothing the pass has done so far shows: what has run was at rest in the *)
(* snapshot, and the block that runs has changed only what it drives.      *)
StillQuiet ==
    /\ \A i \in DOMAIN module.comb_processes : i < Done => RunBody(CombBody(i), before) = before
    /\ todo = <<>> => Now = before
    /\ todo # <<>> =>
          /\ RunBody(CombBody(cursor - 1), before) = RunBody(todo, Now)
          /\ \A s \in SignalId \ Targets(Within(CombBody(cursor - 1))) :
                values[s] = before[1][s] /\ arrays[s] = before[2][s]

(* Why a quiet pass proves the blocks at rest: a block that changes what   *)
(* it drives has changed it for the rest of the pass.                      *)
RestInv ==
    pc = "comb" =>
        \/ \E i \in DOMAIN module.assigns : Moved(i)
        \/ \E i \in DOMAIN module.comb_processes : i < Done /\ Disturbed(i)
        \/ StillQuiet

Settling == pc \in {"assigns", "comb"}

(* A call has returned: what the driver is shown is the current state, and *)
(* solves the equations.  Every assignment holds and every combinational   *)
(* block, latch or not, run once more from its first statement to its      *)
(* last, changes nothing (settle_combinational).                           *)
Settled == pc = "idle" => Now = shown /\ Solves(module, shown)

(* Settling moves nothing but nets, whoever called it: all else is as the  *)
(* call has left it.                                                       *)
HeldInv ==
    Settling =>
        /\ caller = "new" => Cycle!Same(Zero, Now, Cycle!Held(module, {}))
        /\ caller = "set_all" => Cycle!Same(shown, Now, Cycle!Held(module, Inputs))
        /\ caller = "tick_after" =>
              Cycle!Same(EdgeOf(module, shown), Now, Cycle!Held(module, {}))

(* The first settle of tick repeats, block by block, a pass that the last  *)
(* call ended with: it ends where it starts.                               *)
TickInv ==
    Settling /\ caller = "tick_before" =>
        /\ Solves(module, shown)
        /\ before = shown
        /\ pass = 1
        /\ RunBody(todo, Now) = shown

(* The edge has come this far from the state the driver was shown.         *)
Remaining == SubSeq(module.clocked_processes, cursor, Len(module.clocked_processes))

EdgeInv ==
    pc \in {"clocked", "commit"} =>
        /\ caller = "tick_before"
        /\ EdgeOf(module, shown) = RunEnd[Stage(Remaining, Now, todo, updates)]
        /\ cursor <= Len(module.clocked_processes) + 1
        /\ pc = "clocked" /\ cursor = 1 => Now = shown
        /\ pc = "commit" => cursor = Len(module.clocked_processes) + 1

CallInv == Settled /\ HeldInv /\ TickInv /\ EdgeInv
=============================================================================
