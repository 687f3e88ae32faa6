------------------------------- MODULE Kernel -------------------------------
(***************************************************************************)
(* The simulation kernel, crates/ictus-kernel: a Simulation of one module, *)
(* driven by set_all and tick, re-settling its combinational logic to a    *)
(* fixpoint around every change.                                           *)
(*                                                                         *)
(* The program is one thread.  The model runs it in small steps: a step is *)
(* one continuous assignment, one statement or one committed write, so     *)
(* every intermediate state a later statement can read is a state of the   *)
(* model.  pc says which loop the thread is in, caller which method called *)
(* settle_combinational, and todo is the rest of the body eval_stmts still *)
(* has to run: the recursion into a branch puts the branch in front of it. *)
(***************************************************************************)
EXTENDS Ir

CONSTANTS
    Modules,       \* The modules a simulation may be created for.
    Inputs,        \* The signals a driver sets.
    DriveWord,     \* The values it sets them to, before they are masked.
    MAX_PASSES,    \* Passes after which settling gives up.
    Eval(_, _, _)  \* eval_expr(expr, values, arrays).

ASSUME InputsAssumption == Inputs \subseteq SignalId /\ DriveWord \subseteq Word

ASSUME PassesAssumption == MAX_PASSES \in Nat \ {0}

ASSUME StmtAssumption == \A s \in Stmt : WellFormed(s, Stmt)

(* reject_multiple_drivers also refuses a module that drives an input.     *)
ASSUME ModulesAssumption ==
    \A m \in Modules : ModuleOK(m) /\ \A s \in Inputs : Drivers(m, s) = {}

(* Evaluation yields a machine word, whatever the state it reads.          *)
ASSUME EvalAssumption ==
    \A e \in Expr, v \in Values, a \in Arrays : Eval(e, v, a) \in Word

VARIABLES
    module,    \* The module simulated; never changes.
    values,    \* The value of every scalar signal.
    arrays,    \* The contents of every array signal.
    pc,        \* "idle", or the loop the thread is in.
    caller,    \* The method that is settling, or settled last.
    pass,      \* Passes begun by this settle_combinational.
    cursor,    \* The next assignment or process of the current loop.
    todo,      \* The statements eval_stmts has still to run.
    updates,   \* The queue of pending non-blocking writes.
    before,    \* <<values, arrays>> as this pass began.
    unstable,  \* The signals the panic message names.
    shown      \* History: <<values, arrays>> when the last call returned.

vars == <<module, values, arrays, pc, caller, pass, cursor, todo, updates,
          before, unstable, shown>>

-----------------------------------------------------------------------------
(***************************************************************************)
(* Writes.                                                                 *)
(***************************************************************************)

(* Variants named Wrong... are mistakes the code could have made.  Nothing *)
(* uses them; the properties below are known to tell them apart from the   *)
(* definitions they follow.                                                *)

(* Wrong: a whole-signal write is not cut to the signal's width.           *)
WrongWriteScalarUnmasked(vals, target, range, value) ==
    [vals EXCEPT ![target] =
        IF range = None THEN value
        ELSE Mask(Insert(@, range[1], range[2], value), Width[target])]

(* apply_write, scalar: the whole signal or a range of it.                 *)
WriteScalar(vals, target, range, value) ==
    [vals EXCEPT ![target] =
        Mask(IF range = None THEN value ELSE Insert(@, range[1], range[2], value),
             Width[target])]

(* apply_write, array: an index past the end drops the write.              *)
WriteArray(arrs, array, index, value) ==
    IF index \in Elements(array)
    THEN [arrs EXCEPT ![array][index] = Mask(value, Width[array])]
    ELSE arrs

PendingWrite ==
    [kind : {"Scalar"}, target : SignalId, range : Ranges, value : Word]
        \cup [kind : {"Array"}, array : SignalId, index : Word, value : Word]

(* The write statement s asks for, evaluated in the state vals, arrs.      *)
EvalWrite(s, vals, arrs) ==
    IF s.kind \in ScalarKinds
    THEN [kind |-> "Scalar", target |-> s.target, range |-> s.range,
          value |-> Eval(s.value, vals, arrs)]
    ELSE [kind |-> "Array", array |-> s.array,
          index |-> Eval(s.index, vals, arrs),
          value |-> Eval(s.value, vals, arrs)]

ApplyWrite(w) ==
    \/ /\ w.kind = "Scalar"
       /\ values' = WriteScalar(values, w.target, w.range, w.value)
       /\ UNCHANGED arrays
    \/ /\ w.kind = "Array"
       /\ arrays' = WriteArray(arrays, w.array, w.index, w.value)
       /\ UNCHANGED values

(* case_value_matches *)
CaseValueMatches(v, selector, vals, arrs) ==
    IF v.kind = "Exact"
    THEN Eval(v.expr, vals, arrs) = selector
    ELSE \A i \in 0..(WordWidth - 1) :
            Bit(v.care_mask, i) = 1 => Bit(selector, i) = Bit(v.value, i)

(* Arm i of case statement s has an item that matches.                     *)
ArmMatches(s, i, vals, arrs) ==
    \E k \in DOMAIN s.arms[i].values :
        CaseValueMatches(s.arms[i].values[k], Eval(s.selector, vals, arrs), vals, arrs)

-----------------------------------------------------------------------------
(***************************************************************************)
(* Simulation::new, and the two methods a driver calls.                    *)
(***************************************************************************)

Init ==
    /\ module \in Modules
    /\ values = [s \in SignalId |-> 0]
    /\ arrays = [s \in SignalId |-> [i \in Elements(s) |-> 0]]
    /\ pc = "assigns"
    /\ caller = "new"
    /\ pass = 1
    /\ cursor = 1
    /\ todo = <<>>
    /\ updates = <<>>
    /\ before = <<values, arrays>>
    /\ unstable = {}
    /\ shown = <<values, arrays>>

BeginPass ==
    /\ pc' = "assigns"
    /\ cursor' = 1
    /\ before' = <<values', arrays'>>

(* Wrong: the passes are counted over all calls together.                  *)
WrongBeginSettleKeepsCount(who) ==
    /\ caller' = who
    /\ pass' = pass
    /\ BeginPass

(* The call of settle_combinational from method who.                       *)
BeginSettle(who) ==
    /\ caller' = who
    /\ pass' = 1
    /\ BeginPass

(* Wrong: set_all leaves the re-settling to the caller.                    *)
WrongSetAllUnsettled ==
    /\ pc = "idle"
    /\ \E D \in SUBSET Inputs : \E request \in [D -> DriveWord] :
          values' = [s \in SignalId |->
                        IF s \in D THEN Mask(request[s], Width[s]) ELSE values[s]]
    /\ shown' = <<values', arrays>>
    /\ UNCHANGED <<module, arrays, pc, caller, pass, cursor, todo, updates, before, unstable>>

(* Wrong: it settles after each signal it writes.                          *)
WrongSetAllOneByOne ==
    /\ \/ pc = "idle"
       \/ /\ caller = "set_all" /\ pc = "comb" /\ todo = <<>>
          /\ cursor > Len(module.comb_processes) /\ <<values, arrays>> = before
    /\ \E s \in Inputs, word \in DriveWord :
          values' = [values EXCEPT ![s] = Mask(word, Width[s])]
    /\ UNCHANGED arrays
    /\ BeginSettle("set_all")
    /\ UNCHANGED <<module, todo, updates, unstable, shown>>

(* set_all: every requested signal is written before anything settles.     *)
SetAll ==
    /\ pc = "idle"
    /\ \E D \in SUBSET Inputs : \E request \in [D -> DriveWord] :
          values' = [s \in SignalId |->
                        IF s \in D THEN Mask(request[s], Width[s]) ELSE values[s]]
    /\ UNCHANGED arrays
    /\ BeginSettle("set_all")
    /\ UNCHANGED <<module, todo, updates, unstable, shown>>

(* tick, up to its first settle.                                           *)
Tick ==
    /\ pc = "idle"
    /\ UNCHANGED <<values, arrays>>
    /\ BeginSettle("tick_before")
    /\ UNCHANGED <<module, todo, updates, unstable, shown>>

-----------------------------------------------------------------------------
(***************************************************************************)
(* settle_pass: every assign, then every combinational process.            *)
(***************************************************************************)

SettleAssign ==
    /\ pc = "assigns"
    /\ cursor <= Len(module.assigns)
    /\ LET a == module.assigns[cursor]
       IN  values' = WriteScalar(values, a.target, None, Eval(a.value, values, arrays))
    /\ cursor' = cursor + 1
    /\ UNCHANGED <<module, arrays, pc, caller, pass, todo, updates, before, unstable, shown>>

EndAssigns ==
    /\ pc = "assigns"
    /\ cursor > Len(module.assigns)
    /\ pc' = "comb"
    /\ cursor' = 1
    /\ UNCHANGED <<module, values, arrays, caller, pass, todo, updates, before, unstable, shown>>

(* Wrong: the settle loop runs the clocked processes.                      *)
WrongProcesses == module.clocked_processes

(* The processes the current loop runs.                                    *)
Processes == IF pc = "comb" THEN module.comb_processes ELSE module.clocked_processes

StartProcess ==
    /\ pc \in {"comb", "clocked"}
    /\ todo = <<>>
    /\ cursor <= Len(Processes)
    /\ todo' = Processes[cursor].body
    /\ cursor' = cursor + 1
    /\ UNCHANGED <<module, values, arrays, pc, caller, pass, updates, before, unstable, shown>>

-----------------------------------------------------------------------------
(***************************************************************************)
(* eval_stmts: one action per kind of statement.                           *)
(***************************************************************************)

(* The statement about to run, of one of these kinds, and what running it  *)
(* leaves alone.                                                           *)
Running(kinds) ==
    /\ todo # <<>>
    /\ Head(todo).kind \in kinds
    /\ UNCHANGED <<module, pc, caller, pass, cursor, before, unstable, shown>>

(* Wrong: a non-blocking write lands at once.                              *)
WrongQueueWriteNow ==
    /\ Running(NonBlockingKinds)
    /\ ApplyWrite(EvalWrite(Head(todo), values, arrays))
    /\ todo' = Tail(todo)
    /\ UNCHANGED updates

(* NonBlockingAssign, ArrayAssign: evaluate now, write at the commit.      *)
QueueWrite ==
    /\ Running(NonBlockingKinds)
    /\ updates' = Append(updates, EvalWrite(Head(todo), values, arrays))
    /\ todo' = Tail(todo)
    /\ UNCHANGED <<values, arrays>>

(* BlockingAssign, BlockingArrayAssign: evaluate and write now.            *)
WriteNow ==
    /\ Running(BlockingKinds)
    /\ ApplyWrite(EvalWrite(Head(todo), values, arrays))
    /\ todo' = Tail(todo)
    /\ UNCHANGED updates

Branch ==
    /\ Running({"If"})
    /\ LET s == Head(todo)
       IN  todo' = (IF Eval(s.cond, values, arrays) # 0
                    THEN s.then_branch ELSE s.else_branch) \o Tail(todo)
    /\ UNCHANGED <<values, arrays, updates>>

(* The first arm with a matching item.                                     *)
CaseArm ==
    /\ Running({"Case"})
    /\ \E i \in DOMAIN Head(todo).arms :
          /\ ArmMatches(Head(todo), i, values, arrays)
          /\ \A k \in 1..(i - 1) : ~ArmMatches(Head(todo), k, values, arrays)
          /\ todo' = Head(todo).arms[i].body \o Tail(todo)
    /\ UNCHANGED <<values, arrays, updates>>

CaseDefault ==
    /\ Running({"Case"})
    /\ \A i \in DOMAIN Head(todo).arms : ~ArmMatches(Head(todo), i, values, arrays)
    /\ todo' = Head(todo).default \o Tail(todo)
    /\ UNCHANGED <<values, arrays, updates>>

EvalStmts == QueueWrite \/ WriteNow \/ Branch \/ CaseArm \/ CaseDefault

-----------------------------------------------------------------------------
(***************************************************************************)
(* settle_combinational: passes until a whole one changes nothing.         *)
(***************************************************************************)

PassDone ==
    /\ pc = "comb"
    /\ todo = <<>>
    /\ cursor > Len(module.comb_processes)

(* Wrong: one pass in declaration order is taken for the fixpoint.         *)
WrongQuietAlways == TRUE

(* The pass changed nothing: the state is compared as a whole, not write   *)
(* by write, so a default that is overridden again counts as no change.    *)
Quiet == <<values, arrays>> = before

(* Converged: back to the method that called, which for tick's first       *)
(* settle goes on to the clocked processes.                                *)
ReturnToTick ==
    /\ PassDone
    /\ pass <= MAX_PASSES
    /\ Quiet
    /\ caller = "tick_before"
    /\ pc' = "clocked"
    /\ cursor' = 1
    /\ UNCHANGED <<module, values, arrays, caller, pass, todo, updates, before, unstable, shown>>

ReturnToDriver ==
    /\ PassDone
    /\ pass <= MAX_PASSES
    /\ Quiet
    /\ caller # "tick_before"
    /\ pc' = "idle"
    /\ shown' = <<values, arrays>>
    /\ UNCHANGED <<module, values, arrays, caller, pass, cursor, todo, updates, before, unstable>>

(* Wrong: the passes are not counted.                                      *)
WrongNextPassUncounted ==
    /\ PassDone
    /\ pass <= MAX_PASSES
    /\ ~Quiet
    /\ UNCHANGED <<values, arrays>>
    /\ BeginPass
    /\ UNCHANGED <<module, caller, pass, todo, updates, unstable, shown>>

(* Wrong: later passes run the combinational processes only.               *)
WrongNextPassCombOnly ==
    /\ PassDone
    /\ pass <= MAX_PASSES
    /\ ~Quiet
    /\ pass' = pass + 1
    /\ cursor' = 1
    /\ before' = <<values, arrays>>
    /\ UNCHANGED <<module, values, arrays, pc, caller, todo, updates, unstable, shown>>

(* Another pass; the one after MAX_PASSES only serves the panic message.   *)
NextPass ==
    /\ PassDone
    /\ pass <= MAX_PASSES
    /\ ~Quiet
    /\ UNCHANGED <<values, arrays>>
    /\ pass' = pass + 1
    /\ BeginPass
    /\ UNCHANGED <<module, caller, todo, updates, unstable, shown>>

(* Wrong: the last pass allowed is not given the chance to converge.       *)
WrongPanicEarly ==
    /\ PassDone
    /\ pass = MAX_PASSES
    /\ pc' = "panic"
    /\ unstable' = {s \in SignalId : values[s] # before[1][s]}
    /\ UNCHANGED <<module, values, arrays, caller, pass, cursor, todo, updates, before, shown>>

(* Wrong: the message compares with the state before the call.             *)
WrongPanicOldSnapshot ==
    /\ PassDone
    /\ pass = MAX_PASSES + 1
    /\ pc' = "panic"
    /\ unstable' = {s \in SignalId : values[s] # shown[1][s]}
    /\ UNCHANGED <<module, values, arrays, caller, pass, cursor, todo, updates, before, shown>>

(* The simulation is abandoned; the message compares scalars only.         *)
Panic ==
    /\ PassDone
    /\ pass = MAX_PASSES + 1
    /\ pc' = "panic"
    /\ unstable' = {s \in SignalId : values[s] # before[1][s]}
    /\ UNCHANGED <<module, values, arrays, caller, pass, cursor, todo, updates, before, shown>>

-----------------------------------------------------------------------------
(***************************************************************************)
(* tick, after its first settle.                                           *)
(***************************************************************************)

EndClocked ==
    /\ pc = "clocked"
    /\ todo = <<>>
    /\ cursor > Len(module.clocked_processes)
    /\ pc' = "commit"
    /\ UNCHANGED <<module, values, arrays, caller, pass, cursor, todo, updates, before, unstable, shown>>

(* Wrong: the queue is emptied from its end.                               *)
WrongCommitLast ==
    /\ pc = "commit"
    /\ updates # <<>>
    /\ ApplyWrite(updates[Len(updates)])
    /\ updates' = SubSeq(updates, 1, Len(updates) - 1)
    /\ UNCHANGED <<module, pc, caller, pass, cursor, todo, before, unstable, shown>>

(* The writes land in the order they were queued, so that partial writes   *)
(* to one signal combine and the last write to a bit wins.                 *)
CommitWrite ==
    /\ pc = "commit"
    /\ updates # <<>>
    /\ ApplyWrite(Head(updates))
    /\ updates' = Tail(updates)
    /\ UNCHANGED <<module, pc, caller, pass, cursor, todo, before, unstable, shown>>

EndCommit ==
    /\ pc = "commit"
    /\ updates = <<>>
    /\ UNCHANGED <<values, arrays>>
    /\ BeginSettle("tick_after")
    /\ UNCHANGED <<module, todo, updates, unstable, shown>>

-----------------------------------------------------------------------------

Settle == SettleAssign \/ EndAssigns \/ ReturnToTick \/ ReturnToDriver \/ NextPass \/ Panic

Edge == EndClocked \/ CommitWrite \/ EndCommit

(* What the thread does inside a call, and what a driver calls.            *)
Inside == Settle \/ StartProcess \/ EvalStmts \/ Edge

Call == SetAll \/ Tick

Next == Inside \/ Call

(* A call that has begun keeps running: the thread is never descheduled    *)
(* for ever.  Nothing obliges the driver to call again.                    *)
Spec == Init /\ [][Next]_vars /\ WF_vars(Inside)

-----------------------------------------------------------------------------
(***************************************************************************)
(* Properties.                                                             *)
(***************************************************************************)

Loops == {"idle", "assigns", "comb", "clocked", "commit", "panic"}
Callers == {"new", "set_all", "tick_before", "tick_after"}

(* Every variable has its type.  That a stored value fits its signal's     *)
(* declared width is what the frontend's width pass relies on: apply_write *)
(* and set_all mask, so a read never has bits above the width.             *)
TypeOK ==
    /\ module \in Modules
    /\ values \in Values
    /\ arrays \in Arrays
    /\ pc \in Loops
    /\ caller \in Callers
    /\ pass \in 1..(MAX_PASSES + 1)
    /\ cursor \in Nat \ {0}
    /\ todo \in Seq(Stmt)
    /\ updates \in Seq(PendingWrite)
    /\ before \in Values \X Arrays
    /\ unstable \subseteq SignalId
    /\ shown \in Values \X Arrays

(* Assignment i of the module holds in <<values, arrays>> = st.            *)
AssignHolds(i, st) ==
    LET a == module.assigns[i]
    IN  st[1][a.target] = Mask(Eval(a.value, st[1], st[2]), Width[a.target])

(* A signal changes only by the hand of what drives it: an input when the  *)
(* driver sets it, a register from the edge, a net from settling.  No step *)
(* of one kind ever touches a signal of another.                           *)
Changed(s) == <<values'[s], arrays'[s]>> # <<values[s], arrays[s]>>

ChangedByDriver ==
    [][\A s \in SignalId : Changed(s) =>
          \/ pc = "idle" /\ s \in Inputs
          \/ pc = "assigns" /\ <<"assign", cursor>> \in Drivers(module, s)
          \/ pc = "comb" /\ \E i \in DOMAIN module.comb_processes :
                               <<"comb", i>> \in Drivers(module, s)
          \/ /\ pc \in {"clocked", "commit"}
             /\ \E i \in DOMAIN module.clocked_processes :
                   <<"clocked", i>> \in Drivers(module, s)]_vars

(* Every call ends: it returns to the driver or panics, whatever the       *)
(* design, because settling gives up after MAX_PASSES.                     *)
CallsEnd == pc \notin {"idle", "panic"} ~> pc \in {"idle", "panic"}

(* The clocked processes read the state the driver was last shown: a call  *)
(* always settles before it returns, so the settle at the start of tick    *)
(* finds nothing to do.                                                    *)
EdgeReadsShown ==
    (pc = "clocked" /\ cursor = 1 /\ todo = <<>>) => <<values, arrays>> = shown
-----------------------------------------------------------------------------
(***************************************************************************)
(* Inductive invariants, which KernelProofs proves.                        *)
(***************************************************************************)

CombStmts(m)    == UNION {Within(m.comb_processes[i].body) : i \in DOMAIN m.comb_processes}
ClockedStmts(m) == UNION {Within(m.clocked_processes[i].body) : i \in DOMAIN m.clocked_processes}

Written(w) == IF w.kind = "Scalar" THEN w.target ELSE w.array

(* The writes the clocked processes of m can queue.                        *)
ClockedWrite(m) == {w \in PendingWrite : Written(w) \in Targets(ClockedStmts(m))}

(* What is still to run comes from the processes of the current loop, and  *)
(* what is still to be committed from the clocked processes: settling      *)
(* never finds a write in the queue or leaves one there, which is what the *)
(* debug_assert at the end of settle_pass says.                            *)
DriverInv ==
    /\ pc \notin {"comb", "clocked"} => todo = <<>>
    /\ pc = "comb" => todo \in Seq(CombStmts(module))
    /\ pc = "clocked" => todo \in Seq(ClockedStmts(module))
    /\ pc \notin {"clocked", "commit"} => updates = <<>>
    /\ updates \in Seq(ClockedWrite(module))

(* The target of assignment i has another value than when the pass began.  *)
Moved(i) ==
    LET t == module.assigns[i].target
    IN  values[t] # before[1][t]

(* Whenever a call has returned, and whenever the clocked processes start, *)
(* every assignment holds in the current state.                            *)
AssignsSettled ==
    (pc = "idle" \/ (pc = "clocked" /\ cursor = 1 /\ todo = <<>>)) =>
        \A i \in DOMAIN module.assigns : AssignHolds(i, <<values, arrays>>)

(* Why comparing a whole pass with its start is enough.  As long as the    *)
(* pass has moved nothing, each assignment it has passed held in the state *)
(* it began with; once an assignment's target has moved, nothing later in  *)
(* the pass can move it back, for no other place drives it.  So settling   *)
(* never returns a half-settled state (settle_combinational).              *)
SettleInv ==
    /\ pc = "assigns" =>
          \/ /\ <<values, arrays>> = before
             /\ \A i \in DOMAIN module.assigns : i < cursor => AssignHolds(i, before)
          \/ \E i \in DOMAIN module.assigns : i < cursor /\ Moved(i)
    /\ pc = "comb" =>
          \/ \A i \in DOMAIN module.assigns : AssignHolds(i, before)
          \/ \E i \in DOMAIN module.assigns : Moved(i)
    /\ pc = "clocked" /\ cursor = 1 => todo = <<>>
    /\ AssignsSettled
=============================================================================
