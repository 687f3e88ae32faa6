---------------------------- MODULE KernelAnswer ----------------------------
(***************************************************************************)
(* The kernel as an implementation of AnswerSim: that logic with ranks has *)
(* one answer, which no order of declaration and no grouping of the driven *)
(* inputs into calls can change.                                           *)
(***************************************************************************)
EXTENDS KernelDepth

(* What a driver can ask set_all for, and the state with these inputs set. *)
Requests == UNION {[D -> DriveWord] : D \in SUBSET Inputs}

With(st, request) ==
    <<[s \in SignalId |->
          IF s \in DOMAIN request THEN Mask(request[s], Width[s]) ELSE st[1][s]],
      st[2]>>

(* The request that asks for both, for the later where they disagree.      *)
Both(first, later) ==
    [s \in DOMAIN first \cup DOMAIN later |->
        IF s \in DOMAIN later THEN later[s] ELSE first[s]]

-----------------------------------------------------------------------------

(* The slots that no combinational logic of m drives.                      *)
Undriven(m) == Logic!Slots \ UNION {Drives(m, u) : u \in Logic!Units(m)}

(* end is an answer to the state held: it solves the equations of m, and   *)
(* differs in what they drive only.                                        *)
Answers(m, held, end) == Solves(m, end) /\ Logic!Agree(held, end, Undriven(m))

-----------------------------------------------------------------------------
(***************************************************************************)
(* A module without the order of its assignments and combinational blocks. *)
(***************************************************************************)

LogicOf(m) ==
    [assigns |-> {m.assigns[i] : i \in DOMAIN m.assigns},
     blocks |-> {m.comb_processes[i].body : i \in DOMAIN m.comb_processes},
     clocked_processes |-> m.clocked_processes]

LogicSolves(l, st) ==
    /\ \A a \in l.assigns : st[1][a.target] = Mask(Eval(a.value, st[1], st[2]), Width[a.target])
    /\ \A b \in l.blocks : RunBody(b, st) = st

LogicDrives(l) ==
    {<<a.target, 1>> : a \in l.assigns} \cup UNION {SlotsOf(Within(b)) : b \in l.blocks}

Answer(l, held) ==
    LET kept == Logic!Slots \ LogicDrives(l)
    IN  CHOOSE end \in AllStates : Logic!Agree(held, end, kept) /\ LogicSolves(l, end)

Sim == INSTANCE AnswerSim WITH
    logic  <- LogicOf(module),
    status <- IF pc = "panic" THEN "panic"
              ELSE IF caller = "new" /\ pc # "idle" THEN "new" ELSE "ready",
    state  <- shown

(* Every call on a module whose logic is not as deep as the limit on       *)
(* passes is a step of AnswerSim: it returns, with the one answer to what  *)
(* it holds, whatever the order of the module's declarations.              *)
ImplementsAnswerSim == Sim!Init /\ [][Shallow => Sim!Next]_(Sim!vars)

-----------------------------------------------------------------------------
(***************************************************************************)
(* An inductive invariant, which AnswerProofs proves.                      *)
(***************************************************************************)

(* The states the settle that runs can have started from.                  *)
Starts ==
    CASE caller = "new"        -> {Zero}
      [] caller = "set_all"    -> {With(shown, request) : request \in Requests}
      [] caller = "tick_after" -> {EdgeOf(module, shown)}

(* It has moved nothing that its module's logic does not drive.            *)
StartInv ==
    Settling /\ caller # "tick_before" =>
        \E start \in Starts : Logic!Agree(start, Now, Undriven(module))
=============================================================================
