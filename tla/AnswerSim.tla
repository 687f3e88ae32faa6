------------------------------ MODULE AnswerSim ------------------------------
(***************************************************************************)
(* What a simulation of logic that does not feed back promises its driver. *)
(* Nothing is left to choose but the calls: the state after a call is the  *)
(* one answer of the equations to what the call holds.  The order in which *)
(* assignments and combinational blocks are declared is not known here,    *)
(* and no call is abandoned.                                               *)
(***************************************************************************)
CONSTANTS
    Requests,        \* What a driver can ask set_all for: values for inputs.
    Zero,            \* The state in which everything is 0.
    With(_, _),      \* With(st, request): st with these inputs set.
    EdgeOf(_, _),    \* The state the clock edge makes of a state.
    Answer(_, _)     \* The state that solves the equations and keeps the
                     \* rest of this one.

VARIABLES
    logic,     \* The equations and clocked processes simulated.
    status,    \* "new" until the constructor returns, then "ready".
    state      \* <<values, arrays>>, as a driver can read them.

vars == <<logic, status, state>>

Init == status = "new" /\ state = Zero

New ==
    /\ status = "new"
    /\ status' = "ready"
    /\ state' = Answer(logic, Zero)
    /\ UNCHANGED logic

Drive ==
    /\ status = "ready"
    /\ \E request \in Requests : state' = Answer(logic, With(state, request))
    /\ UNCHANGED <<logic, status>>

Tick ==
    /\ status = "ready"
    /\ state' = Answer(logic, EdgeOf(logic, state))
    /\ UNCHANGED <<logic, status>>

Next == New \/ Drive \/ Tick

Spec == Init /\ [][Next]_vars
=============================================================================
