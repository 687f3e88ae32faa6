------------------------------ MODULE CycleSim ------------------------------
(***************************************************************************)
(* What a simulation promises its driver, with no passes, queues or order  *)
(* of evaluation in it.  A call is one atomic step.  After every call the  *)
(* combinational nets solve the module's equations; driving inputs changes *)
(* nothing else but nets; a tick gives every register the value the edge   *)
(* computes from the state the driver was shown, and moves no input.       *)
(***************************************************************************)
CONSTANTS
    Modules,         \* The modules that can be simulated.
    SignalId,        \* Their signals.
    Inputs,          \* The signals a driver sets.
    Zero,            \* The state in which everything is 0.
    Nets(_),         \* The signals of a module driven combinationally.
    Solves(_, _),    \* A state solves the equations of a module's nets.
    EdgeOf(_, _)     \* The state a module's clock edge makes of a state.

VARIABLES
    module,    \* The module simulated.
    status,    \* "new" until the constructor returns, then "ready"; or "panic".
    state      \* <<values, arrays>>, as a driver can read them.

vars == <<module, status, state>>

(* t agrees with s on every signal of S, scalars and arrays alike.         *)
Same(s, t, S) == \A x \in S : t[1][x] = s[1][x] /\ t[2][x] = s[2][x]

(* The signals a call that changes only S leaves alone.                    *)
Held(m, S) == SignalId \ (Nets(m) \cup S)

Init == module \in Modules /\ status = "new" /\ state = Zero

New ==
    /\ status = "new"
    /\ status' = "ready"
    /\ Same(Zero, state', Held(module, {}))
    /\ Solves(module, state')
    /\ UNCHANGED module

Drive ==
    /\ status = "ready"
    /\ Same(state, state', Held(module, Inputs))
    /\ Solves(module, state')
    /\ UNCHANGED <<module, status>>

Tick ==
    /\ status = "ready"
    /\ Same(EdgeOf(module, state), state', Held(module, {}))
    /\ Solves(module, state')
    /\ UNCHANGED <<module, status>>

(* A call may be abandoned, when the equations have no solution that it    *)
(* can find.  Nothing can be done with the simulation any more.            *)
Abandon ==
    /\ status # "panic"
    /\ status' = "panic"
    /\ UNCHANGED <<module, state>>

Next == New \/ Drive \/ Tick \/ Abandon

Spec == Init /\ [][Next]_vars
=============================================================================
