----------------------------- MODULE KernelDepth -----------------------------
(***************************************************************************)
(* How many passes settling takes: as many as the module's combinational   *)
(* logic has ranks.                                                        *)
(***************************************************************************)
EXTENDS KernelCycle

(* The slots a set of statements writes.                                   *)
SlotsOf(S) ==
    {<<s.target, 1>> : s \in {x \in S : x.kind \in ScalarKinds}}
        \cup {<<s.array, 2>> : s \in {x \in S : x.kind \in ArrayKinds}}

(* What an assignment or a block of m drives, and what it makes of st.     *)
Drives(m, u) ==
    IF u[1] = "assign" THEN {<<m.assigns[u[2]].target, 1>>}
    ELSE SlotsOf(Within(m.comb_processes[u[2]].body))

AssignMakes(a, st) ==
    <<WriteScalar(st[1], a.target, None, Eval(a.value, st[1], st[2])), st[2]>>

Made(m, u, st) ==
    IF u[1] = "assign" THEN AssignMakes(m.assigns[u[2]], st)
    ELSE RunBody(m.comb_processes[u[2]].body, st)

(* The elements of S, for TLC to keep.                                     *)
Listed(S) == {x : x \in S}

AllStates == Listed(Listed(Values) \X Listed(Arrays))

Logic == INSTANCE LogicDepth WITH States <- AllStates

(* The numbers of ranks that are enough for the logic of each module.      *)
Enough == [m \in Modules |-> Logic!Enough(m, MAX_PASSES)]

(* Logic of n ranks settles in n passes, and one that changes nothing,     *)
(* whatever the order of its declarations (settle_combinational).          *)
SettlesInItsDepth ==
    Settling => \A n \in Enough[module] : pass <= n + 1

(* The module's logic is not as deep as the limit on passes.               *)
Shallow == MAX_PASSES - 1 \in Enough[module]

(* The limit never stops logic that is not as deep as it, though by its    *)
(* names it may look like a loop (settle_combinational's panic).           *)
ShallowLogicSettles == pc = "panic" => ~Shallow

-----------------------------------------------------------------------------
(***************************************************************************)
(* An inductive invariant, which DepthProofs proves.                       *)
(***************************************************************************)

Units == Logic!Units(module)

(* Unit u, run from st, leaves what it drives as it is.                    *)
AtRest(u, st) == Logic!Agree(Made(module, u, st), st, Drives(module, u))

(* Unit u has run in this pass.                                            *)
Ran(u) ==
    \/ u[1] = "assign" /\ (pc = "assigns" => u[2] < cursor)
    \/ u[1] = "comb" /\ pc = "comb" /\ u[2] < Done

(* The units that this pass, or an earlier one, has brought to rest.       *)
Brought(rank) == {u \in Units : rank[u] < pass \/ (rank[u] = pass /\ Ran(u))}

(* The state in which the unit that runs began, or the one between units.  *)
Began(st) ==
    IF pc = "assigns" \/ todo = <<>> THEN st = Now
    ELSE /\ RunBody(CombBody(cursor - 1), st) = RunBody(todo, Now)
         /\ Logic!Agree(st, Now, Logic!Slots \ Drives(module, <<"comb", cursor - 1>>))

(* Nothing that has been brought to rest is disturbed, and the pass after  *)
(* the last that logic of n ranks needs has changed nothing.               *)
OnTime(rank, n) ==
    /\ pass <= n + 1
    /\ \E st \in States :
          /\ Began(st)
          /\ \A u \in Brought(rank) : AtRest(u, st)
          /\ pass = n + 1 => st = before

(* Each pass brings the units of one more rank to rest, whatever the order *)
(* in which they are declared; those of lower ranks stay at rest.          *)
DepthInv ==
    \A n \in Nat : \A rank \in [Units -> 1..n] :
        Settling /\ Logic!Ranked(module, rank) => OnTime(rank, n)
=============================================================================
