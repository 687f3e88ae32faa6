----------------------------- MODULE LogicDepth -----------------------------
(***************************************************************************)
(* How deep the combinational logic of a module is.  A unit of it is an    *)
(* assignment or a block.  Units have ranks when what each makes of its    *)
(* nets depends only on what units of lower ranks drive, and on what none  *)
(* drives: by the values it computes, not by the names it reads.  Logic    *)
(* that feeds back has no ranks, nor has a latch, which depends on what it *)
(* has held.                                                               *)
(***************************************************************************)
EXTENDS Naturals

CONSTANTS
    SignalId,        \* The signals.
    States,          \* The states <<values, arrays>>.
    Zero,            \* The one in which everything is 0.
    Drives(_, _),    \* Drives(m, u): the slots that unit u of m drives.
    Made(_, _, _)    \* Made(m, u, st): what unit u of m makes of state st.

Units(m) ==
    ({"assign"} \X DOMAIN m.assigns) \cup ({"comb"} \X DOMAIN m.comb_processes)

(* A signal's slot in values is <<s, 1>>, its slot in arrays <<s, 2>>.     *)
Slots == SignalId \X {1, 2}
In(st, slot) == st[slot[2]][slot[1]]

Agree(s, t, S) == \A x \in S : In(s, x) = In(t, x)

(* State st with nothing left of the slots outside S.                      *)
Only(st, S) ==
    [k \in {1, 2} |-> [s \in SignalId |-> IF <<s, k>> \in S THEN st[k][s] ELSE Zero[k][s]]]

(* What unit u makes of the slots it drives depends on those of S only.    *)
DependsOnly(m, u, S) ==
    \A st \in States : Agree(Made(m, u, st), Made(m, u, Only(st, S)), Drives(m, u))

(* The slots that none of these units drives.                              *)
Apart(m, V) == Slots \ UNION {Drives(m, v) : v \in V}

(* The units that a unit of this rank must not depend on, itself included. *)
From(m, rank, n) == {v \in Units(m) : rank[v] >= n}

(* Each unit depends only on what is of lower rank.                        *)
Ranked(m, rank) == \A u \in Units(m) : DependsOnly(m, u, Apart(m, From(m, rank, rank[u])))

(* The numbers of ranks, up to the limit, that are enough for the logic of *)
(* m: Ranked, with DependsOnly decided once for each set of units.         *)
Enough(m, limit) ==
    LET Sets(u) == {V \in SUBSET Units(m) : u \in V /\ DependsOnly(m, u, Apart(m, V))}
        free == UNION {{<<u, V>> : V \in Sets(u)} : u \in Units(m)}
    IN  {n \in 0..limit :
            \E rank \in [Units(m) -> 1..n] :
                \A u \in Units(m) : <<u, From(m, rank, rank[u])>> \in free}
=============================================================================
