---------------------------- MODULE KernelWrites ----------------------------
(***************************************************************************)
(* What committing the queue of an edge has to come to, bit by bit: the    *)
(* last queued write that covers a bit decides it.                         *)
(***************************************************************************)
EXTENDS Kernel, FiniteSetsExt

(* Where a word is held: a scalar's slot, or an element of an array.       *)
Places ==
    {<<s>> : s \in SignalId}
        \cup UNION {{<<s, e>> : e \in Elements(s)} : s \in SignalId}

Held(place) ==
    IF Len(place) = 1 THEN values[place[1]] ELSE arrays[place[1]][place[2]]

BitsOf(place) == 0..(Kept(Width[place[1]]) - 1)

(* Where queued write w goes, the bits it covers there, and what it makes  *)
(* of one of them.                                                         *)
PlaceOf(w) == IF w.kind = "Scalar" THEN <<w.target>> ELSE <<w.array, w.index>>

Partial(w) == w.kind = "Scalar" /\ w.range # None

Reaches(w, i) == Partial(w) => w.range[2] <= i /\ i <= w.range[1]

BitOf(w, i) == Bit(w.value, IF Partial(w) THEN i - w.range[2] ELSE i)

(* The writes in the queue that decide bit i of a place, and the bit that  *)
(* the last of them leaves there.                                          *)
Deciding(place, i) ==
    {k \in DOMAIN updates : PlaceOf(updates[k]) = place /\ Reaches(updates[k], i)}

Decided(place, i) ==
    IF Deciding(place, i) = {} THEN Bit(Held(place), i)
    ELSE BitOf(updates[Max(Deciding(place, i))], i)

(* Once the processes of an edge have run, every bit of the state after it *)
(* is decided: writes to parts of a signal combine, the last write to a    *)
(* bit wins, none disturbs its neighbours, and a write past the end of an  *)
(* array is none (tick, apply_write).                                      *)
LastWriteWins ==
    [][pc = "commit" =>
          \A place \in Places : \A i \in BitsOf(place) :
              Decided(place, i)' = Decided(place, i)]_vars
=============================================================================
