----------------------------- MODULE BodyMeaning -----------------------------
(***************************************************************************)
(* What a body of statements of the intermediate representation computes,  *)
(* said without the kernel's loops: the state its blocking assignments     *)
(* make, the writes it queues, and the bits a slot has once they are       *)
(* committed.                                                              *)
(***************************************************************************)
EXTENDS EvalExpr, Signals

LOCAL INSTANCE TLC              \* :> and @@
LOCAL INSTANCE FiniteSetsExt    \* MapThenSumSet, Max, Min

(* The word whose bit i is bit(i), for the bits of a signal of that width. *)
FromBits(width, bit(_)) ==
    LET Weighted(i) == bit(i) * 2^i
    IN  MapThenSumSet(Weighted, 0..(SmallerOf(width, WordWidth) - 1))

(* Bit i is written by a write to this range.                              *)
Covers(range, i) == range = None \/ (range[2] <= i /\ i <= range[1])
LowOf(range) == IF range = None THEN 0 ELSE range[2]

(* The signal's old word with the bits of the range replaced.              *)
Overwritten(s, old, range, value) ==
    LET NewBit(i) == IF Covers(range, i) THEN Bit(value, i - LowOf(range)) ELSE Bit(old, i)
    IN  FromBits(Width[s], NewBit)

-----------------------------------------------------------------------------
(***************************************************************************)
(* Running a body: st has the values and arrays as blocking assignments    *)
(* have left them, and the non-blocking writes made so far, in order.      *)
(***************************************************************************)

ItemMatches(v, selector, st) ==
    \/ v.kind = "Exact" /\ EvalExpr(v.expr, st.values, st.arrays) = selector
    \/ v.kind = "Wildcard" /\ ((selector ^^ v.value) & v.care_mask) = 0

(* The bodies of the arms that match, by position.                         *)
MatchingArms(s, st) ==
    {i \in DOMAIN s.arms : \E k \in DOMAIN s.arms[i].values :
        ItemMatches(s.arms[i].values[k], EvalExpr(s.selector, st.values, st.arrays), st)}

State(vals, arrs, q) == [values |-> vals, arrays |-> arrs, queue |-> q]

RECURSIVE Run(_, _)

(* What one statement makes of st.                                         *)
Effect(s, st) ==
    LET Value(e) == EvalExpr(e, st.values, st.arrays)
        Queued(t, i, r) ==
            State(st.values, st.arrays,
                  Append(st.queue, [target |-> t, index |-> i, range |-> r,
                                    value |-> Value(s.value)]))
    IN  CASE s.kind = "NonBlockingAssign" -> Queued(s.target, -1, s.range)
          [] s.kind = "ArrayAssign" -> Queued(s.array, Value(s.index), None)
          [] s.kind = "BlockingAssign" ->
                State((s.target :> Overwritten(s.target, st.values[s.target], s.range,
                                               Value(s.value))) @@ st.values,
                      st.arrays, st.queue)
          [] s.kind = "BlockingArrayAssign" ->
                State(st.values,
                      (s.array :> [i \in Elements(s.array) |->
                                      IF i = Value(s.index)
                                      THEN Overwritten(s.array, 0, None, Value(s.value))
                                      ELSE st.arrays[s.array][i]]) @@ st.arrays,
                      st.queue)
          [] s.kind = "If" ->
                Run(IF Value(s.cond) # 0 THEN s.then_branch ELSE s.else_branch, st)
          [] s.kind = "Case" ->
                Run(IF MatchingArms(s, st) = {} THEN s.default
                    ELSE s.arms[Min(MatchingArms(s, st))].body, st)

(* The singleton makes TLC evaluate each state once.                       *)
Run(body, st) ==
    IF body = <<>> THEN st
    ELSE LET next == CHOOSE n \in {Effect(Head(body), st)} : TRUE
         IN  Run(Tail(body), next)

(* The bits of one slot after the edge: each from the last queued write    *)
(* that covers it, or as it was.                                           *)
Committed(queue, s, index, old) ==
    LET Writers(i) == {k \in DOMAIN queue : queue[k].target = s /\ queue[k].index = index
                                                /\ Covers(queue[k].range, i)}
        NewBit(i) == IF Writers(i) = {} THEN Bit(old, i)
                     ELSE LET w == queue[Max(Writers(i))]
                          IN  Bit(w.value, i - LowOf(w.range))
    IN  FromBits(Width[s], NewBit)
=============================================================================
