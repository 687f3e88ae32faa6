---------------------------- MODULE ChainProofs ----------------------------
(***************************************************************************)
(* Theorems about BinaryChain, for chains of any length and operators of   *)
(* any kind: the frontend groups a chain as Verilog does.                  *)
(***************************************************************************)
EXTENDS BinaryChain, SequenceTheorems, TLAPS

Operator == 1..Len(ops)
Span     == [first : 1..(Len(ops) + 1), last : 1..(Len(ops) + 1)]

(* What the invariants need of each other.                                 *)
ChainInv == TypeOK /\ StacksInv /\ RanksInv /\ OnceInv

(* Every operator has a rank, supported or not.                            *)
LEMMA PrecedenceType == ASSUME NEW symbol PROVE PrecedenceOf(symbol) \in 0..11
<1>1. LevelsOf(symbol) \subseteq 1..11
  BY DEF LevelsOf
<1> QED  BY <1>1 DEF PrecedenceOf

(* The rank of an operator.                                                *)
LEMMA RankType == ASSUME TypeOK PROVE Rank \in [Operator -> 0..11]
BY PrecedenceType DEF Rank, Operator

(* The chain at hand has operators.                                        *)
LEMMA ChainType == ASSUME TypeOK PROVE ops \in Seq(STRING) /\ Len(ops) \in Nat \ {0}
<1>1. ops \in Seq(STRING) /\ ops # <<>>
  BY ChainsAssumption DEF TypeOK
<1> QED  BY <1>1, EmptySeq, LenProperties

(* Popping a stack takes its last element only.                            *)
LEMMA PopFacts ==
    ASSUME NEW S, NEW s \in Seq(S), s # <<>>
    PROVE  /\ Pop(s) \in Seq(S)
           /\ Len(Pop(s)) = Len(s) - 1
           /\ Len(s) \in Nat \ {0}
           /\ \A i \in 1..(Len(s) - 1) : Pop(s)[i] = s[i]
           /\ Last(s) = s[Len(s)] /\ Last(s) \in S
<1>1. Len(s) \in Nat \ {0}
  BY EmptySeq, LenProperties
<1>2. /\ SubSeq(s, 1, Len(s) - 1) \in Seq(S)
      /\ Len(SubSeq(s, 1, Len(s) - 1)) = Len(s) - 1
      /\ \A i \in 1..(Len(s) - 1) : SubSeq(s, 1, Len(s) - 1)[i] = s[i]
  <2>1. \A i \in 1..(Len(s) - 1) : s[i] \in S
    BY <1>1, ElementOfSeq
  <2>2. SubSeq(s, 1, Len(s) - 1) \in Seq(S)
    BY <1>1, <2>1, SMT
  <2>3. Len(SubSeq(s, 1, Len(s) - 1)) = Len(s) - 1
    <3>1. CASE Len(s) = 1
      BY <3>1, SubSeqEmpty, EmptySeq, SMT
    <3>2. CASE Len(s) > 1
      <4>1. 1 <= Len(s) - 1 /\ Len(s) - 1 \in Nat
        BY <1>1, <3>2
      <4> QED  BY <2>1, <4>1, SMT
    <3> QED  BY <1>1, <3>1, <3>2
  <2>4. \A i \in 1..(Len(s) - 1) : SubSeq(s, 1, Len(s) - 1)[i] = s[i]
    BY <1>1, <2>1, SMT
  <2> QED  BY <2>2, <2>3, <2>4
<1>3. s[Len(s)] \in S
  BY <1>1, ElementOfSeq
<1> QED  BY <1>1, <1>2, <1>3 DEF Pop, Last
-----------------------------------------------------------------------------

(* What the stacks are, place by place.                                    *)
LEMMA StackTypes ==
    ASSUME TypeOK, StacksInv
    PROVE  /\ Len(ops) \in Nat \ {0}
           /\ next \in 1..(Len(ops) + 1)
           /\ Len(pending) \in Nat /\ Len(values) = Len(pending) + 1
           /\ \A i \in 1..Len(pending) : pending[i] \in Operator
           /\ \A i \in 1..Len(values) :
                 values[i].first \in 1..(Len(ops) + 1) /\ values[i].last \in 1..(Len(ops) + 1)
           /\ values \in Seq(Span) /\ values # <<>> /\ pending \in Seq(Operator)
           /\ Last(values) = values[Len(values)]
<1>1. Len(ops) \in Nat \ {0} /\ next \in 1..(Len(ops) + 1)
  BY ChainType DEF TypeOK
<1>2. values \in Seq(Span) /\ pending \in Seq(Operator)
  BY DEF TypeOK, Span, Operator
<1>3. Len(pending) \in Nat /\ Len(values) = Len(pending) + 1
  BY <1>2, LenProperties DEF StacksInv
<1>4. \A i \in 1..Len(pending) : pending[i] \in Operator
  BY <1>2, ElementOfSeq
<1>5. \A i \in 1..Len(values) : values[i] \in Span
  BY <1>2, ElementOfSeq
<1>6. values # <<>>
  BY <1>3, EmptySeq
<1> QED  BY <1>1, <1>2, <1>3, <1>4, <1>5, <1>6 DEF Span, Last

(* The step that applies the pending operator on top: the two values       *)
(* beside it become one, and everything below stays.                       *)
Applied(n) ==
    /\ n \in Nat \ {0} /\ Len(pending) = n /\ Len(values) = n + 1
    /\ Len(pending') = n - 1 /\ Len(values') = n
    /\ \A i \in 1..(n - 1) : pending'[i] = pending[i] /\ values'[i] = values[i]
    /\ values'[n] = [first |-> values[n].first, last |-> values[n + 1].last]
    /\ pending' \in Seq(Operator) /\ values' \in Seq(Span)
    /\ groupings' = groupings \cup {Grouping(values[n].first, pending[n], values[n + 1].last)}
    /\ status' \in {"reading", "rejected"}
    /\ UNCHANGED <<ops, ternary, next>>

(* ApplyTop does what Applied says.                                        *)
LEMMA ApplyTopApplies ==
    ASSUME TypeOK, StacksInv, pending # <<>>, ApplyTop
    PROVE  Applied(Len(pending))
<1> DEFINE n == Len(pending)
<1>1. /\ pending \in Seq(Operator) /\ values \in Seq(Span)
      /\ Len(values) = n + 1 /\ values # <<>>
  BY StackTypes
<1>2. /\ n \in Nat \ {0} /\ Pop(pending) \in Seq(Operator) /\ Len(Pop(pending)) = n - 1
      /\ \A i \in 1..(n - 1) : Pop(pending)[i] = pending[i]
      /\ Last(pending) = pending[n]
  BY <1>1, PopFacts
<1>3. /\ Pop(values) \in Seq(Span) /\ Len(Pop(values)) = n
      /\ \A i \in 1..n : Pop(values)[i] = values[i]
      /\ Last(values) = values[n + 1] /\ Last(values) \in Span
  <2>1. /\ Pop(values) \in Seq(Span) /\ Len(Pop(values)) = Len(values) - 1
        /\ \A i \in 1..(Len(values) - 1) : Pop(values)[i] = values[i]
        /\ Last(values) = values[Len(values)] /\ Last(values) \in Span
    BY <1>1, PopFacts
  <2> QED  BY <1>1, <1>2, <2>1
<1>4. Pop(values) # <<>>
  BY <1>2, <1>3, EmptySeq
<1>5. /\ Pop(Pop(values)) \in Seq(Span) /\ Len(Pop(Pop(values))) = n - 1
      /\ \A i \in 1..(n - 1) : Pop(Pop(values))[i] = Pop(values)[i]
      /\ Last(Pop(values)) = Pop(values)[n] /\ Last(Pop(values)) \in Span
  BY <1>3, <1>4, PopFacts
<1> DEFINE joined == [first |-> values[n].first, last |-> values[n + 1].last]
<1>6. values[n] \in Span /\ values[n + 1] \in Span
  BY <1>2, <1>3, <1>5
<1>7. joined \in Span
  BY <1>6 DEF Span
<1>8. /\ Append(Pop(Pop(values)), joined) \in Seq(Span)
      /\ Len(Append(Pop(Pop(values)), joined)) = n
      /\ \A i \in 1..(n - 1) : Append(Pop(Pop(values)), joined)[i] = Pop(Pop(values))[i]
      /\ Append(Pop(Pop(values)), joined)[n] = joined
  <2> HIDE DEF joined
  <2>1. /\ Append(Pop(Pop(values)), joined) \in Seq(Span)
        /\ Len(Append(Pop(Pop(values)), joined)) = Len(Pop(Pop(values))) + 1
        /\ \A i \in 1..Len(Pop(Pop(values))) :
              Append(Pop(Pop(values)), joined)[i] = Pop(Pop(values))[i]
        /\ Append(Pop(Pop(values)), joined)[Len(Pop(Pop(values))) + 1] = joined
    BY <1>5, <1>7, AppendProperties
  <2> QED  BY <1>2, <1>5, <2>1
<1>9. ~(Len(values) < 2) /\ Len(values) - 1 = n
  BY <1>1, <1>2
<1>10. /\ pending' = Pop(pending)
       /\ values' = Append(Pop(Pop(values)), joined)
       /\ groupings' = groupings \cup {Grouping(values[n].first, pending[n], values[n + 1].last)}
       /\ status' \in {"reading", "rejected"}
       /\ UNCHANGED <<ops, ternary, next>>
  BY <1>2, <1>3, <1>9 DEF ApplyTop
<1>11. \A i \in 1..(n - 1) : values'[i] = values[i]
  BY <1>2, <1>3, <1>5, <1>8, <1>10
<1> QED  BY <1>1, <1>2, <1>8, <1>10, <1>11 DEF Applied

(* The step that pushes an operator and the operand right of it.           *)
Pushed(n) ==
    /\ n \in Nat /\ Len(pending) = n /\ Len(values) = n + 1
    /\ next \in Operator /\ next' = next + 1
    /\ Len(pending') = n + 1 /\ Len(values') = n + 2
    /\ \A i \in 1..n : pending'[i] = pending[i]
    /\ \A i \in 1..(n + 1) : values'[i] = values[i]
    /\ pending'[n + 1] = next
    /\ values'[n + 2] = [first |-> next + 1, last |-> next + 1]
    /\ pending' \in Seq(Operator) /\ values' \in Seq(Span)
    /\ n > 0 => Rank[pending[n]] < Rank[next]
    /\ UNCHANGED <<ops, ternary, groupings, status>>

(* PushOperator does what Pushed says.                                     *)
LEMMA PushOperatorPushes ==
    ASSUME TypeOK, StacksInv, PushOperator
    PROVE  Pushed(Len(pending))
<1> DEFINE n == Len(pending)
<1>1. /\ pending \in Seq(Operator) /\ values \in Seq(Span)
      /\ n \in Nat /\ Len(values) = n + 1 /\ Len(ops) \in Nat \ {0}
      /\ \A i \in 1..n : pending[i] \in Operator
  BY StackTypes
<1>2. next \in Operator
  BY <1>1 DEF PushOperator, TypeOK, Operator
<1> DEFINE operand == [first |-> next + 1, last |-> next + 1]
<1>3. operand \in Span
  BY <1>1, <1>2 DEF Span, Operator
<1>4. /\ Append(pending, next) \in Seq(Operator)
      /\ Len(Append(pending, next)) = n + 1
      /\ \A i \in 1..n : Append(pending, next)[i] = pending[i]
      /\ Append(pending, next)[n + 1] = next
  BY <1>1, <1>2, AppendProperties
<1>5. /\ Append(values, operand) \in Seq(Span)
      /\ Len(Append(values, operand)) = n + 2
      /\ \A i \in 1..(n + 1) : Append(values, operand)[i] = values[i]
      /\ Append(values, operand)[n + 2] = operand
  <2> HIDE DEF operand
  <2>1. /\ Append(values, operand) \in Seq(Span)
        /\ Len(Append(values, operand)) = Len(values) + 1
        /\ \A i \in 1..Len(values) : Append(values, operand)[i] = values[i]
        /\ Append(values, operand)[Len(values) + 1] = operand
    BY <1>1, <1>3, AppendProperties
  <2> QED  BY <1>1, <2>1
<1>6. n > 0 => Rank[pending[n]] < Rank[next]
  <2> SUFFICES ASSUME n > 0 PROVE Rank[pending[n]] < Rank[next]
    OBVIOUS
  <2>1. pending # <<>>
    BY <1>1, EmptySeq
  <2>2. ~(Rank[pending[n]] >= Rank[next])
    BY <2>1 DEF PushOperator, MustApply, Last
  <2>3. Rank[pending[n]] \in 0..11 /\ Rank[next] \in 0..11
    BY <1>1, <1>2, RankType
  <2> QED  BY <2>2, <2>3
<1>7. /\ pending' = Append(pending, next) /\ values' = Append(values, operand)
      /\ next' = next + 1 /\ UNCHANGED <<ops, ternary, groupings, status>>
  BY DEF PushOperator, NextOperand, Following
<1> QED  BY <1>1, <1>2, <1>4, <1>5, <1>6, <1>7 DEF Pushed

-----------------------------------------------------------------------------

(* The invariant holds before the first token.                             *)
LEMMA StartsWell == ASSUME Init PROVE ChainInv /\ GroupingsAreVerilogs
<1>1. /\ ops \in Seq(STRING) /\ Len(ops) \in Nat \ {0}
  BY ChainsAssumption, EmptySeq, LenProperties DEF Init
<1>2. /\ Len(values) = 1 /\ values[1] = [first |-> 1, last |-> 1] /\ Last(values) = values[1]
      /\ Len(pending) = 0 /\ next = 1 /\ groupings = {}
  BY DEF Init, Last
<1>3. TypeOK
  <2>1. values \in Seq([first : 1..(Len(ops) + 1), last : 1..(Len(ops) + 1)])
    BY <1>1 DEF Init
  <2> QED  BY <1>1, <1>2, <2>1 DEF Init, TypeOK
<1>4. StacksInv
  BY <1>2 DEF Init, StacksInv
<1>5. RanksInv
  BY <1>2 DEF RanksInv, Inside
<1>6. OnceInv /\ GroupingsAreVerilogs
  BY <1>2 DEF OnceInv, GroupingsAreVerilogs
<1> QED  BY <1>3, <1>4, <1>5, <1>6 DEF ChainInv

(* Applying the operator on top, when the next one does not bind tighter.  *)
LEMMA ApplyingKeeps ==
    ASSUME ChainInv, GroupingsAreVerilogs, Applied(Len(pending)),
           next <= Len(ops) => Rank[pending[Len(pending)]] >= Rank[next]
    PROVE  ChainInv' /\ GroupingsAreVerilogs'
<1> DEFINE n == Len(pending)
           op == pending[n]
           lhs == values[n]
           rhs == values[n + 1]
           new == Grouping(lhs.first, op, rhs.last)
<1>1. /\ Len(ops) \in Nat \ {0} /\ next \in 1..(Len(ops) + 1)
      /\ n \in Nat \ {0} /\ Len(values) = n + 1
      /\ \A i \in 1..n : pending[i] \in Operator
      /\ \A i \in 1..(n + 1) :
            values[i].first \in 1..(Len(ops) + 1) /\ values[i].last \in 1..(Len(ops) + 1)
      /\ Last(values) = rhs
  BY StackTypes DEF ChainInv, Applied
<1>2. /\ \A i \in 1..n : /\ pending[i] = values[i].last
                         /\ values[i + 1].first = pending[i] + 1
                         /\ pending[i] < next
                         /\ \A j \in 1..(i - 1) : pending[j] < pending[i]
      /\ \A i \in 1..(n + 1) : values[i].first <= values[i].last
      /\ values[1].first = 1 /\ rhs.last = next
  BY <1>1 DEF ChainInv, StacksInv
<1>3. /\ \A i \in 1..(n - 1) : Rank[pending[i]] < Rank[pending[i + 1]]
      /\ \A i \in 1..n : /\ \A j \in Inside(values[i])     : Rank[j] >= Rank[pending[i]]
                         /\ \A j \in Inside(values[i + 1]) : Rank[j] > Rank[pending[i]]
      /\ next <= Len(ops) => \A j \in Inside(rhs) : Rank[j] >= Rank[next]
  BY <1>1 DEF ChainInv, RanksInv
<1>4. /\ Len(pending') = n - 1 /\ Len(values') = n
      /\ \A i \in 1..(n - 1) : pending'[i] = pending[i] /\ values'[i] = values[i]
      /\ values'[n] = [first |-> lhs.first, last |-> rhs.last]
      /\ pending' \in Seq(Operator) /\ values' \in Seq(Span)
      /\ groupings' = groupings \cup {new}
      /\ status' \in {"reading", "rejected"}
      /\ UNCHANGED <<ops, ternary, next>>
  BY DEF Applied
<1>5. Rank' = Rank /\ Rank \in [Operator -> 0..11]
  BY <1>4, RankType DEF Rank, ChainInv
<1>6. /\ op \in Operator /\ op = lhs.last /\ rhs.first = op + 1
      /\ lhs.first \in 1..op /\ rhs.last \in (op + 1)..(Len(ops) + 1)
      /\ rhs.last = next /\ op < next
  BY <1>1, <1>2 DEF Operator
<1>7. Last(values') = [first |-> lhs.first, last |-> rhs.last]
  BY <1>4 DEF Last
<1>8. TypeOK'
  <2>1. groupings' \subseteq [first : 1..Len(ops), op : 1..Len(ops), last : 1..(Len(ops) + 1)]
    <3>1. op \in 1..Len(ops) /\ lhs.first \in 1..Len(ops) /\ rhs.last \in 1..(Len(ops) + 1)
      BY <1>1, <1>6 DEF Operator
    <3>2. new \in [first : 1..Len(ops), op : 1..Len(ops), last : 1..(Len(ops) + 1)]
      <4> HIDE DEF op, lhs, rhs
      <4> QED  BY <3>1 DEF Grouping
    <3>3. groupings \subseteq [first : 1..Len(ops), op : 1..Len(ops), last : 1..(Len(ops) + 1)]
      BY DEF ChainInv, TypeOK
    <3> HIDE DEF new
    <3> QED  BY <1>4, <3>2, <3>3
  <2> QED  BY <1>4, <2>1 DEF ChainInv, TypeOK, Operator, Span
<1>9. StacksInv'
  <2>1. status' # "malformed" /\ Len(values') = Len(pending') + 1
    BY <1>1, <1>4
  <2>2. values'[1].first = 1 /\ Last(values').last = next'
    BY <1>1, <1>2, <1>4, <1>7
  <2>3. ASSUME NEW i \in 1..Len(pending')
        PROVE  /\ pending'[i] = values'[i].last
               /\ values'[i + 1].first = pending'[i] + 1
               /\ pending'[i] < next' /\ \A j \in 1..(i - 1) : pending'[j] < pending'[i]
    <3>1. i \in 1..(n - 1) /\ i \in 1..n /\ \A j \in 1..(i - 1) : j \in 1..(n - 1)
      BY <1>1, <1>4
    <3>2. values'[i + 1].first = values[i + 1].first
      BY <1>1, <1>4, <3>1
    <3> QED  BY <1>2, <1>4, <3>1, <3>2
  <2>4. ASSUME NEW i \in 1..Len(values') PROVE values'[i].first <= values'[i].last
    <3>1. CASE i = n
      <4>1. values'[i].first = lhs.first /\ values'[i].last = rhs.last
        BY <1>4, <3>1
      <4> QED  BY <1>1, <1>6, <4>1 DEF Operator
    <3>2. CASE i # n
      <4>1. i \in 1..(n - 1) /\ i \in 1..(n + 1)
        BY <1>1, <1>4, <3>2
      <4> QED  BY <1>2, <1>4, <4>1
    <3> QED  BY <3>1, <3>2
  <2> QED  BY <2>1, <2>2, <2>3, <2>4 DEF StacksInv
<1>10. RanksInv'
  <2>1. ASSUME NEW i \in 1..(Len(pending') - 1)
        PROVE  Rank[pending'[i]] < Rank[pending'[i + 1]]
    <3>1. i \in 1..(n - 1) /\ i + 1 \in 1..(n - 1)
      BY <1>1, <1>4
    <3> QED  BY <1>3, <1>4, <3>1
  (* The joined value holds lhs, its own operator and rhs.                 *)
  <2>2. ASSUME NEW j \in Inside([first |-> lhs.first, last |-> rhs.last])
        PROVE  j \in Inside(lhs) \/ j = op \/ j \in Inside(rhs)
    BY <1>1, <1>6 DEF Inside, Operator
  <2>3. ASSUME NEW i \in 1..Len(pending'), NEW j \in Inside(values'[i])
        PROVE  Rank'[j] >= Rank'[pending'[i]]
    <3>1. i \in 1..(n - 1) /\ i \in 1..n /\ values'[i] = values[i] /\ pending'[i] = pending[i]
      BY <1>1, <1>4
    <3> QED  BY <1>3, <1>5, <2>3, <3>1
  <2>4. ASSUME NEW i \in 1..Len(pending'), NEW j \in Inside(values'[i + 1])
        PROVE  Rank'[j] > Rank'[pending'[i]]
    <3>1. i \in 1..(n - 1) /\ i \in 1..n /\ pending'[i] = pending[i]
      BY <1>1, <1>4
    <3>2. CASE i < n - 1
      <4>1. values'[i + 1] = values[i + 1]
        <5>1. i + 1 \in 1..(n - 1)
          BY <1>1, <3>1, <3>2
        <5> QED  BY <1>4, <5>1
      <4> QED  BY <1>3, <1>5, <2>4, <3>1, <4>1
    <3>3. CASE i = n - 1
      <4>1. values'[i + 1] = [first |-> lhs.first, last |-> rhs.last] /\ i + 1 = n
        BY <1>1, <1>4, <3>3
      <4>2. j \in Inside(lhs) \/ j = op \/ j \in Inside(rhs)
        BY <2>2, <2>4, <4>1
      <4>3. Rank[pending[i]] < Rank[op] /\ Rank[op] \in 0..11 /\ Rank[pending[i]] \in 0..11
        BY <1>1, <1>3, <1>5, <1>6, <3>1, <4>1
      <4>4. CASE j \in Inside(lhs)
        <5>1. \A k \in Inside(values[i + 1]) : Rank[k] > Rank[pending[i]]
          BY <1>3, <3>1
        <5> QED  BY <1>5, <3>1, <4>1, <4>4, <5>1
      <4>5. CASE j = op
        BY <1>5, <3>1, <4>3, <4>5
      <4>6. CASE j \in Inside(rhs)
        <5>1. Rank[j] > Rank[op]
          BY <1>1, <1>3, <4>6
        <5>2. Rank[j] \in 0..11
          <6>1. j \in Operator
            BY <1>1, <1>6, <4>6 DEF Inside, Operator
          <6> QED  BY <1>5, <6>1
        <5> QED  BY <1>5, <3>1, <4>3, <5>1, <5>2
      <4> QED  BY <4>2, <4>4, <4>5, <4>6
    <3> QED  BY <1>1, <3>1, <3>2, <3>3
  <2>5. ASSUME next <= Len(ops), NEW j \in Inside([first |-> lhs.first, last |-> rhs.last])
        PROVE  Rank[j] >= Rank[next]
    <3>1. Rank[op] >= Rank[next] /\ Rank[op] \in 0..11 /\ Rank[next] \in 0..11
      BY <1>1, <1>5, <1>6, <2>5 DEF Operator
    <3>2. CASE j \in Inside(lhs)
      <4>1. Rank[j] >= Rank[op]
        BY <1>1, <1>3, <3>2
      <4>2. j \in Operator
        BY <1>1, <1>6, <3>2 DEF Inside, Operator
      <4> QED  BY <1>5, <3>1, <4>1, <4>2
    <3>3. CASE j \in Inside(rhs)
      BY <1>3, <2>5, <3>3
    <3> QED  BY <2>2, <2>5, <3>1, <3>2, <3>3
  <2>6. next' <= Len(ops') => \A j \in Inside(Last(values')) : Rank'[j] >= Rank'[next']
    BY <1>4, <1>5, <1>7, <2>5
  <2> QED  BY <1>5, <2>1, <2>3, <2>4, <2>6 DEF RanksInv
<1>11. OnceInv'
  <2>1. /\ \A i \in 1..(next - 1) :
              (\E k \in 1..n : pending[k] = i) <=> ~(\E g \in groupings : g.op = i)
        /\ \A g, h \in groupings : g.op = h.op => g = h
        /\ \A g \in groupings : g.op < next
    BY DEF ChainInv, OnceInv
  <2>2. new.op = op /\ op \in 1..(next - 1)
    BY <1>1, <1>6 DEF Grouping, Operator
  <2>3. \A g \in groupings : g.op # op
    <3>1. n \in 1..n /\ pending[n] = op
      BY <1>1
    <3> HIDE DEF op
    <3> QED  BY <2>1, <2>2, <3>1
  <2>4. ASSUME NEW i \in 1..(next' - 1)
        PROVE  (\E k \in 1..Len(pending') : pending'[k] = i) <=> ~(\E g \in groupings' : g.op = i)
    <3>1. i \in 1..(next - 1)
      BY <1>4
    <3>2. CASE i = op
      <4>1. \A k \in 1..Len(pending') : pending'[k] < op
        BY <1>1, <1>2, <1>4
      <4>2. \A k \in 1..Len(pending') : pending'[k] # op
        <5>1. \A k \in 1..Len(pending') : pending'[k] \in Operator
          BY <1>4, ElementOfSeq
        <5> HIDE DEF op
        <5> QED  BY <1>6, <4>1, <5>1 DEF Operator
      <4> QED  BY <1>4, <2>2, <3>2, <4>2
    <3>3. CASE i # op
      <4>1. (\E k \in 1..Len(pending') : pending'[k] = i) <=> (\E k \in 1..n : pending[k] = i)
        <5>1. \A k \in 1..n : k \in 1..(n - 1) \/ k = n
          BY <1>1
        <5>2. \A k \in 1..(n - 1) : k \in 1..n
          BY <1>1
        <5>3. \A k \in 1..(n - 1) : pending'[k] = pending[k]
          BY <1>4
        <5>4. pending[n] = op
          OBVIOUS
        <5>5. 1..Len(pending') = 1..(n - 1)
          BY <1>4
        <5> HIDE DEF op, n
        <5> QED  BY <3>3, <5>1, <5>2, <5>3, <5>4, <5>5
      <4>2. (\E g \in groupings' : g.op = i) <=> (\E g \in groupings : g.op = i)
        BY <1>4, <2>2, <3>3
      <4> QED  BY <2>1, <3>1, <4>1, <4>2
    <3> QED  BY <3>2, <3>3
  <2>5. \A g, h \in groupings' : g.op = h.op => g = h
    BY <1>4, <2>1, <2>2, <2>3
  <2>6. \A g \in groupings' : g.op < next'
    BY <1>4, <1>6, <2>1, <2>2
  <2> QED  BY <2>4, <2>5, <2>6 DEF OnceInv
<1>12. GroupingsAreVerilogs'
  <2>1. GroupsAsVerilog(Rank, new)
    <3>1. new.first = lhs.first /\ new.op = op /\ new.last = rhs.last
      BY DEF Grouping
    <3>2. \A j \in lhs.first..(op - 1) : Rank[j] >= Rank[op]
      BY <1>1, <1>3, <1>6 DEF Inside
    <3>3. \A j \in (op + 1)..(rhs.last - 1) : Rank[j] > Rank[op]
      BY <1>1, <1>3, <1>6 DEF Inside
    <3>4. lhs.first <= op /\ op < rhs.last
      BY <1>1, <1>6 DEF Operator
    <3> QED  BY <3>1, <3>2, <3>3, <3>4 DEF GroupsAsVerilog
  <2> QED  BY <1>4, <1>5, <2>1 DEF GroupingsAreVerilogs
<1> QED  BY <1>8, <1>9, <1>10, <1>11, <1>12 DEF ChainInv

(* Pushing an operator that binds tighter than the pending ones.           *)
LEMMA PushingKeeps ==
    ASSUME ChainInv, GroupingsAreVerilogs, Pushed(Len(pending)), status = "reading"
    PROVE  ChainInv' /\ GroupingsAreVerilogs'
<1> DEFINE n == Len(pending)
           top == values[n + 1]
<1>1. /\ Len(ops) \in Nat \ {0} /\ next \in 1..(Len(ops) + 1)
      /\ n \in Nat /\ Len(values) = n + 1
      /\ \A i \in 1..n : pending[i] \in Operator
      /\ \A i \in 1..(n + 1) :
            values[i].first \in 1..(Len(ops) + 1) /\ values[i].last \in 1..(Len(ops) + 1)
      /\ Last(values) = top
  BY StackTypes DEF ChainInv
<1>2. /\ \A i \in 1..n : /\ pending[i] = values[i].last
                         /\ values[i + 1].first = pending[i] + 1
                         /\ pending[i] < next
                         /\ \A j \in 1..(i - 1) : pending[j] < pending[i]
      /\ \A i \in 1..(n + 1) : values[i].first <= values[i].last
      /\ values[1].first = 1 /\ top.last = next
  BY <1>1 DEF ChainInv, StacksInv
<1>3. /\ \A i \in 1..(n - 1) : Rank[pending[i]] < Rank[pending[i + 1]]
      /\ \A i \in 1..n : /\ \A j \in Inside(values[i])     : Rank[j] >= Rank[pending[i]]
                         /\ \A j \in Inside(values[i + 1]) : Rank[j] > Rank[pending[i]]
      /\ next <= Len(ops) => \A j \in Inside(top) : Rank[j] >= Rank[next]
  BY <1>1 DEF ChainInv, RanksInv
<1>4. /\ next \in Operator /\ next' = next + 1
      /\ Len(pending') = n + 1 /\ Len(values') = n + 2
      /\ \A i \in 1..n : pending'[i] = pending[i]
      /\ \A i \in 1..(n + 1) : values'[i] = values[i]
      /\ pending'[n + 1] = next
      /\ values'[n + 2] = [first |-> next + 1, last |-> next + 1]
      /\ pending' \in Seq(Operator) /\ values' \in Seq(Span)
      /\ n > 0 => Rank[pending[n]] < Rank[next]
      /\ UNCHANGED <<ops, ternary, groupings, status>>
  BY DEF Pushed
<1>5. Rank' = Rank /\ Rank \in [Operator -> 0..11]
  BY <1>4, RankType DEF Rank, ChainInv
<1>6. next \in 1..Len(ops)
  BY <1>4 DEF Operator
<1>7. Last(values') = [first |-> next + 1, last |-> next + 1]
  BY <1>4 DEF Last
<1>8. Inside([first |-> next + 1, last |-> next + 1]) = {}
  BY <1>6 DEF Inside
<1>9. TypeOK'
  <2>1. next' \in 1..(Len(ops') + 1)
    BY <1>1, <1>4, <1>6
  <2> QED  BY <1>4, <2>1 DEF ChainInv, TypeOK, Operator, Span
<1>10. StacksInv'
  <2>1. status' # "malformed" /\ Len(values') = Len(pending') + 1
    BY <1>1, <1>4 DEF ChainInv, StacksInv
  <2>2. values'[1].first = 1 /\ Last(values').last = next'
    BY <1>1, <1>2, <1>4, <1>7
  <2>3. ASSUME NEW i \in 1..Len(pending')
        PROVE  /\ pending'[i] = values'[i].last
               /\ values'[i + 1].first = pending'[i] + 1
               /\ pending'[i] < next' /\ \A j \in 1..(i - 1) : pending'[j] < pending'[i]
    <3>1. CASE i \in 1..n
      <4>1. values'[i] = values[i] /\ values'[i + 1] = values[i + 1] /\ pending'[i] = pending[i]
        BY <1>1, <1>4, <3>1
      <4>2. \A j \in 1..(i - 1) : pending'[j] = pending[j]
        BY <1>1, <1>4, <3>1
      <4>3. pending[i] < next + 1
        BY <1>1, <1>2, <1>6, <3>1 DEF Operator
      <4> QED  BY <1>2, <1>4, <3>1, <4>1, <4>2, <4>3
    <3>2. CASE i = n + 1
      <4>1. values'[i] = top /\ pending'[i] = next
        BY <1>1, <1>4, <3>2
      <4>2. values'[i + 1].first = next + 1
        BY <1>1, <1>4, <3>2
      <4>3. \A j \in 1..(i - 1) : j \in 1..n /\ pending'[j] = pending[j]
        BY <1>1, <1>4, <3>2
      <4>4. \A j \in 1..(i - 1) : pending'[j] < pending'[i]
        BY <1>2, <4>1, <4>3
      <4>5. pending'[i] = values'[i].last /\ values'[i + 1].first = pending'[i] + 1
        BY <1>2, <4>1, <4>2
      <4>6. pending'[i] < next'
        BY <1>4, <1>6, <4>1
      <4> QED  BY <4>4, <4>5, <4>6
    <3> QED  BY <1>1, <1>4, <3>1, <3>2
  <2>4. ASSUME NEW i \in 1..Len(values') PROVE values'[i].first <= values'[i].last
    <3>1. CASE i = n + 2
      <4>1. values'[i].first = next + 1 /\ values'[i].last = next + 1
        BY <1>4, <3>1
      <4> QED  BY <1>6, <4>1
    <3>2. CASE i # n + 2
      <4>1. i \in 1..(n + 1)
        BY <1>1, <1>4, <3>2
      <4> QED  BY <1>2, <1>4, <4>1
    <3> QED  BY <3>1, <3>2
  <2> QED  BY <2>1, <2>2, <2>3, <2>4 DEF StacksInv
<1>11. RanksInv'
  <2>1. ASSUME NEW i \in 1..(Len(pending') - 1)
        PROVE  Rank[pending'[i]] < Rank[pending'[i + 1]]
    <3>1. i \in 1..n /\ pending'[i] = pending[i]
      BY <1>1, <1>4
    <3>2. CASE i < n
      <4>1. i \in 1..(n - 1) /\ i + 1 \in 1..n
        BY <1>1, <3>1, <3>2
      <4> QED  BY <1>3, <1>4, <3>1, <4>1
    <3>3. CASE i = n
      <4>1. pending'[i + 1] = next /\ n > 0
        BY <1>1, <1>4, <3>1, <3>3
      <4> QED  BY <1>4, <3>1, <3>3, <4>1
    <3> QED  BY <1>1, <3>1, <3>2, <3>3
  <2>2. ASSUME NEW i \in 1..Len(pending'), NEW j \in Inside(values'[i])
        PROVE  Rank[j] >= Rank[pending'[i]]
    <3>1. CASE i \in 1..n
      <4>1. values'[i] = values[i] /\ pending'[i] = pending[i]
        BY <1>1, <1>4, <3>1
      <4> QED  BY <1>3, <2>2, <3>1, <4>1
    <3>2. CASE i = n + 1
      <4>1. values'[i] = top /\ pending'[i] = next /\ next <= Len(ops)
        BY <1>1, <1>4, <1>6, <3>2
      <4> QED  BY <1>3, <2>2, <4>1
    <3> QED  BY <1>1, <1>4, <3>1, <3>2
  <2>3. ASSUME NEW i \in 1..Len(pending'), NEW j \in Inside(values'[i + 1])
        PROVE  Rank[j] > Rank[pending'[i]]
    <3>1. CASE i \in 1..n
      <4>1. values'[i + 1] = values[i + 1] /\ pending'[i] = pending[i]
        BY <1>1, <1>4, <3>1
      <4> QED  BY <1>3, <2>3, <3>1, <4>1
    <3>2. CASE i = n + 1
      <4>1. values'[i + 1] = [first |-> next + 1, last |-> next + 1]
        BY <1>1, <1>4, <3>2
      <4> QED  BY <1>8, <2>3, <4>1
    <3> QED  BY <1>1, <1>4, <3>1, <3>2
  <2>4. \A j \in Inside(Last(values')) : FALSE
    BY <1>7, <1>8
  <2> QED  BY <1>5, <2>1, <2>2, <2>3, <2>4 DEF RanksInv
<1>12. OnceInv'
  <2>1. /\ \A i \in 1..(next - 1) :
              (\E k \in 1..n : pending[k] = i) <=> ~(\E g \in groupings : g.op = i)
        /\ \A g, h \in groupings : g.op = h.op => g = h
        /\ \A g \in groupings : g.op < next
    BY DEF ChainInv, OnceInv
  <2>2. \A g \in groupings : g.op \in 1..Len(ops) /\ g.op # next /\ g.op < next + 1
    <3>1. \A g \in groupings : g.op \in 1..Len(ops)
      BY DEF ChainInv, TypeOK
    <3> QED  BY <1>6, <2>1, <3>1
  <2>3. ASSUME NEW i \in 1..(next' - 1)
        PROVE  (\E k \in 1..Len(pending') : pending'[k] = i) <=> ~(\E g \in groupings' : g.op = i)
    <3>1. CASE i = next
      <4>1. n + 1 \in 1..Len(pending') /\ pending'[n + 1] = i
        BY <1>1, <1>4, <3>1
      <4> QED  BY <1>4, <2>2, <3>1, <4>1
    <3>2. CASE i # next
      <4>1. i \in 1..(next - 1)
        BY <1>4, <1>6, <3>2
      <4>2. (\E k \in 1..Len(pending') : pending'[k] = i) <=> (\E k \in 1..n : pending[k] = i)
        <5>1. \A k \in 1..(n + 1) : k \in 1..n \/ k = n + 1
          BY <1>1
        <5>2. \A k \in 1..n : k \in 1..(n + 1)
          BY <1>1
        <5>3. \A k \in 1..n : pending'[k] = pending[k]
          BY <1>4
        <5>4. pending'[n + 1] = next /\ 1..Len(pending') = 1..(n + 1)
          BY <1>4
        <5> HIDE DEF n
        <5> QED  BY <3>2, <5>1, <5>2, <5>3, <5>4
      <4> QED  BY <1>4, <2>1, <4>1, <4>2
    <3> QED  BY <3>1, <3>2
  <2> QED  BY <1>4, <2>1, <2>2, <2>3 DEF OnceInv
<1>13. GroupingsAreVerilogs'
  BY <1>4, <1>5 DEF GroupingsAreVerilogs
<1> QED  BY <1>9, <1>10, <1>11, <1>12, <1>13 DEF ChainInv

-----------------------------------------------------------------------------

(* A chain is lowered only once its stacks are used up.                    *)
EndInv == status = "lowered" => next > Len(ops) /\ pending = <<>>

IInv == ChainInv /\ GroupingsAreVerilogs /\ EndInv

(* Every step keeps it.                                                    *)
LEMMA NextKeeps == ASSUME IInv, [Next]_vars PROVE IInv'
<1> USE DEF IInv
<1>1. ASSUME ApplyPending PROVE IInv'
  <2>1. pending # <<>> /\ next <= Len(ops) /\ ApplyTop
    BY <1>1 DEF ApplyPending
  <2>2. Applied(Len(pending))
    BY <2>1, ApplyTopApplies DEF ChainInv
  <2>3. Rank[pending[Len(pending)]] >= Rank[next]
    BY <1>1 DEF ApplyPending, MustApply, Last
  <2>4. ChainInv' /\ GroupingsAreVerilogs'
    BY <2>2, <2>3, ApplyingKeeps
  <2> QED  BY <2>2, <2>4 DEF Applied, EndInv
<1>2. ASSUME Drain PROVE IInv'
  <2>1. pending # <<>> /\ next > Len(ops) /\ ApplyTop
    BY <1>2 DEF Drain
  <2>2. Applied(Len(pending))
    BY <2>1, ApplyTopApplies DEF ChainInv
  <2>3. ~(next <= Len(ops))
    BY <2>1, ChainType DEF ChainInv, TypeOK
  <2>4. ChainInv' /\ GroupingsAreVerilogs'
    BY <2>2, <2>3, ApplyingKeeps
  <2> QED  BY <2>2, <2>4 DEF Applied, EndInv
<1>3. ASSUME PushOperator PROVE IInv'
  <2>1. Pushed(Len(pending)) /\ status = "reading"
    BY <1>3, PushOperatorPushes DEF ChainInv, PushOperator
  <2>2. ChainInv' /\ GroupingsAreVerilogs'
    BY <2>1, PushingKeeps
  <2> QED  BY <2>1, <2>2 DEF Pushed, EndInv
<1>4. ASSUME Finish PROVE IInv'
  <2>1. /\ next > Len(ops) /\ pending = <<>>
        /\ status' \in {"lowered", "rejected"}
        /\ UNCHANGED <<ops, ternary, next, values, pending, groupings>>
    BY <1>4 DEF Finish, Drained
  <2>2. Rank' = Rank
    BY <2>1 DEF Rank
  <2>3. TypeOK'
    BY <2>1 DEF ChainInv, TypeOK
  <2>4. StacksInv'
    BY <2>1 DEF ChainInv, StacksInv, Last
  <2>5. RanksInv'
    BY <2>1, <2>2 DEF ChainInv, RanksInv, Last, Inside
  <2>6. OnceInv'
    BY <2>1 DEF ChainInv, OnceInv
  <2>7. GroupingsAreVerilogs'
    BY <2>1, <2>2 DEF GroupingsAreVerilogs
  <2>8. EndInv'
    BY <2>1 DEF EndInv
  <2> QED  BY <2>3, <2>4, <2>5, <2>6, <2>7, <2>8 DEF ChainInv
<1>5. ASSUME UNCHANGED vars PROVE IInv'
  <2>1. UNCHANGED <<ops, ternary, next, values, pending, groupings, status>>
    BY <1>5 DEF vars
  <2>2. Rank' = Rank
    BY <2>1 DEF Rank
  <2>3. TypeOK' /\ StacksInv'
    BY <2>1 DEF ChainInv, TypeOK, StacksInv, Last
  <2>4. RanksInv'
    BY <2>1, <2>2 DEF ChainInv, RanksInv, Last, Inside
  <2>5. OnceInv' /\ EndInv'
    BY <2>1 DEF ChainInv, OnceInv, EndInv
  <2>6. GroupingsAreVerilogs'
    BY <2>1, <2>2 DEF GroupingsAreVerilogs
  <2> QED  BY <2>3, <2>4, <2>5, <2>6 DEF ChainInv
<1> QED  BY <1>1, <1>2, <1>3, <1>4, <1>5 DEF Next

(* So it holds throughout.                                                 *)
LEMMA Inductive == Spec => []IInv
<1>1. Init => IInv
  BY StartsWell DEF IInv, EndInv, Init
<1>2. IInv /\ [Next]_vars => IInv'
  BY NextKeeps
<1> QED  BY <1>1, <1>2, PTL DEF Spec

(* What one lowered chain is, from what holds of the stacks throughout.    *)
LEMMA LoweredIsWhole == ASSUME IInv PROVE WholeChainLowered
<1> SUFFICES ASSUME status = "lowered"
             PROVE  /\ values = <<[first |-> 1, last |-> Len(ops) + 1]>>
                    /\ \A i \in 1..Len(ops) : \E g \in groupings : g.op = i
                    /\ \A g, h \in groupings : g.op = h.op => g = h
  BY DEF WholeChainLowered
<1>1. /\ Len(ops) \in Nat \ {0} /\ next \in 1..(Len(ops) + 1)
      /\ values \in Seq(Span) /\ Len(values) = Len(pending) + 1
      /\ Last(values) = values[Len(values)]
  BY StackTypes DEF IInv, ChainInv
<1>2. next = Len(ops) + 1 /\ Len(pending) = 0 /\ Len(values) = 1
  BY <1>1, EmptySeq DEF IInv, EndInv
<1>3. values[1].first = 1 /\ values[1].last = Len(ops) + 1
  BY <1>1, <1>2 DEF IInv, ChainInv, StacksInv
<1>4. values[1] \in Span
  BY <1>1, <1>2, ElementOfSeq
<1>5. values[1] = [first |-> 1, last |-> Len(ops) + 1]
  BY <1>3, <1>4 DEF Span
<1>6. values = <<values[1]>>
  BY <1>1, <1>2
<1>7. \A i \in 1..Len(ops) : \E g \in groupings : g.op = i
  <2>1. \A i \in 1..(next - 1) :
           (\E k \in 1..Len(pending) : pending[k] = i) <=> ~(\E g \in groupings : g.op = i)
    BY DEF IInv, ChainInv, OnceInv
  <2> QED  BY <1>1, <1>2, <2>1
<1> QED  BY <1>5, <1>6, <1>7 DEF IInv, ChainInv, OnceInv

-----------------------------------------------------------------------------

(* Lowering a chain never pops an empty stack, and its values cover the    *)
(* operands read so far (lower_binary_chain and apply_top).                *)
THEOREM StacksNeverUnderflow == Spec => []StacksInv
<1>1. IInv => StacksInv
  BY DEF IInv, ChainInv
<1> QED  BY <1>1, Inductive, PTL

(* The stacks hold spans of the chain's operands and its operators, and    *)
(* the reader never passes its end (lower_binary_chain).                   *)
THEOREM TypeCorrect == Spec => []TypeOK
<1>1. IInv => TypeOK
  BY DEF IInv, ChainInv
<1> QED  BY <1>1, Inductive, PTL

(* A pending operator binds more tightly than the ones below it, and no    *)
(* operator under a value is looser than those around it: the invariant of *)
(* precedence climbing, on which the groupings rest (lower_binary_chain).  *)
THEOREM RanksRise == Spec => []RanksInv
<1>1. IInv => RanksInv
  BY DEF IInv, ChainInv
<1> QED  BY <1>1, Inductive, PTL

(* No operator is lost or applied twice while the chain is read            *)
(* (lower_binary_chain and apply_top).                                     *)
THEOREM AppliedOnce == Spec => []OnceInv
<1>1. IInv => OnceInv
  BY DEF IInv, ChainInv
<1> QED  BY <1>1, Inductive, PTL

(* However long a chain and whatever its operators, lower_binary_chain     *)
(* groups it as Verilog's precedences and left-associativity demand.       *)
THEOREM GroupsLikeVerilog == Spec => []GroupingsAreVerilogs
<1>1. IInv => GroupingsAreVerilogs
  BY DEF IInv
<1> QED  BY <1>1, Inductive, PTL

(* The expression lower_binary_chain returns stands for the whole chain,   *)
(* each of its operators applied once.                                     *)
THEOREM NothingDropped == Spec => []WholeChainLowered
<1>1. IInv => WholeChainLowered
  BY LoweredIsWhole
<1> QED  BY <1>1, Inductive, PTL
=============================================================================
