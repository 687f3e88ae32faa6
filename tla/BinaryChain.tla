---------------------------- MODULE BinaryChain ----------------------------
(***************************************************************************)
(* lower_binary_chain: a chain of binary operators, which the parser hands *)
(* over in source order without precedence, is combined with two stacks.   *)
(* A value on the stack is the expression lowered from a span of operands; *)
(* pending holds operators by their place in the chain.                    *)
(***************************************************************************)
EXTENDS Precedence

CONSTANT Chains    \* The chains: non-empty sequences of operator symbols.

ASSUME ChainsAssumption == \A chain \in Chains : chain \in Seq(STRING) /\ chain # <<>>

VARIABLES
    ops,        \* The operators of the chain, in source order.
    ternary,    \* Whether the chain's last operand starts a bare ?:.
    next,       \* The first operator not yet pushed.
    values,     \* The stack of spans combined so far.
    pending,    \* The stack of operators waiting for their right operand.
    groupings,  \* What was combined, in any order.
    status      \* "reading", "lowered" or "rejected".

vars == <<ops, ternary, next, values, pending, groupings, status>>

Rank == [i \in 1..Len(ops) |-> PrecedenceOf(ops[i])]

Last(stack) == stack[Len(stack)]
Pop(stack)  == SubSeq(stack, 1, Len(stack) - 1)

(* operands has one more element than ops; the first is on the stack.      *)
Init ==
    /\ ops \in Chains
    /\ ternary \in BOOLEAN
    /\ next = 1
    /\ values = <<[first |-> 1, last |-> 1]>>
    /\ pending = <<>>
    /\ groupings = {}
    /\ status = "reading"

(* An operator as tight as the next one is applied before it is pushed.    *)
WrongMustApply == Rank[Last(pending)] > Rank[next]
MustApply == Rank[Last(pending)] >= Rank[next]

(* The operand right of the operator pushed, and the operator after it.    *)
WrongNextOperand == next + 2
RepeatedOperand  == next
NextOperand      == next + 1
WrongFollowing == next
Following == next + 1

(* Nothing waits for its right operand any more.                           *)
WrongDrained == Len(pending) <= 1
Drained == pending = <<>>

(* The two values on top become one; malformed when there are not two.     *)
ApplyTop ==
    LET op  == Last(pending)
        lhs == values[Len(values) - 1]
        rhs == Last(values)
    IN  /\ pending' = Pop(pending)
        /\ IF Len(values) < 2
           THEN status' = "malformed" /\ UNCHANGED <<values, groupings>>
           ELSE /\ values' = Append(Pop(Pop(values)), [first |-> lhs.first, last |-> rhs.last])
                /\ groupings' = groupings \cup {Grouping(lhs.first, op, rhs.last)}
                /\ \/ ops[op] \in Supported /\ status' = "reading"
                   \/ status' = "rejected"
        /\ UNCHANGED <<ops, ternary, next>>

ApplyPending ==
    /\ status = "reading"
    /\ next <= Len(ops) /\ pending # <<>>
    /\ MustApply
    /\ ApplyTop

PushOperator ==
    /\ status = "reading"
    /\ next <= Len(ops)
    /\ pending # <<>> => ~MustApply
    /\ pending' = Append(pending, next)
    /\ values' = Append(values, [first |-> NextOperand, last |-> NextOperand])
    /\ next' = Following
    /\ UNCHANGED <<ops, ternary, groupings, status>>

Drain ==
    /\ status = "reading"
    /\ next > Len(ops) /\ pending # <<>>
    /\ ApplyTop

(* The one value left is the result, or the condition of the ternary.      *)
Finish ==
    /\ status = "reading"
    /\ next > Len(ops) /\ Drained
    /\ \/ status' = "lowered"
       \/ ternary /\ status' = "rejected"    \* One of its arms is.
    /\ UNCHANGED <<ops, ternary, next, values, pending, groupings>>

Next == ApplyPending \/ PushOperator \/ Drain \/ Finish

Spec == Init /\ [][Next]_vars /\ WF_vars(Next)

-----------------------------------------------------------------------------

TypeOK ==
    /\ ops \in Chains
    /\ ternary \in BOOLEAN
    /\ next \in 1..(Len(ops) + 1)
    /\ values \in Seq([first : 1..(Len(ops) + 1), last : 1..(Len(ops) + 1)])
    /\ pending \in Seq(1..Len(ops))
    /\ groupings \subseteq [first : 1..Len(ops), op : 1..Len(ops), last : 1..(Len(ops) + 1)]
    /\ status \in {"reading", "lowered", "rejected", "malformed"}

(* The stacks hold the operands read so far without gap or overlap: a      *)
(* pending operator stands between the two values it will combine, and no  *)
(* pop finds a stack empty (the expects of lower_binary_chain, the         *)
(* "malformed" of apply_top).                                              *)
StacksInv ==
    /\ status # "malformed"
    /\ Len(values) = Len(pending) + 1
    /\ values[1].first = 1 /\ Last(values).last = next
    /\ \A i \in 1..Len(pending) :
          /\ pending[i] = values[i].last
          /\ values[i + 1].first = pending[i] + 1
          /\ pending[i] < next /\ \A j \in 1..(i - 1) : pending[j] < pending[i]
    /\ \A i \in 1..Len(values) : values[i].first <= values[i].last

(* The operators inside a span: those between two of its operands.         *)
Inside(span) == span.first..(span.last - 1)

(* What the stacks must keep for the groupings to come out right: pending  *)
(* operators bind tighter and tighter, a value holds no operator that      *)
(* should have waited for a pending one beside it, and the last value none *)
(* that should have waited for the operator to be read.                    *)
RanksInv ==
    /\ \A i \in 1..(Len(pending) - 1) : Rank[pending[i]] < Rank[pending[i + 1]]
    /\ \A i \in 1..Len(pending) :
          /\ \A j \in Inside(values[i])     : Rank[j] >= Rank[pending[i]]
          /\ \A j \in Inside(values[i + 1]) : Rank[j] > Rank[pending[i]]
    /\ next <= Len(ops) => \A j \in Inside(Last(values)) : Rank[j] >= Rank[next]

(* An operator that was read is either pending or applied, once.           *)
OnceInv ==
    /\ \A i \in 1..(next - 1) :
          (\E k \in 1..Len(pending) : pending[k] = i) <=> ~(\E g \in groupings : g.op = i)
    /\ \A g, h \in groupings : g.op = h.op => g = h
    /\ \A g \in groupings : g.op < next

(* Every grouping is Verilog's: the operator applied last in a span is the *)
(* rightmost of the loosest there, whatever the parser's nesting was.      *)
GroupingsAreVerilogs == \A g \in groupings : GroupsAsVerilog(Rank, g)

(* The result of a chain is the whole of it, made by applying each of its  *)
(* operators once; before a bare ternary it is the condition.              *)
WholeChainLowered ==
    status = "lowered" =>
        /\ values = <<[first |-> 1, last |-> Len(ops) + 1]>>
        /\ \A i \in 1..Len(ops) : \E g \in groupings : g.op = i
        /\ \A g, h \in groupings : g.op = h.op => g = h

(* Every chain is lowered or rejected.                                     *)
ChainEnds == <>(status # "reading")

(* The groupings lower_constant_expr makes of the same chain: it follows   *)
(* the parser's nesting, in which an operator has all the rest on its      *)
(* right.                                                                  *)
ConstantGroupings == {Grouping(i, i, Len(ops) + 1) : i \in 1..Len(ops)}

(* A constant expression has the shape the general grammar gives the same  *)
(* text (as the comment of lower_constant_expr says).                      *)
ConstantsGroupAlike == status = "lowered" => groupings = ConstantGroupings
=============================================================================
