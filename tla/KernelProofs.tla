---------------------------- MODULE KernelProofs ----------------------------
(***************************************************************************)
(* Theorems about Kernel, for every module the frontend can hand over,     *)
(* every word width and every limit on the passes.                         *)
(***************************************************************************)
EXTENDS Kernel, SequenceTheorems, WellFoundedInduction, TLAPS

-----------------------------------------------------------------------------
(***************************************************************************)
(* Numbers.                                                                *)
(***************************************************************************)

(* Every nonempty set of natural numbers has a least element: induction,   *)
(* in the form of the smallest counterexample.                             *)
LEMMA LeastNumber ==
    ASSUME NEW T, T \subseteq Nat, T # {}
    PROVE  \E x \in T : \A y \in T : x <= y
<1> DEFINE R == OpToRel(<, Nat)
<1>1. IsWellFoundedOn(R, Nat)
  BY NatLessThanWellFounded
<1>2. \A x, y \in T : y < x => <<y, x>> \in R
  BY DEF OpToRel
<1> HIDE DEF R
<1>3. PICK x \in T : \A y \in T : <<y, x>> \notin R
  BY <1>1, WFMin
<1>4. \A y \in T : ~(y < x)
  BY <1>2, <1>3
<1> QED  BY <1>3, <1>4

-----------------------------------------------------------------------------
(***************************************************************************)
(* Words.                                                                  *)
(***************************************************************************)

(* The bits kept of a value are never more than the word has.              *)
LEMMA KeptType == ASSUME NEW w \in Nat PROVE Kept(w) \in 0..WordWidth
BY WordAssumption DEF Kept

(* A word is a natural number.                                             *)
LEMMA WordType == \A x \in Word : x \in Nat
<1>1. WordWidth \in 0..WordWidth
  BY WordAssumption
<1>2. 2^WordWidth \in Nat
  BY <1>1, PowerAssumption
<1> QED
  BY <1>2 DEF Word

(* Masking yields a value of the width, and a word in any case.            *)
LEMMA MaskType ==
    ASSUME NEW value \in Nat, NEW width \in Nat
    PROVE  /\ Mask(value, width) \in 0..(2^Kept(width) - 1)
           /\ Mask(value, width) \in Word
           /\ Mask(value, width) \in Nat
<1> DEFINE n == 2^Kept(width)
           top == 2^WordWidth
<1>1. Kept(width) \in 0..WordWidth
  BY KeptType
<1>2. n \in Nat \ {0} /\ n <= top
  BY <1>1, PowerAssumption
<1>3. WordWidth \in 0..WordWidth
  BY WordAssumption
<1>4. top \in Nat \ {0}
  BY <1>3, PowerAssumption
<1>5. value % n \in 0..(n - 1)
  BY <1>2
<1>6. value % n \in 0..(top - 1)
  BY <1>2, <1>4, <1>5
<1> QED
  BY <1>5, <1>6 DEF Mask, Word

(* Replacing a range of a word's bits leaves a natural number.             *)
LEMMA InsertType ==
    ASSUME NEW current \in Nat, NEW value \in Nat,
           NEW msb \in 0..(WordWidth - 1), NEW lsb \in 0..(WordWidth - 1), lsb <= msb
    PROVE  Insert(current, msb, lsb, value) \in Nat
<1> DEFINE high == 2^(msb + 1)
           low  == 2^lsb
           bits == Mask(value, msb - lsb + 1)
<1>1. msb + 1 \in 0..WordWidth /\ lsb \in 0..WordWidth /\ msb - lsb + 1 \in Nat
  BY WordAssumption
<1>2. high \in Nat \ {0} /\ low \in Nat \ {0}
  BY <1>1, PowerAssumption
<1>3. bits \in Nat
  BY <1>1, MaskType
<1> HIDE DEF high, low, bits
<1>4. current \div high \in Nat /\ current % low \in Nat
  BY <1>2
<1>5. (current \div high) * high \in Nat
  BY <1>2, <1>4
<1>6. bits * low \in Nat
  BY <1>2, <1>3
<1>7. (current \div high) * high + bits * low + (current % low) \in Nat
  BY <1>4, <1>5, <1>6
<1> QED
  BY <1>7 DEF Insert, high, low, bits

-----------------------------------------------------------------------------
(***************************************************************************)
(* Writes.                                                                 *)
(***************************************************************************)

(* A scalar write keeps every signal within its width.                     *)
LEMMA WriteScalarType ==
    ASSUME NEW vals \in Values, NEW target \in SignalId, NEW range \in Ranges,
           NEW value \in Word
    PROVE  WriteScalar(vals, target, range, value) \in Values
<1> DEFINE new == IF range = None THEN value
                  ELSE Insert(vals[target], range[1], range[2], value)
           cut == Mask(new, Width[target])
<1>1. vals[target] \in Nat /\ value \in Nat
  BY DEF Values, Word
<1>2. new \in Nat
  <2>1. CASE range = None
    BY <1>1, <2>1
  <2>2. CASE range # None
    <3>1. /\ range[1] \in 0..(WordWidth - 1) /\ range[2] \in 0..(WordWidth - 1)
          /\ range[2] <= range[1]
      BY <2>2 DEF Ranges
    <3> QED
      BY <1>1, <2>2, <3>1, InsertType
  <2> QED
    BY <2>1, <2>2
<1>3. Width[target] \in Nat
  BY SignalAssumption
<1> HIDE DEF new
<1>4. cut \in Fits(target) /\ cut \in Word
  BY <1>2, <1>3, MaskType DEF Fits
<1> HIDE DEF cut
<1>5. WriteScalar(vals, target, range, value) = [vals EXCEPT ![target] = cut]
  BY DEF WriteScalar, cut, new
<1> QED
  BY <1>4, <1>5 DEF Values

(* An array write keeps every element within the array's width.            *)
LEMMA WriteArrayType ==
    ASSUME NEW arrs \in Arrays, NEW array \in SignalId, NEW index \in Word,
           NEW value \in Word
    PROVE  WriteArray(arrs, array, index, value) \in Arrays
<1> DEFINE cut == Mask(value, Width[array])
           new == [arrs[array] EXCEPT ![index] = cut]
<1>1. CASE index \notin Elements(array)
  BY <1>1 DEF WriteArray
<1>2. CASE index \in Elements(array)
  <2>1. value \in Nat /\ Width[array] \in Nat
    BY SignalAssumption DEF Word
  <2>2. cut \in Fits(array)
    BY <2>1, MaskType DEF Fits
  <2>3. WriteArray(arrs, array, index, value) = [arrs EXCEPT ![array] = new]
    BY <1>2 DEF WriteArray
  <2>4. arrs[array] \in [Elements(array) -> Fits(array)]
    BY DEF Arrays
  <2> HIDE DEF cut
  <2>5. new \in [Elements(array) -> Fits(array)]
    BY <2>2, <2>4
  <2> HIDE DEF new
  <2> DEFINE S == UNION {[Elements(s) -> Fits(s)] : s \in SignalId}
  <2>6. new \in S /\ arrs \in [SignalId -> S]
    BY <2>5 DEF Arrays
  <2>7. [arrs EXCEPT ![array] = new] \in [SignalId -> S]
    BY <2>6
  <2>8. \A s \in SignalId : [arrs EXCEPT ![array] = new][s] \in [Elements(s) -> Fits(s)]
    BY <2>5, <2>6 DEF Arrays
  <2> QED
    BY <2>3, <2>7, <2>8 DEF Arrays
<1> QED
  BY <1>1, <1>2

(* A statement that writes asks for a well-formed write.                   *)
LEMMA EvalWriteIn ==
    ASSUME NEW v \in Values, NEW a \in Arrays, NEW s \in Stmt,
           s.kind \in NonBlockingKinds \cup BlockingKinds
    PROVE  EvalWrite(s, v, a) \in PendingWrite
<1>1. WellFormed(s, Stmt)
  BY StmtAssumption
<1>2. CASE s.kind \in ScalarKinds
  <2>1. s.target \in SignalId /\ s.range \in Ranges /\ s.value \in Expr
    BY <1>1, <1>2 DEF WellFormed
  <2>2. Eval(s.value, v, a) \in Word
    BY <2>1, EvalAssumption
  <2> QED
    BY <1>2, <2>1, <2>2 DEF EvalWrite, PendingWrite
<1>3. CASE s.kind \notin ScalarKinds
  <2>1. s.kind \in ArrayKinds
    BY <1>3 DEF NonBlockingKinds, BlockingKinds, ScalarKinds, ArrayKinds
  <2>2. s.array \in SignalId /\ s.index \in Expr /\ s.value \in Expr
    BY <1>1, <2>1 DEF WellFormed
  <2>3. Eval(s.value, v, a) \in Word /\ Eval(s.index, v, a) \in Word
    BY <2>2, EvalAssumption
  <2> QED
    BY <1>3, <2>2, <2>3 DEF EvalWrite, PendingWrite
<1> QED
  BY <1>2, <1>3

(* So does one that the kernel is to run.                                  *)
LEMMA EvalWriteType ==
    ASSUME TypeOK, NEW s \in Stmt, s.kind \in NonBlockingKinds \cup BlockingKinds
    PROVE  EvalWrite(s, values, arrays) \in PendingWrite
BY EvalWriteIn DEF TypeOK

(* Applying a write keeps every signal within its width.                   *)
LEMMA ApplyWriteType ==
    ASSUME TypeOK, NEW w \in PendingWrite, ApplyWrite(w)
    PROVE  values' \in Values /\ arrays' \in Arrays
<1>1. values \in Values /\ arrays \in Arrays
  BY DEF TypeOK
<1>2. CASE w.kind = "Scalar"
  <2>1. w.target \in SignalId /\ w.range \in Ranges /\ w.value \in Word
    BY <1>2 DEF PendingWrite
  <2>2. values' = WriteScalar(values, w.target, w.range, w.value) /\ arrays' = arrays
    BY <1>2 DEF ApplyWrite
  <2> QED
    BY <1>1, <2>1, <2>2, WriteScalarType
<1>3. CASE w.kind = "Array"
  <2>1. w.array \in SignalId /\ w.index \in Word /\ w.value \in Word
    BY <1>3 DEF PendingWrite
  <2>2. arrays' = WriteArray(arrays, w.array, w.index, w.value) /\ values' = values
    BY <1>3 DEF ApplyWrite
  <2> QED
    BY <1>1, <2>1, <2>2, WriteArrayType
<1> QED
  BY <1>2, <1>3 DEF ApplyWrite

-----------------------------------------------------------------------------
(***************************************************************************)
(* Type correctness.                                                       *)
(***************************************************************************)

(* Init has it.                                                            *)
LEMMA InitTypeOK == Init => TypeOK
<1> SUFFICES ASSUME Init PROVE TypeOK
  OBVIOUS
<1>1. \A s \in SignalId : 0 \in Fits(s) /\ 0 \in Word
  <2> SUFFICES ASSUME NEW s \in SignalId PROVE 0 \in Fits(s) /\ 0 \in Word
    OBVIOUS
  <2>1. Width[s] \in Nat
    BY SignalAssumption
  <2>2. Mask(0, Width[s]) \in Nat /\ Mask(0, Width[s]) \in Fits(s) /\ Mask(0, Width[s]) \in Word
    BY <2>1, MaskType DEF Fits
  <2>3. Kept(Width[s]) \in 0..WordWidth /\ WordWidth \in 0..WordWidth
    BY <2>1, KeptType, WordAssumption
  <2>4. 2^Kept(Width[s]) \in Nat \ {0} /\ 2^WordWidth \in Nat \ {0}
    BY <2>3, PowerAssumption
  <2> QED
    BY <2>4 DEF Fits, Word
<1>2. values \in Values
  BY <1>1 DEF Init, Values
<1>3. arrays \in Arrays
  <2> DEFINE zero(s) == [i \in Elements(s) |-> 0]
  <2>1. \A s \in SignalId : zero(s) \in [Elements(s) -> Fits(s)]
    BY <1>1
  <2>2. arrays = [s \in SignalId |-> zero(s)]
    BY DEF Init
  <2> QED
    BY <2>1, <2>2 DEF Arrays
<1>4. pass \in 1..(MAX_PASSES + 1)
  BY PassesAssumption DEF Init
<1>5. todo \in Seq(Stmt) /\ updates \in Seq(PendingWrite)
  BY EmptySeq DEF Init
<1> QED
  BY <1>2, <1>3, <1>4, <1>5 DEF Init, TypeOK, Loops, Callers

(* Starting a settle, or another pass of one, sets what it sets to its     *)
(* type.                                                                   *)
LEMMA BeginPassType ==
    ASSUME values' \in Values, arrays' \in Arrays, BeginPass
    PROVE  pc' \in Loops /\ cursor' \in Nat \ {0} /\ before' \in Values \X Arrays
BY DEF BeginPass, Loops

(* A sequence over a set is one over any larger set.                       *)
LEMMA SeqMonotone == ASSUME NEW S, NEW T, S \subseteq T PROVE Seq(S) \subseteq Seq(T)
<1> SUFFICES ASSUME NEW q \in Seq(S) PROVE q \in Seq(T)
  OBVIOUS
<1>1. q \in [1..Len(q) -> S] /\ Len(q) \in Nat
  BY LenProperties
<1>2. q \in [1..Len(q) -> T]
  BY <1>1
<1> QED
  BY <1>1, <1>2, SeqDef

(* Running a statement leaves statements of the same bodies to run.        *)
LEMMA TodoStaysWithin ==
    ASSUME NEW S, \A s \in S : WellFormed(s, S), todo \in Seq(S), EvalStmts
    PROVE  Head(todo) \in S /\ todo' \in Seq(S)
<1> DEFINE s == Head(todo)
<1>1. todo # <<>>
  BY DEF EvalStmts, QueueWrite, WriteNow, Branch, CaseArm, CaseDefault, Running
<1>2. s \in S /\ Tail(todo) \in Seq(S)
  BY <1>1, HeadTailProperties
<1>3. WellFormed(s, S)
  BY <1>2
<1>4. CASE QueueWrite \/ WriteNow
  BY <1>2, <1>4 DEF QueueWrite, WriteNow
<1>5. CASE Branch
  <2>1. s.then_branch \in Seq(S) /\ s.else_branch \in Seq(S)
    BY <1>3, <1>5 DEF Branch, Running, WellFormed
  <2> QED
    BY <1>2, <1>5, <2>1, ConcatProperties DEF Branch
<1>6. CASE CaseArm
  <2> DEFINE arms == s.arms
  <2>1. PICK i \in DOMAIN arms : todo' = arms[i].body \o Tail(todo)
    BY <1>6 DEF CaseArm
  <2>2. arms \in Seq([values : Seq(CaseValue), body : Seq(S)])
    BY <1>3, <1>6 DEF CaseArm, Running, WellFormed
  <2>3. i \in 1..Len(arms)
    BY <2>1, <2>2, LenProperties
  <2>4. arms[i] \in [values : Seq(CaseValue), body : Seq(S)]
    BY <2>2, <2>3, ElementOfSeq
  <2>5. arms[i].body \in Seq(S)
    BY <2>4
  <2> QED
    BY <1>2, <2>1, <2>5, ConcatProperties
<1>7. CASE CaseDefault
  <2>1. s.default \in Seq(S)
    BY <1>3, <1>7 DEF CaseDefault, Running, WellFormed
  <2> QED
    BY <1>2, <1>7, <2>1, ConcatProperties DEF CaseDefault
<1> QED
  BY <1>2, <1>4, <1>5, <1>6, <1>7 DEF EvalStmts

(* No step takes a variable out of its type.                               *)
LEMMA NextTypeOK == TypeOK /\ [Next]_vars => TypeOK'
<1> SUFFICES ASSUME TypeOK, [Next]_vars PROVE TypeOK'
  OBVIOUS
<1> USE DEF TypeOK
<1>1. CASE SetAll
  <2>1. values' \in Values
    <3>1. PICK D \in SUBSET Inputs : \E request \in [D -> DriveWord] :
             values' = [s \in SignalId |->
                           IF s \in D THEN Mask(request[s], Width[s]) ELSE values[s]]
      BY <1>1 DEF SetAll
    <3>2. PICK request \in [D -> DriveWord] :
             values' = [s \in SignalId |->
                           IF s \in D THEN Mask(request[s], Width[s]) ELSE values[s]]
      BY <3>1
    <3>3. \A s \in D : request[s] \in Nat
      BY InputsAssumption, WordType
    <3>4. \A s \in SignalId : Width[s] \in Nat
      BY SignalAssumption
    <3>5. \A s \in D : Mask(request[s], Width[s]) \in Fits(s) /\ Mask(request[s], Width[s]) \in Word
      BY <3>3, <3>4, MaskType, InputsAssumption DEF Fits
    <3> QED
      BY <3>2, <3>5 DEF Values
  <2>2. arrays' \in Arrays /\ BeginPass /\ caller' \in Callers /\ pass' = 1
    BY <1>1 DEF SetAll, BeginSettle, Callers
  <2>3. pc' \in Loops /\ cursor' \in Nat \ {0} /\ before' \in Values \X Arrays
    BY <2>1, <2>2, BeginPassType
  <2> QED
    BY <1>1, <2>1, <2>2, <2>3, PassesAssumption DEF SetAll
<1>2. CASE Tick
  <2>1. BeginPass /\ caller' \in Callers /\ pass' = 1 /\ values' \in Values /\ arrays' \in Arrays
    BY <1>2 DEF Tick, BeginSettle, Callers
  <2>2. pc' \in Loops /\ cursor' \in Nat \ {0} /\ before' \in Values \X Arrays
    BY <2>1, BeginPassType
  <2> QED
    BY <1>2, <2>1, <2>2, PassesAssumption DEF Tick
<1>3. CASE SettleAssign
  <2>1. module.assigns \in Seq(Assign)
    BY ModulesAssumption DEF ModuleOK
  <2>2. module.assigns[cursor] \in Assign
    BY <1>3, <2>1, ElementOfSeq DEF SettleAssign
  <2>3. Eval(module.assigns[cursor].value, values, arrays) \in Word
    BY <2>2, EvalAssumption DEF Assign
  <2>4. values' \in Values
    BY <1>3, <2>2, <2>3, WriteScalarType DEF SettleAssign, Assign, Ranges
  <2> QED
    BY <1>3, <2>4 DEF SettleAssign
<1>4. CASE EndAssigns
  BY <1>4 DEF EndAssigns, Loops
<1>5. CASE StartProcess
  <2>1. /\ module.clocked_processes \in Seq(ClockedProcess)
        /\ module.comb_processes \in Seq(CombProcess)
    BY ModulesAssumption DEF ModuleOK
  <2>2. Processes \in Seq(ClockedProcess) \/ Processes \in Seq(CombProcess)
    BY <2>1 DEF Processes
  <2>3. cursor \in 1..Len(Processes)
    BY <1>5, <2>2 DEF StartProcess
  <2>4. Processes[cursor] \in ClockedProcess \/ Processes[cursor] \in CombProcess
    BY <2>2, <2>3, ElementOfSeq
  <2>5. todo' \in Seq(Stmt)
    BY <1>5, <2>4 DEF StartProcess, ClockedProcess, CombProcess
  <2> QED
    BY <1>5, <2>5 DEF StartProcess
<1>6. CASE EvalStmts
  <2>1. Head(todo) \in Stmt /\ todo' \in Seq(Stmt)
    BY <1>6, TodoStaysWithin, StmtAssumption
  <2>2. CASE QueueWrite
    <3>1. EvalWrite(Head(todo), values, arrays) \in PendingWrite
      BY <2>1, <2>2, EvalWriteType DEF QueueWrite, Running
    <3>2. updates' \in Seq(PendingWrite)
      BY <2>2, <3>1, AppendProperties DEF QueueWrite
    <3> QED
      BY <2>1, <2>2, <3>2 DEF QueueWrite, Running
  <2>3. CASE WriteNow
    <3>1. EvalWrite(Head(todo), values, arrays) \in PendingWrite
      BY <2>1, <2>3, EvalWriteType DEF WriteNow, Running
    <3>2. values' \in Values /\ arrays' \in Arrays
      BY <2>3, <3>1, ApplyWriteType DEF WriteNow
    <3> QED
      BY <2>1, <2>3, <3>2 DEF WriteNow, Running
  <2>4. CASE Branch \/ CaseArm \/ CaseDefault
    BY <2>1, <2>4 DEF Branch, CaseArm, CaseDefault, Running
  <2> QED
    BY <1>6, <2>2, <2>3, <2>4 DEF EvalStmts
<1>7. CASE ReturnToTick
  BY <1>7 DEF ReturnToTick, Loops
<1>8. CASE ReturnToDriver
  BY <1>8 DEF ReturnToDriver, Loops
<1>9. CASE NextPass
  <2>1. pass' \in 1..(MAX_PASSES + 1)
    BY <1>9, PassesAssumption DEF NextPass
  <2>2. pc' \in Loops /\ cursor' \in Nat \ {0} /\ before' \in Values \X Arrays
    BY <1>9, BeginPassType DEF NextPass
  <2> QED
    BY <1>9, <2>1, <2>2 DEF NextPass
<1>10. CASE Panic
  BY <1>10 DEF Panic, Loops
<1>11. CASE EndClocked
  BY <1>11 DEF EndClocked, Loops
<1>12. CASE CommitWrite
  <2>1. Head(updates) \in PendingWrite /\ Tail(updates) \in Seq(PendingWrite)
    BY <1>12, HeadTailProperties DEF CommitWrite
  <2>2. values' \in Values /\ arrays' \in Arrays
    BY <1>12, <2>1, ApplyWriteType DEF CommitWrite
  <2> QED
    BY <1>12, <2>1, <2>2 DEF CommitWrite
<1>13. CASE EndCommit
  <2>1. BeginPass /\ caller' \in Callers /\ pass' = 1 /\ values' \in Values /\ arrays' \in Arrays
    BY <1>13 DEF EndCommit, BeginSettle, Callers
  <2>2. pc' \in Loops /\ cursor' \in Nat \ {0} /\ before' \in Values \X Arrays
    BY <2>1, BeginPassType
  <2> QED
    BY <1>13, <2>1, <2>2, PassesAssumption DEF EndCommit
<1>14. CASE UNCHANGED vars
  BY <1>14 DEF vars
<1> QED
  BY <1>1, <1>2, <1>3, <1>4, <1>5, <1>6, <1>7, <1>8, <1>9, <1>10, <1>11, <1>12, <1>13, <1>14
     DEF Next, Inside, Call, Settle, Edge

(* In every reachable state every variable has its type; in particular no  *)
(* signal and no array element ever holds a bit above its declared width.  *)
THEOREM TypeCorrect == Spec => []TypeOK
<1>1. Init => TypeOK
  BY InitTypeOK
<1>2. TypeOK /\ [Next]_vars => TypeOK'
  BY NextTypeOK
<1> QED
  BY <1>1, <1>2, PTL DEF Spec

-----------------------------------------------------------------------------
(***************************************************************************)
(* The bodies of a module's processes, and who drives what.                *)
(***************************************************************************)

(* A statement well-formed over a set is so over any larger set.           *)
LEMMA WellFormedMonotone ==
    ASSUME NEW S, NEW T, S \subseteq T, NEW s, WellFormed(s, S)
    PROVE  WellFormed(s, T)
<1> DEFINE ArmsOver(U) == [values : Seq(CaseValue), body : Seq(U)]
<1>1. Seq(S) \subseteq Seq(T)
  BY SeqMonotone
<1>2. ArmsOver(S) \subseteq ArmsOver(T)
  BY <1>1
<1> HIDE DEF ArmsOver
<1>3. Seq(ArmsOver(S)) \subseteq Seq(ArmsOver(T))
  BY <1>2, SeqMonotone
<1>4. s.kind = "Case" => s.arms \in Seq(ArmsOver(T))
  BY <1>3 DEF WellFormed, ArmsOver
<1> USE DEF ArmsOver
<1> QED
  BY <1>1, <1>4 DEF WellFormed

(* The statements of the combinational processes are closed under taking   *)
(* a branch, and none of them queues a write.                              *)
LEMMA CombBodies ==
    ASSUME NEW m \in Modules
    PROVE  /\ CombStmts(m) \subseteq Stmt
           /\ \A s \in CombStmts(m) : WellFormed(s, CombStmts(m))
           /\ \A s \in CombStmts(m) : s.kind \notin NonBlockingKinds
           /\ \A i \in DOMAIN m.comb_processes :
                 m.comb_processes[i].body \in Seq(CombStmts(m))
<1> DEFINE Body(i) == m.comb_processes[i].body
<1>1. \A i \in DOMAIN m.comb_processes : BodyOK(Body(i))
  BY ModulesAssumption DEF ModuleOK
<1>2. \A i \in DOMAIN m.comb_processes : Within(Body(i)) \subseteq CombStmts(m)
  BY DEF CombStmts
<1>3. CombStmts(m) \subseteq Stmt
  BY <1>1 DEF CombStmts, BodyOK
<1>4. ASSUME NEW s \in CombStmts(m)
      PROVE  WellFormed(s, CombStmts(m)) /\ s.kind \notin NonBlockingKinds
  <2>1. PICK i \in DOMAIN m.comb_processes : s \in Within(Body(i))
    BY DEF CombStmts
  <2>2. WellFormed(s, Within(Body(i)))
    BY <1>1, <2>1 DEF BodyOK
  <2>3. CombBlocking(m)
    BY ModulesAssumption DEF ModuleOK
  <2> QED
    BY <1>2, <2>1, <2>2, <2>3, WellFormedMonotone DEF CombBlocking
<1>5. ASSUME NEW i \in DOMAIN m.comb_processes PROVE Body(i) \in Seq(CombStmts(m))
  BY <1>1, <1>2, SeqMonotone DEF BodyOK
<1> QED
  BY <1>3, <1>4, <1>5

(* The same of the clocked processes, which may queue.                     *)
LEMMA ClockedBodies ==
    ASSUME NEW m \in Modules
    PROVE  /\ ClockedStmts(m) \subseteq Stmt
           /\ \A s \in ClockedStmts(m) : WellFormed(s, ClockedStmts(m))
           /\ \A i \in DOMAIN m.clocked_processes :
                 m.clocked_processes[i].body \in Seq(ClockedStmts(m))
<1> DEFINE Body(i) == m.clocked_processes[i].body
<1>1. \A i \in DOMAIN m.clocked_processes : BodyOK(Body(i))
  BY ModulesAssumption DEF ModuleOK
<1>2. \A i \in DOMAIN m.clocked_processes : Within(Body(i)) \subseteq ClockedStmts(m)
  BY DEF ClockedStmts
<1>3. ClockedStmts(m) \subseteq Stmt
  BY <1>1 DEF ClockedStmts, BodyOK
<1>4. ASSUME NEW s \in ClockedStmts(m) PROVE WellFormed(s, ClockedStmts(m))
  <2>1. PICK i \in DOMAIN m.clocked_processes : s \in Within(Body(i))
    BY DEF ClockedStmts
  <2>2. WellFormed(s, Within(Body(i)))
    BY <1>1, <2>1 DEF BodyOK
  <2> QED
    BY <1>2, <2>1, <2>2, WellFormedMonotone
<1>5. ASSUME NEW i \in DOMAIN m.clocked_processes PROVE Body(i) \in Seq(ClockedStmts(m))
  BY <1>1, <1>2, SeqMonotone DEF BodyOK
<1> QED
  BY <1>3, <1>4, <1>5

(* A target of the combinational statements is driven by a process.        *)
LEMMA CombTargetDriver ==
    ASSUME NEW m \in Modules, NEW t \in Targets(CombStmts(m))
    PROVE  \E i \in DOMAIN m.comb_processes : <<"comb", i>> \in Drivers(m, t)
<1>1. PICK s \in CombStmts(m) : \/ s.kind \in ScalarKinds /\ t = s.target
                                \/ s.kind \in ArrayKinds /\ t = s.array
  BY DEF Targets
<1>2. PICK i \in DOMAIN m.comb_processes : s \in Within(m.comb_processes[i].body)
  BY DEF CombStmts
<1>3. t \in Targets(Within(m.comb_processes[i].body))
  BY <1>1, <1>2 DEF Targets
<1> QED
  BY <1>3 DEF Drivers

(* What the clocked processes write, one of them drives.                   *)
LEMMA ClockedTargetDriver ==
    ASSUME NEW m \in Modules, NEW t \in Targets(ClockedStmts(m))
    PROVE  \E i \in DOMAIN m.clocked_processes : <<"clocked", i>> \in Drivers(m, t)
<1>1. PICK s \in ClockedStmts(m) : \/ s.kind \in ScalarKinds /\ t = s.target
                                   \/ s.kind \in ArrayKinds /\ t = s.array
  BY DEF Targets
<1>2. PICK i \in DOMAIN m.clocked_processes : s \in Within(m.clocked_processes[i].body)
  BY DEF ClockedStmts
<1>3. t \in Targets(Within(m.clocked_processes[i].body))
  BY <1>1, <1>2 DEF Targets
<1> QED
  BY <1>3 DEF Drivers

(* The target of an assignment is driven from there only.                  *)
LEMMA AssignTargetAlone ==
    ASSUME NEW m \in Modules, NEW i \in DOMAIN m.assigns
    PROVE  /\ m.assigns[i] \in Assign
           /\ m.assigns[i].target \notin Targets(CombStmts(m))
           /\ \A k \in DOMAIN m.assigns :
                 m.assigns[k].target = m.assigns[i].target => k = i
<1> DEFINE t == m.assigns[i].target
<1>1. SingleDriver(m) /\ m.assigns \in Seq(Assign)
  BY ModulesAssumption DEF ModuleOK
<1>2. m.assigns[i] \in Assign /\ t \in SignalId
  <2>1. i \in 1..Len(m.assigns)
    BY <1>1, LenProperties
  <2>2. \A q \in Seq(Assign) : \A k \in 1..Len(q) : q[k] \in Assign
    BY ElementOfSeq
  <2>3. m.assigns[i] \in Assign
    BY <1>1, <2>1, <2>2
  <2> QED
    BY <2>3 DEF Assign
<1>3. <<"assign", i>> \in Drivers(m, t)
  BY DEF Drivers
<1>4. t \notin Targets(CombStmts(m))
  <2> SUFFICES ASSUME t \in Targets(CombStmts(m)) PROVE FALSE
    OBVIOUS
  <2>1. PICK c \in DOMAIN m.comb_processes : <<"comb", c>> \in Drivers(m, t)
    BY CombTargetDriver
  <2>2. <<"comb", c>> = <<"assign", i>>
    BY <1>1, <1>2, <1>3, <2>1 DEF SingleDriver
  <2> QED
    BY <2>2
<1>5. ASSUME NEW k \in DOMAIN m.assigns, m.assigns[k].target = t PROVE k = i
  <2>1. <<"assign", k>> \in Drivers(m, t)
    BY <1>5 DEF Drivers
  <2>2. <<"assign", k>> = <<"assign", i>>
    BY <1>1, <1>2, <1>3, <2>1 DEF SingleDriver
  <2> QED
    BY <2>2
<1> QED
  BY <1>2, <1>4, <1>5

-----------------------------------------------------------------------------
(***************************************************************************)
(* Who changes what.                                                       *)
(***************************************************************************)

(* A statement's write goes to one of its targets.                         *)
LEMMA WriteTarget ==
    ASSUME NEW S, NEW s \in S, s.kind \in NonBlockingKinds \cup BlockingKinds
    PROVE  Written(EvalWrite(s, values, arrays)) \in Targets(S)
<1>1. CASE s.kind \in ScalarKinds
  <2>1. Written(EvalWrite(s, values, arrays)) = s.target
    BY <1>1 DEF Written, EvalWrite
  <2> QED
    BY <1>1, <2>1 DEF Targets
<1>2. CASE s.kind \notin ScalarKinds
  <2>1. s.kind \in ArrayKinds
    BY <1>2 DEF NonBlockingKinds, BlockingKinds, ScalarKinds, ArrayKinds
  <2>2. Written(EvalWrite(s, values, arrays)) = s.array
    BY <1>2 DEF Written, EvalWrite
  <2> QED
    BY <2>1, <2>2 DEF Targets
<1> QED
  BY <1>1, <1>2

(* Applying a write changes no signal but its target.                      *)
LEMMA WriteChanges ==
    ASSUME TypeOK, NEW w \in PendingWrite, ApplyWrite(w),
           NEW t \in SignalId, t # Written(w)
    PROVE  values'[t] = values[t] /\ arrays'[t] = arrays[t]
<1>1. values \in [SignalId -> Word] /\ DOMAIN arrays = SignalId
  BY DEF TypeOK, Values, Arrays
<1>2. CASE w.kind = "Scalar"
  <2>1. t # w.target
    BY <1>2 DEF Written
  <2> QED
    BY <1>1, <1>2, <2>1 DEF ApplyWrite, WriteScalar
<1>3. CASE w.kind = "Array"
  <2>1. t # w.array
    BY <1>3 DEF Written
  <2> QED
    BY <1>1, <1>3, <2>1 DEF ApplyWrite, WriteArray
<1> QED
  BY <1>2, <1>3 DEF ApplyWrite

(* No step leaves foreign statements to run or foreign writes to commit.   *)
LEMMA NextDriverInv == TypeOK /\ DriverInv /\ [Next]_vars => DriverInv'
<1> SUFFICES ASSUME TypeOK, DriverInv, [Next]_vars PROVE DriverInv'
  OBVIOUS
<1> USE DEF DriverInv
<1>1. module \in Modules /\ module' = module
  BY DEF TypeOK, Next, Inside, Call, Settle, EvalStmts, Edge, vars, SetAll, Tick,
         SettleAssign, EndAssigns, StartProcess, QueueWrite, WriteNow, Branch, CaseArm,
         CaseDefault, Running, ReturnToTick, ReturnToDriver, NextPass, Panic, EndClocked,
         CommitWrite, EndCommit
<1> DEFINE C == CombStmts(module)
           K == ClockedStmts(module)
<1> HIDE DEF C, K
<1>2. CASE SetAll \/ Tick
  <2>1. pc = "idle" /\ pc' = "assigns" /\ todo' = todo /\ updates' = updates
    BY <1>2 DEF SetAll, Tick, BeginSettle, BeginPass
  <2> QED
    BY <1>1, <2>1
<1>3. CASE SettleAssign
  BY <1>1, <1>3 DEF SettleAssign
<1>4. CASE EndAssigns
  <2>1. todo' = <<>> /\ pc' = "comb" /\ updates' = updates /\ updates = <<>>
    BY <1>4 DEF EndAssigns
  <2>2. todo' \in Seq(CombStmts(module)')
    BY <2>1, EmptySeq
  <2> QED
    BY <1>1, <2>1, <2>2
<1>5. CASE StartProcess
  <2>1. pc' = pc /\ updates' = updates /\ cursor \in Nat \ {0} /\ cursor <= Len(Processes)
    BY <1>5 DEF StartProcess, TypeOK
  <2>2. /\ module.comb_processes \in Seq(CombProcess)
        /\ module.clocked_processes \in Seq(ClockedProcess)
    BY <1>1, ModulesAssumption DEF ModuleOK
  <2>3. CASE pc = "comb"
    <3>1. cursor \in DOMAIN module.comb_processes
      BY <2>1, <2>2, <2>3, LenProperties DEF Processes
    <3>2. todo' \in Seq(C)
      BY <1>1, <1>5, <2>3, <3>1, CombBodies DEF StartProcess, Processes, C
    <3> QED
      BY <1>1, <2>1, <2>3, <3>2 DEF C
  <2>4. CASE pc = "clocked"
    <3>1. cursor \in DOMAIN module.clocked_processes
      BY <2>1, <2>2, <2>4, LenProperties DEF Processes
    <3>2. todo' \in Seq(K)
      BY <1>1, <1>5, <2>4, <3>1, ClockedBodies DEF StartProcess, Processes, K
    <3> QED
      BY <1>1, <2>1, <2>4, <3>2 DEF K
  <2> QED
    BY <1>5, <2>3, <2>4 DEF StartProcess
<1>6. CASE EvalStmts
  <2>1. pc' = pc /\ todo # <<>>
    BY <1>6 DEF EvalStmts, QueueWrite, WriteNow, Branch, CaseArm, CaseDefault, Running
  <2>2. CASE pc = "comb"
    <3>1. Head(todo) \in C /\ todo' \in Seq(C)
      BY <1>1, <1>6, <2>2, TodoStaysWithin, CombBodies DEF C
    <3>2. ~QueueWrite
      BY <1>1, <3>1, CombBodies DEF QueueWrite, Running, C
    <3>3. updates' = updates
      BY <1>6, <3>2 DEF EvalStmts, WriteNow, Branch, CaseArm, CaseDefault
    <3> QED
      BY <1>1, <2>1, <2>2, <3>1, <3>3 DEF C
  <2>3. CASE pc = "clocked"
    <3>1. Head(todo) \in K /\ todo' \in Seq(K)
      BY <1>1, <1>6, <2>3, TodoStaysWithin, ClockedBodies DEF K
    <3>2. updates' \in Seq(ClockedWrite(module))
      <4>1. CASE QueueWrite
        <5>1. Head(todo).kind \in NonBlockingKinds
          BY <4>1 DEF QueueWrite, Running
        <5>2. EvalWrite(Head(todo), values, arrays) \in PendingWrite
          BY <1>1, <3>1, <5>1, ClockedBodies, EvalWriteType DEF K
        <5>3. EvalWrite(Head(todo), values, arrays) \in ClockedWrite(module)
          BY <3>1, <5>1, <5>2, WriteTarget DEF ClockedWrite, K
        <5> QED
          BY <4>1, <5>3, AppendProperties DEF QueueWrite
      <4>2. CASE ~QueueWrite
        BY <1>6, <4>2 DEF EvalStmts, WriteNow, Branch, CaseArm, CaseDefault
      <4> QED
        BY <4>1, <4>2
    <3> QED
      BY <1>1, <2>1, <2>3, <3>1, <3>2 DEF K, ClockedWrite
  <2> QED
    BY <2>1, <2>2, <2>3
<1>7. CASE ReturnToTick
  <2>1. pc = "comb" /\ pc' = "clocked" /\ todo' = <<>> /\ updates' = updates
    BY <1>7 DEF ReturnToTick, PassDone
  <2>2. todo' \in Seq(ClockedStmts(module)')
    BY <2>1, EmptySeq
  <2> QED
    BY <1>1, <2>1, <2>2
<1>8. CASE ReturnToDriver \/ NextPass \/ Panic
  <2>1. /\ pc = "comb" /\ pc' \in {"idle", "assigns", "panic"}
        /\ todo' = <<>> /\ updates' = updates
    BY <1>8 DEF ReturnToDriver, NextPass, Panic, PassDone, BeginPass
  <2> QED
    BY <1>1, <2>1
<1>9. CASE EndClocked
  <2>1. pc = "clocked" /\ pc' = "commit" /\ todo' = <<>> /\ updates' = updates
    BY <1>9 DEF EndClocked
  <2> QED
    BY <1>1, <2>1
<1>10. CASE CommitWrite
  <2>1. pc = "commit" /\ pc' = pc /\ todo' = todo /\ updates' = Tail(updates) /\ updates # <<>>
    BY <1>10 DEF CommitWrite
  <2>2. updates' \in Seq(ClockedWrite(module))
    BY <2>1, HeadTailProperties
  <2> QED
    BY <1>1, <2>1, <2>2 DEF ClockedWrite
<1>11. CASE EndCommit
  <2>1. pc = "commit" /\ pc' = "assigns" /\ todo' = todo /\ updates' = updates /\ updates = <<>>
    BY <1>11 DEF EndCommit, BeginSettle, BeginPass
  <2> QED
    BY <1>1, <2>1
<1>12. CASE UNCHANGED vars
  BY <1>12 DEF vars
<1> QED
  BY <1>2, <1>3, <1>4, <1>5, <1>6, <1>7, <1>8, <1>9, <1>10, <1>11, <1>12
     DEF Next, Inside, Call, Settle, Edge

(* Init has it.                                                            *)
LEMMA InitDriverInv == Init => DriverInv
BY EmptySeq DEF Init, DriverInv

(* Settling only ever runs statements of the combinational processes, and  *)
(* neither finds nor leaves a write in the queue; what an edge commits was *)
(* queued for a signal that some clocked process drives.                   *)
THEOREM DriversSeparate == Spec => []DriverInv
<1>1. Init => TypeOK /\ DriverInv
  BY InitTypeOK, InitDriverInv
<1>2. TypeOK /\ DriverInv /\ [Next]_vars => (TypeOK /\ DriverInv)'
  BY NextTypeOK, NextDriverInv
<1> QED
  BY <1>1, <1>2, PTL DEF Spec

(* A signal that a step changes is one the current phase drives.           *)
LEMMA StepChangedByDriver ==
    ASSUME TypeOK, DriverInv, [Next]_vars, NEW s \in SignalId, Changed(s)
    PROVE  \/ pc = "idle" /\ s \in Inputs
           \/ pc = "assigns" /\ <<"assign", cursor>> \in Drivers(module, s)
           \/ pc = "comb" /\ \E i \in DOMAIN module.comb_processes :
                                <<"comb", i>> \in Drivers(module, s)
           \/ /\ pc \in {"clocked", "commit"}
              /\ \E i \in DOMAIN module.clocked_processes :
                    <<"clocked", i>> \in Drivers(module, s)
<1>1. module \in Modules /\ values \in Values
  BY DEF TypeOK
<1>2. CASE SetAll
  <2>1. PICK D \in SUBSET Inputs : \E request \in [D -> DriveWord] :
           values' = [x \in SignalId |->
                         IF x \in D THEN Mask(request[x], Width[x]) ELSE values[x]]
    BY <1>2 DEF SetAll
  <2>2. s \notin D => values'[s] = values[s] /\ arrays' = arrays
    BY <1>2, <2>1 DEF SetAll
  <2>3. s \in D
    BY <2>2 DEF Changed
  <2> QED
    BY <1>2, <2>1, <2>3 DEF SetAll
<1>3. CASE SettleAssign
  <2> DEFINE a == module.assigns[cursor]
  <2>1. cursor \in DOMAIN module.assigns
    <3>1. module.assigns \in Seq(Assign) /\ cursor \in Nat \ {0}
      BY <1>1, ModulesAssumption DEF ModuleOK, TypeOK
    <3> QED
      BY <1>3, <3>1, LenProperties DEF SettleAssign
  <2>2. s # a.target => values'[s] = values[s] /\ arrays'[s] = arrays[s]
    BY <1>1, <1>3 DEF SettleAssign, WriteScalar, Values
  <2>3. s = a.target
    BY <2>2 DEF Changed
  <2> QED
    BY <1>3, <2>1, <2>3 DEF SettleAssign, Drivers
<1>4. CASE QueueWrite \/ Branch \/ CaseArm \/ CaseDefault
  BY <1>4 DEF QueueWrite, Branch, CaseArm, CaseDefault, Changed
<1>5. CASE WriteNow
  <2> DEFINE w == EvalWrite(Head(todo), values, arrays)
  <2>1. Head(todo).kind \in BlockingKinds /\ EvalStmts
    BY <1>5 DEF WriteNow, Running, EvalStmts
  <2>2. todo \in Seq(Stmt) /\ Head(todo) \in Stmt
    BY <2>1, TodoStaysWithin, StmtAssumption DEF TypeOK
  <2>3. w \in PendingWrite /\ ApplyWrite(w)
    BY <1>5, <2>1, <2>2, EvalWriteType DEF WriteNow
  <2> HIDE DEF w
  <2>4. s = Written(w)
    BY <2>3, WriteChanges DEF Changed
  <2>5. pc \in {"comb", "clocked"}
    BY <1>5 DEF WriteNow, Running, DriverInv
  <2>6. CASE pc = "comb"
    <3>1. Head(todo) \in CombStmts(module)
      BY <1>1, <2>1, <2>6, TodoStaysWithin, CombBodies DEF DriverInv
    <3>2. s \in Targets(CombStmts(module))
      BY <2>1, <2>4, <3>1, WriteTarget DEF w
    <3> QED
      BY <1>1, <2>6, <3>2, CombTargetDriver
  <2>7. CASE pc = "clocked"
    <3>1. Head(todo) \in ClockedStmts(module)
      BY <1>1, <2>1, <2>7, TodoStaysWithin, ClockedBodies DEF DriverInv
    <3>2. s \in Targets(ClockedStmts(module))
      BY <2>1, <2>4, <3>1, WriteTarget DEF w
    <3> QED
      BY <1>1, <2>7, <3>2, ClockedTargetDriver
  <2> QED
    BY <2>5, <2>6, <2>7
<1>6. CASE CommitWrite
  <2> DEFINE w == Head(updates)
  <2>1. w \in ClockedWrite(module)
    BY <1>6, HeadTailProperties DEF CommitWrite, DriverInv
  <2>2. w \in PendingWrite /\ Written(w) \in Targets(ClockedStmts(module)) /\ ApplyWrite(w)
    BY <1>6, <2>1 DEF ClockedWrite, CommitWrite
  <2> HIDE DEF w
  <2>3. s = Written(w)
    BY <2>2, WriteChanges DEF Changed
  <2> QED
    BY <1>1, <1>6, <2>2, <2>3, ClockedTargetDriver DEF CommitWrite
<1>7. CASE \/ Tick \/ EndAssigns \/ StartProcess \/ ReturnToTick \/ ReturnToDriver
           \/ NextPass \/ Panic \/ EndClocked \/ EndCommit \/ UNCHANGED vars
  BY <1>7 DEF Tick, EndAssigns, StartProcess, ReturnToTick, ReturnToDriver, NextPass,
              Panic, EndClocked, EndCommit, vars, Changed
<1> QED
  BY <1>2, <1>3, <1>4, <1>5, <1>6, <1>7 DEF Next, Inside, Call, Settle, EvalStmts, Edge

(* Inputs change only when the driver sets them, nets only while settling, *)
(* registers only at the edge, each by the one place that drives it.       *)
THEOREM OnlyDriversChange == Spec => ChangedByDriver
<1> DEFINE ByDriver ==
              \A s \in SignalId : Changed(s) =>
                 \/ pc = "idle" /\ s \in Inputs
                 \/ pc = "assigns" /\ <<"assign", cursor>> \in Drivers(module, s)
                 \/ pc = "comb" /\ \E i \in DOMAIN module.comb_processes :
                                      <<"comb", i>> \in Drivers(module, s)
                 \/ /\ pc \in {"clocked", "commit"}
                    /\ \E i \in DOMAIN module.clocked_processes :
                          <<"clocked", i>> \in Drivers(module, s)
<1>1. TypeOK /\ DriverInv /\ [Next]_vars => [ByDriver]_vars
  BY StepChangedByDriver
<1>2. Spec => []TypeOK
  BY TypeCorrect
<1>3. Spec => []DriverInv
  BY DriversSeparate
<1>4. ChangedByDriver <=> [][ByDriver]_vars
  BY DEF ChangedByDriver
<1> HIDE DEF ByDriver
<1> QED
  BY <1>1, <1>2, <1>3, <1>4, PTL DEF Spec

-----------------------------------------------------------------------------
(***************************************************************************)
(* A settled state satisfies the continuous assignments.                   *)
(***************************************************************************)

(* The part of SettleInv about a pass that is running its assignments.     *)
AssignsInv ==
    pc = "assigns" =>
       \/ /\ <<values, arrays>> = before
          /\ \A i \in DOMAIN module.assigns : i < cursor => AssignHolds(i, before)
       \/ \E i \in DOMAIN module.assigns : i < cursor /\ Moved(i)

(* The part about one that is running its processes.                       *)
CombInv ==
    pc = "comb" =>
       \/ \A i \in DOMAIN module.assigns : AssignHolds(i, before)
       \/ \E i \in DOMAIN module.assigns : Moved(i)

(* A pass begins with nothing moved.                                       *)
LEMMA BeginPassAssignsInv ==
    ASSUME BeginPass, module' = module, module \in Modules
    PROVE  AssignsInv'
<1>1. \A i \in DOMAIN module.assigns : ~(i < 1)
  <2>1. module.assigns \in Seq(Assign)
    BY ModulesAssumption DEF ModuleOK
  <2> QED
    BY <2>1, LenProperties
<1>2. cursor' = 1 /\ before' = <<values', arrays'>>
  BY DEF BeginPass
<1> QED
  BY <1>1, <1>2 DEF AssignsInv

(* One more assignment: if nothing has moved, either it moves its target   *)
(* now or it held before; what has moved stays moved.                      *)
LEMMA SettleAssignInv ==
    ASSUME TypeOK, AssignsInv, SettleAssign
    PROVE  AssignsInv'
<1> DEFINE a == module.assigns[cursor]
           new == Mask(Eval(a.value, values, arrays), Width[a.target])
<1>1. /\ module \in Modules /\ pc = "assigns" /\ module' = module /\ before' = before
      /\ arrays' = arrays /\ cursor' = cursor + 1 /\ cursor \in Nat \ {0}
      /\ cursor <= Len(module.assigns)
  BY DEF SettleAssign, TypeOK
<1>2. module.assigns \in Seq(Assign)
  BY <1>1, ModulesAssumption DEF ModuleOK
<1>3. cursor \in DOMAIN module.assigns /\ DOMAIN module.assigns \subseteq Nat
  BY <1>1, <1>2, LenProperties
<1>4. a \in Assign
  BY <1>1, <1>3, AssignTargetAlone
<1>5. values' = [values EXCEPT ![a.target] = new]
  BY DEF SettleAssign, WriteScalar
<1>6. values \in [SignalId -> Word] /\ a.target \in SignalId
  BY <1>4 DEF TypeOK, Values, Assign
<1>7. values'[a.target] = new
  BY <1>5, <1>6
<1>8. before[1] \in [SignalId -> Word]
  BY DEF TypeOK, Values
<1>9. CASE \E i \in DOMAIN module.assigns : i < cursor /\ Moved(i)
  <2>1. PICK i \in DOMAIN module.assigns : i < cursor /\ Moved(i)
    BY <1>9
  <2>2. module.assigns[i].target # a.target
    BY <1>1, <1>3, <2>1, AssignTargetAlone
  <2>3. module.assigns[i].target \in SignalId
    BY <1>1, AssignTargetAlone DEF Assign
  <2>4. Moved(i)'
    BY <1>1, <1>5, <1>6, <2>1, <2>2, <2>3 DEF Moved
  <2>5. i < cursor'
    BY <1>1, <1>3, <2>1
  <2> QED
    BY <1>1, <2>4, <2>5 DEF AssignsInv
<1>10. CASE /\ <<values, arrays>> = before
            /\ \A i \in DOMAIN module.assigns : i < cursor => AssignHolds(i, before)
  <2>1. values = before[1] /\ arrays = before[2]
    BY <1>10
  <2>2. CASE new = values[a.target]
    <3>1. values' = values
      BY <1>5, <1>6, <2>2
    <3>2. AssignHolds(cursor, before)
      BY <2>1, <2>2 DEF AssignHolds
    <3>3. \A i \in DOMAIN module.assigns : i < cursor + 1 => i < cursor \/ i = cursor
      BY <1>1, <1>3
    <3>4. \A i \in DOMAIN module.assigns : i < cursor' => AssignHolds(i, before)
      BY <1>1, <1>10, <3>2, <3>3
    <3>5. \A i \in DOMAIN module'.assigns : i < cursor' => AssignHolds(i, before)'
      BY <1>1, <3>4 DEF AssignHolds
    <3>6. <<values', arrays'>> = before'
      BY <1>1, <1>10, <3>1
    <3> QED
      BY <3>5, <3>6 DEF AssignsInv
  <2>3. CASE new # values[a.target]
    <3>1. PICK i \in DOMAIN module.assigns : i = cursor
      BY <1>3
    <3>2. Moved(i)'
      BY <1>1, <1>7, <2>1, <2>3, <3>1 DEF Moved
    <3>3. i < cursor'
      BY <1>1, <3>1
    <3> QED
      BY <1>1, <3>2, <3>3 DEF AssignsInv
  <2> QED
    BY <2>2, <2>3
<1> QED
  BY <1>1, <1>9, <1>10 DEF AssignsInv

(* No combinational process moves the target of an assignment.             *)
LEMMA EvalStmtsCombInv ==
    ASSUME TypeOK, DriverInv, CombInv, EvalStmts, pc = "comb"
    PROVE  CombInv'
<1>1. module \in Modules /\ module' = module /\ before' = before
  BY DEF TypeOK, EvalStmts, QueueWrite, WriteNow, Branch, CaseArm, CaseDefault, Running
<1>2. ASSUME NEW i \in DOMAIN module.assigns
      PROVE  values'[module.assigns[i].target] = values[module.assigns[i].target]
  <2> DEFINE t == module.assigns[i].target
             w == EvalWrite(Head(todo), values, arrays)
  <2>1. CASE QueueWrite \/ Branch \/ CaseArm \/ CaseDefault
    BY <2>1 DEF QueueWrite, Branch, CaseArm, CaseDefault
  <2>2. CASE WriteNow
    <3>1. t \in SignalId /\ t \notin Targets(CombStmts(module))
      BY <1>1, AssignTargetAlone DEF Assign
    <3>2. Head(todo) \in CombStmts(module)
      BY <1>1, TodoStaysWithin, CombBodies DEF DriverInv
    <3>3. Head(todo).kind \in BlockingKinds /\ ApplyWrite(w)
      BY <2>2 DEF WriteNow, Running
    <3>4. w \in PendingWrite
      BY <1>1, <3>2, <3>3, CombBodies, EvalWriteType
    <3>5. Written(w) \in Targets(CombStmts(module))
      BY <3>2, <3>3, WriteTarget
    <3> HIDE DEF w
    <3> QED
      BY <3>1, <3>3, <3>4, <3>5, WriteChanges
  <2> QED
    BY <2>1, <2>2 DEF EvalStmts
<1>3. \A i \in DOMAIN module.assigns : Moved(i)' <=> Moved(i)
  BY <1>1, <1>2 DEF Moved
<1>4. \A i \in DOMAIN module.assigns : AssignHolds(i, before)' <=> AssignHolds(i, before)
  BY <1>1 DEF AssignHolds
<1> QED
  BY <1>1, <1>3, <1>4 DEF CombInv

(* A quiet pass ends in the state it began with, where nothing has moved,  *)
(* so every assignment held there.                                         *)
LEMMA QuietSettles ==
    ASSUME CombInv, pc = "comb", Quiet
    PROVE  \A i \in DOMAIN module.assigns : AssignHolds(i, <<values, arrays>>)
<1>1. \A i \in DOMAIN module.assigns : ~Moved(i)
  BY DEF Quiet, Moved
<1> QED
  BY <1>1 DEF CombInv, Quiet

(* Init has it.                                                            *)
LEMMA InitSettleInv == Init => SettleInv
<1> SUFFICES ASSUME Init PROVE SettleInv
  OBVIOUS
<1>1. pc = "assigns" /\ <<values, arrays>> = before /\ cursor = 1 /\ module \in Modules
  BY DEF Init
<1>2. \A i \in DOMAIN module.assigns : ~(i < 1)
  <2>1. module.assigns \in Seq(Assign)
    BY <1>1, ModulesAssumption DEF ModuleOK
  <2> QED
    BY <2>1, LenProperties
<1> QED
  BY <1>1, <1>2 DEF SettleInv, AssignsSettled

(* Every step keeps it.                                                    *)
LEMMA NextSettleInv == TypeOK /\ DriverInv /\ SettleInv /\ [Next]_vars => SettleInv'
<1> SUFFICES ASSUME TypeOK, DriverInv, SettleInv, [Next]_vars PROVE SettleInv'
  OBVIOUS
<1> DEFINE FirstInv == pc = "clocked" /\ cursor = 1 => todo = <<>>
           Held == \A i \in DOMAIN module.assigns : AssignHolds(i, <<values, arrays>>)
<1>1. AssignsInv /\ CombInv /\ FirstInv /\ AssignsSettled
  BY DEF SettleInv, AssignsInv, CombInv
<1>2. SUFFICES AssignsInv' /\ CombInv' /\ FirstInv' /\ AssignsSettled'
  BY DEF SettleInv, AssignsInv, CombInv
<1>3. module \in Modules /\ cursor \in Nat \ {0}
  BY DEF TypeOK
<1>4. CASE SetAll \/ Tick \/ EndCommit \/ NextPass
  <2>1. BeginPass /\ module' = module /\ pc' = "assigns"
    BY <1>4 DEF SetAll, Tick, EndCommit, NextPass, BeginSettle, BeginPass
  <2>2. AssignsInv'
    BY <1>3, <2>1, BeginPassAssignsInv
  <2> QED
    BY <2>1, <2>2 DEF CombInv, AssignsSettled
<1>5. CASE SettleAssign
  <2>1. pc' = "assigns"
    BY <1>5 DEF SettleAssign
  <2>2. AssignsInv'
    BY <1>1, <1>5, SettleAssignInv
  <2> QED
    BY <2>1, <2>2 DEF CombInv, AssignsSettled
<1>6. CASE EndAssigns
  <2>1. /\ pc = "assigns" /\ pc' = "comb" /\ cursor > Len(module.assigns)
        /\ UNCHANGED <<module, values, arrays, before>>
    BY <1>6 DEF EndAssigns
  <2>2. \A i \in DOMAIN module.assigns : i < cursor
    <3>1. module.assigns \in Seq(Assign)
      BY <1>3, ModulesAssumption DEF ModuleOK
    <3> QED
      BY <1>3, <2>1, <3>1, LenProperties
  <2>3. CombInv
    BY <2>1 DEF CombInv
  <2>4. CombInv'
    <3>1. \/ \A i \in DOMAIN module.assigns : AssignHolds(i, before)
          \/ \E i \in DOMAIN module.assigns : Moved(i)
      BY <1>1, <2>1, <2>2 DEF AssignsInv
    <3> QED
      BY <2>1, <3>1 DEF CombInv, AssignHolds, Moved
  <2> QED
    BY <2>1, <2>4 DEF AssignsInv, AssignsSettled
<1>7. CASE StartProcess
  <2>1. /\ pc \in {"comb", "clocked"} /\ pc' = pc /\ cursor' = cursor + 1
        /\ UNCHANGED <<module, values, arrays, before>>
    BY <1>7 DEF StartProcess
  <2>2. CombInv'
    BY <1>1, <2>1 DEF CombInv, AssignHolds, Moved
  <2>3. cursor' # 1
    BY <1>3, <2>1
  <2> QED
    BY <2>1, <2>2, <2>3 DEF AssignsInv, AssignsSettled
<1>8. CASE EvalStmts
  <2>1. todo # <<>> /\ pc' = pc /\ cursor' = cursor
    BY <1>8 DEF EvalStmts, QueueWrite, WriteNow, Branch, CaseArm, CaseDefault, Running
  <2>2. pc \in {"comb", "clocked"}
    BY <2>1 DEF DriverInv
  <2>3. CombInv'
    BY <1>1, <1>8, <2>1, <2>2, EvalStmtsCombInv DEF CombInv
  <2>4. pc = "clocked" => cursor # 1
    BY <1>1, <2>1
  <2> QED
    BY <2>1, <2>2, <2>3, <2>4 DEF AssignsInv, AssignsSettled
<1>9. CASE ReturnToTick \/ ReturnToDriver
  <2>1. /\ pc = "comb" /\ Quiet /\ pc' \in {"idle", "clocked"} /\ todo' = <<>>
        /\ UNCHANGED <<module, values, arrays>>
    BY <1>9 DEF ReturnToTick, ReturnToDriver, PassDone
  <2>2. Held
    BY <1>1, <2>1, QuietSettles
  <2>3. Held'
    BY <2>1, <2>2 DEF AssignHolds
  <2> QED
    BY <2>1, <2>3 DEF AssignsInv, CombInv, AssignsSettled
<1>10. CASE Panic \/ EndClocked \/ CommitWrite
  <2>1. pc' \in {"panic", "commit"}
    BY <1>10 DEF Panic, EndClocked, CommitWrite
  <2> QED
    BY <2>1 DEF AssignsInv, CombInv, AssignsSettled
<1>11. CASE UNCHANGED vars
  BY <1>1, <1>11 DEF vars, AssignsInv, CombInv, AssignsSettled, AssignHolds, Moved
<1> QED
  BY <1>4, <1>5, <1>6, <1>7, <1>8, <1>9, <1>10, <1>11
     DEF Next, Inside, Call, Settle, Edge

(* As long as a pass has moved nothing, what it has evaluated held in the  *)
(* state it began with, and what has moved stays moved; so whenever a call *)
(* has returned, and whenever the clocked processes start, every           *)
(* assignment holds: for any accepted module, with loops and latches too,  *)
(* and any limit on the passes.                                            *)
THEOREM QuietPassesProve == Spec => []SettleInv
<1>1. Init => TypeOK /\ DriverInv /\ SettleInv
  BY InitTypeOK, InitDriverInv, InitSettleInv
<1>2. TypeOK /\ DriverInv /\ SettleInv /\ [Next]_vars => (TypeOK /\ DriverInv /\ SettleInv)'
  BY NextTypeOK, NextDriverInv, NextSettleInv
<1> QED
  BY <1>1, <1>2, PTL DEF Spec
=============================================================================
