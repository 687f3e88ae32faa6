---------------------------- MODULE CycleProofs ----------------------------
(***************************************************************************)
(* The kernel implements CycleSim, for every module the frontend can hand  *)
(* over, with loops and latches too, every word width and every limit on   *)
(* the passes.                                                             *)
(***************************************************************************)
EXTENDS KernelCycle, KernelProofs

-----------------------------------------------------------------------------
(***************************************************************************)
(* The steps of a body and of an edge, from configuration to configuration.*)
(***************************************************************************)

(* A write makes a state of a state.                                       *)
LEMMA AfterType ==
    ASSUME NEW w \in PendingWrite, NEW st \in States
    PROVE  After(w, st) \in States
<1>1. st[1] \in Values /\ st[2] \in Arrays /\ st = <<st[1], st[2]>>
  BY DEF States
<1>2. CASE w.kind = "Scalar"
  <2>1. w.target \in SignalId /\ w.range \in Ranges /\ w.value \in Word
    BY <1>2 DEF PendingWrite
  <2>2. WriteScalar(st[1], w.target, w.range, w.value) \in Values
    BY <1>1, <2>1, WriteScalarType
  <2> QED  BY <1>1, <1>2, <2>2 DEF After, States
<1>3. CASE w.kind # "Scalar"
  <2>1. w.array \in SignalId /\ w.index \in Word /\ w.value \in Word
    BY <1>3 DEF PendingWrite
  <2>2. WriteArray(st[2], w.array, w.index, w.value) \in Arrays
    BY <1>1, <2>1, WriteArrayType
  <2> QED  BY <1>1, <1>3, <2>2 DEF After, States
<1> QED  BY <1>2, <1>3

(* A write applied as an action is the write applied as a function.        *)
LEMMA ApplyWriteIsAfter ==
    ASSUME NEW w \in PendingWrite, ApplyWrite(w)
    PROVE  Now' = After(w, Now)
BY DEF PendingWrite, ApplyWrite, After, Now

(* The arms of a case statement have bodies of statements.                 *)
LEMMA ArmBodies ==
    ASSUME NEW s \in Stmt, s.kind = "Case"
    PROVE  /\ DOMAIN s.arms \subseteq Nat \ {0}
           /\ \A i \in DOMAIN s.arms : s.arms[i].body \in Seq(Stmt)
<1> DEFINE arms == s.arms
           Arms == [values : Seq(CaseValue), body : Seq(Stmt)]
<1>1. arms \in Seq(Arms)
  BY StmtAssumption DEF WellFormed
<1> HIDE DEF arms, Arms
<1>2. DOMAIN arms = 1..Len(arms) /\ Len(arms) \in Nat /\ \A i \in DOMAIN arms : arms[i] \in Arms
  BY <1>1, LenProperties, ElementOfSeq
<1> QED  BY <1>2 DEF arms, Arms

(* The first arm that matches is one.                                      *)
LEMMA FirstMatchOne ==
    ASSUME NEW s \in Stmt, s.kind = "Case", NEW st,
           NEW i \in DOMAIN s.arms, FirstMatch(s, i, st),
           NEW j \in DOMAIN s.arms, FirstMatch(s, j, st)
    PROVE  i = j
<1>1. i \in Nat \ {0} /\ j \in Nat \ {0}
  BY ArmBodies
<1>2. ~(i < j) /\ ~(j < i)
  BY <1>1 DEF FirstMatch
<1> QED  BY <1>1, <1>2

(* What is put in front of the rest are statements.                        *)
LEMMA TakenType ==
    ASSUME NEW s \in Stmt, s.kind \notin NonBlockingKinds \cup BlockingKinds, NEW st
    PROVE  Taken(s, st) \in Seq(Stmt)
<1>1. WellFormed(s, Stmt) /\ s.kind \in {"If", "Case"}
  BY StmtAssumption DEF WellFormed, StmtKinds
<1>2. CASE s.kind = "If"
  BY <1>1, <1>2 DEF Taken, WellFormed
<1>3. CASE s.kind = "Case"
  <2>1. s.default \in Seq(Stmt)
    BY <1>1, <1>3 DEF WellFormed
  <2> QED  BY <1>3, <2>1, ArmBodies DEF Taken
<1> QED  BY <1>1, <1>2, <1>3

(* A step makes a configuration of a configuration.                        *)
LEMMA StepOfType ==
    ASSUME NEW c \in Config, ~Ended(c)
    PROVE  StepOf(c) \in Config
<1>1. /\ c.left \in Seq(ClockedProcess) /\ c.st \in States
      /\ c.todo \in Seq(Stmt) /\ c.updates \in Seq(PendingWrite)
  BY DEF Config
<1>2. CASE c.todo # <<>>
  <2> DEFINE s    == Head(c.todo)
             rest == Tail(c.todo)
             w    == EvalWrite(s, c.st[1], c.st[2])
  <2>1. s \in Stmt /\ rest \in Seq(Stmt)
    BY <1>1, <1>2, HeadTailProperties
  <2>2. c.st[1] \in Values /\ c.st[2] \in Arrays
    BY <1>1 DEF States
  <2>3. s.kind \in NonBlockingKinds \cup BlockingKinds => w \in PendingWrite
    BY <2>1, <2>2, EvalWriteIn
  <2>4. s.kind \notin NonBlockingKinds \cup BlockingKinds => Taken(s, c.st) \o rest \in Seq(Stmt)
    BY <2>1, TakenType, ConcatProperties
  <2>5. StepOf(c) = IF s.kind \in NonBlockingKinds
                    THEN Stage(c.left, c.st, rest, Append(c.updates, w))
                    ELSE IF s.kind \in BlockingKinds
                    THEN Stage(c.left, After(w, c.st), rest, c.updates)
                    ELSE Stage(c.left, c.st, Taken(s, c.st) \o rest, c.updates)
    BY <1>2 DEF StepOf, StmtStep
  <2> HIDE DEF s, rest, w
  <2>6. s.kind \in NonBlockingKinds => Append(c.updates, w) \in Seq(PendingWrite)
    BY <1>1, <2>3, AppendProperties
  <2>7. s.kind \in BlockingKinds => After(w, c.st) \in States
    BY <1>1, <2>3, AfterType
  <2> QED  BY <1>1, <2>1, <2>4, <2>5, <2>6, <2>7 DEF Stage, Config
<1>3. CASE c.todo = <<>> /\ c.left # <<>>
  <2>1. Head(c.left) \in ClockedProcess /\ Tail(c.left) \in Seq(ClockedProcess)
    BY <1>1, <1>3, HeadTailProperties
  <2>2. Head(c.left).body \in Seq(Stmt)
    BY <2>1 DEF ClockedProcess
  <2> QED  BY <1>1, <1>3, <2>1, <2>2 DEF StepOf, StartStep, Stage, Config
<1>4. CASE c.todo = <<>> /\ c.left = <<>>
  <2>1. c.updates # <<>>
    BY <1>4 DEF Ended
  <2>2. Head(c.updates) \in PendingWrite /\ Tail(c.updates) \in Seq(PendingWrite)
    BY <1>1, <2>1, HeadTailProperties
  <2>3. After(Head(c.updates), c.st) \in States
    BY <1>1, <2>2, AfterType
  <2> QED  BY <1>4, <2>2, <2>3, EmptySeq DEF StepOf, CommitStep, Stage, Config
<1> QED  BY <1>2, <1>3, <1>4

-----------------------------------------------------------------------------
(***************************************************************************)
(* There is such a function as RunEnd: the steps from a configuration end  *)
(* in one place at most, and where they end nowhere any value will do.     *)
(***************************************************************************)

(* e is among the configurations that steps lead to from c.                *)
Leads(c, e) ==
    \A R : c \in R /\ (\A d \in R : d \in Config /\ ~Ended(d) => StepOf(d) \in R) => e \in R

Ends(c) == {e \in Config : Ended(e) /\ Leads(c, e)}
EndOf(c) == CHOOSE e \in Ends(c) : TRUE

(* What has ended leads to no other end.                                   *)
LEMMA EndsWhereItIs ==
    ASSUME NEW c \in Config, Ended(c)
    PROVE  Ends(c) = {c}
<1>1. Leads(c, c)
  BY DEF Leads
<1>2. ASSUME NEW e, Leads(c, e) PROVE e = c
  <2> DEFINE R == {c}
  <2>1. c \in R /\ \A d \in R : d \in Config /\ ~Ended(d) => StepOf(d) \in R
    OBVIOUS
  <2> HIDE DEF R
  <2>2. e \in R
    BY <1>2, <2>1 DEF Leads
  <2> QED  BY <2>2 DEF R
<1> QED  BY <1>1, <1>2 DEF Ends

(* What has not ended ends where its step does.                            *)
LEMMA EndsWhereItsStepDoes ==
    ASSUME NEW c \in Config, ~Ended(c)
    PROVE  Ends(c) = Ends(StepOf(c))
<1>1. ASSUME NEW e, Ended(e), Leads(c, e) PROVE Leads(StepOf(c), e)
  <2> SUFFICES ASSUME NEW R, StepOf(c) \in R,
                      \A d \in R : d \in Config /\ ~Ended(d) => StepOf(d) \in R
               PROVE  e \in R
    BY DEF Leads
  <2> DEFINE Q == R \cup {c}
  <2>1. c \in Q /\ \A d \in Q : d \in Config /\ ~Ended(d) => StepOf(d) \in Q
    OBVIOUS
  <2> HIDE DEF Q
  <2>2. e \in Q
    BY <1>1, <2>1 DEF Leads
  <2> QED  BY <1>1, <2>2 DEF Q
<1>2. ASSUME NEW e, Leads(StepOf(c), e) PROVE Leads(c, e)
  BY <1>2 DEF Leads
<1> QED  BY <1>1, <1>2 DEF Ends

(* RunEnd computes what its definition says.                               *)
LEMMA RunEndUnfolds ==
    ASSUME NEW c \in Config
    PROVE  RunEnd[c] = IF Ended(c) THEN c.st ELSE RunEnd[StepOf(c)]
<1> DEFINE g == [d \in Config |-> EndOf(d).st]
           F(f) == [d \in Config |-> IF Ended(d) THEN d.st ELSE f[StepOf(d)]]
<1>1. ASSUME NEW d \in Config PROVE g[d] = IF Ended(d) THEN d.st ELSE g[StepOf(d)]
  <2>1. CASE Ended(d)
    <3>1. EndOf(d) = d
      BY <2>1, EndsWhereItIs DEF EndOf
    <3> QED  BY <2>1, <3>1
  <2>2. CASE ~Ended(d)
    <3>1. StepOf(d) \in Config /\ EndOf(d) = EndOf(StepOf(d))
      BY <2>2, StepOfType, EndsWhereItsStepDoes DEF EndOf
    <3> QED  BY <2>2, <3>1
  <2> QED  BY <2>1, <2>2
<1>2. g = F(g)
  <2> DEFINE h == F(g)
  <2>1. g = [d \in Config |-> g[d]] /\ h = [d \in Config |-> h[d]]
    OBVIOUS
  <2>2. \A d \in Config : g[d] = h[d]
    BY <1>1
  <2> HIDE DEF g, h
  <2> QED  BY <2>1, <2>2 DEF h
<1>3. RunEnd = CHOOSE f : f = F(f)
  BY DEF RunEnd
<1> HIDE DEF g, F
<1>4. RunEnd = F(RunEnd)
  BY <1>2, <1>3
<1> QED  BY <1>4 DEF F

-----------------------------------------------------------------------------
(***************************************************************************)
(* The kernel's actions take those steps.                                  *)
(***************************************************************************)

(* What the kernel keeps of the state are states.                          *)
LEMMA StatesType == TypeOK => Now \in States /\ before \in States /\ shown \in States
BY DEF TypeOK, Now, States

(* Where the kernel is, as a configuration.                                *)
LEMMA StageType ==
    ASSUME TypeOK, NEW l \in Seq(ClockedProcess)
    PROVE  Stage(l, Now, todo, updates) \in Config
BY StatesType DEF TypeOK, Stage, Config

(* A statement that the kernel runs is a step of its body.                 *)
LEMMA EvalStmtsSteps ==
    ASSUME TypeOK, EvalStmts, NEW l \in Seq(ClockedProcess)
    PROVE  StepOf(Stage(l, Now, todo, updates)) = Stage(l, Now', todo', updates')
<1> DEFINE c == Stage(l, Now, todo, updates)
           d == Stage(l, Now', todo', updates')
           s == Head(todo)
           rest == Tail(todo)
           w == EvalWrite(s, values, arrays)
<1> SUFFICES StepOf(c) = d
  OBVIOUS
<1>1. todo # <<>> /\ s \in Stmt
  <2>1. todo # <<>> /\ todo \in Seq(Stmt)
    BY DEF TypeOK, EvalStmts, QueueWrite, WriteNow, Branch, CaseArm, CaseDefault, Running
  <2> QED  BY <2>1, HeadTailProperties
<1>2. /\ c.left = l /\ c.st = Now /\ c.todo = todo /\ c.updates = updates
      /\ Now[1] = values /\ Now[2] = arrays
  BY DEF Stage, Now
<1>3. StepOf(c) = IF s.kind \in NonBlockingKinds
                  THEN Stage(l, Now, rest, Append(updates, w))
                  ELSE IF s.kind \in BlockingKinds
                  THEN Stage(l, After(w, Now), rest, updates)
                  ELSE Stage(l, Now, Taken(s, Now) \o rest, updates)
  <2> HIDE DEF c
  <2> QED  BY <1>1, <1>2 DEF StepOf, StmtStep
<1>4. /\ NonBlockingKinds \cap BlockingKinds = {}
      /\ {"If", "Case"} \cap (NonBlockingKinds \cup BlockingKinds) = {}
  BY DEF NonBlockingKinds, BlockingKinds
<1> HIDE DEF c, s, w, rest
<1>5. CASE QueueWrite
  BY <1>3, <1>5 DEF QueueWrite, Running, Now, s, rest, w
<1>6. CASE WriteNow
  <2>1. s.kind \in BlockingKinds /\ ApplyWrite(w) /\ todo' = rest /\ updates' = updates
    BY <1>6 DEF WriteNow, Running, s, rest, w
  <2>2. w \in PendingWrite
    BY <1>1, <2>1, EvalWriteType DEF w
  <2>3. Now' = After(w, Now)
    BY <2>1, <2>2, ApplyWriteIsAfter
  <2> QED  BY <1>3, <1>4, <2>1, <2>3
<1>7. CASE Branch
  <2>1. /\ s.kind = "If" /\ Now' = Now /\ updates' = updates
        /\ todo' = (IF Eval(s.cond, values, arrays) # 0 THEN s.then_branch ELSE s.else_branch)
                      \o rest
    BY <1>7 DEF Branch, Running, s, rest, Now
  <2>2. todo' = Taken(s, Now) \o rest
    BY <1>2, <2>1 DEF Taken
  <2> QED  BY <1>3, <1>4, <2>1, <2>2
<1>8. CASE CaseArm
  <2>1. s.kind = "Case" /\ Now' = Now /\ updates' = updates
    BY <1>8 DEF CaseArm, Running, s, Now
  <2>2. PICK i \in DOMAIN s.arms : FirstMatch(s, i, Now) /\ todo' = s.arms[i].body \o rest
    BY <1>2, <1>8 DEF CaseArm, FirstMatch, s, rest
  <2> DEFINE k == CHOOSE j \in DOMAIN s.arms : FirstMatch(s, j, Now)
  <2>3. k \in DOMAIN s.arms /\ FirstMatch(s, k, Now)
    BY <2>2
  <2>4. Taken(s, Now) = s.arms[k].body
    BY <2>1, <2>2 DEF Taken
  <2> HIDE DEF k
  <2>5. k = i
    BY <1>1, <2>1, <2>2, <2>3, FirstMatchOne
  <2> QED  BY <1>3, <1>4, <2>1, <2>2, <2>4, <2>5
<1>9. CASE CaseDefault
  <2>1. /\ s.kind = "Case" /\ todo' = s.default \o rest /\ Now' = Now /\ updates' = updates
        /\ \A i \in DOMAIN s.arms : ~ArmMatches(s, i, values, arrays)
    BY <1>9 DEF CaseDefault, Running, s, rest, Now
  <2>2. Taken(s, Now) = s.default
    BY <1>2, <2>1 DEF Taken, FirstMatch
  <2> QED  BY <1>3, <1>4, <2>1, <2>2
<1> QED  BY <1>5, <1>6, <1>7, <1>8, <1>9 DEF EvalStmts

(* So it leaves what is in the end left as it is.                          *)
LEMMA EvalStmtsRuns ==
    ASSUME TypeOK, EvalStmts, NEW l \in Seq(ClockedProcess)
    PROVE  RunEnd[Stage(l, Now, todo, updates)] = RunEnd[Stage(l, Now', todo', updates')]
<1> DEFINE c == Stage(l, Now, todo, updates)
<1>1. c \in Config
  BY StageType
<1>2. ~Ended(c)
  BY DEF Ended, Stage, EvalStmts, QueueWrite, WriteNow, Branch, CaseArm, CaseDefault, Running
<1> HIDE DEF c
<1>3. RunEnd[c] = RunEnd[StepOf(c)]
  BY <1>1, <1>2, RunEndUnfolds
<1> QED  BY <1>3, EvalStmtsSteps DEF c

(* A statement of a body that queues nothing.                              *)
LEMMA EvalStmtsRunBody ==
    ASSUME TypeOK, EvalStmts, updates = <<>>, updates' = <<>>
    PROVE  RunBody(todo, Now) = RunBody(todo', Now')
BY EvalStmtsRuns, EmptySeq DEF RunBody

(* An empty body leaves a state as it is.                                  *)
LEMMA RunNothing ==
    ASSUME NEW st \in States
    PROVE  RunBody(<<>>, st) = st
<1> DEFINE c == Stage(<<>>, st, <<>>, <<>>)
<1>1. c \in Config /\ Ended(c) /\ c.st = st
  BY EmptySeq DEF Config, Ended, Stage
<1> HIDE DEF c
<1>2. RunEnd[c] = st
  BY <1>1, RunEndUnfolds
<1> QED  BY <1>2 DEF RunBody, c

-----------------------------------------------------------------------------
(***************************************************************************)
(* The blocks of a pass.                                                   *)
(***************************************************************************)

(* A block's statements are closed under taking a branch, and what it      *)
(* drives no other block and no assignment drives.                         *)
LEMMA BlockFacts ==
    ASSUME TypeOK, NEW i \in DOMAIN module.comb_processes
    PROVE  /\ CombBody(i) \in Seq(Within(CombBody(i)))
           /\ \A s \in Within(CombBody(i)) :
                 s \in Stmt /\ s \in CombStmts(module) /\ WellFormed(s, Within(CombBody(i)))
           /\ Targets(Within(CombBody(i))) \subseteq SignalId
           /\ Targets(Within(CombBody(i))) \subseteq Targets(CombStmts(module))
<1> DEFINE W == Within(CombBody(i))
<1>1. BodyOK(CombBody(i)) /\ module \in Modules
  BY ModulesAssumption DEF TypeOK, ModuleOK, CombBody
<1>2. W \subseteq Stmt /\ CombBody(i) \in Seq(W) /\ \A s \in W : WellFormed(s, W)
  BY <1>1 DEF BodyOK
<1>3. W \subseteq CombStmts(module)
  BY DEF CombStmts, CombBody
<1>4. \A s \in W : WellFormed(s, Stmt)
  BY <1>2, StmtAssumption
<1> HIDE DEF W
<1>5. Targets(W) \subseteq SignalId
  BY <1>4 DEF Targets, WellFormed
<1>6. Targets(W) \subseteq Targets(CombStmts(module))
  BY <1>3 DEF Targets
<1> QED
  BY <1>2, <1>3, <1>5, <1>6 DEF W

(* No two blocks drive one signal.                                         *)
LEMMA BlocksApart ==
    ASSUME TypeOK, NEW i \in DOMAIN module.comb_processes,
           NEW j \in DOMAIN module.comb_processes,
           NEW s \in Targets(Within(CombBody(i))), s \in Targets(Within(CombBody(j)))
    PROVE  i = j
<1>1. s \in SignalId /\ SingleDriver(module)
  BY BlockFacts, ModulesAssumption DEF TypeOK, ModuleOK
<1>2. <<"comb", i>> \in Drivers(module, s) /\ <<"comb", j>> \in Drivers(module, s)
  BY DEF Drivers, CombBody
<1>3. <<"comb", i>> = <<"comb", j>>
  BY <1>1, <1>2 DEF SingleDriver
<1> QED
  BY <1>3

(* What is left to run of a block are statements of the block.             *)
LEMMA NextBlockInv == TypeOK /\ DriverInv /\ BlockInv /\ [Next]_vars => BlockInv'
<1> SUFFICES ASSUME TypeOK, DriverInv, BlockInv, [Next]_vars, pc' = "comb", todo' # <<>>
             PROVE  BlockInv'
  BY DEF BlockInv
<1>1. cursor \in Nat \ {0} /\ module.comb_processes \in Seq(CombProcess)
  BY ModulesAssumption DEF TypeOK, ModuleOK
<1>2. CASE StartProcess
  <2>1. /\ pc = "comb" /\ module' = module /\ cursor' = cursor + 1
        /\ cursor <= Len(module.comb_processes) /\ todo' = CombBody(cursor)
    BY <1>2 DEF StartProcess, Processes, CombBody
  <2>2. cursor \in DOMAIN module.comb_processes
    BY <1>1, <2>1, LenProperties
  <2>3. cursor' - 1 = cursor
    BY <1>1, <2>1
  <2> QED
    BY <2>1, <2>2, <2>3, BlockFacts DEF BlockInv, CombBody
<1>3. CASE EvalStmts
  <2>1. pc = "comb" /\ todo # <<>> /\ module' = module /\ cursor' = cursor
    BY <1>3 DEF EvalStmts, QueueWrite, WriteNow, Branch, CaseArm, CaseDefault, Running
  <2>2. cursor - 1 \in DOMAIN module.comb_processes /\ todo \in Seq(Within(CombBody(cursor - 1)))
    BY <2>1 DEF BlockInv
  <2>3. todo' \in Seq(Within(CombBody(cursor - 1)))
    BY <1>3, <2>2, BlockFacts, TodoStaysWithin
  <2> QED
    BY <2>1, <2>2, <2>3 DEF BlockInv, CombBody
<1>4. CASE EndAssigns
  BY <1>4 DEF EndAssigns, DriverInv
<1>5. CASE UNCHANGED vars
  BY <1>5 DEF BlockInv, CombBody, vars
<1>6. CASE \/ SetAll \/ Tick \/ SettleAssign \/ ReturnToTick \/ ReturnToDriver \/ NextPass
           \/ Panic \/ EndClocked \/ CommitWrite \/ EndCommit
  BY <1>6 DEF SetAll, Tick, SettleAssign, ReturnToTick, ReturnToDriver, NextPass, Panic,
              EndClocked, CommitWrite, EndCommit, BeginSettle, BeginPass
<1> QED
  BY <1>2, <1>3, <1>4, <1>5, <1>6 DEF Next, Inside, Call, Settle, Edge

(* A statement of a block changes nothing that the block does not drive.   *)
LEMMA BlockLeaves ==
    ASSUME TypeOK, DriverInv, BlockInv, EvalStmts, pc = "comb", NEW s \in SignalId,
           s \notin Targets(Within(CombBody(cursor - 1)))
    PROVE  values'[s] = values[s] /\ arrays'[s] = arrays[s]
<1> DEFINE W == Within(CombBody(cursor - 1))
           w == EvalWrite(Head(todo), values, arrays)
<1>1. CASE QueueWrite \/ Branch \/ CaseArm \/ CaseDefault
  BY <1>1 DEF QueueWrite, Branch, CaseArm, CaseDefault
<1>2. CASE WriteNow
  <2>1. todo # <<>> /\ Head(todo).kind \in BlockingKinds /\ ApplyWrite(w)
    BY <1>2 DEF WriteNow, Running
  <2>2. cursor - 1 \in DOMAIN module.comb_processes /\ todo \in Seq(W)
    BY <2>1 DEF BlockInv
  <2>3. Head(todo) \in W /\ Head(todo) \in Stmt
    BY <2>1, <2>2, BlockFacts, HeadTailProperties
  <2>4. w \in PendingWrite
    BY <2>1, <2>3, EvalWriteType
  <2>5. Written(w) \in Targets(W)
    BY <2>1, <2>3, WriteTarget
  <2> HIDE DEF w
  <2> QED
    BY <2>1, <2>4, <2>5, WriteChanges
<1> QED
  BY <1>1, <1>2 DEF EvalStmts

(* No block drives the target of an assignment.                            *)
LEMMA AssignApart ==
    ASSUME TypeOK, NEW i \in DOMAIN module.assigns, NEW k \in DOMAIN module.comb_processes
    PROVE  /\ module.assigns[i].target \in SignalId
           /\ module.assigns[i].target \notin Targets(Within(CombBody(k)))
BY AssignTargetAlone, BlockFacts DEF TypeOK, Assign

(* Running a statement of a block keeps RestInv.                           *)
LEMMA EvalStmtsRestInv ==
    ASSUME TypeOK, TypeOK', DriverInv, DriverInv', BlockInv, RestInv, EvalStmts, pc = "comb"
    PROVE  RestInv'
<1>1. /\ todo # <<>> /\ pc' = "comb" /\ module' = module /\ before' = before
      /\ cursor' = cursor /\ cursor \in Nat \ {0} /\ module \in Modules
  BY DEF TypeOK, EvalStmts, QueueWrite, WriteNow, Branch, CaseArm, CaseDefault, Running
<1>2. PICK k \in Nat : k = cursor - 1 /\ k \in DOMAIN module.comb_processes
  BY <1>1 DEF BlockInv
<1>3. Done = k /\ (todo' # <<>> => Done' = k) /\ (todo' = <<>> => Done' = k + 1)
  BY <1>1, <1>2 DEF Done
<1>4. \A s \in SignalId \ Targets(Within(CombBody(k))) :
         values'[s] = values[s] /\ arrays'[s] = arrays[s]
  BY <1>1, <1>2, BlockLeaves
<1>5. DOMAIN module.comb_processes \subseteq Nat
  BY <1>1, ModulesAssumption, LenProperties DEF ModuleOK
<1>6. CASE \E i \in DOMAIN module.assigns : Moved(i)
  <2>1. \A i \in DOMAIN module.assigns : Moved(i) => Moved(i)'
    BY <1>1, <1>2, <1>4, AssignApart DEF Moved
  <2> QED
    BY <1>1, <1>6, <2>1 DEF RestInv
<1>7. CASE \E i \in DOMAIN module.comb_processes : i < Done /\ Disturbed(i)
  <2>1. PICK i \in DOMAIN module.comb_processes : i < k /\ Disturbed(i)
    BY <1>3, <1>7
  <2>2. PICK s \in Targets(Within(CombBody(i))) :
           <<values[s], arrays[s]>> # <<before[1][s], before[2][s]>>
    BY <2>1 DEF Disturbed
  <2>3. s \in SignalId /\ s \notin Targets(Within(CombBody(k)))
    BY <1>2, <1>5, <2>1, BlocksApart, BlockFacts
  <2>4. Disturbed(i)'
    BY <1>1, <1>4, <2>2, <2>3 DEF Disturbed, CombBody
  <2>5. i < Done'
    BY <1>2, <1>3, <1>5, <2>1
  <2> QED
    BY <1>1, <2>4, <2>5 DEF RestInv
<1>8. CASE StillQuiet
  <2>1. /\ \A i \in DOMAIN module.comb_processes :
              i < k => RunBody(CombBody(i), before) = before
        /\ RunBody(CombBody(k), before) = RunBody(todo, Now)
        /\ \A s \in SignalId \ Targets(Within(CombBody(k))) :
              values[s] = before[1][s] /\ arrays[s] = before[2][s]
    BY <1>1, <1>2, <1>3, <1>8 DEF StillQuiet
  <2>2. RunBody(CombBody(k), before) = RunBody(todo', Now')
    <3>1. updates = <<>> /\ updates' = <<>>
      BY <1>1 DEF DriverInv
    <3> QED
      BY <2>1, <3>1, EvalStmtsRunBody
  <2>3. \A s \in SignalId \ Targets(Within(CombBody(k))) :
           values'[s] = before[1][s] /\ arrays'[s] = before[2][s]
    BY <1>4, <2>1
  <2>4. \A i : CombBody(i)' = CombBody(i)
    BY <1>1 DEF CombBody
  <2>5. CASE todo' # <<>>
    <3>1. StillQuiet'
      BY <1>1, <1>2, <1>3, <2>1, <2>2, <2>3, <2>4, <2>5 DEF StillQuiet
    <3> QED
      BY <3>1 DEF RestInv
  <2>6. CASE todo' = <<>> /\ Now' = before
    <3>1. RunBody(CombBody(k), before) = before
      BY <2>2, <2>6, StatesType, RunNothing
    <3>2. \A i \in DOMAIN module.comb_processes :
             i < k + 1 => RunBody(CombBody(i), before) = before
      BY <1>2, <1>5, <2>1, <3>1
    <3>3. StillQuiet'
      BY <1>1, <1>3, <2>4, <2>6, <3>2 DEF StillQuiet
    <3> QED
      BY <3>3 DEF RestInv
  <2>7. CASE todo' = <<>> /\ Now' # before
    <3>1. PICK s \in SignalId : values'[s] # before[1][s] \/ arrays'[s] # before[2][s]
      <4>1. /\ values' \in [SignalId -> Word] /\ before[1] \in [SignalId -> Word]
            /\ DOMAIN arrays' = SignalId /\ DOMAIN before[2] = SignalId
            /\ arrays' = [s \in SignalId |-> arrays'[s]]
            /\ before[2] = [s \in SignalId |-> before[2][s]]
        BY DEF TypeOK, Values, Arrays
      <4>2. before = <<before[1], before[2]>>
        BY DEF TypeOK
      <4>3. values' # before[1] \/ arrays' # before[2]
        BY <2>7, <4>2 DEF Now
      <4> QED
        BY <4>1, <4>3
    <3>2. s \in Targets(Within(CombBody(k)))
      BY <2>3, <3>1
    <3>3. Disturbed(k)'
      BY <1>1, <3>1, <3>2 DEF Disturbed, CombBody
    <3>4. k < Done'
      BY <1>2, <1>3, <2>7
    <3> QED
      BY <1>1, <1>2, <3>3, <3>4 DEF RestInv
  <2> QED
    BY <2>5, <2>6, <2>7
<1> QED
  BY <1>6, <1>7, <1>8 DEF RestInv

(* Every step keeps it.                                                    *)
LEMMA NextRestInv ==
    /\ TypeOK /\ DriverInv /\ SettleInv /\ BlockInv /\ RestInv
    /\ TypeOK' /\ DriverInv'
    /\ [Next]_vars
    => RestInv'
<1> SUFFICES ASSUME TypeOK, DriverInv, SettleInv, BlockInv, RestInv, TypeOK', DriverInv',
                    [Next]_vars
             PROVE  RestInv'
  OBVIOUS
<1>1. /\ cursor \in Nat \ {0} /\ module \in Modules
      /\ module.comb_processes \in Seq(CombProcess) /\ module.assigns \in Seq(Assign)
  BY ModulesAssumption DEF TypeOK, ModuleOK
<1>2. /\ DOMAIN module.comb_processes = 1..Len(module.comb_processes)
      /\ DOMAIN module.assigns = 1..Len(module.assigns)
      /\ Len(module.comb_processes) \in Nat /\ Len(module.assigns) \in Nat
  BY <1>1, LenProperties
<1>3. CASE EndAssigns
  <2>1. /\ pc = "assigns" /\ pc' = "comb" /\ cursor > Len(module.assigns) /\ cursor' = 1
        /\ todo' = <<>> /\ UNCHANGED <<module, values, arrays, before>>
    BY <1>3 DEF EndAssigns, DriverInv
  <2>2. CASE \E i \in DOMAIN module.assigns : Moved(i)
    BY <2>1, <2>2 DEF RestInv, Moved
  <2>3. CASE Now = before
    <3>1. Done' = 1 /\ Now' = before'
      BY <2>1, <2>3 DEF Done, Now
    <3>2. \A i \in DOMAIN module'.comb_processes : ~(i < Done')
      BY <1>2, <2>1, <3>1
    <3>3. StillQuiet'
      BY <2>1, <3>1, <3>2 DEF StillQuiet
    <3> QED
      BY <3>3 DEF RestInv
  <2> QED
    BY <2>1, <2>2, <2>3 DEF SettleInv, Now
<1>4. CASE StartProcess /\ pc = "comb"
  <2>1. /\ pc' = "comb" /\ todo = <<>> /\ cursor <= Len(module.comb_processes)
        /\ todo' = CombBody(cursor) /\ cursor' = cursor + 1
        /\ UNCHANGED <<module, values, arrays, before>>
    BY <1>4 DEF StartProcess, Processes, CombBody
  <2>2. /\ Done = cursor /\ Done <= Done' /\ cursor' - 1 = cursor
        /\ todo' # <<>> => Done' = cursor
        /\ todo' = <<>> => Done' = cursor + 1
    BY <1>1, <2>1 DEF Done
  <2>3. /\ \A i : CombBody(i)' = CombBody(i)
        /\ \A i : Disturbed(i)' <=> Disturbed(i)
        /\ Now' = Now
    BY <2>1 DEF CombBody, Disturbed, Now
  <2>4. CASE \E i \in DOMAIN module.assigns : Moved(i)
    BY <2>1, <2>4 DEF RestInv, Moved
  <2>5. CASE \E i \in DOMAIN module.comb_processes : i < Done /\ Disturbed(i)
    <3>1. PICK i \in DOMAIN module.comb_processes : i < Done /\ Disturbed(i)
      BY <2>5
    <3>2. i < Done'
      BY <1>1, <1>2, <2>2, <3>1
    <3> QED
      BY <2>1, <2>3, <3>1, <3>2 DEF RestInv
  <2>6. CASE StillQuiet
    <3>1. /\ Now = before
          /\ \A i \in DOMAIN module.comb_processes :
                i < cursor => RunBody(CombBody(i), before) = before
      BY <2>1, <2>2, <2>6 DEF StillQuiet
    <3>2. CASE todo' = <<>>
      <4>1. RunBody(CombBody(cursor), before) = before
        BY <2>1, <3>1, <3>2, StatesType, RunNothing
      <4>2. \A i \in DOMAIN module.comb_processes :
               i < cursor + 1 => RunBody(CombBody(i), before) = before
        BY <1>1, <1>2, <3>1, <4>1
      <4>3. StillQuiet'
        BY <2>1, <2>2, <2>3, <3>1, <3>2, <4>2 DEF StillQuiet
      <4> QED
        BY <4>3 DEF RestInv
    <3>3. CASE todo' # <<>>
      <4>1. RunBody(CombBody(cursor), before) = RunBody(todo', Now')
        BY <2>1, <2>3, <3>1
      <4>2. values = before[1] /\ arrays = before[2]
        BY <3>1 DEF Now
      <4>3. StillQuiet'
        BY <2>1, <2>2, <2>3, <3>1, <3>3, <4>1, <4>2 DEF StillQuiet
      <4> QED
        BY <4>3 DEF RestInv
    <3> QED
      BY <3>2, <3>3
  <2> QED
    BY <1>4, <2>4, <2>5, <2>6 DEF RestInv
<1>5. CASE EvalStmts /\ pc = "comb"
  BY <1>5, EvalStmtsRestInv
<1>6. CASE (StartProcess \/ EvalStmts) /\ pc # "comb"
  BY <1>6 DEF RestInv, StartProcess, EvalStmts, QueueWrite, WriteNow, Branch, CaseArm,
              CaseDefault, Running
<1>7. CASE UNCHANGED vars
  BY <1>7 DEF RestInv, StillQuiet, Moved, Disturbed, Done, CombBody, Now, RunBody, vars
<1>8. CASE \/ SetAll \/ Tick \/ SettleAssign \/ ReturnToTick \/ ReturnToDriver \/ NextPass
           \/ Panic \/ EndClocked \/ CommitWrite \/ EndCommit
  <2>1. pc' # "comb"
    BY <1>8 DEF SetAll, Tick, SettleAssign, ReturnToTick, ReturnToDriver, NextPass, Panic,
                EndClocked, CommitWrite, EndCommit, BeginSettle, BeginPass
  <2> QED
    BY <2>1 DEF RestInv
<1> QED
  BY <1>3, <1>4, <1>5, <1>6, <1>7, <1>8 DEF Next, Inside, Call, Settle, Edge

(* A pass that ends where it began ends in a solution of the equations.    *)
LEMMA QuietSolves ==
    ASSUME TypeOK, SettleInv, RestInv, PassDone, Quiet
    PROVE  Solves(module, Now)
<1>1. pc = "comb" /\ todo = <<>> /\ cursor > Len(module.comb_processes) /\ Now = before
  BY DEF PassDone, Quiet, Now
<1>2. \A i \in DOMAIN module.assigns : Holds(module, i, Now)
  <2>1. \A i \in DOMAIN module.assigns : AssignHolds(i, Now)
    BY <1>1, QuietSettles DEF SettleInv, CombInv, Now
  <2> QED
    BY <2>1 DEF AssignHolds, Holds
<1>3. values = before[1] /\ arrays = before[2]
  BY <1>1 DEF Now
<1>4. StillQuiet
  BY <1>1, <1>3 DEF RestInv, Moved, Disturbed
<1>5. \A i \in DOMAIN module.comb_processes : i < cursor
  <2>1. module.comb_processes \in Seq(CombProcess) /\ cursor \in Nat
    BY ModulesAssumption DEF TypeOK, ModuleOK
  <2> QED
    BY <1>1, <2>1, LenProperties
<1>6. \A i \in DOMAIN module.comb_processes : RunBody(CombBody(i), Now) = Now
  BY <1>1, <1>4, <1>5 DEF StillQuiet, Done
<1> QED
  BY <1>2, <1>6 DEF Solves, CombBody

-----------------------------------------------------------------------------
(***************************************************************************)
(* The calls.                                                              *)
(***************************************************************************)

(* Settling moves nothing but nets.                                        *)
LEMMA SettlingHolds ==
    ASSUME TypeOK, DriverInv, [Next]_vars, Settling, NEW s \in SignalId, s \notin Nets(module)
    PROVE  values'[s] = values[s] /\ arrays'[s] = arrays[s]
<1>1. \A i : <<"assign", i>> \in Drivers(module, s) => s \in Nets(module)
  BY DEF Drivers, Nets
<1>2. ASSUME NEW i, <<"comb", i>> \in Drivers(module, s) PROVE s \in Nets(module)
  <2>1. i \in DOMAIN module.comb_processes /\ s \in Targets(Within(CombBody(i)))
    BY <1>2 DEF Drivers, CombBody
  <2> QED
    BY <2>1, BlockFacts DEF Nets
<1>3. ~Changed(s)
  BY <1>1, <1>2, StepChangedByDriver DEF Settling
<1> QED
  BY <1>3 DEF Changed

(* A settled state is one: nothing that a call holds has moved.            *)
LEMMA SameAsBefore ==
    ASSUME TypeOK, DriverInv, [Next]_vars, Settling, NEW st, NEW S,
           Cycle!Same(st, Now, Cycle!Held(module, S))
    PROVE  Cycle!Same(st, Now', Cycle!Held(module, S))
BY SettlingHolds DEF Cycle!Same, Cycle!Held, Now

(* Nothing is held otherwise than as it is.                                *)
LEMMA SameAsItself == ASSUME NEW st, NEW S PROVE Cycle!Same(st, st, S)
BY DEF Cycle!Same

(* Running a statement changes the state, what is left to run and the      *)
(* queue, and nothing else.                                                *)
LEMMA EvalStmtsKeeps ==
    ASSUME EvalStmts
    PROVE  todo # <<>> /\ UNCHANGED <<module, pc, caller, pass, cursor, before, unstable, shown>>
BY DEF EvalStmts, QueueWrite, WriteNow, Branch, CaseArm, CaseDefault, Running

(* No step changes the module; only a return changes what is shown.        *)
LEMMA ShownStays ==
    ASSUME [Next]_vars
    PROVE  module' = module /\ (~ReturnToDriver => shown' = shown)
<1>1. CASE EvalStmts
  BY <1>1, EvalStmtsKeeps
<1>2. CASE UNCHANGED vars
  BY <1>2 DEF vars
<1>3. CASE Call \/ Settle \/ StartProcess \/ Edge
  BY <1>3 DEF Call, Settle, Edge, SetAll, Tick, SettleAssign, EndAssigns, StartProcess,
     ReturnToTick, ReturnToDriver, NextPass, Panic, EndClocked, CommitWrite, EndCommit
<1> QED
  BY <1>1, <1>2, <1>3 DEF Next, Inside

(* What the thread can do, by the loop that it is in.                      *)
LEMMA Steps ==
    ASSUME DriverInv, Next
    PROVE  \/ pc = "idle" /\ (SetAll \/ Tick)
           \/ pc = "assigns" /\ (SettleAssign \/ EndAssigns)
           \/ pc = "comb" /\ (StartProcess \/ EvalStmts)
           \/ pc = "comb" /\ PassDone /\ (ReturnToTick \/ ReturnToDriver \/ NextPass \/ Panic)
           \/ pc = "clocked" /\ (StartProcess \/ EvalStmts \/ EndClocked)
           \/ pc = "commit" /\ (CommitWrite \/ EndCommit)
<1>1. CASE EvalStmts
  BY <1>1, EvalStmtsKeeps DEF DriverInv
<1>2. CASE StartProcess
  BY <1>2 DEF StartProcess
<1>3. CASE Call
  BY <1>3 DEF Call, SetAll, Tick
<1>4. CASE SettleAssign \/ EndAssigns
  BY <1>4 DEF SettleAssign, EndAssigns
<1>5. CASE ReturnToTick \/ ReturnToDriver \/ NextPass \/ Panic
  BY <1>5 DEF ReturnToTick, ReturnToDriver, NextPass, Panic, PassDone
<1>6. CASE Edge
  BY <1>6 DEF Edge, EndClocked, CommitWrite, EndCommit
<1> QED
  BY <1>1, <1>2, <1>3, <1>4, <1>5, <1>6 DEF Next, Inside, Settle

(* A return shows a solution.                                              *)
LEMMA NextSettled ==
    ASSUME TypeOK, DriverInv, SettleInv, RestInv, Settled, [Next]_vars
    PROVE  Settled'
<1>1. CASE ReturnToDriver
  <2>1. Solves(module, Now)
    BY <1>1, QuietSolves DEF ReturnToDriver
  <2>2. module' = module /\ Now' = Now /\ shown' = Now
    BY <1>1 DEF ReturnToDriver, Now
  <2> QED
    BY <2>1, <2>2 DEF Settled, Solves, Holds, RunBody
<1>2. CASE UNCHANGED vars
  BY <1>2 DEF Settled, Now, Solves, Holds, RunBody, vars
<1>3. CASE Next /\ ~ReturnToDriver
  <2>1. pc' # "idle"
    <3>1. CASE EvalStmts \/ StartProcess
      BY <3>1, EvalStmtsKeeps DEF StartProcess, DriverInv
    <3>2. CASE ~(EvalStmts \/ StartProcess)
      BY <1>3, <3>2 DEF Next, Inside, Call, Settle, Edge, SetAll, Tick, SettleAssign,
         EndAssigns, ReturnToTick, NextPass, Panic, EndClocked, CommitWrite, EndCommit,
         BeginSettle, BeginPass
    <3> QED
      BY <3>1, <3>2
  <2> QED
    BY <2>1 DEF Settled
<1> QED
  BY <1>1, <1>2, <1>3

(* A settle that goes on has not changed who called it.                    *)
LEMMA SettlingGoesOn ==
    ASSUME DriverInv, Next, Settling, Settling'
    PROVE  caller' = caller /\ ~ReturnToDriver
<1>1. CASE EvalStmts
  BY <1>1, EvalStmtsKeeps DEF Settling, ReturnToDriver
<1>2. CASE ~EvalStmts
  BY <1>2, Steps DEF Settling, SettleAssign, EndAssigns, StartProcess, ReturnToTick,
     ReturnToDriver, NextPass, Panic, BeginPass
<1> QED
  BY <1>1, <1>2

(* When the queue is empty, the edge is over.                              *)
LEMMA EdgeIsOver ==
    ASSUME TypeOK, DriverInv, EdgeInv, EndCommit
    PROVE  EdgeOf(module, shown) = Now
<1> DEFINE n == Len(module.clocked_processes)
           c == Stage(<<>>, Now, <<>>, <<>>)
<1>1. /\ todo = <<>> /\ updates = <<>> /\ cursor = n + 1
      /\ EdgeOf(module, shown) = RunEnd[Stage(Remaining, Now, todo, updates)]
  BY DEF EndCommit, DriverInv, EdgeInv
<1>2. n \in Nat
  BY ModulesAssumption, LenProperties DEF ModuleOK, TypeOK
<1>3. Remaining = <<>>
  BY <1>1, <1>2, SubSeqEmpty DEF Remaining
<1>4. RunEnd[c] = Now
  <2>1. RunBody(<<>>, Now) = Now
    BY StatesType, RunNothing
  <2> QED  BY <2>1 DEF RunBody
<1> QED  BY <1>1, <1>3, <1>4

(* What a call leaves alone, settling leaves alone.                        *)
LEMMA NextHeldInv ==
    ASSUME TypeOK, DriverInv, Settled, HeldInv, EdgeInv, [Next]_vars
    PROVE  HeldInv'
<1>1. CASE UNCHANGED vars
  BY <1>1 DEF HeldInv, Settling, Now, vars, Cycle!Held, EdgeOf, Stage
<1>2. CASE Next /\ Settling /\ Settling'
  <2>1. caller' = caller /\ module' = module /\ shown' = shown
    BY <1>2, SettlingGoesOn, ShownStays
  <2> DEFINE fresh == Cycle!Held(module, {})
             free == Cycle!Held(module, Inputs)
             edge == EdgeOf(module, shown)
  <2>2. caller = "new" => Cycle!Same(Zero, Now', fresh)
    BY <1>2, SameAsBefore DEF HeldInv
  <2>3. caller = "set_all" => Cycle!Same(shown, Now', free)
    BY <1>2, SameAsBefore DEF HeldInv
  <2>4. caller = "tick_after" => Cycle!Same(edge, Now', fresh)
    BY <1>2, SameAsBefore DEF HeldInv
  <2>5. fresh' = fresh /\ free' = free /\ edge' = edge
    BY <2>1
  <2> HIDE DEF fresh, free, edge
  <2>6. HeldInv' <=>
          (Settling' =>
             /\ caller' = "new" => Cycle!Same(Zero, Now', fresh')
             /\ caller' = "set_all" => Cycle!Same(shown', Now', free')
             /\ caller' = "tick_after" => Cycle!Same(edge', Now', fresh'))
    BY DEF HeldInv, fresh, free, edge
  <2> QED
    BY <2>1, <2>2, <2>3, <2>4, <2>5, <2>6
<1>3. CASE SetAll
  <2>1. PICK D \in SUBSET Inputs : \E request \in [D -> DriveWord] :
           values' = [s \in SignalId |->
                         IF s \in D THEN Mask(request[s], Width[s]) ELSE values[s]]
    BY <1>3 DEF SetAll
  <2>2. \A s \in SignalId \ Inputs : values'[s] = values[s]
    BY <2>1
  <2>3. Now = shown /\ arrays' = arrays /\ module' = module /\ shown' = shown
    BY <1>3 DEF SetAll, Settled
  <2>4. Cycle!Same(shown, Now', Cycle!Held(module, Inputs))
    BY <2>2, <2>3 DEF Cycle!Same, Cycle!Held, Now
  <2>5. Cycle!Held(module, Inputs)' = Cycle!Held(module, Inputs)
    BY <2>3
  <2>6. caller' = "set_all"
    BY <1>3 DEF SetAll, BeginSettle
  <2> QED
    BY <2>3, <2>4, <2>5, <2>6 DEF HeldInv
<1>4. CASE EndCommit
  <2>4. EdgeOf(module, shown) = Now
    BY <1>4, EdgeIsOver
  <2>5. module' = module /\ shown' = shown /\ Now' = Now /\ caller' = "tick_after"
    BY <1>4 DEF EndCommit, BeginSettle, Now
  <2>6. EdgeOf(module, shown)' = EdgeOf(module, shown)
    BY <2>5
  <2>7. Cycle!Same(EdgeOf(module, shown)', Now', Cycle!Held(module, {})')
    BY <2>4, <2>5, <2>6, SameAsItself
  <2> QED
    BY <2>5, <2>7 DEF HeldInv
<1>5. CASE Tick
  <2>1. caller' = "tick_before"
    BY <1>5 DEF Tick, BeginSettle
  <2> QED
    BY <2>1 DEF HeldInv
<1>6. CASE Next /\ ~Settling /\ Settling'
  <2>1. ~EvalStmts /\ ~StartProcess
    BY <1>6, EvalStmtsKeeps DEF StartProcess, Settling
  <2>2. SetAll \/ Tick \/ EndCommit
    BY <1>6, <2>1, Steps DEF Settling, EndClocked, CommitWrite
  <2> QED
    BY <1>3, <1>4, <1>5, <2>2
<1> QED
  BY <1>1, <1>2, <1>6 DEF HeldInv

(* The first settle of tick repeats the pass the last call ended with.     *)
LEMMA NextTickInv ==
    ASSUME TypeOK, TypeOK', DriverInv, BlockInv, Settled, TickInv, [Next]_vars
    PROVE  TickInv'
<1>1. CASE UNCHANGED vars
  BY <1>1 DEF TickInv, Settling, Now, vars, Solves, Holds, RunBody, Stage
<1>2. CASE Tick
  <2>1. /\ Now = shown /\ Solves(module, shown) /\ todo = <<>>
        /\ module' = module /\ shown' = shown /\ Now' = Now /\ before' = Now' /\ pass' = 1
        /\ todo' = todo
    BY <1>2 DEF Tick, BeginSettle, BeginPass, Settled, DriverInv, Now
  <2>2. Solves(module, shown)'
    BY <2>1 DEF Solves, Holds, RunBody, Stage
  <2>3. RunBody(todo', Now') = shown'
    BY <2>1, StatesType, RunNothing
  <2> QED
    BY <2>1, <2>2, <2>3 DEF TickInv
<1>3. ASSUME Next, Settling, Settling', caller = "tick_before"
      PROVE  TickInv'
  <2>1. /\ Solves(module, shown) /\ before = shown /\ pass = 1
        /\ RunBody(todo, Now) = shown
        /\ todo = <<>> => Now = shown
    BY <1>3, StatesType, RunNothing DEF TickInv
  <2>2. module' = module /\ shown' = shown
    BY <1>3, SettlingGoesOn, ShownStays
  <2>3. Solves(module, shown)'
    BY <2>1, <2>2 DEF Solves, Holds, RunBody, Stage
  <2>4. SUFFICES before' = before /\ pass' = pass /\ RunBody(todo', Now') = shown
    BY <2>1, <2>2, <2>3, <2>4 DEF TickInv
  <2>5. CASE SettleAssign
    <3>1. todo = <<>> /\ todo' = todo /\ before' = before /\ pass' = pass /\ arrays' = arrays
      BY <2>5 DEF SettleAssign, DriverInv
    <3>2. values = shown[1] /\ arrays = shown[2]
      BY <2>1, <3>1 DEF Now
    <3>3. module.assigns \in Seq(Assign) /\ cursor \in Nat \ {0} /\ cursor <= Len(module.assigns)
      BY <2>5, ModulesAssumption DEF ModuleOK, TypeOK, SettleAssign
    <3>4. cursor \in DOMAIN module.assigns
      BY <3>3, LenProperties
    <3> DEFINE a == module.assigns[cursor]
               new == Mask(Eval(a.value, values, arrays), Width[a.target])
    <3>5. values[a.target] = new
      BY <2>1, <3>2, <3>4 DEF Solves, Holds
    <3>6. a \in Assign
      BY <3>4, AssignTargetAlone DEF TypeOK
    <3>7. values' = [values EXCEPT ![a.target] = new]
      BY <2>5 DEF SettleAssign, WriteScalar
    <3> HIDE DEF new, a
    <3>8. values' = values
      BY <3>5, <3>6, <3>7 DEF TypeOK, Values, Assign
    <3> QED
      BY <2>1, <3>1, <3>8 DEF Now
  <2>6. CASE EndAssigns
    BY <2>1, <2>6 DEF EndAssigns, DriverInv, Now
  <2>7. CASE StartProcess
    <3>1. /\ pc = "comb" /\ todo = <<>> /\ cursor <= Len(module.comb_processes)
          /\ todo' = CombBody(cursor) /\ before' = before /\ pass' = pass /\ Now' = Now
      BY <1>3, <2>7 DEF StartProcess, Settling, Processes, CombBody, Now
    <3>2. module.comb_processes \in Seq(CombProcess) /\ cursor \in Nat \ {0}
      BY ModulesAssumption DEF ModuleOK, TypeOK
    <3>3. cursor \in DOMAIN module.comb_processes
      BY <3>1, <3>2, LenProperties
    <3>4. RunBody(CombBody(cursor), shown) = shown
      BY <2>1, <3>3 DEF Solves, CombBody
    <3> QED
      BY <2>1, <3>1, <3>4
  <2>8. CASE EvalStmts
    <3>1. /\ pc = "comb" /\ todo # <<>> /\ before' = before /\ pass' = pass /\ pc' = pc
      BY <1>3, <2>8, EvalStmtsKeeps DEF Settling, DriverInv
    <3>2. updates = <<>> /\ updates' = <<>>
      <4>1. DriverInv'
        BY NextDriverInv
      <4> QED
        BY <3>1, <4>1 DEF DriverInv
    <3>3. RunBody(todo, Now) = RunBody(todo', Now')
      BY <2>8, <3>2, EvalStmtsRunBody
    <3> QED
      BY <2>1, <3>1, <3>3
  <2>9. CASE PassDone /\ (ReturnToTick \/ ReturnToDriver \/ NextPass \/ Panic)
    <3>1. Quiet
      BY <2>1, <2>9 DEF PassDone, Quiet, Now
    <3> QED
      BY <1>3, <2>1, <2>9, <3>1, PassesAssumption
         DEF NextPass, ReturnToTick, ReturnToDriver, Panic, Settling
  <2> QED
    BY <1>3, <2>5, <2>6, <2>7, <2>8, <2>9, Steps DEF Settling
<1>4. ASSUME Next, ~Tick, Settling', caller' = "tick_before"
      PROVE  Settling /\ caller = "tick_before"
  <2>1. CASE Settling
    BY <1>4, <2>1, SettlingGoesOn
  <2>2. CASE ~Settling
    <3>1. ~EvalStmts /\ ~StartProcess
      BY <1>4, <2>2, EvalStmtsKeeps DEF StartProcess, Settling
    <3>2. SetAll \/ EndCommit
      BY <1>4, <2>2, <3>1, Steps DEF Settling, EndClocked, CommitWrite
    <3> QED
      BY <1>4, <3>2 DEF SetAll, EndCommit, BeginSettle
  <2> QED
    BY <2>1, <2>2
<1> QED
  BY <1>1, <1>2, <1>3, <1>4 DEF TickInv

(* The processes that an edge has yet to start, from the next one on.      *)
LEMMA RemainingFacts ==
    ASSUME TypeOK
    PROVE  /\ Remaining \in Seq(ClockedProcess)
           /\ Len(module.clocked_processes) \in Nat
           /\ cursor > Len(module.clocked_processes) => Remaining = <<>>
           /\ cursor = 1 => Remaining = module.clocked_processes
           /\ cursor <= Len(module.clocked_processes) =>
                 /\ Remaining # <<>>
                 /\ Head(Remaining) = module.clocked_processes[cursor]
                 /\ Tail(Remaining) = SubSeq(module.clocked_processes, cursor + 1,
                                             Len(module.clocked_processes))
<1> DEFINE cp == module.clocked_processes
           n  == Len(cp)
<1>1. cp \in Seq(ClockedProcess) /\ cursor \in Nat \ {0}
  BY ModulesAssumption DEF ModuleOK, TypeOK
<1> HIDE DEF cp
<1>2. n \in Nat /\ \A i \in 1..n : cp[i] \in ClockedProcess
  BY <1>1, LenProperties, ElementOfSeq
<1>3. \A i \in cursor..n : cp[i] \in ClockedProcess
  BY <1>1, <1>2
<1>4. /\ SubSeq(cp, cursor, n) \in Seq(ClockedProcess)
      /\ Len(SubSeq(cp, cursor, n)) = IF cursor <= n THEN n - cursor + 1 ELSE 0
  BY <1>1, <1>2, <1>3, SubSeqProperties
<1>5. cursor > n => SubSeq(cp, cursor, n) = <<>>
  BY <1>1, <1>2, SubSeqEmpty
<1>6. SubSeq(cp, 1, n) = cp
  BY <1>1, SubSeqFull
<1>7. ASSUME cursor <= n
      PROVE  /\ SubSeq(cp, cursor, n) # <<>>
             /\ Head(SubSeq(cp, cursor, n)) = cp[cursor]
             /\ Tail(SubSeq(cp, cursor, n)) = SubSeq(cp, cursor + 1, n)
  <2>1. cursor \in 1..n /\ n \in cursor..n
    BY <1>1, <1>2, <1>7
  <2>2. /\ Head(SubSeq(cp, cursor, n)) = cp[cursor]
        /\ Tail(SubSeq(cp, cursor, n)) = SubSeq(cp, cursor + 1, n)
    BY <1>1, <2>1, HeadTailOfSubSeq
  <2>3. Len(SubSeq(cp, cursor, n)) # 0
    BY <1>1, <1>2, <1>4, <1>7
  <2>4. Len(<<>>) = 0
    BY EmptySeq
  <2> QED  BY <2>2, <2>3, <2>4
<1> QED  BY <1>2, <1>4, <1>5, <1>6, <1>7 DEF Remaining, cp

(* The clocked processes and the commit are the steps of the edge, from    *)
(* the state that the driver was shown.                                    *)
LEMMA NextEdgeInv ==
    ASSUME TypeOK, TypeOK', DriverInv, SettleInv, TickInv, EdgeInv, [Next]_vars
    PROVE  EdgeInv'
<1> DEFINE n    == Len(module.clocked_processes)
           from == Stage(Remaining, Now, todo, updates)
           onto == Stage(Remaining', Now', todo', updates')
<1>1. n \in Nat /\ cursor \in Nat \ {0} /\ Remaining \in Seq(ClockedProcess)
  BY RemainingFacts DEF TypeOK
<1>2. from \in Config
  BY <1>1, StageType
<1>3. CASE UNCHANGED vars
  BY <1>3 DEF EdgeInv, EdgeOf, Remaining, Stage, Now, vars
<1>4. CASE pc' \notin {"clocked", "commit"}
  BY <1>4 DEF EdgeInv
<1>5. ASSUME module' = module, shown' = shown, caller' = "tick_before",
             EdgeOf(module, shown) = RunEnd[onto], cursor' <= n + 1,
             pc' = "clocked" /\ cursor' = 1 => Now' = shown,
             pc' = "commit" => cursor' = n + 1
      PROVE  EdgeInv'
  <2>1. EdgeInv' <=>
          (pc' \in {"clocked", "commit"} =>
             /\ caller' = "tick_before"
             /\ EdgeOf(module, shown)' = RunEnd[onto]
             /\ cursor' <= n' + 1
             /\ pc' = "clocked" /\ cursor' = 1 => Now' = shown'
             /\ pc' = "commit" => cursor' = n' + 1)
    BY DEF EdgeInv, Stage
  <2>2. EdgeOf(module, shown)' = EdgeOf(module, shown) /\ n' = n
    BY <1>5 DEF EdgeOf, Stage
  <2> HIDE DEF n, onto
  <2> QED
    BY <1>5, <2>1, <2>2
<1>6. ASSUME pc \in {"clocked", "commit"}, ~Ended(from), StepOf(from) = onto
      PROVE  EdgeOf(module, shown) = RunEnd[onto]
  <2>1. EdgeOf(module, shown) = RunEnd[from]
    BY <1>6 DEF EdgeInv
  <2> HIDE DEF from, onto
  <2> QED
    BY <1>2, <1>6, <2>1, RunEndUnfolds
<1>7. CASE ReturnToTick
  <2>1. Settling /\ caller = "tick_before" /\ todo = <<>>
    BY <1>7 DEF ReturnToTick, PassDone, Settling
  <2>2. Now = shown /\ updates = <<>>
    BY <2>1, StatesType, RunNothing DEF TickInv, DriverInv, Settling
  <2>3. /\ cursor' = 1 /\ Now' = Now /\ todo' = <<>> /\ updates' = <<>> /\ pc' = "clocked"
        /\ module' = module /\ shown' = shown /\ caller' = caller
    BY <1>7, <2>1, <2>2 DEF ReturnToTick, Now
  <2>4. Remaining' = SubSeq(module.clocked_processes, 1, n)
    BY <2>3 DEF Remaining
  <2>5. module.clocked_processes \in Seq(ClockedProcess)
    BY ModulesAssumption DEF ModuleOK, TypeOK
  <2>6. Remaining' = module.clocked_processes
    BY <2>4, <2>5, SubSeqFull
  <2>7. EdgeOf(module, shown) = RunEnd[onto]
    BY <2>2, <2>3, <2>6 DEF EdgeOf
  <2> HIDE DEF onto
  <2> QED
    BY <1>1, <1>5, <2>1, <2>2, <2>3, <2>7
<1>8. CASE StartProcess /\ pc = "clocked"
  <2>1. /\ todo = <<>> /\ cursor <= n /\ todo' = module.clocked_processes[cursor].body
        /\ cursor' = cursor + 1 /\ Now' = Now /\ updates' = updates /\ pc' = pc
        /\ module' = module /\ shown' = shown /\ caller' = "tick_before"
    BY <1>8 DEF StartProcess, Processes, Now, EdgeInv
  <2>2. /\ Remaining # <<>> /\ Head(Remaining) = module.clocked_processes[cursor]
        /\ Tail(Remaining) = Remaining'
    BY <2>1, RemainingFacts DEF Remaining
  <2>3. ~Ended(from) /\ StepOf(from) = onto
    BY <2>1, <2>2 DEF Ended, StepOf, StartStep, Stage
  <2>4. EdgeOf(module, shown) = RunEnd[onto]
    BY <1>6, <1>8, <2>3
  <2>5. cursor' <= n + 1 /\ cursor' # 1
    BY <1>1, <2>1
  <2> HIDE DEF onto, n
  <2> QED
    BY <1>5, <1>8, <2>1, <2>4, <2>5
<1>9. CASE EvalStmts /\ pc = "clocked"
  <2>1. /\ todo # <<>> /\ pc' = pc /\ cursor' = cursor
        /\ module' = module /\ shown' = shown /\ caller' = "tick_before"
    BY <1>9, EvalStmtsKeeps DEF EdgeInv
  <2>2. Remaining' = Remaining
    BY <2>1 DEF Remaining
  <2>3. RunEnd[from] = RunEnd[onto]
    BY <1>1, <1>9, <2>2, EvalStmtsRuns
  <2>4. EdgeOf(module, shown) = RunEnd[from] /\ cursor <= n + 1
    BY <1>9 DEF EdgeInv
  <2>5. cursor # 1
    BY <1>9, <2>1 DEF SettleInv
  <2> HIDE DEF from, onto, n
  <2> QED
    BY <1>5, <1>9, <2>1, <2>3, <2>4, <2>5
<1>10. CASE EndClocked
  <2>1. /\ pc = "clocked" /\ todo = <<>> /\ cursor > n /\ pc' = "commit"
        /\ UNCHANGED <<module, values, arrays, cursor, todo, updates, shown>>
        /\ caller' = "tick_before"
    BY <1>10 DEF EndClocked, EdgeInv
  <2>2. cursor <= n + 1 /\ EdgeOf(module, shown) = RunEnd[from]
    BY <2>1 DEF EdgeInv
  <2>3. cursor' = n + 1 /\ n + 1 <= n + 1
    BY <1>1, <2>1, <2>2
  <2>4. onto = from
    BY <2>1 DEF Now, Remaining
  <2> HIDE DEF onto, n, from
  <2> QED
    BY <1>5, <2>1, <2>2, <2>3, <2>4
<1>11. CASE CommitWrite
  <2> DEFINE w == Head(updates)
  <2>1. /\ pc = "commit" /\ updates # <<>> /\ ApplyWrite(w) /\ updates' = Tail(updates)
        /\ UNCHANGED <<module, pc, cursor, todo, shown>> /\ caller' = "tick_before"
    BY <1>11 DEF CommitWrite, EdgeInv
  <2>2. todo = <<>> /\ cursor = n + 1
    BY <2>1 DEF DriverInv, EdgeInv
  <2>3. w \in PendingWrite
    BY <2>1, HeadTailProperties DEF TypeOK
  <2>4. Now' = After(w, Now)
    BY <2>1, <2>3, ApplyWriteIsAfter
  <2>5. Remaining = <<>> /\ Remaining' = Remaining
    BY <1>1, <2>1, <2>2, RemainingFacts DEF Remaining
  <2>6. ~Ended(from) /\ StepOf(from) = onto
    BY <2>1, <2>2, <2>4, <2>5 DEF Ended, StepOf, CommitStep, Stage
  <2>7. EdgeOf(module, shown) = RunEnd[onto]
    BY <1>6, <2>1, <2>6
  <2>8. cursor' = n + 1 /\ n + 1 <= n + 1
    BY <1>1, <2>1, <2>2
  <2> HIDE DEF onto, n
  <2> QED
    BY <1>5, <2>1, <2>7, <2>8
<1>12. ASSUME Next, pc' \in {"clocked", "commit"}
       PROVE  \/ ReturnToTick \/ EndClocked \/ CommitWrite
              \/ StartProcess /\ pc = "clocked"
              \/ EvalStmts /\ pc = "clocked"
  <2>1. CASE EvalStmts
    BY <1>12, <2>1, EvalStmtsKeeps DEF DriverInv
  <2>2. CASE StartProcess
    BY <1>12, <2>2 DEF StartProcess
  <2>3. ~(SetAll \/ Tick \/ EndCommit \/ NextPass)
    BY <1>12 DEF SetAll, Tick, NextPass, EndCommit, BeginSettle, BeginPass
  <2>4. ~(SettleAssign \/ EndAssigns \/ ReturnToDriver \/ Panic)
    BY <1>12 DEF SettleAssign, EndAssigns, ReturnToDriver, Panic
  <2> QED
    BY <1>12, <2>1, <2>2, <2>3, <2>4 DEF Next, Inside, Call, Settle, Edge
<1> QED
  BY <1>3, <1>4, <1>7, <1>8, <1>9, <1>10, <1>11, <1>12

-----------------------------------------------------------------------------
(***************************************************************************)
(* The theorems.                                                           *)
(***************************************************************************)

(* All of it, the strengthening with which the kernel's steps are those of *)
(* CycleSim.                                                               *)
IInv == TypeOK /\ DriverInv /\ SettleInv /\ BlockInv /\ RestInv /\ CallInv

(* Init has it.                                                            *)
LEMMA InitIInv == Init => IInv
<1> SUFFICES ASSUME Init PROVE IInv
  OBVIOUS
<1>1. TypeOK /\ DriverInv /\ SettleInv
  BY InitTypeOK, InitDriverInv, InitSettleInv
<1>2. BlockInv /\ RestInv /\ Settled /\ TickInv /\ EdgeInv
  BY DEF Init, BlockInv, RestInv, Settled, TickInv, EdgeInv
<1>3. Now = Zero /\ caller = "new"
  BY DEF Init, Now, Zero
<1>4. HeldInv
  BY <1>3, SameAsItself DEF HeldInv
<1> QED
  BY <1>1, <1>2, <1>4 DEF IInv, CallInv

(* Every step keeps it.                                                    *)
LEMMA NextIInv == IInv /\ [Next]_vars => IInv'
<1> SUFFICES ASSUME IInv, [Next]_vars PROVE IInv'
  OBVIOUS
<1>1. /\ TypeOK /\ DriverInv /\ SettleInv /\ BlockInv /\ RestInv
      /\ Settled /\ HeldInv /\ TickInv /\ EdgeInv
  BY DEF IInv, CallInv
<1>2. TypeOK' /\ DriverInv' /\ SettleInv'
  BY <1>1, NextTypeOK, NextDriverInv, NextSettleInv
<1>3. BlockInv' /\ RestInv'
  BY <1>1, <1>2, NextBlockInv, NextRestInv
<1>4. Settled'
  BY <1>1, NextSettled
<1>5. HeldInv'
  BY <1>1, NextHeldInv
<1>6. TickInv'
  BY <1>1, <1>2, NextTickInv
<1>7. EdgeInv'
  BY <1>1, <1>2, NextEdgeInv
<1> QED
  BY <1>2, <1>3, <1>4, <1>5, <1>6, <1>7 DEF IInv, CallInv

(* So it always holds.                                                     *)
LEMMA AlwaysIInv == Spec => []IInv
BY InitIInv, NextIInv, PTL DEF Spec

(* The clocked processes read the state the driver was last shown: the     *)
(* settle at the start of tick finds nothing to do, whatever the module.   *)
THEOREM EdgeReadsWhatWasShown == Spec => []EdgeReadsShown
<1>1. IInv => EdgeReadsShown
  BY DEF IInv, CallInv, EdgeInv, EdgeReadsShown, Now
<1> QED
  BY <1>1, AlwaysIInv, PTL

(* Whenever a call has returned, what the driver is shown is the current   *)
(* state, and it solves the module's equations: every assignment holds,    *)
(* and every combinational block, latch or not, is at rest.                *)
THEOREM ReturnsSolutions == Spec => []Settled
<1>1. IInv => Settled
  BY DEF IInv, CallInv
<1> QED
  BY <1>1, AlwaysIInv, PTL

(* Init maps to Init.                                                      *)
LEMMA InitMaps == Init => Cycle!Init
BY DEF Init, Cycle!Init, Zero

(* A return is the call as CycleSim has it, and no other step shows.       *)
LEMMA StepMaps == IInv /\ IInv' /\ [Next]_vars => [Cycle!Next]_Cycle!vars
<1> SUFFICES ASSUME IInv, IInv', [Next]_vars PROVE [Cycle!Next]_Cycle!vars
  OBVIOUS
<1> DEFINE status == IF pc = "panic" THEN "panic"
                     ELSE IF caller = "new" /\ pc # "idle" THEN "new" ELSE "ready"
<1>1. /\ TypeOK /\ DriverInv /\ SettleInv /\ RestInv
      /\ Settled /\ HeldInv /\ EdgeInv /\ Settled'
  BY DEF IInv, CallInv
<1>2. CASE UNCHANGED vars
  BY <1>2 DEF vars, Cycle!vars
<1>3. CASE ReturnToDriver
  <2>1. /\ Settling /\ caller # "tick_before" /\ pc = "comb" /\ pc' = "idle"
        /\ module' = module /\ shown' = Now /\ caller' = caller
    BY <1>3 DEF ReturnToDriver, PassDone, Settling, Now
  <2>2. Solves(module, shown')
    BY <1>1, <1>3, <2>1, QuietSolves DEF ReturnToDriver
  <2>3. status' = "ready"
    BY <2>1
  <2>4. CASE caller = "new"
    <3>1. status = "new" /\ Cycle!Same(Zero, shown', Cycle!Held(module, {}))
      BY <1>1, <2>1, <2>4 DEF HeldInv
    <3>2. Cycle!New
      BY <2>1, <2>2, <2>3, <3>1 DEF Cycle!New
    <3> QED
      BY <3>2 DEF Cycle!Next
  <2>5. CASE caller = "set_all"
    <3>1. status = "ready" /\ Cycle!Same(shown, shown', Cycle!Held(module, Inputs))
      BY <1>1, <2>1, <2>5 DEF HeldInv
    <3>2. Cycle!Drive
      BY <2>1, <2>2, <2>3, <3>1 DEF Cycle!Drive
    <3> QED
      BY <3>2 DEF Cycle!Next
  <2>6. CASE caller = "tick_after"
    <3>1. status = "ready" /\ Cycle!Same(EdgeOf(module, shown), shown', Cycle!Held(module, {}))
      BY <1>1, <2>1, <2>6 DEF HeldInv
    <3>2. Cycle!Tick
      BY <2>1, <2>2, <2>3, <3>1 DEF Cycle!Tick
    <3> QED
      BY <3>2 DEF Cycle!Next
  <2> QED
    BY <1>1, <2>1, <2>4, <2>5, <2>6 DEF TypeOK, Callers
<1>4. CASE Panic
  <2>1. pc = "comb" /\ pc' = "panic" /\ module' = module /\ shown' = shown
    BY <1>4 DEF Panic, PassDone
  <2>2. Cycle!Abandon
    BY <2>1 DEF Cycle!Abandon
  <2> QED
    BY <2>2 DEF Cycle!Next
<1>5. CASE Next /\ ~ReturnToDriver /\ ~Panic
  <2>1. module' = module /\ shown' = shown
    BY <1>5, ShownStays
  <2>2. status' = status
    <3>1. CASE EvalStmts
      BY <3>1, EvalStmtsKeeps
    <3>2. CASE StartProcess \/ SettleAssign \/ EndAssigns \/ NextPass
      BY <3>2 DEF StartProcess, SettleAssign, EndAssigns, NextPass, PassDone, BeginPass
    <3>3. CASE SetAll \/ Tick
      BY <3>3 DEF SetAll, Tick, BeginSettle, BeginPass
    <3>4. CASE ReturnToTick
      BY <3>4 DEF ReturnToTick, PassDone
    <3>5. CASE Edge
      BY <1>1, <3>5 DEF Edge, EndClocked, CommitWrite, EndCommit, BeginSettle, BeginPass,
         EdgeInv
    <3> QED
      BY <1>5, <3>1, <3>2, <3>3, <3>4, <3>5 DEF Next, Inside, Call, Settle
  <2> QED
    BY <2>1, <2>2 DEF Cycle!vars
<1> QED
  BY <1>2, <1>3, <1>4, <1>5

(* The kernel implements CycleSim.                                         *)
THEOREM ImplementsCycle == Spec => ImplementsCycleSim
<1>1. Spec => Cycle!Spec
  BY InitMaps, StepMaps, AlwaysIInv, PTL DEF Spec, Cycle!Spec
<1> QED  BY <1>1 DEF ImplementsCycleSim
=============================================================================
