---------------------------- MODULE AnswerProofs ----------------------------
(***************************************************************************)
(* Logic with ranks has one answer, and the kernel gives it: whatever the  *)
(* order of the declarations, and whatever the grouping of the inputs into *)
(* calls.                                                                  *)
(***************************************************************************)
EXTENDS KernelAnswer, DepthProofs

-----------------------------------------------------------------------------
(***************************************************************************)
(* One answer.                                                             *)
(***************************************************************************)

(* What solves the equations is at rest: each unit leaves what it drives.  *)
LEMMA SolutionRests ==
    ASSUME NEW m \in Modules, NEW u \in Logic!Units(m), NEW st \in States, Solves(m, st)
    PROVE  Logic!Agree(Made(m, u, st), st, Drives(m, u))
<1>1. CASE u[1] = "assign"
  <2> DEFINE a == m.assigns[u[2]]
  <2>1. u[2] \in DOMAIN m.assigns
    BY <1>1 DEF Logic!Units
  <2>2. st[1][a.target] = Mask(Eval(a.value, st[1], st[2]), Width[a.target])
    BY <2>1 DEF Solves, Holds
  <2>3. a.target \in SignalId
    <3>1. m.assigns \in Seq(Assign)
      BY ModulesAssumption DEF ModuleOK
    <3>2. a \in Assign
      BY <2>1, <3>1, LenProperties
    <3> QED  BY <3>2 DEF Assign
  <2>4. st[1] = [s \in SignalId |-> st[1][s]]
    BY DEF States, Values
  <2>5. Made(m, u, st)[1][a.target] = st[1][a.target]
    BY <1>1, <2>2, <2>3, <2>4 DEF Made, AssignMakes, WriteScalar
  <2>6. Drives(m, u) = {<<a.target, 1>>}
    BY <1>1 DEF Drives
  <2> HIDE DEF a
  <2> QED  BY <2>5, <2>6 DEF Logic!Agree, Logic!In
<1>2. CASE u[1] # "assign"
  <2>1. u = <<"comb", u[2]>> /\ u[2] \in DOMAIN m.comb_processes
    BY <1>2 DEF Logic!Units
  <2>2. RunBody(m.comb_processes[u[2]].body, st) = st
    BY <2>1 DEF Solves
  <2>3. Made(m, u, st) = st
    BY <1>2, <2>2 DEF Made
  <2> QED  BY <2>3, AgreeFacts
<1> QED  BY <1>1, <1>2

(* Two solutions that agree on what the units of lower ranks drive, and on *)
(* what none drives, agree on what a unit drives.                          *)
LEMMA NextRankAgrees ==
    ASSUME NEW m \in Modules, NEW rank \in [Logic!Units(m) -> Nat], Logic!Ranked(m, rank),
           NEW st \in States, NEW e \in States, Solves(m, st), Solves(m, e),
           Logic!Agree(st, e, Undriven(m)),
           NEW u \in Logic!Units(m),
           \A v \in Logic!Units(m) : rank[v] < rank[u] => Logic!Agree(st, e, Drives(m, v))
    PROVE  Logic!Agree(st, e, Drives(m, u))
<1> DEFINE S == Logic!Apart(m, Logic!From(m, rank, rank[u]))
<1>1. Logic!Agree(st, e, S)
  <2> SUFFICES ASSUME NEW x \in S PROVE Logic!In(st, x) = Logic!In(e, x)
    BY DEF Logic!Agree
  <2>1. CASE x \in Undriven(m)
    BY <2>1 DEF Logic!Agree
  <2>2. CASE x \notin Undriven(m)
    <3>1. PICK v \in Logic!Units(m) : x \in Drives(m, v)
      BY <2>2 DEF Undriven, Logic!Apart
    <3>2. ~(rank[v] >= rank[u])
      BY <3>1 DEF Logic!Apart, Logic!From
    <3>3. rank[v] \in Nat /\ rank[u] \in Nat
      OBVIOUS
    <3> QED  BY <3>1, <3>2, <3>3 DEF Logic!Agree
  <2> QED  BY <2>1, <2>2
<1>2. Logic!DependsOnly(m, u, S)
  BY DEF Logic!Ranked
<1> HIDE DEF S
<1>3. Logic!Agree(Made(m, u, st), Made(m, u, e), Drives(m, u))
  BY <1>1, <1>2, SameMade
<1>4. /\ Logic!Agree(Made(m, u, st), st, Drives(m, u))
      /\ Logic!Agree(Made(m, u, e), e, Drives(m, u))
  BY SolutionRests
<1> QED  BY <1>3, <1>4, AgreeFacts

(* The equations of logic with ranks have at most one solution for each    *)
(* state of what the logic does not drive: were there two, a unit of the   *)
(* lowest rank on whose slots they differ would make different values of   *)
(* equal ones.                                                             *)
THEOREM OneAnswer ==
    ASSUME NEW m \in Modules, NEW rank \in [Logic!Units(m) -> Nat], Logic!Ranked(m, rank),
           NEW held, NEW st \in States, NEW e \in States,
           Answers(m, held, st), Answers(m, held, e)
    PROVE  st = e
<1>1. Solves(m, st) /\ Solves(m, e) /\ Logic!Agree(st, e, Undriven(m))
  BY AgreeFacts DEF Answers
<1> DEFINE Differ == {u \in Logic!Units(m) : ~Logic!Agree(st, e, Drives(m, u))}
<1>2. Differ = {}
  <2> SUFFICES ASSUME Differ # {} PROVE FALSE
    OBVIOUS
  <2> DEFINE T == {rank[u] : u \in Differ}
  <2>1. T \subseteq Nat /\ T # {}
    OBVIOUS
  <2>2. PICK r \in T : \A q \in T : r <= q
    <3> HIDE DEF T
    <3> QED  BY <2>1, LeastNumber
  <2>3. PICK u \in Differ : rank[u] = r
    OBVIOUS
  <2>4. \A v \in Logic!Units(m) : rank[v] < rank[u] => v \notin Differ
    <3> SUFFICES ASSUME NEW v \in Differ, rank[v] < rank[u] PROVE FALSE
      OBVIOUS
    <3>1. rank[v] \in Nat /\ rank[u] \in Nat /\ r <= rank[v]
      BY <2>2
    <3> QED  BY <2>3, <3>1
  <2>5. Logic!Agree(st, e, Drives(m, u))
    BY <1>1, <2>4, NextRankAgrees
  <2> QED  BY <2>5
<1>3. Logic!Agree(st, e, Logic!Slots)
  BY <1>1, <1>2 DEF Undriven, Logic!Agree
<1> QED  BY <1>3, AgreeIsEqual

-----------------------------------------------------------------------------
(***************************************************************************)
(* What a driver asks for in one call or in two.                           *)
(***************************************************************************)

(* A state with inputs set differs from it only there.                     *)
LEMMA WithElsewhere ==
    ASSUME NEW st, NEW request, NEW x \in Logic!Slots
    PROVE  Logic!In(With(st, request), x) =
              IF x[2] = 1 /\ x[1] \in DOMAIN request
              THEN Mask(request[x[1]], Width[x[1]]) ELSE Logic!In(st, x)
<1>1. x[1] \in SignalId /\ x[2] \in {1, 2}
  BY DEF Logic!Slots
<1> QED  BY <1>1 DEF With, Logic!In

(* Setting some inputs and, when the logic has settled, others, ends where *)
(* setting them all at once does (set, set_all), when the logic has ranks: *)
(* what it makes of the inputs in between leaves no trace.                 *)
THEOREM SetAllIsRepeatedSet ==
    ASSUME NEW m \in Modules, NEW rank \in [Logic!Units(m) -> Nat], Logic!Ranked(m, rank),
           NEW first \in Requests, NEW later \in Requests, NEW st,
           NEW one \in States, Answers(m, With(st, first), one),
           NEW two \in States, Answers(m, With(one, later), two),
           NEW all \in States, Answers(m, With(st, Both(first, later)), all)
    PROVE  two = all
<1> DEFINE both == With(st, Both(first, later))
<1>1. Logic!Agree(both, With(one, later), Undriven(m))
  <2> SUFFICES ASSUME NEW x \in Undriven(m)
               PROVE  Logic!In(both, x) = Logic!In(With(one, later), x)
    BY DEF Logic!Agree
  <2>1. x \in Logic!Slots
    BY DEF Undriven
  <2>2. Logic!In(one, x) = Logic!In(With(st, first), x)
    BY DEF Answers, Logic!Agree
  <2>3. /\ DOMAIN Both(first, later) = DOMAIN first \cup DOMAIN later
        /\ \A s \in DOMAIN first \cup DOMAIN later :
              Both(first, later)[s] = IF s \in DOMAIN later THEN later[s] ELSE first[s]
    BY DEF Both
  <2> QED  BY <2>1, <2>2, <2>3, WithElsewhere
<1>2. Answers(m, both, two)
  BY <1>1, AgreeFacts DEF Answers
<1> QED  BY <1>2, OneAnswer

-----------------------------------------------------------------------------
(***************************************************************************)
(* The kernel finds the answer.                                            *)
(***************************************************************************)

(* The order of declarations is not in the equations, nor in the edge.     *)
LEMMA LogicOfFacts ==
    ASSUME NEW m \in Modules
    PROVE  /\ \A st : LogicSolves(LogicOf(m), st) <=> Solves(m, st)
           /\ Logic!Slots \ LogicDrives(LogicOf(m)) = Undriven(m)
           /\ \A st : EdgeOf(LogicOf(m), st) = EdgeOf(m, st)
<1>1. \A st : LogicSolves(LogicOf(m), st) <=> Solves(m, st)
  BY DEF LogicSolves, LogicOf, Solves, Holds
<1>2. LogicDrives(LogicOf(m)) = UNION {Drives(m, u) : u \in Logic!Units(m)}
  <2> DEFINE L == LogicDrives(LogicOf(m))
             U == UNION {Drives(m, u) : u \in Logic!Units(m)}
  <2>1. ASSUME NEW x \in L PROVE x \in U
    <3>1. CASE \E i \in DOMAIN m.assigns : x = <<m.assigns[i].target, 1>>
      <4>1. PICK i \in DOMAIN m.assigns : x = <<m.assigns[i].target, 1>>
        BY <3>1
      <4>2. <<"assign", i>> \in Logic!Units(m) /\ x \in Drives(m, <<"assign", i>>)
        BY <4>1 DEF Logic!Units, Drives
      <4> QED  BY <4>2
    <3>2. CASE \E i \in DOMAIN m.comb_processes : x \in SlotsOf(Within(m.comb_processes[i].body))
      <4>1. PICK i \in DOMAIN m.comb_processes : x \in SlotsOf(Within(m.comb_processes[i].body))
        BY <3>2
      <4>2. <<"comb", i>> \in Logic!Units(m) /\ x \in Drives(m, <<"comb", i>>)
        BY <4>1 DEF Logic!Units, Drives
      <4> QED  BY <4>2
    <3> QED  BY <2>1, <3>1, <3>2 DEF LogicDrives, LogicOf
  <2>2. ASSUME NEW u \in Logic!Units(m), NEW x \in Drives(m, u) PROVE x \in L
    <3>1. CASE u[1] = "assign"
      <4>1. u[2] \in DOMAIN m.assigns /\ x = <<m.assigns[u[2]].target, 1>>
        BY <3>1 DEF Logic!Units, Drives
      <4> QED  BY <4>1 DEF LogicDrives, LogicOf
    <3>2. CASE u[1] # "assign"
      <4>1. /\ u[2] \in DOMAIN m.comb_processes
            /\ x \in SlotsOf(Within(m.comb_processes[u[2]].body))
        BY <3>2 DEF Logic!Units, Drives
      <4> QED  BY <4>1 DEF LogicDrives, LogicOf
    <3> QED  BY <3>1, <3>2
  <2>3. \A x \in U : x \in L
    BY <2>2
  <2> HIDE DEF L, U
  <2>4. L = U
    BY <2>1, <2>3
  <2> QED  BY <2>4 DEF L, U
<1>3. Logic!Slots \ LogicDrives(LogicOf(m)) = Undriven(m)
  BY <1>2 DEF Undriven
<1>4. \A st : EdgeOf(LogicOf(m), st) = EdgeOf(m, st)
  BY DEF EdgeOf, LogicOf
<1> QED  BY <1>1, <1>3, <1>4

(* What answers is the answer.                                             *)
LEMMA AnswersIsAnswer ==
    ASSUME NEW m \in Modules, NEW rank \in [Logic!Units(m) -> Nat], Logic!Ranked(m, rank),
           NEW held, NEW end \in States, Answers(m, held, end)
    PROVE  end = Answer(LogicOf(m), held)
<1>1. \A st : LogicSolves(LogicOf(m), st)
                  /\ Logic!Agree(held, st, Logic!Slots \ LogicDrives(LogicOf(m)))
              <=> Answers(m, held, st)
  BY LogicOfFacts DEF Answers
<1>2. \A st \in States : Answers(m, held, st) => st = end
  BY OneAnswer
<1> QED  BY <1>1, <1>2, AllStatesIsStates DEF Answer

(* Settling moves no slot that its module's logic does not drive.          *)
LEMMA SettlingLeaves ==
    ASSUME IInv, IInv', Next, Settling, pc' # "clocked"
    PROVE  Logic!Agree(Now, Now', Undriven(module))
<1>1. /\ TypeOK /\ TypeOK' /\ DriverInv /\ DriverInv' /\ BlockInv
  BY DEF IInv
<1>2. ASSUME NEW u \in Logic!Units(module), Logic!Agree(Now, Now', Logic!Slots \ Drives(module, u))
      PROVE  Logic!Agree(Now, Now', Undriven(module))
  BY <1>2 DEF Undriven, Logic!Agree
<1>3. CASE SettleAssign
  <2>1. /\ <<"assign", cursor>> \in Logic!Units(module)
        /\ Logic!Agree(Now, Now', Logic!Slots \ Drives(module, <<"assign", cursor>>))
    BY <1>1, <1>3, AssignRuns DEF Units
  <2> QED  BY <1>2, <2>1
<1>4. CASE EvalStmts /\ pc = "comb"
  <2>1. <<"comb", cursor - 1>> \in Logic!Units(module)
    BY <1>1, <1>4, EvalStmtsKeeps DEF BlockInv, Logic!Units
  <2>2. Logic!Agree(Now, Now', Logic!Slots \ Drives(module, <<"comb", cursor - 1>>))
    BY <1>1, <1>4, SlotsLeft
  <2> QED  BY <1>2, <2>1, <2>2
<1>5. CASE EndAssigns \/ StartProcess \/ ReturnToTick \/ ReturnToDriver \/ NextPass \/ Panic
  <2>1. Now' = Now
    BY <1>5 DEF EndAssigns, StartProcess, ReturnToTick, ReturnToDriver, NextPass, Panic, Now
  <2> QED  BY <2>1, AgreeFacts
<1> QED  BY <1>1, <1>3, <1>4, <1>5, Steps DEF Settling

(* The first settle starts from all zeroes.                               *)
LEMMA InitStartInv == Init => StartInv
<1> SUFFICES ASSUME Init PROVE StartInv
  OBVIOUS
<1>1. Now = Zero /\ caller = "new"
  BY DEF Init, Now, Zero
<1>2. Starts = {Zero}
  BY <1>1 DEF Starts
<1> QED  BY <1>1, <1>2, AgreeFacts DEF StartInv

(* A settle starts from what its caller left.                              *)
LEMMA NextStartInv == IInv /\ IInv' /\ StartInv /\ [Next]_vars => StartInv'
<1> SUFFICES ASSUME IInv, IInv', StartInv, [Next]_vars PROVE StartInv'
  OBVIOUS
<1>1. module' = module
  BY ShownStays
<1> SUFFICES ASSUME Settling', caller' # "tick_before"
             PROVE  \E start \in Starts' : Logic!Agree(start, Now', Undriven(module))
  <2>1. Undriven(module') = Undriven(module)
    BY <1>1
  <2> QED  BY <2>1 DEF StartInv
<1>2. DriverInv /\ Settled /\ EdgeInv /\ TypeOK
  BY DEF IInv, CallInv
<1>3. ASSUME caller' = caller, shown' = shown PROVE Starts' = Starts
  BY <1>3, ShownStays DEF Starts
<1>4. CASE UNCHANGED vars
  <2>1. Settling /\ caller # "tick_before" /\ Starts' = Starts /\ Now' = Now
    BY <1>3, <1>4 DEF vars, Settling, Now
  <2> QED  BY <2>1 DEF StartInv
<1>5. CASE Next /\ Settling
  <2>1. caller' = caller /\ shown' = shown /\ pc' # "clocked"
    BY <1>2, <1>5, SettlingGoesOn, ShownStays DEF Settling
  <2>2. PICK start \in Starts : Logic!Agree(start, Now, Undriven(module))
    BY <1>5, <2>1 DEF StartInv
  <2>3. Logic!Agree(start, Now', Undriven(module))
    BY <1>5, <2>1, <2>2, SettlingLeaves, AgreeFacts
  <2> QED  BY <1>3, <2>1, <2>2, <2>3
<1>6. CASE SetAll
  <2>1. /\ Now = shown /\ arrays' = arrays /\ shown' = shown /\ caller' = "set_all"
    BY <1>2, <1>6 DEF SetAll, Settled, BeginSettle
  <2>2. PICK D \in SUBSET Inputs : \E request \in [D -> DriveWord] :
           values' = [s \in SignalId |->
                         IF s \in D THEN Mask(request[s], Width[s]) ELSE values[s]]
    BY <1>6 DEF SetAll
  <2>3. PICK request \in [D -> DriveWord] :
           values' = [s \in SignalId |->
                         IF s \in D THEN Mask(request[s], Width[s]) ELSE values[s]]
    BY <2>2
  <2>4. Now' = With(shown, request)
    BY <2>1, <2>3 DEF Now, With
  <2>5. request \in Requests
    BY DEF Requests
  <2>6. With(shown, request) \in Starts'
    BY <2>1, <2>5 DEF Starts
  <2> QED  BY <2>4, <2>6, AgreeFacts
<1>7. CASE EndCommit
  <2>4. EdgeOf(module, shown) = Now
    BY <1>2, <1>7, EdgeIsOver
  <2>5. module' = module /\ shown' = shown /\ Now' = Now /\ caller' = "tick_after"
    BY <1>7 DEF EndCommit, BeginSettle, Now
  <2>6. Starts' = {EdgeOf(module, shown)}
    BY <2>5 DEF Starts
  <2> QED  BY <2>4, <2>5, <2>6, AgreeFacts
<1>8. CASE Next /\ ~Settling /\ ~SetAll /\ ~EndCommit
  <2>1. ~EvalStmts /\ ~StartProcess
    BY <1>8, EvalStmtsKeeps DEF StartProcess, Settling
  <2>2. Tick
    BY <1>2, <1>8, <2>1, Steps DEF Settling, EndClocked, CommitWrite
  <2> QED  BY <2>2 DEF Tick, BeginSettle
<1> QED  BY <1>4, <1>5, <1>6, <1>7, <1>8

(* Always so, beside the invariant of CycleProofs.                         *)
LEMMA AlwaysStartInv == Spec => [](IInv /\ StartInv)
BY InitIInv, NextIInv, InitStartInv, NextStartInv, PTL DEF Spec

(* A return answers what the call held.                                    *)
LEMMA ReturnAnswers ==
    ASSUME IInv, StartInv, Shallow, ReturnToDriver
    PROVE  \E start \in Starts : shown' = Answer(LogicOf(module), start)
<1>1. /\ TypeOK /\ SettleInv /\ RestInv
  BY DEF IInv
<1>2. /\ Settling /\ caller # "tick_before" /\ shown' = Now /\ PassDone /\ Quiet
  BY DEF ReturnToDriver, PassDone, Settling, Now
<1>3. PICK start \in Starts : Logic!Agree(start, Now, Undriven(module))
  BY <1>2 DEF StartInv
<1>4. Answers(module, start, Now)
  BY <1>1, <1>2, <1>3, QuietSolves DEF Answers
<1>5. PICK rank \in [Units -> 1..(MAX_PASSES - 1)] : Logic!Ranked(module, rank)
  BY <1>1, RanksOf DEF Shallow
<1>6. rank \in [Logic!Units(module) -> Nat]
  BY PassesAssumption DEF Units
<1>7. module \in Modules /\ Now \in States
  BY <1>1 DEF TypeOK, States, Now
<1> QED  BY <1>2, <1>4, <1>5, <1>6, <1>7, AnswersIsAnswer

(* The module is never changed, so its logic stays as deep as it is.       *)
LEMMA ShallowStays == Shallow /\ [Next]_vars => Shallow'
<1> SUFFICES ASSUME Shallow, [Next]_vars PROVE Shallow'
  OBVIOUS
<1>1. module' = module
  BY ShownStays
<1> QED  BY <1>1 DEF Shallow

(* Before its first call returns, a simulation shows all zeroes.           *)
LEMMA AnswerInit == Init => Sim!Init
BY DEF Init, Sim!Init, Zero

(* A return is the call as AnswerSim has it, and no other step shows.      *)
LEMMA AnswerStep ==
    ASSUME IInv, StartInv, ShallowLogicSettles', Shallow, [Next]_vars
    PROVE  [Sim!Next]_Sim!vars
<1> DEFINE status == IF pc = "panic" THEN "panic"
                     ELSE IF caller = "new" /\ pc # "idle" THEN "new" ELSE "ready"
           l == LogicOf(module)
<1>1. TypeOK /\ DriverInv /\ EdgeInv /\ module' = module /\ pc' # "panic"
  BY ShallowStays, ShownStays DEF IInv, CallInv, ShallowLogicSettles
<1>2. l' = l
  BY <1>1
<1>3. CASE UNCHANGED vars
  BY <1>2, <1>3 DEF vars, Sim!vars
<1>4. CASE ReturnToDriver
  <2>1. /\ caller # "tick_before" /\ pc = "comb" /\ pc' = "idle" /\ caller' = caller
    BY <1>4 DEF ReturnToDriver, PassDone
  <2>2. PICK start \in Starts : shown' = Answer(l, start)
    BY <1>4, ReturnAnswers
  <2>3. status' = "ready"
    BY <2>1
  <2> HIDE DEF l
  <2>4. CASE caller = "new"
    <3>1. status = "new" /\ start = Zero
      BY <2>1, <2>4 DEF Starts
    <3>2. Sim!New
      BY <1>2, <2>2, <2>3, <3>1 DEF Sim!New, l
    <3> QED  BY <3>2 DEF Sim!Next
  <2>5. CASE caller = "set_all"
    <3>1. status = "ready" /\ \E request \in Requests : start = With(shown, request)
      BY <2>1, <2>5 DEF Starts
    <3>2. Sim!Drive
      BY <1>2, <2>2, <2>3, <3>1 DEF Sim!Drive, l
    <3> QED  BY <3>2 DEF Sim!Next
  <2>6. CASE caller = "tick_after"
    <3>1. status = "ready" /\ start = EdgeOf(module, shown)
      BY <2>1, <2>6 DEF Starts
    <3>2. start = EdgeOf(l, shown)
      BY <1>1, <3>1, LogicOfFacts DEF TypeOK, l
    <3>3. Sim!Tick
      BY <1>2, <2>2, <2>3, <3>1, <3>2 DEF Sim!Tick, l
    <3> QED  BY <3>3 DEF Sim!Next
  <2> QED  BY <1>1, <2>1, <2>4, <2>5, <2>6 DEF TypeOK, Callers
<1>5. CASE Next /\ ~ReturnToDriver
  <2>1. shown' = shown
    BY <1>5, ShownStays
  <2>2. status' = status
    <3>1. CASE EvalStmts
      BY <3>1, EvalStmtsKeeps
    <3>2. CASE StartProcess \/ SettleAssign \/ EndAssigns \/ NextPass
      BY <3>2 DEF StartProcess, SettleAssign, EndAssigns, NextPass, PassDone, BeginPass
    <3>3. CASE SetAll \/ Tick
      BY <3>3 DEF SetAll, Tick, BeginSettle, BeginPass
    <3>4. CASE ReturnToTick
      BY <3>4 DEF ReturnToTick, PassDone
    <3>5. CASE Edge
      BY <1>1, <3>5 DEF Edge, EndClocked, CommitWrite, EndCommit, BeginSettle, BeginPass,
         EdgeInv
    <3>6. ~Panic
      BY <1>1 DEF Panic
    <3> QED
      BY <1>5, <3>1, <3>2, <3>3, <3>4, <3>5, <3>6 DEF Next, Inside, Call, Settle
  <2> QED  BY <1>2, <2>1, <2>2 DEF Sim!vars
<1> QED  BY <1>3, <1>4, <1>5

(* The kernel implements AnswerSim for every module whose logic is not as  *)
(* deep as the limit on passes: its calls compute a function of the calls  *)
(* before them, the same whatever the order of the module's assignments    *)
(* and combinational blocks, and all return.                               *)
THEOREM ImplementsAnswers == Spec => ImplementsAnswerSim
<1>1. Spec => [](IInv /\ StartInv /\ ShallowLogicSettles)
  BY AlwaysStartInv, ShallowLogicAlwaysSettles, PTL
<1>2. IInv /\ StartInv /\ ShallowLogicSettles' /\ [Next]_vars => [Shallow => Sim!Next]_Sim!vars
  BY AnswerStep
<1> QED  BY <1>1, <1>2, AnswerInit, PTL DEF Spec, ImplementsAnswerSim

(* Of a simulation of such a module, then, all that happens is AnswerSim.  *)
COROLLARY ShallowIsAnswerSim == Spec /\ Shallow => Sim!Spec
<1>1. Spec /\ Shallow => []Shallow
  BY ShallowStays, PTL DEF Spec
<1>2. Shallow /\ [Shallow => Sim!Next]_Sim!vars => [Sim!Next]_Sim!vars
  OBVIOUS
<1> QED  BY <1>1, <1>2, ImplementsAnswers, PTL DEF ImplementsAnswerSim, Sim!Spec
=============================================================================
