---------------------------- MODULE DepthProofs ----------------------------
(***************************************************************************)
(* Logic that is not as deep as MAX_PASSES always settles, for every       *)
(* module the frontend can hand over, in whatever order it is declared,    *)
(* every word width and every limit on the passes.                         *)
(***************************************************************************)
EXTENDS KernelDepth, CycleProofs

-----------------------------------------------------------------------------
(***************************************************************************)
(* States, slot by slot.                                                   *)
(***************************************************************************)

(* States that agree on every slot are one.                                *)
LEMMA AgreeIsEqual ==
    ASSUME NEW st \in States, NEW e \in States, Logic!Agree(st, e, Logic!Slots)
    PROVE  st = e
<1>1. \A s \in SignalId : st[1][s] = e[1][s] /\ st[2][s] = e[2][s]
  <2> TAKE s \in SignalId
  <2>1. <<s, 1>> \in Logic!Slots /\ <<s, 2>> \in Logic!Slots
    BY DEF Logic!Slots
  <2>2. /\ Logic!In(st, <<s, 1>>) = Logic!In(e, <<s, 1>>)
        /\ Logic!In(st, <<s, 2>>) = Logic!In(e, <<s, 2>>)
    BY <2>1 DEF Logic!Agree
  <2> QED  BY <2>2 DEF Logic!In
<1>2. /\ st = <<st[1], st[2]>> /\ e = <<e[1], e[2]>>
      /\ st[1] \in [SignalId -> Word] /\ e[1] \in [SignalId -> Word]
      /\ st[2] = [s \in SignalId |-> st[2][s]] /\ e[2] = [s \in SignalId |-> e[2][s]]
  BY DEF States, Values, Arrays
<1> QED  BY <1>1, <1>2

(* What is left of states that agree on some slots is the same.            *)
LEMMA OnlyAgreed ==
    ASSUME NEW st, NEW e, NEW S, Logic!Agree(st, e, S)
    PROVE  Logic!Only(st, S) = Logic!Only(e, S)
<1>1. \A k \in {1, 2}, s \in SignalId : <<s, k>> \in S => st[k][s] = e[k][s]
  <2> SUFFICES ASSUME NEW k \in {1, 2}, NEW s \in SignalId, <<s, k>> \in S
               PROVE  st[k][s] = e[k][s]
    OBVIOUS
  <2>1. Logic!In(st, <<s, k>>) = Logic!In(e, <<s, k>>)
    BY DEF Logic!Agree
  <2> QED  BY <2>1 DEF Logic!In
<1> QED  BY <1>1 DEF Logic!Only

(* Agreeing goes both ways, and on.                                        *)
LEMMA AgreeFacts ==
    ASSUME NEW S
    PROVE  /\ \A st : Logic!Agree(st, st, S)
           /\ \A st, e : Logic!Agree(st, e, S) => Logic!Agree(e, st, S)
           /\ \A st, e, f : Logic!Agree(st, e, S) /\ Logic!Agree(e, f, S) => Logic!Agree(st, f, S)
           /\ \A st, e, T : Logic!Agree(st, e, T) /\ S \subseteq T => Logic!Agree(st, e, S)
BY DEF Logic!Agree

(* States that differ in slots of D only.                                  *)
LEMMA AgreeElsewhere ==
    ASSUME NEW st, NEW e, NEW D,
           \A s \in SignalId, n \in {1, 2} :
               <<s, n>> \notin D => Logic!In(st, <<s, n>>) = Logic!In(e, <<s, n>>)
    PROVE  Logic!Agree(st, e, Logic!Slots \ D)
<1> SUFFICES ASSUME NEW x \in Logic!Slots, x \notin D PROVE Logic!In(st, x) = Logic!In(e, x)
  BY DEF Logic!Agree
<1>1. PICK s \in SignalId, n \in {1, 2} : x = <<s, n>>
  BY DEF Logic!Slots
<1> QED  BY <1>1

LEMMA AllStatesIsStates == AllStates = States
BY DEF AllStates, Listed, States

(* What a unit makes is the same from states that agree on what it depends *)
(* on.                                                                     *)
LEMMA SameMade ==
    ASSUME NEW m, NEW u, NEW S, Logic!DependsOnly(m, u, S),
           NEW st \in States, NEW e \in States, Logic!Agree(st, e, S)
    PROVE  Logic!Agree(Made(m, u, st), Made(m, u, e), Drives(m, u))
<1>1. Logic!Only(st, S) = Logic!Only(e, S)
  BY OnlyAgreed
<1>2. /\ Logic!Agree(Made(m, u, st), Made(m, u, Logic!Only(st, S)), Drives(m, u))
      /\ Logic!Agree(Made(m, u, e), Made(m, u, Logic!Only(e, S)), Drives(m, u))
  BY AllStatesIsStates DEF Logic!DependsOnly
<1> QED  BY <1>1, <1>2, AgreeFacts

-----------------------------------------------------------------------------
(***************************************************************************)
(* The units of a module.                                                  *)
(***************************************************************************)

(* A unit is the place that drives what it drives, and no two units drive  *)
(* one slot.                                                               *)
LEMMA UnitsApart ==
    ASSUME TypeOK, NEW u \in Units
    PROVE  /\ Drives(module, u) \subseteq Logic!Slots
           /\ \A v \in Units : u # v => Drives(module, u) \cap Drives(module, v) = {}
<1>1. module \in Modules /\ SingleDriver(module) /\ module.assigns \in Seq(Assign)
  BY ModulesAssumption DEF TypeOK, ModuleOK
<1>2. ASSUME NEW v \in Units, NEW x \in Drives(module, v)
      PROVE  x \in Logic!Slots /\ v \in Drivers(module, x[1])
  <2>1. CASE v[1] = "assign"
    <3>1. /\ v = <<"assign", v[2]>> /\ v[2] \in DOMAIN module.assigns
          /\ x = <<module.assigns[v[2]].target, 1>>
      BY <2>1 DEF Units, Logic!Units, Drives
    <3>2. module.assigns[v[2]].target \in SignalId
      BY <1>1, <3>1, AssignTargetAlone DEF Assign
    <3> QED  BY <3>1, <3>2 DEF Drivers, Logic!Slots
  <2>2. CASE v[1] # "assign"
    <3>1. /\ v = <<"comb", v[2]>> /\ v[2] \in DOMAIN module.comb_processes
          /\ x \in SlotsOf(Within(CombBody(v[2])))
      BY <2>2 DEF Units, Logic!Units, Drives, CombBody
    <3>2. /\ x[1] \in Targets(Within(CombBody(v[2])))
          /\ x = <<x[1], x[2]>> /\ x[2] \in {1, 2}
      BY <3>1 DEF SlotsOf, Targets
    <3>3. x[1] \in SignalId
      BY <3>1, <3>2, BlockFacts
    <3> QED  BY <3>1, <3>2, <3>3 DEF Drivers, CombBody, Logic!Slots
  <2> QED  BY <2>1, <2>2
<1>3. ASSUME NEW v \in Units, u # v, NEW x, x \in Drives(module, u), x \in Drives(module, v)
      PROVE  FALSE
  <2>1. /\ u \in Drivers(module, x[1]) /\ v \in Drivers(module, x[1])
        /\ x[1] \in SignalId
    BY <1>2, <1>3 DEF Logic!Slots
  <2> QED  BY <1>1, <1>3, <2>1 DEF SingleDriver
<1> QED  BY <1>2, <1>3

(* Running unit u, when those up to rank p in P are at rest: they stay so, *)
(* and u comes to rest.  If u is of lower rank, it was.                    *)
LEMMA UnitRuns ==
    ASSUME TypeOK, NEW n \in Nat, NEW rank \in [Units -> 1..n], Logic!Ranked(module, rank),
           NEW p \in Nat, NEW P \in SUBSET Units,
           NEW u \in Units, rank[u] < p => u \in P,
           NEW st \in States, NEW e \in States,
           Logic!Agree(Made(module, u, st), e, Drives(module, u)),
           Logic!Agree(st, e, Logic!Slots \ Drives(module, u)),
           \A v \in P : rank[v] <= p /\ AtRest(v, st)
    PROVE  /\ \A v \in P \cup {u} : AtRest(v, e)
           /\ rank[u] < p => e = st
<1> DEFINE D(v) == Drives(module, v)
           R(v) == Logic!Apart(module, Logic!From(module, rank, rank[v]))
<1>1. \A v \in Units : /\ D(v) \subseteq Logic!Slots
                       /\ \A w \in Units : v # w => D(v) \cap D(w) = {}
  BY UnitsApart
<1>2. \A v \in Units : Logic!DependsOnly(module, v, R(v))
  BY DEF Logic!Ranked, Units
<1>3. \A v, w \in Units : rank[v] <= rank[w] => R(v) \subseteq Logic!Slots \ D(w)
  BY DEF Logic!Apart, Logic!From, Units
<1>4. ASSUME AtRest(u, st) PROVE e = st
  <2>1. Logic!Agree(e, st, D(u))
    BY <1>4, AgreeFacts DEF AtRest
  <2>2. Logic!Agree(st, e, Logic!Slots)
    BY <2>1 DEF Logic!Agree
  <2> QED  BY <2>2, AgreeIsEqual
<1>5. AtRest(u, e)
  <2>1. rank[u] <= rank[u]
    OBVIOUS
  <2>2. Logic!Agree(st, e, R(u))
    BY <1>3, <2>1, AgreeFacts
  <2>3. Logic!Agree(Made(module, u, st), Made(module, u, e), D(u))
    BY <1>2, <2>2, SameMade
  <2> QED  BY <2>3, AgreeFacts DEF AtRest
<1>6. ASSUME ~AtRest(u, st), NEW v \in P, v # u PROVE AtRest(v, e)
  <2>1. rank[v] <= rank[u]
    BY <1>6
  <2>2. Logic!Agree(st, e, R(v))
    BY <1>3, <2>1, AgreeFacts
  <2>3. Logic!Agree(st, e, D(v))
    <3>1. D(v) \subseteq Logic!Slots \ D(u)
      BY <1>1, <1>6
    <3> QED  BY <3>1, AgreeFacts
  <2>4. Logic!Agree(Made(module, v, st), Made(module, v, e), D(v))
    BY <1>2, <2>2, SameMade
  <2>5. Logic!Agree(Made(module, v, st), st, D(v))
    BY DEF AtRest
  <2> QED  BY <2>3, <2>4, <2>5, AgreeFacts DEF AtRest
<1> QED  BY <1>4, <1>5, <1>6

(* The run of a unit that ends now, in a pass that is on time.             *)
LEMMA UnitEnds ==
    ASSUME NEW n \in Nat, TypeOK, module' = module, pass' = pass, before' = before,
           pass <= n + 1, pc' = "assigns" \/ todo' = <<>>,
           NEW rank \in [Units -> 1..n], Logic!Ranked(module, rank),
           NEW u \in Units, rank[u] < pass => u \in Brought(rank),
           Brought(rank)' \subseteq Brought(rank) \cup {u},
           NEW st \in States, Now' \in States,
           \A v \in Brought(rank) : AtRest(v, st),
           pass = n + 1 => st = before,
           Logic!Agree(Made(module, u, st), Now', Drives(module, u)),
           Logic!Agree(st, Now', Logic!Slots \ Drives(module, u))
    PROVE  OnTime(rank, n)'
<1> DEFINE P == Brought(rank)
<1>1. pass \in Nat
  BY PassesAssumption DEF TypeOK
<1>2. \A v \in Units : rank[v] \in 1..n
  OBVIOUS
<1>3. P \in SUBSET Units /\ \A v \in P : rank[v] <= pass
  BY <1>1, <1>2 DEF Brought
<1> HIDE DEF P
<1>4. PICK e \in States : e = Now'
  OBVIOUS
<1>5. /\ \A v \in P \cup {u} : AtRest(v, e)
      /\ rank[u] < pass => e = st
  <2>1. /\ rank[u] < pass => u \in P
        /\ \A v \in P : rank[v] <= pass /\ AtRest(v, st)
        /\ Logic!Agree(Made(module, u, st), e, Drives(module, u))
        /\ Logic!Agree(st, e, Logic!Slots \ Drives(module, u))
    BY <1>3, <1>4 DEF P
  <2> QED  BY <1>1, <1>3, <2>1, UnitRuns
<1>6. Began(e)'
  BY <1>4 DEF Began
<1>7. \A v \in Brought(rank)' : AtRest(v, e)'
  BY <1>5 DEF AtRest, P
<1>8. pass' = n + 1 => e = before'
  <2> SUFFICES ASSUME pass = n + 1 PROVE e = st
    OBVIOUS
  <2> QED  BY <1>1, <1>2, <1>5
<1> QED  BY <1>6, <1>7, <1>8 DEF OnTime

(* A step that ends the run of no unit.                                    *)
LEMMA UnitGoesOn ==
    ASSUME NEW n, module' = module, pass' = pass, before' = before, pass <= n + 1,
           NEW rank, Brought(rank)' \subseteq Brought(rank),
           NEW st \in States, \A v \in Brought(rank) : AtRest(v, st),
           pass = n + 1 => st = before,
           Began(st)'
    PROVE  OnTime(rank, n)'
<1>1. \A v \in Brought(rank)' : AtRest(v, st)'
  BY DEF AtRest
<1> QED  BY <1>1 DEF OnTime

-----------------------------------------------------------------------------
(***************************************************************************)
(* What the kernel makes of a state is what the units make.                *)
(***************************************************************************)

(* A statement of a block changes no slot that the block does not drive.   *)
LEMMA SlotsLeft ==
    ASSUME TypeOK, TypeOK', DriverInv, BlockInv, EvalStmts, pc = "comb"
    PROVE  Logic!Agree(Now, Now', Logic!Slots \ Drives(module, <<"comb", cursor - 1>>))
<1> DEFINE W == Within(CombBody(cursor - 1))
           w == EvalWrite(Head(todo), values, arrays)
<1>1. CASE QueueWrite \/ Branch \/ CaseArm \/ CaseDefault
  BY <1>1, AgreeFacts DEF QueueWrite, Branch, CaseArm, CaseDefault, Now
<1>2. CASE WriteNow
  <2>1. todo # <<>> /\ Head(todo).kind \in BlockingKinds /\ ApplyWrite(w)
    BY <1>2 DEF WriteNow, Running
  <2>2. cursor - 1 \in DOMAIN module.comb_processes /\ todo \in Seq(W)
    BY <2>1 DEF BlockInv
  <2>3. Head(todo) \in W /\ Head(todo) \in Stmt /\ WellFormed(Head(todo), W)
    BY <2>1, <2>2, BlockFacts, HeadTailProperties
  <2>4. values \in [SignalId -> Word] /\ DOMAIN arrays = SignalId
    BY DEF TypeOK, Values, Arrays
  <2>5. Drives(module, <<"comb", cursor - 1>>) = SlotsOf(W)
    BY DEF Drives, CombBody
  <2>6. SUFFICES ASSUME NEW s \in SignalId, NEW n \in {1, 2}, <<s, n>> \notin SlotsOf(W)
                 PROVE  Logic!In(Now, <<s, n>>) = Logic!In(Now', <<s, n>>)
    BY <2>5, AgreeElsewhere
  <2>7. CASE Head(todo).kind \in ScalarKinds
    <3>1. w.kind = "Scalar" /\ w.target = Head(todo).target
      BY <2>7 DEF EvalWrite
    <3>2. <<Head(todo).target, 1>> \in SlotsOf(W)
      BY <2>3, <2>7 DEF SlotsOf
    <3>3. arrays' = arrays /\ (s # Head(todo).target => values'[s] = values[s])
      BY <2>1, <2>4, <3>1 DEF ApplyWrite, WriteScalar
    <3>4. n = 1 => s # Head(todo).target
      BY <2>6, <3>2
    <3> QED  BY <3>3, <3>4 DEF Logic!In, Now
  <2>8. CASE Head(todo).kind \notin ScalarKinds
    <3>1. Head(todo).kind \in ArrayKinds
      BY <2>1, <2>8 DEF BlockingKinds, ScalarKinds, ArrayKinds
    <3>2. w.kind = "Array" /\ w.array = Head(todo).array
      BY <2>8 DEF EvalWrite
    <3>3. <<Head(todo).array, 2>> \in SlotsOf(W)
      BY <2>3, <3>1 DEF SlotsOf
    <3>4. values' = values /\ (s # Head(todo).array => arrays'[s] = arrays[s])
      BY <2>1, <2>4, <3>2 DEF ApplyWrite, WriteArray
    <3>5. n = 2 => s # Head(todo).array
      BY <2>6, <3>3
    <3> QED  BY <3>4, <3>5 DEF Logic!In, Now
  <2> QED  BY <2>7, <2>8
<1> QED  BY <1>1, <1>2 DEF EvalStmts

(* An assignment makes what it is said to make, and changes no other slot. *)
LEMMA AssignRuns ==
    ASSUME TypeOK, SettleAssign
    PROVE  /\ <<"assign", cursor>> \in Units
           /\ Made(module, <<"assign", cursor>>, Now) = Now'
           /\ Logic!Agree(Now, Now', Logic!Slots \ Drives(module, <<"assign", cursor>>))
<1> DEFINE a == module.assigns[cursor]
<1>1. module.assigns \in Seq(Assign) /\ cursor \in Nat \ {0}
  BY ModulesAssumption DEF ModuleOK, TypeOK
<1>2. cursor \in DOMAIN module.assigns
  BY <1>1, LenProperties DEF SettleAssign
<1>3. /\ values' = WriteScalar(values, a.target, None, Eval(a.value, values, arrays))
      /\ arrays' = arrays
  BY DEF SettleAssign
<1>4. values \in [SignalId -> Word]
  BY DEF TypeOK, Values
<1>5. Made(module, <<"assign", cursor>>, Now) = Now'
  BY <1>3 DEF Made, AssignMakes, Now
<1>6. Drives(module, <<"assign", cursor>>) = {<<a.target, 1>>}
  BY DEF Drives
<1>7. ASSUME NEW s \in SignalId, NEW n \in {1, 2}, <<s, n>> # <<a.target, 1>>
      PROVE  Logic!In(Now, <<s, n>>) = Logic!In(Now', <<s, n>>)
  <2> HIDE DEF a
  <2>1. s # a.target => values'[s] = values[s]
    BY <1>3, <1>4 DEF WriteScalar
  <2> QED  BY <1>3, <1>7, <2>1 DEF Logic!In, Now
<1>8. Logic!Agree(Now, Now', Logic!Slots \ Drives(module, <<"assign", cursor>>))
  BY <1>6, <1>7, AgreeElsewhere
<1> QED  BY <1>2, <1>5, <1>8 DEF Units, Logic!Units

-----------------------------------------------------------------------------
(***************************************************************************)
(* Every step keeps a pass on time.                                        *)
(***************************************************************************)

(* Numbers of the module's assignments and blocks.                         *)
LEMMA UnitNumbers ==
    ASSUME TypeOK
    PROVE  /\ DOMAIN module.assigns = 1..Len(module.assigns) /\ Len(module.assigns) \in Nat
           /\ DOMAIN module.comb_processes = 1..Len(module.comb_processes)
           /\ Len(module.comb_processes) \in Nat
           /\ \A u \in Units :
                 /\ u = <<u[1], u[2]>>
                 /\ \/ u[1] = "assign" /\ u[2] \in DOMAIN module.assigns
                    \/ u[1] = "comb" /\ u[2] \in DOMAIN module.comb_processes
           /\ cursor \in Nat \ {0}
<1>1. module.assigns \in Seq(Assign) /\ module.comb_processes \in Seq(CombProcess)
  BY ModulesAssumption DEF TypeOK, ModuleOK
<1>2. /\ DOMAIN module.assigns = 1..Len(module.assigns) /\ Len(module.assigns) \in Nat
      /\ DOMAIN module.comb_processes = 1..Len(module.comb_processes)
      /\ Len(module.comb_processes) \in Nat
  BY <1>1, LenProperties
<1> QED  BY <1>2 DEF TypeOK, Units, Logic!Units

(* A settle begins on time.                                                *)
LEMMA SettleBegins ==
    ASSUME TypeOK, TypeOK', module' = module, BeginPass, pass' = 1,
           NEW n \in Nat, NEW rank \in [Units -> 1..n]
    PROVE  OnTime(rank, n)'
<1>1. PICK st \in States : st = Now'
  BY DEF TypeOK, States, Now
<1>2. pc' = "assigns" /\ cursor' = 1 /\ before' = Now'
  BY DEF BeginPass, Now
<1>3. Began(st)' /\ st = before'
  BY <1>1, <1>2 DEF Began
<1>4. 1 \in Nat /\ 1 <= n + 1
  OBVIOUS
<1>5. Brought(rank)' = {}
  <2> SUFFICES ASSUME NEW u \in Units', u \in Brought(rank)' PROVE FALSE
    BY DEF Brought
  <2>1. u \in Units /\ rank[u] \in 1..n
    BY DEF Units
  <2>2. ~(rank[u] < 1)
    BY <1>4, <2>1
  <2>3. Ran(u)'
    BY <2>2 DEF Brought
  <2>4. u[1] = "assign" /\ u[2] < 1
    BY <1>2, <2>3 DEF Ran
  <2> QED  BY <2>1, <2>4, UnitNumbers
<1> QED  BY <1>3, <1>4, <1>5 DEF OnTime

(* An assignment keeps it on time.                                         *)
LEMMA SettleAssignOnTime ==
    ASSUME TypeOK, TypeOK', SettleAssign,
           NEW n \in Nat, NEW rank \in [Units -> 1..n], Logic!Ranked(module, rank), OnTime(rank, n)
    PROVE  OnTime(rank, n)'
<1> DEFINE u == <<"assign", cursor>>
<1>1. /\ pc = "assigns" /\ pc' = "assigns" /\ module' = module /\ pass' = pass
      /\ before' = before /\ cursor' = cursor + 1
  BY DEF SettleAssign
<1>2. PICK st \in States :
         /\ st = Now
         /\ \A v \in Brought(rank) : AtRest(v, st)
         /\ pass = n + 1 => st = before
         /\ pass <= n + 1
  BY <1>1 DEF OnTime, Began
<1>3. /\ u \in Units /\ Made(module, u, Now) = Now'
      /\ Logic!Agree(Now, Now', Logic!Slots \ Drives(module, u))
  BY AssignRuns
<1>4. Now' \in States
  BY DEF TypeOK, Now, States
<1>5. Brought(rank)' \subseteq Brought(rank) \cup {u}
  <2> SUFFICES ASSUME NEW v \in Brought(rank)', v # u PROVE v \in Brought(rank)
    OBVIOUS
  <2>1. v \in Units /\ (rank[v] < pass \/ (rank[v] = pass /\ Ran(v)'))
    BY <1>1 DEF Brought, Units
  <2>2. ASSUME Ran(v)' PROVE Ran(v)
    <3>1. v[1] = "assign" /\ v[2] < cursor + 1 /\ v[2] # cursor
      BY <1>1, <2>1, <2>2, UnitNumbers DEF Ran
    <3>2. v[2] \in Nat /\ cursor \in Nat
      BY <2>1, <3>1, UnitNumbers
    <3>3. v[2] < cursor
      BY <3>1, <3>2
    <3> QED  BY <3>1, <3>3 DEF Ran
  <2> QED  BY <2>1, <2>2 DEF Brought
<1>6. /\ rank[u] < pass => u \in Brought(rank)
      /\ Logic!Agree(Made(module, u, st), Now', Drives(module, u))
      /\ Logic!Agree(st, Now', Logic!Slots \ Drives(module, u))
  BY <1>2, <1>3, AgreeFacts DEF Brought
<1> HIDE DEF u
<1> QED  BY <1>1, <1>2, <1>3, <1>4, <1>5, <1>6, UnitEnds

(* So does the turn to the blocks.                                         *)
LEMMA EndAssignsOnTime ==
    ASSUME TypeOK, DriverInv, EndAssigns,
           NEW n \in Nat, NEW rank \in [Units -> 1..n], OnTime(rank, n)
    PROVE  OnTime(rank, n)'
<1>1. /\ pc = "assigns" /\ pc' = "comb" /\ module' = module /\ pass' = pass
      /\ before' = before /\ cursor' = 1 /\ Now' = Now /\ todo' = <<>>
      /\ cursor > Len(module.assigns)
  BY DEF EndAssigns, DriverInv, Now
<1>2. PICK st \in States :
         /\ st = Now
         /\ \A v \in Brought(rank) : AtRest(v, st)
         /\ pass = n + 1 => st = before
         /\ pass <= n + 1
  BY <1>1 DEF OnTime, Began
<1>3. Brought(rank)' \subseteq Brought(rank)
  <2> SUFFICES ASSUME NEW v \in Brought(rank)' PROVE v \in Brought(rank)
    OBVIOUS
  <2>1. v \in Units /\ (rank[v] < pass \/ (rank[v] = pass /\ Ran(v)'))
    BY <1>1 DEF Brought, Units
  <2>2. ASSUME Ran(v)' PROVE Ran(v)
    <3>1. CASE v[1] = "assign"
      <4>1. v[2] < cursor
        BY <1>1, <2>1, <3>1, UnitNumbers
      <4> QED  BY <3>1, <4>1 DEF Ran
    <3>2. CASE v[1] # "assign"
      <4>1. v[1] = "comb" /\ v[2] < 1
        BY <1>1, <2>2, <3>2 DEF Ran, Done
      <4> QED  BY <2>1, <4>1, UnitNumbers
    <3> QED  BY <3>1, <3>2
  <2> QED  BY <2>1, <2>2 DEF Brought
<1>4. Began(st)'
  BY <1>1, <1>2 DEF Began
<1> QED  BY <1>1, <1>2, <1>3, <1>4, UnitGoesOn

(* In the blocks, a block more may have run.                               *)
LEMMA BroughtByBlocks ==
    ASSUME TypeOK, pc = "comb", pc' = "comb", module' = module, pass' = pass,
           Done \in Nat, Done' = Done \/ Done' = Done + 1, NEW rank
    PROVE  /\ Brought(rank)' \subseteq Brought(rank) \cup {<<"comb", Done>>}
           /\ Done' = Done => Brought(rank)' \subseteq Brought(rank)
           /\ Brought(rank) \subseteq Units
<1> SUFFICES ASSUME NEW v \in Brought(rank)', Done' = Done \/ v # <<"comb", Done>>
             PROVE  v \in Brought(rank)
  BY DEF Brought
<1>1. v \in Units /\ (rank[v] < pass \/ (rank[v] = pass /\ Ran(v)'))
  BY DEF Brought, Units
<1>2. ASSUME Ran(v)' PROVE Ran(v)
  <2>1. CASE v[1] = "assign"
    BY <2>1 DEF Ran
  <2>2. CASE v[1] # "assign"
    <3>1. v[1] = "comb" /\ v[2] < Done' /\ v = <<"comb", v[2]>> /\ v[2] \in Nat
      BY <1>1, <1>2, <2>2, UnitNumbers DEF Ran
    <3>2. v[2] < Done
      BY <3>1
    <3> QED  BY <3>1, <3>2 DEF Ran
  <2> QED  BY <2>1, <2>2
<1> QED  BY <1>1, <1>2 DEF Brought

(* Starting a block keeps it on time; an empty one has run at once.        *)
LEMMA StartBlockOnTime ==
    ASSUME TypeOK, TypeOK', StartProcess, pc = "comb",
           NEW n \in Nat, NEW rank \in [Units -> 1..n], Logic!Ranked(module, rank), OnTime(rank, n)
    PROVE  OnTime(rank, n)'
<1> DEFINE u == <<"comb", cursor>>
<1>1. /\ pc' = "comb" /\ todo = <<>> /\ cursor <= Len(module.comb_processes)
      /\ todo' = CombBody(cursor) /\ cursor' = cursor + 1 /\ Now' = Now
      /\ module' = module /\ pass' = pass /\ before' = before
  BY DEF StartProcess, Processes, CombBody, Now
<1>2. PICK st \in States :
         /\ st = Now
         /\ \A v \in Brought(rank) : AtRest(v, st)
         /\ pass = n + 1 => st = before
         /\ pass <= n + 1
  BY <1>1 DEF OnTime, Began
<1>3. cursor \in Nat \ {0} /\ cursor \in DOMAIN module.comb_processes
  BY <1>1, UnitNumbers
<1>4. /\ Done = cursor /\ cursor' - 1 = cursor
      /\ todo' # <<>> => Done' = cursor
      /\ todo' = <<>> => Done' = cursor + 1
  BY <1>1, <1>3 DEF Done
<1>5. /\ Brought(rank)' \subseteq Brought(rank) \cup {u}
      /\ Done' = Done => Brought(rank)' \subseteq Brought(rank)
  BY <1>1, <1>3, <1>4, BroughtByBlocks
<1>6. CASE todo' # <<>>
  <2>1. RunBody(CombBody(cursor), st) = RunBody(todo', Now')
    BY <1>1, <1>2
  <2>2. Logic!Agree(st, Now', Logic!Slots \ Drives(module, u))
    BY <1>1, <1>2, AgreeFacts
  <2>3. Began(st)'
    BY <1>1, <1>4, <1>6, <2>1, <2>2 DEF Began, CombBody
  <2> QED  BY <1>1, <1>2, <1>4, <1>5, <1>6, <2>3, UnitGoesOn
<1>7. CASE todo' = <<>>
  <2>1. u \in Units
    BY <1>3 DEF Units, Logic!Units
  <2>2. RunBody(CombBody(cursor), st) = st
    BY <1>1, <1>7, RunNothing
  <2>3. Made(module, u, st) = st
    BY <2>2 DEF Made, CombBody
  <2>4. /\ Logic!Agree(Made(module, u, st), Now', Drives(module, u))
        /\ Logic!Agree(st, Now', Logic!Slots \ Drives(module, u))
        /\ Now' \in States
    BY <1>1, <1>2, <2>3, AgreeFacts
  <2>5. rank[u] < pass => u \in Brought(rank)
    BY <2>1 DEF Brought
  <2> HIDE DEF u
  <2> QED  BY <1>1, <1>2, <1>5, <1>7, <2>1, <2>4, <2>5, UnitEnds
<1> QED  BY <1>6, <1>7

(* So does a statement of a block, the last one too.                       *)
LEMMA EvalStmtsOnTime ==
    ASSUME TypeOK, TypeOK', DriverInv, DriverInv', BlockInv, EvalStmts, pc = "comb",
           NEW n \in Nat, NEW rank \in [Units -> 1..n], Logic!Ranked(module, rank), OnTime(rank, n)
    PROVE  OnTime(rank, n)'
<1>1. /\ todo # <<>> /\ pc' = "comb" /\ module' = module /\ pass' = pass
      /\ before' = before /\ cursor' = cursor
  BY EvalStmtsKeeps
<1>2. PICK k \in Nat : k = cursor - 1 /\ k \in DOMAIN module.comb_processes
  BY <1>1, UnitNumbers DEF BlockInv
<1> DEFINE u == <<"comb", k>>
<1>3. PICK st \in States :
         /\ RunBody(CombBody(k), st) = RunBody(todo, Now)
         /\ Logic!Agree(st, Now, Logic!Slots \ Drives(module, u))
         /\ \A v \in Brought(rank) : AtRest(v, st)
         /\ pass = n + 1 => st = before
         /\ pass <= n + 1
  BY <1>1, <1>2 DEF OnTime, Began
<1>4. RunBody(CombBody(k), st) = RunBody(todo', Now')
  <2>1. updates = <<>> /\ updates' = <<>>
    BY <1>1 DEF DriverInv
  <2> QED  BY <1>3, <2>1, EvalStmtsRunBody
<1>5. Logic!Agree(st, Now', Logic!Slots \ Drives(module, u))
  <2>1. Logic!Agree(Now, Now', Logic!Slots \ Drives(module, u))
    BY <1>2, SlotsLeft
  <2> HIDE DEF u
  <2> QED  BY <1>3, <2>1, AgreeFacts
<1>6. Done = k /\ (todo' # <<>> => Done' = k) /\ (todo' = <<>> => Done' = k + 1)
  BY <1>1, <1>2, UnitNumbers DEF Done
<1>7. /\ Brought(rank)' \subseteq Brought(rank) \cup {u}
      /\ Done' = Done => Brought(rank)' \subseteq Brought(rank)
  BY <1>1, <1>2, <1>6, BroughtByBlocks
<1>8. CASE todo' # <<>>
  <2>1. Began(st)'
    BY <1>1, <1>2, <1>4, <1>5, <1>8 DEF Began, CombBody
  <2> QED  BY <1>1, <1>3, <1>6, <1>7, <1>8, <2>1, UnitGoesOn
<1>9. CASE todo' = <<>>
  <2>1. u \in Units
    BY <1>2 DEF Units, Logic!Units
  <2>2. Now' \in States
    BY DEF TypeOK, Now, States
  <2>3. RunBody(CombBody(k), st) = Now'
    BY <1>4, <1>9, <2>2, RunNothing
  <2>4. Made(module, u, st) = Now'
    BY <2>3 DEF Made, CombBody
  <2>5. Logic!Agree(Made(module, u, st), Now', Drives(module, u))
    BY <2>4, AgreeFacts
  <2>6. rank[u] < pass => u \in Brought(rank)
    <3>1. ~Ran(u)
      BY <1>1, <1>2, <1>6 DEF Ran
    <3> QED  BY <2>1 DEF Brought
  <2> HIDE DEF u
  <2> QED  BY <1>1, <1>3, <1>5, <1>7, <1>9, <2>1, <2>2, <2>5, <2>6, UnitEnds
<1> QED  BY <1>8, <1>9

(* A pass that has run to its end has brought the units of its rank to     *)
(* rest: if another follows, it is not the last one allowed that ends.     *)
LEMMA NextPassOnTime ==
    ASSUME TypeOK, TypeOK', NextPass,
           NEW n \in Nat, NEW rank \in [Units -> 1..n], OnTime(rank, n)
    PROVE  OnTime(rank, n)'
<1>1. /\ pc = "comb" /\ todo = <<>> /\ cursor > Len(module.comb_processes)
      /\ Now # before /\ Now' = Now /\ pass' = pass + 1 /\ module' = module
      /\ pc' = "assigns" /\ cursor' = 1 /\ before' = Now'
  BY DEF NextPass, PassDone, BeginPass, Quiet, Now
<1>2. PICK st \in States :
         /\ st = Now
         /\ \A v \in Brought(rank) : AtRest(v, st)
         /\ pass # n + 1
         /\ pass <= n + 1
  BY <1>1 DEF OnTime, Began
<1>3. pass' <= n + 1 /\ pass \in Nat
  BY <1>1, <1>2, PassesAssumption DEF TypeOK
<1>4. Brought(rank)' \subseteq Brought(rank)
  <2> SUFFICES ASSUME NEW v \in Brought(rank)' PROVE v \in Brought(rank)
    OBVIOUS
  <2>1. /\ v \in Units /\ rank[v] \in Nat
        /\ rank[v] < pass + 1 \/ (rank[v] = pass + 1 /\ Ran(v)')
    BY <1>1 DEF Brought, Units
  <2>2. ~Ran(v)'
    <3>1. v[2] \in Nat \ {0}
      BY <2>1, UnitNumbers
    <3> QED  BY <1>1, <3>1 DEF Ran
  <2>3. rank[v] <= pass
    BY <1>3, <2>1, <2>2
  <2>4. Ran(v)
    BY <1>1, <2>1, UnitNumbers DEF Ran, Done
  <2> QED  BY <1>3, <2>1, <2>3, <2>4 DEF Brought
<1>5. Began(st)' /\ st = before'
  BY <1>1, <1>2 DEF Began
<1>6. \A v \in Brought(rank)' : AtRest(v, st)'
  BY <1>1, <1>2, <1>4 DEF AtRest
<1> QED  BY <1>3, <1>5, <1>6 DEF OnTime

(* Init has the invariant.                                                 *)
LEMMA InitDepthInv == Init => DepthInv
<1> SUFFICES ASSUME Init, NEW n \in Nat, NEW rank \in [Units -> 1..n] PROVE OnTime(rank, n)
  BY DEF DepthInv
<1>1. TypeOK
  BY InitTypeOK
<1>2. PICK st \in States : st = Now
  BY <1>1 DEF TypeOK, States, Now
<1>3. pc = "assigns" /\ cursor = 1 /\ before = Now /\ pass = 1
  BY DEF Init, Now
<1>4. Began(st) /\ st = before
  BY <1>2, <1>3 DEF Began
<1>5. 1 \in Nat /\ 1 <= n + 1
  OBVIOUS
<1>6. Brought(rank) = {}
  <2> SUFFICES ASSUME NEW u \in Brought(rank) PROVE FALSE
    OBVIOUS
  <2>1. u \in Units /\ rank[u] \in 1..n
    BY DEF Brought
  <2>2. ~(rank[u] < 1)
    BY <1>5, <2>1
  <2>3. Ran(u)
    BY <1>3, <2>2 DEF Brought
  <2>4. u[1] = "assign" /\ u[2] < 1
    BY <1>3, <2>3 DEF Ran
  <2> QED  BY <1>1, <2>1, <2>4, UnitNumbers
<1> QED  BY <1>3, <1>4, <1>5, <1>6 DEF OnTime

(* Every step keeps it.                                                    *)
LEMMA NextDepthInv == IInv /\ IInv' /\ DepthInv /\ [Next]_vars => DepthInv'
<1> SUFFICES ASSUME IInv, IInv', DepthInv, [Next]_vars, Settling',
                    NEW n \in Nat, NEW rank \in [Units' -> 1..n],
                    Logic!Ranked(module', rank)
             PROVE  OnTime(rank, n)'
  BY DEF DepthInv
<1>1. /\ TypeOK /\ DriverInv /\ BlockInv /\ TypeOK' /\ DriverInv'
  BY DEF IInv
<1>2. module' = module
  BY ShownStays
<1>3. /\ rank \in [Units -> 1..n] /\ Logic!Ranked(module, rank)
      /\ Settling => OnTime(rank, n)
  BY <1>2 DEF Units, DepthInv
<1>4. CASE UNCHANGED vars
  <2>1. Settling /\ OnTime(rank, n)
    BY <1>3, <1>4 DEF vars, Settling
  <2> QED  BY <1>4, <2>1 DEF vars, OnTime, Began, Brought, Ran, Done, AtRest, Units, Now, CombBody
<1>5. CASE SetAll \/ Tick \/ EndCommit
  <2>1. BeginPass /\ pass' = 1
    BY <1>5 DEF SetAll, Tick, EndCommit, BeginSettle
  <2> QED  BY <1>1, <1>2, <1>3, <2>1, SettleBegins
<1>6. CASE SettleAssign
  BY <1>1, <1>3, <1>6, SettleAssignOnTime DEF SettleAssign, Settling
<1>7. CASE EndAssigns
  BY <1>1, <1>3, <1>7, EndAssignsOnTime DEF EndAssigns, Settling
<1>8. CASE StartProcess /\ pc = "comb"
  BY <1>1, <1>3, <1>8, StartBlockOnTime DEF Settling
<1>9. CASE EvalStmts /\ pc = "comb"
  BY <1>1, <1>3, <1>9, EvalStmtsOnTime DEF Settling
<1>10. CASE NextPass
  BY <1>1, <1>3, <1>10, NextPassOnTime DEF NextPass, PassDone, Settling
<1>11. CASE \/ ReturnToTick \/ ReturnToDriver \/ Panic \/ EndClocked \/ CommitWrite
            \/ pc = "clocked" /\ (StartProcess \/ EvalStmts)
  BY <1>11, EvalStmtsKeeps DEF ReturnToTick, ReturnToDriver, Panic, EndClocked, CommitWrite,
     StartProcess, Settling
<1> QED
  BY <1>1, <1>4, <1>5, <1>6, <1>7, <1>8, <1>9, <1>10, <1>11, Steps

(* Logic for which n ranks are enough has them.                            *)
LEMMA RanksOf ==
    ASSUME TypeOK, NEW n \in Enough[module]
    PROVE  n \in 0..MAX_PASSES /\ \E rank \in [Units -> 1..n] : Logic!Ranked(module, rank)
<1>1. module \in Modules
  BY DEF TypeOK
<1> DEFINE Sets(u) ==
             {V \in SUBSET Units : u \in V /\ Logic!DependsOnly(module, u, Logic!Apart(module, V))}
           free == UNION {{<<u, V>> : V \in Sets(u)} : u \in Units}
<1>2. n \in Logic!Enough(module, MAX_PASSES)
  BY <1>1 DEF Enough
<1>3. /\ n \in 0..MAX_PASSES
      /\ \E rank \in [Units -> 1..n] :
            \A u \in Units : <<u, Logic!From(module, rank, rank[u])>> \in free
  BY <1>2 DEF Logic!Enough, Units
<1>4. PICK rank \in [Units -> 1..n] :
         \A u \in Units : <<u, Logic!From(module, rank, rank[u])>> \in free
  BY <1>3
<1>5. ASSUME NEW u \in Units
      PROVE  Logic!DependsOnly(module, u, Logic!Apart(module, Logic!From(module, rank, rank[u])))
  <2>1. PICK v \in Units : \E V \in Sets(v) :
           <<u, Logic!From(module, rank, rank[u])>> = <<v, V>>
    BY <1>4, <1>5
  <2> QED  BY <2>1
<1> QED  BY <1>3, <1>5 DEF Logic!Ranked, Units

LEMMA AlwaysDepthInv == Spec => [](IInv /\ DepthInv)
BY InitIInv, NextIInv, InitDepthInv, NextDepthInv, PTL DEF Spec

(* The number of passes is that of the ranks, whatever the order in which  *)
(* the logic is declared, and one more that finds nothing to do: whoever   *)
(* calls settle_combinational, and whatever state it starts from.          *)
THEOREM SettlesInAsManyPassesAsRanks == Spec => []SettlesInItsDepth
<1>1. IInv /\ DepthInv => SettlesInItsDepth
  <2> SUFFICES ASSUME IInv, DepthInv, Settling, NEW n \in Enough[module]
               PROVE  pass <= n + 1
    BY DEF SettlesInItsDepth
  <2>1. TypeOK
    BY DEF IInv
  <2>2. n \in Nat
    BY <2>1, RanksOf, PassesAssumption
  <2>3. PICK rank \in [Units -> 1..n] : Logic!Ranked(module, rank)
    BY <2>1, RanksOf
  <2> QED  BY <2>2, <2>3 DEF DepthInv, OnTime
<1> QED  BY <1>1, AlwaysDepthInv, PTL

(* A panic is a step from a pass that shallow logic does not come to.      *)
LEMMA NextShallow ==
    ASSUME IInv, DepthInv, ShallowLogicSettles, [Next]_vars
    PROVE  ShallowLogicSettles'
<1>1. module' = module
  BY ShownStays
<1>2. CASE ~Panic /\ pc # "panic"
  <2>1. CASE UNCHANGED vars
    BY <1>2, <2>1 DEF vars, ShallowLogicSettles
  <2>2. CASE EvalStmts
    BY <1>2, <2>2, EvalStmtsKeeps DEF ShallowLogicSettles
  <2>3. CASE Call \/ Settle \/ StartProcess \/ Edge
    BY <1>2, <2>3 DEF Call, Settle, Edge, SetAll, Tick, SettleAssign, EndAssigns,
       StartProcess, ReturnToTick, ReturnToDriver, NextPass, EndClocked, CommitWrite,
       EndCommit, BeginSettle, BeginPass, ShallowLogicSettles
  <2> QED  BY <2>1, <2>2, <2>3 DEF Next, Inside
<1>3. CASE pc = "panic"
  BY <1>1, <1>3 DEF ShallowLogicSettles, Shallow
<1>4. CASE Panic
  <2>1. Settling /\ pass = MAX_PASSES + 1
    BY <1>4 DEF Panic, PassDone, Settling
  <2>2. MAX_PASSES - 1 \in Nat
    BY PassesAssumption
  <2>3. ASSUME Shallow PROVE FALSE
    <3>1. TypeOK
      BY DEF IInv
    <3>2. PICK rank \in [Units -> 1..(MAX_PASSES - 1)] : Logic!Ranked(module, rank)
      BY <2>3, <3>1, RanksOf DEF Shallow
    <3>3. pass <= (MAX_PASSES - 1) + 1
      BY <2>1, <2>2, <3>2 DEF DepthInv, OnTime
    <3> QED  BY <2>1, <3>3, PassesAssumption
  <2> QED  BY <1>1, <2>3 DEF ShallowLogicSettles, Shallow
<1> QED  BY <1>2, <1>3, <1>4

(* Whatever panics is as deep as the limit: logic whose units have ranks   *)
(* below MAX_PASSES settles, in whatever order it is declared.             *)
THEOREM ShallowLogicAlwaysSettles == Spec => []ShallowLogicSettles
<1>1. Init => ShallowLogicSettles
  BY DEF Init, ShallowLogicSettles
<1> QED  BY <1>1, NextShallow, AlwaysDepthInv, PTL DEF Spec
=============================================================================
