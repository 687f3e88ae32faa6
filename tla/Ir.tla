--------------------------------- MODULE Ir ---------------------------------
(***************************************************************************)
(* The intermediate representation the frontend hands to the kernel        *)
(* (crates/ictus-ir): signals, statements, processes and modules, and what *)
(* the frontend guarantees of a module it accepts.                         *)
(*                                                                         *)
(* A statement is a record whose "kind" is the name of the Rust variant.   *)
(* Its sub-bodies are sequences of statements, so the set of statements    *)
(* has no definition by comprehension: Stmt is the set of those that occur *)
(* in the modules at hand, and Within selects those of one body.           *)
(***************************************************************************)
EXTENDS Signals, Sequences

CONSTANTS
    SignalId,    \* The signals of the module, arrays included.
    Expr,        \* The expressions that occur in the modules at hand.
    Stmt,        \* The statements that occur in them, nested ones included.
    Within(_)    \* Within(body): the statements of body, at every depth.

ASSUME SignalAssumption ==
    /\ Width \in [SignalId -> Nat \ {0}]
    /\ Depth \in [SignalId -> Nat]

(* What one scalar slot and one array per signal can contain. *)
Values == {v \in [SignalId -> Word] : \A s \in SignalId : v[s] \in Fits(s)}

Arrays == {a \in [SignalId -> UNION {[Elements(s) -> Fits(s)] : s \in SignalId}] :
              \A s \in SignalId : a[s] \in [Elements(s) -> Fits(s)]}

-----------------------------------------------------------------------------

Ranges == {None} \cup {r \in (0..(WordWidth - 1)) \X (0..(WordWidth - 1)) : r[2] <= r[1]}

NonBlockingKinds == {"NonBlockingAssign", "ArrayAssign"}
BlockingKinds    == {"BlockingAssign", "BlockingArrayAssign"}
ScalarKinds      == {"NonBlockingAssign", "BlockingAssign"}
ArrayKinds       == {"ArrayAssign", "BlockingArrayAssign"}
StmtKinds        == NonBlockingKinds \cup BlockingKinds \cup {"If", "Case"}

CaseValue ==
    [kind : {"Exact"}, expr : Expr]
        \cup [kind : {"Wildcard"}, value : Word, care_mask : Word]

(* Statement s has the fields of its variant, with sub-bodies made of S.   *)
WellFormed(s, S) ==
    /\ s.kind \in StmtKinds
    /\ s.kind \in ScalarKinds =>
          s.target \in SignalId /\ s.range \in Ranges /\ s.value \in Expr
    /\ s.kind \in ArrayKinds =>
          s.array \in SignalId /\ s.index \in Expr /\ s.value \in Expr
    /\ s.kind = "If" =>
          s.cond \in Expr /\ s.then_branch \in Seq(S) /\ s.else_branch \in Seq(S)
    /\ s.kind = "Case" =>
          /\ s.selector \in Expr
          /\ s.default \in Seq(S)
          /\ s.arms \in Seq([values : Seq(CaseValue), body : Seq(S)])

(* The set of a body's statements holds those of its sub-bodies.           *)
BodyOK(body) ==
    /\ Within(body) \subseteq Stmt
    /\ body \in Seq(Within(body))
    /\ \A s \in Within(body) : WellFormed(s, Within(body))

Assign         == [target : SignalId, value : Expr]
ClockedProcess == [clock : SignalId, body : Seq(Stmt)]
CombProcess    == [body : Seq(Stmt)]

-----------------------------------------------------------------------------

(* The signals a set of statements writes, whether now or at the edge.     *)
Targets(S) ==
    {s.target : s \in {x \in S : x.kind \in ScalarKinds}}
        \cup {s.array : s \in {x \in S : x.kind \in ArrayKinds}}

(* The places of module m that drive signal s.                             *)
Drivers(m, s) ==
    {<<"clocked", i>> : i \in {j \in DOMAIN m.clocked_processes :
                                  s \in Targets(Within(m.clocked_processes[j].body))}}
    \cup
    {<<"comb", i>> : i \in {j \in DOMAIN m.comb_processes :
                               s \in Targets(Within(m.comb_processes[j].body))}}
    \cup
    {<<"assign", i>> : i \in {j \in DOMAIN m.assigns : s = m.assigns[j].target}}

(* reject_multiple_drivers: no signal is driven from two places.           *)
SingleDriver(m) ==
    \A s \in SignalId : \A d, e \in Drivers(m, s) : d = e

(* reject_nonblocking_in_comb: a combinational block never queues a write. *)
CombBlocking(m) ==
    \A i \in DOMAIN m.comb_processes :
        \A s \in Within(m.comb_processes[i].body) : s.kind \notin NonBlockingKinds

(* A module as the frontend hands it over.                                 *)
ModuleOK(m) ==
    /\ m.assigns \in Seq(Assign)
    /\ m.clocked_processes \in Seq(ClockedProcess)
    /\ m.comb_processes \in Seq(CombProcess)
    /\ \A i \in DOMAIN m.clocked_processes : BodyOK(m.clocked_processes[i].body)
    /\ \A i \in DOMAIN m.comb_processes : BodyOK(m.comb_processes[i].body)
    /\ CombBlocking(m)
    /\ SingleDriver(m)
=============================================================================
