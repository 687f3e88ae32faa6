--------------------------- MODULE ElaborateProofs ---------------------------
(***************************************************************************)
(* Theorems about Elaborate, for every library of modules and any values   *)
(* its constants have: the numbers handed out to signals stay those of the *)
(* same signals, through every declaration, instance and merge.            *)
(***************************************************************************)
EXTENDS Elaborate, SequenceTheorems, TLAPS

-----------------------------------------------------------------------------
(***************************************************************************)
(* Sequences, of whatever elements.                                        *)
(***************************************************************************)

IsList(s) == s \in Seq(Range(s))

(* A sequence of members of any set is a list.                             *)
LEMMA ListIn == ASSUME NEW S, NEW s \in Seq(S) PROVE IsList(s)
BY SeqOfRange DEF IsList

(* The length and the domain of a list.                                    *)
LEMMA ListFacts ==
    ASSUME NEW s, IsList(s)
    PROVE  Len(s) \in Nat /\ DOMAIN s = 1..Len(s) /\ (s # <<>> => Len(s) > 0)
BY LenProperties, EmptySeq DEF IsList

(* The empty sequence.                                                     *)
LEMMA EmptyList == IsList(<<>>) /\ Len(<<>>) = 0 /\ DOMAIN <<>> = {}
<1>1. <<>> \in Seq(Nat) /\ Len(<<>>) = 0
  BY EmptySeq
<1>2. IsList(<<>>)
  BY <1>1, ListIn
<1>3. DOMAIN <<>> = 1..0
  BY <1>1, <1>2, ListFacts
<1> QED  BY <1>1, <1>2, <1>3

(* Every sequence is a prefix of itself.                                   *)
LEMMA WholePrefix == ASSUME NEW s PROVE IsPrefix(s, s)
<1>1. Len(s) <= Len(s)
  OBVIOUS
<1> QED  BY <1>1 DEF IsPrefix

(* One sequence put after another, which stays a prefix.                   *)
LEMMA ConcatList ==
    ASSUME NEW s, NEW t, IsList(s), IsList(t)
    PROVE  /\ IsList(s \o t) /\ Len(s \o t) = Len(s) + Len(t)
           /\ \A i \in 1..Len(s) : (s \o t)[i] = s[i]
           /\ \A i \in DOMAIN (s \o t) :
                 \/ i \in DOMAIN s /\ (s \o t)[i] = s[i]
                 \/ \E j \in DOMAIN t : (s \o t)[i] = t[j]
           /\ IsPrefix(s, s \o t)
<1> DEFINE S == Range(s) \cup Range(t)
           c == s \o t
<1>1. s \in Seq(S) /\ t \in Seq(S)
  BY SeqMonotonic, Zenon DEF IsList
<1>2. /\ c \in Seq(S)
      /\ Len(c) = Len(s) + Len(t)
      /\ \A i \in 1..(Len(s) + Len(t)) : c[i] = IF i <= Len(s) THEN s[i] ELSE t[i - Len(s)]
  BY <1>1, ConcatProperties
<1>3. Len(s) \in Nat /\ Len(t) \in Nat /\ DOMAIN s = 1..Len(s) /\ DOMAIN t = 1..Len(t)
  BY ListFacts
<1>4. IsList(c)
  BY <1>2, ListIn
<1>5. DOMAIN c = 1..(Len(s) + Len(t))
  BY <1>2, <1>4, ListFacts
<1>6. \A i \in 1..Len(s) : c[i] = s[i]
  BY <1>2, <1>3
<1>7. \A i \in DOMAIN c :
         (i \in DOMAIN s /\ c[i] = s[i]) \/ \E j \in DOMAIN t : c[i] = t[j]
  <2> TAKE i \in DOMAIN c
  <2>1. CASE i <= Len(s)
    BY <2>1, <1>3, <1>5, <1>6
  <2>2. CASE ~(i <= Len(s))
    <3>1. i - Len(s) \in DOMAIN t /\ c[i] = t[i - Len(s)]
      BY <2>2, <1>2, <1>3, <1>5
    <3> QED  BY <3>1
  <2> QED  BY <2>1, <2>2
<1>8. IsPrefix(s, c)
  <2>1. Len(s) <= Len(c)
    BY <1>2, <1>3
  <2>2. \A i \in 1..Len(s) : s[i] \in S /\ c[i] \in S
    BY <1>1, <1>6, ElementOfSeq
  <2>3. /\ SubSeq(s, 1, Len(s)) \in Seq(S) /\ SubSeq(c, 1, Len(s)) \in Seq(S)
        /\ Len(SubSeq(s, 1, Len(s))) = Len(s) /\ Len(SubSeq(c, 1, Len(s))) = Len(s)
        /\ \A i \in 1..Len(s) : SubSeq(s, 1, Len(s))[i] = s[i] /\ SubSeq(c, 1, Len(s))[i] = c[i]
    BY <2>2, <1>3, SMT
  <2>4. SubSeq(s, 1, Len(s)) = SubSeq(c, 1, Len(s))
    BY <2>3, <1>6, SeqEqual
  <2> QED  BY <2>1, <2>4 DEF IsPrefix
<1> QED  BY <1>2, <1>4, <1>6, <1>7, <1>8

(* An element put after a sequence, which stays a prefix.                  *)
LEMMA AppendList ==
    ASSUME NEW s, NEW x, IsList(s)
    PROVE  /\ IsList(Append(s, x)) /\ Len(Append(s, x)) = Len(s) + 1
           /\ DOMAIN Append(s, x) = 1..(Len(s) + 1)
           /\ \A i \in 1..Len(s) : Append(s, x)[i] = s[i]
           /\ Append(s, x)[Len(s) + 1] = x
           /\ \A i \in DOMAIN Append(s, x) :
                 (i \in DOMAIN s /\ Append(s, x)[i] = s[i]) \/ Append(s, x)[i] = x
           /\ Append(s, x) # <<>>
           /\ Head(Append(s, x)) = IF s = <<>> THEN x ELSE Head(s)
           /\ IsPrefix(s, Append(s, x))
<1> DEFINE S == Range(s) \cup {x}
           c == Append(s, x)
<1>1. s \in Seq(S) /\ x \in S
  BY SeqMonotonic, Zenon DEF IsList
<1>2. /\ c \in Seq(S) /\ c # <<>> /\ Len(c) = Len(s) + 1
      /\ \A i \in 1..Len(s) : c[i] = s[i]
      /\ c[Len(s) + 1] = x
  BY <1>1, AppendProperties
<1>3. IsList(c)
  BY <1>2, ListIn
<1>4. DOMAIN c = 1..(Len(s) + 1)
  BY <1>2, <1>3, ListFacts
<1>5. Head(c) = IF s = <<>> THEN x ELSE Head(s)
  BY <1>1, HeadTailAppend
<1>6. c = s \o <<x>>
  BY <1>1, AppendIsConcat
<1>7. <<x>> \in Seq({x})
  OBVIOUS
<1>8. IsPrefix(s, c)
  BY <1>6, <1>7, ListIn, ConcatList
<1>9. \A i \in DOMAIN c : (i \in DOMAIN s /\ c[i] = s[i]) \/ c[i] = x
  <2>1. Len(s) \in Nat /\ DOMAIN s = 1..Len(s)
    BY ListFacts
  <2>2. \A i \in 1..(Len(s) + 1) : i \in 1..Len(s) \/ i = Len(s) + 1
    BY <2>1
  <2> QED  BY <1>2, <1>4, <2>1, <2>2
<1> QED  BY <1>2, <1>3, <1>4, <1>5, <1>8, <1>9

(* What is left of a sequence once its first element is gone.              *)
LEMMA TailList ==
    ASSUME NEW s, IsList(s), s # <<>>
    PROVE  /\ IsList(Tail(s)) /\ Len(Tail(s)) = Len(s) - 1
           /\ \A i \in DOMAIN Tail(s) : i + 1 \in DOMAIN s /\ Tail(s)[i] = s[i + 1]
           /\ 1 \in DOMAIN s /\ Head(s) = s[1]
<1>1. s \in Seq(Range(s))
  BY DEF IsList
<1>2. /\ Tail(s) \in Seq(Range(s)) /\ Len(Tail(s)) = Len(s) - 1
      /\ \A i \in 1..Len(Tail(s)) : Tail(s)[i] = s[i + 1]
  BY <1>1, HeadTailProperties
<1>3. IsList(Tail(s))
  BY <1>2, ListIn
<1>4. DOMAIN Tail(s) = 1..(Len(s) - 1) /\ DOMAIN s = 1..Len(s) /\ Len(s) \in Nat /\ Len(s) > 0
  BY <1>2, <1>3, ListFacts
<1>5. \A i \in 1..(Len(s) - 1) : i + 1 \in 1..Len(s)
  BY <1>4
<1>6. Head(s) = s[1]
  BY <1>1, <1>4, SMT
<1> QED  BY <1>2, <1>3, <1>4, <1>5, <1>6

(* The images of a sequence's elements.                                    *)
LEMMA ImageList ==
    ASSUME NEW s, IsList(s), NEW t, t = [i \in DOMAIN s |-> t[i]]
    PROVE  IsList(t) /\ DOMAIN t = DOMAIN s
<1>1. Len(s) \in Nat /\ DOMAIN s = 1..Len(s)
  BY ListFacts
<1>2. t \in [1..Len(s) -> Range(t)]
  BY <1>1 DEF Range
<1>3. t \in Seq(Range(t))
  BY <1>1, <1>2, SeqDef
<1> QED  BY <1>1, <1>3 DEF IsList

-----------------------------------------------------------------------------
(***************************************************************************)
(* The inductive invariant.  NumbersHold and ShapesKept are not inductive: *)
(* of what is waiting they must know that it is there in order, that what  *)
(* has been mapped are signals of the instance that is first, and that an  *)
(* instance's own module is as sound as the one it is merged into.         *)
(***************************************************************************)

ExprOK(e, S) ==
    e = [op |-> e.op, operands |-> e.operands] /\ ExprWithin(e, Len(S)) /\ ReadsScalars(e, S)
AssignOK(a, S) == a.target \in 1..Len(S) /\ ExprOK(a.value, S)
BodyOK(body, S) == \A i \in DOMAIN body : AssignOK(body[i], S)
ClockedOK(p, S) == p.clock \in 1..Len(S) /\ BodyOK(p.body, S)
DriveOK(a, S) == AssignOK(a, S) /\ IsScalar(S[a.target])

PortOK(s) == s.direction # "none" => IsScalar(s)

ModuleFields == {"signals", "clocked_processes", "comb_processes", "assigns"}
ModuleOK(m) ==
    /\ m = [x \in ModuleFields |-> m[x]]
    /\ IsList(m.signals) /\ IsList(m.clocked_processes)
    /\ IsList(m.comb_processes) /\ IsList(m.assigns)
    /\ \A i \in DOMAIN m.signals : PortOK(m.signals[i])
    /\ \A i \in DOMAIN m.clocked_processes : ClockedOK(m.clocked_processes[i], m.signals)
    /\ \A i \in DOMAIN m.comb_processes : BodyOK(m.comb_processes[i].body, m.signals)
    /\ \A i \in DOMAIN m.assigns : DriveOK(m.assigns[i], m.signals)

PendingOK(p, S) ==
    /\ ModuleOK(p.child)
    /\ \A c \in DOMAIN p.connections : ExprOK(p.connections[c], S)

(* What has been mapped are the first signals of the first instance.       *)
MappedOK(f) ==
    IF f.pending = <<>> THEN f.remap = <<>>
    ELSE /\ Len(f.remap) <= Len(Head(f.pending).child.signals)
         /\ \A i \in DOMAIN f.remap :
               SameShape(f.module.signals[f.remap[i]], Head(f.pending).child.signals[i])

(* A module that is done has been checked since the last instance was      *)
(* merged into it.                                                         *)
DoneOK(f) == f.phase = "Done" => f.pending = <<>> /\ SingleDriver(f.module)

FrameFields ==
    {"name", "overrides", "phase", "at", "parameters", "excluded", "generate_ifs", "module",
     "pending", "remap", "port_assigns"}
FrameOK(f) ==
    /\ f = [x \in FrameFields |-> f[x]]
    /\ ModuleOK(f.module)
    /\ IsList(f.pending) /\ IsList(f.remap) /\ IsList(f.port_assigns)
    /\ \A i \in DOMAIN f.pending : PendingOK(f.pending[i], f.module.signals)
    /\ \A i \in DOMAIN f.remap : f.remap[i] \in 1..Len(f.module.signals)
    /\ \A i \in DOMAIN f.port_assigns : DriveOK(f.port_assigns[i], f.module.signals)
    /\ MappedOK(f)
    /\ DoneOK(f)

(* The modules under the one on top are at one of their instances.         *)
FramesOK ==
    /\ IsList(stack)
    /\ \A k \in DOMAIN stack : FrameOK(stack[k])
    /\ \A k \in DOMAIN stack : k # Len(stack) => stack[k].phase = "Instances"

(* What a step may do to a module that is being lowered.                   *)
Grows(f, g) ==
    /\ IsPrefix(f.module.signals, g.module.signals)
    /\ IsPrefix(f.module.clocked_processes, g.module.clocked_processes)
    /\ IsPrefix(f.module.comb_processes, g.module.comb_processes)
    /\ IsPrefix(f.module.assigns, g.module.assigns)
    /\ IsPrefix(f.pending, g.pending) \/ g.pending = Tail(f.pending)

(* A step that goes on with the module on top.                             *)
Advances == \E g : FrameOK(g) /\ Grows(Frame, g) /\ Become(g)

-----
(***************************************************************************)
(* What is right of some signals is right when there are more.             *)
(***************************************************************************)

(* What refers to signals refers to the same ones when more come after.    *)
LEMMA MoreSignals ==
    ASSUME NEW S, NEW T, Len(S) \in Nat, Len(T) \in Nat, Len(S) <= Len(T),
           \A i \in 1..Len(S) : T[i] = S[i]
    PROVE  /\ \A e : ExprOK(e, S) => ExprOK(e, T)
           /\ \A a : AssignOK(a, S) => AssignOK(a, T)
           /\ \A a : DriveOK(a, S) => DriveOK(a, T)
           /\ \A b : BodyOK(b, S) => BodyOK(b, T)
           /\ \A p : ClockedOK(p, S) => ClockedOK(p, T)
           /\ \A p : PendingOK(p, S) => PendingOK(p, T)
<1>1. \A i : i \in 1..Len(S) => i \in 1..Len(T)
  OBVIOUS
<1>2. ASSUME NEW e, ExprOK(e, S) PROVE ExprOK(e, T)
  <2>1. ExprWithin(e, Len(S)) /\ ReadsScalars(e, S)
    BY <1>2 DEF ExprOK
  <2>2. ExprWithin(e, Len(T))
    BY <1>1, <2>1, Zenon DEF ExprWithin
  <2>3. ASSUME IsWhole(e) PROVE IsScalar(T[e.operands[1][2]])
    <3>1. e.operands[1][2] \in 1..Len(S)
      BY <2>1, <2>3, Zenon DEF IsWhole, ExprWithin
    <3> QED  BY <2>1, <2>3, <3>1, Zenon DEF ReadsScalars
  <2> QED  BY <1>2, <2>2, <2>3, Zenon DEF ExprOK, ReadsScalars
<1>3. \A a : AssignOK(a, S) => AssignOK(a, T)
  BY <1>1, <1>2, Zenon DEF AssignOK
<1>4. ASSUME NEW a, DriveOK(a, S) PROVE DriveOK(a, T)
  <2>1. AssignOK(a, S) /\ IsScalar(S[a.target]) /\ a.target \in 1..Len(S)
    BY <1>4, Zenon DEF DriveOK, AssignOK
  <2>2. IsScalar(T[a.target])
    BY <2>1, Zenon
  <2> QED  BY <1>3, <2>1, <2>2, Zenon DEF DriveOK
<1>5. \A b : BodyOK(b, S) => BodyOK(b, T)
  BY <1>3, Zenon DEF BodyOK
<1>6. \A p : ClockedOK(p, S) => ClockedOK(p, T)
  BY <1>1, <1>5, Zenon DEF ClockedOK
<1>7. \A p : PendingOK(p, S) => PendingOK(p, T)
  BY <1>2, Zenon DEF PendingOK
<1> QED  BY <1>2, <1>3, <1>4, <1>5, <1>6, <1>7

(* The parts of a module.                                                  *)
LEMMA ModuleParts ==
    ASSUME NEW m, ModuleOK(m)
    PROVE  /\ IsList(m.signals) /\ IsList(m.clocked_processes)
           /\ IsList(m.comb_processes) /\ IsList(m.assigns)
           /\ Len(m.signals) \in Nat /\ DOMAIN m.signals = 1..Len(m.signals)
BY ListFacts DEF ModuleOK

(* One more signal (Module::push_signal) keeps a module sound and the      *)
(* others where they were.                                                 *)
LEMMA PushedModule ==
    ASSUME NEW m, NEW s, ModuleOK(m), PortOK(s)
    PROVE  /\ ModuleOK(Pushed(m, s))
           /\ Len(Pushed(m, s).signals) = Len(m.signals) + 1
           /\ \A i \in DOMAIN m.signals : Pushed(m, s).signals[i] = m.signals[i]
           /\ Pushed(m, s).signals[Len(m.signals) + 1] = s
           /\ IsPrefix(m.signals, Pushed(m, s).signals)
           /\ Pushed(m, s).clocked_processes = m.clocked_processes
           /\ Pushed(m, s).comb_processes = m.comb_processes
           /\ Pushed(m, s).assigns = m.assigns
<1> DEFINE p == Pushed(m, s)
           n == Len(m.signals)
<1>1. m = [x \in ModuleFields |-> m[x]] /\ n \in Nat /\ DOMAIN m.signals = 1..n
  BY ModuleParts DEF ModuleOK
<1>2. /\ p = [x \in ModuleFields |-> p[x]]
      /\ p.signals = Append(m.signals, s)
      /\ p.clocked_processes = m.clocked_processes
      /\ p.comb_processes = m.comb_processes
      /\ p.assigns = m.assigns
  BY <1>1 DEF Pushed, ModuleFields
<1>3. /\ IsList(p.signals) /\ Len(p.signals) = n + 1
      /\ \A i \in 1..n : p.signals[i] = m.signals[i]
      /\ p.signals[n + 1] = s
      /\ IsPrefix(m.signals, p.signals)
  <2>1. IsList(m.signals)
    BY ModuleParts
  <2>2. /\ IsList(Append(m.signals, s)) /\ Len(Append(m.signals, s)) = Len(m.signals) + 1
        /\ \A i \in 1..Len(m.signals) : Append(m.signals, s)[i] = m.signals[i]
        /\ Append(m.signals, s)[Len(m.signals) + 1] = s
        /\ IsPrefix(m.signals, Append(m.signals, s))
    BY <2>1, AppendList
  <2> QED  BY <2>2, <1>2
<1>4. /\ \A b : BodyOK(b, m.signals) => BodyOK(b, p.signals)
      /\ \A q : ClockedOK(q, m.signals) => ClockedOK(q, p.signals)
      /\ \A a : DriveOK(a, m.signals) => DriveOK(a, p.signals)
  <2>1. n + 1 \in Nat /\ n <= n + 1
    BY <1>1
  <2> HIDE DEF p
  <2> QED  BY <1>1, <1>3, <2>1, MoreSignals
<1>5. ModuleOK(p)
  <2>1. /\ \A i \in DOMAIN p.clocked_processes : ClockedOK(p.clocked_processes[i], p.signals)
        /\ \A i \in DOMAIN p.comb_processes : BodyOK(p.comb_processes[i].body, p.signals)
        /\ \A i \in DOMAIN p.assigns : DriveOK(p.assigns[i], p.signals)
    BY <1>2, <1>4 DEF ModuleOK
  <2>2. IsList(p.clocked_processes) /\ IsList(p.comb_processes) /\ IsList(p.assigns)
    BY <1>2, ModuleParts
  <2>3. \A i \in DOMAIN p.signals : PortOK(p.signals[i])
    <3>1. DOMAIN p.signals = 1..(n + 1)
      BY <1>3, ListFacts
    <3>2. \A i \in 1..(n + 1) : i \in 1..n \/ i = n + 1
      BY <1>1
    <3> QED  BY <1>1, <1>3, <3>1, <3>2 DEF ModuleOK
  <2> HIDE DEF p
  <2> QED  BY <1>2, <1>3, <2>1, <2>2, <2>3 DEF ModuleOK
<1> QED  BY <1>1, <1>2, <1>3, <1>5

(* A frame of which no more than its place in the walk changes.            *)
LEMMA FrameMoves ==
    ASSUME NEW f, NEW g, FrameOK(f), g = [x \in FrameFields |-> g[x]],
           g.module = f.module, g.pending = f.pending, g.remap = f.remap,
           g.port_assigns = f.port_assigns, g.phase # "Done"
    PROVE  FrameOK(g) /\ Grows(f, g)
<1>1. FrameOK(g)
  BY DEF FrameOK, MappedOK, DoneOK
<1>2. Grows(f, g)
  BY WholePrefix DEF Grows
<1> QED  BY <1>1, <1>2

(* A frame whose module becomes another, with the same signals or more.    *)
LEMMA FrameGrows ==
    ASSUME NEW f, NEW g, FrameOK(f), g = [x \in FrameFields |-> g[x]],
           ModuleOK(g.module), g.pending = f.pending, g.remap = f.remap,
           g.port_assigns = f.port_assigns, g.phase # "Done",
           IsPrefix(f.module.signals, g.module.signals),
           IsPrefix(f.module.clocked_processes, g.module.clocked_processes),
           IsPrefix(f.module.comb_processes, g.module.comb_processes),
           IsPrefix(f.module.assigns, g.module.assigns),
           Len(f.module.signals) <= Len(g.module.signals),
           \A i \in DOMAIN f.module.signals : g.module.signals[i] = f.module.signals[i]
    PROVE  FrameOK(g) /\ Grows(f, g)
<1> DEFINE S == f.module.signals
           T == g.module.signals
           m == Len(S)
           n == Len(T)
<1>1. m \in Nat /\ n \in Nat /\ m <= n /\ DOMAIN S = 1..m /\ \A i \in 1..m : i \in 1..n /\ T[i] = S[i]
  BY ModuleParts DEF FrameOK
<1>2. /\ \A a : DriveOK(a, S) => DriveOK(a, T)
      /\ \A p : PendingOK(p, S) => PendingOK(p, T)
  <2> HIDE DEF S, T
  <2> QED  BY <1>1, MoreSignals
<1>3. /\ \A i \in DOMAIN g.pending : PendingOK(g.pending[i], g.module.signals)
      /\ \A i \in DOMAIN g.port_assigns : DriveOK(g.port_assigns[i], g.module.signals)
  BY <1>2 DEF FrameOK
<1>4. \A i \in DOMAIN g.remap : g.remap[i] \in 1..m
  BY DEF FrameOK
<1>5. \A i \in DOMAIN g.remap : g.remap[i] \in 1..n
  BY <1>1, <1>4
<1>6. MappedOK(g)
  <2>1. \A i \in DOMAIN g.remap : g.module.signals[g.remap[i]] = f.module.signals[f.remap[i]]
    BY <1>1, <1>4
  <2>2. MappedOK(f)
    BY DEF FrameOK
  <2> QED  BY <2>1, <2>2 DEF MappedOK
<1>7. IsList(g.pending) /\ IsList(g.remap) /\ IsList(g.port_assigns)
  BY DEF FrameOK
<1>8. FrameOK(g)
  BY <1>3, <1>5, <1>6, <1>7 DEF FrameOK, DoneOK
<1>9. Grows(f, g)
  BY WholePrefix DEF Grows
<1> QED  BY <1>8, <1>9

-----------------------------------------------------------------------------
(***************************************************************************)
(* What is lowered in a module refers to that module's signals.            *)
(***************************************************************************)

(* A sequence that is picked has each element from the set in its place.   *)
LEMMA PicksFacts ==
    ASSUME NEW sets, NEW s \in Picks(sets)
    PROVE  DOMAIN s = DOMAIN sets /\ \A i \in DOMAIN sets : s[i] \in sets[i]
BY DEF Picks

(* A name that is found is a signal of the module it is looked up in.      *)
LEMMA SignalIdFacts ==
    ASSUME NEW m, NEW name, ModuleOK(m), NEW i \in SignalId(m, name)
    PROVE  i \in 1..Len(m.signals) /\ m.signals[i].name = <<name>>
BY ModuleParts DEF SignalId

(* A lowered expression refers to signals of its own module.               *)
LEMMA LoweredFacts ==
    ASSUME NEW e, NEW f, ModuleOK(f.module), NEW x \in Lowered(e, f)
    PROVE  ExprOK(x, f.module.signals)
<1> DEFINE n == Len(f.module.signals)
           places == [i \in DOMAIN e.names |-> Operand(e.names[i], f)]
<1>1. PICK o \in Picks(places) : x = [op |-> e.op, operands |-> o]
  BY DEF Lowered
<1>2. \A i \in DOMAIN o : o[i] \in Operand(e.names[i], f)
  BY PicksFacts
<1>3. \A name : \A r \in Operand(name, f) : r[1] = "Ref" => r[2] \in 1..n
  <2> SUFFICES ASSUME NEW name, NEW r \in Operand(name, f), r[1] = "Ref"
               PROVE  r[2] \in 1..n
    OBVIOUS
  <2>1. CASE SignalId(f.module, name) # {}
    <3>1. PICK i \in SignalId(f.module, name) : r = <<"Ref", i>>
      BY <2>1 DEF Operand
    <3> QED  BY <3>1, SignalIdFacts
  <2>2. CASE SignalId(f.module, name) = {}
    <3>1. PICK v : r = <<"Literal", v>>
      BY <2>2 DEF Operand
    <3> QED  BY <3>1
  <2> QED  BY <2>1, <2>2
<1>4. x = [op |-> x.op, operands |-> x.operands] /\ x.operands = o /\ x.op = e.op
  BY <1>1
<1>5. ASSUME IsWhole(x) PROVE IsScalar(f.module.signals[o[1][2]])
  <2>1. e.op = "Name" /\ 1 \in DOMAIN o /\ o[1][1] = "Ref"
    BY <1>4, <1>5 DEF IsWhole
  <2>2. o[1] \in Operand(e.names[1], f)
    BY <1>2, <2>1
  <2>3. SignalId(f.module, e.names[1]) # {}
    BY <2>1, <2>2 DEF Operand
  <2>4. PICK i \in SignalId(f.module, e.names[1]) : o[1] = <<"Ref", i>>
    BY <2>2, <2>3 DEF Operand
  <2>5. ~IsArrayName(e, f.module)
    BY DEF Lowered
  <2> QED  BY <2>1, <2>4, <2>5 DEF IsArrayName, IsScalar
<1>6. ExprWithin(x, n)
  BY <1>2, <1>3, <1>4 DEF ExprWithin
<1> QED  BY <1>4, <1>5, <1>6 DEF ExprOK, ReadsScalars

(* And so does a lowered assignment.                                       *)
LEMMA LoweredAssignFacts ==
    ASSUME NEW target, NEW e, NEW f, ModuleOK(f.module), NEW a \in LoweredAssign(target, e, f)
    PROVE  AssignOK(a, f.module.signals)
<1>1. PICK t \in SignalId(f.module, target), v \in Lowered(e, f) : a = [target |-> t, value |-> v]
  BY DEF LoweredAssign
<1> QED  BY <1>1, SignalIdFacts, LoweredFacts DEF AssignOK

(* And so does the body of a process.                                      *)
LEMMA LoweredBodyFacts ==
    ASSUME NEW body, NEW f, ModuleOK(f.module), NEW b \in LoweredBody(body, f)
    PROVE  BodyOK(b, f.module.signals)
<1>1. \A i \in DOMAIN b : b[i] \in LoweredAssign(body[i].target, body[i].value, f)
  BY PicksFacts DEF LoweredBody
<1> QED  BY <1>1, LoweredAssignFacts DEF BodyOK

-----------------------------------------------------------------------------
(***************************************************************************)
(* Each action either rejects the file or goes on with the module on top,  *)
(* and what it makes of that module is sound.                              *)
(***************************************************************************)

(* The module on top is sound.                                             *)
LEMMA TopFrame ==
    ASSUME FramesOK, stack # <<>>
    PROVE  FrameOK(Frame) /\ Len(stack) \in Nat /\ Len(stack) \in DOMAIN stack
<1>1. Len(stack) \in Nat /\ DOMAIN stack = 1..Len(stack) /\ Len(stack) > 0
  BY ListFacts DEF FramesOK
<1> QED  BY <1>1 DEF FramesOK, Frame

(* So is the one whose items are walked over.                              *)
LEMMA VisitedFrame ==
    ASSUME FramesOK, NEW phase, NEW p \in Visits(phase)
    PROVE  /\ FrameOK(Frame) /\ ModuleOK(Frame.module) /\ Frame = [x \in FrameFields |-> Frame[x]]
           /\ Frame.phase = phase
<1>1. stack # <<>> /\ Frame.phase = phase
  BY DEF Visits, In
<1> QED  BY <1>1, TopFrame DEF FrameOK

(* A step goes on when every result it may have is sound and only adds.    *)
LEMMA Continues ==
    ASSUME NEW results, Continue(results), \A g \in results : FrameOK(g) /\ Grows(Frame, g)
    PROVE  Reject \/ Advances
BY DEF Continue, Advances

(* Resolving a parameter leaves the module as it was.                      *)
LEMMA ResolveParameterStep == FramesOK /\ ResolveParameter => Reject \/ Advances
<1> SUFFICES ASSUME FramesOK, ResolveParameter PROVE Reject \/ Advances
  OBVIOUS
<1>1. PICK p \in Visits("Parameters") : Continue(WithParameter(p))
  BY DEF ResolveParameter
<1>2. FrameOK(Frame) /\ Frame = [x \in FrameFields |-> Frame[x]] /\ Frame.phase # "Done"
  BY VisitedFrame
<1>3. ASSUME NEW g \in WithParameter(p) PROVE FrameOK(g) /\ Grows(Frame, g)
  <2>1. /\ g = [x \in FrameFields |-> g[x]] /\ g.module = Frame.module /\ g.pending = Frame.pending
        /\ g.remap = Frame.remap /\ g.port_assigns = Frame.port_assigns /\ g.phase # "Done"
    BY <1>2 DEF WithParameter, FrameFields
  <2> QED  BY <1>2, <2>1, FrameMoves
<1> QED  BY <1>1, <1>3, Continues

(* So does leaving out the branch that is not selected.                    *)
LEMMA SelectBranchStep == FramesOK /\ SelectBranch => Reject \/ Advances
<1> SUFFICES ASSUME FramesOK, SelectBranch PROVE Reject \/ Advances
  OBVIOUS
<1>1. PICK p \in Visits("Generates") : Continue(WithoutBranch(p))
  BY DEF SelectBranch
<1>2. FrameOK(Frame) /\ Frame = [x \in FrameFields |-> Frame[x]] /\ Frame.phase # "Done"
  BY VisitedFrame
<1>3. ASSUME NEW g \in WithoutBranch(p) PROVE FrameOK(g) /\ Grows(Frame, g)
  <2>1. /\ g = [x \in FrameFields |-> g[x]] /\ g.module = Frame.module /\ g.pending = Frame.pending
        /\ g.remap = Frame.remap /\ g.port_assigns = Frame.port_assigns /\ g.phase # "Done"
    BY <1>2 DEF WithoutBranch, FrameFields
  <2> QED  BY <1>2, <2>1, FrameMoves
<1> QED  BY <1>1, <1>3, Continues

(* And so does going on to the next walk.                                  *)
LEMMA FinishWalkStep == FramesOK /\ FinishWalk => Reject \/ Advances
<1> SUFFICES ASSUME FramesOK, FinishWalk PROVE Reject \/ Advances
  OBVIOUS
<1> DEFINE Moved == [Frame EXCEPT !.phase = NextPhase[@], !.at = 1]
<1>1. /\ stack # <<>> /\ Continue(IF WalkAccepts(Frame) THEN {Moved} ELSE {})
      /\ Frame.phase \in Walks
  BY DEF FinishWalk
<1>2. FrameOK(Frame) /\ Frame = [x \in FrameFields |-> Frame[x]]
  BY <1>1, TopFrame DEF FrameOK
<1>3. FrameOK(Moved) /\ Grows(Frame, Moved)
  <2>1. /\ Moved = [x \in FrameFields |-> Moved[x]] /\ Moved.module = Frame.module
        /\ Moved.pending = Frame.pending /\ Moved.remap = Frame.remap
        /\ Moved.port_assigns = Frame.port_assigns /\ Moved.phase = NextPhase[Frame.phase]
    BY <1>2 DEF FrameFields
  <2>2. NextPhase[Frame.phase] # "Done"
    BY <1>1 DEF NextPhase, Walks
  <2> QED  BY <1>2, <2>1, <2>2, FrameMoves
<1> QED  BY <1>1, <1>3, Continues

(* A declaration adds one signal, or none.                                 *)
LEMMA DeclareStep == FramesOK /\ Declare => Reject \/ Advances
<1> SUFFICES ASSUME FramesOK, Declare PROVE Reject \/ Advances
  OBVIOUS
<1>1. PICK p \in Visits("Declarations") : Continue(WithSignal(p))
  BY DEF Declare
<1>2. /\ FrameOK(Frame) /\ ModuleOK(Frame.module) /\ Frame = [x \in FrameFields |-> Frame[x]]
      /\ Frame.phase # "Done"
  BY VisitedFrame
<1>3. ASSUME NEW g \in WithSignal(p) PROVE FrameOK(g) /\ Grows(Frame, g)
  <2>1. /\ g = [x \in FrameFields |-> g[x]] /\ g.pending = Frame.pending
        /\ g.remap = Frame.remap /\ g.port_assigns = Frame.port_assigns /\ g.phase # "Done"
        /\ g.module = Frame.module \/ \E s : PortOK(s) /\ g.module = Pushed(Frame.module, s)
    <3> DEFINE d == Items(Frame)[p]
               rejected == \/ d.type # "net" /\ d.value # {}
                           \/ d.type = "integer" /\ d.elements # Nothing
                           \/ d.direction # "none" /\ d.elements # Nothing
               with(s) == [Frame EXCEPT !.at = p + 1,
                              !.module = IF d.type = "integer" THEN @ ELSE Pushed(@, s)]
    <3>1. PICK s \in DeclaredSignal(d, Frame) : ~rejected /\ g = with(s)
      BY DEF WithSignal
    <3>2. PortOK(s)
      BY <3>1 DEF DeclaredSignal, PortOK, IsScalar
    <3>3. /\ g = [x \in FrameFields |-> g[x]] /\ g.pending = Frame.pending
          /\ g.remap = Frame.remap /\ g.port_assigns = Frame.port_assigns /\ g.phase = Frame.phase
          /\ g.module = IF d.type = "integer" THEN Frame.module ELSE Pushed(Frame.module, s)
      BY <1>2, <3>1 DEF FrameFields
    <3> QED  BY <1>2, <3>2, <3>3
  <2>2. CASE g.module = Frame.module
    BY <1>2, <2>1, <2>2, FrameMoves
  <2>3. ASSUME NEW s, PortOK(s), g.module = Pushed(Frame.module, s)
        PROVE  FrameOK(g) /\ Grows(Frame, g)
    <3>1. /\ ModuleOK(g.module)
          /\ Len(Frame.module.signals) \in Nat
          /\ Len(g.module.signals) = Len(Frame.module.signals) + 1
          /\ \A i \in DOMAIN Frame.module.signals :
                g.module.signals[i] = Frame.module.signals[i]
          /\ IsPrefix(Frame.module.signals, g.module.signals)
          /\ g.module.clocked_processes = Frame.module.clocked_processes
          /\ g.module.comb_processes = Frame.module.comb_processes
          /\ g.module.assigns = Frame.module.assigns
      BY <1>2, <2>3, PushedModule, ModuleParts
    <3>2. Len(Frame.module.signals) <= Len(g.module.signals)
      BY <3>1
    <3> QED  BY <1>2, <2>1, <3>1, <3>2, WholePrefix, FrameGrows
  <2> QED  BY <2>1, <2>2, <2>3
<1> QED  BY <1>1, <1>3, Continues

(* A module that is given more processes or assignments.                   *)
LEMMA ExtendedModule ==
    ASSUME NEW f, NEW g, NEW m, NEW n, FrameOK(f), g = [x \in FrameFields |-> g[x]],
           m = f.module, n = g.module, ModuleOK(n), n.signals = m.signals,
           IsPrefix(m.clocked_processes, n.clocked_processes),
           IsPrefix(m.comb_processes, n.comb_processes), IsPrefix(m.assigns, n.assigns),
           g.pending = f.pending, g.remap = f.remap, g.port_assigns = f.port_assigns,
           g.phase # "Done"
    PROVE  FrameOK(g) /\ Grows(f, g)
<1>1. Len(m.signals) \in Nat
  BY ModuleParts DEF FrameOK
<1>2. Len(m.signals) <= Len(n.signals)
  BY <1>1
<1> QED  BY <1>2, WholePrefix, FrameGrows

(* A process put after the others refers to signals of the module.         *)
LEMMA AddedProcess ==
    ASSUME NEW d, NEW f, ModuleOK(f.module), NEW m \in WithProcess(d, f)
    PROVE  /\ ModuleOK(m) /\ m.signals = f.module.signals
           /\ IsPrefix(f.module.clocked_processes, m.clocked_processes)
           /\ IsPrefix(f.module.comb_processes, m.comb_processes)
           /\ IsPrefix(f.module.assigns, m.assigns)
<1> DEFINE o == f.module
<1>1. o = [x \in ModuleFields |-> o[x]]
  BY DEF ModuleOK
<1>2. IsList(o.clocked_processes) /\ IsList(o.comb_processes)
  BY ModuleParts
<1>3. CASE d.events = Nothing
  <2>1. PICK b \in LoweredBody(d.body, f) :
            m = [o EXCEPT !.comb_processes = Append(@, [body |-> b])]
    <3>1. WithProcess(d, f) =
              {[f.module EXCEPT !.comb_processes = Append(@, [body |-> b])] :
                  b \in {x \in LoweredBody(d.body, f) : \A i \in DOMAIN d.body : d.body[i].blocking}}
      BY <1>3 DEF WithProcess
    <3> QED  BY <3>1
  <2> DEFINE P == [body |-> b]
  <2>2. /\ m = [x \in ModuleFields |-> m[x]] /\ m.signals = o.signals
        /\ m.clocked_processes = o.clocked_processes /\ m.assigns = o.assigns
        /\ m.comb_processes = Append(o.comb_processes, P)
    BY <1>1, <2>1 DEF ModuleFields
  <2>3. BodyOK(P.body, o.signals)
    BY LoweredBodyFacts
  <2>4. /\ IsList(Append(o.comb_processes, P)) /\ IsPrefix(o.comb_processes, Append(o.comb_processes, P))
        /\ \A i \in DOMAIN Append(o.comb_processes, P) :
              \/ i \in DOMAIN o.comb_processes /\ Append(o.comb_processes, P)[i] = o.comb_processes[i]
              \/ Append(o.comb_processes, P)[i] = P
    BY <1>2, AppendList
  <2>5. \A i \in DOMAIN o.comb_processes : BodyOK(o.comb_processes[i].body, o.signals)
    BY DEF ModuleOK
  <2> HIDE DEF P
  <2>6. \A i \in DOMAIN m.comb_processes : BodyOK(m.comb_processes[i].body, m.signals)
    BY <2>2, <2>3, <2>4, <2>5
  <2>7. ModuleOK(m)
    BY <2>2, <2>4, <2>6 DEF ModuleOK
  <2> QED  BY <2>2, <2>4, <2>7, WholePrefix
<1>4. CASE d.events # Nothing
  <2>1. PICK c \in SignalId(o, d.events[1].signal), b \in LoweredBody(d.body, f) :
            m = [o EXCEPT !.clocked_processes = Append(@, [clock |-> c, body |-> b])]
    <3> DEFINE With(c, b) == [o EXCEPT !.clocked_processes = Append(@, [clock |-> c, body |-> b])]
               signals == {s \in SignalId(o, d.events[1].signal) : RisingEdge(d.events)}
    <3>1. WithProcess(d, f) = {With(c, b) : c \in signals, b \in LoweredBody(d.body, f)}
      BY <1>4 DEF WithProcess
    <3>2. signals \subseteq SignalId(o, d.events[1].signal)
      OBVIOUS
    <3> HIDE DEF With, signals
    <3>3. \E c \in SignalId(o, d.events[1].signal), b \in LoweredBody(d.body, f) : m = With(c, b)
      BY <3>1, <3>2
    <3> QED  BY <3>3 DEF With
  <2> DEFINE P == [clock |-> c, body |-> b]
  <2>2. /\ m = [x \in ModuleFields |-> m[x]] /\ m.signals = o.signals
        /\ m.comb_processes = o.comb_processes /\ m.assigns = o.assigns
        /\ m.clocked_processes = Append(o.clocked_processes, P)
    BY <1>1, <2>1 DEF ModuleFields
  <2>3. ClockedOK(P, o.signals)
    BY LoweredBodyFacts, SignalIdFacts DEF ClockedOK
  <2>4. /\ IsList(Append(o.clocked_processes, P))
        /\ IsPrefix(o.clocked_processes, Append(o.clocked_processes, P))
        /\ \A i \in DOMAIN Append(o.clocked_processes, P) :
              \/ /\ i \in DOMAIN o.clocked_processes
                 /\ Append(o.clocked_processes, P)[i] = o.clocked_processes[i]
              \/ Append(o.clocked_processes, P)[i] = P
    BY <1>2, AppendList
  <2>5. \A i \in DOMAIN o.clocked_processes : ClockedOK(o.clocked_processes[i], o.signals)
    BY DEF ModuleOK
  <2> HIDE DEF P
  <2>6. \A i \in DOMAIN m.clocked_processes : ClockedOK(m.clocked_processes[i], m.signals)
    BY <2>2, <2>3, <2>4, <2>5
  <2>7. ModuleOK(m)
    BY <2>2, <2>4, <2>6 DEF ModuleOK
  <2> QED  BY <2>2, <2>4, <2>7, WholePrefix
<1> QED  BY <1>3, <1>4

(* A continuous assignment put after the others.                           *)
LEMMA AddedAssign ==
    ASSUME NEW o, NEW a, ModuleOK(o), DriveOK(a, o.signals),
           NEW m, m = [o EXCEPT !.assigns = Append(@, a)]
    PROVE  /\ ModuleOK(m) /\ m.signals = o.signals
           /\ m.clocked_processes = o.clocked_processes /\ m.comb_processes = o.comb_processes
           /\ IsPrefix(o.assigns, m.assigns)
<1>1. o = [x \in ModuleFields |-> o[x]]
  BY DEF ModuleOK
<1>2. /\ m = [x \in ModuleFields |-> m[x]] /\ m.signals = o.signals
      /\ m.clocked_processes = o.clocked_processes /\ m.comb_processes = o.comb_processes
      /\ m.assigns = Append(o.assigns, a)
  BY <1>1 DEF ModuleFields
<1>3. IsList(o.assigns)
  BY ModuleParts
<1>4. /\ IsList(Append(o.assigns, a)) /\ IsPrefix(o.assigns, Append(o.assigns, a))
      /\ \A i \in DOMAIN Append(o.assigns, a) :
            (i \in DOMAIN o.assigns /\ Append(o.assigns, a)[i] = o.assigns[i]) \/ Append(o.assigns, a)[i] = a
  BY <1>3, AppendList
<1>5. \A i \in DOMAIN o.assigns : DriveOK(o.assigns[i], o.signals)
  BY DEF ModuleOK
<1>6. \A i \in DOMAIN m.assigns : DriveOK(m.assigns[i], m.signals)
  BY <1>2, <1>4, <1>5
<1>7. ModuleOK(m)
  BY <1>2, <1>4, <1>6 DEF ModuleOK
<1> QED  BY <1>2, <1>4, <1>7

(* Lowering an always block adds one process.                              *)
LEMMA LowerAlwaysStep == FramesOK /\ LowerAlways => Reject \/ Advances
<1> SUFFICES ASSUME FramesOK, LowerAlways PROVE Reject \/ Advances
  OBVIOUS
<1> DEFINE With(p, m) == [Frame EXCEPT !.at = p + 1, !.module = m]
<1>1. PICK p \in Visits("Processes") :
          Continue({With(p, m) : m \in WithProcess(Items(Frame)[p], Frame)})
  BY DEF LowerAlways
<1>2. /\ FrameOK(Frame) /\ ModuleOK(Frame.module) /\ Frame = [x \in FrameFields |-> Frame[x]]
      /\ Frame.phase # "Done"
  BY VisitedFrame
<1>3. ASSUME NEW m \in WithProcess(Items(Frame)[p], Frame)
      PROVE  FrameOK(With(p, m)) /\ Grows(Frame, With(p, m))
  <2> DEFINE g == With(p, m)
  <2>1. /\ g = [x \in FrameFields |-> g[x]] /\ g.module = m /\ g.pending = Frame.pending
        /\ g.remap = Frame.remap /\ g.port_assigns = Frame.port_assigns /\ g.phase # "Done"
    BY <1>2 DEF FrameFields
  <2>2. /\ ModuleOK(m) /\ m.signals = Frame.module.signals
        /\ IsPrefix(Frame.module.clocked_processes, m.clocked_processes)
        /\ IsPrefix(Frame.module.comb_processes, m.comb_processes)
        /\ IsPrefix(Frame.module.assigns, m.assigns)
    BY <1>2, AddedProcess
  <2> HIDE DEF g, With
  <2>3. FrameOK(g) /\ Grows(Frame, g)
    BY <1>2, <2>1, <2>2, ExtendedModule
  <2> QED  BY <2>3 DEF g
<1> QED  BY <1>1, <1>3, Continues

(* Lowering a continuous assignment adds one, or passes over a net.        *)
LEMMA LowerAssignStep == FramesOK /\ LowerAssign => Reject \/ Advances
<1> SUFFICES ASSUME FramesOK, LowerAssign PROVE Reject \/ Advances
  OBVIOUS
<1>1. PICK p \in Visits("Assigns") : Continue(WithAssign(p))
  BY DEF LowerAssign
<1>2. /\ FrameOK(Frame) /\ ModuleOK(Frame.module) /\ Frame = [x \in FrameFields |-> Frame[x]]
      /\ Frame.phase # "Done"
  BY VisitedFrame
<1>3. ASSUME NEW g \in WithAssign(p) PROVE FrameOK(g) /\ Grows(Frame, g)
  <2>1. CASE g = [Frame EXCEPT !.at = p + 1]
    <3>1. /\ g = [x \in FrameFields |-> g[x]] /\ g.module = Frame.module /\ g.pending = Frame.pending
          /\ g.remap = Frame.remap /\ g.port_assigns = Frame.port_assigns /\ g.phase # "Done"
      BY <1>2, <2>1 DEF FrameFields
    <3> QED  BY <1>2, <3>1, FrameMoves
  <2>2. ASSUME NEW target, NEW e, NEW a \in LoweredAssign(target, e, Frame),
               IsScalar(Frame.module.signals[a.target]),
               g = [Frame EXCEPT !.at = p + 1, !.module.assigns = Append(@, a)]
        PROVE  FrameOK(g) /\ Grows(Frame, g)
    <3> DEFINE m == [Frame.module EXCEPT !.assigns = Append(@, a)]
    <3>1. /\ g = [x \in FrameFields |-> g[x]] /\ g.module = m /\ g.pending = Frame.pending
          /\ g.remap = Frame.remap /\ g.port_assigns = Frame.port_assigns /\ g.phase # "Done"
      BY <1>2, <2>2 DEF FrameFields
    <3>2. DriveOK(a, Frame.module.signals)
      BY <1>2, <2>2, LoweredAssignFacts DEF DriveOK
    <3>3. /\ ModuleOK(m) /\ m.signals = Frame.module.signals
          /\ m.clocked_processes = Frame.module.clocked_processes
          /\ m.comb_processes = Frame.module.comb_processes
          /\ IsPrefix(Frame.module.assigns, m.assigns)
      <4> DEFINE o == Frame.module
      <4> HIDE DEF o
      <4>1. ModuleOK(o) /\ DriveOK(a, o.signals)
        BY <1>2, <3>2 DEF o
      <4>2. m = [o EXCEPT !.assigns = Append(@, a)]
        BY DEF o
      <4> HIDE DEF m
      <4>3. /\ ModuleOK(m) /\ m.signals = o.signals
            /\ m.clocked_processes = o.clocked_processes
            /\ m.comb_processes = o.comb_processes
            /\ IsPrefix(o.assigns, m.assigns)
        BY <4>1, <4>2, AddedAssign
      <4> QED  BY <4>3 DEF o
    <3> HIDE DEF m
    <3> QED  BY <1>2, <3>1, <3>3, WholePrefix, ExtendedModule
  <2>3. \/ g = [Frame EXCEPT !.at = p + 1]
        \/ \E target, e : \E a \in LoweredAssign(target, e, Frame) :
              /\ IsScalar(Frame.module.signals[a.target])
              /\ g = [Frame EXCEPT !.at = p + 1, !.module.assigns = Append(@, a)]
    <3> DEFINE d == Items(Frame)[p]
               target == IF d.item = "Assign" THEN d.target ELSE d.name
               assigns == {x \in UNION {LoweredAssign(target, e, Frame) : e \in d.value} :
                              Frame.module.signals[x.target].depth = 0}
    <3>1. g \in IF d.value = {} THEN {[Frame EXCEPT !.at = p + 1]}
                ELSE {[Frame EXCEPT !.at = p + 1, !.module.assigns = Append(@, a)] : a \in assigns}
      BY Zenon DEF WithAssign
    <3>2. \A a \in assigns :
             IsScalar(Frame.module.signals[a.target]) /\ \E e : a \in LoweredAssign(target, e, Frame)
      BY DEF IsScalar
    <3> HIDE DEF d, target, assigns
    <3>3. CASE d.value = {}
      BY <3>1, <3>3
    <3>4. CASE d.value # {}
      BY <3>1, <3>2, <3>4
    <3> QED  BY <3>3, <3>4
  <2> QED  BY <2>1, <2>2, <2>3
<1> QED  BY <1>1, <1>3, Continues

-----------------------------------------------------------------------------
(***************************************************************************)
(* Flattening: one signal of the first instance at a time.                 *)
(***************************************************************************)

(* What is known while an instance's signals are mapped.                   *)
LEMMA FlattenedFrame ==
    ASSUME FramesOK, Flattens
    PROVE  /\ stack # <<>> /\ FrameOK(Frame) /\ ModuleOK(Frame.module)
           /\ Frame = [x \in FrameFields |-> Frame[x]]
           /\ Frame.pending # <<>> /\ Frame.pending[1] = Instance
           /\ ModuleOK(Instance.child)
           /\ Len(Instance.child.signals) \in Nat
           /\ DOMAIN Instance.child.signals = 1..Len(Instance.child.signals)
           /\ PendingOK(Instance, Frame.module.signals)
           /\ Len(Frame.module.signals) \in Nat
           /\ DOMAIN Frame.module.signals = 1..Len(Frame.module.signals)
           /\ Len(Frame.remap) \in Nat /\ DOMAIN Frame.remap = 1..Len(Frame.remap)
           /\ PortNo \in 1..Len(Instance.child.signals)
           /\ PortOK(Port) /\ Frame.phase # "Done"
<1>1. /\ stack # <<>> /\ Frame.pending # <<>> /\ Len(Frame.remap) < Len(Instance.child.signals)
      /\ Frame.phase = "Flatten"
  BY DEF Flattens, In
<1>2. FrameOK(Frame)
  BY <1>1, TopFrame
<1>3. Frame = [x \in FrameFields |-> Frame[x]] /\ ModuleOK(Frame.module)
  BY <1>2 DEF FrameOK
<1>4. 1 \in DOMAIN Frame.pending /\ Frame.pending[1] = Instance
  BY <1>1, <1>2, TailList DEF FrameOK, Instance
<1>5. PendingOK(Instance, Frame.module.signals)
  BY <1>2, <1>4 DEF FrameOK
<1>6. ModuleOK(Instance.child)
  BY <1>5 DEF PendingOK
<1>7. /\ Len(Instance.child.signals) \in Nat
      /\ DOMAIN Instance.child.signals = 1..Len(Instance.child.signals)
      /\ Len(Frame.module.signals) \in Nat
      /\ DOMAIN Frame.module.signals = 1..Len(Frame.module.signals)
  BY <1>3, <1>6, ModuleParts
<1>8. Len(Frame.remap) \in Nat /\ DOMAIN Frame.remap = 1..Len(Frame.remap)
  BY <1>2, ListFacts DEF FrameOK
<1>9. PortNo \in 1..Len(Instance.child.signals)
  BY <1>1, <1>7, <1>8 DEF PortNo
<1>10. PortOK(Port)
  BY <1>6, <1>7, <1>9 DEF ModuleOK, Port
<1> QED  BY <1>1, <1>2, <1>3, <1>4, <1>5, <1>6, <1>7, <1>8, <1>9, <1>10

(* The signal at hand becomes one of the same shape, of a module with the  *)
(* same signals or one more.                                               *)
LEMMA MappedStep ==
    ASSUME FramesOK, Flattens, NEW m, NEW id, NEW assigns, Mapped(m, id, assigns),
           m = Frame.module \/ \E s : PortOK(s) /\ m = Pushed(Frame.module, s),
           id \in 1..Len(m.signals), SameShape(m.signals[id], Port),
           IsList(assigns), \A i \in DOMAIN assigns : DriveOK(assigns[i], m.signals)
    PROVE  Advances
<1> DEFINE f == Frame
           child == Instance.child
           g == [f EXCEPT !.module = m, !.remap = Append(@, id), !.port_assigns = @ \o assigns]
<1>1. /\ FrameOK(f) /\ ModuleOK(f.module) /\ f = [x \in FrameFields |-> f[x]]
      /\ f.pending # <<>> /\ Len(f.module.signals) \in Nat
      /\ DOMAIN f.module.signals = 1..Len(f.module.signals)
      /\ Len(f.remap) \in Nat /\ DOMAIN f.remap = 1..Len(f.remap)
      /\ PortNo \in 1..Len(child.signals) /\ f.phase # "Done"
  BY FlattenedFrame
<1>2. /\ ModuleOK(m) /\ Len(m.signals) \in Nat /\ Len(f.module.signals) <= Len(m.signals)
      /\ \A i \in DOMAIN f.module.signals : m.signals[i] = f.module.signals[i]
      /\ IsPrefix(f.module.signals, m.signals)
      /\ m.clocked_processes = f.module.clocked_processes
      /\ m.comb_processes = f.module.comb_processes
      /\ m.assigns = f.module.assigns
  <2>1. CASE m = f.module
    BY <1>1, <2>1, WholePrefix
  <2>2. CASE \E s : PortOK(s) /\ m = Pushed(f.module, s)
    <3>1. PICK s : PortOK(s) /\ m = Pushed(f.module, s)
      BY <2>2
    <3> QED  BY <1>1, <3>1, PushedModule
  <2> QED  BY <2>1, <2>2
<1> DEFINE h == [f EXCEPT !.module = m]
<1>3. /\ h = [x \in FrameFields |-> h[x]] /\ h.module = m /\ h.pending = f.pending
      /\ h.remap = f.remap /\ h.port_assigns = f.port_assigns /\ h.phase # "Done"
  BY <1>1 DEF FrameFields
<1>4. FrameOK(h) /\ Grows(f, h)
  <2> HIDE DEF h, f
  <2> QED  BY <1>1, <1>2, <1>3, WholePrefix, FrameGrows
<1>5. /\ g = [x \in FrameFields |-> g[x]] /\ g.module = m /\ g.pending = f.pending
      /\ g.remap = Append(f.remap, id) /\ g.port_assigns = f.port_assigns \o assigns
      /\ g.phase # "Done"
  BY <1>1 DEF FrameFields
<1>6. IsList(f.remap) /\ IsList(f.port_assigns)
  BY <1>1 DEF FrameOK
<1>7. /\ IsList(g.remap) /\ Len(g.remap) = PortNo /\ DOMAIN g.remap = 1..PortNo
      /\ \A i \in 1..Len(f.remap) : g.remap[i] = f.remap[i]
      /\ g.remap[PortNo] = id
  BY <1>5, <1>6, AppendList DEF PortNo
<1>8. /\ IsList(g.port_assigns)
      /\ \A i \in DOMAIN g.port_assigns :
            \/ i \in DOMAIN f.port_assigns /\ g.port_assigns[i] = f.port_assigns[i]
            \/ \E j \in DOMAIN assigns : g.port_assigns[i] = assigns[j]
  <2> DEFINE s == f.port_assigns
             t == g.port_assigns
  <2>1. IsList(s) /\ IsList(assigns) /\ t = s \o assigns
    BY <1>1, <1>5, <1>6
  <2> HIDE DEF s, t
  <2>2. /\ IsList(t)
        /\ \A i \in DOMAIN t : \/ i \in DOMAIN s /\ t[i] = s[i]
                               \/ \E j \in DOMAIN assigns : t[i] = assigns[j]
    BY <2>1, ConcatList
  <2> HIDE DEF f, g
  <2> QED  BY <2>2 DEF s, t
<1> HIDE DEF g, h
<1>9. \A i \in DOMAIN g.port_assigns : DriveOK(g.port_assigns[i], m.signals)
  <2>1. \A i \in DOMAIN f.port_assigns : DriveOK(f.port_assigns[i], m.signals)
    BY <1>3, <1>4 DEF FrameOK
  <2> HIDE DEF f
  <2> QED  BY <1>8, <2>1
<1>10. \A i \in 1..PortNo : i \in 1..Len(f.remap) \/ i = PortNo
  BY <1>1 DEF PortNo
<1>11. \A i \in DOMAIN g.remap : g.remap[i] \in 1..Len(m.signals)
  BY <1>1, <1>3, <1>4, <1>7, <1>10 DEF FrameOK
<1>12. \A i \in DOMAIN g.remap : SameShape(m.signals[g.remap[i]], child.signals[i])
  <2>1. \A i \in DOMAIN f.remap : SameShape(m.signals[f.remap[i]], child.signals[i])
    BY <1>1, <1>3, <1>4 DEF FrameOK, MappedOK, Instance
  <2> QED  BY <1>1, <1>7, <1>10, <2>1 DEF Port
<1>13. MappedOK(g)
  <2>1. Len(g.remap) <= Len(child.signals)
    BY <1>1, <1>7
  <2> QED  BY <1>1, <1>5, <1>12, <2>1 DEF MappedOK, Instance
<1>14. FrameOK(g)
  BY <1>2, <1>3, <1>4, <1>5, <1>7, <1>8, <1>9, <1>11, <1>13 DEF FrameOK, DoneOK
<1>15. Grows(f, g)
  BY <1>3, <1>4, <1>5 DEF Grows
<1> QED  BY <1>14, <1>15 DEF Mapped, Advances, g

(* The copy of a signal of the instance is the last of the module's        *)
(* signals.                                                                *)
LEMMA CopiedSignal ==
    ASSUME FramesOK, Flattens
    PROVE  /\ \E s : PortOK(s) /\ Copied = Pushed(Frame.module, s)
           /\ CopyId \in 1..Len(Copied.signals) /\ SameShape(Copied.signals[CopyId], Port)
           /\ \A a : DriveOK(a, Frame.module.signals) => DriveOK(a, Copied.signals)
           /\ \A e : ExprOK(e, Frame.module.signals) => ExprOK(e, Copied.signals)
           /\ \A i \in 1..Len(Frame.module.signals) :
                 i \in 1..Len(Copied.signals) /\ Copied.signals[i] = Frame.module.signals[i]
<1> DEFINE s == [name |-> <<Instance.name>> \o Port.name, direction |-> "none",
                 width |-> Port.width, depth |-> Port.depth]
           S == Frame.module.signals
           n == Len(S)
<1>1. ModuleOK(Frame.module) /\ n \in Nat /\ DOMAIN S = 1..n
  BY FlattenedFrame
<1>2. Copied = Pushed(Frame.module, s)
  BY DEF Copied
<1>3. s.width = Port.width /\ s.depth = Port.depth /\ PortOK(s)
  BY DEF PortOK
<1> HIDE DEF s
<1>4. /\ Len(Copied.signals) = n + 1 /\ Copied.signals[n + 1] = s
      /\ \A i \in 1..n : Copied.signals[i] = S[i]
  BY <1>1, <1>2, <1>3, PushedModule
<1>5. CopyId \in 1..Len(Copied.signals) /\ SameShape(Copied.signals[CopyId], Port)
  BY <1>1, <1>3, <1>4 DEF CopyId, SameShape
<1>6. n + 1 \in Nat /\ n <= n + 1 /\ \A i \in 1..n : i \in 1..(n + 1)
  BY <1>1
<1>7. /\ \A a : DriveOK(a, S) => DriveOK(a, Copied.signals)
      /\ \A e : ExprOK(e, S) => ExprOK(e, Copied.signals)
  <2> HIDE DEF S
  <2> QED  BY <1>1, <1>4, <1>6, MoreSignals
<1> QED  BY <1>2, <1>3, <1>4, <1>5, <1>6, <1>7

(* What an instance's port is connected to is of the module it is in.      *)
LEMMA ConnectionFacts ==
    ASSUME FramesOK, Flattens
    PROVE  /\ \A e \in Connection : ExprOK(e, Frame.module.signals)
           /\ \A s \in Aliases :
                 s \in 1..Len(Frame.module.signals) /\ IsScalar(Frame.module.signals[s])
<1> DEFINE S == Frame.module.signals
<1>1. PendingOK(Instance, S)
  BY FlattenedFrame
<1>2. \A e \in Connection : ExprOK(e, S)
  BY <1>1 DEF Connection, PendingOK
<1>3. ASSUME NEW s \in Aliases PROVE s \in 1..Len(S) /\ IsScalar(S[s])
  <2>1. PICK e \in Connection : IsWhole(e) /\ s = e.operands[1][2]
    BY DEF Aliases
  <2>2. 1 \in DOMAIN e.operands /\ e.operands[1][1] = "Ref"
    BY <2>1 DEF IsWhole
  <2>3. ExprWithin(e, Len(S)) /\ ReadsScalars(e, S)
    BY <1>2 DEF ExprOK
  <2> QED  BY <2>1, <2>2, <2>3 DEF ExprWithin, ReadsScalars
<1> QED  BY <1>2, <1>3

(* A sequence of one element.                                              *)
LEMMA OneAssign == ASSUME NEW a PROVE IsList(<<a>>) /\ \A i \in DOMAIN <<a>> : <<a>>[i] = a
<1>1. <<a>> \in Seq({a})
  OBVIOUS
<1>2. IsList(<<a>>)
  BY <1>1, ListIn
<1>3. DOMAIN <<a>> = 1..1 /\ <<a>>[1] = a
  OBVIOUS
<1> QED  BY <1>2, <1>3

(* A signal that is no port, or an unconnected output, is copied.          *)
LEMMA CopySignalStep == FramesOK /\ CopySignal => Reject \/ Advances
<1> SUFFICES ASSUME FramesOK, CopySignal PROVE Advances
  OBVIOUS
<1>1. Flattens /\ Mapped(Copied, CopyId, <<>>)
  BY DEF CopySignal
<1>2. IsList(<<>>) /\ DOMAIN <<>> = {}
  BY EmptyList
<1> QED  BY <1>1, <1>2, CopiedSignal, MappedStep

(* A port may be the signal it is connected to.                            *)
LEMMA AliasPortStep == FramesOK /\ AliasPort => Reject \/ Advances
<1> SUFFICES ASSUME FramesOK, AliasPort PROVE Advances
  OBVIOUS
<1>1. Flattens
  BY DEF AliasPort
<1>2. PICK s \in Alias : Mapped(Frame.module, s, <<>>)
  BY DEF AliasPort
<1>3. s \in 1..Len(Frame.module.signals) /\ SameShape(Frame.module.signals[s], Port)
  BY <1>1, ConnectionFacts DEF Alias
<1>4. IsList(<<>>) /\ DOMAIN <<>> = {}
  BY EmptyList
<1> QED  BY <1>1, <1>2, <1>3, <1>4, MappedStep

(* An input that is copied is driven by what it is connected to.           *)
LEMMA DriveInputStep == FramesOK /\ DriveInput => Reject \/ Advances
<1> SUFFICES ASSUME FramesOK, DriveInput PROVE Advances
  OBVIOUS
<1>1. Flattens /\ Port.direction = "input"
  BY DEF DriveInput
<1> DEFINE driven(e) == [target |-> CopyId, value |-> e]
<1>2. PICK e \in Connection : Mapped(Copied, CopyId, <<driven(e)>>)
  BY DEF DriveInput
<1>3. DriveOK(driven(e), Copied.signals)
  <2>1. IsScalar(Copied.signals[CopyId])
    BY <1>1, CopiedSignal, FlattenedFrame DEF PortOK, SameShape, IsScalar
  <2> QED  BY <1>1, <2>1, CopiedSignal, ConnectionFacts DEF DriveOK, AssignOK
<1> HIDE DEF driven
<1>4. /\ IsList(<<driven(e)>>)
      /\ \A i \in DOMAIN <<driven(e)>> : DriveOK(<<driven(e)>>[i], Copied.signals)
  BY <1>3, OneAssign
<1> QED  BY <1>1, <1>2, <1>4, CopiedSignal, MappedStep

(* An output that is copied drives the signal it is connected to.          *)
LEMMA ReadOutputStep == FramesOK /\ ReadOutput => Reject \/ Advances
<1> SUFFICES ASSUME FramesOK, ReadOutput PROVE Advances
  OBVIOUS
<1>1. Flattens /\ Port.direction = "output"
  BY DEF ReadOutput
<1> DEFINE read(s) == [target |-> s, value |-> WholeSignal(CopyId)]
<1>2. PICK s \in Aliases : Mapped(Copied, CopyId, <<read(s)>>)
  BY DEF ReadOutput
<1>3. ExprOK(WholeSignal(CopyId), Copied.signals)
  <2> DEFINE w == WholeSignal(CopyId)
  <2>1. w = [op |-> w.op, operands |-> w.operands] /\ w.operands = <<<<"Ref", CopyId>>>>
    BY DEF WholeSignal
  <2>2. DOMAIN <<<<"Ref", CopyId>>>> = 1..1 /\ <<<<"Ref", CopyId>>>>[1] = <<"Ref", CopyId>>
    OBVIOUS
  <2> HIDE DEF w
  <2>3. ExprWithin(w, Len(Copied.signals))
    BY <1>1, <2>1, <2>2, CopiedSignal DEF ExprWithin
  <2>4. IsScalar(Copied.signals[CopyId])
    BY <1>1, CopiedSignal, FlattenedFrame DEF PortOK, SameShape, IsScalar
  <2>5. ReadsScalars(w, Copied.signals)
    BY <2>1, <2>2, <2>4 DEF ReadsScalars
  <2> QED  BY <2>1, <2>3, <2>5 DEF ExprOK, w
<1>4. DriveOK(read(s), Copied.signals)
  <2>1. s \in 1..Len(Frame.module.signals) /\ IsScalar(Frame.module.signals[s])
    BY <1>1, ConnectionFacts
  <2> QED  BY <1>1, <1>3, <2>1, CopiedSignal DEF DriveOK, AssignOK
<1> HIDE DEF read
<1>5. /\ IsList(<<read(s)>>)
      /\ \A i \in DOMAIN <<read(s)>> : DriveOK(<<read(s)>>[i], Copied.signals)
  BY <1>4, OneAssign
<1> QED  BY <1>1, <1>2, <1>5, CopiedSignal, MappedStep

-----------------------------------------------------------------------------
(***************************************************************************)
(* Flattening: the rest of the first instance.                             *)
(***************************************************************************)

(* Renumbered by remap, what refers to signals of one module refers to     *)
(* those of the other.                                                     *)
LEMMA RemappedFacts ==
    ASSUME NEW r, NEW S, NEW T,
           \A i \in 1..Len(S) : r[i] \in 1..Len(T) /\ SameShape(T[r[i]], S[i])
    PROVE  /\ \A e : ExprOK(e, S) => ExprOK(RemappedExpr(e, r), T)
           /\ \A a : DriveOK(a, S) => DriveOK(RemappedAssign(a, r), T)
           /\ \A b : BodyOK(b, S) => BodyOK(RemappedBody(b, r), T)
<1>1. ASSUME NEW e, ExprOK(e, S) PROVE ExprOK(RemappedExpr(e, r), T)
  <2> DEFINE o == [i \in DOMAIN e.operands |->
                      IF e.operands[i][1] = "Ref" THEN <<"Ref", r[e.operands[i][2]]>> ELSE e.operands[i]]
             x == RemappedExpr(e, r)
  <2>1. e = [op |-> e.op, operands |-> e.operands]
    BY <1>1 DEF ExprOK
  <2>2. x = [op |-> x.op, operands |-> x.operands] /\ x.operands = o
    BY <2>1 DEF RemappedExpr
  <2>3. \A i \in DOMAIN e.operands : e.operands[i][1] = "Ref" => e.operands[i][2] \in 1..Len(S)
    BY <1>1 DEF ExprOK, ExprWithin
  <2>4. ASSUME NEW i \in DOMAIN o, o[i][1] = "Ref" PROVE o[i][2] \in 1..Len(T)
    <3>1. i \in DOMAIN e.operands
      OBVIOUS
    <3>2. CASE e.operands[i][1] = "Ref"
      <4>1. o[i] = <<"Ref", r[e.operands[i][2]]>>
        BY <3>1, <3>2
      <4> QED  BY <2>3, <3>1, <3>2, <4>1
    <3>3. CASE e.operands[i][1] # "Ref"
      <4>1. o[i] = e.operands[i]
        BY <3>1, <3>3
      <4> QED  BY <2>4, <3>3, <4>1
    <3> QED  BY <3>2, <3>3
  <2> HIDE DEF o, x
  <2>5. ExprWithin(x, Len(T))
    BY <2>2, <2>4 DEF ExprWithin
  <2>6. ASSUME IsWhole(x) PROVE IsScalar(T[x.operands[1][2]])
    <3>1. x.op = e.op /\ x.operands = o /\ 1 \in DOMAIN e.operands /\ o[1][1] = "Ref"
      BY <2>1, <2>2, <2>6 DEF IsWhole, o, x, RemappedExpr
    <3>2. e.operands[1][1] = "Ref" /\ o[1] = <<"Ref", r[e.operands[1][2]]>>
      BY <3>1 DEF o
    <3>3. IsWhole(e)
      BY <2>6, <3>1, <3>2 DEF IsWhole
    <3>4. IsScalar(S[e.operands[1][2]]) /\ e.operands[1][2] \in 1..Len(S)
      BY <1>1, <2>3, <3>1, <3>2, <3>3 DEF ExprOK, ReadsScalars
    <3> QED  BY <3>1, <3>2, <3>4 DEF IsScalar, SameShape
  <2> QED  BY <2>2, <2>5, <2>6 DEF ExprOK, ReadsScalars, x
<1>2. ASSUME NEW a, AssignOK(a, S) PROVE AssignOK(RemappedAssign(a, r), T)
  <2>1. a.target \in 1..Len(S) /\ ExprOK(a.value, S)
    BY <1>2 DEF AssignOK
  <2>2. /\ RemappedAssign(a, r).target = r[a.target]
        /\ RemappedAssign(a, r).value = RemappedExpr(a.value, r)
    BY DEF RemappedAssign
  <2> QED  BY <1>1, <2>1, <2>2 DEF AssignOK
<1>3. ASSUME NEW a, DriveOK(a, S) PROVE DriveOK(RemappedAssign(a, r), T)
  <2>1. AssignOK(a, S) /\ a.target \in 1..Len(S) /\ IsScalar(S[a.target])
    BY <1>3 DEF DriveOK, AssignOK
  <2>2. RemappedAssign(a, r).target = r[a.target]
    BY DEF RemappedAssign
  <2>3. IsScalar(T[r[a.target]])
    BY <2>1 DEF IsScalar, SameShape
  <2> QED  BY <1>2, <2>1, <2>2, <2>3 DEF DriveOK
<1>4. ASSUME NEW b, BodyOK(b, S) PROVE BodyOK(RemappedBody(b, r), T)
  BY <1>2, <1>4 DEF BodyOK, RemappedBody
<1> QED  BY <1>1, <1>3, <1>4

(* Sound parts put after sound ones.                                       *)
LEMMA ConcatFacts ==
    ASSUME NEW s, NEW t, NEW S, IsList(s), IsList(t)
    PROVE  /\ IsList(s \o t) /\ IsPrefix(s, s \o t)
           /\ /\ \A i \in DOMAIN s : ClockedOK(s[i], S)
              /\ \A i \in DOMAIN t : ClockedOK(t[i], S)
              => \A i \in DOMAIN (s \o t) : ClockedOK((s \o t)[i], S)
           /\ /\ \A i \in DOMAIN s : BodyOK(s[i].body, S)
              /\ \A i \in DOMAIN t : BodyOK(t[i].body, S)
              => \A i \in DOMAIN (s \o t) : BodyOK((s \o t)[i].body, S)
           /\ /\ \A i \in DOMAIN s : DriveOK(s[i], S)
              /\ \A i \in DOMAIN t : DriveOK(t[i], S)
              => \A i \in DOMAIN (s \o t) : DriveOK((s \o t)[i], S)
<1> DEFINE c == s \o t
<1>1. /\ IsList(c) /\ IsPrefix(s, c)
      /\ \A i \in DOMAIN c : (i \in DOMAIN s /\ c[i] = s[i]) \/ \E j \in DOMAIN t : c[i] = t[j]
  BY ConcatList
<1> HIDE DEF c
<1>2. ASSUME \A i \in DOMAIN s : ClockedOK(s[i], S), \A i \in DOMAIN t : ClockedOK(t[i], S)
      PROVE  \A i \in DOMAIN c : ClockedOK(c[i], S)
  BY <1>1, <1>2
<1>3. ASSUME \A i \in DOMAIN s : BodyOK(s[i].body, S), \A i \in DOMAIN t : BodyOK(t[i].body, S)
      PROVE  \A i \in DOMAIN c : BodyOK(c[i].body, S)
  BY <1>1, <1>3
<1>4. ASSUME \A i \in DOMAIN s : DriveOK(s[i], S), \A i \in DOMAIN t : DriveOK(t[i], S)
      PROVE  \A i \in DOMAIN c : DriveOK(c[i], S)
  BY <1>1, <1>4
<1> QED  BY <1>1, <1>2, <1>3, <1>4 DEF c

(* As ConcatFacts, of assignments put after others in turn.                *)
LEMMA ConcatAssigns ==
    ASSUME NEW s, NEW t, NEW u, NEW S, IsList(s), IsList(t), IsList(u),
           \A i \in DOMAIN s : DriveOK(s[i], S),
           \A i \in DOMAIN t : DriveOK(t[i], S),
           \A i \in DOMAIN u : DriveOK(u[i], S)
    PROVE  /\ IsList((s \o t) \o u) /\ IsPrefix(s, (s \o t) \o u)
           /\ \A i \in DOMAIN ((s \o t) \o u) : DriveOK(((s \o t) \o u)[i], S)
<1> DEFINE R == Range(s) \cup Range(t) \cup Range(u)
           v == t \o u
           c == (s \o t) \o u
<1>1. s \in Seq(Range(s)) /\ t \in Seq(Range(t)) /\ u \in Seq(Range(u))
  BY DEF IsList
<1>2. Range(s) \subseteq R /\ Range(t) \subseteq R /\ Range(u) \subseteq R
  OBVIOUS
<1> HIDE DEF R
<1>3. s \in Seq(R) /\ t \in Seq(R) /\ u \in Seq(R)
  BY <1>1, <1>2, SeqMonotonic
<1>4. c = s \o v
  BY <1>3, ConcatAssociative
<1>5. IsList(v) /\ \A i \in DOMAIN v : DriveOK(v[i], S)
  BY ConcatFacts
<1> HIDE DEF v, c
<1>6. /\ IsList(s \o v) /\ IsPrefix(s, s \o v)
      /\ \A i \in DOMAIN (s \o v) : DriveOK((s \o v)[i], S)
  BY <1>5, ConcatFacts
<1> QED  BY <1>4, <1>6 DEF c

(* Once the first of what is waiting is gone.                              *)
LEMMA TailPending ==
    ASSUME NEW s, NEW S, IsList(s), s # <<>>, \A i \in DOMAIN s : PendingOK(s[i], S)
    PROVE  IsList(Tail(s)) /\ \A i \in DOMAIN Tail(s) : PendingOK(Tail(s)[i], S)
BY TailList

(* The processes and assignments of an instance are added to the module's, *)
(* renumbered.                                                             *)
LEMMA MergeInstanceStep == FramesOK /\ MergeInstance => Reject \/ Advances
<1> SUFFICES ASSUME FramesOK, MergeInstance PROVE Advances
  OBVIOUS
<1> DEFINE f == Frame
           m == f.module
           child == Instance.child
           r == f.remap
           clocked == [i \in DOMAIN child.clocked_processes |->
                          [clock |-> r[child.clocked_processes[i].clock],
                           body |-> RemappedBody(child.clocked_processes[i].body, r)]]
           comb == [i \in DOMAIN child.comb_processes |->
                       [body |-> RemappedBody(child.comb_processes[i].body, r)]]
           assigns == [i \in DOMAIN child.assigns |-> RemappedAssign(child.assigns[i], r)]
           g == [f EXCEPT !.module.clocked_processes = @ \o clocked,
                          !.module.comb_processes = @ \o comb,
                          !.module.assigns = @ \o assigns \o f.port_assigns,
                          !.pending = Tail(@), !.remap = <<>>, !.port_assigns = <<>>]
           S == m.signals
<1>1. /\ stack # <<>> /\ f.pending # <<>> /\ Len(r) = Len(child.signals) /\ Become(g)
      /\ f.phase = "Flatten"
  BY DEF MergeInstance, In
<1>2. FrameOK(f)
  BY <1>1, TopFrame
<1>3. /\ f = [x \in FrameFields |-> f[x]] /\ ModuleOK(m) /\ m = [x \in ModuleFields |-> m[x]]
      /\ IsList(f.pending) /\ IsList(r) /\ IsList(f.port_assigns)
  BY <1>2 DEF FrameOK, ModuleOK
<1>4. 1 \in DOMAIN f.pending /\ f.pending[1] = Instance
  BY <1>1, <1>3, TailList DEF Instance
<1>5. ModuleOK(child)
  BY <1>2, <1>4 DEF FrameOK, PendingOK
<1>6. \A i \in 1..Len(child.signals) : r[i] \in 1..Len(S) /\ SameShape(S[r[i]], child.signals[i])
  <2>1. DOMAIN r = 1..Len(child.signals)
    BY <1>1, <1>3, ListFacts
  <2>2. MappedOK(f)
    BY <1>2 DEF FrameOK
  <2> QED  BY <1>1, <1>2, <2>1, <2>2 DEF FrameOK, MappedOK, Instance
<1>7. /\ g = [x \in FrameFields |-> g[x]] /\ g.module = [x \in ModuleFields |-> g.module[x]]
      /\ g.module.signals = m.signals
      /\ g.module.clocked_processes = m.clocked_processes \o clocked
      /\ g.module.comb_processes = m.comb_processes \o comb
      /\ g.module.assigns = (m.assigns \o assigns) \o f.port_assigns
      /\ g.pending = Tail(f.pending) /\ g.remap = <<>> /\ g.port_assigns = <<>>
      /\ g.phase # "Done"
  BY <1>1, <1>3 DEF FrameFields, ModuleFields
<1>8. /\ IsList(m.clocked_processes) /\ IsList(m.comb_processes) /\ IsList(m.assigns)
      /\ IsList(child.clocked_processes) /\ IsList(child.comb_processes) /\ IsList(child.assigns)
  BY <1>3, <1>5, ModuleParts
<1>9. IsList(clocked) /\ \A i \in DOMAIN clocked : ClockedOK(clocked[i], S)
  <2>1. IsList(clocked)
    <3> HIDE DEF child, r
    <3> QED  BY <1>8, ImageList
  <2>2. ASSUME NEW i \in DOMAIN clocked PROVE ClockedOK(clocked[i], S)
    <3>1. ClockedOK(child.clocked_processes[i], child.signals)
      BY <1>5 DEF ModuleOK
    <3>2. /\ child.clocked_processes[i].clock \in 1..Len(child.signals)
          /\ BodyOK(child.clocked_processes[i].body, child.signals)
      BY <3>1 DEF ClockedOK
    <3>3. BodyOK(RemappedBody(child.clocked_processes[i].body, r), S)
      <4> HIDE DEF child, r, S
      <4> QED  BY <1>6, <3>2, RemappedFacts
    <3> QED  BY <1>6, <3>2, <3>3 DEF ClockedOK
  <2> QED  BY <2>1, <2>2
<1>10. IsList(comb) /\ \A i \in DOMAIN comb : BodyOK(comb[i].body, S)
  <2>1. IsList(comb)
    <3> HIDE DEF child, r
    <3> QED  BY <1>8, ImageList
  <2>2. ASSUME NEW i \in DOMAIN comb PROVE BodyOK(comb[i].body, S)
    <3>1. BodyOK(child.comb_processes[i].body, child.signals)
      BY <1>5 DEF ModuleOK
    <3>2. BodyOK(RemappedBody(child.comb_processes[i].body, r), S)
      <4> HIDE DEF child, r, S
      <4> QED  BY <1>6, <3>1, RemappedFacts
    <3> QED  BY <3>2
  <2> QED  BY <2>1, <2>2
<1>11. IsList(assigns) /\ \A i \in DOMAIN assigns : DriveOK(assigns[i], S)
  <2>1. IsList(assigns)
    <3> HIDE DEF child, r
    <3> QED  BY <1>8, ImageList
  <2>2. ASSUME NEW i \in DOMAIN assigns PROVE DriveOK(assigns[i], S)
    <3>1. DriveOK(child.assigns[i], child.signals)
      BY <1>5 DEF ModuleOK
    <3>2. DriveOK(RemappedAssign(child.assigns[i], r), S)
      <4> HIDE DEF child, r, S
      <4> QED  BY <1>6, <3>1, RemappedFacts
    <3> QED  BY <3>2
  <2> QED  BY <2>1, <2>2
<1> HIDE DEF clocked, comb, assigns, g
<1>12. /\ IsList(g.module.clocked_processes)
       /\ IsPrefix(m.clocked_processes, g.module.clocked_processes)
       /\ \A i \in DOMAIN g.module.clocked_processes : ClockedOK(g.module.clocked_processes[i], S)
  <2>1. \A i \in DOMAIN m.clocked_processes : ClockedOK(m.clocked_processes[i], S)
    BY <1>3 DEF ModuleOK
  <2> DEFINE c == m.clocked_processes \o clocked
  <2>2. IsList(c) /\ IsPrefix(m.clocked_processes, c) /\ \A i \in DOMAIN c : ClockedOK(c[i], S)
    <3> HIDE DEF m, S
    <3> QED  BY <1>8, <1>9, <2>1, ConcatFacts
  <2> QED  BY <1>7, <2>2
<1>13. /\ IsList(g.module.comb_processes)
       /\ IsPrefix(m.comb_processes, g.module.comb_processes)
       /\ \A i \in DOMAIN g.module.comb_processes : BodyOK(g.module.comb_processes[i].body, S)
  <2>1. \A i \in DOMAIN m.comb_processes : BodyOK(m.comb_processes[i].body, S)
    BY <1>3 DEF ModuleOK
  <2> DEFINE c == m.comb_processes \o comb
  <2>2. IsList(c) /\ IsPrefix(m.comb_processes, c) /\ \A i \in DOMAIN c : BodyOK(c[i].body, S)
    <3> HIDE DEF m, S
    <3> QED  BY <1>8, <1>10, <2>1, ConcatFacts
  <2> QED  BY <1>7, <2>2
<1>14. /\ IsList(g.module.assigns) /\ IsPrefix(m.assigns, g.module.assigns)
       /\ \A i \in DOMAIN g.module.assigns : DriveOK(g.module.assigns[i], S)
  <2>1. \A i \in DOMAIN m.assigns : DriveOK(m.assigns[i], S)
    BY <1>3 DEF ModuleOK
  <2>2. \A i \in DOMAIN f.port_assigns : DriveOK(f.port_assigns[i], S)
    BY <1>2 DEF FrameOK
  <2> DEFINE c == (m.assigns \o assigns) \o f.port_assigns
  <2>3. IsList(c) /\ IsPrefix(m.assigns, c) /\ \A i \in DOMAIN c : DriveOK(c[i], S)
    <3>1. IsList(m.assigns) /\ IsList(assigns) /\ IsList(f.port_assigns)
      BY <1>3, <1>8, <1>11
    <3> HIDE DEF m, S, f
    <3> QED  BY <1>11, <2>1, <2>2, <3>1, ConcatAssigns
  <2> QED  BY <1>7, <2>3
<1>15. ModuleOK(g.module)
  <2>1. \A i \in DOMAIN m.signals : PortOK(m.signals[i])
    BY <1>3 DEF ModuleOK
  <2> QED  BY <1>3, <1>7, <1>12, <1>13, <1>14, <2>1, ModuleParts DEF ModuleOK
<1>16. IsList(g.pending) /\ \A i \in DOMAIN g.pending : PendingOK(g.pending[i], S)
  <2>1. \A i \in DOMAIN f.pending : PendingOK(f.pending[i], S)
    BY <1>2 DEF FrameOK
  <2> QED  BY <1>1, <1>3, <1>7, <2>1, TailPending
<1>17. MappedOK(g)
  <2>1. g.pending # <<>> => Len(Head(g.pending).child.signals) \in Nat
    <3> SUFFICES ASSUME g.pending # <<>> PROVE Len(Head(g.pending).child.signals) \in Nat
      OBVIOUS
    <3>1. 1 \in DOMAIN g.pending /\ Head(g.pending) = g.pending[1]
      BY <1>16, TailList
    <3>2. ModuleOK(Head(g.pending).child)
      BY <1>16, <3>1 DEF PendingOK
    <3> QED  BY <3>2, ModuleParts
  <2> QED  BY <1>7, <2>1, EmptyList DEF MappedOK
<1>18. FrameOK(g)
  BY <1>7, <1>15, <1>16, <1>17, EmptyList DEF FrameOK, DoneOK
<1>19. Grows(f, g)
  BY <1>7, <1>12, <1>13, <1>14, WholePrefix DEF Grows
<1> QED  BY <1>1, <1>18, <1>19 DEF Advances

(* The check of a flat module changes nothing in it.                       *)
LEMMA RejectMultipleDriversStep == FramesOK /\ RejectMultipleDrivers => Reject \/ Advances
<1> SUFFICES ASSUME FramesOK, RejectMultipleDrivers PROVE Reject \/ Advances
  OBVIOUS
<1> DEFINE Moved == [Frame EXCEPT !.phase = "Done"]
<1>1. /\ stack # <<>> /\ Continue(IF SingleDriver(Frame.module) THEN {Moved} ELSE {})
      /\ Frame.pending = <<>>
  BY DEF RejectMultipleDrivers, In
<1>2. FrameOK(Frame) /\ Frame = [x \in FrameFields |-> Frame[x]]
  BY <1>1, TopFrame DEF FrameOK
<1>3. ASSUME SingleDriver(Frame.module) PROVE FrameOK(Moved) /\ Grows(Frame, Moved)
  <2>1. /\ Moved = [x \in FrameFields |-> Moved[x]] /\ Moved.module = Frame.module
        /\ Moved.pending = Frame.pending /\ Moved.remap = Frame.remap
        /\ Moved.port_assigns = Frame.port_assigns
    BY <1>2 DEF FrameFields
  <2> HIDE DEF Moved
  <2>2. FrameOK(Moved)
    BY <1>1, <1>2, <1>3, <2>1 DEF FrameOK, MappedOK, DoneOK
  <2> QED  BY <2>1, <2>2, WholePrefix DEF Grows
<1> QED  BY <1>1, <1>3, Continues

-----------------------------------------------------------------------------
(***************************************************************************)
(* What each step does to the modules being lowered.                       *)
(***************************************************************************)

AllKept == FramesOK' /\ \A k \in DOMAIN stack \cap DOMAIN stack' : Grows(stack[k], stack'[k])

(* A module that stays as it is.                                           *)
LEMMA GrowsItself == ASSUME NEW f PROVE Grows(f, f)
BY WholePrefix DEF Grows

(* A step that leaves every module alone.                                  *)
LEMMA SameStack == FramesOK /\ stack' = stack => AllKept
BY GrowsItself DEF AllKept, FramesOK

(* The stack with another module on top.                                   *)
LEMMA UpdatedList ==
    ASSUME NEW s, IsList(s), s # <<>>, NEW g, NEW t, t = [s EXCEPT ![Len(s)] = g]
    PROVE  /\ IsList(t) /\ DOMAIN t = DOMAIN s /\ Len(t) = Len(s)
           /\ \A k \in DOMAIN s : t[k] = IF k = Len(s) THEN g ELSE s[k]
<1>1. DOMAIN s = 1..Len(s) /\ Len(s) \in Nat /\ Len(s) > 0
  BY ListFacts
<1>2. s = [i \in DOMAIN s |-> s[i]]
  <2>1. s \in Seq(Range(s))
    BY DEF IsList
  <2> QED  BY <2>1
<1>3. t = [i \in DOMAIN s |-> IF i = Len(s) THEN g ELSE s[i]]
  BY <1>1, <1>2
<1>4. DOMAIN t = DOMAIN s /\ t = [i \in DOMAIN s |-> t[i]]
  BY <1>3
<1>5. IsList(t)
  BY <1>4, ImageList
<1>6. Len(t) = Len(s)
  <2>1. DOMAIN t = 1..Len(t) /\ Len(t) \in Nat
    BY <1>5, ListFacts
  <2> QED  BY <1>1, <1>4, <2>1
<1> QED  BY <1>3, <1>4, <1>5, <1>6

(* A step that goes on with the module on top leaves those under it alone. *)
LEMMA AdvancesKept == FramesOK /\ stack # <<>> /\ Advances => AllKept
<1> SUFFICES ASSUME FramesOK, stack # <<>>, Advances PROVE AllKept
  OBVIOUS
<1>1. PICK g : FrameOK(g) /\ Grows(Frame, g) /\ Become(g)
  BY DEF Advances
<1>2. stack' = [stack EXCEPT ![Len(stack)] = g]
  BY <1>1 DEF Become
<1>3. /\ IsList(stack') /\ DOMAIN stack' = DOMAIN stack /\ Len(stack') = Len(stack)
      /\ \A k \in DOMAIN stack : stack'[k] = IF k = Len(stack) THEN g ELSE stack[k]
  BY <1>2, UpdatedList DEF FramesOK
<1>4. FramesOK'
  BY <1>1, <1>3 DEF FramesOK
<1>5. \A k \in DOMAIN stack \cap DOMAIN stack' : Grows(stack[k], stack'[k])
  BY <1>1, <1>3, GrowsItself DEF Frame
<1> QED  BY <1>4, <1>5 DEF AllKept

(* A module of which nothing has been lowered yet is sound.                *)
LEMMA NewFrameOK == ASSUME NEW name, NEW overrides PROVE FrameOK(NewFrame(name, overrides))
<1> DEFINE f == NewFrame(name, overrides)
<1>1. /\ f = [x \in FrameFields |-> f[x]] /\ f.module = EmptyModule
      /\ f.pending = <<>> /\ f.remap = <<>> /\ f.port_assigns = <<>> /\ f.phase # "Done"
  BY DEF NewFrame, FrameFields
<1>2. /\ EmptyModule = [x \in ModuleFields |-> EmptyModule[x]] /\ EmptyModule.signals = <<>>
      /\ EmptyModule.clocked_processes = <<>> /\ EmptyModule.comb_processes = <<>>
      /\ EmptyModule.assigns = <<>>
  BY DEF EmptyModule, ModuleFields
<1> HIDE DEF f
<1>3. ModuleOK(EmptyModule)
  BY <1>2, EmptyList DEF ModuleOK
<1>4. FrameOK(f)
  BY <1>1, <1>3, EmptyList DEF FrameOK, MappedOK, DoneOK
<1> QED  BY <1>4 DEF f

(* The top module is the first of the stack.                               *)
LEMMA BeginStep == FramesOK /\ Begin => AllKept
<1> SUFFICES ASSUME FramesOK, Begin PROVE AllKept
  OBVIOUS
<1> DEFINE top == NewFrame(design.file[1].name, Binding(design.overrides))
<1>1. stack = <<>> /\ (stack' = stack \/ stack' = <<top>>)
  BY DEF Begin, Reject
<1>2. FrameOK(top)
  BY NewFrameOK
<1> HIDE DEF top
<1>3. CASE stack' = <<top>>
  <2>1. IsList(stack') /\ \A k \in DOMAIN stack' : stack'[k] = top /\ k = Len(stack')
    BY <1>3, OneAssign
  <2>2. DOMAIN stack = {}
    BY <1>1, EmptyList
  <2> QED  BY <1>2, <2>1, <2>2 DEF AllKept, FramesOK
<1>4. CASE stack' = stack
  BY <1>4, SameStack
<1> QED  BY <1>1, <1>3, <1>4

(* A module that is instantiated is lowered on its own, above the others.  *)
LEMMA InstantiateStep == FramesOK /\ Instantiate => AllKept
<1> SUFFICES ASSUME FramesOK, Instantiate PROVE AllKept
  OBVIOUS
<1>1. PICK p \in Visits("Instances") :
          \/ Reject
          \/ \E name, o :
                stack' = Append([stack EXCEPT ![Len(stack)].at = p], NewFrame(name, o))
  BY DEF Instantiate
<1>2. CASE Reject
  BY <1>2, SameStack DEF Reject
<1>3. ASSUME NEW name, NEW o,
             stack' = Append([stack EXCEPT ![Len(stack)].at = p], NewFrame(name, o))
      PROVE  AllKept
  <2> DEFINE g == [Frame EXCEPT !.at = p]
             below == [stack EXCEPT ![Len(stack)] = g]
             top == NewFrame(name, o)
  <2>1. /\ stack # <<>> /\ FrameOK(Frame) /\ Frame = [x \in FrameFields |-> Frame[x]]
        /\ Frame.phase = "Instances"
    BY VisitedFrame DEF Visits, In
  <2>2. FrameOK(g) /\ Grows(Frame, g) /\ g.phase = "Instances"
    <3>1. /\ g = [x \in FrameFields |-> g[x]] /\ g.module = Frame.module
          /\ g.pending = Frame.pending /\ g.remap = Frame.remap
          /\ g.port_assigns = Frame.port_assigns /\ g.phase = "Instances"
      BY <2>1 DEF FrameFields
    <3> QED  BY <2>1, <3>1, FrameMoves
  <2>3. stack' = Append(below, top)
    BY <1>3 DEF Frame
  <2>4. FrameOK(top)
    BY NewFrameOK
  <2> HIDE DEF g, top
  <2>5. /\ IsList(below) /\ DOMAIN below = DOMAIN stack /\ Len(below) = Len(stack)
        /\ \A k \in DOMAIN stack : below[k] = IF k = Len(stack) THEN g ELSE stack[k]
    BY <2>1, UpdatedList DEF FramesOK
  <2>6. \A k \in DOMAIN below :
           FrameOK(below[k]) /\ Grows(stack[k], below[k]) /\ below[k].phase = "Instances"
    BY <2>2, <2>5, GrowsItself DEF FramesOK, Frame
  <2> HIDE DEF below
  <2>7. /\ IsList(stack') /\ \A k \in DOMAIN below : stack'[k] = below[k]
        /\ \A k \in DOMAIN stack' :
              (k \in DOMAIN below /\ stack'[k] = below[k]) \/ (stack'[k] = top /\ k = Len(stack'))
    <3>1. DOMAIN below = 1..Len(below)
      BY <2>5, ListFacts
    <3> QED  BY <2>3, <2>5, <3>1, AppendList
  <2>8. FramesOK'
    BY <2>4, <2>6, <2>7 DEF FramesOK
  <2>9. \A k \in DOMAIN stack \cap DOMAIN stack' : Grows(stack[k], stack'[k])
    BY <2>5, <2>6, <2>7
  <2> QED  BY <2>8, <2>9 DEF AllKept
<1> QED  BY <1>1, <1>2, <1>3

(* The stack without the module on top.                                    *)
LEMMA ShorterList ==
    ASSUME NEW s, IsList(s), Len(s) > 1, NEW t, t = SubSeq(s, 1, Len(s) - 1)
    PROVE  /\ IsList(t) /\ Len(t) = Len(s) - 1 /\ DOMAIN t = 1..(Len(s) - 1) /\ t # <<>>
           /\ \A k \in DOMAIN t : k \in DOMAIN s /\ t[k] = s[k]
<1>1. s \in Seq(Range(s)) /\ Len(s) \in Nat /\ DOMAIN s = 1..Len(s)
  BY ListFacts DEF IsList
<1>2. /\ t \in Seq(Range(s)) /\ Len(t) = Len(s) - 1
      /\ \A i \in 1..(Len(s) - 1) : t[i] = s[i]
  <2>1. \A i \in 1..(Len(s) - 1) : i \in 1..Len(s) /\ s[i] \in Range(s)
    BY <1>1, ElementOfSeq
  <2> QED  BY <1>1, <2>1, SMT
<1>3. IsList(t)
  BY <1>2, ListIn
<1>4. DOMAIN t = 1..(Len(s) - 1)
  BY <1>2, <1>3, ListFacts
<1>5. t # <<>>
  <2>1. Len(t) # 0
    BY <1>1, <1>2
  <2> QED  BY <2>1, EmptyList, Zenon
<1>6. \A k \in DOMAIN t : k \in DOMAIN s /\ t[k] = s[k]
  BY <1>1, <1>2, <1>4
<1> QED  BY <1>2, <1>3, <1>4, <1>5, <1>6

(* What an instance's ports are connected to is of the module it is in.    *)
LEMMA ConnectionsFacts ==
    ASSUME NEW d, NEW child, NEW f, ModuleOK(child), ModuleOK(f.module),
           NEW x \in Connections(d, child, f)
    PROVE  \A i \in DOMAIN x : ExprOK(x[i], f.module.signals)
<1> DEFINE given == Binding(d.connections)
           values == [n \in DOMAIN given |-> Lowered(given[n], f)]
           connected == UNION {PortId(child, n) : n \in DOMAIN given}
<1>1. PICK c \in Picks(values) : x = [i \in connected |-> c[child.signals[i].name[1]]]
  BY Zenon DEF Connections
<1>2. ASSUME NEW n \in DOMAIN given PROVE ExprOK(c[n], f.module.signals)
  <2>1. c[n] \in Lowered(given[n], f)
    <3> HIDE DEF given
    <3> QED  BY PicksFacts
  <2> QED  BY <2>1, LoweredFacts
<1>3. ASSUME NEW i \in connected PROVE child.signals[i].name[1] \in DOMAIN given
  <2> HIDE DEF given
  <2>1. PICK n \in DOMAIN given : i \in SignalId(child, n)
    BY DEF PortId
  <2>2. child.signals[i].name = <<n>>
    BY <2>1, SignalIdFacts
  <2> QED  BY <2>2
<1> HIDE DEF given, connected, values
<1> QED  BY <1>1, <1>2, <1>3

(* An instance that is put after those that are waiting.                   *)
LEMMA WaitingInstance ==
    ASSUME NEW f, NEW g, NEW instance, FrameOK(f), g = [x \in FrameFields |-> g[x]],
           PendingOK(instance, f.module.signals), g.module = f.module,
           g.pending = Append(f.pending, instance), g.remap = f.remap,
           g.port_assigns = f.port_assigns, g.phase # "Done"
    PROVE  FrameOK(g) /\ Grows(f, g)
<1>1. IsList(f.pending) /\ \A i \in DOMAIN f.pending : PendingOK(f.pending[i], f.module.signals)
  BY DEF FrameOK
<1> DEFINE s == f.pending
           p == Append(s, instance)
<1>2. /\ IsList(g.pending) /\ g.pending # <<>> /\ IsPrefix(f.pending, g.pending)
      /\ \A i \in DOMAIN g.pending : PendingOK(g.pending[i], f.module.signals)
      /\ Head(g.pending) = IF f.pending = <<>> THEN instance ELSE Head(f.pending)
  <2>1. /\ IsList(p) /\ p # <<>> /\ IsPrefix(s, p)
        /\ \A i \in DOMAIN p : (i \in DOMAIN s /\ p[i] = s[i]) \/ p[i] = instance
        /\ Head(p) = IF s = <<>> THEN instance ELSE Head(s)
    <3> HIDE DEF s
    <3> QED  BY <1>1, AppendList DEF s
  <2> HIDE DEF p
  <2>2. \A i \in DOMAIN p : PendingOK(p[i], f.module.signals)
    BY <1>1, <2>1
  <2>3. g.pending = p
    BY DEF p
  <2> QED  BY <2>1, <2>2, <2>3
<1>3. Len(instance.child.signals) \in Nat
  BY ModuleParts DEF PendingOK
<1>4. MappedOK(g)
  <2>1. MappedOK(f)
    BY DEF FrameOK
  <2>2. CASE f.pending = <<>>
    BY <1>2, <1>3, <2>1, <2>2, EmptyList DEF MappedOK
  <2>3. CASE f.pending # <<>>
    BY <1>2, <2>1, <2>3 DEF MappedOK
  <2> QED  BY <2>2, <2>3
<1>5. FrameOK(g)
  BY <1>2, <1>4 DEF FrameOK, DoneOK
<1>6. Grows(f, g)
  BY <1>2, WholePrefix DEF Grows
<1> QED  BY <1>5, <1>6

(* The one on top has been lowered, and waits in the module above it to be *)
(* merged in.                                                              *)
LEMMA ConnectStep == FramesOK /\ Connect => AllKept
<1> SUFFICES ASSUME FramesOK, Connect PROVE AllKept
  OBVIOUS
<1> DEFINE above == SubSeq(stack, 1, Len(stack) - 1)
           waiting(d, c) == [name |-> d.name, child |-> Frame.module, connections |-> c]
           g(f, d, c) == [f EXCEPT !.at = @ + 1, !.pending = Append(@, waiting(d, c))]
<1>1. PICK caller \in Caller :
          \/ Reject
          \/ \E c \in Connections(caller.instance, Frame.module, caller.frame) :
                stack' = [above EXCEPT ![Len(above)] = g(caller.frame, caller.instance, c)]
  BY DEF Connect
<1>2. CASE Reject
  BY <1>2, SameStack DEF Reject
<1>3. ASSUME NEW c \in Connections(caller.instance, Frame.module, caller.frame),
             stack' = [above EXCEPT ![Len(above)] = g(caller.frame, caller.instance, c)]
      PROVE  AllKept
  <2> DEFINE f == caller.frame
             h == g(f, caller.instance, c)
             w == waiting(caller.instance, c)
  <2>1. stack # <<>> /\ Len(stack) > 1 /\ f = stack[Len(stack) - 1]
    BY DEF Caller, In
  <2>2. /\ IsList(above) /\ Len(above) = Len(stack) - 1 /\ above # <<>>
        /\ DOMAIN above = 1..(Len(stack) - 1)
        /\ \A k \in DOMAIN above : k \in DOMAIN stack /\ above[k] = stack[k]
    BY <2>1, ShorterList DEF FramesOK
  <2>3. Len(stack) - 1 \in DOMAIN above
    BY <2>1, <2>2, TopFrame
  <2>4. /\ FrameOK(f) /\ f = [x \in FrameFields |-> f[x]] /\ ModuleOK(f.module)
        /\ f.phase = "Instances"
    <3>1. Len(stack) - 1 # Len(stack)
      BY <2>1, TopFrame
    <3> QED  BY <2>1, <2>2, <2>3, <3>1 DEF FramesOK, FrameOK
  <2>5. ModuleOK(Frame.module)
    BY <2>1, TopFrame DEF FrameOK
  <2>6. w.child = Frame.module /\ w.connections = c
    OBVIOUS
  <2>7. PendingOK(w, f.module.signals)
    BY <2>4, <2>5, <2>6, ConnectionsFacts DEF PendingOK
  <2>8. /\ h = [x \in FrameFields |-> h[x]] /\ h.module = f.module
        /\ h.pending = Append(f.pending, w) /\ h.remap = f.remap
        /\ h.port_assigns = f.port_assigns /\ h.phase = "Instances"
    BY <2>4 DEF FrameFields
  <2>9. FrameOK(h) /\ Grows(f, h)
    <3> HIDE DEF f, h, w
    <3> QED  BY <2>4, <2>7, <2>8, WaitingInstance
  <2>10. stack' = [above EXCEPT ![Len(above)] = h]
    BY <1>3
  <2> HIDE DEF f, h, w, above, g
  <2>11. /\ IsList(stack') /\ DOMAIN stack' = DOMAIN above /\ Len(stack') = Len(above)
         /\ \A k \in DOMAIN above : stack'[k] = IF k = Len(above) THEN h ELSE above[k]
    BY <2>2, <2>10, UpdatedList
  <2>12. FramesOK'
    BY <2>2, <2>9, <2>11 DEF FramesOK
  <2>13. \A k \in DOMAIN stack \cap DOMAIN stack' : Grows(stack[k], stack'[k])
    BY <2>1, <2>2, <2>9, <2>11, GrowsItself
  <2> QED  BY <2>12, <2>13 DEF AllKept
<1> QED  BY <1>1, <1>2, <1>3

(* Every step keeps every module sound, and only adds to it.               *)
LEMMA NextStep == FramesOK /\ [Next]_vars => AllKept
<1> SUFFICES ASSUME FramesOK, [Next]_vars PROVE AllKept
  OBVIOUS
<1>1. ASSUME stack # <<>>, Reject \/ Advances PROVE AllKept
  BY <1>1, SameStack, AdvancesKept DEF Reject
<1>2. CASE Begin
  BY <1>2, BeginStep
<1>3. CASE Finish
  BY <1>3, SameStack DEF Finish
<1>4. CASE ResolveParameter
  BY <1>1, <1>4, ResolveParameterStep DEF ResolveParameter, Visits, In
<1>5. CASE SelectBranch
  BY <1>1, <1>5, SelectBranchStep DEF SelectBranch, Visits, In
<1>6. CASE FinishWalk
  BY <1>1, <1>6, FinishWalkStep DEF FinishWalk
<1>7. CASE Declare
  BY <1>1, <1>7, DeclareStep DEF Declare, Visits, In
<1>8. CASE LowerAlways
  BY <1>1, <1>8, LowerAlwaysStep DEF LowerAlways, Visits, In
<1>9. CASE LowerAssign
  BY <1>1, <1>9, LowerAssignStep DEF LowerAssign, Visits, In
<1>10. CASE Instantiate
  BY <1>10, InstantiateStep
<1>11. CASE Connect
  BY <1>11, ConnectStep
<1>12. CASE CopySignal
  BY <1>1, <1>12, CopySignalStep, FlattenedFrame DEF CopySignal
<1>13. CASE AliasPort
  BY <1>1, <1>13, AliasPortStep, FlattenedFrame DEF AliasPort
<1>14. CASE DriveInput
  BY <1>1, <1>14, DriveInputStep, FlattenedFrame DEF DriveInput
<1>15. CASE ReadOutput
  BY <1>1, <1>15, ReadOutputStep, FlattenedFrame DEF ReadOutput
<1>16. CASE RejectPort
  BY <1>16, SameStack DEF RejectPort, Reject
<1>17. CASE MergeInstance
  BY <1>1, <1>17, MergeInstanceStep DEF MergeInstance, In
<1>18. CASE RejectMultipleDrivers
  BY <1>1, <1>18, RejectMultipleDriversStep DEF RejectMultipleDrivers, In
<1>19. CASE UNCHANGED vars
  BY <1>19, SameStack DEF vars
<1> QED
  BY <1>2, <1>3, <1>4, <1>5, <1>6, <1>7, <1>8, <1>9, <1>10, <1>11, <1>12, <1>13, <1>14, <1>15,
     <1>16, <1>17, <1>18, <1>19 DEF Next, Flatten

-----------------------------------------------------------------------------
(***************************************************************************)
(* The theorems.                                                           *)
(***************************************************************************)

(* Every module being lowered is sound, throughout.                        *)
THEOREM FramesAlwaysOK == Spec => []FramesOK
<1>1. Init => FramesOK
  BY EmptyList DEF Init, FramesOK
<1>2. FramesOK /\ [Next]_vars => FramesOK'
  BY NextStep DEF AllKept
<1> QED  BY <1>1, <1>2, PTL DEF Spec

(* A sound module refers to its own signals only.                          *)
LEMMA SoundModule == ASSUME NEW m, ModuleOK(m) PROVE ModuleWithin(m)
BY DEF ModuleOK, ModuleWithin, ClockedOK, BodyOK, BodyWithin, DriveOK, AssignOK, AssignWithin, ExprOK

(* Whatever modules are given, every signal that one of them refers to as  *)
(* it is lowered, and every one an instance's signals become, is one of    *)
(* its own (SignalId, remap_signals).                                      *)
THEOREM NumbersAlwaysHold == Spec => []NumbersHold
<1>1. FramesOK => NumbersHold
  <2> SUFFICES ASSUME FramesOK, NEW k \in DOMAIN stack
               PROVE  LET f == stack[k]
                          n == Len(f.module.signals)
                      IN  /\ ModuleWithin(f.module)
                          /\ \A i \in DOMAIN f.pending : PendingWithin(f.pending[i], n)
                          /\ \A i \in DOMAIN f.remap : f.remap[i] \in 1..n
                          /\ \A i \in DOMAIN f.port_assigns : AssignWithin(f.port_assigns[i], n)
    BY DEF NumbersHold
  <2> DEFINE f == stack[k]
             n == Len(f.module.signals)
  <2>1. FrameOK(f)
    BY DEF FramesOK
  <2> HIDE DEF f
  <2>2. ModuleWithin(f.module) /\ \A i \in DOMAIN f.remap : f.remap[i] \in 1..n
    BY <2>1, SoundModule DEF FrameOK
  <2>3. \A i \in DOMAIN f.pending : PendingWithin(f.pending[i], n)
    BY <2>1, SoundModule DEF FrameOK, PendingOK, PendingWithin, ExprOK
  <2>4. \A i \in DOMAIN f.port_assigns : AssignWithin(f.port_assigns[i], n)
    BY <2>1 DEF FrameOK, DriveOK, AssignOK, AssignWithin, ExprOK
  <2> QED  BY <2>2, <2>3, <2>4 DEF f
<1> QED  BY <1>1, FramesAlwaysOK, PTL

(* Whatever modules are given, the signal an instance's becomes has its    *)
(* width and its depth, for as long as it is being merged in               *)
(* (flatten_instance).                                                     *)
THEOREM ShapesAlwaysKept == Spec => []ShapesKept
<1>1. FramesOK => ShapesKept
  <2> SUFFICES ASSUME FramesOK, NEW k \in DOMAIN stack, NEW i \in DOMAIN stack[k].remap
               PROVE  SameShape(stack[k].module.signals[stack[k].remap[i]],
                                Head(stack[k].pending).child.signals[i])
    BY DEF ShapesKept, SameShape
  <2>1. MappedOK(stack[k])
    BY DEF FramesOK, FrameOK
  <2>2. stack[k].pending # <<>>
    BY <2>1, EmptyList DEF MappedOK
  <2> QED  BY <2>1, <2>2 DEF MappedOK
<1> QED  BY <1>1, FramesAlwaysOK, PTL

(* What an accepted design is at the end of: only Finish accepts, the      *)
(* module that is alone on the stack and is done.                          *)
OkInv ==
    outcome = "Ok" =>
        Len(stack) = 1 /\ stack # <<>> /\ Frame.phase = "Done" /\ SingleClock(Frame.module)

(* The other steps go on, or reject the design.                            *)
LEMMA OthersDoNotAccept == Next => Finish \/ outcome' \in {"Lowering", "Err"}
<1> SUFFICES ASSUME Next PROVE Finish \/ outcome' \in {"Lowering", "Err"}
  OBVIOUS
<1>1. ASSUME outcome = "Lowering", NEW R, Continue(R) PROVE outcome' \in {"Lowering", "Err"}
  BY <1>1 DEF Continue, Reject, Become
<1>2. ASSUME NEW phase, Visits(phase) # {} PROVE outcome = "Lowering"
  BY <1>2 DEF Visits, In
<1>3. CASE Begin
  BY <1>3 DEF Begin, Reject
<1>4. CASE ResolveParameter
  BY <1>1, <1>2, <1>4 DEF ResolveParameter
<1>5. CASE SelectBranch
  BY <1>1, <1>2, <1>5 DEF SelectBranch
<1>6. CASE FinishWalk
  BY <1>1, <1>6 DEF FinishWalk
<1>7. CASE Declare
  BY <1>1, <1>2, <1>7 DEF Declare
<1>8. CASE LowerAlways
  BY <1>1, <1>2, <1>8 DEF LowerAlways
<1>9. CASE LowerAssign
  BY <1>1, <1>2, <1>9 DEF LowerAssign
<1>10. CASE Instantiate
  BY <1>2, <1>10 DEF Instantiate, Reject
<1>11. CASE Connect
  <2>1. PICK c \in Caller : outcome' = "Err" \/ outcome' = outcome
    BY <1>11 DEF Connect, Reject
  <2>2. outcome = "Lowering"
    BY <2>1 DEF Caller, In
  <2> QED  BY <2>1, <2>2
<1>12. CASE Flatten
  <2>1. Flattens \/ In("Flatten")
    BY <1>12 DEF Flatten, CopySignal, AliasPort, DriveInput, ReadOutput, RejectPort, MergeInstance
  <2>2. Reject \/ \E f : Become(f)
    BY <1>12 DEF Flatten, CopySignal, AliasPort, DriveInput, ReadOutput, RejectPort, MergeInstance,
                 Mapped
  <2> QED  BY <2>1, <2>2 DEF Flattens, In, Reject, Become
<1>13. CASE RejectMultipleDrivers
  BY <1>1, <1>13 DEF RejectMultipleDrivers, In
<1> QED
  BY <1>3, <1>4, <1>5, <1>6, <1>7, <1>8, <1>9, <1>10, <1>11, <1>12, <1>13 DEF Next

LEMMA AcceptedAtTheEnd == OkInv /\ [Next]_vars => OkInv'
<1>1. CASE UNCHANGED vars
  BY <1>1 DEF OkInv, vars, Frame
<1>2. CASE Finish
  <2>1. stack' = stack /\ In("Done") /\ Len(stack) = 1
        /\ outcome' = IF SingleClock(Frame.module) THEN "Ok" ELSE "Err"
    BY <1>2 DEF Finish
  <2>2. Frame' = Frame
    BY <2>1 DEF Frame
  <2> QED  BY <2>1, <2>2 DEF OkInv, In
<1>3. CASE outcome' \in {"Lowering", "Err"}
  BY <1>3 DEF OkInv
<1> QED  BY <1>1, <1>2, <1>3, OthersDoNotAccept

(* What a sound module reads and drives whole are scalars.                 *)
LEMMA SoundReads ==
    ASSUME NEW m, ModuleOK(m)
    PROVE  /\ \A i \in DOMAIN m.assigns :
                 /\ IsScalar(m.signals[m.assigns[i].target])
                 /\ ReadsScalars(m.assigns[i].value, m.signals)
           /\ \A i \in DOMAIN m.clocked_processes :
                 BodyReadsScalars(m.clocked_processes[i].body, m.signals)
           /\ \A i \in DOMAIN m.comb_processes :
                 BodyReadsScalars(m.comb_processes[i].body, m.signals)
<1>1. \A b : BodyOK(b, m.signals) => BodyReadsScalars(b, m.signals)
  BY DEF BodyOK, BodyReadsScalars, AssignOK, ExprOK
<1> QED  BY <1>1 DEF ModuleOK, ClockedOK, DriveOK, AssignOK, ExprOK

(* Whatever modules are given, what is accepted is one flat module that    *)
(* refers to its own signals, with one clock, one driver for each signal,  *)
(* none for its inputs, and no array read or driven as a scalar            *)
(* (lower_module, reject_multiple_drivers, reject_multiple_clocks).  The   *)
(* kernel's own theorems assume SingleDriver of the module it is given.    *)
THEOREM AcceptedDesignsSuitKernel == Spec => []AcceptedSuitsKernel
<1>1. Init => OkInv
  BY DEF Init, OkInv
<1>2. Spec => []OkInv
  BY <1>1, AcceptedAtTheEnd, PTL DEF Spec
<1>3. FramesOK /\ OkInv => AcceptedSuitsKernel
  <2> SUFFICES ASSUME FramesOK, OkInv, outcome = "Ok"
               PROVE  /\ Len(stack) = 1 /\ stack[1].pending = <<>>
                      /\ SuitsKernel(stack[1].module)
    BY DEF AcceptedSuitsKernel
  <2>1. Len(stack) = 1 /\ Frame = stack[1] /\ Frame.phase = "Done" /\ SingleClock(Frame.module)
    BY DEF OkInv, Frame
  <2>2. 1 \in DOMAIN stack
    BY <2>1, ListFacts DEF FramesOK
  <2>3. FrameOK(stack[1])
    BY <2>2 DEF FramesOK
  <2>4. stack[1].pending = <<>> /\ SingleDriver(stack[1].module) /\ ModuleOK(stack[1].module)
    BY <2>1, <2>3 DEF FrameOK, DoneOK
  <2> QED  BY <2>1, <2>4, SoundModule, SoundReads DEF SuitsKernel
<1> QED  BY <1>2, <1>3, FramesAlwaysOK, PTL

(* Whatever modules are given, a step only ever adds to a module being     *)
(* lowered, after what is there, or merges in the instance that is first   *)
(* (lower_module, flatten_instance).                                       *)
THEOREM NothingIsRenumbered == Spec => NothingRenumbered
<1> DEFINE OnlyAdded ==
        \A k \in DOMAIN stack \cap DOMAIN stack' :
            LET m == stack[k].module
                n == stack'[k].module
            IN  /\ IsPrefix(m.signals, n.signals)
                /\ IsPrefix(m.clocked_processes, n.clocked_processes)
                /\ IsPrefix(m.comb_processes, n.comb_processes)
                /\ IsPrefix(m.assigns, n.assigns)
                /\ \/ IsPrefix(stack[k].pending, stack'[k].pending)
                   \/ stack'[k].pending = Tail(stack[k].pending)
<1>1. FramesOK /\ [Next]_vars => [OnlyAdded]_vars
  <2>1. AllKept => OnlyAdded
    BY DEF AllKept, Grows
  <2> QED  BY <2>1, NextStep
<1> QED  BY <1>1, FramesAlwaysOK, PTL DEF Spec, NothingRenumbered
=============================================================================
