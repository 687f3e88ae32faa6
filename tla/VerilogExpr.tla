---------------------------- MODULE VerilogExpr ----------------------------
(***************************************************************************)
(* What must be true of every text the frontend accepts: the lowering, the *)
(* width pass and the kernel's evaluation together give it the value that  *)
(* VerilogText says it has.                                                *)
(***************************************************************************)
EXTENDS Operators, VerilogText, IrVisit

LOCAL INSTANCE SequencesExt    \* Max

(* The word that canonical form asks for, in a context of w bits.          *)
CanonicalWord(t, w, signed, v, a) == Extend(Bits(t, w, signed, v, a), w, WordWidth, signed)

(* The contents of what these texts, or these expressions, read.           *)
Contents(texts, exprs) ==
    StatesOver[Scalars \cap (UNION {SignalsOf(t) : t \in texts} \cup UNION {Reads(e) : e \in exprs})]

-----------------------------------------------------------------------------

AssignedExactly ==
    \A n \in 1..WordWidth :
        LET w == Max({n, OwnWidth(text)})
        IN  \A e \in ForAssignment(expr, n), v \in Contents({text}, {expr}), a \in ArrayStates :
                EvalExpr(e, v, a) % 2^n = Bits(text, w, OwnSigned(text), v, a) % 2^n

AloneExactly ==
    \A e \in SelfDetermined(expr), v \in Contents({text}, {expr}), a \in ArrayStates :
        EvalExpr(e, v, a) = CanonicalWord(text, OwnWidth(text), OwnSigned(text), v, a)

(* The frontend gives every expression it accepts the width that IEEE 1800 *)
(* gives the text, and the signedness, except that what only unsized       *)
(* numbers make signed counts as unsigned: no literal records that it was  *)
(* unsized (self_type, is_signed, and the widths that unary operators,     *)
(* $signed and concatenations are built with; width 43).                   *)
TypesAgree ==
    SelfType(expr) \subseteq {Type(OwnWidth(text), OwnSigned(text) /\ ~Unrecorded(text))}

(* A condition, an index or a shift amount (self_determined) has in the    *)
(* kernel exactly the word that is the text's value at its own width:      *)
(* nothing above the width when it is unsigned, the sign when it is        *)
(* signed.                                                                 *)
SelfDeterminedExact == Ordinary(text) /\ ~LosesSign(text) => AloneExactly

(* An assignment (for_assignment) stores the bits the text has when it is  *)
(* evaluated at the wider of its own width and the target's, however       *)
(* narrow or wide the target is.                                           *)
AssignmentsExact == Ordinary(text) => AssignedExactly

(* A case selector and its items (jointly) are compared at one width, the  *)
(* widest of them and of the wildcard items: the words the kernel compares *)
(* are equal exactly when the values at that width are.                    *)
CasesExact ==
    Ordinary(text) =>
        \A o \in OtherTexts :
            LET own    == Max({OwnWidth(text), OwnWidth(o)})
                signed == OwnSigned(text) /\ OwnSigned(o)
            IN  \A item \in LowerText(o, NoBindings), n \in {0} \cup (own + 1)..WordWidth :
                \A w \in {Max({n, own})} :
                \A p \in Jointly(<<expr, item>>, n),
                   v \in Contents({text, o}, {expr, item}), a \in ArrayStates :
                    (EvalExpr(p.exprs[1], v, a) = EvalExpr(p.exprs[2], v, a))
                        <=> (Bits(text, w, signed, v, a) = Bits(o, w, signed, v, a))

(* A negated reduction, ~& ~| or ~^, is one bit wherever it is assigned.   *)
NegatedReductionsExact ==
    (IsNegatedReduction(text) /\ Ordinary(text.arg)) => AssignedExactly

(* A shift amount is the bits of its text, read as a number without sign.  *)
ShiftAmountsExact ==
    (HasSignedAmount(text) /\ Ordinary(text.left) /\ Ordinary(text.right)) => AloneExactly

(* An index keeps its own width when the declared range makes the          *)
(* frontend subtract from it (DeclaredRange::position_expr).               *)
TranslatedIndicesExact ==
    (HasWidenedIndex(text) /\ Ordinary(text.index)) => AloneExactly
=============================================================================
