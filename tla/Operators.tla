----------------------------- MODULE Operators -----------------------------
(***************************************************************************)
(* Verilog text read bottom-up, a form around what has been read, with the *)
(* expression lower_expr builds for it.  A form the frontend rejects is a  *)
(* step that cannot be taken.                                              *)
(***************************************************************************)
EXTENDS LowerExpr

CONSTANTS
    FirstTexts,    \* The names and selections that text starts from.
    Indexed,       \* The signals that are indexed.
    Counts,        \* The counts of replications.
    OtherTexts,    \* What a form takes besides text.
    MaxForms       \* Bound: how many forms are nested.

VARIABLES
    text,    \* The Verilog read so far.
    expr,    \* The expression it was lowered to.
    forms    \* How many forms have been added.

vars == <<text, expr, forms>>

Name(s)       == [form |-> "Name", id |-> s]
Number(n, w)  == [form |-> "Number", value |-> n, width |-> w]

(* The text at hand becomes form, when that is accepted.                   *)
Lowered(form) ==
    /\ forms < MaxForms
    /\ text' = form
    /\ expr' \in LowerText(form, NoBindings)
    /\ forms' = forms + 1

Init ==
    /\ forms = 0
    /\ text \in FirstTexts
    /\ expr \in LowerText(text, NoBindings)

-----------------------------------------------------------------------------
(***************************************************************************)
(* The forms there are around the text at hand.                            *)
(***************************************************************************)

AddUnary == {[form |-> "Unary", symbol |-> symbol, arg |-> text] : symbol \in UnarySymbols}

AddLeft  == {[form |-> "Binary", symbol |-> symbol, left |-> o, right |-> text] :
                symbol \in BinarySymbols, o \in OtherTexts}
AddRight == {[form |-> "Binary", symbol |-> symbol, left |-> text, right |-> o] :
                symbol \in BinarySymbols, o \in OtherTexts}

AddCondition == {[form |-> "Cond", cond |-> text, yes |-> o, no |-> p] : o, p \in OtherTexts}
AddBranch    == {[form |-> "Cond", cond |-> o, yes |-> text, no |-> p] : o, p \in OtherTexts}

AddConcat == {[form |-> "Concat", parts |-> <<o, text>>] : o \in OtherTexts}
AddRepeat == {[form |-> "Repeat", count |-> Number(n, IndexBits), arg |-> text] : n \in Counts}
AddCall   == {[form |-> "Call", name |-> name, arg |-> text] : name \in {"$signed", "$unsigned"}}
AddIndex  == {[form |-> "Index", id |-> s, index |-> text] : s \in Indexed}

Next ==
    \E form \in AddUnary \cup AddLeft \cup AddRight \cup AddCondition \cup AddBranch
                    \cup AddConcat \cup AddRepeat \cup AddCall \cup AddIndex :
        Lowered(form)

Spec == Init /\ [][Next]_vars
=============================================================================
