------------------------------ MODULE MCWidths ------------------------------
(***************************************************************************)
(* Operators over words of three bits: a one-bit signal declared [2:2], a  *)
(* two-bit one declared [1:2] and an array of two-bit elements 1 and 2.    *)
(***************************************************************************)
EXTENDS VerilogExpr

a == 1
b == 2
m == 3

MCSignals == {a, b, m}

From(left, right) == [left |-> left, right |-> right]
Signed(t) == [form |-> "Call", name |-> "$signed", arg |-> t]

MCWidth    == [s \in MCSignals |-> IF s = a THEN 1 ELSE 2]
MCDepth    == [s \in MCSignals |-> IF s = m THEN 2 ELSE 0]
MCPacked   == [s \in MCSignals |->
                  CASE s = a -> From(2, 2) [] s = b -> From(1, 2) [] s = m -> From(1, 0)]
MCUnpacked == [s \in MCSignals |-> From(1, 2)]

Two   == Number(2, IndexBits)
One   == [form |-> "Integer", value |-> 1]

(* A signal and an unsized number.                                         *)
MCTexts == {Name(b), One}
OddTexts == {Name(a), Name(b)}

(* a[2:2], $signed(b[2 -: 2]) and an unsized number.                       *)
MCOthers ==
    {[form |-> "Part", id |-> a, first |-> Two, second |-> Two],
     Signed([form |-> "Indexed", id |-> b, base |-> Two, symbol |-> "-:", width |-> Two]),
     One}

(* Few texts, for the runs that look for the forms read wrongly.           *)
OddOthers == {Number(1, 1), Name(b), Signed(Name(a))}
=============================================================================
