---------------------------- MODULE MCStatements ----------------------------
(***************************************************************************)
(* Statements over words of four bits and integers of three: a one-bit     *)
(* signal, two two-bit signals declared [2:1] and [1:2], and an array of   *)
(* two two-bit elements, 1 and 2.                                          *)
(***************************************************************************)
EXTENDS VerilogStatements

a == "a"
b == "b"
c == "c"
m == "m"

MCSignals == {a, b, c, m}

From(left, right) == [left |-> left, right |-> right]

MCWidth    == [s \in MCSignals |-> IF s = a THEN 1 ELSE 2]
MCDepth    == [s \in MCSignals |-> IF s = m THEN 2 ELSE 0]
MCPacked   == [s \in MCSignals |->
                  CASE s = a -> From(0, 0) [] s = b -> From(2, 1)
                    [] s = c -> From(1, 2) [] s = m -> From(1, 0)]
MCUnpacked == [s \in MCSignals |-> From(1, 2)]

Name(s)       == [form |-> "Name", id |-> s]
Num(n)        == [form |-> "Integer", value |-> n]
Sized(n, w)   == [form |-> "Number", value |-> n, width |-> w]
Digits(d, w)  == [form |-> "Digits", digits |-> d, width |-> w]
Bin(x, o, y)  == [form |-> "Binary", symbol |-> o, left |-> x, right |-> y]
Inv(x)        == [form |-> "Unary", symbol |-> "~", arg |-> x]
At(s, x)      == [form |-> "Index", id |-> s, index |-> x]
Cat(x, y)     == [form |-> "Concat", parts |-> <<x, y>>]
Slice(s, x, y) == [form |-> "Part", id |-> s, first |-> Num(x), second |-> Num(y)]
Up(s, x, w)   == [form |-> "Indexed", id |-> s, base |-> x, symbol |-> "+:", width |-> Num(w)]

A == Name(a)
B == Name(b)
C == Name(c)
I == Name("i")
J == Name("j")

Set(targets, x)   == [kind |-> "Assign", blocking |-> TRUE, targets |-> targets, value |-> x]
Queue(targets, x) == [kind |-> "Assign", blocking |-> FALSE, targets |-> targets, value |-> x]

MCAssignments ==
    {Queue(<<B>>, Bin(B, "+", C)), Queue(<<A, B>>, Cat(B, A)),
     Set(<<C, A>>, Bin(A, "-", B)), Set(<<A, B>>, Cat(B, A)), Set(<<At(b, Num(1)), Slice(c, 1, 2)>>, Slice(b, 2, 1)),
     Set(<<At(b, I)>>, A), Set(<<Up(c, I, 1)>>, Bin(A, "^", At(b, I))), Queue(<<At(c, Bin(I, "-", J))>>, A),
     Queue(<<At(m, B)>>, C), Set(<<At(m, I)>>, Bin(B, "-", I)), Set(<<C>>, At(m, A)),
     Set(<<C>>, Bin(Bin(I, "-", Num(1)), "<", Num(1))), Set(<<At(b, A)>>, A), Set(<<Slice(c, 2, 1)>>, B)}
        \cup {[kind |-> "Task", name |-> t] : t \in {"empty_statement", "other"}}

MCOthers == {Set(<<A>>, Inv(A))}

MCConditions == {A, Bin(B, "+", C)}

Loop(var, start, cond, step) == [var |-> var, start |-> start, cond |-> cond, step |-> step]

MCLoops ==
    {Loop("i", Num(0), Bin(I, "<", Num(2)), Bin(I, "+", Num(1))),
     Loop("i", Num(2), Bin(I, ">", Num(0)), Bin(I, "-", Num(1))),
     Loop("i", Num(2), Bin(I, ">", Num(0)), Bin(I, "-", Num(3))),
     Loop("i", Num(0), Bin(I, "<", Num(3)), Bin(I, "+", Num(1))),
     Loop("i", Num(1), Bin(I, "!=", Num(0)), I),
     Loop("j", Num(1), Bin(J, "<=", I), Bin(J, "+", Num(1))),
     Loop("j", Num(0), Bin(J, "<", Num(2)), Bin(J, "+", Num(1)))}

Arms(mode, selector, first, second) ==
    [mode |-> mode, selector |-> selector, first |-> first, second |-> second]

MCCases ==
    {Arms("case", B, <<Digits(<<"1", "0", "1">>, 2), I>>, <<C>>),
     Arms("case", Bin(B, "+", C), <<Sized(1, 2)>>, <<Sized(4, 3)>>),
     Arms("casez", Cat(A, B), <<Digits(<<"1", "?">>, 2), Sized(5, 3)>>, <<Digits(<<"1">>, 1)>>),
     Arms("casez", Bin(B, "+", C), <<Digits(<<"?", "1">>, 2)>>, <<Digits(<<"1", "?">>, 3)>>)}
=============================================================================
