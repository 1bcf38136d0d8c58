------------------------------ MODULE MCLlptr -------------------------------
(* Three threads at one llptr, or two, with two hazards.                   *)
EXTENDS Llptr, TLC

CONSTANTS t1, t2, t3, c1, c2, o1, o2, o3

C(op, r) == [op |-> op, c |-> c1, r |-> r, ef |-> FALSE]
On2(o) == [o EXCEPT !.c = c2]
Flagged(o) == [o EXCEPT !.ef = TRUE]
P(a, b, c) == (t1 :> a) @@ (t2 :> b) @@ (t3 :> c)

New1 == C("new", 1)
New2 == C("new", 2)
Load1 == C("load", 1)
Load2 == C("load", 2)
Store1 == C("store", 1)
Drop1 == C("drop", 1)
Drop2 == C("drop", 2)
Cas(op) == C(op, 2)

\* A reader against writers that take the pointer out, put it back, or make
\* another object at its address.
SwapPrograms ==
    {P(<<New1, Store1, New1, Store1>>, <<Load1, Drop1>>, <<Load1, Store1>>),
     P(<<New1, Store1, C("exchange", 1), Store1>>, <<Load1, Drop1>>,
       <<Load2, C("exchange", 2), Drop2>>),
     P(<<New1, Store1, Store1, New1, Store1>>, <<Load1, Load1>>, <<>>),
     P(<<New1, Store1, Load1, On2(Store1), Store1>>, <<On2(Load1), Drop1>>,
       <<Load1, On2(C("exchange", 1)), Drop1>>)}

\* Two threads that compare and exchange, and a third that stores.
CasPrograms ==
    {P(<<New2, Cas(op), Drop2, Drop1>>, <<New2, Cas(o), Drop2, Drop1>>, p) :
        op \in {"strong", "weak"}, o \in {"strong", "weak"},
        p \in {<<Store1>>, <<New1, Store1>>}}
    \cup
    {P(<<New1, Store1, Load1, New2, Cas(op), Drop1, Drop2>>, <<Load1, Drop1>>,
       <<Store1>>) : op \in {"strong", "weak", "raw", "move"}}
    \cup
    {P(<<New1, Store1, Load1, C("flag", 1), Cas("strong"),
         Flagged(Cas(op))>>, <<Load1>>, <<>>) : op \in {"strong", "raw"}}

AllPrograms == SwapPrograms \cup CasPrograms
=============================================================================
