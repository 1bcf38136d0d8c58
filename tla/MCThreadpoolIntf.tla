-------------------------- MODULE MCThreadpoolIntf --------------------------
(* Two queues behind the multiplexers, one pool, and the calls of users.   *)
EXTENDS ThreadpoolIntf, TLC

CONSTANTS k1, k2, k3, k4, k5, k6, c1, c2, u1, u2, w1, w2

MCClientOf == (k1 :> c1) @@ (k2 :> c2) @@ (k3 :> CMux) @@ (k4 :> CMux)
              @@ (k5 :> SMux) @@ (k6 :> c1)
MCServiceOf == (k1 :> SMux) @@ (k2 :> CMux) @@ (k3 :> SMux) @@ (k4 :> Aid)
               @@ (k5 :> Pool) @@ (k6 :> Aid)

C(op, x) == [op |-> op, x |-> x]
P(ks, ws, p, q) == [attached |-> ks, workers |-> ws,
                    calls |-> [u \in User |-> IF u = u1 THEN p ELSE q]]
Add1 == C("add", c1)
Add2 == C("add", c2)
AidOnce == C("aid", Aid)

\* One worker, and a user who attaches, adds, destroys or clears meanwhile.
QueuePrograms ==
    {P({k1, k5}, {w1}, <<Add1, Add1>>, <<>>),
     P({k5}, {w1}, <<C("attach", k1), Add1>>, <<>>),
     P({k1}, {w1}, <<Add1>>, <<C("attach", k5)>>),
     P({k1, k5}, {w1}, <<Add1>>, <<C("destroy", c1)>>),
     P({k1, k5}, {w1}, <<Add1>>, <<C("destroy", SMux)>>),
     P({k1, k5}, {w1}, <<C("destroy", Pool)>>, <<>>),
     P({k1}, {}, <<C("attach", k5)>>, <<C("clear", SMux)>>)}

\* A queue with two services, and the aid service.
AidPrograms ==
    {P({k2, k3, k5}, {w1}, <<Add2>>, <<C("destroy", CMux)>>),
     P({k2, k3}, {}, <<Add2>>, <<Add2>>),
     P({k4}, {}, <<C("attach", k2), Add2>>, <<AidOnce>>),
     P({k3, k5}, {w1}, <<C("attach", k4), C("attach", k2)>>, <<AidOnce>>),
     P({k1, k4}, {}, <<C("attach", k6)>>, <<AidOnce>>),
     P({k1}, {}, <<C("attach", k6)>>, <<Add1, AidOnce>>)}

\* Two workers at the same element.
TwoWorkers == {P({k1, k5}, {w1, w2}, <<Add1>>, <<>>)}

AllPrograms == QueuePrograms \cup AidPrograms \cup TwoWorkers
=============================================================================
