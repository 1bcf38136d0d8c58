----------------------------- MODULE MCWorkqRun -----------------------------
(* Two workqs, three threads, and what users and jobs do.                  *)
EXTENDS WorkqRun, TLC

CONSTANTS t1, h1, h2, jc, jp, jr, jo, js, jq, wa, wb

MCWorkqOf == [j \in Jobs |-> IF j = jr THEN wb ELSE wa]
MCTypeOf == (jc :> {}) @@ (jp :> {}) @@ (jr :> {}) @@ (jo :> {"ONCE"})
            @@ (js :> {"PERSIST"}) @@ (jq :> {"PARALLEL", "NO_AID"})

C(op, x) == [op |-> op, x |-> x, lck |-> "SINGLE"]
To(w, l) == [op |-> "switch", x |-> w, lck |-> l]
Do(j) == C("activate", j)
Drop(j) == C("drop", j)

\* The user calls p, a helper q; the application has a pointer to each job
\* and to each workq, and a job of once() one to itself.
P(f, p, q) ==
    [fns |-> f,
     calls |-> [t \in Threads |-> IF t = t1 THEN p
                                  ELSE IF t = h1 THEN q ELSE <<>>],
     ptr |-> [j \in Jobs |-> IF j \notin DOMAIN f THEN 0
                             ELSE IF j = jo THEN 2 ELSE 1],
     wptr |-> [w \in Workqs |-> 1]]

\* One function, or two.
One(p) == <<p>>
Two(p, q) == <<p, q>>

\* Jobs that users destroy, or that destroy themselves.
DropPrograms ==
    {P(jp :> One(<<>>), <<Do(jp), Drop(jp), C("dropwq", wa)>>, <<>>),
     P(js :> One(<<>>), <<Do(js), Drop(js)>>, <<>>),
     P(jq :> One(<<>>), <<Do(jq), Do(jq), Drop(jq)>>,
       <<C("dropwq", wa)>>),
     P(jo :> One(<<>>), <<Do(jo), Drop(jo), C("dropwq", wa)>>, <<>>),
     P(jp :> One(<<Drop(jp)>>), <<Do(jp), C("dropwq", wa)>>, <<>>),
     P(jp :> One(<<C("deactivate", jp)>>),
       <<C("immed", jp), C("deactivate", jp)>>, <<>>),
     P(jp :> One(<<>>), <<Do(jp), C("aidwq", wa), Drop(jp)>>, <<>>)}

\* Jobs that switch to another workq, and back.
SwitchPrograms ==
    {P((jp :> One(<<To(wb, "SINGLE"), To(wa, "SINGLE")>>)) @@
       (jr :> One(<<>>)), <<Do(jp), Do(jr)>>, <<>>),
     P((jp :> One(<<To(wa, "PARALLEL"), To(wb, "PARALLEL"),
                    To(None, "SINGLE")>>)),
       <<Do(jp), Drop(jp)>>, <<>>),
     P((jp :> One(<<C("immed", jr)>>)) @@
       (jr :> One(<<To(wa, "SINGLE"), To(wa, "PARALLEL")>>)),
       <<C("immed", jp), C("immed", jr), C("aid", None)>>, <<>>)}

\* A coroutine job beside a job of the same workq.
CoPrograms ==
    {P((jc :> Two(<<>>, <<>>)) @@ (jp :> One(<<>>)),
       <<Do(jp), Do(jc)>>, <<>>),
     P(jc :> Two(<<To(wb, "SINGLE")>>, <<>>), <<Do(jc)>>, <<>>)}

AllPrograms == DropPrograms \cup SwitchPrograms \cup CoPrograms
=============================================================================
