------------------------------ MODULE MCFuture ------------------------------
(* Instances of Future: what the threads of a program do with each other.  *)
EXTENDS Future, TLC

CONSTANTS p, q,        \* promises
          l, fa, m, j, \* lazy, lazy with an argument, pass_promise, job
          c1, c2,      \* a callback on fa, and one on a shared future
          t1, t2, w    \* threads, the last a worker

ArgsDef == (l :> <<>>) @@ (fa :> <<p>>) @@ (m :> <<>>) @@ (j :> <<p>>)
OnDef == (c1 :> fa) @@ (c2 :> q)

Does(a, b, c) == (t1 :> a) @@ (t2 :> b) @@ (w :> c)

Make_(o) == Frame("make", o, ArgsDef[o])
Get_(o) == Frame("get", o, <<>>)
Start_(o) == Frame("start", o, <<"sync">>)
TimedWait(o) == Frame("wait_until", o, <<>>)
Value(o) == Frame("set", o, <<"value", "user">>)
Drop_(o) == Frame("drop", o, <<>>)
Except(o) == Frame("except", o, <<>>)
Convert_(o, src) == Frame("convert", o, <<src>>)
Back(c, how) == Frame("callback", OnDef[c], <<c, how>>)

(* A function whose argument is set while it is made, started and waited   *)
(* for, with a callback.                                                   *)
ArgumentRace == Does(<<Make_(fa), Get_(fa)>>, <<Value(p), Drop_(p)>>,
                     <<Back(c1, "start")>>)

(* A job whose argument is broken or excepted while it is started twice. *)
JobRace == Does(<<Make_(j), Start_(j), Get_(j)>>, <<Except(p), Drop_(p)>>,
                <<>>)

(* A promise that is waited for while it is converted from a function. *)
LazyConversion == Does(<<Make_(l), Convert_(p, l)>>, <<TimedWait(p)>>,
                       <<Get_(p)>>)

(* A promise converted from one that is set meanwhile, as a shared future. *)
SharedConversion == Does(<<Convert_(p, q), TimedWait(l)>>,
                         <<Make_(l), Back(c2, "defer"), Get_(p)>>,
                         <<Value(q), Drop_(q)>>)

(* A promise converted from a job, which its worker runs meanwhile. *)
JobConversion == Does(<<Value(p), Drop_(p), Make_(j), Convert_(q, j)>>,
                      <<Get_(q)>>, <<>>)

(* A function that is given its promise. *)
PassedPromise == Does(<<Make_(m), Get_(m)>>, <<Start_(m)>>, <<>>)

(* Two promises of one shared state, and a callback that waits. *)
ExceptorRace == Does(<<Value(q), Drop_(q)>>, <<Except(q)>>,
                     <<Back(c2, "start")>>)

AllPrograms == {ArgumentRace, JobRace, LazyConversion, SharedConversion,
                JobConversion, PassedPromise, ExceptorRace}
=============================================================================
