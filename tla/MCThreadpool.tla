---------------------------- MODULE MCThreadpool ----------------------------
(* Instances of Threadpool for TLC.                                        *)
EXTENDS Threadpool

SetTo(k) == [op |-> "set_nthreads", n |-> k]
AttachIt == [op |-> "attach", n |-> 0]
DestroyIt == [op |-> "destroy", n |-> 0]

(* A pool of two that has work from the start, shrunk to one, and         *)
(* destroyed.                                                              *)
ShrinkAndDestroy == <<AttachIt, SetTo(2), SetTo(1), DestroyIt>>

(* A pool that is kept, with its service and a worker: it grows from one   *)
(* worker to two.                                                          *)
GrowAndKeep == <<SetTo(1), AttachIt, SetTo(2)>>

DestroyedOrKept == {ShrinkAndDestroy, GrowAndKeep}

(* A pool that is kept and shrinks, for which WorkIsDone does not hold.    *)
ShrinkAndKeep == <<AttachIt, SetTo(2), SetTo(1)>>
ShrunkAndKept == {ShrinkAndKeep}
=============================================================================
