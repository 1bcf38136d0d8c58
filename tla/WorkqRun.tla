------------------------------- MODULE WorkqRun -------------------------------
(***************************************************************************)
(* What a thread does with a run lock once it has one: the stack of run    *)
(* locks of a thread, co-runnables and coroutine jobs, workq_switch(), and *)
(* the destruction of jobs and workqs that threads still refer to          *)
(* (src/src/workq.cc, src/include/ilias/workq.h).                          *)
(*                                                                         *)
(* Every thread has a stack of frames, the top one first; an action is one *)
(* step of the top one.  How a run lock finds its job is the subject of    *)
(* module Workq: here lock(workq&) takes effect at once, the runqs are     *)
(* sets, and job_to_runq() is one step.  A reference count is the number   *)
(* of places that hold a pointer.                                          *)
(*                                                                         *)
(* Jobs of type ONCE are those of workq::once(), which refer to themselves *)
(* until they run.  The service outlives the model, std::shared_ptr has    *)
(* atomic operations (atom_lck is not built), and the stacks stay below    *)
(* ACT_IMMED_MAX_STACK.                                                    *)
(***************************************************************************)
EXTENDS Integers, Sequences, SequencesExt, FiniteSets

CONSTANTS
    Threads,
    Helpers,   \* the threads that help the service while it has work
    Jobs, Workqs,
    WorkqOf,   \* workq_job::m_wq
    TypeOf,    \* workq_job::m_type, as the set of its flags
    Programs,  \* what the jobs do, and the calls that threads make
    AidCount,  \* the argument of the helpers' aid(): 32 in do_work()
    GenMod,    \* values of m_run_gen before it wraps: 2^32 in the code
    None       \* the null pointer

CallNames == {"activate", "immed", "deactivate", "drop", "dropwq", "aid",
              "aidwq", "switch"}
Call == [op : CallNames, x : Jobs \cup Workqs \cup {None},
         lck : {"SINGLE", "PARALLEL"}]

\* Calls on the jobs js, the ones that there are.
CallsOn(js) ==
    {c \in Call :
        /\ c.op \in {"activate", "immed", "deactivate", "drop"} => c.x \in js
        /\ c.op \in {"dropwq", "aidwq"} => c.x \in Workqs
        /\ c.op = "switch" => c.x \in Workqs \cup {None}}

ASSUME RunAssumption ==
    /\ Helpers \subseteq Threads
    /\ WorkqOf \in [Jobs -> Workqs]
    /\ TypeOf \in [Jobs -> SUBSET {"ONCE", "PERSIST", "PARALLEL", "NO_AID"}]
    /\ None \notin Jobs \cup Workqs
    /\ AidCount \in Nat \ {0} /\ GenMod \in Nat \ {0}
    /\ \A p \in Programs :
          /\ DOMAIN p.fns \subseteq Jobs
          /\ \A j \in DOMAIN p.fns :
                /\ p.fns[j] \in Seq(Seq(CallsOn(DOMAIN p.fns)))
                /\ p.fns[j] # <<>>
          /\ p.calls \in [Threads -> Seq(CallsOn(DOMAIN p.fns))]
          /\ p.ptr \in [Jobs -> Nat] /\ p.wptr \in [Workqs -> Nat]

VARIABLES
    fns,      \* the functions of each job, more than one for a coroutine job
    active, running, gen,  \* m_state and m_run_gen
    runq,     \* the lists of its workq that a job is on
    wqq,      \* m_wq_runq of the service
    single, parallel,      \* m_run_single and m_run_parallel
    rlck, count, idx,      \* m_rlck, m_runcount and m_co_idx
    coq,      \* m_co_runq of the service
    ptr, wptr,             \* the pointers of the application
    suicide,  \* int_suicide
    deleted,  \* how often a job or a workq was deleted
    stack

jobVars == <<active, running, gen, runq, wqq>>
lockVars == <<single, parallel>>
coVars == <<rlck, count, idx, coq>>
ptrVars == <<ptr, wptr>>
vars == <<fns, jobVars, lockVars, coVars, ptrVars, suicide, deleted, stack>>

-----------------------------------------------------------------------------
(* Frames and references.                                                  *)

NoLock == [wq |-> None, lck |-> "", job |-> None, co |-> None]
Lock(w, l, j, c) == [wq |-> w, lck |-> l, job |-> j, co |-> c]

\* x is what the frame is about, pin a pointer that it holds.
Frame(at, x) == [at |-> at, x |-> x, lock |-> NoLock, prog |-> <<>>,
                 left |-> 0, gen |-> 0, b |-> FALSE, pin |-> None]

Top(t) == stack[t][1]
Under(t) == stack[t][2]
At(t, l) == stack[t] # <<>> /\ Top(t).at = l
Go(t, f, calls) == stack' = [stack EXCEPT ![t] = calls \o <<f>> \o Tail(@)]
Goto(t, l) == Go(t, [Top(t) EXCEPT !.at = l], <<>>)
Return(t, calls) == stack' = [stack EXCEPT ![t] = calls \o Tail(@)]

Frames == UNION {{<<t, i>> : i \in DOMAIN stack[t]} : t \in Threads}
F(f) == stack[f[1]][f[2]]

Made == DOMAIN fns
IsParallel(j) == "PARALLEL" \in TypeOf[j]
IsCoroutine(j) == Len(fns[j]) > 1
Lists(j) == IF IsParallel(j) THEN {"all", "parallel"} ELSE {"all"}

\* A list without one of its elements.
Without(list, e) ==
    IF e \in ToSet(list)
    THEN RemoveAt(list, CHOOSE i \in DOMAIN list : list[i] = e)
    ELSE list

\* int_refcnt: the pointers in locks, lists and frames.
Refs(o) ==
    LET In(l) == l.wq = o \/ l.job = o \/ l.co = o
    IN  Quantify(Frames, LAMBDA f : In(F(f).lock))
        + Quantify(Frames, LAMBDA f : F(f).pin = o)
        + Quantify(Made, LAMBDA j : In(rlck[j]))
        + (IF o \in Workqs THEN (IF o \in wqq THEN 1 ELSE 0)
           ELSE Cardinality(runq[o]) + (IF o \in ToSet(coq) THEN 1 ELSE 0))

\* Who drops the last reference tests int_suicide next.
Released(o) ==
    IF o # None /\ Refs(o) = 1 THEN <<Frame("rel.test", o)>> ELSE <<>>

\* m_refcnt of a workq: the application's pointers and those of its jobs.
WorkqPtrs(w) == wptr[w] + Quantify(Made, LAMBDA j : /\ WorkqOf[j] = w
                                                 /\ deleted[j] = 0)

\* The wq_stack of a thread: the frames that run a job or a co-runnable.
OnStackLabels == {"body", "co.publish", "co.link", "co.fetch", "co.fn",
                  "co.erase", "co.dec", "co.unlock", "co.store"}

\* wq_tls::find(const workq_job&)
find(t, j) == \E i \in DOMAIN stack[t] : /\ stack[t][i].at \in OnStackLabels
                                         /\ stack[t][i].lock.job = j

-----------------------------------------------------------------------------
(* The locks of a workq and of a job.                                      *)

unlock_run(w, l) ==
    \/ /\ l = "SINGLE"
       /\ single' = [single EXCEPT ![w] = FALSE]
       /\ UNCHANGED parallel
    \/ /\ l = "PARALLEL"
       /\ parallel' = [parallel EXCEPT ![w] = @ - 1]
       /\ UNCHANGED single

Runnable(j) == active[j] /\ ~running[j]

\* The lock that lock(workq&) has for job j of its workq: run-single, given
\* up for a parallel job, or run-parallel when another thread has it.
LockFor(j) == IF IsParallel(j) THEN "PARALLEL" ELSE "SINGLE"
CanLock(j) == ~single[WorkqOf[j]] \/ IsParallel(j)

\* What run() of a job does first: a job of once() drops its pointer.
Body(j) ==
    LET self == [op |-> "drop", x |-> j, lck |-> "SINGLE"]
    IN  [Frame("body", j) EXCEPT
           !.lock = Lock(WorkqOf[j], LockFor(j), j, None),
           !.prog = (IF "ONCE" \in TypeOf[j] THEN <<self>> ELSE <<>>)
                    \o (IF IsCoroutine(j) THEN <<>> ELSE fns[j][1])]

\* The job is locked, taken off its lists and run, on top of frame f.
LockJob(t, j, f) ==
    /\ Runnable(j) /\ CanLock(j)
    /\ running' = [running EXCEPT ![j] = TRUE]
    /\ active' = [active EXCEPT ![j] = "PERSIST" \in TypeOf[j]]
    /\ gen' = [gen EXCEPT ![j] = (@ + 1) % GenMod]
    /\ runq' = [runq EXCEPT ![j] = {}]
    /\ IF IsParallel(j)
       THEN /\ parallel' = [parallel EXCEPT ![WorkqOf[j]] = @ + 1]
            /\ UNCHANGED single
       ELSE /\ single' = [single EXCEPT ![WorkqOf[j]] = TRUE]
            /\ UNCHANGED parallel
    /\ stack' = [stack EXCEPT ![t] = <<Body(j)>> \o f \o Tail(@)]

job_to_runq(t) ==
    LET j == Top(t).x
    IN  /\ At(t, "runq")
        /\ runq' = [runq EXCEPT ![j] = Lists(j)]
        /\ wqq' = IF runq[j] = Lists(j) THEN wqq ELSE wqq \cup {WorkqOf[j]}
        /\ Return(t, <<>>)
        /\ UNCHANGED <<fns, active, running, gen, lockVars, coVars, ptrVars,
                       suicide, deleted>>

\* The lock of a frame that has left the wq_stack: wq_run_lock::unlock().
\* A co-runnable's own unlock_run() does nothing.
unlock(t) ==
    LET f == Top(t)   l == f.lock   j == l.job
    IN  /\ \/ /\ At(t, "ul.job")
              /\ IF j = None \/ IsCoroutine(j)
                 THEN Goto(t, "ul.wq") /\ UNCHANGED running
                 ELSE /\ running' = [running EXCEPT ![j] = FALSE]
                      /\ Go(t, [f EXCEPT !.at = "ul.wq"],
                            IF active[j] /\ "ONCE" \notin TypeOf[j]
                            THEN <<Frame("runq", j)>> ELSE <<>>)
              /\ UNCHANGED lockVars
           \/ /\ At(t, "ul.wq")
              /\ IF l.wq = None THEN UNCHANGED lockVars
                 ELSE unlock_run(l.wq, l.lck)
              /\ Go(t, [f EXCEPT !.at = "ul.ref", !.lock.wq = None],
                    Released(l.wq))
              /\ UNCHANGED running
           \/ /\ At(t, "ul.ref")
              /\ Return(t, Released(j))
              /\ UNCHANGED <<running, lockVars>>
        /\ UNCHANGED <<fns, active, gen, runq, wqq, coVars, ptrVars, suicide,
                       deleted>>

-----------------------------------------------------------------------------
(* activate() and deactivate().                                            *)

Activate(t, j, immed, f) ==
    /\ active' = [active EXCEPT ![j] = TRUE]
    /\ Go(t, f, (IF active[j] \/ running[j] THEN <<>>
                 ELSE <<Frame("runq", j)>>)
                \o (IF immed /\ "NO_AID" \notin TypeOf[j]
                    THEN <<Frame("immed", j)>> ELSE <<>>))
    /\ UNCHANGED <<fns, running, gen, runq, wqq, lockVars, coVars, ptrVars,
                   suicide, deleted>>

\* ACT_IMMED runs the job here and now, if it gets the lock it needs.
Immed(t) ==
    LET j == Top(t).x
    IN  /\ At(t, "immed")
        /\ \/ LockJob(t, j, <<>>)
           \/ /\ ~(Runnable(j) /\ CanLock(j))
              /\ Return(t, <<>>)
              /\ UNCHANGED <<active, running, gen, runq, lockVars>>
        /\ UNCHANGED <<fns, wqq, coVars, ptrVars, suicide, deleted>>

\* The generation is read before ACTIVE is cleared.  Outside of the job the
\* call spins while that run goes on.
deactivate(t) ==
    LET f == Top(t)   j == f.x
    IN  /\ \/ /\ At(t, "de.load")
              /\ Go(t, [f EXCEPT !.at = "de.clear", !.gen = gen[j]], <<>>)
              /\ UNCHANGED active
           \/ /\ At(t, "de.clear")
              /\ active' = [active EXCEPT ![j] = FALSE]
              /\ IF running[j] /\ ~find(t, j) THEN Goto(t, "de.wait")
                 ELSE Return(t, <<>>)
           \/ /\ At(t, "de.wait")
              /\ ~running[j] \/ gen[j] # f.gen
              /\ Return(t, <<>>)
              /\ UNCHANGED active
        /\ UNCHANGED <<fns, running, gen, runq, wqq, lockVars, coVars,
                       ptrVars, suicide, deleted>>

-----------------------------------------------------------------------------
(* aid(): of the service, and of one workq.                                *)

AidCo(t) ==
    LET f == Top(t)   c == f.pin   w == WorkqOf[c]
    IN  /\ \/ /\ At(t, "aid") /\ f.left > 0 /\ coq # <<>>
              /\ Go(t, [f EXCEPT !.at = "aid.co", !.pin = coq[1]], <<>>)
              /\ UNCHANGED <<count, parallel>>
           \/ /\ At(t, "aid.co") /\ c # None /\ f.left > 0
              /\ count' = [count EXCEPT ![c] = @ + 1]
              /\ parallel' = [parallel EXCEPT ![w] = @ + 1]
              /\ Go(t, f, <<[Frame("co.fetch", c) EXCEPT
                               !.lock = Lock(w, "PARALLEL", None, c)]>>)
           \/ /\ At(t, "aid.co") /\ (c = None \/ f.left = 0)
              /\ Go(t, [f EXCEPT !.at = "aid", !.pin = None,
                                 !.left = IF @ = 0 THEN 0 ELSE @ - 1],
                    Released(c))
              /\ UNCHANGED <<count, parallel>>
        /\ UNCHANGED <<fns, jobVars, single, rlck, idx, coq, ptrVars,
                       suicide, deleted>>

\* ++co, before the lock of the wq_stack is unlocked.  A co-runnable that was
\* erased meanwhile has left its place.
AidNext(t) ==
    LET f == Top(t)   c == f.x
        follows(n) == \E i \in DOMAIN coq :
            coq[i] = c /\ n = (IF i < Len(coq) THEN coq[i + 1] ELSE None)
    IN  /\ At(t, "co.next")
        /\ \E n \in ToSet(coq) \cup {None} :
              /\ c \in ToSet(coq) => follows(n)
              /\ stack' = [stack EXCEPT ![t] =
                    Released(c) \o <<[f EXCEPT !.at = "ul.job"],
                                     [Under(t) EXCEPT !.pin = n]>>
                    \o Tail(Tail(@))]
        /\ UNCHANGED <<fns, jobVars, lockVars, coVars, ptrVars, suicide,
                       deleted>>

\* lock(workq_service&): a workq of m_wq_runq; when it has no job the workq
\* is erased and tried again, with the result that it is linked again, and
\* so on for as long as there is none.
AidPick(t) ==
    LET f == Top(t)
    IN  /\ At(t, "aid")
        /\ \/ /\ f.left = 0 \/ (coq = <<>> /\ wqq = {})
              /\ Return(t, <<>>)
           \/ /\ f.left > 0 /\ coq = <<>>
              /\ \E w \in wqq : Go(t, [f EXCEPT !.at = "aid.wq", !.pin = w],
                                   <<>>)
        /\ UNCHANGED <<fns, jobVars, lockVars, coVars, ptrVars, suicide,
                       deleted>>

\* Run-single looks at m_runq, run-parallel at m_p_runq.  A job that cannot
\* be locked is off that list then.
ListOf(w) == IF single[w] THEN "parallel" ELSE "all"
OnQueue(w) == {j \in Made : WorkqOf[j] = w /\ ListOf(w) \in runq[j]}

AidWorkq(t) ==
    LET f == Top(t)
        w == IF At(t, "wq") THEN f.x ELSE f.pin
        next == [f EXCEPT !.at = IF @ = "wq" THEN @ ELSE "aid",
                          !.pin = None, !.b = FALSE, !.left = @ - 1]
    IN  /\ At(t, "aid.wq") \/ (At(t, "wq") /\ f.left > 0)
        /\ \/ /\ \E j \in OnQueue(w) : LockJob(t, j, <<next>>)
              /\ wqq' = IF f.b THEN wqq \cup {w} ELSE wqq
           \/ /\ \A j \in OnQueue(w) : ~Runnable(j)
              /\ runq' = [j \in Jobs |-> IF j \in OnQueue(w)
                                         THEN runq[j] \ {ListOf(w)}
                                         ELSE runq[j]]
              /\ IF f.at = "wq" THEN Return(t, <<>>) /\ UNCHANGED wqq
                 ELSE /\ wqq' = IF f.b THEN wqq ELSE wqq \ {w}
                      /\ Go(t, [f EXCEPT !.b = ~@], <<>>)
              /\ UNCHANGED <<active, running, gen, lockVars>>
        /\ UNCHANGED <<fns, coVars, ptrVars, suicide, deleted>>

AidWorkqEnd(t) ==
    /\ At(t, "wq") /\ Top(t).left = 0
    /\ Return(t, <<>>)
    /\ UNCHANGED <<fns, jobVars, lockVars, coVars, ptrVars, suicide, deleted>>

-----------------------------------------------------------------------------
(* Coroutine jobs.                                                         *)

\* run() of a coroutine job: the run lock goes from the thread to the job.
co_publish(t) ==
    LET f == Top(t)   j == f.x
    IN  /\ \/ /\ At(t, "co.publish")
              /\ rlck' = [rlck EXCEPT ![j] = f.lock]
              /\ idx' = [idx EXCEPT ![j] = 0]
              /\ count' = [count EXCEPT ![j] = Len(fns[j])]
              /\ Go(t, [f EXCEPT !.at = "co.link", !.lock = NoLock], <<>>)
              /\ UNCHANGED coq
           \/ /\ At(t, "co.link")
              /\ coq' = Append(coq, j)
              /\ Goto(t, "ul.job")
              /\ UNCHANGED <<rlck, count, idx>>
        /\ UNCHANGED <<fns, jobVars, lockVars, ptrVars, suicide, deleted>>

\* Mutant: a thread leaves the co-runnable after one function.
co_run_once(t) ==
    LET f == Top(t)   c == f.x
    IN  /\ At(t, "co.fetch")
        /\ IF idx[c] < Len(fns[c]) /\ ~f.b
           THEN /\ idx' = [idx EXCEPT ![c] = @ + 1]
                /\ stack' = [stack EXCEPT ![t] =
                       <<[f EXCEPT !.at = "co.fn", !.b = TRUE,
                                   !.prog = fns[c][idx[c] + 1]],
                         [Under(t) EXCEPT !.left = @ - 1]>>
                       \o Tail(Tail(@))]
           ELSE Goto(t, "co.erase") /\ UNCHANGED idx
        /\ UNCHANGED <<fns, jobVars, lockVars, rlck, count, coq, ptrVars,
                       suicide, deleted>>

\* co_run(): the next function, until they are all taken.  aid() counts a
\* co-runnable of which it has run a function.
co_run(t) ==
    LET f == Top(t)   c == f.x
    IN  /\ At(t, "co.fetch")
        /\ idx' = [idx EXCEPT ![c] = @ + 1]
        /\ IF idx[c] < Len(fns[c])
           THEN stack' = [stack EXCEPT ![t] =
                   <<[f EXCEPT !.at = "co.fn", !.b = TRUE,
                               !.prog = fns[c][idx[c] + 1]],
                     IF f.b THEN Under(t)
                     ELSE [Under(t) EXCEPT !.left = @ - 1]>>
                   \o Tail(Tail(@))]
           ELSE Goto(t, "co.erase")
        /\ UNCHANGED <<fns, jobVars, lockVars, rlck, count, coq, ptrVars,
                       suicide, deleted>>

\* release(): the job leaves m_co_runq, and whoever brings m_runcount from
\* one to zero puts the job's run lock on its own stack.
release(t) ==
    LET f == Top(t)   c == f.x   l == f.lock
    IN  /\ \/ /\ At(t, "co.erase")
              /\ coq' = Without(coq, c)
              /\ Go(t, [f EXCEPT !.at = "co.dec"],
                    IF c \in ToSet(coq) THEN Released(c) ELSE <<>>)
              /\ UNCHANGED <<count, rlck, lockVars>>
           \/ /\ At(t, "co.dec")
              /\ count' = [count EXCEPT ![c] = @ - 1]
              /\ Go(t, [f EXCEPT !.at = "co.unlock", !.b = count[c] = 1,
                                 !.lock.co = None], Released(c))
              /\ UNCHANGED <<coq, rlck, lockVars>>
           \/ /\ At(t, "co.unlock")
              /\ IF l.wq = None THEN UNCHANGED lockVars
                 ELSE unlock_run(l.wq, l.lck)
              /\ Go(t, [f EXCEPT !.at = IF f.b THEN "co.store" ELSE "co.next",
                                 !.lock = NoLock], Released(l.wq))
              /\ UNCHANGED <<coq, count, rlck>>
           \/ /\ At(t, "co.store")
              /\ rlck' = [rlck EXCEPT ![c] = NoLock]
              /\ Go(t, [f EXCEPT !.at = "co.next", !.lock = rlck[c]], <<>>)
              /\ UNCHANGED <<coq, count, lockVars>>
        /\ UNCHANGED <<fns, jobVars, idx, ptrVars, suicide, deleted>>

-----------------------------------------------------------------------------
(* workq_switch(), on the run lock of the innermost frame of the wq_stack. *)

Recursive(t, w) ==
    \E i \in 2 .. Len(stack[t]) :
        /\ stack[t][i].at \in OnStackLabels
        /\ stack[t][i].lock.wq = w /\ stack[t][i].lock.lck = "SINGLE"

\* Mutant: the lock on the old workq is not given up.
SwitchForgets(t, c, f) ==
    LET l == f.lock   w == c.x
    IN  /\ IF f.at \notin OnStackLabels THEN Go(t, f, <<>>)
           ELSE Go(t, [f EXCEPT !.lock.wq = None],
                   <<[Frame("sw.lock", w) EXCEPT
                        !.lock = [NoLock EXCEPT !.lck = c.lck]]>>)
        /\ UNCHANGED <<fns, jobVars, lockVars, coVars, ptrVars, suicide,
                       deleted>>

\* A switch to null releases the lock.  One to the same workq changes the
\* kind of the lock at once if it can; a recursive run-single is refused.
Switch(t, c, f) ==
    LET l == f.lock   w == c.x
    IN  /\ \/ /\ \/ f.at \notin OnStackLabels
                 \/ w = None /\ l.wq = None
                 \/ w # None /\ l.wq = w /\ l.lck = c.lck
                 \/ w # None /\ l.wq # w /\ c.lck = "SINGLE" /\ Recursive(t, w)
                 \/ w # None /\ l.wq = w /\ l.lck # c.lck /\ c.lck = "SINGLE"
                    /\ Recursive(t, w)
              /\ Go(t, f, <<>>)
              /\ UNCHANGED lockVars
           \/ /\ f.at \in OnStackLabels /\ w = None /\ l.wq # None
              /\ unlock_run(l.wq, l.lck)
              /\ Go(t, [f EXCEPT !.lock.wq = None], Released(l.wq))
           \/ /\ f.at \in OnStackLabels /\ w # None /\ l.wq = w
              /\ l.lck = "SINGLE" /\ c.lck = "PARALLEL"
              /\ parallel' = [parallel EXCEPT ![w] = @ + 1]
              /\ single' = [single EXCEPT ![w] = FALSE]
              /\ Go(t, [f EXCEPT !.lock.lck = "PARALLEL"], <<>>)
           \/ /\ f.at \in OnStackLabels /\ w # None
              /\ l.wq # w \/ (l.lck = "PARALLEL" /\ c.lck = "SINGLE")
              /\ ~(c.lck = "SINGLE" /\ Recursive(t, w))
              /\ IF l.wq = None THEN UNCHANGED lockVars
                 ELSE unlock_run(l.wq, l.lck)
              /\ Go(t, [f EXCEPT !.lock.wq = None],
                    Released(l.wq) \o
                    <<[Frame("sw.lock", w) EXCEPT
                         !.lock = [NoLock EXCEPT !.lck = c.lck]]>>)
        /\ UNCHANGED <<fns, jobVars, coVars, ptrVars, suicide, deleted>>


\* lock_wq(): until it has the lock of the kind that was asked for.
SwitchLock(t) ==
    LET w == Top(t).x   l == Top(t).lock.lck
        has == /\ Top(t).at = "sw.lock"
               /\ l = "SINGLE" => ~single[w]
    IN  /\ \/ /\ At(t, "sw.lock") /\ has
              /\ IF l = "SINGLE"
                 THEN /\ single' = [single EXCEPT ![w] = TRUE]
                      /\ UNCHANGED parallel
                 ELSE /\ parallel' = [parallel EXCEPT ![w] = @ + 1]
                      /\ UNCHANGED single
              /\ stack' = [stack EXCEPT ![t] =
                    <<[Under(t) EXCEPT !.lock.wq = w, !.lock.lck = l]>>
                    \o Tail(Tail(@))]
           \/ /\ At(t, "sw.lock") /\ ~has
              /\ parallel' = [parallel EXCEPT ![w] = @ + 1]
              /\ Goto(t, "sw.undo")
              /\ UNCHANGED single
           \/ /\ At(t, "sw.undo")
              /\ unlock_run(w, "PARALLEL")
              /\ Goto(t, "sw.lock")
        /\ UNCHANGED <<fns, jobVars, coVars, ptrVars, suicide, deleted>>

-----------------------------------------------------------------------------
(* The end of jobs and workqs.                                             *)

\* A job that is deleted drops its pointer to its workq.
Delete(t, o) ==
    /\ deleted' = [deleted EXCEPT ![o] = @ + 1]
    /\ Return(t, IF /\ o \in Jobs /\ deleted[o] = 0
                    /\ WorkqPtrs(WorkqOf[o]) = 1
                 THEN <<Frame("wqd", WorkqOf[o])>> ELSE <<>>)

\* The end of workq_intref_mgr::release(), after the last decrement.  What
\* int_suicide holds once the object is gone is anyone's guess.
RelTest(t) ==
    LET o == Top(t).x
    IN  /\ At(t, "rel.test")
        /\ \E b \in BOOLEAN :
              /\ deleted[o] = 0 => b = (o \in suicide)
              /\ IF b THEN Delete(t, o)
                 ELSE Return(t, <<>>) /\ UNCHANGED deleted
        /\ UNCHANGED <<fns, jobVars, lockVars, coVars, ptrVars, suicide>>

\* Mutant: nobody waits for the references.
delete_job_at_once(t) ==
    LET f == Top(t)   j == f.x
    IN  /\ \/ /\ At(t, "del.erase")
              /\ runq' = [runq EXCEPT ![j] = {}]
              /\ Go(t, [f EXCEPT !.at = "del.find"], <<Frame("de.load", j)>>)
              /\ UNCHANGED <<suicide, deleted>>
           \/ /\ At(t, "del.find")
              /\ IF find(t, j)
                 THEN /\ suicide' = suicide \cup {j}
                      /\ Return(t, <<>>)
                 ELSE Goto(t, "del.wait") /\ UNCHANGED suicide
              /\ UNCHANGED <<runq, deleted>>
           \/ /\ At(t, "del.wait")
              /\ Delete(t, j)
              /\ UNCHANGED <<runq, suicide>>
        /\ UNCHANGED <<fns, active, running, gen, wqq, lockVars, coVars,
                       ptrVars>>

\* Mutant: from within the job its deletion is left to nobody.
delete_job_forgets(t) ==
    LET f == Top(t)   j == f.x
    IN  /\ \/ /\ At(t, "del.erase")
              /\ runq' = [runq EXCEPT ![j] = {}]
              /\ Go(t, [f EXCEPT !.at = "del.find"], <<Frame("de.load", j)>>)
              /\ UNCHANGED <<suicide, deleted>>
           \/ /\ At(t, "del.find")
              /\ IF find(t, j) THEN Return(t, <<>>) ELSE Goto(t, "del.wait")
              /\ UNCHANGED <<runq, suicide, deleted>>
           \/ /\ At(t, "del.wait") /\ Refs(j) = 0
              /\ Delete(t, j)
              /\ UNCHANGED <<runq, suicide>>
        /\ UNCHANGED <<fns, active, running, gen, wqq, lockVars, coVars,
                       ptrVars>>

\* wq_deleter on a job.
delete_job(t) ==
    LET f == Top(t)   j == f.x
    IN  /\ \/ /\ At(t, "del.erase")
              /\ runq' = [runq EXCEPT ![j] = {}]
              /\ Go(t, [f EXCEPT !.at = "del.find"], <<Frame("de.load", j)>>)
              /\ UNCHANGED <<suicide, deleted>>
           \/ /\ At(t, "del.find")
              /\ IF find(t, j)
                 THEN /\ suicide' = suicide \cup {j}
                      /\ Return(t, <<>>)
                 ELSE Goto(t, "del.wait") /\ UNCHANGED suicide
              /\ UNCHANGED <<runq, deleted>>
           \/ /\ At(t, "del.wait") /\ Refs(j) = 0
              /\ Delete(t, j)
              /\ UNCHANGED <<runq, suicide>>
        /\ UNCHANGED <<fns, active, running, gen, wqq, lockVars, coVars,
                       ptrVars>>

\* wq_deleter on a workq: whoever refers to it last deletes it.
delete_workq(t) ==
    LET f == Top(t)   w == f.x
    IN  /\ \/ /\ At(t, "wqd")
              /\ Go(t, [f EXCEPT !.at = "wqd.set", !.pin = w], <<>>)
              /\ UNCHANGED suicide
           \/ /\ At(t, "wqd.set")
              /\ suicide' = suicide \cup {w}
              /\ Return(t, Released(w))
        /\ UNCHANGED <<fns, jobVars, lockVars, coVars, ptrVars, deleted>>

-----------------------------------------------------------------------------
(* The threads.                                                            *)

\* The next call of a thread, or of the function that it runs.  To reset
\* a null pointer does nothing.
Op(t) ==
    LET f == Top(t)   c == Head(f.prog)
        next == [f EXCEPT !.prog = Tail(@)]
        Push(calls) == /\ Go(t, next, calls)
                       /\ UNCHANGED <<fns, jobVars, lockVars, coVars,
                                      suicide, deleted>>
    IN  /\ stack[t] # <<>> /\ f.at \in {"user", "body", "co.fn"}
        /\ f.prog # <<>>
        /\ \/ c.op = "activate" /\ Activate(t, c.x, FALSE, next)
           \/ c.op = "immed" /\ Activate(t, c.x, TRUE, next)
           \/ c.op = "switch" /\ Switch(t, c, next)
           \/ /\ c.op = "deactivate"
              /\ Push(<<Frame("de.load", c.x)>>) /\ UNCHANGED ptrVars
           \/ /\ c.op = "aid"
              /\ Push(<<[Frame("aid", None) EXCEPT !.left = 1]>>)
              /\ UNCHANGED ptrVars
           \/ /\ c.op = "aidwq"
              /\ Push(<<[Frame("wq", c.x) EXCEPT !.left = 1]>>)
              /\ UNCHANGED ptrVars
           \/ /\ c.op = "drop"
              /\ ptr' = [ptr EXCEPT ![c.x] = IF @ = 0 THEN 0 ELSE @ - 1]
              /\ Push(IF ptr[c.x] = 1 THEN <<Frame("del.erase", c.x)>>
                      ELSE <<>>)
              /\ UNCHANGED wptr
           \/ /\ c.op = "dropwq"
              /\ wptr' = [wptr EXCEPT ![c.x] = IF @ = 0 THEN 0 ELSE @ - 1]
              /\ Push(IF wptr[c.x] > 0 /\ WorkqPtrs(c.x) = 1
                      THEN <<Frame("wqd", c.x)>> ELSE <<>>)
              /\ UNCHANGED ptr

\* The end of run(), or of a function of a coroutine job.
BodyEnd(t) ==
    /\ At(t, "body") \/ At(t, "co.fn")
    /\ Top(t).prog = <<>>
    /\ Goto(t, IF At(t, "co.fn") THEN "co.fetch"
               ELSE IF IsCoroutine(Top(t).x) THEN "co.publish" ELSE "ul.job")
    /\ UNCHANGED <<fns, jobVars, lockVars, coVars, ptrVars, suicide, deleted>>

\* threadpool_client::do_work(), while has_work().
Help(t) ==
    /\ t \in Helpers /\ At(t, "user") /\ Top(t).prog = <<>>
    /\ wqq # {} \/ coq # <<>>
    /\ Go(t, Top(t), <<[Frame("aid", None) EXCEPT !.left = AidCount]>>)
    /\ UNCHANGED <<fns, jobVars, lockVars, coVars, ptrVars, suicide, deleted>>

Init ==
    \E p \in Programs :
        /\ fns = p.fns /\ ptr = p.ptr /\ wptr = p.wptr
        /\ active = [j \in Jobs |-> FALSE] /\ running = [j \in Jobs |-> FALSE]
        /\ gen = [j \in Jobs |-> 0] /\ runq = [j \in Jobs |-> {}]
        /\ wqq = {}
        /\ single = [w \in Workqs |-> FALSE]
        /\ parallel = [w \in Workqs |-> 0]
        /\ rlck = [j \in Jobs |-> NoLock]
        /\ count = [j \in Jobs |-> 0] /\ idx = [j \in Jobs |-> 0]
        /\ coq = <<>>
        /\ suicide = {} /\ deleted = [o \in Jobs \cup Workqs |-> 0]
        /\ stack = [t \in Threads |->
                      <<[Frame("user", None) EXCEPT !.prog = p.calls[t]]>>]

Run(t) ==
    \/ job_to_runq(t) \/ unlock(t) \/ Immed(t) \/ deactivate(t)
    \/ AidCo(t) \/ AidNext(t) \/ AidPick(t) \/ AidWorkq(t) \/ AidWorkqEnd(t)
    \/ co_publish(t) \/ co_run(t) \/ release(t)
    \/ SwitchLock(t) \/ RelTest(t) \/ delete_job(t) \/ delete_workq(t)
    \/ Op(t) \/ BodyEnd(t) \/ Help(t)

Next == \E t \in Threads : Run(t)

Spec == Init /\ [][Next]_vars

\* Threads are scheduled: a step that stays possible is taken.
FairSpec == Spec /\ \A t \in Threads : WF_vars(Run(t))

-----------------------------------------------------------------------------
(* Properties.                                                             *)

\* What the variables hold.
TypeOK ==
    LET Obj == Jobs \cup Workqs
        Locks == [wq : Workqs \cup {None}, lck : {"", "SINGLE", "PARALLEL"},
                  job : Jobs \cup {None}, co : Jobs \cup {None}]
    IN  /\ Made \subseteq Jobs
        /\ active \in [Jobs -> BOOLEAN] /\ running \in [Jobs -> BOOLEAN]
        /\ gen \in [Jobs -> 0 .. GenMod - 1]
        /\ \A j \in Jobs : runq[j] \in {{}, {"all"}, {"parallel"}, Lists(j)}
        /\ wqq \subseteq Workqs
        /\ single \in [Workqs -> BOOLEAN]
        /\ parallel \in [Workqs -> Nat]
        /\ rlck \in [Jobs -> Locks]
        /\ count \in [Jobs -> Nat] /\ idx \in [Jobs -> Nat]
        /\ coq \in Seq(Jobs) /\ IsInjective(coq)
        /\ ptr \in [Jobs -> Nat] /\ wptr \in [Workqs -> Nat]
        /\ suicide \subseteq Obj /\ deleted \in [Obj -> Nat]
        /\ \A f \in Frames : /\ F(f).lock \in Locks
                             /\ F(f).left \in Nat
                             /\ F(f).pin \in Obj \cup {None}

\* The frames, and the coroutine jobs, that hold lock l on workq w, and the
\* frames that are to give a run-parallel back.
Holders(w, l) == {f \in Frames : F(f).lock.wq = w /\ F(f).lock.lck = l}
Stolen(w, l) == {j \in Made : rlck[j].wq = w /\ rlck[j].lck = l}
Undoing(w) == {f \in Frames : F(f).at = "sw.undo" /\ F(f).x = w}

\* The run locks of a workq are those that frames hold, on a stack, in a
\* coroutine job, or in lock_wq() before it gives the wrong one back: no run
\* lock is lost, given up twice, or held by two as run-single, through
\* publishing, stealing, switching and the end of the frames
\* (workq.cc:117-125, 326, 496, 671, 797).
RunLocksHeld ==
    \A w \in Workqs :
        LET Of(l) == Cardinality(Holders(w, l)) + Cardinality(Stolen(w, l))
        IN  /\ Of("SINGLE") = (IF single[w] THEN 1 ELSE 0)
            /\ Of("PARALLEL") + Cardinality(Undoing(w)) = parallel[w]

\* A function of a coroutine job runs under the run lock that run() stole for
\* the job, whichever thread runs it: release() may not let go of it before
\* the last function has returned (workq.cc:671, 706).
CoroutineLocked ==
    \A f \in Frames :
        F(f).at = "co.fn" => LET c == F(f).x
                             IN  /\ rlck[c].job = c
                                 /\ rlck[c].wq = WorkqOf[c]
                                 /\ running[c]

\* The run locks of workqs and jobs are where the code takes them to be.
LocksSound == TypeOK /\ RunLocksHeld /\ CoroutineLocked

\* A job or workq that was deleted is not run, locked, linked or referred to
\* (workq.cc:530, 566, 749-751, 1027-1064, workq.h:147).
DeletedIsIdle ==
    \A o \in Jobs \cup Workqs :
        deleted[o] > 0 =>
            /\ Refs(o) = 0
            /\ o \in Jobs => ~running[o] /\ runq[o] = {}
            /\ o \in Workqs => /\ ~single[o] /\ parallel[o] = 0
                               /\ \A j \in Made : WorkqOf[j] = o =>
                                                      deleted[j] > 0

\* When the last pointer to a job goes away, the job is deleted: by its
\* deleter, which waits for those who run it, or, from within the job, by
\* whoever gives up the last reference (workq.cc:1027-1049, workq.h:176).
\* Apart from coroutine jobs, which never end, and parallel jobs, which stay
\* on m_p_runq when they are found there inactive under run-single.
DroppedIsDeleted ==
    []<>(\A j \in Made :
            ptr[j] = 0 => \/ deleted[j] > 0
                          \/ IsCoroutine(j) \/ IsParallel(j))

\* Every function of a coroutine job is taken by some thread once the job was
\* published with the run lock, though any thread may leave it
\* (workq.cc:1167, 671, 979).
FunctionsTaken ==
    []<>(\A j \in Made : rlck[j].job = j => idx[j] >= Len(fns[j]))

\* workq.cc:697 has "Handled by co_runnable::release, which will be called
\* from co_run() as appropriate" of the lock of a coroutine job: its run ends.
CoroutineEnds ==
    \A j \in Jobs : running[j] ~> ~running[j]
=============================================================================
