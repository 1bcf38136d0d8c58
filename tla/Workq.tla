------------------------------- MODULE Workq -------------------------------
(***************************************************************************)
(* The workq run queue: jobs, workqs and the workq service of              *)
(* src/src/workq.cc, driven by threads that activate and deactivate jobs,  *)
(* help one workq (workq::aid) or the service (workq_service::aid).        *)
(*                                                                         *)
(* One action is one atomic operation of the code: a read-modify-write of  *)
(* an atomic, or one operation of a lock-free list.  m_runq and m_p_runq   *)
(* are FIFO sequences; m_wq_runq is a set, because every thread inserts    *)
(* and looks up at an iterator of its own, so that the place of a workq on *)
(* the list says nothing about the order in which it is served.            *)
(***************************************************************************)
EXTENDS Integers, Sequences, FiniteSets, SequencesExt

CONSTANTS
    Threads,      \* threads of the process
    Workqs,       \* workqs of one workq_service
    Jobs,         \* jobs, none of them a co_runnable
    WorkqOf,      \* workq_job::m_wq
    TypeOf,       \* workq_job::m_type, as the set of its flags
    Calls,        \* what a thread may call outside of any job
    BodyCalls,    \* what the body of a job may call
    AidCounts,    \* arguments of aid()
    GenMod,       \* values of m_run_gen before it wraps: 2^32 in the code
    MaxStack,     \* ACT_IMMED_MAX_STACK, 64 in the code; bounds nested aid()
    None          \* the null pointer

TypeFlags == {"ONCE", "PERSIST", "PARALLEL", "NO_AID"}

CallNames ==
    {"activate", "activate_immed", "deactivate", "workq_aid", "service_aid"}

(* The constructor of workq_job refuses a null workq, unknown flags and a  *)
(* job that is both ONCE and PERSIST.                                      *)
ASSUME JobAssumption ==
    /\ WorkqOf \in [Jobs -> Workqs]
    /\ TypeOf \in [Jobs -> SUBSET TypeFlags]
    /\ \A j \in Jobs : ~({"ONCE", "PERSIST"} \subseteq TypeOf[j])

ASSUME NoneAssumption == None \notin Workqs /\ None \notin Jobs

ASSUME BoundAssumption ==
    /\ Calls \in [Threads -> SUBSET CallNames]
    /\ BodyCalls \subseteq CallNames
    /\ AidCounts \subseteq Nat \ {0}
    /\ GenMod \in Nat \ {0}
    /\ MaxStack \in Nat \ {0}

VARIABLES
    m_state,         \* m_state[j]: the bits set in workq_job::m_state
    m_run_gen,       \* workq_job::m_run_gen
    m_runq,          \* workq::m_runq
    m_p_runq,        \* workq::m_p_runq
    m_wq_runq,       \* workq_service::m_wq_runq
    m_run_single,    \* workq::m_run_single
    m_run_parallel,  \* workq::m_run_parallel
    pc,              \* pc[t]: the next operation of thread t
    lk,              \* lk[t]: the call t is in: a wq_run_lock and its locals
    stack,           \* stack[t]: the wq_stack of t, innermost job last
    awaited          \* history: the run that deactivate() of t saw goes on

jobVars   == <<m_state, m_run_gen>>
queueVars == <<m_runq, m_p_runq, m_wq_runq>>
lockVars  == <<m_run_single, m_run_parallel>>
vars      == <<jobVars, queueVars, lockVars, pc, lk, stack, awaited>>

StateBits == {"RUNNING", "HAS_RUN", "ACTIVE"}

(* "body": the thread runs application code, of the innermost job on its   *)
(* stack or, with an empty stack, of no job.                               *)
Labels ==
    {"body", "link_p_runq", "link_runq", "link_wq", "lock_immed",
     "deactivate", "deactivate_wait", "pick_wq", "lock_wq", "pop_front",
     "lock_job", "run_gen", "erase_runq", "erase_p_runq", "downgrade",
     "downgrade_release", "erase_wq", "relink_wq", "unlock_failed",
     "unlock_job", "unlock_wq"}

(* The wq_run_lock of a call: the workq, the kind of lock held on it       *)
(* ("BOTH" in the middle of a downgrade), the job, whether its run lock is *)
(* held; and the locals of the call: who wants the lock, how many jobs aid *)
(* may still run, whether the service tries this workq for the second      *)
(* time, whether a list accepted the job, where to go when the job is      *)
(* queued, and the generation deactivate() read.                           *)
Locks == [wq : Workqs \cup {None}, lck : {"NONE", "SINGLE", "PARALLEL", "BOTH"},
          job : Jobs \cup {None}, own : BOOLEAN,
          by : {"none", "activate", "workq", "service"}, left : Nat,
          retest : BOOLEAN, linked : BOOLEAN,
          ret : {"body", "lock_immed", "unlock_wq"}, gen : 0 .. GenMod - 1]

NoLock == [wq |-> None, lck |-> "NONE", job |-> None, own |-> FALSE,
           by |-> "none", left |-> 0, retest |-> FALSE, linked |-> FALSE,
           ret |-> "body", gen |-> 0]

Init ==
    /\ m_state = [j \in Jobs |-> {}]
    /\ m_run_gen = [j \in Jobs |-> 0]
    /\ m_runq = [w \in Workqs |-> << >>]
    /\ m_p_runq = [w \in Workqs |-> << >>]
    /\ m_wq_runq = {}
    /\ m_run_single = [w \in Workqs |-> FALSE]
    /\ m_run_parallel = [w \in Workqs |-> 0]
    /\ pc = [t \in Threads |-> "body"]
    /\ lk = [t \in Threads |-> NoLock]
    /\ stack = [t \in Threads |-> << >>]
    /\ awaited = [t \in Threads |-> FALSE]

-----------------------------------------------------------------------------
(* Lists, locks and control flow.                                          *)

IsParallel(j) == "PARALLEL" \in TypeOf[j]

(* Mutant: the list takes an element that is linked already.               *)
LinkBackAgain(q, j) == Append(q, j)

(* ll_smartptr_list::link_back leaves an element that is linked alone.     *)
LinkBack(q, j) == IF j \in ToSet(q) THEN q ELSE Append(q, j)

(* ll_smartptr_list::erase of an element that may be unlinked already.     *)
Erase(q, j) ==
    IF j \in ToSet(q)
    THEN RemoveAt(q, CHOOSE i \in DOMAIN q : q[i] = j)
    ELSE q

(* wq_tls::find(const workq_job&)                                          *)
OnStack(t, j) == \E i \in DOMAIN stack[t] : stack[t][i].job = j

Goto(t, label, l) ==
    /\ pc' = [pc EXCEPT ![t] = label]
    /\ lk' = [lk EXCEPT ![t] = l]

Return(t) == Goto(t, "body", NoLock)

(* Continue where workq::job_to_runq was called from.                      *)
Resume(t, l) ==
    IF l.ret = "body" THEN Return(t) ELSE Goto(t, l.ret, l)

(* First operation of workq::job_to_runq(l.job).                           *)
JobToRunq(t, l) ==
    Goto(t, IF IsParallel(l.job) THEN "link_p_runq" ELSE "link_runq",
         [l EXCEPT !.linked = FALSE])

(* workq::lock_run: run-single if nobody has it, run-parallel otherwise.   *)
LockRun(t, label_single, label_parallel) ==
    LET w == lk[t].wq IN
    \/ /\ ~m_run_single[w]
       /\ m_run_single' = [m_run_single EXCEPT ![w] = TRUE]
       /\ Goto(t, label_single, [lk[t] EXCEPT !.lck = "SINGLE"])
       /\ UNCHANGED m_run_parallel
    \/ /\ m_run_single[w]
       /\ m_run_parallel' = [m_run_parallel EXCEPT ![w] = @ + 1]
       /\ Goto(t, label_parallel, [lk[t] EXCEPT !.lck = "PARALLEL"])
       /\ UNCHANGED m_run_single

(* Mutant: a break is missing after the first case.                        *)
UnlockRunFallsThrough(w, lck) ==
    /\ lck \in {"SINGLE", "PARALLEL"}
    /\ m_run_single' = [m_run_single EXCEPT ![w] = @ /\ lck # "SINGLE"]
    /\ m_run_parallel' = [m_run_parallel EXCEPT ![w] = @ - 1]

(* workq::unlock_run                                                       *)
UnlockRun(w, lck) ==
    \/ /\ lck = "SINGLE"
       /\ m_run_single' = [m_run_single EXCEPT ![w] = FALSE]
       /\ UNCHANGED m_run_parallel
    \/ /\ lck = "PARALLEL"
       /\ m_run_parallel' = [m_run_parallel EXCEPT ![w] = @ - 1]
       /\ UNCHANGED m_run_single

(* The lock is complete: commit() it, push it on the stack, run the job.   *)
Run(t, l) ==
    /\ stack' = [stack EXCEPT ![t] = Append(@, l)]
    /\ Return(t)

(* Job and workq are locked.  A service that had erased the workq from its *)
(* runq, and finds a job at the retest, links it again first.              *)
Locked(t, l) ==
    IF l.by = "service" /\ l.retest
    THEN Goto(t, "relink_wq", l) /\ UNCHANGED stack
    ELSE Run(t, l)

May(t, call) ==
    /\ pc[t] = "body"
    /\ call \in IF stack[t] = << >> THEN Calls[t] ELSE BodyCalls

-----------------------------------------------------------------------------
(* workq_job::activate and deactivate, workq::job_to_runq.                 *)

(* The fetch_or of activate().  A job that was neither running nor active  *)
(* goes to the runq; ACT_IMMED then tries to run it on this thread, unless *)
(* the stack is too deep.                                                  *)
Activate(t, j, immed) ==
    LET help == immed /\ "NO_AID" \notin TypeOf[j] /\ Len(stack[t]) < MaxStack
        l == [NoLock EXCEPT !.wq = WorkqOf[j], !.job = j, !.by = "activate",
                            !.ret = IF help THEN "lock_immed" ELSE "body"]
    IN /\ May(t, IF immed THEN "activate_immed" ELSE "activate")
       /\ m_state' = [m_state EXCEPT ![j] = @ \cup {"ACTIVE"}]
       /\ IF m_state[j] \cap {"RUNNING", "ACTIVE"} = {}
          THEN JobToRunq(t, l)
          ELSE Resume(t, l)
       /\ UNCHANGED <<m_run_gen, queueVars, lockVars, stack, awaited>>

LinkParallelRunq(t) ==
    LET l == lk[t] IN
    /\ pc[t] = "link_p_runq"
    /\ m_p_runq' = [m_p_runq EXCEPT ![l.wq] = LinkBack(@, l.job)]
    /\ Goto(t, "link_runq",
            [l EXCEPT !.linked = l.job \notin ToSet(m_p_runq[l.wq])])
    /\ UNCHANGED <<jobVars, m_runq, m_wq_runq, lockVars, stack, awaited>>

LinkRunq(t) ==
    LET l == lk[t] IN
    /\ pc[t] = "link_runq"
    /\ m_runq' = [m_runq EXCEPT ![l.wq] = LinkBack(@, l.job)]
    /\ IF l.linked \/ l.job \notin ToSet(m_runq[l.wq])
       THEN Goto(t, "link_wq", l)
       ELSE Resume(t, l)
    /\ UNCHANGED <<jobVars, m_p_runq, m_wq_runq, lockVars, stack, awaited>>

(* workq_service::wq_to_runq.  Its wakeup() asks the threadpool for a      *)
(* worker; here an idle thread may call aid at any time.                   *)
LinkWorkq(t) ==
    /\ pc[t] = "link_wq"
    /\ m_wq_runq' = m_wq_runq \cup {lk[t].wq}
    /\ Resume(t, lk[t])
    /\ UNCHANGED <<jobVars, m_runq, m_p_runq, lockVars, stack, awaited>>

(* deactivate() loads the run generation before it clears ACTIVE.          *)
Deactivate(t, j) ==
    /\ May(t, "deactivate")
    /\ Goto(t, "deactivate",
            [NoLock EXCEPT !.job = j, !.gen = m_run_gen[j]])
    /\ UNCHANGED <<jobVars, queueVars, lockVars, stack, awaited>>

DeactivateClear(t) ==
    LET j == lk[t].job
        wait == "RUNNING" \in m_state[j] /\ ~OnStack(t, j)
    IN /\ pc[t] = "deactivate"
       /\ m_state' = [m_state EXCEPT ![j] = @ \ {"ACTIVE"}]
       /\ awaited' = [awaited EXCEPT ![t] = wait]
       /\ IF wait THEN Goto(t, "deactivate_wait", lk[t]) ELSE Return(t)
       /\ UNCHANGED <<m_run_gen, queueVars, lockVars, stack>>

(* The spin ends when the job is seen not running or in another generation.*)
DeactivateWait(t) ==
    LET l == lk[t] IN
    /\ pc[t] = "deactivate_wait"
    /\ "RUNNING" \notin m_state[l.job] \/ m_run_gen[l.job] # l.gen
    /\ Return(t)
    /\ UNCHANGED <<jobVars, queueVars, lockVars, stack, awaited>>

-----------------------------------------------------------------------------
(* wq_run_lock: finding and locking a job.                                 *)

(* workq::aid(n)                                                           *)
AidWorkq(t, w, n) ==
    /\ May(t, "workq_aid")
    /\ Len(stack[t]) < MaxStack
    /\ Goto(t, "lock_wq", [NoLock EXCEPT !.wq = w, !.by = "workq", !.left = n])
    /\ UNCHANGED <<jobVars, queueVars, lockVars, stack, awaited>>

(* workq_service::aid(n), with an empty co-routine runq.                   *)
AidService(t, n) ==
    /\ May(t, "service_aid")
    /\ Len(stack[t]) < MaxStack
    /\ Goto(t, "pick_wq", [NoLock EXCEPT !.by = "service", !.left = n])
    /\ UNCHANGED <<jobVars, queueVars, lockVars, stack, awaited>>

(* lock(workq_service&) takes a workq from the runq; aid ends without one. *)
PickWorkq(t) ==
    /\ pc[t] = "pick_wq"
    /\ \/ m_wq_runq = {} /\ Return(t)
       \/ \E w \in m_wq_runq : Goto(t, "lock_wq", [lk[t] EXCEPT !.wq = w])
    /\ UNCHANGED <<jobVars, queueVars, lockVars, stack, awaited>>

(* lock(workq&): the lock on the workq decides which list is searched.     *)
LockWorkq(t) ==
    /\ pc[t] = "lock_wq"
    /\ LockRun(t, "pop_front", "pop_front")
    /\ UNCHANGED <<jobVars, queueVars, stack, awaited>>

(* Mutant: ACT_IMMED runs the job under whatever lock it is handed.        *)
LockImmedAnyLock(t) ==
    /\ pc[t] = "lock_immed"
    /\ LockRun(t, "lock_job", "lock_job")
    /\ UNCHANGED <<jobVars, queueVars, stack, awaited>>

(* lock(workq_job&), for ACT_IMMED: a job that is not parallel needs       *)
(* run-single, and gives up if it is handed run-parallel.                  *)
LockImmed(t) ==
    /\ pc[t] = "lock_immed"
    /\ IF IsParallel(lk[t].job)
       THEN LET w == lk[t].wq IN
            /\ m_run_parallel' = [m_run_parallel EXCEPT ![w] = @ + 1]
            /\ Goto(t, "lock_job", [lk[t] EXCEPT !.lck = "PARALLEL"])
            /\ UNCHANGED m_run_single
       ELSE LockRun(t, "lock_job", "unlock_failed")
    /\ UNCHANGED <<jobVars, queueVars, stack, awaited>>

PopFront(t) ==
    LET l == lk[t]
        q == IF l.lck = "SINGLE" THEN m_runq[l.wq] ELSE m_p_runq[l.wq]
    IN /\ pc[t] = "pop_front"
       /\ \/ /\ q = << >>
             /\ Goto(t, "unlock_failed", [l EXCEPT !.job = None])
             /\ UNCHANGED <<m_runq, m_p_runq>>
          \/ /\ q # << >>
             /\ Goto(t, "lock_job", [l EXCEPT !.job = Head(q)])
             /\ IF l.lck = "SINGLE"
                THEN /\ m_runq' = [m_runq EXCEPT ![l.wq] = Tail(@)]
                     /\ UNCHANGED m_p_runq
                ELSE /\ m_p_runq' = [m_p_runq EXCEPT ![l.wq] = Tail(@)]
                     /\ UNCHANGED m_runq
       /\ UNCHANGED <<jobVars, m_wq_runq, lockVars, stack, awaited>>

(* Mutant: the job is not tested for running already.                      *)
RunnableTwice(j) == "ACTIVE" \in m_state[j]

Runnable(j) ==
    /\ "ACTIVE" \in m_state[j]
    /\ "RUNNING" \notin m_state[j]
    /\ ~("ONCE" \in TypeOf[j] /\ "HAS_RUN" \in m_state[j])

(* Mutant: a PERSIST job is consumed like any other.                       *)
LockJobConsumes(t) ==
    LET l == lk[t] IN
    /\ pc[t] = "lock_job"
    /\ Runnable(l.job)
    /\ m_state' = [m_state EXCEPT ![l.job] = {"RUNNING"}]
    /\ Goto(t, "run_gen", [l EXCEPT !.own = TRUE])
    /\ UNCHANGED <<m_run_gen, queueVars, lockVars, stack, awaited>>

(* The compare-exchange of workq_job::lock_run.  A busy job is dropped and *)
(* the next one is popped; ACT_IMMED gives up.                             *)
LockJob(t) ==
    LET l == lk[t]
        consumed == IF "PERSIST" \in TypeOf[l.job] THEN {} ELSE {"ACTIVE"}
    IN /\ pc[t] = "lock_job"
       /\ \/ /\ Runnable(l.job)
             /\ m_state' = [m_state EXCEPT
                              ![l.job] = (@ \cup {"RUNNING"}) \ consumed]
             /\ Goto(t, "run_gen", [l EXCEPT !.own = TRUE])
          \/ /\ ~Runnable(l.job)
             /\ Goto(t, IF l.by = "activate" THEN "unlock_failed"
                        ELSE "pop_front", [l EXCEPT !.job = None])
             /\ UNCHANGED m_state
       /\ UNCHANGED <<m_run_gen, queueVars, lockVars, stack, awaited>>

(* The generation is counted up after the compare-exchange; then the job   *)
(* is taken from the list it was not popped from.                          *)
CountRun(t) ==
    LET l == lk[t] IN
    /\ pc[t] = "run_gen"
    /\ m_run_gen' = [m_run_gen EXCEPT ![l.job] = (@ + 1) % GenMod]
    /\ IF l.by = "activate" \/ l.lck = "PARALLEL"
       THEN Goto(t, "erase_runq", l) /\ UNCHANGED stack
       ELSE IF IsParallel(l.job)
            THEN Goto(t, "erase_p_runq", l) /\ UNCHANGED stack
            ELSE Locked(t, l)
    /\ UNCHANGED <<m_state, queueVars, lockVars, awaited>>

EraseRunq(t) ==
    LET l == lk[t] IN
    /\ pc[t] = "erase_runq"
    /\ m_runq' = [m_runq EXCEPT ![l.wq] = Erase(@, l.job)]
    /\ IF l.by = "activate" /\ IsParallel(l.job)
       THEN Goto(t, "erase_p_runq", l) /\ UNCHANGED stack
       ELSE Locked(t, l)
    /\ UNCHANGED <<jobVars, m_p_runq, m_wq_runq, lockVars, awaited>>

EraseParallelRunq(t) ==
    LET l == lk[t] IN
    /\ pc[t] = "erase_p_runq"
    /\ m_p_runq' = [m_p_runq EXCEPT ![l.wq] = Erase(@, l.job)]
    /\ IF l.lck = "SINGLE"
       THEN Goto(t, "downgrade", l) /\ UNCHANGED stack
       ELSE Locked(t, l)
    /\ UNCHANGED <<jobVars, m_runq, m_wq_runq, lockVars, awaited>>

(* Mutant: the downgrade does not count the new holder.                    *)
DowngradeUncounted(t) ==
    /\ pc[t] = "downgrade"
    /\ Goto(t, "downgrade_release", [lk[t] EXCEPT !.lck = "BOTH"])
    /\ UNCHANGED <<jobVars, queueVars, lockVars, stack, awaited>>

(* workq::lock_run_downgrade: run-parallel is taken before run-single is   *)
(* released.                                                               *)
Downgrade(t) ==
    LET l == lk[t] IN
    /\ pc[t] = "downgrade"
    /\ m_run_parallel' = [m_run_parallel EXCEPT ![l.wq] = @ + 1]
    /\ Goto(t, "downgrade_release", [l EXCEPT !.lck = "BOTH"])
    /\ UNCHANGED <<jobVars, queueVars, m_run_single, stack, awaited>>

DowngradeRelease(t) ==
    LET l == lk[t] IN
    /\ pc[t] = "downgrade_release"
    /\ m_run_single' = [m_run_single EXCEPT ![l.wq] = FALSE]
    /\ Locked(t, [l EXCEPT !.lck = "PARALLEL"])
    /\ UNCHANGED <<jobVars, queueVars, m_run_parallel, awaited>>

(* No job on this workq: release it.  The service erases the workq from    *)
(* its runq and tries it once more; when that fails too, its loop starts   *)
(* over with the same workq, because wq is still set.                      *)
UnlockFailed(t) ==
    LET l == lk[t] IN
    /\ pc[t] = "unlock_failed"
    /\ UnlockRun(l.wq, l.lck)
    /\ IF l.by = "service"
       THEN Goto(t, IF l.retest THEN "lock_wq" ELSE "erase_wq",
                 [l EXCEPT !.lck = "NONE", !.retest = FALSE])
       ELSE Return(t)
    /\ UNCHANGED <<jobVars, queueVars, stack, awaited>>

EraseWorkq(t) ==
    /\ pc[t] = "erase_wq"
    /\ m_wq_runq' = m_wq_runq \ {lk[t].wq}
    /\ Goto(t, "lock_wq", [lk[t] EXCEPT !.retest = TRUE])
    /\ UNCHANGED <<jobVars, m_runq, m_p_runq, lockVars, stack, awaited>>

RelinkWorkq(t) ==
    /\ pc[t] = "relink_wq"
    /\ m_wq_runq' = m_wq_runq \cup {lk[t].wq}
    /\ Run(t, lk[t])
    /\ UNCHANGED <<jobVars, m_runq, m_p_runq, lockVars, awaited>>

-----------------------------------------------------------------------------
(* The job returns: wq_stack is popped and its wq_run_lock unlocked.       *)

JobReturns(t) ==
    /\ pc[t] = "body"
    /\ stack[t] # << >>
    /\ Goto(t, "unlock_job", Last(stack[t]))
    /\ stack' = [stack EXCEPT ![t] = Front(@)]
    /\ UNCHANGED <<jobVars, queueVars, lockVars, awaited>>

(* Mutant: a job activated while it ran is not queued again.               *)
UnlockJobForgets(t) ==
    /\ pc[t] = "unlock_job"
    /\ m_state' = [m_state EXCEPT ![lk[t].job] = @ \ {"RUNNING"}]
    /\ Goto(t, "unlock_wq", [lk[t] EXCEPT !.own = FALSE])
    /\ UNCHANGED <<m_run_gen, queueVars, lockVars, stack, awaited>>

(* workq_job::unlock_run: a job that is still, or again, active goes back  *)
(* to the runq, unless it is of type ONCE.                                 *)
UnlockJob(t) ==
    LET l == [lk[t] EXCEPT !.own = FALSE, !.ret = "unlock_wq"]
        j == l.job
    IN /\ pc[t] = "unlock_job"
       /\ m_state' = [m_state EXCEPT ![j] = @ \ {"RUNNING"}]
       /\ awaited' = [u \in Threads |-> awaited[u] /\ lk[u].job # j]
       /\ IF "ONCE" \notin TypeOf[j] /\ "ACTIVE" \in m_state[j]
          THEN JobToRunq(t, l)
          ELSE Goto(t, "unlock_wq", l)
       /\ UNCHANGED <<m_run_gen, queueVars, lockVars, stack>>

(* The workq is unlocked after the job; aid then looks for its next job.   *)
UnlockWorkq(t) ==
    LET l == lk[t] IN
    /\ pc[t] = "unlock_wq"
    /\ UnlockRun(l.wq, l.lck)
    /\ IF l.by = "activate" \/ l.left = 1
       THEN Return(t)
       ELSE IF l.by = "workq"
       THEN Goto(t, "lock_wq", [NoLock EXCEPT !.wq = l.wq, !.by = "workq",
                                              !.left = l.left - 1])
       ELSE Goto(t, "pick_wq", [NoLock EXCEPT !.by = "service",
                                              !.left = l.left - 1])
    /\ UNCHANGED <<jobVars, queueVars, stack, awaited>>

-----------------------------------------------------------------------------
Call(t) ==
    \/ \E j \in Jobs, immed \in BOOLEAN : Activate(t, j, immed)
    \/ \E j \in Jobs : Deactivate(t, j)
    \/ \E w \in Workqs, n \in AidCounts : AidWorkq(t, w, n)
    \/ \E n \in AidCounts : AidService(t, n)

Step(t) ==
    \/ LinkParallelRunq(t) \/ LinkRunq(t) \/ LinkWorkq(t)
    \/ DeactivateClear(t) \/ DeactivateWait(t)
    \/ PickWorkq(t) \/ LockWorkq(t) \/ LockImmed(t) \/ PopFront(t)
    \/ LockJob(t) \/ CountRun(t) \/ EraseRunq(t) \/ EraseParallelRunq(t)
    \/ Downgrade(t) \/ DowngradeRelease(t)
    \/ UnlockFailed(t) \/ EraseWorkq(t) \/ RelinkWorkq(t)
    \/ JobReturns(t) \/ UnlockJob(t) \/ UnlockWorkq(t)

Next == \E t \in Threads : Call(t) \/ Step(t)

Spec == Init /\ [][Next]_vars

(* A thread inside a call keeps executing it; the body of a job returns    *)
(* after finitely many calls.                                              *)
Fairness ==
    \A t \in Threads : WF_vars(Step(t)) /\ SF_vars(JobReturns(t))

(* Threads that are allowed to help do so again and again, as the workers  *)
(* of a pool do while there is work.                                       *)
AidFairness ==
    \A t \in Threads : WF_vars(
        /\ stack[t] = << >>
        /\ \/ \E w \in Workqs, n \in AidCounts : AidWorkq(t, w, n)
           \/ \E n \in AidCounts : AidService(t, n))

FairSpec == Spec /\ Fairness /\ AidFairness

-----------------------------------------------------------------------------
(* Properties.                                                             *)

(* The locks a thread holds: at 0 the one of the call in progress, at      *)
(* k > 0 the one of the k-th job on its stack.                             *)
Depths(t) == 0 .. Len(stack[t])

LockAt(t, k) == IF k = 0 THEN lk[t] ELSE stack[t][k]

HoldsSingle(t, k, w) ==
    LockAt(t, k).wq = w /\ LockAt(t, k).lck \in {"SINGLE", "BOTH"}

HoldsParallel(t, k, w) ==
    LockAt(t, k).wq = w /\ LockAt(t, k).lck \in {"PARALLEL", "BOTH"}

Owns(t, k, j) == LockAt(t, k).job = j /\ LockAt(t, k).own

Slots == UNION {{t} \X Depths(t) : t \in Threads}

(* Every variable has its type: in particular m_run_parallel, which is     *)
(* unsigned, is never counted below zero (workq.cc:814).                   *)
TypeOK ==
    /\ m_state \in [Jobs -> SUBSET StateBits]
    /\ m_run_gen \in [Jobs -> 0 .. GenMod - 1]
    /\ m_runq \in [Workqs -> Seq(Jobs)]
    /\ m_p_runq \in [Workqs -> Seq(Jobs)]
    /\ m_wq_runq \subseteq Workqs
    /\ m_run_single \in [Workqs -> BOOLEAN]
    /\ m_run_parallel \in [Workqs -> Nat]
    /\ pc \in [Threads -> Labels]
    /\ lk \in [Threads -> Locks]
    /\ stack \in [Threads -> Seq(Locks)]
    /\ awaited \in [Threads -> BOOLEAN]

(* "No two jobs sharing the same workq will run concurrently (unless       *)
(* explicitly specified at the job)": of the jobs of a workq that are not  *)
(* PARALLEL at most one is between lock_run and unlock_run.                *)
JobExclusion ==
    \A i, j \in Jobs :
        /\ i # j
        /\ WorkqOf[i] = WorkqOf[j]
        /\ ~IsParallel(i) /\ ~IsParallel(j)
        => ~("RUNNING" \in m_state[i] /\ "RUNNING" \in m_state[j])

(* The RUNNING bit of a job is set exactly while one wq_run_lock, of one   *)
(* thread, owns the job: no job runs twice at the same time, none is left  *)
(* running by nobody, and the assert of unlock_run holds.                  *)
RunLockOwned ==
    \A j \in Jobs :
        /\ "RUNNING" \in m_state[j]
              <=> \E t \in Threads : \E k \in Depths(t) : Owns(t, k, j)
        /\ \A t, u \in Threads : \A k \in Depths(t), m \in Depths(u) :
              Owns(t, k, j) /\ Owns(u, m, j) => t = u /\ k = m

(* m_run_single and m_run_parallel say who holds the workq: run-single has *)
(* one holder, and run-parallel is counted once per holder, so that the    *)
(* asserts of workq::unlock_run and of the destructor hold.                *)
WorkqLocksHeld ==
    \A w \in Workqs :
        /\ Cardinality({s \in Slots : HoldsSingle(s[1], s[2], w)})
               = IF m_run_single[w] THEN 1 ELSE 0
        /\ Cardinality({s \in Slots : HoldsParallel(s[1], s[2], w)})
               = m_run_parallel[w]

(* "Each call to job->activate() will ensure the job runs at least once",  *)
(* as far as one workq goes: a job that is active and does not run is on   *)
(* the runq of its workq (on both, if it is PARALLEL), or a thread is      *)
(* about to link it or to lock it.                                         *)
NoLostActivation ==
    \A j \in Jobs :
        /\ "ACTIVE" \in m_state[j]
        /\ "RUNNING" \notin m_state[j]
        /\ "ONCE" \notin TypeOf[j]
        => \/ /\ j \in ToSet(m_runq[WorkqOf[j]])
              /\ IsParallel(j) => j \in ToSet(m_p_runq[WorkqOf[j]])
           \/ \E t \in Threads :
                 /\ lk[t].job = j
                 /\ pc[t] \in {"link_p_runq", "link_runq", "lock_job"}

(* The runqs hold what they are for: a job is on the lists of its own      *)
(* workq, once, and on m_p_runq only if it is PARALLEL.                    *)
RunqsWellFormed ==
    \A w \in Workqs :
        /\ IsInjective(m_runq[w]) /\ IsInjective(m_p_runq[w])
        /\ \A j \in ToSet(m_runq[w]) : WorkqOf[j] = w
        /\ \A j \in ToSet(m_p_runq[w]) : WorkqOf[j] = w /\ IsParallel(j)

(* The run queue implements the contract of workq.md.                      *)
Contract == INSTANCE WorkqContract WITH
    pending <- [j \in Jobs |-> "ACTIVE" \in m_state[j]],
    running <- [j \in Jobs |-> "RUNNING" \in m_state[j]]

ImplementsContract == Contract!Spec

(* An activation is served while threads help the workq: the job runs, or  *)
(* somebody deactivates it.                                                *)
EventuallyRuns ==
    \A j \in Jobs : "ACTIVE" \in m_state[j]
        ~> ("RUNNING" \in m_state[j] \/ "ACTIVE" \notin m_state[j])

(* workq.md:71, "If the job is currently running, the job->deactivate()    *)
(* call will not return until the job completes".                          *)
DeactivateWaits ==
    [][\A t \in Threads :
          pc[t] = "deactivate_wait" /\ pc'[t] = "body" => ~awaited[t]]_vars
=============================================================================
