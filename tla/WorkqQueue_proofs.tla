------------------------- MODULE WorkqQueue_proofs -------------------------
(***************************************************************************)
(* More proofs about Workq, on top of the inductive invariant of           *)
(* Workq_proofs: what the runqs contain, that no activation is lost, and   *)
(* that the lock counters of a workq agree with who holds it.              *)
(***************************************************************************)
EXTENDS Workq_proofs, FiniteSetTheorems

-----------------------------------------------------------------------------
(* The operations of a runq.                                               *)

(* ll_smartptr_list::link_back does not put an element on a list twice.    *)
LEMMA LinkBackInjective ==
    ASSUME NEW S, NEW q \in Seq(S), NEW e \in S, IsInjective(q)
    PROVE  IsInjective(LinkBack(q, e))
  <1>1. CASE e \in ToSet(q)
    BY <1>1 DEF LinkBack
  <1>2. CASE e \notin ToSet(q)
    <2>1. LinkBack(q, e) = Append(q, e)
      BY <1>2 DEF LinkBack
    <2>2. /\ Append(q, e) \in Seq(S) /\ Len(Append(q, e)) = Len(q) + 1
          /\ \A i \in 1 .. Len(q) : Append(q, e)[i] = q[i]
          /\ Append(q, e)[Len(q) + 1] = e
      BY AppendProperties
    <2>3. /\ DOMAIN q = 1 .. Len(q) /\ Len(q) \in Nat
          /\ DOMAIN Append(q, e) = 1 .. Len(q) + 1
      BY <2>2, LenProperties
    <2>4. \A i \in 1 .. Len(q) : q[i] # e
      BY <1>2, <2>3 DEF ToSet
    <2> QED BY <2>1, <2>2, <2>3, <2>4 DEF IsInjective
  <1> QED BY <1>1, <1>2

(* Erase takes nothing but the element it is given, and moves the others   *)
(* without repeating one.                                                  *)
LEMMA EraseOne ==
    ASSUME NEW S, NEW q \in Seq(S), NEW e
    PROVE  /\ ToSet(q) \ {e} \subseteq ToSet(Erase(q, e))
           /\ IsInjective(q) => IsInjective(Erase(q, e))
  <1>1. CASE e \notin ToSet(q)
    BY <1>1 DEF Erase
  <1>2. CASE e \in ToSet(q)
    <2> DEFINE i == CHOOSE k \in DOMAIN q : q[k] = e
    <2> DEFINE before == SubSeq(q, 1, i - 1)
    <2> DEFINE after == SubSeq(q, i + 1, Len(q))
    <2> DEFINE r == before \o after
    <2>1. i \in 1 .. Len(q) /\ Len(q) \in Nat /\ q[i] = e
      BY <1>2, LenProperties DEF ToSet
    <2>2. Erase(q, e) = r
      BY <1>2 DEF Erase, RemoveAt
    <2> HIDE DEF i
    <2>3. /\ before \in Seq(S) /\ Len(before) = i - 1
          /\ \A k \in 1 .. i - 1 : before[k] = q[k]
      BY <2>1, SubSeqProperties
    <2>4. /\ after \in Seq(S) /\ Len(after) = Len(q) - i
          /\ \A k \in 1 .. Len(q) - i : after[k] = q[k + i]
      BY <2>1, SubSeqProperties
    <2> HIDE DEF before, after
    <2>5. /\ r \in Seq(S) /\ Len(r) = Len(before) + Len(after)
          /\ \A k \in 1 .. Len(before) + Len(after) :
                r[k] = IF k <= Len(before) THEN before[k]
                                           ELSE after[k - Len(before)]
      BY <2>3, <2>4, ConcatProperties
    <2>6. /\ \A k \in 1 .. i - 1 : r[k] = q[k]
          /\ \A k \in i .. Len(q) - 1 : r[k] = q[k + 1]
      <3>1. \A k \in 1 .. i - 1 : r[k] = q[k]
        BY <2>1, <2>3, <2>4, <2>5
      <3>2. \A k \in i .. Len(q) - 1 : r[k] = q[k + 1]
        <4> SUFFICES ASSUME NEW k \in i .. Len(q) - 1
                     PROVE  r[k] = q[k + 1]
          OBVIOUS
        <4>1. k - (i - 1) \in 1 .. Len(q) - i /\ (k - (i - 1)) + i = k + 1
          BY <2>1
        <4>2. r[k] = after[k - (i - 1)]
          BY <2>1, <2>3, <2>4, <2>5
        <4> QED BY <2>4, <4>1, <4>2
      <3> QED BY <3>1, <3>2
    <2>7. /\ DOMAIN q = 1 .. Len(q) /\ DOMAIN r = 1 .. Len(q) - 1
      BY <2>1, <2>3, <2>4, <2>5, LenProperties
    <2> HIDE DEF r
    <2>8. \A m \in DOMAIN q : m # i => \E k \in DOMAIN r : r[k] = q[m]
      <3> SUFFICES ASSUME NEW m \in DOMAIN q, m # i
                   PROVE  \E k \in DOMAIN r : r[k] = q[m]
        OBVIOUS
      <3>1. CASE m < i
        <4>1. m \in DOMAIN r /\ r[m] = q[m]
          BY <2>1, <2>6, <2>7, <3>1
        <4> QED BY <4>1
      <3>2. CASE m > i
        <4>1. m - 1 \in DOMAIN r /\ r[m - 1] = q[m]
          BY <2>1, <2>6, <2>7, <3>2
        <4> QED BY <4>1
      <3> QED BY <2>1, <2>7, <3>1, <3>2
    <2>9. ToSet(q) \ {e} \subseteq ToSet(r)
      BY <2>1, <2>8 DEF ToSet
    <2>10. ASSUME IsInjective(q) PROVE IsInjective(r)
      <3> DEFINE At(k) == IF k < i THEN k ELSE k + 1
      <3>1. \A k \in DOMAIN r : At(k) \in DOMAIN q /\ r[k] = q[At(k)]
        BY <2>1, <2>6, <2>7
      <3>2. \A k, m \in DOMAIN r : At(k) = At(m) => k = m
        BY <2>1, <2>7
      <3> HIDE DEF At
      <3> QED BY <2>10, <3>1, <3>2 DEF IsInjective
    <2> QED BY <2>2, <2>9, <2>10
  <1> QED BY <1>1, <1>2

(* Popping the front of a runq takes one element and repeats none.         *)
LEMMA TailOne ==
    ASSUME NEW S, NEW q \in Seq(S), q # << >>
    PROVE  /\ ToSet(q) \ {Head(q)} \subseteq ToSet(Tail(q))
           /\ IsInjective(q) => IsInjective(Tail(q))
  <1>1. /\ Head(q) = q[1] /\ Len(q) \in Nat \ {0} /\ Tail(q) \in Seq(S)
        /\ Len(Tail(q)) = Len(q) - 1
        /\ \A i \in 1 .. Len(q) - 1 : Tail(q)[i] = q[i + 1]
    BY HeadTailProperties, EmptySeq, LenProperties
  <1>2. DOMAIN q = 1 .. Len(q) /\ DOMAIN Tail(q) = 1 .. Len(q) - 1
    BY <1>1, LenProperties
  <1>3. \A m \in DOMAIN q : m # 1 => \E k \in DOMAIN Tail(q) : Tail(q)[k] = q[m]
    <2> SUFFICES ASSUME NEW m \in DOMAIN q, m # 1
                 PROVE  \E k \in DOMAIN Tail(q) : Tail(q)[k] = q[m]
      OBVIOUS
    <2>1. m - 1 \in DOMAIN Tail(q) /\ Tail(q)[m - 1] = q[m]
      BY <1>1, <1>2
    <2> QED BY <2>1
  <1>4. ToSet(q) \ {Head(q)} \subseteq ToSet(Tail(q))
    BY <1>1, <1>3 DEF ToSet
  <1>5. ASSUME IsInjective(q) PROVE IsInjective(Tail(q))
    BY <1>1, <1>2, <1>5 DEF IsInjective
  <1> QED BY <1>4, <1>5

-----------------------------------------------------------------------------
(* The runqs stay well formed.                                             *)

OnceOnRunq == \A w \in Workqs : IsInjective(m_runq[w])

OnceOnParallelRunq == \A w \in Workqs : IsInjective(m_p_runq[w])

(* The lists of the workqs, after the list of one workq has changed.       *)
LEMMA OneListChanges ==
    ASSUME NEW f \in [Workqs -> Seq(Jobs)], NEW w \in Workqs, NEW q,
           \A v \in Workqs : IsInjective(f[v]),
           IsInjective(f[w]) => IsInjective(q)
    PROVE  \A v \in Workqs : IsInjective([f EXCEPT ![w] = q][v])
  OBVIOUS

(* Four operations change a runq.                                          *)
LEMMA RunqChanges ==
    ASSUME NEW t \in Threads, Call(t) \/ Step(t)
    PROVE  \/ m_runq' = m_runq /\ m_p_runq' = m_p_runq
           \/ LinkParallelRunq(t) \/ LinkRunq(t) \/ PopFront(t)
           \/ EraseRunq(t) \/ EraseParallelRunq(t)
  BY DEF Call, Step, Activate, Deactivate, AidWorkq, AidService, LinkWorkq,
         DeactivateClear, DeactivateWait, PickWorkq, LockWorkq, LockImmed,
         LockJob, CountRun, Downgrade, DowngradeRelease, UnlockFailed,
         EraseWorkq, RelinkWorkq, JobReturns, UnlockJob, UnlockWorkq,
         queueVars

(* Every step leaves each job at most once on each list.                   *)
LEMMA NextOnce ==
    IInv /\ OnceOnRunq /\ OnceOnParallelRunq /\ [Next]_vars
        => OnceOnRunq' /\ OnceOnParallelRunq'
  <1> SUFFICES ASSUME IInv, OnceOnRunq, OnceOnParallelRunq, [Next]_vars
               PROVE  OnceOnRunq' /\ OnceOnParallelRunq'
    OBVIOUS
  <1>0. m_runq \in [Workqs -> Seq(Jobs)] /\ m_p_runq \in [Workqs -> Seq(Jobs)]
    BY DEF IInv, Typed
  <1>1. CASE m_runq' = m_runq /\ m_p_runq' = m_p_runq
    BY <1>1 DEF OnceOnRunq, OnceOnParallelRunq
  <1>2. ASSUME NEW t \in Threads, LinkParallelRunq(t)
        PROVE  OnceOnRunq' /\ OnceOnParallelRunq'
    <2>1. LockOK("link_p_runq", lk[t])
      BY <1>2 DEF IInv, ControlOK, LinkParallelRunq
    <2>2. lk[t].job \in Jobs /\ lk[t].wq \in Workqs
      BY <2>1, JobAssumption DEF LockOK, LinkLabels
    <2>3. IsInjective(m_p_runq[lk[t].wq])
             => IsInjective(LinkBack(m_p_runq[lk[t].wq], lk[t].job))
      BY <1>0, <2>2, LinkBackInjective
    <2>4. /\ m_p_runq' = [m_p_runq EXCEPT
                ![lk[t].wq] = LinkBack(m_p_runq[lk[t].wq], lk[t].job)]
          /\ m_runq' = m_runq
      BY <1>2 DEF LinkParallelRunq
    <2> QED
      BY <1>0, <2>2, <2>3, <2>4, OneListChanges
         DEF OnceOnRunq, OnceOnParallelRunq
  <1>3. ASSUME NEW t \in Threads, LinkRunq(t)
        PROVE  OnceOnRunq' /\ OnceOnParallelRunq'
    <2>1. LockOK("link_runq", lk[t])
      BY <1>3 DEF IInv, ControlOK, LinkRunq
    <2>2. lk[t].job \in Jobs /\ lk[t].wq \in Workqs
      BY <2>1, JobAssumption DEF LockOK, LinkLabels
    <2>3. IsInjective(m_runq[lk[t].wq])
             => IsInjective(LinkBack(m_runq[lk[t].wq], lk[t].job))
      BY <1>0, <2>2, LinkBackInjective
    <2>4. /\ m_runq' = [m_runq EXCEPT
                ![lk[t].wq] = LinkBack(m_runq[lk[t].wq], lk[t].job)]
          /\ m_p_runq' = m_p_runq
      BY <1>3 DEF LinkRunq
    <2> QED
      BY <1>0, <2>2, <2>3, <2>4, OneListChanges
         DEF OnceOnRunq, OnceOnParallelRunq
  <1>4. ASSUME NEW t \in Threads, PopFront(t)
        PROVE  OnceOnRunq' /\ OnceOnParallelRunq'
    <2>1. LockOK("pop_front", lk[t])
      BY <1>4 DEF IInv, ControlOK, PopFront
    <2>2. PICK w \in Workqs : w = lk[t].wq
      BY <2>1 DEF LockOK
    <2>3. CASE m_runq' = m_runq /\ m_p_runq' = m_p_runq
      BY <1>1, <2>3
    <2>4. CASE /\ m_runq[w] # << >> /\ m_p_runq' = m_p_runq
               /\ m_runq' = [m_runq EXCEPT ![w] = Tail(m_runq[w])]
      <3>1. IsInjective(m_runq[w]) => IsInjective(Tail(m_runq[w]))
        BY <1>0, <2>4, TailOne
      <3> QED
        BY <1>0, <2>4, <3>1, OneListChanges
           DEF OnceOnRunq, OnceOnParallelRunq
    <2>5. CASE /\ m_p_runq[w] # << >> /\ m_runq' = m_runq
               /\ m_p_runq' = [m_p_runq EXCEPT ![w] = Tail(m_p_runq[w])]
      <3>1. IsInjective(m_p_runq[w]) => IsInjective(Tail(m_p_runq[w]))
        BY <1>0, <2>5, TailOne
      <3> QED
        BY <1>0, <2>5, <3>1, OneListChanges
           DEF OnceOnRunq, OnceOnParallelRunq
    <2> QED
      BY <1>4, <2>2, <2>3, <2>4, <2>5 DEF PopFront
  <1>5. ASSUME NEW t \in Threads, EraseRunq(t)
        PROVE  OnceOnRunq' /\ OnceOnParallelRunq'
    <2>1. LockOK("erase_runq", lk[t])
      BY <1>5 DEF IInv, ControlOK, EraseRunq
    <2>2. lk[t].wq \in Workqs
      BY <2>1, JobAssumption DEF LockOK, OwnLabels
    <2>3. IsInjective(m_runq[lk[t].wq])
             => IsInjective(Erase(m_runq[lk[t].wq], lk[t].job))
      BY <1>0, <2>2, EraseOne
    <2>4. /\ m_runq' = [m_runq EXCEPT
                ![lk[t].wq] = Erase(m_runq[lk[t].wq], lk[t].job)]
          /\ m_p_runq' = m_p_runq
      BY <1>5 DEF EraseRunq
    <2> QED
      BY <1>0, <2>2, <2>3, <2>4, OneListChanges
         DEF OnceOnRunq, OnceOnParallelRunq
  <1>6. ASSUME NEW t \in Threads, EraseParallelRunq(t)
        PROVE  OnceOnRunq' /\ OnceOnParallelRunq'
    <2>1. LockOK("erase_p_runq", lk[t])
      BY <1>6 DEF IInv, ControlOK, EraseParallelRunq
    <2>2. lk[t].wq \in Workqs
      BY <2>1, JobAssumption DEF LockOK, OwnLabels
    <2>3. IsInjective(m_p_runq[lk[t].wq])
             => IsInjective(Erase(m_p_runq[lk[t].wq], lk[t].job))
      BY <1>0, <2>2, EraseOne
    <2>4. /\ m_p_runq' = [m_p_runq EXCEPT
                ![lk[t].wq] = Erase(m_p_runq[lk[t].wq], lk[t].job)]
          /\ m_runq' = m_runq
      BY <1>6 DEF EraseParallelRunq
    <2> QED
      BY <1>0, <2>2, <2>3, <2>4, OneListChanges
         DEF OnceOnRunq, OnceOnParallelRunq
  <1>7. CASE UNCHANGED vars
    BY <1>1, <1>7 DEF vars, queueVars
  <1> QED
    BY <1>1, <1>2, <1>3, <1>4, <1>5, <1>6, <1>7, RunqChanges DEF Next

(* Both runqs of a workq always hold its own jobs, each at most once, and  *)
(* the parallel one none that is not parallel: the two ways in, through    *)
(* job_to_runq, and the four ways out keep them so.                        *)
THEOREM RunqsStayWellFormed == Spec => []RunqsWellFormed
  <1>1. Init => OnceOnRunq /\ OnceOnParallelRunq
    <2>1. IsInjective(<< >>)
      BY DEF IsInjective
    <2> QED BY <2>1 DEF Init, OnceOnRunq, OnceOnParallelRunq
  <1>2. IInv /\ OnceOnRunq /\ OnceOnParallelRunq => RunqsWellFormed
    BY DEF IInv, RunqsOK, OnceOnRunq, OnceOnParallelRunq, RunqsWellFormed
  <1> QED BY <1>1, <1>2, NextOnce, Invariant, PTL DEF Spec

-----------------------------------------------------------------------------
(* No activation is lost.                                                  *)

(* The job is to run, and nobody has started it.                           *)
Waiting(j) == /\ "ACTIVE" \in m_state[j] /\ "RUNNING" \notin m_state[j]
              /\ "ONCE" \notin TypeOf[j]

RunqLabels == {"link_p_runq", "link_runq", "lock_job"}

ParallelRunqLabels == {"link_p_runq", "lock_job"}

(* The job is on a runq, or a thread is about to link it or to lock it.    *)
OnRunq(j) ==
    \/ j \in ToSet(m_runq[WorkqOf[j]])
    \/ \E t \in Threads : lk[t].job = j /\ pc[t] \in RunqLabels

OnParallelRunq(j) ==
    \/ j \in ToSet(m_p_runq[WorkqOf[j]])
    \/ \E t \in Threads : lk[t].job = j /\ pc[t] \in ParallelRunqLabels

Reachable(j) == OnRunq(j) /\ (IsParallel(j) => OnParallelRunq(j))

(* NoLostActivation, list by list: a parallel job that is between the two  *)
(* lists is on m_p_runq already, or about to be linked or locked.          *)
Queued == \A j \in Jobs : Waiting(j) => Reachable(j)

(* The threads other than t.                                               *)
OthersStay(t) ==
    \A u \in Threads \ {t} : pc'[u] = pc[u] /\ lk'[u].job = lk[u].job

(* A job stays reachable when it stays where it is, and the thread that    *)
(* takes a step has nothing to do with it.                                 *)
LEMMA ReachableStays ==
    ASSUME NEW t \in Threads, OthersStay(t), NEW j, Reachable(j),
           j \in ToSet(m_runq[WorkqOf[j]]) => j \in ToSet(m_runq'[WorkqOf[j]]),
           j \in ToSet(m_p_runq[WorkqOf[j]])
              => j \in ToSet(m_p_runq'[WorkqOf[j]]),
           lk[t].job # j \/ pc[t] \notin RunqLabels
    PROVE  Reachable(j)'
  <1>1. OnRunq(j) => OnRunq(j)'
    BY DEF OnRunq, OthersStay
  <1>2. OnParallelRunq(j) => OnParallelRunq(j)'
    BY DEF OnParallelRunq, OthersStay, RunqLabels, ParallelRunqLabels
  <1> QED BY <1>1, <1>2 DEF Reachable

(* A step of a thread that is not about to link or lock a job, leaves the  *)
(* lists alone and wakes no job up.                                        *)
LEMMA QuietQueued ==
    ASSUME Queued, NEW t \in Threads, OthersStay(t),
           m_runq' = m_runq, m_p_runq' = m_p_runq,
           pc[t] \notin RunqLabels,
           \A j \in Jobs : Waiting(j)' => Waiting(j)
    PROVE  Queued'
  <1> SUFFICES ASSUME NEW j \in Jobs, Waiting(j)' PROVE Reachable(j)'
    BY DEF Queued
  <1> QED BY ReachableStays DEF Queued

(* A step that is about one job: it is reachable afterwards if it waits,   *)
(* and the others stay where they are.                                     *)
LEMMA FocusedQueued ==
    ASSUME Queued, NEW t \in Threads, OthersStay(t), NEW i,
           Waiting(i)' => Reachable(i)',
           \A j \in Jobs \ {i} :
              /\ Waiting(j)' => Waiting(j)
              /\ j \in ToSet(m_runq[WorkqOf[j]])
                    => j \in ToSet(m_runq'[WorkqOf[j]])
              /\ j \in ToSet(m_p_runq[WorkqOf[j]])
                    => j \in ToSet(m_p_runq'[WorkqOf[j]]),
           lk[t].job = i \/ pc[t] \notin RunqLabels
    PROVE  Queued'
  <1> SUFFICES ASSUME NEW j \in Jobs, Waiting(j)', j # i PROVE Reachable(j)'
    BY DEF Queued
  <1> QED BY ReachableStays DEF Queued

(* Every step moves the thread that takes it and no other.                 *)
LEMMA MoveOthers ==
    ASSUME NEW t \in Threads, NEW label, NEW l, Goto(t, label, l),
           pc \in [Threads -> Labels], lk \in [Threads -> Locks]
    PROVE  OthersStay(t)
  BY DEF Goto, OthersStay

LEMMA StepOthers ==
    ASSUME IInv, NEW t \in Threads, Call(t) \/ Step(t)
    PROVE  OthersStay(t)
  <1>0. pc \in [Threads -> Labels] /\ lk \in [Threads -> Locks]
    BY DEF IInv, Typed
  <1>1. \E label, l : Goto(t, label, l)
    BY DEF Call, Step, Activate, Deactivate, AidWorkq, AidService,
           LinkParallelRunq, LinkRunq, LinkWorkq, DeactivateClear,
           DeactivateWait, PickWorkq, LockWorkq, LockImmed, LockRun, PopFront,
           LockJob, CountRun, EraseRunq, EraseParallelRunq, Downgrade,
           DowngradeRelease, UnlockFailed, EraseWorkq, RelinkWorkq, JobReturns,
           UnlockJob, UnlockWorkq, Resume, Return, Run, Locked, JobToRunq
  <1> QED BY <1>0, <1>1, MoveOthers

(* activate() sets the bit first; who set it when the job was neither      *)
(* running nor active goes on to link it.                                  *)
LEMMA ActivateQueued ==
    ASSUME IInv, Queued, NEW t \in Threads, NEW j \in Jobs,
           NEW immed \in BOOLEAN, Activate(t, j, immed)
    PROVE  Queued'
  <1>0. /\ pc \in [Threads -> Labels] /\ lk \in [Threads -> Locks]
        /\ m_state \in [Jobs -> SUBSET StateBits]
    BY DEF IInv, Typed
  <1>1. OthersStay(t) /\ pc[t] \notin RunqLabels
    BY StepOthers DEF Call, Activate, May, RunqLabels
  <1>2. /\ m_runq' = m_runq /\ m_p_runq' = m_p_runq
        /\ m_state' = [m_state EXCEPT ![j] = @ \cup {"ACTIVE"}]
    BY DEF Activate, queueVars
  <1>3. \A i \in Jobs \ {j} : Waiting(i)' => Waiting(i)
    BY <1>0, <1>2 DEF Waiting
  <1>4. CASE m_state[j] \cap {"RUNNING", "ACTIVE"} # {}
    <2>1. Waiting(j)' => Waiting(j)
      BY <1>0, <1>2, <1>4 DEF Waiting
    <2> QED BY <1>1, <1>2, <1>3, <2>1, QuietQueued
  <1>5. CASE m_state[j] \cap {"RUNNING", "ACTIVE"} = {}
    <2>1. PICK l : l.job = j /\ JobToRunq(t, l)
      BY <1>5 DEF Activate, NoLock
    <2>2. /\ lk'[t].job = j
          /\ pc'[t] = IF IsParallel(j) THEN "link_p_runq" ELSE "link_runq"
      <3>1. Goto(t, IF IsParallel(j) THEN "link_p_runq" ELSE "link_runq",
                 [l EXCEPT !.linked = FALSE])
        BY <2>1 DEF JobToRunq
      <3>2. [l EXCEPT !.linked = FALSE].job = l.job
        OBVIOUS
      <3> QED BY <1>0, <2>1, <3>1, <3>2 DEF Goto
    <2>3. Reachable(j)'
      BY <2>2 DEF Reachable, OnRunq, OnParallelRunq, RunqLabels,
                  ParallelRunqLabels
    <2> QED BY <1>1, <1>2, <1>3, <2>3, FocusedQueued
  <1> QED BY <1>4, <1>5

(* After the parallel runq the job goes to the other one.                  *)
LEMMA LinkParallelRunqQueued ==
    ASSUME IInv, Queued, NEW t \in Threads, LinkParallelRunq(t)
    PROVE  Queued'
  <1>0. /\ pc \in [Threads -> Labels] /\ lk \in [Threads -> Locks]
        /\ m_p_runq \in [Workqs -> Seq(Jobs)]
    BY DEF IInv, Typed
  <1>1. OthersStay(t)
    BY StepOthers DEF Step
  <1>2. LockOK("link_p_runq", lk[t])
    BY DEF IInv, ControlOK, LinkParallelRunq
  <1>3. PICK j \in Jobs : j = lk[t].job /\ lk[t].wq = WorkqOf[j]
    BY <1>2 DEF LockOK, LinkLabels
  <1>4. WorkqOf[j] \in Workqs
    BY JobAssumption
  <1>5. /\ m_state' = m_state /\ m_runq' = m_runq
        /\ m_p_runq' = [m_p_runq EXCEPT ![WorkqOf[j]] = LinkBack(@, j)]
        /\ pc'[t] = "link_runq" /\ lk'[t].job = j
    BY <1>0, <1>3 DEF LinkParallelRunq, Goto, jobVars
  <1>6. ToSet(LinkBack(m_p_runq[WorkqOf[j]], j))
            = ToSet(m_p_runq[WorkqOf[j]]) \cup {j}
    BY <1>0, <1>4, LinkBackSet
  <1>7. j \in ToSet(m_p_runq'[WorkqOf[j]])
    BY <1>0, <1>4, <1>5, <1>6
  <1>8. Reachable(j)'
    BY <1>5, <1>7 DEF Reachable, OnRunq, OnParallelRunq, RunqLabels
  <1>9. \A i \in Jobs :
           /\ Waiting(i)' => Waiting(i)
           /\ i \in ToSet(m_runq[WorkqOf[i]])
                 => i \in ToSet(m_runq'[WorkqOf[i]])
           /\ i \in ToSet(m_p_runq[WorkqOf[i]])
                 => i \in ToSet(m_p_runq'[WorkqOf[i]])
    BY <1>0, <1>4, <1>5, <1>6 DEF Waiting
  <1> QED BY <1>1, <1>3, <1>8, <1>9, FocusedQueued

(* The job is on the runq; if it is parallel, it was linked to the other   *)
(* one before, or somebody has popped it there and is about to lock it.    *)
LEMMA LinkRunqQueued ==
    ASSUME IInv, Queued, NEW t \in Threads, LinkRunq(t)
    PROVE  Queued'
  <1>0. /\ pc \in [Threads -> Labels] /\ lk \in [Threads -> Locks]
        /\ m_runq \in [Workqs -> Seq(Jobs)]
    BY DEF IInv, Typed
  <1>1. OthersStay(t)
    BY StepOthers DEF Step
  <1>2. LockOK("link_runq", lk[t])
    BY DEF IInv, ControlOK, LinkRunq
  <1>3. PICK j \in Jobs : j = lk[t].job /\ lk[t].wq = WorkqOf[j]
    BY <1>2 DEF LockOK, LinkLabels
  <1>4. WorkqOf[j] \in Workqs
    BY JobAssumption
  <1>5. /\ m_state' = m_state /\ m_p_runq' = m_p_runq
        /\ m_runq' = [m_runq EXCEPT ![WorkqOf[j]] = LinkBack(@, j)]
        /\ pc[t] = "link_runq"
    BY <1>0, <1>3 DEF LinkRunq, jobVars
  <1>6. ToSet(LinkBack(m_runq[WorkqOf[j]], j))
            = ToSet(m_runq[WorkqOf[j]]) \cup {j}
    BY <1>0, <1>4, LinkBackSet
  <1>7. j \in ToSet(m_runq'[WorkqOf[j]])
    BY <1>0, <1>4, <1>5, <1>6
  <1>8. Waiting(j)' => Reachable(j)'
    <2> SUFFICES ASSUME Waiting(j)' PROVE Reachable(j)'
      OBVIOUS
    <2>1. Waiting(j)
      BY <1>5 DEF Waiting
    <2>2. OnParallelRunq(j) => OnParallelRunq(j)'
      BY <1>1, <1>5 DEF OnParallelRunq, OthersStay, ParallelRunqLabels
    <2>3. OnRunq(j)'
      BY <1>7 DEF OnRunq
    <2> QED BY <2>1, <2>2, <2>3 DEF Queued, Reachable
  <1>9. \A i \in Jobs :
           /\ Waiting(i)' => Waiting(i)
           /\ i \in ToSet(m_runq[WorkqOf[i]])
                 => i \in ToSet(m_runq'[WorkqOf[i]])
           /\ i \in ToSet(m_p_runq[WorkqOf[i]])
                 => i \in ToSet(m_p_runq'[WorkqOf[i]])
    BY <1>0, <1>4, <1>5, <1>6 DEF Waiting
  <1> QED BY <1>1, <1>3, <1>8, <1>9, FocusedQueued

(* Who pops a job goes on to lock it.                                      *)
LEMMA PopFrontQueued ==
    ASSUME IInv, Queued, NEW t \in Threads, PopFront(t)
    PROVE  Queued'
  <1>0. /\ pc \in [Threads -> Labels] /\ lk \in [Threads -> Locks]
        /\ m_runq \in [Workqs -> Seq(Jobs)] /\ m_p_runq \in [Workqs -> Seq(Jobs)]
    BY DEF IInv, Typed
  <1>1. OthersStay(t) /\ pc[t] \notin RunqLabels
    BY StepOthers DEF Step, PopFront, RunqLabels
  <1>2. LockOK("pop_front", lk[t])
    BY DEF IInv, ControlOK, PopFront
  <1>3. PICK w \in Workqs : w = lk[t].wq
    BY <1>2 DEF LockOK
  <1>4. m_state' = m_state /\ \A i \in Jobs : Waiting(i)' => Waiting(i)
    BY DEF PopFront, jobVars, Waiting
  <1>5. CASE m_runq' = m_runq /\ m_p_runq' = m_p_runq
    BY <1>1, <1>4, <1>5, QuietQueued
  <1>6. CASE /\ m_runq[w] # << >> /\ m_p_runq' = m_p_runq
             /\ m_runq' = [m_runq EXCEPT ![w] = Tail(m_runq[w])]
             /\ Goto(t, "lock_job", [lk[t] EXCEPT !.job = Head(m_runq[w])])
    <2>0. PICK j : j = Head(m_runq[w])
      OBVIOUS
    <2>1. /\ j \in Jobs
          /\ ToSet(m_runq[w]) \ {j} \subseteq ToSet(Tail(m_runq[w]))
      BY <1>0, <1>6, <2>0, HeadTailSet, TailOne
    <2>2. pc'[t] = "lock_job" /\ lk'[t].job = j
      BY <1>0, <1>6, <2>0 DEF Goto, Locks
    <2>3. Reachable(j)'
      BY <2>2 DEF Reachable, OnRunq, OnParallelRunq, RunqLabels,
                  ParallelRunqLabels
    <2>4. \A i \in Jobs \ {j} :
             /\ i \in ToSet(m_runq[WorkqOf[i]])
                   => i \in ToSet(m_runq'[WorkqOf[i]])
             /\ i \in ToSet(m_p_runq[WorkqOf[i]])
                   => i \in ToSet(m_p_runq'[WorkqOf[i]])
      BY <1>0, <1>6, <2>1
    <2> QED BY <1>1, <1>4, <2>1, <2>3, <2>4, FocusedQueued
  <1>7. CASE /\ m_p_runq[w] # << >> /\ m_runq' = m_runq
             /\ m_p_runq' = [m_p_runq EXCEPT ![w] = Tail(m_p_runq[w])]
             /\ Goto(t, "lock_job", [lk[t] EXCEPT !.job = Head(m_p_runq[w])])
    <2>0. PICK j : j = Head(m_p_runq[w])
      OBVIOUS
    <2>1. /\ j \in Jobs
          /\ ToSet(m_p_runq[w]) \ {j} \subseteq ToSet(Tail(m_p_runq[w]))
      BY <1>0, <1>7, <2>0, HeadTailSet, TailOne
    <2>2. pc'[t] = "lock_job" /\ lk'[t].job = j
      BY <1>0, <1>7, <2>0 DEF Goto, Locks
    <2>3. Reachable(j)'
      BY <2>2 DEF Reachable, OnRunq, OnParallelRunq, RunqLabels,
                  ParallelRunqLabels
    <2>4. \A i \in Jobs \ {j} :
             /\ i \in ToSet(m_runq[WorkqOf[i]])
                   => i \in ToSet(m_runq'[WorkqOf[i]])
             /\ i \in ToSet(m_p_runq[WorkqOf[i]])
                   => i \in ToSet(m_p_runq'[WorkqOf[i]])
      BY <1>0, <1>7, <2>1
    <2> QED BY <1>1, <1>4, <2>1, <2>3, <2>4, FocusedQueued
  <1> QED
    BY <1>3, <1>5, <1>6, <1>7 DEF PopFront

(* A job that is dropped because it cannot be locked does not wait.        *)
LEMMA LockJobQueued ==
    ASSUME IInv, Queued, NEW t \in Threads, LockJob(t)
    PROVE  Queued'
  <1>0. m_state \in [Jobs -> SUBSET StateBits]
    BY DEF IInv, Typed
  <1>1. OthersStay(t)
    BY StepOthers DEF Step
  <1>2. LockOK("lock_job", lk[t])
    BY DEF IInv, ControlOK, LockJob
  <1>3. PICK j \in Jobs : j = lk[t].job
    BY <1>2 DEF LockOK
  <1>4. m_runq' = m_runq /\ m_p_runq' = m_p_runq
    BY DEF LockJob, queueVars
  <1>5. ~Waiting(j)'
    <2>1. CASE Runnable(j)
      BY <1>0, <1>3, <2>1 DEF LockJob, Waiting
    <2>2. CASE ~Runnable(j)
      BY <1>3, <2>2 DEF LockJob, Waiting, Runnable
    <2> QED BY <2>1, <2>2
  <1>6. \A i \in Jobs \ {j} : Waiting(i)' => Waiting(i)
    BY <1>0, <1>3 DEF LockJob, Waiting
  <1> QED BY <1>1, <1>3, <1>4, <1>5, <1>6, FocusedQueued

(* The job that is erased from a runq runs.                                *)
LEMMA OwnedRuns ==
    ASSUME IInv, NEW t \in Threads, NEW j \in Jobs, lk[t].own, lk[t].job = j
    PROVE  "RUNNING" \in m_state[j]
  <1>1. stack[t] \in Seq(Locks)
    BY DEF IInv, Typed
  <1>2. Owns(t, 0, j) /\ 0 \in Depths(t)
    BY <1>1, LenProperties DEF Owns, LockAt, Depths
  <1> QED BY <1>2 DEF IInv, RunLockOwned

(* ... so that nothing that waits is erased.                               *)
LEMMA EraseRunqQueued ==
    ASSUME IInv, Queued, NEW t \in Threads, EraseRunq(t)
    PROVE  Queued'
  <1>0. m_runq \in [Workqs -> Seq(Jobs)]
    BY DEF IInv, Typed
  <1>1. OthersStay(t)
    BY StepOthers DEF Step
  <1>2. LockOK("erase_runq", lk[t])
    BY DEF IInv, ControlOK, EraseRunq
  <1>3. PICK j \in Jobs : j = lk[t].job /\ lk[t].wq = WorkqOf[j] /\ lk[t].own
    BY <1>2 DEF LockOK, OwnLabels
  <1>4. WorkqOf[j] \in Workqs
    BY JobAssumption
  <1>5. /\ m_runq' = [m_runq EXCEPT ![WorkqOf[j]] = Erase(@, j)]
        /\ m_p_runq' = m_p_runq /\ m_state' = m_state
    BY <1>3 DEF EraseRunq, jobVars
  <1>6. ToSet(m_runq[WorkqOf[j]]) \ {j}
           \subseteq ToSet(Erase(m_runq[WorkqOf[j]], j))
    BY <1>0, <1>4, EraseOne
  <1>7. ~Waiting(j)'
    BY <1>3, <1>5, OwnedRuns DEF Waiting
  <1>8. \A i \in Jobs \ {j} :
           /\ Waiting(i)' => Waiting(i)
           /\ i \in ToSet(m_runq[WorkqOf[i]])
                 => i \in ToSet(m_runq'[WorkqOf[i]])
           /\ i \in ToSet(m_p_runq[WorkqOf[i]])
                 => i \in ToSet(m_p_runq'[WorkqOf[i]])
    BY <1>0, <1>4, <1>5, <1>6 DEF Waiting
  <1> QED BY <1>1, <1>3, <1>7, <1>8, FocusedQueued

LEMMA EraseParallelRunqQueued ==
    ASSUME IInv, Queued, NEW t \in Threads, EraseParallelRunq(t)
    PROVE  Queued'
  <1>0. m_p_runq \in [Workqs -> Seq(Jobs)]
    BY DEF IInv, Typed
  <1>1. OthersStay(t)
    BY StepOthers DEF Step
  <1>2. LockOK("erase_p_runq", lk[t])
    BY DEF IInv, ControlOK, EraseParallelRunq
  <1>3. PICK j \in Jobs : j = lk[t].job /\ lk[t].wq = WorkqOf[j] /\ lk[t].own
    BY <1>2 DEF LockOK, OwnLabels
  <1>4. WorkqOf[j] \in Workqs
    BY JobAssumption
  <1>5. /\ m_p_runq' = [m_p_runq EXCEPT ![WorkqOf[j]] = Erase(@, j)]
        /\ m_runq' = m_runq /\ m_state' = m_state
    BY <1>3 DEF EraseParallelRunq, jobVars
  <1>6. ToSet(m_p_runq[WorkqOf[j]]) \ {j}
           \subseteq ToSet(Erase(m_p_runq[WorkqOf[j]], j))
    BY <1>0, <1>4, EraseOne
  <1>7. ~Waiting(j)'
    BY <1>3, <1>5, OwnedRuns DEF Waiting
  <1>8. \A i \in Jobs \ {j} :
           /\ Waiting(i)' => Waiting(i)
           /\ i \in ToSet(m_runq[WorkqOf[i]])
                 => i \in ToSet(m_runq'[WorkqOf[i]])
           /\ i \in ToSet(m_p_runq[WorkqOf[i]])
                 => i \in ToSet(m_p_runq'[WorkqOf[i]])
    BY <1>0, <1>4, <1>5, <1>6 DEF Waiting
  <1> QED BY <1>1, <1>3, <1>7, <1>8, FocusedQueued

(* unlock_run queues the job again if it is active when RUNNING is         *)
(* cleared.                                                                *)
LEMMA UnlockJobQueued ==
    ASSUME IInv, Queued, NEW t \in Threads, UnlockJob(t)
    PROVE  Queued'
  <1>0. /\ pc \in [Threads -> Labels] /\ lk \in [Threads -> Locks]
        /\ m_state \in [Jobs -> SUBSET StateBits]
    BY DEF IInv, Typed
  <1>1. OthersStay(t) /\ pc[t] \notin RunqLabels
    BY StepOthers DEF Step, UnlockJob, RunqLabels
  <1>2. LockOK("unlock_job", lk[t])
    BY DEF IInv, ControlOK, UnlockJob
  <1>3. PICK j \in Jobs : j = lk[t].job
    BY <1>2 DEF LockOK, OwnLabels
  <1>4. /\ m_runq' = m_runq /\ m_p_runq' = m_p_runq
        /\ m_state' = [m_state EXCEPT ![j] = @ \ {"RUNNING"}]
    BY <1>3 DEF UnlockJob, queueVars
  <1>5. \A i \in Jobs \ {j} : Waiting(i)' => Waiting(i)
    BY <1>0, <1>4 DEF Waiting
  <1>6. Waiting(j)' => Reachable(j)'
    <2> SUFFICES ASSUME Waiting(j)' PROVE Reachable(j)'
      OBVIOUS
    <2>1. "ONCE" \notin TypeOf[j] /\ "ACTIVE" \in m_state[j]
      BY <1>0, <1>4 DEF Waiting
    <2> DEFINE k == [lk[t] EXCEPT !.own = FALSE, !.ret = "unlock_wq"]
    <2>a. k.job = lk[t].job
      BY <1>0 DEF Locks
    <2>b. JobToRunq(t, k)
      BY <1>3, <2>1, <2>a DEF UnlockJob
    <2>2. PICK l : l.job = j /\ JobToRunq(t, l)
      BY <1>3, <2>a, <2>b
    <2>3. /\ lk'[t].job = j
          /\ pc'[t] = IF IsParallel(j) THEN "link_p_runq" ELSE "link_runq"
      <3>1. Goto(t, IF IsParallel(j) THEN "link_p_runq" ELSE "link_runq",
                 [l EXCEPT !.linked = FALSE])
        BY <2>2 DEF JobToRunq
      <3>2. [l EXCEPT !.linked = FALSE].job = l.job
        OBVIOUS
      <3> QED BY <1>0, <2>2, <3>1, <3>2 DEF Goto
    <2> QED BY <2>3 DEF Reachable, OnRunq, OnParallelRunq, RunqLabels,
                        ParallelRunqLabels
  <1> QED BY <1>1, <1>4, <1>5, <1>6, FocusedQueued

(* deactivate() only takes the wish to run away.                           *)
LEMMA DeactivateClearQueued ==
    ASSUME IInv, Queued, NEW t \in Threads, DeactivateClear(t)
    PROVE  Queued'
  <1>0. m_state \in [Jobs -> SUBSET StateBits]
    BY DEF IInv, Typed
  <1>1. OthersStay(t) /\ pc[t] \notin RunqLabels
    BY StepOthers DEF Step, DeactivateClear, RunqLabels
  <1>2. \A i \in Jobs : Waiting(i)' => Waiting(i)
    BY <1>0 DEF DeactivateClear, Waiting
  <1> QED BY <1>1, <1>2, QuietQueued DEF DeactivateClear, queueVars

(* No step loses a waiting job.                                            *)
LEMMA NextQueued == IInv /\ Queued /\ [Next]_vars => Queued'
  <1> SUFFICES ASSUME IInv, Queued, [Next]_vars PROVE Queued'
    OBVIOUS
  <1>1. CASE UNCHANGED vars
    BY <1>1 DEF vars, jobVars, queueVars, Queued, Waiting, Reachable, OnRunq,
                OnParallelRunq
  <1>2. ASSUME NEW t \in Threads, Call(t) \/ Step(t),
               m_state' = m_state, m_runq' = m_runq, m_p_runq' = m_p_runq,
               pc[t] \notin RunqLabels
        PROVE  Queued'
    <2>1. \A j \in Jobs : Waiting(j)' => Waiting(j)
      BY <1>2 DEF Waiting
    <2> QED BY <1>2, <2>1, StepOthers, QuietQueued
  <1>3. ASSUME NEW t \in Threads, Call(t) PROVE Queued'
    <2>1. CASE \E j \in Jobs, immed \in BOOLEAN : Activate(t, j, immed)
      BY <2>1, ActivateQueued
    <2>2. CASE \/ \E j \in Jobs : Deactivate(t, j)
               \/ \E w \in Workqs, n \in AidCounts : AidWorkq(t, w, n)
               \/ \E n \in AidCounts : AidService(t, n)
      <3>1. /\ m_state' = m_state /\ m_runq' = m_runq /\ m_p_runq' = m_p_runq
            /\ pc[t] \notin RunqLabels
        BY <2>2 DEF Deactivate, AidWorkq, AidService, May, jobVars, queueVars,
                    RunqLabels
      <3> QED BY <1>2, <1>3, <3>1
    <2> QED BY <1>3, <2>1, <2>2 DEF Call
  <1>4. ASSUME NEW t \in Threads, Step(t) PROVE Queued'
    <2>1. \/ LinkParallelRunq(t) \/ LinkRunq(t) \/ DeactivateClear(t)
          \/ PopFront(t) \/ LockJob(t) \/ EraseRunq(t) \/ EraseParallelRunq(t)
          \/ UnlockJob(t)
          \/ /\ m_state' = m_state /\ m_runq' = m_runq /\ m_p_runq' = m_p_runq
             /\ pc[t] \notin RunqLabels
      BY <1>4 DEF Step, LinkWorkq, DeactivateWait, PickWorkq, LockWorkq,
                  LockImmed, CountRun, Downgrade, DowngradeRelease,
                  UnlockFailed, EraseWorkq, RelinkWorkq, JobReturns,
                  UnlockWorkq, jobVars, queueVars, RunqLabels
    <2> QED
      BY <1>2, <1>4, <2>1, LinkParallelRunqQueued, LinkRunqQueued,
         DeactivateClearQueued, PopFrontQueued, LockJobQueued,
         EraseRunqQueued, EraseParallelRunqQueued, UnlockJobQueued
  <1> QED BY <1>1, <1>3, <1>4 DEF Next

(* A job that is to run, and that nobody runs, is always on the runqs it   *)
(* belongs on, or in the hands of a thread that is about to put it there   *)
(* or to lock it: activate(), unlock_run and the ways out of the runqs     *)
(* lose no activation.                                                     *)
THEOREM ActivationsKept == Spec => []NoLostActivation
  <1>1. Init => Queued
    BY DEF Init, Queued, Waiting
  <1>2. Queued => NoLostActivation
    BY DEF Queued, Waiting, Reachable, OnRunq, OnParallelRunq, RunqLabels,
           ParallelRunqLabels, NoLostActivation
  <1> QED BY <1>1, <1>2, NextQueued, Invariant, PTL DEF Spec

-----------------------------------------------------------------------------
(* The counters of the workq locks.                                        *)

Parallels == {"PARALLEL", "BOTH"}

(* The places that hold run-parallel of a workq.                           *)
ParallelHolders(w) == {s \in Slots : HoldsParallel(s[1], s[2], w)}

ParallelCounted ==
    \A w \in Workqs :
        /\ IsFiniteSet(ParallelHolders(w))
        /\ Cardinality(ParallelHolders(w)) = m_run_parallel[w]

LEMMA SlotsAre ==
    ASSUME NEW s
    PROVE  s \in Slots <=> \E u \in Threads : \E k \in Depths(u) : s = <<u, k>>
  BY DEF Slots

LEMMA SlotsAre_ ==
    ASSUME NEW s
    PROVE  s \in Slots' <=> \E u \in Threads : \E k \in Depths(u)' : s = <<u, k>>
  BY DEF Slots

(* A place to hold a lock moves, comes or goes.                            *)
LEMMA OneMore ==
    ASSUME NEW S, IsFiniteSet(S), NEW e, e \notin S
    PROVE  IsFiniteSet(S \cup {e}) /\ Cardinality(S \cup {e}) = Cardinality(S) + 1
  BY FS_AddElement

LEMMA OneLess ==
    ASSUME NEW S, IsFiniteSet(S), NEW e \in S
    PROVE  IsFiniteSet(S \ {e}) /\ Cardinality(S \ {e}) = Cardinality(S) - 1
  BY FS_RemoveElement

LEMMA OneMoved ==
    ASSUME NEW S, IsFiniteSet(S), NEW e \in S, NEW f, f \notin S
    PROVE  /\ IsFiniteSet((S \ {e}) \cup {f})
           /\ Cardinality((S \ {e}) \cup {f}) = Cardinality(S)
  <1>1. IsFiniteSet(S \ {e}) /\ Cardinality(S \ {e}) = Cardinality(S) - 1
    BY OneLess
  <1>2. f \notin S \ {e}
    OBVIOUS
  <1>3. Cardinality(S) \in Nat
    BY FS_CardinalityType
  <1> QED BY <1>1, <1>2, <1>3, OneMore

(* The holders after a call has changed its lock.                          *)
LEMMA CallHolders ==
    ASSUME LocksType, NEW t \in Threads, NEW l,
           lk' = [lk EXCEPT ![t] = l], stack' = stack, NEW w
    PROVE  /\ <<t, 0>> \in ParallelHolders(w)
                 <=> lk[t].wq = w /\ lk[t].lck \in Parallels
           /\ ParallelHolders(w)' =
                 IF l.wq = w /\ l.lck \in Parallels
                 THEN ParallelHolders(w) \cup {<<t, 0>>}
                 ELSE ParallelHolders(w) \ {<<t, 0>>}
  <1>1. \A u \in Threads :
            /\ Depths(u)' = Depths(u) /\ 0 \in Depths(u)
            /\ \A k \in Depths(u) : LockAt(u, k)' =
                  IF u = t /\ k = 0 THEN l ELSE LockAt(u, k)
    BY CallSlots
  <1>2. \A u \in Threads : \A k \in Depths(u) :
            <<u, k>> \in ParallelHolders(w) <=> HoldsParallel(u, k, w)
    BY SlotsAre DEF ParallelHolders
  <1>3. \A u \in Threads : \A k \in Depths(u) :
            <<u, k>> \in ParallelHolders(w)' <=> HoldsParallel(u, k, w)'
    BY <1>1, SlotsAre_ DEF ParallelHolders
  <1>4. LockAt(t, 0) = lk[t]
    BY DEF LockAt
  <1>5. \A u \in Threads : \A k \in Depths(u) : HoldsParallel(u, k, w)' <=>
            IF u = t /\ k = 0 THEN l.wq = w /\ l.lck \in Parallels
                              ELSE HoldsParallel(u, k, w)
    BY <1>1 DEF HoldsParallel, Parallels
  <1>6. /\ \A s \in ParallelHolders(w) : \E u \in Threads :
               \E k \in Depths(u) : s = <<u, k>>
        /\ \A s \in ParallelHolders(w)' : \E u \in Threads :
               \E k \in Depths(u) : s = <<u, k>>
    BY <1>1, SlotsAre, SlotsAre_ DEF ParallelHolders
  <1>7. <<t, 0>> \in ParallelHolders(w)
            <=> lk[t].wq = w /\ lk[t].lck \in Parallels
    BY <1>1, <1>2, <1>4 DEF HoldsParallel, Parallels
  <1>8. ASSUME NEW s
        PROVE  s \in ParallelHolders(w)' <=>
                  IF s = <<t, 0>> THEN l.wq = w /\ l.lck \in Parallels
                                  ELSE s \in ParallelHolders(w)
    <2>1. CASE \E u \in Threads : \E k \in Depths(u) : s = <<u, k>>
      <3>0. PICK u \in Threads : \E k \in Depths(u) : s = <<u, k>>
        BY <2>1
      <3>1. PICK k \in Depths(u) : s = <<u, k>>
        BY <3>0
      <3>2. s = <<t, 0>> <=> u = t /\ k = 0
        BY <3>1
      <3> QED BY <1>2, <1>3, <1>5, <3>1, <3>2
    <2>2. CASE ~\E u \in Threads : \E k \in Depths(u) : s = <<u, k>>
      BY <1>1, <1>6, <2>2
    <2> QED BY <2>1, <2>2
  <1> HIDE DEF ParallelHolders
  <1> QED BY <1>7, <1>8

(* A call goes on without touching run-parallel.                           *)
LEMMA ParallelKept ==
    ASSUME ParallelCounted, LocksType, NEW t \in Threads, NEW l,
           lk' = [lk EXCEPT ![t] = l], stack' = stack,
           m_run_parallel' = m_run_parallel,
           l.lck \in Parallels <=> lk[t].lck \in Parallels,
           l.lck \in Parallels => l.wq = lk[t].wq
    PROVE  ParallelCounted'
  <1>1. ASSUME NEW w \in Workqs PROVE ParallelHolders(w)' = ParallelHolders(w)
    <2>1. /\ <<t, 0>> \in ParallelHolders(w)
                <=> lk[t].wq = w /\ lk[t].lck \in Parallels
          /\ ParallelHolders(w)' =
                IF l.wq = w /\ l.lck \in Parallels
                THEN ParallelHolders(w) \cup {<<t, 0>>}
                ELSE ParallelHolders(w) \ {<<t, 0>>}
      BY CallHolders
    <2> QED BY <2>1
  <1> QED BY <1>1 DEF ParallelCounted

(* A call takes run-parallel of a workq.                                   *)
LEMMA ParallelTaken ==
    ASSUME ParallelCounted, LocksType, NEW t \in Threads, NEW l,
           NEW v \in Workqs,
           lk' = [lk EXCEPT ![t] = l], stack' = stack,
           m_run_parallel \in [Workqs -> Int],
           m_run_parallel' = [m_run_parallel EXCEPT ![v] = @ + 1],
           lk[t].lck \notin Parallels, l.lck \in Parallels, l.wq = v
    PROVE  ParallelCounted'
  <1> SUFFICES ASSUME NEW w \in Workqs
               PROVE  /\ IsFiniteSet(ParallelHolders(w)')
                      /\ Cardinality(ParallelHolders(w)') = m_run_parallel'[w]
    BY DEF ParallelCounted
  <1>1. /\ <<t, 0>> \notin ParallelHolders(w)
        /\ ParallelHolders(w)' = IF w = v THEN ParallelHolders(w) \cup {<<t, 0>>}
                                 ELSE ParallelHolders(w) \ {<<t, 0>>}
    BY CallHolders
  <1>2. /\ IsFiniteSet(ParallelHolders(w))
        /\ Cardinality(ParallelHolders(w)) = m_run_parallel[w]
    BY DEF ParallelCounted
  <1>3. CASE w = v
    BY <1>1, <1>2, <1>3, OneMore
  <1>4. CASE w # v
    <2>1. ParallelHolders(w)' = ParallelHolders(w)
      BY <1>1, <1>4
    <2> QED BY <1>2, <1>4, <2>1
  <1> QED BY <1>3, <1>4

(* A call gives run-parallel back.                                         *)
LEMMA ParallelReleased ==
    ASSUME ParallelCounted, LocksType, NEW t \in Threads, NEW l,
           NEW v \in Workqs,
           lk' = [lk EXCEPT ![t] = l], stack' = stack,
           m_run_parallel \in [Workqs -> Int],
           m_run_parallel' = [m_run_parallel EXCEPT ![v] = @ - 1],
           lk[t].lck \in Parallels, lk[t].wq = v, l.lck \notin Parallels
    PROVE  ParallelCounted'
  <1> SUFFICES ASSUME NEW w \in Workqs
               PROVE  /\ IsFiniteSet(ParallelHolders(w)')
                      /\ Cardinality(ParallelHolders(w)') = m_run_parallel'[w]
    BY DEF ParallelCounted
  <1>1. /\ <<t, 0>> \in ParallelHolders(w) <=> w = v
        /\ ParallelHolders(w)' = ParallelHolders(w) \ {<<t, 0>>}
    BY CallHolders
  <1>2. /\ IsFiniteSet(ParallelHolders(w))
        /\ Cardinality(ParallelHolders(w)) = m_run_parallel[w]
    BY DEF ParallelCounted
  <1>3. CASE w = v
    BY <1>1, <1>2, <1>3, OneLess
  <1>4. CASE w # v
    <2>1. ParallelHolders(w)' = ParallelHolders(w)
      BY <1>1, <1>4
    <2> QED BY <1>2, <1>4, <2>1
  <1> QED BY <1>3, <1>4

(* The lock moves from the call to the stack.                              *)
LEMMA ParallelPushed ==
    ASSUME ParallelCounted, LocksType, NEW t \in Threads, NEW l \in Locks,
           lk' = [lk EXCEPT ![t] = NoLock],
           stack' = [stack EXCEPT ![t] = Append(@, l)],
           m_run_parallel' = m_run_parallel,
           l.lck \in Parallels <=> lk[t].lck \in Parallels, l.wq = lk[t].wq
    PROVE  ParallelCounted'
  <1> SUFFICES ASSUME NEW w \in Workqs
               PROVE  /\ IsFiniteSet(ParallelHolders(w)')
                      /\ Cardinality(ParallelHolders(w)') = m_run_parallel[w]
    BY DEF ParallelCounted
  <1>0. /\ IsFiniteSet(ParallelHolders(w))
        /\ Cardinality(ParallelHolders(w)) = m_run_parallel[w]
    BY DEF ParallelCounted
  <1>1. PICK n \in Nat \ {0} :
            /\ n \notin Depths(t) /\ Depths(t)' = Depths(t) \cup {n}
            /\ LockAt(t, n)' = l /\ LockAt(t, 0)' = NoLock
            /\ \A k \in Depths(t) \ {0} : LockAt(t, k)' = LockAt(t, k)
    BY PushSlots
  <1>2. \A u \in Threads :
            /\ 0 \in Depths(u)
            /\ u # t => Depths(u)' = Depths(u)
            /\ u # t => \A k \in Depths(u) : LockAt(u, k)' = LockAt(u, k)
    BY PushSlots
  <1>3. /\ HoldsParallel(t, 0, w)
              <=> lk[t].wq = w /\ lk[t].lck \in Parallels
        /\ HoldsParallel(t, n, w)' <=> HoldsParallel(t, 0, w)
        /\ ~HoldsParallel(t, 0, w)'
        /\ \A k \in Depths(t) \ {0} :
              HoldsParallel(t, k, w)' <=> HoldsParallel(t, k, w)
    <2>1. LockAt(t, 0) = lk[t]
      BY DEF LockAt
    <2>2. NoLock.lck = "NONE"
      BY DEF NoLock
    <2> QED BY <1>1, <2>1, <2>2 DEF HoldsParallel, Parallels
  <1>4. \A u \in Threads : u # t => \A k \in Depths(u) :
            HoldsParallel(u, k, w)' <=> HoldsParallel(u, k, w)
    BY <1>2 DEF HoldsParallel
  <1>5. \A s : s \in ParallelHolders(w) <=>
            \E u \in Threads : \E k \in Depths(u) :
                s = <<u, k>> /\ HoldsParallel(u, k, w)
    BY SlotsAre DEF ParallelHolders
  <1>6. \A s : s \in ParallelHolders(w)' <=>
            \E u \in Threads : \E k \in Depths(u)' :
                s = <<u, k>> /\ HoldsParallel(u, k, w)'
    BY SlotsAre_ DEF ParallelHolders
  <1>7. <<t, n>> \notin ParallelHolders(w)
    BY <1>1, <1>5
  <1>8. ASSUME NEW s
        PROVE  s \in ParallelHolders(w)' <=>
                  \/ s = <<t, n>> /\ HoldsParallel(t, 0, w)
                  \/ s # <<t, 0>> /\ s \in ParallelHolders(w)
    <2>1. CASE \E u \in Threads : \E k \in Nat : s = <<u, k>>
      <3>1. PICK u \in Threads, k \in Nat : s = <<u, k>>
        BY <2>1
      <3>2. s \in ParallelHolders(w)
               <=> k \in Depths(u) /\ HoldsParallel(u, k, w)
        BY <1>5, <3>1
      <3>3. s \in ParallelHolders(w)'
               <=> k \in Depths(u)' /\ HoldsParallel(u, k, w)'
        BY <1>6, <3>1
      <3>4. CASE u # t
        BY <1>2, <1>4, <3>1, <3>2, <3>3, <3>4
      <3>5. CASE u = t
        <4>1. /\ s = <<t, n>> <=> k = n
              /\ s = <<t, 0>> <=> k = 0
          BY <3>1, <3>5
        <4> QED BY <1>1, <1>2, <1>3, <3>2, <3>3, <3>5, <4>1
      <3> QED BY <3>4, <3>5
    <2>2. CASE ~\E u \in Threads : \E k \in Nat : s = <<u, k>>
      <3>1. \A u \in Threads : Depths(u) \subseteq Nat /\ Depths(u)' \subseteq Nat
        BY DEF Depths
      <3> QED BY <1>1, <1>5, <1>6, <2>2, <3>1
    <2> QED BY <2>1, <2>2
  <1>9. <<t, 0>> \in ParallelHolders(w) <=> HoldsParallel(t, 0, w)
    BY <1>2, <1>5
  <1> HIDE DEF ParallelHolders
  <1>10. CASE HoldsParallel(t, 0, w)
    <2>1. ParallelHolders(w)' = (ParallelHolders(w) \ {<<t, 0>>}) \cup {<<t, n>>}
      BY <1>8, <1>10
    <2> QED BY <1>0, <1>7, <1>9, <1>10, <2>1, OneMoved
  <1>11. CASE ~HoldsParallel(t, 0, w)
    <2>1. ParallelHolders(w)' = ParallelHolders(w)
      BY <1>8, <1>9, <1>11
    <2> QED BY <1>0, <2>1
  <1> QED BY <1>10, <1>11

(* The lock moves from the stack to the call, which held nothing.          *)
LEMMA ParallelPopped ==
    ASSUME ParallelCounted, LocksType, NEW t \in Threads, stack[t] # << >>,
           lk' = [lk EXCEPT ![t] = Last(stack[t])],
           stack' = [stack EXCEPT ![t] = Front(@)],
           m_run_parallel' = m_run_parallel,
           lk[t].lck \notin Parallels
    PROVE  ParallelCounted'
  <1> SUFFICES ASSUME NEW w \in Workqs
               PROVE  /\ IsFiniteSet(ParallelHolders(w)')
                      /\ Cardinality(ParallelHolders(w)') = m_run_parallel[w]
    BY DEF ParallelCounted
  <1>0. /\ IsFiniteSet(ParallelHolders(w))
        /\ Cardinality(ParallelHolders(w)) = m_run_parallel[w]
    BY DEF ParallelCounted
  <1>1. PICK n \in Depths(t) \ {0} :
            /\ Depths(t)' = Depths(t) \ {n}
            /\ LockAt(t, 0)' = LockAt(t, n)
            /\ \A k \in Depths(t) \ {0, n} : LockAt(t, k)' = LockAt(t, k)
    BY PopSlots
  <1>2. \A u \in Threads :
            /\ 0 \in Depths(u)
            /\ u # t => Depths(u)' = Depths(u)
            /\ u # t => \A k \in Depths(u) : LockAt(u, k)' = LockAt(u, k)
    BY PopSlots
  <1>3. /\ ~HoldsParallel(t, 0, w)
        /\ HoldsParallel(t, 0, w)' <=> HoldsParallel(t, n, w)
        /\ \A k \in Depths(t) \ {0, n} :
              HoldsParallel(t, k, w)' <=> HoldsParallel(t, k, w)
    <2>1. LockAt(t, 0) = lk[t]
      BY DEF LockAt
    <2> QED BY <1>1, <2>1 DEF HoldsParallel, Parallels
  <1>4. \A u \in Threads : u # t => \A k \in Depths(u) :
            HoldsParallel(u, k, w)' <=> HoldsParallel(u, k, w)
    BY <1>2 DEF HoldsParallel
  <1>5. \A s : s \in ParallelHolders(w) <=>
            \E u \in Threads : \E k \in Depths(u) :
                s = <<u, k>> /\ HoldsParallel(u, k, w)
    BY SlotsAre DEF ParallelHolders
  <1>6. \A s : s \in ParallelHolders(w)' <=>
            \E u \in Threads : \E k \in Depths(u)' :
                s = <<u, k>> /\ HoldsParallel(u, k, w)'
    BY SlotsAre_ DEF ParallelHolders
  <1>7. <<t, 0>> \notin ParallelHolders(w)
    BY <1>3, <1>5
  <1>8. ASSUME NEW s
        PROVE  s \in ParallelHolders(w)' <=>
                  \/ s = <<t, 0>> /\ HoldsParallel(t, n, w)
                  \/ s # <<t, n>> /\ s \in ParallelHolders(w)
    <2>1. CASE \E u \in Threads : \E k \in Nat : s = <<u, k>>
      <3>1. PICK u \in Threads, k \in Nat : s = <<u, k>>
        BY <2>1
      <3>2. s \in ParallelHolders(w)
               <=> k \in Depths(u) /\ HoldsParallel(u, k, w)
        BY <1>5, <3>1
      <3>3. s \in ParallelHolders(w)'
               <=> k \in Depths(u)' /\ HoldsParallel(u, k, w)'
        BY <1>6, <3>1
      <3>4. CASE u # t
        BY <1>2, <1>4, <3>1, <3>2, <3>3, <3>4
      <3>5. CASE u = t
        <4>1. /\ s = <<t, n>> <=> k = n
              /\ s = <<t, 0>> <=> k = 0
          BY <3>1, <3>5
        <4> QED BY <1>1, <1>2, <1>3, <3>2, <3>3, <3>5, <4>1
      <3> QED BY <3>4, <3>5
    <2>2. CASE ~\E u \in Threads : \E k \in Nat : s = <<u, k>>
      <3>1. \A u \in Threads : Depths(u) \subseteq Nat /\ Depths(u)' \subseteq Nat
        BY DEF Depths
      <3> QED BY <1>1, <1>5, <1>6, <2>2, <3>1
    <2> QED BY <2>1, <2>2
  <1>9. <<t, n>> \in ParallelHolders(w) <=> HoldsParallel(t, n, w)
    BY <1>1, <1>5
  <1> HIDE DEF ParallelHolders
  <1>10. CASE HoldsParallel(t, n, w)
    <2>1. ParallelHolders(w)' = (ParallelHolders(w) \ {<<t, n>>}) \cup {<<t, 0>>}
      BY <1>8, <1>10
    <2> QED BY <1>0, <1>7, <1>9, <1>10, <2>1, OneMoved
  <1>11. CASE ~HoldsParallel(t, n, w)
    <2>1. ParallelHolders(w)' = ParallelHolders(w)
      BY <1>8, <1>9, <1>11
    <2> QED BY <1>0, <2>1
  <1> QED BY <1>10, <1>11

(* A call goes from a lock to one that holds run-parallel just as it did.  *)
Keeps(t, label, l) ==
    /\ Goto(t, label, l) /\ stack' = stack /\ m_run_parallel' = m_run_parallel
    /\ l.lck \in Parallels <=> lk[t].lck \in Parallels
    /\ l.lck \in Parallels => l.wq = lk[t].wq

LEMMA KeepsCounted ==
    ASSUME ParallelCounted, LocksType, NEW t \in Threads, NEW label, NEW l,
           Keeps(t, label, l)
    PROVE  ParallelCounted'
  BY ParallelKept DEF Keeps, Goto

(* Calls that hold nothing and still hold nothing afterwards.              *)
LEMMA FreeCounted ==
    ASSUME IInv, ParallelCounted, NEW t \in Threads,
           \/ \E j \in Jobs, immed \in BOOLEAN : Activate(t, j, immed)
           \/ \E j \in Jobs : Deactivate(t, j)
           \/ \E w \in Workqs, n \in AidCounts : AidWorkq(t, w, n)
           \/ \E n \in AidCounts : AidService(t, n)
           \/ DeactivateClear(t) \/ DeactivateWait(t)
           \/ PickWorkq(t) \/ EraseWorkq(t)
    PROVE  ParallelCounted'
  <1>0. LocksType /\ lk[t] \in Locks /\ LockOK(pc[t], lk[t])
    BY DEF IInv, Typed, LocksType, ControlOK
  <1>1. pc[t] \in IdleLabels \cup {"pick_wq", "erase_wq"}
    BY DEF Activate, Deactivate, AidWorkq, AidService, DeactivateClear,
           DeactivateWait, PickWorkq, EraseWorkq, May, IdleLabels
  <1>2. lk[t].lck = "NONE"
    BY <1>0, <1>1 DEF LockOK
  <1>3. stack' = stack /\ m_run_parallel' = m_run_parallel
    BY DEF Activate, Deactivate, AidWorkq, AidService, DeactivateClear,
           DeactivateWait, PickWorkq, EraseWorkq, lockVars
  <1>4. NoLock.lck = "NONE"
    BY DEF NoLock
  <1>5. ASSUME NEW label, NEW l, Goto(t, label, l), l.lck = "NONE"
        PROVE  ParallelCounted'
    <2>1. Keeps(t, label, l)
      BY <1>2, <1>3, <1>5 DEF Keeps, Parallels
    <2> QED BY <1>0, <2>1, KeepsCounted
  <1>6. ASSUME NEW j \in Jobs, NEW immed \in BOOLEAN, Activate(t, j, immed)
        PROVE  ParallelCounted'
    <2>1. PICK l : l.lck = "NONE" /\ (JobToRunq(t, l) \/ Resume(t, l))
      BY <1>6 DEF Activate, NoLock
    <2>2. [l EXCEPT !.linked = FALSE].lck = l.lck
      OBVIOUS
    <2> QED
      BY <1>4, <1>5, <2>1, <2>2 DEF JobToRunq, Resume, Return
  <1>7. ASSUME NEW j \in Jobs, Deactivate(t, j) PROVE ParallelCounted'
    <2>1. [NoLock EXCEPT !.job = j, !.gen = m_run_gen[j]].lck = "NONE"
      BY DEF NoLock
    <2> QED BY <1>5, <1>7, <2>1 DEF Deactivate
  <1>8. ASSUME NEW w \in Workqs, NEW n \in AidCounts, AidWorkq(t, w, n)
        PROVE  ParallelCounted'
    <2>1. [NoLock EXCEPT !.wq = w, !.by = "workq", !.left = n].lck = "NONE"
      BY DEF NoLock
    <2> QED BY <1>5, <1>8, <2>1 DEF AidWorkq
  <1>9. ASSUME NEW n \in AidCounts, AidService(t, n) PROVE ParallelCounted'
    <2>1. [NoLock EXCEPT !.by = "service", !.left = n].lck = "NONE"
      BY DEF NoLock
    <2> QED BY <1>5, <1>9, <2>1 DEF AidService
  <1>10. CASE DeactivateClear(t) \/ DeactivateWait(t)
    BY <1>2, <1>4, <1>5, <1>10 DEF DeactivateClear, DeactivateWait, Return
  <1>11. CASE PickWorkq(t)
    <2>1. \A w : [lk[t] EXCEPT !.wq = w].lck = "NONE"
      BY <1>0, <1>2 DEF Locks
    <2> QED BY <1>4, <1>5, <1>11, <2>1 DEF PickWorkq, Return
  <1>12. CASE EraseWorkq(t)
    <2>1. [lk[t] EXCEPT !.retest = TRUE].lck = "NONE"
      BY <1>0, <1>2 DEF Locks
    <2> QED BY <1>5, <1>12, <2>1 DEF EraseWorkq
  <1> QED BY <1>6, <1>7, <1>8, <1>9, <1>10, <1>11, <1>12

(* The end of job_to_runq: its caller goes on with the lock it had, or     *)
(* returns from an activate() that had none.                               *)
LEMMA ResumeCounted ==
    ASSUME IInv, ParallelCounted, NEW t \in Threads, Resume(t, lk[t]),
           pc[t] \in LinkLabels, stack' = stack,
           m_run_parallel' = m_run_parallel
    PROVE  ParallelCounted'
  <1>0. LocksType /\ lk[t] \in Locks /\ LockOK(pc[t], lk[t])
    BY DEF IInv, Typed, LocksType, ControlOK
  <1>1. lk[t].ret = "body" => lk[t].lck = "NONE"
    BY <1>0 DEF LockOK
  <1>2. NoLock.lck = "NONE"
    BY DEF NoLock
  <1>3. \E label, l : Keeps(t, label, l)
    <2>1. CASE lk[t].ret = "body"
      <3>1. Keeps(t, "body", NoLock)
        BY <1>1, <1>2, <2>1 DEF Resume, Return, Keeps, Parallels
      <3> QED BY <3>1
    <2>2. CASE lk[t].ret # "body"
      <3>1. Keeps(t, lk[t].ret, lk[t])
        BY <2>2 DEF Resume, Keeps
      <3> QED BY <3>1
    <2> QED BY <2>1, <2>2
  <1> QED BY <1>0, <1>3, KeepsCounted

(* Operations in the middle of a call, under the lock it has.              *)
LEMMA SameLockCounted ==
    ASSUME IInv, ParallelCounted, NEW t \in Threads,
           \/ LinkParallelRunq(t) \/ LinkRunq(t) \/ LinkWorkq(t)
           \/ PopFront(t) \/ LockJob(t) \/ UnlockJob(t)
    PROVE  ParallelCounted'
  <1>0. LocksType /\ lk[t] \in Locks
    BY DEF IInv, Typed, LocksType
  <1>1. stack' = stack /\ m_run_parallel' = m_run_parallel
    BY DEF LinkParallelRunq, LinkRunq, LinkWorkq, PopFront, LockJob, UnlockJob,
           lockVars
  <1>2. ASSUME NEW label, NEW l, Goto(t, label, l), l.lck = lk[t].lck,
               l.wq = lk[t].wq
        PROVE  ParallelCounted'
    <2>1. Keeps(t, label, l)
      BY <1>1, <1>2 DEF Keeps
    <2> QED BY <1>0, <2>1, KeepsCounted
  <1>3. /\ \A b : /\ [lk[t] EXCEPT !.linked = b].lck = lk[t].lck
                  /\ [lk[t] EXCEPT !.linked = b].wq = lk[t].wq
        /\ \A j : /\ [lk[t] EXCEPT !.job = j].lck = lk[t].lck
                  /\ [lk[t] EXCEPT !.job = j].wq = lk[t].wq
        /\ \A b : /\ [lk[t] EXCEPT !.own = b].lck = lk[t].lck
                  /\ [lk[t] EXCEPT !.own = b].wq = lk[t].wq
    BY <1>0 DEF Locks
  <1>4. CASE LinkParallelRunq(t)
    BY <1>2, <1>3, <1>4 DEF LinkParallelRunq
  <1>5. CASE LinkRunq(t)
    <2>1. Goto(t, "link_wq", lk[t]) \/ Resume(t, lk[t])
      BY <1>5 DEF LinkRunq
    <2> QED BY <1>1, <1>2, <1>5, <2>1, ResumeCounted DEF LinkRunq, LinkLabels
  <1>6. CASE LinkWorkq(t)
    BY <1>1, <1>6, ResumeCounted DEF LinkWorkq, LinkLabels
  <1>7. CASE PopFront(t)
    BY <1>2, <1>3, <1>7 DEF PopFront
  <1>8. CASE LockJob(t)
    BY <1>2, <1>3, <1>8 DEF LockJob
  <1>9. CASE UnlockJob(t)
    <2>1. PICK l : /\ l.lck = lk[t].lck /\ l.wq = lk[t].wq
                   /\ JobToRunq(t, l) \/ Goto(t, "unlock_wq", l)
      <3> DEFINE m == [lk[t] EXCEPT !.own = FALSE, !.ret = "unlock_wq"]
      <3>1. m.lck = lk[t].lck /\ m.wq = lk[t].wq
        BY <1>0 DEF Locks
      <3>2. JobToRunq(t, m) \/ Goto(t, "unlock_wq", m)
        BY <1>9 DEF UnlockJob
      <3> QED BY <3>1, <3>2
    <2>2. /\ [l EXCEPT !.linked = FALSE].lck = l.lck
          /\ [l EXCEPT !.linked = FALSE].wq = l.wq
      OBVIOUS
    <2> QED BY <1>2, <2>1, <2>2 DEF JobToRunq
  <1> QED BY <1>4, <1>5, <1>6, <1>7, <1>8, <1>9

(* A lock that is complete moves to the stack, or stays with the service   *)
(* until it has linked the workq again.                                    *)
LEMMA LockedCounted ==
    ASSUME IInv, ParallelCounted, NEW t \in Threads, NEW l \in Locks,
           Locked(t, l) \/ Run(t, l), m_run_parallel' = m_run_parallel,
           l.lck \in Parallels <=> lk[t].lck \in Parallels, l.wq = lk[t].wq
    PROVE  ParallelCounted'
  <1>0. LocksType
    BY DEF IInv, Typed, LocksType
  <1>1. CASE Run(t, l)
    BY <1>0, <1>1, ParallelPushed DEF Run, Return, Goto
  <1>2. CASE Goto(t, "relink_wq", l) /\ UNCHANGED stack
    <2>1. Keeps(t, "relink_wq", l)
      BY <1>2 DEF Keeps
    <2> QED BY <1>0, <2>1, KeepsCounted
  <1> QED BY <1>1, <1>2 DEF Locked

(* The way of a locked job to the stack, and back when it returns.         *)
LEMMA StackCounted ==
    ASSUME IInv, ParallelCounted, NEW t \in Threads,
           \/ CountRun(t) \/ EraseRunq(t) \/ EraseParallelRunq(t)
           \/ DowngradeRelease(t) \/ RelinkWorkq(t) \/ JobReturns(t)
    PROVE  ParallelCounted'
  <1>0. LocksType /\ lk[t] \in Locks /\ LockOK(pc[t], lk[t])
    BY DEF IInv, Typed, LocksType, ControlOK
  <1>1. m_run_parallel' = m_run_parallel
    BY DEF CountRun, EraseRunq, EraseParallelRunq, DowngradeRelease,
           RelinkWorkq, JobReturns, lockVars
  <1>2. ASSUME NEW label, Goto(t, label, lk[t]), UNCHANGED stack
        PROVE  ParallelCounted'
    <2>1. Keeps(t, label, lk[t])
      BY <1>1, <1>2 DEF Keeps
    <2> QED BY <1>0, <2>1, KeepsCounted
  <1>3. CASE CountRun(t) \/ EraseRunq(t) \/ EraseParallelRunq(t)
    <2>1. (\E label : Goto(t, label, lk[t]) /\ UNCHANGED stack)
              \/ Locked(t, lk[t])
      BY <1>3 DEF CountRun, EraseRunq, EraseParallelRunq
    <2> QED BY <1>0, <1>1, <1>2, <2>1, LockedCounted
  <1>4. CASE RelinkWorkq(t)
    BY <1>0, <1>1, <1>4, LockedCounted DEF RelinkWorkq
  <1>5. CASE DowngradeRelease(t)
    <2> DEFINE l == [lk[t] EXCEPT !.lck = "PARALLEL"]
    <2>1. l \in Locks /\ l.lck = "PARALLEL" /\ l.wq = lk[t].wq
      BY <1>0 DEF Locks
    <2>2. lk[t].lck = "BOTH" /\ Locked(t, l)
      BY <1>0, <1>5 DEF DowngradeRelease, LockOK
    <2> HIDE DEF l
    <2> QED BY <1>1, <2>1, <2>2, LockedCounted DEF Parallels
  <1>6. CASE JobReturns(t)
    <2>1. lk[t].lck = "NONE"
      BY <1>0, <1>6 DEF JobReturns, LockOK, IdleLabels
    <2> QED
      BY <1>0, <1>1, <1>6, <2>1, ParallelPopped
         DEF JobReturns, Goto, Parallels
  <1> QED BY <1>3, <1>4, <1>5, <1>6

(* workq::lock_run counts a holder of run-parallel, or takes run-single.   *)
LEMMA LockRunCounted ==
    ASSUME IInv, ParallelCounted, NEW t \in Threads, NEW a, NEW b,
           LockRun(t, a, b), lk[t].wq \in Workqs, lk[t].lck = "NONE",
           stack' = stack
    PROVE  ParallelCounted'
  <1>0. LocksType /\ lk[t] \in Locks /\ m_run_parallel \in [Workqs -> Int]
    BY DEF IInv, Typed, LocksType
  <1>1. ASSUME NEW k
        PROVE  /\ [lk[t] EXCEPT !.lck = k].lck = k
               /\ [lk[t] EXCEPT !.lck = k].wq = lk[t].wq
    BY <1>0 DEF Locks
  <1>2. CASE /\ Goto(t, a, [lk[t] EXCEPT !.lck = "SINGLE"])
             /\ UNCHANGED m_run_parallel
    <2>1. Keeps(t, a, [lk[t] EXCEPT !.lck = "SINGLE"])
      BY <1>1, <1>2 DEF Keeps, Parallels
    <2> QED BY <1>0, <2>1, KeepsCounted
  <1>3. CASE /\ m_run_parallel' = [m_run_parallel EXCEPT ![lk[t].wq] = @ + 1]
             /\ Goto(t, b, [lk[t] EXCEPT !.lck = "PARALLEL"])
    <2>1. PICK l : /\ l.lck = "PARALLEL" /\ l.wq = lk[t].wq
                   /\ lk' = [lk EXCEPT ![t] = l]
      BY <1>1, <1>3 DEF Goto
    <2> QED BY <1>0, <1>3, <2>1, ParallelTaken DEF Parallels
  <1> QED BY <1>2, <1>3 DEF LockRun

(* The three ways to take a lock on a workq.                               *)
LEMMA TakeCounted ==
    ASSUME IInv, ParallelCounted, NEW t \in Threads,
           LockWorkq(t) \/ LockImmed(t) \/ Downgrade(t)
    PROVE  ParallelCounted'
  <1>0. /\ LocksType /\ lk[t] \in Locks /\ LockOK(pc[t], lk[t])
        /\ m_run_parallel \in [Workqs -> Int]
    BY DEF IInv, Typed, LocksType, ControlOK
  <1>1. stack' = stack
    BY DEF LockWorkq, LockImmed, Downgrade
  <1>2. lk[t].wq \in Workqs
    BY <1>0, JobAssumption DEF LockWorkq, LockImmed, Downgrade, LockOK,
                               OwnLabels
  <1>3. ASSUME NEW label, NEW k \in Parallels,
               Goto(t, label, [lk[t] EXCEPT !.lck = k]),
               lk[t].lck \notin Parallels,
               m_run_parallel' = [m_run_parallel EXCEPT ![lk[t].wq] = @ + 1]
        PROVE  ParallelCounted'
    <2>1. /\ [lk[t] EXCEPT !.lck = k].lck = k
          /\ [lk[t] EXCEPT !.lck = k].wq = lk[t].wq
      BY <1>0 DEF Locks
    <2>2. PICK l : /\ l.lck \in Parallels /\ l.wq = lk[t].wq
                   /\ lk' = [lk EXCEPT ![t] = l]
      BY <1>3, <2>1 DEF Goto
    <2> QED BY <1>0, <1>1, <1>2, <1>3, <2>2, ParallelTaken
  <1>4. CASE LockWorkq(t)
    <2>1. lk[t].lck = "NONE"
      BY <1>0, <1>4 DEF LockWorkq, LockOK
    <2> QED BY <1>1, <1>2, <1>4, <2>1, LockRunCounted DEF LockWorkq
  <1>5. CASE LockImmed(t)
    <2>1. lk[t].lck = "NONE"
      BY <1>0, <1>5 DEF LockImmed, LockOK
    <2> QED
      BY <1>1, <1>2, <1>3, <1>5, <2>1, LockRunCounted DEF LockImmed, Parallels
  <1>6. CASE Downgrade(t)
    <2>1. lk[t].lck = "SINGLE"
      BY <1>0, <1>6 DEF Downgrade, LockOK
    <2> QED BY <1>3, <1>6, <2>1 DEF Downgrade, Parallels
  <1> QED BY <1>4, <1>5, <1>6

(* The two ends of a lock on a workq.                                      *)
LEMMA ReleaseCounted ==
    ASSUME IInv, ParallelCounted, NEW t \in Threads,
           UnlockFailed(t) \/ UnlockWorkq(t)
    PROVE  ParallelCounted'
  <1>0. /\ LocksType /\ lk[t] \in Locks /\ LockOK(pc[t], lk[t])
        /\ m_run_parallel \in [Workqs -> Int]
    BY DEF IInv, Typed, LocksType, ControlOK
  <1>1. lk[t].wq \in Workqs /\ stack' = stack
    BY <1>0 DEF UnlockFailed, UnlockWorkq, LockOK
  <1>2. UnlockRun(lk[t].wq, lk[t].lck)
    BY DEF UnlockFailed, UnlockWorkq
  <1>3. PICK label, l : Goto(t, label, l) /\ l.lck = "NONE"
    <2>1. NoLock.lck = "NONE"
      BY DEF NoLock
    <2>2. [lk[t] EXCEPT !.lck = "NONE", !.retest = FALSE].lck = "NONE"
      BY <1>0 DEF Locks
    <2>5. CASE UnlockFailed(t)
      BY <2>1, <2>2, <2>5 DEF UnlockFailed, Return
    <2>6. CASE UnlockWorkq(t)
      <3> DEFINE again == [NoLock EXCEPT !.wq = lk[t].wq, !.by = "workq",
                                         !.left = lk[t].left - 1]
      <3> DEFINE next == [NoLock EXCEPT !.by = "service",
                                        !.left = lk[t].left - 1]
      <3>1. again.lck = "NONE" /\ next.lck = "NONE"
        BY DEF NoLock
      <3>2. \/ Goto(t, "body", NoLock) \/ Goto(t, "lock_wq", again)
            \/ Goto(t, "pick_wq", next)
        BY <2>6 DEF UnlockWorkq, Return
      <3> HIDE DEF again, next
      <3> QED BY <2>1, <3>1, <3>2
    <2> QED BY <2>5, <2>6
  <1>4. CASE lk[t].lck = "SINGLE" /\ UNCHANGED m_run_parallel
    <2>1. Keeps(t, label, l)
      BY <1>1, <1>3, <1>4 DEF Keeps, Parallels
    <2> QED BY <1>0, <2>1, KeepsCounted
  <1>5. CASE /\ lk[t].lck = "PARALLEL"
             /\ m_run_parallel' = [m_run_parallel EXCEPT ![lk[t].wq] = @ - 1]
    BY <1>0, <1>1, <1>3, <1>5, ParallelReleased DEF Goto, Parallels
  <1> QED BY <1>2, <1>4, <1>5 DEF UnlockRun

(* The counter follows the holders through every step.                     *)
LEMMA NextCounted ==
    IInv /\ ParallelCounted /\ [Next]_vars => ParallelCounted'
  <1> SUFFICES ASSUME IInv, ParallelCounted, [Next]_vars
               PROVE  ParallelCounted'
    OBVIOUS
  <1>1. CASE UNCHANGED vars
    <2>1. \A w : ParallelHolders(w)' = ParallelHolders(w)
      BY <1>1 DEF vars, ParallelHolders, Slots, Depths, HoldsParallel, LockAt
    <2> QED BY <1>1, <2>1 DEF vars, lockVars, ParallelCounted
  <1>2. ASSUME NEW t \in Threads, Call(t) PROVE ParallelCounted'
    BY <1>2, FreeCounted DEF Call
  <1>3. ASSUME NEW t \in Threads, Step(t) PROVE ParallelCounted'
    BY <1>3, FreeCounted, SameLockCounted, StackCounted, TakeCounted,
       ReleaseCounted DEF Step
  <1> QED BY <1>1, <1>2, <1>3 DEF Next

(* Run-single has one holder, or none.                                     *)
LEMMA SingleHolderCount ==
    ASSUME SingleHeld, NEW w \in Workqs
    PROVE  Cardinality({s \in Slots : HoldsSingle(s[1], s[2], w)})
               = IF m_run_single[w] THEN 1 ELSE 0
  <1> DEFINE H == {s \in Slots : HoldsSingle(s[1], s[2], w)}
  <1>1. \A s : s \in H <=> \E u \in Threads : \E k \in Depths(u) :
                              s = <<u, k>> /\ HoldsSingle(u, k, w)
    BY SlotsAre
  <1> HIDE DEF H
  <1>2. CASE m_run_single[w]
    <2>1. PICK t \in Threads : \E k \in Depths(t) : HoldsSingle(t, k, w)
      BY <1>2 DEF SingleHeld
    <2>2. PICK k \in Depths(t) : HoldsSingle(t, k, w)
      BY <2>1
    <2>3. H = {<<t, k>>}
      <3>1. <<t, k>> \in H
        BY <1>1, <2>2
      <3>2. ASSUME NEW s \in H PROVE s = <<t, k>>
        <4>1. PICK u \in Threads : \E m \in Depths(u) :
                      s = <<u, m>> /\ HoldsSingle(u, m, w)
          BY <1>1
        <4>2. PICK m \in Depths(u) : s = <<u, m>> /\ HoldsSingle(u, m, w)
          BY <4>1
        <4>3. u = t /\ m = k
          BY <2>2, <4>2 DEF SingleHeld
        <4> QED BY <4>2, <4>3
      <3> QED BY <3>1, <3>2
    <2> QED BY <1>2, <2>3, FS_Singleton DEF H
  <1>3. CASE ~m_run_single[w]
    <2>1. H = {}
      BY <1>1, <1>3 DEF SingleHeld
    <2> QED BY <1>3, <2>1, FS_EmptySet DEF H
  <1> QED BY <1>2, <1>3

(* The holders of run-parallel are counted in every reachable state.       *)
LEMMA AlwaysCounted == Spec => []ParallelCounted
  <1>1. Init => ParallelCounted
    <2> SUFFICES ASSUME Init, NEW w \in Workqs
                 PROVE  /\ IsFiniteSet(ParallelHolders(w))
                        /\ Cardinality(ParallelHolders(w)) = m_run_parallel[w]
      BY DEF ParallelCounted
    <2>1. \A u \in Threads : \A k \in Depths(u) : ~HoldsParallel(u, k, w)
      BY DEF Init, Depths, HoldsParallel, LockAt, NoLock
    <2>2. ParallelHolders(w) = {}
      BY <2>1, SlotsAre DEF ParallelHolders
    <2> QED BY <2>2, FS_EmptySet DEF Init
  <1> QED BY <1>1, NextCounted, Invariant, PTL DEF Spec

(* The lock words of a workq always say how many hold it: run-single one   *)
(* or none, run-parallel as many as are counted, through the downgrade and *)
(* however deep jobs nest.                                                 *)
THEOREM LocksHeld == Spec => []WorkqLocksHeld
  <1>1. IInv /\ ParallelCounted => WorkqLocksHeld
    BY SingleHolderCount
       DEF IInv, ParallelCounted, ParallelHolders, WorkqLocksHeld
  <1> QED BY <1>1, AlwaysCounted, Invariant, PTL

(* Every variable of the run queue keeps its type: unlock_run never counts *)
(* m_run_parallel below zero, since it is the number of its holders.       *)
THEOREM TypeCorrect == Spec => []TypeOK
  <1>1. IInv /\ ParallelCounted => TypeOK
    <2> SUFFICES ASSUME IInv, ParallelCounted PROVE TypeOK
      OBVIOUS
    <2>1. \A w \in Workqs : m_run_parallel[w] \in Nat
      BY FS_CardinalityType DEF ParallelCounted
    <2>2. m_run_parallel \in [Workqs -> Int]
      BY DEF IInv, Typed
    <2>3. m_run_parallel \in [Workqs -> Nat]
      BY <2>1, <2>2
    <2> QED BY <2>3 DEF IInv, Typed, TypeOK
  <1> QED BY <1>1, AlwaysCounted, Invariant, PTL
=============================================================================
