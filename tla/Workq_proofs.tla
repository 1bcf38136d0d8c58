---------------------------- MODULE Workq_proofs ----------------------------
(***************************************************************************)
(* Proofs about Workq, for any number of threads, workqs and jobs.  The    *)
(* mutual exclusion of jobs is not inductive by itself: it rests on who    *)
(* holds which lock (SingleHeld, RunLockOwned), and that on what a thread  *)
(* holds at each of its labels (ControlOK) and on what the runqs contain   *)
(* (RunqsOK).                                                              *)
(***************************************************************************)
EXTENDS Workq, SequenceTheorems, TLAPS

-----------------------------------------------------------------------------
(* Sequences.                                                              *)

(* What Front and Last of a non-empty sequence are.                        *)
LEMMA FrontLast ==
    ASSUME NEW S, NEW q \in Seq(S), q # << >>
    PROVE  /\ Front(q) \in Seq(S)
           /\ Len(Front(q)) = Len(q) - 1
           /\ \A i \in 1 .. Len(q) - 1 : Front(q)[i] = q[i]
           /\ Last(q) \in S
           /\ Len(q) \in Nat \ {0}
  <1>1. Len(q) \in Nat /\ Len(q) # 0
    BY EmptySeq, LenProperties
  <1>2. Front(q) = SubSeq(q, 1, Len(q) - 1)
    BY DEF Front
  <1>3. \A i \in 1 .. Len(q) : q[i] \in S
    BY ElementOfSeq
  <1>4. /\ SubSeq(q, 1, Len(q) - 1) \in Seq(S)
        /\ Len(SubSeq(q, 1, Len(q) - 1)) = Len(q) - 1
        /\ \A i \in 1 .. Len(q) - 1 : SubSeq(q, 1, Len(q) - 1)[i] = q[i]
    BY <1>1, <1>3, SubSeqProperties
  <1> QED
    BY <1>1, <1>2, <1>3, <1>4 DEF Last

(* Erase takes nothing but one element away.                               *)
LEMMA EraseSubset ==
    ASSUME NEW S, NEW q \in Seq(S), NEW e
    PROVE  /\ Erase(q, e) \in Seq(S)
           /\ ToSet(Erase(q, e)) \subseteq ToSet(q)
  <1>1. CASE e \notin ToSet(q)
    BY <1>1 DEF Erase
  <1>2. CASE e \in ToSet(q)
    <2> DEFINE i == CHOOSE k \in DOMAIN q : q[k] = e
    <2> DEFINE before == SubSeq(q, 1, i - 1)
    <2> DEFINE after == SubSeq(q, i + 1, Len(q))
    <2>1. i \in 1 .. Len(q) /\ Len(q) \in Nat
      BY <1>2, LenProperties DEF ToSet
    <2>2. Erase(q, e) = before \o after
      BY <1>2 DEF Erase, RemoveAt
    <2> HIDE DEF i
    <2>3. /\ before \in Seq(S) /\ Len(before) = i - 1
          /\ \A k \in 1 .. i - 1 : before[k] = q[k]
      BY <2>1, SubSeqProperties
    <2>4. /\ after \in Seq(S) /\ Len(after) = Len(q) - i
          /\ \A k \in 1 .. Len(q) - i : after[k] = q[k + i]
      BY <2>1, SubSeqProperties
    <2> HIDE DEF before, after
    <2>5. before \o after \in Seq(S)
      BY <2>3, <2>4, ConcatProperties
    <2>6. \A k \in DOMAIN (before \o after) :
              \E m \in DOMAIN q : (before \o after)[k] = q[m]
      <3> SUFFICES ASSUME NEW k \in DOMAIN (before \o after)
                   PROVE  \E m \in DOMAIN q : (before \o after)[k] = q[m]
        OBVIOUS
      <3>1. k \in 1 .. Len(before) + Len(after)
        BY <2>3, <2>4, ConcatProperties, LenProperties
      <3>2. DOMAIN q = 1 .. Len(q)
        BY LenProperties
      <3>3. CASE k <= Len(before)
        <4>1. (before \o after)[k] = q[k] /\ k \in DOMAIN q
          BY <2>1, <2>3, <2>4, <3>1, <3>2, <3>3, ConcatProperties
        <4> QED BY <4>1
      <3>4. CASE k > Len(before)
        <4>1. (before \o after)[k] = q[k + 1] /\ k + 1 \in DOMAIN q
          BY <2>1, <2>3, <2>4, <3>1, <3>2, <3>4, ConcatProperties
        <4> QED BY <4>1
      <3> QED BY <2>1, <2>3, <3>1, <3>3, <3>4
    <2> QED
      BY <2>2, <2>5, <2>6 DEF ToSet
  <1> QED BY <1>1, <1>2

(* LinkBack adds at most the element it is given.                          *)
LEMMA LinkBackSet ==
    ASSUME NEW S, NEW q \in Seq(S), NEW e \in S
    PROVE  /\ LinkBack(q, e) \in Seq(S)
           /\ ToSet(LinkBack(q, e)) = ToSet(q) \cup {e}
  <1>1. CASE e \in ToSet(q)
    BY <1>1 DEF LinkBack
  <1>2. CASE e \notin ToSet(q)
    <2>1. LinkBack(q, e) = Append(q, e)
      BY <1>2 DEF LinkBack
    <2>2. /\ Append(q, e) \in Seq(S) /\ Len(Append(q, e)) = Len(q) + 1
          /\ \A i \in 1 .. Len(q) : Append(q, e)[i] = q[i]
          /\ Append(q, e)[Len(q) + 1] = e
      BY AppendProperties
    <2>3. /\ DOMAIN q = 1 .. Len(q) /\ Len(q) \in Nat
          /\ DOMAIN Append(q, e) = 1 .. Len(q) + 1
      BY <2>2, LenProperties
    <2> QED BY <2>1, <2>2, <2>3 DEF ToSet
  <1> QED BY <1>1, <1>2

(* Head and Tail of a non-empty runq.                                      *)
LEMMA HeadTailSet ==
    ASSUME NEW S, NEW q \in Seq(S), q # << >>
    PROVE  /\ Head(q) \in S /\ Head(q) \in ToSet(q)
           /\ Tail(q) \in Seq(S)
           /\ ToSet(Tail(q)) \subseteq ToSet(q)
  <1>1. /\ Head(q) = q[1] /\ Len(q) \in Nat \ {0} /\ Tail(q) \in Seq(S)
        /\ Len(Tail(q)) = Len(q) - 1
        /\ \A i \in 1 .. Len(q) - 1 : Tail(q)[i] = q[i + 1]
    BY HeadTailProperties, EmptySeq, LenProperties
  <1>2. DOMAIN q = 1 .. Len(q) /\ DOMAIN Tail(q) = 1 .. Len(q) - 1
    BY <1>1, LenProperties
  <1> QED
    BY <1>1, <1>2, ElementOfSeq DEF ToSet

-----------------------------------------------------------------------------
(* The inductive invariant.                                                *)

(* The labels at which a thread owns the job it has locked.                *)
OwnLabels == {"run_gen", "erase_runq", "erase_p_runq", "downgrade",
              "downgrade_release", "relink_wq", "unlock_job"}

LinkLabels == {"link_p_runq", "link_runq", "link_wq"}

IdleLabels == {"body", "deactivate", "deactivate_wait"}

(* What the lock of a thread looks like at each label.                     *)
LockOK(label, l) ==
    /\ l.own <=> label \in OwnLabels
    /\ label \in IdleLabels \cup {"lock_immed", "pick_wq", "lock_wq", "erase_wq"}
          => l.lck = "NONE"
    /\ label \in LinkLabels
          => l.lck \in IF l.ret = "unlock_wq" THEN {"SINGLE", "PARALLEL"}
                                              ELSE {"NONE"}
    /\ label \in {"pop_front", "lock_job", "run_gen", "erase_runq",
                  "erase_p_runq", "relink_wq", "unlock_failed", "unlock_job",
                  "unlock_wq"}
          => l.lck \in {"SINGLE", "PARALLEL"}
    /\ label = "downgrade" => l.lck = "SINGLE"
    /\ label = "downgrade_release" => l.lck = "BOTH"
    /\ label \in {"lock_wq", "pop_front", "unlock_failed", "erase_wq",
                  "unlock_wq"}
          => l.wq \in Workqs
    /\ label \in LinkLabels \cup OwnLabels \cup {"lock_immed", "lock_job"}
          => l.job \in Jobs /\ l.wq = WorkqOf[l.job]
    /\ label \in {"deactivate", "deactivate_wait"} => l.job \in Jobs
    /\ label \in OwnLabels \cup {"lock_job"} /\ l.lck = "PARALLEL"
          => IsParallel(l.job)
    /\ label \in {"link_p_runq", "erase_p_runq", "downgrade",
                  "downgrade_release"}
          => IsParallel(l.job)
    /\ label \notin IdleLabels => l.by # "none"
    /\ l.by \in {"workq", "service"} => l.left # 0

(* What a lock on the stack looks like.                                    *)
FrameOK(l) ==
    /\ l.own /\ l.job \in Jobs /\ l.wq = WorkqOf[l.job]
    /\ l.lck \in {"SINGLE", "PARALLEL"}
    /\ l.lck = "PARALLEL" => IsParallel(l.job)
    /\ l.by # "none"
    /\ l.by \in {"workq", "service"} => l.left # 0

ControlOK ==
    \A t \in Threads :
        /\ LockOK(pc[t], lk[t])
        /\ \A k \in 1 .. Len(stack[t]) : FrameOK(stack[t][k])

RunqsOK ==
    \A w \in Workqs :
        /\ \A j \in ToSet(m_runq[w]) : WorkqOf[j] = w
        /\ \A j \in ToSet(m_p_runq[w]) : WorkqOf[j] = w /\ IsParallel(j)

(* m_run_single is set exactly while one lock of one thread holds it.      *)
SingleHeld ==
    \A w \in Workqs :
        /\ m_run_single[w]
              <=> \E t \in Threads : \E k \in Depths(t) : HoldsSingle(t, k, w)
        /\ \A t, u \in Threads : \A k \in Depths(t), m \in Depths(u) :
              HoldsSingle(t, k, w) /\ HoldsSingle(u, m, w) => t = u /\ k = m

(* TypeOK, but for the sign of the counter: that it never falls below zero *)
(* takes counting its holders, which WorkqQueue_proofs does.               *)
Typed ==
    /\ m_state \in [Jobs -> SUBSET StateBits]
    /\ m_run_gen \in [Jobs -> 0 .. GenMod - 1]
    /\ m_runq \in [Workqs -> Seq(Jobs)]
    /\ m_p_runq \in [Workqs -> Seq(Jobs)]
    /\ m_wq_runq \subseteq Workqs
    /\ m_run_single \in [Workqs -> BOOLEAN]
    /\ m_run_parallel \in [Workqs -> Int]
    /\ pc \in [Threads -> Labels]
    /\ lk \in [Threads -> Locks]
    /\ stack \in [Threads -> Seq(Locks)]
    /\ awaited \in [Threads -> BOOLEAN]

IInv == Typed /\ ControlOK /\ RunqsOK /\ SingleHeld /\ RunLockOwned

-----------------------------------------------------------------------------
(* How the locks of the threads change.                                    *)

(* The variables the locks are read from.                                  *)
LocksType == lk \in [Threads -> Locks] /\ stack \in [Threads -> Seq(Locks)]

(* A thread changes the lock of its call and leaves the stacks alone.      *)
LEMMA CallSlots ==
    ASSUME LocksType, NEW t \in Threads, NEW l,
           lk' = [lk EXCEPT ![t] = l], stack' = stack
    PROVE  \A u \in Threads :
              /\ Depths(u)' = Depths(u)
              /\ 0 \in Depths(u)
              /\ \A k \in Depths(u) : LockAt(u, k)' =
                    IF u = t /\ k = 0 THEN l ELSE LockAt(u, k)
  <1>1. \A u \in Threads : Len(stack[u]) \in Nat
    BY LenProperties DEF LocksType
  <1> QED
    BY <1>1 DEF LocksType, Depths, LockAt

(* A thread pushes a lock on its stack; its call holds nothing any more.   *)
LEMMA PushSlots ==
    ASSUME LocksType, NEW t \in Threads, NEW l \in Locks,
           lk' = [lk EXCEPT ![t] = NoLock],
           stack' = [stack EXCEPT ![t] = Append(@, l)]
    PROVE  \A u \in Threads :
              /\ 0 \in Depths(u)
              /\ u # t => Depths(u)' = Depths(u)
              /\ u # t => \A k \in Depths(u) : LockAt(u, k)' = LockAt(u, k)
              /\ u = t => \E n \in Nat \ {0} :
                    /\ n \notin Depths(u) /\ Depths(u)' = Depths(u) \cup {n}
                    /\ LockAt(u, n)' = l /\ LockAt(u, 0)' = NoLock
                    /\ \A k \in Depths(u) \ {0} : LockAt(u, k)' = LockAt(u, k)
  <1>1. \A u \in Threads : Len(stack[u]) \in Nat
    BY LenProperties DEF LocksType
  <1>2. /\ stack'[t] = Append(stack[t], l) /\ stack[t] \in Seq(Locks)
        /\ \A u \in Threads : u # t => stack'[u] = stack[u]
        /\ lk'[t] = NoLock /\ \A u \in Threads : u # t => lk'[u] = lk[u]
    BY DEF LocksType
  <1>0. PICK n : n = Len(stack[t]) + 1
    OBVIOUS
  <1>3. /\ Len(stack'[t]) = n /\ stack'[t][n] = l
        /\ \A i \in 1 .. Len(stack[t]) : stack'[t][i] = stack[t][i]
    <2>1. /\ Len(Append(stack[t], l)) = n /\ Append(stack[t], l)[n] = l
          /\ \A i \in 1 .. Len(stack[t]) : Append(stack[t], l)[i] = stack[t][i]
      BY <1>0, <1>2, AppendProperties
    <2> QED BY <1>2, <2>1
  <1>4. /\ n \in Nat \ {0} /\ n \notin Depths(t)
        /\ Depths(t)' = Depths(t) \cup {n}
    BY <1>0, <1>1, <1>3 DEF Depths
  <1>5. /\ LockAt(t, n)' = l /\ LockAt(t, 0)' = NoLock
        /\ \A k \in Depths(t) \ {0} : LockAt(t, k)' = LockAt(t, k)
    BY <1>0, <1>1, <1>2, <1>3, <1>4 DEF Depths, LockAt
  <1>6. \A u \in Threads : u # t =>
            /\ Depths(u)' = Depths(u)
            /\ \A k \in Depths(u) : LockAt(u, k)' = LockAt(u, k)
    BY <1>2 DEF Depths, LockAt
  <1>7. \A u \in Threads : 0 \in Depths(u)
    BY <1>1 DEF Depths
  <1>8. \E m \in Nat \ {0} :
            /\ m \notin Depths(t) /\ Depths(t)' = Depths(t) \cup {m}
            /\ LockAt(t, m)' = l /\ LockAt(t, 0)' = NoLock
            /\ \A k \in Depths(t) \ {0} : LockAt(t, k)' = LockAt(t, k)
    BY <1>4, <1>5
  <1> QED BY <1>6, <1>7, <1>8

(* A thread takes the last lock off its stack into its call.               *)
LEMMA PopSlots ==
    ASSUME LocksType, NEW t \in Threads, stack[t] # << >>,
           lk' = [lk EXCEPT ![t] = Last(stack[t])],
           stack' = [stack EXCEPT ![t] = Front(@)]
    PROVE  \A u \in Threads :
              /\ 0 \in Depths(u)
              /\ u # t => Depths(u)' = Depths(u)
              /\ u # t => \A k \in Depths(u) : LockAt(u, k)' = LockAt(u, k)
              /\ u = t => \E n \in Depths(u) \ {0} :
                    /\ Depths(u)' = Depths(u) \ {n}
                    /\ LockAt(u, 0)' = LockAt(u, n)
                    /\ \A k \in Depths(u) \ {0, n} :
                          LockAt(u, k)' = LockAt(u, k)
  <1>1. \A u \in Threads : Len(stack[u]) \in Nat
    BY LenProperties DEF LocksType
  <1>2. /\ stack'[t] = Front(stack[t]) /\ stack[t] \in Seq(Locks)
        /\ \A u \in Threads : u # t => stack'[u] = stack[u]
        /\ lk'[t] = Last(stack[t])
        /\ \A u \in Threads : u # t => lk'[u] = lk[u]
    BY DEF LocksType
  <1> DEFINE n == Len(stack[t])
  <1>3. /\ Len(stack'[t]) = n - 1 /\ n \in Nat \ {0}
        /\ \A i \in 1 .. n - 1 : stack'[t][i] = stack[t][i]
        /\ lk'[t] = stack[t][n]
    BY <1>2, FrontLast DEF Last
  <1>4. n \in Depths(t) \ {0} /\ Depths(t)' = Depths(t) \ {n}
    BY <1>3 DEF Depths
  <1>5. /\ LockAt(t, 0)' = LockAt(t, n)
        /\ \A k \in Depths(t) \ {0, n} : LockAt(t, k)' = LockAt(t, k)
    BY <1>3 DEF Depths, LockAt
  <1> HIDE DEF n
  <1>6. \A u \in Threads : u # t =>
            /\ Depths(u)' = Depths(u)
            /\ \A k \in Depths(u) : LockAt(u, k)' = LockAt(u, k)
    BY <1>2 DEF Depths, LockAt
  <1>7. \A u \in Threads : 0 \in Depths(u)
    BY <1>1 DEF Depths
  <1> SUFFICES ASSUME NEW u \in Threads, u = t
               PROVE  \E m \in Depths(u) \ {0} :
                         /\ Depths(u)' = Depths(u) \ {m}
                         /\ LockAt(u, 0)' = LockAt(u, m)
                         /\ \A k \in Depths(u) \ {0, m} :
                               LockAt(u, k)' = LockAt(u, k)
    BY <1>6, <1>7
  <1> QED BY <1>4, <1>5

-----------------------------------------------------------------------------
(* Who holds run-single.                                                   *)

Singles == {"SINGLE", "BOTH"}

(* A call goes on without touching run-single.                             *)
LEMMA SingleKept ==
    ASSUME SingleHeld, LocksType, NEW t \in Threads, NEW l,
           lk' = [lk EXCEPT ![t] = l], stack' = stack,
           m_run_single' = m_run_single,
           l.lck \in Singles <=> lk[t].lck \in Singles,
           l.lck \in Singles => l.wq = lk[t].wq
    PROVE  SingleHeld'
  <1>1. \A u \in Threads :
            /\ Depths(u)' = Depths(u) /\ 0 \in Depths(u)
            /\ \A k \in Depths(u) : LockAt(u, k)' =
                  IF u = t /\ k = 0 THEN l ELSE LockAt(u, k)
    BY CallSlots
  <1>2. LockAt(t, 0) = lk[t]
    BY DEF LockAt
  <1>3. \A u \in Threads : \A k \in Depths(u) : \A w \in Workqs :
            HoldsSingle(u, k, w)' <=> HoldsSingle(u, k, w)
    BY <1>1, <1>2 DEF HoldsSingle, Singles
  <1> QED BY <1>1, <1>3 DEF SingleHeld

(* A call takes run-single of a workq where it is free.                    *)
LEMMA SingleTaken ==
    ASSUME SingleHeld, LocksType, NEW t \in Threads, NEW l, NEW v \in Workqs,
           lk' = [lk EXCEPT ![t] = l], stack' = stack,
           m_run_single \in [Workqs -> BOOLEAN], ~m_run_single[v],
           m_run_single' = [m_run_single EXCEPT ![v] = TRUE],
           lk[t].lck \notin Singles, l.lck \in Singles, l.wq = v
    PROVE  SingleHeld'
  <1>1. \A u \in Threads :
            /\ Depths(u)' = Depths(u) /\ 0 \in Depths(u)
            /\ \A k \in Depths(u) : LockAt(u, k)' =
                  IF u = t /\ k = 0 THEN l ELSE LockAt(u, k)
    BY CallSlots
  <1>2. LockAt(t, 0) = lk[t]
    BY DEF LockAt
  <1>3. \A u \in Threads : \A k \in Depths(u) : \A w \in Workqs :
            HoldsSingle(u, k, w)'
               <=> IF u = t /\ k = 0 THEN w = v ELSE HoldsSingle(u, k, w)
    BY <1>1 DEF HoldsSingle, Singles
  <1>4. \A w \in Workqs : ~HoldsSingle(t, 0, w)
    BY <1>2 DEF HoldsSingle, Singles
  <1> QED BY <1>1, <1>3, <1>4 DEF SingleHeld

(* A call gives run-single back.                                           *)
LEMMA SingleReleased ==
    ASSUME SingleHeld, LocksType, NEW t \in Threads, NEW l, NEW v \in Workqs,
           lk' = [lk EXCEPT ![t] = l], stack' = stack,
           m_run_single \in [Workqs -> BOOLEAN],
           m_run_single' = [m_run_single EXCEPT ![v] = FALSE],
           lk[t].lck \in Singles, lk[t].wq = v, l.lck \notin Singles
    PROVE  SingleHeld'
  <1>1. \A u \in Threads :
            /\ Depths(u)' = Depths(u) /\ 0 \in Depths(u)
            /\ \A k \in Depths(u) : LockAt(u, k)' =
                  IF u = t /\ k = 0 THEN l ELSE LockAt(u, k)
    BY CallSlots
  <1>2. LockAt(t, 0) = lk[t]
    BY DEF LockAt
  <1>3. \A u \in Threads : \A k \in Depths(u) : \A w \in Workqs :
            HoldsSingle(u, k, w)' <=> ~(u = t /\ k = 0) /\ HoldsSingle(u, k, w)
    BY <1>1 DEF HoldsSingle, Singles
  <1>4. \A w \in Workqs : HoldsSingle(t, 0, w) <=> w = v
    BY <1>2 DEF HoldsSingle, Singles
  <1> QED BY <1>1, <1>3, <1>4 DEF SingleHeld

(* The lock moves from the call to the stack.                              *)
LEMMA SinglePushed ==
    ASSUME SingleHeld, LocksType, NEW t \in Threads, NEW l \in Locks,
           lk' = [lk EXCEPT ![t] = NoLock],
           stack' = [stack EXCEPT ![t] = Append(@, l)],
           m_run_single' = m_run_single,
           l.lck = lk[t].lck, l.wq = lk[t].wq
    PROVE  SingleHeld'
  <1>1. PICK n \in Nat \ {0} :
            /\ n \notin Depths(t) /\ Depths(t)' = Depths(t) \cup {n}
            /\ LockAt(t, n)' = l /\ LockAt(t, 0)' = NoLock
            /\ \A k \in Depths(t) \ {0} : LockAt(t, k)' = LockAt(t, k)
    BY PushSlots
  <1>2. \A u \in Threads :
            /\ 0 \in Depths(u)
            /\ u # t => Depths(u)' = Depths(u)
            /\ u # t => \A k \in Depths(u) : LockAt(u, k)' = LockAt(u, k)
    BY PushSlots
  <1>a. LockAt(t, 0) = lk[t]
    BY DEF LockAt
  <1>3. \A w \in Workqs :
            /\ HoldsSingle(t, n, w)' <=> HoldsSingle(t, 0, w)
            /\ ~HoldsSingle(t, 0, w)'
            /\ \A k \in Depths(t) \ {0} :
                  HoldsSingle(t, k, w)' <=> HoldsSingle(t, k, w)
    BY <1>1, <1>a DEF HoldsSingle, NoLock
  <1>4. \A u \in Threads : u # t => \A k \in Depths(u) : \A w \in Workqs :
            HoldsSingle(u, k, w)' <=> HoldsSingle(u, k, w)
    BY <1>2 DEF HoldsSingle
  <1> QED BY <1>1, <1>2, <1>3, <1>4 DEF SingleHeld

(* The end of a downgrade: run-single is given back, and the lock, now     *)
(* run-parallel, moves to the stack.                                       *)
LEMMA SingleReleasedPushed ==
    ASSUME SingleHeld, LocksType, NEW t \in Threads, NEW l \in Locks,
           NEW v \in Workqs,
           lk' = [lk EXCEPT ![t] = NoLock],
           stack' = [stack EXCEPT ![t] = Append(@, l)],
           m_run_single \in [Workqs -> BOOLEAN],
           m_run_single' = [m_run_single EXCEPT ![v] = FALSE],
           lk[t].lck \in Singles, lk[t].wq = v, l.lck \notin Singles
    PROVE  SingleHeld'
  <1>1. PICK n \in Nat \ {0} :
            /\ n \notin Depths(t) /\ Depths(t)' = Depths(t) \cup {n}
            /\ LockAt(t, n)' = l /\ LockAt(t, 0)' = NoLock
            /\ \A k \in Depths(t) \ {0} : LockAt(t, k)' = LockAt(t, k)
    BY PushSlots
  <1>2. \A u \in Threads :
            /\ 0 \in Depths(u)
            /\ u # t => Depths(u)' = Depths(u)
            /\ u # t => \A k \in Depths(u) : LockAt(u, k)' = LockAt(u, k)
    BY PushSlots
  <1>3. LockAt(t, 0) = lk[t]
    BY DEF LockAt
  <1>4. \A w \in Workqs :
            /\ ~HoldsSingle(t, n, w)' /\ ~HoldsSingle(t, 0, w)'
            /\ HoldsSingle(t, 0, w) <=> w = v
            /\ \A k \in Depths(t) \ {0} :
                  HoldsSingle(t, k, w)' <=> HoldsSingle(t, k, w)
    BY <1>1, <1>3 DEF HoldsSingle, NoLock, Singles
  <1>5. \A u \in Threads : u # t => \A k \in Depths(u) : \A w \in Workqs :
            HoldsSingle(u, k, w)' <=> HoldsSingle(u, k, w)
    BY <1>2 DEF HoldsSingle
  <1> QED BY <1>1, <1>2, <1>4, <1>5 DEF SingleHeld

(* The lock moves from the stack to the call, which held nothing.          *)
LEMMA SinglePopped ==
    ASSUME SingleHeld, LocksType, NEW t \in Threads, stack[t] # << >>,
           lk' = [lk EXCEPT ![t] = Last(stack[t])],
           stack' = [stack EXCEPT ![t] = Front(@)],
           m_run_single' = m_run_single, lk[t].lck = "NONE"
    PROVE  SingleHeld'
  <1>1. PICK n \in Depths(t) \ {0} :
            /\ Depths(t)' = Depths(t) \ {n}
            /\ LockAt(t, 0)' = LockAt(t, n)
            /\ \A k \in Depths(t) \ {0, n} : LockAt(t, k)' = LockAt(t, k)
    BY PopSlots
  <1>2. \A u \in Threads :
            /\ 0 \in Depths(u)
            /\ u # t => Depths(u)' = Depths(u)
            /\ u # t => \A k \in Depths(u) : LockAt(u, k)' = LockAt(u, k)
    BY PopSlots
  <1>3. LockAt(t, 0) = lk[t]
    BY DEF LockAt
  <1>4. \A w \in Workqs :
            /\ HoldsSingle(t, 0, w)' <=> HoldsSingle(t, n, w)
            /\ ~HoldsSingle(t, 0, w)
            /\ \A k \in Depths(t) \ {0, n} :
                  HoldsSingle(t, k, w)' <=> HoldsSingle(t, k, w)
    BY <1>1, <1>3 DEF HoldsSingle
  <1>5. \A u \in Threads : u # t => \A k \in Depths(u) : \A w \in Workqs :
            HoldsSingle(u, k, w)' <=> HoldsSingle(u, k, w)
    BY <1>2 DEF HoldsSingle
  <1> QED BY <1>1, <1>2, <1>4, <1>5 DEF SingleHeld

-----------------------------------------------------------------------------
(* Who owns a job.                                                         *)

IsRunning(j) == "RUNNING" \in m_state[j]

(* A call goes on without locking or unlocking a job.                      *)
LEMMA OwnerKept ==
    ASSUME RunLockOwned, LocksType, NEW t \in Threads, NEW l,
           lk' = [lk EXCEPT ![t] = l], stack' = stack,
           \A j \in Jobs : IsRunning(j)' <=> IsRunning(j),
           l.own <=> lk[t].own, l.own => l.job = lk[t].job
    PROVE  RunLockOwned'
  <1>1. \A u \in Threads :
            /\ Depths(u)' = Depths(u) /\ 0 \in Depths(u)
            /\ \A k \in Depths(u) : LockAt(u, k)' =
                  IF u = t /\ k = 0 THEN l ELSE LockAt(u, k)
    BY CallSlots
  <1>2. LockAt(t, 0) = lk[t]
    BY DEF LockAt
  <1>3. \A u \in Threads : \A k \in Depths(u) : \A j \in Jobs :
            Owns(u, k, j)' <=> Owns(u, k, j)
    BY <1>1, <1>2 DEF Owns
  <1> QED BY <1>1, <1>3 DEF RunLockOwned, IsRunning

(* A call locks a job that nobody runs.                                    *)
LEMMA OwnerTaken ==
    ASSUME RunLockOwned, LocksType, NEW t \in Threads, NEW l, NEW i \in Jobs,
           lk' = [lk EXCEPT ![t] = l], stack' = stack,
           ~IsRunning(i), IsRunning(i)',
           \A j \in Jobs \ {i} : IsRunning(j)' <=> IsRunning(j),
           ~lk[t].own, l.own, l.job = i
    PROVE  RunLockOwned'
  <1>1. \A u \in Threads :
            /\ Depths(u)' = Depths(u) /\ 0 \in Depths(u)
            /\ \A k \in Depths(u) : LockAt(u, k)' =
                  IF u = t /\ k = 0 THEN l ELSE LockAt(u, k)
    BY CallSlots
  <1>2. LockAt(t, 0) = lk[t]
    BY DEF LockAt
  <1>3. \A u \in Threads : \A k \in Depths(u) : \A j \in Jobs :
            Owns(u, k, j)' <=> IF u = t /\ k = 0 THEN j = i ELSE Owns(u, k, j)
    BY <1>1 DEF Owns
  <1>4. \A j \in Jobs : ~Owns(t, 0, j)
    BY <1>2 DEF Owns
  <1> QED BY <1>1, <1>3, <1>4 DEF RunLockOwned, IsRunning

(* A call unlocks the job it owns.                                         *)
LEMMA OwnerReleased ==
    ASSUME RunLockOwned, LocksType, NEW t \in Threads, NEW l, NEW i \in Jobs,
           lk' = [lk EXCEPT ![t] = l], stack' = stack,
           ~IsRunning(i)',
           \A j \in Jobs \ {i} : IsRunning(j)' <=> IsRunning(j),
           lk[t].own, lk[t].job = i, ~l.own
    PROVE  RunLockOwned'
  <1>1. \A u \in Threads :
            /\ Depths(u)' = Depths(u) /\ 0 \in Depths(u)
            /\ \A k \in Depths(u) : LockAt(u, k)' =
                  IF u = t /\ k = 0 THEN l ELSE LockAt(u, k)
    BY CallSlots
  <1>2. LockAt(t, 0) = lk[t]
    BY DEF LockAt
  <1>3. \A u \in Threads : \A k \in Depths(u) : \A j \in Jobs :
            Owns(u, k, j)' <=> ~(u = t /\ k = 0) /\ Owns(u, k, j)
    BY <1>1 DEF Owns
  <1>4. \A j \in Jobs : Owns(t, 0, j) <=> j = i
    BY <1>2 DEF Owns
  <1> QED BY <1>1, <1>3, <1>4 DEF RunLockOwned, IsRunning

(* The owner moves from the call to the stack.                             *)
LEMMA OwnerPushed ==
    ASSUME RunLockOwned, LocksType, NEW t \in Threads, NEW l \in Locks,
           lk' = [lk EXCEPT ![t] = NoLock],
           stack' = [stack EXCEPT ![t] = Append(@, l)],
           m_state' = m_state, l.own = lk[t].own, l.job = lk[t].job
    PROVE  RunLockOwned'
  <1>1. PICK n \in Nat \ {0} :
            /\ n \notin Depths(t) /\ Depths(t)' = Depths(t) \cup {n}
            /\ LockAt(t, n)' = l /\ LockAt(t, 0)' = NoLock
            /\ \A k \in Depths(t) \ {0} : LockAt(t, k)' = LockAt(t, k)
    BY PushSlots
  <1>2. \A u \in Threads :
            /\ 0 \in Depths(u)
            /\ u # t => Depths(u)' = Depths(u)
            /\ u # t => \A k \in Depths(u) : LockAt(u, k)' = LockAt(u, k)
    BY PushSlots
  <1>3. LockAt(t, 0) = lk[t]
    BY DEF LockAt
  <1>4. \A j \in Jobs :
            /\ Owns(t, n, j)' <=> Owns(t, 0, j)
            /\ ~Owns(t, 0, j)'
            /\ \A k \in Depths(t) \ {0} : Owns(t, k, j)' <=> Owns(t, k, j)
    BY <1>1, <1>3 DEF Owns, NoLock
  <1>5. \A u \in Threads : u # t => \A k \in Depths(u) : \A j \in Jobs :
            Owns(u, k, j)' <=> Owns(u, k, j)
    BY <1>2 DEF Owns
  <1> QED BY <1>1, <1>2, <1>4, <1>5 DEF RunLockOwned

(* The owner moves from the stack to the call, which owned nothing.        *)
LEMMA OwnerPopped ==
    ASSUME RunLockOwned, LocksType, NEW t \in Threads, stack[t] # << >>,
           lk' = [lk EXCEPT ![t] = Last(stack[t])],
           stack' = [stack EXCEPT ![t] = Front(@)],
           m_state' = m_state, ~lk[t].own
    PROVE  RunLockOwned'
  <1>1. PICK n \in Depths(t) \ {0} :
            /\ Depths(t)' = Depths(t) \ {n}
            /\ LockAt(t, 0)' = LockAt(t, n)
            /\ \A k \in Depths(t) \ {0, n} : LockAt(t, k)' = LockAt(t, k)
    BY PopSlots
  <1>2. \A u \in Threads :
            /\ 0 \in Depths(u)
            /\ u # t => Depths(u)' = Depths(u)
            /\ u # t => \A k \in Depths(u) : LockAt(u, k)' = LockAt(u, k)
    BY PopSlots
  <1>3. LockAt(t, 0) = lk[t]
    BY DEF LockAt
  <1>4. \A j \in Jobs :
            /\ Owns(t, 0, j)' <=> Owns(t, n, j)
            /\ ~Owns(t, 0, j)
            /\ \A k \in Depths(t) \ {0, n} : Owns(t, k, j)' <=> Owns(t, k, j)
    BY <1>1, <1>3 DEF Owns
  <1>5. \A u \in Threads : u # t => \A k \in Depths(u) : \A j \in Jobs :
            Owns(u, k, j)' <=> Owns(u, k, j)
    BY <1>2 DEF Owns
  <1> QED BY <1>1, <1>2, <1>4, <1>5 DEF RunLockOwned

-----------------------------------------------------------------------------
(* The shapes of a step.                                                   *)

(* The part of the invariant that is about threads and their locks; the    *)
(* rest is about the data they share.                                      *)
ThreadsOK ==
    /\ pc \in [Threads -> Labels]
    /\ LocksType
    /\ ControlOK /\ SingleHeld /\ RunLockOwned

DataOK ==
    /\ m_state \in [Jobs -> SUBSET StateBits]
    /\ m_run_gen \in [Jobs -> 0 .. GenMod - 1]
    /\ m_runq \in [Workqs -> Seq(Jobs)]
    /\ m_p_runq \in [Workqs -> Seq(Jobs)]
    /\ m_wq_runq \subseteq Workqs
    /\ m_run_single \in [Workqs -> BOOLEAN]
    /\ m_run_parallel \in [Workqs -> Int]
    /\ awaited \in [Threads -> BOOLEAN]
    /\ RunqsOK

(* The two parts are the invariant.                                        *)
LEMMA IInvParts == IInv <=> ThreadsOK /\ DataOK
  BY DEF IInv, ThreadsOK, DataOK, LocksType, Typed

(* ... also after a step.                                                  *)
LEMMA IInvParts_ == IInv' <=> ThreadsOK' /\ DataOK'
  BY DEF IInv, ThreadsOK, DataOK, LocksType, Typed

(* A call that goes to a label where its lock is as it should be.          *)
LEMMA CallControl ==
    ASSUME ThreadsOK, NEW t \in Threads, NEW lab \in Labels, NEW l \in Locks,
           Goto(t, lab, l), stack' = stack, LockOK(lab, l)
    PROVE  /\ pc' \in [Threads -> Labels] /\ LocksType' /\ ControlOK'
           /\ lk' = [lk EXCEPT ![t] = l]
  <1>1. /\ pc' = [pc EXCEPT ![t] = lab] /\ lk' = [lk EXCEPT ![t] = l]
        /\ pc' \in [Threads -> Labels] /\ LocksType'
    BY DEF ThreadsOK, LocksType, Goto
  <1>2. \A u \in Threads : LockOK(pc'[u], lk'[u])
    <2> SUFFICES ASSUME NEW u \in Threads
                 PROVE  LockOK(pc'[u], lk'[u])
      OBVIOUS
    <2>1. CASE u = t
      <3>1. pc'[u] = lab /\ lk'[u] = l
        BY <1>1, <2>1 DEF ThreadsOK, LocksType
      <3> QED BY <3>1
    <2>2. CASE u # t
      <3>1. pc'[u] = pc[u] /\ lk'[u] = lk[u]
        BY <1>1, <2>2 DEF ThreadsOK, LocksType
      <3> QED BY <3>1 DEF ThreadsOK, ControlOK
    <2> QED BY <2>1, <2>2
  <1>3. \A u \in Threads : \A k \in 1 .. Len(stack'[u]) : FrameOK(stack'[u][k])
    BY DEF ThreadsOK, ControlOK
  <1> QED
    BY <1>1, <1>2, <1>3 DEF ControlOK

(* A call goes on without touching run-single or the run lock of a job.    *)
LEMMA QuietStep ==
    ASSUME ThreadsOK, NEW t \in Threads, NEW lab \in Labels, NEW l \in Locks,
           Goto(t, lab, l), stack' = stack, LockOK(lab, l),
           m_run_single' = m_run_single,
           \A j \in Jobs : IsRunning(j)' <=> IsRunning(j),
           l.lck \in Singles <=> lk[t].lck \in Singles,
           l.lck \in Singles => l.wq = lk[t].wq,
           l.own <=> lk[t].own, l.own => l.job = lk[t].job
    PROVE  ThreadsOK'
  <1>1. /\ pc' \in [Threads -> Labels] /\ LocksType' /\ ControlOK'
        /\ lk' = [lk EXCEPT ![t] = l]
    BY CallControl
  <1>2. SingleHeld'
    BY <1>1, SingleKept DEF ThreadsOK
  <1>3. RunLockOwned'
    BY <1>1, OwnerKept DEF ThreadsOK
  <1> QED
    BY <1>1, <1>2, <1>3 DEF ThreadsOK

(* A call takes run-single of its workq.                                   *)
LEMMA TakeStep ==
    ASSUME ThreadsOK, NEW t \in Threads, NEW lab \in Labels, NEW l \in Locks,
           Goto(t, lab, l), stack' = stack, LockOK(lab, l),
           NEW v \in Workqs,
           m_run_single \in [Workqs -> BOOLEAN], ~m_run_single[v],
           m_run_single' = [m_run_single EXCEPT ![v] = TRUE],
           m_state' = m_state,
           lk[t].lck \notin Singles, l.lck \in Singles, l.wq = v,
           l.own <=> lk[t].own, l.own => l.job = lk[t].job
    PROVE  ThreadsOK'
  <1>1. /\ pc' \in [Threads -> Labels] /\ LocksType' /\ ControlOK'
        /\ lk' = [lk EXCEPT ![t] = l]
    BY CallControl
  <1>2. SingleHeld'
    BY <1>1, SingleTaken DEF ThreadsOK
  <1>3. \A j \in Jobs : IsRunning(j)' <=> IsRunning(j)
    BY DEF IsRunning
  <1>4. RunLockOwned'
    BY <1>1, <1>3, OwnerKept DEF ThreadsOK
  <1> QED
    BY <1>1, <1>2, <1>4 DEF ThreadsOK

(* A call gives run-single of its workq back.                              *)
LEMMA ReleaseStep ==
    ASSUME ThreadsOK, NEW t \in Threads, NEW lab \in Labels, NEW l \in Locks,
           Goto(t, lab, l), stack' = stack, LockOK(lab, l),
           NEW v \in Workqs,
           m_run_single \in [Workqs -> BOOLEAN],
           m_run_single' = [m_run_single EXCEPT ![v] = FALSE],
           m_state' = m_state,
           lk[t].lck \in Singles, lk[t].wq = v, l.lck \notin Singles,
           l.own <=> lk[t].own, l.own => l.job = lk[t].job
    PROVE  ThreadsOK'
  <1>1. /\ pc' \in [Threads -> Labels] /\ LocksType' /\ ControlOK'
        /\ lk' = [lk EXCEPT ![t] = l]
    BY CallControl
  <1>2. SingleHeld'
    BY <1>1, SingleReleased DEF ThreadsOK
  <1>3. \A j \in Jobs : IsRunning(j)' <=> IsRunning(j)
    BY DEF IsRunning
  <1>4. RunLockOwned'
    BY <1>1, <1>3, OwnerKept DEF ThreadsOK
  <1> QED
    BY <1>1, <1>2, <1>4 DEF ThreadsOK

(* Control after a lock was pushed on the stack.                           *)
LEMMA PushControl ==
    ASSUME ThreadsOK, NEW t \in Threads, NEW l \in Locks,
           Run(t, l), FrameOK(l)
    PROVE  /\ pc' \in [Threads -> Labels] /\ LocksType' /\ ControlOK'
           /\ lk' = [lk EXCEPT ![t] = NoLock]
           /\ stack' = [stack EXCEPT ![t] = Append(@, l)]
  <1>1. /\ pc' = [pc EXCEPT ![t] = "body"] /\ lk' = [lk EXCEPT ![t] = NoLock]
        /\ stack' = [stack EXCEPT ![t] = Append(@, l)]
    BY DEF Run, Return, Goto
  <1>2. NoLock \in Locks /\ "body" \in Labels /\ LockOK("body", NoLock)
    BY BoundAssumption DEF NoLock, Locks, Labels, LockOK, OwnLabels,
                           LinkLabels, IdleLabels
  <1>3. /\ stack[t] \in Seq(Locks)
        /\ Append(stack[t], l) \in Seq(Locks)
        /\ Len(Append(stack[t], l)) = Len(stack[t]) + 1
        /\ Append(stack[t], l)[Len(stack[t]) + 1] = l
        /\ \A k \in 1 .. Len(stack[t]) : Append(stack[t], l)[k] = stack[t][k]
        /\ Len(stack[t]) \in Nat
    <2>1. stack[t] \in Seq(Locks)
      BY DEF ThreadsOK, LocksType
    <2> QED BY <2>1, AppendProperties, LenProperties
  <1>4. pc' \in [Threads -> Labels] /\ LocksType'
    BY <1>1, <1>2, <1>3 DEF ThreadsOK, LocksType
  <1>5. \A u \in Threads : LockOK(pc'[u], lk'[u])
    <2> SUFFICES ASSUME NEW u \in Threads
                 PROVE  LockOK(pc'[u], lk'[u])
      OBVIOUS
    <2>1. CASE u = t
      <3>1. pc'[u] = "body" /\ lk'[u] = NoLock
        BY <1>1, <2>1 DEF ThreadsOK, LocksType
      <3> QED BY <1>2, <3>1
    <2>2. CASE u # t
      <3>1. pc'[u] = pc[u] /\ lk'[u] = lk[u]
        BY <1>1, <2>2 DEF ThreadsOK, LocksType
      <3> QED BY <3>1 DEF ThreadsOK, ControlOK
    <2> QED BY <2>1, <2>2
  <1>6. \A u \in Threads : \A k \in 1 .. Len(stack'[u]) : FrameOK(stack'[u][k])
    <2> SUFFICES ASSUME NEW u \in Threads, NEW k \in 1 .. Len(stack'[u])
                 PROVE  FrameOK(stack'[u][k])
      OBVIOUS
    <2>1. CASE u = t
      <3>1. stack'[u] = Append(stack[t], l)
        BY <1>1, <2>1 DEF ThreadsOK, LocksType
      <3>2. CASE k = Len(stack[t]) + 1
        BY <1>3, <3>1, <3>2
      <3>3. CASE k # Len(stack[t]) + 1
        <4>1. k \in 1 .. Len(stack[t])
          BY <1>3, <3>1, <3>3
        <4>2. stack'[u][k] = stack[t][k]
          BY <1>3, <3>1, <4>1
        <4> QED BY <4>1, <4>2 DEF ThreadsOK, ControlOK
      <3> QED BY <3>2, <3>3
    <2>2. CASE u # t
      <3>1. stack'[u] = stack[u]
        BY <1>1, <2>2 DEF ThreadsOK, LocksType
      <3> QED BY <3>1 DEF ThreadsOK, ControlOK
    <2> QED BY <2>1, <2>2
  <1> QED
    BY <1>1, <1>4, <1>5, <1>6 DEF ControlOK

(* The lock of a call is complete and the job runs.                        *)
LEMMA PushStep ==
    ASSUME ThreadsOK, NEW t \in Threads, NEW l \in Locks,
           Run(t, l), FrameOK(l),
           m_run_single' = m_run_single, m_state' = m_state,
           l.lck = lk[t].lck, l.wq = lk[t].wq,
           l.own = lk[t].own, l.job = lk[t].job
    PROVE  ThreadsOK'
  <1>1. /\ pc' \in [Threads -> Labels] /\ LocksType' /\ ControlOK'
        /\ lk' = [lk EXCEPT ![t] = NoLock]
        /\ stack' = [stack EXCEPT ![t] = Append(@, l)]
    BY PushControl
  <1>2. SingleHeld'
    BY <1>1, SinglePushed DEF ThreadsOK
  <1>3. RunLockOwned'
    BY <1>1, OwnerPushed DEF ThreadsOK
  <1> QED
    BY <1>1, <1>2, <1>3 DEF ThreadsOK

(* ... having given run-single back.                                       *)
LEMMA ReleasePushStep ==
    ASSUME ThreadsOK, NEW t \in Threads, NEW l \in Locks,
           Run(t, l), FrameOK(l), NEW v \in Workqs,
           m_run_single \in [Workqs -> BOOLEAN],
           m_run_single' = [m_run_single EXCEPT ![v] = FALSE],
           m_state' = m_state,
           lk[t].lck \in Singles, lk[t].wq = v, l.lck \notin Singles,
           l.own = lk[t].own, l.job = lk[t].job
    PROVE  ThreadsOK'
  <1>1. /\ pc' \in [Threads -> Labels] /\ LocksType' /\ ControlOK'
        /\ lk' = [lk EXCEPT ![t] = NoLock]
        /\ stack' = [stack EXCEPT ![t] = Append(@, l)]
    BY PushControl
  <1>2. SingleHeld'
    BY <1>1, SingleReleasedPushed DEF ThreadsOK
  <1>3. RunLockOwned'
    BY <1>1, OwnerPushed DEF ThreadsOK
  <1> QED
    BY <1>1, <1>2, <1>3 DEF ThreadsOK

(* What is known of the thread that takes a step.                          *)
LEMMA ThreadTypes ==
    ASSUME ThreadsOK, NEW t \in Threads
    PROVE  /\ pc[t] \in Labels /\ lk[t] \in Locks /\ stack[t] \in Seq(Locks)
           /\ LockOK(pc[t], lk[t])
  BY DEF ThreadsOK, LocksType, ControlOK

-----------------------------------------------------------------------------
(* Every action keeps the invariant.                                       *)

(* The fields that tell the locks apart.                                   *)
Kept(l, m) == l.lck = m.lck /\ l.wq = m.wq /\ l.own = m.own /\ l.job = m.job

(* A call goes on with the lock it has.                                    *)
LEMMA SameLockStep ==
    ASSUME ThreadsOK, NEW t \in Threads, NEW lab \in Labels, NEW l \in Locks,
           Goto(t, lab, l), stack' = stack, LockOK(lab, l),
           m_run_single' = m_run_single, m_state' = m_state, Kept(l, lk[t])
    PROVE  ThreadsOK'
  <1>1. \A j \in Jobs : IsRunning(j)' <=> IsRunning(j)
    BY DEF IsRunning
  <1> QED BY <1>1, QuietStep DEF Kept

(* A call that holds nothing returns, or goes on holding nothing.          *)
LEMMA FreeStep ==
    ASSUME ThreadsOK, NEW t \in Threads, NEW lab \in Labels, NEW l \in Locks,
           Goto(t, lab, l), stack' = stack, LockOK(lab, l),
           m_run_single' = m_run_single,
           \A j \in Jobs : IsRunning(j)' <=> IsRunning(j),
           lk[t].lck \notin Singles, ~lk[t].own,
           l.lck \notin Singles, ~l.own
    PROVE  ThreadsOK'
  BY QuietStep

(* An idle thread holds nothing.                                           *)
LEMMA IdleLock ==
    ASSUME ThreadsOK, NEW t \in Threads, pc[t] \in IdleLabels
    PROVE  lk[t].lck = "NONE" /\ ~lk[t].own
  <1>1. LockOK(pc[t], lk[t]) /\ pc[t] \notin OwnLabels
    BY DEF ThreadsOK, ControlOK, IdleLabels, OwnLabels
  <1> QED BY <1>1 DEF LockOK

(* The lock of a call that returned.                                       *)
LEMMA NoLockOK ==
    /\ NoLock \in Locks /\ LockOK("body", NoLock) /\ "body" \in Labels
    /\ NoLock.lck = "NONE" /\ NoLock.own = FALSE /\ NoLock.left = 0
  BY BoundAssumption DEF NoLock, Locks, LockOK, OwnLabels, LinkLabels,
                         IdleLabels, Labels

(* The fetch_or of activate() starts a call that holds nothing.            *)
LEMMA ActivateInv ==
    ASSUME IInv, NEW t \in Threads,
           NEW j \in Jobs, NEW immed \in BOOLEAN, Activate(t, j, immed)
    PROVE  IInv'
  <1>0. ThreadsOK /\ DataOK
    BY IInvParts
  <1>8. DataOK'
    BY <1>0 DEF DataOK, Activate, RunqsOK, queueVars, lockVars, StateBits
  <1> SUFFICES ThreadsOK'
    BY <1>8, IInvParts_
  <1> DEFINE help == immed /\ "NO_AID" \notin TypeOf[j] /\ Len(stack[t]) < MaxStack
  <1> DEFINE l == [NoLock EXCEPT !.wq = WorkqOf[j], !.job = j, !.by = "activate",
                            !.ret = IF help THEN "lock_immed" ELSE "body"]
  <1>1. pc[t] = "body" /\ lk[t].lck = "NONE" /\ ~lk[t].own
    BY <1>0, IdleLock DEF Activate, May, IdleLabels
  <1>2. /\ l \in Locks /\ l.lck = "NONE" /\ ~l.own /\ l.job = j
        /\ l.wq = WorkqOf[j] /\ l.by = "activate"
        /\ l.ret \in {"lock_immed", "body"} /\ l.left = 0
    BY JobAssumption, NoLockOK DEF Locks
  <1>3. \A i \in Jobs : IsRunning(i)' <=> IsRunning(i)
    BY <1>0 DEF Activate, IsRunning, DataOK, StateBits
  <1>4. stack' = stack /\ m_run_single' = m_run_single
    BY DEF Activate, lockVars
  <1>5. (JobToRunq(t, l) \/ Resume(t, l))
    BY DEF Activate
  <1> HIDE DEF l
  <1>6. CASE JobToRunq(t, l)
    <2> DEFINE m == [l EXCEPT !.linked = FALSE]
    <2> DEFINE lab == IF IsParallel(j) THEN "link_p_runq" ELSE "link_runq"
    <2>1. Goto(t, lab, m) /\ lab \in Labels
      BY <1>2, <1>6 DEF JobToRunq, Labels
    <2>2. m \in Locks /\ m.lck = "NONE" /\ ~m.own /\ LockOK(lab, m)
      BY <1>2 DEF Locks, LockOK, OwnLabels, LinkLabels, IdleLabels
    <2> HIDE DEF m, lab
    <2> QED BY <1>0, <1>1, <1>3, <1>4, <2>1, <2>2, FreeStep DEF Singles
  <1>7. CASE Resume(t, l)
    <2>1. CASE l.ret = "body"
      <3>1. Goto(t, "body", NoLock)
        BY <1>7, <2>1 DEF Resume, Return
      <3> QED BY <1>0, <1>1, <1>3, <1>4, <3>1, FreeStep, NoLockOK DEF Singles
    <2>2. CASE l.ret = "lock_immed"
      <3>1. Goto(t, "lock_immed", l) /\ "lock_immed" \in Labels
        BY <1>7, <2>2 DEF Resume, Labels
      <3>2. LockOK("lock_immed", l)
        BY <1>2 DEF LockOK, OwnLabels, LinkLabels, IdleLabels
      <3> QED BY <1>0, <1>1, <1>2, <1>3, <1>4, <3>1, <3>2, FreeStep DEF Singles
    <2> QED BY <1>2, <2>1, <2>2
  <1> QED
    BY <1>5, <1>6, <1>7

(* deactivate() starts a call that holds nothing.                          *)
LEMMA DeactivateInv ==
    ASSUME IInv, NEW t \in Threads, NEW j \in Jobs, Deactivate(t, j)
    PROVE  IInv'
  <1>0. ThreadsOK /\ DataOK
    BY IInvParts
  <1>1. DataOK'
    BY <1>0 DEF DataOK, Deactivate, RunqsOK, queueVars, lockVars, jobVars
  <1> SUFFICES ThreadsOK'
    BY <1>1, IInvParts_
  <1> DEFINE l == [NoLock EXCEPT !.job = j, !.gen = m_run_gen[j]]
  <1>2. lk[t].lck = "NONE" /\ ~lk[t].own
    BY <1>0, IdleLock DEF Deactivate, May, IdleLabels
  <1>3. l \in Locks /\ l.lck = "NONE" /\ ~l.own /\ l.job = j /\ l.left = 0
    BY <1>0, NoLockOK DEF Locks, DataOK
  <1>4. l.by = "none"
    BY DEF NoLock
  <1>5. \A i \in Jobs : IsRunning(i)' <=> IsRunning(i)
    BY DEF Deactivate, IsRunning, jobVars
  <1>6. /\ Goto(t, "deactivate", l) /\ "deactivate" \in Labels
        /\ stack' = stack /\ m_run_single' = m_run_single
    BY DEF Deactivate, Labels, lockVars
  <1> HIDE DEF l
  <1>7. LockOK("deactivate", l)
    BY <1>3, <1>4 DEF LockOK, OwnLabels, LinkLabels, IdleLabels
  <1> QED
    BY <1>0, <1>2, <1>3, <1>5, <1>6, <1>7, FreeStep DEF Singles

(* The fetch_and of deactivate() leaves RUNNING alone.                     *)
LEMMA DeactivateClearInv ==
    ASSUME IInv, NEW t \in Threads, DeactivateClear(t)
    PROVE  IInv'
  <1>0. ThreadsOK /\ DataOK
    BY IInvParts
  <1>1. DataOK'
    BY <1>0 DEF DataOK, DeactivateClear, RunqsOK, queueVars, lockVars,
                StateBits, OnStack
  <1> SUFFICES ThreadsOK'
    BY <1>1, IInvParts_
  <1>2. lk[t].lck = "NONE" /\ ~lk[t].own
    BY <1>0, IdleLock DEF DeactivateClear, IdleLabels
  <1>3. \A i \in Jobs : IsRunning(i)' <=> IsRunning(i)
    BY <1>0 DEF DeactivateClear, IsRunning, DataOK
  <1>4. /\ Goto(t, "deactivate_wait", lk[t]) \/ Goto(t, "body", NoLock)
        /\ "deactivate_wait" \in Labels
        /\ stack' = stack /\ m_run_single' = m_run_single
    BY DEF DeactivateClear, Return, Labels, lockVars
  <1>5. lk[t] \in Locks /\ LockOK("deactivate_wait", lk[t])
    BY <1>0, ThreadTypes
       DEF DeactivateClear, LockOK, OwnLabels, LinkLabels, IdleLabels
  <1> QED
    BY <1>0, <1>2, <1>3, <1>4, <1>5, FreeStep, NoLockOK DEF Singles

(* The end of the spin of deactivate().                                    *)
LEMMA DeactivateWaitInv ==
    ASSUME IInv, NEW t \in Threads, DeactivateWait(t)
    PROVE  IInv'
  <1>0. ThreadsOK /\ DataOK
    BY IInvParts
  <1>1. DataOK'
    BY <1>0 DEF DataOK, DeactivateWait, RunqsOK, queueVars, lockVars, jobVars
  <1> SUFFICES ThreadsOK'
    BY <1>1, IInvParts_
  <1>2. lk[t].lck = "NONE" /\ ~lk[t].own
    BY <1>0, IdleLock DEF DeactivateWait, IdleLabels
  <1>3. \A i \in Jobs : IsRunning(i)' <=> IsRunning(i)
    BY DEF DeactivateWait, IsRunning, jobVars
  <1>4. /\ Goto(t, "body", NoLock)
        /\ stack' = stack /\ m_run_single' = m_run_single
    BY DEF DeactivateWait, Return, lockVars
  <1> QED
    BY <1>0, <1>2, <1>3, <1>4, FreeStep, NoLockOK DEF Singles

(* aid() on a workq.                                                       *)
LEMMA AidWorkqInv ==
    ASSUME IInv, NEW t \in Threads, NEW w \in Workqs, NEW n \in AidCounts,
           AidWorkq(t, w, n)
    PROVE  IInv'
  <1>0. ThreadsOK /\ DataOK
    BY IInvParts
  <1>1. DataOK'
    BY <1>0 DEF DataOK, AidWorkq, RunqsOK, queueVars, lockVars, jobVars
  <1> SUFFICES ThreadsOK'
    BY <1>1, IInvParts_
  <1> DEFINE l == [NoLock EXCEPT !.wq = w, !.by = "workq", !.left = n]
  <1>2. lk[t].lck = "NONE" /\ ~lk[t].own
    BY <1>0, IdleLock DEF AidWorkq, May, IdleLabels
  <1>3. /\ l \in Locks /\ l.lck = "NONE" /\ ~l.own /\ l.wq = w
        /\ l.by = "workq" /\ l.left # 0
    BY NoLockOK, BoundAssumption DEF Locks
  <1>4. \A i \in Jobs : IsRunning(i)' <=> IsRunning(i)
    BY DEF AidWorkq, IsRunning, jobVars
  <1>5. /\ Goto(t, "lock_wq", l) /\ "lock_wq" \in Labels
        /\ stack' = stack /\ m_run_single' = m_run_single
    BY DEF AidWorkq, Labels, lockVars
  <1> HIDE DEF l
  <1>6. LockOK("lock_wq", l)
    BY <1>3 DEF LockOK, OwnLabels, LinkLabels, IdleLabels
  <1> QED
    BY <1>0, <1>2, <1>3, <1>4, <1>5, <1>6, FreeStep DEF Singles

(* aid() on the service.                                                   *)
LEMMA AidServiceInv ==
    ASSUME IInv, NEW t \in Threads, NEW n \in AidCounts, AidService(t, n)
    PROVE  IInv'
  <1>0. ThreadsOK /\ DataOK
    BY IInvParts
  <1>1. DataOK'
    BY <1>0 DEF DataOK, AidService, RunqsOK, queueVars, lockVars, jobVars
  <1> SUFFICES ThreadsOK'
    BY <1>1, IInvParts_
  <1> DEFINE l == [NoLock EXCEPT !.by = "service", !.left = n]
  <1>2. lk[t].lck = "NONE" /\ ~lk[t].own
    BY <1>0, IdleLock DEF AidService, May, IdleLabels
  <1>3. /\ l \in Locks /\ l.lck = "NONE" /\ ~l.own
        /\ l.by = "service" /\ l.left # 0
    BY NoLockOK, BoundAssumption DEF Locks
  <1>4. \A i \in Jobs : IsRunning(i)' <=> IsRunning(i)
    BY DEF AidService, IsRunning, jobVars
  <1>5. /\ Goto(t, "pick_wq", l) /\ "pick_wq" \in Labels
        /\ stack' = stack /\ m_run_single' = m_run_single
    BY DEF AidService, Labels, lockVars
  <1> HIDE DEF l
  <1>6. LockOK("pick_wq", l)
    BY <1>3 DEF LockOK, OwnLabels, LinkLabels, IdleLabels
  <1> QED
    BY <1>0, <1>2, <1>3, <1>4, <1>5, <1>6, FreeStep DEF Singles

(* job_to_runq is done: its caller goes on.                                *)
LEMMA ResumeStep ==
    ASSUME ThreadsOK, NEW t \in Threads, NEW l \in Locks,
           Resume(t, l), LockOK("link_wq", l), stack' = stack,
           m_run_single' = m_run_single, m_state' = m_state, Kept(l, lk[t])
    PROVE  ThreadsOK'
  <1>1. /\ ~l.own /\ l.job \in Jobs /\ l.wq = WorkqOf[l.job] /\ l.wq \in Workqs
        /\ l.lck \in IF l.ret = "unlock_wq" THEN {"SINGLE", "PARALLEL"}
                                            ELSE {"NONE"}
    BY JobAssumption DEF LockOK, OwnLabels, LinkLabels
  <1>2. CASE l.ret = "body"
    <2>1. Goto(t, "body", NoLock)
      BY <1>2 DEF Resume, Return
    <2>2. \A i \in Jobs : IsRunning(i)' <=> IsRunning(i)
      BY DEF IsRunning
    <2>3. lk[t].lck = "NONE" /\ ~lk[t].own
      BY <1>1, <1>2 DEF Kept
    <2> QED BY <2>1, <2>2, <2>3, FreeStep, NoLockOK DEF Singles
  <1>3. CASE l.ret = "lock_immed"
    <2>1. Goto(t, "lock_immed", l) /\ "lock_immed" \in Labels
      BY <1>3 DEF Resume, Labels
    <2>2. LockOK("lock_immed", l)
      BY <1>1, <1>3 DEF LockOK, OwnLabels, LinkLabels, IdleLabels
    <2> QED BY <2>1, <2>2, SameLockStep
  <1>4. CASE l.ret = "unlock_wq"
    <2>1. Goto(t, "unlock_wq", l) /\ "unlock_wq" \in Labels
      BY <1>4 DEF Resume, Labels
    <2>2. LockOK("unlock_wq", l)
      BY <1>1, <1>4 DEF LockOK, OwnLabels, LinkLabels, IdleLabels
    <2> QED BY <2>1, <2>2, SameLockStep
  <1> QED BY <1>2, <1>3, <1>4 DEF Locks

(* A parallel job goes to m_p_runq of its own workq.                       *)
LEMMA LinkParallelRunqInv ==
    ASSUME IInv, NEW t \in Threads, LinkParallelRunq(t)
    PROVE  IInv'
  <1>0. ThreadsOK /\ DataOK
    BY IInvParts
  <1>1. lk[t] \in Locks /\ LockOK("link_p_runq", lk[t])
    BY <1>0, ThreadTypes DEF LinkParallelRunq
  <1>2. /\ lk[t].job \in Jobs /\ lk[t].wq = WorkqOf[lk[t].job]
        /\ lk[t].wq \in Workqs /\ IsParallel(lk[t].job)
    BY <1>1, JobAssumption DEF LockOK, LinkLabels
  <1>3. DataOK'
    <2> DEFINE q == LinkBack(m_p_runq[lk[t].wq], lk[t].job)
    <2>1. m_p_runq' = [m_p_runq EXCEPT ![lk[t].wq] = q]
      BY DEF LinkParallelRunq
    <2>2. /\ q \in Seq(Jobs)
          /\ ToSet(q) = ToSet(m_p_runq[lk[t].wq]) \cup {lk[t].job}
      BY <1>0, <1>2, LinkBackSet DEF DataOK
    <2> HIDE DEF q
    <2>3. RunqsOK'
      BY <1>0, <1>2, <2>1, <2>2 DEF RunqsOK, DataOK, LinkParallelRunq
    <2> QED
      BY <1>0, <1>2, <2>1, <2>2, <2>3
         DEF DataOK, LinkParallelRunq, jobVars, lockVars
  <1> SUFFICES ThreadsOK'
    BY <1>3, IInvParts_
  <1>4. PICK b \in BOOLEAN : Goto(t, "link_runq", [lk[t] EXCEPT !.linked = b])
    BY DEF LinkParallelRunq
  <1> DEFINE l == [lk[t] EXCEPT !.linked = b]
  <1>5. l \in Locks /\ Kept(l, lk[t]) /\ "link_runq" \in Labels
    BY <1>1 DEF Locks, Kept, Labels
  <1>6. LockOK("link_runq", l)
    BY <1>1 DEF LockOK, OwnLabels, LinkLabels, IdleLabels, Locks
  <1>7. stack' = stack /\ m_run_single' = m_run_single /\ m_state' = m_state
    BY DEF LinkParallelRunq, lockVars, jobVars
  <1> QED
    BY <1>0, <1>4, <1>5, <1>6, <1>7, SameLockStep

(* Any job goes to m_runq of its own workq.                                *)
LEMMA LinkRunqInv ==
    ASSUME IInv, NEW t \in Threads, LinkRunq(t)
    PROVE  IInv'
  <1>0. ThreadsOK /\ DataOK
    BY IInvParts
  <1>1. lk[t] \in Locks /\ LockOK("link_runq", lk[t])
    BY <1>0, ThreadTypes DEF LinkRunq
  <1>2. /\ lk[t].job \in Jobs /\ lk[t].wq = WorkqOf[lk[t].job]
        /\ lk[t].wq \in Workqs
    BY <1>1, JobAssumption DEF LockOK, LinkLabels
  <1>3. DataOK'
    <2> DEFINE q == LinkBack(m_runq[lk[t].wq], lk[t].job)
    <2>1. m_runq' = [m_runq EXCEPT ![lk[t].wq] = q] /\ m_p_runq' = m_p_runq
      BY DEF LinkRunq
    <2>2. /\ q \in Seq(Jobs)
          /\ ToSet(q) = ToSet(m_runq[lk[t].wq]) \cup {lk[t].job}
      BY <1>0, <1>2, LinkBackSet DEF DataOK
    <2> HIDE DEF q
    <2>3. RunqsOK'
      BY <1>0, <1>2, <2>1, <2>2 DEF RunqsOK, DataOK
    <2> QED
      BY <1>0, <1>2, <2>1, <2>2, <2>3 DEF DataOK, LinkRunq, jobVars, lockVars
  <1> SUFFICES ThreadsOK'
    BY <1>3, IInvParts_
  <1>4. LockOK("link_wq", lk[t]) /\ Kept(lk[t], lk[t]) /\ "link_wq" \in Labels
    BY <1>1 DEF LockOK, OwnLabels, LinkLabels, IdleLabels, Kept, Labels
  <1>5. stack' = stack /\ m_run_single' = m_run_single /\ m_state' = m_state
    BY DEF LinkRunq, lockVars, jobVars
  <1>6. Goto(t, "link_wq", lk[t]) \/ Resume(t, lk[t])
    BY DEF LinkRunq
  <1> QED
    BY <1>0, <1>1, <1>4, <1>5, <1>6, SameLockStep, ResumeStep

(* The workq of the job goes to the runq of the service.                   *)
LEMMA LinkWorkqInv ==
    ASSUME IInv, NEW t \in Threads, LinkWorkq(t)
    PROVE  IInv'
  <1>0. ThreadsOK /\ DataOK
    BY IInvParts
  <1>1. lk[t] \in Locks /\ LockOK("link_wq", lk[t]) /\ Kept(lk[t], lk[t])
    BY <1>0, ThreadTypes DEF LinkWorkq, Kept
  <1>2. lk[t].wq \in Workqs
    BY <1>1, JobAssumption DEF LockOK, LinkLabels
  <1>3. DataOK'
    BY <1>0, <1>2 DEF DataOK, LinkWorkq, RunqsOK, lockVars, jobVars
  <1> SUFFICES ThreadsOK'
    BY <1>3, IInvParts_
  <1>4. stack' = stack /\ m_run_single' = m_run_single /\ m_state' = m_state
    BY DEF LinkWorkq, lockVars, jobVars
  <1> QED
    BY <1>0, <1>1, <1>4, ResumeStep DEF LinkWorkq

(* The service takes a workq from its runq.                                *)
LEMMA PickWorkqInv ==
    ASSUME IInv, NEW t \in Threads, PickWorkq(t)
    PROVE  IInv'
  <1>0. ThreadsOK /\ DataOK
    BY IInvParts
  <1>1. DataOK'
    BY <1>0 DEF DataOK, PickWorkq, RunqsOK, queueVars, lockVars, jobVars
  <1> SUFFICES ThreadsOK'
    BY <1>1, IInvParts_
  <1>2. lk[t] \in Locks /\ LockOK("pick_wq", lk[t])
    BY <1>0, ThreadTypes DEF PickWorkq
  <1>3. lk[t].lck = "NONE" /\ ~lk[t].own
    BY <1>2 DEF LockOK, OwnLabels
  <1>4. /\ stack' = stack /\ m_run_single' = m_run_single
        /\ \A i \in Jobs : IsRunning(i)' <=> IsRunning(i)
    BY DEF PickWorkq, lockVars, jobVars, IsRunning
  <1>5. CASE Return(t)
    BY <1>0, <1>3, <1>4, <1>5, FreeStep, NoLockOK DEF Return, Singles
  <1>6. CASE \E w \in m_wq_runq : Goto(t, "lock_wq", [lk[t] EXCEPT !.wq = w])
    <2>1. PICK w \in m_wq_runq : Goto(t, "lock_wq", [lk[t] EXCEPT !.wq = w])
      BY <1>6
    <2> DEFINE l == [lk[t] EXCEPT !.wq = w]
    <2>2. w \in Workqs
      BY <1>0 DEF DataOK
    <2>3. /\ l \in Locks /\ l.lck = "NONE" /\ ~l.own /\ "lock_wq" \in Labels
          /\ LockOK("lock_wq", l)
      BY <1>2, <1>3, <2>2
         DEF Locks, LockOK, Labels, OwnLabels, LinkLabels, IdleLabels
    <2> HIDE DEF l
    <2> QED
      BY <1>0, <1>3, <1>4, <2>1, <2>3, FreeStep DEF Singles, l
  <1> QED
    BY <1>5, <1>6 DEF PickWorkq

(* workq::lock_run either takes run-single or counts one more holder of    *)
(* run-parallel.                                                           *)
LEMMA LockRunStep ==
    ASSUME ThreadsOK, DataOK, NEW t \in Threads, NEW a \in Labels, NEW b \in Labels,
           LockRun(t, a, b), lk[t].wq \in Workqs,
           lk[t].lck = "NONE", ~lk[t].own,
           LockOK(a, [lk[t] EXCEPT !.lck = "SINGLE"]),
           LockOK(b, [lk[t] EXCEPT !.lck = "PARALLEL"]),
           stack' = stack, m_state' = m_state
    PROVE  /\ ThreadsOK'
           /\ m_run_single' \in [Workqs -> BOOLEAN]
           /\ m_run_parallel' \in [Workqs -> Int]
  <1>0. PICK v : v = lk[t].wq
    OBVIOUS
  <1>1. /\ v \in Workqs /\ lk[t] \in Locks
        /\ m_run_single \in [Workqs -> BOOLEAN]
        /\ m_run_parallel \in [Workqs -> Int]
    BY <1>0, ThreadTypes DEF DataOK
  <1>2. CASE /\ ~m_run_single[v]
             /\ m_run_single' = [m_run_single EXCEPT ![v] = TRUE]
             /\ Goto(t, a, [lk[t] EXCEPT !.lck = "SINGLE"])
             /\ UNCHANGED m_run_parallel
    <2> DEFINE l == [lk[t] EXCEPT !.lck = "SINGLE"]
    <2>1. l \in Locks /\ l.lck = "SINGLE" /\ l.wq = v /\ l.own = lk[t].own
          /\ l.job = lk[t].job
      BY <1>0, <1>1 DEF Locks
    <2>2. Goto(t, a, l) /\ LockOK(a, l)
      BY <1>2
    <2> HIDE DEF l
    <2>3. ThreadsOK'
      BY <1>1, <1>2, <2>1, <2>2, TakeStep DEF Singles
    <2> QED BY <1>1, <1>2, <2>3
  <1>3. CASE /\ m_run_single[v]
             /\ m_run_parallel' = [m_run_parallel EXCEPT ![v] = @ + 1]
             /\ Goto(t, b, [lk[t] EXCEPT !.lck = "PARALLEL"])
             /\ UNCHANGED m_run_single
    <2> DEFINE l == [lk[t] EXCEPT !.lck = "PARALLEL"]
    <2>1. l \in Locks /\ l.lck = "PARALLEL" /\ l.own = lk[t].own
      BY <1>1 DEF Locks
    <2>2. Goto(t, b, l) /\ LockOK(b, l) /\ m_run_single' = m_run_single
      BY <1>3
    <2>3. \A i \in Jobs : IsRunning(i)' <=> IsRunning(i)
      BY DEF IsRunning
    <2> HIDE DEF l
    <2>4. ThreadsOK'
      BY <2>1, <2>2, <2>3, FreeStep DEF Singles
    <2> QED BY <1>1, <1>3, <2>4
  <1> QED
    BY <1>0, <1>2, <1>3 DEF LockRun

(* aid() locks the workq it looks for a job on.                            *)
LEMMA LockWorkqInv ==
    ASSUME IInv, NEW t \in Threads, LockWorkq(t)
    PROVE  IInv'
  <1>0. ThreadsOK /\ DataOK
    BY IInvParts
  <1>1. lk[t] \in Locks /\ LockOK("lock_wq", lk[t])
    BY <1>0, ThreadTypes DEF LockWorkq
  <1>2. lk[t].wq \in Workqs /\ lk[t].lck = "NONE" /\ ~lk[t].own
    BY <1>1 DEF LockOK, OwnLabels
  <1>3. /\ LockOK("pop_front", [lk[t] EXCEPT !.lck = "SINGLE"])
        /\ LockOK("pop_front", [lk[t] EXCEPT !.lck = "PARALLEL"])
        /\ "pop_front" \in Labels
    BY <1>1 DEF Locks, LockOK, Labels, OwnLabels, LinkLabels, IdleLabels
  <1>4. /\ LockRun(t, "pop_front", "pop_front")
        /\ stack' = stack /\ m_state' = m_state
    BY DEF LockWorkq, jobVars
  <1>5. ThreadsOK' /\ m_run_single' \in [Workqs -> BOOLEAN]
        /\ m_run_parallel' \in [Workqs -> Int]
    BY <1>0, <1>2, <1>3, <1>4, LockRunStep
  <1>6. UNCHANGED <<jobVars, queueVars, awaited>>
    BY DEF LockWorkq
  <1>7. DataOK'
    BY <1>0, <1>5, <1>6 DEF DataOK, RunqsOK, jobVars, queueVars
  <1> QED BY <1>5, <1>7, IInvParts_

(* ACT_IMMED keeps the lock it asked for only if it suits the job.         *)
LEMMA LockImmedInv ==
    ASSUME IInv, NEW t \in Threads, LockImmed(t)
    PROVE  IInv'
  <1>0. ThreadsOK /\ DataOK
    BY IInvParts
  <1>1. lk[t] \in Locks /\ LockOK("lock_immed", lk[t])
    BY <1>0, ThreadTypes DEF LockImmed
  <1>2. /\ lk[t].job \in Jobs /\ lk[t].wq = WorkqOf[lk[t].job]
        /\ lk[t].wq \in Workqs /\ lk[t].lck = "NONE" /\ ~lk[t].own
    BY <1>1, JobAssumption DEF LockOK, OwnLabels, LinkLabels
  <1>3. /\ "lock_job" \in Labels /\ "unlock_failed" \in Labels
        /\ stack' = stack /\ m_state' = m_state
        /\ UNCHANGED <<jobVars, queueVars, awaited>>
    BY DEF LockImmed, Labels, jobVars
  <1>4. CASE IsParallel(lk[t].job)
    <2> DEFINE l == [lk[t] EXCEPT !.lck = "PARALLEL"]
    <2>1. l \in Locks /\ l.lck = "PARALLEL" /\ ~l.own /\ LockOK("lock_job", l)
      BY <1>1, <1>2, <1>4
         DEF Locks, LockOK, OwnLabels, LinkLabels, IdleLabels
    <2>2. /\ Goto(t, "lock_job", l) /\ m_run_single' = m_run_single
          /\ m_run_parallel' = [m_run_parallel EXCEPT ![lk[t].wq] = @ + 1]
      BY <1>4 DEF LockImmed
    <2>3. \A i \in Jobs : IsRunning(i)' <=> IsRunning(i)
      BY <1>3 DEF IsRunning
    <2> HIDE DEF l
    <2>4. ThreadsOK'
      BY <1>0, <1>2, <1>3, <2>1, <2>2, <2>3, FreeStep DEF Singles
    <2>5. DataOK'
      BY <1>0, <1>2, <1>3, <2>2 DEF DataOK, RunqsOK, jobVars, queueVars
    <2> QED BY <2>4, <2>5, IInvParts_
  <1>5. CASE ~IsParallel(lk[t].job)
    <2>1. LockRun(t, "lock_job", "unlock_failed")
      BY <1>5 DEF LockImmed
    <2>2. /\ LockOK("lock_job", [lk[t] EXCEPT !.lck = "SINGLE"])
          /\ LockOK("unlock_failed", [lk[t] EXCEPT !.lck = "PARALLEL"])
      BY <1>1, <1>2 DEF Locks, LockOK, OwnLabels, LinkLabels, IdleLabels
    <2>3. ThreadsOK' /\ m_run_single' \in [Workqs -> BOOLEAN]
          /\ m_run_parallel' \in [Workqs -> Int]
      BY <1>0, <1>2, <1>3, <2>1, <2>2, LockRunStep
    <2>4. DataOK'
      BY <1>0, <1>3, <2>3 DEF DataOK, RunqsOK, jobVars, queueVars
    <2> QED BY <2>3, <2>4, IInvParts_
  <1> QED BY <1>4, <1>5

(* The job popped belongs to the workq, and is parallel if the lock is.    *)
LEMMA PopFrontInv ==
    ASSUME IInv, NEW t \in Threads, PopFront(t)
    PROVE  IInv'
  <1>0. ThreadsOK /\ DataOK
    BY IInvParts
  <1>1. lk[t] \in Locks /\ LockOK("pop_front", lk[t])
    BY <1>0, ThreadTypes DEF PopFront
  <1>2. PICK w : w = lk[t].wq
    OBVIOUS
  <1>3. /\ w \in Workqs /\ ~lk[t].own /\ lk[t].by # "none"
        /\ lk[t].lck \in {"SINGLE", "PARALLEL"}
        /\ lk[t].by \in {"workq", "service"} => lk[t].left # 0
    BY <1>1, <1>2 DEF LockOK, OwnLabels, IdleLabels
  <1>4. /\ stack' = stack /\ m_run_single' = m_run_single
        /\ m_state' = m_state
        /\ UNCHANGED <<jobVars, m_wq_runq, lockVars, awaited>>
    BY DEF PopFront, jobVars, lockVars
  <1>5. \A i \in Jobs : IsRunning(i)' <=> IsRunning(i)
    BY <1>4 DEF IsRunning
  <1> DEFINE q == IF lk[t].lck = "SINGLE" THEN m_runq[w] ELSE m_p_runq[w]
  <1>6. CASE q = << >>
    <2> DEFINE l == [lk[t] EXCEPT !.job = None]
    <2>1. /\ Goto(t, "unlock_failed", l) /\ "unlock_failed" \in Labels
          /\ UNCHANGED <<m_runq, m_p_runq>>
      BY <1>2, <1>6 DEF PopFront, Labels
    <2>2. /\ l \in Locks /\ l.lck = lk[t].lck /\ l.wq = lk[t].wq
          /\ l.own = lk[t].own /\ LockOK("unlock_failed", l)
      BY <1>1, <1>2, <1>3
         DEF Locks, LockOK, OwnLabels, LinkLabels, IdleLabels
    <2> HIDE DEF l
    <2>3. ThreadsOK'
      BY <1>0, <1>3, <1>4, <1>5, <2>1, <2>2, QuietStep
    <2>4. DataOK'
      BY <1>0, <1>4, <2>1 DEF DataOK, RunqsOK, jobVars, lockVars
    <2> QED BY <2>3, <2>4, IInvParts_
  <1>7. CASE q # << >>
    <2>1. q \in Seq(Jobs) /\ w \in Workqs
      BY <1>0, <1>3 DEF DataOK
    <2>2. PICK j \in Jobs : j = Head(q) /\ j \in ToSet(q)
      BY <1>7, <2>1, HeadTailSet
    <2>3. WorkqOf[j] = w /\ (lk[t].lck = "PARALLEL" => IsParallel(j))
      BY <1>0, <1>3, <2>2 DEF DataOK, RunqsOK
    <2>4. /\ Goto(t, "lock_job", [lk[t] EXCEPT !.job = j])
          /\ "lock_job" \in Labels
          /\ IF lk[t].lck = "SINGLE"
             THEN m_runq' = [m_runq EXCEPT ![w] = Tail(@)] /\ m_p_runq' = m_p_runq
             ELSE m_p_runq' = [m_p_runq EXCEPT ![w] = Tail(@)] /\ m_runq' = m_runq
      BY <1>2, <1>7, <2>2 DEF PopFront, Labels
    <2>5. Tail(q) \in Seq(Jobs) /\ ToSet(Tail(q)) \subseteq ToSet(q)
      BY <1>7, <2>1, HeadTailSet
    <2> DEFINE l == [lk[t] EXCEPT !.job = j]
    <2>6. /\ l \in Locks /\ l.lck = lk[t].lck /\ l.wq = lk[t].wq
          /\ l.own = lk[t].own /\ LockOK("lock_job", l)
      BY <1>1, <1>2, <1>3, <2>3
         DEF Locks, LockOK, OwnLabels, LinkLabels, IdleLabels
    <2>7. Goto(t, "lock_job", l)
      BY <2>4
    <2> HIDE DEF l
    <2>8. ThreadsOK'
      BY <1>0, <1>3, <1>4, <1>5, <2>4, <2>6, <2>7, QuietStep
    <2>9. DataOK'
      <3>1. CASE lk[t].lck = "SINGLE"
        <4>1. q = m_runq[w] /\ m_p_runq' = m_p_runq
              /\ m_runq' = [m_runq EXCEPT ![w] = Tail(q)]
          BY <2>4, <3>1
        <4> HIDE DEF q
        <4>2. RunqsOK'
          BY <1>0, <1>3, <2>5, <4>1 DEF DataOK, RunqsOK
        <4> QED
          BY <1>0, <1>3, <1>4, <2>5, <4>1, <4>2 DEF DataOK, jobVars, lockVars
      <3>2. CASE lk[t].lck # "SINGLE"
        <4>1. q = m_p_runq[w] /\ m_runq' = m_runq
              /\ m_p_runq' = [m_p_runq EXCEPT ![w] = Tail(q)]
          BY <2>4, <3>2
        <4> HIDE DEF q
        <4>2. RunqsOK'
          BY <1>0, <1>3, <2>5, <4>1 DEF DataOK, RunqsOK
        <4> QED
          BY <1>0, <1>3, <1>4, <2>5, <4>1, <4>2 DEF DataOK, jobVars, lockVars
      <3> QED BY <3>1, <3>2
    <2> QED BY <2>8, <2>9, IInvParts_
  <1> QED BY <1>6, <1>7

(* The lock of a thread that owns a job is fit for the stack.              *)
LEMMA OwnedLock ==
    ASSUME NEW l, FrameOK(l)
    PROVE  /\ \A lab \in {"run_gen", "erase_runq", "relink_wq", "unlock_job"} :
                 LockOK(lab, l)
           /\ IsParallel(l.job) => LockOK("erase_p_runq", l)
  BY DEF FrameOK, LockOK, OwnLabels, LinkLabels, IdleLabels

(* ... and the other way round.                                            *)
LEMMA OwnedFrame ==
    ASSUME NEW l, NEW lab \in {"run_gen", "erase_runq", "erase_p_runq",
                               "relink_wq", "unlock_job"}, LockOK(lab, l)
    PROVE  FrameOK(l) /\ (lab = "erase_p_runq" => IsParallel(l.job))
  BY DEF FrameOK, LockOK, OwnLabels, LinkLabels, IdleLabels

(* Job and workq are locked.                                               *)
LEMMA LockedStep ==
    ASSUME ThreadsOK, NEW t \in Threads, NEW l \in Locks,
           Locked(t, l), FrameOK(l), Kept(l, lk[t]),
           m_run_single' = m_run_single, m_state' = m_state
    PROVE  ThreadsOK'
  <1>1. CASE Goto(t, "relink_wq", l) /\ UNCHANGED stack
    BY <1>1, OwnedLock, SameLockStep DEF Labels
  <1>2. CASE Run(t, l)
    BY <1>2, PushStep DEF Kept
  <1> QED BY <1>1, <1>2 DEF Locked

(* A call locks a job that nobody runs.                                    *)
LEMMA JobLockedStep ==
    ASSUME ThreadsOK, NEW t \in Threads, NEW lab \in Labels, NEW l \in Locks,
           Goto(t, lab, l), stack' = stack, LockOK(lab, l), NEW i \in Jobs,
           m_run_single' = m_run_single,
           ~IsRunning(i), IsRunning(i)',
           \A j \in Jobs \ {i} : IsRunning(j)' <=> IsRunning(j),
           ~lk[t].own, l.own, l.job = i, l.lck = lk[t].lck, l.wq = lk[t].wq
    PROVE  ThreadsOK'
  <1>1. /\ pc' \in [Threads -> Labels] /\ LocksType' /\ ControlOK'
        /\ lk' = [lk EXCEPT ![t] = l]
    BY CallControl
  <1>2. SingleHeld'
    BY <1>1, SingleKept DEF ThreadsOK
  <1>3. RunLockOwned'
    BY <1>1, OwnerTaken DEF ThreadsOK
  <1> QED BY <1>1, <1>2, <1>3 DEF ThreadsOK

(* A call unlocks the job it owns.                                         *)
LEMMA JobUnlockedStep ==
    ASSUME ThreadsOK, NEW t \in Threads, NEW lab \in Labels, NEW l \in Locks,
           Goto(t, lab, l), stack' = stack, LockOK(lab, l), NEW i \in Jobs,
           m_run_single' = m_run_single, ~IsRunning(i)',
           \A j \in Jobs \ {i} : IsRunning(j)' <=> IsRunning(j),
           lk[t].own, lk[t].job = i, ~l.own,
           l.lck = lk[t].lck, l.wq = lk[t].wq
    PROVE  ThreadsOK'
  <1>1. /\ pc' \in [Threads -> Labels] /\ LocksType' /\ ControlOK'
        /\ lk' = [lk EXCEPT ![t] = l]
    BY CallControl
  <1>2. SingleHeld'
    BY <1>1, SingleKept DEF ThreadsOK
  <1>3. RunLockOwned'
    BY <1>1, OwnerReleased DEF ThreadsOK
  <1> QED BY <1>1, <1>2, <1>3 DEF ThreadsOK

(* The compare-exchange locks a job nobody runs, or leaves it alone.       *)
LEMMA LockJobInv ==
    ASSUME IInv, NEW t \in Threads, LockJob(t)
    PROVE  IInv'
  <1>0. ThreadsOK /\ DataOK
    BY IInvParts
  <1>1. lk[t] \in Locks /\ LockOK("lock_job", lk[t])
    BY <1>0, ThreadTypes DEF LockJob
  <1>2. PICK i \in Jobs : i = lk[t].job
    BY <1>1 DEF LockOK
  <1>3. /\ ~lk[t].own /\ lk[t].lck \in {"SINGLE", "PARALLEL"}
        /\ lk[t].wq \in Workqs
    BY <1>1, JobAssumption DEF LockOK, OwnLabels
  <1>4. DataOK'
    BY <1>0, <1>2 DEF DataOK, LockJob, RunqsOK, StateBits, queueVars, lockVars
  <1> SUFFICES ThreadsOK'
    BY <1>4, IInvParts_
  <1>5. /\ stack' = stack /\ m_run_single' = m_run_single
        /\ {"run_gen", "unlock_failed", "pop_front"} \subseteq Labels
    BY DEF LockJob, lockVars, Labels
  <1>6. CASE Runnable(i)
    <2> DEFINE l == [lk[t] EXCEPT !.own = TRUE]
    <2> DEFINE consumed == IF "PERSIST" \in TypeOf[i] THEN {} ELSE {"ACTIVE"}
    <2>1. /\ m_state' = [m_state EXCEPT ![i] = (@ \cup {"RUNNING"}) \ consumed]
          /\ Goto(t, "run_gen", l)
      BY <1>2, <1>6 DEF LockJob
    <2>2. /\ l \in Locks /\ l.own /\ l.job = i
          /\ l.lck = lk[t].lck /\ l.wq = lk[t].wq /\ LockOK("run_gen", l)
      BY <1>1, <1>2 DEF Locks, LockOK, OwnLabels, LinkLabels, IdleLabels
    <2> HIDE DEF l
    <2>3. /\ ~IsRunning(i) /\ IsRunning(i)'
          /\ \A j \in Jobs \ {i} : IsRunning(j)' <=> IsRunning(j)
      BY <1>0, <1>6, <2>1 DEF DataOK, Runnable, IsRunning
    <2> QED
      BY <1>0, <1>3, <1>5, <2>1, <2>2, <2>3, JobLockedStep
  <1>7. CASE ~Runnable(i)
    <2> DEFINE l == [lk[t] EXCEPT !.job = None]
    <2>1. /\ Goto(t, "unlock_failed", l) \/ Goto(t, "pop_front", l)
          /\ m_state' = m_state
      BY <1>2, <1>7 DEF LockJob
    <2>2. /\ l \in Locks /\ ~l.own /\ l.lck = lk[t].lck /\ l.wq = lk[t].wq
          /\ LockOK("unlock_failed", l) /\ LockOK("pop_front", l)
      BY <1>1, <1>3 DEF Locks, LockOK, OwnLabels, LinkLabels, IdleLabels
    <2> HIDE DEF l
    <2>3. \A j \in Jobs : IsRunning(j)' <=> IsRunning(j)
      BY <2>1 DEF IsRunning
    <2> QED
      BY <1>0, <1>3, <1>5, <2>1, <2>2, <2>3, QuietStep
  <1> QED BY <1>6, <1>7

(* The generation wraps within its type.                                   *)
LEMMA CountRunInv ==
    ASSUME IInv, NEW t \in Threads, CountRun(t)
    PROVE  IInv'
  <1>0. ThreadsOK /\ DataOK
    BY IInvParts
  <1>1. lk[t] \in Locks /\ LockOK("run_gen", lk[t])
    BY <1>0, ThreadTypes DEF CountRun
  <1>2. FrameOK(lk[t]) /\ lk[t].job \in Jobs /\ Kept(lk[t], lk[t])
    BY <1>1, OwnedFrame DEF FrameOK, Kept
  <1>3. DataOK'
    <2>1. m_run_gen' = [m_run_gen EXCEPT ![lk[t].job] = (@ + 1) % GenMod]
      BY DEF CountRun
    <2>2. m_run_gen' \in [Jobs -> 0 .. GenMod - 1]
      BY <1>0, <1>2, <2>1, BoundAssumption DEF DataOK
    <2>3. UNCHANGED <<m_state, queueVars, lockVars, awaited>>
      BY DEF CountRun
    <2> QED
      BY <1>0, <2>2, <2>3 DEF DataOK, RunqsOK, queueVars, lockVars
  <1> SUFFICES ThreadsOK'
    BY <1>3, IInvParts_
  <1>4. /\ m_run_single' = m_run_single /\ m_state' = m_state
        /\ {"erase_runq", "erase_p_runq"} \subseteq Labels
    BY DEF CountRun, lockVars, Labels
  <1>5. \/ Goto(t, "erase_runq", lk[t]) /\ stack' = stack
        \/ /\ Goto(t, "erase_p_runq", lk[t]) /\ stack' = stack
           /\ IsParallel(lk[t].job)
        \/ Locked(t, lk[t])
    BY DEF CountRun
  <1>6. /\ LockOK("erase_runq", lk[t])
        /\ IsParallel(lk[t].job) => LockOK("erase_p_runq", lk[t])
    BY <1>2, OwnedLock
  <1> QED
    BY <1>0, <1>1, <1>2, <1>4, <1>5, <1>6, SameLockStep, LockedStep

(* The job is taken from the list it was not popped from.                  *)
LEMMA EraseRunqInv ==
    ASSUME IInv, NEW t \in Threads, EraseRunq(t)
    PROVE  IInv'
  <1>0. ThreadsOK /\ DataOK
    BY IInvParts
  <1>1. lk[t] \in Locks /\ LockOK("erase_runq", lk[t])
    BY <1>0, ThreadTypes DEF EraseRunq
  <1>2. /\ FrameOK(lk[t]) /\ lk[t].job \in Jobs /\ Kept(lk[t], lk[t])
        /\ lk[t].wq \in Workqs
    BY <1>1, OwnedFrame, JobAssumption DEF FrameOK, Kept
  <1>3. DataOK'
    <2> DEFINE q == Erase(m_runq[lk[t].wq], lk[t].job)
    <2>1. /\ m_runq' = [m_runq EXCEPT ![lk[t].wq] = q] /\ m_p_runq' = m_p_runq
          /\ UNCHANGED <<jobVars, m_wq_runq, lockVars, awaited>>
      BY DEF EraseRunq
    <2>2. q \in Seq(Jobs) /\ ToSet(q) \subseteq ToSet(m_runq[lk[t].wq])
      BY <1>0, <1>2, EraseSubset DEF DataOK
    <2> HIDE DEF q
    <2>3. RunqsOK'
      BY <1>0, <1>2, <2>1, <2>2 DEF RunqsOK, DataOK
    <2> QED
      BY <1>0, <1>2, <2>1, <2>2, <2>3 DEF DataOK, jobVars, lockVars
  <1> SUFFICES ThreadsOK'
    BY <1>3, IInvParts_
  <1>4. /\ m_run_single' = m_run_single /\ m_state' = m_state
        /\ "erase_p_runq" \in Labels
    BY DEF EraseRunq, lockVars, jobVars, Labels
  <1>5. \/ /\ Goto(t, "erase_p_runq", lk[t]) /\ stack' = stack
           /\ IsParallel(lk[t].job)
        \/ Locked(t, lk[t])
    BY DEF EraseRunq
  <1>6. IsParallel(lk[t].job) => LockOK("erase_p_runq", lk[t])
    BY <1>2, OwnedLock
  <1> QED
    BY <1>0, <1>1, <1>2, <1>4, <1>5, <1>6, SameLockStep, LockedStep

(* ... a parallel job under run-single goes on to the downgrade.           *)
LEMMA EraseParallelRunqInv ==
    ASSUME IInv, NEW t \in Threads, EraseParallelRunq(t)
    PROVE  IInv'
  <1>0. ThreadsOK /\ DataOK
    BY IInvParts
  <1>1. lk[t] \in Locks /\ LockOK("erase_p_runq", lk[t])
    BY <1>0, ThreadTypes DEF EraseParallelRunq
  <1>2. /\ FrameOK(lk[t]) /\ lk[t].job \in Jobs /\ Kept(lk[t], lk[t])
        /\ lk[t].wq \in Workqs /\ IsParallel(lk[t].job)
    BY <1>1, OwnedFrame, JobAssumption DEF FrameOK, Kept
  <1>3. DataOK'
    <2> DEFINE q == Erase(m_p_runq[lk[t].wq], lk[t].job)
    <2>1. /\ m_p_runq' = [m_p_runq EXCEPT ![lk[t].wq] = q] /\ m_runq' = m_runq
          /\ UNCHANGED <<jobVars, m_wq_runq, lockVars, awaited>>
      BY DEF EraseParallelRunq
    <2>2. q \in Seq(Jobs) /\ ToSet(q) \subseteq ToSet(m_p_runq[lk[t].wq])
      BY <1>0, <1>2, EraseSubset DEF DataOK
    <2> HIDE DEF q
    <2>3. RunqsOK'
      BY <1>0, <1>2, <2>1, <2>2 DEF RunqsOK, DataOK
    <2> QED
      BY <1>0, <1>2, <2>1, <2>2, <2>3 DEF DataOK, jobVars, lockVars
  <1> SUFFICES ThreadsOK'
    BY <1>3, IInvParts_
  <1>4. /\ m_run_single' = m_run_single /\ m_state' = m_state
        /\ "downgrade" \in Labels
    BY DEF EraseParallelRunq, lockVars, jobVars, Labels
  <1>5. \/ /\ Goto(t, "downgrade", lk[t]) /\ stack' = stack
           /\ lk[t].lck = "SINGLE"
        \/ Locked(t, lk[t])
    BY DEF EraseParallelRunq
  <1>6. lk[t].lck = "SINGLE" => LockOK("downgrade", lk[t])
    BY <1>1 DEF LockOK, OwnLabels, LinkLabels, IdleLabels
  <1> QED
    BY <1>0, <1>1, <1>2, <1>4, <1>5, <1>6, SameLockStep, LockedStep

(* Run-parallel is counted before run-single is given back.                *)
LEMMA DowngradeInv ==
    ASSUME IInv, NEW t \in Threads, Downgrade(t)
    PROVE  IInv'
  <1>0. ThreadsOK /\ DataOK
    BY IInvParts
  <1>1. /\ lk[t] \in Locks /\ LockOK("downgrade", lk[t])
        /\ Kept(lk[t], lk[t])
    BY <1>0, ThreadTypes DEF Downgrade, Kept
  <1>2. lk[t].lck = "SINGLE" /\ lk[t].own /\ lk[t].wq \in Workqs
    BY <1>1, JobAssumption DEF LockOK, OwnLabels
  <1>3. DataOK'
    BY <1>0, <1>2 DEF DataOK, Downgrade, RunqsOK, jobVars, queueVars
  <1> SUFFICES ThreadsOK'
    BY <1>3, IInvParts_
  <1> DEFINE l == [lk[t] EXCEPT !.lck = "BOTH"]
  <1>4. /\ Goto(t, "downgrade_release", l) /\ "downgrade_release" \in Labels
        /\ stack' = stack /\ m_run_single' = m_run_single
        /\ \A i \in Jobs : IsRunning(i)' <=> IsRunning(i)
    BY DEF Downgrade, Labels, jobVars, IsRunning
  <1>5. /\ l \in Locks /\ l.lck = "BOTH" /\ l.wq = lk[t].wq
        /\ l.own = lk[t].own /\ l.job = lk[t].job
        /\ LockOK("downgrade_release", l)
    BY <1>1 DEF Locks, LockOK, OwnLabels, LinkLabels, IdleLabels
  <1> HIDE DEF l
  <1> QED
    BY <1>0, <1>2, <1>4, <1>5, QuietStep DEF Singles

(* The downgraded lock runs the job, or links the workq first.             *)
LEMMA DowngradeReleaseInv ==
    ASSUME IInv, NEW t \in Threads, DowngradeRelease(t)
    PROVE  IInv'
  <1>0. ThreadsOK /\ DataOK
    BY IInvParts
  <1>1. lk[t] \in Locks /\ LockOK("downgrade_release", lk[t])
    BY <1>0, ThreadTypes DEF DowngradeRelease
  <1>2. PICK v \in Workqs : v = lk[t].wq
    BY <1>1, JobAssumption DEF LockOK, OwnLabels
  <1>3. lk[t].lck = "BOTH" /\ lk[t].own
    BY <1>1 DEF LockOK, OwnLabels
  <1>4. DataOK'
    BY <1>0, <1>2 DEF DataOK, DowngradeRelease, RunqsOK, jobVars, queueVars
  <1> SUFFICES ThreadsOK'
    BY <1>4, IInvParts_
  <1> DEFINE l == [lk[t] EXCEPT !.lck = "PARALLEL"]
  <1>5. /\ Locked(t, l) /\ m_state' = m_state
        /\ m_run_single' = [m_run_single EXCEPT ![v] = FALSE]
        /\ m_run_single \in [Workqs -> BOOLEAN]
    BY <1>0, <1>2 DEF DowngradeRelease, jobVars, DataOK
  <1>6. /\ l \in Locks /\ l.lck = "PARALLEL" /\ l.own = lk[t].own
        /\ l.job = lk[t].job /\ FrameOK(l)
    BY <1>1 DEF Locks, LockOK, FrameOK, OwnLabels, LinkLabels, IdleLabels
  <1> HIDE DEF l
  <1>7. CASE Goto(t, "relink_wq", l) /\ UNCHANGED stack
    <2>1. LockOK("relink_wq", l) /\ "relink_wq" \in Labels
      BY <1>6, OwnedLock DEF Labels
    <2> QED
      BY <1>0, <1>2, <1>3, <1>5, <1>6, <1>7, <2>1, ReleaseStep DEF Singles
  <1>8. CASE Run(t, l)
    BY <1>0, <1>2, <1>3, <1>5, <1>6, <1>8, ReleasePushStep DEF Singles
  <1> QED BY <1>5, <1>7, <1>8 DEF Locked

(* workq::unlock_run                                                       *)
LEMMA UnlockRunStep ==
    ASSUME ThreadsOK, DataOK, NEW t \in Threads, NEW lab \in Labels,
           NEW l \in Locks, Goto(t, lab, l), LockOK(lab, l), stack' = stack,
           UnlockRun(lk[t].wq, lk[t].lck), m_state' = m_state,
           lk[t].wq \in Workqs, ~lk[t].own, l.lck = "NONE", ~l.own
    PROVE  /\ ThreadsOK'
           /\ m_run_single' \in [Workqs -> BOOLEAN]
           /\ m_run_parallel' \in [Workqs -> Int]
  <1>0. PICK v : v = lk[t].wq
    OBVIOUS
  <1>1. /\ v \in Workqs /\ m_run_single \in [Workqs -> BOOLEAN]
        /\ m_run_parallel \in [Workqs -> Int]
    BY <1>0 DEF DataOK
  <1>2. CASE /\ lk[t].lck = "SINGLE"
             /\ m_run_single' = [m_run_single EXCEPT ![v] = FALSE]
             /\ UNCHANGED m_run_parallel
    <2>1. ThreadsOK'
      BY <1>0, <1>1, <1>2, ReleaseStep DEF Singles
    <2> QED BY <1>1, <1>2, <2>1
  <1>3. CASE /\ lk[t].lck = "PARALLEL"
             /\ m_run_parallel' = [m_run_parallel EXCEPT ![v] = @ - 1]
             /\ UNCHANGED m_run_single
    <2>1. \A i \in Jobs : IsRunning(i)' <=> IsRunning(i)
      BY DEF IsRunning
    <2>2. ThreadsOK'
      BY <1>3, <2>1, FreeStep DEF Singles
    <2> QED BY <1>1, <1>3, <2>2
  <1> QED BY <1>0, <1>2, <1>3 DEF UnlockRun

(* A search that found nothing releases the workq.                         *)
LEMMA UnlockFailedInv ==
    ASSUME IInv, NEW t \in Threads, UnlockFailed(t)
    PROVE  IInv'
  <1>0. ThreadsOK /\ DataOK
    BY IInvParts
  <1>1. lk[t] \in Locks /\ LockOK("unlock_failed", lk[t])
    BY <1>0, ThreadTypes DEF UnlockFailed
  <1>2. lk[t].wq \in Workqs /\ ~lk[t].own
    BY <1>1 DEF LockOK, OwnLabels
  <1>3. /\ UnlockRun(lk[t].wq, lk[t].lck) /\ stack' = stack
        /\ m_state' = m_state
        /\ UNCHANGED <<jobVars, queueVars, awaited>>
        /\ {"lock_wq", "erase_wq"} \subseteq Labels
    BY DEF UnlockFailed, jobVars, Labels
  <1> DEFINE l == [lk[t] EXCEPT !.lck = "NONE", !.retest = FALSE]
  <1>4. /\ l \in Locks /\ l.lck = "NONE" /\ ~l.own
        /\ LockOK("lock_wq", l) /\ LockOK("erase_wq", l)
    BY <1>1 DEF Locks, LockOK, OwnLabels, LinkLabels, IdleLabels
  <1>5. Goto(t, "lock_wq", l) \/ Goto(t, "erase_wq", l) \/ Goto(t, "body", NoLock)
    BY DEF UnlockFailed, Return
  <1> HIDE DEF l
  <1>6. ThreadsOK' /\ m_run_single' \in [Workqs -> BOOLEAN]
        /\ m_run_parallel' \in [Workqs -> Int]
    BY <1>0, <1>2, <1>3, <1>4, <1>5, UnlockRunStep, NoLockOK
  <1>7. DataOK'
    BY <1>0, <1>3, <1>6 DEF DataOK, RunqsOK, jobVars, queueVars
  <1> QED BY <1>6, <1>7, IInvParts_

(* The service takes the workq off its runq before the retest.             *)
LEMMA EraseWorkqInv ==
    ASSUME IInv, NEW t \in Threads, EraseWorkq(t)
    PROVE  IInv'
  <1>0. ThreadsOK /\ DataOK
    BY IInvParts
  <1>1. lk[t] \in Locks /\ LockOK("erase_wq", lk[t])
    BY <1>0, ThreadTypes DEF EraseWorkq
  <1>2. DataOK'
    BY <1>0 DEF DataOK, EraseWorkq, RunqsOK, jobVars, lockVars
  <1> SUFFICES ThreadsOK'
    BY <1>2, IInvParts_
  <1> DEFINE l == [lk[t] EXCEPT !.retest = TRUE]
  <1>3. /\ Goto(t, "lock_wq", l) /\ "lock_wq" \in Labels
        /\ stack' = stack /\ m_run_single' = m_run_single /\ m_state' = m_state
    BY DEF EraseWorkq, Labels, jobVars, lockVars
  <1>4. l \in Locks /\ Kept(l, lk[t]) /\ LockOK("lock_wq", l)
    BY <1>1 DEF Locks, Kept, LockOK, OwnLabels, LinkLabels, IdleLabels
  <1> HIDE DEF l
  <1> QED BY <1>0, <1>3, <1>4, SameLockStep

(* ... and puts it back when the retest finds a job.                       *)
LEMMA RelinkWorkqInv ==
    ASSUME IInv, NEW t \in Threads, RelinkWorkq(t)
    PROVE  IInv'
  <1>0. ThreadsOK /\ DataOK
    BY IInvParts
  <1>1. lk[t] \in Locks /\ LockOK("relink_wq", lk[t])
    BY <1>0, ThreadTypes DEF RelinkWorkq
  <1>2. FrameOK(lk[t]) /\ lk[t].wq \in Workqs
    BY <1>1, OwnedFrame, JobAssumption DEF FrameOK
  <1>3. DataOK'
    BY <1>0, <1>2 DEF DataOK, RelinkWorkq, RunqsOK, jobVars, lockVars
  <1> SUFFICES ThreadsOK'
    BY <1>3, IInvParts_
  <1>4. Run(t, lk[t]) /\ m_run_single' = m_run_single /\ m_state' = m_state
    BY DEF RelinkWorkq, jobVars, lockVars
  <1> QED BY <1>0, <1>1, <1>2, <1>4, PushStep

(* A job returns: its lock moves back from the stack to the thread.        *)
LEMMA JobReturnsInv ==
    ASSUME IInv, NEW t \in Threads, JobReturns(t)
    PROVE  IInv'
  <1>0. ThreadsOK /\ DataOK
    BY IInvParts
  <1>1. DataOK'
    BY <1>0 DEF DataOK, JobReturns, RunqsOK, queueVars, lockVars, jobVars
  <1> SUFFICES ThreadsOK'
    BY <1>1, IInvParts_
  <1>2. stack[t] \in Seq(Locks) /\ stack[t] # << >>
    BY <1>0, ThreadTypes DEF JobReturns
  <1>3. /\ Front(stack[t]) \in Seq(Locks) /\ Last(stack[t]) \in Locks
        /\ Len(Front(stack[t])) = Len(stack[t]) - 1
        /\ \A i \in 1 .. Len(stack[t]) - 1 : Front(stack[t])[i] = stack[t][i]
        /\ Len(stack[t]) \in Nat \ {0}
        /\ Last(stack[t]) = stack[t][Len(stack[t])]
    BY <1>2, FrontLast DEF Last
  <1>4. /\ pc' = [pc EXCEPT ![t] = "unlock_job"]
        /\ lk' = [lk EXCEPT ![t] = Last(stack[t])]
        /\ stack' = [stack EXCEPT ![t] = Front(@)]
        /\ m_run_single' = m_run_single /\ m_state' = m_state
        /\ "unlock_job" \in Labels
    BY DEF JobReturns, Goto, lockVars, jobVars, Labels
  <1>5. lk[t].lck = "NONE" /\ ~lk[t].own
    BY <1>0, IdleLock DEF JobReturns, IdleLabels
  <1>6. pc' \in [Threads -> Labels] /\ LocksType'
    BY <1>0, <1>3, <1>4 DEF ThreadsOK, LocksType
  <1>7. FrameOK(Last(stack[t]))
    BY <1>0, <1>3 DEF ThreadsOK, ControlOK
  <1>8. ControlOK'
    <2>1. \A u \in Threads : LockOK(pc'[u], lk'[u])
      <3> SUFFICES ASSUME NEW u \in Threads
                   PROVE  LockOK(pc'[u], lk'[u])
        OBVIOUS
      <3>1. CASE u = t
        <4>1. pc'[u] = "unlock_job" /\ lk'[u] = Last(stack[t])
          BY <1>0, <1>4, <3>1 DEF ThreadsOK, LocksType
        <4> QED BY <1>7, <4>1, OwnedLock
      <3>2. CASE u # t
        <4>1. pc'[u] = pc[u] /\ lk'[u] = lk[u]
          BY <1>0, <1>4, <3>2 DEF ThreadsOK, LocksType
        <4> QED BY <1>0, <4>1 DEF ThreadsOK, ControlOK
      <3> QED BY <3>1, <3>2
    <2>2. \A u \in Threads : \A k \in 1 .. Len(stack'[u]) :
              FrameOK(stack'[u][k])
      <3> SUFFICES ASSUME NEW u \in Threads, NEW k \in 1 .. Len(stack'[u])
                   PROVE  FrameOK(stack'[u][k])
        OBVIOUS
      <3>1. CASE u = t
        <4>1. stack'[u] = Front(stack[t])
          BY <1>0, <1>4, <3>1 DEF ThreadsOK, LocksType
        <4>2. k \in 1 .. Len(stack[t]) /\ stack'[u][k] = stack[t][k]
          BY <1>3, <4>1
        <4> QED BY <1>0, <4>2 DEF ThreadsOK, ControlOK
      <3>2. CASE u # t
        <4>1. stack'[u] = stack[u]
          BY <1>0, <1>4, <3>2 DEF ThreadsOK, LocksType
        <4> QED BY <1>0, <4>1 DEF ThreadsOK, ControlOK
      <3> QED BY <3>1, <3>2
    <2> QED BY <2>1, <2>2 DEF ControlOK
  <1>9. SingleHeld'
    BY <1>0, <1>2, <1>4, <1>5, SinglePopped DEF ThreadsOK
  <1>10. RunLockOwned'
    BY <1>0, <1>2, <1>4, <1>5, OwnerPopped DEF ThreadsOK
  <1> QED BY <1>6, <1>8, <1>9, <1>10 DEF ThreadsOK

(* The fetch_and of unlock_run releases the job.                           *)
LEMMA UnlockJobInv ==
    ASSUME IInv, NEW t \in Threads, UnlockJob(t)
    PROVE  IInv'
  <1>0. ThreadsOK /\ DataOK
    BY IInvParts
  <1>1. lk[t] \in Locks /\ LockOK("unlock_job", lk[t])
    BY <1>0, ThreadTypes DEF UnlockJob
  <1>2. PICK i \in Jobs : i = lk[t].job
    BY <1>1 DEF LockOK, OwnLabels
  <1>3. /\ lk[t].own /\ lk[t].lck \in {"SINGLE", "PARALLEL"}
        /\ lk[t].wq = WorkqOf[i] /\ lk[t].wq \in Workqs
        /\ lk[t].by # "none"
        /\ lk[t].by \in {"workq", "service"} => lk[t].left # 0
    BY <1>1, <1>2, JobAssumption DEF LockOK, OwnLabels, IdleLabels
  <1> DEFINE l == [lk[t] EXCEPT !.own = FALSE, !.ret = "unlock_wq"]
  <1>4. /\ l \in Locks /\ ~l.own /\ l.ret = "unlock_wq" /\ l.job = i
        /\ l.lck = lk[t].lck /\ l.wq = lk[t].wq
        /\ l.by = lk[t].by /\ l.left = lk[t].left
    BY <1>1, <1>2 DEF Locks
  <1>5. /\ m_state' = [m_state EXCEPT ![i] = @ \ {"RUNNING"}]
        /\ JobToRunq(t, l) \/ Goto(t, "unlock_wq", l)
        /\ stack' = stack /\ m_run_single' = m_run_single
    BY <1>2 DEF UnlockJob, lockVars
  <1>6. DataOK'
    <2>1. /\ awaited' \in [Threads -> BOOLEAN]
          /\ UNCHANGED <<m_run_gen, queueVars, lockVars>>
      BY <1>0 DEF UnlockJob, DataOK
    <2> QED
      BY <1>0, <1>5, <2>1 DEF DataOK, RunqsOK, queueVars, lockVars
  <1> SUFFICES ThreadsOK'
    BY <1>6, IInvParts_
  <1> HIDE DEF l
  <1>7. /\ ~IsRunning(i)'
        /\ \A j \in Jobs \ {i} : IsRunning(j)' <=> IsRunning(j)
    BY <1>0, <1>5 DEF IsRunning, DataOK
  <1>8. CASE JobToRunq(t, l)
    <2> DEFINE m == [l EXCEPT !.linked = FALSE]
    <2> DEFINE lab == IF IsParallel(i) THEN "link_p_runq" ELSE "link_runq"
    <2>1. Goto(t, lab, m) /\ lab \in Labels
      BY <1>4, <1>8 DEF JobToRunq, Labels
    <2>2. /\ m \in Locks /\ ~m.own /\ m.lck = lk[t].lck /\ m.wq = lk[t].wq
          /\ LockOK(lab, m)
      BY <1>3, <1>4 DEF Locks, LockOK, OwnLabels, LinkLabels, IdleLabels
    <2> HIDE DEF m, lab
    <2> QED BY <1>0, <1>2, <1>3, <1>5, <1>7, <2>1, <2>2, JobUnlockedStep
  <1>9. CASE Goto(t, "unlock_wq", l)
    <2>1. LockOK("unlock_wq", l) /\ "unlock_wq" \in Labels
      BY <1>3, <1>4 DEF LockOK, OwnLabels, LinkLabels, IdleLabels, Labels
    <2> QED BY <1>0, <1>2, <1>3, <1>4, <1>5, <1>7, <1>9, <2>1, JobUnlockedStep
  <1> QED BY <1>5, <1>8, <1>9

(* The workq is released after its job; aid() goes on to the next one.     *)
LEMMA UnlockWorkqInv ==
    ASSUME IInv, NEW t \in Threads, UnlockWorkq(t)
    PROVE  IInv'
  <1>0. ThreadsOK /\ DataOK
    BY IInvParts
  <1>1. lk[t] \in Locks /\ LockOK("unlock_wq", lk[t])
    BY <1>0, ThreadTypes DEF UnlockWorkq
  <1>2. /\ lk[t].wq \in Workqs /\ ~lk[t].own /\ lk[t].by # "none"
        /\ lk[t].by \in {"workq", "service"} => lk[t].left # 0
        /\ lk[t].left \in Nat
        /\ lk[t].by \in {"none", "activate", "workq", "service"}
    BY <1>1 DEF LockOK, OwnLabels, IdleLabels, Locks
  <1>3. PICK n : n = lk[t].left - 1
    OBVIOUS
  <1>4. PICK w \in Workqs : w = lk[t].wq
    BY <1>2
  <1> DEFINE a == [NoLock EXCEPT !.wq = w, !.by = "workq", !.left = n]
  <1> DEFINE b == [NoLock EXCEPT !.by = "service", !.left = n]
  <1>5. \/ Return(t)
        \/ /\ n \in Nat \ {0}
           /\ Goto(t, "lock_wq", a) \/ Goto(t, "pick_wq", b)
    <2>1. CASE lk[t].by = "activate" \/ lk[t].left = 1
      BY <2>1 DEF UnlockWorkq
    <2>2. CASE ~(lk[t].by = "activate" \/ lk[t].left = 1)
      <3>1. n \in Nat \ {0}
        BY <1>2, <1>3, <2>2
      <3>2. Goto(t, "lock_wq", a) \/ Goto(t, "pick_wq", b)
        BY <1>3, <1>4, <2>2 DEF UnlockWorkq
      <3> QED BY <3>1, <3>2
    <2> QED BY <2>1, <2>2
  <1>6. n \in Nat \ {0} =>
            /\ a \in Locks /\ a.lck = "NONE" /\ ~a.own /\ LockOK("lock_wq", a)
            /\ b \in Locks /\ b.lck = "NONE" /\ ~b.own /\ LockOK("pick_wq", b)
    BY NoLockOK DEF Locks, LockOK, OwnLabels, LinkLabels, IdleLabels
  <1>7. /\ UnlockRun(lk[t].wq, lk[t].lck) /\ stack' = stack
        /\ m_state' = m_state /\ {"lock_wq", "pick_wq"} \subseteq Labels
        /\ UNCHANGED <<jobVars, queueVars, awaited>>
    BY DEF UnlockWorkq, jobVars, Labels
  <1> HIDE DEF a, b
  <1>8. ThreadsOK' /\ m_run_single' \in [Workqs -> BOOLEAN]
        /\ m_run_parallel' \in [Workqs -> Int]
    BY <1>0, <1>2, <1>5, <1>6, <1>7, UnlockRunStep, NoLockOK DEF Return
  <1>9. DataOK'
    BY <1>0, <1>7, <1>8 DEF DataOK, RunqsOK, jobVars, queueVars
  <1> QED BY <1>8, <1>9, IInvParts_

-----------------------------------------------------------------------------
(* The invariant, and what follows from it.                                *)

(* Initially nobody holds anything.                                        *)
LEMMA InitIInv == Init => IInv
  <1> SUFFICES ASSUME Init PROVE IInv
    OBVIOUS
  <1>1. /\ \A t \in Threads : pc[t] = "body" /\ lk[t] = NoLock
        /\ \A t \in Threads : stack[t] = << >> /\ Len(stack[t]) = 0
        /\ NoLock.wq = None
    BY DEF Init, NoLock
  <1>2. \A t \in Threads : Depths(t) = {0} /\ LockAt(t, 0) = NoLock
    BY <1>1 DEF Depths, LockAt
  <1>3. LocksType /\ pc \in [Threads -> Labels]
    BY NoLockOK DEF Init, LocksType
  <1>4. ControlOK
    BY <1>1, NoLockOK DEF ControlOK
  <1>5. SingleHeld
    BY <1>2, NoLockOK DEF SingleHeld, HoldsSingle, Init
  <1>6. RunLockOwned
    BY <1>2, NoLockOK DEF RunLockOwned, Owns, Init
  <1>7. DataOK
    BY BoundAssumption DEF DataOK, Init, RunqsOK, StateBits, ToSet
  <1> QED
    BY <1>3, <1>4, <1>5, <1>6, <1>7, IInvParts DEF ThreadsOK

(* A stuttering step keeps the invariant.                                  *)
LEMMA StutterIInv ==
    ASSUME IInv, UNCHANGED vars
    PROVE  IInv'
  <1>1. /\ m_state' = m_state /\ m_run_gen' = m_run_gen
        /\ m_runq' = m_runq /\ m_p_runq' = m_p_runq
        /\ m_wq_runq' = m_wq_runq /\ m_run_single' = m_run_single
        /\ m_run_parallel' = m_run_parallel /\ pc' = pc /\ lk' = lk
        /\ stack' = stack /\ awaited' = awaited
    BY DEF vars, jobVars, queueVars, lockVars
  <1>2. Typed'
    BY <1>1 DEF IInv, Typed
  <1>3. ControlOK'
    BY <1>1 DEF IInv, ControlOK
  <1>4. RunqsOK'
    BY <1>1 DEF IInv, RunqsOK
  <1>5. \A t \in Threads :
            /\ Depths(t)' = Depths(t)
            /\ \A k : LockAt(t, k)' = LockAt(t, k)
    BY <1>1 DEF Depths, LockAt
  <1>6. SingleHeld'
    BY <1>1, <1>5 DEF IInv, SingleHeld, HoldsSingle
  <1>7. RunLockOwned'
    BY <1>1, <1>5 DEF IInv, RunLockOwned, Owns
  <1> QED BY <1>2, <1>3, <1>4, <1>6, <1>7 DEF IInv

(* Every step of every thread keeps the invariant.                         *)
LEMMA NextIInv == IInv /\ [Next]_vars => IInv'
  <1> SUFFICES ASSUME IInv, [Next]_vars PROVE IInv'
    OBVIOUS
  <1>1. CASE UNCHANGED vars
    BY <1>1, StutterIInv
  <1>2. ASSUME NEW t \in Threads, Call(t) PROVE IInv'
    BY <1>2, ActivateInv, DeactivateInv, AidWorkqInv, AidServiceInv DEF Call
  <1>3. ASSUME NEW t \in Threads, Step(t) PROVE IInv'
    BY <1>3, LinkParallelRunqInv, LinkRunqInv, LinkWorkqInv,
       DeactivateClearInv, DeactivateWaitInv, PickWorkqInv, LockWorkqInv,
       LockImmedInv, PopFrontInv, LockJobInv, CountRunInv, EraseRunqInv,
       EraseParallelRunqInv, DowngradeInv, DowngradeReleaseInv,
       UnlockFailedInv, EraseWorkqInv, RelinkWorkqInv, JobReturnsInv,
       UnlockJobInv, UnlockWorkqInv DEF Step
  <1> QED BY <1>1, <1>2, <1>3 DEF Next

(* The inductive invariant holds in every reachable state.                 *)
THEOREM Invariant == Spec => []IInv
  <1> QED BY InitIInv, NextIInv, PTL DEF Spec

(* The RUNNING bit of a job is always the property of exactly one          *)
(* wq_run_lock, however calls, interrupted by other threads, nest.         *)
THEOREM RunLockOwner == Spec => []RunLockOwned
  <1>1. IInv => RunLockOwned
    BY DEF IInv
  <1> QED BY <1>1, Invariant, PTL

(* Run-single of a workq always has one holder, or none when it is clear.  *)
THEOREM RunSingleHolder == Spec => []SingleHeld
  <1>1. IInv => SingleHeld
    BY DEF IInv
  <1> QED BY <1>1, Invariant, PTL

(* Who runs a job that is not parallel holds run-single of its workq.      *)
LEMMA OwnerHoldsSingle ==
    ASSUME IInv, NEW j \in Jobs, ~IsParallel(j),
           NEW t \in Threads, NEW k \in Depths(t), Owns(t, k, j)
    PROVE  HoldsSingle(t, k, WorkqOf[j])
  <1>1. CASE k = 0
    <2>1. lk[t].own /\ lk[t].job = j /\ LockOK(pc[t], lk[t])
      BY <1>1 DEF Owns, LockAt, IInv, ControlOK
    <2>2. /\ pc[t] \in OwnLabels /\ lk[t].wq = WorkqOf[j]
          /\ pc[t] \notin {"erase_p_runq", "downgrade", "downgrade_release"}
          /\ lk[t].lck # "PARALLEL"
      BY <2>1 DEF LockOK
    <2>3. lk[t].lck = "SINGLE"
      BY <2>1, <2>2 DEF LockOK, OwnLabels
    <2> QED BY <1>1, <2>2, <2>3 DEF HoldsSingle, LockAt
  <1>2. CASE k # 0
    <2>1. k \in 1 .. Len(stack[t])
      <3>1. Len(stack[t]) \in Nat
        <4>1. stack[t] \in Seq(Locks)
          BY DEF IInv, Typed
        <4> QED BY <4>1, LenProperties
      <3> QED BY <1>2, <3>1 DEF Depths
    <2>2. LockAt(t, k) = stack[t][k] /\ FrameOK(stack[t][k])
      BY <1>2, <2>1 DEF LockAt, IInv, ControlOK
    <2> QED BY <2>2 DEF Owns, HoldsSingle, FrameOK
  <1> QED BY <1>1, <1>2

(* Two jobs of one workq never run at the same time unless one of them is  *)
(* parallel: both would hold run-single, in the same place, and so be one  *)
(* job.                                                                    *)
THEOREM MutualExclusion == Spec => []JobExclusion
  <1>1. IInv => JobExclusion
    <2> SUFFICES ASSUME IInv, NEW i \in Jobs, NEW j \in Jobs,
                        WorkqOf[i] = WorkqOf[j],
                        ~IsParallel(i), ~IsParallel(j),
                        "RUNNING" \in m_state[i], "RUNNING" \in m_state[j]
                 PROVE  i = j
      BY DEF JobExclusion
    <2>1. PICK t \in Threads : \E k \in Depths(t) : Owns(t, k, i)
      BY DEF IInv, RunLockOwned
    <2>2. PICK k \in Depths(t) : Owns(t, k, i)
      BY <2>1
    <2>3. PICK u \in Threads : \E m \in Depths(u) : Owns(u, m, j)
      BY DEF IInv, RunLockOwned
    <2>4. PICK m \in Depths(u) : Owns(u, m, j)
      BY <2>3
    <2>5. /\ HoldsSingle(t, k, WorkqOf[i]) /\ HoldsSingle(u, m, WorkqOf[i])
          /\ WorkqOf[i] \in Workqs
      BY <2>2, <2>4, OwnerHoldsSingle, JobAssumption
    <2>6. t = u /\ k = m
      BY <2>5 DEF IInv, SingleHeld
    <2> QED BY <2>2, <2>4, <2>6 DEF Owns
  <1> QED BY <1>1, Invariant, PTL

-----------------------------------------------------------------------------
(* The run queue implements WorkqContract.                                 *)

(* An update of a function to the Booleans, point by point.                *)
LEMMA FlagUpdate ==
    ASSUME NEW S, NEW f \in [S -> BOOLEAN], NEW g \in [S -> BOOLEAN],
           NEW j \in S, NEW b \in BOOLEAN,
           \A i \in S : g[i] <=> IF i = j THEN b ELSE f[i]
    PROVE  g = [f EXCEPT ![j] = b]
  OBVIOUS

(* The abstract state after an update of one bit of the concrete one.      *)
LEMMA BitUpdate ==
    ASSUME NEW bit, NEW j \in Jobs, NEW b \in BOOLEAN,
           \A i \in Jobs : bit \in m_state'[i]
                <=> IF i = j THEN b ELSE bit \in m_state[i]
    PROVE  [i \in Jobs |-> bit \in m_state'[i]]
              = [[i \in Jobs |-> bit \in m_state[i]] EXCEPT ![j] = b]
  <1>1. PICK f : f = [i \in Jobs |-> bit \in m_state[i]]
    OBVIOUS
  <1>2. PICK g : g = [i \in Jobs |-> bit \in m_state'[i]]
    OBVIOUS
  <1>3. f \in [Jobs -> BOOLEAN] /\ g \in [Jobs -> BOOLEAN]
    BY <1>1, <1>2
  <1>4. \A i \in Jobs : f[i] <=> bit \in m_state[i]
    BY <1>1
  <1>5. \A i \in Jobs : g[i] <=> bit \in m_state'[i]
    BY <1>2
  <1>6. \A i \in Jobs : g[i] <=> IF i = j THEN b ELSE f[i]
    BY <1>4, <1>5
  <1>7. g = [f EXCEPT ![j] = b]
    BY <1>3, <1>6, FlagUpdate
  <1> QED BY <1>1, <1>2, <1>7

(* ... and when the bit stays as it was.                                   *)
LEMMA BitKept ==
    ASSUME NEW bit,
           \A i \in Jobs : bit \in m_state'[i] <=> bit \in m_state[i]
    PROVE  [i \in Jobs |-> bit \in m_state'[i]]
              = [i \in Jobs |-> bit \in m_state[i]]
  OBVIOUS

(* A step that leaves m_state alone is a stutter of the contract.          *)
LEMMA ContractStutter ==
    ASSUME m_state' = m_state
    PROVE  UNCHANGED Contract!contractVars
  BY DEF Contract!contractVars

(* While a thread tries to lock a job that is not parallel, no such job of *)
(* the same workq runs.                                                    *)
LEMMA LockJobExcludes ==
    ASSUME IInv, NEW t \in Threads, pc[t] = "lock_job",
           NEW j \in Jobs, j = lk[t].job, NEW i \in Jobs,
           Contract!Excludes(i, j)
    PROVE  "RUNNING" \notin m_state[i]
  <1> SUFFICES ASSUME "RUNNING" \in m_state[i] PROVE FALSE
    OBVIOUS
  <1>1. /\ WorkqOf[i] = WorkqOf[j] /\ ~IsParallel(i) /\ ~IsParallel(j)
        /\ WorkqOf[i] \in Workqs
    BY JobAssumption DEF Contract!Excludes, IsParallel
  <1>2. LockOK("lock_job", lk[t])
    BY DEF IInv, ControlOK
  <1>3. lk[t].lck = "SINGLE" /\ lk[t].wq = WorkqOf[i] /\ ~lk[t].own
    BY <1>1, <1>2 DEF LockOK, OwnLabels
  <1>4. 0 \in Depths(t) /\ LockAt(t, 0) = lk[t]
    <2>1. Len(stack[t]) \in Nat
      <3>1. stack[t] \in Seq(Locks)
        BY DEF IInv, Typed
      <3> QED BY <3>1, LenProperties
    <2> QED BY <2>1 DEF Depths, LockAt
  <1>5. PICK u \in Threads : \E m \in Depths(u) : Owns(u, m, i)
    BY DEF IInv, RunLockOwned
  <1>6. PICK m \in Depths(u) : Owns(u, m, i)
    BY <1>5
  <1>7. HoldsSingle(u, m, WorkqOf[i]) /\ HoldsSingle(t, 0, WorkqOf[i])
    BY <1>1, <1>3, <1>4, <1>6, OwnerHoldsSingle DEF HoldsSingle
  <1>8. u = t /\ m = 0
    BY <1>1, <1>4, <1>7 DEF IInv, SingleHeld
  <1> QED BY <1>3, <1>4, <1>6, <1>8 DEF Owns

(* Four actions change m_state; each is one action of the contract.        *)
LEMMA ContractStep ==
    IInv /\ [Next]_vars => [Contract!Next]_(Contract!contractVars)
  <1> SUFFICES ASSUME IInv, [Next]_vars
               PROVE  [Contract!Next]_(Contract!contractVars)
    OBVIOUS
  <1>0. m_state \in [Jobs -> SUBSET StateBits]
    BY DEF IInv, Typed
  <1>1. CASE UNCHANGED vars
    BY <1>1, ContractStutter DEF vars, jobVars
  <1>2. ASSUME NEW t \in Threads, NEW j \in Jobs, NEW immed \in BOOLEAN,
               Activate(t, j, immed)
        PROVE  Contract!Activate(j)
    <2>1. m_state' = [m_state EXCEPT ![j] = @ \cup {"ACTIVE"}]
      BY <1>2 DEF Activate
    <2>2. \A i \in Jobs : "ACTIVE" \in m_state'[i]
              <=> IF i = j THEN TRUE ELSE "ACTIVE" \in m_state[i]
      BY <1>0, <2>1
    <2>3. \A i \in Jobs : "RUNNING" \in m_state'[i] <=> "RUNNING" \in m_state[i]
      BY <1>0, <2>1
    <2> QED BY <2>2, <2>3, BitUpdate, BitKept DEF Contract!Activate
  <1>3. ASSUME NEW t \in Threads, DeactivateClear(t)
        PROVE  \E j \in Jobs : Contract!Deactivate(j)
    <2>1. LockOK("deactivate", lk[t])
      BY <1>3 DEF IInv, ControlOK, DeactivateClear
    <2>2. PICK j \in Jobs : j = lk[t].job
      BY <2>1 DEF LockOK
    <2>3. m_state' = [m_state EXCEPT ![j] = @ \ {"ACTIVE"}]
      BY <1>3, <2>2 DEF DeactivateClear
    <2>4. \A i \in Jobs : "ACTIVE" \in m_state'[i]
              <=> IF i = j THEN FALSE ELSE "ACTIVE" \in m_state[i]
      BY <1>0, <2>3
    <2>5. \A i \in Jobs : "RUNNING" \in m_state'[i] <=> "RUNNING" \in m_state[i]
      BY <1>0, <2>3
    <2>6. Contract!Deactivate(j)
      BY <2>4, <2>5, BitUpdate, BitKept DEF Contract!Deactivate
    <2> QED BY <2>6
  <1>4. ASSUME NEW t \in Threads, LockJob(t)
        PROVE  [Contract!Next]_(Contract!contractVars)
    <2>1. pc[t] = "lock_job" /\ LockOK("lock_job", lk[t])
      BY <1>4 DEF IInv, ControlOK, LockJob
    <2>2. PICK j \in Jobs : j = lk[t].job
      BY <2>1 DEF LockOK
    <2>3. CASE Runnable(j)
      <3>1. /\ "ACTIVE" \in m_state[j] /\ "RUNNING" \notin m_state[j]
            /\ m_state' = [m_state EXCEPT ![j] = (@ \cup {"RUNNING"}) \
                    (IF "PERSIST" \in TypeOf[j] THEN {} ELSE {"ACTIVE"})]
        BY <1>4, <2>2, <2>3 DEF LockJob, Runnable
      <3>2. \A i \in Jobs : Contract!Excludes(i, j) => "RUNNING" \notin m_state[i]
        BY <2>1, <2>2, LockJobExcludes
      <3>3. \A i \in Jobs : "ACTIVE" \in m_state'[i]
                <=> IF i = j THEN "PERSIST" \in TypeOf[j]
                             ELSE "ACTIVE" \in m_state[i]
        BY <1>0, <3>1
      <3>4. \A i \in Jobs : "RUNNING" \in m_state'[i]
                <=> IF i = j THEN TRUE ELSE "RUNNING" \in m_state[i]
        BY <1>0, <3>1
      <3>5. /\ [i \in Jobs |-> "ACTIVE" \in m_state'[i]]
                  = [[i \in Jobs |-> "ACTIVE" \in m_state[i]]
                       EXCEPT ![j] = "PERSIST" \in TypeOf[j]]
            /\ [i \in Jobs |-> "RUNNING" \in m_state'[i]]
                  = [[i \in Jobs |-> "RUNNING" \in m_state[i]]
                       EXCEPT ![j] = TRUE]
        <4>1. [i \in Jobs |-> "RUNNING" \in m_state'[i]]
                 = [[i \in Jobs |-> "RUNNING" \in m_state[i]] EXCEPT ![j] = TRUE]
          BY <3>4, BitUpdate
        <4>2. CASE "PERSIST" \in TypeOf[j]
          <5>1. \A i \in Jobs : "ACTIVE" \in m_state'[i]
                    <=> IF i = j THEN TRUE ELSE "ACTIVE" \in m_state[i]
            BY <3>3, <4>2
          <5>2. [i \in Jobs |-> "ACTIVE" \in m_state'[i]]
                   = [[i \in Jobs |-> "ACTIVE" \in m_state[i]]
                        EXCEPT ![j] = TRUE]
            BY <5>1, BitUpdate
          <5>3. ("PERSIST" \in TypeOf[j]) = TRUE
            BY <4>2
          <5> QED BY <4>1, <5>2, <5>3, Zenon
        <4>3. CASE "PERSIST" \notin TypeOf[j]
          <5>1. \A i \in Jobs : "ACTIVE" \in m_state'[i]
                    <=> IF i = j THEN FALSE ELSE "ACTIVE" \in m_state[i]
            BY <3>3, <4>3
          <5>2. [i \in Jobs |-> "ACTIVE" \in m_state'[i]]
                   = [[i \in Jobs |-> "ACTIVE" \in m_state[i]]
                        EXCEPT ![j] = FALSE]
            BY <5>1, BitUpdate
          <5>3. ("PERSIST" \in TypeOf[j]) = FALSE
            BY <4>3
          <5> QED BY <4>1, <5>2, <5>3, Zenon
        <4> QED BY <4>2, <4>3
      <3>6. [i \in Jobs |-> "ACTIVE" \in m_state[i]][j]
        BY <3>1
      <3>7. ~[i \in Jobs |-> "RUNNING" \in m_state[i]][j]
        BY <3>1
      <3>8. \A i \in Jobs : Contract!Excludes(i, j)
                => ~[k \in Jobs |-> "RUNNING" \in m_state[k]][i]
        BY <3>2
      <3>9. Contract!Start(j)
        BY <3>5, <3>6, <3>7, <3>8 DEF Contract!Start
      <3> QED BY <3>9 DEF Contract!Next
    <2>4. CASE ~Runnable(j)
      <3>1. m_state' = m_state
        BY <1>4, <2>2, <2>4 DEF LockJob
      <3> QED BY <3>1, ContractStutter
    <2> QED BY <2>3, <2>4
  <1>5. ASSUME NEW t \in Threads, UnlockJob(t)
        PROVE  \E j \in Jobs : Contract!Finish(j)
    <2>1. LockOK("unlock_job", lk[t]) /\ lk[t].own
      BY <1>5 DEF IInv, ControlOK, UnlockJob, LockOK, OwnLabels
    <2>2. PICK j \in Jobs : j = lk[t].job
      BY <2>1 DEF LockOK, OwnLabels
    <2>3. m_state' = [m_state EXCEPT ![j] = @ \ {"RUNNING"}]
      BY <1>5, <2>2 DEF UnlockJob
    <2>4. Owns(t, 0, j) /\ 0 \in Depths(t)
      <3>1. stack[t] \in Seq(Locks)
        BY DEF IInv, Typed
      <3> QED BY <2>1, <2>2, <3>1, LenProperties DEF Owns, LockAt, Depths
    <2>5. "RUNNING" \in m_state[j]
      BY <2>4 DEF IInv, RunLockOwned
    <2>6. \A i \in Jobs : "ACTIVE" \in m_state'[i] <=> "ACTIVE" \in m_state[i]
      BY <1>0, <2>3
    <2>7. \A i \in Jobs : "RUNNING" \in m_state'[i]
              <=> IF i = j THEN FALSE ELSE "RUNNING" \in m_state[i]
      BY <1>0, <2>3
    <2>8. Contract!Finish(j)
      BY <2>5, <2>6, <2>7, BitUpdate, BitKept DEF Contract!Finish
    <2> QED BY <2>8
  <1>6. ASSUME NEW t \in Threads, Call(t)
        PROVE  [Contract!Next]_(Contract!contractVars)
    <2>1. CASE \E j \in Jobs, immed \in BOOLEAN : Activate(t, j, immed)
      BY <1>2, <2>1 DEF Contract!Next
    <2>2. CASE m_state' = m_state
      BY <2>2, ContractStutter
    <2> QED
      BY <1>6, <2>1, <2>2 DEF Call, Deactivate, AidWorkq, AidService, jobVars
  <1>7. ASSUME NEW t \in Threads, Step(t)
        PROVE  [Contract!Next]_(Contract!contractVars)
    <2>1. CASE m_state' = m_state
      BY <2>1, ContractStutter
    <2>2. CASE DeactivateClear(t)
      BY <1>3, <2>2 DEF Contract!Next
    <2>3. CASE LockJob(t)
      BY <1>4, <2>3
    <2>4. CASE UnlockJob(t)
      BY <1>5, <2>4 DEF Contract!Next
    <2>5. \/ m_state' = m_state
          \/ DeactivateClear(t) \/ LockJob(t) \/ UnlockJob(t)
      BY <1>7
         DEF Step, LinkParallelRunq, LinkRunq, LinkWorkq, DeactivateWait,
             PickWorkq, LockWorkq, LockImmed, PopFront, CountRun, EraseRunq,
             EraseParallelRunq, Downgrade, DowngradeRelease, UnlockFailed,
             EraseWorkq, RelinkWorkq, JobReturns, UnlockWorkq, jobVars
    <2> QED BY <2>1, <2>2, <2>3, <2>4, <2>5
  <1> QED BY <1>1, <1>6, <1>7 DEF Next

(* The run queue implements the contract of workq.md: activations are      *)
(* served by runs that exclude each other as promised, and nothing runs    *)
(* that was not activated.                                                 *)
THEOREM Refinement == Spec => ImplementsContract
  <1>1. Init => Contract!Init
    <2> SUFFICES ASSUME Init PROVE Contract!Init
      OBVIOUS
    <2>1. \A j \in Jobs : m_state[j] = {}
      BY DEF Init
    <2>2. ASSUME NEW bit
          PROVE  [j \in Jobs |-> bit \in m_state[j]] = [j \in Jobs |-> FALSE]
      <3>1. \A j \in Jobs : (bit \in m_state[j]) = FALSE
        BY <2>1
      <3> QED BY <3>1, Zenon
    <2> QED BY <2>2 DEF Contract!Init
  <1> QED
    BY <1>1, Invariant, ContractStep, PTL
       DEF Spec, ImplementsContract, Contract!Spec
=============================================================================
