------------------------- MODULE Threadpool_proofs -------------------------
(***************************************************************************)
(* Proofs about Threadpool: the numbers of the pool agree with its         *)
(* workers, a worker that sleeps can be found, and the pool is not deleted *)
(* under its workers, for any number of workers and every script of calls. *)
(***************************************************************************)
EXTENDS Threadpool, FiniteSetTheorems, SequenceTheorems, TLAPS

-----------------------------------------------------------------------------
(* The inductive invariant.                                                *)

Idle == ToSet(m_idle)
Dead == ToSet(m_dead)

\* m_state and the lists agree with where the worker is.
WorkerOK(w) ==
    /\ (m_state[w] = "UNBORN") = (pc[w] = "unborn")
    /\ m_state[w] = "SLEEP" => w \in asleep
    /\ m_state[w] = "SLEEP_TEST" => pc[w] \in {"publish", "test", "lock"}
    /\ pc[w] = "exit" => m_state[w] = "DYING"
    /\ (m_state[w] \in {"DEAD", "DELETED"})
         = (pc[w] \in {"epilogue", "destroy", "ended"})
    /\ m_state[w] = "DELETED" => pc[w] = "ended"
    /\ w \in asleep =>
         pc[w] \in {"must_die", "die_busy", "die_asleep", "wait", "woken"}
    /\ pc[w] \in {"wait", "woken"} => w \in asleep
    /\ w \in Idle => w \in asleep \/ pc[w] \in {"test", "lock", "erase"}
    /\ w \in Dead => pc[w] = "ended" /\ m_state[w] = "DEAD"

\* A call of set_nthreads() has what its step needs.
CallOK(t) ==
    /\ setting[t].step = "cancel" => setting[t].old < setting[t].n
    /\ setting[t].step \in {"kill", "oversize"} => setting[t].old > setting[t].n
    /\ setting[t].step \in {"kill", "kill_notify"} =>
         setting[t].at \in Workers /\ m_state[setting[t].at] # "UNBORN"
    /\ setting[t].step = "assign" =>
         setting[t].at \in Workers /\ pc[setting[t].at] = "init"
    /\ setting[t].step # "none" => t = Owner \/ pc[t] = "job"
    /\ setting[t].step = "delete" => t = Owner
    /\ setting[t].step \in {"detach", "delete"} => setting[t].destroy
    /\ setting[t].step = "none" => ~setting[t].destroy

WakeOK(t) ==
    /\ waking[t].left = 0 => waking[t].step = "pop"
    /\ waking[t].step # "pop" => waking[t].at \in Workers

Typed ==
    /\ TypeOK
    /\ \A w \in Workers : WorkerOK(w)
    /\ \A t \in Callers : CallOK(t)
    /\ \A t \in Threads : WakeOK(t)

\* A worker that is held back is about to be let go, by one call.
Assigning(t, w) == setting[t].step = "assign" /\ setting[t].at = w
Assigned ==
    /\ \A w \in Workers : pc[w] = "init" => \E t \in Callers : Assigning(t, w)
    /\ \A w \in Workers : \A t, u \in Callers :
          Assigning(t, w) /\ Assigning(u, w) => t = u

\* A worker in a sleeping state is on the idle list, or in the hands of a
\* thread that will take it out of that state.
Findable(w) ==
    \/ w \in Idle
    \/ \E t \in Threads :
          /\ waking[t].at = w
          /\ \/ waking[t].step = "first"
             \/ waking[t].step = "second" /\ m_state[w] = "SLEEP"
    \/ \E t \in Callers : setting[t].at = w /\ setting[t].step = "kill"

\* A worker that waits in another state will be notified.
Notified(w) ==
    \/ \E t \in Threads : waking[t].at = w /\ waking[t].step = "notify"
    \/ \E t \in Callers : setting[t].at = w /\ setting[t].step = "kill_notify"

Reachable(w) ==
    /\ m_state[w] \in {"SLEEP_TEST", "SLEEP"} /\ pc[w] # "publish" =>
         Findable(w)
    /\ w \in asleep /\ m_state[w] # "SLEEP" /\ pc[w] # "woken" => Notified(w)
AllReachable == \A w \in Workers : Reachable(w)

\* Those that n_active counts.
Active == {w \in Workers : pc[w] \notin {"unborn", "init", "ended", "destroy"}}
Counted == ~lost => n_active = Cardinality(Active)

\* The pool is destroyed by one thread, and nobody uses it any longer.
DestroyedOnce ==
    /\ \A i \in 1 .. Len(script) : script[i].op = "destroy" => i = Len(script)
    /\ \A t \in Callers : setting[t].destroy =>
          /\ script = << >> /\ collect = {}
          /\ \A u \in Callers \ {t} : setting[u].step = "none"
    /\ collect # {} =>
          /\ script = << >>
          /\ \A t \in Callers : setting[t].step = "none"
          /\ \A c, d \in collect : c = d
    /\ \A w \in Workers : pc[w] = "destroy" => w \in collect

IInv ==
    /\ Typed /\ Assigned /\ AllReachable /\ WorkersAddUp /\ Counted
    /\ DestroyedOnce /\ PoolOutlivesWorkers

-----------------------------------------------------------------------------
(* The operations of the idle and of the dead list.                        *)

\* List r is list s without its element m.
TakenOut(r, s, m) ==
    /\ m \in 1 .. Len(s) /\ Len(r) = Len(s) - 1
    /\ \A k \in 1 .. Len(s) - 1 :
          /\ k < m => r[k] = s[k]
          /\ k >= m => r[k] = s[k + 1]

LEMMA OneTakenOut ==
    ASSUME NEW S, NEW s \in Seq(S), NEW r \in Seq(S), NEW m,
           IsInjective(s), TakenOut(r, s, m)
    PROVE  IsInjective(r) /\ ToSet(r) = ToSet(s) \ {s[m]}
  <1>1. /\ DOMAIN s = 1 .. Len(s) /\ Len(s) \in Nat
        /\ DOMAIN r = 1 .. Len(s) - 1 /\ m \in 1 .. Len(s)
    BY LenProperties DEF TakenOut
  <1> DEFINE Of(k) == IF k < m THEN k ELSE k + 1
  <1>2. \A k \in DOMAIN r : Of(k) \in DOMAIN s \ {m} /\ r[k] = s[Of(k)]
    BY <1>1 DEF TakenOut
  <1>3. \A j, k \in DOMAIN r : Of(j) = Of(k) => j = k
    BY <1>1
  <1>4. \A j \in DOMAIN s \ {m} : \E k \in DOMAIN r : Of(k) = j
    <2> SUFFICES ASSUME NEW j \in DOMAIN s \ {m}
                 PROVE  \E k \in DOMAIN r : Of(k) = j
      OBVIOUS
    <2>1. CASE j < m
      BY <1>1, <2>1
    <2>2. CASE j > m
      <3>1. j - 1 \in DOMAIN r /\ Of(j - 1) = j
        BY <1>1, <2>2
      <3> QED BY <3>1
    <2> QED BY <1>1, <2>1, <2>2
  <1> HIDE DEF Of
  <1>5. IsInjective(r)
    BY <1>2, <1>3 DEF IsInjective
  <1>6. ToSet(r) = ToSet(s) \ {s[m]}
    <2>1. \A k \in DOMAIN r : r[k] \in ToSet(s) \ {s[m]}
      BY <1>1, <1>2 DEF IsInjective, ToSet
    <2>2. \A j \in DOMAIN s : s[j] # s[m] => s[j] \in ToSet(r)
      BY <1>1, <1>2, <1>4 DEF ToSet
    <2> QED BY <2>1, <2>2 DEF ToSet
  <1> QED BY <1>5, <1>6

LEMMA HeadOff ==
    ASSUME NEW S, NEW s \in Seq(S), IsInjective(s), s # << >>
    PROVE  /\ Head(s) \in S /\ Head(s) \in ToSet(s)
           /\ Tail(s) \in Seq(S) /\ IsInjective(Tail(s))
           /\ ToSet(Tail(s)) = ToSet(s) \ {Head(s)}
  <1>1. /\ Head(s) = s[1] /\ Len(s) \in Nat \ {0} /\ Tail(s) \in Seq(S)
        /\ Len(Tail(s)) = Len(s) - 1
        /\ \A i \in 1 .. Len(s) - 1 : Tail(s)[i] = s[i + 1]
    BY HeadTailProperties, EmptySeq, LenProperties
  <1>2. TakenOut(Tail(s), s, 1)
    BY <1>1 DEF TakenOut
  <1>3. 1 \in DOMAIN s /\ s[1] \in S
    BY <1>1, LenProperties
  <1>4. IsInjective(Tail(s)) /\ ToSet(Tail(s)) = ToSet(s) \ {s[1]}
    <2> DEFINE r == Tail(s)
    <2>1. r \in Seq(S) /\ TakenOut(r, s, 1)
      BY <1>1, <1>2
    <2> HIDE DEF r
    <2>2. IsInjective(r) /\ ToSet(r) = ToSet(s) \ {s[1]}
      BY <2>1, OneTakenOut
    <2> QED BY <2>2 DEF r
  <1> QED BY <1>1, <1>3, <1>4 DEF ToSet

LEMMA LastOff ==
    ASSUME NEW S, NEW s \in Seq(S), IsInjective(s), s # << >>
    PROVE  /\ Last(s) \in S /\ Last(s) \in ToSet(s)
           /\ Front(s) \in Seq(S) /\ IsInjective(Front(s))
           /\ ToSet(Front(s)) = ToSet(s) \ {Last(s)}
  <1>1. Len(s) \in Nat \ {0}
    BY EmptySeq, LenProperties
  <1>2. /\ Front(s) \in Seq(S) /\ Len(Front(s)) = Len(s) - 1
        /\ \A i \in 1 .. Len(s) - 1 : Front(s)[i] = s[i]
    <2> DEFINE n == Len(s) - 1
    <2>1. n \in Nat /\ \A i \in 1 .. n : s[i] \in S
      BY <1>1, LenProperties
    <2> HIDE DEF n
    <2>2. /\ SubSeq(s, 1, n) \in Seq(S)
          /\ Len(SubSeq(s, 1, n)) = IF 1 <= n THEN n - 1 + 1 ELSE 0
          /\ \A i \in 1 .. n - 1 + 1 : SubSeq(s, 1, n)[i] = s[1 + i - 1]
      BY <2>1, SubSeqProperties
    <2>3. Len(SubSeq(s, 1, n)) = n
      BY <2>1, <2>2
    <2>4. ASSUME NEW i \in 1 .. n PROVE SubSeq(s, 1, n)[i] = s[i]
      <3>1. i \in 1 .. n - 1 + 1 /\ 1 + i - 1 = i
        BY <2>1
      <3> QED BY <2>2, <3>1
    <2> QED BY <2>2, <2>3, <2>4 DEF Front, n
  <1>3. /\ Last(s) = s[Len(s)] /\ Len(s) \in DOMAIN s /\ s[Len(s)] \in S
    BY <1>1, LenProperties DEF Last
  <1>4. TakenOut(Front(s), s, Len(s))
    BY <1>1, <1>2 DEF TakenOut
  <1>5. IsInjective(Front(s)) /\ ToSet(Front(s)) = ToSet(s) \ {s[Len(s)]}
    BY <1>2, <1>4, OneTakenOut
  <1> QED BY <1>2, <1>3, <1>5 DEF ToSet

LEMMA WithoutOne ==
    ASSUME NEW S, NEW s \in Seq(S), IsInjective(s), NEW e
    PROVE  /\ Without(s, e) \in Seq(S) /\ IsInjective(Without(s, e))
           /\ ToSet(Without(s, e)) = ToSet(s) \ {e}
  <1>1. CASE e \notin ToSet(s)
    BY <1>1 DEF Without
  <1>2. CASE e \in ToSet(s)
    <2> DEFINE i == CHOOSE k \in DOMAIN s : s[k] = e
    <2> DEFINE before == SubSeq(s, 1, i - 1)
    <2> DEFINE after == SubSeq(s, i + 1, Len(s))
    <2> DEFINE r == before \o after
    <2>1. i \in 1 .. Len(s) /\ Len(s) \in Nat /\ s[i] = e
      BY <1>2, LenProperties DEF ToSet
    <2>2. Without(s, e) = r
      BY <1>2 DEF Without, RemoveAt
    <2> HIDE DEF i
    <2>3. /\ before \in Seq(S) /\ Len(before) = i - 1
          /\ \A k \in 1 .. i - 1 : before[k] = s[k]
      BY <2>1, SubSeqProperties
    <2>4. /\ after \in Seq(S) /\ Len(after) = Len(s) - i
          /\ \A k \in 1 .. Len(s) - i : after[k] = s[k + i]
      BY <2>1, SubSeqProperties
    <2> HIDE DEF before, after
    <2>5. /\ r \in Seq(S) /\ Len(r) = Len(before) + Len(after)
          /\ \A k \in 1 .. Len(before) + Len(after) :
                r[k] = IF k <= Len(before) THEN before[k]
                                           ELSE after[k - Len(before)]
      BY <2>3, <2>4, ConcatProperties
    <2>6. /\ \A k \in 1 .. i - 1 : r[k] = s[k]
          /\ \A k \in i .. Len(s) - 1 : r[k] = s[k + 1]
      <3>1. \A k \in 1 .. i - 1 : r[k] = s[k]
        BY <2>1, <2>3, <2>4, <2>5
      <3>2. \A k \in i .. Len(s) - 1 : r[k] = s[k + 1]
        <4> SUFFICES ASSUME NEW k \in i .. Len(s) - 1
                     PROVE  r[k] = s[k + 1]
          OBVIOUS
        <4>1. k - (i - 1) \in 1 .. Len(s) - i /\ (k - (i - 1)) + i = k + 1
          BY <2>1
        <4>2. r[k] = after[k - (i - 1)]
          BY <2>1, <2>3, <2>4, <2>5
        <4> QED BY <2>4, <4>1, <4>2
      <3> QED BY <3>1, <3>2
    <2>7. Len(r) = Len(s) - 1
      BY <2>1, <2>3, <2>4, <2>5
    <2> HIDE DEF r
    <2>8. TakenOut(r, s, i)
      BY <2>1, <2>6, <2>7 DEF TakenOut
    <2>9. IsInjective(r) /\ ToSet(r) = ToSet(s) \ {s[i]}
      BY <2>5, <2>8, OneTakenOut
    <2> QED BY <2>1, <2>2, <2>5, <2>9
  <1> QED BY <1>1, <1>2

LEMMA PutLast ==
    ASSUME NEW S, NEW s \in Seq(S), IsInjective(s), NEW e \in S,
           e \notin ToSet(s)
    PROVE  /\ Append(s, e) \in Seq(S) /\ IsInjective(Append(s, e))
           /\ ToSet(Append(s, e)) = ToSet(s) \cup {e}
  <1>1. /\ Append(s, e) \in Seq(S) /\ Len(Append(s, e)) = Len(s) + 1
        /\ \A i \in 1 .. Len(s) : Append(s, e)[i] = s[i]
        /\ Append(s, e)[Len(s) + 1] = e
    BY AppendProperties
  <1>2. /\ DOMAIN s = 1 .. Len(s) /\ Len(s) \in Nat
        /\ DOMAIN Append(s, e) = 1 .. Len(s) + 1
    BY <1>1, LenProperties
  <1>3. \A i \in 1 .. Len(s) : s[i] # e
    BY <1>2 DEF ToSet
  <1>4. IsInjective(Append(s, e))
    BY <1>1, <1>2, <1>3 DEF IsInjective
  <1>5. ToSet(Append(s, e)) = ToSet(s) \cup {e}
    <2>1. \A i \in 1 .. Len(s) + 1 : Append(s, e)[i] \in ToSet(s) \cup {e}
      BY <1>1, <1>2 DEF ToSet
    <2>2. \A i \in 1 .. Len(s) : s[i] \in ToSet(Append(s, e))
      BY <1>1, <1>2 DEF ToSet
    <2>3. e \in ToSet(Append(s, e))
      <3>1. Len(s) + 1 \in DOMAIN Append(s, e)
        BY <1>2
      <3> QED BY <1>1, <3>1 DEF ToSet
    <2> QED BY <1>2, <2>1, <2>2, <2>3 DEF ToSet
  <1> QED BY <1>1, <1>4, <1>5

LEMMA PutFirst ==
    ASSUME NEW S, NEW s \in Seq(S), IsInjective(s), NEW e \in S,
           e \notin ToSet(s)
    PROVE  /\ <<e>> \o s \in Seq(S) /\ IsInjective(<<e>> \o s)
           /\ ToSet(<<e>> \o s) = ToSet(s) \cup {e}
  <1> DEFINE r == <<e>> \o s
  <1>1. /\ DOMAIN s = 1 .. Len(s) /\ Len(s) \in Nat
        /\ <<e>> \in Seq(S) /\ Len(<<e>>) = 1 /\ <<e>>[1] = e
    BY LenProperties
  <1>2. /\ r \in Seq(S) /\ Len(r) = 1 + Len(s)
        /\ \A k \in 1 .. 1 + Len(s) :
              r[k] = IF k <= 1 THEN <<e>>[k] ELSE s[k - 1]
    BY <1>1, ConcatProperties
  <1> HIDE DEF r
  <1>3. DOMAIN r = 1 .. 1 + Len(s) /\ r[1] = e
    BY <1>1, <1>2, LenProperties
  <1>4. \A k \in 2 .. 1 + Len(s) : r[k] = s[k - 1] /\ k - 1 \in DOMAIN s
    BY <1>1, <1>2
  <1>5. \A i \in DOMAIN s : s[i] # e
    BY DEF ToSet
  <1>6. IsInjective(r)
    <2> SUFFICES ASSUME NEW j \in DOMAIN r, NEW k \in DOMAIN r, r[j] = r[k]
                 PROVE  j = k
      BY DEF IsInjective
    <2>1. CASE j = 1 \/ k = 1
      BY <1>1, <1>3, <1>4, <1>5, <2>1
    <2>2. CASE j # 1 /\ k # 1
      <3>1. j - 1 = k - 1
        <4>1. /\ j \in 2 .. 1 + Len(s) /\ k \in 2 .. 1 + Len(s)
              /\ s[j - 1] = s[k - 1]
          BY <1>1, <1>3, <1>4, <2>2
        <4> QED BY <1>4, <4>1 DEF IsInjective
      <3> QED BY <1>1, <1>3, <3>1
    <2> QED BY <2>1, <2>2
  <1>7. ToSet(r) = ToSet(s) \cup {e}
    <2>1. \A k \in DOMAIN r : r[k] \in ToSet(s) \cup {e}
      <3> SUFFICES ASSUME NEW k \in DOMAIN r PROVE r[k] \in ToSet(s) \cup {e}
        OBVIOUS
      <3>1. CASE k = 1
        BY <1>3, <3>1
      <3>2. CASE k # 1
        BY <1>1, <1>3, <1>4, <3>2 DEF ToSet
      <3> QED BY <3>1, <3>2
    <2>2. \A i \in DOMAIN s : i + 1 \in DOMAIN r /\ r[i + 1] = s[i]
      BY <1>1, <1>2, <1>3
    <2>3. 1 \in DOMAIN r
      BY <1>1, <1>3
    <2> QED BY <1>3, <2>1, <2>2, <2>3 DEF ToSet
  <1> QED BY <1>2, <1>6, <1>7 DEF r

-----------------------------------------------------------------------------
(* The records of the calls.                                               *)

Steps == {"none", "cancel", "create", "assign", "kill", "kill_notify",
          "oversize", "detach", "delete"}
CallRec == [step : Steps, n : Nat, old : Nat, at : Worker, read : Nat,
            destroy : BOOLEAN]
WakeRec == [left : Nat, at : Worker, step : {"pop", "first", "second", "notify"}]

Is(s, step, n, old, at, destroy) ==
    /\ s \in CallRec
    /\ s.step = step /\ s.n = n /\ s.old = old /\ s.at = at
    /\ s.destroy = destroy

\* After the step, the call of t is as the arguments say, and the calls of
\* the others are as they were.
Calling(t, step, n, old, at, destroy) ==
    /\ setting' \in [Threads -> CallRec]
    /\ Is(setting'[t], step, n, old, at, destroy)
    /\ \A u \in Threads \ {t} : setting'[u] = setting[u]

LEMMA CallsAreThreads == \A t \in Callers : t \in Threads
  BY DEF Callers, Threads

LEMMA SetTo ==
    ASSUME setting \in [Threads -> CallRec], NEW t \in Callers, NEW s,
           NEW step, NEW n, NEW old, NEW at, NEW destroy,
           Is(s, step, n, old, at, destroy), Set(t, s)
    PROVE  Calling(t, step, n, old, at, destroy)
  <1>1. t \in Threads
    BY CallsAreThreads
  <1> QED BY <1>1 DEF Calling, Set, Is

LEMMA EditStep ==
    ASSUME NEW s \in CallRec, NEW x \in Steps
    PROVE  Is([s EXCEPT !.step = x], x, s.n, s.old, s.at, s.destroy)
  BY DEF CallRec, Is

LEMMA EditN ==
    ASSUME NEW s \in CallRec, NEW x \in Nat
    PROVE  Is([s EXCEPT !.n = x], s.step, x, s.old, s.at, s.destroy)
  BY DEF CallRec, Is

LEMMA EditOld ==
    ASSUME NEW s \in CallRec, NEW x \in Nat
    PROVE  Is([s EXCEPT !.old = x], s.step, s.n, x, s.at, s.destroy)
  BY DEF CallRec, Is

LEMMA EditAt ==
    ASSUME NEW s \in CallRec, NEW x \in Worker
    PROVE  Is([s EXCEPT !.at = x], s.step, s.n, s.old, x, s.destroy)
  BY DEF CallRec, Is

LEMMA EditRead ==
    ASSUME NEW s \in CallRec, NEW x \in Nat
    PROVE  Is([s EXCEPT !.read = x], s.step, s.n, s.old, s.at, s.destroy)
  BY DEF CallRec, Is

LEMMA EditDestroy ==
    ASSUME NEW s \in CallRec, NEW x \in BOOLEAN
    PROVE  Is([s EXCEPT !.destroy = x], s.step, s.n, s.old, s.at, x)
  BY DEF CallRec, Is

LEMMA NotSettingIs ==
    Is(NotSetting, "none", 0, 0, NoWorker, FALSE)
  BY DEF NotSetting, Is, CallRec, Steps, Worker

LEMMA EditAssign ==
    ASSUME NEW s \in CallRec, NEW w \in Workers, NEW r \in Nat
    PROVE  Is([[s EXCEPT !.step = "assign"]
                 EXCEPT !.at = w, !.read = r, !.old = @ + 1],
              "assign", s.n, s.old + 1, w, s.destroy)
  <1> DEFINE e == [s EXCEPT !.step = "assign"]
  <1>0. s.old + 1 \in Nat
    BY DEF CallRec
  <1>1. Is(e, "assign", s.n, s.old, s.at, s.destroy)
    BY EditStep DEF Steps
  <1> HIDE DEF e
  <1> DEFINE f == [e EXCEPT !.at = w]
  <1>2. Is(f, "assign", s.n, s.old, w, s.destroy)
    BY <1>1, EditAt DEF Worker, Is
  <1> HIDE DEF f
  <1> DEFINE g == [f EXCEPT !.read = r]
  <1>3. Is(g, "assign", s.n, s.old, w, s.destroy)
    BY <1>2, EditRead DEF Is
  <1> HIDE DEF g
  <1> DEFINE h == [g EXCEPT !.old = s.old + 1]
  <1>4. Is(h, "assign", s.n, s.old + 1, w, s.destroy)
    BY <1>0, <1>3, EditOld DEF Is
  <1>5. [e EXCEPT !.at = w, !.read = r, !.old = @ + 1] = h
    BY <1>1 DEF f, g, Is
  <1> QED BY <1>4, <1>5 DEF e

LEMMA EditCreated ==
    ASSUME NEW s \in CallRec
    PROVE  Is([[s EXCEPT !.step = "create"] EXCEPT !.at = NoWorker, !.read = 0],
              "create", s.n, s.old, NoWorker, s.destroy)
  <1> DEFINE e == [s EXCEPT !.step = "create"]
  <1>1. Is(e, "create", s.n, s.old, s.at, s.destroy)
    BY EditStep DEF Steps
  <1> HIDE DEF e
  <1> DEFINE f == [e EXCEPT !.at = NoWorker]
  <1>2. Is(f, "create", s.n, s.old, NoWorker, s.destroy)
    BY <1>1, EditAt DEF Worker, Is
  <1> HIDE DEF f
  <1> DEFINE g == [f EXCEPT !.read = 0]
  <1>3. Is(g, "create", s.n, s.old, NoWorker, s.destroy)
    BY <1>2, EditRead DEF Is
  <1>4. [e EXCEPT !.at = NoWorker, !.read = 0] = g
    BY DEF f
  <1> QED BY <1>3, <1>4 DEF e

LEMMA EditFresh ==
    ASSUME NEW x \in Steps, NEW n \in Nat, NEW old \in Nat, NEW d \in BOOLEAN
    PROVE  Is([NotSetting EXCEPT !.step = x, !.n = n, !.old = old,
                                 !.destroy = d],
              x, n, old, NoWorker, d)
  <1> DEFINE e == [NotSetting EXCEPT !.step = x]
  <1>1. Is(e, x, 0, 0, NoWorker, FALSE)
    BY NotSettingIs, EditStep DEF Is
  <1> HIDE DEF e
  <1> DEFINE f == [e EXCEPT !.n = n]
  <1>2. Is(f, x, n, 0, NoWorker, FALSE)
    BY <1>1, EditN DEF Is
  <1> HIDE DEF f
  <1> DEFINE g == [f EXCEPT !.old = old]
  <1>3. Is(g, x, n, old, NoWorker, FALSE)
    BY <1>2, EditOld DEF Is
  <1> HIDE DEF g
  <1> DEFINE h == [g EXCEPT !.destroy = d]
  <1>4. Is(h, x, n, old, NoWorker, d)
    BY <1>3, EditDestroy DEF Is
  <1>5. [NotSetting EXCEPT !.step = x, !.n = n, !.old = old, !.destroy = d] = h
    BY DEF e, f, g
  <1> QED BY <1>4, <1>5

-----------------------------------------------------------------------------
(* The records of wakeup().                                                *)

Woke(t, left, at, step) ==
    /\ waking' \in [Threads -> WakeRec]
    /\ waking'[t].left = left /\ waking'[t].at = at /\ waking'[t].step = step
    /\ \A u \in Threads \ {t} : waking'[u] = waking[u]

LEMMA NotWakingIs ==
    NotWaking \in WakeRec /\ NotWaking = [left |-> 0, at |-> NoWorker,
                                          step |-> "pop"]
  BY DEF NotWaking, WakeRec, Worker

LEMMA LeftIs ==
    ASSUME NEW n \in Nat
    PROVE  LET e == [NotWaking EXCEPT !.left = n]
           IN e \in WakeRec /\ e.left = n /\ e.at = NoWorker /\ e.step = "pop"
  BY DEF NotWaking, WakeRec, Worker

LEMMA WakeTo ==
    ASSUME waking \in [Threads -> WakeRec], NEW t \in Threads,
           NEW e \in WakeRec, waking' = [waking EXCEPT ![t] = e]
    PROVE  Woke(t, e.left, e.at, e.step)
  BY DEF Woke

LEMMA StartsWaking ==
    ASSUME waking \in [Threads -> WakeRec], NEW t \in Threads,
           NEW n \in Nat, StartWaking(t, n)
    PROVE  Woke(t, n, NoWorker, "pop")
  <1> DEFINE e == [NotWaking EXCEPT !.left = n]
  <1>1. e \in WakeRec /\ e.left = n /\ e.at = NoWorker /\ e.step = "pop"
    BY LeftIs
  <1>2. waking' = [waking EXCEPT ![t] = e]
    BY DEF StartWaking
  <1> HIDE DEF e
  <1> QED BY <1>1, <1>2, WakeTo

LEMMA StopsWaking ==
    ASSUME waking \in [Threads -> WakeRec], NEW t \in Threads,
           waking' = [waking EXCEPT ![t] = NotWaking]
    PROVE  Woke(t, 0, NoWorker, "pop")
  BY NotWakingIs, WakeTo

LEMMA GoesOnWaking ==
    ASSUME waking \in [Threads -> WakeRec], NEW t \in Threads,
           NEW step \in {"pop", "first", "second", "notify"},
           NEW w \in Worker, NextOf(t, step, w)
    PROVE  Woke(t, waking[t].left, IF step = "pop" THEN NoWorker ELSE w, step)
  <1> DEFINE at == IF step = "pop" THEN NoWorker ELSE w
  <1> DEFINE e == [waking[t] EXCEPT !.step = step]
  <1> DEFINE f == [e EXCEPT !.at = at]
  <1>1. at \in Worker
    BY DEF Worker
  <1>2. waking' = [waking EXCEPT ![t].step = step, ![t].at = at]
    BY DEF NextOf
  <1> HIDE DEF at
  <1>3. waking' = [waking EXCEPT ![t] = f]
    BY <1>2
  <1>4. e \in WakeRec /\ e.left = waking[t].left /\ e.step = step
    BY DEF WakeRec
  <1> HIDE DEF e
  <1>5. f \in WakeRec /\ f.left = e.left /\ f.step = e.step /\ f.at = at
    BY <1>1, <1>4 DEF WakeRec
  <1> HIDE DEF f
  <1>6. Woke(t, f.left, f.at, f.step)
    BY <1>3, <1>5, WakeTo
  <1> QED BY <1>4, <1>5, <1>6 DEF at

LEMMA NotifyWaking ==
    ASSUME waking \in [Threads -> WakeRec], NEW t \in Threads,
           WakeNotify(t)
    PROVE  \E n \in Nat : Woke(t, n, NoWorker, "pop")
  <1> DEFINE n == IF waking[t].left = WakeAll THEN WakeAll
                  ELSE waking[t].left - 1
  <1>1. waking[t].left \in Nat \ {0}
    BY DEF WakeNotify, Wake, WakeRec
  <1>2. CASE waking[t].left = 1
    <2>1. waking' = [waking EXCEPT ![t] = NotWaking]
      BY <1>2 DEF WakeNotify
    <2> QED BY <2>1, StopsWaking
  <1>3. CASE waking[t].left # 1
    <2>1. n \in Nat /\ StartWaking(t, n)
      BY <1>1, <1>3 DEF WakeNotify, StartWaking
    <2> HIDE DEF n
    <2> QED BY <2>1, StartsWaking
  <1> QED BY <1>2, <1>3

-----------------------------------------------------------------------------
(* Types, and the places and states of the workers.                        *)

NumberTypes == n_threads \in Nat /\ n_oversize \in Nat /\ n_active \in Nat
ListTypes ==
    /\ m_idle \in Seq(Workers) /\ IsInjective(m_idle)
    /\ m_dead \in Seq(Workers) /\ IsInjective(m_dead)
WorkerTypes ==
    /\ m_state \in [Workers -> States] /\ pc \in [Workers -> Places]
    /\ asleep \subseteq Workers /\ collect \subseteq Workers
OtherTypes ==
    /\ m_serv \in BOOLEAN /\ script \in Seq(Calls)
    /\ posts \in Nat /\ pending \in Nat /\ pool \in {"live", "gone"}
    /\ undefined \in BOOLEAN /\ stolen \in BOOLEAN /\ lost \in BOOLEAN

LEMMA TypesAre ==
    TypeOK = (/\ NumberTypes /\ ListTypes /\ WorkerTypes /\ OtherTypes
              /\ waking \in [Threads -> WakeRec]
              /\ setting \in [Threads -> CallRec])
  BY DEF TypeOK, NumberTypes, ListTypes, WorkerTypes, OtherTypes, WakeRec,
         CallRec, Steps

LEMMA TypesAreNext ==
    TypeOK' = (/\ NumberTypes' /\ ListTypes' /\ WorkerTypes' /\ OtherTypes'
               /\ waking' \in [Threads -> WakeRec]
               /\ setting' \in [Threads -> CallRec])
  BY DEF TypeOK, NumberTypes, ListTypes, WorkerTypes, OtherTypes, WakeRec,
         CallRec, Steps

\* The step is one of worker w alone.
OthersStay(w) ==
    \A v \in Workers \ {w} :
        /\ pc'[v] = pc[v] /\ m_state'[v] = m_state[v]
        /\ (v \in asleep') = (v \in asleep)
        /\ (v \in Idle') = (v \in Idle) /\ (v \in Dead') = (v \in Dead)

\* What a step of worker w in _run() does to the workers.
WorkerEffect(w) ==
    WorkerTypes' /\ ListTypes' /\ OthersStay(w) /\ WorkerOK(w)'

\* The end of collect(), when nobody is dead.
CollectEnds(w) ==
    /\ At(w, "collect") /\ m_dead = << >> /\ Goto(w, "sleep")
    /\ UNCHANGED <<counters, lists, client, m_state, asleep, collect>>
    /\ OnlyWorker

\* The actions that leave the lists alone.
Plain(w) ==
    \/ MustDie(w) \/ DieBusy(w) \/ DieAsleep(w) \/ DoWork(w) \/ JobEnds(w)
    \/ SleepTest(w) \/ TestWork(w) \/ Sleep(w) \/ SpuriousWakeup(w) \/ Woken(w)
    \/ Exit(w) \/ CollectEnds(w)

LEMMA EffectPlain ==
    ASSUME Typed, NEW w \in Workers, Plain(w)
    PROVE  WorkerEffect(w)
  <1>1. WorkerTypes /\ ListTypes /\ WorkerOK(w)
    BY TypesAre DEF Typed
  <1>2. UNCHANGED <<m_idle, m_dead>>
    BY DEF Plain, MustDie, DieBusy, DieAsleep, DoWork, JobEnds, SleepTest,
           TestWork, Sleep, SpuriousWakeup, Woken, CollectEnds, Exit, OnlySleep, lists
  <1>3. Idle' = Idle /\ Dead' = Dead /\ ListTypes'
    BY <1>1, <1>2 DEF Idle, Dead, ListTypes
  <1> USE DEF Goto, At, Become, SaysYes, SaysNo
  <1>4. CASE MustDie(w)
    <2>1. WorkerTypes'
      BY <1>1, <1>4 DEF WorkerTypes, MustDie, Places, States
    <2>2. OthersStay(w) /\ WorkerOK(w)'
      BY <1>1, <1>3, <1>4 DEF WorkerTypes, MustDie, OthersStay, WorkerOK
    <2> QED BY <1>3, <2>1, <2>2 DEF WorkerEffect
  <1>5. CASE DieBusy(w)
    <2>1. WorkerTypes'
      BY <1>1, <1>5 DEF WorkerTypes, DieBusy, Places, States
    <2>2. OthersStay(w) /\ WorkerOK(w)'
      BY <1>1, <1>3, <1>5 DEF WorkerTypes, DieBusy, OthersStay, WorkerOK
    <2> QED BY <1>3, <2>1, <2>2 DEF WorkerEffect
  <1>6. CASE DieAsleep(w)
    <2>1. WorkerTypes'
      BY <1>1, <1>6 DEF WorkerTypes, DieAsleep, Places, States
    <2>2. OthersStay(w) /\ WorkerOK(w)'
      BY <1>1, <1>3, <1>6 DEF WorkerTypes, DieAsleep, OthersStay, WorkerOK
    <2> QED BY <1>3, <2>1, <2>2 DEF WorkerEffect
  <1>7. CASE DoWork(w)
    <2>1. WorkerTypes'
      BY <1>1, <1>7 DEF WorkerTypes, DoWork, Places, States
    <2>2. OthersStay(w) /\ WorkerOK(w)'
      BY <1>1, <1>3, <1>7 DEF WorkerTypes, DoWork, OthersStay, WorkerOK
    <2> QED BY <1>3, <2>1, <2>2 DEF WorkerEffect
  <1>8. CASE JobEnds(w)
    <2>1. WorkerTypes'
      BY <1>1, <1>8 DEF WorkerTypes, JobEnds, Places, States
    <2>2. OthersStay(w) /\ WorkerOK(w)'
      BY <1>1, <1>3, <1>8 DEF WorkerTypes, JobEnds, OthersStay, WorkerOK
    <2> QED BY <1>3, <2>1, <2>2 DEF WorkerEffect
  <1>9. CASE SleepTest(w)
    <2>1. WorkerTypes'
      BY <1>1, <1>9 DEF WorkerTypes, SleepTest, OnlySleep, Places, States
    <2>2. OthersStay(w) /\ WorkerOK(w)'
      BY <1>1, <1>3, <1>9 DEF WorkerTypes, SleepTest, OnlySleep, OthersStay, WorkerOK
    <2> QED BY <1>3, <2>1, <2>2 DEF WorkerEffect
  <1>10. CASE TestWork(w)
    <2>1. WorkerTypes'
      BY <1>1, <1>10 DEF WorkerTypes, TestWork, OnlySleep, Places, States
    <2>2. OthersStay(w) /\ WorkerOK(w)'
      BY <1>1, <1>3, <1>10 DEF WorkerTypes, TestWork, OnlySleep, OthersStay, WorkerOK
    <2> QED BY <1>3, <2>1, <2>2 DEF WorkerEffect
  <1>11. CASE Sleep(w)
    <2>1. WorkerTypes'
      BY <1>1, <1>11 DEF WorkerTypes, Sleep, OnlySleep, Places, States
    <2>2. OthersStay(w) /\ WorkerOK(w)'
      BY <1>1, <1>3, <1>11 DEF WorkerTypes, Sleep, OnlySleep, OthersStay, WorkerOK
    <2> QED BY <1>3, <2>1, <2>2 DEF WorkerEffect
  <1>12. CASE SpuriousWakeup(w)
    <2>1. WorkerTypes'
      BY <1>1, <1>12 DEF WorkerTypes, SpuriousWakeup, OnlySleep, Places, States
    <2>2. OthersStay(w) /\ WorkerOK(w)'
      BY <1>1, <1>3, <1>12 DEF WorkerTypes, SpuriousWakeup, OnlySleep, OthersStay, WorkerOK
    <2> QED BY <1>3, <2>1, <2>2 DEF WorkerEffect
  <1>13. CASE Woken(w)
    <2>1. WorkerTypes'
      BY <1>1, <1>13 DEF WorkerTypes, Woken, OnlySleep, Places, States
    <2>2. OthersStay(w) /\ WorkerOK(w)'
      BY <1>1, <1>3, <1>13 DEF WorkerTypes, Woken, OnlySleep, OthersStay, WorkerOK
    <2> QED BY <1>3, <2>1, <2>2 DEF WorkerEffect
  <1>14. CASE Exit(w)
    <2>1. WorkerTypes'
      BY <1>1, <1>14 DEF WorkerTypes, Exit, Places, States
    <2>2. OthersStay(w) /\ WorkerOK(w)'
      BY <1>1, <1>3, <1>14 DEF WorkerTypes, Exit, OthersStay, WorkerOK
    <2> QED BY <1>3, <2>1, <2>2 DEF WorkerEffect
  <1>15. CASE CollectEnds(w)
    <2>1. WorkerTypes'
      BY <1>1, <1>15 DEF WorkerTypes, CollectEnds, Places, States
    <2>2. OthersStay(w) /\ WorkerOK(w)'
      BY <1>1, <1>3, <1>15 DEF WorkerTypes, CollectEnds, OthersStay, WorkerOK
    <2> QED BY <1>3, <2>1, <2>2 DEF WorkerEffect
  <1> QED BY <1>4, <1>5, <1>6, <1>7, <1>8, <1>9, <1>10, <1>11, <1>12, <1>13,
             <1>14, <1>15 DEF Plain

LEMMA EffectPublish ==
    ASSUME Typed, NEW w \in Workers, Publish(w)
    PROVE  WorkerEffect(w) /\ Idle' = Idle \cup {w}
  <1>1. WorkerTypes /\ ListTypes /\ WorkerOK(w)
    BY TypesAre DEF Typed
  <1>2. /\ pc[w] = "publish" /\ pc' = [pc EXCEPT ![w] = "test"]
        /\ m_idle' = <<w>> \o m_idle
        /\ UNCHANGED <<m_dead, m_state, asleep, collect>>
    BY DEF Publish, OnlySleep, At, Goto
  <1>3. w \notin Idle
    BY <1>1, <1>2 DEF WorkerOK
  <1>4. ListTypes' /\ Idle' = Idle \cup {w} /\ Dead' = Dead
    BY <1>1, <1>2, <1>3, PutFirst DEF ListTypes, Idle, Dead
  <1>5. WorkerTypes'
    BY <1>1, <1>2 DEF WorkerTypes, Places
  <1>6. OthersStay(w) /\ WorkerOK(w)'
    BY <1>1, <1>2, <1>4 DEF WorkerTypes, OthersStay, WorkerOK
  <1> QED BY <1>4, <1>5, <1>6 DEF WorkerEffect

LEMMA EffectErase ==
    ASSUME Typed, NEW w \in Workers, Erase(w)
    PROVE  WorkerEffect(w) /\ Idle' = Idle \ {w}
  <1>1. WorkerTypes /\ ListTypes /\ WorkerOK(w)
    BY TypesAre DEF Typed
  <1>2. /\ pc[w] = "erase" /\ pc' = [pc EXCEPT ![w] = "must_die"]
        /\ m_idle' = Without(m_idle, w)
        /\ UNCHANGED <<m_dead, m_state, asleep, collect>>
    BY DEF Erase, OnlySleep, At, Goto
  <1>3. ListTypes' /\ Idle' = Idle \ {w} /\ Dead' = Dead
    BY <1>1, <1>2, WithoutOne DEF ListTypes, Idle, Dead
  <1>4. WorkerTypes'
    BY <1>1, <1>2 DEF WorkerTypes, Places
  <1>5. OthersStay(w) /\ WorkerOK(w)'
    BY <1>1, <1>2, <1>3 DEF WorkerTypes, OthersStay, WorkerOK
  <1> QED BY <1>3, <1>4, <1>5 DEF WorkerEffect

LEMMA EffectEpilogue ==
    ASSUME Typed, NEW w \in Workers, Epilogue(w)
    PROVE  WorkerEffect(w)
  <1>1. WorkerTypes /\ ListTypes /\ WorkerOK(w)
    BY TypesAre DEF Typed
  <1>2. /\ pc[w] = "epilogue" /\ UNCHANGED <<m_idle, m_state, asleep, collect>>
        /\ \/ m_dead' = Append(m_dead, w) /\ pc' = [pc EXCEPT ![w] = "ended"]
           \/ pc' = [pc EXCEPT ![w] = "destroy"] /\ UNCHANGED m_dead
    BY DEF Epilogue, OnlyWorker, At, Goto
  <1>3. w \notin Dead /\ Idle' = Idle
    BY <1>1, <1>2 DEF WorkerOK, Idle
  <1>4. WorkerTypes'
    BY <1>1, <1>2 DEF WorkerTypes, Places
  <1>5. CASE m_dead' = Append(m_dead, w) /\ pc' = [pc EXCEPT ![w] = "ended"]
    <2>1. ListTypes' /\ Dead' = Dead \cup {w}
      BY <1>1, <1>2, <1>3, <1>5, PutLast DEF ListTypes, Dead
    <2>2. OthersStay(w) /\ WorkerOK(w)'
      BY <1>1, <1>2, <1>3, <1>5, <2>1 DEF WorkerTypes, OthersStay, WorkerOK
    <2> QED BY <1>4, <2>1, <2>2 DEF WorkerEffect
  <1>6. CASE pc' = [pc EXCEPT ![w] = "destroy"] /\ UNCHANGED m_dead
    <2>1. ListTypes' /\ Dead' = Dead
      BY <1>1, <1>2, <1>6 DEF ListTypes, Dead
    <2>2. OthersStay(w) /\ WorkerOK(w)'
      BY <1>1, <1>2, <1>3, <1>6, <2>1 DEF WorkerTypes, OthersStay, WorkerOK
    <2> QED BY <1>4, <2>1, <2>2 DEF WorkerEffect
  <1> QED BY <1>2, <1>5, <1>6

\* The worker that is deleted is a dead one.
LEMMA EffectCollectOne ==
    ASSUME Typed, CollectOne, UNCHANGED <<pc, asleep, collect>>,
           NEW w, w = Head(m_dead)
    PROVE  /\ w \in Workers /\ WorkerEffect(w)
           /\ pc[w] = "ended" /\ m_state[w] = "DEAD"
           /\ m_state' = [m_state EXCEPT ![w] = "DELETED"]
           /\ Idle' = Idle
  <1>1. WorkerTypes /\ ListTypes
    BY TypesAre DEF Typed
  <1>2. /\ w \in Workers /\ w \in Dead /\ ListTypes'
        /\ Idle' = Idle /\ Dead' = Dead \ {w}
    BY <1>1, HeadOff DEF ListTypes, CollectOne, Idle, Dead
  <1>3. m_state' = [m_state EXCEPT ![w] = "DELETED"]
    BY DEF CollectOne, Become
  <1>4. WorkerOK(w)
    BY <1>2 DEF Typed
  <1>5. WorkerTypes'
    BY <1>1, <1>2, <1>3 DEF WorkerTypes, States
  <1>6. OthersStay(w) /\ WorkerOK(w)'
    BY <1>1, <1>2, <1>3, <1>4 DEF WorkerTypes, OthersStay, WorkerOK
  <1> QED BY <1>2, <1>3, <1>4, <1>5, <1>6 DEF WorkerEffect, WorkerOK

LEMMA EffectDestroyEnds ==
    ASSUME Typed, NEW w \in Workers, DestroyEnds(w)
    PROVE  WorkerEffect(w) /\ UNCHANGED setting
  <1>1. WorkerTypes /\ ListTypes /\ WorkerOK(w) /\ w # Owner
    BY TypesAre, WorkersAssumption DEF Typed
  <1>2. /\ pc[w] = "destroy" /\ pc' = [pc EXCEPT ![w] = "ended"]
        /\ m_state' = [m_state EXCEPT ![w] = "DELETED"]
        /\ UNCHANGED <<m_idle, m_dead, asleep, collect, setting>>
    BY <1>1 DEF DestroyEnds, Destroying, At, Become, Goto, lists
  <1>3. ListTypes' /\ Idle' = Idle /\ Dead' = Dead
    BY <1>1, <1>2 DEF ListTypes, Idle, Dead
  <1>4. WorkerTypes'
    BY <1>1, <1>2 DEF WorkerTypes, Places, States
  <1>5. OthersStay(w) /\ WorkerOK(w)'
    BY <1>1, <1>2, <1>3 DEF WorkerTypes, OthersStay, WorkerOK
  <1> QED BY <1>2, <1>3, <1>4, <1>5 DEF WorkerEffect

\* The steps of wakeup(): one worker leaves the idle list, becomes BUSY, or
\* stops its wait.
LEMMA EffectWakePop ==
    ASSUME Typed, NEW t \in Threads, WakePop(t)
    PROVE  /\ \A w \in Workers : WorkerOK(w)'
           /\ ListTypes' /\ Idle' \subseteq Idle
           /\ UNCHANGED <<m_state, pc, asleep, collect>>
           /\ \/ Woke(t, 0, NoWorker, "pop") /\ Idle' = Idle
              \/ \E w \in Workers : /\ Woke(t, waking[t].left, w, "first")
                                    /\ Idle' = Idle \ {w}
  <1>1. /\ ListTypes /\ waking \in [Threads -> WakeRec]
        /\ \A w \in Workers : WorkerOK(w)
    BY TypesAre DEF Typed
  <1>2. UNCHANGED <<m_dead, m_state, pc, asleep, collect>>
    BY DEF WakePop, OnlyWaking
  <1>3. Dead' = Dead
    BY <1>2 DEF Dead
  <1>4. CASE /\ waking' = [waking EXCEPT ![t] = NotWaking]
             /\ UNCHANGED m_idle
    <2>1. Idle' = Idle /\ ListTypes'
      BY <1>1, <1>2, <1>4 DEF ListTypes, Idle
    <2>2. Woke(t, 0, NoWorker, "pop")
      BY <1>1, <1>4, StopsWaking
    <2> QED BY <1>1, <1>2, <1>3, <2>1, <2>2 DEF WorkerOK
  <1>5. CASE /\ m_idle # << >>
             /\ NextOf(t, "first", Head(m_idle))
             /\ m_idle' = Tail(m_idle)
    <2>1. /\ Head(m_idle) \in Workers /\ ListTypes'
          /\ Idle' = Idle \ {Head(m_idle)}
      BY <1>1, <1>2, <1>5, HeadOff DEF ListTypes, Idle
    <2>2. Woke(t, waking[t].left, Head(m_idle), "first")
      BY <1>1, <1>5, <2>1, GoesOnWaking DEF Worker
    <2>3. Idle' \subseteq Idle
      BY <2>1
    <2>4. \A w \in Workers : WorkerOK(w)'
      BY <1>1, <1>2, <1>3, <2>3 DEF WorkerOK
    <2> QED BY <1>2, <2>1, <2>2, <2>3, <2>4
  <1> QED BY <1>4, <1>5 DEF WakePop

LEMMA EffectWakeTry ==
    ASSUME Typed, NEW t \in Threads, NEW step, NEW from, NEW other,
           <<step, from, other>> \in {<<"first", "SLEEP_TEST", "second">>,
                                      <<"second", "SLEEP", "pop">>},
           WakeTry(t, step, from, other), NEW w, w = waking[t].at
    PROVE  /\ w \in Workers /\ WorkerEffect(w)
           /\ waking[t].step = step /\ pc' = pc
           /\ UNCHANGED <<m_idle, m_dead, asleep, collect>>
           /\ \/ /\ m_state[w] = from
                 /\ m_state' = [m_state EXCEPT ![w] = "BUSY"]
                 /\ Woke(t, waking[t].left, w, "notify")
              \/ /\ m_state[w] # from /\ UNCHANGED m_state
                 /\ Woke(t, waking[t].left,
                         IF other = "pop" THEN NoWorker ELSE w, other)
  <1>1. /\ ListTypes /\ WorkerTypes /\ waking \in [Threads -> WakeRec]
        /\ WakeOK(t)
    BY TypesAre DEF Typed
  <1>2. /\ waking[t].step = step /\ step # "pop"
        /\ UNCHANGED <<m_idle, m_dead, pc, asleep, collect>>
        /\ \/ /\ m_state[w] = from
              /\ m_state' = [m_state EXCEPT ![w] = "BUSY"]
              /\ NextOf(t, "notify", w)
           \/ /\ m_state[w] # from /\ UNCHANGED m_state
              /\ NextOf(t, other, w)
    BY DEF WakeTry, Wake, Become, lists, OnlyWaking
  <1>3. w \in Workers /\ WorkerOK(w)
    BY <1>1, <1>2 DEF WakeOK, Typed
  <1>4. /\ ListTypes' /\ Idle' = Idle /\ Dead' = Dead
    BY <1>1, <1>2 DEF ListTypes, Idle, Dead
  <1>5. WorkerTypes'
    BY <1>1, <1>2 DEF WorkerTypes, States
  <1>6. OthersStay(w) /\ WorkerOK(w)'
    BY <1>1, <1>2, <1>3, <1>4 DEF WorkerTypes, OthersStay, WorkerOK
  <1>7. /\ NextOf(t, "notify", w) => Woke(t, waking[t].left, w, "notify")
        /\ NextOf(t, other, w) =>
             Woke(t, waking[t].left, IF other = "pop" THEN NoWorker ELSE w,
                  other)
    BY <1>1, <1>3, GoesOnWaking DEF Worker
  <1> QED BY <1>2, <1>3, <1>4, <1>5, <1>6, <1>7 DEF WorkerEffect

\* A notification wakes the worker if it waits.
LEMMA EffectNotify ==
    ASSUME Typed, NEW w \in Workers, Notify(w),
           UNCHANGED <<lists, m_state, asleep, collect>>
    PROVE  /\ WorkerEffect(w)
           /\ w \in asleep => pc[w] = "wait"
           /\ pc[w] = "wait" => pc'[w] = "woken"
           /\ pc[w] # "wait" => pc' = pc
  <1>1. ListTypes /\ WorkerTypes /\ WorkerOK(w)
    BY TypesAre DEF Typed
  <1>2. /\ UNCHANGED <<m_idle, m_dead, m_state, asleep, collect>>
        /\ pc' = [pc EXCEPT ![w] = IF pc[w] = "wait" THEN "woken" ELSE pc[w]]
        /\ w \in asleep => pc[w] = "wait"
    BY <1>1 DEF Notify, HasSleepMtx, lists, WorkerTypes
  <1>3. ListTypes' /\ Idle' = Idle /\ Dead' = Dead
    BY <1>1, <1>2 DEF ListTypes, Idle, Dead
  <1>4. WorkerTypes'
    BY <1>1, <1>2 DEF WorkerTypes, Places
  <1>5. OthersStay(w) /\ WorkerOK(w)'
    BY <1>1, <1>2, <1>3 DEF WorkerTypes, OthersStay, WorkerOK
  <1>6. pc[w] # "wait" => pc' = pc
    BY <1>1, <1>2 DEF WorkerTypes
  <1> QED BY <1>1, <1>2, <1>3, <1>4, <1>5, <1>6 DEF WorkerEffect, WorkerTypes

LEMMA WorkersStay ==
    ASSUME Typed, NEW w \in Workers, WorkerEffect(w)
    PROVE  \A v \in Workers : WorkerOK(v)'
  BY DEF Typed, WorkerEffect, OthersStay, WorkerOK

-----------------------------------------------------------------------------
(* What the steps of set_nthreads() do to the call and to the workers.     *)

SameWorkers == UNCHANGED <<lists, workers>>

LEMMA SameWorkersStay ==
    ASSUME Typed, SameWorkers
    PROVE  /\ \A w \in Workers : WorkerOK(w)'
           /\ WorkerTypes' /\ ListTypes' /\ Idle' = Idle /\ Dead' = Dead
  BY TypesAre DEF Typed, SameWorkers, lists, workers, WorkerOK, WorkerTypes,
                  ListTypes, Idle, Dead

LEMMA SettingIs ==
    ASSUME Typed, NEW t \in Callers
    PROVE  /\ setting \in [Threads -> CallRec] /\ setting[t] \in CallRec
           /\ setting[t].n \in Nat /\ setting[t].old \in Nat
           /\ setting[t].at \in Worker /\ setting[t].destroy \in BOOLEAN
           /\ setting[t].step \in Steps
           /\ CallOK(t) /\ t \in Threads
  <1>1. setting \in [Threads -> CallRec] /\ t \in Threads
    BY TypesAre, CallsAreThreads DEF Typed
  <1> QED BY <1>1 DEF Typed, CallRec

LEMMA CallingExchange ==
    ASSUME Typed, NEW t \in Callers, NEW n \in Nat, NEW d \in BOOLEAN,
           Exchange(t, n, d)
    PROVE  /\ n_threads \in Nat /\ n_threads' = n
           /\ Calling(t, IF n_threads < n THEN "cancel" ELSE "create",
                      n, n_threads, NoWorker, d)
  <1>1. n_threads \in Nat
    BY TypesAre DEF Typed, NumberTypes
  <1> DEFINE x == IF n_threads < n THEN "cancel" ELSE "create"
  <1> DEFINE s == [NotSetting EXCEPT !.step = x, !.n = n, !.old = n_threads,
                                     !.destroy = d]
  <1>2. Set(t, s) /\ x \in Steps /\ n_threads' = n
    BY DEF Exchange, Steps
  <1> HIDE DEF x
  <1>3. Is(s, x, n, n_threads, NoWorker, d)
    BY <1>1, <1>2, EditFresh
  <1> HIDE DEF s
  <1>4. Calling(t, x, n, n_threads, NoWorker, d)
    BY <1>2, <1>3, SettingIs, SetTo
  <1> QED BY <1>1, <1>2, <1>4 DEF x

LEMMA CallingStep ==
    ASSUME Typed, NEW t \in Callers, NEW x \in Steps, Set(t, Step(t, x))
    PROVE  Calling(t, x, setting[t].n, setting[t].old, setting[t].at,
                   setting[t].destroy)
  <1>1. Is(Step(t, x), x, setting[t].n, setting[t].old, setting[t].at,
           setting[t].destroy)
    BY SettingIs, EditStep DEF Step
  <1> QED BY <1>1, SettingIs, SetTo

LEMMA CallingStepOld ==
    ASSUME Typed, NEW t \in Callers, NEW x \in Steps, NEW y \in Nat,
           Set(t, [Step(t, x) EXCEPT !.old = y])
    PROVE  Calling(t, x, setting[t].n, y, setting[t].at, setting[t].destroy)
  <1> DEFINE e == Step(t, x)
  <1>1. Is(e, x, setting[t].n, setting[t].old, setting[t].at,
           setting[t].destroy)
    BY SettingIs, EditStep DEF Step
  <1> HIDE DEF e
  <1> DEFINE f == [e EXCEPT !.old = y]
  <1>2. Is(f, x, setting[t].n, y, setting[t].at, setting[t].destroy)
    BY <1>1, EditOld DEF Is
  <1>3. Set(t, f)
    BY DEF e
  <1> HIDE DEF f
  <1> QED BY <1>2, <1>3, SettingIs, SetTo

LEMMA CallingReturn ==
    ASSUME Typed, NEW t \in Callers, Return(t)
    PROVE  \/ /\ setting[t].destroy
              /\ Calling(t, "detach", setting[t].n, setting[t].old,
                         setting[t].at, TRUE)
           \/ /\ ~setting[t].destroy
              /\ Calling(t, "none", 0, 0, NoWorker, FALSE)
  <1>1. CASE setting[t].destroy
    <2>1. Set(t, Step(t, "detach"))
      BY <1>1 DEF Return
    <2>2. setting[t].destroy = TRUE
      BY <1>1, SettingIs
    <2> QED BY <1>1, <2>1, <2>2, CallingStep DEF Steps
  <1>2. CASE ~setting[t].destroy
    <2>1. Set(t, NotSetting)
      BY <1>2 DEF Return
    <2> QED BY <1>2, <2>1, NotSettingIs, SettingIs, SetTo
  <1> QED BY <1>1, <1>2

LEMMA CallingCancel ==
    ASSUME Typed, NEW t \in Callers, CancelDeaths(t)
    PROVE  /\ setting[t].step = "cancel"
           /\ \E r \in Nat :
                 /\ r <= n_oversize /\ r <= setting[t].n - setting[t].old
                 /\ n_oversize' = n_oversize - r
                 /\ Calling(t, "create", setting[t].n, setting[t].old + r,
                            setting[t].at, setting[t].destroy)
           /\ SameWorkers /\ UNCHANGED <<n_threads, n_active, waking>>
  <1> DEFINE want == setting[t].n - setting[t].old
  <1> DEFINE r == IF want < n_oversize THEN want ELSE n_oversize
  <1>1. /\ setting[t].n \in Nat /\ setting[t].old \in Nat
        /\ n_oversize \in Nat /\ setting[t].old < setting[t].n
        /\ setting[t].step = "cancel"
    BY SettingIs, TypesAre DEF Typed, NumberTypes, CallOK, CancelDeaths, Setting
  <1>2. r \in Nat /\ r <= n_oversize /\ r <= want
    BY <1>1
  <1>3. /\ n_oversize' = n_oversize - r
        /\ Set(t, [Step(t, "create") EXCEPT !.old = Step(t, "create").old + r])
        /\ SameWorkers /\ UNCHANGED <<n_threads, n_active, waking>>
    BY DEF CancelDeaths, OnlySetting, SameWorkers, workers
  <1> HIDE DEF r
  <1>4. Step(t, "create").old = setting[t].old
    BY SettingIs DEF Step, CallRec
  <1>5. Calling(t, "create", setting[t].n, setting[t].old + r, setting[t].at,
                setting[t].destroy)
    <2> DEFINE y == setting[t].old + r
    <2>1. y \in Nat /\ "create" \in Steps
      BY <1>1, <1>2 DEF Steps
    <2>2. Set(t, [Step(t, "create") EXCEPT !.old = y])
      BY <1>3, <1>4
    <2> HIDE DEF y
    <2>3. Calling(t, "create", setting[t].n, y, setting[t].at,
                  setting[t].destroy)
      BY <2>1, <2>2, CallingStepOld
    <2> QED BY <2>3 DEF y
  <1> QED BY <1>1, <1>2, <1>3, <1>5

LEMMA CallingCreate ==
    ASSUME Typed, NEW t \in Callers, CreateWorker(t)
    PROVE  \E w \in Workers :
              /\ setting[t].step = "create" /\ setting[t].old < setting[t].n
              /\ m_state[w] = "UNBORN" /\ m_state' = [m_state EXCEPT ![w] = "BUSY"]
              /\ pc' = [pc EXCEPT ![w] = "init"]
              /\ WorkerEffect(w)
              /\ Calling(t, "assign", setting[t].n, setting[t].old + 1, w,
                         setting[t].destroy)
              /\ UNCHANGED <<counters, lists, waking, asleep, collect>>
  <1> DEFINE c == CHOOSE v \in Workers : m_state[v] = "UNBORN"
  <1>1. /\ c \in Workers /\ m_state[c] = "UNBORN"
        /\ setting[t].step = "create" /\ setting[t].old < setting[t].n
        /\ m_state' = [m_state EXCEPT ![c] = "BUSY"]
        /\ pc' = [pc EXCEPT ![c] = "init"]
        /\ Set(t, [Step(t, "assign") EXCEPT !.at = c, !.read = n_active,
                                            !.old = @ + 1])
        /\ UNCHANGED <<counters, lists, waking, asleep, collect>>
    BY DEF CreateWorker, Become, Goto, Setting, OnlySetting
  <1>2. PICK w \in Workers : w = c
    BY <1>1
  <1> HIDE DEF c
  <1>3. /\ m_state[w] = "UNBORN" /\ m_state' = [m_state EXCEPT ![w] = "BUSY"]
        /\ pc' = [pc EXCEPT ![w] = "init"]
        /\ Set(t, [Step(t, "assign") EXCEPT !.at = w, !.read = n_active,
                                            !.old = @ + 1])
    BY <1>1, <1>2
  <1>4. ListTypes /\ WorkerTypes /\ WorkerOK(w) /\ n_active \in Nat
    BY TypesAre DEF Typed, NumberTypes
  <1>5. ListTypes' /\ Idle' = Idle /\ Dead' = Dead
    BY <1>1, <1>4 DEF ListTypes, Idle, Dead, lists
  <1>6. WorkerTypes'
    BY <1>1, <1>3, <1>4 DEF WorkerTypes, Places, States
  <1>7. OthersStay(w) /\ WorkerOK(w)'
    BY <1>1, <1>3, <1>4, <1>5 DEF WorkerTypes, OthersStay, WorkerOK
  <1>8. Is([Step(t, "assign") EXCEPT !.at = w, !.read = n_active, !.old = @ + 1],
           "assign", setting[t].n, setting[t].old + 1, w, setting[t].destroy)
    BY <1>4, SettingIs, EditAssign DEF Step
  <1>9. Calling(t, "assign", setting[t].n, setting[t].old + 1, w,
                setting[t].destroy)
    <2> DEFINE s == [Step(t, "assign") EXCEPT !.at = w, !.read = n_active,
                                              !.old = @ + 1]
    <2>1. Is(s, "assign", setting[t].n, setting[t].old + 1, w,
             setting[t].destroy) /\ Set(t, s)
      BY <1>3, <1>8
    <2> HIDE DEF s
    <2> QED BY <2>1, SettingIs, SetTo
  <1> QED BY <1>1, <1>3, <1>5, <1>6, <1>7, <1>9 DEF WorkerEffect

LEMMA CallingAssign ==
    ASSUME Typed, NEW t \in Callers, AssignThread(t), NEW w,
           w = setting[t].at
    PROVE  /\ setting[t].step = "assign" /\ w \in Workers /\ pc[w] = "init"
           /\ pc' = [pc EXCEPT ![w] = "must_die"]
           /\ n_active' \in Nat /\ (lost' \/ n_active' = n_active + 1)
           /\ lost' \in BOOLEAN /\ (lost => lost')
           /\ WorkerEffect(w)
           /\ Calling(t, "create", setting[t].n, setting[t].old, NoWorker,
                      setting[t].destroy)
           /\ UNCHANGED <<n_threads, n_oversize, lists, m_state, asleep,
                          collect, waking>>
  <1>1. /\ setting[t].step = "assign" /\ pc' = [pc EXCEPT ![w] = "must_die"]
        /\ UNCHANGED <<n_threads, n_oversize, lists, m_state, asleep, collect,
                       waking>>
        /\ Set(t, [Step(t, "create") EXCEPT !.at = NoWorker, !.read = 0])
    BY DEF AssignThread, Goto, Setting
  <1>2. w \in Workers /\ pc[w] = "init"
    BY <1>1, SettingIs DEF CallOK
  <1>3. /\ ListTypes /\ WorkerTypes /\ WorkerOK(w) /\ n_active \in Nat
        /\ setting[t].read \in Nat /\ lost \in BOOLEAN
    BY <1>2, TypesAre, SettingIs DEF Typed, NumberTypes, OtherTypes, CallRec
  <1>4. ListTypes' /\ Idle' = Idle /\ Dead' = Dead
    BY <1>1, <1>3 DEF ListTypes, Idle, Dead, lists
  <1>5. WorkerTypes'
    BY <1>1, <1>2, <1>3 DEF WorkerTypes, Places
  <1>6. OthersStay(w) /\ WorkerOK(w)'
    BY <1>1, <1>2, <1>3, <1>4 DEF WorkerTypes, OthersStay, WorkerOK
  <1>7. Calling(t, "create", setting[t].n, setting[t].old, NoWorker,
                setting[t].destroy)
    <2> DEFINE s == [Step(t, "create") EXCEPT !.at = NoWorker, !.read = 0]
    <2>1. Is(s, "create", setting[t].n, setting[t].old, NoWorker,
             setting[t].destroy) /\ Set(t, s)
      BY <1>1, SettingIs, EditCreated DEF Step
    <2> HIDE DEF s
    <2> QED BY <2>1, SettingIs, SetTo
  <1>8. n_active' \in Nat
    BY <1>3 DEF AssignThread
  <1>9. /\ lost' \/ n_active' = n_active + 1
        /\ lost' \in BOOLEAN /\ (lost => lost')
    BY <1>3 DEF AssignThread
  <1> QED BY <1>1, <1>2, <1>4, <1>5, <1>6, <1>7, <1>8, <1>9 DEF WorkerEffect

LEMMA CallingKillPop ==
    ASSUME Typed, NEW t \in Callers, KillPop(t)
    PROVE  /\ setting[t].step = "create"
           /\ \/ \E w \in Workers :
                    /\ setting[t].old > setting[t].n
                    /\ w \in Idle /\ Idle' = Idle \ {w}
                    /\ Calling(t, "kill", setting[t].n, setting[t].old, w,
                               setting[t].destroy)
              \/ /\ setting[t].old > setting[t].n /\ Idle' = Idle
                 /\ Calling(t, "oversize", setting[t].n, setting[t].old,
                            setting[t].at, setting[t].destroy)
              \/ setting[t].old = setting[t].n /\ Idle' = Idle /\ Return(t)
           /\ ListTypes' /\ Idle' \subseteq Idle
           /\ \A w \in Workers : WorkerOK(w)'
           /\ UNCHANGED <<counters, workers, waking>>
  <1>1. /\ ListTypes /\ \A w \in Workers : WorkerOK(w)
    BY TypesAre DEF Typed
  <1>2. /\ setting[t].step = "create"
        /\ UNCHANGED <<counters, workers, waking, m_dead>>
    BY DEF KillPop, Setting, OnlySetting, workers
  <1>3. ListTypes' /\ Idle' \subseteq Idle =>
          \A w \in Workers : WorkerOK(w)'
    <2>1. Dead' = Dead
      BY <1>2 DEF Dead
    <2> QED BY <1>1, <1>2, <2>1 DEF WorkerOK, workers
  <1>4. CASE /\ setting[t].old > setting[t].n /\ m_idle # << >>
             /\ Set(t, [Step(t, "kill") EXCEPT !.at = Last(m_idle)])
             /\ m_idle' = Front(m_idle)
    <2>1. PICK w : w = Last(m_idle)
      OBVIOUS
    <2>2. w \in Workers /\ w \in Idle /\ Idle' = Idle \ {w} /\ ListTypes'
      BY <1>1, <1>2, <1>4, <2>1, LastOff DEF ListTypes, Idle
    <2> DEFINE e == Step(t, "kill")
    <2>3. Is(e, "kill", setting[t].n, setting[t].old, setting[t].at,
             setting[t].destroy)
      BY SettingIs, EditStep DEF Step, Steps
    <2> DEFINE f == [e EXCEPT !.at = w]
    <2>4. Set(t, f)
      BY <1>4, <2>1
    <2> HIDE DEF e
    <2>5. Is(f, "kill", setting[t].n, setting[t].old, w, setting[t].destroy)
      BY <2>2, <2>3, EditAt DEF Is, Worker
    <2> HIDE DEF f
    <2>6. Calling(t, "kill", setting[t].n, setting[t].old, w,
                  setting[t].destroy)
      BY <2>4, <2>5, SettingIs, SetTo
    <2> QED BY <1>2, <1>3, <1>4, <2>2, <2>6
  <1>5. CASE /\ setting[t].old > setting[t].n /\ Set(t, Step(t, "oversize"))
             /\ UNCHANGED m_idle
    <2>1. Idle' = Idle /\ ListTypes'
      BY <1>1, <1>2, <1>5 DEF ListTypes, Idle
    <2>2. Calling(t, "oversize", setting[t].n, setting[t].old, setting[t].at,
                  setting[t].destroy)
      BY <1>5, CallingStep DEF Steps
    <2> QED BY <1>2, <1>3, <1>5, <2>1, <2>2
  <1>6. CASE setting[t].old = setting[t].n /\ Return(t) /\ UNCHANGED m_idle
    <2>1. Idle' = Idle /\ ListTypes'
      BY <1>1, <1>2, <1>6 DEF ListTypes, Idle
    <2> QED BY <1>2, <1>3, <1>6, <2>1
  <1> QED BY <1>4, <1>5, <1>6 DEF KillPop

LEMMA CallingKill ==
    ASSUME Typed, NEW t \in Callers, Kill(t), NEW w, w = setting[t].at
    PROVE  /\ setting[t].step = "kill" /\ w \in Workers
           /\ m_state[w] \in {"BUSY", "SLEEP_TEST", "SLEEP", "DYING"}
           /\ m_state' = [m_state EXCEPT ![w] = "DYING"] /\ WorkerEffect(w)
           /\ Calling(t, IF m_state[w] \in {"SLEEP", "SLEEP_TEST"}
                         THEN "kill_notify" ELSE "create",
                      setting[t].n,
                      IF m_state[w] = "DYING" THEN setting[t].old
                      ELSE setting[t].old - 1,
                      w, setting[t].destroy)
           /\ UNCHANGED <<counters, lists, waking, pc, asleep, collect>>
  <1>1. /\ setting[t].step = "kill" /\ w \in Workers
        /\ m_state[w] \notin {"DEAD", "DELETED", "UNBORN"}
        /\ setting[t].old > setting[t].n
        /\ setting[t].old \in Nat /\ setting[t].n \in Nat
    BY SettingIs DEF Kill, Setting, CallOK
  <1>2. /\ m_state' = [m_state EXCEPT ![w] = "DYING"]
        /\ UNCHANGED <<counters, lists, waking, pc, asleep, collect>>
    BY DEF Kill, Become, OnlySetting
  <1>3. ListTypes /\ WorkerTypes /\ WorkerOK(w)
    BY <1>1, TypesAre DEF Typed
  <1>4. ListTypes' /\ Idle' = Idle /\ Dead' = Dead
    BY <1>2, <1>3 DEF ListTypes, Idle, Dead, lists
  <1>5. WorkerTypes' /\ m_state[w] \in {"BUSY", "SLEEP_TEST", "SLEEP", "DYING"}
    BY <1>1, <1>2, <1>3 DEF WorkerTypes, States
  <1>6. OthersStay(w) /\ WorkerOK(w)'
    BY <1>1, <1>2, <1>3, <1>4 DEF WorkerTypes, OthersStay, WorkerOK
  <1> DEFINE x == IF m_state[w] \in {"SLEEP", "SLEEP_TEST"}
                  THEN "kill_notify" ELSE "create"
  <1> DEFINE y == IF m_state[w] = "DYING" THEN setting[t].old
                  ELSE setting[t].old - 1
  <1>7. Calling(t, x, setting[t].n, y, w, setting[t].destroy)
    <2>1. x \in Steps /\ y \in Nat /\ Step(t, x).old = setting[t].old
      BY <1>1, SettingIs DEF Steps, Step, CallRec
    <2>2. Set(t, [Step(t, x) EXCEPT !.old =
                     IF m_state[w] = "DYING" THEN Step(t, x).old
                     ELSE Step(t, x).old - 1])
      BY DEF Kill
    <2>3. Set(t, [Step(t, x) EXCEPT !.old = y])
      BY <2>1, <2>2
    <2> HIDE DEF x, y
    <2> QED BY <2>1, <2>3, CallingStepOld
  <1> QED BY <1>1, <1>2, <1>4, <1>5, <1>6, <1>7 DEF WorkerEffect

LEMMA CallingKillNotify ==
    ASSUME Typed, NEW t \in Callers, KillNotify(t), NEW w, w = setting[t].at
    PROVE  /\ setting[t].step = "kill_notify" /\ w \in Workers
           /\ WorkerEffect(w)
           /\ w \in asleep => pc[w] = "wait"
           /\ pc[w] = "wait" => pc'[w] = "woken"
           /\ pc[w] # "wait" => pc' = pc
           /\ Calling(t, "create", setting[t].n, setting[t].old, w,
                      setting[t].destroy)
           /\ UNCHANGED <<counters, lists, waking, m_state, asleep, collect>>
  <1>1. setting[t].step = "kill_notify" /\ w \in Workers
    BY SettingIs DEF KillNotify, Setting, CallOK
  <1>2. /\ Notify(w) /\ Set(t, Step(t, "create"))
        /\ UNCHANGED <<counters, lists, waking, m_state, asleep, collect>>
    BY DEF KillNotify, OnlySetting
  <1>3. Calling(t, "create", setting[t].n, setting[t].old, w,
                setting[t].destroy)
    BY <1>2, CallingStep DEF Steps
  <1> QED BY <1>1, <1>2, <1>3, EffectNotify

LEMMA CallingOversize ==
    ASSUME Typed, NEW t \in Callers, PublishOversize(t)
    PROVE  /\ setting[t].step = "oversize" /\ More(t) \in Nat
           /\ setting[t].old > setting[t].n
           /\ n_oversize' = n_oversize + More(t)
           /\ Woke(t, More(t), NoWorker, "pop") /\ Return(t)
           /\ Suicide(t)
           /\ Suicides(t) => t \in Workers /\ pc[t] = "job" /\ m_state[t] = "BUSY"
           /\ ListTypes' /\ WorkerTypes' /\ \A v \in Workers : WorkerOK(v)'
           /\ UNCHANGED <<n_threads, n_active, lists, pc, asleep, collect>>
  <1>1. /\ setting[t].step = "oversize" /\ setting[t].old > setting[t].n
        /\ setting[t].old \in Nat /\ setting[t].n \in Nat
        /\ t = Owner \/ pc[t] = "job"
    BY SettingIs DEF PublishOversize, Setting, CallOK
  <1>2. /\ n_oversize' = n_oversize + More(t) /\ StartWaking(t, More(t))
        /\ Suicide(t) /\ Return(t)
        /\ UNCHANGED <<n_threads, n_active, lists, pc, asleep, collect>>
    BY DEF PublishOversize, OnlySetting
  <1>3. More(t) \in Nat
    BY <1>1 DEF More
  <1>4. Woke(t, More(t), NoWorker, "pop")
    BY <1>2, <1>3, TypesAre, SettingIs, StartsWaking DEF Typed
  <1>5. ListTypes /\ WorkerTypes /\ \A v \in Workers : WorkerOK(v)
    BY TypesAre DEF Typed
  <1>6. ListTypes' /\ Idle' = Idle /\ Dead' = Dead
    BY <1>2, <1>5 DEF ListTypes, Idle, Dead, lists
  <1>7. CASE Suicides(t)
    <2>1. /\ t \in Workers /\ m_state' = [m_state EXCEPT ![t] = "DYING"]
          /\ pc[t] = "job" /\ m_state[t] = "BUSY"
      BY <1>1, <1>2, <1>5, <1>7, WorkersAssumption
         DEF Suicides, Suicide, Become, WorkerOK, WorkerTypes, States
    <2>2. WorkerTypes'
      BY <1>2, <1>5, <2>1 DEF WorkerTypes, States
    <2>3. OthersStay(t) /\ WorkerOK(t)'
      BY <1>2, <1>5, <1>6, <2>1 DEF WorkerTypes, OthersStay, WorkerOK
    <2>4. WorkerEffect(t)
      BY <1>6, <2>2, <2>3 DEF WorkerEffect
    <2> QED BY <1>1, <1>2, <1>3, <1>4, <1>6, <2>1, <2>2, <2>4, WorkersStay
  <1>8. CASE ~Suicides(t)
    <2>1. SameWorkers
      BY <1>2, <1>8 DEF SameWorkers, workers, Suicide
    <2> QED BY <1>1, <1>2, <1>3, <1>4, <1>8, <2>1, SameWorkersStay
  <1> QED BY <1>7, <1>8

LEMMA CallingDetach ==
    ASSUME Typed, NEW t \in Callers, Detach(t)
    PROVE  /\ setting[t].step = "detach" /\ setting[t].destroy
           /\ \/ /\ t \in Workers /\ collect' = collect \cup {t}
                 /\ pc[t] = "job" /\ Calling(t, "none", 0, 0, NoWorker, FALSE)
              \/ /\ t = Owner /\ collect' = collect
                 /\ Calling(t, "delete", setting[t].n, setting[t].old,
                            setting[t].at, TRUE)
           /\ WorkerTypes' /\ ListTypes' /\ \A v \in Workers : WorkerOK(v)'
           /\ UNCHANGED <<counters, lists, m_state, pc, asleep, waking>>
  <1>1. /\ setting[t].step = "detach" /\ setting[t].destroy = TRUE
        /\ t = Owner \/ pc[t] = "job"
    BY SettingIs DEF Detach, Setting, CallOK
  <1>2. UNCHANGED <<counters, lists, m_state, pc, asleep, waking>>
    BY DEF Detach
  <1>3. \/ t \in Workers /\ collect' = collect \cup {t} /\ Set(t, NotSetting)
        \/ t = Owner /\ Set(t, Step(t, "delete")) /\ collect' = collect
    BY DEF Detach
  <1>4. Set(t, NotSetting) => Calling(t, "none", 0, 0, NoWorker, FALSE)
    BY NotSettingIs, SettingIs, SetTo
  <1>5. Set(t, Step(t, "delete")) =>
          Calling(t, "delete", setting[t].n, setting[t].old, setting[t].at, TRUE)
    BY <1>1, CallingStep DEF Steps
  <1>6. ListTypes /\ WorkerTypes /\ \A v \in Workers : WorkerOK(v)
    BY TypesAre DEF Typed
  <1>7. /\ ListTypes' /\ Idle' = Idle /\ Dead' = Dead /\ WorkerTypes'
    BY <1>2, <1>3, <1>6 DEF ListTypes, Idle, Dead, lists, WorkerTypes
  <1>8. \A v \in Workers : WorkerOK(v)'
    BY <1>2, <1>6, <1>7 DEF WorkerOK
  <1>9. t \in Workers => t # Owner
    BY WorkersAssumption
  <1> QED BY <1>1, <1>2, <1>3, <1>4, <1>5, <1>7, <1>8, <1>9

\* A call that is made is the next of the script, and a worker makes it in a
\* job.
LEMMA CallMade ==
    ASSUME Typed, NEW t \in Callers, NEW op, MayCall(t, op)
    PROVE  /\ setting[t].step = "none" /\ (t = Owner \/ pc[t] = "job")
           /\ waking[t].left = 0
           /\ script # << >> /\ Head(script).op = op /\ Head(script).n \in Nat
           /\ script' = Tail(script) /\ script' \in Seq(Calls)
  <1>1. script \in Seq(Calls)
    BY TypesAre DEF Typed, OtherTypes
  <1>2. /\ setting[t].step = "none" /\ (t = Owner \/ pc[t] = "job")
        /\ waking[t].left = 0
        /\ script # << >> /\ Head(script).op = op /\ script' = Tail(script)
    BY DEF MayCall, InJob, Setting, At, Free
  <1>3. Head(script) \in Calls /\ Tail(script) \in Seq(Calls)
    BY <1>1, <1>2, HeadTailProperties
  <1> QED BY <1>2, <1>3 DEF Calls

-----------------------------------------------------------------------------
(* Layer 1: types, and the states of workers and calls.                    *)

\* A call stays as it must be when the workers that it is about do.
LEMMA CallStays ==
    ASSUME Typed, NEW u \in Callers, setting'[u] = setting[u],
           \A v \in Workers : m_state'[v] = "UNBORN" => m_state[v] = "UNBORN",
           setting[u].step = "assign" => pc'[setting[u].at] = "init",
           setting[u].step # "none" /\ u # Owner => pc'[u] = "job"
    PROVE  CallOK(u)'
  <1>1. CallOK(u)
    BY DEF Typed
  <1> QED BY <1>1 DEF CallOK

LEMMA WakesStay ==
    ASSUME Typed, NEW t \in Threads, NEW left, NEW at, NEW step,
           Woke(t, left, at, step), left = 0 => step = "pop",
           step # "pop" => at \in Workers
    PROVE  \A u \in Threads : WakeOK(u)'
  BY DEF Typed, Woke, WakeOK

LEMMA NoWakeStays ==
    ASSUME Typed, UNCHANGED waking
    PROVE  /\ \A u \in Threads : WakeOK(u)'
           /\ waking' \in [Threads -> WakeRec]
  BY TypesAre DEF Typed, WakeOK

\* A step of a worker leaves the calls alone, as long as it is in no call
\* itself, has been let go, and does not go back to being unborn.
LEMMA CallsStay ==
    ASSUME Typed, NEW w \in Workers, WorkerEffect(w), UNCHANGED setting,
           setting[w].step = "none" \/ pc'[w] = pc[w],
           pc[w] # "init" \/ pc'[w] = pc[w],
           m_state'[w] # "UNBORN"
    PROVE  /\ \A u \in Callers : CallOK(u)'
           /\ setting' \in [Threads -> CallRec]
  <1>1. /\ setting \in [Threads -> CallRec] /\ WorkerOK(w)
        /\ \A u \in Callers : CallOK(u)
    BY TypesAre DEF Typed
  <1>2. \A v \in Workers : m_state'[v] = "UNBORN" => m_state[v] = "UNBORN"
    BY DEF WorkerEffect, OthersStay
  <1>3. ASSUME NEW u \in Callers PROVE CallOK(u)'
    <2>1. setting[u].step = "assign" => pc'[setting[u].at] = "init"
      BY <1>1 DEF CallOK, WorkerEffect, OthersStay
    <2>2. setting[u].step # "none" /\ u # Owner => pc'[u] = "job"
      <3> SUFFICES ASSUME setting[u].step # "none", u # Owner
                   PROVE  pc'[u] = "job"
        OBVIOUS
      <3>1. u \in Workers /\ pc[u] = "job"
        BY <1>1 DEF CallOK, Callers
      <3> QED BY <3>1 DEF WorkerEffect, OthersStay
    <2> QED BY <1>2, <2>1, <2>2, CallStays
  <1> QED BY <1>1, <1>3

\* What is left to show of a step of a worker.
LEMMA TypedWorker ==
    ASSUME Typed, NEW w \in Workers,
           \/ Plain(w) \/ Publish(w) \/ Erase(w) \/ Epilogue(w)
    PROVE  Typed'
  <1>1. WorkerEffect(w)
    BY EffectPlain, EffectPublish, EffectErase, EffectEpilogue
  <1>2. \A v \in Workers : WorkerOK(v)'
    BY <1>1, WorkersStay
  <1>3. /\ UNCHANGED <<n_threads, setting, script, pool, undefined, m_serv,
                       posts, stolen, lost>>
        /\ setting[w].step = "none" /\ pc[w] \notin {"init", "unborn"}
    BY DEF Plain, MustDie, DieBusy, DieAsleep, DoWork, JobEnds, SleepTest,
           TestWork, Sleep, SpuriousWakeup, Woken, CollectEnds, Exit, Publish, Erase,
           Epilogue, OnlySleep, OnlyWorker, counters, client, history, At
  <1>4. (\A u \in Callers : CallOK(u)') /\ setting' \in [Threads -> CallRec]
    <2>1. WorkerTypes /\ WorkerOK(w)
      BY TypesAre DEF Typed
    <2>2. m_state[w] # "UNBORN"
      BY <1>3, <2>1 DEF WorkerOK
    <2>3. m_state'[w] # "UNBORN"
      BY <2>1, <2>2
         DEF WorkerTypes, Plain, MustDie, DieBusy, DieAsleep, DoWork, JobEnds,
             SleepTest, TestWork, Sleep, SpuriousWakeup, Woken, CollectEnds, Exit, Publish,
             Erase, Epilogue, Become, OnlySleep
    <2> QED BY <1>1, <1>3, <2>3, CallsStay
  <1>5. /\ NumberTypes /\ OtherTypes /\ waking \in [Threads -> WakeRec]
        /\ w \in Threads
    BY TypesAre DEF Typed, Threads
  <1>6. NumberTypes'
    BY <1>3, <1>5
       DEF Plain, MustDie, DieBusy, DieAsleep, DoWork, JobEnds, SleepTest,
           TestWork, Sleep, SpuriousWakeup, Woken, CollectEnds, Exit, Publish, Erase,
           Epilogue, OnlySleep, counters, NumberTypes
  <1>7. pending' \in Nat
    BY <1>3, <1>5
       DEF Plain, MustDie, DieBusy, DieAsleep, DoWork, JobEnds, SleepTest,
           TestWork, Sleep, SpuriousWakeup, Woken, CollectEnds, Exit, Publish, Erase,
           Epilogue, OnlySleep, client, OtherTypes, HasWork
  <1>8. OtherTypes'
    BY <1>3, <1>5, <1>7 DEF OtherTypes
  <1>9. UNCHANGED waking \/ StartWaking(w, 1)
    BY DEF Plain, MustDie, DieBusy, DieAsleep, DoWork, JobEnds, SleepTest,
           TestWork, Sleep, SpuriousWakeup, Woken, CollectEnds, Exit, Publish, Erase,
           Epilogue, OnlySleep, OnlyWorker
  <1>10. (\A u \in Threads : WakeOK(u)') /\ waking' \in [Threads -> WakeRec]
    <2>1. CASE UNCHANGED waking
      BY <2>1, NoWakeStays
    <2>2. CASE StartWaking(w, 1)
      <3>1. Woke(w, 1, NoWorker, "pop")
        BY <1>5, <2>2, StartsWaking
      <3> QED BY <1>5, <3>1, WakesStay DEF Woke
    <2> QED BY <1>9, <2>1, <2>2
  <1>11. TypeOK'
    BY <1>1, <1>4, <1>6, <1>8, <1>10, TypesAreNext DEF WorkerEffect
  <1> QED BY <1>2, <1>4, <1>10, <1>11 DEF Typed

\* Nothing but the waking, or the place of a worker that is not in a call.
LEMMA TypedWake ==
    ASSUME Typed, NEW t \in Threads, WakePop(t) \/ WakeWorker(t) \/ WakeNotify(t)
    PROVE  Typed'
  <1>1. /\ UNCHANGED <<counters, client, setting, script, pool, undefined, lost>>
        /\ waking[t].left > 0
    BY DEF WakePop, WakeWorker, WakeTry, WakeNotify, OnlyWaking, Wake
  <1>2. /\ NumberTypes /\ OtherTypes /\ waking \in [Threads -> WakeRec]
        /\ setting \in [Threads -> CallRec] /\ ListTypes /\ WorkerTypes
        /\ \A u \in Callers : CallOK(u)
    BY TypesAre DEF Typed
  <1>3. NumberTypes' /\ setting' \in [Threads -> CallRec]
    BY <1>1, <1>2 DEF NumberTypes, counters
  <1>4. OtherTypes'
    <2>1. stolen' \in BOOLEAN
      BY <1>2 DEF OtherTypes, WakePop, WakeWorker, WakeTry, WakeNotify
    <2> QED BY <1>1, <1>2, <2>1 DEF OtherTypes, client
  <1>5. /\ \A w \in Workers : WorkerOK(w)'
        /\ WorkerTypes' /\ ListTypes'
        /\ \A u \in Callers : CallOK(u)'
        /\ \A u \in Threads : WakeOK(u)'
        /\ waking' \in [Threads -> WakeRec]
    <2>1. CASE WakePop(t)
      <3>1. /\ \A w \in Workers : WorkerOK(w)'
            /\ ListTypes' /\ UNCHANGED <<m_state, pc, asleep, collect>>
            /\ \/ Woke(t, 0, NoWorker, "pop")
               \/ \E w \in Workers : Woke(t, waking[t].left, w, "first")
        BY <2>1, EffectWakePop
      <3>2. WorkerTypes' /\ \A u \in Callers : CallOK(u)'
        BY <1>1, <1>2, <3>1 DEF WorkerTypes, CallOK
      <3>3. \A u \in Threads : WakeOK(u)'
        BY <1>1, <3>1, WakesStay
      <3> QED BY <3>1, <3>2, <3>3 DEF Woke
    <2>2. ASSUME NEW step, NEW from, NEW other,
                 <<step, from, other>> \in {<<"first", "SLEEP_TEST", "second">>,
                                            <<"second", "SLEEP", "pop">>},
                 WakeTry(t, step, from, other)
          PROVE  /\ \A w \in Workers : WorkerOK(w)'
                 /\ WorkerTypes' /\ ListTypes'
                 /\ \A u \in Callers : CallOK(u)'
                 /\ \A u \in Threads : WakeOK(u)'
                 /\ waking' \in [Threads -> WakeRec]
      <3>1. PICK w : w = waking[t].at
        OBVIOUS
      <3>2. /\ w \in Workers /\ WorkerEffect(w) /\ pc' = pc
            /\ \/ m_state' = [m_state EXCEPT ![w] = "BUSY"]
               \/ UNCHANGED m_state
            /\ \/ Woke(t, waking[t].left, w, "notify")
               \/ Woke(t, waking[t].left,
                       IF other = "pop" THEN NoWorker ELSE w, other)
        BY <2>2, <3>1, EffectWakeTry
      <3>3. \A u \in Threads : WakeOK(u)'
        BY <1>1, <3>2, WakesStay
      <3>4. waking' \in [Threads -> WakeRec]
        BY <3>2 DEF Woke
      <3>5. \A v \in Workers : m_state'[v] = "UNBORN" => m_state[v] = "UNBORN"
        BY <1>2, <3>2 DEF WorkerTypes
      <3>6. \A u \in Callers : CallOK(u)'
        BY <1>1, <1>2, <3>2, <3>5 DEF CallOK
      <3> QED BY <3>2, <3>3, <3>4, <3>6, WorkersStay DEF WorkerEffect
    <2>3. CASE WakeNotify(t)
      <3>1. PICK w : w = waking[t].at
        OBVIOUS
      <3>2. /\ w \in Workers /\ Notify(w)
            /\ UNCHANGED <<lists, m_state, asleep, collect>>
        BY <2>3, <3>1 DEF Typed, WakeOK, WakeNotify, Wake, OnlyWaking
      <3>3. WorkerEffect(w)
        BY <3>2, EffectNotify
      <3>4. \E n \in Nat : Woke(t, n, NoWorker, "pop")
        BY <1>2, <2>3, NotifyWaking
      <3>5. (\A u \in Threads : WakeOK(u)') /\ waking' \in [Threads -> WakeRec]
        BY <3>4, WakesStay DEF Woke
      <3>6. \A v \in Workers : pc[v] # "wait" => pc'[v] = pc[v]
        BY <1>2, <3>2 DEF Notify, WorkerTypes
      <3>7. ASSUME NEW u \in Callers PROVE CallOK(u)'
        <4>1. CallOK(u)
          BY <1>2
        <4>2. u # Owner => u \in Workers
          BY DEF Callers
        <4> QED BY <1>1, <3>2, <3>6, <4>1, <4>2 DEF CallOK
      <3> QED BY <3>2, <3>3, <3>5, <3>7, WorkersStay DEF WorkerEffect
    <2> QED BY <2>1, <2>2, <2>3 DEF WakeWorker
  <1> QED BY <1>3, <1>4, <1>5, TypesAreNext DEF Typed

\* A dead worker is deleted, by a worker or by the destructor.
LEMMA TypedCollect ==
    ASSUME Typed, CollectOne,
           UNCHANGED <<counters, client, pc, asleep, collect, waking, setting,
                       script, pool, undefined, history>>
    PROVE  Typed'
  <1>1. PICK w : w = Head(m_dead)
    OBVIOUS
  <1>2. /\ w \in Workers /\ WorkerEffect(w)
        /\ m_state' = [m_state EXCEPT ![w] = "DELETED"]
    BY <1>1, EffectCollectOne
  <1>3. /\ TypeOK /\ WorkerTypes
    BY TypesAre DEF Typed
  <1>4. m_state'[w] # "UNBORN"
    BY <1>2, <1>3 DEF WorkerTypes
  <1>5. (\A u \in Callers : CallOK(u)') /\ setting' \in [Threads -> CallRec]
    BY <1>2, <1>4, CallsStay
  <1>6. (\A u \in Threads : WakeOK(u)') /\ waking' \in [Threads -> WakeRec]
    BY NoWakeStays
  <1>7. NumberTypes' /\ OtherTypes'
    BY <1>3, TypesAre DEF NumberTypes, OtherTypes, counters, client, history
  <1> QED BY <1>2, <1>5, <1>6, <1>7, WorkersStay, TypesAreNext
          DEF Typed, WorkerEffect

\* A deleted worker or pool is used: nothing else happens.
LEMMA TypedUndefined ==
    ASSUME Typed, Undefined
    PROVE  Typed'
  <1>1. TypeOK'
    BY DEF Typed, TypeOK, Undefined, counters, lists, client, workers, history
  <1>2. \A w \in Workers : WorkerOK(w)'
    BY DEF Typed, WorkerOK, Undefined, lists, workers, Idle, Dead
  <1>3. \A t \in Callers : CallOK(t)'
    BY DEF Typed, CallOK, Undefined, workers
  <1>4. \A t \in Threads : WakeOK(t)'
    BY DEF Typed, WakeOK, Undefined
  <1> QED BY <1>1, <1>2, <1>3, <1>4 DEF Typed

\* What a call may become.
CallMayBe(t, step, n, old, at, d) ==
    /\ step = "cancel" => old < n
    /\ step \in {"kill", "oversize"} => old > n
    /\ step \in {"kill", "kill_notify"} =>
         at \in Workers /\ m_state'[at] # "UNBORN"
    /\ step = "assign" => at \in Workers /\ pc'[at] = "init"
    /\ step # "none" => t = Owner \/ pc[t] = "job"
    /\ step = "delete" => t = Owner
    /\ step \in {"detach", "delete"} => d
    /\ step = "none" => ~d

\* The workers do not disturb the calls that they are in, or that are about
\* them.
KeepsCalls(t) ==
    /\ \A v \in Workers : m_state'[v] = "UNBORN" => m_state[v] = "UNBORN"
    /\ \A v \in Workers : pc[v] = "job" => pc'[v] = "job"
    /\ \A u \in Callers \ {t} :
          setting[u].step = "assign" => pc'[setting[u].at] = "init"

WorkersOK == WorkerTypes /\ ListTypes /\ \A w \in Workers : WorkerOK(w)

LEMMA TypedCalling ==
    ASSUME Typed, NEW t \in Callers, NEW step, NEW n, NEW old, NEW at, NEW d,
           Calling(t, step, n, old, at, d), CallMayBe(t, step, n, old, at, d),
           KeepsCalls(t), WorkersOK', NumberTypes', OtherTypes',
           \A u \in Threads : WakeOK(u)', waking' \in [Threads -> WakeRec]
    PROVE  Typed'
  <1>1. ASSUME NEW u \in Callers PROVE CallOK(u)'
    <2>1. CASE u # t
      <3>1. setting'[u] = setting[u]
        BY <2>1, CallsAreThreads DEF Calling
      <3>2. setting[u].step # "none" /\ u # Owner => pc'[u] = "job"
        BY DEF Typed, CallOK, KeepsCalls, Callers
      <3> QED BY <2>1, <3>1, <3>2, CallStays DEF KeepsCalls
    <2>2. CASE u = t
      <3>1. step # "none" => t = Owner \/ pc'[t] = "job"
        BY DEF CallMayBe, KeepsCalls, Callers
      <3> QED BY <2>2, <3>1 DEF Calling, Is, CallOK, CallMayBe
    <2> QED BY <2>1, <2>2
  <1>2. setting' \in [Threads -> CallRec]
    BY DEF Calling
  <1> QED BY <1>1, <1>2, TypesAreNext DEF Typed, WorkersOK

\* Steps of a call that leave the workers and their wakeups alone.
LEMMA KeepsSame ==
    ASSUME Typed, NEW t \in Callers, UNCHANGED <<m_state, pc>>
    PROVE  KeepsCalls(t)
  BY DEF Typed, CallOK, KeepsCalls

LEMMA SameOK ==
    ASSUME Typed, SameWorkers
    PROVE  WorkersOK'
  BY SameWorkersStay DEF WorkersOK

LEMMA Unchanged ==
    ASSUME Typed, UNCHANGED <<m_serv, posts, pending, pool, undefined, stolen>>,
           UNCHANGED script \/ script' \in Seq(Calls),
           UNCHANGED lost \/ lost' \in BOOLEAN
    PROVE  OtherTypes'
  BY TypesAre DEF Typed, OtherTypes

LEMMA TypedReturn ==
    ASSUME Typed, NEW t \in Callers, Return(t),
           setting[t].step \in {"create", "oversize"},
           KeepsCalls(t), WorkersOK', NumberTypes', OtherTypes',
           \A u \in Threads : WakeOK(u)', waking' \in [Threads -> WakeRec]
    PROVE  Typed'
  <1>1. t = Owner \/ pc[t] = "job"
    BY SettingIs DEF CallOK
  <1>2. CASE setting[t].destroy
    <2>1. Calling(t, "detach", setting[t].n, setting[t].old, setting[t].at, TRUE)
      BY <1>2, CallingReturn
    <2>2. CallMayBe(t, "detach", setting[t].n, setting[t].old, setting[t].at,
                    TRUE)
      BY <1>1 DEF CallMayBe
    <2> QED BY <2>1, <2>2, TypedCalling
  <1>3. CASE ~setting[t].destroy
    <2>1. Calling(t, "none", 0, 0, NoWorker, FALSE)
      BY <1>3, CallingReturn
    <2>2. CallMayBe(t, "none", 0, 0, NoWorker, FALSE)
      BY <1>1 DEF CallMayBe
    <2> QED BY <2>1, <2>2, TypedCalling
  <1> QED BY <1>2, <1>3

LEMMA TypedCallStep ==
    ASSUME Typed, NEW t \in Callers,
           \/ SetNThreads(t) \/ Destroy(t) \/ CancelDeaths(t)
    PROVE  Typed'
  <1>1. SetNThreads(t) \/ Destroy(t) =>
          \E n \in Nat, d \in BOOLEAN :
             /\ Exchange(t, n, d) /\ (t = Owner \/ pc[t] = "job")
             /\ script' \in Seq(Calls)
             /\ UNCHANGED <<n_oversize, n_active, lists, client, workers,
                            waking, pool, undefined, history>>
    <2>1. CASE SetNThreads(t)
      BY <2>1, CallMade DEF SetNThreads
    <2>2. CASE Destroy(t)
      BY <2>2, CallMade DEF Destroy
    <2> QED BY <2>1, <2>2
  <1>2. NumberTypes
    BY TypesAre DEF Typed
  <1>3. ASSUME NEW n \in Nat, NEW d \in BOOLEAN, Exchange(t, n, d),
               t = Owner \/ pc[t] = "job", script' \in Seq(Calls),
               UNCHANGED <<n_oversize, n_active, lists, client, workers,
                           waking, pool, undefined, history>>
        PROVE  Typed'
    <2> DEFINE x == IF n_threads < n THEN "cancel" ELSE "create"
    <2>1. n_threads \in Nat /\ Calling(t, x, n, n_threads, NoWorker, d)
      BY <1>3, CallingExchange
    <2>2. CallMayBe(t, x, n, n_threads, NoWorker, d)
      BY <1>3, <2>1 DEF CallMayBe
    <2>3. NumberTypes'
      BY <1>2, <1>3, <2>1, CallingExchange DEF NumberTypes
    <2>4. SameWorkers /\ UNCHANGED waking
      BY <1>3 DEF SameWorkers
    <2>5. OtherTypes'
      BY <1>3, Unchanged DEF client, history
    <2>6. KeepsCalls(t)
      BY <1>3, KeepsSame DEF workers
    <2> HIDE DEF x
    <2> QED BY <2>1, <2>2, <2>3, <2>4, <2>5, <2>6, SameOK, NoWakeStays,
               TypedCalling
  <1>4. CASE CancelDeaths(t)
    <2>1. PICK r \in Nat :
             /\ r <= n_oversize /\ n_oversize' = n_oversize - r
             /\ Calling(t, "create", setting[t].n, setting[t].old + r,
                        setting[t].at, setting[t].destroy)
      BY <1>4, CallingCancel
    <2>2. /\ setting[t].step = "cancel" /\ SameWorkers
          /\ UNCHANGED <<n_threads, n_active, waking>>
      BY <1>4, CallingCancel
    <2>3. NumberTypes'
      BY <1>2, <2>1, <2>2 DEF NumberTypes
    <2>4. OtherTypes'
      BY <1>4, Unchanged DEF CancelDeaths, OnlySetting, client, history
    <2>5. KeepsCalls(t)
      BY <2>2, KeepsSame DEF SameWorkers, workers
    <2>6. CallMayBe(t, "create", setting[t].n, setting[t].old + r,
                    setting[t].at, setting[t].destroy)
      BY <2>2, SettingIs DEF CallOK, CallMayBe
    <2> QED BY <2>1, <2>2, <2>3, <2>4, <2>5, <2>6, SameOK, NoWakeStays,
               TypedCalling
  <1> QED BY <1>1, <1>3, <1>4

LEMMA TypedCreate ==
    ASSUME Typed, NEW t \in Callers, CreateWorker(t)
    PROVE  Typed'
  <1>1. PICK w \in Workers :
           /\ setting[t].step = "create" /\ m_state[w] = "UNBORN"
           /\ m_state' = [m_state EXCEPT ![w] = "BUSY"]
           /\ pc' = [pc EXCEPT ![w] = "init"] /\ WorkerEffect(w)
           /\ Calling(t, "assign", setting[t].n, setting[t].old + 1, w,
                      setting[t].destroy)
           /\ UNCHANGED <<counters, waking>>
    BY CallingCreate
  <1>2. /\ WorkerTypes /\ NumberTypes /\ CallOK(t) /\ WorkerOK(w)
        /\ \A v \in Workers : WorkerOK(v)
    BY TypesAre DEF Typed
  <1>3. pc[w] = "unborn" /\ pc'[w] = "init"
    BY <1>1, <1>2 DEF WorkerOK, WorkerTypes
  <1>4. KeepsCalls(t)
    <2>1. \A v \in Workers : m_state'[v] = "UNBORN" => m_state[v] = "UNBORN"
      BY <1>1, <1>2 DEF WorkerTypes
    <2>2. \A v \in Workers : pc[v] = "job" => pc'[v] = "job"
      BY <1>1, <1>2, <1>3 DEF WorkerTypes
    <2>3. ASSUME NEW u \in Callers \ {t}, setting[u].step = "assign"
          PROVE  pc'[setting[u].at] = "init"
      <3>1. setting[u].at \in Workers /\ pc[setting[u].at] = "init"
        BY <2>3 DEF Typed, CallOK
      <3> QED BY <1>1, <1>2, <3>1 DEF WorkerTypes
    <2> QED BY <2>1, <2>2, <2>3 DEF KeepsCalls
  <1>5. CallMayBe(t, "assign", setting[t].n, setting[t].old + 1, w,
                  setting[t].destroy)
    BY <1>1, <1>2, <1>3 DEF CallOK, CallMayBe
  <1>6. NumberTypes'
    BY <1>1, <1>2 DEF NumberTypes, counters
  <1>7. OtherTypes'
    BY Unchanged DEF CreateWorker, OnlySetting, client, history
  <1>8. WorkersOK'
    BY <1>1, WorkersStay DEF WorkersOK, WorkerEffect
  <1> QED BY <1>1, <1>4, <1>5, <1>6, <1>7, <1>8, NoWakeStays, TypedCalling

LEMMA TypedAssign ==
    ASSUME Typed, Assigned, NEW t \in Callers, AssignThread(t)
    PROVE  Typed'
  <1>1. PICK w : w = setting[t].at
    OBVIOUS
  <1>2. /\ setting[t].step = "assign" /\ w \in Workers /\ pc[w] = "init"
        /\ pc' = [pc EXCEPT ![w] = "must_die"] /\ WorkerEffect(w)
        /\ n_active' \in Nat /\ lost' \in BOOLEAN
        /\ Calling(t, "create", setting[t].n, setting[t].old, NoWorker,
                   setting[t].destroy)
        /\ UNCHANGED <<n_threads, n_oversize, m_state, waking>>
    BY <1>1, CallingAssign
  <1>3. /\ WorkerTypes /\ NumberTypes /\ CallOK(t)
    BY TypesAre DEF Typed
  <1>4. KeepsCalls(t)
    <2>1. \A v \in Workers : pc[v] = "job" => pc'[v] = "job"
      BY <1>2, <1>3 DEF WorkerTypes
    <2>2. ASSUME NEW u \in Callers \ {t}, setting[u].step = "assign"
          PROVE  pc'[setting[u].at] = "init"
      <3>1. setting[u].at \in Workers /\ pc[setting[u].at] = "init"
        BY <2>2 DEF Typed, CallOK
      <3>2. setting[u].at # w
        BY <1>1, <1>2, <2>2 DEF Assigned, Assigning
      <3> QED BY <1>2, <1>3, <3>1, <3>2 DEF WorkerTypes
    <2> QED BY <1>2, <2>1, <2>2 DEF KeepsCalls
  <1>5. CallMayBe(t, "create", setting[t].n, setting[t].old, NoWorker,
                  setting[t].destroy)
    BY <1>2, <1>3 DEF CallOK, CallMayBe
  <1>6. NumberTypes'
    BY <1>2, <1>3 DEF NumberTypes
  <1>7. OtherTypes'
    <2>1. UNCHANGED <<m_serv, posts, pending, pool, undefined, stolen, script>>
      BY DEF AssignThread, client
    <2> QED BY <1>2, <2>1, Unchanged
  <1>8. WorkersOK'
    BY <1>2, WorkersStay DEF WorkersOK, WorkerEffect
  <1> QED BY <1>2, <1>4, <1>5, <1>6, <1>7, <1>8, NoWakeStays, TypedCalling

LEMMA TypedKillPop ==
    ASSUME Typed, NEW t \in Callers, KillPop(t)
    PROVE  Typed'
  <1>1. /\ setting[t].step = "create" /\ ListTypes'
        /\ \A w \in Workers : WorkerOK(w)'
        /\ UNCHANGED <<counters, workers, waking>>
    BY CallingKillPop
  <1>2. WorkerTypes /\ NumberTypes /\ CallOK(t)
    BY TypesAre DEF Typed
  <1>3. KeepsCalls(t)
    BY <1>1, KeepsSame DEF workers
  <1>4. NumberTypes' /\ WorkersOK'
    BY <1>1, <1>2 DEF NumberTypes, counters, workers, WorkersOK, WorkerTypes
  <1>5. OtherTypes'
    BY Unchanged DEF KillPop, OnlySetting, client, history
  <1>6. (\A u \in Threads : WakeOK(u)') /\ waking' \in [Threads -> WakeRec]
    BY <1>1, NoWakeStays
  <1>7. ASSUME NEW w \in Workers, setting[t].old > setting[t].n, w \in Idle,
               Calling(t, "kill", setting[t].n, setting[t].old, w,
                       setting[t].destroy)
        PROVE  Typed'
    <2>1. m_state'[w] # "UNBORN"
      BY <1>1, <1>7 DEF Typed, WorkerOK, workers
    <2>2. CallMayBe(t, "kill", setting[t].n, setting[t].old, w,
                    setting[t].destroy)
      BY <1>1, <1>2, <1>7, <2>1 DEF CallOK, CallMayBe
    <2> QED BY <1>3, <1>4, <1>5, <1>6, <1>7, <2>2, TypedCalling
  <1>8. CASE /\ setting[t].old > setting[t].n
             /\ Calling(t, "oversize", setting[t].n, setting[t].old,
                        setting[t].at, setting[t].destroy)
    <2>1. CallMayBe(t, "oversize", setting[t].n, setting[t].old, setting[t].at,
                    setting[t].destroy)
      BY <1>1, <1>2, <1>8 DEF CallOK, CallMayBe
    <2> QED BY <1>3, <1>4, <1>5, <1>6, <1>8, <2>1, TypedCalling
  <1>9. CASE Return(t)
    BY <1>1, <1>3, <1>4, <1>5, <1>6, <1>9, TypedReturn
  <1> QED BY <1>7, <1>8, <1>9, CallingKillPop

LEMMA TypedKill ==
    ASSUME Typed, NEW t \in Callers, Kill(t)
    PROVE  Typed'
  <1>1. PICK w : w = setting[t].at
    OBVIOUS
  <1> DEFINE x == IF m_state[w] \in {"SLEEP", "SLEEP_TEST"}
                  THEN "kill_notify" ELSE "create"
  <1> DEFINE y == IF m_state[w] = "DYING" THEN setting[t].old
                  ELSE setting[t].old - 1
  <1>2. /\ setting[t].step = "kill" /\ w \in Workers
        /\ m_state' = [m_state EXCEPT ![w] = "DYING"] /\ WorkerEffect(w)
        /\ Calling(t, x, setting[t].n, y, w, setting[t].destroy)
        /\ UNCHANGED <<counters, waking, pc>>
    BY <1>1, CallingKill
  <1>3. /\ WorkerTypes /\ NumberTypes /\ CallOK(t)
        /\ \A u \in Callers : CallOK(u)
    BY TypesAre DEF Typed
  <1>4. KeepsCalls(t)
    <2>1. \A v \in Workers : m_state'[v] = "UNBORN" => m_state[v] = "UNBORN"
      BY <1>2, <1>3 DEF WorkerTypes
    <2> QED BY <1>2, <1>3, <2>1 DEF KeepsCalls, CallOK
  <1>5. CallMayBe(t, x, setting[t].n, y, w, setting[t].destroy)
    <2>1. m_state'[w] # "UNBORN"
      BY <1>2, <1>3 DEF WorkerTypes
    <2> QED BY <1>2, <1>3, <2>1 DEF CallOK, CallMayBe
  <1>6. NumberTypes'
    BY <1>2, <1>3 DEF NumberTypes, counters
  <1>7. OtherTypes'
    BY Unchanged DEF Kill, OnlySetting, client, history
  <1>8. WorkersOK'
    BY <1>2, WorkersStay DEF WorkersOK, WorkerEffect
  <1> HIDE DEF x, y
  <1> QED BY <1>2, <1>4, <1>5, <1>6, <1>7, <1>8, NoWakeStays, TypedCalling

LEMMA TypedKillNotify ==
    ASSUME Typed, NEW t \in Callers, KillNotify(t)
    PROVE  Typed'
  <1>1. PICK w : w = setting[t].at
    OBVIOUS
  <1>2. /\ setting[t].step = "kill_notify" /\ w \in Workers /\ WorkerEffect(w)
        /\ Calling(t, "create", setting[t].n, setting[t].old, w,
                   setting[t].destroy)
        /\ UNCHANGED <<counters, waking, m_state>>
        /\ pc[w] # "wait" => pc' = pc
    BY <1>1, CallingKillNotify
  <1>3. /\ WorkerTypes /\ NumberTypes /\ CallOK(t)
        /\ \A u \in Callers : CallOK(u)
    BY TypesAre DEF Typed
  <1>4. KeepsCalls(t)
    <2>1. \A v \in Workers : pc[v] # "wait" => pc'[v] = pc[v]
      BY <1>2 DEF WorkerEffect, OthersStay
    <2> QED BY <1>2, <1>3, <2>1 DEF KeepsCalls, CallOK
  <1>5. CallMayBe(t, "create", setting[t].n, setting[t].old, w,
                  setting[t].destroy)
    BY <1>2, <1>3 DEF CallOK, CallMayBe
  <1>6. NumberTypes'
    BY <1>2, <1>3 DEF NumberTypes, counters
  <1>7. OtherTypes'
    BY Unchanged DEF KillNotify, OnlySetting, client, history
  <1>8. WorkersOK'
    BY <1>2, WorkersStay DEF WorkersOK, WorkerEffect
  <1> QED BY <1>2, <1>4, <1>5, <1>6, <1>7, <1>8, NoWakeStays, TypedCalling

LEMMA TypedOversize ==
    ASSUME Typed, NEW t \in Callers, PublishOversize(t)
    PROVE  Typed'
  <1>1. /\ setting[t].step = "oversize" /\ More(t) \in Nat
        /\ n_oversize' = n_oversize + More(t)
        /\ Woke(t, More(t), NoWorker, "pop") /\ Return(t) /\ WorkersOK'
        /\ Suicide(t) /\ UNCHANGED <<n_threads, n_active, pc>>
    BY CallingOversize DEF WorkersOK
  <1>2. /\ WorkerTypes /\ NumberTypes /\ t \in Threads
        /\ \A u \in Callers : CallOK(u)
    BY TypesAre, SettingIs DEF Typed
  <1>3. KeepsCalls(t)
    <2>1. \A v \in Workers : m_state'[v] = "UNBORN" => m_state[v] = "UNBORN"
      BY <1>1, <1>2 DEF WorkerTypes, Suicide, Become
    <2> QED BY <1>1, <1>2, <2>1 DEF KeepsCalls, CallOK
  <1>4. NumberTypes'
    BY <1>1, <1>2 DEF NumberTypes
  <1>5. OtherTypes'
    BY Unchanged DEF PublishOversize, OnlySetting, client, history
  <1>6. (\A u \in Threads : WakeOK(u)') /\ waking' \in [Threads -> WakeRec]
    BY <1>1, <1>2, WakesStay DEF Woke
  <1> QED BY <1>1, <1>3, <1>4, <1>5, <1>6, TypedReturn

LEMMA TypedDetach ==
    ASSUME Typed, NEW t \in Callers, Detach(t)
    PROVE  Typed'
  <1>1. /\ setting[t].step = "detach" /\ setting[t].destroy
        /\ WorkersOK'
        /\ UNCHANGED <<counters, m_state, pc, waking>>
    BY CallingDetach DEF WorkersOK
  <1>2. NumberTypes /\ OtherTypes
    BY TypesAre DEF Typed
  <1>3. NumberTypes' /\ KeepsCalls(t)
    BY <1>1, <1>2, KeepsSame DEF NumberTypes, counters
  <1>4. OtherTypes'
    BY <1>2 DEF Detach, OtherTypes, history
  <1>5. CASE Calling(t, "none", 0, 0, NoWorker, FALSE)
    <2>1. CallMayBe(t, "none", 0, 0, NoWorker, FALSE)
      BY DEF CallMayBe
    <2> QED BY <1>1, <1>3, <1>4, <1>5, <2>1, NoWakeStays, TypedCalling
  <1>6. CASE /\ t = Owner
             /\ Calling(t, "delete", setting[t].n, setting[t].old,
                        setting[t].at, TRUE)
    <2>1. CallMayBe(t, "delete", setting[t].n, setting[t].old, setting[t].at,
                    TRUE)
      BY <1>6 DEF CallMayBe
    <2> QED BY <1>1, <1>3, <1>4, <1>6, <2>1, NoWakeStays, TypedCalling
  <1> QED BY <1>5, <1>6, CallingDetach

\* attach() and the client only wake workers.
LEMMA TypedWakers ==
    ASSUME Typed, Post \/ \E t \in Callers : Attach(t)
    PROVE  Typed'
  <1>1. /\ SameWorkers /\ UNCHANGED <<counters, setting>>
    BY DEF Post, Attach, SameWorkers
  <1>2. /\ NumberTypes /\ OtherTypes /\ waking \in [Threads -> WakeRec]
        /\ setting \in [Threads -> CallRec] /\ \A u \in Callers : CallOK(u)
    BY TypesAre DEF Typed
  <1>3. NumberTypes' /\ setting' \in [Threads -> CallRec]
    BY <1>1, <1>2 DEF NumberTypes, counters
  <1>4. OtherTypes'
    <2>1. CASE Post
      BY <1>2, <2>1 DEF Post, OtherTypes, history
    <2>2. ASSUME NEW t \in Callers, Attach(t) PROVE OtherTypes'
      <3>1. script' \in Seq(Calls)
        BY <2>2, CallMade DEF Attach
      <3> QED BY <1>2, <2>2, <3>1 DEF Attach, OtherTypes, history
    <2> QED BY <2>1, <2>2
  <1>5. \A u \in Callers : CallOK(u)'
    BY <1>1, <1>2 DEF CallOK, SameWorkers, workers
  <1>6. UNCHANGED waking \/ \E t \in Threads, n \in Nat \ {0} : StartWaking(t, n)
    <2>1. WakeAll \in Nat \ {0}
      BY FS_CardinalityType, WorkersAssumption DEF WakeAll
    <2>2. Poster \in Threads /\ Callers \subseteq Threads
      BY DEF Threads, Callers
    <2> QED BY <2>1, <2>2 DEF Post, Attach
  <1>7. (\A u \in Threads : WakeOK(u)') /\ waking' \in [Threads -> WakeRec]
    <2>1. CASE UNCHANGED waking
      BY <2>1, NoWakeStays
    <2>2. ASSUME NEW t \in Threads, NEW n \in Nat \ {0}, StartWaking(t, n)
          PROVE  (\A u \in Threads : WakeOK(u)')
                 /\ waking' \in [Threads -> WakeRec]
      <3>1. Woke(t, n, NoWorker, "pop")
        BY <1>2, <2>2, StartsWaking
      <3> QED BY <3>1, WakesStay DEF Woke
    <2> QED BY <1>6, <2>1, <2>2
  <1>8. WorkersOK'
    BY <1>1, SameOK
  <1> QED BY <1>3, <1>4, <1>5, <1>7, <1>8, TypesAreNext DEF Typed, WorkersOK

LEMMA TypedDestroyEnds ==
    ASSUME Typed, NEW t \in Callers, DestroyEnds(t)
    PROVE  Typed'
  <1>1. NumberTypes /\ OtherTypes /\ WorkerTypes
    BY TypesAre DEF Typed
  <1>2. NumberTypes' /\ OtherTypes'
    BY <1>1 DEF DestroyEnds, NumberTypes, OtherTypes, counters, client, history
  <1>3. (\A u \in Threads : WakeOK(u)') /\ waking' \in [Threads -> WakeRec]
    BY NoWakeStays DEF DestroyEnds
  <1>4. CASE t = Owner
    <2>1. SameWorkers /\ Set(t, NotSetting)
      BY <1>4 DEF DestroyEnds, SameWorkers, workers, Set
    <2>2. Calling(t, "none", 0, 0, NoWorker, FALSE)
      BY <2>1, NotSettingIs, SettingIs, SetTo
    <2>3. CallMayBe(t, "none", 0, 0, NoWorker, FALSE)
      BY DEF CallMayBe
    <2>4. KeepsCalls(t)
      BY <2>1, KeepsSame DEF SameWorkers, workers
    <2> QED BY <1>2, <1>3, <2>1, <2>2, <2>3, <2>4, SameOK, TypedCalling
  <1>5. CASE t # Owner
    <2>1. t \in Workers
      BY <1>5 DEF Callers
    <2>2. WorkerEffect(t) /\ UNCHANGED setting
      BY <1>5, <2>1, EffectDestroyEnds
    <2>3. /\ setting[t].step = "none" /\ pc[t] = "destroy"
          /\ m_state'[t] # "UNBORN"
      BY <1>1, <1>5, <2>1 DEF DestroyEnds, Destroying, At, Become, WorkerTypes
    <2>4. (\A u \in Callers : CallOK(u)') /\ setting' \in [Threads -> CallRec]
      BY <2>1, <2>2, <2>3, CallsStay
    <2> QED BY <1>2, <1>3, <2>1, <2>2, <2>4, WorkersStay, TypesAreNext
            DEF Typed, WorkerEffect
  <1> QED BY <1>4, <1>5

\* Next, action by action.
WorkerActions(w) == Plain(w) \/ Publish(w) \/ Erase(w) \/ Epilogue(w)
CollectActions ==
    /\ CollectOne
    /\ UNCHANGED <<counters, client, pc, asleep, collect, waking, setting,
                   script, pool, undefined, history>>

LEMMA NextIs ==
    ASSUME Next
    PROVE  \/ \E w \in Workers : WorkerActions(w)
           \/ CollectActions
           \/ \E t \in Threads : WakePop(t) \/ WakeWorker(t) \/ WakeNotify(t)
           \/ Undefined
           \/ \E t \in Callers :
                 \/ SetNThreads(t) \/ Destroy(t) \/ Attach(t)
                 \/ CancelDeaths(t) \/ CreateWorker(t) \/ AssignThread(t)
                 \/ KillPop(t) \/ Kill(t) \/ KillNotify(t)
                 \/ PublishOversize(t) \/ Detach(t) \/ DestroyEnds(t)
           \/ Post
  <1>1. ASSUME NEW w \in Workers, WorkerStep(w)
        PROVE  WorkerActions(w) \/ CollectActions \/ Undefined
    <2>1. CASE Collect(w)
      <3>1. CASE CollectOne /\ UNCHANGED pc
        BY <2>1, <3>1 DEF Collect, CollectActions, OnlyWorker
      <3>2. CASE m_dead = << >> /\ Goto(w, "sleep") /\ UNCHANGED <<lists, m_state>>
        BY <2>1, <3>2 DEF Collect, CollectEnds, WorkerActions, Plain
      <3> QED BY <2>1, <3>1, <3>2 DEF Collect
    <2>2. CASE ~Collect(w)
      BY <1>1, <2>2 DEF WorkerStep, WorkerActions, Plain, EpilogueAsserts
    <2> QED BY <2>1, <2>2
  <1>2. ASSUME NEW w \in Workers, CollectInterval(w) PROVE CollectActions
    BY <1>2 DEF CollectInterval, CollectActions, OnlyWorker
  <1>3. ASSUME NEW t \in Callers, DestroyCollects(t) PROVE CollectActions
    BY <1>3 DEF DestroyCollects, CollectActions, OnlyWorker
  <1> QED BY <1>1, <1>2, <1>3
          DEF Next, WorkerActions, Plain, WakeStep, WakeDeleted, PoolDeleted,
              SetStep, KillDead, CallStep, DestroyStep

LEMMA TypedInit == Init => Typed
  <1> SUFFICES ASSUME Init PROVE Typed
    OBVIOUS
  <1>1. ListTypes /\ Idle = {} /\ Dead = {}
    BY EmptySeq DEF Init, ListTypes, IsInjective, Idle, Dead, ToSet
  <1>2. NumberTypes /\ WorkerTypes
    BY DEF Init, NumberTypes, WorkerTypes, States, Places
  <1>3. OtherTypes
    BY ScriptAssumption DEF Init, OtherTypes
  <1>4. /\ waking \in [Threads -> WakeRec] /\ setting \in [Threads -> CallRec]
        /\ \A t \in Threads : waking[t] = NotWaking /\ setting[t] = NotSetting
    BY NotWakingIs, NotSettingIs DEF Init, Is
  <1>5. \A w \in Workers : WorkerOK(w)
    BY <1>1 DEF Init, WorkerOK
  <1>6. \A t \in Callers : CallOK(t)
    BY <1>4, CallsAreThreads DEF NotSetting, CallOK
  <1>7. \A t \in Threads : WakeOK(t)
    BY <1>4 DEF NotWaking, WakeOK
  <1> QED BY <1>1, <1>2, <1>3, <1>4, <1>5, <1>6, <1>7, TypesAre DEF Typed

LEMMA TypedNext ==
    ASSUME Typed, Assigned, [Next]_vars
    PROVE  Typed'
  <1>1. CASE UNCHANGED vars
    <2>1. TypeOK'
      BY <1>1 DEF Typed, TypeOK, vars, counters, lists, client, workers, history
    <2>2. WorkersOK'
      BY <1>1, SameOK DEF SameWorkers, vars
    <2>3. \A t \in Callers : CallOK(t)'
      BY <1>1 DEF Typed, CallOK, vars, workers
    <2>4. \A t \in Threads : WakeOK(t)'
      BY <1>1 DEF Typed, WakeOK, vars
    <2> QED BY <2>1, <2>2, <2>3, <2>4 DEF Typed, WorkersOK
  <1>2. CASE Next
    <2>1. ASSUME NEW t \in Callers,
                 \/ CreateWorker(t) \/ AssignThread(t) \/ KillPop(t) \/ Kill(t)
                 \/ KillNotify(t) \/ PublishOversize(t) \/ Detach(t)
                 \/ DestroyEnds(t)
          PROVE  Typed'
      BY <2>1, TypedCreate, TypedAssign, TypedKillPop, TypedKill,
         TypedKillNotify, TypedOversize, TypedDetach, TypedDestroyEnds
    <2>2. CollectActions => Typed'
      BY TypedCollect DEF CollectActions
    <2> QED BY <1>2, <2>1, <2>2, NextIs, TypedWorker, TypedWake, TypedUndefined,
               TypedCallStep, TypedWakers DEF WorkerActions
  <1> QED BY <1>1, <1>2

-----------------------------------------------------------------------------
(* Layer 2: the workers that are held back until they are counted.         *)

\* Nobody is held back anew.
NoneInit == \A v \in Workers : pc'[v] = "init" => pc[v] = "init"

LEMMA AssignedStays ==
    ASSUME Assigned, NoneInit,
           \A t \in Callers, w \in Workers : Assigning(t, w)' <=> Assigning(t, w)
    PROVE  Assigned'
  BY DEF Assigned, NoneInit

LEMMA AssigningStays ==
    ASSUME NEW t \in Callers, NEW step, NEW n, NEW old, NEW at, NEW d,
           Calling(t, step, n, old, at, d), step # "assign",
           setting[t].step # "assign"
    PROVE  \A u \in Callers, w \in Workers : Assigning(u, w)' <=> Assigning(u, w)
  BY CallsAreThreads DEF Calling, Is, Assigning

LEMMA WorkerNoneInit ==
    ASSUME Typed, NEW w \in Workers, WorkerActions(w)
    PROVE  NoneInit /\ UNCHANGED setting
  <1>1. WorkerTypes
    BY TypesAre DEF Typed
  <1> QED BY <1>1
          DEF WorkerActions, Plain, MustDie, DieBusy, DieAsleep, DoWork,
              JobEnds, SleepTest, TestWork, Sleep, SpuriousWakeup, Woken, Exit,
              CollectEnds, Publish, Erase, Epilogue, OnlySleep, OnlyWorker,
              Goto, SaysYes, SaysNo, WorkerTypes, NoneInit

LEMMA WakeNoneInit ==
    ASSUME Typed, NEW t \in Threads, WakePop(t) \/ WakeWorker(t) \/ WakeNotify(t)
    PROVE  NoneInit /\ UNCHANGED setting
  <1>1. WorkerTypes
    BY TypesAre DEF Typed
  <1> QED BY <1>1 DEF WakePop, WakeWorker, WakeTry, WakeNotify, Notify,
                      OnlyWaking, WorkerTypes, NoneInit

LEMMA ReturnCalls ==
    ASSUME Typed, NEW t \in Callers, Return(t)
    PROVE  \E step \in {"detach", "none"}, n \in Nat, old \in Nat : \E at, d :
              Calling(t, step, n, old, at, d)
  <1>1. setting[t].n \in Nat /\ setting[t].old \in Nat /\ 0 \in Nat
    BY SettingIs
  <1> QED BY <1>1, CallingReturn

\* The steps of a call but for those that create and count a worker.
OtherCall(t) ==
    \/ SetNThreads(t) \/ Destroy(t) \/ CancelDeaths(t) \/ KillPop(t) \/ Kill(t)
    \/ KillNotify(t) \/ PublishOversize(t) \/ Detach(t)

LEMMA OtherCalls ==
    ASSUME Typed, NEW t \in Callers, OtherCall(t)
    PROVE  /\ setting[t].step # "assign" /\ NoneInit
           /\ \E step \in Steps \ {"assign"} : \E n, old, at, d :
                 Calling(t, step, n, old, at, d)
  <1>1. WorkerTypes
    BY TypesAre DEF Typed
  <1>2. ASSUME NEW n \in Nat, NEW d \in BOOLEAN, Exchange(t, n, d)
        PROVE  \E step \in Steps \ {"assign"} : \E m, old, at, e :
                 Calling(t, step, m, old, at, e)
    <2> DEFINE x == IF n_threads < n THEN "cancel" ELSE "create"
    <2>1. Calling(t, x, n, n_threads, NoWorker, d) /\ x \in Steps \ {"assign"}
      BY <1>2, CallingExchange DEF Steps
    <2> HIDE DEF x
    <2> QED BY <2>1
  <1>3. CASE SetNThreads(t)
    BY <1>2, <1>3, CallMade DEF SetNThreads, workers, NoneInit
  <1>4. CASE Destroy(t)
    BY <1>2, <1>4, CallMade DEF Destroy, workers, NoneInit
  <1>5. CASE CancelDeaths(t)
    BY <1>5, CallingCancel DEF SameWorkers, workers, NoneInit, Steps
  <1>6. CASE KillPop(t)
    <2>1. setting[t].step = "create" /\ NoneInit
      BY <1>6, CallingKillPop DEF workers, NoneInit
    <2>2. Return(t) => \E step \in Steps \ {"assign"} : \E n, old, at, d :
                          Calling(t, step, n, old, at, d)
      BY ReturnCalls DEF Steps
    <2>3. "kill" \in Steps \ {"assign"} /\ "oversize" \in Steps \ {"assign"}
      BY DEF Steps
    <2> QED BY <1>6, <2>1, <2>2, <2>3, CallingKillPop
  <1>7. CASE Kill(t)
    <2>1. PICK w : w = setting[t].at
      OBVIOUS
    <2> DEFINE x == IF m_state[w] \in {"SLEEP", "SLEEP_TEST"}
                    THEN "kill_notify" ELSE "create"
    <2> DEFINE y == IF m_state[w] = "DYING" THEN setting[t].old
                    ELSE setting[t].old - 1
    <2>2. /\ setting[t].step = "kill" /\ NoneInit /\ x \in Steps \ {"assign"}
          /\ Calling(t, x, setting[t].n, y, w, setting[t].destroy)
      BY <1>7, <2>1, CallingKill DEF NoneInit, Steps
    <2> HIDE DEF x, y
    <2> QED BY <2>2
  <1>8. CASE KillNotify(t)
    <2>1. PICK w : w = setting[t].at
      OBVIOUS
    <2>2. /\ setting[t].step = "kill_notify"
          /\ Calling(t, "create", setting[t].n, setting[t].old, w,
                     setting[t].destroy)
      BY <1>8, <2>1, CallingKillNotify
    <2>3. NoneInit
      BY <1>1, <1>8 DEF KillNotify, Notify, WorkerTypes, NoneInit
    <2>4. "create" \in Steps \ {"assign"}
      BY DEF Steps
    <2> QED BY <2>2, <2>3, <2>4
  <1>9. CASE PublishOversize(t)
    <2>1. setting[t].step = "oversize" /\ Return(t) /\ NoneInit
      BY <1>9, CallingOversize DEF NoneInit
    <2> QED BY <2>1, ReturnCalls DEF Steps
  <1>10. CASE Detach(t)
    BY <1>10, CallingDetach DEF NoneInit, Steps
  <1> QED BY <1>3, <1>4, <1>5, <1>6, <1>7, <1>8, <1>9, <1>10 DEF OtherCall

LEMMA AssignedInit == Init => Assigned
  BY CallsAreThreads DEF Init, Assigned, Assigning, NotSetting

LEMMA AssignedNext ==
    ASSUME Typed, Assigned, [Next]_vars
    PROVE  Assigned'
  <1>1. ASSUME UNCHANGED setting, NoneInit PROVE Assigned'
    BY <1>1, AssignedStays DEF Assigning
  <1>2. ASSUME NEW t \in Callers, OtherCall(t) PROVE Assigned'
    BY <1>2, OtherCalls, AssigningStays, AssignedStays
  <1>3. ASSUME NEW t \in Callers, CreateWorker(t) PROVE Assigned'
    <2>1. PICK w \in Workers :
             /\ setting[t].step = "create" /\ m_state[w] = "UNBORN"
             /\ pc' = [pc EXCEPT ![w] = "init"]
             /\ Calling(t, "assign", setting[t].n, setting[t].old + 1, w,
                        setting[t].destroy)
      BY <1>3, CallingCreate
    <2>2. pc[w] = "unborn" /\ WorkerTypes
      BY <2>1, TypesAre DEF Typed, WorkerOK
    <2>3. /\ \A u \in Callers \ {t}, v \in Workers :
                Assigning(u, v)' <=> Assigning(u, v)
          /\ \A v \in Workers : /\ Assigning(t, v)' <=> v = w
                                /\ ~Assigning(t, v)
      BY <2>1, CallsAreThreads DEF Calling, Is, Assigning
    <2>4. \A u \in Callers : ~Assigning(u, w)
      BY <2>2 DEF Typed, CallOK, Assigning
    <2>5. \A v \in Workers \ {w} : pc'[v] = pc[v]
      BY <2>1, <2>2 DEF WorkerTypes
    <2> QED BY <2>3, <2>4, <2>5 DEF Assigned
  <1>4. ASSUME NEW t \in Callers, AssignThread(t) PROVE Assigned'
    <2>1. PICK w : w = setting[t].at
      OBVIOUS
    <2>2. /\ setting[t].step = "assign" /\ w \in Workers
          /\ pc' = [pc EXCEPT ![w] = "must_die"]
          /\ Calling(t, "create", setting[t].n, setting[t].old, NoWorker,
                     setting[t].destroy)
      BY <1>4, <2>1, CallingAssign
    <2>3. WorkerTypes
      BY TypesAre DEF Typed
    <2>4. /\ \A u \in Callers \ {t}, v \in Workers :
                Assigning(u, v)' <=> Assigning(u, v)
          /\ \A v \in Workers : /\ ~Assigning(t, v)'
                                /\ Assigning(t, v) <=> v = w
      BY <2>1, <2>2, CallsAreThreads DEF Calling, Is, Assigning
    <2>5. /\ \A v \in Workers \ {w} : pc'[v] = pc[v]
          /\ pc'[w] # "init"
      BY <2>2, <2>3 DEF WorkerTypes
    <2> QED BY <2>4, <2>5 DEF Assigned
  <1>5. ASSUME NEW t \in Callers, DestroyEnds(t) PROVE Assigned'
    <2>1. CASE t = Owner
      <3>1. /\ setting[t].step = "delete" /\ NoneInit
            /\ Set(t, NotSetting)
        BY <1>5, <2>1, WorkersAssumption
           DEF DestroyEnds, Destroying, Set, NoneInit
      <3>2. Calling(t, "none", 0, 0, NoWorker, FALSE)
        BY <3>1, NotSettingIs, SettingIs, SetTo
      <3> QED BY <3>1, <3>2, AssigningStays, AssignedStays
    <2>2. CASE t # Owner
      <3>1. WorkerTypes
        BY TypesAre DEF Typed
      <3> QED BY <1>1, <1>5, <2>2, <3>1
              DEF DestroyEnds, Goto, NoneInit, WorkerTypes
    <2> QED BY <2>1, <2>2
  <1>6. ASSUME NEW t \in Callers, Attach(t) PROVE Assigned'
    BY <1>1, <1>6 DEF Attach, workers, NoneInit
  <1>7. CASE Post
    BY <1>1, <1>7 DEF Post, workers, NoneInit
  <1>8. CASE Undefined
    BY <1>1, <1>8 DEF Undefined, workers, NoneInit
  <1>9. CASE CollectActions
    BY <1>1, <1>9 DEF CollectActions, NoneInit
  <1>10. CASE UNCHANGED vars
    BY <1>1, <1>10 DEF vars, workers, NoneInit
  <1> QED BY <1>1, <1>2, <1>3, <1>4, <1>5, <1>6, <1>7, <1>8, <1>9, <1>10,
             NextIs, WorkerNoneInit, WakeNoneInit DEF OtherCall

-----------------------------------------------------------------------------
(* Layer 3: the workers that sleep can be found.                           *)

\* No hand that holds a worker lets it go.
QuietWakes ==
    \A u \in Threads : \/ waking'[u] = waking[u]
                       \/ waking[u].step = "pop" /\ waking'[u].step = "pop"
QuietCalls ==
    \A u \in Callers : \/ setting'[u] = setting[u]
                       \/ setting[u].step \notin {"kill", "kill_notify"}

LEMMA FoundStays ==
    ASSUME QuietWakes, QuietCalls, NEW v \in Workers,
           v \in Idle => v \in Idle',
           m_state[v] = "SLEEP" => m_state'[v] = "SLEEP"
    PROVE  (Findable(v) => Findable(v)') /\ (Notified(v) => Notified(v)')
  <1>1. Findable(v) => Findable(v)'
    BY DEF QuietWakes, QuietCalls, Findable
  <1>2. Notified(v) => Notified(v)'
    BY DEF QuietWakes, QuietCalls, Notified
  <1> QED BY <1>1, <1>2

LEMMA OthersReachable ==
    ASSUME AllReachable, QuietWakes, QuietCalls, NEW w, OthersStay(w)
    PROVE  \A v \in Workers \ {w} : Reachable(v)'
  <1> SUFFICES ASSUME NEW v \in Workers \ {w} PROVE Reachable(v)'
    OBVIOUS
  <1>1. Reachable(v)
    BY DEF AllReachable
  <1>2. /\ pc'[v] = pc[v] /\ m_state'[v] = m_state[v]
        /\ (v \in asleep') <=> (v \in asleep)
        /\ v \in Idle => v \in Idle'
    BY DEF OthersStay
  <1>3. (Findable(v) => Findable(v)') /\ (Notified(v) => Notified(v)')
    BY <1>2, FoundStays
  <1> QED BY <1>1, <1>2, <1>3 DEF Reachable

LEMMA CallingQuiet ==
    ASSUME NEW t \in Callers, NEW step, NEW n, NEW old, NEW at, NEW d,
           Calling(t, step, n, old, at, d),
           setting[t].step \notin {"kill", "kill_notify"}
    PROVE  QuietCalls
  BY CallsAreThreads DEF Calling, QuietCalls

LEMMA WokeQuiet ==
    ASSUME NEW t \in Threads, NEW n, NEW at, Woke(t, n, at, "pop"),
           waking[t].step = "pop"
    PROVE  QuietWakes
  BY DEF Woke, QuietWakes

LEMMA ReachableWorker ==
    ASSUME Typed, AllReachable, NEW w \in Workers, WorkerActions(w)
    PROVE  AllReachable'
  <1>1. WorkerEffect(w)
    BY EffectPlain, EffectPublish, EffectErase, EffectEpilogue
       DEF WorkerActions
  <1>2. WorkerTypes /\ WorkerOK(w) /\ Reachable(w) /\ w \in Threads
    BY TypesAre DEF Typed, AllReachable, Threads
  <1>3. QuietCalls
    BY WorkerNoneInit DEF QuietCalls
  <1>4. QuietWakes
    <2>1. Free(w) /\ (UNCHANGED waking \/ StartWaking(w, 1))
      BY DEF WorkerActions, Plain, MustDie, DieBusy, DieAsleep, DoWork,
             JobEnds, SleepTest, TestWork, Sleep, SpuriousWakeup, Woken,
             CollectEnds, Exit, Publish, Erase, Epilogue, OnlySleep,
             OnlyWorker, At
    <2>2. CASE UNCHANGED waking
      BY <2>2 DEF QuietWakes
    <2>3. CASE StartWaking(w, 1)
      <3>1. Woke(w, 1, NoWorker, "pop")
        BY <1>2, <2>3, TypesAre, StartsWaking DEF Typed
      <3>2. waking[w].step = "pop"
        BY <1>2, <2>1 DEF Free, Typed, WakeOK
      <3> QED BY <1>2, <3>1, <3>2, WokeQuiet
    <2> QED BY <2>1, <2>2, <2>3
  <1>5. \A v \in Workers \ {w} : Reachable(v)'
    BY <1>1, <1>3, <1>4, OthersReachable DEF WorkerEffect
  <1>6. ASSUME w \in Idle => w \in Idle',
               m_state[w] = "SLEEP" => m_state'[w] = "SLEEP"
        PROVE  (Findable(w) => Findable(w)') /\ (Notified(w) => Notified(w)')
    BY <1>3, <1>4, <1>6, FoundStays
  <1>7. Reachable(w)'
    <2>1. CASE Publish(w)
      <3>1. /\ Idle' = Idle \cup {w} /\ pc[w] = "publish"
            /\ asleep' = asleep
        BY <2>1, EffectPublish DEF Publish, At
      <3> QED BY <1>2, <3>1 DEF WorkerOK, Reachable, Findable
    <2>2. CASE Erase(w)
      <3>1. /\ pc[w] = "erase" /\ m_state' = m_state /\ asleep' = asleep
        BY <2>2 DEF Erase, At
      <3> QED BY <1>2, <3>1 DEF WorkerOK, Reachable
    <2>3. CASE Epilogue(w)
      <3>1. /\ pc[w] = "epilogue" /\ m_state' = m_state /\ asleep' = asleep
        BY <2>3 DEF Epilogue, At
      <3> QED BY <1>2, <3>1 DEF WorkerOK, Reachable
    <2>4. CASE Plain(w)
      <3>1. Idle' = Idle
        BY <2>4 DEF Plain, MustDie, DieBusy, DieAsleep, DoWork, JobEnds,
                    SleepTest, TestWork, Sleep, SpuriousWakeup, Woken,
                    CollectEnds, Exit, OnlySleep, lists, Idle
      <3>2. CASE /\ UNCHANGED <<m_state, asleep>>
                 /\ pc[w] \notin {"publish", "woken"}
        BY <1>2, <1>6, <3>1, <3>2 DEF Reachable
      <3>3. CASE Woken(w)
        <4>1. /\ pc[w] = "woken" /\ m_state' = m_state
              /\ \/ m_state[w] = "SLEEP" /\ pc'[w] = "must_die"
                 \/ m_state[w] # "SLEEP" /\ w \notin asleep'
          BY <1>2, <3>3 DEF Woken, At, Goto, WorkerTypes
        <4> QED BY <1>2, <1>6, <3>1, <4>1 DEF Reachable, WorkerOK
      <3>4. CASE MustDie(w) \/ DoWork(w) \/ JobEnds(w) \/ SpuriousWakeup(w)
                 \/ CollectEnds(w)
        BY <3>2, <3>4 DEF MustDie, DoWork, JobEnds, SpuriousWakeup,
                          CollectEnds, At
      <3>5. CASE DieBusy(w)
        <4>1. CASE /\ m_state[w] = "BUSY" /\ Become(w, "DYING") /\ SaysYes(w)
          BY <1>2, <3>5, <4>1 DEF DieBusy, Become, SaysYes, Goto, Reachable,
                                  WorkerTypes
        <4> QED BY <3>2, <3>5, <4>1 DEF DieBusy, At
      <3>6. CASE DieAsleep(w)
        <4>1. CASE Become(w, "DYING") /\ SaysYes(w)
          BY <1>2, <3>6, <4>1 DEF DieAsleep, Become, SaysYes, Goto, Reachable,
                                  WorkerTypes
        <4> QED BY <3>2, <3>6, <4>1 DEF DieAsleep, At
      <3>7. CASE SleepTest(w)
        <4>1. CASE /\ m_state[w] = "BUSY" /\ Become(w, "SLEEP_TEST")
                   /\ Goto(w, "publish")
          BY <1>2, <3>7, <4>1 DEF SleepTest, At, Become, Goto, Reachable,
                                  WorkerOK, WorkerTypes
        <4> QED BY <3>2, <3>7, <4>1 DEF SleepTest, At
      <3>8. CASE TestWork(w)
        <4>1. /\ pc[w] = "test" /\ asleep' = asleep
              /\ \/ /\ m_state' = [m_state EXCEPT ![w] =
                                     IF @ = "SLEEP_TEST" THEN "BUSY" ELSE @]
                    /\ Goto(w, "erase")
                 \/ UNCHANGED m_state
          BY <3>8 DEF TestWork, At
        <4>2. CASE m_state' = [m_state EXCEPT ![w] =
                                 IF @ = "SLEEP_TEST" THEN "BUSY" ELSE @]
          <5>1. m_state'[w] # "SLEEP_TEST" /\ m_state'[w] # "SLEEP"
            BY <1>2, <4>1, <4>2 DEF WorkerOK, WorkerTypes
          <5> QED BY <1>2, <4>1, <5>1 DEF Reachable, WorkerOK
        <4> QED BY <3>2, <4>1, <4>2
      <3>9. CASE Sleep(w)
        <4>1. CASE /\ m_state[w] = "SLEEP_TEST" /\ Become(w, "SLEEP")
          <5>1. /\ pc[w] = "lock" /\ m_state'[w] = "SLEEP"
            BY <1>2, <3>9, <4>1 DEF Sleep, At, Become, WorkerTypes
          <5> QED BY <1>2, <1>6, <3>1, <4>1, <5>1 DEF Reachable
        <4> QED BY <3>2, <3>9, <4>1 DEF Sleep, At
      <3>10. CASE Exit(w)
        BY <1>2, <3>10 DEF Exit, At, Become, Reachable, WorkerOK, WorkerTypes
      <3> QED BY <2>4, <3>3, <3>4, <3>5, <3>6, <3>7, <3>8, <3>9, <3>10
              DEF Plain
    <2> QED BY <2>1, <2>2, <2>3, <2>4 DEF WorkerActions
  <1> QED BY <1>5, <1>7 DEF AllReachable

LEMMA ReachableWake ==
    ASSUME Typed, AllReachable, NEW t \in Threads,
           WakePop(t) \/ WakeWorker(t) \/ WakeNotify(t)
    PROVE  AllReachable'
  <1>1. /\ WorkerTypes /\ waking \in [Threads -> WakeRec] /\ WakeOK(t)
        /\ \A v \in Workers : Reachable(v) /\ WorkerOK(v)
    BY TypesAre DEF Typed, AllReachable
  <1>2. UNCHANGED setting
    BY WakeNoneInit
  <1>3. CASE WakePop(t)
    <2>1. /\ UNCHANGED <<m_state, pc, asleep>> /\ waking[t].step = "pop"
          /\ \/ Woke(t, 0, NoWorker, "pop") /\ Idle' = Idle
             \/ \E w \in Workers : /\ Woke(t, waking[t].left, w, "first")
                                   /\ Idle' = Idle \ {w}
      BY <1>3, EffectWakePop DEF WakePop, Wake
    <2>2. ASSUME NEW v \in Workers
          PROVE  (Findable(v) => Findable(v)') /\ (Notified(v) => Notified(v)')
      <3>1. CASE Woke(t, 0, NoWorker, "pop") /\ Idle' = Idle
        <4>1. QuietWakes /\ QuietCalls
          BY <1>2, <2>1, <3>1, WokeQuiet DEF QuietCalls
        <4> QED BY <2>1, <3>1, <4>1, FoundStays
      <3>2. ASSUME NEW w \in Workers, Woke(t, waking[t].left, w, "first"),
                   Idle' = Idle \ {w}
            PROVE  (Findable(v) => Findable(v)') /\ (Notified(v) => Notified(v)')
        <4>1. Findable(v) => Findable(v)'
          BY <1>2, <2>1, <3>2 DEF Woke, Findable
        <4>2. Notified(v) => Notified(v)'
          BY <1>2, <2>1, <3>2 DEF Woke, Notified
        <4> QED BY <4>1, <4>2
      <3> QED BY <2>1, <3>1, <3>2
    <2> QED BY <1>1, <2>1, <2>2 DEF AllReachable, Reachable
  <1>4. ASSUME NEW step, NEW from, NEW other,
               <<step, from, other>> \in {<<"first", "SLEEP_TEST", "second">>,
                                          <<"second", "SLEEP", "pop">>},
               WakeTry(t, step, from, other)
        PROVE  AllReachable'
    <2>1. PICK w : w = waking[t].at
      OBVIOUS
    <2>2. /\ w \in Workers /\ waking[t].step = step /\ pc' = pc
          /\ UNCHANGED <<m_idle, m_dead, asleep, collect>>
          /\ \/ /\ m_state[w] = from
                /\ m_state' = [m_state EXCEPT ![w] = "BUSY"]
                /\ Woke(t, waking[t].left, w, "notify")
             \/ /\ m_state[w] # from /\ UNCHANGED m_state
                /\ Woke(t, waking[t].left,
                        IF other = "pop" THEN NoWorker ELSE w, other)
      BY <1>4, <2>1, EffectWakeTry
    <2>3. Idle' = Idle
      BY <2>2 DEF Idle
    <2>4. CASE /\ m_state[w] = from
               /\ m_state' = [m_state EXCEPT ![w] = "BUSY"]
               /\ Woke(t, waking[t].left, w, "notify")
      <3>1. ASSUME NEW v \in Workers \ {w} PROVE Reachable(v)'
        <4>1. m_state'[v] = m_state[v]
          BY <1>1, <2>4 DEF WorkerTypes
        <4>2. Findable(v) => Findable(v)'
          BY <1>2, <2>1, <2>3, <2>4, <4>1 DEF Woke, Findable
        <4>3. Notified(v) => Notified(v)'
          BY <1>2, <2>1, <2>4 DEF Woke, Notified
        <4> QED BY <1>1, <2>2, <4>1, <4>2, <4>3 DEF Reachable
      <3>2. Reachable(w)'
        <4>1. m_state'[w] = "BUSY"
          BY <1>1, <2>2, <2>4 DEF WorkerTypes
        <4>2. Notified(w)'
          BY <2>4 DEF Woke, Notified
        <4> QED BY <4>1, <4>2 DEF Reachable
      <3> QED BY <3>1, <3>2 DEF AllReachable
    <2>5. ASSUME m_state[w] # from, UNCHANGED m_state, NEW at,
                 Woke(t, waking[t].left, at, other),
                 step = "first" => other = "second" /\ at = w
          PROVE  AllReachable'
      <3> SUFFICES ASSUME NEW v \in Workers PROVE Reachable(v)'
        BY DEF AllReachable
      <3>1. m_state[v] = "SLEEP" \/ v # w => (Findable(v) => Findable(v)')
        BY <1>2, <1>4, <2>1, <2>2, <2>3, <2>5 DEF Woke, Findable
      <3>2. Notified(v) => Notified(v)'
        BY <1>2, <1>4, <2>1, <2>2, <2>5 DEF Woke, Notified
      <3>3. v = w /\ m_state[v] = "SLEEP_TEST" => (Findable(v) => Findable(v)')
        BY <1>2, <1>4, <2>1, <2>2, <2>3, <2>5 DEF Woke, Findable
      <3> QED BY <1>1, <2>2, <2>5, <3>1, <3>2, <3>3 DEF Reachable
    <2> QED
      <3> DEFINE at == IF other = "pop" THEN NoWorker ELSE w
      <3>1. step = "first" => other = "second" /\ at = w
        BY <1>4
      <3>2. \/ m_state[w] = from /\ m_state' = [m_state EXCEPT ![w] = "BUSY"]
               /\ Woke(t, waking[t].left, w, "notify")
            \/ m_state[w] # from /\ UNCHANGED m_state
               /\ Woke(t, waking[t].left, at, other)
        BY <2>2
      <3> HIDE DEF at
      <3> QED BY <2>4, <2>5, <3>1, <3>2
  <1>5. CASE WakeNotify(t)
    <2>1. PICK w : w = waking[t].at
      OBVIOUS
    <2>2. /\ w \in Workers /\ Notify(w) /\ waking[t].step = "notify"
          /\ UNCHANGED <<lists, m_state, asleep, collect>>
      BY <1>1, <1>5, <2>1 DEF WakeOK, WakeNotify, Wake, OnlyWaking
    <2>3. /\ w \in asleep => pc[w] = "wait"
          /\ pc[w] = "wait" => pc'[w] = "woken"
          /\ pc[w] # "wait" => pc' = pc
          /\ \A v \in Workers \ {w} : pc'[v] = pc[v]
      BY <2>2, EffectNotify DEF WorkerEffect, OthersStay
    <2>4. PICK n \in Nat : Woke(t, n, NoWorker, "pop")
      BY <1>1, <1>5, NotifyWaking
    <2>5. Idle' = Idle /\ m_state' = m_state /\ asleep' = asleep
      BY <2>2 DEF Idle, lists
    <2>6. ASSUME NEW v \in Workers
          PROVE  /\ Findable(v) => Findable(v)'
                 /\ v # w => (Notified(v) => Notified(v)')
      <3>1. Findable(v) => Findable(v)'
        BY <1>2, <2>2, <2>4, <2>5 DEF Woke, Findable
      <3>2. v # w => (Notified(v) => Notified(v)')
        BY <1>2, <2>1, <2>4 DEF Woke, Notified
      <3> QED BY <3>1, <3>2
    <2>7. \A v \in Workers \ {w} : Reachable(v)'
      BY <1>1, <2>3, <2>5, <2>6 DEF Reachable
    <2>8. Reachable(w)'
      BY <1>1, <2>2, <2>3, <2>5, <2>6 DEF Reachable
    <2> QED BY <2>7, <2>8 DEF AllReachable
  <1> QED BY <1>3, <1>4, <1>5 DEF WakeWorker

\* The step of a call that leaves the workers and the idle list as they are.
LEMMA ReachableSame ==
    ASSUME Typed, AllReachable, QuietWakes, QuietCalls,
           Idle' = Idle, UNCHANGED <<m_state, pc, asleep>>
    PROVE  AllReachable'
  BY FoundStays DEF AllReachable, Reachable

LEMMA ReachableCall ==
    ASSUME Typed, AllReachable, NEW t \in Callers,
           \/ SetNThreads(t) \/ Destroy(t) \/ CancelDeaths(t)
           \/ CreateWorker(t) \/ AssignThread(t)
    PROVE  AllReachable'
  <1>1. UNCHANGED <<waking, lists>> /\ QuietWakes
    BY DEF SetNThreads, Destroy, CancelDeaths, CreateWorker, AssignThread,
           QuietWakes
  <1>2. Idle' = Idle
    BY <1>1 DEF Idle, lists
  <1>3. setting[t].step \notin {"kill", "kill_notify"}
    BY DEF SetNThreads, Destroy, CancelDeaths, CreateWorker, AssignThread,
           Setting, MayCall, InJob, At
  <1>4. ASSUME OtherCall(t) PROVE QuietCalls
    <2>0. PICK step \in Steps \ {"assign"} : \E n, old, at, d :
                 Calling(t, step, n, old, at, d)
      BY <1>4, OtherCalls
    <2>1. PICK n, old, at, d : Calling(t, step, n, old, at, d)
      BY <2>0
    <2> QED BY <1>3, <2>1, CallingQuiet
  <1>5. CASE SetNThreads(t) \/ Destroy(t) \/ CancelDeaths(t)
    <2>1. UNCHANGED <<m_state, pc, asleep>>
      BY <1>5 DEF SetNThreads, Destroy, CancelDeaths, workers, OnlySetting
    <2> QED BY <1>1, <1>2, <1>4, <1>5, <2>1, ReachableSame DEF OtherCall
  <1>6. CASE CreateWorker(t)
    <2>1. PICK w \in Workers :
              /\ m_state[w] = "UNBORN" /\ m_state' = [m_state EXCEPT ![w] = "BUSY"]
              /\ WorkerEffect(w) /\ asleep' = asleep
              /\ Calling(t, "assign", setting[t].n, setting[t].old + 1, w,
                         setting[t].destroy)
      BY <1>6, CallingCreate
    <2>2. WorkerTypes /\ WorkerOK(w)
      BY TypesAre DEF Typed
    <2>3. Reachable(w)'
      <3>1. m_state'[w] = "BUSY" /\ w \notin asleep'
        BY <2>1, <2>2 DEF WorkerOK, WorkerTypes
      <3> QED BY <3>1 DEF Reachable
    <2>4. \A v \in Workers \ {w} : Reachable(v)'
      BY <1>1, <1>3, <2>1, CallingQuiet, OthersReachable DEF WorkerEffect
    <2> QED BY <2>3, <2>4 DEF AllReachable
  <1>7. CASE AssignThread(t)
    <2>1. PICK w : w = setting[t].at
      OBVIOUS
    <2>2. /\ w \in Workers /\ pc[w] = "init" /\ WorkerEffect(w)
          /\ UNCHANGED <<m_state, asleep>>
          /\ Calling(t, "create", setting[t].n, setting[t].old, NoWorker,
                     setting[t].destroy)
      BY <1>7, <2>1, CallingAssign
    <2>3. QuietCalls
      BY <1>3, <2>2, CallingQuiet
    <2>4. Reachable(w)'
      BY <1>1, <1>2, <2>2, <2>3, FoundStays DEF AllReachable, Reachable
    <2>5. \A v \in Workers \ {w} : Reachable(v)'
      BY <1>1, <2>2, <2>3, OthersReachable DEF WorkerEffect
    <2> QED BY <2>4, <2>5 DEF AllReachable
  <1> QED BY <1>5, <1>6, <1>7

LEMMA ReachableReturn ==
    ASSUME Typed, NEW t \in Callers, Return(t),
           setting[t].step \notin {"kill", "kill_notify"}
    PROVE  QuietCalls
  BY ReturnCalls, CallingQuiet

LEMMA ReachableKillPop ==
    ASSUME Typed, AllReachable, NEW t \in Callers, KillPop(t)
    PROVE  AllReachable'
  <1>1. /\ setting[t].step = "create" /\ UNCHANGED <<workers, waking>>
        /\ \/ \E w \in Workers :
                 /\ Idle' = Idle \ {w}
                 /\ Calling(t, "kill", setting[t].n, setting[t].old, w,
                            setting[t].destroy)
           \/ /\ Idle' = Idle
              /\ Calling(t, "oversize", setting[t].n, setting[t].old,
                         setting[t].at, setting[t].destroy)
           \/ Idle' = Idle /\ Return(t)
    BY CallingKillPop
  <1>2. QuietWakes /\ UNCHANGED <<m_state, pc, asleep>>
    BY <1>1 DEF QuietWakes, workers
  <1>3. ASSUME NEW w \in Workers, Idle' = Idle \ {w},
               Calling(t, "kill", setting[t].n, setting[t].old, w,
                       setting[t].destroy)
        PROVE  AllReachable'
    <2>1. ASSUME NEW v \in Workers
          PROVE  (Findable(v) => Findable(v)') /\ (Notified(v) => Notified(v)')
      <3>1. Findable(v) => Findable(v)'
        BY <1>1, <1>2, <1>3, CallsAreThreads DEF Calling, Is, Findable
      <3>2. Notified(v) => Notified(v)'
        BY <1>1, <1>3, CallsAreThreads DEF Calling, Is, Notified
      <3> QED BY <3>1, <3>2
    <2> QED BY <1>2, <2>1 DEF AllReachable, Reachable
  <1>4. CASE /\ Idle' = Idle
             /\ Calling(t, "oversize", setting[t].n, setting[t].old,
                        setting[t].at, setting[t].destroy)
    BY <1>1, <1>2, <1>4, CallingQuiet, ReachableSame
  <1>5. CASE Idle' = Idle /\ Return(t)
    BY <1>1, <1>2, <1>5, ReachableReturn, ReachableSame
  <1> QED BY <1>1, <1>3, <1>4, <1>5

LEMMA ReachableKill ==
    ASSUME Typed, AllReachable, NEW t \in Callers, Kill(t)
    PROVE  AllReachable'
  <1>1. PICK w : w = setting[t].at
    OBVIOUS
  <1> DEFINE x == IF m_state[w] \in {"SLEEP", "SLEEP_TEST"}
                  THEN "kill_notify" ELSE "create"
  <1> DEFINE y == IF m_state[w] = "DYING" THEN setting[t].old
                  ELSE setting[t].old - 1
  <1>2. /\ setting[t].step = "kill" /\ w \in Workers
        /\ m_state' = [m_state EXCEPT ![w] = "DYING"]
        /\ Calling(t, x, setting[t].n, y, w, setting[t].destroy)
        /\ UNCHANGED <<lists, waking, pc, asleep>>
    BY <1>1, CallingKill
  <1>3. m_state[w] \in {"SLEEP", "SLEEP_TEST"} => x = "kill_notify"
    OBVIOUS
  <1> HIDE DEF x, y
  <1>4. /\ WorkerTypes /\ Idle' = Idle
        /\ \A v \in Workers : Reachable(v)
    BY <1>2, TypesAre DEF Typed, Idle, lists, AllReachable
  <1>5. ASSUME NEW v \in Workers \ {w} PROVE Reachable(v)'
    <2>1. m_state'[v] = m_state[v]
      BY <1>2, <1>4 DEF WorkerTypes
    <2>2. Findable(v) => Findable(v)'
      BY <1>1, <1>2, <1>4, <2>1, CallsAreThreads DEF Calling, Is, Findable
    <2>3. Notified(v) => Notified(v)'
      BY <1>1, <1>2, <1>4, CallsAreThreads DEF Calling, Is, Notified
    <2> QED BY <1>2, <1>4, <2>1, <2>2, <2>3 DEF Reachable
  <1>6. Reachable(w)'
    <2>1. m_state'[w] = "DYING"
      BY <1>2, <1>4 DEF WorkerTypes
    <2>2. CASE m_state[w] \in {"SLEEP", "SLEEP_TEST"}
      <3>1. Notified(w)'
        BY <1>2, <1>3, <2>2, CallsAreThreads DEF Calling, Is, Notified
      <3> QED BY <2>1, <3>1 DEF Reachable
    <2>3. CASE m_state[w] \notin {"SLEEP", "SLEEP_TEST"}
      <3>1. Notified(w) => Notified(w)'
        BY <1>2, CallsAreThreads DEF Calling, Is, Notified
      <3> QED BY <1>2, <1>4, <2>1, <2>3, <3>1 DEF Reachable
    <2> QED BY <2>2, <2>3
  <1> QED BY <1>5, <1>6 DEF AllReachable

LEMMA ReachableKillNotify ==
    ASSUME Typed, AllReachable, NEW t \in Callers, KillNotify(t)
    PROVE  AllReachable'
  <1>1. PICK w : w = setting[t].at
    OBVIOUS
  <1>2. /\ setting[t].step = "kill_notify" /\ w \in Workers /\ WorkerEffect(w)
        /\ w \in asleep => pc[w] = "wait"
        /\ pc[w] = "wait" => pc'[w] = "woken"
        /\ pc[w] # "wait" => pc' = pc
        /\ Calling(t, "create", setting[t].n, setting[t].old, w,
                   setting[t].destroy)
        /\ UNCHANGED <<lists, waking, m_state, asleep>>
    BY <1>1, CallingKillNotify
  <1>3. /\ Idle' = Idle /\ \A v \in Workers : Reachable(v)
        /\ \A v \in Workers \ {w} : pc'[v] = pc[v]
    BY <1>2 DEF Idle, lists, AllReachable, WorkerEffect, OthersStay
  <1>4. ASSUME NEW v \in Workers
        PROVE  /\ Findable(v) => Findable(v)'
               /\ v # w => (Notified(v) => Notified(v)')
    <2>1. Findable(v) => Findable(v)'
      BY <1>2, <1>3, CallsAreThreads DEF Calling, Is, Findable
    <2>2. v # w => (Notified(v) => Notified(v)')
      BY <1>1, <1>2, CallsAreThreads DEF Calling, Is, Notified
    <2> QED BY <2>1, <2>2
  <1>5. \A v \in Workers \ {w} : Reachable(v)'
    BY <1>2, <1>3, <1>4 DEF Reachable
  <1>6. Reachable(w)'
    BY <1>2, <1>3, <1>4 DEF Reachable
  <1> QED BY <1>5, <1>6 DEF AllReachable

LEMMA ReachableOversize ==
    ASSUME Typed, AllReachable, NEW t \in Callers, PublishOversize(t)
    PROVE  AllReachable'
  <1>1. /\ setting[t].step = "oversize" /\ Return(t) /\ Suicide(t)
        /\ Woke(t, More(t), NoWorker, "pop")
        /\ Suicides(t) => t \in Workers /\ pc[t] = "job"
        /\ UNCHANGED <<lists, pc, asleep>>
    BY CallingOversize
  <1>2. t \in Threads /\ waking[t].left = 0
    BY CallsAreThreads DEF PublishOversize, Setting, Free
  <1>3. QuietWakes
    BY <1>1, <1>2, WokeQuiet DEF Typed, WakeOK
  <1>4. QuietCalls /\ Idle' = Idle
    BY <1>1, ReachableReturn DEF Idle, lists
  <1>5. CASE ~Suicides(t)
    BY <1>1, <1>3, <1>4, <1>5, ReachableSame DEF Suicide
  <1>6. CASE Suicides(t)
    <2>1. /\ t \in Workers /\ WorkerTypes /\ WorkerOK(t)
          /\ pc[t] = "job" /\ m_state' = [m_state EXCEPT ![t] = "DYING"]
      BY <1>1, <1>6, TypesAre DEF Suicide, Become, Typed
    <2>2. m_state'[t] = "DYING" /\ t \notin asleep'
      BY <1>1, <2>1 DEF WorkerOK, WorkerTypes
    <2>3. Reachable(t)'
      BY <2>2 DEF Reachable
    <2>4. \A v \in Workers \ {t} : m_state'[v] = m_state[v]
      BY <2>1 DEF WorkerTypes
    <2>5. \A v \in Workers \ {t} : Reachable(v)'
      BY <1>1, <1>3, <1>4, <2>4, FoundStays DEF AllReachable, Reachable
    <2> QED BY <2>3, <2>5 DEF AllReachable
  <1> QED BY <1>5, <1>6

LEMMA ReachableOther ==
    ASSUME Typed, AllReachable, NEW t \in Callers,
           Detach(t) \/ Attach(t) \/ Post \/ DestroyEnds(t)
    PROVE  AllReachable'
  <1>1. lists' = lists
    BY DEF Detach, Attach, Post, DestroyEnds
  <1>2. Idle' = Idle
    BY <1>1 DEF Idle, lists
  <1>3. CASE Detach(t)
    <2>1. /\ setting[t].step = "detach" /\ UNCHANGED <<m_state, pc, asleep, waking>>
          /\ \/ Calling(t, "none", 0, 0, NoWorker, FALSE)
             \/ Calling(t, "delete", setting[t].n, setting[t].old,
                        setting[t].at, TRUE)
      BY <1>3, CallingDetach
    <2>2. QuietCalls /\ QuietWakes
      BY <2>1, CallingQuiet DEF QuietWakes
    <2> QED BY <1>2, <2>1, <2>2, ReachableSame
  <1>4. ASSUME NEW u \in Threads, NEW n \in Nat, Free(u), StartWaking(u, n)
        PROVE  QuietWakes
    <2>1. Woke(u, n, NoWorker, "pop")
      BY <1>4, TypesAre, StartsWaking DEF Typed
    <2> QED BY <1>4, <2>1, WokeQuiet DEF Typed, WakeOK, Free
  <1>5. CASE Attach(t)
    <2>1. /\ Free(t) /\ StartWaking(t, WakeAll) /\ t \in Threads
          /\ UNCHANGED <<m_state, pc, asleep, setting>>
      BY <1>5, CallsAreThreads, CallMade DEF Attach, workers, Free
    <2>2. WakeAll \in Nat
      BY WorkersAssumption, FS_CardinalityType DEF WakeAll
    <2>3. QuietWakes /\ QuietCalls
      BY <1>4, <2>1, <2>2 DEF QuietCalls
    <2> QED BY <1>2, <2>1, <2>3, ReachableSame
  <1>6. CASE Post
    <2>1. /\ Free(Poster) /\ (StartWaking(Poster, 1) \/ UNCHANGED waking)
          /\ UNCHANGED <<m_state, pc, asleep, setting>>
      BY <1>6 DEF Post, workers
    <2>2. QuietWakes /\ QuietCalls
      BY <1>4, <2>1 DEF QuietCalls, QuietWakes, Threads
    <2> QED BY <1>2, <2>1, <2>2, ReachableSame
  <1>7. CASE DestroyEnds(t)
    <2>1. UNCHANGED <<waking, asleep>> /\ QuietWakes
      BY <1>7 DEF DestroyEnds, QuietWakes
    <2>2. CASE t = Owner
      <3>1. /\ setting[t].step = "delete" /\ Set(t, NotSetting)
            /\ UNCHANGED <<m_state, pc>>
        BY <1>7, <2>2, WorkersAssumption DEF DestroyEnds, Destroying, Set
      <3>2. Calling(t, "none", 0, 0, NoWorker, FALSE)
        BY <3>1, NotSettingIs, SettingIs, SetTo
      <3>3. QuietCalls
        BY <3>1, <3>2, CallingQuiet
      <3> QED BY <1>2, <2>1, <3>1, <3>3, ReachableSame
    <2>3. CASE t # Owner
      <3>1. /\ t \in Workers /\ WorkerTypes /\ WorkerOK(t)
            /\ WorkerEffect(t) /\ UNCHANGED setting
        BY <1>7, <2>3, TypesAre, EffectDestroyEnds DEF Callers, Typed
      <3>2. pc[t] = "destroy" /\ m_state'[t] = "DELETED"
        BY <1>7, <2>3, <3>1 DEF DestroyEnds, Destroying, At, Become, WorkerTypes
      <3>3. Reachable(t)'
        BY <2>1, <3>1, <3>2 DEF WorkerOK, Reachable
      <3>4. QuietCalls
        BY <3>1 DEF QuietCalls
      <3>5. \A v \in Workers \ {t} : Reachable(v)'
        BY <2>1, <3>1, <3>4, OthersReachable DEF WorkerEffect
      <3> QED BY <3>3, <3>5 DEF AllReachable
    <2> QED BY <2>2, <2>3
  <1> QED BY <1>3, <1>5, <1>6, <1>7

LEMMA ReachableCollect ==
    ASSUME Typed, AllReachable, CollectActions
    PROVE  AllReachable'
  <1>1. PICK w : w = Head(m_dead)
    OBVIOUS
  <1>2. /\ w \in Workers /\ WorkerEffect(w) /\ pc[w] = "ended"
        /\ m_state' = [m_state EXCEPT ![w] = "DELETED"]
    BY <1>1, EffectCollectOne DEF CollectActions
  <1>3. QuietWakes /\ QuietCalls /\ asleep' = asleep
    BY DEF CollectActions, QuietWakes, QuietCalls
  <1>4. \A v \in Workers \ {w} : Reachable(v)'
    BY <1>2, <1>3, OthersReachable DEF WorkerEffect
  <1>5. Reachable(w)'
    <2>1. m_state'[w] = "DELETED" /\ w \notin asleep'
      BY <1>2, <1>3, TypesAre DEF Typed, WorkerTypes, WorkerOK
    <2> QED BY <2>1 DEF Reachable
  <1> QED BY <1>4, <1>5 DEF AllReachable

LEMMA AllReachableInit == Init => AllReachable
  BY DEF Init, AllReachable, Reachable

LEMMA AllReachableNext ==
    ASSUME Typed, AllReachable, [Next]_vars
    PROVE  AllReachable'
  <1>1. CASE Undefined \/ UNCHANGED vars
    <2>1. UNCHANGED <<lists, workers, waking, setting>>
      BY <1>1 DEF Undefined, vars
    <2>2. /\ QuietWakes /\ QuietCalls /\ Idle' = Idle
          /\ UNCHANGED <<m_state, pc, asleep>>
      BY <2>1 DEF QuietWakes, QuietCalls, Idle, lists, workers
    <2> QED BY <2>2, ReachableSame
  <1>2. CASE Post
    <2>1. Owner \in Callers
      BY DEF Callers
    <2> QED BY <1>2, <2>1, ReachableOther
  <1>3. ASSUME NEW t \in Callers,
               \/ SetNThreads(t) \/ Destroy(t) \/ Attach(t)
               \/ CancelDeaths(t) \/ CreateWorker(t) \/ AssignThread(t)
               \/ KillPop(t) \/ Kill(t) \/ KillNotify(t)
               \/ PublishOversize(t) \/ Detach(t) \/ DestroyEnds(t)
        PROVE  AllReachable'
    BY <1>3, ReachableCall, ReachableKillPop, ReachableKill,
       ReachableKillNotify, ReachableOversize, ReachableOther
  <1> QED BY <1>1, <1>2, <1>3, NextIs, ReachableWorker, ReachableWake,
             ReachableCollect

\* A worker that waits is asleep, so what is said of it holds.
LEMMA ReachableSleepers ==
    ASSUME Typed, AllReachable
    PROVE  SleepersAreReachable
  <1> SUFFICES ASSUME NEW w \in Workers, pc[w] = "wait"
               PROVE  \/ m_state[w] = "SLEEP" /\ w \in ToSet(m_idle)
                      \/ \E t \in Threads :
                            waking[t].left > 0 /\ waking[t].at = w
                      \/ \E t \in Callers :
                            /\ setting[t].at = w
                            /\ setting[t].step \in {"kill", "kill_notify"}
    BY DEF SleepersAreReachable
  <1>1. Reachable(w) /\ w \in asleep
    BY DEF AllReachable, Typed, WorkerOK
  <1>2. \A t \in Threads : waking[t].step # "pop" => waking[t].left > 0
    <2>1. \A t \in Threads : WakeOK(t) /\ waking[t] \in WakeRec
      BY TypesAre DEF Typed
    <2>2. \A t \in Threads : waking[t].left \in Nat
      BY <2>1 DEF WakeRec
    <2> QED BY <2>1, <2>2 DEF WakeOK
  <1>3. Findable(w) \/ Notified(w)
    BY <1>1 DEF Reachable
  <1>4. m_state[w] = "SLEEP" \/ Notified(w)
    BY <1>1 DEF Reachable
  <1> QED BY <1>2, <1>3, <1>4 DEF Findable, Notified, Idle

-----------------------------------------------------------------------------
(* Layer 4: the counts.                                                    *)

\* The workers that the calls of f, of the callers in T, have still to
\* create, and those that they have still to do away with.
MissingOf(f, T) == UNION {ToCreate(f[t], t) : t \in T}
SurplusOf(f, T) == UNION {ToKill(f[t], t) : t \in T}

\* What a call adds to the workers that are too many.
Owes(step, n, old) ==
    IF step \notin {"none", "detach", "delete"} THEN old - n ELSE 0
Owed == Cardinality(Surplus) - Cardinality(Missing)

LEMMA CallersFinite == IsFiniteSet(Callers) /\ \A T \in SUBSET Callers : IsFiniteSet(T)
  <1>1. IsFiniteSet({Owner})
    BY FS_Singleton
  <1>2. IsFiniteSet(Callers)
    BY <1>1, WorkersAssumption, FS_Union DEF Callers
  <1> QED BY <1>2, FS_Subset

LEMMA CardinalityDisjoint ==
    ASSUME NEW S, NEW T, IsFiniteSet(S), IsFiniteSet(T), S \cap T = {}
    PROVE  Cardinality(S \cup T) = Cardinality(S) + Cardinality(T)
  <1>1. Cardinality(S \cup T)
          = Cardinality(S) + Cardinality(T) - Cardinality(S \cap T)
    BY FS_Union
  <1>2. Cardinality({}) = 0
    BY FS_EmptySet
  <1>3. Cardinality(S) \in Nat /\ Cardinality(T) \in Nat
    BY FS_CardinalityType
  <1>4. Cardinality(S \cap T) = 0
    <2>1. IsFiniteSet(S \cap T)
      BY FS_Intersection
    <2> DEFINE both == S \cap T
    <2>2. IsFiniteSet(both) /\ \A x : x \notin both
      BY <2>1
    <2> HIDE DEF both
    <2>3. both = {}
      BY <2>2
    <2>4. Cardinality(both) = 0
      BY <1>2, <2>3, Zenon
    <2> QED BY <2>4 DEF both
  <1> QED BY <1>1, <1>3, <1>4

\* The rows of one caller.
LEMMA RowsCount ==
    ASSUME NEW t, NEW a \in Nat, NEW b \in Nat
    PROVE  /\ IsFiniteSet({t} \X (a + 1 .. b))
           /\ Cardinality({t} \X (a + 1 .. b)) = IF a < b THEN b - a ELSE 0
  <1>1. IsFiniteSet({t}) /\ Cardinality({t}) = 1
    BY FS_Singleton
  <1>2. /\ IsFiniteSet(a + 1 .. b)
        /\ Cardinality(a + 1 .. b) = IF a + 1 > b THEN 0 ELSE b - (a + 1) + 1
    BY FS_Interval
  <1>3. /\ IsFiniteSet({t} \X (a + 1 .. b))
        /\ Cardinality({t} \X (a + 1 .. b))
             = Cardinality({t}) * Cardinality(a + 1 .. b)
    BY <1>1, <1>2, FS_Product
  <1>4. Cardinality({t} \X (a + 1 .. b)) = Cardinality(a + 1 .. b)
    BY <1>1, <1>2, <1>3, FS_CardinalityType
  <1>5. Cardinality(a + 1 .. b) = IF a < b THEN b - a ELSE 0
    BY <1>2
  <1> QED BY <1>3, <1>4, <1>5

LEMMA OwesCount ==
    ASSUME NEW t, NEW s \in CallRec
    PROVE  /\ IsFiniteSet(ToCreate(s, t)) /\ IsFiniteSet(ToKill(s, t))
           /\ Cardinality(ToCreate(s, t)) \in Nat
           /\ Cardinality(ToKill(s, t)) \in Nat
           /\ Cardinality(ToKill(s, t)) - Cardinality(ToCreate(s, t))
                = Owes(s.step, s.n, s.old)
  <1>1. s.n \in Nat /\ s.old \in Nat
    BY DEF CallRec
  <1> DEFINE Rows(a, b) == {t} \X (a + 1 .. b)
  <1>0. \A a, b \in Nat : /\ IsFiniteSet(Rows(a, b))
                          /\ Cardinality(Rows(a, b)) = IF a < b THEN b - a ELSE 0
    BY RowsCount
  <1>2. CASE Changes(s)
    <2>1. /\ ToCreate(s, t) = Rows(s.old, s.n)
          /\ ToKill(s, t) = Rows(s.n, s.old)
      BY <1>2 DEF ToCreate, ToKill
    <2> HIDE DEF Rows
    <2>2. /\ IsFiniteSet(ToCreate(s, t))
          /\ Cardinality(ToCreate(s, t))
               = IF s.old < s.n THEN s.n - s.old ELSE 0
      BY <1>0, <1>1, <2>1
    <2>3. /\ IsFiniteSet(ToKill(s, t))
          /\ Cardinality(ToKill(s, t))
               = IF s.n < s.old THEN s.old - s.n ELSE 0
      BY <1>0, <1>1, <2>1
    <2>4. Owes(s.step, s.n, s.old) = s.old - s.n
      BY <1>2 DEF Owes, Changes
    <2> QED BY <1>1, <2>2, <2>3, <2>4
  <1>3. CASE ~Changes(s)
    BY <1>3, FS_EmptySet DEF Owes, Changes, ToCreate, ToKill
  <1> QED BY <1>2, <1>3

LEMMA OwedFinite ==
    ASSUME NEW f \in [Threads -> CallRec], NEW T \in SUBSET Callers
    PROVE  /\ IsFiniteSet(MissingOf(f, T)) /\ IsFiniteSet(SurplusOf(f, T))
           /\ Cardinality(MissingOf(f, T)) \in Nat
           /\ Cardinality(SurplusOf(f, T)) \in Nat
  <1>1. IsFiniteSet(T) /\ \A t \in T : f[t] \in CallRec
    BY CallersFinite, CallsAreThreads
  <1>2. IsFiniteSet(MissingOf(f, T))
    <2> DEFINE S == {ToCreate(f[t], t) : t \in T}
    <2> DEFINE g == [t \in T |-> ToCreate(f[t], t)]
    <2>1. g \in Surjection(T, S)
      BY DEF Surjection
    <2>2. IsFiniteSet(S)
      <3> HIDE DEF S, g
      <3> QED BY <1>1, <2>1, FS_Surjection
    <2>3. \A x \in S : IsFiniteSet(x)
      BY <1>1, OwesCount
    <2>4. MissingOf(f, T) = UNION S
      BY DEF MissingOf
    <2> HIDE DEF S
    <2> QED BY <2>2, <2>3, <2>4, FS_UNION
  <1>3. IsFiniteSet(SurplusOf(f, T))
    <2> DEFINE S == {ToKill(f[t], t) : t \in T}
    <2> DEFINE g == [t \in T |-> ToKill(f[t], t)]
    <2>1. g \in Surjection(T, S)
      BY DEF Surjection
    <2>2. IsFiniteSet(S)
      <3> HIDE DEF S, g
      <3> QED BY <1>1, <2>1, FS_Surjection
    <2>3. \A x \in S : IsFiniteSet(x)
      BY <1>1, OwesCount
    <2>4. SurplusOf(f, T) = UNION S
      BY DEF SurplusOf
    <2> HIDE DEF S
    <2> QED BY <2>2, <2>3, <2>4, FS_UNION
  <1> QED BY <1>2, <1>3, FS_CardinalityType

\* The rows of t, and those of the others.
LEMMA OwedSplit ==
    ASSUME NEW f \in [Threads -> CallRec], NEW t \in Callers
    PROVE  Cardinality(SurplusOf(f, Callers))
             - Cardinality(MissingOf(f, Callers))
           = Owes(f[t].step, f[t].n, f[t].old)
             + (Cardinality(SurplusOf(f, Callers \ {t}))
                  - Cardinality(MissingOf(f, Callers \ {t})))
  <1> DEFINE mine == ToCreate(f[t], t)
  <1> DEFINE theirs == MissingOf(f, Callers \ {t})
  <1> DEFINE kill == ToKill(f[t], t)
  <1> DEFINE others == SurplusOf(f, Callers \ {t})
  <1>1. /\ IsFiniteSet(mine) /\ IsFiniteSet(kill)
        /\ Cardinality(mine) \in Nat /\ Cardinality(kill) \in Nat
        /\ Cardinality(kill) - Cardinality(mine)
             = Owes(f[t].step, f[t].n, f[t].old)
    BY CallsAreThreads, OwesCount
  <1>2. /\ IsFiniteSet(theirs) /\ IsFiniteSet(others)
        /\ Cardinality(theirs) \in Nat /\ Cardinality(others) \in Nat
    BY OwedFinite
  <1>3. /\ MissingOf(f, Callers) = mine \cup theirs
        /\ mine \cap theirs = {}
    BY DEF MissingOf, ToCreate
  <1>4. /\ SurplusOf(f, Callers) = kill \cup others
        /\ kill \cap others = {}
    BY DEF SurplusOf, ToKill
  <1> HIDE DEF mine, theirs, kill, others
  <1>5. Cardinality(MissingOf(f, Callers))
          = Cardinality(mine) + Cardinality(theirs)
    BY <1>1, <1>2, <1>3, CardinalityDisjoint
  <1>6. Cardinality(SurplusOf(f, Callers))
          = Cardinality(kill) + Cardinality(others)
    BY <1>1, <1>2, <1>4, CardinalityDisjoint
  <1> QED BY <1>1, <1>2, <1>5, <1>6 DEF theirs, others

LEMMA OwedIs ==
    ASSUME Typed
    PROVE  /\ Cardinality(Missing) \in Nat /\ Cardinality(Surplus) \in Nat
           /\ Owed \in Int
  <1>1. setting \in [Threads -> CallRec]
    BY TypesAre DEF Typed
  <1>2. Missing = MissingOf(setting, Callers) /\ Surplus = SurplusOf(setting, Callers)
    BY DEF Missing, Surplus, MissingOf, SurplusOf
  <1>3. Cardinality(Missing) \in Nat /\ Cardinality(Surplus) \in Nat
    BY <1>1, <1>2, OwedFinite
  <1> QED BY <1>3 DEF Owed

\* A step of a call changes what is owed by what the call owes.
LEMMA OwedNext ==
    ASSUME Typed, NEW t \in Callers, NEW step, NEW n, NEW old, NEW at, NEW d,
           Calling(t, step, n, old, at, d)
    PROVE  /\ Cardinality(Missing)' \in Nat /\ Cardinality(Surplus)' \in Nat
           /\ Owed' = Owed + Owes(step, n, old)
                       - Owes(setting[t].step, setting[t].n, setting[t].old)
  <1>1. PICK f : f = setting
    OBVIOUS
  <1>2. PICK g : g = setting'
    OBVIOUS
  <1>3. f \in [Threads -> CallRec] /\ g \in [Threads -> CallRec]
    BY <1>1, <1>2, TypesAre DEF Typed, Calling
  <1>4. /\ g[t].step = step /\ g[t].n = n /\ g[t].old = old
        /\ \A u \in Callers \ {t} : g[u] = f[u]
    BY <1>1, <1>2, CallsAreThreads DEF Calling, Is
  <1>5. /\ MissingOf(g, Callers \ {t}) = MissingOf(f, Callers \ {t})
        /\ SurplusOf(g, Callers \ {t}) = SurplusOf(f, Callers \ {t})
    BY <1>4 DEF MissingOf, SurplusOf
  <1>6. /\ Cardinality(SurplusOf(f, Callers)) - Cardinality(MissingOf(f, Callers))
             = Owes(f[t].step, f[t].n, f[t].old)
               + (Cardinality(SurplusOf(f, Callers \ {t}))
                    - Cardinality(MissingOf(f, Callers \ {t})))
        /\ Cardinality(SurplusOf(g, Callers)) - Cardinality(MissingOf(g, Callers))
             = Owes(step, n, old)
               + (Cardinality(SurplusOf(f, Callers \ {t}))
                    - Cardinality(MissingOf(f, Callers \ {t})))
    BY <1>3, <1>4, <1>5, OwedSplit
  <1>7. /\ Cardinality(MissingOf(f, Callers \ {t})) \in Nat
        /\ Cardinality(SurplusOf(f, Callers \ {t})) \in Nat
        /\ Cardinality(MissingOf(g, Callers)) \in Nat
        /\ Cardinality(SurplusOf(g, Callers)) \in Nat
    BY <1>3, OwedFinite
  <1>8. /\ Owes(f[t].step, f[t].n, f[t].old) \in Int
        /\ Owes(step, n, old) \in Int
    <2>1. f[t] \in CallRec /\ g[t] \in CallRec
      BY <1>3, CallsAreThreads
    <2>2. f[t].n \in Nat /\ f[t].old \in Nat /\ n \in Nat /\ old \in Nat
      BY <1>4, <2>1 DEF CallRec
    <2> QED BY <2>2 DEF Owes
  <1>9. /\ Missing' = MissingOf(g, Callers) /\ Surplus' = SurplusOf(g, Callers)
        /\ Missing = MissingOf(f, Callers) /\ Surplus = SurplusOf(f, Callers)
    BY <1>1, <1>2 DEF Missing, Surplus, MissingOf, SurplusOf
  <1>10. /\ Owed' = Cardinality(SurplusOf(g, Callers))
                      - Cardinality(MissingOf(g, Callers))
         /\ Owed = Cardinality(SurplusOf(f, Callers))
                     - Cardinality(MissingOf(f, Callers))
    BY <1>9 DEF Owed
  <1> QED BY <1>1, <1>6, <1>7, <1>8, <1>9, <1>10

One(p) == IF p THEN 1 ELSE 0
Counts(w) == pc[w] \notin {"unborn", "init", "ended", "destroy"}

\* Two sets that agree but for one element.
AgreeBut(w, S, R) == \A v : v # w => (v \in R <=> v \in S)

LEMMA AllButOne ==
    ASSUME NEW S, NEW R, IsFiniteSet(S), NEW w, AgreeBut(w, S, R)
    PROVE  /\ IsFiniteSet(R) /\ Cardinality(S) \in Nat /\ Cardinality(R) \in Nat
           /\ Cardinality(R) = Cardinality(S) - One(w \in S) + One(w \in R)
  <1>1. Cardinality(S) \in Nat
    BY FS_CardinalityType
  <1>2. CASE w \in R
    <2>1. R = S \cup {w}
      BY <1>2 DEF AgreeBut
    <2>2. /\ IsFiniteSet(R)
          /\ Cardinality(R) = IF w \in S THEN Cardinality(S)
                              ELSE Cardinality(S) + 1
      BY <2>1, FS_AddElement
    <2> QED BY <1>1, <1>2, <2>2, FS_CardinalityType DEF One
  <1>3. CASE w \notin R
    <2>1. R = S \ {w}
      BY <1>3 DEF AgreeBut
    <2>2. /\ IsFiniteSet(R)
          /\ Cardinality(R) = IF w \in S THEN Cardinality(S) - 1
                              ELSE Cardinality(S)
      BY <2>1, FS_RemoveElement
    <2>3. Cardinality(R) \in Nat
      BY <2>2, FS_CardinalityType
    <2> QED BY <1>1, <1>3, <2>2, <2>3 DEF One
  <1> QED BY <1>2, <1>3

LEMMA WorkersFinite ==
    /\ IsFiniteSet(Alive) /\ IsFiniteSet(Doomed) /\ IsFiniteSet(Active)
    /\ Cardinality(Alive) \in Nat /\ Cardinality(Doomed) \in Nat
    /\ Cardinality(Active) \in Nat
  <1>1. /\ Alive \in SUBSET Workers /\ Doomed \in SUBSET Workers
        /\ Active \in SUBSET Workers
    BY DEF Alive, Doomed, Active
  <1>2. IsFiniteSet(Alive) /\ IsFiniteSet(Doomed) /\ IsFiniteSet(Active)
    BY <1>1, WorkersAssumption, FS_Subset
  <1> QED BY <1>2, FS_CardinalityType

LEMMA WorkersCount ==
    ASSUME NEW w \in Workers, OthersStay(w)
    PROVE  /\ Cardinality(Alive)' = Cardinality(Alive) - One(Living(w))
                                                       + One(Living(w)')
           /\ Cardinality(Doomed)' = Cardinality(Doomed) - One(HoldsDeath(w))
                                                         + One(HoldsDeath(w)')
           /\ Cardinality(Active)' = Cardinality(Active) - One(Counts(w))
                                                         + One(Counts(w)')
           /\ Cardinality(Alive)' \in Nat /\ Cardinality(Doomed)' \in Nat
           /\ Cardinality(Active)' \in Nat
  <1>1. PICK A : A = Alive'
    OBVIOUS
  <1>2. PICK D : D = Doomed'
    OBVIOUS
  <1>3. PICK C : C = Active'
    OBVIOUS
  <1>4. /\ AgreeBut(w, Alive, A)
        /\ (w \in A <=> Living(w)') /\ (w \in Alive <=> Living(w))
    BY <1>1 DEF OthersStay, Alive, Living, AgreeBut
  <1>5. /\ AgreeBut(w, Doomed, D)
        /\ (w \in D <=> HoldsDeath(w)') /\ (w \in Doomed <=> HoldsDeath(w))
    BY <1>2 DEF OthersStay, Doomed, HoldsDeath, AgreeBut
  <1>6. /\ AgreeBut(w, Active, C)
        /\ (w \in C <=> Counts(w)') /\ (w \in Active <=> Counts(w))
    BY <1>3 DEF OthersStay, Active, Counts, AgreeBut
  <1>0. IsFiniteSet(Alive) /\ IsFiniteSet(Doomed) /\ IsFiniteSet(Active)
    BY WorkersFinite
  <1>7. /\ Cardinality(A) \in Nat
        /\ Cardinality(A) = Cardinality(Alive) - One(w \in Alive) + One(w \in A)
    BY <1>0, <1>4, AllButOne
  <1>8. /\ Cardinality(D) \in Nat
        /\ Cardinality(D) = Cardinality(Doomed) - One(w \in Doomed)
                                                + One(w \in D)
    BY <1>0, <1>5, AllButOne
  <1>9. /\ Cardinality(C) \in Nat
        /\ Cardinality(C) = Cardinality(Active) - One(w \in Active)
                                                + One(w \in C)
    BY <1>0, <1>6, AllButOne
  <1>10. /\ Cardinality(A) = Cardinality(Alive) - One(Living(w))
                                                + One(Living(w)')
         /\ Cardinality(D) = Cardinality(Doomed) - One(HoldsDeath(w))
                                                 + One(HoldsDeath(w)')
         /\ Cardinality(C) = Cardinality(Active) - One(Counts(w))
                                                 + One(Counts(w)')
    BY <1>4, <1>5, <1>6, <1>7, <1>8, <1>9 DEF One
  <1> QED BY <1>1, <1>2, <1>3, <1>7, <1>8, <1>9, <1>10

OwedBy(k) ==
    /\ Cardinality(Missing)' \in Nat /\ Cardinality(Surplus)' \in Nat
    /\ k \in Int /\ Owed' = Owed + k

\* The numbers change by dn, dv and k, and the workers by x and y.
LEMMA AddsUp ==
    ASSUME Typed, WorkersAddUp, NumberTypes', NEW k, OwedBy(k),
           NEW dn \in Int, NEW dv \in Int, NEW x \in Int, NEW y \in Int,
           n_threads' = n_threads + dn, n_oversize' = n_oversize + dv,
           Cardinality(Alive)' = Cardinality(Alive) + x,
           Cardinality(Doomed)' = Cardinality(Doomed) + y,
           x = dn + dv + k + y
    PROVE  WorkersAddUp'
  <1>1. PICK a : a = Cardinality(Alive)
    OBVIOUS
  <1>2. PICK d : d = Cardinality(Doomed)
    OBVIOUS
  <1>3. PICK m : m = Cardinality(Missing)
    OBVIOUS
  <1>4. PICK s : s = Cardinality(Surplus)
    OBVIOUS
  <1>5. PICK n : n = n_threads
    OBVIOUS
  <1>6. PICK v : v = n_oversize
    OBVIOUS
  <1>7. PICK m1 : m1 = Cardinality(Missing)'
    OBVIOUS
  <1>8. PICK s1 : s1 = Cardinality(Surplus)'
    OBVIOUS
  <1>9. /\ a \in Nat /\ d \in Nat /\ m \in Nat /\ s \in Nat /\ n \in Nat
        /\ v \in Nat /\ m1 \in Nat /\ s1 \in Nat /\ k \in Int
    BY <1>1, <1>2, <1>3, <1>4, <1>5, <1>6, <1>7, <1>8, WorkersFinite, OwedIs,
       TypesAre DEF Typed, NumberTypes, OwedBy
  <1>10. a + m = n + v + s + d
    BY <1>1, <1>2, <1>3, <1>4, <1>5, <1>6 DEF WorkersAddUp
  <1>11. s1 - m1 = (s - m) + k
    BY <1>3, <1>4, <1>7, <1>8 DEF OwedBy, Owed
  <1>12. (a + x) + m1 = (n + dn) + (v + dv) + s1 + (d + y)
    BY <1>9, <1>10, <1>11
  <1>13. /\ Cardinality(Alive)' = a + x /\ Cardinality(Doomed)' = d + y
         /\ n_threads' = n + dn /\ n_oversize' = v + dv
    BY <1>1, <1>2, <1>5, <1>6
  <1> QED BY <1>7, <1>8, <1>12, <1>13 DEF WorkersAddUp

\* A step of one worker keeps the numbers when they change as it does.
LEMMA Balance ==
    ASSUME Typed, WorkersAddUp, Counted, NumberTypes',
           NEW w \in Workers, OthersStay(w), NEW k, OwedBy(k),
           NEW dn \in Int, NEW dv \in Int,
           n_threads' = n_threads + dn, n_oversize' = n_oversize + dv,
           One(Living(w)') - One(Living(w))
             = dn + dv + k + (One(HoldsDeath(w)') - One(HoldsDeath(w))),
           ~lost' => /\ ~lost
                     /\ n_active' = n_active + (One(Counts(w)') - One(Counts(w)))
    PROVE  WorkersAddUp' /\ Counted'
  <1> DEFINE x == One(Living(w)') - One(Living(w))
  <1> DEFINE y == One(HoldsDeath(w)') - One(HoldsDeath(w))
  <1> DEFINE z == One(Counts(w)') - One(Counts(w))
  <1>1. x \in Int /\ y \in Int /\ z \in Int /\ x = dn + dv + k + y
    BY DEF One
  <1>2. /\ Cardinality(Alive)' = Cardinality(Alive) + x
        /\ Cardinality(Doomed)' = Cardinality(Doomed) + y
        /\ Cardinality(Active)' = Cardinality(Active) + z
    BY WorkersCount, WorkersFinite DEF One
  <1>3. ~lost' => ~lost /\ n_active' = n_active + z
    OBVIOUS
  <1> HIDE DEF x, y, z
  <1>4. WorkersAddUp'
    BY <1>1, <1>2, AddsUp
  <1>5. Counted'
    BY <1>2, <1>3 DEF Counted
  <1> QED BY <1>4, <1>5

\* So does a step that is none of a worker.
LEMMA BalanceSame ==
    ASSUME Typed, WorkersAddUp, Counted, NumberTypes',
           UNCHANGED <<m_state, pc>>, NEW k, OwedBy(k),
           NEW dn \in Int, NEW dv \in Int,
           n_threads' = n_threads + dn, n_oversize' = n_oversize + dv,
           dn + dv + k = 0, UNCHANGED <<n_active, lost>>
    PROVE  WorkersAddUp' /\ Counted'
  <1>1. /\ Cardinality(Alive)' = Cardinality(Alive)
        /\ Cardinality(Doomed)' = Cardinality(Doomed)
        /\ Cardinality(Active)' = Cardinality(Active)
    BY Zenon DEF Alive, Doomed, Active, Living, HoldsDeath
  <1>2. WorkersAddUp'
    <2> DEFINE x == 0
    <2>1. /\ Cardinality(Alive)' = Cardinality(Alive) + x
          /\ Cardinality(Doomed)' = Cardinality(Doomed) + x
          /\ x = dn + dv + k + x /\ x \in Int
      BY <1>1, WorkersFinite DEF OwedBy
    <2> HIDE DEF x
    <2> QED BY <2>1, AddsUp
  <1>3. Counted'
    BY <1>1 DEF Counted
  <1> QED BY <1>2, <1>3

LEMMA OwedSame ==
    ASSUME Typed, UNCHANGED setting
    PROVE  OwedBy(0)
  <1>1. Missing' = Missing /\ Surplus' = Surplus
    BY DEF Missing, Surplus
  <1> QED BY <1>1, OwedIs DEF OwedBy, Owed

LEMMA OwedCalling ==
    ASSUME Typed, NEW t \in Callers, NEW step, NEW n \in Nat, NEW old \in Nat,
           NEW at, NEW d, Calling(t, step, n, old, at, d)
    PROVE  OwedBy(Owes(step, n, old)
                  - Owes(setting[t].step, setting[t].n, setting[t].old))
  <1>1. /\ Owes(step, n, old) \in Int
        /\ Owes(setting[t].step, setting[t].n, setting[t].old) \in Int
    BY SettingIs DEF Owes
  <1>2. Owed \in Int
    BY OwedIs
  <1> QED BY <1>1, <1>2, OwedNext DEF OwedBy

\* Neither the numbers nor what the worker counts for changes.
LEMMA BalanceQuiet ==
    ASSUME Typed, WorkersAddUp, Counted, NumberTypes',
           NEW w \in Workers, OthersStay(w), OwedBy(0),
           UNCHANGED <<n_threads, n_oversize, n_active, lost>>,
           Counts(w)' <=> Counts(w),
           One(Living(w)') - One(Living(w))
             = One(HoldsDeath(w)') - One(HoldsDeath(w))
    PROVE  WorkersAddUp' /\ Counted'
  <1> DEFINE k == 0
  <1>1. /\ n_threads' = n_threads + k /\ n_oversize' = n_oversize + k
        /\ OwedBy(k) /\ k \in Int
    BY TypesAre DEF Typed, NumberTypes
  <1>2. One(Living(w)') - One(Living(w))
          = k + k + k + (One(HoldsDeath(w)') - One(HoldsDeath(w)))
    BY DEF One
  <1>3. n_active' = n_active + (One(Counts(w)') - One(Counts(w)))
    BY TypesAre DEF Typed, NumberTypes, One
  <1> HIDE DEF k
  <1> QED BY <1>1, <1>2, <1>3, Balance

LEMMA NumbersWorker ==
    ASSUME Typed, WorkersAddUp, Counted, NumberTypes', NEW w \in Workers,
           WorkerActions(w)
    PROVE  WorkersAddUp' /\ Counted'
  <1>1. WorkerEffect(w)
    BY EffectPlain, EffectPublish, EffectErase, EffectEpilogue
       DEF WorkerActions
  <1>2. /\ WorkerTypes /\ WorkerOK(w) /\ OthersStay(w) /\ NumberTypes
        /\ OwedBy(0)
    BY <1>1, WorkerNoneInit, OwedSame, TypesAre DEF Typed, WorkerEffect
  <1>3. n_threads' = n_threads /\ lost' = lost
    BY DEF WorkerActions, Plain, MustDie, DieBusy, DieAsleep, DoWork, JobEnds,
           SleepTest, TestWork, Sleep, SpuriousWakeup, Woken, CollectEnds,
           Exit, Publish, Erase, Epilogue, OnlySleep, OnlyWorker, counters,
           history
  <1>4. ASSUME UNCHANGED <<n_oversize, n_active>>, Counts(w)' <=> Counts(w),
               Living(w)' <=> Living(w), HoldsDeath(w)' <=> HoldsDeath(w)
        PROVE  WorkersAddUp' /\ Counted'
    BY <1>2, <1>3, <1>4, BalanceQuiet DEF One
  <1>5. ASSUME UNCHANGED <<n_oversize, n_active>>, Counts(w)' <=> Counts(w),
               Living(w), ~Living(w)', HoldsDeath(w), ~HoldsDeath(w)'
        PROVE  WorkersAddUp' /\ Counted'
    BY <1>2, <1>3, <1>5, BalanceQuiet DEF One
  <1>6. ASSUME NEW dv \in Int, n_oversize' = n_oversize + dv,
               n_active' = n_active, Counts(w)' <=> Counts(w),
               Living(w)' <=> Living(w),
               0 = dv + (One(HoldsDeath(w)') - One(HoldsDeath(w)))
        PROVE  WorkersAddUp' /\ Counted'
    <2> DEFINE k == 0
    <2>1. /\ n_threads' = n_threads + k /\ OwedBy(k) /\ k \in Int
          /\ n_active' = n_active + (One(Counts(w)') - One(Counts(w)))
      BY <1>2, <1>3, <1>6 DEF NumberTypes, One
    <2>2. One(Living(w)') - One(Living(w))
            = k + dv + k + (One(HoldsDeath(w)') - One(HoldsDeath(w)))
      BY <1>6 DEF One
    <2> HIDE DEF k
    <2> QED BY <1>2, <1>3, <1>6, <2>1, <2>2, Balance
  <1>7. CASE MustDie(w)
    <2>1. /\ pc[w] = "must_die" /\ m_state' = m_state /\ n_active' = n_active
          /\ \/ SaysYes(w) /\ n_oversize' = n_oversize
             \/ SaysNo(w) /\ n_oversize' = n_oversize
             \/ n_oversize' = n_oversize - 1 /\ Goto(w, "die_busy")
      BY <1>7 DEF MustDie, At
    <2>2. CASE (SaysYes(w) \/ SaysNo(w)) /\ n_oversize' = n_oversize
      BY <1>2, <1>4, <2>1, <2>2
         DEF SaysYes, SaysNo, Goto, WorkerTypes, Counts, Living, HoldsDeath
    <2>3. CASE n_oversize' = n_oversize - 1 /\ Goto(w, "die_busy")
      <3>1. pc'[w] = "die_busy" /\ n_oversize' = n_oversize + (-1)
        BY <1>2, <2>3 DEF Goto, WorkerTypes, NumberTypes
      <3> QED BY <1>6, <2>1, <3>1 DEF Counts, Living, HoldsDeath, One
    <2> QED BY <2>1, <2>2, <2>3
  <1>8. CASE DieBusy(w)
    <2>1. /\ pc[w] = "die_busy" /\ UNCHANGED <<n_oversize, n_active>>
          /\ \/ /\ m_state[w] = "BUSY" /\ m_state'[w] = "DYING"
                /\ pc'[w] \in {"woken", "exit"}
             \/ m_state' = m_state /\ pc'[w] = "die_asleep"
      BY <1>2, <1>8 DEF DieBusy, At, Become, SaysYes, Goto, WorkerTypes, counters
    <2> QED BY <1>4, <1>5, <2>1 DEF Counts, Living, HoldsDeath
  <1>9. CASE DieAsleep(w)
    <2>1. pc[w] = "die_asleep" /\ n_active' = n_active
      BY <1>9 DEF DieAsleep, At
    <2>2. CASE /\ m_state[w] \in {"SLEEP_TEST", "SLEEP"}
               /\ Become(w, "DYING") /\ SaysYes(w) /\ n_oversize' = n_oversize
      <3>1. m_state'[w] = "DYING" /\ pc'[w] \in {"woken", "exit"}
        BY <1>2, <2>2 DEF Become, SaysYes, Goto, WorkerTypes
      <3> QED BY <1>5, <2>1, <2>2, <3>1 DEF Counts, Living, HoldsDeath
    <2>3. CASE /\ n_oversize' = n_oversize + 1 /\ SaysNo(w)
               /\ m_state' = m_state
      <3>1. pc'[w] \in {"wait", "work"}
        BY <1>2, <2>3 DEF SaysNo, Goto, WorkerTypes
      <3> QED BY <1>6, <2>1, <2>3, <3>1 DEF Counts, Living, HoldsDeath, One
    <2> QED BY <1>9, <2>2, <2>3 DEF DieAsleep
  <1>10. CASE Epilogue(w)
    <2>1. /\ pc[w] = "epilogue" /\ pc'[w] \in {"ended", "destroy"}
          /\ m_state' = m_state /\ n_oversize' = n_oversize
          /\ n_active' = n_active - 1
      BY <1>2, <1>10 DEF Epilogue, At, Goto, WorkerTypes
    <2> DEFINE k == 0
    <2>2. /\ n_threads' = n_threads + k /\ n_oversize' = n_oversize + k
          /\ OwedBy(k) /\ k \in Int
          /\ n_active' = n_active + (One(Counts(w)') - One(Counts(w)))
          /\ One(Living(w)') - One(Living(w))
               = k + k + k + (One(HoldsDeath(w)') - One(HoldsDeath(w)))
      BY <1>2, <1>3, <2>1 DEF NumberTypes, Counts, Living, HoldsDeath, One
    <2> HIDE DEF k
    <2> QED BY <1>2, <1>3, <2>2, Balance
  <1>11. CASE \/ DoWork(w) \/ JobEnds(w) \/ SleepTest(w) \/ TestWork(w)
              \/ Sleep(w) \/ SpuriousWakeup(w) \/ Woken(w) \/ Exit(w)
              \/ CollectEnds(w) \/ Publish(w) \/ Erase(w)
    <2>1. UNCHANGED <<n_oversize, n_active>>
      BY <1>11 DEF DoWork, JobEnds, SleepTest, TestWork, Sleep,
                   SpuriousWakeup, Woken, Exit, CollectEnds, Publish, Erase,
                   OnlySleep, counters
    <2>2. Counts(w)' /\ Counts(w) /\ ~HoldsDeath(w) /\ ~HoldsDeath(w)'
      BY <1>2, <1>11
         DEF DoWork, JobEnds, SleepTest, TestWork, Sleep, SpuriousWakeup,
             Woken, Exit, CollectEnds, Publish, Erase, At, Goto, WorkerTypes,
             Counts, HoldsDeath
    <2>3. Living(w)' <=> Living(w)
      BY <1>2, <1>11
         DEF DoWork, JobEnds, SleepTest, TestWork, Sleep, SpuriousWakeup,
             Woken, Exit, CollectEnds, Publish, Erase, At, Become, OnlySleep,
             WorkerTypes, WorkerOK, Living
    <2> QED BY <1>4, <2>1, <2>2, <2>3
  <1> QED BY <1>7, <1>8, <1>9, <1>10, <1>11 DEF WorkerActions, Plain

LEMMA NumbersWake ==
    ASSUME Typed, WorkersAddUp, Counted, NumberTypes', NEW t \in Threads,
           WakePop(t) \/ WakeWorker(t) \/ WakeNotify(t)
    PROVE  WorkersAddUp' /\ Counted'
  <1>1. /\ UNCHANGED <<n_threads, n_oversize, n_active, lost>> /\ OwedBy(0)
    BY WakeNoneInit, OwedSame
       DEF WakePop, WakeWorker, WakeTry, WakeNotify, OnlyWaking, counters
  <1>2. WorkerTypes /\ NumberTypes /\ \A v \in Workers : WorkerOK(v)
    BY TypesAre DEF Typed
  <1>3. CASE WakePop(t)
    <2> DEFINE k == 0
    <2>1. /\ UNCHANGED <<m_state, pc, n_active, lost>> /\ k + k + k = 0
          /\ n_threads' = n_threads + k /\ n_oversize' = n_oversize + k
          /\ OwedBy(k) /\ k \in Int
      BY <1>1, <1>2, <1>3 DEF WakePop, NumberTypes
    <2> HIDE DEF k
    <2> QED BY <2>1, BalanceSame
  <1>4. ASSUME NEW step, NEW from, NEW other,
               <<step, from, other>> \in {<<"first", "SLEEP_TEST", "second">>,
                                          <<"second", "SLEEP", "pop">>},
               WakeTry(t, step, from, other)
        PROVE  WorkersAddUp' /\ Counted'
    <2>1. PICK w : w = waking[t].at
      OBVIOUS
    <2>2. /\ w \in Workers /\ OthersStay(w) /\ pc' = pc
          /\ \/ /\ m_state[w] \in {"SLEEP_TEST", "SLEEP"}
                /\ m_state' = [m_state EXCEPT ![w] = "BUSY"]
             \/ UNCHANGED m_state
      BY <1>4, <2>1, EffectWakeTry DEF WorkerEffect
    <2>3. /\ Counts(w)' <=> Counts(w)
          /\ One(Living(w)') - One(Living(w))
               = One(HoldsDeath(w)') - One(HoldsDeath(w))
      BY <1>2, <2>2 DEF WorkerTypes, Living, HoldsDeath, Counts, One
    <2> QED BY <1>1, <2>2, <2>3, BalanceQuiet
  <1>5. CASE WakeNotify(t)
    <2>1. PICK w : w = waking[t].at
      OBVIOUS
    <2>2. /\ w \in Workers /\ Notify(w)
          /\ UNCHANGED <<lists, m_state, asleep, collect>>
      BY <1>5, <2>1 DEF Typed, WakeOK, WakeNotify, Wake, OnlyWaking
    <2>3. /\ pc[w] = "wait" => pc'[w] = "woken"
          /\ pc[w] # "wait" => pc' = pc
          /\ m_state' = m_state
      BY <2>2, EffectNotify
    <2>4. /\ Counts(w)' <=> Counts(w)
          /\ One(Living(w)') - One(Living(w))
               = One(HoldsDeath(w)') - One(HoldsDeath(w))
      BY <2>2, <2>3 DEF Living, HoldsDeath, Counts, One
    <2>5. OthersStay(w)
      BY <2>2, EffectNotify DEF WorkerEffect
    <2> QED BY <1>1, <2>2, <2>4, <2>5, BalanceQuiet
  <1> QED BY <1>3, <1>4, <1>5 DEF WakeWorker

LEMMA NumbersCollect ==
    ASSUME Typed, WorkersAddUp, Counted, NumberTypes', CollectActions
    PROVE  WorkersAddUp' /\ Counted'
  <1>1. PICK w : w = Head(m_dead)
    OBVIOUS
  <1>2. /\ w \in Workers /\ OthersStay(w) /\ m_state[w] = "DEAD"
        /\ m_state' = [m_state EXCEPT ![w] = "DELETED"]
    BY <1>1, EffectCollectOne DEF CollectActions, WorkerEffect
  <1>3. /\ UNCHANGED <<n_threads, n_oversize, n_active, lost, pc>> /\ OwedBy(0)
    BY OwedSame DEF CollectActions, counters, history
  <1>4. /\ Counts(w)' <=> Counts(w)
        /\ One(Living(w)') - One(Living(w))
             = One(HoldsDeath(w)') - One(HoldsDeath(w))
    BY <1>2, <1>3, TypesAre
       DEF Typed, WorkerTypes, Living, HoldsDeath, Counts, One
  <1> QED BY <1>2, <1>3, <1>4, BalanceQuiet

\* A step of a call that leaves the workers and n_active as they are.
LEMMA NumbersCalling ==
    ASSUME Typed, WorkersAddUp, Counted, NumberTypes', NEW t \in Callers,
           NEW step, NEW n \in Nat, NEW old \in Nat, NEW at, NEW d,
           Calling(t, step, n, old, at, d),
           NEW dn \in Int, NEW dv \in Int,
           n_threads' = n_threads + dn, n_oversize' = n_oversize + dv,
           Owes(setting[t].step, setting[t].n, setting[t].old)
             = Owes(step, n, old) + dn + dv,
           UNCHANGED <<m_state, pc, n_active, lost>>
    PROVE  WorkersAddUp' /\ Counted'
  <1> DEFINE o == Owes(setting[t].step, setting[t].n, setting[t].old)
  <1> DEFINE p == Owes(step, n, old)
  <1> DEFINE k == p - o
  <1>1. o \in Int /\ p \in Int
    BY SettingIs DEF Owes
  <1>2. OwedBy(k)
    BY OwedCalling
  <1>3. o = p + dn + dv
    OBVIOUS
  <1> HIDE DEF o, p
  <1>4. dn + dv + k = 0
    BY <1>1, <1>3
  <1> HIDE DEF k
  <1> QED BY <1>2, <1>4, BalanceSame

LEMMA NumbersReturn ==
    ASSUME Typed, WorkersAddUp, Counted, NumberTypes', NEW t \in Callers,
           Return(t), NEW dv \in Int, n_oversize' = n_oversize + dv,
           Owes(setting[t].step, setting[t].n, setting[t].old) = dv,
           UNCHANGED <<m_state, pc, n_threads, n_active, lost>>
    PROVE  WorkersAddUp' /\ Counted'
  <1>0. PICK step \in {"detach", "none"}, n \in Nat, old \in Nat : \E at, d :
           Calling(t, step, n, old, at, d)
    BY ReturnCalls
  <1>1. PICK at, d : Calling(t, step, n, old, at, d)
    BY <1>0
  <1> DEFINE dn == 0
  <1>2. /\ n_threads' = n_threads + dn /\ dn \in Int
        /\ Owes(setting[t].step, setting[t].n, setting[t].old)
             = Owes(step, n, old) + dn + dv
    BY TypesAre DEF Typed, NumberTypes, Owes
  <1> HIDE DEF dn
  <1> QED BY <1>1, <1>2, NumbersCalling

LEMMA NumbersExchange ==
    ASSUME Typed, WorkersAddUp, Counted, NumberTypes', NEW t \in Callers,
           NEW n \in Nat, NEW d \in BOOLEAN, Exchange(t, n, d),
           setting[t].step = "none",
           UNCHANGED <<m_state, pc, n_oversize, n_active, lost>>
    PROVE  WorkersAddUp' /\ Counted'
  <1>1. PICK old : old = n_threads
    OBVIOUS
  <1> DEFINE x == IF n_threads < n THEN "cancel" ELSE "create"
  <1>2. /\ old \in Nat /\ n_threads' = n
        /\ Calling(t, x, n, old, NoWorker, d)
    BY <1>1, CallingExchange
  <1> DEFINE dn == n - old
  <1> DEFINE dv == 0
  <1>3. /\ dn \in Int /\ dv \in Int
        /\ n_oversize' = n_oversize + dv /\ n_threads' = old + dn
    BY <1>2, TypesAre DEF Typed, NumberTypes
  <1>4. Owes(x, n, old) = old - n
    BY DEF Owes
  <1>5. Owes(setting[t].step, setting[t].n, setting[t].old)
          = Owes(x, n, old) + dn + dv
    BY <1>2, <1>4 DEF Owes
  <1> HIDE DEF x, dn, dv
  <1>6. n_threads' = n_threads + dn
    BY <1>1, <1>3
  <1> QED BY <1>2, <1>3, <1>5, <1>6, NumbersCalling

LEMMA NumbersCall ==
    ASSUME Typed, WorkersAddUp, Counted, NumberTypes', NEW t \in Callers,
           \/ SetNThreads(t) \/ Destroy(t) \/ CancelDeaths(t) \/ KillPop(t)
           \/ Detach(t)
    PROVE  WorkersAddUp' /\ Counted'
  <1>1. CASE SetNThreads(t) \/ Destroy(t)
    <2>1. \E n \in Nat, d \in BOOLEAN : Exchange(t, n, d)
      BY <1>1, CallMade DEF SetNThreads, Destroy
    <2>2. /\ setting[t].step = "none"
          /\ UNCHANGED <<m_state, pc, n_oversize, n_active, lost>>
      BY <1>1, CallMade DEF SetNThreads, Destroy, workers, history
    <2> QED BY <2>1, <2>2, NumbersExchange
  <1>2. CASE CancelDeaths(t)
    <2>1. PICK r \in Nat :
             /\ n_oversize' = n_oversize - r
             /\ Calling(t, "create", setting[t].n, setting[t].old + r,
                        setting[t].at, setting[t].destroy)
      BY <1>2, CallingCancel
    <2>2. /\ setting[t].step = "cancel"
          /\ UNCHANGED <<m_state, pc, n_threads, n_active, lost>>
          /\ setting[t].n \in Nat /\ setting[t].old \in Nat
      BY <1>2, CallingCancel, SettingIs
         DEF SameWorkers, workers, CancelDeaths, OnlySetting, history
    <2> DEFINE dn == 0
    <2> DEFINE dv == -r
    <2> DEFINE old == setting[t].old + r
    <2>3. /\ dn \in Int /\ dv \in Int /\ old \in Nat
          /\ n_threads' = n_threads + dn /\ n_oversize' = n_oversize + dv
      <3>1. PICK v : v = n_oversize
        OBVIOUS
      <3>2. v \in Nat /\ n_threads \in Nat
        BY <3>1, TypesAre DEF Typed, NumberTypes
      <3>3. n_oversize' = v - r
        BY <2>1, <3>1
      <3> QED BY <2>2, <3>1, <3>2, <3>3
    <2>4. Owes(setting[t].step, setting[t].n, setting[t].old)
            = Owes("create", setting[t].n, old) + dn + dv
      <3>1. /\ Owes(setting[t].step, setting[t].n, setting[t].old)
                 = setting[t].old - setting[t].n
            /\ Owes("create", setting[t].n, old) = old - setting[t].n
        BY <2>2 DEF Owes
      <3>2. PICK x, n : x = setting[t].old /\ n = setting[t].n
        OBVIOUS
      <3> QED BY <2>2, <3>1, <3>2
    <2>5. Calling(t, "create", setting[t].n, old, setting[t].at,
                  setting[t].destroy)
      BY <2>1
    <2> HIDE DEF dn, dv, old
    <2> QED BY <2>2, <2>3, <2>4, <2>5, NumbersCalling
  <1>3. CASE KillPop(t)
    <2>1. /\ setting[t].step = "create"
          /\ \/ \E w \in Workers :
                   Calling(t, "kill", setting[t].n, setting[t].old, w,
                           setting[t].destroy)
             \/ Calling(t, "oversize", setting[t].n, setting[t].old,
                        setting[t].at, setting[t].destroy)
             \/ setting[t].old = setting[t].n /\ Return(t)
          /\ UNCHANGED <<counters, workers>>
      BY <1>3, CallingKillPop
    <2>2. /\ UNCHANGED <<m_state, pc, n_threads, n_oversize, n_active, lost>>
          /\ setting[t].n \in Nat /\ setting[t].old \in Nat
      BY <1>3, <2>1, SettingIs DEF workers, counters, KillPop, OnlySetting,
                                   history
    <2> DEFINE k == 0
    <2>3. /\ n_threads' = n_threads + k /\ n_oversize' = n_oversize + k
          /\ k \in Int
      BY <2>2, TypesAre DEF Typed, NumberTypes
    <2>4. CASE setting[t].old = setting[t].n /\ Return(t)
      <3>1. Owes(setting[t].step, setting[t].n, setting[t].old) = k
        BY <2>2, <2>4 DEF Owes
      <3> HIDE DEF k
      <3> QED BY <2>2, <2>3, <2>4, <3>1, NumbersReturn
    <2>5. ASSUME NEW x \in {"kill", "oversize"}, NEW at,
                 Calling(t, x, setting[t].n, setting[t].old, at,
                         setting[t].destroy)
          PROVE  WorkersAddUp' /\ Counted'
      <3>1. Owes(setting[t].step, setting[t].n, setting[t].old)
              = Owes(x, setting[t].n, setting[t].old) + k + k
        BY <2>1, <2>2 DEF Owes
      <3> HIDE DEF k
      <3> QED BY <2>2, <2>3, <2>5, <3>1, NumbersCalling
    <2> QED BY <2>1, <2>4, <2>5
  <1>4. CASE Detach(t)
    <2>1. /\ setting[t].step = "detach"
          /\ UNCHANGED <<m_state, pc, n_threads, n_oversize, n_active, lost>>
          /\ \/ Calling(t, "none", 0, 0, NoWorker, FALSE)
             \/ Calling(t, "delete", setting[t].n, setting[t].old,
                        setting[t].at, TRUE)
          /\ setting[t].n \in Nat /\ setting[t].old \in Nat
      BY <1>4, CallingDetach, SettingIs DEF Detach, counters, history
    <2>2. \E x \in {"none", "delete"}, n \in Nat, old \in Nat : \E at, d :
             Calling(t, x, n, old, at, d)
      BY <2>1, 0 \in Nat
    <2>0. PICK x \in {"none", "delete"}, n \in Nat, old \in Nat : \E at, d :
             Calling(t, x, n, old, at, d)
      BY <2>2
    <2>3. PICK at, d : Calling(t, x, n, old, at, d)
      BY <2>0
    <2> DEFINE k == 0
    <2>4. /\ n_threads' = n_threads + k /\ n_oversize' = n_oversize + k
          /\ k \in Int
          /\ Owes(setting[t].step, setting[t].n, setting[t].old)
               = Owes(x, n, old) + k + k
      BY <2>1, TypesAre DEF Typed, NumberTypes, Owes
    <2> HIDE DEF k
    <2> QED BY <2>1, <2>3, <2>4, NumbersCalling
  <1> QED BY <1>1, <1>2, <1>3, <1>4

\* A step of a call that is one of a worker, too.
LEMMA NumbersBoth ==
    ASSUME Typed, WorkersAddUp, Counted, NumberTypes', NEW t \in Callers,
           NEW step, NEW n \in Nat, NEW old \in Nat, NEW at, NEW d,
           Calling(t, step, n, old, at, d), NEW w \in Workers, OthersStay(w),
           NEW dv \in Int, n_threads' = n_threads,
           n_oversize' = n_oversize + dv,
           Owes(setting[t].step, setting[t].n, setting[t].old)
             + (One(Living(w)') - One(Living(w))) = Owes(step, n, old) + dv,
           HoldsDeath(w)' <=> HoldsDeath(w),
           ~lost' => /\ ~lost
                     /\ n_active' = n_active + (One(Counts(w)') - One(Counts(w)))
    PROVE  WorkersAddUp' /\ Counted'
  <1> DEFINE o == Owes(setting[t].step, setting[t].n, setting[t].old)
  <1> DEFINE p == Owes(step, n, old)
  <1> DEFINE k == p - o
  <1> DEFINE dn == 0
  <1> DEFINE x == One(Living(w)') - One(Living(w))
  <1>1. o \in Int /\ p \in Int
    BY SettingIs DEF Owes
  <1>2. OwedBy(k) /\ dn \in Int /\ n_threads' = n_threads + dn
    BY OwedCalling, TypesAre DEF Typed, NumberTypes
  <1>3. x \in Int /\ o + x = p + dv
    BY DEF One
  <1>4. One(HoldsDeath(w)') - One(HoldsDeath(w)) = 0
    BY DEF One
  <1> HIDE DEF o, p
  <1>5. x = dn + dv + k + 0
    <2> HIDE DEF x
    <2> QED BY <1>1, <1>3
  <1>6. One(Living(w)') - One(Living(w))
          = dn + dv + k + (One(HoldsDeath(w)') - One(HoldsDeath(w)))
    BY <1>4, <1>5
  <1> HIDE DEF k, dn, x
  <1> QED BY <1>2, <1>6, Balance

LEMMA NumbersCreate ==
    ASSUME Typed, WorkersAddUp, Counted, NumberTypes', NEW t \in Callers,
           CreateWorker(t)
    PROVE  WorkersAddUp' /\ Counted'
  <1>1. PICK w \in Workers :
           /\ setting[t].step = "create"
           /\ m_state[w] = "UNBORN" /\ m_state' = [m_state EXCEPT ![w] = "BUSY"]
           /\ pc' = [pc EXCEPT ![w] = "init"]
           /\ WorkerEffect(w)
           /\ Calling(t, "assign", setting[t].n, setting[t].old + 1, w,
                      setting[t].destroy)
           /\ UNCHANGED counters
    BY CallingCreate
  <1>2. /\ WorkerTypes /\ NumberTypes /\ WorkerOK(w)
        /\ setting[t].n \in Nat /\ setting[t].old \in Nat
    BY TypesAre, SettingIs DEF Typed
  <1>3. /\ UNCHANGED <<n_threads, n_oversize, n_active, lost>>
        /\ OthersStay(w)
    BY <1>1 DEF counters, CreateWorker, OnlySetting, history, WorkerEffect
  <1>4. /\ m_state'[w] = "BUSY" /\ pc[w] = "unborn" /\ pc'[w] = "init"
    BY <1>1, <1>2 DEF WorkerTypes, WorkerOK
  <1>5. /\ ~Living(w) /\ Living(w)' /\ ~HoldsDeath(w) /\ ~HoldsDeath(w)'
        /\ ~Counts(w) /\ ~Counts(w)'
    BY <1>1, <1>4 DEF Living, HoldsDeath, Counts
  <1> DEFINE dv == 0
  <1> DEFINE old == setting[t].old + 1
  <1>6. /\ dv \in Int /\ n_oversize' = n_oversize + dv /\ old \in Nat
        /\ n_active' = n_active + (One(Counts(w)') - One(Counts(w)))
    BY <1>2, <1>3, <1>5 DEF NumberTypes, One
  <1>7. Owes(setting[t].step, setting[t].n, setting[t].old)
          + (One(Living(w)') - One(Living(w)))
        = Owes("assign", setting[t].n, old) + dv
    <2>1. One(Living(w)') - One(Living(w)) = 1
      BY <1>5 DEF One
    <2>2. /\ Owes(setting[t].step, setting[t].n, setting[t].old)
               = setting[t].old - setting[t].n
          /\ Owes("assign", setting[t].n, old) = old - setting[t].n
      BY <1>1 DEF Owes
    <2> QED BY <1>2, <2>1, <2>2
  <1>8. Calling(t, "assign", setting[t].n, old, w, setting[t].destroy)
    BY <1>1
  <1> HIDE DEF dv, old
  <1> QED BY <1>2, <1>3, <1>5, <1>6, <1>7, <1>8, NumbersBoth

\* The increment of n_active may be lost, and then lost says so.
LEMMA NumbersAssign ==
    ASSUME Typed, WorkersAddUp, Counted, NumberTypes', NEW t \in Callers,
           AssignThread(t)
    PROVE  WorkersAddUp' /\ Counted'
  <1>1. PICK w : w = setting[t].at
    OBVIOUS
  <1>2. /\ setting[t].step = "assign" /\ w \in Workers /\ pc[w] = "init"
        /\ pc' = [pc EXCEPT ![w] = "must_die"]
        /\ (lost' \/ n_active' = n_active + 1) /\ (lost => lost')
        /\ WorkerEffect(w)
        /\ Calling(t, "create", setting[t].n, setting[t].old, NoWorker,
                   setting[t].destroy)
        /\ UNCHANGED <<n_threads, n_oversize, m_state>>
    BY <1>1, CallingAssign
  <1>3. /\ WorkerTypes /\ NumberTypes /\ OthersStay(w)
        /\ setting[t].n \in Nat /\ setting[t].old \in Nat
    BY <1>2, TypesAre, SettingIs DEF Typed, WorkerEffect
  <1>4. pc'[w] = "must_die"
    BY <1>2, <1>3 DEF WorkerTypes
  <1>5. /\ Living(w)' <=> Living(w)
        /\ ~HoldsDeath(w) /\ ~HoldsDeath(w)' /\ ~Counts(w) /\ Counts(w)'
    BY <1>2, <1>4 DEF Living, HoldsDeath, Counts
  <1> DEFINE dv == 0
  <1>6. /\ dv \in Int /\ n_oversize' = n_oversize + dv
        /\ ~lost' => /\ ~lost
                     /\ n_active' = n_active + (One(Counts(w)') - One(Counts(w)))
    BY <1>2, <1>3, <1>5 DEF NumberTypes, One
  <1>7. Owes(setting[t].step, setting[t].n, setting[t].old)
          + (One(Living(w)') - One(Living(w)))
        = Owes("create", setting[t].n, setting[t].old) + dv
    <2>1. One(Living(w)') - One(Living(w)) = 0
      BY <1>5 DEF One
    <2> QED BY <1>2, <1>3, <2>1 DEF Owes
  <1> HIDE DEF dv
  <1> QED BY <1>2, <1>3, <1>5, <1>6, <1>7, NumbersBoth

LEMMA NumbersKill ==
    ASSUME Typed, WorkersAddUp, Counted, NumberTypes', NEW t \in Callers,
           Kill(t)
    PROVE  WorkersAddUp' /\ Counted'
  <1>1. PICK w : w = setting[t].at
    OBVIOUS
  <1> DEFINE x == IF m_state[w] \in {"SLEEP", "SLEEP_TEST"}
                  THEN "kill_notify" ELSE "create"
  <1> DEFINE y == IF m_state[w] = "DYING" THEN setting[t].old
                  ELSE setting[t].old - 1
  <1>2. /\ setting[t].step = "kill" /\ w \in Workers
        /\ m_state[w] \in {"BUSY", "SLEEP_TEST", "SLEEP", "DYING"}
        /\ m_state' = [m_state EXCEPT ![w] = "DYING"] /\ WorkerEffect(w)
        /\ Calling(t, x, setting[t].n, y, w, setting[t].destroy)
        /\ UNCHANGED <<counters, pc>>
    BY <1>1, CallingKill
  <1>3. /\ WorkerTypes /\ NumberTypes /\ OthersStay(w) /\ CallOK(t)
        /\ setting[t].n \in Nat /\ setting[t].old \in Nat
    BY <1>2, TypesAre, SettingIs DEF Typed, WorkerEffect
  <1>4. m_state'[w] = "DYING"
    BY <1>2, <1>3 DEF WorkerTypes
  <1>5. /\ Living(w) <=> m_state[w] # "DYING"
        /\ ~Living(w)' /\ (HoldsDeath(w)' <=> HoldsDeath(w))
        /\ Counts(w)' <=> Counts(w)
    BY <1>2, <1>4 DEF Living, HoldsDeath, Counts
  <1> DEFINE dv == 0
  <1>6. /\ dv \in Int /\ n_oversize' = n_oversize + dv
        /\ n_threads' = n_threads /\ lost' = lost
        /\ n_active' = n_active + (One(Counts(w)') - One(Counts(w)))
    BY <1>2, <1>3, <1>5 DEF NumberTypes, One, counters, Kill, OnlySetting,
                            history
  <1>7. /\ Owes(setting[t].step, setting[t].n, setting[t].old)
             + (One(Living(w)') - One(Living(w)))
           = Owes(x, setting[t].n, y) + dv
        /\ y \in Nat
    <2>1. /\ Owes(setting[t].step, setting[t].n, setting[t].old)
               = setting[t].old - setting[t].n
          /\ Owes(x, setting[t].n, y) = y - setting[t].n
      BY <1>2 DEF Owes
    <2>2. setting[t].old > setting[t].n
      BY <1>2, <1>3 DEF CallOK
    <2>3. CASE m_state[w] = "DYING"
      <3>1. One(Living(w)') - One(Living(w)) = 0 /\ y = setting[t].old
        BY <1>5, <2>3 DEF One
      <3> HIDE DEF x, y
      <3> QED BY <1>3, <2>1, <3>1
    <2>4. CASE m_state[w] # "DYING"
      <3>1. One(Living(w)') - One(Living(w)) = -1 /\ y = setting[t].old - 1
        BY <1>5, <2>4 DEF One
      <3> HIDE DEF x, y
      <3> QED BY <1>3, <2>1, <2>2, <3>1
    <2> QED BY <2>3, <2>4
  <1> HIDE DEF dv, x, y
  <1> QED BY <1>2, <1>3, <1>5, <1>6, <1>7, NumbersBoth

LEMMA NumbersKillNotify ==
    ASSUME Typed, WorkersAddUp, Counted, NumberTypes', NEW t \in Callers,
           KillNotify(t)
    PROVE  WorkersAddUp' /\ Counted'
  <1>1. PICK w : w = setting[t].at
    OBVIOUS
  <1>2. /\ setting[t].step = "kill_notify" /\ w \in Workers
        /\ WorkerEffect(w)
        /\ pc[w] = "wait" => pc'[w] = "woken"
        /\ pc[w] # "wait" => pc' = pc
        /\ Calling(t, "create", setting[t].n, setting[t].old, w,
                   setting[t].destroy)
        /\ UNCHANGED <<counters, m_state>>
    BY <1>1, CallingKillNotify
  <1>3. /\ NumberTypes /\ OthersStay(w)
        /\ setting[t].n \in Nat /\ setting[t].old \in Nat
    BY <1>2, TypesAre, SettingIs DEF Typed, WorkerEffect
  <1>4. /\ Living(w)' <=> Living(w)
        /\ HoldsDeath(w)' <=> HoldsDeath(w)
        /\ Counts(w)' <=> Counts(w)
    BY <1>2 DEF Living, HoldsDeath, Counts
  <1> DEFINE dv == 0
  <1>5. /\ dv \in Int /\ n_oversize' = n_oversize + dv
        /\ n_threads' = n_threads /\ lost' = lost
        /\ n_active' = n_active + (One(Counts(w)') - One(Counts(w)))
    BY <1>2, <1>3, <1>4 DEF NumberTypes, One, counters, KillNotify,
                            OnlySetting, history
  <1>6. Owes(setting[t].step, setting[t].n, setting[t].old)
          + (One(Living(w)') - One(Living(w)))
        = Owes("create", setting[t].n, setting[t].old) + dv
    <2>1. One(Living(w)') - One(Living(w)) = 0
      BY <1>4 DEF One
    <2> QED BY <1>2, <1>3, <2>1 DEF Owes
  <1> HIDE DEF dv
  <1> QED BY <1>2, <1>3, <1>4, <1>5, <1>6, NumbersBoth

LEMMA NumbersOversize ==
    ASSUME Typed, WorkersAddUp, Counted, NumberTypes', NEW t \in Callers,
           PublishOversize(t)
    PROVE  WorkersAddUp' /\ Counted'
  <1>1. /\ setting[t].step = "oversize" /\ More(t) \in Nat
        /\ n_oversize' = n_oversize + More(t)
        /\ Return(t) /\ Suicide(t)
        /\ Suicides(t) => t \in Workers /\ pc[t] = "job" /\ m_state[t] = "BUSY"
        /\ UNCHANGED <<n_threads, n_active, lists, pc, asleep>>
    BY CallingOversize
  <1>2. /\ lost' = lost /\ NumberTypes /\ WorkerTypes
        /\ setting[t].n \in Nat /\ setting[t].old \in Nat
    BY TypesAre, SettingIs DEF Typed, PublishOversize, OnlySetting, history
  <1>3. Owes(setting[t].step, setting[t].n, setting[t].old)
          = setting[t].old - setting[t].n
    BY <1>1 DEF Owes
  <1> DEFINE dv == More(t)
  <1>4. dv \in Int /\ n_oversize' = n_oversize + dv
    BY <1>1
  <1>5. CASE ~Suicides(t)
    <2>1. m_state' = m_state
      BY <1>1, <1>5 DEF Suicide
    <2>2. Owes(setting[t].step, setting[t].n, setting[t].old) = dv
      BY <1>2, <1>3, <1>5 DEF More
    <2> HIDE DEF dv
    <2> QED BY <1>1, <1>2, <1>4, <2>1, <2>2, NumbersReturn
  <1>6. CASE Suicides(t)
    <2>0. PICK step \in {"detach", "none"}, n \in Nat, old \in Nat : \E at, d :
             Calling(t, step, n, old, at, d)
      BY <1>1, ReturnCalls
    <2>1. PICK at, d : Calling(t, step, n, old, at, d)
      BY <2>0
    <2>2. /\ t \in Workers /\ pc[t] = "job" /\ m_state[t] = "BUSY"
          /\ m_state' = [m_state EXCEPT ![t] = "DYING"]
      BY <1>1, <1>6 DEF Suicide, Become
    <2>3. OthersStay(t) /\ m_state'[t] = "DYING"
      BY <1>1, <1>2, <2>2 DEF OthersStay, WorkerTypes, lists, Idle, Dead
    <2>4. /\ Living(t) /\ ~Living(t)' /\ (HoldsDeath(t)' <=> HoldsDeath(t))
          /\ Counts(t)' <=> Counts(t)
      BY <1>1, <2>2, <2>3 DEF Living, HoldsDeath, Counts
    <2>5. n_active' = n_active + (One(Counts(t)') - One(Counts(t)))
      BY <1>1, <1>2, <2>4 DEF NumberTypes, One
    <2>6. Owes(setting[t].step, setting[t].n, setting[t].old)
            + (One(Living(t)') - One(Living(t))) = Owes(step, n, old) + dv
      <3>1. One(Living(t)') - One(Living(t)) = -1
        BY <2>4 DEF One
      <3>2. Owes(step, n, old) = 0
        BY DEF Owes
      <3>3. dv = setting[t].old - setting[t].n - 1
        BY <1>6 DEF More
      <3> HIDE DEF dv
      <3>4. PICK a, b : a = setting[t].old /\ b = setting[t].n
        OBVIOUS
      <3>5. (a - b) + (-1) = 0 + (a - b - 1)
        BY <1>2, <3>4
      <3> QED BY <1>3, <3>1, <3>2, <3>3, <3>4, <3>5
    <2>7. n_threads' = n_threads /\ lost' = lost
      BY <1>1, <1>2
    <2> HIDE DEF dv
    <2>8. n_oversize' = n_oversize + dv /\ dv \in Int
      BY <1>4
    <2> QED BY <2>1, <2>2, <2>3, <2>4, <2>5, <2>6, <2>7, <2>8, NumbersBoth
  <1> QED BY <1>5, <1>6

LEMMA NumbersDestroyEnds ==
    ASSUME Typed, WorkersAddUp, Counted, NumberTypes', NEW t \in Callers,
           DestroyEnds(t)
    PROVE  WorkersAddUp' /\ Counted'
  <1>1. UNCHANGED <<n_threads, n_oversize, n_active, lost>>
    BY DEF DestroyEnds, counters, history
  <1>2. CASE t = Owner
    <2>1. /\ setting[t].step = "delete" /\ Set(t, NotSetting)
          /\ UNCHANGED <<m_state, pc>>
      BY <1>2, WorkersAssumption DEF DestroyEnds, Destroying, Set
    <2>2. Calling(t, "none", 0, 0, NoWorker, FALSE)
      BY <2>1, NotSettingIs, SettingIs, SetTo
    <2> DEFINE k == 0
    <2> DEFINE o == Owes(setting[t].step, setting[t].n, setting[t].old)
    <2>3. /\ n_threads' = n_threads + k /\ n_oversize' = n_oversize + k
          /\ k \in Int /\ UNCHANGED <<m_state, pc, n_active, lost>>
      BY <1>1, <2>1, TypesAre DEF Typed, NumberTypes
    <2>4. OwedBy(k)
      <3>1. o = 0 /\ Owes("none", 0, 0) = 0 /\ 0 \in Nat
        BY <2>1 DEF Owes
      <3>2. OwedBy(Owes("none", 0, 0) - o)
        BY <2>2, <3>1, OwedCalling
      <3> HIDE DEF o
      <3>3. Owes("none", 0, 0) - o = k
        BY <3>1
      <3> QED BY <3>2, <3>3
    <2>5. k + k + k = 0
      OBVIOUS
    <2> HIDE DEF k
    <2> QED BY <2>3, <2>4, <2>5, BalanceSame
  <1>3. CASE t # Owner
    <2>1. t \in Workers /\ WorkerTypes
      BY <1>3, TypesAre DEF Callers, Typed
    <2>2. OthersStay(t) /\ UNCHANGED setting
      BY <1>3, <2>1, EffectDestroyEnds DEF WorkerEffect
    <2>3. /\ pc[t] = "destroy" /\ pc'[t] = "ended" /\ m_state'[t] = "DELETED"
      BY <1>3, <2>1
         DEF DestroyEnds, Destroying, At, Goto, Become, WorkerTypes
    <2>4. m_state[t] \in {"DEAD", "DELETED"}
      BY <2>1, <2>3 DEF Typed, WorkerOK
    <2>5. /\ Counts(t)' <=> Counts(t)
          /\ One(Living(t)') - One(Living(t))
               = One(HoldsDeath(t)') - One(HoldsDeath(t))
      BY <2>3, <2>4 DEF Living, HoldsDeath, Counts, One
    <2> QED BY <1>1, <2>1, <2>2, <2>5, OwedSame, BalanceQuiet
  <1> QED BY <1>2, <1>3

\* Steps that neither count nor are counted.
LEMMA NumbersSame ==
    ASSUME Typed, WorkersAddUp, Counted, NumberTypes',
           UNCHANGED <<counters, m_state, pc, lost, setting>>
    PROVE  WorkersAddUp' /\ Counted'
  <1> DEFINE k == 0
  <1>1. /\ n_threads' = n_threads + k /\ n_oversize' = n_oversize + k
        /\ k \in Int /\ k + k + k = 0 /\ OwedBy(k)
    BY OwedSame, TypesAre DEF Typed, NumberTypes, counters
  <1>2. UNCHANGED <<m_state, pc, n_active, lost>>
    BY DEF counters
  <1> HIDE DEF k
  <1> QED BY <1>1, <1>2, BalanceSame

LEMMA NumbersInit == Init => WorkersAddUp /\ Counted
  <1> SUFFICES ASSUME Init PROVE WorkersAddUp /\ Counted
    OBVIOUS
  <1>1. Alive = {} /\ Doomed = {} /\ Active = {}
    BY DEF Init, Alive, Doomed, Active, Living, HoldsDeath
  <1>2. Missing = {} /\ Surplus = {}
    BY CallsAreThreads
       DEF Init, Missing, Surplus, ToCreate, ToKill, Changes, NotSetting
  <1>3. n_threads = 0 /\ n_oversize = 0 /\ n_active = 0
    BY DEF Init
  <1> QED BY <1>1, <1>2, <1>3, FS_EmptySet DEF WorkersAddUp, Counted

LEMMA NumbersNext ==
    ASSUME Typed, WorkersAddUp, Counted, Typed', [Next]_vars
    PROVE  WorkersAddUp' /\ Counted'
  <1>1. NumberTypes'
    BY TypesAreNext DEF Typed
  <1>2. CASE UNCHANGED vars
    BY <1>1, <1>2, NumbersSame DEF vars, workers, history
  <1>3. CASE Undefined
    BY <1>1, <1>3, NumbersSame DEF Undefined, workers, history
  <1>4. CASE Post
    BY <1>1, <1>4, NumbersSame DEF Post, workers, history
  <1>5. ASSUME NEW t \in Callers, Attach(t) PROVE WorkersAddUp' /\ Counted'
    BY <1>1, <1>5, NumbersSame DEF Attach, workers, history
  <1>6. ASSUME NEW t \in Callers,
               \/ SetNThreads(t) \/ Destroy(t) \/ CancelDeaths(t)
               \/ CreateWorker(t) \/ AssignThread(t) \/ KillPop(t) \/ Kill(t)
               \/ KillNotify(t) \/ PublishOversize(t) \/ Detach(t)
               \/ DestroyEnds(t)
        PROVE  WorkersAddUp' /\ Counted'
    BY <1>1, <1>6, NumbersCall, NumbersCreate, NumbersAssign, NumbersKill,
       NumbersKillNotify, NumbersOversize, NumbersDestroyEnds
  <1> QED BY <1>1, <1>2, <1>3, <1>4, <1>5, <1>6, NextIs, NumbersWorker,
             NumbersCollect, NumbersWake

\* A worker that is not yet counted is one that a call is about to count.
LEMMA CountedActive ==
    ASSUME Assigned, Counted
    PROVE  ActiveIsCounted
  <1> SUFFICES ASSUME ~lost, \A t \in Callers : setting[t].step # "assign"
               PROVE  n_active = Cardinality({w \in Workers :
                           pc[w] \notin {"unborn", "ended", "destroy"}})
    BY DEF ActiveIsCounted
  <1>1. \A w \in Workers : pc[w] # "init"
    BY DEF Assigned, Assigning
  <1>2. Active = {w \in Workers : pc[w] \notin {"unborn", "ended", "destroy"}}
    BY <1>1 DEF Active
  <1> QED BY <1>2 DEF Counted

-----------------------------------------------------------------------------
(* Layer 5: the pool is destroyed once, and when its workers have ended.   *)

\* Steps that are none of a call.
LEMMA DestroyedQuiet ==
    ASSUME DestroyedOnce, UNCHANGED <<script, collect, setting>>,
           \A w \in Workers : pc'[w] = "destroy" =>
              pc[w] = "destroy" \/ w \in collect
    PROVE  DestroyedOnce'
  BY DEF DestroyedOnce

\* Steps of a call that do not begin it.
LEMMA DestroyedCalling ==
    ASSUME Typed, DestroyedOnce, NEW t \in Callers, NEW step, NEW n, NEW old,
           NEW at, NEW d, Calling(t, step, n, old, at, d),
           setting[t].step # "none", d => setting[t].destroy,
           UNCHANGED <<script, collect>>,
           \A w \in Workers : pc'[w] = "destroy" => pc[w] = "destroy"
    PROVE  DestroyedOnce'
  <1>1. /\ setting'[t].destroy = d
        /\ \A u \in Callers \ {t} : setting'[u] = setting[u]
    BY CallsAreThreads DEF Calling, Is
  <1>2. collect = {}
    BY DEF DestroyedOnce
  <1>3. ASSUME NEW u \in Callers, setting'[u].destroy
        PROVE  /\ script = << >>
               /\ \A v \in Callers \ {u} : setting'[v].step = "none"
    <2>1. setting[u].destroy
      BY <1>1, <1>3
    <2>2. u = t
      BY <2>1 DEF DestroyedOnce
    <2> QED BY <1>1, <2>1, <2>2 DEF DestroyedOnce
  <1>4. \A w \in Workers : pc'[w] # "destroy"
    BY <1>2 DEF DestroyedOnce
  <1>5. /\ script' = script /\ collect' = {}
        /\ \A i \in 1 .. Len(script) : script[i].op = "destroy" =>
              i = Len(script)
    BY <1>2 DEF DestroyedOnce
  <1> QED BY <1>3, <1>4, <1>5 DEF DestroyedOnce

\* A call begins while none destroys the pool, or has.
LEMMA DestroyedCall ==
    ASSUME Typed, DestroyedOnce, NEW t \in Callers,
           SetNThreads(t) \/ Attach(t) \/ Destroy(t)
    PROVE  DestroyedOnce'
  <1>1. PICK op : MayCall(t, op) /\ op = Head(script).op
    BY DEF SetNThreads, Attach, Destroy, MayCall
  <1>2. /\ script # << >> /\ script' = Tail(script)
        /\ UNCHANGED <<collect, pc>>
    BY <1>1, CallMade DEF SetNThreads, Attach, Destroy, workers
  <1>3. script \in Seq(Calls)
    BY TypesAre DEF Typed, OtherTypes
  <1>4. /\ Len(script) \in Nat \ {0} /\ script[1] = Head(script)
        /\ Len(script') = Len(script) - 1
        /\ \A i \in 1 .. Len(script) - 1 : script'[i] = script[i + 1]
    BY <1>2, <1>3, HeadTailProperties, EmptySeq, LenProperties
  <1>5. \A i \in 1 .. Len(script') : script'[i].op = "destroy" =>
           i = Len(script')
    <2> SUFFICES ASSUME NEW i \in 1 .. Len(script'), script'[i].op = "destroy"
                 PROVE  i = Len(script')
      OBVIOUS
    <2>1. i + 1 \in 1 .. Len(script) /\ script[i + 1].op = "destroy"
      BY <1>4
    <2>2. i + 1 = Len(script)
      BY <2>1 DEF DestroyedOnce
    <2> QED BY <1>4, <2>2
  <1>6. /\ \A u \in Callers : ~setting[u].destroy
        /\ collect = {} /\ \A w \in Workers : pc[w] # "destroy"
    BY <1>2 DEF DestroyedOnce
  <1>7. CASE Attach(t)
    <2>1. UNCHANGED setting
      BY <1>7 DEF Attach
    <2> QED BY <1>2, <1>5, <1>6, <2>1 DEF DestroyedOnce
  <1>8. ASSUME NEW n \in Nat, NEW d \in BOOLEAN, Exchange(t, n, d)
        PROVE  /\ setting'[t].destroy = d
               /\ \A u \in Callers \ {t} : setting'[u] = setting[u]
    <2> DEFINE x == IF n_threads < n THEN "cancel" ELSE "create"
    <2>1. Calling(t, x, n, n_threads, NoWorker, d)
      BY <1>8, CallingExchange
    <2> HIDE DEF x
    <2> QED BY <2>1, CallsAreThreads DEF Calling, Is
  <1>9. CASE SetNThreads(t)
    <2>1. Exchange(t, Head(script).n, FALSE) /\ Head(script).n \in Nat
      BY <1>1, <1>9, CallMade DEF SetNThreads
    <2>2. \A u \in Callers : ~setting'[u].destroy
      BY <1>6, <1>8, <2>1
    <2> QED BY <1>2, <1>5, <1>6, <2>2 DEF DestroyedOnce
  <1>10. CASE Destroy(t)
    <2>1. /\ Exchange(t, 0, TRUE) /\ Head(script).op = "destroy"
          /\ \A u \in Callers : setting[u].step = "none"
      BY <1>10 DEF Destroy, MayCall
    <2>2. Len(script) = 1
      BY <1>4, <2>1 DEF DestroyedOnce
    <2>3. script' = << >>
      <3>1. script' \in Seq(Calls) /\ Len(script') = 0
        BY <1>2, <1>3, <1>4, <2>2, HeadTailProperties
      <3> QED BY <3>1, EmptySeq
    <2>4. \A u \in Callers : setting'[u].destroy => u = t
      BY <1>6, <1>8, <2>1
    <2>5. \A u \in Callers \ {t} : setting'[u].step = "none"
      BY <1>8, <2>1
    <2> QED BY <1>2, <1>5, <1>6, <2>3, <2>4, <2>5 DEF DestroyedOnce
  <1> QED BY <1>7, <1>9, <1>10

LEMMA DestroyedDetach ==
    ASSUME Typed, DestroyedOnce, NEW t \in Callers, Detach(t)
    PROVE  DestroyedOnce'
  <1>1. /\ setting[t].step = "detach" /\ setting[t].destroy
        /\ UNCHANGED <<script, pc>>
    BY CallingDetach DEF Detach
  <1>2. CASE /\ t = Owner /\ collect' = collect
             /\ Calling(t, "delete", setting[t].n, setting[t].old,
                        setting[t].at, TRUE)
    BY <1>1, <1>2, DestroyedCalling
  <1>3. CASE /\ t \in Workers /\ collect' = collect \cup {t}
             /\ Calling(t, "none", 0, 0, NoWorker, FALSE)
    <2>1. /\ script = << >> /\ collect' = {t}
          /\ \A u \in Callers \ {t} : setting[u].step = "none"
          /\ \A w \in Workers : pc[w] # "destroy"
      BY <1>1, <1>3 DEF DestroyedOnce
    <2>2. \A u \in Callers : setting'[u].step = "none" /\ ~setting'[u].destroy
      <3> SUFFICES ASSUME NEW u \in Callers
                   PROVE  setting'[u].step = "none" /\ ~setting'[u].destroy
        OBVIOUS
      <3>1. CASE u = t
        BY <1>3, <3>1 DEF Calling, Is
      <3>2. CASE u # t
        <4>1. setting'[u] = setting[u] /\ setting[u].step = "none" /\ CallOK(u)
          BY <1>3, <2>1, <3>2, CallsAreThreads DEF Calling, Typed
        <4> QED BY <4>1 DEF CallOK
      <3> QED BY <3>1, <3>2
    <2>3. script' = << >> /\ UNCHANGED <<script, pc>>
      BY <1>1, <2>1
    <2> QED BY <2>1, <2>2, <2>3 DEF DestroyedOnce
  <1> QED BY <1>2, <1>3, CallingDetach

LEMMA DestroyedInit == Init => DestroyedOnce
  BY ScriptAssumption, CallsAreThreads DEF Init, DestroyedOnce, NotSetting

LEMMA DestroyedWorker ==
    ASSUME Typed, DestroyedOnce, NEW w \in Workers, WorkerActions(w)
    PROVE  DestroyedOnce'
  <1>1. WorkerTypes
    BY TypesAre DEF Typed
  <1>2. UNCHANGED <<script, collect, setting>>
    BY DEF WorkerActions, Plain, MustDie, DieBusy, DieAsleep, DoWork, JobEnds,
           SleepTest, TestWork, Sleep, SpuriousWakeup, Woken, Exit,
           CollectEnds, Publish, Erase, Epilogue, OnlySleep, OnlyWorker
  <1>3. \A v \in Workers : pc'[v] = "destroy" =>
           pc[v] = "destroy" \/ v \in collect
    BY <1>1
       DEF WorkerActions, Plain, MustDie, DieBusy, DieAsleep, DoWork, JobEnds,
           SleepTest, TestWork, Sleep, SpuriousWakeup, Woken, Exit,
           CollectEnds, Publish, Erase, Epilogue, OnlySleep, OnlyWorker,
           Goto, SaysYes, SaysNo, WorkerTypes
  <1> QED BY <1>2, <1>3, DestroyedQuiet

\* The steps of set_nthreads() between the exchange and the return.
LEMMA DestroyedSetting ==
    ASSUME Typed, DestroyedOnce, NEW t \in Callers,
           \/ CancelDeaths(t) \/ CreateWorker(t) \/ AssignThread(t)
           \/ KillPop(t) \/ Kill(t) \/ KillNotify(t) \/ PublishOversize(t)
    PROVE  DestroyedOnce'
  <1>1. /\ setting[t].step # "none" /\ UNCHANGED <<script, collect>>
    BY DEF CancelDeaths, CreateWorker, AssignThread, KillPop, Kill,
           KillNotify, PublishOversize, Setting, OnlySetting
  <1>2. \A w \in Workers : pc'[w] = "destroy" => pc[w] = "destroy"
    <2>1. WorkerTypes
      BY TypesAre DEF Typed
    <2> QED BY <2>1
            DEF CancelDeaths, CreateWorker, AssignThread, KillPop, Kill,
                KillNotify, PublishOversize, Goto, Notify, WorkerTypes
  <1>3. ASSUME NEW step, NEW n, NEW old, NEW at, NEW d,
               Calling(t, step, n, old, at, d), d => setting[t].destroy
        PROVE  DestroyedOnce'
    BY <1>1, <1>2, <1>3, DestroyedCalling
  <1>4. Return(t) => DestroyedOnce'
    BY <1>3, CallingReturn
  <1>5. CASE CancelDeaths(t)
    BY <1>3, <1>5, CallingCancel
  <1>6. CASE CreateWorker(t)
    BY <1>3, <1>6, CallingCreate
  <1>7. CASE AssignThread(t)
    BY <1>3, <1>7, CallingAssign
  <1>8. CASE KillPop(t)
    BY <1>3, <1>4, <1>8, CallingKillPop
  <1>9. CASE Kill(t)
    <2>1. PICK w : w = setting[t].at
      OBVIOUS
    <2> DEFINE x == IF m_state[w] \in {"SLEEP", "SLEEP_TEST"}
                    THEN "kill_notify" ELSE "create"
    <2> DEFINE y == IF m_state[w] = "DYING" THEN setting[t].old
                    ELSE setting[t].old - 1
    <2>2. Calling(t, x, setting[t].n, y, w, setting[t].destroy)
      BY <1>9, <2>1, CallingKill
    <2> HIDE DEF x, y
    <2> QED BY <1>3, <2>2
  <1>10. CASE KillNotify(t)
    BY <1>3, <1>10, CallingKillNotify
  <1>11. CASE PublishOversize(t)
    BY <1>4, <1>11, CallingOversize
  <1> QED BY <1>5, <1>6, <1>7, <1>8, <1>9, <1>10, <1>11

LEMMA DestroyedEnds ==
    ASSUME Typed, DestroyedOnce, NEW t \in Callers, DestroyEnds(t)
    PROVE  DestroyedOnce'
  <1>1. UNCHANGED <<script, collect>>
    BY DEF DestroyEnds
  <1>2. CASE t = Owner
    <2>1. /\ setting[t].step = "delete" /\ Set(t, NotSetting)
          /\ UNCHANGED pc
      BY <1>2, WorkersAssumption DEF DestroyEnds, Destroying, Set
    <2>2. Calling(t, "none", 0, 0, NoWorker, FALSE)
      BY <2>1, NotSettingIs, SettingIs, SetTo
    <2> QED BY <1>1, <2>1, <2>2, DestroyedCalling
  <1>3. CASE t # Owner
    <2>1. /\ UNCHANGED setting /\ Goto(t, "ended") /\ WorkerTypes
      BY <1>3, TypesAre DEF DestroyEnds, Typed
    <2>2. \A v \in Workers : pc'[v] = "destroy" => pc[v] = "destroy"
      BY <2>1 DEF Goto, WorkerTypes
    <2> QED BY <1>1, <2>1, <2>2, DestroyedQuiet
  <1> QED BY <1>2, <1>3

LEMMA DestroyedNext ==
    ASSUME Typed, DestroyedOnce, [Next]_vars
    PROVE  DestroyedOnce'
  <1>1. UNCHANGED <<script, collect, setting, pc>> => DestroyedOnce'
    BY DestroyedQuiet
  <1>2. CASE UNCHANGED vars
    BY <1>1, <1>2 DEF vars, workers
  <1>3. CASE Undefined
    BY <1>1, <1>3 DEF Undefined, workers
  <1>4. CASE Post
    BY <1>1, <1>4 DEF Post, workers
  <1>5. CASE CollectActions
    BY <1>1, <1>5 DEF CollectActions
  <1>6. ASSUME NEW t \in Threads, WakePop(t) \/ WakeWorker(t) \/ WakeNotify(t)
        PROVE  DestroyedOnce'
    <2>1. /\ UNCHANGED <<script, collect, setting>>
          /\ pc' = pc \/ WakeNotify(t)
      BY <1>6 DEF WakePop, WakeWorker, WakeTry, WakeNotify, OnlyWaking
    <2>2. WorkerTypes
      BY TypesAre DEF Typed
    <2>3. \A v \in Workers : pc'[v] = "destroy" => pc[v] = "destroy"
      BY <2>1, <2>2 DEF WakeNotify, Notify, WorkerTypes
    <2> QED BY <2>1, <2>3, DestroyedQuiet
  <1>7. ASSUME NEW t \in Callers,
               \/ SetNThreads(t) \/ Destroy(t) \/ Attach(t)
               \/ CancelDeaths(t) \/ CreateWorker(t) \/ AssignThread(t)
               \/ KillPop(t) \/ Kill(t) \/ KillNotify(t)
               \/ PublishOversize(t) \/ Detach(t) \/ DestroyEnds(t)
        PROVE  DestroyedOnce'
    BY <1>7, DestroyedCall, DestroyedSetting, DestroyedDetach, DestroyedEnds
  <1> QED BY <1>2, <1>3, <1>4, <1>5, <1>6, <1>7, NextIs, DestroyedWorker

\* Only ~impl ends the pool, and after that no worker takes a step.
LEMMA PoolStays ==
    ASSUME [Next]_vars, pool' = "gone", \A t \in Callers : ~DestroyEnds(t)
    PROVE  UNCHANGED <<pool, pc, lost>>
  <1>1. CASE UNCHANGED vars \/ Undefined
    BY <1>1 DEF vars, Undefined, workers, history
  <1>2. CASE Post
    BY <1>2 DEF Post, Running, workers, history
  <1>3. CASE CollectActions
    BY <1>3 DEF CollectActions, history
  <1>4. ASSUME NEW t \in Threads, WakePop(t) \/ WakeWorker(t) \/ WakeNotify(t)
        PROVE  FALSE
    BY <1>4 DEF WakePop, WakeWorker, WakeTry, WakeNotify, OnlyWaking, Wake,
                Running
  <1>5. ASSUME NEW t \in Callers,
               \/ SetNThreads(t) \/ Destroy(t) \/ Attach(t)
               \/ CancelDeaths(t) \/ CreateWorker(t) \/ AssignThread(t)
               \/ KillPop(t) \/ Kill(t) \/ KillNotify(t)
               \/ PublishOversize(t) \/ Detach(t)
        PROVE  FALSE
    BY <1>5 DEF SetNThreads, Destroy, Attach, CancelDeaths, CreateWorker,
                AssignThread, KillPop, Kill, KillNotify, PublishOversize,
                Detach, MayCall, InJob, At, Setting, Running, OnlySetting
  <1>6. ASSUME NEW w \in Workers, WorkerActions(w) PROVE FALSE
    BY <1>6
       DEF WorkerActions, Plain, MustDie, DieBusy, DieAsleep, DoWork, JobEnds,
           SleepTest, TestWork, Sleep, SpuriousWakeup, Woken, Exit,
           CollectEnds, Publish, Erase, Epilogue, OnlySleep, OnlyWorker, At,
           Running
  <1> QED BY <1>1, <1>2, <1>3, <1>4, <1>5, <1>6, NextIs

LEMMA PoolNext ==
    ASSUME Typed, Assigned, Counted, DestroyedOnce, PoolOutlivesWorkers,
           [Next]_vars
    PROVE  PoolOutlivesWorkers'
  <1>1. CASE \A t \in Callers : ~DestroyEnds(t)
    BY <1>1, PoolStays DEF PoolOutlivesWorkers
  <1>2. ASSUME NEW t \in Callers, DestroyEnds(t), ~lost'
        PROVE  \A w \in Workers : pc'[w] \in {"unborn", "ended"}
    <2>1. ~lost /\ n_active = 0
      BY <1>2 DEF DestroyEnds, history
    <2>2. Active = {}
      BY <2>1, WorkersFinite, FS_EmptySet DEF Counted
    <2>3. WorkerTypes /\ CallOK(t)
      BY TypesAre DEF Typed
    <2>4. \A u \in Callers : setting[u].step # "assign"
      <3>1. CASE t = Owner
        <4>1. setting[t].step = "delete" /\ setting[t].destroy
          BY <1>2, <2>3, <3>1, WorkersAssumption
             DEF DestroyEnds, Destroying, CallOK
        <4> QED BY <4>1 DEF DestroyedOnce
      <3>2. CASE t # Owner
        <4>1. t \in collect
          BY <1>2, <3>2 DEF DestroyEnds, Destroying, At, DestroyedOnce
        <4> QED BY <4>1 DEF DestroyedOnce
      <3> QED BY <3>1, <3>2
    <2>5. \A w \in Workers : pc[w] \in {"unborn", "ended", "destroy"}
      BY <2>2, <2>4 DEF Active, Assigned, Assigning
    <2>6. CASE t = Owner
      <3>1. setting[t].step = "delete" /\ setting[t].destroy /\ pc' = pc
        BY <1>2, <2>3, <2>6, WorkersAssumption
           DEF DestroyEnds, Destroying, CallOK
      <3>2. \A w \in Workers : pc[w] # "destroy"
        BY <3>1 DEF DestroyedOnce
      <3> QED BY <2>5, <3>1, <3>2
    <2>7. CASE t # Owner
      <3>1. t \in Workers /\ pc[t] = "destroy" /\ Goto(t, "ended")
        BY <1>2, <2>7 DEF DestroyEnds, Destroying, At
      <3>2. \A w \in Workers : pc[w] = "destroy" => w = t
        BY <3>1 DEF DestroyedOnce
      <3> QED BY <2>3, <2>5, <3>1, <3>2 DEF Goto, WorkerTypes
    <2> QED BY <2>6, <2>7
  <1> QED BY <1>1, <1>2 DEF PoolOutlivesWorkers

-----------------------------------------------------------------------------
(* The theorems.                                                           *)

LEMMA IInvInit == Init => IInv
  <1> SUFFICES ASSUME Init PROVE IInv
    OBVIOUS
  <1>1. PoolOutlivesWorkers
    BY DEF Init, PoolOutlivesWorkers
  <1> QED BY <1>1, TypedInit, AssignedInit, AllReachableInit, NumbersInit,
             DestroyedInit DEF IInv

LEMMA IInvNext ==
    ASSUME IInv, [Next]_vars
    PROVE  IInv'
  <1>1. Typed' /\ Assigned' /\ AllReachable'
    BY TypedNext, AssignedNext, AllReachableNext DEF IInv
  <1>2. WorkersAddUp' /\ Counted'
    BY <1>1, NumbersNext DEF IInv
  <1>3. DestroyedOnce' /\ PoolOutlivesWorkers'
    BY DestroyedNext, PoolNext DEF IInv
  <1> QED BY <1>1, <1>2, <1>3 DEF IInv

LEMMA IInvHolds == Spec => []IInv
  BY IInvInit, IInvNext, PTL DEF Spec

(* However set_nthreads(), wakeup() and dying workers interleave, no       *)
(* worker is lost or doubled: the living workers, the deaths that are due  *)
(* and the calls in progress account for n_threads, and n_active counts    *)
(* the workers that have not ended, unless a change of it was lost         *)
(* (threadpool.cc:425, 622, 505).                                          *)
THEOREM WorkersAreAccounted == Spec => []WorkersAccounted
  <1>1. IInv => WorkersAccounted
    BY CountedActive DEF IInv, Typed, WorkersAccounted
  <1> QED BY <1>1, IInvHolds, PTL

(* A worker that waits at the end of do_sleep() is on the idle list, where *)
(* wakeup() and kill() look for one, or is in the hands of a thread that   *)
(* popped it and is about to wake or kill it (threadpool.cc:589-618).      *)
THEOREM SleepersAreFound == Spec => []SleepersAreReachable
  <1>1. IInv => SleepersAreReachable
    BY ReachableSleepers DEF IInv
  <1> QED BY <1>1, IInvHolds, PTL

(* The pool is deleted, by its owner or by one of its workers, when all    *)
(* of its workers have ended, unless they were counted wrong               *)
(* (threadpool.cc:167, 505).                                               *)
THEOREM PoolIsLast == Spec => []PoolOutlivesWorkers
  <1>1. IInv => PoolOutlivesWorkers
    BY DEF IInv
  <1> QED BY <1>1, IInvHolds, PTL
=============================================================================
