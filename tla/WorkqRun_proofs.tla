-------------------------- MODULE WorkqRun_proofs --------------------------
(***************************************************************************)
(* The run locks of workqs and of jobs are where workq.cc takes them to    *)
(* be: LocksSound of WorkqRun, for all threads, jobs, workqs and programs. *)
(*                                                                         *)
(* Every count in the invariant is the number of frames, on all stacks,    *)
(* that are in some set P (Tally(P)).  A step replaces the frames on top   *)
(* of one stack, and the lemmas Goes and Returns say once how the frames,  *)
(* the order they are stacked in, and all the tallies change by it.  What  *)
(* is left of a step is how the locks and the coroutine jobs change.       *)
(***************************************************************************)
EXTENDS WorkqRun, FiniteSetTheorems, SequenceTheorems, TLAPS

-----------------------------------------------------------------------------
(* The invariant.                                                          *)

Labels ==
    {"user", "body", "runq", "ul.job", "ul.wq", "ul.ref", "immed", "de.load",
     "de.clear", "de.wait", "aid", "aid.co", "aid.wq", "wq", "co.publish",
     "co.link", "co.fetch", "co.fn", "co.erase", "co.dec", "co.unlock",
     "co.store", "co.next", "sw.lock", "sw.undo", "rel.test", "del.erase",
     "del.find", "del.wait", "wqd", "wqd.set"}

Obj == Jobs \cup Workqs
Locks == [wq : Workqs \cup {None}, lck : {"", "SINGLE", "PARALLEL"},
          job : Jobs \cup {None}, co : Jobs \cup {None}]
FrameType == [at : Labels, x : Obj \cup {None}, lock : Locks,
              prog : Seq(Call), left : Nat, gen : Nat, b : BOOLEAN,
              pin : Obj \cup {None}]

Coroutines == {j \in Made : IsCoroutine(j)}
OwnLock(j) == Lock(WorkqOf[j], LockFor(j), j, None)
Published(c) == rlck[c].job = c

\* What a frame is about, by where it is.
JobLabels == {"runq", "immed", "de.load", "de.clear", "de.wait", "del.erase",
              "del.find", "del.wait", "body", "co.link"}
WorkqLabels == {"wq", "sw.lock", "sw.undo", "wqd", "wqd.set"}
CoLabels == {"co.fetch", "co.fn", "co.erase", "co.dec", "co.unlock",
             "co.next"}
HoldLabels == OnStackLabels \cup {"ul.job", "ul.wq", "co.next"}

About(f) ==
    /\ f.at \in JobLabels => f.x \in Made
    /\ f.at \in WorkqLabels => f.x \in Workqs
    /\ f.at = "rel.test" => f.x \in Obj
    /\ f.at = "co.publish" => f.x \in Coroutines
    /\ f.at = "aid.wq" => f.pin \in Workqs /\ f.left > 0
    /\ f.prog \in Seq(CallsOn(Made))
    /\ f.lock.job \in Made \cup {None}

\* The locks that frames hold.  Until run() of a coroutine job has published
\* the lock, the job has no call that could switch it.
LockAbout(f) ==
    /\ f.lock.wq # None => f.at \in HoldLabels
    /\ f.at \in {"sw.lock", "sw.undo"} => f.lock.lck \in {"SINGLE", "PARALLEL"}
    /\ f.at = "co.link" => f.lock = NoLock
    /\ f.at \in {"body", "co.publish"} /\ f.x \in Coroutines =>
          /\ f.lock = OwnLock(f.x)
          /\ \A i \in DOMAIN f.prog : f.prog[i].op = "drop"

\* Who links a coroutine job, or runs its functions, found it published.
CoAbout(f) ==
    /\ f.at \in CoLabels \cup {"co.link"} =>
          f.x \in Coroutines /\ Published(f.x)
    /\ f.at = "aid.co" /\ f.pin # None =>
          f.pin \in Coroutines /\ Published(f.pin)
    /\ f.at = "co.fn" => f.b
    /\ f.at # "co.store"
    /\ f.at = "co.unlock" => ~f.b

SoundFrames ==
    {f \in FrameType : About(f) /\ LockAbout(f) /\ CoAbout(f)}

\* The frames that need another one right below.
Needs(f) == f.at \in CoLabels \cup {"sw.lock", "sw.undo"}
Supports(f, g) ==
    /\ f.at \in CoLabels =>
          g.at = "aid.co" /\ (f.at = "co.fetch" /\ ~f.b => g.left > 0)
    /\ f.at \in {"sw.lock", "sw.undo"} =>
          g.at \in {"body", "co.fn"} /\ g.lock.wq = None
Stacked(s) ==
    \A i \in DOMAIN s :
        Needs(s[i]) => i + 1 \in DOMAIN s /\ Supports(s[i], s[i + 1])

StacksSound ==
    /\ stack \in [Threads -> Seq(SoundFrames)]
    /\ \A t \in Threads : Stacked(stack[t])

\* The frames on the stacks that are in P.
Slots(stk, P) == {p \in Threads \X Nat : /\ p[2] \in DOMAIN stk[p[1]]
                                         /\ stk[p[1]][p[2]] \in P}
Tally(P) == Cardinality(Slots(stack, P))

\* The sets of frames that are counted: those that hold lock l on workq w,
\* give back a run-parallel, start the run of coroutine job c, are about to
\* link it, or run its functions.
Holding(w, l) == {f \in FrameType : f.lock.wq = w /\ f.lock.lck = l}
Restoring(w) == {f \in FrameType : f.at = "sw.undo" /\ f.x = w}
Starting(c) == {f \in FrameType : f.at \in {"body", "co.publish"} /\ f.x = c}
Linking(c) == {f \in FrameType : f.at = "co.link" /\ f.x = c}
Helping(c) ==
    {f \in FrameType : /\ f.at \in {"co.fetch", "co.fn", "co.erase", "co.dec"}
                       /\ f.x = c}

LockSets == {Holding(w, l) : w \in Workqs, l \in {"SINGLE", "PARALLEL"}}
            \cup {Restoring(w) : w \in Workqs}
CoSets == {Starting(c) : c \in Coroutines} \cup {Linking(c) : c \in Coroutines}
          \cup {Helping(c) : c \in Coroutines}
Tallied == LockSets \cup CoSets

One(b) == IF b THEN 1 ELSE 0

TalliesFinite == \A P \in Tallied : IsFiniteSet(Slots(stack, P))

LocksTallied ==
    \A w \in Workqs :
        /\ \A l \in {"SINGLE", "PARALLEL"} : IsFiniteSet(Stolen(w, l))
        /\ Tally(Holding(w, "SINGLE")) + Cardinality(Stolen(w, "SINGLE"))
              = One(single[w])
        /\ (Tally(Holding(w, "PARALLEL")) + Cardinality(Stolen(w, "PARALLEL")))
              + Tally(Restoring(w)) = parallel[w]

\* A coroutine job runs once: from its one start until it is published, and
\* for ever after.  It is linked once.
CoroutinesTallied ==
    \A c \in Coroutines :
        /\ Tally(Starting(c)) = One(running[c] /\ ~Published(c))
        /\ Tally(Linking(c)) + One(c \in ToSet(coq)) =< One(Published(c))
        /\ count[c] = (IF Published(c) THEN Len(fns[c]) ELSE 0)
                      + Tally(Helping(c))

Given ==
    /\ Made \subseteq Jobs
    /\ \A j \in Made : fns[j] \in Seq(Seq(CallsOn(Made))) /\ fns[j] # <<>>

\* The lock of a coroutine job is the one that it was run with.
StolenLocks ==
    \A j \in Jobs : \/ rlck[j] = NoLock
                    \/ /\ j \in Coroutines
                       /\ rlck[j] = OwnLock(j) /\ running[j]

DataType ==
    /\ active \in [Jobs -> BOOLEAN] /\ running \in [Jobs -> BOOLEAN]
    /\ gen \in [Jobs -> 0 .. GenMod - 1]
    /\ runq \in [Jobs -> SUBSET {"all", "parallel"}]
    /\ \A j \in Jobs : runq[j] \subseteq Lists(j)
    /\ wqq \subseteq Workqs
    /\ single \in [Workqs -> BOOLEAN] /\ parallel \in [Workqs -> Int]
    /\ rlck \in [Jobs -> Locks]
    /\ count \in [Jobs -> Int] /\ \A j \in Jobs \ Coroutines : count[j] = 0
    /\ idx \in [Jobs -> Nat]
    /\ coq \in Seq(Coroutines) /\ IsInjective(coq)
    /\ ptr \in [Jobs -> Nat] /\ wptr \in [Workqs -> Nat]
    /\ suicide \subseteq Obj /\ deleted \in [Obj -> Nat]

IInv == /\ Given /\ DataType /\ StolenLocks /\ StacksSound
        /\ TalliesFinite /\ LocksTallied /\ CoroutinesTallied

-----------------------------------------------------------------------------
(* Counting the places of a sequence, and of the stacks.                   *)

Places(s, P) == {i \in DOMAIN s : s[i] \in P}
CountIn(s, P) == Cardinality(Places(s, P))

LEMMA SameSize ==
    ASSUME NEW S, NEW T, IsFiniteSet(S), NEW m \in [S -> T],
           \A x, y \in S : m[x] = m[y] => x = y,
           \A y \in T : \E x \in S : m[x] = y
    PROVE  IsFiniteSet(T) /\ Cardinality(T) = Cardinality(S)
  <1>1. m \in Bijection(S, T)
    BY DEF Bijection, Injection, Surjection, IsInjective
  <1>2. ExistsBijection(S, T)
    BY <1>1 DEF ExistsBijection
  <1> QED BY <1>2, FS_Bijection

LEMMA PlacesFinite ==
    ASSUME NEW T, NEW s \in Seq(T), NEW P
    PROVE  IsFiniteSet(Places(s, P)) /\ CountIn(s, P) \in Nat
  <1>1. DOMAIN s = 1 .. Len(s) /\ Len(s) \in Nat
    BY LenProperties
  <1>2. IsFiniteSet(1 .. Len(s))
    BY <1>1, FS_Interval
  <1>3. Places(s, P) \in SUBSET (1 .. Len(s))
    BY <1>1 DEF Places
  <1>4. IsFiniteSet(Places(s, P))
    BY <1>2, <1>3, FS_Subset
  <1> QED BY <1>4, FS_CardinalityType DEF CountIn

LEMMA CountOne == \A f, P : CountIn(<<f>>, P) = One(f \in P)
  <1> SUFFICES ASSUME NEW f, NEW P PROVE CountIn(<<f>>, P) = One(f \in P)
    OBVIOUS
  <1>1. DOMAIN <<f>> = {1} /\ <<f>>[1] = f
    OBVIOUS
  <1>2. CASE f \in P
    <2>1. Places(<<f>>, P) = {1}
      BY <1>1, <1>2 DEF Places
    <2> QED BY <1>2, <2>1, FS_Singleton DEF CountIn, One
  <1>3. CASE f \notin P
    <2>1. Places(<<f>>, P) = {}
      BY <1>1, <1>3 DEF Places
    <2> QED BY <1>3, <2>1, FS_EmptySet DEF CountIn, One
  <1> QED BY <1>2, <1>3

LEMMA CountBoth ==
    ASSUME NEW T, NEW a \in Seq(T), NEW s \in Seq(T), NEW P
    PROVE  CountIn(a \o s, P) = CountIn(a, P) + CountIn(s, P)
  <1> DEFINE n == Len(a)
  <1> DEFINE A == Places(a, P)
  <1> DEFINE B == Places(s, P)
  <1> DEFINE moved == {i + n : i \in B}
  <1>1. /\ DOMAIN a = 1 .. n /\ n \in Nat
        /\ DOMAIN s = 1 .. Len(s) /\ Len(s) \in Nat
        /\ DOMAIN (a \o s) = 1 .. n + Len(s)
        /\ \A i \in 1 .. n + Len(s) :
              (a \o s)[i] = IF i =< n THEN a[i] ELSE s[i - n]
    BY LenProperties, ConcatProperties
  <1> HIDE DEF n
  <1>2. A \subseteq 1 .. n /\ B \subseteq 1 .. Len(s)
    BY <1>1 DEF Places
  <1>3. Places(a \o s, P) = A \cup moved
    <2>1. ASSUME NEW i \in 1 .. n + Len(s)
          PROVE  (a \o s)[i] \in P <=> i \in A \cup moved
      <3>1. CASE i =< n
        <4>1. i \notin moved
          BY <1>1, <1>2, <3>1
        <4>2. i \in DOMAIN a /\ (a \o s)[i] = a[i]
          BY <1>1, <3>1
        <4> QED BY <4>1, <4>2 DEF Places
      <3>2. CASE i > n
        <4>1. i \notin A
          BY <1>1, <1>2, <3>2
        <4>2. i - n \in DOMAIN s /\ (a \o s)[i] = s[i - n]
          BY <1>1, <3>2
        <4>3. i \in moved <=> i - n \in B
          <5> HIDE DEF A, B
          <5>1. \A k \in B : k \in Nat /\ (k + n = i <=> k = i - n)
            BY <1>1, <1>2, <3>2
          <5> QED BY <5>1
        <4> QED BY <4>1, <4>2, <4>3 DEF Places
      <3> QED BY <1>1, <3>1, <3>2
    <2>2. A \cup moved \subseteq 1 .. n + Len(s)
      BY <1>1, <1>2
    <2> QED BY <1>1, <2>1, <2>2 DEF Places
  <1>4. /\ IsFiniteSet(A) /\ IsFiniteSet(B)
        /\ Cardinality(A) \in Nat /\ Cardinality(B) \in Nat
    BY PlacesFinite, FS_CardinalityType
  <1>5. IsFiniteSet(moved) /\ Cardinality(moved) = Cardinality(B)
    <2> DEFINE m == [i \in B |-> i + n]
    <2>1. m \in [B -> moved] /\ \A y \in moved : \E x \in B : m[x] = y
      OBVIOUS
    <2>2. \A x, y \in B : m[x] = m[y] => x = y
      BY <1>1, <1>2
    <2> HIDE DEF m, moved
    <2> QED BY <1>4, <2>1, <2>2, SameSize
  <1>6. A \cap moved = {}
    BY <1>1, <1>2
  <1> HIDE DEF A, B, moved
  <1>7. Cardinality(A \cup moved) = Cardinality(A) + Cardinality(moved) - 0
    BY <1>4, <1>5, <1>6, FS_Union, FS_EmptySet
  <1> QED BY <1>3, <1>4, <1>5, <1>7 DEF CountIn, A, B

(* The slots of one thread, and those of the others.                       *)
SlotsOf(stk, P, t) == {p \in Slots(stk, P) : p[1] = t}
SlotsBut(stk, P, t) == {p \in Slots(stk, P) : p[1] # t}

LEMMA SlotsOfOne ==
    ASSUME NEW T, NEW t \in Threads, NEW stk \in [Threads -> Seq(T)], NEW P
    PROVE  /\ IsFiniteSet(SlotsOf(stk, P, t))
           /\ Cardinality(SlotsOf(stk, P, t)) = CountIn(stk[t], P)
  <1>1. stk[t] \in Seq(T) /\ DOMAIN stk[t] \subseteq Nat
    <2>1. stk[t] \in Seq(T)
      OBVIOUS
    <2> QED BY <2>1, LenProperties
  <1> DEFINE S == Places(stk[t], P)
  <1>2. SlotsOf(stk, P, t) = {t} \X S
    BY <1>1 DEF Slots, Places, SlotsOf
  <1>3. IsFiniteSet(S)
    BY <1>1, PlacesFinite
  <1> HIDE DEF S
  <1>4. IsFiniteSet({t} \X S) /\ Cardinality({t} \X S) = Cardinality(S)
    <2> DEFINE m == [i \in S |-> <<t, i>>]
    <2>1. /\ m \in [S -> {t} \X S] /\ \A x, y \in S : m[x] = m[y] => x = y
          /\ \A y \in {t} \X S : \E x \in S : m[x] = y
      OBVIOUS
    <2> HIDE DEF m
    <2> QED BY <1>3, <2>1, SameSize
  <1> QED BY <1>2, <1>4 DEF S, CountIn

LEMMA SlotsSplit ==
    ASSUME NEW t, NEW stk, NEW P, IsFiniteSet(SlotsBut(stk, P, t)),
           IsFiniteSet(SlotsOf(stk, P, t))
    PROVE  /\ IsFiniteSet(Slots(stk, P))
           /\ Cardinality(Slots(stk, P)) =
                 Cardinality(SlotsBut(stk, P, t))
                 + Cardinality(SlotsOf(stk, P, t))
  <1> DEFINE A == SlotsBut(stk, P, t)
  <1> DEFINE B == SlotsOf(stk, P, t)
  <1>1. Slots(stk, P) = A \cup B /\ A \cap B = {}
    BY DEF SlotsOf, SlotsBut
  <1>2. Cardinality(A) \in Nat /\ Cardinality(B) \in Nat
    BY FS_CardinalityType
  <1> HIDE DEF A, B
  <1>3. IsFiniteSet(A) /\ IsFiniteSet(B)
    BY DEF A, B
  <1>4. /\ IsFiniteSet(A \cup B)
        /\ Cardinality(A \cup B) =
              Cardinality(A) + Cardinality(B) - Cardinality(A \cap B)
    BY <1>3, FS_Union
  <1>5. Cardinality(A \cap B) = 0
    BY <1>1, FS_EmptySet
  <1> QED BY <1>1, <1>2, <1>4, <1>5 DEF A, B

(* The stack of one thread is replaced.                                    *)
Replaced(stk, new, t, s, T) ==
    /\ stk \in [Threads -> Seq(T)] /\ s \in Seq(T)
    /\ new = [stk EXCEPT ![t] = s]

LEMMA TallyChanges ==
    ASSUME NEW T, NEW t \in Threads, NEW stk, NEW P, NEW s, NEW new,
           Replaced(stk, new, t, s, T), IsFiniteSet(Slots(stk, P))
    PROVE  /\ IsFiniteSet(Slots(new, P))
           /\ Cardinality(Slots(new, P)) =
                 (Cardinality(Slots(stk, P)) + CountIn(s, P))
                 - CountIn(stk[t], P)
  <1>1. /\ stk \in [Threads -> Seq(T)] /\ s \in Seq(T)
        /\ new \in [Threads -> Seq(T)] /\ new[t] = s
        /\ \A u \in Threads \ {t} : new[u] = stk[u]
    BY DEF Replaced
  <1>2. SlotsBut(new, P, t) = SlotsBut(stk, P, t)
    BY <1>1 DEF Slots, SlotsBut
  <1>3. /\ IsFiniteSet(SlotsBut(stk, P, t))
        /\ Cardinality(SlotsBut(stk, P, t)) \in Nat
    <2>1. SlotsBut(stk, P, t) \in SUBSET Slots(stk, P)
      BY DEF SlotsBut
    <2>2. IsFiniteSet(SlotsBut(stk, P, t))
      BY <2>1, FS_Subset
    <2> QED BY <2>2, FS_CardinalityType
  <1>4. /\ IsFiniteSet(SlotsOf(stk, P, t)) /\ IsFiniteSet(SlotsOf(new, P, t))
        /\ Cardinality(SlotsOf(stk, P, t)) = CountIn(stk[t], P)
        /\ Cardinality(SlotsOf(new, P, t)) = CountIn(s, P)
    BY <1>1, SlotsOfOne
  <1>5. CountIn(stk[t], P) \in Nat /\ CountIn(s, P) \in Nat
    <2>1. stk[t] \in Seq(T)
      BY <1>1
    <2> QED BY <1>1, <2>1, PlacesFinite
  <1>6. Cardinality(Slots(stk, P)) =
           Cardinality(SlotsBut(stk, P, t)) + CountIn(stk[t], P)
    BY <1>3, <1>4, SlotsSplit
  <1>7. /\ IsFiniteSet(Slots(new, P))
        /\ Cardinality(Slots(new, P)) =
              Cardinality(SlotsBut(stk, P, t)) + CountIn(s, P)
    BY <1>2, <1>3, <1>4, SlotsSplit
  <1> QED BY <1>3, <1>5, <1>6, <1>7

-----------------------------------------------------------------------------
(* How the stack of a thread changes.                                      *)

\* Frames that may be pushed on any other, and that are not counted.
FreeFrames == {f \in SoundFrames : ~Needs(f) /\ \A P \in Tallied : f \notin P}

LEMMA StackedTop ==
    ASSUME NEW T, NEW f \in T, NEW s \in Seq(T), Stacked(s),
           Needs(f) => s # << >> /\ Supports(f, s[1])
    PROVE  Stacked(<<f>> \o s)
  <1> DEFINE r == <<f>> \o s
  <1>1. /\ <<f>> \in Seq(T) /\ Len(<<f>>) = 1 /\ <<f>>[1] = f
        /\ DOMAIN s = 1 .. Len(s) /\ Len(s) \in Nat
    BY LenProperties
  <1>2. /\ DOMAIN r = 1 .. 1 + Len(s)
        /\ r[1] = f /\ \A i \in 2 .. 1 + Len(s) : r[i] = s[i - 1]
    <2>1. /\ r \in Seq(T) /\ Len(r) = 1 + Len(s)
          /\ \A i \in 1 .. 1 + Len(s) :
                r[i] = IF i <= 1 THEN <<f>>[i] ELSE s[i - 1]
      BY <1>1, ConcatProperties
    <2> HIDE DEF r
    <2>2. DOMAIN r = 1 .. 1 + Len(s)
      BY <2>1, LenProperties
    <2> QED BY <1>1, <2>1, <2>2
  <1> HIDE DEF r
  <1>3. ASSUME NEW i \in DOMAIN r, Needs(r[i])
        PROVE  i + 1 \in DOMAIN r /\ Supports(r[i], r[i + 1])
    <2>1. CASE i = 1
      <3>1. s # << >> /\ Supports(f, s[1])
        BY <1>2, <1>3, <2>1
      <3>2. 1 \in DOMAIN s
        BY <3>1, <1>1, EmptySeq
      <3>3. 2 \in DOMAIN r /\ r[2] = s[1]
        BY <1>1, <1>2, <3>2
      <3> QED BY <1>2, <2>1, <3>1, <3>3
    <2>2. CASE i # 1
      <3>1. i - 1 \in DOMAIN s /\ r[i] = s[i - 1]
        BY <1>1, <1>2, <2>2
      <3>2. (i - 1) + 1 \in DOMAIN s /\ Supports(s[i - 1], s[(i - 1) + 1])
        BY <1>3, <3>1 DEF Stacked
      <3>3. (i - 1) + 1 = i /\ (i + 1) - 1 = i
        BY <1>2
      <3>4. i + 1 \in DOMAIN r /\ r[i + 1] = s[i]
        BY <1>1, <1>2, <3>2, <3>3
      <3> QED BY <3>1, <3>2, <3>3, <3>4
    <2> QED BY <2>1, <2>2
  <1>4. Stacked(r)
    BY <1>3 DEF Stacked
  <1> QED BY <1>4 DEF r

LEMMA StackedCalls ==
    ASSUME NEW T, NEW a \in Seq(T), NEW s \in Seq(T), Stacked(s),
           \A i \in DOMAIN a : ~Needs(a[i])
    PROVE  Stacked(a \o s)
  <1> DEFINE r == a \o s
  <1> DEFINE n == Len(a)
  <1>1. /\ DOMAIN s = 1 .. Len(s) /\ Len(s) \in Nat
        /\ DOMAIN a = 1 .. n /\ n \in Nat
    BY LenProperties
  <1>2. /\ DOMAIN r = 1 .. n + Len(s)
        /\ \A i \in 1 .. n : r[i] = a[i]
        /\ \A i \in n + 1 .. n + Len(s) : r[i] = s[i - n]
    <2>1. /\ r \in Seq(T) /\ Len(r) = n + Len(s)
          /\ \A i \in 1 .. n + Len(s) :
                r[i] = IF i <= n THEN a[i] ELSE s[i - n]
      BY <1>1, ConcatProperties
    <2> HIDE DEF r
    <2>2. DOMAIN r = 1 .. n + Len(s)
      BY <2>1, LenProperties
    <2> HIDE DEF n
    <2> QED BY <1>1, <2>1, <2>2
  <1> HIDE DEF r, n
  <1>3. ASSUME NEW i \in DOMAIN r, Needs(r[i])
        PROVE  i + 1 \in DOMAIN r /\ Supports(r[i], r[i + 1])
    <2>1. CASE i =< n
      <3>1. i \in DOMAIN a /\ r[i] = a[i]
        BY <1>1, <1>2, <2>1
      <3> QED BY <1>3, <3>1
    <2>2. CASE i > n
      <3>1. i - n \in DOMAIN s /\ r[i] = s[i - n]
        BY <1>1, <1>2, <2>2
      <3>2. (i - n) + 1 \in DOMAIN s /\ Supports(s[i - n], s[(i - n) + 1])
        BY <1>3, <3>1 DEF Stacked
      <3>3. i + 1 \in n + 1 .. n + Len(s) /\ (i + 1) - n = (i - n) + 1
        BY <1>1, <1>2, <3>2
      <3>4. i + 1 \in DOMAIN r /\ r[i + 1] = s[(i - n) + 1]
        BY <1>1, <1>2, <3>3
      <3> QED BY <3>1, <3>2, <3>4
    <2> QED BY <1>1, <1>2, <2>1, <2>2
  <1>4. Stacked(r)
    BY <1>3 DEF Stacked
  <1> QED BY <1>4 DEF r

\* A stack is its top frame on the others.
LEMMA TopOff ==
    ASSUME NEW T, NEW s \in Seq(T), s # << >>, Stacked(s)
    PROVE  /\ s[1] \in T /\ Tail(s) \in Seq(T) /\ Stacked(Tail(s))
           /\ Needs(s[1]) => Tail(s) # << >> /\ Supports(s[1], Tail(s)[1])
           /\ \A P : CountIn(s, P) = One(s[1] \in P) + CountIn(Tail(s), P)
           /\ Len(s) > 1 => Tail(s) # << >> /\ Tail(s)[1] = s[2]
           /\ Needs(s[1]) => Len(s) > 1 /\ Supports(s[1], s[2])
  <1> DEFINE r == Tail(s)
  <1>1. /\ DOMAIN s = 1 .. Len(s) /\ Len(s) \in Nat \ {0} /\ s[1] \in T
        /\ r \in Seq(T) /\ Len(r) = Len(s) - 1 /\ DOMAIN r = 1 .. Len(r)
        /\ \A i \in 1 .. Len(r) : r[i] = s[i + 1]
    BY LenProperties, EmptySeq, HeadTailProperties
  <1> HIDE DEF r
  <1> DEFINE f == s[1]
  <1> DEFINE q == <<f>> \o r
  <1>0. f \in T
    BY <1>1
  <1> HIDE DEF f
  <1>2. <<f>> \in Seq(T) /\ s = q
    <2>1. <<f>> \in Seq(T) /\ Len(<<f>>) = 1 /\ <<f>>[1] = f
      BY <1>0
    <2>2. /\ q \in Seq(T) /\ Len(q) = 1 + Len(r)
          /\ \A i \in 1 .. 1 + Len(r) :
                 q[i] = IF i <= 1 THEN <<f>>[i] ELSE r[i - 1]
      BY <1>1, <2>1, ConcatProperties
    <2> HIDE DEF q
    <2>3. ASSUME NEW i \in 1 .. Len(s) PROVE s[i] = q[i]
      <3>1. CASE i = 1
        BY <1>1, <2>1, <2>2, <3>1 DEF f
      <3>2. CASE i # 1
        <4>1. i - 1 \in 1 .. Len(r) /\ (i - 1) + 1 = i
          BY <1>1, <3>2
        <4> QED BY <1>1, <2>2, <3>2, <4>1
      <3> QED BY <3>1, <3>2
    <2>4. Len(s) = Len(q)
      BY <1>1, <2>2
    <2> QED BY <1>1, <2>1, <2>2, <2>3, <2>4, SeqEqual
  <1>3. \A P : CountIn(s, P) = One(s[1] \in P) + CountIn(r, P)
    <2>1. \A P : CountIn(q, P) = CountIn(<<f>>, P) + CountIn(r, P)
      BY <1>1, <1>2, CountBoth
    <2> HIDE DEF q
    <2>2. \A P : CountIn(s, P) = One(f \in P) + CountIn(r, P)
      BY <1>2, <2>1, CountOne
    <2> QED BY <2>2 DEF f
  <1>4. Stacked(r)
    <2>1. ASSUME NEW i \in DOMAIN r, Needs(r[i])
          PROVE  i + 1 \in DOMAIN r /\ Supports(r[i], r[i + 1])
      <3>1. i + 1 \in DOMAIN s /\ r[i] = s[i + 1]
        BY <1>1
      <3>2. (i + 1) + 1 \in DOMAIN s /\ Supports(s[i + 1], s[(i + 1) + 1])
        BY <2>1, <3>1 DEF Stacked
      <3>3. i + 1 \in DOMAIN r /\ r[i + 1] = s[(i + 1) + 1]
        BY <1>1, <3>2
      <3> QED BY <3>1, <3>2, <3>3
    <2> QED BY <2>1 DEF Stacked
  <1>5. Len(s) > 1 => r # << >> /\ r[1] = s[2]
    BY <1>1, EmptySeq
  <1>6. Needs(s[1]) => Len(s) > 1 /\ Supports(s[1], s[2])
    <2>1. 1 \in DOMAIN s /\ 1 + 1 = 2
      BY <1>1
    <2> QED BY <1>1, <2>1 DEF Stacked
  <1> QED BY <1>1, <1>3, <1>4, <1>5, <1>6 DEF r

LEMMA FreeCalls ==
    ASSUME NEW calls \in Seq(FreeFrames), NEW T, SoundFrames \subseteq T,
           NEW s \in Seq(T), Stacked(s)
    PROVE  /\ calls \in Seq(T)
           /\ calls \o s \in Seq(T) /\ Stacked(calls \o s)
           /\ \A P \in Tallied : CountIn(calls \o s, P) = CountIn(s, P)
  <1>1. calls \in Seq(T)
    <2>1. FreeFrames \subseteq T
      BY DEF FreeFrames
    <2> QED BY <2>1, SeqMonotonic
  <1>2. \A i \in DOMAIN calls : calls[i] \in FreeFrames
    BY LenProperties
  <1>3. calls \o s \in Seq(T)
    BY <1>1, ConcatProperties
  <1>4. Stacked(calls \o s)
    <2>1. \A i \in DOMAIN calls : ~Needs(calls[i])
      BY <1>2 DEF FreeFrames
    <2> QED BY <1>1, <2>1, StackedCalls
  <1>5. ASSUME NEW P \in Tallied PROVE CountIn(calls \o s, P) = CountIn(s, P)
    <2>1. Places(calls, P) = {}
      BY <1>2 DEF Places, FreeFrames
    <2>2. CountIn(calls, P) = 0
      BY <2>1, FS_EmptySet DEF CountIn
    <2>3. CountIn(s, P) \in Nat
      BY PlacesFinite
    <2> QED BY <1>1, <2>2, <2>3, CountBoth
  <1> QED BY <1>1, <1>3, <1>4, <1>5

\* The frames, and the counts of frames, after a step of t.
StacksStep == StacksSound' /\ TalliesFinite'

LEMMA TalliedStay == ASSUME fns' = fns PROVE Tallied' = Tallied
  BY DEF Tallied, LockSets, CoSets, Holding, Restoring, Starting, Linking, Helping,
         Coroutines, Made, IsCoroutine

LEMMA SoundStay ==
    ASSUME UNCHANGED <<fns, rlck>>
    PROVE  SoundFrames' = SoundFrames
  BY DEF SoundFrames, About, LockAbout, CoAbout, Published, Coroutines, Made,
         IsCoroutine, OwnLock, LockFor, CallsOn

LEMMA Becomes ==
    ASSUME StacksSound, TalliesFinite, fns' = fns,
           SoundFrames \subseteq SoundFrames', NEW t \in Threads,
           NEW s \in Seq(SoundFrames'), Stacked(s),
           stack' = [stack EXCEPT ![t] = s]
    PROVE  /\ StacksStep
           /\ \A P \in Tallied :
                 Tally(P)' = (Tally(P) + CountIn(s, P)) - CountIn(stack[t], P)
  <1>1. stack \in [Threads -> Seq(SoundFrames')]
    <2>1. Seq(SoundFrames) \subseteq Seq(SoundFrames')
      BY SeqMonotonic
    <2> QED BY <2>1 DEF StacksSound
  <1>2. StacksSound'
    <2>1. stack' \in [Threads -> Seq(SoundFrames')]
      BY <1>1
    <2>2. \A u \in Threads : stack'[u] = IF u = t THEN s ELSE stack[u]
      BY <1>1
    <2>3. \A u \in Threads : Stacked(stack'[u])
      BY <2>2 DEF StacksSound
    <2> QED BY <2>1, <2>3 DEF StacksSound, Stacked
  <1>3. \A P \in Tallied :
           /\ IsFiniteSet(Slots(stack', P))
           /\ Cardinality(Slots(stack', P)) =
                 (Cardinality(Slots(stack, P)) + CountIn(s, P))
                 - CountIn(stack[t], P)
    <2> SUFFICES ASSUME NEW P \in Tallied
                 PROVE  /\ IsFiniteSet(Slots(stack', P))
                        /\ Cardinality(Slots(stack', P)) =
                              (Cardinality(Slots(stack, P)) + CountIn(s, P))
                              - CountIn(stack[t], P)
      OBVIOUS
    <2>1. IsFiniteSet(Slots(stack, P))
      BY DEF TalliesFinite
    <2>2. Replaced(stack, stack', t, s, SoundFrames')
      BY <1>1 DEF Replaced
    <2> QED BY <2>1, <2>2, TallyChanges
  <1>4. TalliesFinite'
    <2>1. \A P \in Tallied' : IsFiniteSet(Slots(stack', P))
      BY <1>3, TalliedStay
    <2> QED BY <2>1 DEF TalliesFinite, Slots
  <1>5. \A P \in Tallied :
           Tally(P)' = (Tally(P) + CountIn(s, P)) - CountIn(stack[t], P)
    BY <1>3 DEF Tally, Slots
  <1> QED BY <1>2, <1>4, <1>5 DEF StacksStep

LEMMA TallyIs ==
    ASSUME TalliesFinite, NEW P \in Tallied
    PROVE  Tally(P) \in Nat
  BY FS_CardinalityType DEF TalliesFinite, Tally

LEMMA TopIs ==
    ASSUME StacksSound, NEW t \in Threads, stack[t] # << >>
    PROVE  /\ Top(t) = stack[t][1] /\ Top(t) \in SoundFrames
           /\ Tail(stack[t]) \in Seq(SoundFrames) /\ Stacked(Tail(stack[t]))
           /\ \A P : /\ CountIn(Tail(stack[t]), P) \in Nat
                     /\ CountIn(stack[t], P)
                          = One(Top(t) \in P) + CountIn(Tail(stack[t]), P)
           /\ Needs(Top(t)) => /\ Tail(stack[t]) # << >>
                               /\ Supports(Top(t), Tail(stack[t])[1])
  <1>1. stack[t] \in Seq(SoundFrames) /\ Stacked(stack[t])
    BY DEF StacksSound
  <1> DEFINE s == stack[t]
  <1> HIDE DEF s
  <1>2. s \in Seq(SoundFrames) /\ Stacked(s) /\ s # << >>
    BY <1>1 DEF s
  <1>3. /\ s[1] \in SoundFrames /\ Tail(s) \in Seq(SoundFrames)
        /\ Stacked(Tail(s))
        /\ Needs(s[1]) => Tail(s) # << >> /\ Supports(s[1], Tail(s)[1])
        /\ \A P : CountIn(s, P) = One(s[1] \in P) + CountIn(Tail(s), P)
    BY <1>2, TopOff
  <1>4. \A P : CountIn(Tail(s), P) \in Nat
    BY <1>3, PlacesFinite
  <1> QED BY <1>3, <1>4 DEF Top, s

\* The frame g in the place of the top one can stand where it stood.
Follows(g, f) ==
    Needs(g) => Needs(f) /\ \A h \in SoundFrames : Supports(f, h) => Supports(g, h)

\* Return(t, calls).
LEMMA Returns ==
    ASSUME StacksSound, TalliesFinite, UNCHANGED <<fns, rlck>>,
           NEW t \in Threads, stack[t] # << >>, NEW calls \in Seq(FreeFrames),
           stack' = [stack EXCEPT ![t] = calls \o Tail(@)]
    PROVE  /\ StacksStep
           /\ \A P \in Tallied :
                 Tally(P)' = Tally(P) - One(Top(t) \in P)
  <1> DEFINE r == Tail(stack[t])
  <1> DEFINE s == calls \o r
  <1>1. /\ r \in Seq(SoundFrames) /\ Stacked(r)
        /\ \A P : /\ CountIn(r, P) \in Nat
                  /\ CountIn(stack[t], P) = One(Top(t) \in P) + CountIn(r, P)
    BY TopIs
  <1>2. stack' = [stack EXCEPT ![t] = s]
    BY DEF StacksSound
  <1> HIDE DEF r
  <1>3. /\ s \in Seq(SoundFrames) /\ Stacked(s)
        /\ \A P \in Tallied : CountIn(s, P) = CountIn(r, P)
    BY <1>1, FreeCalls
  <1> HIDE DEF s
  <1>4. /\ StacksStep
        /\ \A P \in Tallied :
              Tally(P)' = (Tally(P) + CountIn(s, P)) - CountIn(stack[t], P)
    BY <1>2, <1>3, SoundStay, Becomes
  <1>5. ASSUME NEW P \in Tallied
        PROVE  Tally(P)' = Tally(P) - One(Top(t) \in P)
    <2>1. Tally(P) \in Nat /\ One(Top(t) \in P) \in Nat
      BY TallyIs DEF One
    <2> QED BY <1>1, <1>3, <1>4, <2>1
  <1> QED BY <1>4, <1>5

\* Go(t, g, calls).
LEMMA Goes ==
    ASSUME StacksSound, TalliesFinite, fns' = fns,
           SoundFrames \subseteq SoundFrames',
           NEW t \in Threads, stack[t] # << >>, NEW calls \in Seq(FreeFrames),
           NEW g \in SoundFrames', Follows(g, Top(t)),
           stack' = [stack EXCEPT ![t] = calls \o <<g>> \o Tail(@)]
    PROVE  /\ StacksStep
           /\ \A P \in Tallied :
                 Tally(P)' = (Tally(P) + One(g \in P)) - One(Top(t) \in P)
  <1> DEFINE r == Tail(stack[t])
  <1> DEFINE q == <<g>> \o r
  <1> DEFINE s == calls \o q
  <1>1. /\ r \in Seq(SoundFrames) /\ Stacked(r)
        /\ \A P : /\ CountIn(r, P) \in Nat
                  /\ CountIn(stack[t], P) = One(Top(t) \in P) + CountIn(r, P)
        /\ Needs(g) => r # << >> /\ Supports(g, r[1])
    <2>1. /\ r \in Seq(SoundFrames) /\ Stacked(r)
          /\ \A P : /\ CountIn(r, P) \in Nat
                    /\ CountIn(stack[t], P)
                         = One(Top(t) \in P) + CountIn(r, P)
          /\ Needs(Top(t)) => r # << >> /\ Supports(Top(t), r[1])
      BY TopIs
    <2> HIDE DEF r
    <2>2. r # << >> => r[1] \in SoundFrames
      BY <2>1, EmptySeq, ElementOfSeq
    <2> QED BY <2>1, <2>2 DEF Follows
  <1>2. stack' = [stack EXCEPT ![t] = (calls \o <<g>>) \o r]
    BY DEF StacksSound
  <1> HIDE DEF r
  <1>3. r \in Seq(SoundFrames') /\ <<g>> \in Seq(SoundFrames')
    BY <1>1, SeqMonotonic
  <1>4. /\ q \in Seq(SoundFrames') /\ Stacked(q)
        /\ \A P : CountIn(q, P) = One(g \in P) + CountIn(r, P)
    <2>1. q \in Seq(SoundFrames')
      BY <1>3, ConcatProperties
    <2>2. Stacked(q)
      BY <1>1, <1>3, StackedTop
    <2>3. \A P : CountIn(q, P) = CountIn(<<g>>, P) + CountIn(r, P)
      BY <1>3, CountBoth
    <2> HIDE DEF q
    <2> QED BY <2>1, <2>2, <2>3, CountOne
  <1>5. /\ calls \in Seq(SoundFrames') /\ (calls \o <<g>>) \o r = s
    <2>1. calls \in Seq(SoundFrames')
      BY <1>4, FreeCalls
    <2> QED BY <1>3, <2>1, ConcatAssociative
  <1> HIDE DEF q
  <1>6. /\ s \in Seq(SoundFrames') /\ Stacked(s)
        /\ \A P \in Tallied : CountIn(s, P) = CountIn(q, P)
    BY <1>4, FreeCalls
  <1> HIDE DEF s
  <1>7. /\ StacksStep
        /\ \A P \in Tallied :
              Tally(P)' = (Tally(P) + CountIn(s, P)) - CountIn(stack[t], P)
    BY <1>2, <1>5, <1>6, Becomes
  <1>8. ASSUME NEW P \in Tallied
        PROVE  Tally(P)' = (Tally(P) + One(g \in P)) - One(Top(t) \in P)
    <2>1. /\ Tally(P) \in Nat /\ One(Top(t) \in P) \in Nat
          /\ One(g \in P) \in Nat
      BY TallyIs DEF One
    <2> QED BY <1>1, <1>4, <1>6, <1>7, <2>1
  <1> QED BY <1>7, <1>8

\* The stack of t becomes calls on q.
LEMMA CallsOnto ==
    ASSUME StacksSound, TalliesFinite, fns' = fns,
           SoundFrames \subseteq SoundFrames', NEW t \in Threads,
           NEW calls \in Seq(FreeFrames), NEW q \in Seq(SoundFrames'),
           Stacked(q), stack' = [stack EXCEPT ![t] = calls \o q]
    PROVE  /\ StacksStep
           /\ \A P \in Tallied :
                 Tally(P)' = (Tally(P) + CountIn(q, P)) - CountIn(stack[t], P)
  <1> DEFINE s == calls \o q
  <1>1. /\ s \in Seq(SoundFrames') /\ Stacked(s)
        /\ \A P \in Tallied : CountIn(s, P) = CountIn(q, P)
    BY FreeCalls
  <1> HIDE DEF s
  <1>2. stack' = [stack EXCEPT ![t] = s]
    BY DEF s
  <1> QED BY <1>1, <1>2, Becomes

\* Frames on r.
LEMMA OneOnto ==
    ASSUME NEW T, NEW f \in T, NEW r \in Seq(T), Stacked(r),
           Needs(f) => r # << >> /\ Supports(f, r[1])
    PROVE  /\ <<f>> \in Seq(T) /\ <<f>> \o r \in Seq(T) /\ Stacked(<<f>> \o r)
           /\ \A P : CountIn(<<f>> \o r, P) = One(f \in P) + CountIn(r, P)
           /\ <<f>> \o r # << >> /\ (<<f>> \o r)[1] = f
  <1> DEFINE q == <<f>> \o r
  <1>1. <<f>> \in Seq(T) /\ Len(<<f>>) = 1 /\ <<f>>[1] = f
    OBVIOUS
  <1>2. q \in Seq(T) /\ Len(q) = 1 + Len(r) /\ q[1] = f
    <2>1. /\ q \in Seq(T) /\ Len(q) = 1 + Len(r) /\ Len(r) \in Nat
          /\ \A i \in 1 .. 1 + Len(r) : q[i] =
                IF i <= 1 THEN <<f>>[i] ELSE r[i - 1]
      BY <1>1, ConcatProperties, LenProperties
    <2> HIDE DEF q
    <2> QED BY <1>1, <2>1
  <1>3. Stacked(q)
    BY StackedTop
  <1>4. \A P : CountIn(q, P) = CountIn(<<f>>, P) + CountIn(r, P)
    BY <1>1, CountBoth
  <1>5. Len(q) # 0
    BY <1>2, LenProperties
  <1>6. q # << >>
    BY <1>5, EmptySeq
  <1> HIDE DEF q
  <1>7. \A P : CountIn(q, P) = One(f \in P) + CountIn(r, P)
    BY <1>4, CountOne
  <1> QED BY <1>1, <1>2, <1>3, <1>6, <1>7 DEF q

\* Go(t, g, <<h>>): h on g in the place of the top frame.
GoesTo(t, g, h, calls) ==
    /\ stack[t] # << >> /\ calls \in Seq(FreeFrames)
    /\ g \in SoundFrames' /\ Follows(g, Top(t))
    /\ h \in SoundFrames' /\ (Needs(h) => Supports(h, g))
    /\ stack' = [stack EXCEPT ![t] = calls \o (<<h>> \o (<<g>> \o Tail(@)))]

LEMMA GoesUnder ==
    ASSUME StacksSound, TalliesFinite, fns' = fns,
           SoundFrames \subseteq SoundFrames', NEW t \in Threads,
           NEW g, NEW h, NEW calls, GoesTo(t, g, h, calls)
    PROVE  /\ StacksStep
           /\ \A P \in Tallied :
                 Tally(P)' = ((Tally(P) + One(g \in P)) + One(h \in P))
                             - One(Top(t) \in P)
  <1> DEFINE r == Tail(stack[t])
  <1> DEFINE q == <<g>> \o r
  <1> DEFINE s == <<h>> \o q
  <1>1. /\ r \in Seq(SoundFrames) /\ Stacked(r)
        /\ \A P : /\ CountIn(r, P) \in Nat
                  /\ CountIn(stack[t], P) = One(Top(t) \in P) + CountIn(r, P)
        /\ Needs(g) => r # << >> /\ Supports(g, r[1])
    <2>1. /\ r \in Seq(SoundFrames) /\ Stacked(r)
          /\ \A P : /\ CountIn(r, P) \in Nat
                    /\ CountIn(stack[t], P)
                         = One(Top(t) \in P) + CountIn(r, P)
          /\ Needs(Top(t)) => r # << >> /\ Supports(Top(t), r[1])
      BY TopIs DEF GoesTo
    <2> HIDE DEF r
    <2>2. r # << >> => r[1] \in SoundFrames
      BY <2>1, EmptySeq, ElementOfSeq
    <2> QED BY <2>1, <2>2 DEF Follows, GoesTo
  <1>2. stack' = [stack EXCEPT ![t] = calls \o s]
    BY DEF StacksSound, GoesTo
  <1> HIDE DEF r
  <1>3. r \in Seq(SoundFrames')
    BY <1>1, SeqMonotonic
  <1>4. /\ q \in Seq(SoundFrames') /\ Stacked(q) /\ q # << >> /\ q[1] = g
        /\ \A P : CountIn(q, P) = One(g \in P) + CountIn(r, P)
    <2>1. g \in SoundFrames'
      BY DEF GoesTo
    <2> QED BY <1>1, <1>3, <2>1, OneOnto
  <1> HIDE DEF q
  <1>5. /\ s \in Seq(SoundFrames') /\ Stacked(s)
        /\ \A P : CountIn(s, P) = One(h \in P) + CountIn(q, P)
    <2>1. h \in SoundFrames' /\ (Needs(h) => Supports(h, g))
      BY DEF GoesTo
    <2> QED BY <1>4, <2>1, OneOnto
  <1> HIDE DEF s
  <1>6. /\ StacksStep
        /\ \A P \in Tallied :
              Tally(P)' = (Tally(P) + CountIn(s, P)) - CountIn(stack[t], P)
    BY <1>2, <1>5, CallsOnto DEF GoesTo
  <1>7. ASSUME NEW P \in Tallied
        PROVE  Tally(P)' = ((Tally(P) + One(g \in P)) + One(h \in P))
                           - One(Top(t) \in P)
    <2>1. /\ Tally(P) \in Nat /\ One(Top(t) \in P) \in Nat
          /\ One(g \in P) \in Nat /\ One(h \in P) \in Nat
      BY TallyIs DEF One
    <2> QED BY <1>1, <1>4, <1>5, <1>6, <2>1
  <1> QED BY <1>6, <1>7

\* The two frames on top.
LEMMA TwoAre ==
    ASSUME StacksSound, NEW t \in Threads, stack[t] # << >>, Needs(Top(t))
    PROVE  /\ stack[t][2] \in SoundFrames /\ Supports(Top(t), stack[t][2])
           /\ Tail(Tail(stack[t])) \in Seq(SoundFrames)
           /\ Stacked(Tail(Tail(stack[t])))
           /\ \A P : /\ CountIn(Tail(Tail(stack[t])), P) \in Nat
                     /\ CountIn(stack[t], P) =
                           (One(Top(t) \in P) + One(stack[t][2] \in P))
                           + CountIn(Tail(Tail(stack[t])), P)
           /\ Needs(stack[t][2]) =>
                 /\ Tail(Tail(stack[t])) # << >>
                 /\ Supports(stack[t][2], Tail(Tail(stack[t]))[1])
  <1> DEFINE s == stack[t]
  <1>1. s \in Seq(SoundFrames) /\ Stacked(s) /\ s # << >> /\ Needs(s[1])
        /\ Top(t) = s[1]
    BY DEF StacksSound, Top
  <1> HIDE DEF s
  <1> DEFINE r == Tail(s)
  <1>2. /\ r \in Seq(SoundFrames) /\ Stacked(r) /\ r # << >> /\ r[1] = s[2]
        /\ Supports(s[1], s[2])
        /\ \A P : CountIn(s, P) = One(s[1] \in P) + CountIn(r, P)
    BY <1>1, TopOff
  <1> HIDE DEF r
  <1>3. /\ r[1] \in SoundFrames /\ Tail(r) \in Seq(SoundFrames)
        /\ Stacked(Tail(r))
        /\ Needs(r[1]) => Tail(r) # << >> /\ Supports(r[1], Tail(r)[1])
        /\ \A P : CountIn(r, P) = One(r[1] \in P) + CountIn(Tail(r), P)
    BY <1>2, TopOff
  <1>4. \A P : CountIn(Tail(r), P) \in Nat
    BY <1>3, PlacesFinite
  <1>5. \A P : CountIn(s, P) = (One(s[1] \in P) + One(s[2] \in P))
                               + CountIn(Tail(r), P)
    <2>1. \A P : One(s[1] \in P) \in Nat /\ One(s[2] \in P) \in Nat
      BY DEF One
    <2> QED BY <1>2, <1>3, <1>4, <2>1
  <1> QED BY <1>1, <1>2, <1>3, <1>4, <1>5 DEF s, r

\* The two frames on top become calls, g on h.
PairTo(t, g, h, calls) ==
    /\ stack[t] # << >> /\ Needs(Top(t)) /\ calls \in Seq(FreeFrames)
    /\ h \in SoundFrames' /\ Follows(h, stack[t][2])
    /\ g \in SoundFrames' /\ (Needs(g) => Supports(g, h))
    /\ stack' = [stack EXCEPT ![t] =
                    calls \o (<<g>> \o (<<h>> \o Tail(Tail(@))))]

LEMMA PairGoes ==
    ASSUME StacksSound, TalliesFinite, fns' = fns,
           SoundFrames \subseteq SoundFrames', NEW t \in Threads,
           NEW g, NEW h, NEW calls, PairTo(t, g, h, calls)
    PROVE  /\ StacksStep
           /\ \A P \in Tallied :
                 Tally(P)' = ((Tally(P) + One(g \in P)) + One(h \in P))
                             - (One(Top(t) \in P) + One(stack[t][2] \in P))
  <1> DEFINE r == Tail(Tail(stack[t]))
  <1> DEFINE q == <<h>> \o r
  <1> DEFINE s == <<g>> \o q
  <1>1. /\ r \in Seq(SoundFrames) /\ Stacked(r)
        /\ \A P : /\ CountIn(r, P) \in Nat
                  /\ CountIn(stack[t], P) =
                        (One(Top(t) \in P) + One(stack[t][2] \in P))
                        + CountIn(r, P)
        /\ Needs(h) => r # << >> /\ Supports(h, r[1])
    <2>1. /\ r \in Seq(SoundFrames) /\ Stacked(r)
          /\ \A P : /\ CountIn(r, P) \in Nat
                    /\ CountIn(stack[t], P) =
                          (One(Top(t) \in P) + One(stack[t][2] \in P))
                          + CountIn(r, P)
          /\ Needs(stack[t][2]) => r # << >> /\ Supports(stack[t][2], r[1])
      BY TwoAre DEF PairTo
    <2> HIDE DEF r
    <2>2. r # << >> => r[1] \in SoundFrames
      BY <2>1, EmptySeq, ElementOfSeq
    <2> QED BY <2>1, <2>2 DEF Follows, PairTo
  <1>2. stack' = [stack EXCEPT ![t] = calls \o s]
    BY DEF StacksSound, PairTo
  <1> HIDE DEF r
  <1>3. r \in Seq(SoundFrames')
    BY <1>1, SeqMonotonic
  <1>4. /\ q \in Seq(SoundFrames') /\ Stacked(q) /\ q # << >> /\ q[1] = h
        /\ \A P : CountIn(q, P) = One(h \in P) + CountIn(r, P)
    <2>1. h \in SoundFrames'
      BY DEF PairTo
    <2> QED BY <1>1, <1>3, <2>1, OneOnto
  <1> HIDE DEF q
  <1>5. /\ s \in Seq(SoundFrames') /\ Stacked(s)
        /\ \A P : CountIn(s, P) = One(g \in P) + CountIn(q, P)
    <2>1. g \in SoundFrames' /\ (Needs(g) => Supports(g, h))
      BY DEF PairTo
    <2> QED BY <1>4, <2>1, OneOnto
  <1> HIDE DEF s
  <1>6. /\ StacksStep
        /\ \A P \in Tallied :
              Tally(P)' = (Tally(P) + CountIn(s, P)) - CountIn(stack[t], P)
    BY <1>2, <1>5, CallsOnto DEF PairTo
  <1>7. ASSUME NEW P \in Tallied
        PROVE  Tally(P)' = ((Tally(P) + One(g \in P)) + One(h \in P))
                           - (One(Top(t) \in P) + One(stack[t][2] \in P))
    <2>1. /\ Tally(P) \in Nat /\ One(Top(t) \in P) \in Nat
          /\ One(g \in P) \in Nat /\ One(h \in P) \in Nat
          /\ One(stack[t][2] \in P) \in Nat
      BY TallyIs DEF One
    <2> QED BY <1>1, <1>4, <1>5, <1>6, <2>1
  <1> QED BY <1>6, <1>7

\* The top frame goes, and the next one becomes h.
LEMMA PairReturns ==
    ASSUME StacksSound, TalliesFinite, fns' = fns,
           SoundFrames \subseteq SoundFrames', NEW t \in Threads,
           stack[t] # << >>, Needs(Top(t)), NEW h \in SoundFrames',
           Follows(h, stack[t][2]),
           stack' = [stack EXCEPT ![t] = <<h>> \o Tail(Tail(@))]
    PROVE  /\ StacksStep
           /\ \A P \in Tallied :
                 Tally(P)' = (Tally(P) + One(h \in P))
                             - (One(Top(t) \in P) + One(stack[t][2] \in P))
  <1> DEFINE r == Tail(Tail(stack[t]))
  <1> DEFINE q == <<h>> \o r
  <1>1. /\ r \in Seq(SoundFrames) /\ Stacked(r)
        /\ \A P : /\ CountIn(r, P) \in Nat
                  /\ CountIn(stack[t], P) =
                        (One(Top(t) \in P) + One(stack[t][2] \in P))
                        + CountIn(r, P)
        /\ Needs(h) => r # << >> /\ Supports(h, r[1])
    <2>1. /\ r \in Seq(SoundFrames) /\ Stacked(r)
          /\ \A P : /\ CountIn(r, P) \in Nat
                    /\ CountIn(stack[t], P) =
                          (One(Top(t) \in P) + One(stack[t][2] \in P))
                          + CountIn(r, P)
          /\ Needs(stack[t][2]) => r # << >> /\ Supports(stack[t][2], r[1])
      BY TwoAre
    <2> HIDE DEF r
    <2>2. r # << >> => r[1] \in SoundFrames
      BY <2>1, EmptySeq, ElementOfSeq
    <2> QED BY <2>1, <2>2 DEF Follows
  <1>2. stack' = [stack EXCEPT ![t] = q]
    BY DEF StacksSound
  <1> HIDE DEF r
  <1>3. r \in Seq(SoundFrames')
    BY <1>1, SeqMonotonic
  <1>4. /\ q \in Seq(SoundFrames') /\ Stacked(q)
        /\ \A P : CountIn(q, P) = One(h \in P) + CountIn(r, P)
    BY <1>1, <1>3, OneOnto
  <1> HIDE DEF q
  <1>5. /\ StacksStep
        /\ \A P \in Tallied :
              Tally(P)' = (Tally(P) + CountIn(q, P)) - CountIn(stack[t], P)
    BY <1>2, <1>4, Becomes
  <1>6. ASSUME NEW P \in Tallied
        PROVE  Tally(P)' = (Tally(P) + One(h \in P))
                           - (One(Top(t) \in P) + One(stack[t][2] \in P))
    <2>1. /\ Tally(P) \in Nat /\ One(Top(t) \in P) \in Nat
          /\ One(h \in P) \in Nat /\ One(stack[t][2] \in P) \in Nat
      BY TallyIs DEF One
    <2> QED BY <1>1, <1>4, <1>5, <2>1
  <1> QED BY <1>5, <1>6

-----------------------------------------------------------------------------
(* Which frames are counted.                                               *)

StartLabels == {"body", "co.publish"}
HelpLabels == {"co.fetch", "co.fn", "co.erase", "co.dec"}

LEMMA SoundIs ==
    ASSUME NEW f \in SoundFrames
    PROVE  f \in FrameType /\ About(f) /\ LockAbout(f) /\ CoAbout(f)
  BY DEF SoundFrames

\* The fields of frames.
LEMMA FieldsAre ==
    ASSUME NEW f \in FrameType
    PROVE  /\ f.at \in Labels /\ f.x \in Obj \cup {None} /\ f.lock \in Locks
           /\ f.prog \in Seq(Call) /\ f.left \in Nat /\ f.gen \in Nat
           /\ f.b \in BOOLEAN /\ f.pin \in Obj \cup {None}
           /\ f.lock.wq \in Workqs \cup {None}
           /\ f.lock.lck \in {"", "SINGLE", "PARALLEL"}
           /\ f.lock.job \in Jobs \cup {None} /\ f.lock.co \in Jobs \cup {None}
  BY DEF FrameType, Locks

\* f and g count for the same, among the locks or among the coroutine jobs.
LockAlike(f, g) ==
    /\ \/ f.lock.wq = None /\ g.lock.wq = None
       \/ f.lock.wq = g.lock.wq /\ f.lock.lck = g.lock.lck
    /\ f.at = "sw.undo" <=> g.at = "sw.undo"
    /\ f.at = "sw.undo" => f.x = g.x

CoAlike(f, g) ==
    \/ /\ f.x = g.x
       /\ f.x \in Coroutines => (f.at \in StartLabels <=> g.at \in StartLabels)
       /\ f.at = "co.link" <=> g.at = "co.link"
       /\ f.at \in HelpLabels <=> g.at \in HelpLabels
    \/ /\ f.at \notin StartLabels \cup HelpLabels \cup {"co.link"}
       /\ g.at \notin StartLabels \cup HelpLabels \cup {"co.link"}

LEMMA LockAlikeCounts ==
    ASSUME NEW f \in FrameType, NEW g \in FrameType, LockAlike(f, g),
           NEW P \in LockSets
    PROVE  f \in P <=> g \in P
  <1>1. CASE \E w \in Workqs, l \in {"SINGLE", "PARALLEL"} : P = Holding(w, l)
    BY <1>1, RunAssumption DEF LockAlike, Holding
  <1>2. CASE \E w \in Workqs : P = Restoring(w)
    BY <1>2 DEF LockAlike, Restoring
  <1> QED BY <1>1, <1>2 DEF LockSets

LEMMA CoAlikeCounts ==
    ASSUME NEW f \in FrameType, NEW g \in FrameType, CoAlike(f, g),
           NEW P \in CoSets
    PROVE  f \in P <=> g \in P
  <1>1. CASE \E c \in Coroutines : P = Starting(c)
    BY <1>1 DEF CoAlike, Starting, StartLabels, HelpLabels
  <1>2. CASE \E c \in Coroutines : P = Linking(c)
    BY <1>2 DEF CoAlike, Linking
  <1>3. CASE \E c \in Coroutines : P = Helping(c)
    BY <1>3 DEF CoAlike, Helping, HelpLabels
  <1> QED BY <1>1, <1>2, <1>3 DEF CoSets

\* Frames that do not count at all.
PlainLabels == Labels \ ({"sw.lock", "sw.undo", "co.link"} \cup StartLabels
                         \cup CoLabels)
Plain(f) == f.lock.wq = None /\ f.at \in PlainLabels

LEMMA PlainCounts ==
    ASSUME NEW f \in FrameType, Plain(f)
    PROVE  ~Needs(f) /\ \A P \in Tallied : f \notin P
  <1>1. ~Needs(f)
    BY DEF Needs, Plain, PlainLabels
  <1>2. ASSUME NEW P \in LockSets PROVE f \notin P
    BY RunAssumption DEF LockSets, Holding, Restoring, Plain, PlainLabels
  <1>3. ASSUME NEW P \in CoSets PROVE f \notin P
    BY DEF CoSets, Starting, Linking, Helping, Plain, PlainLabels,
           StartLabels, CoLabels
  <1> QED BY <1>1, <1>2, <1>3 DEF Tallied

LEMMA PlainIsFree ==
    ASSUME NEW f \in SoundFrames, Plain(f)
    PROVE  f \in FreeFrames
  BY SoundIs, PlainCounts DEF FreeFrames

\* A frame as Frame() makes it.
LEMMA FrameIs ==
    ASSUME NEW l \in Labels, NEW x \in Obj \cup {None}
    PROVE  /\ Frame(l, x) \in FrameType /\ Frame(l, x).at = l
           /\ Frame(l, x).x = x /\ Frame(l, x).lock = NoLock
           /\ Frame(l, x).prog = << >> /\ Frame(l, x).left = 0
           /\ Frame(l, x).b = FALSE /\ Frame(l, x).pin = None
           /\ NoLock \in Locks /\ NoLock.wq = None /\ NoLock.job = None
  <1>1. << >> \in Seq(Call)
    OBVIOUS
  <1> QED BY <1>1 DEF Frame, FrameType, NoLock, Locks

\* What is called is pushed as a frame of one of these places.
CallLabels == {"runq", "immed", "rel.test", "wqd", "de.load", "del.erase"}

LEMMA CallIsFree ==
    ASSUME NEW l \in CallLabels, NEW x \in Obj \cup {None},
           l \in JobLabels => x \in Made, l = "wqd" => x \in Workqs,
           l = "rel.test" => x \in Obj
    PROVE  Frame(l, x) \in FreeFrames
  <1> DEFINE f == Frame(l, x)
  <1>1. /\ f \in FrameType /\ f.at = l /\ f.x = x /\ f.lock = NoLock
        /\ f.prog = << >> /\ NoLock.wq = None /\ NoLock.job = None
    <2>1. l \in Labels
      BY DEF CallLabels, Labels
    <2> QED BY <2>1, FrameIs
  <1> HIDE DEF f
  <1>2. << >> \in Seq(CallsOn(Made))
    OBVIOUS
  <1>3. About(f) /\ LockAbout(f) /\ CoAbout(f)
    BY <1>1, <1>2 DEF About, LockAbout, CoAbout, CallLabels, WorkqLabels,
                      CoLabels
  <1>4. Plain(f)
    BY <1>1 DEF Plain, PlainLabels, CallLabels, Labels, StartLabels, CoLabels
  <1>5. f \in FreeFrames
    BY <1>1, <1>3, <1>4, PlainIsFree DEF SoundFrames
  <1> QED BY <1>5 DEF f

LEMMA NoCalls == << >> \in Seq(FreeFrames)
  OBVIOUS

LEMMA ReleasedIsFree ==
    ASSUME NEW o \in Obj \cup {None}
    PROVE  Released(o) \in Seq(FreeFrames)
  <1>1. o # None => Frame("rel.test", o) \in FreeFrames
    BY CallIsFree DEF CallLabels, JobLabels
  <1>2. \A f \in FreeFrames : <<f>> \in Seq(FreeFrames)
    OBVIOUS
  <1> QED BY <1>1, <1>2, NoCalls DEF Released

-----------------------------------------------------------------------------
(* What a step keeps.                                                      *)

LEMMA InLockSets ==
    ASSUME NEW w \in Workqs
    PROVE  /\ Holding(w, "SINGLE") \in LockSets
           /\ Holding(w, "PARALLEL") \in LockSets /\ Restoring(w) \in LockSets
  BY DEF LockSets

LEMMA InCoSets ==
    ASSUME NEW c \in Coroutines
    PROVE  /\ Starting(c) \in CoSets /\ Linking(c) \in CoSets
           /\ Helping(c) \in CoSets
  BY DEF CoSets

LEMMA LocksKept ==
    ASSUME LocksTallied, UNCHANGED <<fns, rlck>>,
           \A w \in Workqs : single'[w] = single[w] /\ parallel'[w] = parallel[w],
           \A P \in LockSets : Tally(P)' = Tally(P)
    PROVE  LocksTallied'
  <1>1. ASSUME NEW w \in Workqs
        PROVE  /\ Tally(Holding(w, "SINGLE"))' = Tally(Holding(w, "SINGLE"))
               /\ Tally(Holding(w, "PARALLEL"))' = Tally(Holding(w, "PARALLEL"))
               /\ Tally(Restoring(w))' = Tally(Restoring(w))
    BY InLockSets
  <1>2. \A w, l : Stolen(w, l)' = Stolen(w, l)
    BY DEF Stolen, Made
  <1> QED BY <1>1, <1>2 DEF LocksTallied

LEMMA CosAre ==
    ASSUME UNCHANGED fns
    PROVE  /\ Coroutines' = Coroutines
           /\ \A c : Starting(c)' = Starting(c) /\ Linking(c)' = Linking(c)
                     /\ Helping(c)' = Helping(c)
  BY DEF Coroutines, Made, IsCoroutine, Starting, Linking, Helping

LEMMA CosKept ==
    ASSUME CoroutinesTallied, UNCHANGED <<fns, rlck>>,
           \A c \in Coroutines : /\ running'[c] = running[c]
                                 /\ count'[c] = count[c],
           ToSet(coq') = ToSet(coq),
           \A P \in CoSets : Tally(P)' = Tally(P)
    PROVE  CoroutinesTallied'
  <1>1. ASSUME NEW c \in Coroutines
        PROVE  /\ Tally(Starting(c))' = Tally(Starting(c))
               /\ Tally(Linking(c))' = Tally(Linking(c))
               /\ Tally(Helping(c))' = Tally(Helping(c))
    BY InCoSets
  <1>2. \A c : Published(c)' = Published(c)
    BY DEF Published
  <1> QED BY <1>1, <1>2, CosAre DEF CoroutinesTallied

LEMMA StolenKept ==
    ASSUME StolenLocks, UNCHANGED <<fns, rlck>>,
           \A c \in Coroutines : running'[c] = running[c]
    PROVE  StolenLocks'
  BY CosAre DEF StolenLocks, OwnLock, LockFor, Lock, NoLock

LEMMA GivenKept == ASSUME Given, UNCHANGED fns PROVE Given'
  BY DEF Given, Made, CallsOn

\* A step that changes no lock and no coroutine job.
LEMMA Quiet ==
    ASSUME IInv, UNCHANGED <<fns, lockVars, rlck, count, coq>>,
           \A c \in Coroutines : running'[c] = running[c],
           StacksStep, \A P \in Tallied : Tally(P)' = Tally(P), DataType'
    PROVE  IInv'
  <1>1. LocksTallied'
    BY LocksKept DEF IInv, Tallied, lockVars
  <1>2. CoroutinesTallied'
    BY CosKept DEF IInv, Tallied
  <1>3. StolenLocks' /\ Given'
    BY StolenKept, GivenKept DEF IInv
  <1> QED BY <1>1, <1>2, <1>3 DEF IInv, StacksStep

\* The top frame is counted, and so is a frame that is not on any stack.
LEMMA TopCounts ==
    ASSUME StacksSound, TalliesFinite, NEW t \in Threads, stack[t] # << >>,
           NEW P \in Tallied, Top(t) \in P
    PROVE  Tally(P) \in Nat /\ Tally(P) > 0
  <1>1. 1 \in DOMAIN stack[t] /\ stack[t][1] = Top(t)
    BY EmptySeq, LenProperties DEF Top, StacksSound
  <1>2. <<t, 1>> \in Slots(stack, P)
    BY <1>1 DEF Slots
  <1>3. IsFiniteSet(Slots(stack, P)) /\ Slots(stack, P) # {}
    BY <1>2 DEF TalliesFinite
  <1> QED BY <1>3, FS_EmptySet, FS_CardinalityType DEF Tally

\* What the top frame of a stack is.
LEMMA TopFrame ==
    ASSUME IInv, NEW t \in Threads, stack[t] # << >>
    PROVE  /\ Top(t) \in SoundFrames /\ Top(t) \in FrameType
           /\ About(Top(t)) /\ LockAbout(Top(t)) /\ CoAbout(Top(t))
           /\ StacksSound /\ TalliesFinite
  BY TopIs, SoundIs DEF IInv

LEMMA SoundSame ==
    ASSUME UNCHANGED <<fns, rlck>>
    PROVE  SoundFrames \subseteq SoundFrames'
  BY SoundStay

\* Go(t, g, calls), where g counts for the same as the frame before it.
LEMMA QuietGo ==
    ASSUME IInv, UNCHANGED <<fns, lockVars, rlck, count, coq>>,
           \A c \in Coroutines : running'[c] = running[c], DataType',
           NEW t \in Threads, stack[t] # << >>, NEW calls \in Seq(FreeFrames),
           NEW g \in SoundFrames, Follows(g, Top(t)),
           LockAlike(Top(t), g), CoAlike(Top(t), g),
           Go(t, g, calls)
    PROVE  IInv'
  <1>1. Top(t) \in FrameType /\ g \in FrameType /\ g \in SoundFrames'
    BY TopFrame, SoundIs, SoundStay
  <1>2. /\ StacksStep
        /\ \A P \in Tallied :
              Tally(P)' = (Tally(P) + One(g \in P)) - One(Top(t) \in P)
    <2>1. stack' = [stack EXCEPT ![t] = calls \o <<g>> \o Tail(@)]
      BY DEF Go
    <2> QED BY <1>1, <2>1, TopFrame, SoundSame, Goes
  <1>3. ASSUME NEW P \in Tallied PROVE Tally(P)' = Tally(P)
    <2>1. g \in P <=> Top(t) \in P
      BY <1>1, LockAlikeCounts, CoAlikeCounts DEF Tallied
    <2>2. One(g \in P) = One(Top(t) \in P) /\ One(Top(t) \in P) \in Nat
      BY <2>1 DEF One
    <2>3. Tally(P) \in Nat
      BY TopFrame, TallyIs
    <2> QED BY <1>2, <2>2, <2>3
  <1> QED BY <1>2, <1>3, Quiet

\* Return(t, calls) from a frame that does not count.
LEMMA QuietReturn ==
    ASSUME IInv, UNCHANGED <<fns, lockVars, rlck, count, coq>>,
           \A c \in Coroutines : running'[c] = running[c], DataType',
           NEW t \in Threads, stack[t] # << >>, NEW calls \in Seq(FreeFrames),
           Plain(Top(t)), Return(t, calls)
    PROVE  IInv'
  <1>1. /\ StacksStep
        /\ \A P \in Tallied : Tally(P)' = Tally(P) - One(Top(t) \in P)
    <2>1. stack' = [stack EXCEPT ![t] = calls \o Tail(@)]
      BY DEF Return
    <2> QED BY <2>1, TopFrame, Returns
  <1>2. ASSUME NEW P \in Tallied PROVE Tally(P)' = Tally(P)
    <2>1. One(Top(t) \in P) = 0
      BY TopFrame, PlainCounts DEF One
    <2>2. Tally(P) \in Nat
      BY TopFrame, TallyIs
    <2> QED BY <1>1, <2>1, <2>2
  <1> QED BY <1>1, <1>2, Quiet

\* A frame of these places holds no lock, and is not counted.
LEMMA PlainTop ==
    ASSUME NEW f \in SoundFrames, f.at \in PlainLabels \ HoldLabels
    PROVE  Plain(f)
  BY SoundIs DEF LockAbout, Plain

\* Only the place of a frame changes.
LEMMA PlaceIs ==
    ASSUME NEW f \in FrameType, NEW l \in Labels
    PROVE  LET g == [f EXCEPT !.at = l]
           IN  /\ g \in FrameType /\ g.at = l /\ g.x = f.x /\ g.lock = f.lock
               /\ g.prog = f.prog /\ g.left = f.left /\ g.gen = f.gen
               /\ g.b = f.b /\ g.pin = f.pin
  BY DEF FrameType

-----------------------------------------------------------------------------
(* The steps of a thread.                                                  *)

LEMMA MadeAre ==
    ASSUME IInv, NEW j \in Made
    PROVE  /\ j \in Jobs /\ WorkqOf[j] \in Workqs /\ j \in Obj
           /\ WorkqOf[j] \in Obj
  BY RunAssumption DEF IInv, Given, Obj

LEMMA job_to_runqKeeps ==
    ASSUME IInv, NEW t \in Threads, job_to_runq(t)
    PROVE  IInv'
  <1> DEFINE j == Top(t).x
  <1>1. stack[t] # << >> /\ Top(t).at = "runq" /\ Return(t, << >>)
    BY DEF job_to_runq, At
  <1>2. j \in Made /\ j \in Jobs /\ WorkqOf[j] \in Workqs
    BY <1>1, TopFrame, MadeAre DEF About, JobLabels
  <1>3. Plain(Top(t))
    BY <1>1, TopFrame, PlainTop DEF PlainLabels, HoldLabels, OnStackLabels,
                                    Labels, StartLabels, CoLabels
  <1>4. DataType'
    <2>1. /\ runq' = [runq EXCEPT ![j] = Lists(j)] /\ wqq' \subseteq Workqs
          /\ UNCHANGED <<fns, active, running, gen, lockVars, coVars, ptrVars,
                         suicide, deleted>>
      BY <1>2 DEF job_to_runq, IInv, DataType
    <2>2. Lists(j) \subseteq {"all", "parallel"}
      BY DEF Lists
    <2> QED BY <1>2, <2>1, <2>2, CosAre
            DEF IInv, DataType, lockVars, coVars, ptrVars, Lists
  <1>5. UNCHANGED <<fns, lockVars, rlck, count, coq>> /\ running' = running
    BY DEF job_to_runq, coVars
  <1> QED BY <1>1, <1>3, <1>4, <1>5, NoCalls, QuietReturn

\* The locks of workqs change as the counts for them change.
LocksFollow ==
    \A w \in Workqs :
        /\ One(single'[w]) - One(single[w]) =
              Tally(Holding(w, "SINGLE"))' - Tally(Holding(w, "SINGLE"))
        /\ parallel'[w] - parallel[w] =
              (Tally(Holding(w, "PARALLEL"))' - Tally(Holding(w, "PARALLEL")))
              + (Tally(Restoring(w))' - Tally(Restoring(w)))

LEMMA TallyStays ==
    ASSUME StacksStep, UNCHANGED fns, NEW P \in Tallied
    PROVE  Tally(P)' \in Nat
  <1>1. IsFiniteSet(Slots(stack', P))
    BY TalliedStay DEF StacksStep, TalliesFinite, Slots
  <1>2. Cardinality(Slots(stack', P)) \in Nat
    BY <1>1, FS_CardinalityType
  <1> QED BY <1>2 DEF Tally, Slots

LEMMA LocksTalliedStep ==
    ASSUME IInv, UNCHANGED <<fns, rlck>>, DataType', StacksStep, LocksFollow
    PROVE  LocksTallied'
  <1>1. \A w, l : Stolen(w, l)' = Stolen(w, l)
    BY DEF Stolen, Made
  <1>2. ASSUME NEW w \in Workqs
        PROVE  /\ Tally(Holding(w, "SINGLE"))' + Cardinality(Stolen(w, "SINGLE"))
                     = One(single'[w])
               /\ (Tally(Holding(w, "PARALLEL"))'
                     + Cardinality(Stolen(w, "PARALLEL")))
                     + Tally(Restoring(w))' = parallel'[w]
    <2>1. /\ Tally(Holding(w, "SINGLE")) \in Nat
          /\ Tally(Holding(w, "PARALLEL")) \in Nat
          /\ Tally(Restoring(w)) \in Nat
      BY InLockSets, TallyIs DEF Tallied, IInv
    <2>2. /\ Tally(Holding(w, "SINGLE"))' \in Nat
          /\ Tally(Holding(w, "PARALLEL"))' \in Nat
          /\ Tally(Restoring(w))' \in Nat
      BY InLockSets, TallyStays DEF Tallied
    <2>3. /\ Cardinality(Stolen(w, "SINGLE")) \in Nat
          /\ Cardinality(Stolen(w, "PARALLEL")) \in Nat
      BY FS_CardinalityType DEF IInv, LocksTallied
    <2>4. /\ Tally(Holding(w, "SINGLE")) + Cardinality(Stolen(w, "SINGLE"))
                = One(single[w])
          /\ (Tally(Holding(w, "PARALLEL"))
                + Cardinality(Stolen(w, "PARALLEL")))
                + Tally(Restoring(w)) = parallel[w]
      BY DEF IInv, LocksTallied
    <2>5. parallel[w] \in Int /\ parallel'[w] \in Int
          /\ One(single[w]) \in Nat /\ One(single'[w]) \in Nat
      BY DEF IInv, DataType, One
    <2> QED BY <2>1, <2>2, <2>3, <2>4, <2>5 DEF LocksFollow
  <1> QED BY <1>1, <1>2 DEF IInv, LocksTallied

\* A step that changes no more than the locks of workqs.
LEMMA LocksMoved ==
    ASSUME IInv, UNCHANGED <<fns, rlck, count, coq>>,
           \A c \in Coroutines : running'[c] = running[c], DataType', StacksStep,
           \A P \in CoSets : Tally(P)' = Tally(P), LocksFollow
    PROVE  IInv'
  <1>1. CoroutinesTallied'
    BY CosKept DEF IInv
  <1>2. StolenLocks' /\ Given'
    BY StolenKept, GivenKept DEF IInv
  <1>3. LocksTallied'
    BY LocksTalliedStep
  <1> QED BY <1>1, <1>2, <1>3 DEF IInv, StacksStep

\* The top frame of t is g now.
Swapped(t, g) ==
    /\ StacksStep
    /\ \A P \in Tallied :
          Tally(P)' = (Tally(P) + One(g \in P)) - One(Top(t) \in P)

\* A frame gives its lock up, if it has one.
LEMMA GivesUp ==
    ASSUME IInv, NEW t \in Threads, stack[t] # << >>,
           NEW g \in FrameType, Swapped(t, g),
           g.lock.wq = None, CoAlike(Top(t), g),
           Top(t).at # "sw.undo", g.at # "sw.undo",
           UNCHANGED <<fns, jobVars, coVars, ptrVars, suicide, deleted>>,
           IF Top(t).lock.wq = None THEN UNCHANGED lockVars
           ELSE unlock_run(Top(t).lock.wq, Top(t).lock.lck)
    PROVE  IInv'
  <1> DEFINE f == Top(t)
  <1> DEFINE v == f.lock.wq
  <1> DEFINE l == f.lock.lck
  <1>1. /\ f \in FrameType /\ v \in Workqs \cup {None}
        /\ None \notin Workqs /\ StacksSound /\ TalliesFinite
        /\ Top(t).at # "sw.undo"
    BY TopFrame, FieldsAre, RunAssumption
  <1>2. /\ single \in [Workqs -> BOOLEAN] /\ parallel \in [Workqs -> Int]
        /\ \A c \in Coroutines : running'[c] = running[c]
    BY DEF IInv, DataType, jobVars
  <1>3. v # None => /\ f \in Holding(v, l)
                    /\ l \in {"SINGLE", "PARALLEL"} => single[v] \/ l = "PARALLEL"
    <2> SUFFICES ASSUME v # None, l \in {"SINGLE", "PARALLEL"}
                 PROVE  f \in Holding(v, l) /\ (single[v] \/ l = "PARALLEL")
      BY <1>1 DEF Holding
    <2>1. f \in Holding(v, l) /\ Holding(v, l) \in LockSets
      BY <1>1 DEF Holding, LockSets
    <2>2. Tally(Holding(v, l)) \in Nat /\ Tally(Holding(v, l)) > 0
      BY <1>1, <2>1, TopCounts DEF Tallied
    <2>3. /\ Tally(Holding(v, "SINGLE")) + Cardinality(Stolen(v, "SINGLE"))
                = One(single[v])
          /\ Cardinality(Stolen(v, "SINGLE")) \in Nat
      BY <1>1, FS_CardinalityType DEF IInv, LocksTallied
    <2> QED BY <2>1, <2>2, <2>3 DEF One
  <1>4. /\ single' \in [Workqs -> BOOLEAN] /\ parallel' \in [Workqs -> Int]
        /\ \A w \in Workqs :
              /\ One(single'[w]) - One(single[w])
                    = 0 - One(f.lock.wq = w /\ f.lock.lck = "SINGLE")
              /\ parallel'[w] - parallel[w]
                    = 0 - One(f.lock.wq = w /\ f.lock.lck = "PARALLEL")
    <2>1. CASE v = None
      BY <1>1, <1>2, <2>1 DEF One, lockVars
    <2>2. CASE v # None /\ l = "SINGLE"
      <3>1. /\ single' = [single EXCEPT ![v] = FALSE] /\ parallel' = parallel
            /\ v \in Workqs /\ single[v] = TRUE
        BY <1>1, <1>2, <1>3, <2>2 DEF unlock_run
      <3> QED BY <1>2, <2>2, <3>1 DEF One
    <2>3. CASE v # None /\ l = "PARALLEL"
      <3>1. /\ parallel' = [parallel EXCEPT ![v] = @ - 1] /\ single' = single
            /\ v \in Workqs
        BY <1>1, <1>2, <2>3 DEF unlock_run
      <3> QED BY <1>2, <2>3, <3>1 DEF One
    <2> QED BY <1>1, <2>1, <2>2, <2>3 DEF unlock_run
  <1>5. DataType'
    BY <1>4, CosAre
       DEF IInv, DataType, jobVars, coVars, ptrVars, Lists
  <1>6. \A P \in CoSets : Tally(P)' = Tally(P)
    <2> SUFFICES ASSUME NEW P \in CoSets PROVE Tally(P)' = Tally(P)
      OBVIOUS
    <2>1. g \in P <=> f \in P
      BY <1>1, CoAlikeCounts
    <2>2. One(g \in P) = One(f \in P) /\ One(f \in P) \in Nat
      BY <2>1 DEF One
    <2>3. Tally(P) \in Nat
      BY <1>1, TallyIs DEF Tallied
    <2>4. Tally(P)' = (Tally(P) + One(g \in P)) - One(f \in P)
      BY DEF Swapped, Tallied
    <2> QED BY <2>2, <2>3, <2>4
  <1>7. ASSUME NEW w \in Workqs, NEW k \in {"SINGLE", "PARALLEL"}
        PROVE  Tally(Holding(w, k))' - Tally(Holding(w, k))
                  = 0 - One(f.lock.wq = w /\ f.lock.lck = k)
    <2>1. /\ g \notin Holding(w, k)
          /\ f \in Holding(w, k) <=> f.lock.wq = w /\ f.lock.lck = k
      BY <1>1 DEF Holding
    <2>2. Holding(w, k) \in Tallied
      BY DEF LockSets, Tallied
    <2>3. /\ One(g \in Holding(w, k)) = 0
          /\ One(f \in Holding(w, k)) = One(f.lock.wq = w /\ f.lock.lck = k)
          /\ One(f \in Holding(w, k)) \in Nat
      BY <2>1 DEF One
    <2>4. Tally(Holding(w, k)) \in Nat
      BY <1>1, <2>2, TallyIs
    <2>5. Tally(Holding(w, k))' = (Tally(Holding(w, k)) + One(g \in Holding(w, k)))
                                  - One(f \in Holding(w, k))
      BY <2>2 DEF Swapped
    <2> QED BY <2>3, <2>4, <2>5
  <1>8. ASSUME NEW w \in Workqs
        PROVE  Tally(Restoring(w))' - Tally(Restoring(w)) = 0
    <2>1. g \notin Restoring(w) /\ f \notin Restoring(w)
      BY <1>1 DEF Restoring
    <2>2. Restoring(w) \in Tallied
      BY DEF LockSets, Tallied
    <2>3. One(g \in Restoring(w)) = 0 /\ One(f \in Restoring(w)) = 0
      BY <2>1 DEF One
    <2>4. Tally(Restoring(w)) \in Nat
      BY <1>1, <2>2, TallyIs
    <2>5. Tally(Restoring(w))' = (Tally(Restoring(w)) + One(g \in Restoring(w)))
                                 - One(f \in Restoring(w))
      BY <2>2 DEF Swapped
    <2> QED BY <2>3, <2>4, <2>5
  <1>9. ASSUME NEW w \in Workqs
        PROVE  /\ One(single'[w]) - One(single[w]) =
                    Tally(Holding(w, "SINGLE"))' - Tally(Holding(w, "SINGLE"))
               /\ parallel'[w] - parallel[w] =
                    (Tally(Holding(w, "PARALLEL"))'
                       - Tally(Holding(w, "PARALLEL")))
                    + (Tally(Restoring(w))' - Tally(Restoring(w)))
    BY <1>4, <1>7, <1>8 DEF One
  <1>10. StacksStep /\ UNCHANGED <<fns, rlck, count, coq>>
    BY DEF Swapped, coVars
  <1>11. LocksFollow
    BY <1>9 DEF LocksFollow
  <1> QED BY <1>2, <1>5, <1>6, <1>10, <1>11, LocksMoved

\* A step that changes nothing but the stack.
Only == UNCHANGED <<fns, jobVars, lockVars, coVars, ptrVars, suicide, deleted>>

LEMMA DataSame ==
    ASSUME IInv, Only
    PROVE  /\ DataType' /\ UNCHANGED <<fns, lockVars, rlck, count, coq>>
           /\ \A c \in Coroutines : running'[c] = running[c]
  BY CosAre DEF Only, IInv, DataType, jobVars, lockVars, coVars, ptrVars, Lists

LEMMA JustGoes ==
    ASSUME IInv, Only, NEW t \in Threads, stack[t] # << >>,
           NEW calls \in Seq(FreeFrames), NEW g \in SoundFrames,
           Follows(g, Top(t)), LockAlike(Top(t), g), CoAlike(Top(t), g),
           Go(t, g, calls)
    PROVE  IInv'
  BY DataSame, QuietGo

LEMMA JustReturns ==
    ASSUME IInv, Only, NEW t \in Threads, stack[t] # << >>,
           NEW calls \in Seq(FreeFrames), Plain(Top(t)), Return(t, calls)
    PROVE  IInv'
  BY DataSame, QuietReturn

LEMMA OneCall ==
    ASSUME NEW f \in FreeFrames PROVE <<f>> \in Seq(FreeFrames)
  OBVIOUS

\* A call of aid() of the service or of a workq.
LEMMA AidIsFree ==
    ASSUME NEW n \in Nat
    PROVE  /\ <<[Frame("aid", None) EXCEPT !.left = n]>> \in Seq(FreeFrames)
           /\ \A w \in Workqs :
                <<[Frame("wq", w) EXCEPT !.left = n]>> \in Seq(FreeFrames)
  <1>1. ASSUME NEW l \in {"aid", "wq"}, NEW x \in Workqs \cup {None},
               l = "wq" => x \in Workqs
        PROVE  [Frame(l, x) EXCEPT !.left = n] \in FreeFrames
    <2> DEFINE f == [Frame(l, x) EXCEPT !.left = n]
    <2>1. /\ f \in FrameType /\ f.at = l /\ f.x = x /\ f.lock = NoLock
          /\ f.prog = << >> /\ NoLock.wq = None /\ NoLock.job = None
      <3>1. l \in Labels /\ x \in Obj \cup {None}
        BY DEF Labels, Obj
      <3> DEFINE e == Frame(l, x)
      <3>2. /\ e \in FrameType /\ e.at = l /\ e.x = x /\ e.lock = NoLock
            /\ e.prog = << >> /\ NoLock.wq = None /\ NoLock.job = None
        BY <3>1, FrameIs
      <3> HIDE DEF e
      <3>3. LET g == [e EXCEPT !.left = n]
            IN  /\ g \in FrameType /\ g.at = e.at /\ g.x = e.x
                /\ g.lock = e.lock /\ g.prog = e.prog
        BY <3>2 DEF FrameType
      <3> QED BY <3>2, <3>3 DEF e
    <2> HIDE DEF f
    <2>2. << >> \in Seq(CallsOn(Made))
      OBVIOUS
    <2>3. About(f) /\ LockAbout(f) /\ CoAbout(f)
      BY <1>1, <2>1, <2>2 DEF About, LockAbout, CoAbout, JobLabels,
                              WorkqLabels, CoLabels
    <2>4. Plain(f)
      BY <2>1 DEF Plain, PlainLabels, Labels, StartLabels, CoLabels
    <2>5. f \in FreeFrames
      BY <2>1, <2>3, <2>4, PlainIsFree DEF SoundFrames
    <2> QED BY <2>5 DEF f
  <1>2. \A f \in FreeFrames : <<f>> \in Seq(FreeFrames)
    OBVIOUS
  <1>3. [Frame("aid", None) EXCEPT !.left = n] \in FreeFrames
    BY <1>1
  <1>4. \A w \in Workqs : [Frame("wq", w) EXCEPT !.left = n] \in FreeFrames
    BY <1>1
  <1> QED BY <1>2, <1>3, <1>4

LEMMA HelpKeeps ==
    ASSUME IInv, NEW t \in Threads, Help(t)
    PROVE  IInv'
  <1> DEFINE f == Top(t)
  <1> DEFINE calls == <<[Frame("aid", None) EXCEPT !.left = AidCount]>>
  <1>1. stack[t] # << >> /\ f \in SoundFrames
    BY TopFrame DEF Help, At
  <1>2. calls \in Seq(FreeFrames)
    BY AidIsFree, RunAssumption
  <1>3. Go(t, f, calls) /\ Only
    BY DEF Help, Only
  <1>4. Follows(f, f) /\ LockAlike(f, f) /\ CoAlike(f, f)
    BY DEF Follows, LockAlike, CoAlike
  <1> HIDE DEF calls
  <1> QED BY <1>1, <1>2, <1>3, <1>4, JustGoes

LEMMA BodyEndKeeps ==
    ASSUME IInv, NEW t \in Threads, BodyEnd(t)
    PROVE  IInv'
  <1> DEFINE f == Top(t)
  <1> DEFINE l == IF At(t, "co.fn") THEN "co.fetch"
                  ELSE IF IsCoroutine(Top(t).x) THEN "co.publish" ELSE "ul.job"
  <1> DEFINE g == [f EXCEPT !.at = l]
  <1>1. /\ stack[t] # << >> /\ f \in SoundFrames /\ f \in FrameType
        /\ About(f) /\ LockAbout(f) /\ CoAbout(f)
        /\ f.at \in {"body", "co.fn"} /\ (At(t, "co.fn") <=> f.at = "co.fn")
    BY TopFrame DEF BodyEnd, At
  <1>2. Go(t, g, << >>) /\ Only
    BY DEF BodyEnd, Only, Goto
  <1>3. /\ f.at = "co.fn" => l = "co.fetch" /\ f.b
        /\ f.at = "body" /\ f.x \in Coroutines => l = "co.publish"
        /\ f.at = "body" /\ f.x \notin Coroutines => l = "ul.job"
        /\ f.x \in Made
    BY <1>1 DEF Coroutines, CoAbout, About, JobLabels, CoLabels
  <1> HIDE DEF l
  <1>4. /\ g \in FrameType /\ g.at = l /\ g.x = f.x /\ g.lock = f.lock
        /\ g.prog = f.prog /\ g.b = f.b /\ g.pin = f.pin /\ g.left = f.left
    <2>1. l \in Labels
      BY <1>1, <1>3 DEF Labels
    <2> QED BY <1>1, <2>1, PlaceIs
  <1> HIDE DEF g
  <1> HIDE DEF f
  <1>5. Follows(g, f) /\ LockAlike(f, g) /\ CoAlike(f, g)
    BY <1>1, <1>3, <1>4
       DEF Follows, Supports, Needs, LockAlike, CoAlike, CoLabels,
           StartLabels, HelpLabels
  <1>6. About(g) /\ LockAbout(g) /\ CoAbout(g)
    BY <1>1, <1>3, <1>4
       DEF About, LockAbout, CoAbout, JobLabels, WorkqLabels, CoLabels,
           HoldLabels, OnStackLabels
  <1>7. g \in SoundFrames
    BY <1>4, <1>6 DEF SoundFrames
  <1> QED BY <1>1, <1>2, <1>5, <1>7, NoCalls, JustGoes DEF f

LEMMA AidPickKeeps ==
    ASSUME IInv, NEW t \in Threads, AidPick(t)
    PROVE  IInv'
  <1> DEFINE f == Top(t)
  <1>1. /\ stack[t] # << >> /\ f \in SoundFrames /\ f \in FrameType
        /\ About(f) /\ LockAbout(f) /\ CoAbout(f) /\ f.at = "aid"
    BY TopFrame DEF AidPick, At
  <1>2. Only
    BY DEF AidPick, Only
  <1>3. Plain(f)
    BY <1>1, PlainTop DEF PlainLabels, HoldLabels, OnStackLabels,
                          Labels, StartLabels, CoLabels
  <1>4. CASE Return(t, << >>)
    BY <1>1, <1>2, <1>3, <1>4, NoCalls, JustReturns
  <1>5. CASE f.left > 0 /\ \E w \in wqq :
               Go(t, [f EXCEPT !.at = "aid.wq", !.pin = w], << >>)
    <2>1. PICK w \in wqq : Go(t, [f EXCEPT !.at = "aid.wq", !.pin = w], << >>)
      BY <1>5
    <2> DEFINE g == [f EXCEPT !.at = "aid.wq", !.pin = w]
    <2>2. w \in Workqs
      BY DEF IInv, DataType
    <2>3. /\ g \in FrameType /\ g.at = "aid.wq" /\ g.x = f.x /\ g.lock = f.lock
          /\ g.prog = f.prog /\ g.b = f.b /\ g.pin = w /\ g.left = f.left
      BY <1>1, <2>2 DEF FrameType, Labels, Obj
    <2>4. Go(t, g, << >>)
      BY <2>1
    <2> HIDE DEF g, f
    <2>5. Follows(g, f) /\ LockAlike(f, g) /\ CoAlike(f, g)
      BY <1>1, <2>3
         DEF Follows, Supports, Needs, LockAlike, CoAlike, CoLabels,
             StartLabels, HelpLabels
    <2>6. About(g) /\ LockAbout(g) /\ CoAbout(g)
      BY <1>1, <1>5, <2>2, <2>3
         DEF About, LockAbout, CoAbout, JobLabels, WorkqLabels, CoLabels,
             HoldLabels, OnStackLabels
    <2>7. g \in SoundFrames
      BY <2>3, <2>6 DEF SoundFrames
    <2> QED BY <1>1, <1>2, <2>4, <2>5, <2>7, NoCalls, JustGoes DEF f
  <1> QED BY <1>4, <1>5 DEF AidPick

LEMMA deactivateKeeps ==
    ASSUME IInv, NEW t \in Threads, deactivate(t)
    PROVE  IInv'
  <1> DEFINE f == Top(t)
  <1> DEFINE j == f.x
  <1>1. /\ stack[t] # << >> /\ f \in SoundFrames /\ f \in FrameType
        /\ About(f) /\ LockAbout(f) /\ CoAbout(f)
        /\ f.at \in {"de.load", "de.clear", "de.wait"}
    BY TopFrame DEF deactivate, At
  <1>2. j \in Made /\ j \in Jobs
    BY <1>1, MadeAre DEF About, JobLabels
  <1>3. Plain(f)
    BY <1>1, PlainTop DEF PlainLabels, HoldLabels, OnStackLabels,
                          Labels, StartLabels, CoLabels
  <1>4. /\ UNCHANGED <<fns, lockVars, rlck, count, coq>>
        /\ running' = running /\ DataType'
    <2>1. active' \in [Jobs -> BOOLEAN]
      BY DEF deactivate, IInv, DataType
    <2> QED BY <2>1, CosAre
            DEF deactivate, IInv, DataType, lockVars, coVars, ptrVars, Lists
  <1>5. ASSUME NEW g \in FrameType, g.at \in {"de.clear", "de.wait"},
               g.x = f.x, g.lock = f.lock, g.prog = f.prog, g.b = f.b,
               g.pin = f.pin, g.left = f.left, Go(t, g, << >>)
        PROVE  IInv'
    <2> HIDE DEF f
    <2>1. Follows(g, f) /\ LockAlike(f, g) /\ CoAlike(f, g)
      BY <1>1, <1>5
         DEF Follows, Supports, Needs, LockAlike, CoAlike, CoLabels,
             StartLabels, HelpLabels
    <2>2. About(g) /\ LockAbout(g) /\ CoAbout(g)
      BY <1>1, <1>5
         DEF About, LockAbout, CoAbout, JobLabels, WorkqLabels, CoLabels,
             HoldLabels, OnStackLabels
    <2>3. g \in SoundFrames
      BY <1>5, <2>2 DEF SoundFrames
    <2> QED BY <1>1, <1>4, <1>5, <2>1, <2>3, NoCalls, QuietGo DEF f
  <1>6. CASE Go(t, [f EXCEPT !.at = "de.clear", !.gen = gen[j]], << >>)
    <2> DEFINE g == [f EXCEPT !.at = "de.clear", !.gen = gen[j]]
    <2>1. gen[j] \in Nat
      BY <1>2, RunAssumption DEF IInv, DataType
    <2>2. /\ g \in FrameType /\ g.at = "de.clear" /\ g.x = f.x
          /\ g.lock = f.lock
          /\ g.prog = f.prog /\ g.b = f.b /\ g.pin = f.pin /\ g.left = f.left
      BY <1>1, <2>1 DEF FrameType, Labels
    <2> QED BY <1>5, <1>6, <2>2
  <1>7. CASE Goto(t, "de.wait")
    <2> DEFINE g == [f EXCEPT !.at = "de.wait"]
    <2>1. /\ g \in FrameType /\ g.at = "de.wait" /\ g.x = f.x
          /\ g.lock = f.lock
          /\ g.prog = f.prog /\ g.b = f.b /\ g.pin = f.pin /\ g.left = f.left
      BY <1>1 DEF FrameType, Labels
    <2>2. Go(t, g, << >>)
      BY <1>7 DEF Goto
    <2> QED BY <1>5, <2>1, <2>2
  <1>8. CASE Return(t, << >>)
    BY <1>1, <1>3, <1>4, <1>8, NoCalls, QuietReturn
  <1> QED BY <1>6, <1>7, <1>8 DEF deactivate

LEMMA unlockKeeps ==
    ASSUME IInv, NEW t \in Threads, unlock(t)
    PROVE  IInv'
  <1> DEFINE f == Top(t)
  <1> DEFINE j == f.lock.job
  <1>1. /\ stack[t] # << >> /\ f \in SoundFrames /\ f \in FrameType
        /\ About(f) /\ LockAbout(f) /\ CoAbout(f)
        /\ f.at \in {"ul.job", "ul.wq", "ul.ref"}
        /\ StacksSound /\ TalliesFinite
    BY TopFrame DEF unlock, At
  <1>2. /\ j \in Made \cup {None} /\ j \in Jobs \cup {None}
        /\ f.lock.wq \in Obj \cup {None} /\ None \notin Jobs
    BY <1>1, MadeAre, FieldsAre, RunAssumption DEF About, Obj
  <1>3. CASE At(t, "ul.job")
    <2> DEFINE g == [f EXCEPT !.at = "ul.wq"]
    <2>1. /\ g \in FrameType /\ g.at = "ul.wq" /\ g.x = f.x
          /\ g.lock = f.lock /\ g.prog = f.prog /\ g.b = f.b
          /\ g.pin = f.pin /\ g.left = f.left
      <3>1. "ul.wq" \in Labels
        BY DEF Labels
      <3> QED BY <1>1, <3>1, PlaceIs
    <2>2. /\ f.at = "ul.job"
          /\ UNCHANGED <<fns, active, gen, runq, wqq, lockVars, coVars, ptrVars,
                         suicide, deleted>>
      BY <1>3 DEF unlock, At
    <2>3. Follows(g, f) /\ LockAlike(f, g) /\ CoAlike(f, g)
      <3> HIDE DEF f, g
      <3> QED BY <2>1, <2>2
         DEF Follows, Supports, Needs, LockAlike, CoAlike, CoLabels,
             StartLabels, HelpLabels
    <2>4. g \in SoundFrames
      <3> HIDE DEF f, g
      <3>1. About(g) /\ LockAbout(g) /\ CoAbout(g)
        BY <1>1, <2>1, <2>2
         DEF About, LockAbout, CoAbout, JobLabels, WorkqLabels, CoLabels,
             HoldLabels, OnStackLabels
      <3> QED BY <2>1, <3>1 DEF SoundFrames
    <2>5. CASE j = None \/ IsCoroutine(j)
      <3>1. Go(t, g, << >>) /\ running' = running
        BY <2>2, <2>5 DEF unlock, Goto, At
      <3>2. Only
        BY <2>2, <3>1 DEF Only, jobVars
      <3> HIDE DEF f, g
      <3> QED BY <1>1, <2>3, <2>4, <3>1, <3>2, NoCalls, JustGoes DEF f
    <2>6. CASE ~(j = None \/ IsCoroutine(j))
      <3> DEFINE calls == IF active[j] /\ "ONCE" \notin TypeOf[j]
                          THEN <<Frame("runq", j)>> ELSE << >>
      <3>1. Go(t, g, calls) /\ running' = [running EXCEPT ![j] = FALSE]
        BY <2>2, <2>6 DEF unlock, At
      <3>2. j \in Made /\ j \in Jobs /\ j \notin Coroutines
        BY <1>2, <2>6 DEF Coroutines
      <3>3. calls \in Seq(FreeFrames)
        <4>1. Frame("runq", j) \in FreeFrames
          BY <3>2, CallIsFree DEF CallLabels, Obj
        <4> QED BY <4>1, OneCall, NoCalls
      <3>4. /\ DataType' /\ UNCHANGED <<fns, lockVars, rlck, count, coq>>
            /\ \A c \in Coroutines : running'[c] = running[c]
        <4>1. /\ running' \in [Jobs -> BOOLEAN]
              /\ \A c \in Coroutines : running'[c] = running[c]
          BY <3>1, <3>2 DEF IInv, DataType, Given, Coroutines
        <4> QED BY <2>2, <4>1, CosAre
                DEF IInv, DataType, lockVars, coVars, ptrVars, Lists
      <3> HIDE DEF f, g, calls
      <3> QED BY <1>1, <2>3, <2>4, <3>1, <3>3, <3>4, QuietGo DEF f
    <2> QED BY <2>5, <2>6
  <1>4. CASE At(t, "ul.wq")
    <2> DEFINE g == [f EXCEPT !.at = "ul.ref", !.lock.wq = None]
    <2>1. /\ g \in FrameType /\ g.at = "ul.ref" /\ g.x = f.x
          /\ g.lock.wq = None /\ g.lock.job = f.lock.job
          /\ g.prog = f.prog /\ g.b = f.b /\ g.pin = f.pin /\ g.left = f.left
      BY <1>1 DEF FrameType, Labels, Locks
    <2>2. /\ f.at = "ul.wq" /\ Go(t, g, Released(f.lock.wq))
          /\ UNCHANGED <<fns, jobVars, coVars, ptrVars, suicide, deleted>>
          /\ IF f.lock.wq = None THEN UNCHANGED lockVars
             ELSE unlock_run(f.lock.wq, f.lock.lck)
      BY <1>4 DEF unlock, At, jobVars
    <2>3. Follows(g, f) /\ CoAlike(f, g)
      <3> HIDE DEF f, g
      <3> QED BY <2>1, <2>2
         DEF Follows, Supports, Needs, CoAlike, CoLabels,
             StartLabels, HelpLabels
    <2>4. g \in SoundFrames
      <3> HIDE DEF f, g
      <3>1. About(g) /\ LockAbout(g) /\ CoAbout(g)
        BY <1>1, <2>1, <2>2
         DEF About, LockAbout, CoAbout, JobLabels, WorkqLabels, CoLabels,
             HoldLabels, OnStackLabels
      <3> QED BY <2>1, <3>1 DEF SoundFrames
    <2>5. Released(f.lock.wq) \in Seq(FreeFrames)
      BY <1>2, ReleasedIsFree
    <2> HIDE DEF g
    <2>6. Swapped(t, g)
      <3>1. UNCHANGED <<fns, rlck>>
        BY <2>2 DEF coVars
      <3>2. SoundFrames \subseteq SoundFrames' /\ g \in SoundFrames'
        BY <2>4, <3>1, SoundSame
      <3>3. stack' = [stack EXCEPT ![t] = Released(f.lock.wq) \o <<g>> \o Tail(@)]
        BY <2>2 DEF Go
      <3> QED BY <1>1, <2>3, <2>5, <3>1, <3>2, <3>3, Goes DEF Swapped
    <2>7. f.at # "sw.undo" /\ g.at # "sw.undo"
      BY <2>1, <2>2
    <2> QED BY <1>1, <2>1, <2>2, <2>3, <2>6, <2>7, GivesUp
  <1>5. CASE At(t, "ul.ref")
    <2>1. f.at = "ul.ref" /\ Return(t, Released(j)) /\ Only
      BY <1>5 DEF unlock, At, Only, jobVars
    <2>2. Plain(f)
      BY <1>1, <2>1, PlainTop DEF PlainLabels, HoldLabels, OnStackLabels,
                            Labels, StartLabels, CoLabels
    <2>3. Released(j) \in Seq(FreeFrames)
      BY <1>2, ReleasedIsFree DEF Obj
    <2> QED BY <1>1, <2>1, <2>2, <2>3, JustReturns
  <1> QED BY <1>3, <1>4, <1>5 DEF unlock

LEMMA DeleteKeeps ==
    ASSUME IInv, NEW t \in Threads, stack[t] # << >>, Plain(Top(t)),
           NEW o \in Obj, Delete(t, o),
           UNCHANGED <<fns, jobVars, lockVars, coVars, ptrVars, suicide>>
    PROVE  IInv'
  <1> DEFINE calls == IF /\ o \in Jobs /\ deleted[o] = 0
                         /\ WorkqPtrs(WorkqOf[o]) = 1
                      THEN <<Frame("wqd", WorkqOf[o])>> ELSE << >>
  <1>1. Return(t, calls) /\ deleted' = [deleted EXCEPT ![o] = @ + 1]
    BY DEF Delete
  <1>2. calls \in Seq(FreeFrames)
    <2>1. o \in Jobs => Frame("wqd", WorkqOf[o]) \in FreeFrames
      BY CallIsFree, RunAssumption DEF CallLabels, JobLabels, Obj
    <2> QED BY <2>1, OneCall, NoCalls
  <1>3. /\ DataType' /\ UNCHANGED <<fns, lockVars, rlck, count, coq>>
        /\ \A c \in Coroutines : running'[c] = running[c]
    <2>1. deleted' \in [Obj -> Nat]
      BY <1>1 DEF IInv, DataType
    <2> QED BY <2>1, CosAre
            DEF IInv, DataType, jobVars, lockVars, coVars, ptrVars, Lists
  <1> HIDE DEF calls
  <1> QED BY <1>1, <1>2, <1>3, QuietReturn

LEMMA RelTestKeeps ==
    ASSUME IInv, NEW t \in Threads, RelTest(t)
    PROVE  IInv'
  <1> DEFINE f == Top(t)
  <1>1. /\ stack[t] # << >> /\ f \in SoundFrames /\ f \in FrameType
        /\ About(f) /\ LockAbout(f) /\ CoAbout(f) /\ f.at = "rel.test"
    BY TopFrame DEF RelTest, At
  <1>2. Plain(f)
    BY <1>1, PlainTop DEF PlainLabels, HoldLabels, OnStackLabels,
                          Labels, StartLabels, CoLabels
  <1>3. f.x \in Obj
    BY <1>1 DEF About
  <1>4. CASE /\ Delete(t, f.x)
             /\ UNCHANGED <<fns, jobVars, lockVars, coVars, ptrVars, suicide>>
    BY <1>1, <1>2, <1>3, <1>4, DeleteKeeps
  <1>5. CASE Return(t, << >>) /\ Only
    BY <1>1, <1>2, <1>5, NoCalls, JustReturns
  <1> QED BY <1>4, <1>5 DEF RelTest, Only

LEMMA delete_workqKeeps ==
    ASSUME IInv, NEW t \in Threads, delete_workq(t)
    PROVE  IInv'
  <1> DEFINE f == Top(t)
  <1> DEFINE w == f.x
  <1>1. /\ stack[t] # << >> /\ f \in SoundFrames /\ f \in FrameType
        /\ About(f) /\ LockAbout(f) /\ CoAbout(f) /\ f.at \in {"wqd", "wqd.set"}
    BY TopFrame DEF delete_workq, At
  <1>2. Plain(f)
    BY <1>1, PlainTop DEF PlainLabels, HoldLabels, OnStackLabels,
                          Labels, StartLabels, CoLabels
  <1>3. w \in Workqs /\ w \in Obj
    BY <1>1 DEF About, WorkqLabels, Obj
  <1>4. CASE At(t, "wqd")
    <2> DEFINE g == [f EXCEPT !.at = "wqd.set", !.pin = w]
    <2>1. /\ g \in FrameType /\ g.at = "wqd.set" /\ g.x = f.x
          /\ g.lock = f.lock
          /\ g.prog = f.prog /\ g.b = f.b /\ g.pin = w /\ g.left = f.left
      BY <1>1, <1>3 DEF FrameType, Labels
    <2>2. Go(t, g, << >>) /\ Only /\ f.at = "wqd"
      BY <1>4 DEF delete_workq, At, Only
    <2> HIDE DEF f, g
    <2>3. Follows(g, f) /\ LockAlike(f, g) /\ CoAlike(f, g)
      BY <2>1, <2>2
         DEF Follows, Supports, Needs, LockAlike, CoAlike, CoLabels,
             StartLabels, HelpLabels
    <2>4. About(g) /\ LockAbout(g) /\ CoAbout(g)
      BY <1>1, <1>3, <2>1, <2>2
         DEF About, LockAbout, CoAbout, JobLabels, WorkqLabels, CoLabels,
             HoldLabels, OnStackLabels
    <2>5. g \in SoundFrames
      BY <2>1, <2>4 DEF SoundFrames
    <2> QED BY <1>1, <2>2, <2>3, <2>5, NoCalls, JustGoes DEF f
  <1>5. CASE At(t, "wqd.set")
    <2>1. /\ suicide' = suicide \cup {w} /\ Return(t, Released(w))
          /\ UNCHANGED <<fns, jobVars, lockVars, coVars, ptrVars, deleted>>
      BY <1>5 DEF delete_workq, At
    <2>2. /\ DataType' /\ UNCHANGED <<fns, lockVars, rlck, count, coq>>
          /\ \A c \in Coroutines : running'[c] = running[c]
      <3>1. suicide' \subseteq Obj
        BY <1>3, <2>1 DEF IInv, DataType
      <3> QED BY <2>1, <3>1, CosAre
              DEF IInv, DataType, jobVars, lockVars, coVars, ptrVars, Lists
    <2>3. Released(w) \in Seq(FreeFrames)
      BY <1>3, ReleasedIsFree
    <2> QED BY <1>1, <1>2, <2>1, <2>2, <2>3, QuietReturn
  <1> QED BY <1>4, <1>5 DEF delete_workq

LEMMA delete_jobKeeps ==
    ASSUME IInv, NEW t \in Threads, delete_job(t)
    PROVE  IInv'
  <1> DEFINE f == Top(t)
  <1> DEFINE j == f.x
  <1>1. /\ stack[t] # << >> /\ f \in SoundFrames /\ f \in FrameType
        /\ About(f) /\ LockAbout(f) /\ CoAbout(f)
        /\ f.at \in {"del.erase", "del.find", "del.wait"}
    BY TopFrame DEF delete_job, At
  <1>2. Plain(f)
    BY <1>1, PlainTop DEF PlainLabels, HoldLabels, OnStackLabels,
                          Labels, StartLabels, CoLabels
  <1>3. j \in Made /\ j \in Jobs /\ j \in Obj
    BY <1>1, MadeAre DEF About, JobLabels
  <1>4. ASSUME NEW l \in {"del.find", "del.wait"}
        PROVE  LET g == [f EXCEPT !.at = l]
               IN  /\ g \in SoundFrames /\ Follows(g, f)
                   /\ LockAlike(f, g) /\ CoAlike(f, g)
    <2> DEFINE g == [f EXCEPT !.at = l]
    <2>1. /\ g \in FrameType /\ g.at = l /\ g.x = f.x /\ g.lock = f.lock
          /\ g.prog = f.prog /\ g.b = f.b /\ g.pin = f.pin /\ g.left = f.left
      <3>1. l \in Labels
        BY DEF Labels
      <3> QED BY <1>1, <3>1, PlaceIs
    <2> HIDE DEF g, f
    <2>2. Follows(g, f) /\ LockAlike(f, g) /\ CoAlike(f, g)
      BY <1>1, <2>1
         DEF Follows, Supports, Needs, LockAlike, CoAlike, CoLabels,
             StartLabels, HelpLabels
    <2>3. About(g) /\ LockAbout(g) /\ CoAbout(g)
      BY <1>1, <2>1
         DEF About, LockAbout, CoAbout, JobLabels, WorkqLabels, CoLabels,
             HoldLabels, OnStackLabels
    <2> QED BY <2>1, <2>2, <2>3 DEF SoundFrames, g
  <1>5. CASE At(t, "del.erase")
    <2> DEFINE g == [f EXCEPT !.at = "del.find"]
    <2>1. /\ runq' = [runq EXCEPT ![j] = {}]
          /\ Go(t, g, <<Frame("de.load", j)>>)
          /\ UNCHANGED <<fns, active, running, gen, wqq, lockVars, coVars,
                         ptrVars, suicide, deleted>>
      BY <1>5 DEF delete_job, At
    <2>2. /\ DataType' /\ UNCHANGED <<fns, lockVars, rlck, count, coq>>
          /\ \A c \in Coroutines : running'[c] = running[c]
      <3>1. /\ runq' \in [Jobs -> SUBSET {"all", "parallel"}]
            /\ \A i \in Jobs : runq'[i] \subseteq Lists(i)
        BY <1>3, <2>1 DEF IInv, DataType
      <3> QED BY <2>1, <3>1, CosAre
              DEF IInv, DataType, lockVars, coVars, ptrVars, Lists
    <2>3. <<Frame("de.load", j)>> \in Seq(FreeFrames)
      <3>1. Frame("de.load", j) \in FreeFrames
        BY <1>3, CallIsFree DEF CallLabels
      <3> QED BY <3>1, OneCall
    <2>4. /\ g \in SoundFrames /\ Follows(g, f)
          /\ LockAlike(f, g) /\ CoAlike(f, g)
      BY <1>4
    <2> HIDE DEF g
    <2> QED BY <1>1, <2>1, <2>2, <2>3, <2>4, QuietGo
  <1>6. CASE At(t, "del.find") /\ find(t, j)
    <2>1. /\ suicide' = suicide \cup {j} /\ Return(t, << >>)
          /\ UNCHANGED <<fns, active, running, gen, runq, wqq, lockVars, coVars,
                         ptrVars, deleted>>
      BY <1>6 DEF delete_job, At
    <2>2. /\ DataType' /\ UNCHANGED <<fns, lockVars, rlck, count, coq>>
          /\ \A c \in Coroutines : running'[c] = running[c]
      <3>1. suicide' \subseteq Obj
        BY <1>3, <2>1 DEF IInv, DataType
      <3> QED BY <2>1, <3>1, CosAre
              DEF IInv, DataType, lockVars, coVars, ptrVars, Lists
    <2> QED BY <1>1, <1>2, <2>1, <2>2, NoCalls, QuietReturn
  <1>7. CASE At(t, "del.find") /\ ~find(t, j)
    <2> DEFINE g == [f EXCEPT !.at = "del.wait"]
    <2>1. Go(t, g, << >>) /\ Only
      BY <1>7 DEF delete_job, At, Only, Goto, jobVars
    <2>2. /\ g \in SoundFrames /\ Follows(g, f)
          /\ LockAlike(f, g) /\ CoAlike(f, g)
      BY <1>4
    <2> HIDE DEF g
    <2> QED BY <1>1, <2>1, <2>2, NoCalls, JustGoes
  <1>8. CASE At(t, "del.wait")
    <2>1. /\ Delete(t, j)
          /\ UNCHANGED <<fns, jobVars, lockVars, coVars, ptrVars, suicide>>
      BY <1>8 DEF delete_job, At, jobVars
    <2> QED BY <1>1, <1>2, <1>3, <2>1, DeleteKeeps
  <1> QED BY <1>5, <1>6, <1>7, <1>8 DEF delete_job

-----------------------------------------------------------------------------
(* The next call.                                                          *)

\* Top frame f without its next call, c.
OpLabels == {"user", "body", "co.fn"}
Rest(f) == [f EXCEPT !.prog = Tail(@)]

LEMMA RestIs ==
    ASSUME NEW f \in SoundFrames, f.at \in OpLabels, f.prog # << >>
    PROVE  /\ Rest(f) \in FrameType /\ Rest(f).at = f.at /\ Rest(f).x = f.x
           /\ Rest(f).lock = f.lock /\ Rest(f).left = f.left
           /\ Rest(f).b = f.b /\ Rest(f).pin = f.pin
           /\ Rest(f) \in SoundFrames /\ Follows(Rest(f), f)
           /\ LockAlike(f, Rest(f)) /\ CoAlike(f, Rest(f))
           /\ Head(f.prog) \in CallsOn(Made)
           /\ f.at = "body" /\ f.x \in Coroutines => Head(f.prog).op = "drop"
  <1> DEFINE s == f.prog
  <1> DEFINE r == Tail(s)
  <1> DEFINE g == Rest(f)
  <1>1. /\ f \in FrameType /\ About(f) /\ LockAbout(f) /\ CoAbout(f)
        /\ s \in Seq(CallsOn(Made)) /\ s \in Seq(Call)
    BY SoundIs DEF About, FrameType
  <1> HIDE DEF s
  <1>2. /\ r \in Seq(CallsOn(Made)) /\ r \in Seq(Call)
        /\ Head(s) \in CallsOn(Made) /\ Head(s) = s[1] /\ 1 \in DOMAIN s
        /\ \A i \in DOMAIN r : i + 1 \in DOMAIN s /\ r[i] = s[i + 1]
    <2>1. s # << >>
      BY DEF s
    <2> QED BY <1>1, <2>1, LenProperties, EmptySeq, HeadTailProperties
  <1> HIDE DEF r
  <1>3. /\ g \in FrameType /\ g.at = f.at /\ g.x = f.x /\ g.lock = f.lock
        /\ g.prog = r /\ g.left = f.left /\ g.b = f.b /\ g.pin = f.pin
    <2>1. g = [f EXCEPT !.prog = r]
      BY DEF Rest, r, s, FrameType
    <2> HIDE DEF g
    <2> QED BY <1>1, <1>2, <2>1 DEF FrameType
  <1> HIDE DEF g
  <1>4. Follows(g, f) /\ LockAlike(f, g) /\ CoAlike(f, g)
    BY <1>1, <1>3 DEF Follows, Supports, Needs, LockAlike, CoAlike
  <1>5. f.at = "body" /\ f.x \in Coroutines =>
           \A i \in DOMAIN s : s[i].op = "drop"
    BY <1>1 DEF LockAbout, s
  <1>6. About(g) /\ CoAbout(g)
    BY <1>1, <1>2, <1>3
       DEF About, CoAbout, OpLabels, JobLabels, WorkqLabels, CoLabels
  <1>7. LockAbout(g)
    BY <1>1, <1>2, <1>3, <1>5 DEF LockAbout, OpLabels
  <1>8. g \in SoundFrames
    BY <1>3, <1>6, <1>7 DEF SoundFrames
  <1>9. Head(s) \in CallsOn(Made)
        /\ (f.at = "body" /\ f.x \in Coroutines => Head(s).op = "drop")
    BY <1>2, <1>5
  <1> QED BY <1>3, <1>4, <1>8, <1>9 DEF g, s

LEMMA TwoSeqs ==
    ASSUME NEW a \in Seq(FreeFrames), NEW b \in Seq(FreeFrames)
    PROVE  a \o b \in Seq(FreeFrames)
  OBVIOUS

LEMMA ActivateKeeps ==
    ASSUME IInv, NEW t \in Threads, stack[t] # << >>, NEW j \in Made,
           NEW immed \in BOOLEAN, Top(t).at \in OpLabels,
           Top(t).prog # << >>, Activate(t, j, immed, Rest(Top(t)))
    PROVE  IInv'
  <1> DEFINE f == Top(t)
  <1> DEFINE g == Rest(f)
  <1> DEFINE a == IF active[j] \/ running[j] THEN << >>
                  ELSE <<Frame("runq", j)>>
  <1> DEFINE b == IF immed /\ "NO_AID" \notin TypeOf[j]
                  THEN <<Frame("immed", j)>> ELSE << >>
  <1>1. /\ active' = [active EXCEPT ![j] = TRUE] /\ Go(t, g, a \o b)
        /\ UNCHANGED <<fns, running, gen, runq, wqq, lockVars, coVars, ptrVars,
                       suicide, deleted>>
    BY DEF Activate
  <1>2. j \in Jobs /\ j \in Obj
    BY MadeAre
  <1>3. a \o b \in Seq(FreeFrames)
    <2>1. Frame("runq", j) \in FreeFrames /\ Frame("immed", j) \in FreeFrames
      BY <1>2, CallIsFree DEF CallLabels
    <2>2. a \in Seq(FreeFrames) /\ b \in Seq(FreeFrames)
      BY <2>1, OneCall, NoCalls
    <2> HIDE DEF a, b
    <2> QED BY <2>2, TwoSeqs
  <1>4. /\ DataType' /\ UNCHANGED <<fns, lockVars, rlck, count, coq>>
        /\ \A c \in Coroutines : running'[c] = running[c]
    <2>1. active' \in [Jobs -> BOOLEAN]
      BY <1>1, <1>2 DEF IInv, DataType
    <2> QED BY <1>1, <2>1, CosAre
            DEF IInv, DataType, lockVars, coVars, ptrVars, Lists
  <1>5. /\ g \in SoundFrames /\ Follows(g, f)
        /\ LockAlike(f, g) /\ CoAlike(f, g)
    BY TopFrame, RestIs
  <1> HIDE DEF a, b, g
  <1> QED BY <1>1, <1>3, <1>4, <1>5, QuietGo

\* A frame that waits for the lock of a workq is on one that has none.
LEMMA WaitsFor ==
    ASSUME NEW w \in Workqs, NEW l \in {"SINGLE", "PARALLEL"}
    PROVE  LET h == [Frame("sw.lock", w) EXCEPT
                        !.lock = [NoLock EXCEPT !.lck = l]]
           IN  /\ h \in SoundFrames /\ h.at = "sw.lock" /\ Needs(h)
               /\ \A g : g.at \in {"body", "co.fn"} /\ g.lock.wq = None
                            => Supports(h, g)
               /\ \A P \in Tallied : h \notin P
  <1> DEFINE e == Frame("sw.lock", w)
  <1> DEFINE k == [NoLock EXCEPT !.lck = l]
  <1> DEFINE h == [e EXCEPT !.lock = k]
  <1>1. /\ e \in FrameType /\ e.at = "sw.lock" /\ e.x = w /\ e.prog = << >>
        /\ e.pin = None
    <2>1. "sw.lock" \in Labels /\ w \in Obj \cup {None}
      BY DEF Labels, Obj
    <2> QED BY <2>1, FrameIs
  <1>2. k \in Locks /\ k.wq = None /\ k.job = None /\ k.lck = l
    BY DEF NoLock, Locks
  <1> HIDE DEF e, k
  <1>3. /\ h \in FrameType /\ h.at = "sw.lock" /\ h.x = w /\ h.prog = << >>
        /\ h.lock = k /\ h.pin = None
    BY <1>1, <1>2 DEF FrameType
  <1> HIDE DEF h
  <1>4. << >> \in Seq(CallsOn(Made))
    OBVIOUS
  <1>5. About(h) /\ LockAbout(h) /\ CoAbout(h)
    BY <1>2, <1>3, <1>4 DEF About, LockAbout, CoAbout, JobLabels, WorkqLabels,
                            CoLabels
  <1>6. Needs(h) /\ \A g : g.at \in {"body", "co.fn"} /\ g.lock.wq = None
                              => Supports(h, g)
    BY <1>3 DEF Needs, Supports, CoLabels
  <1>7. ASSUME NEW P \in Tallied PROVE h \notin P
    <2>1. P \in LockSets => h \notin P
      BY <1>2, <1>3, RunAssumption DEF LockSets, Holding, Restoring
    <2>2. P \in CoSets => h \notin P
      BY <1>3 DEF CoSets, Starting, Linking, Helping
    <2> QED BY <2>1, <2>2 DEF Tallied
  <1>8. h \in SoundFrames
    BY <1>3, <1>5 DEF SoundFrames
  <1> QED BY <1>3, <1>6, <1>7, <1>8 DEF h, k, e

\* A change from run-single to run-parallel.
LEMMA Shares ==
    ASSUME IInv, NEW t \in Threads, stack[t] # << >>,
           NEW g \in FrameType, Swapped(t, g),
           NEW w \in Workqs, Top(t).lock.wq = w, Top(t).lock.lck = "SINGLE",
           g.lock.wq = w, g.lock.lck = "PARALLEL", CoAlike(Top(t), g),
           Top(t).at # "sw.undo", g.at # "sw.undo",
           UNCHANGED <<fns, jobVars, coVars, ptrVars, suicide, deleted>>,
           parallel' = [parallel EXCEPT ![w] = @ + 1],
           single' = [single EXCEPT ![w] = FALSE]
    PROVE  IInv'
  <1> DEFINE f == Top(t)
  <1>1. f \in FrameType /\ StacksSound /\ TalliesFinite
    BY TopFrame
  <1>2. /\ single \in [Workqs -> BOOLEAN] /\ parallel \in [Workqs -> Int]
        /\ \A c \in Coroutines : running'[c] = running[c]
    BY DEF IInv, DataType, jobVars
  <1>3. /\ \A P \in Tallied :
              /\ Tally(P) \in Nat
              /\ Tally(P)' = (Tally(P) + One(g \in P)) - One(f \in P)
    BY <1>1, TallyIs DEF Swapped
  <1>4. single[w] = TRUE
    <2>1. f \in Holding(w, "SINGLE") /\ Holding(w, "SINGLE") \in LockSets
      BY <1>1 DEF Holding, LockSets
    <2>2. Tally(Holding(w, "SINGLE")) \in Nat /\ Tally(Holding(w, "SINGLE")) > 0
      BY <1>1, <2>1, TopCounts DEF Tallied
    <2>3. /\ Tally(Holding(w, "SINGLE")) + Cardinality(Stolen(w, "SINGLE"))
                = One(single[w])
          /\ Cardinality(Stolen(w, "SINGLE")) \in Nat
      BY <1>1, FS_CardinalityType DEF IInv, LocksTallied
    <2> QED BY <1>2, <2>1, <2>2, <2>3 DEF One
  <1>5. DataType'
    <2>1. single' \in [Workqs -> BOOLEAN] /\ parallel' \in [Workqs -> Int]
      BY <1>2
    <2> QED BY <2>1, CosAre DEF IInv, DataType, jobVars, coVars, ptrVars, Lists
  <1>6. \A P \in CoSets : Tally(P)' = Tally(P)
    <2> SUFFICES ASSUME NEW P \in CoSets PROVE Tally(P)' = Tally(P)
      OBVIOUS
    <2>1. g \in P <=> f \in P
      BY <1>1, CoAlikeCounts
    <2>2. One(g \in P) = One(f \in P) /\ One(f \in P) \in Nat
      BY <2>1 DEF One
    <2> QED BY <1>3, <2>2 DEF Tallied
  <1>7. ASSUME NEW u \in Workqs
        PROVE  /\ One(single'[u]) - One(single[u]) =
                    Tally(Holding(u, "SINGLE"))' - Tally(Holding(u, "SINGLE"))
               /\ parallel'[u] - parallel[u] =
                    (Tally(Holding(u, "PARALLEL"))'
                       - Tally(Holding(u, "PARALLEL")))
                    + (Tally(Restoring(u))' - Tally(Restoring(u)))
    <2> DEFINE S == Holding(u, "SINGLE")
    <2> DEFINE Q == Holding(u, "PARALLEL")
    <2> DEFINE R == Restoring(u)
    <2>1. S \in Tallied /\ Q \in Tallied /\ R \in Tallied
      BY InLockSets DEF Tallied
    <2>2. /\ One(g \in S) = 0 /\ One(f \in S) = One(u = w)
          /\ One(g \in Q) = One(u = w) /\ One(f \in Q) = 0
          /\ One(g \in R) = 0 /\ One(f \in R) = 0
      BY <1>1 DEF One, Holding, Restoring
    <2>3. /\ One(single'[u]) - One(single[u]) = 0 - One(u = w)
          /\ parallel'[u] - parallel[u] = One(u = w)
      BY <1>2, <1>4 DEF One
    <2>4. One(u = w) \in Nat
      BY DEF One
    <2> HIDE DEF S, Q, R
    <2>5. /\ Tally(S)' - Tally(S) = 0 - One(u = w)
          /\ Tally(Q)' - Tally(Q) = One(u = w)
          /\ Tally(R)' - Tally(R) = 0
      BY <1>3, <2>1, <2>2, <2>4
    <2>6. One(single'[u]) - One(single[u]) = Tally(S)' - Tally(S)
      BY <2>3, <2>5
    <2>7. parallel'[u] - parallel[u] =
             (Tally(Q)' - Tally(Q)) + (Tally(R)' - Tally(R))
      <3>1. One(u = w) + 0 = One(u = w)
        BY <2>4
      <3> QED BY <2>3, <2>5, <3>1
    <2> QED BY <2>6, <2>7 DEF S, Q, R
  <1>8. StacksStep /\ UNCHANGED <<fns, rlck, count, coq>>
    BY DEF Swapped, coVars
  <1>9. LocksFollow
    BY <1>7 DEF LocksFollow
  <1> QED BY <1>2, <1>5, <1>6, <1>8, <1>9, LocksMoved

LEMMA SwitchKeeps ==
    ASSUME IInv, NEW t \in Threads, stack[t] # << >>,
           Top(t).at \in OpLabels, Top(t).prog # << >>,
           Head(Top(t).prog).op = "switch",
           Switch(t, Head(Top(t).prog), Rest(Top(t)))
    PROVE  IInv'
  <1> DEFINE f == Top(t)
  <1> DEFINE c == Head(f.prog)
  <1> DEFINE g == Rest(f)
  <1> DEFINE w == c.x
  <1> DEFINE v == f.lock.wq
  <1>1. /\ f \in SoundFrames /\ f \in FrameType
        /\ About(f) /\ LockAbout(f) /\ CoAbout(f)
        /\ StacksSound /\ TalliesFinite
    BY TopFrame
  <1>2. /\ g \in FrameType /\ g.at = f.at /\ g.x = f.x
        /\ g.lock = f.lock /\ g.left = f.left
        /\ g.b = f.b /\ g.pin = f.pin
        /\ g \in SoundFrames /\ Follows(g, f)
        /\ LockAlike(f, g) /\ CoAlike(f, g)
        /\ c \in CallsOn(Made)
        /\ f.at = "body" /\ f.x \in Coroutines => c.op = "drop"
    BY <1>1, RestIs
  <1>3. /\ w \in Workqs \cup {None} /\ c.lck \in {"SINGLE", "PARALLEL"}
        /\ v \in Workqs \cup {None} /\ None \notin Workqs
        /\ f.at = "body" => f.x \notin Coroutines
        /\ UNCHANGED <<fns, jobVars, coVars, ptrVars, suicide, deleted>>
    BY <1>1, <1>2, FieldsAre, RunAssumption DEF CallsOn, Call, Switch
  <1> HIDE DEF g
  <1>4. ASSUME NEW k \in Locks, k.wq = None \/ k.wq = f.lock.wq,
               k.job = f.lock.job, f.at \in {"body", "co.fn"}
        PROVE  LET h == [g EXCEPT !.lock = k]
               IN  /\ h \in SoundFrames /\ h.at = f.at /\ h.lock = k
                   /\ h \in FrameType /\ CoAlike(f, h) /\ Follows(h, f)
    <2> DEFINE h == [g EXCEPT !.lock = k]
    <2>1. /\ h \in FrameType /\ h.at = g.at /\ h.x = g.x /\ h.lock = k
          /\ h.prog = g.prog /\ h.left = g.left /\ h.b = g.b /\ h.pin = g.pin
      BY <1>2, <1>4 DEF FrameType
    <2>2. About(g) /\ LockAbout(g) /\ CoAbout(g)
      BY <1>2, SoundIs
    <2> HIDE DEF h, f
    <2>3. About(h) /\ LockAbout(h) /\ CoAbout(h)
      BY <1>1, <1>2, <1>3, <1>4, <2>1, <2>2
         DEF About, LockAbout, CoAbout, HoldLabels, OnStackLabels
    <2>4. CoAlike(f, h) /\ Follows(h, f)
      BY <1>2, <2>1 DEF CoAlike, Follows, Needs, Supports
    <2> QED BY <1>2, <2>1, <2>3, <2>4 DEF SoundFrames, h
  <1>5. f.at \in OnStackLabels => f.at \in {"body", "co.fn"}
    BY DEF OnStackLabels, OpLabels
  <1>6. CASE Go(t, g, << >>) /\ UNCHANGED lockVars
    BY <1>2, <1>3, <1>6, NoCalls, JustGoes DEF Only
  <1> DEFINE k == [f.lock EXCEPT !.wq = None]
  <1> DEFINE h == [g EXCEPT !.lock = k]
  <1>7. /\ k \in Locks /\ k.wq = None /\ k.job = f.lock.job
        /\ h = [g EXCEPT !.lock.wq = None]
    BY <1>1, <1>2, FieldsAre DEF Locks
  <1> HIDE DEF k
  <1>8. f.at \in OnStackLabels =>
           /\ h \in SoundFrames /\ h.at = f.at /\ h.lock.wq = None
           /\ h \in FrameType /\ CoAlike(f, h) /\ Follows(h, f)
    BY <1>4, <1>5, <1>7
  <1> HIDE DEF h
  <1>9. Released(v) \in Seq(FreeFrames)
    BY <1>3, ReleasedIsFree DEF Obj
  <1>10. UNCHANGED <<fns, rlck>> /\ SoundFrames \subseteq SoundFrames'
    BY <1>3, SoundSame DEF coVars
  <1>11. CASE /\ f.at \in OnStackLabels /\ w = None /\ v # None
              /\ unlock_run(v, f.lock.lck) /\ Go(t, h, Released(v))
    <2>1. stack' = [stack EXCEPT ![t] = Released(v) \o <<h>> \o Tail(@)]
      BY <1>11 DEF Go
    <2>2. h \in SoundFrames'
      BY <1>8, <1>10, <1>11
    <2>3. Swapped(t, h)
      BY <1>1, <1>8, <1>9, <1>10, <1>11, <2>1, <2>2, Goes DEF Swapped
    <2>4. f.at # "sw.undo" /\ h.at # "sw.undo"
      BY <1>5, <1>8, <1>11
    <2> QED BY <1>3, <1>8, <1>11, <2>3, <2>4, GivesUp
  <1>12. CASE /\ f.at \in OnStackLabels /\ w # None /\ v = w
              /\ f.lock.lck = "SINGLE"
              /\ parallel' = [parallel EXCEPT ![w] = @ + 1]
              /\ single' = [single EXCEPT ![w] = FALSE]
              /\ Go(t, [g EXCEPT !.lock.lck = "PARALLEL"], << >>)
    <2> DEFINE m == [f.lock EXCEPT !.lck = "PARALLEL"]
    <2> DEFINE n == [g EXCEPT !.lock = m]
    <2>1. /\ m \in Locks /\ m.wq = w /\ m.lck = "PARALLEL"
          /\ m.job = f.lock.job
          /\ n = [g EXCEPT !.lock.lck = "PARALLEL"]
      BY <1>1, <1>2, <1>12, FieldsAre DEF Locks
    <2> HIDE DEF m
    <2>2. /\ n \in SoundFrames /\ n.at = f.at /\ n.lock = m
          /\ n \in FrameType /\ CoAlike(f, n) /\ Follows(n, f)
      BY <1>4, <1>5, <1>12, <2>1
    <2> HIDE DEF n
    <2>3. stack' = [stack EXCEPT ![t] = << >> \o <<n>> \o Tail(@)]
      BY <1>12, <2>1 DEF Go
    <2>4. n \in SoundFrames'
      BY <1>10, <2>2
    <2>5. Swapped(t, n)
      BY <1>1, <1>10, <2>2, <2>3, <2>4, NoCalls, Goes DEF Swapped
    <2>6. f.at # "sw.undo" /\ n.at # "sw.undo"
      BY <1>5, <1>12, <2>2
    <2> QED BY <1>3, <1>12, <2>1, <2>2, <2>5, <2>6, Shares
  <1> DEFINE s == [Frame("sw.lock", w) EXCEPT
                      !.lock = [NoLock EXCEPT !.lck = c.lck]]
  <1>13. CASE /\ f.at \in OnStackLabels /\ w # None
              /\ IF v = None THEN UNCHANGED lockVars
                 ELSE unlock_run(v, f.lock.lck)
              /\ Go(t, h, Released(v) \o <<s>>)
    <2>1. /\ s \in SoundFrames /\ s.at = "sw.lock" /\ Needs(s)
          /\ \A q : q.at \in {"body", "co.fn"} /\ q.lock.wq = None
                       => Supports(s, q)
          /\ \A P \in Tallied : s \notin P
      BY <1>3, <1>13, WaitsFor
    <2> HIDE DEF s
    <2>2. h \in SoundFrames' /\ s \in SoundFrames' /\ Supports(s, h)
      BY <1>5, <1>8, <1>10, <1>13, <2>1
    <2>3. stack' = [stack EXCEPT ![t] =
                      Released(v) \o (<<s>> \o (<<h>> \o Tail(@)))]
      <3>1. stack' = [stack EXCEPT ![t] =
                        ((Released(v) \o <<s>>) \o <<h>>) \o Tail(@)]
        BY <1>13 DEF Go
      <3>2. /\ Released(v) \in Seq(SoundFrames) /\ <<s>> \in Seq(SoundFrames)
            /\ <<h>> \in Seq(SoundFrames) /\ Tail(stack[t]) \in Seq(SoundFrames)
        <4>1. FreeFrames \subseteq SoundFrames
          BY DEF FreeFrames
        <4>2. Released(v) \in Seq(SoundFrames)
          BY <1>9, <4>1, SeqMonotonic
        <4>3. h \in SoundFrames
          BY <1>8, <1>13
        <4> QED BY <1>1, <2>1, <4>2, <4>3, TopIs
      <3>3. ((Released(v) \o <<s>>) \o <<h>>) \o Tail(stack[t])
               = Released(v) \o (<<s>> \o (<<h>> \o Tail(stack[t])))
        <4> DEFINE a == Released(v)
        <4> DEFINE b == <<s>>
        <4> DEFINE e == <<h>>
        <4> DEFINE d == Tail(stack[t])
        <4>1. /\ a \in Seq(SoundFrames) /\ b \in Seq(SoundFrames)
              /\ e \in Seq(SoundFrames) /\ d \in Seq(SoundFrames)
          BY <3>2
        <4> HIDE DEF a, b, e, d
        <4>2. ((a \o b) \o e) \o d = a \o (b \o (e \o d))
          <5>1. a \o b \in Seq(SoundFrames) /\ e \o d \in Seq(SoundFrames)
            BY <4>1, ConcatProperties
          <5>2. ((a \o b) \o e) \o d = (a \o b) \o (e \o d)
            BY <4>1, <5>1, ConcatAssociative
          <5>3. (a \o b) \o (e \o d) = a \o (b \o (e \o d))
            BY <4>1, <5>1, ConcatAssociative
          <5> QED BY <5>2, <5>3
        <4> QED BY <4>2 DEF a, b, e, d
      <3> QED BY <3>1, <3>3 DEF StacksSound
    <2>4. GoesTo(t, h, s, Released(v))
      BY <1>8, <1>9, <1>13, <2>2, <2>3 DEF GoesTo
    <2>5. /\ StacksStep
          /\ \A P \in Tallied :
                Tally(P)' = ((Tally(P) + One(h \in P)) + One(s \in P))
                             - One(f \in P)
      BY <1>1, <1>10, <2>4, GoesUnder
    <2>6. Swapped(t, h)
      <3>1. ASSUME NEW P \in Tallied
            PROVE  Tally(P)' = (Tally(P) + One(h \in P)) - One(f \in P)
        <4>1. One(s \in P) = 0 /\ One(h \in P) \in Nat /\ Tally(P) \in Nat
          BY <1>1, <2>1, TallyIs DEF One
        <4> QED BY <2>5, <4>1
      <3> QED BY <2>5, <3>1 DEF Swapped
    <2>7. f.at # "sw.undo" /\ h.at # "sw.undo"
      BY <1>5, <1>8, <1>13
    <2> QED BY <1>3, <1>8, <1>13, <2>6, <2>7, GivesUp
  <1> HIDE DEF s
  <1>14. \/ Go(t, g, << >>) /\ UNCHANGED lockVars
         \/ /\ f.at \in OnStackLabels /\ w = None /\ v # None
            /\ unlock_run(v, f.lock.lck) /\ Go(t, h, Released(v))
         \/ /\ f.at \in OnStackLabels /\ w # None /\ v = w
            /\ f.lock.lck = "SINGLE"
            /\ parallel' = [parallel EXCEPT ![w] = @ + 1]
            /\ single' = [single EXCEPT ![w] = FALSE]
            /\ Go(t, [g EXCEPT !.lock.lck = "PARALLEL"], << >>)
         \/ /\ f.at \in OnStackLabels /\ w # None
            /\ IF v = None THEN UNCHANGED lockVars
               ELSE unlock_run(v, f.lock.lck)
            /\ Go(t, h, Released(v) \o <<s>>)
    <2>1. Switch(t, c, g)
      BY DEF g
    <2> HIDE DEF f
    <2> QED BY <1>2, <1>7, <2>1 DEF Switch, s
  <1> QED BY <1>6, <1>11, <1>12, <1>13, <1>14

LEMMA OpKeeps ==
    ASSUME IInv, NEW t \in Threads, Op(t)
    PROVE  IInv'
  <1> DEFINE f == Top(t)
  <1> DEFINE c == Head(f.prog)
  <1> DEFINE g == Rest(f)
  <1>1. stack[t] # << >> /\ f.at \in OpLabels /\ f.prog # << >>
    BY DEF Op, OpLabels
  <1>2. /\ g \in SoundFrames /\ Follows(g, f)
        /\ LockAlike(f, g) /\ CoAlike(f, g) /\ c \in CallsOn(Made)
    BY <1>1, TopFrame, RestIs
  <1>3. /\ c.op \in {"activate", "immed", "deactivate", "drop"} => c.x \in Made
        /\ c.op \in {"dropwq", "aidwq"} => c.x \in Workqs
    BY <1>2 DEF CallsOn
  <1>4. ASSUME NEW calls \in Seq(FreeFrames), Go(t, g, calls),
               UNCHANGED <<fns, jobVars, lockVars, coVars, suicide, deleted>>,
               ptr' \in [Jobs -> Nat], wptr' \in [Workqs -> Nat]
        PROVE  IInv'
    <2>1. /\ DataType' /\ UNCHANGED <<fns, lockVars, rlck, count, coq>>
          /\ \A i \in Coroutines : running'[i] = running[i]
      BY <1>4, CosAre DEF IInv, DataType, jobVars, lockVars, coVars, Lists
    <2> HIDE DEF g
    <2> QED BY <1>1, <1>2, <1>4, <2>1, QuietGo
  <1>5. CASE c.op = "activate" /\ Activate(t, c.x, FALSE, g)
    BY <1>1, <1>3, <1>5, ActivateKeeps
  <1>6. CASE c.op = "immed" /\ Activate(t, c.x, TRUE, g)
    BY <1>1, <1>3, <1>6, ActivateKeeps
  <1>7. CASE c.op = "switch" /\ Switch(t, c, g)
    BY <1>1, <1>7, SwitchKeeps
  <1>8. ptr \in [Jobs -> Nat] /\ wptr \in [Workqs -> Nat]
    BY DEF IInv, DataType
  <1>9. CASE /\ c.op = "deactivate" /\ Go(t, g, <<Frame("de.load", c.x)>>)
             /\ UNCHANGED <<fns, jobVars, lockVars, coVars, suicide, deleted>>
             /\ UNCHANGED ptrVars
    <2>1. c.x \in Made /\ c.x \in Obj
      BY <1>3, <1>9, MadeAre
    <2>2. Frame("de.load", c.x) \in FreeFrames
      BY <2>1, CallIsFree DEF CallLabels
    <2> HIDE DEF g
    <2> QED BY <1>4, <1>8, <1>9, <2>2, OneCall DEF ptrVars
  <1>10. CASE /\ c.op = "aid"
              /\ Go(t, g, <<[Frame("aid", None) EXCEPT !.left = 1]>>)
              /\ UNCHANGED <<fns, jobVars, lockVars, coVars, suicide, deleted>>
              /\ UNCHANGED ptrVars
    <2>1. <<[Frame("aid", None) EXCEPT !.left = 1]>> \in Seq(FreeFrames)
      BY AidIsFree
    <2> HIDE DEF g
    <2> QED BY <1>4, <1>8, <1>10, <2>1 DEF ptrVars
  <1>11. CASE /\ c.op = "aidwq"
              /\ Go(t, g, <<[Frame("wq", c.x) EXCEPT !.left = 1]>>)
              /\ UNCHANGED <<fns, jobVars, lockVars, coVars, suicide, deleted>>
              /\ UNCHANGED ptrVars
    <2>1. <<[Frame("wq", c.x) EXCEPT !.left = 1]>> \in Seq(FreeFrames)
      BY <1>3, <1>11, AidIsFree
    <2> HIDE DEF g
    <2> QED BY <1>4, <1>8, <1>11, <2>1 DEF ptrVars
  <1>12. CASE /\ c.op = "drop"
              /\ ptr' = [ptr EXCEPT ![c.x] = IF @ = 0 THEN 0 ELSE @ - 1]
              /\ Go(t, g, IF ptr[c.x] = 1 THEN <<Frame("del.erase", c.x)>>
                          ELSE << >>)
              /\ UNCHANGED <<fns, jobVars, lockVars, coVars, suicide, deleted>>
              /\ UNCHANGED wptr
    <2>1. c.x \in Made /\ c.x \in Obj /\ c.x \in Jobs
      BY <1>3, <1>12, MadeAre
    <2>2. Frame("del.erase", c.x) \in FreeFrames
      BY <2>1, CallIsFree DEF CallLabels
    <2>3. ptr' \in [Jobs -> Nat]
      BY <1>8, <1>12, <2>1
    <2> DEFINE calls == IF ptr[c.x] = 1 THEN <<Frame("del.erase", c.x)>>
                        ELSE << >>
    <2>4. calls \in Seq(FreeFrames)
      BY <2>2, OneCall, NoCalls
    <2> HIDE DEF g, calls
    <2>5. Go(t, g, calls)
      BY <1>12 DEF calls
    <2> QED BY <1>4, <1>8, <1>12, <2>3, <2>4, <2>5
  <1>13. CASE /\ c.op = "dropwq"
              /\ wptr' = [wptr EXCEPT ![c.x] = IF @ = 0 THEN 0 ELSE @ - 1]
              /\ Go(t, g, IF wptr[c.x] > 0 /\ WorkqPtrs(c.x) = 1
                          THEN <<Frame("wqd", c.x)>> ELSE << >>)
              /\ UNCHANGED <<fns, jobVars, lockVars, coVars, suicide, deleted>>
              /\ UNCHANGED ptr
    <2>1. c.x \in Workqs /\ c.x \in Obj
      BY <1>3, <1>13 DEF Obj
    <2>2. Frame("wqd", c.x) \in FreeFrames
      BY <2>1, CallIsFree DEF CallLabels, JobLabels
    <2>3. wptr' \in [Workqs -> Nat]
      BY <1>8, <1>13, <2>1
    <2> DEFINE calls == IF wptr[c.x] > 0 /\ WorkqPtrs(c.x) = 1
                        THEN <<Frame("wqd", c.x)>> ELSE << >>
    <2>4. calls \in Seq(FreeFrames)
      BY <2>2, OneCall, NoCalls
    <2> HIDE DEF g, calls
    <2>5. Go(t, g, calls)
      BY <1>13 DEF calls
    <2> QED BY <1>4, <1>8, <1>13, <2>3, <2>4, <2>5
  <1> QED BY <1>5, <1>6, <1>7, <1>9, <1>10, <1>11, <1>12, <1>13 DEF Op, Rest

-----------------------------------------------------------------------------
(* The start of a job.                                                     *)

LEMMA BodyIs ==
    ASSUME IInv, NEW j \in Made
    PROVE  /\ Body(j) \in SoundFrames /\ Body(j) \in FrameType
           /\ Body(j).at = "body" /\ Body(j).x = j
           /\ Body(j).lock.wq = WorkqOf[j] /\ Body(j).lock.lck = LockFor(j)
           /\ ~Needs(Body(j))
  <1> DEFINE e == Frame("body", j)
  <1> DEFINE self == [op |-> "drop", x |-> j, lck |-> "SINGLE"]
  <1> DEFINE a == IF "ONCE" \in TypeOf[j] THEN <<self>> ELSE << >>
  <1> DEFINE b == IF IsCoroutine(j) THEN << >> ELSE fns[j][1]
  <1> DEFINE k == Lock(WorkqOf[j], LockFor(j), j, None)
  <1> DEFINE g == [e EXCEPT !.lock = k, !.prog = a \o b]
  <1>1. /\ j \in Jobs /\ WorkqOf[j] \in Workqs /\ j \in Obj
        /\ None \notin Workqs
    BY MadeAre, RunAssumption
  <1>2. self \in CallsOn(Made) /\ self.op = "drop"
    BY <1>1 DEF CallsOn, Call, CallNames
  <1>3. fns[j][1] \in Seq(CallsOn(Made))
    <2>1. fns[j] \in Seq(Seq(CallsOn(Made))) /\ fns[j] # << >>
      BY DEF IInv, Given
    <2> QED BY <2>1, EmptySeq, ElementOfSeq
  <1>4. /\ a \in Seq(CallsOn(Made)) /\ b \in Seq(CallsOn(Made))
        /\ \A i \in DOMAIN a : a[i].op = "drop"
    <2> DEFINE T == CallsOn(Made)
    <2> HIDE DEF T, self
    <2>1. /\ self \in T => <<self>> \in Seq(T) /\ << >> \in Seq(T)
          /\ \A i \in DOMAIN <<self>> : <<self>>[i] = self
          /\ DOMAIN << >> = {}
      OBVIOUS
    <2> QED BY <1>2, <1>3, <2>1 DEF T
  <1>5. j \in Coroutines => b = << >>
    BY DEF Coroutines
  <1> HIDE DEF a, b, self
  <1>6. /\ a \o b \in Seq(CallsOn(Made))
        /\ j \in Coroutines => \A i \in DOMAIN (a \o b) : (a \o b)[i].op = "drop"
    <2>1. a \o b \in Seq(CallsOn(Made))
      BY <1>4, ConcatProperties
    <2>2. j \in Coroutines => a \o b = a
      BY <1>4, <1>5, ConcatEmptySeq
    <2> QED BY <1>4, <2>1, <2>2
  <1>7. a \o b \in Seq(Call)
    <2>1. CallsOn(Made) \subseteq Call
      BY DEF CallsOn
    <2> QED BY <1>6, <2>1, SeqMonotonic
  <1>8. /\ k \in Locks /\ k.wq = WorkqOf[j] /\ k.lck = LockFor(j) /\ k.job = j
        /\ k = OwnLock(j)
    BY <1>1 DEF Lock, Locks, LockFor, OwnLock
  <1>9. /\ e \in FrameType /\ e.at = "body" /\ e.x = j /\ e.pin = None
    <2>1. "body" \in Labels
      BY DEF Labels
    <2> QED BY <1>1, <2>1, FrameIs
  <1>10. g = Body(j)
    BY DEF Body, a, b, self
  <1> DEFINE p == a \o b
  <1> HIDE DEF k, e, p
  <1>11. /\ g \in FrameType /\ g.at = "body" /\ g.x = j /\ g.lock = k
         /\ g.prog = p
    BY <1>7, <1>8, <1>9 DEF FrameType, p
  <1> HIDE DEF g
  <1>12. About(g) /\ LockAbout(g) /\ CoAbout(g) /\ ~Needs(g)
    BY <1>6, <1>8, <1>11
       DEF About, LockAbout, CoAbout, JobLabels, WorkqLabels, CoLabels,
           HoldLabels, OnStackLabels, Needs, p
  <1> QED BY <1>8, <1>10, <1>11, <1>12 DEF SoundFrames

\* A job starts: its frame is on top of the stack of some thread.
Starts(j) ==
    /\ Runnable(j) /\ CanLock(j)
    /\ running' = [running EXCEPT ![j] = TRUE]
    /\ IF IsParallel(j)
       THEN /\ parallel' = [parallel EXCEPT ![WorkqOf[j]] = @ + 1]
            /\ UNCHANGED single
       ELSE /\ single' = [single EXCEPT ![WorkqOf[j]] = TRUE]
            /\ UNCHANGED parallel
    /\ StacksStep
    /\ \A P \in Tallied : Tally(P)' = Tally(P) + One(Body(j) \in P)

LEMMA StartsKeeps ==
    ASSUME IInv, NEW j \in Made, Starts(j), DataType',
           UNCHANGED <<fns, coVars>>
    PROVE  IInv'
  <1> DEFINE v == WorkqOf[j]
  <1> DEFINE g == Body(j)
  <1>1. /\ j \in Jobs /\ v \in Workqs /\ g \in FrameType /\ g.at = "body"
        /\ g.x = j /\ g.lock.wq = v /\ g.lock.lck = LockFor(j)
        /\ ~running[j]
    BY MadeAre, BodyIs DEF Starts, Runnable
  <1>2. /\ running \in [Jobs -> BOOLEAN] /\ single \in [Workqs -> BOOLEAN]
        /\ parallel \in [Workqs -> Int] /\ Coroutines \subseteq Jobs
        /\ running' = [running EXCEPT ![j] = TRUE]
    BY DEF IInv, DataType, Given, Coroutines, Starts
  <1> HIDE DEF g
  <1>3. \A P \in Tallied : /\ Tally(P) \in Nat
                           /\ Tally(P)' = Tally(P) + One(g \in P)
    BY TallyIs DEF Starts, IInv, g
  <1>4. LocksFollow
    <2> SUFFICES ASSUME NEW u \in Workqs
                 PROVE  /\ One(single'[u]) - One(single[u]) =
                           Tally(Holding(u, "SINGLE"))'
                           - Tally(Holding(u, "SINGLE"))
                        /\ parallel'[u] - parallel[u] =
                              (Tally(Holding(u, "PARALLEL"))'
                                 - Tally(Holding(u, "PARALLEL")))
                              + (Tally(Restoring(u))' - Tally(Restoring(u)))
      BY DEF LocksFollow
    <2> DEFINE S == Holding(u, "SINGLE")
    <2> DEFINE Q == Holding(u, "PARALLEL")
    <2> DEFINE R == Restoring(u)
    <2> DEFINE s == One(u = v /\ ~IsParallel(j))
    <2> DEFINE q == One(u = v /\ IsParallel(j))
    <2>1. S \in Tallied /\ Q \in Tallied /\ R \in Tallied
      BY InLockSets DEF Tallied
    <2>2. One(g \in S) = s /\ One(g \in Q) = q /\ One(g \in R) = 0
      BY <1>1 DEF One, Holding, Restoring, LockFor
    <2>3. s \in Nat /\ q \in Nat
      BY DEF One
    <2>4. /\ One(single'[u]) - One(single[u]) = s
          /\ parallel'[u] - parallel[u] = q
      BY <1>1, <1>2 DEF One, Starts, CanLock
    <2> HIDE DEF S, Q, R, s, q
    <2>5. /\ Tally(S)' - Tally(S) = s
          /\ Tally(Q)' - Tally(Q) = q
          /\ Tally(R)' - Tally(R) = 0
      BY <1>3, <2>1, <2>2, <2>3
    <2>6. One(single'[u]) - One(single[u]) = Tally(S)' - Tally(S)
      BY <2>4, <2>5
    <2>7. parallel'[u] - parallel[u] =
             (Tally(Q)' - Tally(Q)) + (Tally(R)' - Tally(R))
      <3>1. q + 0 = q
        BY <2>3
      <3> QED BY <2>4, <2>5, <3>1
    <2> QED BY <2>6, <2>7 DEF S, Q, R
  <1>5. LocksTallied'
    BY <1>4, LocksTalliedStep DEF Starts, coVars
  <1>6. rlck' = rlck /\ count' = count /\ coq' = coq
    BY DEF coVars
  <1>7. rlck[j] = NoLock
    BY <1>1 DEF IInv, StolenLocks
  <1>8. StolenLocks'
    <2>1. \A i \in Jobs : running[i] => running'[i]
      BY <1>1, <1>2
    <2> QED BY <1>6, <2>1, CosAre
            DEF IInv, StolenLocks, OwnLock, LockFor, Lock, NoLock
  <1>9. ASSUME NEW c \in Coroutines
        PROVE  /\ Tally(Starting(c))' = One(running'[c] /\ ~Published(c))
               /\ Tally(Linking(c))' = Tally(Linking(c))
               /\ Tally(Helping(c))' = Tally(Helping(c))
    <2>1. /\ Starting(c) \in Tallied /\ Linking(c) \in Tallied
          /\ Helping(c) \in Tallied
      BY InCoSets DEF Tallied
    <2>2. /\ One(g \in Starting(c)) = One(c = j)
          /\ One(g \in Linking(c)) = 0 /\ One(g \in Helping(c)) = 0
      BY <1>1 DEF One, Starting, Linking, Helping
    <2>3. Tally(Starting(c)) = One(running[c] /\ ~Published(c))
      BY DEF IInv, CoroutinesTallied
    <2>4. c = j => ~running[c] /\ running'[c] /\ ~Published(c)
      <3> SUFFICES ASSUME c = j
                   PROVE  ~running[j] /\ running'[j] /\ ~Published(j)
        OBVIOUS
      <3>1. rlck[j].job = None /\ None # j
        <4>1. NoLock.job = None
          BY DEF NoLock
        <4> QED BY <1>1, <1>7, <4>1, RunAssumption
      <3>2. running'[j]
        BY <1>1, <1>2
      <3> QED BY <1>1, <3>1, <3>2 DEF Published
    <2>5. c # j => running'[c] = running[c]
      BY <1>1, <1>2
    <2>6. One(running[c] /\ ~Published(c)) + One(c = j)
             = One(running'[c] /\ ~Published(c))
      BY <2>4, <2>5 DEF One
    <2>7. /\ Tally(Linking(c))' = Tally(Linking(c)) + 0
          /\ Tally(Helping(c))' = Tally(Helping(c)) + 0
          /\ Tally(Starting(c))' = Tally(Starting(c)) + One(c = j)
          /\ Tally(Linking(c)) \in Nat /\ Tally(Helping(c)) \in Nat
      BY <1>3, <2>1, <2>2
    <2> QED BY <2>3, <2>6, <2>7
  <1>10. CoroutinesTallied'
    <2>1. \A c : Published(c)' = Published(c)
      BY <1>6 DEF Published
    <2> QED BY <1>6, <1>9, <2>1, CosAre DEF IInv, CoroutinesTallied
  <1>11. Given'
    BY GivenKept DEF IInv
  <1> QED BY <1>5, <1>8, <1>10, <1>11 DEF IInv, Starts, StacksStep

\* What LockJob() does to the data.
LEMMA LockJobData ==
    ASSUME IInv, NEW t \in Threads, NEW j \in Made, NEW f, LockJob(t, j, f),
           wqq' \subseteq Workqs,
           UNCHANGED <<fns, coVars, ptrVars, suicide, deleted>>
    PROVE  DataType'
  <1>1. j \in Jobs /\ WorkqOf[j] \in Workqs
    BY MadeAre
  <1>2. /\ active' \in [Jobs -> BOOLEAN] /\ running' \in [Jobs -> BOOLEAN]
    BY <1>1 DEF LockJob, IInv, DataType
  <1>3. gen' \in [Jobs -> 0 .. GenMod - 1]
    <2>1. gen[j] \in Int /\ GenMod \in Nat \ {0}
      BY <1>1, RunAssumption DEF IInv, DataType
    <2>2. (gen[j] + 1) % GenMod \in 0 .. GenMod - 1
      BY <2>1
    <2>3. gen' = [gen EXCEPT ![j] = (gen[j] + 1) % GenMod]
      BY DEF LockJob
    <2> QED BY <1>1, <2>2, <2>3 DEF IInv, DataType
  <1>4. /\ runq' \in [Jobs -> SUBSET {"all", "parallel"}]
        /\ \A i \in Jobs : runq'[i] \subseteq Lists(i)
    BY <1>1 DEF LockJob, IInv, DataType
  <1>5. single' \in [Workqs -> BOOLEAN] /\ parallel' \in [Workqs -> Int]
    <2>1. single \in [Workqs -> BOOLEAN] /\ parallel \in [Workqs -> Int]
      BY DEF IInv, DataType
    <2>2. \/ parallel' = [parallel EXCEPT ![WorkqOf[j]] = @ + 1] /\ single' = single
          \/ single' = [single EXCEPT ![WorkqOf[j]] = TRUE] /\ parallel' = parallel
      <3>1. CASE IsParallel(j)
        BY <3>1 DEF LockJob
      <3>2. CASE ~IsParallel(j)
        BY <3>2 DEF LockJob
      <3> QED BY <3>1, <3>2
    <2>3. CASE parallel' = [parallel EXCEPT ![WorkqOf[j]] = @ + 1]
               /\ single' = single
      BY <1>1, <2>1, <2>3
    <2>4. CASE single' = [single EXCEPT ![WorkqOf[j]] = TRUE]
               /\ parallel' = parallel
      BY <1>1, <2>1, <2>4
    <2> QED BY <2>2, <2>3, <2>4
  <1> QED BY <1>2, <1>3, <1>4, <1>5, CosAre
          DEF IInv, DataType, coVars, ptrVars, Lists

LEMMA ImmedKeeps ==
    ASSUME IInv, NEW t \in Threads, Immed(t)
    PROVE  IInv'
  <1> DEFINE f == Top(t)
  <1> DEFINE j == f.x
  <1>1. /\ stack[t] # << >> /\ f \in SoundFrames /\ f \in FrameType
        /\ About(f) /\ LockAbout(f) /\ CoAbout(f) /\ f.at = "immed"
        /\ StacksSound /\ TalliesFinite
    BY TopFrame DEF Immed, At
  <1>2. j \in Made /\ j \in Jobs
    BY <1>1, MadeAre DEF About, JobLabels
  <1>3. Plain(f)
    BY <1>1, PlainTop DEF PlainLabels, HoldLabels, OnStackLabels,
                          Labels, StartLabels, CoLabels
  <1>4. UNCHANGED <<fns, wqq, coVars, ptrVars, suicide, deleted>>
    BY DEF Immed
  <1>5. CASE LockJob(t, j, << >>)
    <2> DEFINE g == Body(j)
    <2>1. g \in SoundFrames /\ ~Needs(g)
      BY <1>2, BodyIs
    <2> HIDE DEF g
    <2>2. stack' = [stack EXCEPT ![t] = << >> \o <<g>> \o Tail(@)]
      <3>1. <<g>> \in Seq(SoundFrames)
        BY <2>1
      <3>2. <<g>> \o << >> = << >> \o <<g>>
        BY <3>1, ConcatEmptySeq
      <3>3. stack' = [stack EXCEPT ![t] = (<<g>> \o << >>) \o Tail(@)]
        BY <1>5 DEF LockJob, g
      <3> QED BY <3>2, <3>3
    <2>3. UNCHANGED <<fns, rlck>> /\ g \in SoundFrames'
      BY <1>4, <2>1, SoundSame DEF coVars
    <2>4. Follows(g, f)
      BY <2>1 DEF Follows
    <2>5. Swapped(t, g)
      BY <1>1, <2>2, <2>3, <2>4, SoundSame, NoCalls, Goes DEF Swapped
    <2>6. \A P \in Tallied : Tally(P)' = Tally(P) + One(g \in P)
      <3> SUFFICES ASSUME NEW P \in Tallied
                   PROVE  Tally(P)' = Tally(P) + One(g \in P)
        OBVIOUS
      <3>1. One(f \in P) = 0 /\ One(g \in P) \in Nat /\ Tally(P) \in Nat
        BY <1>1, <1>3, PlainCounts, TallyIs DEF One
      <3> QED BY <2>5, <3>1 DEF Swapped
    <2>7. Starts(j)
      BY <1>5, <2>5, <2>6 DEF Starts, LockJob, Swapped, g
    <2>8. DataType'
      <3>1. wqq' \subseteq Workqs
        BY <1>4 DEF IInv, DataType
      <3> QED BY <1>2, <1>4, <1>5, <3>1, LockJobData
    <2> QED BY <1>2, <1>4, <2>7, <2>8, StartsKeeps
  <1>6. CASE Return(t, << >>) /\ UNCHANGED <<active, running, gen, runq, lockVars>>
    <2>1. Only
      BY <1>4, <1>6 DEF Only, jobVars
    <2> QED BY <1>1, <1>3, <1>6, <2>1, NoCalls, JustReturns
  <1> QED BY <1>5, <1>6 DEF Immed

LEMMA AidWorkqKeeps ==
    ASSUME IInv, NEW t \in Threads, AidWorkq(t)
    PROVE  IInv'
  <1> DEFINE f == Top(t)
  <1> DEFINE w == IF At(t, "wq") THEN f.x ELSE f.pin
  <1> DEFINE next == [f EXCEPT !.at = IF @ = "wq" THEN @ ELSE "aid",
                               !.pin = None, !.b = FALSE, !.left = @ - 1]
  <1>1. /\ stack[t] # << >> /\ f \in SoundFrames /\ f \in FrameType
        /\ About(f) /\ LockAbout(f) /\ CoAbout(f)
        /\ f.at \in {"wq", "aid.wq"} /\ f.left \in Nat /\ f.left > 0
        /\ StacksSound /\ TalliesFinite
    <2>1. stack[t] # << >> /\ f.at \in {"wq", "aid.wq"}
      BY DEF AidWorkq, At
    <2>2. /\ f \in SoundFrames /\ f \in FrameType
          /\ About(f) /\ LockAbout(f) /\ CoAbout(f) /\ f.left \in Nat
          /\ StacksSound /\ TalliesFinite
      BY <2>1, TopFrame, FieldsAre
    <2>3. f.at = "wq" => f.left > 0
      BY <2>1 DEF AidWorkq, At
    <2> QED BY <2>1, <2>2, <2>3 DEF About
  <1>2. w \in Workqs
    <2>1. At(t, "wq") <=> f.at = "wq"
      BY <1>1 DEF At
    <2> QED BY <1>1, <2>1 DEF About, WorkqLabels
  <1>3. Plain(f)
    BY <1>1, PlainTop DEF PlainLabels, HoldLabels, OnStackLabels,
                          Labels, StartLabels, CoLabels
  <1>4. UNCHANGED <<fns, coVars, ptrVars, suicide, deleted>>
    BY DEF AidWorkq
  <1> HIDE DEF w
  <1>5. CASE /\ \E j \in OnQueue(w) : LockJob(t, j, <<next>>)
             /\ wqq' = IF f.b THEN wqq \cup {w} ELSE wqq
    <2>1. PICK j \in OnQueue(w) : LockJob(t, j, <<next>>)
      BY <1>5
    <2>2. j \in Made
      BY DEF OnQueue
    <2> DEFINE h == Body(j)
    <2>3. h \in SoundFrames /\ ~Needs(h)
      BY <2>2, BodyIs
    <2>4. /\ next \in FrameType /\ next.at = (IF f.at = "wq" THEN "wq" ELSE "aid")
          /\ next.x = f.x /\ next.lock = f.lock /\ next.prog = f.prog
          /\ next.pin = None
      <3> DEFINE l == IF f.at = "wq" THEN f.at ELSE "aid"
      <3> DEFINE n == f.left - 1
      <3>1. /\ l \in Labels /\ n \in Nat
            /\ l = (IF f.at = "wq" THEN "wq" ELSE "aid")
        BY <1>1 DEF Labels
      <3>2. next = [f EXCEPT !.at = l, !.pin = None, !.b = FALSE, !.left = n]
        BY <1>1 DEF FrameType
      <3> HIDE DEF next, l, n
      <3>3. /\ next \in FrameType /\ next.at = l /\ next.x = f.x
            /\ next.lock = f.lock /\ next.prog = f.prog /\ next.pin = None
        BY <1>1, <3>1, <3>2 DEF FrameType
      <3> QED BY <3>1, <3>3
    <2> HIDE DEF next, h
    <2>5. About(next) /\ LockAbout(next) /\ CoAbout(next) /\ ~Needs(next)
      BY <1>1, <2>4
         DEF About, LockAbout, CoAbout, JobLabels, WorkqLabels, CoLabels,
             HoldLabels, OnStackLabels, Needs
    <2>6. next \in SoundFrames
      BY <2>4, <2>5 DEF SoundFrames
    <2>7. Plain(next)
      BY <1>1, <2>4, <2>6, PlainTop DEF PlainLabels, HoldLabels, OnStackLabels,
                            Labels, StartLabels, CoLabels
    <2>8. stack' = [stack EXCEPT ![t] =
                      << >> \o (<<h>> \o (<<next>> \o Tail(@)))]
      <3>1. stack' = [stack EXCEPT ![t] = (<<h>> \o <<next>>) \o Tail(@)]
        BY <2>1 DEF LockJob, h
      <3> DEFINE r == Tail(stack[t])
      <3> DEFINE b == <<h>>
      <3> DEFINE e == <<next>>
      <3>2. /\ b \in Seq(SoundFrames) /\ e \in Seq(SoundFrames)
            /\ r \in Seq(SoundFrames)
        BY <1>1, <2>3, <2>6, TopIs
      <3> HIDE DEF b, e, r
      <3>3. (b \o e) \o r = b \o (e \o r)
        BY <3>2, ConcatAssociative
      <3>4. b \o (e \o r) \in Seq(SoundFrames)
        BY <3>2, ConcatProperties
      <3>5. << >> \o (b \o (e \o r)) = b \o (e \o r)
        BY <3>4, ConcatEmptySeq
      <3> QED BY <3>1, <3>3, <3>5 DEF b, e, r, StacksSound
    <2>9. UNCHANGED <<fns, rlck>> /\ h \in SoundFrames' /\ next \in SoundFrames'
      BY <1>4, <2>3, <2>6, SoundSame DEF coVars
    <2>10. GoesTo(t, next, h, << >>)
      BY <1>1, <2>3, <2>5, <2>8, <2>9, NoCalls DEF GoesTo, Follows
    <2>11. /\ StacksStep
           /\ \A P \in Tallied :
                 Tally(P)' = ((Tally(P) + One(next \in P)) + One(h \in P))
                             - One(f \in P)
      BY <1>1, <2>9, <2>10, SoundSame, GoesUnder
    <2>12. \A P \in Tallied : Tally(P)' = Tally(P) + One(h \in P)
      <3> SUFFICES ASSUME NEW P \in Tallied
                   PROVE  Tally(P)' = Tally(P) + One(h \in P)
        OBVIOUS
      <3>1. /\ One(f \in P) = 0 /\ One(next \in P) = 0 /\ One(h \in P) \in Nat
            /\ Tally(P) \in Nat
        BY <1>1, <1>3, <2>4, <2>7, PlainCounts, TallyIs DEF One
      <3> QED BY <2>11, <3>1
    <2>13. Starts(j)
      BY <2>1, <2>11, <2>12 DEF Starts, LockJob, h
    <2>14. DataType'
      <3>1. wqq' \subseteq Workqs
        BY <1>2, <1>5 DEF IInv, DataType
      <3> QED BY <1>4, <2>1, <2>2, <3>1, LockJobData
    <2> QED BY <1>4, <2>2, <2>13, <2>14, StartsKeeps
  <1>6. CASE /\ runq' = [j \in Jobs |-> IF j \in OnQueue(w)
                                        THEN runq[j] \ {ListOf(w)}
                                        ELSE runq[j]]
             /\ IF f.at = "wq" THEN Return(t, << >>) /\ UNCHANGED wqq
                ELSE /\ wqq' = IF f.b THEN wqq ELSE wqq \ {w}
                     /\ Go(t, [f EXCEPT !.b = ~@], << >>)
             /\ UNCHANGED <<active, running, gen, lockVars>>
    <2>1. /\ DataType' /\ UNCHANGED <<fns, lockVars, rlck, count, coq>>
          /\ \A c \in Coroutines : running'[c] = running[c]
      <3>1. /\ runq' \in [Jobs -> SUBSET {"all", "parallel"}]
            /\ \A i \in Jobs : runq'[i] \subseteq Lists(i)
        BY <1>6 DEF IInv, DataType
      <3>2. wqq' \subseteq Workqs
        BY <1>6 DEF IInv, DataType
      <3> QED BY <1>4, <1>6, <3>1, <3>2, CosAre
              DEF IInv, DataType, lockVars, coVars, ptrVars, Lists
    <2>2. CASE f.at = "wq"
      BY <1>1, <1>3, <1>6, <2>1, <2>2, NoCalls, QuietReturn
    <2>3. CASE f.at # "wq"
      <3> DEFINE g == [f EXCEPT !.b = ~@]
      <3>1. /\ g \in FrameType /\ g.at = f.at /\ g.x = f.x /\ g.lock = f.lock
            /\ g.prog = f.prog /\ g.pin = f.pin /\ g.left = f.left
        BY <1>1 DEF FrameType
      <3>2. Go(t, g, << >>) /\ f.at = "aid.wq"
        BY <1>1, <1>6, <2>3
      <3> HIDE DEF f, g
      <3>3. Follows(g, f) /\ LockAlike(f, g) /\ CoAlike(f, g)
        BY <3>1, <3>2
           DEF Follows, Supports, Needs, LockAlike, CoAlike, CoLabels
      <3>4. About(g) /\ LockAbout(g) /\ CoAbout(g)
        BY <1>1, <3>1, <3>2
           DEF About, LockAbout, CoAbout, CoLabels
      <3>5. g \in SoundFrames
        BY <3>1, <3>4 DEF SoundFrames
      <3> QED BY <1>1, <2>1, <3>2, <3>3, <3>5, NoCalls, QuietGo DEF f
    <2> QED BY <2>2, <2>3
  <1> HIDE DEF f, next
  <1> QED BY <1>5, <1>6 DEF AidWorkq, w, f, next

LEMMA AidWorkqEndKeeps ==
    ASSUME IInv, NEW t \in Threads, AidWorkqEnd(t)
    PROVE  IInv'
  <1>1. /\ stack[t] # << >> /\ Top(t).at = "wq" /\ Return(t, << >>) /\ Only
    BY DEF AidWorkqEnd, At, Only
  <1>2. Plain(Top(t))
    BY <1>1, TopFrame, PlainTop DEF PlainLabels, HoldLabels, OnStackLabels,
                                    Labels, StartLabels, CoLabels
  <1> QED BY <1>1, <1>2, NoCalls, JustReturns

-----------------------------------------------------------------------------
(* m_co_runq, a list without duplicates.                                   *)

\* r is s without its m-th element.
TakenOut(r, s, m) ==
    /\ m \in 1 .. Len(s) /\ Len(r) = Len(s) - 1
    /\ \A k \in 1 .. Len(s) - 1 :
          /\ k < m => r[k] = s[k]
          /\ k >= m => r[k] = s[k + 1]

LEMMA OneTakenOut ==
    ASSUME NEW S, NEW s \in Seq(S), NEW r \in Seq(S), NEW m,
           IsInjective(s), TakenOut(r, s, m)
    PROVE  IsInjective(r) /\ ToSet(r) = ToSet(s) \ {s[m]}
  <1>1. /\ DOMAIN s = 1 .. Len(s) /\ Len(s) \in Nat
        /\ DOMAIN r = 1 .. Len(s) - 1 /\ m \in 1 .. Len(s)
    BY LenProperties DEF TakenOut
  <1> DEFINE Of(k) == IF k < m THEN k ELSE k + 1
  <1>2. \A k \in DOMAIN r : Of(k) \in DOMAIN s \ {m} /\ r[k] = s[Of(k)]
    BY <1>1 DEF TakenOut
  <1>3. \A j, k \in DOMAIN r : Of(j) = Of(k) => j = k
    BY <1>1
  <1>4. \A j \in DOMAIN s \ {m} : \E k \in DOMAIN r : Of(k) = j
    <2> SUFFICES ASSUME NEW j \in DOMAIN s \ {m}
                 PROVE  \E k \in DOMAIN r : Of(k) = j
      OBVIOUS
    <2>1. CASE j < m
      BY <1>1, <2>1
    <2>2. CASE j > m
      <3>1. j - 1 \in DOMAIN r /\ Of(j - 1) = j
        BY <1>1, <2>2
      <3> QED BY <3>1
    <2> QED BY <1>1, <2>1, <2>2
  <1> HIDE DEF Of
  <1>5. IsInjective(r)
    BY <1>2, <1>3 DEF IsInjective
  <1>6. ToSet(r) = ToSet(s) \ {s[m]}
    <2>1. \A k \in DOMAIN r : r[k] \in ToSet(s) \ {s[m]}
      BY <1>1, <1>2 DEF IsInjective, ToSet
    <2>2. \A j \in DOMAIN s : s[j] # s[m] => s[j] \in ToSet(r)
      BY <1>1, <1>2, <1>4 DEF ToSet
    <2> QED BY <2>1, <2>2 DEF ToSet
  <1> QED BY <1>5, <1>6

LEMMA WithoutOne ==
    ASSUME NEW S, NEW s \in Seq(S), IsInjective(s), NEW e
    PROVE  /\ Without(s, e) \in Seq(S) /\ IsInjective(Without(s, e))
           /\ ToSet(Without(s, e)) = ToSet(s) \ {e}
  <1>1. CASE e \notin ToSet(s)
    BY <1>1 DEF Without
  <1>2. CASE e \in ToSet(s)
    <2> DEFINE i == CHOOSE k \in DOMAIN s : s[k] = e
    <2> DEFINE before == SubSeq(s, 1, i - 1)
    <2> DEFINE after == SubSeq(s, i + 1, Len(s))
    <2> DEFINE r == before \o after
    <2>1. i \in 1 .. Len(s) /\ Len(s) \in Nat /\ s[i] = e
      BY <1>2, LenProperties DEF ToSet
    <2>2. Without(s, e) = r
      BY <1>2 DEF Without, RemoveAt
    <2> HIDE DEF i
    <2>3. /\ before \in Seq(S) /\ Len(before) = i - 1
          /\ \A k \in 1 .. i - 1 : before[k] = s[k]
      BY <2>1, SubSeqProperties
    <2>4. /\ after \in Seq(S) /\ Len(after) = Len(s) - i
          /\ \A k \in 1 .. Len(s) - i : after[k] = s[k + i]
      BY <2>1, SubSeqProperties
    <2> HIDE DEF before, after
    <2>5. /\ r \in Seq(S) /\ Len(r) = Len(before) + Len(after)
          /\ \A k \in 1 .. Len(before) + Len(after) :
                r[k] = IF k <= Len(before) THEN before[k]
                                           ELSE after[k - Len(before)]
      BY <2>3, <2>4, ConcatProperties
    <2>6. /\ \A k \in 1 .. i - 1 : r[k] = s[k]
          /\ \A k \in i .. Len(s) - 1 : r[k] = s[k + 1]
      <3>1. \A k \in 1 .. i - 1 : r[k] = s[k]
        BY <2>1, <2>3, <2>4, <2>5
      <3>2. \A k \in i .. Len(s) - 1 : r[k] = s[k + 1]
        <4> SUFFICES ASSUME NEW k \in i .. Len(s) - 1
                     PROVE  r[k] = s[k + 1]
          OBVIOUS
        <4>1. k - (i - 1) \in 1 .. Len(s) - i /\ (k - (i - 1)) + i = k + 1
          BY <2>1
        <4>2. r[k] = after[k - (i - 1)]
          BY <2>1, <2>3, <2>4, <2>5
        <4> QED BY <2>4, <4>1, <4>2
      <3> QED BY <3>1, <3>2
    <2>7. Len(r) = Len(s) - 1
      BY <2>1, <2>3, <2>4, <2>5
    <2> HIDE DEF r
    <2>8. TakenOut(r, s, i)
      BY <2>1, <2>6, <2>7 DEF TakenOut
    <2>9. IsInjective(r) /\ ToSet(r) = ToSet(s) \ {s[i]}
      BY <2>5, <2>8, OneTakenOut
    <2> QED BY <2>1, <2>2, <2>5, <2>9
  <1> QED BY <1>1, <1>2

LEMMA PutLast ==
    ASSUME NEW S, NEW s \in Seq(S), IsInjective(s), NEW e \in S,
           e \notin ToSet(s)
    PROVE  /\ Append(s, e) \in Seq(S) /\ IsInjective(Append(s, e))
           /\ ToSet(Append(s, e)) = ToSet(s) \cup {e}
  <1>1. /\ Append(s, e) \in Seq(S) /\ Len(Append(s, e)) = Len(s) + 1
        /\ \A i \in 1 .. Len(s) : Append(s, e)[i] = s[i]
        /\ Append(s, e)[Len(s) + 1] = e
    BY AppendProperties
  <1>2. /\ DOMAIN s = 1 .. Len(s) /\ Len(s) \in Nat
        /\ DOMAIN Append(s, e) = 1 .. Len(s) + 1
    BY <1>1, LenProperties
  <1>3. \A i \in 1 .. Len(s) : s[i] # e
    BY <1>2 DEF ToSet
  <1>4. IsInjective(Append(s, e))
    BY <1>1, <1>2, <1>3 DEF IsInjective
  <1>5. ToSet(Append(s, e)) = ToSet(s) \cup {e}
    <2>1. \A i \in 1 .. Len(s) + 1 : Append(s, e)[i] \in ToSet(s) \cup {e}
      BY <1>1, <1>2 DEF ToSet
    <2>2. \A i \in 1 .. Len(s) : s[i] \in ToSet(Append(s, e))
      BY <1>1, <1>2 DEF ToSet
    <2>3. e \in ToSet(Append(s, e))
      <3>1. Len(s) + 1 \in DOMAIN Append(s, e)
        BY <1>2
      <3> QED BY <1>1, <3>1 DEF ToSet
    <2> QED BY <1>2, <2>1, <2>2, <2>3 DEF ToSet
  <1> QED BY <1>1, <1>4, <1>5

-----------------------------------------------------------------------------
(* run() of a coroutine job.                                               *)

LEMMA SoundGrows ==
    ASSUME UNCHANGED fns, \A c \in Coroutines : Published(c) => Published(c)'
    PROVE  SoundFrames \subseteq SoundFrames'
  <1>1. Coroutines' = Coroutines /\ Made' = Made
    BY CosAre DEF Made
  <1>2. ASSUME NEW f \in SoundFrames PROVE f \in SoundFrames'
    <2>1. f \in FrameType /\ About(f) /\ LockAbout(f) /\ CoAbout(f)
      BY SoundIs
    <2>2. About(f)'
      BY <1>1, <2>1 DEF About, CallsOn
    <2>3. LockAbout(f)'
      BY <1>1, <2>1 DEF LockAbout, OwnLock, LockFor
    <2>4. CoAbout(f)'
      <3>1. f.x \in Coroutines /\ Published(f.x) =>
               f.x \in Coroutines' /\ Published(f.x)'
        BY <1>1
      <3>2. f.pin \in Coroutines /\ Published(f.pin) =>
               f.pin \in Coroutines' /\ Published(f.pin)'
        BY <1>1
      <3> QED BY <2>1, <3>1, <3>2 DEF CoAbout
    <2> QED BY <2>1, <2>2, <2>3, <2>4 DEF SoundFrames
  <1> QED BY <1>2

\* Nobody runs functions of a coroutine job that is not published.
LEMMA NoHelp ==
    ASSUME IInv, NEW c \in Coroutines, ~Published(c)
    PROVE  Tally(Helping(c)) = 0
  <1>1. ASSUME NEW p \in Slots(stack, Helping(c)) PROVE FALSE
    <2> DEFINE f == stack[p[1]][p[2]]
    <2>1. p[1] \in Threads /\ p[2] \in DOMAIN stack[p[1]] /\ f \in Helping(c)
      BY DEF Slots
    <2>2. stack[p[1]] \in Seq(SoundFrames)
      BY <2>1 DEF IInv, StacksSound
    <2>3. f \in SoundFrames
      BY <2>1, <2>2, LenProperties, ElementOfSeq
    <2> HIDE DEF f
    <2>4. CoAbout(f) /\ f.x = c /\ f.at \in CoLabels
      BY <2>1, <2>3, SoundIs DEF Helping, CoLabels
    <2> QED BY <2>4 DEF CoAbout
  <1>2. Slots(stack, Helping(c)) = {}
    BY <1>1
  <1> QED BY <1>2, FS_EmptySet DEF Tally

\* A coroutine job takes the lock of the frame that starts it.
LEMMA StolenGrows ==
    ASSUME IInv, NEW j \in Coroutines, rlck[j] = NoLock, UNCHANGED fns,
           rlck' = [rlck EXCEPT ![j] = OwnLock(j)],
           NEW w \in Workqs, NEW l \in {"SINGLE", "PARALLEL"}
    PROVE  /\ IsFiniteSet(Stolen(w, l)')
           /\ Cardinality(Stolen(w, l)') = Cardinality(Stolen(w, l))
                 + One(w = WorkqOf[j] /\ l = LockFor(j))
           /\ Cardinality(Stolen(w, l)) \in Nat
  <1>1. j \in Made /\ j \in Jobs
    BY DEF IInv, Given, Coroutines
  <1>2. /\ rlck \in [Jobs -> Locks] /\ Made' = Made /\ Made \subseteq Jobs
        /\ IsFiniteSet(Stolen(w, l))
    BY DEF IInv, DataType, LocksTallied, Made, Given
  <1>3. /\ NoLock.wq = None /\ None \notin Workqs
        /\ OwnLock(j).wq = WorkqOf[j] /\ OwnLock(j).lck = LockFor(j)
    BY RunAssumption DEF NoLock, OwnLock, Lock
  <1>4. j \notin Stolen(w, l)
    BY <1>3 DEF Stolen
  <1>5. Stolen(w, l)' = IF w = WorkqOf[j] /\ l = LockFor(j)
                        THEN Stolen(w, l) \cup {j} ELSE Stolen(w, l)
    <2>1. \A i \in Made : i # j => rlck'[i] = rlck[i]
      BY <1>2
    <2>2. rlck'[j] = OwnLock(j)
      BY <1>1, <1>2
    <2>3. \A i \in Made : i \in Stolen(w, l)' <=>
             IF i = j THEN w = WorkqOf[j] /\ l = LockFor(j)
             ELSE i \in Stolen(w, l)
      BY <1>2, <1>3, <2>1, <2>2 DEF Stolen
    <2>4. Stolen(w, l)' \subseteq Made /\ Stolen(w, l) \subseteq Made
      BY <1>2 DEF Stolen
    <2> QED BY <1>1, <1>4, <2>3, <2>4
  <1>6. /\ IsFiniteSet(Stolen(w, l) \cup {j})
        /\ Cardinality(Stolen(w, l) \cup {j}) = Cardinality(Stolen(w, l)) + 1
    BY <1>2, <1>4, FS_AddElement
  <1>7. Cardinality(Stolen(w, l)) \in Nat
    BY <1>2, FS_CardinalityType
  <1> QED BY <1>2, <1>5, <1>6, <1>7 DEF One

LEMMA PublishKeeps ==
    ASSUME IInv, NEW t \in Threads, co_publish(t), At(t, "co.publish")
    PROVE  IInv'
  <1>f. PICK f : f = Top(t)
    OBVIOUS
  <1>j. PICK j : j = f.x
    OBVIOUS
  <1>g. PICK g : g = [f EXCEPT !.at = "co.link", !.lock = NoLock]
    OBVIOUS
  <1>1. /\ stack[t] # << >> /\ f \in SoundFrames /\ f \in FrameType
        /\ About(f) /\ LockAbout(f) /\ CoAbout(f) /\ f.at = "co.publish"
        /\ StacksSound /\ TalliesFinite
    BY <1>f, TopFrame DEF At
  <1>2. /\ rlck' = [rlck EXCEPT ![j] = f.lock]
        /\ idx' = [idx EXCEPT ![j] = 0]
        /\ count' = [count EXCEPT ![j] = Len(fns[j])]
        /\ Go(t, g, << >>) /\ coq' = coq
        /\ UNCHANGED <<fns, jobVars, lockVars, ptrVars, suicide, deleted>>
    BY <1>1, <1>f, <1>j, <1>g DEF co_publish, At
  <1>3. /\ j \in Coroutines /\ j \in Made /\ j \in Jobs /\ f.lock = OwnLock(j)
        /\ Coroutines \subseteq Made /\ Made \subseteq Jobs
        /\ WorkqOf[j] \in Workqs /\ None \notin Workqs /\ None \notin Jobs
    BY <1>1, <1>j, MadeAre, RunAssumption
       DEF About, LockAbout, Coroutines, IInv, Given
  <1>4. NoLock \in Locks /\ NoLock.wq = None /\ NoLock.job = None
    BY DEF NoLock, Locks
  <1>5. /\ g \in FrameType /\ g.at = "co.link" /\ g.x = j /\ g.lock = NoLock
        /\ g.prog = f.prog /\ g.pin = f.pin
    BY <1>1, <1>4, <1>g, <1>j DEF FrameType, Labels
  <1>6. OwnLock(j).job = j /\ OwnLock(j).wq = WorkqOf[j]
        /\ OwnLock(j).lck = LockFor(j) /\ OwnLock(j) \in Locks
    BY <1>3 DEF OwnLock, Lock, Locks, LockFor
  <1> DEFINE v == WorkqOf[j]
  <1>7. Tally(Starting(j)) \in Nat /\ Tally(Starting(j)) > 0
    <2>1. f \in Starting(j) /\ Starting(j) \in Tallied
      BY <1>1, <1>3, <1>j, InCoSets DEF Starting, Tallied
    <2> QED BY <1>1, <1>f, <2>1, TopCounts
  <1>8. running[j] /\ ~Published(j)
    <2>1. Tally(Starting(j)) = One(running[j] /\ ~Published(j))
      BY <1>3 DEF IInv, CoroutinesTallied
    <2> QED BY <1>7, <2>1 DEF One
  <1>9. rlck[j] = NoLock
    <2>1. rlck[j] = NoLock \/ rlck[j] = OwnLock(j)
      BY <1>3 DEF IInv, StolenLocks
    <2> QED BY <1>6, <1>8, <2>1 DEF Published
  <1>10. /\ rlck \in [Jobs -> Locks] /\ count \in [Jobs -> Int]
         /\ idx \in [Jobs -> Nat] /\ Len(fns[j]) \in Nat
    <2>1. fns[j] \in Seq(Seq(CallsOn(Made)))
      BY <1>3 DEF IInv, Given
    <2> QED BY <2>1, LenProperties DEF IInv, DataType
  <1>11. /\ rlck'[j] = OwnLock(j) /\ Published(j)'
         /\ \A c \in Jobs : c # j => rlck'[c] = rlck[c] /\ count'[c] = count[c]
         /\ \A c \in Jobs : c # j => (Published(c)' <=> Published(c))
         /\ count'[j] = Len(fns[j])
    BY <1>2, <1>3, <1>6, <1>10 DEF Published
  <1>12. SoundFrames \subseteq SoundFrames'
    BY <1>2, <1>3, <1>11, SoundGrows
  <1>13. g \in SoundFrames' /\ Follows(g, f)
    <2>1. g.x \in Coroutines' /\ Made' = Made
      BY <1>2, <1>3, <1>5, CosAre DEF Made
    <2>2. Follows(g, f)
      BY <1>5 DEF Follows, Needs, CoLabels
    <2>3. About(g)'
      BY <1>1, <1>2, <1>3, <1>4, <1>5, <2>1
         DEF About, JobLabels, WorkqLabels, CallsOn
    <2>4. LockAbout(g)' /\ CoAbout(g)'
      <3>1. Published(g.x)'
        BY <1>5, <1>11
      <3> QED BY <1>4, <1>5, <2>1, <3>1 DEF LockAbout, CoAbout, CoLabels
    <2> QED BY <1>5, <2>2, <2>3, <2>4 DEF SoundFrames
  <1>14. Swapped(t, g)
    <2>1. stack' = [stack EXCEPT ![t] = << >> \o <<g>> \o Tail(@)]
      BY <1>2 DEF Go
    <2> QED BY <1>1, <1>2, <1>12, <1>13, <1>f, <2>1, NoCalls, Goes DEF Swapped
  <1>15. DataType'
    <2>1. /\ rlck' \in [Jobs -> Locks] /\ idx' \in [Jobs -> Nat]
          /\ count' \in [Jobs -> Int]
      BY <1>2, <1>3, <1>6, <1>10
    <2>2. \A c \in Jobs \ Coroutines : count'[c] = 0
      BY <1>3, <1>11 DEF IInv, DataType
    <2> QED BY <1>2, <2>1, <2>2, CosAre
            DEF IInv, DataType, jobVars, lockVars, ptrVars, Lists
  <1>16. StolenLocks'
    <2>1. \A c : OwnLock(c)' = OwnLock(c)
      BY DEF OwnLock, LockFor, Lock
    <2>2. running' = running
      BY <1>2 DEF jobVars
    <2>3. \A c \in Jobs : \/ rlck'[c] = NoLock
                          \/ /\ c \in Coroutines
                             /\ rlck'[c] = OwnLock(c) /\ running[c]
      BY <1>3, <1>8, <1>11 DEF IInv, StolenLocks
    <2> QED BY <1>2, <2>1, <2>2, <2>3, CosAre DEF StolenLocks, NoLock
  <1>17. LocksTallied'
    <2> SUFFICES ASSUME NEW w \in Workqs
                 PROVE  /\ \A l \in {"SINGLE", "PARALLEL"} :
                              IsFiniteSet(Stolen(w, l)')
                        /\ Tally(Holding(w, "SINGLE"))'
                              + Cardinality(Stolen(w, "SINGLE")')
                              = One(single[w])
                        /\ (Tally(Holding(w, "PARALLEL"))'
                              + Cardinality(Stolen(w, "PARALLEL")'))
                              + Tally(Restoring(w))' = parallel[w]
      BY <1>2 DEF LocksTallied, lockVars
    <2> DEFINE S == Holding(w, "SINGLE")
    <2> DEFINE Q == Holding(w, "PARALLEL")
    <2> DEFINE R == Restoring(w)
    <2> DEFINE s == One(w = v /\ "SINGLE" = LockFor(j))
    <2> DEFINE q == One(w = v /\ "PARALLEL" = LockFor(j))
    <2>1. S \in Tallied /\ Q \in Tallied /\ R \in Tallied
      BY InLockSets DEF Tallied
    <2>2. /\ One(g \in S) = 0 /\ One(g \in Q) = 0 /\ One(g \in R) = 0
          /\ One(f \in S) = s /\ One(f \in Q) = q /\ One(f \in R) = 0
      BY <1>1, <1>3, <1>4, <1>5, <1>6 DEF One, Holding, Restoring
    <2>3. s \in Nat /\ q \in Nat
      BY DEF One
    <2>4. /\ Tally(S) \in Nat /\ Tally(Q) \in Nat /\ Tally(R) \in Nat
          /\ Tally(S)' = Tally(S) - s /\ Tally(Q)' = Tally(Q) - q
          /\ Tally(R)' = Tally(R)
      <3> HIDE DEF S, Q, R, s, q
      <3>1. Tally(S) \in Nat /\ Tally(Q) \in Nat /\ Tally(R) \in Nat
        BY <1>1, <2>1, TallyIs
      <3> QED BY <1>14, <1>f, <2>1, <2>2, <2>3, <3>1 DEF Swapped
    <2>5. \A l \in {"SINGLE", "PARALLEL"} :
             /\ IsFiniteSet(Stolen(w, l)') /\ Cardinality(Stolen(w, l)) \in Nat
             /\ Cardinality(Stolen(w, l)') = Cardinality(Stolen(w, l))
                   + One(w = v /\ l = LockFor(j))
      BY <1>2, <1>3, <1>9, StolenGrows
    <2>6. /\ Tally(S) + Cardinality(Stolen(w, "SINGLE")) = One(single[w])
          /\ (Tally(Q) + Cardinality(Stolen(w, "PARALLEL"))) + Tally(R)
                = parallel[w]
      BY DEF IInv, LocksTallied
    <2> HIDE DEF S, Q, R
    <2>7. /\ Cardinality(Stolen(w, "SINGLE")') =
                Cardinality(Stolen(w, "SINGLE")) + s
          /\ Cardinality(Stolen(w, "PARALLEL")') =
                Cardinality(Stolen(w, "PARALLEL")) + q
          /\ Cardinality(Stolen(w, "SINGLE")) \in Nat
          /\ Cardinality(Stolen(w, "PARALLEL")) \in Nat
      BY <2>5
    <2> HIDE DEF s, q
    <2>8. /\ Tally(S)' + Cardinality(Stolen(w, "SINGLE")') = One(single[w])
          /\ (Tally(Q)' + Cardinality(Stolen(w, "PARALLEL")')) + Tally(R)'
                = parallel[w]
      BY <2>3, <2>4, <2>6, <2>7
    <2> QED BY <2>5, <2>8 DEF S, Q, R
  <1>18. CoroutinesTallied'
    <2> SUFFICES ASSUME NEW c \in Coroutines
                 PROVE  /\ Tally(Starting(c))' = One(running[c] /\ ~Published(c)')
                        /\ Tally(Linking(c))' + One(c \in ToSet(coq))
                              =< One(Published(c)')
                        /\ count'[c] = (IF Published(c)' THEN Len(fns[c]) ELSE 0)
                                       + Tally(Helping(c))'
      <3>1. running' = running
        BY <1>2 DEF jobVars
      <3> QED BY <1>2, <3>1, CosAre DEF CoroutinesTallied
    <2> DEFINE S == Starting(c)
    <2> DEFINE L == Linking(c)
    <2> DEFINE H == Helping(c)
    <2>1. S \in Tallied /\ L \in Tallied /\ H \in Tallied
      BY InCoSets DEF Tallied
    <2>2. /\ One(g \in S) = 0 /\ One(g \in L) = One(c = j) /\ One(g \in H) = 0
          /\ One(f \in S) = One(c = j) /\ One(f \in L) = 0 /\ One(f \in H) = 0
      BY <1>1, <1>5, <1>j DEF One, Starting, Linking, Helping
    <2>3. One(c = j) \in Nat
      BY DEF One
    <2>4. /\ Tally(S) = One(running[c] /\ ~Published(c))
          /\ Tally(L) + One(c \in ToSet(coq)) =< One(Published(c))
          /\ count[c] = (IF Published(c) THEN Len(fns[c]) ELSE 0) + Tally(H)
      BY DEF IInv, CoroutinesTallied
    <2>5. ~Published(c) => Tally(H) = 0
      BY NoHelp
    <2> HIDE DEF S, L, H
    <2>6. /\ Tally(S) \in Nat /\ Tally(L) \in Nat /\ Tally(H) \in Nat
          /\ Tally(S)' = Tally(S) - One(c = j)
          /\ Tally(L)' = Tally(L) + One(c = j) /\ Tally(H)' = Tally(H)
      <3>1. Tally(S) \in Nat /\ Tally(L) \in Nat /\ Tally(H) \in Nat
        BY <1>1, <2>1, TallyIs
      <3> QED BY <1>14, <1>f, <2>1, <2>2, <2>3, <3>1 DEF Swapped
    <2>7. CASE c = j
      <3>1. One(c = j) = 1 /\ Published(c)' /\ ~Published(c)
        BY <1>8, <1>11, <2>7 DEF One
      <3>2. One(Published(c)') = 1 /\ One(running[c] /\ ~Published(c)') = 0
            /\ One(Published(c)) = 0
        BY <3>1 DEF One
      <3>3. Tally(S)' = 0
        <4>1. Tally(S) = 1
          BY <1>8, <2>4, <2>7 DEF One
        <4> QED BY <2>6, <3>1, <4>1
      <3>4. Tally(L)' + One(c \in ToSet(coq)) =< 1
        BY <2>4, <2>6, <3>1, <3>2 DEF One
      <3>5. count'[c] = Len(fns[c]) + Tally(H)'
        BY <1>10, <1>11, <2>5, <2>6, <2>7, <3>1
      <3> QED BY <3>1, <3>2, <3>3, <3>4, <3>5 DEF S, L, H
    <2>8. CASE c # j
      <3>1. One(c = j) = 0 /\ (Published(c)' <=> Published(c))
            /\ count'[c] = count[c]
        BY <1>3, <1>11, <2>8 DEF One
      <3>2. Tally(S)' = Tally(S) /\ Tally(L)' = Tally(L) /\ Tally(H)' = Tally(H)
        BY <2>6, <3>1
      <3>3. /\ One(Published(c)') = One(Published(c))
            /\ One(running[c] /\ ~Published(c)') = One(running[c] /\ ~Published(c))
        BY <3>1 DEF One
      <3> QED BY <2>4, <3>1, <3>2, <3>3 DEF S, L, H
    <2> QED BY <2>7, <2>8 DEF S, L, H
  <1>19. Given'
    BY <1>2, GivenKept DEF IInv
  <1> QED BY <1>14, <1>15, <1>16, <1>17, <1>18, <1>19
          DEF IInv, Swapped, StacksStep

-----------------------------------------------------------------------------
(* Coroutine jobs that were published.                                     *)

\* The coroutine jobs change as the counts for them change: they are linked
\* once, and m_runcount is the functions that are not taken and the helpers.
CosFollow ==
    \A c \in Coroutines :
        /\ Tally(Starting(c))' = Tally(Starting(c))
        /\ Tally(Linking(c))' + One(c \in ToSet(coq'))
              =< Tally(Linking(c)) + One(c \in ToSet(coq))
        /\ count'[c] - count[c] = Tally(Helping(c))' - Tally(Helping(c))

LEMMA CosTalliedStep ==
    ASSUME IInv, UNCHANGED <<fns, rlck, running>>, DataType', StacksStep,
           CosFollow
    PROVE  CoroutinesTallied'
  <1>1. \A c : Published(c)' = Published(c)
    BY DEF Published
  <1>2. ASSUME NEW c \in Coroutines
        PROVE  /\ Tally(Starting(c))' = One(running[c] /\ ~Published(c))
               /\ Tally(Linking(c))' + One(c \in ToSet(coq')) =< One(Published(c))
               /\ count'[c] = (IF Published(c) THEN Len(fns[c]) ELSE 0)
                              + Tally(Helping(c))'
    <2> DEFINE n == IF Published(c) THEN Len(fns[c]) ELSE 0
    <2>1. /\ Starting(c) \in Tallied /\ Linking(c) \in Tallied
          /\ Helping(c) \in Tallied
      BY InCoSets DEF Tallied
    <2>2. /\ Tally(Linking(c)) \in Nat /\ Tally(Linking(c))' \in Nat
          /\ Tally(Helping(c)) \in Nat /\ Tally(Helping(c))' \in Nat
      BY <2>1, TallyIs, TallyStays DEF IInv
    <2>3. /\ Tally(Starting(c)) = One(running[c] /\ ~Published(c))
          /\ Tally(Linking(c)) + One(c \in ToSet(coq)) =< One(Published(c))
          /\ count[c] = n + Tally(Helping(c))
      BY DEF IInv, CoroutinesTallied
    <2>4. count[c] \in Int /\ count'[c] \in Int /\ n \in Nat
      <3>1. c \in Jobs /\ c \in Made
        BY DEF IInv, Given, Coroutines
      <3>2. fns[c] \in Seq(Seq(CallsOn(Made)))
        BY <3>1 DEF IInv, Given
      <3>3. Len(fns[c]) \in Nat
        BY <3>2, LenProperties
      <3> QED BY <3>1, <3>3 DEF IInv, DataType
    <2>5. /\ One(c \in ToSet(coq)) \in Nat /\ One(c \in ToSet(coq')) \in Nat
          /\ One(Published(c)) \in Nat
      BY DEF One
    <2>6. /\ Tally(Starting(c))' = Tally(Starting(c))
          /\ Tally(Linking(c))' + One(c \in ToSet(coq'))
                =< Tally(Linking(c)) + One(c \in ToSet(coq))
          /\ count'[c] - count[c] = Tally(Helping(c))' - Tally(Helping(c))
      BY DEF CosFollow
    <2> HIDE DEF n
    <2>7. Tally(Linking(c))' + One(c \in ToSet(coq')) =< One(Published(c))
      BY <2>2, <2>3, <2>5, <2>6
    <2>8. count'[c] = n + Tally(Helping(c))'
      BY <2>2, <2>3, <2>4, <2>6
    <2> QED BY <2>3, <2>6, <2>7, <2>8 DEF n
  <1> QED BY <1>1, <1>2, CosAre DEF CoroutinesTallied

LEMMA Follow ==
    ASSUME IInv, UNCHANGED <<fns, rlck, running>>, DataType', StacksStep,
           LocksFollow, CosFollow
    PROVE  IInv'
  <1>1. StolenLocks' /\ Given'
    BY StolenKept, GivenKept DEF IInv
  <1>2. LocksTallied' /\ CoroutinesTallied'
    BY LocksTalliedStep, CosTalliedStep
  <1> QED BY <1>1, <1>2 DEF IInv, StacksStep

\* The locks of workqs, and who holds them, stay.
LEMMA LocksStay ==
    ASSUME IInv, UNCHANGED lockVars, \A P \in LockSets : Tally(P)' = Tally(P)
    PROVE  LocksFollow
  <1> SUFFICES ASSUME NEW w \in Workqs
               PROVE  /\ One(single'[w]) - One(single[w]) =
                            Tally(Holding(w, "SINGLE"))'
                            - Tally(Holding(w, "SINGLE"))
                      /\ parallel'[w] - parallel[w] =
                            (Tally(Holding(w, "PARALLEL"))'
                               - Tally(Holding(w, "PARALLEL")))
                            + (Tally(Restoring(w))' - Tally(Restoring(w)))
    BY DEF LocksFollow
  <1> DEFINE S == Holding(w, "SINGLE")
  <1> DEFINE Q == Holding(w, "PARALLEL")
  <1> DEFINE R == Restoring(w)
  <1>1. S \in LockSets /\ Q \in LockSets /\ R \in LockSets
    BY InLockSets
  <1> HIDE DEF S, Q, R
  <1>2. /\ Tally(S) \in Nat /\ Tally(Q) \in Nat /\ Tally(R) \in Nat
        /\ Tally(S)' = Tally(S) /\ Tally(Q)' = Tally(Q)
        /\ Tally(R)' = Tally(R)
    BY <1>1, TallyIs DEF Tallied, IInv
  <1>3. /\ One(single[w]) \in Nat /\ parallel[w] \in Int
        /\ single'[w] = single[w] /\ parallel'[w] = parallel[w]
    BY DEF One, IInv, DataType, lockVars
  <1>4. One(single'[w]) - One(single[w]) = Tally(S)' - Tally(S)
    BY <1>2, <1>3
  <1>5. parallel'[w] - parallel[w] =
           (Tally(Q)' - Tally(Q)) + (Tally(R)' - Tally(R))
    BY <1>2, <1>3
  <1> QED BY <1>4, <1>5 DEF S, Q, R

\* The jobs on m_co_runq were published.
LEMMA LinkedIs ==
    ASSUME IInv, NEW c \in ToSet(coq)
    PROVE  c \in Coroutines /\ Published(c) /\ c \in Made /\ c \in Jobs
  <1>1. c \in Coroutines
    <2>1. PICK i \in DOMAIN coq : coq[i] = c
      BY DEF ToSet
    <2>2. coq \in Seq(Coroutines)
      BY DEF IInv, DataType
    <2> QED BY <2>1, <2>2, LenProperties, ElementOfSeq
  <1>2. Tally(Linking(c)) \in Nat
    BY <1>1, InCoSets, TallyIs DEF Tallied, IInv
  <1>3. Tally(Linking(c)) + One(c \in ToSet(coq)) =< One(Published(c))
    BY <1>1 DEF IInv, CoroutinesTallied
  <1>4. Published(c)
    BY <1>2, <1>3 DEF One
  <1> QED BY <1>1, <1>4 DEF IInv, Given, Coroutines

LEMMA LinkKeeps ==
    ASSUME IInv, NEW t \in Threads, co_publish(t), At(t, "co.link")
    PROVE  IInv'
  <1>f. PICK f : f = Top(t)
    OBVIOUS
  <1>j. PICK j : j = f.x
    OBVIOUS
  <1>g. PICK g : g = [f EXCEPT !.at = "ul.job"]
    OBVIOUS
  <1>1. /\ stack[t] # << >> /\ f \in SoundFrames /\ f \in FrameType
        /\ About(f) /\ LockAbout(f) /\ CoAbout(f) /\ f.at = "co.link"
        /\ StacksSound /\ TalliesFinite
    BY <1>f, TopFrame DEF At
  <1>2. /\ coq' = Append(coq, j) /\ Go(t, g, << >>)
        /\ UNCHANGED <<rlck, count, idx>>
        /\ UNCHANGED <<fns, jobVars, lockVars, ptrVars, suicide, deleted>>
    BY <1>1, <1>f, <1>j, <1>g DEF co_publish, At, Goto
  <1>3. j \in Coroutines /\ Published(j)
    BY <1>1, <1>j DEF CoAbout
  <1>4. /\ g \in FrameType /\ g.at = "ul.job" /\ g.x = f.x /\ g.lock = f.lock
        /\ g.prog = f.prog /\ g.b = f.b /\ g.pin = f.pin
    <2>1. "ul.job" \in Labels
      BY DEF Labels
    <2> QED BY <1>1, <1>g, <2>1, PlaceIs
  <1>5. g \in SoundFrames /\ Follows(g, f) /\ LockAlike(f, g)
    <2>1. Follows(g, f) /\ LockAlike(f, g)
      BY <1>1, <1>4 DEF Follows, Needs, CoLabels, LockAlike
    <2>2. About(g) /\ LockAbout(g) /\ CoAbout(g)
      BY <1>1, <1>4 DEF About, LockAbout, CoAbout, JobLabels, WorkqLabels,
                        CoLabels, HoldLabels, OnStackLabels
    <2> QED BY <1>4, <2>1, <2>2 DEF SoundFrames
  <1>6. Swapped(t, g)
    <2>1. stack' = [stack EXCEPT ![t] = << >> \o <<g>> \o Tail(@)]
      BY <1>2 DEF Go
    <2>2. UNCHANGED <<fns, rlck>> /\ g \in SoundFrames'
      BY <1>2, <1>5, SoundStay
    <2> QED BY <1>1, <1>5, <1>f, <2>1, <2>2, NoCalls, SoundSame, Goes
            DEF Swapped
  <1>7. j \notin ToSet(coq)
    <2>1. f \in Linking(j) /\ Linking(j) \in Tallied
      BY <1>1, <1>3, <1>j, InCoSets DEF Linking, Tallied
    <2>2. Tally(Linking(j)) \in Nat /\ Tally(Linking(j)) > 0
      BY <1>1, <1>f, <2>1, TopCounts
    <2>3. Tally(Linking(j)) + One(j \in ToSet(coq)) =< One(Published(j))
      BY <1>3 DEF IInv, CoroutinesTallied
    <2> QED BY <2>2, <2>3 DEF One
  <1>8. /\ coq' \in Seq(Coroutines) /\ IsInjective(coq')
        /\ ToSet(coq') = ToSet(coq) \cup {j}
    BY <1>2, <1>3, <1>7, PutLast DEF IInv, DataType
  <1>9. DataType'
    BY <1>2, <1>8, CosAre DEF IInv, DataType, jobVars, lockVars, ptrVars, Lists
  <1>10. LocksFollow
    <2>1. ASSUME NEW P \in LockSets PROVE Tally(P)' = Tally(P)
      <3>1. g \in P <=> f \in P
        BY <1>1, <1>4, <1>5, LockAlikeCounts
      <3>2. One(g \in P) = One(f \in P) /\ One(f \in P) \in Nat
        BY <3>1 DEF One
      <3>3. Tally(P) \in Nat
        BY <1>1, TallyIs DEF Tallied
      <3>4. Tally(P)' = (Tally(P) + One(g \in P)) - One(f \in P)
        BY <1>6, <1>f DEF Swapped, Tallied
      <3> QED BY <3>2, <3>3, <3>4
    <2> QED BY <1>2, <2>1, LocksStay
  <1>11. CosFollow
    <2> SUFFICES ASSUME NEW c \in Coroutines
                 PROVE  /\ Tally(Starting(c))' = Tally(Starting(c))
                        /\ Tally(Linking(c))' + One(c \in ToSet(coq'))
                              =< Tally(Linking(c)) + One(c \in ToSet(coq))
                        /\ count'[c] - count[c] =
                              Tally(Helping(c))' - Tally(Helping(c))
      BY DEF CosFollow
    <2> DEFINE S == Starting(c)
    <2> DEFINE L == Linking(c)
    <2> DEFINE H == Helping(c)
    <2>1. S \in Tallied /\ L \in Tallied /\ H \in Tallied
      BY InCoSets DEF Tallied
    <2>2. /\ One(g \in S) = 0 /\ One(g \in L) = 0 /\ One(g \in H) = 0
          /\ One(f \in S) = 0 /\ One(f \in L) = One(c = j) /\ One(f \in H) = 0
      BY <1>1, <1>4, <1>j DEF One, Starting, Linking, Helping
    <2> HIDE DEF S, L, H
    <2>3. /\ Tally(S) \in Nat /\ Tally(L) \in Nat /\ Tally(H) \in Nat
          /\ One(c = j) \in Nat
      BY <1>1, <2>1, TallyIs DEF One
    <2>4. /\ Tally(S)' = Tally(S) /\ Tally(L)' = Tally(L) - One(c = j)
          /\ Tally(H)' = Tally(H)
      BY <1>6, <1>f, <2>1, <2>2, <2>3 DEF Swapped
    <2>5. One(c \in ToSet(coq')) = One(c \in ToSet(coq)) + One(c = j)
      BY <1>7, <1>8 DEF One
    <2>6. One(c \in ToSet(coq)) \in Nat
      BY DEF One
    <2>7. Tally(L)' + One(c \in ToSet(coq'))
             =< Tally(L) + One(c \in ToSet(coq))
      BY <2>3, <2>4, <2>5, <2>6
    <2>8. count'[c] - count[c] = Tally(H)' - Tally(H)
      <3>1. count[c] \in Int
        BY DEF IInv, DataType, Given, Coroutines
      <3> QED BY <1>2, <2>3, <2>4, <3>1
    <2> QED BY <2>4, <2>7, <2>8 DEF S, L, H
  <1>12. UNCHANGED <<fns, rlck, running>>
    BY <1>2 DEF jobVars
  <1> QED BY <1>6, <1>9, <1>10, <1>11, <1>12, Follow DEF Swapped

LEMMA co_publishKeeps ==
    ASSUME IInv, NEW t \in Threads, co_publish(t)
    PROVE  IInv'
  <1>1. At(t, "co.publish") \/ At(t, "co.link")
    BY DEF co_publish
  <1> QED BY <1>1, PublishKeeps, LinkKeeps

\* A top frame that counts for the same as the one before.
LEMMA AlikeTallies ==
    ASSUME IInv, NEW t \in Threads, stack[t] # << >>, NEW g \in FrameType,
           Swapped(t, g)
    PROVE  /\ LockAlike(Top(t), g) => \A P \in LockSets : Tally(P)' = Tally(P)
           /\ CoAlike(Top(t), g) => \A P \in CoSets : Tally(P)' = Tally(P)
  <1> DEFINE f == Top(t)
  <1>1. f \in FrameType
    BY TopFrame
  <1> HIDE DEF f
  <1>2. ASSUME NEW P \in Tallied, f \in P <=> g \in P
        PROVE  Tally(P)' = Tally(P)
    <2>1. One(g \in P) = One(f \in P) /\ One(f \in P) \in Nat
      BY <1>2 DEF One
    <2>2. Tally(P) \in Nat
      BY TallyIs DEF IInv
    <2>3. Tally(P)' = (Tally(P) + One(g \in P)) - One(f \in P)
      BY DEF Swapped, f
    <2> QED BY <2>1, <2>2, <2>3
  <1>3. ASSUME LockAlike(f, g), NEW P \in LockSets
        PROVE  Tally(P)' = Tally(P)
    BY <1>1, <1>2, <1>3, LockAlikeCounts DEF Tallied
  <1>4. ASSUME CoAlike(f, g), NEW P \in CoSets
        PROVE  Tally(P)' = Tally(P)
    BY <1>1, <1>2, <1>4, CoAlikeCounts DEF Tallied
  <1> QED BY <1>3, <1>4 DEF f

\* release(): the job leaves m_co_runq.
LEMMA EraseKeeps ==
    ASSUME IInv, NEW t \in Threads, release(t), At(t, "co.erase")
    PROVE  IInv'
  <1>f. PICK f : f = Top(t)
    OBVIOUS
  <1>j. PICK j : j = f.x
    OBVIOUS
  <1>g. PICK g : g = [f EXCEPT !.at = "co.dec"]
    OBVIOUS
  <1>c. PICK calls : calls = IF j \in ToSet(coq) THEN Released(j) ELSE << >>
    OBVIOUS
  <1>1. /\ stack[t] # << >> /\ f \in SoundFrames /\ f \in FrameType
        /\ About(f) /\ LockAbout(f) /\ CoAbout(f) /\ f.at = "co.erase"
        /\ StacksSound /\ TalliesFinite
    BY <1>f, TopFrame DEF At
  <1>2. /\ coq' = Without(coq, j) /\ Go(t, g, calls)
        /\ UNCHANGED <<count, rlck, lockVars>>
        /\ UNCHANGED <<fns, jobVars, idx, ptrVars, suicide, deleted>>
    BY <1>1, <1>f, <1>j, <1>g, <1>c DEF release, At
  <1>3. j \in Coroutines /\ j \in Jobs
    <2>1. j \in Coroutines
      BY <1>1, <1>j DEF CoAbout, CoLabels
    <2> QED BY <2>1 DEF IInv, Given, Coroutines
  <1>4. /\ g \in FrameType /\ g.at = "co.dec" /\ g.x = f.x /\ g.lock = f.lock
        /\ g.prog = f.prog /\ g.b = f.b /\ g.pin = f.pin
    <2>1. "co.dec" \in Labels
      BY DEF Labels
    <2> QED BY <1>1, <1>g, <2>1, PlaceIs
  <1>5. /\ g \in SoundFrames /\ Follows(g, f) /\ LockAlike(f, g)
        /\ CoAlike(f, g)
    <2>1. LockAlike(f, g) /\ CoAlike(f, g)
      BY <1>1, <1>4 DEF CoAlike, LockAlike, StartLabels, HelpLabels
    <2>2. Follows(g, f)
      BY <1>1, <1>4 DEF Follows, Needs, Supports, CoLabels
    <2>3. About(g) /\ LockAbout(g) /\ CoAbout(g)
      BY <1>1, <1>4 DEF About, LockAbout, CoAbout, JobLabels, WorkqLabels,
                        CoLabels, HoldLabels, OnStackLabels
    <2> QED BY <1>4, <2>1, <2>2, <2>3 DEF SoundFrames
  <1>6. calls \in Seq(FreeFrames)
    BY <1>3, <1>c, ReleasedIsFree, NoCalls DEF Obj
  <1>7. Swapped(t, g)
    <2>1. stack' = [stack EXCEPT ![t] = calls \o <<g>> \o Tail(@)]
      BY <1>2 DEF Go
    <2>2. UNCHANGED <<fns, rlck>> /\ g \in SoundFrames'
      BY <1>2, <1>5, SoundStay
    <2> QED BY <1>1, <1>5, <1>6, <1>f, <2>1, <2>2, SoundSame, Goes DEF Swapped
  <1>8. /\ coq' \in Seq(Coroutines) /\ IsInjective(coq')
        /\ ToSet(coq') \subseteq ToSet(coq)
    BY <1>2, WithoutOne DEF IInv, DataType
  <1>9. DataType'
    BY <1>2, <1>8, CosAre DEF IInv, DataType, jobVars, lockVars, ptrVars, Lists
  <1>10. \A P \in Tallied : Tally(P)' = Tally(P)
    BY <1>1, <1>4, <1>5, <1>7, <1>f, AlikeTallies DEF Tallied
  <1>11. LocksFollow
    BY <1>2, <1>10, LocksStay DEF Tallied
  <1>12. CosFollow
    <2> SUFFICES ASSUME NEW c \in Coroutines
                 PROVE  /\ Tally(Starting(c))' = Tally(Starting(c))
                        /\ Tally(Linking(c))' + One(c \in ToSet(coq'))
                              =< Tally(Linking(c)) + One(c \in ToSet(coq))
                        /\ count'[c] - count[c] =
                              Tally(Helping(c))' - Tally(Helping(c))
      BY DEF CosFollow
    <2> DEFINE S == Starting(c)
    <2> DEFINE L == Linking(c)
    <2> DEFINE H == Helping(c)
    <2>1. S \in Tallied /\ L \in Tallied /\ H \in Tallied
      BY InCoSets DEF Tallied
    <2> HIDE DEF S, L, H
    <2>2. /\ Tally(S) \in Nat /\ Tally(L) \in Nat /\ Tally(H) \in Nat
          /\ Tally(S)' = Tally(S) /\ Tally(L)' = Tally(L)
          /\ Tally(H)' = Tally(H)
      BY <1>1, <1>10, <2>1, TallyIs
    <2>3. /\ One(c \in ToSet(coq')) =< One(c \in ToSet(coq))
          /\ One(c \in ToSet(coq')) \in Nat /\ One(c \in ToSet(coq)) \in Nat
      BY <1>8 DEF One
    <2>4. count[c] \in Int /\ count'[c] = count[c]
      BY <1>2 DEF IInv, DataType, Given, Coroutines
    <2>5. Tally(L)' + One(c \in ToSet(coq')) =< Tally(L) + One(c \in ToSet(coq))
      BY <2>2, <2>3
    <2>6. count'[c] - count[c] = Tally(H)' - Tally(H)
      BY <2>2, <2>4
    <2> QED BY <2>2, <2>5, <2>6 DEF S, L, H
  <1>13. UNCHANGED <<fns, rlck, running>>
    BY <1>2 DEF jobVars
  <1> QED BY <1>7, <1>9, <1>11, <1>12, <1>13, Follow DEF Swapped

\* The helpers of a coroutine job never bring its count to one or zero.
LEMMA CountStays ==
    ASSUME IInv, NEW t \in Threads, stack[t] # << >>,
           Top(t).at = "co.dec", NEW j, j = Top(t).x
    PROVE  j \in Coroutines /\ j \in Jobs /\ count[j] \in Int /\ count[j] > 2
  <1>1. /\ j \in Coroutines /\ Published(j) /\ Top(t) \in FrameType
        /\ StacksSound /\ TalliesFinite
    BY TopFrame DEF CoAbout, CoLabels
  <1>2. j \in Jobs /\ j \in Made /\ Len(fns[j]) > 1
    BY <1>1 DEF IInv, Given, Coroutines, IsCoroutine
  <1>3. Len(fns[j]) \in Nat
    BY <1>2, LenProperties DEF IInv, Given
  <1>4. Tally(Helping(j)) \in Nat /\ Tally(Helping(j)) > 0
    <2>1. Top(t) \in Helping(j) /\ Helping(j) \in Tallied
      BY <1>1, InCoSets DEF Helping, Tallied
    <2> QED BY <1>1, <2>1, TopCounts
  <1>5. count[j] = Len(fns[j]) + Tally(Helping(j))
    BY <1>1 DEF IInv, CoroutinesTallied
  <1> QED BY <1>1, <1>2, <1>3, <1>4, <1>5

\* release(): a helper is counted no more.
LEMMA DecKeeps ==
    ASSUME IInv, NEW t \in Threads, release(t), At(t, "co.dec")
    PROVE  IInv'
  <1>f. PICK f : f = Top(t)
    OBVIOUS
  <1>j. PICK j : j = f.x
    OBVIOUS
  <1>k. PICK k : k = [f.lock EXCEPT !.co = None]
    OBVIOUS
  <1>g. PICK g : g = [f EXCEPT !.at = "co.unlock", !.b = FALSE, !.lock = k]
    OBVIOUS
  <1>c. PICK calls : calls = Released(j)
    OBVIOUS
  <1>1. /\ stack[t] # << >> /\ f \in SoundFrames /\ f \in FrameType
        /\ About(f) /\ LockAbout(f) /\ CoAbout(f) /\ f.at = "co.dec"
        /\ StacksSound /\ TalliesFinite
    BY <1>f, TopFrame DEF At
  <1>2. /\ j \in Coroutines /\ j \in Jobs /\ count[j] \in Int /\ count[j] > 2
        /\ Published(j)
    BY <1>1, <1>f, <1>j, CountStays DEF CoAbout, CoLabels
  <1>3. /\ count' = [count EXCEPT ![j] = @ - 1] /\ Go(t, g, calls)
        /\ UNCHANGED <<coq, rlck, lockVars>>
        /\ UNCHANGED <<fns, jobVars, idx, ptrVars, suicide, deleted>>
    <2>1. /\ count' = [count EXCEPT ![j] = @ - 1]
          /\ Go(t, [f EXCEPT !.at = "co.unlock", !.b = count[j] = 1,
                             !.lock.co = None], calls)
          /\ UNCHANGED <<coq, rlck, lockVars>>
          /\ UNCHANGED <<fns, jobVars, idx, ptrVars, suicide, deleted>>
      BY <1>1, <1>f, <1>j, <1>c DEF release, At
    <2>2. (count[j] = 1) = FALSE
      BY <1>2
    <2>3. g = [f EXCEPT !.at = "co.unlock", !.b = count[j] = 1,
                        !.lock.co = None]
      BY <1>g, <1>k, <2>2
    <2> QED BY <2>1, <2>3
  <1>4. /\ k \in Locks /\ k.wq = f.lock.wq /\ k.lck = f.lock.lck
        /\ k.job = f.lock.job
    BY <1>1, <1>k, FieldsAre DEF Locks
  <1>5. /\ g \in FrameType /\ g.at = "co.unlock" /\ g.x = f.x /\ g.lock = k
        /\ g.prog = f.prog /\ g.b = FALSE /\ g.pin = f.pin
    BY <1>1, <1>4, <1>g DEF FrameType, Labels
  <1>6. g \in SoundFrames /\ Follows(g, f) /\ LockAlike(f, g)
    <2>1. LockAlike(f, g)
      BY <1>1, <1>4, <1>5 DEF LockAlike
    <2>2. Follows(g, f)
      BY <1>1, <1>5 DEF Follows, Needs, Supports, CoLabels
    <2>3. About(g) /\ LockAbout(g) /\ CoAbout(g)
      BY <1>1, <1>4, <1>5
         DEF About, LockAbout, CoAbout, JobLabels, WorkqLabels, CoLabels,
             HoldLabels, OnStackLabels
    <2> QED BY <1>5, <2>1, <2>2, <2>3 DEF SoundFrames
  <1>7. calls \in Seq(FreeFrames)
    BY <1>2, <1>c, ReleasedIsFree DEF Obj
  <1>8. Swapped(t, g)
    <2>1. stack' = [stack EXCEPT ![t] = calls \o <<g>> \o Tail(@)]
      BY <1>3 DEF Go
    <2>2. UNCHANGED <<fns, rlck>> /\ g \in SoundFrames'
      BY <1>3, <1>6, SoundStay
    <2> QED BY <1>1, <1>6, <1>7, <1>f, <2>1, <2>2, SoundSame, Goes DEF Swapped
  <1>9. DataType'
    <2>1. /\ count' \in [Jobs -> Int]
          /\ \A c \in Jobs \ Coroutines : count'[c] = 0
      BY <1>2, <1>3 DEF IInv, DataType
    <2> QED BY <1>3, <2>1, CosAre
            DEF IInv, DataType, jobVars, lockVars, ptrVars, Lists
  <1>10. LocksFollow
    BY <1>1, <1>3, <1>5, <1>6, <1>8, <1>f, AlikeTallies, LocksStay
  <1>11. CosFollow
    <2> SUFFICES ASSUME NEW c \in Coroutines
                 PROVE  /\ Tally(Starting(c))' = Tally(Starting(c))
                        /\ Tally(Linking(c))' + One(c \in ToSet(coq'))
                              =< Tally(Linking(c)) + One(c \in ToSet(coq))
                        /\ count'[c] - count[c] =
                              Tally(Helping(c))' - Tally(Helping(c))
      BY DEF CosFollow
    <2> DEFINE S == Starting(c)
    <2> DEFINE L == Linking(c)
    <2> DEFINE H == Helping(c)
    <2>1. S \in Tallied /\ L \in Tallied /\ H \in Tallied
      BY InCoSets DEF Tallied
    <2>2. /\ One(g \in S) = 0 /\ One(g \in L) = 0 /\ One(g \in H) = 0
          /\ One(f \in S) = 0 /\ One(f \in L) = 0 /\ One(f \in H) = One(c = j)
      BY <1>1, <1>5, <1>j DEF One, Starting, Linking, Helping
    <2> HIDE DEF S, L, H
    <2>3. /\ Tally(S) \in Nat /\ Tally(L) \in Nat /\ Tally(H) \in Nat
          /\ One(c = j) \in Nat
      BY <1>1, <2>1, TallyIs DEF One
    <2>4. /\ Tally(S)' = Tally(S) /\ Tally(L)' = Tally(L)
          /\ Tally(H)' = Tally(H) - One(c = j)
      BY <1>8, <1>f, <2>1, <2>2, <2>3 DEF Swapped
    <2>5. /\ count[c] \in Int /\ count'[c] = count[c] - One(c = j)
          /\ One(c \in ToSet(coq)) \in Nat
      <3>1. c \in Jobs /\ count \in [Jobs -> Int]
        BY DEF IInv, DataType, Given, Coroutines
      <3> QED BY <1>3, <3>1 DEF One
    <2>6. Tally(L)' + One(c \in ToSet(coq')) =< Tally(L) + One(c \in ToSet(coq))
      BY <1>3, <2>3, <2>4, <2>5
    <2>7. count'[c] - count[c] = Tally(H)' - Tally(H)
      BY <2>3, <2>4, <2>5
    <2> QED BY <2>4, <2>6, <2>7 DEF S, L, H
  <1>12. UNCHANGED <<fns, rlck, running>>
    BY <1>3 DEF jobVars
  <1> QED BY <1>8, <1>9, <1>10, <1>11, <1>12, Follow DEF Swapped

\* release(): the helper gives up the lock that it was given by aid().
LEMMA CoUnlockKeeps ==
    ASSUME IInv, NEW t \in Threads, release(t), At(t, "co.unlock")
    PROVE  IInv'
  <1>f. PICK f : f = Top(t)
    OBVIOUS
  <1>k. PICK k : k = NoLock
    OBVIOUS
  <1>g. PICK g : g = [f EXCEPT !.at = "co.next", !.lock = k]
    OBVIOUS
  <1>c. PICK calls : calls = Released(f.lock.wq)
    OBVIOUS
  <1>1. /\ stack[t] # << >> /\ f \in SoundFrames /\ f \in FrameType
        /\ About(f) /\ LockAbout(f) /\ CoAbout(f) /\ f.at = "co.unlock"
        /\ StacksSound /\ TalliesFinite
    BY <1>f, TopFrame DEF At
  <1>2. /\ IF f.lock.wq = None THEN UNCHANGED lockVars
           ELSE unlock_run(f.lock.wq, f.lock.lck)
        /\ Go(t, g, calls) /\ UNCHANGED <<coq, count, rlck>>
        /\ UNCHANGED <<fns, jobVars, idx, ptrVars, suicide, deleted>>
    <2>1. f.b = FALSE
      BY <1>1, FieldsAre DEF CoAbout
    <2> QED BY <1>1, <1>f, <1>g, <1>k, <1>c, <2>1 DEF release, At
  <1>3. k \in Locks /\ k.wq = None /\ k.job = None
    BY <1>k DEF NoLock, Locks
  <1>4. /\ g \in FrameType /\ g.at = "co.next" /\ g.x = f.x /\ g.lock = k
        /\ g.prog = f.prog /\ g.b = f.b /\ g.pin = f.pin
    BY <1>1, <1>3, <1>g DEF FrameType, Labels
  <1>5. g \in SoundFrames /\ Follows(g, f) /\ CoAlike(f, g)
    <2>1. CoAlike(f, g)
      BY <1>1, <1>4 DEF CoAlike, StartLabels, HelpLabels
    <2>2. Follows(g, f)
      BY <1>1, <1>4 DEF Follows, Needs, Supports, CoLabels
    <2>3. About(g) /\ LockAbout(g) /\ CoAbout(g)
      BY <1>1, <1>3, <1>4
         DEF About, LockAbout, CoAbout, JobLabels, WorkqLabels, CoLabels,
             HoldLabels, OnStackLabels
    <2> QED BY <1>4, <2>1, <2>2, <2>3 DEF SoundFrames
  <1>6. calls \in Seq(FreeFrames)
    <2>1. f.lock.wq \in Obj \cup {None}
      BY <1>1, FieldsAre DEF Obj
    <2> QED BY <1>c, <2>1, ReleasedIsFree
  <1>7. Swapped(t, g)
    <2>1. stack' = [stack EXCEPT ![t] = calls \o <<g>> \o Tail(@)]
      BY <1>2 DEF Go
    <2>2. UNCHANGED <<fns, rlck>> /\ g \in SoundFrames'
      BY <1>2, <1>5, SoundStay
    <2> QED BY <1>1, <1>5, <1>6, <1>f, <2>1, <2>2, SoundSame, Goes DEF Swapped
  <1>8. f.at # "sw.undo" /\ g.at # "sw.undo" /\ g.lock.wq = None
    BY <1>1, <1>3, <1>4
  <1>9. UNCHANGED <<fns, jobVars, coVars, ptrVars, suicide, deleted>>
    BY <1>2 DEF coVars
  <1> QED BY <1>1, <1>2, <1>4, <1>5, <1>7, <1>8, <1>9, <1>f, GivesUp

LEMMA releaseKeeps ==
    ASSUME IInv, NEW t \in Threads, release(t)
    PROVE  IInv'
  <1>1. \/ At(t, "co.erase") \/ At(t, "co.dec") \/ At(t, "co.unlock")
        \/ At(t, "co.store")
    BY DEF release
  <1>2. ~At(t, "co.store")
    BY TopFrame DEF CoAbout, At
  <1> QED BY <1>1, <1>2, EraseKeeps, DecKeeps, CoUnlockKeeps

-----------------------------------------------------------------------------
(* The functions of a coroutine job, and aid().                            *)

\* How the sequences of a step are put together.
LEMMA TwoOnto ==
    ASSUME NEW T, NEW a \in Seq(T), NEW g \in T, NEW h \in T, NEW r \in Seq(T)
    PROVE  /\ (a \o <<g, h>>) \o r = a \o (<<g>> \o (<<h>> \o r))
           /\ (a \o <<g>>) \o r = a \o (<<g>> \o r)
           /\ << >> \o a = a
  <1> DEFINE b == <<g>>
  <1> DEFINE c == <<h>>
  <1>2. b \in Seq(T) /\ c \in Seq(T)
    OBVIOUS
  <1>1. <<g, h>> = b \o c
    <2> DEFINE d == b \o c
    <2>1. Len(b) = 1 /\ b[1] = g /\ Len(c) = 1 /\ c[1] = h
      OBVIOUS
    <2>2. /\ d \in Seq(T) /\ Len(d) = Len(b) + Len(c)
          /\ \A i \in 1 .. Len(b) + Len(c) :
                d[i] = IF i <= Len(b) THEN b[i] ELSE c[i - Len(b)]
      BY <1>2, ConcatProperties
    <2> HIDE DEF b, c, d
    <2>3. Len(d) = 2 /\ d[1] = g /\ d[2] = h
      BY <2>1, <2>2
    <2>4. /\ <<g, h>> \in Seq(T) /\ Len(<<g, h>>) = 2
          /\ \A i \in 1 .. 2 : <<g, h>>[i] = d[i]
      BY <2>3
    <2>5. <<g, h>> = d
      BY <2>2, <2>3, <2>4, SeqEqual
    <2> QED BY <2>5 DEF d
  <1> HIDE DEF b, c
  <1>3. c \o r \in Seq(T) /\ b \o c \in Seq(T)
    BY <1>2, ConcatProperties
  <1>4. (a \o (b \o c)) \o r = a \o ((b \o c) \o r)
    BY <1>3, ConcatAssociative
  <1>5. (b \o c) \o r = b \o (c \o r)
    BY <1>2, ConcatAssociative
  <1>6. (a \o b) \o r = a \o (b \o r)
    BY <1>2, ConcatAssociative
  <1>7. << >> \o a = a
    BY ConcatEmptySeq
  <1> QED BY <1>1, <1>4, <1>5, <1>6, <1>7 DEF b, c

\* The two top frames become g on h, which count for the same.
LEMMA QuietPair ==
    ASSUME IInv, UNCHANGED <<fns, lockVars, rlck, count, coq>>,
           \A c \in Coroutines : running'[c] = running[c], DataType',
           NEW t \in Threads, NEW g \in SoundFrames, NEW h \in SoundFrames,
           NEW calls, PairTo(t, g, h, calls),
           LockAlike(Top(t), g), CoAlike(Top(t), g),
           LockAlike(stack[t][2], h), CoAlike(stack[t][2], h)
    PROVE  IInv'
  <1> DEFINE f == Top(t)
  <1> DEFINE e == stack[t][2]
  <1>1. /\ f \in FrameType /\ g \in FrameType /\ h \in FrameType
        /\ e \in FrameType /\ StacksSound /\ TalliesFinite
    BY TopFrame, TwoAre, SoundIs DEF PairTo
  <1>2. /\ StacksStep
        /\ \A P \in Tallied :
              Tally(P)' = ((Tally(P) + One(g \in P)) + One(h \in P))
                          - (One(f \in P) + One(e \in P))
    BY <1>1, SoundSame, PairGoes
  <1> HIDE DEF f, e
  <1>3. ASSUME NEW P \in Tallied PROVE Tally(P)' = Tally(P)
    <2>1. (g \in P <=> f \in P) /\ (h \in P <=> e \in P)
      BY <1>1, LockAlikeCounts, CoAlikeCounts DEF Tallied, f, e
    <2>2. /\ One(g \in P) = One(f \in P) /\ One(f \in P) \in Nat
          /\ One(h \in P) = One(e \in P) /\ One(e \in P) \in Nat
      BY <2>1 DEF One
    <2>3. Tally(P) \in Nat
      BY <1>1, TallyIs
    <2> QED BY <1>2, <2>2, <2>3
  <1> QED BY <1>2, <1>3, Quiet

\* What helpers stand on: aid() of the service.
LEMMA HelperStands ==
    ASSUME IInv, NEW t \in Threads, stack[t] # << >>, Top(t).at \in CoLabels
    PROVE  /\ stack[t][2] \in SoundFrames /\ stack[t][2] \in FrameType
           /\ stack[t][2].at = "aid.co" /\ Needs(Top(t))
           /\ Top(t).at = "co.fetch" /\ ~Top(t).b => stack[t][2].left > 0
           /\ stack[t][2].lock.wq = None
           /\ About(stack[t][2]) /\ LockAbout(stack[t][2])
           /\ CoAbout(stack[t][2])
           /\ Tail(Tail(stack[t])) \in Seq(SoundFrames)
  <1>1. Needs(Top(t)) /\ StacksSound
    BY TopFrame DEF Needs
  <1>2. /\ stack[t][2] \in SoundFrames /\ Supports(Top(t), stack[t][2])
        /\ Tail(Tail(stack[t])) \in Seq(SoundFrames)
    BY <1>1, TwoAre
  <1>3. /\ stack[t][2] \in FrameType /\ About(stack[t][2])
        /\ LockAbout(stack[t][2]) /\ CoAbout(stack[t][2])
    BY <1>2, SoundIs
  <1>4. stack[t][2].at = "aid.co"
    BY <1>2 DEF Supports
  <1>5. stack[t][2].lock.wq = None
    BY <1>3, <1>4 DEF LockAbout, HoldLabels, OnStackLabels
  <1> QED BY <1>1, <1>2, <1>3, <1>4, <1>5 DEF Supports

\* co_run(): there is a function to run.
LEMMA FetchKeeps ==
    ASSUME IInv, NEW t \in Threads, co_run(t),
           idx[Top(t).x] < Len(fns[Top(t).x])
    PROVE  IInv'
  <1>f. PICK f : f = Top(t)
    OBVIOUS
  <1>e. PICK e : e = stack[t][2]
    OBVIOUS
  <1>j. PICK j : j = f.x
    OBVIOUS
  <1>p. PICK p : p = fns[j][idx[j] + 1]
    OBVIOUS
  <1>g. PICK g : g = [f EXCEPT !.at = "co.fn", !.b = TRUE, !.prog = p]
    OBVIOUS
  <1>h. PICK h : h = IF f.b THEN e ELSE [e EXCEPT !.left = @ - 1]
    OBVIOUS
  <1>1. /\ stack[t] # << >> /\ f \in SoundFrames /\ f \in FrameType
        /\ About(f) /\ LockAbout(f) /\ CoAbout(f) /\ f.at = "co.fetch"
        /\ StacksSound /\ TalliesFinite
    BY <1>f, TopFrame DEF At, co_run
  <1>2. /\ idx' = [idx EXCEPT ![j] = @ + 1]
        /\ stack' = [stack EXCEPT ![t] = <<g, h>> \o Tail(Tail(@))]
        /\ UNCHANGED <<fns, jobVars, lockVars, rlck, count, coq, ptrVars,
                       suicide, deleted>>
    <2> DEFINE n == IF f.b THEN Under(t)
                    ELSE [Under(t) EXCEPT !.left = @ - 1]
    <2>1. stack' = [stack EXCEPT ![t] = <<g, n>> \o Tail(Tail(@))]
      BY <1>f, <1>j, <1>p, <1>g DEF co_run
    <2>2. n = h
      BY <1>e, <1>h DEF Under
    <2> HIDE DEF n
    <2>3. stack' = [stack EXCEPT ![t] = <<g, h>> \o Tail(Tail(@))]
      BY <2>1, <2>2
    <2> QED BY <1>f, <1>j, <2>3 DEF co_run
  <1>3. /\ e \in SoundFrames /\ e \in FrameType /\ e.at = "aid.co" /\ Needs(f)
        /\ ~f.b => e.left > 0
        /\ e.lock.wq = None /\ About(e) /\ LockAbout(e) /\ CoAbout(e)
        /\ Tail(Tail(stack[t])) \in Seq(SoundFrames)
    BY <1>1, <1>f, <1>e, HelperStands DEF CoLabels
  <1>4. /\ j \in Coroutines /\ Published(j) /\ j \in Jobs /\ j \in Made
        /\ idx[j] \in Nat /\ idx[j] < Len(fns[j])
    <2>1. j \in Coroutines /\ Published(j)
      BY <1>1, <1>j DEF CoAbout, CoLabels
    <2>2. j \in Jobs /\ j \in Made
      BY <2>1 DEF IInv, Given, Coroutines
    <2> QED BY <1>f, <1>j, <2>1, <2>2 DEF IInv, DataType
  <1>5. p \in Seq(CallsOn(Made)) /\ p \in Seq(Call)
    <2>1. fns[j] \in Seq(Seq(CallsOn(Made)))
      BY <1>4 DEF IInv, Given
    <2>2. Len(fns[j]) \in Nat /\ DOMAIN fns[j] = 1 .. Len(fns[j])
      BY <2>1, LenProperties
    <2>3. idx[j] + 1 \in 1 .. Len(fns[j])
      BY <1>4, <2>2
    <2>4. p \in Seq(CallsOn(Made))
      BY <1>p, <2>1, <2>2, <2>3, ElementOfSeq
    <2>5. CallsOn(Made) \subseteq Call
      BY DEF CallsOn
    <2> QED BY <2>4, <2>5, SeqMonotonic
  <1>6. /\ g \in FrameType /\ g.at = "co.fn" /\ g.x = f.x /\ g.lock = f.lock
        /\ g.prog = p /\ g.b = TRUE /\ g.pin = f.pin
    BY <1>1, <1>5, <1>g DEF FrameType, Labels
  <1>7. g \in SoundFrames /\ LockAlike(f, g) /\ CoAlike(f, g)
    <2>1. LockAlike(f, g) /\ CoAlike(f, g)
      BY <1>1, <1>6 DEF CoAlike, LockAlike, StartLabels, HelpLabels
    <2>2. About(g) /\ LockAbout(g) /\ CoAbout(g)
      BY <1>1, <1>5, <1>6
         DEF About, LockAbout, CoAbout, JobLabels, WorkqLabels, CoLabels,
             HoldLabels, OnStackLabels
    <2> QED BY <1>6, <2>1, <2>2 DEF SoundFrames
  <1>8. /\ h \in FrameType /\ h.at = "aid.co" /\ h.x = e.x /\ h.lock = e.lock
        /\ h.prog = e.prog /\ h.b = e.b /\ h.pin = e.pin
    <2>1. CASE f.b
      BY <1>3, <1>h, <2>1
    <2>2. CASE ~f.b
      <3>1. e.left \in Nat /\ e.left > 0
        BY <1>3, <2>2, FieldsAre
      <3>2. e.left - 1 \in Nat
        BY <3>1
      <3> QED BY <1>3, <1>h, <2>2, <3>2 DEF FrameType
    <2> QED BY <2>1, <2>2
  <1>9. h \in SoundFrames /\ LockAlike(e, h) /\ CoAlike(e, h)
    <2>1. LockAlike(e, h) /\ CoAlike(e, h)
      BY <1>3, <1>8 DEF CoAlike, LockAlike, StartLabels, HelpLabels
    <2>2. About(h) /\ LockAbout(h) /\ CoAbout(h)
      BY <1>3, <1>8
         DEF About, LockAbout, CoAbout, JobLabels, WorkqLabels, CoLabels,
             HoldLabels, OnStackLabels
    <2> QED BY <1>8, <2>1, <2>2 DEF SoundFrames
  <1>10. Supports(g, h) /\ Follows(h, e)
    BY <1>6, <1>8 DEF Supports, Follows, Needs, CoLabels
  <1>11. PairTo(t, g, h, << >>)
    <2>1. SoundFrames \subseteq SoundFrames'
      BY <1>2, SoundSame
    <2> DEFINE r == Tail(Tail(stack[t]))
    <2>2. <<g, h>> \o r = << >> \o (<<g>> \o (<<h>> \o r))
      <3>1. << >> \in Seq(SoundFrames) /\ r \in Seq(SoundFrames)
        BY <1>3
      <3>2. << >> \o <<g, h>> = <<g, h>>
        <4>1. <<g, h>> \in Seq(SoundFrames)
          BY <1>7, <1>9
        <4> QED BY <4>1, ConcatEmptySeq
      <3> HIDE DEF r
      <3> QED BY <1>7, <1>9, <3>1, <3>2, TwoOnto
    <2>3. stack' = [stack EXCEPT ![t] =
                      << >> \o (<<g>> \o (<<h>> \o Tail(Tail(@))))]
      BY <1>1, <1>2, <2>2 DEF StacksSound
    <2> QED BY <1>1, <1>3, <1>7, <1>9, <1>10, <1>f, <1>e, <2>1, <2>3, NoCalls
            DEF PairTo
  <1>12. DataType'
    <2>1. idx' \in [Jobs -> Nat]
      BY <1>2, <1>4 DEF IInv, DataType
    <2> QED BY <1>2, <2>1, CosAre
            DEF IInv, DataType, jobVars, lockVars, ptrVars, Lists
  <1>13. running' = running
    BY <1>2 DEF jobVars
  <1> QED BY <1>2, <1>7, <1>9, <1>11, <1>12, <1>13, <1>f, <1>e, QuietPair

LEMMA co_runKeeps ==
    ASSUME IInv, NEW t \in Threads, co_run(t)
    PROVE  IInv'
  <1>f. PICK f : f = Top(t)
    OBVIOUS
  <1>j. PICK j : j = f.x
    OBVIOUS
  <1>g. PICK g : g = [f EXCEPT !.at = "co.erase"]
    OBVIOUS
  <1> SUFFICES ASSUME ~(idx[j] < Len(fns[j]))
               PROVE  IInv'
    BY <1>f, <1>j, FetchKeeps
  <1>1. /\ stack[t] # << >> /\ f \in SoundFrames /\ f \in FrameType
        /\ About(f) /\ LockAbout(f) /\ CoAbout(f) /\ f.at = "co.fetch"
    BY <1>f, TopFrame DEF At, co_run
  <1>2. /\ idx' = [idx EXCEPT ![j] = @ + 1] /\ Go(t, g, << >>)
        /\ UNCHANGED <<fns, jobVars, lockVars, rlck, count, coq, ptrVars,
                       suicide, deleted>>
    BY <1>f, <1>j, <1>g DEF co_run, Goto
  <1>3. j \in Coroutines /\ j \in Jobs
    <2>1. j \in Coroutines
      BY <1>1, <1>j DEF CoAbout, CoLabels
    <2> QED BY <2>1 DEF IInv, Given, Coroutines
  <1>4. /\ g \in FrameType /\ g.at = "co.erase" /\ g.x = f.x /\ g.lock = f.lock
        /\ g.prog = f.prog /\ g.b = f.b /\ g.pin = f.pin
    <2>1. "co.erase" \in Labels
      BY DEF Labels
    <2> QED BY <1>1, <1>g, <2>1, PlaceIs
  <1>5. /\ g \in SoundFrames /\ Follows(g, f) /\ LockAlike(f, g)
        /\ CoAlike(f, g)
    <2>1. LockAlike(f, g) /\ CoAlike(f, g)
      BY <1>1, <1>4 DEF CoAlike, LockAlike, StartLabels, HelpLabels
    <2>2. Follows(g, f)
      BY <1>1, <1>4 DEF Follows, Needs, Supports, CoLabels
    <2>3. About(g) /\ LockAbout(g) /\ CoAbout(g)
      BY <1>1, <1>4 DEF About, LockAbout, CoAbout, JobLabels, WorkqLabels,
                        CoLabels, HoldLabels, OnStackLabels
    <2> QED BY <1>4, <2>1, <2>2, <2>3 DEF SoundFrames
  <1>6. DataType'
    <2>1. idx' \in [Jobs -> Nat]
      BY <1>2, <1>3 DEF IInv, DataType
    <2> QED BY <1>2, <2>1, CosAre
            DEF IInv, DataType, jobVars, lockVars, ptrVars, Lists
  <1>7. running' = running
    BY <1>2 DEF jobVars
  <1> QED BY <1>1, <1>2, <1>5, <1>6, <1>7, <1>f, NoCalls, QuietGo

\* ++co in aid().
LEMMA AidNextKeeps ==
    ASSUME IInv, NEW t \in Threads, AidNext(t)
    PROVE  IInv'
  <1>f. PICK f : f = Top(t)
    OBVIOUS
  <1>e. PICK e : e = stack[t][2]
    OBVIOUS
  <1>j. PICK j : j = f.x
    OBVIOUS
  <1>g. PICK g : g = [f EXCEPT !.at = "ul.job"]
    OBVIOUS
  <1>c. PICK calls : calls = Released(j)
    OBVIOUS
  <1>n. PICK n \in ToSet(coq) \cup {None} :
           stack' = [stack EXCEPT ![t] =
              calls \o <<g, [e EXCEPT !.pin = n]>> \o Tail(Tail(@))]
    BY <1>f, <1>e, <1>j, <1>g, <1>c DEF AidNext, Under
  <1>h. PICK h : h = [e EXCEPT !.pin = n]
    OBVIOUS
  <1>1. /\ stack[t] # << >> /\ f \in SoundFrames /\ f \in FrameType
        /\ About(f) /\ LockAbout(f) /\ CoAbout(f) /\ f.at = "co.next"
        /\ StacksSound /\ TalliesFinite
    BY <1>f, TopFrame DEF At, AidNext
  <1>2. Only
    BY DEF AidNext, Only
  <1>3. /\ e \in SoundFrames /\ e \in FrameType /\ e.at = "aid.co" /\ Needs(f)
        /\ e.lock.wq = None /\ About(e) /\ LockAbout(e) /\ CoAbout(e)
        /\ Tail(Tail(stack[t])) \in Seq(SoundFrames)
    BY <1>1, <1>f, <1>e, HelperStands DEF CoLabels
  <1>4. j \in Coroutines /\ j \in Jobs
    <2>1. j \in Coroutines
      BY <1>1, <1>j DEF CoAbout, CoLabels
    <2> QED BY <2>1 DEF IInv, Given, Coroutines
  <1>5. /\ g \in FrameType /\ g.at = "ul.job" /\ g.x = f.x /\ g.lock = f.lock
        /\ g.prog = f.prog /\ g.b = f.b /\ g.pin = f.pin
    <2>1. "ul.job" \in Labels
      BY DEF Labels
    <2> QED BY <1>1, <1>g, <2>1, PlaceIs
  <1>6. /\ g \in SoundFrames /\ LockAlike(f, g) /\ CoAlike(f, g)
        /\ ~Needs(g)
    <2>1. LockAlike(f, g) /\ CoAlike(f, g)
      BY <1>1, <1>5 DEF CoAlike, LockAlike, StartLabels, HelpLabels
    <2>2. About(g) /\ LockAbout(g) /\ CoAbout(g)
      BY <1>1, <1>5 DEF About, LockAbout, CoAbout, JobLabels, WorkqLabels,
                        CoLabels, HoldLabels, OnStackLabels
    <2>3. ~Needs(g)
      BY <1>5 DEF Needs, CoLabels
    <2> QED BY <1>5, <2>1, <2>2, <2>3 DEF SoundFrames
  <1>7. /\ n \in Obj \cup {None}
        /\ n # None => n \in Coroutines /\ Published(n)
    BY LinkedIs DEF Obj
  <1>8. /\ h \in FrameType /\ h.at = "aid.co" /\ h.x = e.x /\ h.lock = e.lock
        /\ h.prog = e.prog /\ h.b = e.b /\ h.pin = n
    BY <1>3, <1>7, <1>h DEF FrameType
  <1>9. /\ h \in SoundFrames /\ LockAlike(e, h) /\ CoAlike(e, h)
        /\ Follows(h, e)
    <2>1. LockAlike(e, h) /\ CoAlike(e, h)
      BY <1>3, <1>8 DEF CoAlike, LockAlike, StartLabels, HelpLabels
    <2>2. About(h) /\ LockAbout(h) /\ CoAbout(h)
      BY <1>3, <1>7, <1>8
         DEF About, LockAbout, CoAbout, JobLabels, WorkqLabels, CoLabels,
             HoldLabels, OnStackLabels
    <2>3. Follows(h, e)
      BY <1>8 DEF Follows, Needs, CoLabels
    <2> QED BY <1>8, <2>1, <2>2, <2>3 DEF SoundFrames
  <1>10. calls \in Seq(FreeFrames)
    BY <1>4, <1>c, ReleasedIsFree DEF Obj
  <1>11. PairTo(t, g, h, calls)
    <2>1. SoundFrames \subseteq SoundFrames'
      BY <1>2, DataSame, SoundSame
    <2> DEFINE r == Tail(Tail(stack[t]))
    <2>2. (calls \o <<g, h>>) \o r = calls \o (<<g>> \o (<<h>> \o r))
      <3>1. calls \in Seq(SoundFrames) /\ r \in Seq(SoundFrames)
        <4>1. FreeFrames \subseteq SoundFrames
          BY DEF FreeFrames
        <4> QED BY <1>3, <1>10, <4>1, SeqMonotonic
      <3> HIDE DEF r
      <3> QED BY <1>6, <1>9, <3>1, TwoOnto
    <2>3. stack' = [stack EXCEPT ![t] =
                      calls \o (<<g>> \o (<<h>> \o Tail(Tail(@))))]
      BY <1>n, <1>h, <2>2
    <2> QED BY <1>1, <1>3, <1>6, <1>9, <1>10, <1>f, <1>e, <2>1, <2>3
            DEF PairTo
  <1> QED BY <1>2, <1>6, <1>9, <1>11, <1>f, <1>e, DataSame, QuietPair

\* A helper of coroutine job j, as aid() pushes it.
Helper(j) ==
    [Frame("co.fetch", j) EXCEPT !.lock = Lock(WorkqOf[j], "PARALLEL", None, j)]

LEMMA HelperIs ==
    ASSUME IInv, NEW j \in Coroutines, Published(j)
    PROVE  /\ Helper(j) \in SoundFrames /\ Helper(j).at = "co.fetch"
           /\ Helper(j).x = j /\ Helper(j).lock.wq = WorkqOf[j]
           /\ Helper(j).lock.lck = "PARALLEL" /\ Helper(j) \in FrameType
           /\ \A g : g.at = "aid.co" /\ g.left > 0 => Supports(Helper(j), g)
  <1> DEFINE e == Frame("co.fetch", j)
  <1> DEFINE k == Lock(WorkqOf[j], "PARALLEL", None, j)
  <1> DEFINE h == [e EXCEPT !.lock = k]
  <1>1. j \in Made /\ j \in Jobs /\ WorkqOf[j] \in Workqs /\ j \in Obj
    BY MadeAre DEF Coroutines
  <1>2. /\ e \in FrameType /\ e.at = "co.fetch" /\ e.x = j /\ e.prog = << >>
        /\ e.pin = None /\ e.b = FALSE
    <2>1. "co.fetch" \in Labels /\ j \in Obj \cup {None}
      BY <1>1 DEF Labels
    <2> QED BY <2>1, FrameIs
  <1>3. /\ k \in Locks /\ k.wq = WorkqOf[j] /\ k.lck = "PARALLEL"
        /\ k.job = None
    BY <1>1 DEF Lock, Locks
  <1> HIDE DEF e, k
  <1>4. /\ h \in FrameType /\ h.at = "co.fetch" /\ h.x = j /\ h.prog = << >>
        /\ h.lock = k /\ h.pin = None /\ h.b = FALSE
    BY <1>2, <1>3 DEF FrameType
  <1> HIDE DEF h
  <1>5. << >> \in Seq(CallsOn(Made))
    OBVIOUS
  <1>6. About(h) /\ LockAbout(h) /\ CoAbout(h)
    BY <1>3, <1>4, <1>5 DEF About, LockAbout, CoAbout, JobLabels, WorkqLabels,
                            HoldLabels, OnStackLabels
  <1>7. \A g : g.at = "aid.co" /\ g.left > 0 => Supports(h, g)
    BY <1>4 DEF Supports
  <1>8. h \in SoundFrames /\ h = Helper(j)
    BY <1>4, <1>6 DEF SoundFrames, Helper, h, e, k
  <1> QED BY <1>3, <1>4, <1>7, <1>8

\* aid() runs functions of a coroutine job: it takes a run-parallel lock.
LEMMA AidHelps ==
    ASSUME IInv, NEW t \in Threads, AidCo(t), At(t, "aid.co"),
           Top(t).pin # None, Top(t).left > 0
    PROVE  IInv'
  <1>f. PICK f : f = Top(t)
    OBVIOUS
  <1>j. PICK j : j = f.pin
    OBVIOUS
  <1>h. PICK h : h = Helper(j)
    OBVIOUS
  <1>v. PICK v : v = WorkqOf[j]
    OBVIOUS
  <1>1. /\ stack[t] # << >> /\ f \in SoundFrames /\ f \in FrameType
        /\ About(f) /\ LockAbout(f) /\ CoAbout(f) /\ f.at = "aid.co"
        /\ StacksSound /\ TalliesFinite
    BY <1>f, TopFrame DEF At
  <1>2. /\ count' = [count EXCEPT ![j] = @ + 1]
        /\ parallel' = [parallel EXCEPT ![v] = @ + 1]
        /\ Go(t, f, <<h>>)
        /\ UNCHANGED <<fns, jobVars, single, rlck, idx, coq, ptrVars,
                       suicide, deleted>>
    BY <1>1, <1>f, <1>j, <1>h, <1>v DEF AidCo, At, Helper
  <1>3. /\ j \in Coroutines /\ Published(j) /\ j \in Made /\ j \in Jobs
        /\ v \in Workqs
    <2>1. j \in Coroutines /\ Published(j)
      BY <1>1, <1>f, <1>j DEF CoAbout
    <2> QED BY <1>v, <2>1, MadeAre DEF Coroutines
  <1>4. /\ h \in SoundFrames /\ h.at = "co.fetch" /\ h.x = j /\ h.lock.wq = v
        /\ h.lock.lck = "PARALLEL" /\ h \in FrameType /\ Supports(h, f)
    BY <1>1, <1>3, <1>h, <1>v, <1>f, HelperIs
  <1>5. GoesTo(t, f, h, << >>)
    <2>1. SoundFrames \subseteq SoundFrames'
      BY <1>2, SoundSame
    <2> DEFINE r == Tail(stack[t])
    <2>2. (<<h>> \o <<f>>) \o r = << >> \o (<<h>> \o (<<f>> \o r))
      <3>1. r \in Seq(SoundFrames)
        BY <1>1, <1>f, TopIs
      <3>2. <<h>> \in Seq(SoundFrames)
        BY <1>4
      <3> HIDE DEF r
      <3>3. (<<h>> \o <<f>>) \o r = <<h>> \o (<<f>> \o r)
        BY <1>1, <3>1, <3>2, TwoOnto
      <3>4. <<h>> \o (<<f>> \o r) \in Seq(SoundFrames)
        BY <1>1, <3>1, <3>2, ConcatProperties
      <3>5. << >> \o (<<h>> \o (<<f>> \o r)) = <<h>> \o (<<f>> \o r)
        BY <3>4, ConcatEmptySeq
      <3> QED BY <3>3, <3>5
    <2>3. stack' = [stack EXCEPT ![t] = << >> \o (<<h>> \o (<<f>> \o Tail(@)))]
      BY <1>2, <2>2 DEF Go
    <2>4. Follows(f, f)
      BY DEF Follows
    <2> QED BY <1>1, <1>4, <1>f, <2>1, <2>3, <2>4, NoCalls DEF GoesTo
  <1>6. /\ StacksStep
        /\ \A P \in Tallied :
              Tally(P)' = ((Tally(P) + One(f \in P)) + One(h \in P))
                          - One(f \in P)
    <2>1. UNCHANGED <<fns, rlck>>
      BY <1>2
    <2> QED BY <1>1, <1>5, <1>f, <2>1, SoundSame, GoesUnder
  <1>7. \A P \in Tallied : /\ Tally(P) \in Nat
                           /\ Tally(P)' = Tally(P) + One(h \in P)
    <2> SUFFICES ASSUME NEW P \in Tallied
                 PROVE  /\ Tally(P) \in Nat
                        /\ Tally(P)' = Tally(P) + One(h \in P)
      OBVIOUS
    <2>1. /\ Tally(P) \in Nat /\ One(f \in P) \in Nat /\ One(h \in P) \in Nat
          /\ Tally(P)' = ((Tally(P) + One(f \in P)) + One(h \in P))
                         - One(f \in P)
      BY <1>1, <1>6, TallyIs DEF One
    <2> QED BY <2>1
  <1>8. DataType'
    <2>1. /\ count' \in [Jobs -> Int] /\ parallel' \in [Workqs -> Int]
          /\ \A c \in Jobs \ Coroutines : count'[c] = 0
      BY <1>2, <1>3 DEF IInv, DataType
    <2> QED BY <1>2, <2>1, CosAre DEF IInv, DataType, jobVars, ptrVars, Lists
  <1>9. LocksFollow
    <2> SUFFICES ASSUME NEW w \in Workqs
                 PROVE  /\ One(single'[w]) - One(single[w]) =
                              Tally(Holding(w, "SINGLE"))'
                              - Tally(Holding(w, "SINGLE"))
                        /\ parallel'[w] - parallel[w] =
                              (Tally(Holding(w, "PARALLEL"))'
                                 - Tally(Holding(w, "PARALLEL")))
                              + (Tally(Restoring(w))' - Tally(Restoring(w)))
      BY DEF LocksFollow
    <2> DEFINE S == Holding(w, "SINGLE")
    <2> DEFINE Q == Holding(w, "PARALLEL")
    <2> DEFINE R == Restoring(w)
    <2>1. S \in Tallied /\ Q \in Tallied /\ R \in Tallied
      BY InLockSets DEF Tallied
    <2>2. /\ One(h \in S) = 0 /\ One(h \in Q) = One(w = v) /\ One(h \in R) = 0
          /\ One(w = v) \in Nat
      BY <1>4 DEF One, Holding, Restoring
    <2> HIDE DEF S, Q, R
    <2>3. /\ Tally(S) \in Nat /\ Tally(Q) \in Nat /\ Tally(R) \in Nat
          /\ Tally(S)' = Tally(S) /\ Tally(Q)' = Tally(Q) + One(w = v)
          /\ Tally(R)' = Tally(R)
      BY <1>7, <2>1, <2>2
    <2>4. /\ One(single[w]) \in Nat /\ single'[w] = single[w]
          /\ parallel[w] \in Int /\ parallel'[w] = parallel[w] + One(w = v)
      BY <1>2, <1>3 DEF IInv, DataType, One
    <2>5. One(single'[w]) - One(single[w]) = Tally(S)' - Tally(S)
      BY <2>3, <2>4
    <2>6. parallel'[w] - parallel[w] =
             (Tally(Q)' - Tally(Q)) + (Tally(R)' - Tally(R))
      BY <2>2, <2>3, <2>4
    <2> QED BY <2>5, <2>6 DEF S, Q, R
  <1>10. CosFollow
    <2> SUFFICES ASSUME NEW c \in Coroutines
                 PROVE  /\ Tally(Starting(c))' = Tally(Starting(c))
                        /\ Tally(Linking(c))' + One(c \in ToSet(coq'))
                              =< Tally(Linking(c)) + One(c \in ToSet(coq))
                        /\ count'[c] - count[c] =
                              Tally(Helping(c))' - Tally(Helping(c))
      BY DEF CosFollow
    <2> DEFINE S == Starting(c)
    <2> DEFINE L == Linking(c)
    <2> DEFINE H == Helping(c)
    <2>1. S \in Tallied /\ L \in Tallied /\ H \in Tallied
      BY InCoSets DEF Tallied
    <2>2. /\ One(h \in S) = 0 /\ One(h \in L) = 0 /\ One(h \in H) = One(c = j)
          /\ One(c = j) \in Nat /\ One(c \in ToSet(coq)) \in Nat
      BY <1>4 DEF One, Starting, Linking, Helping
    <2> HIDE DEF S, L, H
    <2>3. /\ Tally(S) \in Nat /\ Tally(L) \in Nat /\ Tally(H) \in Nat
          /\ Tally(S)' = Tally(S) /\ Tally(L)' = Tally(L)
          /\ Tally(H)' = Tally(H) + One(c = j)
      BY <1>7, <2>1, <2>2
    <2>4. count[c] \in Int /\ count'[c] = count[c] + One(c = j)
      <3>1. c \in Jobs /\ count \in [Jobs -> Int]
        BY DEF IInv, DataType, Given, Coroutines
      <3> QED BY <1>2, <3>1 DEF One
    <2>5. Tally(L)' + One(c \in ToSet(coq')) =< Tally(L) + One(c \in ToSet(coq))
      BY <1>2, <2>2, <2>3
    <2>6. count'[c] - count[c] = Tally(H)' - Tally(H)
      BY <2>2, <2>3, <2>4
    <2> QED BY <2>3, <2>5, <2>6 DEF S, L, H
  <1>11. UNCHANGED <<fns, rlck, running>>
    BY <1>2 DEF jobVars
  <1> QED BY <1>6, <1>8, <1>9, <1>10, <1>11, Follow

LEMMA AidCoKeeps ==
    ASSUME IInv, NEW t \in Threads, AidCo(t)
    PROVE  IInv'
  <1>f. PICK f : f = Top(t)
    OBVIOUS
  <1>0. CASE At(t, "aid.co") /\ Top(t).pin # None /\ Top(t).left > 0
    BY <1>0, AidHelps
  <1>1. CASE At(t, "aid") /\ ~(At(t, "aid.co") /\ f.pin # None /\ f.left > 0)
    <2>g. PICK g : g = [f EXCEPT !.at = "aid.co", !.pin = coq[1]]
      OBVIOUS
    <2>1. /\ stack[t] # << >> /\ f \in SoundFrames /\ f \in FrameType
          /\ About(f) /\ LockAbout(f) /\ CoAbout(f) /\ f.at = "aid"
      BY <1>1, <1>f, TopFrame DEF At
    <2>2. coq # << >> /\ Go(t, g, << >>) /\ Only
      <3>1. coq # << >> /\ Go(t, g, << >>) /\ UNCHANGED <<count, parallel>>
        BY <1>f, <2>1, <2>g DEF AidCo, At
      <3>2. UNCHANGED <<fns, jobVars, single, rlck, idx, coq, ptrVars,
                        suicide, deleted>>
        BY DEF AidCo
      <3> QED BY <3>1, <3>2 DEF Only, coVars, lockVars
    <2>3. coq[1] \in ToSet(coq)
      <3>1. coq \in Seq(Coroutines)
        BY DEF IInv, DataType
      <3>2. 1 \in DOMAIN coq
        BY <2>2, <3>1, LenProperties, EmptySeq
      <3> QED BY <3>2 DEF ToSet
    <2>4. coq[1] \in Coroutines /\ Published(coq[1]) /\ coq[1] \in Obj
      BY <2>3, LinkedIs DEF Obj
    <2>5. /\ g \in FrameType /\ g.at = "aid.co" /\ g.x = f.x
          /\ g.lock = f.lock /\ g.prog = f.prog /\ g.b = f.b
          /\ g.pin = coq[1]
      BY <2>1, <2>4, <2>g DEF FrameType, Labels
    <2>6. /\ g \in SoundFrames /\ LockAlike(f, g) /\ CoAlike(f, g)
          /\ Follows(g, f)
      <3>1. LockAlike(f, g) /\ CoAlike(f, g)
        BY <2>1, <2>5 DEF CoAlike, LockAlike, StartLabels, HelpLabels
      <3>2. Follows(g, f)
        BY <2>5 DEF Follows, Needs, CoLabels
      <3>3. About(g) /\ LockAbout(g) /\ CoAbout(g)
        BY <2>1, <2>4, <2>5
           DEF About, LockAbout, CoAbout, JobLabels, WorkqLabels, CoLabels,
               HoldLabels, OnStackLabels
      <3> QED BY <2>5, <3>1, <3>2, <3>3 DEF SoundFrames
    <2> QED BY <1>f, <2>1, <2>2, <2>6, NoCalls, JustGoes
  <1>2. CASE At(t, "aid.co") /\ ~(f.pin # None /\ f.left > 0)
    <2>n. PICK n : n = IF f.left = 0 THEN 0 ELSE f.left - 1
      OBVIOUS
    <2>g. PICK g : g = [f EXCEPT !.at = "aid", !.pin = None, !.left = n]
      OBVIOUS
    <2>c. PICK calls : calls = Released(f.pin)
      OBVIOUS
    <2>1. /\ stack[t] # << >> /\ f \in SoundFrames /\ f \in FrameType
          /\ About(f) /\ LockAbout(f) /\ CoAbout(f) /\ f.at = "aid.co"
      BY <1>2, <1>f, TopFrame DEF At
    <2>2. Go(t, g, calls) /\ Only
      <3>1. Go(t, [f EXCEPT !.at = "aid", !.pin = None,
                            !.left = IF @ = 0 THEN 0 ELSE @ - 1], calls)
        BY <1>2, <1>f, <2>1, <2>c DEF AidCo, At
      <3>2. g = [f EXCEPT !.at = "aid", !.pin = None,
                          !.left = IF @ = 0 THEN 0 ELSE @ - 1]
        BY <2>g, <2>n
      <3>3. Only
        BY <1>2, <1>f, <2>1 DEF AidCo, At, Only, coVars, lockVars
      <3> QED BY <3>1, <3>2, <3>3
    <2>3. n \in Nat /\ f.pin \in Obj \cup {None}
      <3>1. f.left \in Nat /\ f.pin \in Obj \cup {None}
        BY <2>1, FieldsAre
      <3> QED BY <2>n, <3>1
    <2>4. /\ g \in FrameType /\ g.at = "aid" /\ g.x = f.x
          /\ g.lock = f.lock /\ g.prog = f.prog /\ g.b = f.b
          /\ g.pin = None
      BY <2>1, <2>3, <2>g DEF FrameType, Labels
    <2>5. /\ g \in SoundFrames /\ LockAlike(f, g) /\ CoAlike(f, g)
          /\ Follows(g, f)
      <3>1. LockAlike(f, g) /\ CoAlike(f, g)
        BY <2>1, <2>4 DEF CoAlike, LockAlike, StartLabels, HelpLabels
      <3>2. Follows(g, f)
        BY <2>4 DEF Follows, Needs, CoLabels
      <3>3. About(g) /\ LockAbout(g) /\ CoAbout(g)
        BY <2>1, <2>4
           DEF About, LockAbout, CoAbout, JobLabels, WorkqLabels, CoLabels,
               HoldLabels, OnStackLabels
      <3> QED BY <2>4, <3>1, <3>2, <3>3 DEF SoundFrames
    <2>6. calls \in Seq(FreeFrames)
      BY <2>3, <2>c, ReleasedIsFree
    <2> QED BY <1>f, <2>1, <2>2, <2>5, <2>6, JustGoes
  <1>3. At(t, "aid") \/ At(t, "aid.co")
    BY DEF AidCo
  <1> QED BY <1>0, <1>1, <1>2, <1>3, <1>f

-----------------------------------------------------------------------------
(* lock_wq() of workq_switch().                                            *)

\* What waits in lock_wq() stands on the frame that is to have the lock.
LEMMA SwitcherStands ==
    ASSUME IInv, NEW t \in Threads, stack[t] # << >>,
           Top(t).at \in {"sw.lock", "sw.undo"}
    PROVE  /\ stack[t][2] \in SoundFrames /\ stack[t][2] \in FrameType
           /\ stack[t][2].at \in {"body", "co.fn"} /\ Needs(Top(t))
           /\ stack[t][2].lock.wq = None
           /\ About(stack[t][2]) /\ LockAbout(stack[t][2])
           /\ CoAbout(stack[t][2])
           /\ Top(t).x \in Workqs /\ Top(t).lock.lck \in {"SINGLE", "PARALLEL"}
           /\ Top(t).lock.wq = None /\ Top(t) \in FrameType
           /\ Top(t) \in SoundFrames
           /\ None \notin Workqs
  <1>1. /\ Needs(Top(t)) /\ StacksSound
        /\ Top(t).x \in Workqs /\ Top(t).lock.lck \in {"SINGLE", "PARALLEL"}
        /\ Top(t).lock.wq = None /\ Top(t) \in FrameType
        /\ Top(t) \in SoundFrames
    BY TopFrame DEF Needs, About, LockAbout, WorkqLabels, HoldLabels,
                    OnStackLabels
  <1>2. stack[t][2] \in SoundFrames /\ Supports(Top(t), stack[t][2])
    BY <1>1, TwoAre
  <1>3. /\ stack[t][2] \in FrameType /\ About(stack[t][2])
        /\ LockAbout(stack[t][2]) /\ CoAbout(stack[t][2])
    BY <1>2, SoundIs
  <1> QED BY <1>1, <1>2, <1>3, RunAssumption DEF Supports

\* It has the lock.
LEMMA SwitchGets ==
    ASSUME IInv, NEW t \in Threads, SwitchLock(t), At(t, "sw.lock"),
           Top(t).lock.lck = "SINGLE" => ~single[Top(t).x]
    PROVE  IInv'
  <1>f. PICK f : f = Top(t)
    OBVIOUS
  <1>e. PICK e : e = stack[t][2]
    OBVIOUS
  <1>v. PICK v : v = f.x
    OBVIOUS
  <1>l. PICK l : l = f.lock.lck
    OBVIOUS
  <1>k. PICK k : k = [e.lock EXCEPT !.wq = v, !.lck = l]
    OBVIOUS
  <1>h. PICK h : h = [e EXCEPT !.lock = k]
    OBVIOUS
  <1>1. /\ stack[t] # << >> /\ f.at = "sw.lock"
        /\ StacksSound /\ TalliesFinite
    BY <1>f, TopFrame DEF At
  <1>2. /\ e \in SoundFrames /\ e \in FrameType /\ e.at \in {"body", "co.fn"}
        /\ Needs(f) /\ e.lock.wq = None
        /\ About(e) /\ LockAbout(e) /\ CoAbout(e)
        /\ v \in Workqs /\ l \in {"SINGLE", "PARALLEL"}
        /\ f.lock.wq = None /\ f \in FrameType
        /\ None \notin Workqs
    BY <1>1, <1>f, <1>e, <1>v, <1>l, SwitcherStands
  <1>3. /\ IF l = "SINGLE"
           THEN single' = [single EXCEPT ![v] = TRUE] /\ UNCHANGED parallel
           ELSE /\ parallel' = [parallel EXCEPT ![v] = @ + 1]
                /\ UNCHANGED single
        /\ stack' = [stack EXCEPT ![t] = <<h>> \o Tail(Tail(@))]
        /\ UNCHANGED <<fns, jobVars, coVars, ptrVars, suicide, deleted>>
    <2>1. h = [Under(t) EXCEPT !.lock.wq = v, !.lock.lck = l]
      BY <1>e, <1>k, <1>h DEF Under
    <2>2. SwitchLock(t)
      OBVIOUS
    <2> QED BY <1>1, <1>f, <1>v, <1>l, <2>1, <2>2 DEF SwitchLock, At
  <1>4. k \in Locks /\ k.wq = v /\ k.lck = l /\ k.job = e.lock.job
    BY <1>2, <1>k, FieldsAre DEF Locks
  <1>5. /\ h \in FrameType /\ h.at = e.at /\ h.x = e.x /\ h.lock = k
        /\ h.prog = e.prog /\ h.b = e.b /\ h.pin = e.pin /\ h.left = e.left
    BY <1>2, <1>4, <1>h DEF FrameType
  <1>6. h \in SoundFrames /\ CoAlike(e, h) /\ Follows(h, e)
    <2>1. e.at = "body" => e.x \notin Coroutines
      <3>1. \A j \in Coroutines : OwnLock(j).wq # None
        BY <1>2, MadeAre DEF Coroutines, OwnLock, Lock
      <3> QED BY <1>2, <3>1 DEF LockAbout
    <2>2. CoAlike(e, h) /\ Follows(h, e)
      BY <1>5 DEF CoAlike, Follows, Needs, Supports
    <2>3. About(h) /\ LockAbout(h) /\ CoAbout(h)
      BY <1>2, <1>4, <1>5, <2>1
         DEF About, LockAbout, CoAbout, HoldLabels, OnStackLabels
    <2> QED BY <1>5, <2>2, <2>3 DEF SoundFrames
  <1>7. UNCHANGED <<fns, rlck, count, coq>> /\ running' = running
    BY <1>3 DEF coVars, jobVars
  <1>8. /\ StacksStep
        /\ \A P \in Tallied :
              Tally(P)' = (Tally(P) + One(h \in P))
                          - (One(f \in P) + One(e \in P))
    <2>1. SoundFrames \subseteq SoundFrames' /\ h \in SoundFrames'
      BY <1>6, <1>7, SoundSame
    <2> QED BY <1>1, <1>2, <1>3, <1>6, <1>7, <1>f, <1>e, <2>1, PairReturns
  <1>9. /\ single' \in [Workqs -> BOOLEAN] /\ parallel' \in [Workqs -> Int]
        /\ \A u \in Workqs :
              /\ One(single'[u]) - One(single[u]) = One(u = v /\ l = "SINGLE")
              /\ parallel'[u] - parallel[u] = One(u = v /\ l = "PARALLEL")
    <2>1. single \in [Workqs -> BOOLEAN] /\ parallel \in [Workqs -> Int]
      BY DEF IInv, DataType
    <2>2. CASE l = "SINGLE"
      <3>1. single[v] = FALSE /\ single' = [single EXCEPT ![v] = TRUE]
            /\ parallel' = parallel
        BY <1>2, <1>3, <1>f, <1>l, <1>v, <2>1, <2>2
      <3> QED BY <1>2, <2>1, <2>2, <3>1 DEF One
    <2>3. CASE l = "PARALLEL"
      <3>1. parallel' = [parallel EXCEPT ![v] = @ + 1] /\ single' = single
        BY <1>3, <2>3
      <3> QED BY <1>2, <2>1, <2>3, <3>1 DEF One
    <2> QED BY <1>2, <2>2, <2>3
  <1>10. DataType'
    BY <1>3, <1>9, CosAre
       DEF IInv, DataType, jobVars, coVars, ptrVars, Lists
  <1>11. \A P \in CoSets : Tally(P)' = Tally(P)
    <2> SUFFICES ASSUME NEW P \in CoSets PROVE Tally(P)' = Tally(P)
      OBVIOUS
    <2>1. h \in P <=> e \in P
      BY <1>2, <1>5, <1>6, CoAlikeCounts
    <2>2. f \notin P
      BY <1>1 DEF CoSets, Starting, Linking, Helping
    <2>3. /\ One(h \in P) = One(e \in P) /\ One(e \in P) \in Nat
          /\ One(f \in P) = 0
      BY <2>1, <2>2 DEF One
    <2>4. /\ Tally(P) \in Nat
          /\ Tally(P)' = (Tally(P) + One(h \in P))
                         - (One(f \in P) + One(e \in P))
      BY <1>1, <1>8, TallyIs DEF Tallied
    <2> QED BY <2>3, <2>4
  <1>12. LocksFollow
    <2> SUFFICES ASSUME NEW w \in Workqs
                 PROVE  /\ One(single'[w]) - One(single[w]) =
                              Tally(Holding(w, "SINGLE"))'
                              - Tally(Holding(w, "SINGLE"))
                        /\ parallel'[w] - parallel[w] =
                              (Tally(Holding(w, "PARALLEL"))'
                                 - Tally(Holding(w, "PARALLEL")))
                              + (Tally(Restoring(w))' - Tally(Restoring(w)))
      BY DEF LocksFollow
    <2> DEFINE S == Holding(w, "SINGLE")
    <2> DEFINE Q == Holding(w, "PARALLEL")
    <2> DEFINE R == Restoring(w)
    <2> DEFINE s == One(w = v /\ l = "SINGLE")
    <2> DEFINE q == One(w = v /\ l = "PARALLEL")
    <2>1. S \in Tallied /\ Q \in Tallied /\ R \in Tallied
      BY InLockSets DEF Tallied
    <2>2. /\ One(h \in S) = s /\ One(h \in Q) = q /\ One(h \in R) = 0
          /\ One(e \in S) = 0 /\ One(e \in Q) = 0 /\ One(e \in R) = 0
          /\ One(f \in S) = 0 /\ One(f \in Q) = 0 /\ One(f \in R) = 0
          /\ s \in Nat /\ q \in Nat
      BY <1>1, <1>2, <1>4, <1>5 DEF One, Holding, Restoring
    <2> HIDE DEF S, Q, R, s, q
    <2>3. /\ Tally(S) \in Nat /\ Tally(Q) \in Nat /\ Tally(R) \in Nat
      BY <1>1, <2>1, TallyIs
    <2>4. /\ Tally(S)' = Tally(S) + s /\ Tally(Q)' = Tally(Q) + q
          /\ Tally(R)' = Tally(R)
      BY <1>8, <2>1, <2>2, <2>3
    <2>5. /\ One(single'[w]) - One(single[w]) = s
          /\ parallel'[w] - parallel[w] = q
      BY <1>9 DEF s, q
    <2>6. One(single'[w]) - One(single[w]) = Tally(S)' - Tally(S)
      BY <2>2, <2>3, <2>4, <2>5
    <2>7. parallel'[w] - parallel[w] =
             (Tally(Q)' - Tally(Q)) + (Tally(R)' - Tally(R))
      <3>1. (Tally(Q)' - Tally(Q)) + (Tally(R)' - Tally(R)) = q
        BY <2>2, <2>3, <2>4
      <3> QED BY <2>5, <3>1
    <2> QED BY <2>6, <2>7 DEF S, Q, R
  <1> QED BY <1>7, <1>8, <1>10, <1>11, <1>12, LocksMoved

\* It takes run-parallel for the time being, or gives that back.
LEMMA SwitchTries ==
    ASSUME IInv, NEW t \in Threads, stack[t] # << >>,
           Top(t).at \in {"sw.lock", "sw.undo"},
           NEW a \in {"sw.lock", "sw.undo"}, Goto(t, a),
           UNCHANGED <<fns, jobVars, single, coVars, ptrVars, suicide, deleted>>,
           parallel' \in [Workqs -> Int],
           \A u \in Workqs :
              parallel'[u] - parallel[u] =
                 One(u = Top(t).x /\ a = "sw.undo")
                 - One(u = Top(t).x /\ Top(t).at = "sw.undo")
    PROVE  IInv'
  <1>f. PICK f : f = Top(t)
    OBVIOUS
  <1>g. PICK g : g = [f EXCEPT !.at = a]
    OBVIOUS
  <1>v. PICK v : v = f.x
    OBVIOUS
  <1>1. /\ f \in SoundFrames /\ f \in FrameType
        /\ About(f) /\ LockAbout(f) /\ CoAbout(f)
        /\ StacksSound /\ TalliesFinite /\ f.at \in {"sw.lock", "sw.undo"}
        /\ f.lock.wq = None /\ v \in Workqs /\ None \notin Workqs
    BY <1>f, <1>v, TopFrame, SwitcherStands
  <1>2. Go(t, g, << >>)
    BY <1>f, <1>g DEF Goto
  <1>3. /\ g \in FrameType /\ g.at = a /\ g.x = f.x /\ g.lock = f.lock
        /\ g.prog = f.prog /\ g.b = f.b /\ g.pin = f.pin
    <2>1. a \in Labels
      BY DEF Labels
    <2> QED BY <1>1, <1>g, <2>1, PlaceIs
  <1>4. g \in SoundFrames /\ CoAlike(f, g) /\ Follows(g, f)
    <2>1. CoAlike(f, g)
      BY <1>1, <1>3 DEF CoAlike, StartLabels, HelpLabels
    <2>2. Follows(g, f)
      BY <1>1, <1>3 DEF Follows, Needs, Supports, CoLabels
    <2>3. About(g) /\ LockAbout(g) /\ CoAbout(g)
      BY <1>1, <1>3 DEF About, LockAbout, CoAbout, JobLabels, WorkqLabels,
                        CoLabels, HoldLabels, OnStackLabels
    <2> QED BY <1>3, <2>1, <2>2, <2>3 DEF SoundFrames
  <1>5. UNCHANGED <<fns, rlck, count, coq>> /\ running' = running
    BY DEF coVars, jobVars
  <1>6. Swapped(t, g)
    <2>1. stack' = [stack EXCEPT ![t] = << >> \o <<g>> \o Tail(@)]
      BY <1>2 DEF Go
    <2>2. g \in SoundFrames' /\ SoundFrames \subseteq SoundFrames'
      BY <1>4, <1>5, SoundStay
    <2> QED BY <1>1, <1>4, <1>5, <1>f, <2>1, <2>2, NoCalls, Goes DEF Swapped
  <1>7. DataType'
    BY CosAre DEF IInv, DataType, jobVars, coVars, ptrVars, Lists
  <1>8. \A P \in CoSets : Tally(P)' = Tally(P)
    BY <1>3, <1>4, <1>6, <1>f, AlikeTallies
  <1>9. LocksFollow
    <2> SUFFICES ASSUME NEW w \in Workqs
                 PROVE  /\ One(single'[w]) - One(single[w]) =
                              Tally(Holding(w, "SINGLE"))'
                              - Tally(Holding(w, "SINGLE"))
                        /\ parallel'[w] - parallel[w] =
                              (Tally(Holding(w, "PARALLEL"))'
                                 - Tally(Holding(w, "PARALLEL")))
                              + (Tally(Restoring(w))' - Tally(Restoring(w)))
      BY DEF LocksFollow
    <2> DEFINE S == Holding(w, "SINGLE")
    <2> DEFINE Q == Holding(w, "PARALLEL")
    <2> DEFINE R == Restoring(w)
    <2> DEFINE x == One(w = v /\ a = "sw.undo")
    <2> DEFINE y == One(w = v /\ f.at = "sw.undo")
    <2>1. S \in Tallied /\ Q \in Tallied /\ R \in Tallied
      BY InLockSets DEF Tallied
    <2>2. /\ One(g \in S) = 0 /\ One(g \in Q) = 0 /\ One(g \in R) = x
          /\ One(f \in S) = 0 /\ One(f \in Q) = 0 /\ One(f \in R) = y
          /\ x \in Nat /\ y \in Nat
      BY <1>1, <1>3, <1>v DEF One, Holding, Restoring
    <2>3. parallel'[w] - parallel[w] = x - y
      BY <1>f, <1>v
    <2> HIDE DEF S, Q, R, x, y
    <2>4. /\ Tally(S) \in Nat /\ Tally(Q) \in Nat /\ Tally(R) \in Nat
          /\ One(single[w]) \in Nat
      BY <1>1, <2>1, TallyIs DEF One
    <2>5. /\ Tally(S)' = Tally(S) /\ Tally(Q)' = Tally(Q)
          /\ Tally(R)' = (Tally(R) + x) - y
      BY <1>6, <1>f, <2>1, <2>2, <2>4 DEF Swapped
    <2>6. One(single'[w]) - One(single[w]) = Tally(S)' - Tally(S)
      BY <2>4, <2>5
    <2>7. parallel'[w] - parallel[w] =
             (Tally(Q)' - Tally(Q)) + (Tally(R)' - Tally(R))
      <3>1. (Tally(Q)' - Tally(Q)) + (Tally(R)' - Tally(R)) = x - y
        BY <2>2, <2>4, <2>5
      <3> QED BY <2>3, <3>1
    <2> QED BY <2>6, <2>7 DEF S, Q, R
  <1>10. StacksStep
    BY <1>6 DEF Swapped
  <1> QED BY <1>5, <1>7, <1>8, <1>9, <1>10, LocksMoved

LEMMA SwitchLockKeeps ==
    ASSUME IInv, NEW t \in Threads, SwitchLock(t)
    PROVE  IInv'
  <1>f. PICK f : f = Top(t)
    OBVIOUS
  <1>v. PICK v : v = f.x
    OBVIOUS
  <1>1. /\ stack[t] # << >> /\ f.at \in {"sw.lock", "sw.undo"}
        /\ v \in Workqs /\ f.lock.lck \in {"SINGLE", "PARALLEL"}
    BY <1>f, <1>v, SwitcherStands DEF SwitchLock, At
  <1>2. /\ parallel \in [Workqs -> Int]
        /\ UNCHANGED <<fns, jobVars, coVars, ptrVars, suicide, deleted>>
    BY DEF IInv, DataType, SwitchLock
  <1>3. CASE f.at = "sw.lock" /\ (f.lock.lck = "SINGLE" => ~single[v])
    <2>1. At(t, "sw.lock")
      BY <1>1, <1>3, <1>f DEF At
    <2> QED BY <1>3, <1>f, <1>v, <2>1, SwitchGets
  <1>4. CASE f.at = "sw.lock" /\ ~(f.lock.lck = "SINGLE" => ~single[v])
    <2>1. /\ parallel' = [parallel EXCEPT ![v] = @ + 1]
          /\ Goto(t, "sw.undo") /\ UNCHANGED single
      BY <1>4, <1>f, <1>v DEF SwitchLock, At
    <2>2. parallel' \in [Workqs -> Int]
      BY <1>1, <1>2, <2>1
    <2>3. \A u \in Workqs :
             parallel'[u] - parallel[u] =
                One(u = v /\ "sw.undo" = "sw.undo")
                - One(u = v /\ f.at = "sw.undo")
      BY <1>1, <1>2, <1>4, <2>1 DEF One
    <2> QED BY <1>1, <1>2, <1>f, <1>v, <2>1, <2>2, <2>3, SwitchTries
  <1>5. CASE f.at = "sw.undo"
    <2>1. /\ parallel' = [parallel EXCEPT ![v] = @ - 1]
          /\ Goto(t, "sw.lock") /\ UNCHANGED single
      BY <1>5, <1>f, <1>v DEF SwitchLock, At, unlock_run
    <2>2. parallel' \in [Workqs -> Int]
      BY <1>1, <1>2, <2>1
    <2>3. \A u \in Workqs :
             parallel'[u] - parallel[u] =
                One(u = v /\ "sw.lock" = "sw.undo")
                - One(u = v /\ f.at = "sw.undo")
      BY <1>1, <1>2, <1>5, <2>1 DEF One
    <2> QED BY <1>1, <1>2, <1>f, <1>v, <2>1, <2>2, <2>3, SwitchTries
  <1> QED BY <1>1, <1>3, <1>4, <1>5

-----------------------------------------------------------------------------
(* The invariant holds, and it says what LocksSound says.                  *)

LEMMA NextKeeps ==
    ASSUME IInv, [Next]_vars
    PROVE  IInv'
  <1>1. ASSUME NEW t \in Threads, Run(t) PROVE IInv'
    BY <1>1, job_to_runqKeeps, unlockKeeps, ImmedKeeps, deactivateKeeps,
       AidCoKeeps, AidNextKeeps, AidPickKeeps, AidWorkqKeeps,
       AidWorkqEndKeeps, co_publishKeeps, co_runKeeps, releaseKeeps,
       SwitchLockKeeps, RelTestKeeps, delete_jobKeeps, delete_workqKeeps,
       OpKeeps, BodyEndKeeps, HelpKeeps DEF Run
  <1>2. ASSUME UNCHANGED vars PROVE IInv'
    <2>1. Only /\ stack' = stack
      BY <1>2 DEF vars, Only
    <2>2. /\ DataType' /\ UNCHANGED <<fns, lockVars, rlck, count, coq>>
          /\ \A c \in Coroutines : running'[c] = running[c]
      BY <2>1, DataSame
    <2>3. StacksSound'
      BY <2>1, <2>2, SoundStay DEF IInv, StacksSound, Stacked
    <2>4. TalliesFinite' /\ \A P \in Tallied : Tally(P)' = Tally(P)
      <3>1. \A P : Tally(P)' = Tally(P)
        BY <2>1 DEF Tally, Slots
      <3>2. TalliesFinite'
        BY <2>1, <2>2, TalliedStay DEF IInv, TalliesFinite, Slots
      <3> QED BY <3>1, <3>2
    <2> QED BY <2>2, <2>3, <2>4, Quiet DEF StacksStep
  <1> QED BY <1>1, <1>2 DEF Next

LEMMA InitSound ==
    ASSUME Init
    PROVE  IInv
  <1>1. PICK p \in Programs :
           /\ fns = p.fns /\ ptr = p.ptr /\ wptr = p.wptr
           /\ active = [j \in Jobs |-> FALSE] /\ running = [j \in Jobs |-> FALSE]
           /\ gen = [j \in Jobs |-> 0] /\ runq = [j \in Jobs |-> {}]
           /\ wqq = {}
           /\ single = [w \in Workqs |-> FALSE]
           /\ parallel = [w \in Workqs |-> 0]
           /\ rlck = [j \in Jobs |-> NoLock]
           /\ count = [j \in Jobs |-> 0] /\ idx = [j \in Jobs |-> 0]
           /\ coq = <<>>
           /\ suicide = {} /\ deleted = [o \in Jobs \cup Workqs |-> 0]
           /\ stack = [t \in Threads |->
                         <<[Frame("user", None) EXCEPT !.prog = p.calls[t]]>>]
    BY DEF Init
  <1>2. /\ p.calls \in [Threads -> Seq(CallsOn(Made))]
        /\ p.ptr \in [Jobs -> Nat] /\ p.wptr \in [Workqs -> Nat]
        /\ None \notin Jobs \cup Workqs /\ GenMod \in Nat \ {0}
    BY <1>1, RunAssumption DEF Made
  <1>3. Given
    BY <1>1, RunAssumption DEF Given, Made
  <1>4. Coroutines \subseteq Made /\ Made \subseteq Jobs
    BY <1>3 DEF Coroutines, Given
  <1>5. NoLock \in Locks /\ NoLock.wq = None /\ NoLock.job = None
    BY DEF NoLock, Locks
  <1>6. coq \in Seq(Coroutines) /\ IsInjective(coq) /\ ToSet(coq) = {}
    BY <1>1 DEF IsInjective, ToSet
  <1>7. DataType
    BY <1>1, <1>2, <1>5, <1>6 DEF DataType, Obj
  <1>8. StolenLocks
    BY <1>1 DEF StolenLocks
  <1>9. ASSUME NEW t \in Threads
        PROVE  /\ stack[t] \in Seq(SoundFrames) /\ Stacked(stack[t])
               /\ \A P \in Tallied : \A i \in DOMAIN stack[t] :
                                        stack[t][i] \notin P
    <2> DEFINE e == Frame("user", None)
    <2> DEFINE q == p.calls[t]
    <2> DEFINE f == [e EXCEPT !.prog = q]
    <2>1. stack[t] = <<f>>
      BY <1>1
    <2>2. q \in Seq(CallsOn(Made)) /\ q \in Seq(Call)
      <3>1. q \in Seq(CallsOn(Made)) /\ CallsOn(Made) \subseteq Call
        BY <1>2 DEF CallsOn
      <3> HIDE DEF q
      <3> QED BY <3>1, SeqMonotonic
    <2>3. /\ e \in FrameType /\ e.at = "user" /\ e.x = None /\ e.lock = NoLock
          /\ e.pin = None
      <3>1. "user" \in Labels /\ None \in Obj \cup {None}
        BY DEF Labels
      <3> QED BY <3>1, FrameIs
    <2> HIDE DEF e, q
    <2>4. /\ f \in FrameType /\ f.at = "user" /\ f.x = None /\ f.lock = NoLock
          /\ f.prog = q /\ f.pin = None
      BY <2>2, <2>3 DEF FrameType
    <2> HIDE DEF f
    <2>5. About(f) /\ LockAbout(f) /\ CoAbout(f)
      BY <1>5, <2>2, <2>4
         DEF About, LockAbout, CoAbout, JobLabels, WorkqLabels, CoLabels
    <2>6. ~Needs(f) /\ \A P \in Tallied : f \notin P
      <3>1. Plain(f)
        BY <1>5, <2>4 DEF Plain, PlainLabels, Labels, StartLabels, CoLabels
      <3> QED BY <2>4, <3>1, PlainCounts
    <2>7. f \in SoundFrames
      BY <2>4, <2>5 DEF SoundFrames
    <2>8. DOMAIN stack[t] = {1} /\ stack[t][1] = f
      BY <2>1
    <2>9. stack[t] \in Seq(SoundFrames)
      BY <2>1, <2>7
    <2> QED BY <2>6, <2>8, <2>9 DEF Stacked
  <1>10. StacksSound
    <2>1. stack \in [Threads -> Seq(SoundFrames)]
      <3>1. DOMAIN stack = Threads /\ stack = [t \in Threads |-> stack[t]]
        BY <1>1
      <3> QED BY <1>9, <3>1
    <2> QED BY <1>9, <2>1 DEF StacksSound
  <1>11. \A P \in Tallied : Slots(stack, P) = {} /\ Tally(P) = 0
    <2> SUFFICES ASSUME NEW P \in Tallied
                 PROVE  Slots(stack, P) = {} /\ Tally(P) = 0
      OBVIOUS
    <2>1. Slots(stack, P) = {}
      BY <1>9 DEF Slots
    <2> QED BY <2>1, FS_EmptySet DEF Tally
  <1>12. TalliesFinite
    BY <1>11, FS_EmptySet DEF TalliesFinite
  <1>13. LocksTallied
    <2> SUFFICES ASSUME NEW w \in Workqs
                 PROVE  /\ \A l \in {"SINGLE", "PARALLEL"} :
                              IsFiniteSet(Stolen(w, l))
                        /\ Tally(Holding(w, "SINGLE"))
                              + Cardinality(Stolen(w, "SINGLE"))
                              = One(single[w])
                        /\ (Tally(Holding(w, "PARALLEL"))
                              + Cardinality(Stolen(w, "PARALLEL")))
                              + Tally(Restoring(w)) = parallel[w]
      BY DEF LocksTallied
    <2>1. \A l : Stolen(w, l) = {}
      BY <1>1, <1>2, <1>4, <1>5 DEF Stolen
    <2>2. IsFiniteSet({}) /\ Cardinality({}) = 0
      BY FS_EmptySet
    <2>3. /\ Tally(Holding(w, "SINGLE")) = 0 /\ Tally(Restoring(w)) = 0
          /\ Tally(Holding(w, "PARALLEL")) = 0
      BY <1>11, InLockSets DEF Tallied
    <2>4. One(single[w]) = 0 /\ parallel[w] = 0
      BY <1>1 DEF One
    <2> QED BY <2>1, <2>2, <2>3, <2>4
  <1>14. CoroutinesTallied
    <2> SUFFICES ASSUME NEW c \in Coroutines
                 PROVE  /\ Tally(Starting(c)) = One(running[c] /\ ~Published(c))
                        /\ Tally(Linking(c)) + One(c \in ToSet(coq))
                              =< One(Published(c))
                        /\ count[c] = (IF Published(c) THEN Len(fns[c]) ELSE 0)
                                      + Tally(Helping(c))
      BY DEF CoroutinesTallied
    <2>1. /\ Tally(Starting(c)) = 0 /\ Tally(Linking(c)) = 0
          /\ Tally(Helping(c)) = 0
      BY <1>11, InCoSets DEF Tallied
    <2>2. c \in Jobs /\ rlck[c] = NoLock /\ running[c] = FALSE /\ count[c] = 0
      BY <1>1, <1>4
    <2>3. ~Published(c)
      BY <1>2, <1>5, <2>2 DEF Published
    <2>4. /\ One(running[c] /\ ~Published(c)) = 0 /\ One(Published(c)) = 0
          /\ One(c \in ToSet(coq)) = 0
      BY <1>6, <2>2, <2>3 DEF One
    <2> QED BY <2>1, <2>2, <2>3, <2>4
  <1> QED BY <1>3, <1>7, <1>8, <1>10, <1>12, <1>13, <1>14 DEF IInv

\* The frames of WorkqRun, and those in P.
LEMMA FramesAre ==
    ASSUME StacksSound
    PROVE  /\ \A p \in Frames : F(p) \in SoundFrames
           /\ \A P : Slots(stack, P) = {p \in Frames : F(p) \in P}
  <1>1. ASSUME NEW t \in Threads
        PROVE  /\ DOMAIN stack[t] \subseteq Nat
               /\ \A i \in DOMAIN stack[t] : stack[t][i] \in SoundFrames
    <2>1. stack[t] \in Seq(SoundFrames)
      BY DEF StacksSound
    <2> QED BY <2>1, LenProperties, ElementOfSeq
  <1>2. \A p : p \in Frames <=> \E t \in Threads : \E i \in DOMAIN stack[t] :
                                   p = <<t, i>>
    BY DEF Frames
  <1>3. \A p \in Frames : F(p) \in SoundFrames
    BY <1>1, <1>2 DEF F
  <1>4. ASSUME NEW P PROVE Slots(stack, P) = {p \in Frames : F(p) \in P}
    <2>1. ASSUME NEW p \in Slots(stack, P)
          PROVE  p \in Frames /\ F(p) \in P
      <3>1. p = <<p[1], p[2]>> /\ p[1] \in Threads /\ p[2] \in DOMAIN stack[p[1]]
        BY DEF Slots
      <3>2. p \in Frames
        BY <1>2, <3>1
      <3>3. F(p) \in P
        BY DEF F, Slots
      <3> QED BY <3>2, <3>3
    <2>2. ASSUME NEW p \in Frames, F(p) \in P PROVE p \in Slots(stack, P)
      <3>0. PICK t \in Threads : \E i \in DOMAIN stack[t] : p = <<t, i>>
        BY <1>2
      <3>1. PICK i \in DOMAIN stack[t] : p = <<t, i>>
        BY <3>0
      <3>2. p[1] = t /\ p[2] = i /\ i \in Nat /\ p \in Threads \X Nat
        BY <1>1, <3>1
      <3> QED BY <2>2, <3>1, <3>2 DEF F, Slots
    <2> QED BY <2>1, <2>2
  <1> QED BY <1>3, <1>4

LEMMA TypesHold ==
    ASSUME IInv
    PROVE  TypeOK
  <1>1. Coroutines \subseteq Jobs
    BY DEF IInv, Given, Coroutines
  <1>2. \A j \in Jobs : runq[j] \in {{}, {"all"}, {"parallel"}, Lists(j)}
    <2> SUFFICES ASSUME NEW j \in Jobs
                 PROVE  runq[j] \in {{}, {"all"}, {"parallel"}, Lists(j)}
      OBVIOUS
    <2>1. /\ runq[j] \subseteq Lists(j)
          /\ Lists(j) = {"all"} \/ Lists(j) = {"all", "parallel"}
      BY DEF IInv, DataType, Lists
    <2> QED BY <2>1
  <1>3. parallel \in [Workqs -> Nat]
    <2>1. ASSUME NEW w \in Workqs PROVE parallel[w] \in Nat
      <3>1. /\ Tally(Holding(w, "PARALLEL")) \in Nat
            /\ Tally(Restoring(w)) \in Nat
        BY InLockSets, TallyIs DEF Tallied, IInv
      <3>2. Cardinality(Stolen(w, "PARALLEL")) \in Nat
        BY FS_CardinalityType DEF IInv, LocksTallied
      <3>3. (Tally(Holding(w, "PARALLEL")) + Cardinality(Stolen(w, "PARALLEL")))
               + Tally(Restoring(w)) = parallel[w]
        BY DEF IInv, LocksTallied
      <3> QED BY <3>1, <3>2, <3>3
    <2>2. parallel \in [Workqs -> Int]
      BY DEF IInv, DataType
    <2> QED BY <2>1, <2>2
  <1>4. count \in [Jobs -> Nat]
    <2>1. ASSUME NEW c \in Coroutines PROVE count[c] \in Nat
      <3>1. Tally(Helping(c)) \in Nat
        BY InCoSets, TallyIs DEF Tallied, IInv
      <3>2. c \in Made /\ fns[c] \in Seq(Seq(CallsOn(Made)))
        BY DEF Coroutines, IInv, Given
      <3>3. Len(fns[c]) \in Nat
        BY <3>2, LenProperties
      <3>4. count[c] = (IF Published(c) THEN Len(fns[c]) ELSE 0)
                       + Tally(Helping(c))
        BY DEF IInv, CoroutinesTallied
      <3> QED BY <3>1, <3>3, <3>4
    <2>2. count \in [Jobs -> Int] /\ \A j \in Jobs \ Coroutines : count[j] = 0
      BY DEF IInv, DataType
    <2> QED BY <2>1, <2>2
  <1>5. coq \in Seq(Jobs) /\ IsInjective(coq)
    BY <1>1, SeqMonotonic DEF IInv, DataType
  <1>6. \A p \in Frames : /\ F(p).lock \in Locks /\ F(p).left \in Nat
                          /\ F(p).pin \in Obj \cup {None}
    BY FramesAre, SoundIs, FieldsAre DEF IInv
  <1> QED BY <1>2, <1>3, <1>4, <1>5, <1>6
          DEF TypeOK, IInv, DataType, Given, Obj, Locks

LEMMA LocksAreHeld ==
    ASSUME IInv
    PROVE  RunLocksHeld
  <1> SUFFICES ASSUME NEW w \in Workqs
               PROVE  /\ Cardinality(Holders(w, "SINGLE"))
                            + Cardinality(Stolen(w, "SINGLE"))
                            = (IF single[w] THEN 1 ELSE 0)
                      /\ (Cardinality(Holders(w, "PARALLEL"))
                            + Cardinality(Stolen(w, "PARALLEL")))
                            + Cardinality(Undoing(w)) = parallel[w]
    BY DEF RunLocksHeld
  <1>1. /\ \A p \in Frames : F(p) \in FrameType
        /\ \A P : Slots(stack, P) = {p \in Frames : F(p) \in P}
    BY FramesAre, SoundIs DEF IInv
  <1>2. \A l : Holders(w, l) = Slots(stack, Holding(w, l))
    BY <1>1 DEF Holders, Holding
  <1>3. Undoing(w) = Slots(stack, Restoring(w))
    BY <1>1 DEF Undoing, Restoring
  <1>4. /\ Tally(Holding(w, "SINGLE")) + Cardinality(Stolen(w, "SINGLE"))
              = One(single[w])
        /\ (Tally(Holding(w, "PARALLEL")) + Cardinality(Stolen(w, "PARALLEL")))
              + Tally(Restoring(w)) = parallel[w]
    BY DEF IInv, LocksTallied
  <1> QED BY <1>2, <1>3, <1>4 DEF Tally, One

LEMMA FunctionsAreLocked ==
    ASSUME IInv
    PROVE  CoroutineLocked
  <1> SUFFICES ASSUME NEW p \in Frames, F(p).at = "co.fn"
               PROVE  /\ rlck[F(p).x].job = F(p).x
                      /\ rlck[F(p).x].wq = WorkqOf[F(p).x]
                      /\ running[F(p).x]
    BY DEF CoroutineLocked
  <1> DEFINE c == F(p).x
  <1>1. c \in Coroutines /\ Published(c)
    <2>1. F(p) \in SoundFrames
      BY FramesAre DEF IInv
    <2>2. CoAbout(F(p))
      BY <2>1, SoundIs
    <2> QED BY <2>2 DEF CoAbout, CoLabels
  <1> HIDE DEF c
  <1>2. c \in Jobs /\ None \notin Jobs /\ NoLock.job = None
    BY <1>1, RunAssumption DEF IInv, Given, Coroutines, NoLock
  <1>3. rlck[c] = OwnLock(c) /\ running[c]
    BY <1>1, <1>2 DEF IInv, StolenLocks, Published
  <1>4. OwnLock(c).job = c /\ OwnLock(c).wq = WorkqOf[c]
    BY DEF OwnLock, Lock
  <1> QED BY <1>3, <1>4 DEF c

\* For all threads, jobs, workqs and programs: no run lock of a workq is
\* lost, given up twice, or held by two as run-single, whether it is on the
\* stack of a thread, was published with a coroutine job, or is passed on by
\* workq_switch(); and the functions of a coroutine job run under the lock
\* that was stolen for it (workq.cc:117-125, 326, 496, 671, 706, 797).
THEOREM RunLocksAreSound == Spec => []LocksSound
  <1>1. IInv => LocksSound
    BY TypesHold, LocksAreHeld, FunctionsAreLocked DEF LocksSound
  <1> QED BY <1>1, InitSound, NextKeeps, PTL DEF Spec
=============================================================================
