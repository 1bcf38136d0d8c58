--------------------------- MODULE Future_proofs ---------------------------
(***************************************************************************)
(* A function is run once and when its arguments are ready, a callback is  *)
(* called once and after its result, a result is set once, and nothing is  *)
(* left behind in the lists of a ready shared state: FunctionsSound,       *)
(* NothingLeftBehind and the refinement of FutureContract, for all threads,*)
(* shared states, callbacks and programs.                                  *)
(*                                                                         *)
(* What a thread has on its stack and in its program is one sequence of    *)
(* frames (Rest), as a call moves from the one to the other.  A frame      *)
(* carries loads: promises, dependants that it is to tell, the run of a    *)
(* function, callbacks, the making of a function.  The variables that      *)
(* count these are what the loads of all frames add up to (Total).         *)
(***************************************************************************)
EXTENDS Future, FiniteSetTheorems, SequenceTheorems, TLAPS

-----------------------------------------------------------------------------
(* The frames.                                                             *)

Words == {"value", "exc", "broken", "user", "noexcept", "caught", "sync",
          "async", "start", "defer", "returns", "throws"}
Vals == Words \cup States \cup Callbacks \cup {None} \cup Nat

FnOps == {"make", "args", "claim", "hold", "invoke", "job", "end", "run",
          "unwind"}
SourceOps == {"convert", "reserve", "present", "exchange", "commit", "fill",
              "started"}
PlaceOps == {"present", "exchange", "commit", "fill"}
CallOps == {"callback", "install", "installed", "unchain", "call"}
PromiseOps == {"drop", "except", "unwind"} \cup SourceOps
Ops == FnOps \cup SourceOps \cup CallOps \cup PromiseOps
       \cup {"set", "store", "publish", "ready", "swap", "deliver", "scope",
             "start", "mark", "begin", "base", "check", "depend", "register",
             "registered", "orphan", "conv", "clear", "gone", "get", "spin",
             "wait_until", "timed"}

\* The shared states whose start, or whose source's, a frame may call for.
StartOps == {"start", "mark", "begin", "hold", "claim", "get", "wait_until",
             "callback", "install", "installed"}

FrameSet == [op : Ops, of : States, v : Seq(Vals)]

\* What a frame has, by its operation.
Typed(f) ==
    /\ f.op \in {"set", "store", "publish", "clear"} =>
          f.v[1] \in {"value", "exc", "broken"}
    /\ f.op \in FnOps => f.of \in Fns
    /\ f.op \in {"make", "args", "run"} =>
          \A i \in DOMAIN f.v : f.v[i] \in ArgsOf(f.of)
    /\ f.op \in {"register", "registered"} => f.v[1] \in Fns
    /\ f.op \in SourceOps \cup {"conv", "clear", "gone"} => f.of \in Promises
    /\ f.op \in SourceOps => f.v[1] \in States
    /\ f.op \in PlaceOps => f.v[2] \in Nat
    /\ f.op \in CallOps => f.v[1] \in Callbacks /\ On[f.v[1]] = f.of
    /\ f.op = "deliver" =>
          \A i \in DOMAIN f.v : /\ f.v[i] \in Callbacks \cup States \cup {None}
                                /\ f.v[i] \in Callbacks => On[f.v[i]] = f.of

\* What is so of a frame from when it was made.
Known(f) ==
    /\ f.op \in StartOps => made[f.of]
    /\ f.op \in SourceOps => made[f.v[1]]
    /\ f.op = "make" => \A a \in ArgsOf(f.of) : made[a]
    /\ f.op \in {"mark", "begin", "hold", "claim"} => called[f.of]
    /\ f.op \in {"args", "invoke", "job", "run", "store", "publish"} =>
          state[f.of] # "deferred"
    /\ f.op \in {"ready", "swap", "deliver", "call"} => Ready(f.of)
    /\ f.op \in PlaceOps /\ ~Ready(f.v[1]) =>
          f.v[2] \in DOMAIN deps[f.v[1]] /\ deps[f.v[1]][f.v[2]] \notin Fns

Frames ==
    /\ stack \in [Threads -> Seq({f \in FrameSet : Typed(f)})]
    /\ \A t \in Threads : \A i \in DOMAIN stack[t] : Known(stack[t][i])
    /\ prog \in [Threads -> Seq(Calls)]

Data ==
    /\ state \in [States -> Uninitialized \cup ReadyStates]
    /\ storage \in [States -> {"none", "value", "exc", "broken"}]
    /\ lck \in [States -> Threads \cup {None}]
    /\ mtx \in [States -> Threads \cup {None}]
    /\ single \in [States -> Callbacks \cup {None}]
    /\ \A o \in States : single[o] # None => On[single[o]] = o
    /\ chain \in [States -> Seq(Callbacks)]
    /\ \A o \in States : \A i \in DOMAIN chain[o] : On[chain[o][i]] = o
    /\ deps \in [States -> Seq(States \cup {None})]
    /\ called \in [States -> BOOLEAN] /\ async \in [States -> BOOLEAN]
    /\ promises \in [States -> Int]
    /\ conv \in [States -> States \cup {None}] /\ gone \in [States -> BOOLEAN]
    /\ need \in [Fns -> Int]
    /\ self \in [Jobs -> BOOLEAN] /\ posted \in [Jobs -> BOOLEAN]
    /\ made \in [States -> BOOLEAN]
    /\ dead \in {"no", "assert", "terminate", "nullptr", "chain"}
    /\ runs \in [Fns -> Nat] /\ calls \in [Callbacks -> Nat]

\* A function that was not made was not started, and what was started was
\* called; who can be started has arguments that can.
Starts ==
    /\ \A o \in Promises : made[o] /\ state[o] # "deferred"
    /\ \A o \in Fns : /\ made[o] \/ state[o] = "deferred"
                      /\ state[o] # "deferred" => called[o]
                      /\ made[o] => \A a \in ArgsOf(o) : made[a]
    /\ \A o \in Jobs : posted[o] => state[o] # "deferred"
    /\ \A o \in States : conv[o] # None => o \in Promises /\ made[conv[o]]

-----------------------------------------------------------------------------
(* The results.                                                            *)

\* Who sets a result has lck_, and does nothing else.
ResultLocked ==
    /\ \A t \in Threads : \A i \in DOMAIN stack[t] :
          stack[t][i].op \in {"store", "publish"} =>
             /\ i = 1 /\ lck[stack[t][i].of] = t
             /\ stack[t][i].op = "publish" =>
                   storage[stack[t][i].of] = stack[t][i].v[1]
    /\ \A o \in States : Ready(o) => lck[o] = None /\ storage[o] # "none"

\* The lists of a ready shared state are empty, or a thread is about to take
\* what is in them.
ListsTaken ==
    \A o \in States :
        Ready(o) /\ (single[o] # None \/ chain[o] # <<>> \/ deps[o] # <<>>) =>
            \E t \in Threads : /\ stack[t] # <<>> /\ Top(t).of = o
                               /\ Top(t).op \in {"ready", "swap"}

-----------------------------------------------------------------------------
(* Loads.                                                                  *)

One(b) == IF b THEN 1 ELSE 0
Occurs(v, x) == Cardinality({i \in DOMAIN v : v[i] = x})

Kinds == {"promise", "tell", "run", "call", "make"}

\* How often frame f is to let a promise of x go, to tell x that what it
\* needs is there, to run the function x, to call x, to make x.
Load(k, x, f) ==
    CASE k = "promise" -> One(f.op \in PromiseOps /\ f.of = x)
      [] k = "tell" /\ f.op # "deliver" ->
            One(\/ f.op \in {"args", "depend"} /\ f.of = x
                \/ f.op \in {"register", "registered"} /\ f.v[1] = x)
      [] k = "run" -> One(f.op \in {"invoke", "job", "run"} /\ f.of = x)
      [] k = "call" /\ f.op # "deliver" ->
            One(/\ f.op \in {"callback", "install", "installed", "call"}
                /\ f.v[1] = x)
      [] k = "make" -> One(f.op = "make" /\ f.of = x)
      [] OTHER -> Occurs(f.v, x)

\* The loads of a sequence of frames, each with its place.
Loads(s, k, x) ==
    {p \in Nat \X Nat : p[1] \in DOMAIN s /\ p[2] \in 1 .. Load(k, x, s[p[1]])}
Weight(s, k, x) == Cardinality(Loads(s, k, x))

Rest == [t \in Threads |-> stack[t] \o prog[t]]
AllLoads(rest, k, x) ==
    {p \in Threads \X (Nat \X Nat) : p[2] \in Loads(rest[p[1]], k, x)}
Total(k, x) == Cardinality(AllLoads(Rest, k, x))

-----------------------------------------------------------------------------
(* What adds up.                                                           *)

PromisesCounted == \A o \in States : promises[o] = Total("promise", o)

CalledOnce ==
    \A c \in Callbacks :
        calls[c] + Total("call", c) + One(single[On[c]] = c)
        + Occurs(chain[On[c]], c) =< 1

MadeOnce == \A o \in Fns : Total("make", o) =< One(~made[o])

\* need_resolution_ is the start, until all arguments have been started, and
\* one for each argument that has not told the function that it is ready.
Dependants(o) == {p \in States \X Nat : /\ p[2] \in DOMAIN deps[p[1]]
                                        /\ deps[p[1]][p[2]] = o}
NeedCounted ==
    \A o \in Fns :
        /\ IsFiniteSet(Dependants(o))
        /\ need[o] = One(state[o] = "deferred") + Total("tell", o)
                     + Cardinality(Dependants(o))

\* From when nothing is needed any more, the function is run once.
RunOnce ==
    \A o \in Fns :
        runs[o] + Total("run", o) + One(o \in Jobs /\ posted[o])
           =< One(need[o] = 0)

\* Who runs a function has waited for the arguments that are not in v, or
\* is waiting for one of them.
Fed(s, i) ==
    s[i].op = "run" =>
        \A a \in ArgsOf(s[i].of) :
            \/ Ready(a)
            \/ \E k \in DOMAIN s[i].v : s[i].v[k] = a
            \/ i > 1 /\ s[i - 1].op \in {"get", "spin"} /\ s[i - 1].of = a
ArgumentsReady ==
    /\ \A t \in Threads : \A i \in DOMAIN stack[t] : Fed(stack[t], i)
    /\ \A o \in Fns : runs[o] > 0 => \A a \in ArgsOf(o) : Ready(a)

IInv ==
    /\ Frames /\ Data /\ Starts
    /\ ResultLocked /\ ListsTaken
    /\ PromisesCounted /\ CalledOnce /\ MadeOnce
    /\ NeedCounted /\ RunOnce /\ ArgumentsReady

-----------------------------------------------------------------------------
(* Counting.                                                               *)

LEMMA SameSize ==
    ASSUME NEW S, NEW T, IsFiniteSet(S), NEW m \in [S -> T],
           \A x, y \in S : m[x] = m[y] => x = y,
           \A y \in T : \E x \in S : m[x] = y
    PROVE  IsFiniteSet(T) /\ Cardinality(T) = Cardinality(S)
  <1>1. m \in Bijection(S, T)
    BY DEF Bijection, Injection, Surjection, IsInjective
  <1>2. ExistsBijection(S, T)
    BY <1>1 DEF ExistsBijection
  <1> QED BY <1>2, FS_Bijection

LEMMA Disjoint ==
    ASSUME NEW A, NEW B, IsFiniteSet(A), IsFiniteSet(B), A \cap B = {}
    PROVE  /\ IsFiniteSet(A \cup B)
           /\ Cardinality(A) \in Nat /\ Cardinality(B) \in Nat
           /\ Cardinality(A \cup B) = Cardinality(A) + Cardinality(B)
  <1>1. Cardinality(A) \in Nat /\ Cardinality(B) \in Nat
    BY FS_CardinalityType
  <1>2. /\ IsFiniteSet(A \cup B)
        /\ Cardinality(A \cup B) =
              Cardinality(A) + Cardinality(B) - Cardinality(A \cap B)
    BY FS_Union
  <1>3. Cardinality(A \cap B) = 0
    BY FS_EmptySet
  <1> QED BY <1>1, <1>2, <1>3

LEMMA SeqDomain ==
    ASSUME NEW T, NEW s \in Seq(T)
    PROVE  /\ DOMAIN s = 1 .. Len(s) /\ Len(s) \in Nat
           /\ IsFiniteSet(DOMAIN s) /\ DOMAIN s \subseteq Nat
           /\ \A i \in DOMAIN s : s[i] \in T
  <1>1. DOMAIN s = 1 .. Len(s) /\ Len(s) \in Nat
    BY LenProperties
  <1>2. \A i \in DOMAIN s : s[i] \in T
    BY <1>1, ElementOfSeq
  <1>3. IsFiniteSet(1 .. Len(s))
    BY <1>1, FS_Interval
  <1> QED BY <1>1, <1>2, <1>3

LEMMA Concat ==
    ASSUME NEW T, NEW a \in Seq(T), NEW s \in Seq(T)
    PROVE  /\ a \o s \in Seq(T)
           /\ DOMAIN a = 1 .. Len(a) /\ Len(a) \in Nat
           /\ DOMAIN s = 1 .. Len(s) /\ Len(s) \in Nat
           /\ DOMAIN (a \o s) = 1 .. Len(a) + Len(s)
           /\ \A i \in 1 .. Len(a) + Len(s) :
                 (a \o s)[i] = IF i =< Len(a) THEN a[i] ELSE s[i - Len(a)]
  <1>1. a \o s \in Seq(T)
    BY ConcatProperties
  <1>2. DOMAIN (a \o s) = 1 .. Len(a \o s)
    BY <1>1, LenProperties
  <1>3. Len(a \o s) = Len(a) + Len(s)
    BY ConcatProperties
  <1> QED BY <1>1, <1>2, <1>3, LenProperties, ConcatProperties

(* How often something occurs in a sequence.                               *)
Places(v, x) == {i \in DOMAIN v : v[i] = x}

LEMMA OccursNat ==
    ASSUME NEW T, NEW v \in Seq(T), NEW x
    PROVE  /\ IsFiniteSet(Places(v, x)) /\ Occurs(v, x) \in Nat
           /\ Occurs(v, x) = 0 <=> \A i \in DOMAIN v : v[i] # x
  <1>1. IsFiniteSet(Places(v, x))
    <2>1. Places(v, x) \in SUBSET DOMAIN v
      BY DEF Places
    <2> QED BY <2>1, SeqDomain, FS_Subset
  <1>2. Occurs(v, x) = Cardinality(Places(v, x))
    BY DEF Occurs, Places
  <1>3. Occurs(v, x) = 0 <=> Places(v, x) = {}
    BY <1>1, <1>2, FS_EmptySet
  <1>4. Occurs(v, x) \in Nat
    BY <1>1, <1>2, FS_CardinalityType
  <1> QED BY <1>1, <1>3, <1>4 DEF Places

LEMMA OccursConcat ==
    ASSUME NEW T, NEW a \in Seq(T), NEW s \in Seq(T), NEW x
    PROVE  Occurs(a \o s, x) = Occurs(a, x) + Occurs(s, x)
  <1> DEFINE n == Len(a)
  <1> DEFINE A == Places(a, x)
  <1> DEFINE B == Places(s, x)
  <1> DEFINE moved == {i + n : i \in B}
  <1>1. /\ DOMAIN a = 1 .. n /\ n \in Nat
        /\ DOMAIN s = 1 .. Len(s) /\ Len(s) \in Nat
        /\ DOMAIN (a \o s) = 1 .. n + Len(s)
        /\ \A i \in 1 .. n + Len(s) :
              (a \o s)[i] = IF i =< n THEN a[i] ELSE s[i - n]
    BY Concat
  <1> HIDE DEF n
  <1>2. A \subseteq 1 .. n /\ B \subseteq 1 .. Len(s)
    BY <1>1 DEF Places
  <1>3. Places(a \o s, x) = A \cup moved
    <2>1. ASSUME NEW i \in 1 .. n + Len(s)
          PROVE  (a \o s)[i] = x <=> i \in A \cup moved
      <3>1. CASE i =< n
        <4>1. i \notin moved
          BY <1>1, <1>2, <3>1
        <4>2. i \in DOMAIN a /\ (a \o s)[i] = a[i]
          BY <1>1, <3>1
        <4> QED BY <4>1, <4>2 DEF Places
      <3>2. CASE i > n
        <4>1. i \notin A
          BY <1>1, <1>2, <3>2
        <4>2. i - n \in DOMAIN s /\ (a \o s)[i] = s[i - n]
          BY <1>1, <3>2
        <4>3. i \in moved <=> i - n \in B
          <5> HIDE DEF A, B
          <5>1. \A k \in B : k \in Nat /\ (k + n = i <=> k = i - n)
            BY <1>1, <1>2, <3>2
          <5> QED BY <5>1
        <4> QED BY <4>1, <4>2, <4>3 DEF Places
      <3> QED BY <1>1, <3>1, <3>2
    <2>2. A \cup moved \subseteq 1 .. n + Len(s)
      BY <1>1, <1>2
    <2> QED BY <1>1, <2>1, <2>2 DEF Places
  <1>4. IsFiniteSet(A) /\ IsFiniteSet(B)
    BY OccursNat
  <1>5. IsFiniteSet(moved) /\ Cardinality(moved) = Cardinality(B)
    <2> DEFINE m == [i \in B |-> i + n]
    <2>1. m \in [B -> moved] /\ \A y \in moved : \E z \in B : m[z] = y
      OBVIOUS
    <2>2. \A y, z \in B : m[y] = m[z] => y = z
      BY <1>1, <1>2
    <2> HIDE DEF m, moved
    <2> QED BY <1>4, <2>1, <2>2, SameSize
  <1>6. A \cap moved = {}
    BY <1>1, <1>2
  <1> HIDE DEF A, B, moved
  <1>7. Cardinality(A \cup moved) = Cardinality(A) + Cardinality(moved)
    BY <1>4, <1>5, <1>6, Disjoint
  <1> QED BY <1>3, <1>5, <1>7 DEF Occurs, Places, A, B

LEMMA OccursOne ==
    /\ \A x : Occurs(<<>>, x) = 0
    /\ \A x, y : Occurs(<<y>>, x) = One(y = x)
  <1>1. ASSUME NEW x PROVE Occurs(<<>>, x) = 0
    <2>1. {i \in DOMAIN <<>> : <<>>[i] = x} = {}
      OBVIOUS
    <2> QED BY <2>1, FS_EmptySet DEF Occurs
  <1>2. ASSUME NEW x, NEW y PROVE Occurs(<<y>>, x) = One(y = x)
    <2>1. DOMAIN <<y>> = {1} /\ <<y>>[1] = y
      OBVIOUS
    <2>2. CASE y = x
      <3>1. {i \in DOMAIN <<y>> : <<y>>[i] = x} = {1}
        BY <2>1, <2>2
      <3> QED BY <2>2, <3>1, FS_Singleton DEF Occurs, One
    <2>3. CASE y # x
      <3>1. {i \in DOMAIN <<y>> : <<y>>[i] = x} = {}
        BY <2>1, <2>3
      <3> QED BY <2>3, <3>1, FS_EmptySet DEF Occurs, One
    <2> QED BY <2>2, <2>3
  <1> QED BY <1>1, <1>2

(* The loads of sequences of frames.                                       *)

LEMMA LoadNat ==
    ASSUME NEW f \in FrameSet, NEW k, NEW x
    PROVE  Load(k, x, f) \in Nat
  <1>1. f.v \in Seq(Vals)
    BY DEF FrameSet
  <1>2. Occurs(f.v, x) \in Nat
    BY <1>1, OccursNat
  <1> QED BY <1>2 DEF Load, One

LEMMA LoadsFinite ==
    ASSUME NEW s \in Seq(FrameSet), NEW k, NEW x
    PROVE  IsFiniteSet(Loads(s, k, x)) /\ Weight(s, k, x) \in Nat
  <1> DEFINE Of1(i) == {<<i, n>> : n \in 1 .. Load(k, x, s[i])}
  <1>1. DOMAIN s \subseteq Nat /\ IsFiniteSet(DOMAIN s)
        /\ \A i \in DOMAIN s : s[i] \in FrameSet
    BY SeqDomain
  <1>2. ASSUME NEW i \in DOMAIN s
        PROVE  IsFiniteSet(Of1(i))
    <2> DEFINE N == 1 .. Load(k, x, s[i])
    <2>1. IsFiniteSet(N)
      BY <1>1, LoadNat, FS_Interval
    <2> DEFINE m == [n \in N |-> <<i, n>>]
    <2>2. /\ m \in [N -> Of1(i)] /\ \A y, z \in N : m[y] = m[z] => y = z
          /\ \A y \in Of1(i) : \E z \in N : m[z] = y
      OBVIOUS
    <2> HIDE DEF m, N, Of1
    <2> QED BY <2>1, <2>2, SameSize
  <1>3. IsFiniteSet({Of1(i) : i \in DOMAIN s})
    <2> DEFINE S == {Of1(i) : i \in DOMAIN s}
    <2> DEFINE m == [i \in DOMAIN s |-> Of1(i)]
    <2> HIDE DEF Of1
    <2>1. m \in Surjection(DOMAIN s, S)
      BY DEF Surjection
    <2> HIDE DEF m, S
    <2>2. IsFiniteSet(S)
      BY <1>1, <2>1, FS_Surjection
    <2> QED BY <2>2 DEF S
  <1>4. IsFiniteSet(UNION {Of1(i) : i \in DOMAIN s})
    <2> HIDE DEF Of1
    <2>1. \A T \in {Of1(i) : i \in DOMAIN s} : IsFiniteSet(T)
      BY <1>2
    <2> QED BY <1>3, <2>1, FS_UNION
  <1>5. Loads(s, k, x) \in SUBSET UNION {Of1(i) : i \in DOMAIN s}
    <2>1. ASSUME NEW p \in Loads(s, k, x)
          PROVE  p \in Of1(p[1]) /\ p[1] \in DOMAIN s
      BY DEF Loads
    <2> HIDE DEF Of1
    <2> QED BY <2>1
  <1> HIDE DEF Of1
  <1>6. IsFiniteSet(Loads(s, k, x))
    BY <1>4, <1>5, FS_Subset
  <1> QED BY <1>6, FS_CardinalityType DEF Weight

LEMMA WeightConcat ==
    \A a, s \in Seq(FrameSet) : \A k, x :
       Weight(a \o s, k, x) = Weight(a, k, x) + Weight(s, k, x)
  <1> SUFFICES ASSUME NEW a \in Seq(FrameSet), NEW s \in Seq(FrameSet),
                      NEW k, NEW x
               PROVE  Weight(a \o s, k, x) = Weight(a, k, x) + Weight(s, k, x)
    OBVIOUS
  <1> DEFINE n == Len(a)
  <1> DEFINE A == Loads(a, k, x)
  <1> DEFINE B == Loads(s, k, x)
  <1> DEFINE moved == {<<p[1] + n, p[2]>> : p \in B}
  <1>1. /\ DOMAIN a = 1 .. n /\ n \in Nat
        /\ DOMAIN s = 1 .. Len(s) /\ Len(s) \in Nat
        /\ DOMAIN (a \o s) = 1 .. n + Len(s)
        /\ \A i \in 1 .. n + Len(s) :
              (a \o s)[i] = IF i =< n THEN a[i] ELSE s[i - n]
    BY Concat
  <1> HIDE DEF n
  <1>2. /\ A \subseteq (1 .. n) \X Nat /\ B \subseteq (1 .. Len(s)) \X Nat
        /\ \A i \in 1 .. n, h \in Nat :
              <<i, h>> \in A <=> h \in 1 .. Load(k, x, a[i])
        /\ \A i \in 1 .. Len(s), h \in Nat :
              <<i, h>> \in B <=> h \in 1 .. Load(k, x, s[i])
    BY <1>1 DEF Loads
  <1>3. \A i \in Int, h \in Nat : <<i, h>> \in moved <=> <<i - n, h>> \in B
    <2> HIDE DEF A, B
    <2>1. ASSUME NEW i \in Int, NEW h \in Nat, <<i, h>> \in moved
          PROVE  <<i - n, h>> \in B
      <3>1. PICK p \in B : <<i, h>> = <<p[1] + n, p[2]>>
        BY <2>1
      <3>2. p[1] \in Nat /\ p = <<p[1], p[2]>>
        BY <1>1, <1>2
      <3>3. p[1] = i - n /\ p[2] = h
        BY <1>1, <3>1, <3>2
      <3> QED BY <3>2, <3>3
    <2>2. ASSUME NEW i \in Int, NEW h \in Nat, <<i - n, h>> \in B
          PROVE  <<i, h>> \in moved
      <3>1. (i - n) + n = i
        BY <1>1
      <3> QED BY <2>2, <3>1
    <2> QED BY <2>1, <2>2
  <1>4. Loads(a \o s, k, x) = A \cup moved
    <2>1. moved \subseteq (1 .. n + Len(s)) \X Nat
      <3> HIDE DEF A, B
      <3>1. ASSUME NEW p \in B
            PROVE  p[1] + n \in 1 .. n + Len(s) /\ p[2] \in Nat
        <4>1. p[1] \in 1 .. Len(s) /\ p[2] \in Nat
          BY <1>2
        <4> QED BY <1>1, <4>1
      <3> QED BY <3>1
    <2>2. A \subseteq (1 .. n + Len(s)) \X Nat
      <3> HIDE DEF A, B
      <3>1. 1 .. n \subseteq 1 .. n + Len(s)
        BY <1>1
      <3> QED BY <1>2, <3>1
    <2>3. Loads(a \o s, k, x) \subseteq (1 .. n + Len(s)) \X Nat
      BY <1>1 DEF Loads
    <2>4. ASSUME NEW i \in 1 .. n + Len(s), NEW h \in Nat
          PROVE  <<i, h>> \in Loads(a \o s, k, x) <=> <<i, h>> \in A \cup moved
      <3>1. <<i, h>> \in Loads(a \o s, k, x)
               <=> h \in 1 .. Load(k, x, (a \o s)[i])
        BY <1>1 DEF Loads
      <3>2. CASE i =< n
        <4>1. i \in 1 .. n /\ (a \o s)[i] = a[i] /\ i - n \notin 1 .. Len(s)
          BY <1>1, <3>2
        <4>2. <<i, h>> \notin moved
          BY <1>1, <1>2, <1>3, <4>1
        <4> HIDE DEF A, B, moved
        <4> QED BY <1>2, <3>1, <4>1, <4>2
      <3>3. CASE i > n
        <4>1. i - n \in 1 .. Len(s) /\ (a \o s)[i] = s[i - n] /\ i \notin 1 .. n
          BY <1>1, <3>3
        <4>2. <<i, h>> \notin A
          BY <1>2, <4>1
        <4>3. <<i, h>> \in moved <=> <<i - n, h>> \in B
          BY <1>1, <1>3
        <4> HIDE DEF A, B, moved
        <4> QED BY <1>2, <3>1, <4>1, <4>2, <4>3
      <3> QED BY <1>1, <3>2, <3>3
    <2> HIDE DEF A, B, moved
    <2> QED BY <2>1, <2>2, <2>3, <2>4
  <1>5. IsFiniteSet(A) /\ IsFiniteSet(B)
    BY LoadsFinite
  <1>6. IsFiniteSet(moved) /\ Cardinality(moved) = Cardinality(B)
    <2> DEFINE m == [p \in B |-> <<p[1] + n, p[2]>>]
    <2>1. m \in [B -> moved] /\ \A y \in moved : \E z \in B : m[z] = y
      OBVIOUS
    <2>2. ASSUME NEW y \in B, NEW z \in B, m[y] = m[z] PROVE y = z
      <3> HIDE DEF A, B
      <3>1. /\ y = <<y[1], y[2]>> /\ y[1] \in Nat
            /\ z = <<z[1], z[2]>> /\ z[1] \in Nat
        BY <1>1, <1>2
      <3>2. y[1] + n = z[1] + n /\ y[2] = z[2]
        BY <2>2
      <3>3. y[1] = z[1]
        BY <1>1, <3>1, <3>2
      <3> QED BY <3>1, <3>2, <3>3
    <2> HIDE DEF m, moved
    <2> QED BY <1>5, <2>1, <2>2, SameSize
  <1>7. A \cap moved = {}
    <2>1. ASSUME NEW i \in 1 .. n, NEW h \in Nat
          PROVE  <<i, h>> \notin moved
      <3>1. i - n \notin 1 .. Len(s) /\ i \in Int
        BY <1>1
      <3> QED BY <1>2, <1>3, <3>1
    <2> HIDE DEF A, B, moved
    <2> QED BY <1>2, <2>1
  <1> HIDE DEF A, B, moved
  <1>8. Cardinality(A \cup moved) = Cardinality(A) + Cardinality(moved)
    BY <1>5, <1>6, <1>7, Disjoint
  <1> QED BY <1>4, <1>6, <1>8 DEF Weight, A, B

LEMMA WeightNone == \A k, x : Weight(<<>>, k, x) = 0
  <1>1. \A k, x : Loads(<<>>, k, x) = {}
    BY DEF Loads
  <1> QED BY <1>1, FS_EmptySet DEF Weight

LEMMA WeightOne ==
    ASSUME NEW f \in FrameSet, NEW k, NEW x
    PROVE  Weight(<<f>>, k, x) = Load(k, x, f)
  <1> DEFINE N == 1 .. Load(k, x, f)
  <1> DEFINE m == [n \in N |-> <<1, n>>]
  <1> DEFINE T == Loads(<<f>>, k, x)
  <1>1. Load(k, x, f) \in Nat
    BY LoadNat
  <1>2. IsFiniteSet(N) /\ Cardinality(N) = Load(k, x, f)
    BY <1>1, FS_Interval
  <1>3. DOMAIN <<f>> = {1} /\ <<f>>[1] = f
    OBVIOUS
  <1>4. T = {1} \X N
    <2>1. N \subseteq Nat
      BY <1>1
    <2> QED BY <1>3, <2>1 DEF Loads
  <1>5. /\ m \in [N -> T] /\ \A y, z \in N : m[y] = m[z] => y = z
        /\ \A y \in T : \E z \in N : m[z] = y
    <2> HIDE DEF N, T
    <2> QED BY <1>4
  <1> HIDE DEF m, N, T
  <1>6. Cardinality(T) = Cardinality(N)
    BY <1>2, <1>5, SameSize
  <1> QED BY <1>2, <1>6 DEF Weight, T

-----------------------------------------------------------------------------
(* Totals.                                                                 *)

LEMMA AllLoadsFinite ==
    ASSUME NEW rest \in [Threads -> Seq(FrameSet)], NEW k, NEW x
    PROVE  IsFiniteSet(AllLoads(rest, k, x))
  <1> DEFINE Mine(t) == {t} \X Loads(rest[t], k, x)
  <1> DEFINE S == {Mine(t) : t \in Threads}
  <1>1. ASSUME NEW t \in Threads PROVE IsFiniteSet(Mine(t))
    <2>1. IsFiniteSet({t}) /\ IsFiniteSet(Loads(rest[t], k, x))
      BY FS_Singleton, LoadsFinite
    <2> QED BY <2>1, FS_Product
  <1>2. IsFiniteSet(S)
    <2> DEFINE m == [t \in Threads |-> Mine(t)]
    <2> HIDE DEF Mine
    <2>1. m \in Surjection(Threads, S)
      BY DEF Surjection
    <2> HIDE DEF m, S
    <2> QED BY <2>1, ProgramsAssumption, FS_Surjection
  <1>3. IsFiniteSet(UNION S)
    <2> HIDE DEF Mine
    <2>1. \A T \in S : IsFiniteSet(T)
      BY <1>1
    <2> HIDE DEF S
    <2> QED BY <1>2, <2>1, FS_UNION
  <1>4. AllLoads(rest, k, x) \in SUBSET UNION S
    BY DEF AllLoads
  <1> QED BY <1>3, <1>4, FS_Subset

OtherLoads(rest, t, k, x) == {p \in AllLoads(rest, k, x) : p[1] # t}

LEMMA LoadsOfOne ==
    ASSUME NEW rest \in [Threads -> Seq(FrameSet)], NEW k, NEW x,
           NEW t \in Threads
    PROVE  /\ Cardinality(OtherLoads(rest, t, k, x)) \in Nat
           /\ Cardinality(AllLoads(rest, k, x)) =
                 Cardinality(OtherLoads(rest, t, k, x)) + Weight(rest[t], k, x)
  <1> DEFINE all == AllLoads(rest, k, x)
  <1> DEFINE mine == {p \in all : p[1] = t}
  <1> DEFINE others == {p \in all : p[1] # t}
  <1> DEFINE L == Loads(rest[t], k, x)
  <1>1. IsFiniteSet(all) /\ IsFiniteSet(L)
    BY AllLoadsFinite, LoadsFinite
  <1>2. mine = {t} \X L
    <2>1. L \subseteq Nat \X Nat
      BY DEF Loads
    <2> HIDE DEF L
    <2>2. \A p \in {t} \X L : p = <<t, p[2]>> /\ p[2] \in L
      OBVIOUS
    <2>3. \A p \in mine : p = <<t, p[2]>> /\ p[2] \in L
      BY DEF AllLoads, L
    <2>4. \A y \in L : <<t, y>> \in mine
      BY <2>1 DEF AllLoads, L
    <2> QED BY <2>2, <2>3, <2>4
  <1>3. IsFiniteSet(others)
    <2>1. others \in SUBSET all
      OBVIOUS
    <2> HIDE DEF others, all
    <2> QED BY <1>1, <2>1, FS_Subset
  <1>4. IsFiniteSet(mine) /\ Cardinality(mine) = Cardinality(L)
    <2> DEFINE m == [y \in L |-> <<t, y>>]
    <2> HIDE DEF L, mine
    <2>1. /\ m \in [L -> mine] /\ \A y, z \in L : m[y] = m[z] => y = z
          /\ \A y \in mine : \E z \in L : m[z] = y
      BY <1>2
    <2> HIDE DEF m
    <2> QED BY <1>1, <2>1, SameSize
  <1>5. all = others \cup mine /\ others \cap mine = {}
    OBVIOUS
  <1> HIDE DEF mine, others, all, L
  <1>6. /\ Cardinality(all) = Cardinality(others) + Cardinality(mine)
        /\ Cardinality(others) \in Nat
    BY <1>3, <1>4, <1>5, Disjoint
  <1>7. others = OtherLoads(rest, t, k, x)
    BY DEF others, all, OtherLoads
  <1> QED BY <1>4, <1>6, <1>7 DEF all, L, Weight

LEMMA OneRestChanges ==
    \A k, x : \A rest, new \in [Threads -> Seq(FrameSet)], t \in Threads :
       (\A u \in Threads : u # t => new[u] = rest[u]) =>
          /\ Cardinality(AllLoads(rest, k, x)) \in Nat
          /\ Cardinality(AllLoads(new, k, x)) \in Nat
          /\ Weight(rest[t], k, x) =< Cardinality(AllLoads(rest, k, x))
          /\ Cardinality(AllLoads(new, k, x)) =
                (Cardinality(AllLoads(rest, k, x)) - Weight(rest[t], k, x))
                   + Weight(new[t], k, x)
  <1> SUFFICES
        ASSUME NEW k, NEW x, NEW rest \in [Threads -> Seq(FrameSet)],
               NEW new \in [Threads -> Seq(FrameSet)], NEW t \in Threads,
               \A u \in Threads : u # t => new[u] = rest[u]
        PROVE  /\ Cardinality(AllLoads(rest, k, x)) \in Nat
               /\ Cardinality(AllLoads(new, k, x)) \in Nat
               /\ Weight(rest[t], k, x) =< Cardinality(AllLoads(rest, k, x))
               /\ Cardinality(AllLoads(new, k, x)) =
                     (Cardinality(AllLoads(rest, k, x)) - Weight(rest[t], k, x))
                        + Weight(new[t], k, x)
    OBVIOUS
  <1>1. OtherLoads(new, t, k, x) = OtherLoads(rest, t, k, x)
    BY DEF AllLoads, OtherLoads
  <1>2. Weight(rest[t], k, x) \in Nat /\ Weight(new[t], k, x) \in Nat
    BY LoadsFinite
  <1>3. /\ Cardinality(AllLoads(rest, k, x)) =
              Cardinality(OtherLoads(rest, t, k, x)) + Weight(rest[t], k, x)
        /\ Cardinality(AllLoads(new, k, x)) =
              Cardinality(OtherLoads(new, t, k, x)) + Weight(new[t], k, x)
        /\ Cardinality(OtherLoads(rest, t, k, x)) \in Nat
    BY LoadsOfOne
  <1> QED BY <1>1, <1>2, <1>3

-----------------------------------------------------------------------------
(* The stacks and the programs.                                            *)

LEMMA CallsTyped ==
    ASSUME NEW f \in Calls
    PROVE  /\ f \in FrameSet /\ Typed(f)
           /\ f.op \in {"make", "get", "wait_until", "start", "set", "drop",
                        "except", "convert", "callback"}
  <1>1. ASSUME NEW o \in Fns, f = Frame("make", o, Args[o])
        PROVE  f \in FrameSet /\ Typed(f) /\ f.op = "make"
    <2>1. Args[o] \in Seq(Vals)
      <3>1. Args[o] \in Seq(States) /\ States \subseteq Vals
        BY StatesAssumption DEF Vals
      <3> QED BY <3>1, SeqMonotonic
    <2>2. \A i \in DOMAIN Args[o] : Args[o][i] \in ArgsOf(o)
      BY DEF ArgsOf
    <2>3. /\ f.op = "make" /\ f.of = o /\ f.v = Args[o]
          /\ f = [op |-> f.op, of |-> f.of, v |-> f.v]
      BY <1>1 DEF Frame
    <2>4. f \in FrameSet
      BY <2>1, <2>3 DEF FrameSet, Ops, FnOps, States
    <2> QED BY <2>2, <2>3, <2>4
        DEF Typed, FnOps, SourceOps, PlaceOps, CallOps
  <1>2. ASSUME NEW o \in States, NEW op \in {"get", "wait_until"},
               f = Frame(op, o, <<>>)
        PROVE  f \in FrameSet /\ Typed(f) /\ f.op = op
    BY <1>2 DEF Frame, FrameSet, Ops, Typed, FnOps, SourceOps, PlaceOps,
                CallOps
  <1>3. ASSUME NEW o \in States, NEW how \in {"sync", "async"},
               f = Frame("start", o, <<how>>)
        PROVE  f \in FrameSet /\ Typed(f) /\ f.op = "start"
    BY <1>3 DEF Frame, FrameSet, Ops, Typed, FnOps, SourceOps, PlaceOps,
                CallOps, Vals, Words
  <1>4. ASSUME NEW o \in Promises, NEW r \in {"value", "exc"},
               f = Frame("set", o, <<r, "user">>)
        PROVE  f \in FrameSet /\ Typed(f) /\ f.op = "set"
    BY <1>4 DEF Frame, FrameSet, Ops, Typed, FnOps, SourceOps, PlaceOps,
                CallOps, Vals, Words, States
  <1>5. ASSUME NEW o \in Promises, NEW op \in {"drop", "except"},
               f = Frame(op, o, <<>>)
        PROVE  f \in FrameSet /\ Typed(f) /\ f.op = op
    BY <1>5 DEF Frame, FrameSet, Ops, Typed, FnOps, SourceOps, PlaceOps,
                CallOps, PromiseOps, States
  <1>6. ASSUME NEW o \in Promises, NEW src \in States,
               f = Frame("convert", o, <<src>>)
        PROVE  f \in FrameSet /\ Typed(f) /\ f.op = "convert"
    <2>1. <<src>> \in Seq(Vals)
      BY DEF Vals
    <2> QED BY <1>6, <2>1 DEF Frame, FrameSet, Ops, Typed, FnOps, SourceOps,
                              PlaceOps, CallOps, States
  <1>7. ASSUME NEW c \in Callbacks, NEW how \in {"start", "defer"},
               f = Frame("callback", On[c], <<c, how>>)
        PROVE  f \in FrameSet /\ Typed(f) /\ f.op = "callback"
    <2>1. <<c, how>> \in Seq(Vals) /\ On[c] \in States
      BY CallbacksAssumption DEF Vals, Words
    <2> QED BY <1>7, <2>1 DEF Frame, FrameSet, Ops, Typed, FnOps, SourceOps,
                              PlaceOps, CallOps
  <1>8. \/ \E o \in Fns : f = Frame("make", o, Args[o])
        \/ \E o \in States, op \in {"get", "wait_until"} :
              f = Frame(op, o, <<>>)
        \/ \E o \in States, how \in {"sync", "async"} :
              f = Frame("start", o, <<how>>)
        \/ \E o \in Promises, r \in {"value", "exc"} :
              f = Frame("set", o, <<r, "user">>)
        \/ \E o \in Promises, op \in {"drop", "except"} : f = Frame(op, o, <<>>)
        \/ \E o \in Promises, src \in States : f = Frame("convert", o, <<src>>)
        \/ \E c \in Callbacks, how \in {"start", "defer"} :
              f = Frame("callback", On[c], <<c, how>>)
    BY SMTT(30) DEF Calls
  <1> QED BY <1>1, <1>2, <1>3, <1>4, <1>5, <1>6, <1>7, <1>8

LEMMA StacksAndPrograms ==
    ASSUME Frames
    PROVE  /\ stack \in [Threads -> Seq(FrameSet)]
           /\ prog \in [Threads -> Seq(FrameSet)]
           /\ Rest \in [Threads -> Seq(FrameSet)]
           /\ \A t \in Threads : Rest[t] = stack[t] \o prog[t]
           /\ \A t \in Threads : \A i \in DOMAIN stack[t] :
                 stack[t][i] \in FrameSet /\ Typed(stack[t][i])
  <1> DEFINE T == {f \in FrameSet : Typed(f)}
  <1>1. stack \in [Threads -> Seq(T)] /\ prog \in [Threads -> Seq(Calls)]
    BY DEF Frames
  <1>2. T \subseteq FrameSet /\ Calls \subseteq FrameSet
    BY CallsTyped
  <1>3. ASSUME NEW t \in Threads
        PROVE  /\ stack[t] \in Seq(FrameSet) /\ prog[t] \in Seq(FrameSet)
               /\ \A i \in DOMAIN stack[t] : stack[t][i] \in T
    <2>1. stack[t] \in Seq(T) /\ prog[t] \in Seq(Calls)
      BY <1>1
    <2> HIDE DEF T
    <2> QED BY <1>2, <2>1, SeqMonotonic, SeqDomain
  <1>4. stack \in [Threads -> Seq(FrameSet)]
        /\ prog \in [Threads -> Seq(FrameSet)]
    BY <1>1, <1>3
  <1>5. \A t \in Threads : stack[t] \o prog[t] \in Seq(FrameSet)
    BY <1>3, ConcatProperties
  <1>6. \A t \in Threads : Rest[t] = stack[t] \o prog[t]
    BY DEF Rest
  <1>7. Rest \in [Threads -> Seq(FrameSet)]
    BY <1>5 DEF Rest
  <1> QED BY <1>3, <1>4, <1>6, <1>7

LEMMA TopTyped ==
    ASSUME Frames, NEW t \in Threads, stack[t] # <<>>
    PROVE  /\ Top(t) = stack[t][1] /\ 1 \in DOMAIN stack[t]
           /\ Top(t) \in FrameSet /\ Typed(Top(t)) /\ Known(Top(t))
           /\ Tail(stack[t]) \in Seq(FrameSet)
           /\ stack[t] = <<Top(t)>> \o Tail(stack[t])
           /\ Len(stack[t]) \in Nat \ {0}
           /\ Len(Tail(stack[t])) = Len(stack[t]) - 1
           /\ \A i \in 1 .. Len(Tail(stack[t])) :
                 Tail(stack[t])[i] = stack[t][i + 1]
  <1>1. stack[t] \in Seq(FrameSet)
    BY StacksAndPrograms
  <1>2. Len(stack[t]) \in Nat \ {0} /\ DOMAIN stack[t] = 1 .. Len(stack[t])
    BY <1>1, EmptySeq, LenProperties
  <1>3. 1 \in DOMAIN stack[t] /\ Top(t) = stack[t][1]
    BY <1>1, <1>2 DEF Top
  <1>4. /\ Tail(stack[t]) \in Seq(FrameSet)
        /\ Len(Tail(stack[t])) = Len(stack[t]) - 1
        /\ \A i \in 1 .. Len(Tail(stack[t])) :
              Tail(stack[t])[i] = stack[t][i + 1]
    BY <1>1, HeadTailProperties
  <1>5. Top(t) \in FrameSet /\ Typed(Top(t)) /\ Known(Top(t))
    BY <1>3, StacksAndPrograms DEF Frames
  <1>6. stack[t] = <<Top(t)>> \o Tail(stack[t])
    BY <1>1, <1>2 DEF Top
  <1> QED BY <1>2, <1>3, <1>4, <1>5, <1>6

LEMMA ConcatFrames ==
    \A a, b, c \in Seq(FrameSet) : (a \o b) \o c = a \o (b \o c)
  BY ConcatAssociative

\* The frame on top of the stack of t makes way for the frames s.
Moves(t, s) ==
    /\ stack[t] # <<>> /\ s \in Seq(FrameSet)
    /\ stack' = [stack EXCEPT ![t] = s \o Tail(@)]
    /\ prog' = prog

LEMMA MoveChangesTotals ==
    ASSUME Frames, NEW t \in Threads, NEW s, Moves(t, s), NEW k, NEW x
    PROVE  /\ Total(k, x) \in Nat /\ Load(k, x, Top(t)) =< Total(k, x)
           /\ Total(k, x)' \in Nat
           /\ Total(k, x)' =
                 (Total(k, x) - Load(k, x, Top(t))) + Weight(s, k, x)
  <1> DEFINE below == Tail(stack[t]) \o prog[t]
  <1>1. /\ Rest \in [Threads -> Seq(FrameSet)]
        /\ Rest[t] = stack[t] \o prog[t] /\ prog[t] \in Seq(FrameSet)
        /\ stack \in [Threads -> Seq(FrameSet)]
    BY StacksAndPrograms
  <1>2. /\ Top(t) \in FrameSet /\ Tail(stack[t]) \in Seq(FrameSet)
        /\ stack[t] = <<Top(t)>> \o Tail(stack[t])
    BY TopTyped DEF Moves
  <1>3. below \in Seq(FrameSet) /\ <<Top(t)>> \in Seq(FrameSet)
    BY <1>1, <1>2, ConcatProperties
  <1>4. Rest[t] = <<Top(t)>> \o below
    BY <1>1, <1>2, <1>3, ConcatAssociative
  <1>5. s \in Seq(FrameSet) /\ s \o Tail(stack[t]) \in Seq(FrameSet)
    BY <1>2, ConcatProperties DEF Moves
  <1>6. /\ Rest' = [u \in Threads |-> stack'[u] \o prog[u]]
        /\ stack'[t] = s \o Tail(stack[t])
        /\ \A u \in Threads \ {t} : stack'[u] = stack[u]
    BY <1>1 DEF Moves, Rest
  <1>7. Rest'[t] = s \o below
    <2>1. Rest'[t] = (s \o Tail(stack[t])) \o prog[t]
      BY <1>6
    <2>2. (s \o Tail(stack[t])) \o prog[t] = s \o (Tail(stack[t]) \o prog[t])
      BY <1>1, <1>2, <1>5, ConcatFrames
    <2> QED BY <2>1, <2>2
  <1>8. /\ Rest' \in [Threads -> Seq(FrameSet)]
        /\ \A u \in Threads \ {t} : Rest'[u] = Rest[u]
    <2>1. \A u \in Threads : Rest'[u] = stack'[u] \o prog[u]
      BY <1>6
    <2>2. \A u \in Threads \ {t} : Rest'[u] = Rest[u]
      BY <1>6, <2>1, StacksAndPrograms
    <2>3. Rest'[t] \in Seq(FrameSet)
      BY <1>3, <1>5, <1>7, ConcatProperties
    <2>4. \A u \in Threads : Rest'[u] \in Seq(FrameSet)
      BY <1>1, <2>2, <2>3
    <2> QED BY <1>6, <2>1, <2>2, <2>4
  <1>9. /\ Weight(Rest[t], k, x) = Load(k, x, Top(t)) + Weight(below, k, x)
        /\ Weight(Rest'[t], k, x) = Weight(s, k, x) + Weight(below, k, x)
    <2> DEFINE one == <<Top(t)>>
    <2>1. /\ Weight(one \o below, k, x) =
                Weight(one, k, x) + Weight(below, k, x)
          /\ Weight(s \o below, k, x) = Weight(s, k, x) + Weight(below, k, x)
      <3> HIDE DEF below, one
      <3>1. one \in Seq(FrameSet)
        BY <1>3 DEF one
      <3> QED BY <1>3, <1>5, <3>1, WeightConcat
    <2>2. Weight(<<Top(t)>>, k, x) = Load(k, x, Top(t))
      BY <1>2, WeightOne
    <2> QED BY <1>4, <1>7, <2>1, <2>2
  <1>10. /\ Weight(below, k, x) \in Nat /\ Load(k, x, Top(t)) \in Nat
         /\ Weight(s, k, x) \in Nat
    BY <1>2, <1>3, <1>5, LoadsFinite, LoadNat
  <1> HIDE DEF below
  <1> DEFINE A == Cardinality(AllLoads(Rest, k, x))
  <1> DEFINE B == Cardinality(AllLoads(Rest', k, x))
  <1>11. \A new \in [Threads -> Seq(FrameSet)] :
            (\A u \in Threads : u # t => new[u] = Rest[u]) =>
               /\ Cardinality(AllLoads(Rest, k, x)) \in Nat
               /\ Cardinality(AllLoads(new, k, x)) \in Nat
               /\ Weight(Rest[t], k, x) =< Cardinality(AllLoads(Rest, k, x))
               /\ Cardinality(AllLoads(new, k, x)) =
                     (Cardinality(AllLoads(Rest, k, x)) - Weight(Rest[t], k, x))
                        + Weight(new[t], k, x)
    BY <1>1, OneRestChanges, Zenon
  <1>12. /\ A \in Nat /\ B \in Nat /\ Weight(Rest[t], k, x) =< A
         /\ B = (A - Weight(Rest[t], k, x)) + Weight(Rest'[t], k, x)
    BY <1>8, <1>11
  <1>13. Total(k, x) = A /\ Total(k, x)' = B
    BY DEF Total
  <1> HIDE DEF A, B
  <1> QED BY <1>9, <1>10, <1>12, <1>13

LEMMA PairsConcat ==
    \A f, g \in FrameSet : <<f, g>> = <<f>> \o <<g>>
  <1> SUFFICES ASSUME NEW f \in FrameSet, NEW g \in FrameSet
               PROVE  <<f, g>> = <<f>> \o <<g>>
    OBVIOUS
  <1> DEFINE c == <<f>> \o <<g>>
  <1> DEFINE d == <<f, g>>
  <1>1. c \in Seq(FrameSet) /\ Len(c) = 2 /\ c[1] = f /\ c[2] = g
    OBVIOUS
  <1>2. d \in Seq(FrameSet) /\ Len(d) = 2 /\ d[1] = f /\ d[2] = g
    OBVIOUS
  <1> HIDE DEF c, d
  <1>3. c = d
    BY <1>1, <1>2, SeqEqual
  <1> QED BY <1>3 DEF c, d

LEMMA TriplesConcat ==
    \A f, g, h \in FrameSet : <<f, g, h>> = <<f, g>> \o <<h>>
  <1> SUFFICES ASSUME NEW f \in FrameSet, NEW g \in FrameSet,
                      NEW h \in FrameSet
               PROVE  <<f, g, h>> = <<f, g>> \o <<h>>
    OBVIOUS
  <1> DEFINE c == <<f, g>> \o <<h>>
  <1> DEFINE d == <<f, g, h>>
  <1>1. c \in Seq(FrameSet) /\ Len(c) = 3 /\ c[1] = f /\ c[2] = g /\ c[3] = h
    OBVIOUS
  <1>2. d \in Seq(FrameSet) /\ Len(d) = 3 /\ d[1] = f /\ d[2] = g /\ d[3] = h
    OBVIOUS
  <1> HIDE DEF c, d
  <1>3. c = d
    BY <1>1, <1>2, SeqEqual
  <1> QED BY <1>3 DEF c, d

LEMMA Weights ==
    /\ \A k, x : Weight(<<>>, k, x) = 0
    /\ \A f \in FrameSet : \A k, x : /\ Load(k, x, f) \in Nat
                                     /\ Weight(<<f>>, k, x) = Load(k, x, f)
    /\ \A f, g \in FrameSet : \A k, x :
          Weight(<<f, g>>, k, x) = Load(k, x, f) + Load(k, x, g)
    /\ \A f, g, h \in FrameSet : \A k, x :
          Weight(<<f, g, h>>, k, x) =
             Load(k, x, f) + Load(k, x, g) + Load(k, x, h)
  <1>1. \A f \in FrameSet : \A k, x : /\ Load(k, x, f) \in Nat
                                      /\ Weight(<<f>>, k, x) = Load(k, x, f)
    BY WeightOne, LoadNat
  <1>2. ASSUME NEW f \in FrameSet, NEW g \in FrameSet, NEW k, NEW x
        PROVE  Weight(<<f, g>>, k, x) = Load(k, x, f) + Load(k, x, g)
    <2> DEFINE a == <<f>>
    <2> DEFINE b == <<g>>
    <2>1. a \in Seq(FrameSet) /\ b \in Seq(FrameSet)
      OBVIOUS
    <2>2. <<f, g>> = a \o b
      BY PairsConcat
    <2>3. Weight(a, k, x) = Load(k, x, f) /\ Weight(b, k, x) = Load(k, x, g)
      BY <1>1
    <2> HIDE DEF a, b
    <2>4. Weight(a \o b, k, x) = Weight(a, k, x) + Weight(b, k, x)
      BY <2>1, WeightConcat
    <2> QED BY <2>2, <2>3, <2>4
  <1>3. ASSUME NEW f \in FrameSet, NEW g \in FrameSet, NEW h \in FrameSet,
               NEW k, NEW x
        PROVE  Weight(<<f, g, h>>, k, x) =
                  Load(k, x, f) + Load(k, x, g) + Load(k, x, h)
    <2> DEFINE a == <<f, g>>
    <2> DEFINE b == <<h>>
    <2>1. a \in Seq(FrameSet) /\ b \in Seq(FrameSet)
      OBVIOUS
    <2>2. <<f, g, h>> = a \o b
      BY TriplesConcat
    <2>3. /\ Weight(a, k, x) = Load(k, x, f) + Load(k, x, g)
          /\ Weight(b, k, x) = Load(k, x, h)
      BY <1>1, <1>2
    <2> HIDE DEF a, b
    <2>4. Weight(a \o b, k, x) = Weight(a, k, x) + Weight(b, k, x)
      BY <2>1, WeightConcat
    <2> QED BY <2>2, <2>3, <2>4
  <1> QED BY <1>1, <1>2, <1>3, WeightNone

-----------------------------------------------------------------------------
(* Steps of the frame on top of a stack.                                   *)

\* What a step never takes back.
Forward ==
    /\ \A o \in States : /\ made[o] => made'[o]
                         /\ called[o] => called'[o]
                         /\ state[o] # "deferred" => state'[o] # "deferred"
                         /\ Ready(o) => Ready(o)'
    /\ \A o \in States : ~Ready(o)' =>
          \A i \in DOMAIN deps[o] : deps[o][i] \notin Fns =>
             i \in DOMAIN deps'[o] /\ deps'[o][i] \notin Fns

LEMMA SeqOf ==
    \A S, T : \A s \in Seq(S) :
       (\A i \in 1 .. Len(s) : s[i] \in T) => s \in Seq(T)
  OBVIOUS

LEMMA ArgsAreStates ==
    \A o \in Fns : /\ o \in States /\ Args[o] \in Seq(States)
                   /\ \A a \in ArgsOf(o) : a \in States
                   /\ Args[o] \in Seq(Vals)
  <1> SUFFICES ASSUME NEW o \in Fns
               PROVE  /\ o \in States /\ Args[o] \in Seq(States)
                      /\ \A a \in ArgsOf(o) : a \in States
                      /\ Args[o] \in Seq(Vals)
    OBVIOUS
  <1>1. Args[o] \in Seq(States)
    BY StatesAssumption
  <1>2. \A i \in DOMAIN Args[o] : Args[o][i] \in States
    BY <1>1, SeqDomain
  <1>3. States \subseteq Vals
    BY DEF Vals
  <1>4. Args[o] \in Seq(Vals)
    BY <1>1, <1>3, SeqMonotonic
  <1> QED BY <1>1, <1>2, <1>4 DEF States, ArgsOf

LEMMA KnownStays ==
    ASSUME Forward, NEW f \in FrameSet, Typed(f), Known(f)
    PROVE  Known(f)'
  <1>1. f.of \in States
    BY DEF FrameSet
  <1>2. f.op \in SourceOps \cup PlaceOps => f.v[1] \in States
    BY DEF Typed, SourceOps, PlaceOps
  <1>3. f.op = "make" => \A a \in ArgsOf(f.of) : made'[a]
    <2>1. f.op = "make" => f.of \in Fns
      BY DEF Typed, FnOps
    <2> QED BY <2>1, ArgsAreStates DEF Known, Forward
  <1>4. /\ f.op \in StartOps => made'[f.of]
        /\ f.op \in {"mark", "begin", "hold", "claim"} => called'[f.of]
        /\ f.op \in {"args", "invoke", "job", "run", "store", "publish"} =>
              state'[f.of] # "deferred"
        /\ f.op \in {"ready", "swap", "deliver", "call"} => Ready(f.of)'
    BY <1>1 DEF Known, Forward
  <1>5. f.op \in SourceOps => made'[f.v[1]]
    BY <1>2 DEF Known, Forward, Typed
  <1>6. f.op \in PlaceOps /\ ~Ready(f.v[1])' =>
          f.v[2] \in DOMAIN deps'[f.v[1]] /\ deps'[f.v[1]][f.v[2]] \notin Fns
    <2> SUFFICES ASSUME f.op \in PlaceOps, ~Ready(f.v[1])'
                 PROVE  /\ f.v[2] \in DOMAIN deps'[f.v[1]]
                        /\ deps'[f.v[1]][f.v[2]] \notin Fns
      OBVIOUS
    <2>1. f.v[1] \in States
      BY DEF Typed, PlaceOps, SourceOps
    <2>2. ~Ready(f.v[1])
      BY <2>1 DEF Forward
    <2>3. f.v[2] \in DOMAIN deps[f.v[1]] /\ deps[f.v[1]][f.v[2]] \notin Fns
      BY <2>2 DEF Known
    <2> QED BY <2>1, <2>3 DEF Forward
  <1> QED BY <1>3, <1>4, <1>5, <1>6 DEF Known

LEMMA NewStack ==
    ASSUME Frames, NEW t \in Threads, NEW s, Moves(t, s)
    PROVE  /\ stack'[t] = s \o Tail(stack[t])
           /\ s \in Seq(FrameSet) /\ stack'[t] \in Seq(FrameSet)
           /\ Len(s) \in Nat /\ DOMAIN s = 1 .. Len(s)
           /\ Len(stack[t]) \in Nat \ {0}
           /\ DOMAIN stack[t] = 1 .. Len(stack[t])
           /\ DOMAIN stack'[t] = 1 .. Len(s) + Len(stack[t]) - 1
           /\ \A i \in DOMAIN stack'[t] :
                 IF i =< Len(s) THEN /\ i \in DOMAIN s
                                     /\ stack'[t][i] = s[i]
                 ELSE /\ i - Len(s) + 1 \in DOMAIN stack[t]
                      /\ stack'[t][i] = stack[t][i - Len(s) + 1]
           /\ \A u \in Threads : u # t => stack'[u] = stack[u]
           /\ DOMAIN stack' = Threads
  <1>1. stack \in [Threads -> Seq(FrameSet)]
    BY StacksAndPrograms
  <1>2. /\ stack'[t] = s \o Tail(stack[t]) /\ s \in Seq(FrameSet)
        /\ \A u \in Threads : u # t => stack'[u] = stack[u]
        /\ DOMAIN stack' = Threads
    BY <1>1 DEF Moves
  <1>3. /\ Tail(stack[t]) \in Seq(FrameSet)
        /\ Len(stack[t]) \in Nat \ {0}
        /\ Len(Tail(stack[t])) = Len(stack[t]) - 1
        /\ \A i \in 1 .. Len(stack[t]) - 1 :
              Tail(stack[t])[i] = stack[t][i + 1]
    BY TopTyped DEF Moves
  <1>4. DOMAIN stack[t] = 1 .. Len(stack[t])
    BY <1>1, SeqDomain
  <1> DEFINE r == Tail(stack[t])
  <1>5. /\ s \o r \in Seq(FrameSet)
        /\ DOMAIN s = 1 .. Len(s) /\ Len(s) \in Nat
        /\ DOMAIN (s \o r) = 1 .. Len(s) + Len(r)
        /\ \A i \in 1 .. Len(s) + Len(r) :
              (s \o r)[i] = IF i =< Len(s) THEN s[i] ELSE r[i - Len(s)]
    <2> HIDE DEF r
    <2>1. r \in Seq(FrameSet)
      BY <1>3 DEF r
    <2> QED BY <1>2, <2>1, Concat
  <1> DEFINE new == s \o r
  <1>6. stack'[t] = new
    BY <1>2
  <1>7. \A i \in DOMAIN new :
            IF i =< Len(s) THEN i \in DOMAIN s /\ new[i] = s[i]
            ELSE /\ i - Len(s) + 1 \in DOMAIN stack[t]
                 /\ new[i] = stack[t][i - Len(s) + 1]
    <2> SUFFICES ASSUME NEW i \in 1 .. Len(s) + Len(r)
                 PROVE  IF i =< Len(s) THEN i \in DOMAIN s /\ new[i] = s[i]
                        ELSE /\ i - Len(s) + 1 \in DOMAIN stack[t]
                             /\ new[i] = stack[t][i - Len(s) + 1]
      BY <1>5
    <2>1. CASE i =< Len(s)
      BY <1>5, <2>1
    <2>2. CASE ~(i =< Len(s))
      <3>1. i - Len(s) \in 1 .. Len(stack[t]) - 1
        BY <1>3, <1>5, <2>2
      <3>2. /\ i - Len(s) + 1 \in 1 .. Len(stack[t])
            /\ r[i - Len(s)] = stack[t][i - Len(s) + 1]
        BY <1>3, <1>5, <3>1
      <3> QED BY <1>4, <1>5, <2>2, <3>2
    <2> QED BY <2>1, <2>2
  <1>8. DOMAIN new = 1 .. Len(s) + Len(stack[t]) - 1
    BY <1>3, <1>5
  <1> HIDE DEF new, r
  <1>9. new \in Seq(FrameSet)
    BY <1>5 DEF new
  <1> QED BY <1>2, <1>3, <1>4, <1>5, <1>6, <1>7, <1>8, <1>9

\* The frame on top of the stack of t is replaced by s, as the frames below
\* it expect, and whoever counts on it.
Leads(t, s) ==
    /\ Moves(t, s)
    /\ \A i \in DOMAIN s : Typed(s[i]) /\ Known(s[i])' /\ Fed(s, i)'
    /\ Top(t).op \in {"get", "spin"} =>
          \/ state'[Top(t).of] \in ReadyStates
          \/ /\ s # <<>> /\ s[Len(s)].op \in {"get", "spin"}
             /\ s[Len(s)].of = Top(t).of
Proceeds(t, s) ==
    /\ Leads(t, s)
    /\ Top(t).op \in {"ready", "swap"} =>
          /\ s # <<>> /\ s[1].op \in {"ready", "swap"}
          /\ s[1].of = Top(t).of

LEMMA FramesKept ==
    ASSUME Frames, NEW t \in Threads, NEW s, Moves(t, s), Forward,
           \A i \in DOMAIN s : Typed(s[i]) /\ Known(s[i])'
    PROVE  Frames'
  <1> DEFINE T == {f \in FrameSet : Typed(f)}
  <1>1. /\ stack'[t] \in Seq(FrameSet)
        /\ DOMAIN s = 1 .. Len(s) /\ s \in Seq(FrameSet)
        /\ \A i \in DOMAIN stack'[t] :
                 IF i =< Len(s) THEN /\ i \in DOMAIN s
                                     /\ stack'[t][i] = s[i]
                 ELSE /\ i - Len(s) + 1 \in DOMAIN stack[t]
                      /\ stack'[t][i] = stack[t][i - Len(s) + 1]
        /\ \A u \in Threads : u # t => stack'[u] = stack[u]
        /\ DOMAIN stack' = Threads
    BY NewStack
  <1>2. /\ \A u \in Threads : stack[u] \in Seq(T)
        /\ \A u \in Threads : \A i \in DOMAIN stack[u] :
              stack[u][i] \in FrameSet /\ Typed(stack[u][i])
              /\ Known(stack[u][i])
    BY StacksAndPrograms DEF Frames
  <1>3. \A i \in DOMAIN s : s[i] \in FrameSet
    BY <1>1, SeqDomain
  <1>4. ASSUME NEW i \in DOMAIN stack'[t]
        PROVE  stack'[t][i] \in T /\ Known(stack[t][i])'
    <2>1. CASE i =< Len(s)
      BY <1>1, <1>3, <2>1
    <2>2. CASE ~(i =< Len(s))
      BY <1>1, <1>2, <2>2, KnownStays
    <2> QED BY <2>1, <2>2
  <1>5. ASSUME NEW u \in Threads, u # t, NEW i \in DOMAIN stack'[u]
        PROVE  Known(stack[u][i])'
    BY <1>1, <1>2, <1>5, KnownStays
  <1>6. stack'[t] \in Seq(T)
    <2>1. Len(stack'[t]) \in Nat /\ DOMAIN stack'[t] = 1 .. Len(stack'[t])
      BY <1>1, SeqDomain
    <2>2. \A i \in 1 .. Len(stack'[t]) : stack'[t][i] \in T
      BY <1>4, <2>1
    <2> HIDE DEF T
    <2> QED BY <1>1, <2>2, SeqOf
  <1>7. stack' \in [Threads -> Seq(T)]
    <2>1. \A u \in Threads : stack'[u] \in Seq(T)
      BY <1>1, <1>2, <1>6
    <2>2. stack' = [u \in Threads |-> stack'[u]]
      BY DEF Moves, Frames
    <2> HIDE DEF T
    <2> QED BY <2>1, <2>2
  <1>8. prog' \in [Threads -> Seq(Calls)]
    BY DEF Moves, Frames
  <1>9. \A u \in Threads : \A i \in DOMAIN stack'[u] : Known(stack[u][i])'
    BY <1>4, <1>5
  <1> QED BY <1>7, <1>8, <1>9 DEF Frames

-----------------------------------------------------------------------------
(* What keeps the parts of the invariant.                                  *)

Storing == {"store", "publish"}

LEMMA LockKept ==
    ASSUME Frames, ResultLocked, NEW t \in Threads, NEW s, Moves(t, s),
           Top(t).op \notin Storing, \A i \in DOMAIN s : s[i].op \notin Storing,
           lck' = lck, storage' = storage,
           \A o \in States : Ready(o)' => Ready(o)
    PROVE  ResultLocked'
  <1>1. /\ DOMAIN s = 1 .. Len(s) /\ Len(s) \in Nat
        /\ DOMAIN stack'[t] = 1 .. Len(s) + Len(stack[t]) - 1
        /\ Len(stack[t]) \in Nat
        /\ \A i \in DOMAIN stack'[t] :
              IF i =< Len(s) THEN i \in DOMAIN s /\ stack'[t][i] = s[i]
              ELSE /\ i - Len(s) + 1 \in DOMAIN stack[t]
                   /\ stack'[t][i] = stack[t][i - Len(s) + 1]
        /\ \A u \in Threads : u # t => stack'[u] = stack[u]
    BY NewStack
  <1>2. ASSUME NEW i \in DOMAIN stack'[t]
        PROVE  stack'[t][i].op \notin Storing
    <2>1. CASE i =< Len(s)
      BY <1>1, <2>1
    <2>2. CASE ~(i =< Len(s))
      <3>1. i - Len(s) + 1 # 1
        BY <1>1, <2>2
      <3> QED BY <1>1, <2>2, <3>1 DEF ResultLocked, Storing
    <2> QED BY <2>1, <2>2
  <1>3. ASSUME NEW u \in Threads, NEW i \in DOMAIN stack'[u],
               stack'[u][i].op \in Storing
        PROVE  /\ i = 1 /\ lck'[stack'[u][i].of] = u
               /\ stack'[u][i].op = "publish" =>
                     storage'[stack'[u][i].of] = stack'[u][i].v[1]
    <2>1. u # t
      BY <1>2, <1>3
    <2> QED BY <1>1, <1>3, <2>1 DEF ResultLocked, Storing
  <1>4. \A o \in States : Ready(o)' => lck'[o] = None /\ storage'[o] # "none"
    BY DEF ResultLocked
  <1> QED BY <1>3, <1>4 DEF ResultLocked, Storing

LEMMA ListsKept ==
    ASSUME Frames, ListsTaken, NEW t \in Threads, NEW s, Proceeds(t, s),
           \A o \in States :
              Ready(o)' /\ (single'[o] # None \/ chain'[o] # <<>>
                            \/ deps'[o] # <<>>) =>
                 Ready(o) /\ (single[o] # None \/ chain[o] # <<>>
                              \/ deps[o] # <<>>)
    PROVE  ListsTaken'
  <1>1. /\ stack'[t] = s \o Tail(stack[t]) /\ s \in Seq(FrameSet)
        /\ stack'[t] \in Seq(FrameSet)
        /\ DOMAIN s = 1 .. Len(s) /\ Len(s) \in Nat
        /\ DOMAIN stack'[t] = 1 .. Len(s) + Len(stack[t]) - 1
        /\ Len(stack[t]) \in Nat \ {0}
        /\ \A i \in DOMAIN stack'[t] :
              IF i =< Len(s) THEN i \in DOMAIN s /\ stack'[t][i] = s[i]
              ELSE /\ i - Len(s) + 1 \in DOMAIN stack[t]
                   /\ stack'[t][i] = stack[t][i - Len(s) + 1]
        /\ \A u \in Threads : u # t => stack'[u] = stack[u]
    BY NewStack DEF Proceeds, Leads
  <1>2. SUFFICES
          ASSUME NEW o \in States, Ready(o)',
                 single'[o] # None \/ chain'[o] # <<>> \/ deps'[o] # <<>>
          PROVE  \E u \in Threads : /\ stack'[u] # <<>> /\ Top(u)'.of = o
                                    /\ Top(u)'.op \in {"ready", "swap"}
    BY DEF ListsTaken
  <1>3. PICK u \in Threads : /\ stack[u] # <<>> /\ Top(u).of = o
                             /\ Top(u).op \in {"ready", "swap"}
    BY <1>2 DEF ListsTaken
  <1>4. CASE u # t
    BY <1>1, <1>3, <1>4 DEF Top
  <1>5. CASE u = t
    <2>1. s # <<>> /\ s[1].op \in {"ready", "swap"} /\ s[1].of = o
      BY <1>3, <1>5 DEF Proceeds, Leads
    <2>2. 1 =< Len(s)
      BY <1>1, <2>1, EmptySeq
    <2>3. 1 \in DOMAIN stack'[t] /\ stack'[t][1] = s[1]
      BY <1>1, <2>2
    <2>4. stack'[t] # <<>>
      BY <2>3
    <2>5. Top(t)' = stack'[t][1]
      BY <1>1, <2>4 DEF Top
    <2> QED BY <2>1, <2>3, <2>4, <2>5
  <1> QED BY <1>4, <1>5

\* A function that is run has its arguments.
RunsSound ==
    \A o \in Fns : runs'[o] > 0 =>
       runs[o] > 0 \/ \A a \in ArgsOf(o) : Ready(a)

LEMMA ArgsKept ==
    ASSUME Frames, ArgumentsReady, NEW t \in Threads, NEW s, Leads(t, s),
           Forward, RunsSound
    PROVE  ArgumentsReady'
  <1>1. /\ DOMAIN s = 1 .. Len(s) /\ Len(s) \in Nat
        /\ DOMAIN stack'[t] = 1 .. Len(s) + Len(stack[t]) - 1
        /\ Len(stack[t]) \in Nat \ {0}
        /\ \A i \in DOMAIN stack'[t] :
              IF i =< Len(s) THEN i \in DOMAIN s /\ stack'[t][i] = s[i]
              ELSE /\ i - Len(s) + 1 \in DOMAIN stack[t]
                   /\ stack'[t][i] = stack[t][i - Len(s) + 1]
        /\ \A u \in Threads : u # t => stack'[u] = stack[u]
    BY NewStack DEF Leads
  <1>2. \A o \in Fns, a \in States : a \in ArgsOf(o) /\ Ready(a) => Ready(a)'
    BY DEF Forward
  <1>3. \A u \in Threads : \A i \in DOMAIN stack[u] :
           stack[u][i].op = "run" => stack[u][i].of \in Fns
    BY StacksAndPrograms DEF Typed, FnOps
  <1>4. ASSUME NEW u \in Threads, NEW i \in DOMAIN stack[u],
               stack[u][i].op = "run", NEW a \in ArgsOf(stack[u][i].of)
        PROVE  /\ a \in States /\ (Ready(a) => Ready(a)')
               /\ \/ Ready(a)
                  \/ \E k \in DOMAIN stack[u][i].v : stack[u][i].v[k] = a
                  \/ /\ i > 1 /\ stack[u][i - 1].op \in {"get", "spin"}
                     /\ stack[u][i - 1].of = a
    BY <1>2, <1>3, <1>4, ArgsAreStates DEF ArgumentsReady, Fed
  <1>5. ASSUME NEW i \in DOMAIN stack'[t] PROVE Fed(stack[t], i)'
    <2>1. CASE i =< Len(s)
      <3>1. i \in DOMAIN s /\ stack'[t][i] = s[i] /\ Fed(s, i)'
        BY <1>1, <2>1 DEF Leads
      <3>2. i > 1 => i - 1 \in DOMAIN stack'[t] /\ i - 1 =< Len(s)
        BY <1>1, <2>1
      <3>3. i > 1 => stack'[t][i - 1] = s[i - 1]
        BY <1>1, <3>2
      <3> QED BY <3>1, <3>3 DEF Fed
    <2>2. CASE ~(i =< Len(s))
      <3> DEFINE j == i - Len(s) + 1
      <3>1. j \in DOMAIN stack[t] /\ stack'[t][i] = stack[t][j] /\ j > 1
            /\ i > Len(s) /\ i \in Nat
        BY <1>1, <2>2
      <3>2. SUFFICES ASSUME stack[t][j].op = "run",
                            NEW a \in ArgsOf(stack[t][j].of)
                     PROVE  \/ Ready(a)'
                            \/ \E k \in DOMAIN stack[t][j].v :
                                  stack[t][j].v[k] = a
                            \/ /\ i > 1
                               /\ stack'[t][i - 1].op \in {"get", "spin"}
                               /\ stack'[t][i - 1].of = a
        BY <3>1 DEF Fed
      <3> HIDE DEF j
      <3>3. /\ a \in States /\ (Ready(a) => Ready(a)')
            /\ \/ Ready(a)
               \/ \E k \in DOMAIN stack[t][j].v : stack[t][j].v[k] = a
               \/ /\ j > 1 /\ stack[t][j - 1].op \in {"get", "spin"}
                  /\ stack[t][j - 1].of = a
        BY <1>4, <3>1, <3>2
      <3>4. ASSUME stack[t][j - 1].op \in {"get", "spin"},
                   stack[t][j - 1].of = a, ~Ready(a)'
            PROVE  /\ i > 1 /\ stack'[t][i - 1].op \in {"get", "spin"}
                   /\ stack'[t][i - 1].of = a
        <4>1. CASE j = 2
          <5>1. Top(t).op \in {"get", "spin"} /\ Top(t).of = a
            <6>1. Top(t) = stack[t][1]
              BY TopTyped DEF Leads, Moves
            <6> QED BY <3>4, <4>1, <6>1
          <5>2. /\ s # <<>> /\ s[Len(s)].op \in {"get", "spin"}
                /\ s[Len(s)].of = a
            BY <3>4, <5>1 DEF Leads, Ready
          <5>3. Len(s) >= 1
            BY <1>1, <5>2, NewStack, EmptySeq DEF Leads
          <5>4. i - 1 = Len(s)
            BY <1>1, <3>1, <4>1 DEF j
          <5>5. i - 1 \in DOMAIN stack'[t] /\ i - 1 =< Len(s)
            BY <1>1, <5>3, <5>4
          <5>6. stack'[t][i - 1] = s[i - 1]
            BY <1>1, <5>5
          <5> QED BY <5>2, <5>3, <5>4, <5>6, <1>1
        <4>2. CASE j > 2
          <5>1. /\ i - 1 \in DOMAIN stack'[t] /\ ~(i - 1 =< Len(s))
                /\ (i - 1) - Len(s) + 1 = j - 1 /\ i > 1
            BY <1>1, <3>1, <4>2 DEF j
          <5>2. stack'[t][i - 1] = stack[t][j - 1]
            BY <1>1, <5>1
          <5> QED BY <3>4, <5>1, <5>2
        <4>3. j \in Nat
          BY <1>1, <3>1 DEF j
        <4> QED BY <3>1, <4>1, <4>2, <4>3
      <3> QED BY <3>3, <3>4
    <2> QED BY <2>1, <2>2
  <1>6. ASSUME NEW u \in Threads, u # t, NEW i \in DOMAIN stack'[u]
        PROVE  Fed(stack[u], i)'
    <2>1. stack'[u] = stack[u]
      BY <1>1, <1>6
    <2> QED BY <1>4, <1>6, <2>1 DEF Fed
  <1>7. \A o \in Fns : runs'[o] > 0 => \A a \in ArgsOf(o) : Ready(a)'
    BY ArgsAreStates DEF ArgumentsReady, Forward, RunsSound
  <1> QED BY <1>5, <1>6, <1>7 DEF ArgumentsReady

\* The loads that the invariant is about.
Counted(k, x) == /\ k \in Kinds /\ (k = "tell" => x \in Fns)
                 /\ (k = "call" => x \in Callbacks)
Alike(f, g) == \A k, x : Counted(k, x) => Load(k, x, f) = Load(k, x, g)
Parts(f, g, h) ==
    \A k, x : Counted(k, x) => Load(k, x, f) + Load(k, x, g) = Load(k, x, h)
Light(f) == \A k, x : Counted(k, x) => Load(k, x, f) = 0
Same(t, s) ==
    \A k, x : Counted(k, x) => Weight(s, k, x) = Load(k, x, Top(t))
TotalsFixed == \A k, x : Counted(k, x) => Total(k, x)' = Total(k, x)

LEMMA TotalNat ==
    ASSUME Frames
    PROVE  \A k, x : Total(k, x) \in Nat
  <1>1. \A rest \in [Threads -> Seq(FrameSet)] : \A k, x :
           Cardinality(AllLoads(rest, k, x)) \in Nat
    BY AllLoadsFinite, FS_CardinalityType
  <1>2. Rest \in [Threads -> Seq(FrameSet)]
    BY StacksAndPrograms
  <1>3. \A k, x : Cardinality(AllLoads(Rest, k, x)) \in Nat
    BY <1>1, <1>2, Zenon
  <1> QED BY <1>3 DEF Total

LEMMA MoveTotals ==
    ASSUME Frames, NEW t \in Threads, NEW s, Moves(t, s)
    PROVE  \A k, x :
              /\ Total(k, x) \in Nat /\ Load(k, x, Top(t)) =< Total(k, x)
              /\ Total(k, x)' \in Nat
              /\ Load(k, x, Top(t)) \in Nat /\ Weight(s, k, x) \in Nat
              /\ Total(k, x)' =
                    (Total(k, x) - Load(k, x, Top(t))) + Weight(s, k, x)
  <1> SUFFICES ASSUME NEW k, NEW x
               PROVE
              /\ Total(k, x) \in Nat /\ Load(k, x, Top(t)) =< Total(k, x)
              /\ Total(k, x)' \in Nat
              /\ Load(k, x, Top(t)) \in Nat /\ Weight(s, k, x) \in Nat
              /\ Total(k, x)' =
                    (Total(k, x) - Load(k, x, Top(t))) + Weight(s, k, x)
    OBVIOUS
  <1>1. Top(t) \in FrameSet /\ s \in Seq(FrameSet)
    BY TopTyped DEF Moves
  <1>2. Load(k, x, Top(t)) \in Nat /\ Weight(s, k, x) \in Nat
    BY <1>1, LoadNat, LoadsFinite
  <1> QED BY <1>2, MoveChangesTotals

LEMMA TotalsKept ==
    ASSUME Frames, NEW t \in Threads, NEW s, Moves(t, s), Same(t, s)
    PROVE  TotalsFixed
  <1>1. \A k, x : /\ Total(k, x) \in Nat
                  /\ Load(k, x, Top(t)) \in Nat
                  /\ Total(k, x)' =
                        (Total(k, x) - Load(k, x, Top(t))) + Weight(s, k, x)
    BY MoveTotals
  <1> QED BY <1>1 DEF Same, TotalsFixed

LEMMA PromisesKept ==
    ASSUME PromisesCounted, promises' = promises,
           \A o \in States : Total("promise", o)' = Total("promise", o)
    PROVE  PromisesCounted'
  BY DEF PromisesCounted

LEMMA CallsKept ==
    ASSUME CalledOnce, calls' = calls, single' = single, chain' = chain,
           \A c \in Callbacks : Total("call", c)' = Total("call", c)
    PROVE  CalledOnce'
  BY DEF CalledOnce

LEMMA MadeKept ==
    ASSUME MadeOnce, made' = made,
           \A o \in Fns : Total("make", o)' = Total("make", o)
    PROVE  MadeOnce'
  BY DEF MadeOnce

LEMMA NeedKept ==
    ASSUME NeedCounted, need' = need,
           \A o \in Fns : /\ Total("tell", o)' = Total("tell", o)
                          /\ Dependants(o)' = Dependants(o)
                          /\ state'[o] = "deferred" <=> state[o] = "deferred"
    PROVE  NeedCounted'
  BY DEF NeedCounted, One

LEMMA RunKept ==
    ASSUME RunOnce, runs' = runs, posted' = posted,
           \A o \in Fns : need[o] = 0 => need'[o] = 0,
           \A o \in Fns : Total("run", o)' = Total("run", o), Frames, Data
    PROVE  RunOnce'
  <1>1. \A o \in Fns : runs[o] \in Nat /\ Total("run", o) \in Nat
    BY TotalNat DEF Data
  <1> QED BY <1>1 DEF RunOnce, One

LEMMA FixedTotals ==
    ASSUME TotalsFixed
    PROVE  /\ \A o \in States : Total("promise", o)' = Total("promise", o)
           /\ \A o \in States : Total("make", o)' = Total("make", o)
           /\ \A o \in States : Total("run", o)' = Total("run", o)
           /\ \A o \in Fns : Total("tell", o)' = Total("tell", o)
           /\ \A c \in Callbacks : Total("call", c)' = Total("call", c)
  BY DEF TotalsFixed, Counted, Kinds

\* A step that changes nothing that the invariant is about but the frames.
Quiet ==
    /\ UNCHANGED <<state, storage, lck, single, chain, deps, promises, need,
                   posted, made, runs, calls, prog, conv>>
    /\ \A o \in States : called[o] => called'[o]

LEMMA QuietForward ==
    ASSUME Quiet PROVE Forward
  BY DEF Quiet, Forward, Ready

LEMMA QuietStep ==
    ASSUME IInv, NEW t \in Threads, NEW s, Proceeds(t, s), Same(t, s), Quiet,
           Data', Top(t).op \notin Storing,
           \A i \in DOMAIN s : s[i].op \notin Storing
    PROVE  IInv'
  <1>1. /\ Frames /\ Data /\ Starts /\ ResultLocked /\ ListsTaken
        /\ PromisesCounted /\ CalledOnce /\ MadeOnce /\ NeedCounted
        /\ RunOnce /\ ArgumentsReady
    BY DEF IInv
  <1>2. Moves(t, s) /\ Leads(t, s) /\ Forward
    BY QuietForward DEF Proceeds, Leads
  <1>3. Frames'
    BY <1>1, <1>2, FramesKept DEF Proceeds, Leads
  <1>4. Starts'
    BY <1>1 DEF Starts, Quiet, States
  <1>5. \A o \in States : Ready(o)' <=> Ready(o)
    BY DEF Quiet, Ready
  <1>6. ResultLocked'
    BY <1>1, <1>2, <1>5, LockKept DEF Quiet
  <1>7. ListsTaken'
    BY <1>1, <1>5, ListsKept DEF Quiet
  <1>8. ArgumentsReady'
    BY <1>1, <1>2, ArgsKept DEF Quiet, RunsSound
  <1>9. TotalsFixed
    BY <1>1, <1>2, TotalsKept
  <1>10. PromisesCounted' /\ CalledOnce' /\ MadeOnce'
    BY <1>1, <1>9, FixedTotals, PromisesKept, CallsKept, MadeKept
       DEF Quiet, States
  <1>11. NeedCounted'
    <2>1. \A o \in Fns : Dependants(o)' = Dependants(o)
      BY DEF Dependants, Quiet
    <2> QED BY <1>1, <1>9, <2>1, FixedTotals, NeedKept DEF Quiet
  <1>12. RunOnce'
    BY <1>1, <1>9, FixedTotals, RunKept DEF Quiet, States
  <1> QED BY <1>3, <1>4, <1>6, <1>7, <1>8, <1>10, <1>11, <1>12 DEF IInv

\* A function that is run at once can get every argument.
CanRun(f) == f.op = "run" => \A a \in ArgsOf(f.of) :
                Ready(a) \/ \E k \in DOMAIN f.v : f.v[k] = a

LEMMA QuietGoto ==
    ASSUME IInv, NEW t \in Threads, stack[t] # <<>>, Quiet, Data',
           NEW f \in FrameSet, Goto(t, f), Typed(f), Known(f)',
           f.op \notin Storing, Top(t).op \notin Storing,
           CanRun(f),
           Top(t).op \notin {"get", "spin"},
           Top(t).op \in {"ready", "swap"} =>
              f.op \in {"ready", "swap"} /\ f.of = Top(t).of,
           Alike(f, Top(t))
    PROVE  IInv'
  <1> DEFINE s == <<f>>
  <1>1. s \in Seq(FrameSet) /\ DOMAIN s = {1} /\ s[1] = f /\ s # <<>>
    OBVIOUS
  <1>2. Moves(t, s)
    BY DEF Goto, Moves, Quiet
  <1>3. Fed(s, 1)'
    BY <1>1 DEF Fed, CanRun, Quiet, Ready
  <1>4. Same(t, s)
    BY Weights DEF Same, Alike, Parts, Light
  <1> HIDE DEF s
  <1>5. Proceeds(t, s)
    BY <1>1, <1>2, <1>3 DEF Proceeds, Leads
  <1> QED BY <1>1, <1>4, <1>5, QuietStep

LEMMA QuietCall ==
    ASSUME IInv, NEW t \in Threads, stack[t] # <<>>, Quiet, Data',
           NEW f \in FrameSet, NEW g \in FrameSet, Call(t, f, g),
           Typed(f), Known(f)', Typed(g), Known(g)',
           f.op \notin Storing, CanRun(f), g.op \notin Storing,
           Top(t).op \notin Storing \cup {"ready", "swap", "spin"},
           g.op = "run" => \A a \in ArgsOf(g.of) :
              \/ Ready(a)
              \/ \E k \in DOMAIN g.v : g.v[k] = a
              \/ f.op = "get" /\ f.of = a,
           Top(t).op = "get" => g.op = "spin" /\ g.of = Top(t).of,
           Parts(f, g, Top(t))
    PROVE  IInv'
  <1> DEFINE s == <<f, g>>
  <1>1. /\ s \in Seq(FrameSet) /\ DOMAIN s = {1, 2} /\ s[1] = f /\ s[2] = g
        /\ s # <<>> /\ Len(s) = 2
    OBVIOUS
  <1>2. Moves(t, s)
    BY DEF Call, Moves, Quiet
  <1>3. Fed(s, 1)' /\ Fed(s, 2)'
    BY <1>1 DEF Fed, CanRun, Quiet, Ready
  <1>4. Same(t, s)
    BY Weights DEF Same, Alike, Parts, Light
  <1> HIDE DEF s
  <1>5. Proceeds(t, s)
    BY <1>1, <1>2, <1>3 DEF Proceeds, Leads
  <1> QED BY <1>1, <1>4, <1>5, QuietStep

LEMMA QuietReturn ==
    ASSUME IInv, NEW t \in Threads, stack[t] # <<>>, Quiet, Data', Return(t),
           Top(t).op \notin Storing \cup {"ready", "swap", "get"},
           Top(t).op = "spin" => Ready(Top(t).of),
           Light(Top(t))
    PROVE  IInv'
  <1> DEFINE s == <<>>
  <1>1. s \in Seq(FrameSet) /\ DOMAIN s = {}
    OBVIOUS
  <1>2. stack \in [Threads -> Seq(FrameSet)]
    BY StacksAndPrograms DEF IInv
  <1>3. Moves(t, s)
    <2>1. Tail(stack[t]) \in Seq(FrameSet)
      BY <1>2, HeadTailProperties
    <2>2. s \o Tail(stack[t]) = Tail(stack[t])
      BY <2>1, ConcatEmptySeq
    <2> QED BY <1>1, <1>2, <2>2 DEF Return, Moves, Quiet
  <1>4. Same(t, s)
    BY Weights DEF Same, Alike, Parts, Light
  <1>5. Proceeds(t, s)
    BY <1>1, <1>3 DEF Proceeds, Leads, Quiet, Ready
  <1> HIDE DEF s
  <1> QED BY <1>1, <1>4, <1>5, QuietStep

LEMMA NothingMoves ==
    ASSUME IInv, UNCHANGED stack, Quiet, Data'
    PROVE  IInv'
  <1>1. /\ Frames /\ Data /\ Starts /\ ResultLocked /\ ListsTaken
        /\ PromisesCounted /\ CalledOnce /\ MadeOnce /\ NeedCounted
        /\ RunOnce /\ ArgumentsReady
    BY DEF IInv
  <1>2. Frames'
    <2>1. \A t \in Threads : \A i \in DOMAIN stack[t] :
             stack[t][i] \in FrameSet /\ Typed(stack[t][i])
             /\ Known(stack[t][i])
      BY <1>1, StacksAndPrograms DEF Frames
    <2>2. \A t \in Threads : \A i \in DOMAIN stack'[t] : Known(stack[t][i])'
      <3> SUFFICES ASSUME NEW t \in Threads, NEW i \in DOMAIN stack'[t]
                   PROVE  Known(stack[t][i])'
        OBVIOUS
      <3>1. \A f \in FrameSet : Typed(f) /\ Known(f) => Known(f)'
        BY QuietForward, KnownStays
      <3> QED BY <2>1, <3>1
    <2> QED BY <1>1, <2>2 DEF Frames, Quiet
  <1>3. Starts'
    BY <1>1 DEF Starts, Quiet, States
  <1>4. \A o \in States : Ready(o)' <=> Ready(o)
    BY DEF Quiet, Ready
  <1>5. ResultLocked'
    BY <1>1, <1>4 DEF ResultLocked, Quiet
  <1>6. ListsTaken'
    BY <1>1, <1>4 DEF ListsTaken, Quiet, Top
  <1>7. ArgumentsReady'
    BY <1>1 DEF ArgumentsReady, Quiet, Fed, Ready
  <1>8. Rest' = Rest
    BY DEF Rest, Quiet
  <1>9. TotalsFixed
    BY <1>8 DEF TotalsFixed, Total
  <1>10. PromisesCounted' /\ CalledOnce' /\ MadeOnce'
    BY <1>1, <1>9, FixedTotals, PromisesKept, CallsKept, MadeKept
       DEF Quiet, States
  <1>11. NeedCounted'
    <2>1. \A o \in Fns : Dependants(o)' = Dependants(o)
      BY DEF Dependants, Quiet
    <2> QED BY <1>1, <1>9, <2>1, FixedTotals, NeedKept DEF Quiet
  <1>12. RunOnce'
    BY <1>1, <1>9, FixedTotals, RunKept DEF Quiet, States
  <1> QED BY <1>2, <1>3, <1>5, <1>6, <1>7, <1>10, <1>11, <1>12 DEF IInv

-----------------------------------------------------------------------------
(* The frames that steps make.                                             *)

LightOps == {"set", "store", "publish", "ready", "swap", "scope", "start",
             "mark", "begin", "hold", "claim", "base", "check", "end",
             "orphan", "conv", "clear", "gone", "get", "spin", "wait_until",
             "timed", "unchain"}

LEMMA LightLoad ==
    \A f \in FrameSet : f.op \in LightOps => Light(f)
  BY DEF Light, LightOps, Counted, Kinds, Load, One, PromiseOps, SourceOps

LEMMA RunningTop ==
    ASSUME IInv, NEW t \in Threads, NEW op, Running(t, op)
    PROVE  /\ stack[t] # <<>> /\ Top(t).op = op
           /\ Top(t) \in FrameSet /\ Typed(Top(t)) /\ Known(Top(t))
           /\ Of(t) = Top(t).of /\ Of(t) \in States
           /\ V(t) = Top(t).v /\ V(t) \in Seq(Vals)
  BY TopTyped DEF IInv, Running, Of, V, FrameSet

\* A frame with its parts.
Made(f, op, o, v) == f \in FrameSet /\ f.op = op /\ f.of = o /\ f.v = v

LEMMA MadeFrame ==
    \A op \in Ops, o \in States, v \in Seq(Vals) :
       Made(Frame(op, o, v), op, o, v)
  BY DEF Made, Frame, FrameSet

LEMMA MadeEmpty ==
    \A op \in Ops, o \in States : Made(Frame(op, o, <<>>), op, o, <<>>)
  BY DEF Made, Frame, FrameSet

LEMMA OpNames ==
    /\ "set" \in Ops /\ "store" \in Ops /\ "publish" \in Ops
    /\ "ready" \in Ops /\ "swap" \in Ops /\ "deliver" \in Ops
    /\ "scope" \in Ops /\ "start" \in Ops /\ "mark" \in Ops
    /\ "begin" \in Ops /\ "base" \in Ops /\ "check" \in Ops
    /\ "depend" \in Ops /\ "register" \in Ops /\ "registered" \in Ops
    /\ "orphan" \in Ops /\ "conv" \in Ops /\ "clear" \in Ops
    /\ "gone" \in Ops /\ "get" \in Ops /\ "spin" \in Ops
    /\ "wait_until" \in Ops /\ "timed" \in Ops
    /\ "make" \in Ops /\ "args" \in Ops /\ "claim" \in Ops
    /\ "hold" \in Ops /\ "invoke" \in Ops /\ "job" \in Ops
    /\ "end" \in Ops /\ "run" \in Ops /\ "unwind" \in Ops
    /\ "convert" \in Ops /\ "reserve" \in Ops /\ "present" \in Ops
    /\ "exchange" \in Ops /\ "commit" \in Ops /\ "fill" \in Ops
    /\ "started" \in Ops /\ "drop" \in Ops /\ "except" \in Ops
    /\ "callback" \in Ops /\ "install" \in Ops /\ "installed" \in Ops
    /\ "unchain" \in Ops /\ "call" \in Ops
  BY DEF Ops, FnOps, SourceOps, CallOps, PromiseOps

\* What a new frame takes to be typed and known.
Fits(f) == Typed(f) /\ Known(f)'

LEMMA FreeFits ==
    \A f \in FrameSet :
       f.op \in {"scope", "base", "check", "orphan", "spin", "timed", "drop",
                 "except", "depend"} => Fits(f)
  BY DEF Fits, Typed, Known, FnOps, SourceOps, PlaceOps, CallOps, StartOps

LEMMA ReadyFits ==
    \A f \in FrameSet :
       f.op \in {"ready", "swap"} /\ state'[f.of] \in ReadyStates => Fits(f)
  BY DEF Fits, Typed, Known, FnOps, SourceOps, PlaceOps, CallOps, StartOps,
         Ready

LEMMA ResultFits ==
    \A f \in FrameSet :
       f.v[1] \in {"value", "exc", "broken"} =>
          /\ f.op = "set" => Fits(f)
          /\ f.op \in Storing /\ state'[f.of] # "deferred" => Fits(f)
  BY DEF Fits, Typed, Known, FnOps, SourceOps, PlaceOps, CallOps, StartOps,
         Storing

LEMMA StartFits ==
    \A f \in FrameSet :
       made'[f.of] =>
          /\ f.op \in {"start", "get", "wait_until"} => Fits(f)
          /\ f.op \in {"mark", "begin"} /\ called'[f.of] => Fits(f)
          /\ f.op \in {"hold", "claim"} /\ called'[f.of] /\ f.of \in Fns =>
                Fits(f)
  BY DEF Fits, Typed, Known, FnOps, SourceOps, PlaceOps, CallOps, StartOps

LEMMA FnFits ==
    \A f \in FrameSet :
       f.of \in Fns =>
          /\ f.op \in {"end", "unwind"} => Fits(f)
          /\ f.op \in {"invoke", "job"} /\ state'[f.of] # "deferred" => Fits(f)
          /\ /\ f.op \in {"args", "run"} /\ state'[f.of] # "deferred"
             /\ \A i \in DOMAIN f.v : f.v[i] \in ArgsOf(f.of)
             => Fits(f)
          /\ /\ f.op = "make" /\ \A a \in ArgsOf(f.of) : made'[a]
             /\ \A i \in DOMAIN f.v : f.v[i] \in ArgsOf(f.of)
             => Fits(f)
  <1> SUFFICES ASSUME NEW f \in FrameSet, f.of \in Fns
               PROVE  /\ f.op \in {"end", "unwind"} => Fits(f)
                      /\ f.op \in {"invoke", "job"} /\ state'[f.of] # "deferred"
                            => Fits(f)
                      /\ /\ f.op \in {"args", "run"}
                         /\ state'[f.of] # "deferred"
                         /\ \A i \in DOMAIN f.v : f.v[i] \in ArgsOf(f.of)
                         => Fits(f)
                      /\ /\ f.op = "make"
                         /\ \A a \in ArgsOf(f.of) : made'[a]
                         /\ \A i \in DOMAIN f.v : f.v[i] \in ArgsOf(f.of)
                         => Fits(f)
    OBVIOUS
  <1>1. f.op \in {"end", "unwind"} => Fits(f)
    BY DEF Fits, Typed, Known, FnOps, SourceOps, PlaceOps, CallOps, StartOps
  <1>2. f.op \in {"invoke", "job"} /\ state'[f.of] # "deferred" => Fits(f)
    BY DEF Fits, Typed, Known, FnOps, SourceOps, PlaceOps, CallOps, StartOps
  <1>3. /\ f.op \in {"args", "run"} /\ state'[f.of] # "deferred"
        /\ \A i \in DOMAIN f.v : f.v[i] \in ArgsOf(f.of)
        => Fits(f)
    BY DEF Fits, Typed, Known, FnOps, SourceOps, PlaceOps, CallOps, StartOps
  <1>4. /\ f.op = "make" /\ \A a \in ArgsOf(f.of) : made'[a]
        /\ \A i \in DOMAIN f.v : f.v[i] \in ArgsOf(f.of)
        => Fits(f)
    BY DEF Fits, Typed, Known, FnOps, SourceOps, PlaceOps, CallOps, StartOps
  <1> QED BY <1>1, <1>2, <1>3, <1>4

LEMMA RegisterFits ==
    \A f \in FrameSet :
       f.op \in {"register", "registered"} /\ f.v[1] \in Fns => Fits(f)
  BY DEF Fits, Typed, Known, FnOps, SourceOps, PlaceOps, CallOps, StartOps

LEMMA ConvertFits ==
    \A f \in FrameSet :
       f.of \in Promises =>
          /\ f.op \in {"conv", "gone"} => Fits(f)
          /\ /\ f.op = "clear" /\ f.v[1] \in {"value", "exc", "broken"}
             => Fits(f)
          /\ /\ f.op \in {"convert", "reserve", "started"}
             /\ f.v[1] \in States /\ made'[f.v[1]]
             => Fits(f)
          /\ /\ f.op \in PlaceOps /\ f.v[1] \in States /\ made'[f.v[1]]
             /\ f.v[2] \in Nat
             /\ state'[f.v[1]] \notin ReadyStates =>
                   /\ f.v[2] \in DOMAIN deps'[f.v[1]]
                   /\ deps'[f.v[1]][f.v[2]] \notin Fns
             => Fits(f)
  <1> SUFFICES ASSUME NEW f \in FrameSet, f.of \in Promises
               PROVE  /\ f.op \in {"conv", "gone"} => Fits(f)
                      /\ /\ f.op = "clear"
                         /\ f.v[1] \in {"value", "exc", "broken"}
                         => Fits(f)
                      /\ /\ f.op \in {"convert", "reserve", "started"}
                         /\ f.v[1] \in States /\ made'[f.v[1]]
                         => Fits(f)
                      /\ /\ f.op \in PlaceOps /\ f.v[1] \in States
                         /\ made'[f.v[1]] /\ f.v[2] \in Nat
                         /\ state'[f.v[1]] \notin ReadyStates =>
                               /\ f.v[2] \in DOMAIN deps'[f.v[1]]
                               /\ deps'[f.v[1]][f.v[2]] \notin Fns
                         => Fits(f)
    OBVIOUS
  <1>1. /\ f.op \in {"conv", "gone"} => Fits(f)
        /\ f.op = "clear" /\ f.v[1] \in {"value", "exc", "broken"} => Fits(f)
    BY DEF Fits, Typed, Known, FnOps, SourceOps, PlaceOps, CallOps, StartOps
  <1>2. /\ f.op \in {"convert", "reserve", "started"}
        /\ f.v[1] \in States /\ made'[f.v[1]]
        => Fits(f)
    BY DEF Fits, Typed, Known, FnOps, SourceOps, PlaceOps, CallOps, StartOps
  <1>3. ASSUME f.op \in PlaceOps, f.v[1] \in States, made'[f.v[1]],
               f.v[2] \in Nat,
               state'[f.v[1]] \notin ReadyStates =>
                  /\ f.v[2] \in DOMAIN deps'[f.v[1]]
                  /\ deps'[f.v[1]][f.v[2]] \notin Fns
        PROVE  Fits(f)
    <2>1. Typed(f)
      BY <1>3 DEF Typed, FnOps, SourceOps, PlaceOps, CallOps
    <2>2. Known(f)'
      BY <1>3 DEF Known, SourceOps, PlaceOps, StartOps, Ready
    <2> QED BY <2>1, <2>2 DEF Fits
  <1> QED BY <1>1, <1>2, <1>3

LEMMA CallFits ==
    \A f \in FrameSet :
       f.v[1] \in Callbacks /\ On[f.v[1]] = f.of =>
          /\ f.op = "unchain" => Fits(f)
          /\ f.op = "call" /\ state'[f.of] \in ReadyStates => Fits(f)
          /\ f.op \in {"callback", "install", "installed"} /\ made'[f.of] =>
                Fits(f)
  BY DEF Fits, Typed, Known, FnOps, SourceOps, PlaceOps, CallOps, StartOps,
         Ready

LEMMA DeliverFits ==
    \A f \in FrameSet :
       /\ f.op = "deliver" /\ state'[f.of] \in ReadyStates
       /\ \A i \in DOMAIN f.v : /\ f.v[i] \in Callbacks \cup States \cup {None}
                                /\ f.v[i] \in Callbacks => On[f.v[i]] = f.of
       => Fits(f)
  <1> SUFFICES ASSUME NEW f \in FrameSet, f.op = "deliver",
                      state'[f.of] \in ReadyStates,
                      \A i \in DOMAIN f.v :
                         /\ f.v[i] \in Callbacks \cup States \cup {None}
                         /\ f.v[i] \in Callbacks => On[f.v[i]] = f.of
               PROVE  Fits(f)
    OBVIOUS
  <1>1. Typed(f)
    BY DEF Typed, FnOps, SourceOps, PlaceOps, CallOps
  <1>2. Known(f)'
    BY DEF Known, SourceOps, PlaceOps, StartOps, Ready
  <1> QED BY <1>1, <1>2 DEF Fits

-----------------------------------------------------------------------------
(* The steps that are quiet.                                               *)

LEMMA LightGoto ==
    ASSUME IInv, NEW t \in Threads, stack[t] # <<>>, Quiet, Data',
           NEW f \in FrameSet, Goto(t, f), Fits(f),
           f.op \in LightOps \ Storing,
           Top(t).op \in LightOps \ (Storing \cup {"get", "spin"}),
           Top(t).op \in {"ready", "swap"} =>
              f.op \in {"ready", "swap"} /\ f.of = Top(t).of
    PROVE  IInv'
  <1>1. Top(t) \in FrameSet
    BY TopTyped DEF IInv
  <1>2. Alike(f, Top(t))
    BY <1>1, LightLoad DEF Light, Alike
  <1>3. f.op # "run" /\ Top(t).op \notin {"get", "spin"}
        /\ Top(t).op \notin Storing
    BY DEF LightOps
  <1> QED BY <1>2, <1>3, QuietGoto DEF Fits, CanRun

LEMMA LightCall ==
    ASSUME IInv, NEW t \in Threads, stack[t] # <<>>, Quiet, Data',
           NEW f \in FrameSet, NEW g \in FrameSet, Call(t, f, g),
           Fits(f), Fits(g),
           f.op \in LightOps \ Storing, g.op \in LightOps \ Storing,
           Top(t).op \in LightOps \ (Storing \cup {"ready", "swap", "spin"}),
           Top(t).op = "get" => g.op = "spin" /\ g.of = Top(t).of
    PROVE  IInv'
  <1>1. Top(t) \in FrameSet
    BY TopTyped DEF IInv
  <1>2. Parts(f, g, Top(t))
    BY <1>1, LightLoad DEF Light, Parts
  <1>3. f.op \notin Storing /\ CanRun(f) /\ g.op # "run"
        /\ g.op \notin Storing
        /\ Top(t).op \notin Storing \cup {"ready", "swap", "spin"}
    BY DEF LightOps, CanRun
  <1> QED BY <1>2, <1>3, QuietCall DEF Fits

LEMMA LightReturn ==
    ASSUME IInv, NEW t \in Threads, stack[t] # <<>>, Quiet, Data', Return(t),
           Top(t).op \in LightOps \ (Storing \cup {"ready", "swap", "get"}),
           Top(t).op = "spin" => Ready(Top(t).of)
    PROVE  IInv'
  <1>1. Top(t) \in FrameSet
    BY TopTyped DEF IInv
  <1>2. Light(Top(t))
    BY <1>1, LightLoad
  <1> QED BY <1>2, QuietReturn

LEMMA TopKnows ==
    ASSUME IInv, NEW t \in Threads, stack[t] # <<>>
    PROVE  /\ Top(t).op \in {"ready", "swap", "deliver", "call"} =>
                 state[Of(t)] \in ReadyStates
           /\ Top(t).op \in {"start", "get", "wait_until", "mark", "begin",
                    "hold", "claim", "callback", "install", "installed"} =>
                 made[Of(t)]
           /\ Top(t).op \in {"mark", "begin", "hold", "claim"} => called[Of(t)]
           /\ Top(t).op \in {"args", "invoke", "job", "run", "store",
                    "publish"} => state[Of(t)] # "deferred"
           /\ Top(t).op \in {"convert", "reserve", "present", "exchange",
                    "commit", "fill", "started"} => made[V(t)[1]]
           /\ Top(t).op = "make" => \A a \in ArgsOf(Of(t)) : made[a]
           /\ Top(t).op \in {"present", "exchange", "commit", "fill"}
              /\ state[V(t)[1]] \notin ReadyStates =>
                 /\ V(t)[2] \in DOMAIN deps[V(t)[1]]
                 /\ deps[V(t)[1]][V(t)[2]] \notin Fns
  <1>1. Known(Top(t)) /\ Of(t) = Top(t).of /\ V(t) = Top(t).v
    BY TopTyped DEF IInv, Of, V
  <1> QED BY <1>1 DEF Known, StartOps, SourceOps, PlaceOps, Ready

LEMMA TopTypes ==
    ASSUME IInv, NEW t \in Threads, stack[t] # <<>>
    PROVE  /\ Top(t).op \in {"set", "store", "publish", "clear"} =>
                 V(t)[1] \in {"value", "exc", "broken"}
           /\ Top(t).op \in {"make", "args", "claim", "hold", "invoke", "job",
                    "end", "run", "unwind"} => Of(t) \in Fns
           /\ Top(t).op \in {"make", "args", "run"} =>
                 \A i \in DOMAIN V(t) : V(t)[i] \in ArgsOf(Of(t))
           /\ Top(t).op \in {"register", "registered"} => V(t)[1] \in Fns
           /\ Top(t).op \in {"convert", "reserve", "present", "exchange",
                    "commit", "fill", "started", "conv", "clear", "gone"} =>
                 Of(t) \in Promises
           /\ Top(t).op \in {"convert", "reserve", "present", "exchange",
                    "commit", "fill", "started"} => V(t)[1] \in States
           /\ Top(t).op \in {"present", "exchange", "commit", "fill"} =>
                 V(t)[2] \in Nat
           /\ Top(t).op \in {"callback", "install", "installed", "unchain",
                    "call"} => V(t)[1] \in Callbacks /\ On[V(t)[1]] = Of(t)
           /\ Top(t).op = "deliver" =>
                 \A i \in DOMAIN V(t) :
                    /\ V(t)[i] \in Callbacks \cup States \cup {None}
                    /\ V(t)[i] \in Callbacks => On[V(t)[i]] = Of(t)
  <1>1. Typed(Top(t)) /\ Of(t) = Top(t).of /\ V(t) = Top(t).v
    BY TopTyped DEF IInv, Of, V
  <1> QED BY <1>1 DEF Typed, FnOps, SourceOps, PlaceOps, CallOps

LEMMA HeavyLoads ==
    \A f \in FrameSet : \A k, x : Counted(k, x) =>
       /\ f.op \in PromiseOps =>
             Load(k, x, f) = One(k = "promise" /\ f.of = x)
       /\ f.op \in {"args", "depend"} =>
             Load(k, x, f) = One(k = "tell" /\ f.of = x)
       /\ f.op \in {"register", "registered"} =>
             Load(k, x, f) = One(k = "tell" /\ f.v[1] = x)
       /\ f.op \in {"invoke", "job", "run"} =>
             Load(k, x, f) = One(k = "run" /\ f.of = x)
       /\ f.op \in {"callback", "install", "installed", "call"} =>
             Load(k, x, f) = One(k = "call" /\ f.v[1] = x)
       /\ f.op = "make" => Load(k, x, f) = One(k = "make" /\ f.of = x)
       /\ f.op = "deliver" =>
             Load(k, x, f) = IF k \in {"tell", "call"} THEN Occurs(f.v, x)
                             ELSE 0
  BY DEF Counted, Kinds, Load, One, PromiseOps, SourceOps

TellOps == {"args", "depend"}
RegisterOps == {"register", "registered"}
RunOps == {"invoke", "job", "run"}
BackOps == {"callback", "install", "installed", "call"}

LEMMA AlikeFrames ==
    \A f, g \in FrameSet :
       /\ f.op \in PromiseOps /\ g.op \in PromiseOps /\ f.of = g.of =>
             Alike(f, g)
       /\ f.op \in TellOps /\ g.op \in TellOps /\ f.of = g.of => Alike(f, g)
       /\ f.op \in RegisterOps /\ g.op \in RegisterOps /\ f.v[1] = g.v[1] =>
             Alike(f, g)
       /\ f.op \in TellOps /\ g.op \in RegisterOps /\ f.of = g.v[1] =>
             Alike(f, g)
       /\ f.op \in RunOps /\ g.op \in RunOps /\ f.of = g.of => Alike(f, g)
       /\ f.op \in BackOps /\ g.op \in BackOps /\ f.v[1] = g.v[1] =>
             Alike(f, g)
       /\ f.op = "make" /\ g.op = "make" /\ f.of = g.of => Alike(f, g)
  <1> SUFFICES ASSUME NEW f \in FrameSet, NEW g \in FrameSet
               PROVE
       /\ f.op \in PromiseOps /\ g.op \in PromiseOps /\ f.of = g.of =>
             Alike(f, g)
       /\ f.op \in TellOps /\ g.op \in TellOps /\ f.of = g.of => Alike(f, g)
       /\ f.op \in RegisterOps /\ g.op \in RegisterOps /\ f.v[1] = g.v[1] =>
             Alike(f, g)
       /\ f.op \in TellOps /\ g.op \in RegisterOps /\ f.of = g.v[1] =>
             Alike(f, g)
       /\ f.op \in RunOps /\ g.op \in RunOps /\ f.of = g.of => Alike(f, g)
       /\ f.op \in BackOps /\ g.op \in BackOps /\ f.v[1] = g.v[1] =>
             Alike(f, g)
       /\ f.op = "make" /\ g.op = "make" /\ f.of = g.of => Alike(f, g)
    OBVIOUS
  <1>1. f.op \in PromiseOps /\ g.op \in PromiseOps /\ f.of = g.of => Alike(f, g)
    BY HeavyLoads DEF Alike
  <1>2. f.op \in TellOps /\ g.op \in TellOps /\ f.of = g.of => Alike(f, g)
    BY HeavyLoads DEF Alike, TellOps
  <1>3. /\ f.op \in RegisterOps /\ g.op \in RegisterOps /\ f.v[1] = g.v[1]
        => Alike(f, g)
    BY HeavyLoads DEF Alike, RegisterOps
  <1>4. f.op \in TellOps /\ g.op \in RegisterOps /\ f.of = g.v[1] => Alike(f, g)
    BY HeavyLoads DEF Alike, TellOps, RegisterOps
  <1>5. f.op \in RunOps /\ g.op \in RunOps /\ f.of = g.of => Alike(f, g)
    BY HeavyLoads DEF Alike, RunOps
  <1>6. f.op \in BackOps /\ g.op \in BackOps /\ f.v[1] = g.v[1] => Alike(f, g)
    BY HeavyLoads DEF Alike, BackOps
  <1>7. f.op = "make" /\ g.op = "make" /\ f.of = g.of => Alike(f, g)
    BY HeavyLoads DEF Alike
  <1> QED BY <1>1, <1>2, <1>3, <1>4, <1>5, <1>6, <1>7

LEMMA PartFrames ==
    \A f, g, h \in FrameSet :
       /\ Light(f) /\ Alike(g, h) => Parts(f, g, h)
       /\ Light(g) /\ Alike(f, h) => Parts(f, g, h)
  BY LoadNat DEF Light, Alike, Parts

LEMMA WordsAreVals ==
    /\ "value" \in Vals /\ "exc" \in Vals /\ "broken" \in Vals
    /\ "user" \in Vals /\ "noexcept" \in Vals /\ "caught" \in Vals
    /\ "sync" \in Vals /\ "async" \in Vals /\ "start" \in Vals
    /\ "defer" \in Vals /\ "returns" \in Vals /\ "throws" \in Vals
    /\ 1 \in Vals /\ States \subseteq Vals /\ Callbacks \subseteq Vals
    /\ Nat \subseteq Vals
  BY DEF Vals, Words

LEMMA OneTuples ==
    /\ <<>> \in Seq(Vals)
    /\ \A x \in Vals : <<x>> \in Seq(Vals) /\ <<x>>[1] = x
    /\ \A x, y \in Vals : /\ <<x, y>> \in Seq(Vals)
                          /\ <<x, y>>[1] = x /\ <<x, y>>[2] = y
  OBVIOUS

LEMMA LockReadyStep ==
    ASSUME IInv, NEW t \in Threads, LockReady(t)
    PROVE  IInv'
  <1>1. /\ stack[t] # <<>> /\ Top(t).op = "ready"
        /\ Of(t) = Top(t).of /\ Of(t) \in States
        /\ V(t) = Top(t).v /\ V(t) \in Seq(Vals)
        /\ state[Of(t)] \in ReadyStates
    BY RunningTop, TopKnows, TopTypes DEF LockReady
  <1>2. Quiet /\ Data'
    BY <1>1 DEF LockReady, Quiet, resultVars, readyVars, startVars, fnVars,
                history,
                IInv, Data
  <1>3. PICK f : Made(f, "swap", Of(t), <<>>) /\ Goto(t, f)
    BY <1>1, MadeEmpty, OpNames DEF LockReady
  <1>4. Fits(f)
    BY <1>1, <1>2, <1>3, ReadyFits DEF Made, Quiet
  <1> QED BY <1>1, <1>2, <1>3, <1>4, LightGoto DEF Made, Storing, LightOps

LEMMA ScopeEndStep ==
    ASSUME IInv, NEW t \in Threads, ScopeEnd(t)
    PROVE  IInv'
  <1>1. /\ stack[t] # <<>> /\ Top(t).op = "scope"
        /\ Of(t) = Top(t).of /\ Of(t) \in States
        /\ V(t) = Top(t).v /\ V(t) \in Seq(Vals)
    BY RunningTop, TopKnows, TopTypes DEF ScopeEnd
  <1>2. Quiet /\ Data'
    BY <1>1 DEF ScopeEnd, Quiet, resultVars, readyVars, startVars, fnVars,
                history,
                IInv, Data
  <1> QED BY <1>1, <1>2, LightReturn DEF ScopeEnd, Storing, LightOps, Ready

LEMMA BaseCheckStep ==
    ASSUME IInv, NEW t \in Threads, BaseCheck(t)
    PROVE  IInv'
  <1>1. /\ stack[t] # <<>> /\ Top(t).op = "check"
        /\ Of(t) = Top(t).of /\ Of(t) \in States
        /\ V(t) = Top(t).v /\ V(t) \in Seq(Vals)
    BY RunningTop, TopKnows, TopTypes DEF BaseCheck
  <1>2. Quiet /\ Data'
    BY <1>1 DEF BaseCheck, Quiet, resultVars, readyVars, startVars, fnVars,
                history,
                IInv, Data, Assertion
  <1> QED BY <1>1, <1>2, LightReturn DEF BaseCheck, Storing, LightOps, Ready

LEMMA JobEndStep ==
    ASSUME IInv, NEW t \in Threads, JobEnd(t)
    PROVE  IInv'
  <1>1. /\ stack[t] # <<>> /\ Top(t).op = "end"
        /\ Of(t) = Top(t).of /\ Of(t) \in States
        /\ V(t) = Top(t).v /\ V(t) \in Seq(Vals)
        /\ Of(t) \in Fns
    BY RunningTop, TopKnows, TopTypes DEF JobEnd
  <1>2. Quiet /\ Data'
    BY <1>1 DEF JobEnd, Quiet, resultVars, readyVars, startVars, fnVars,
                history,
                IInv, Data
  <1> QED BY <1>1, <1>2, LightReturn DEF JobEnd, Storing, LightOps, Ready

LEMMA SourceGoneStep ==
    ASSUME IInv, NEW t \in Threads, SourceGone(t)
    PROVE  IInv'
  <1>1. /\ stack[t] # <<>> /\ Top(t).op = "gone"
        /\ Of(t) = Top(t).of /\ Of(t) \in States
        /\ V(t) = Top(t).v /\ V(t) \in Seq(Vals)
    BY RunningTop, TopKnows, TopTypes DEF SourceGone
  <1>2. Quiet /\ Data'
    BY <1>1 DEF SourceGone, Quiet, resultVars, readyVars, startVars, fnVars,
                history,
                IInv, Data
  <1> QED BY <1>1, <1>2, LightReturn DEF SourceGone, Storing, LightOps, Ready

LEMMA GotStep ==
    ASSUME IInv, NEW t \in Threads, Got(t)
    PROVE  IInv'
  <1>1. /\ stack[t] # <<>> /\ Top(t).op = "spin"
        /\ Of(t) = Top(t).of /\ Of(t) \in States
        /\ V(t) = Top(t).v /\ V(t) \in Seq(Vals)
    BY RunningTop, TopKnows, TopTypes DEF Got
  <1>2. Quiet /\ Data'
    BY <1>1 DEF Got, Quiet, resultVars, readyVars, startVars, fnVars, history,
                IInv, Data
  <1> QED BY <1>1, <1>2, LightReturn DEF Got, Storing, LightOps, Ready

LEMMA WaitEndsStep ==
    ASSUME IInv, NEW t \in Threads, WaitEnds(t)
    PROVE  IInv'
  <1>1. /\ stack[t] # <<>> /\ Top(t).op = "timed"
        /\ Of(t) = Top(t).of /\ Of(t) \in States
        /\ V(t) = Top(t).v /\ V(t) \in Seq(Vals)
    BY RunningTop, TopKnows, TopTypes DEF WaitEnds
  <1>2. Quiet /\ Data'
    BY <1>1 DEF WaitEnds, Quiet, resultVars, readyVars, startVars, fnVars,
                history,
                IInv, Data
  <1> QED BY <1>1, <1>2, LightReturn DEF WaitEnds, Storing, LightOps, Ready

LEMMA MarkAsyncStep ==
    ASSUME IInv, NEW t \in Threads, MarkAsync(t)
    PROVE  IInv'
  <1>1. /\ stack[t] # <<>> /\ Top(t).op = "mark"
        /\ Of(t) = Top(t).of /\ Of(t) \in States
        /\ V(t) = Top(t).v /\ V(t) \in Seq(Vals)
        /\ made[Of(t)] /\ called[Of(t)]
    BY RunningTop, TopKnows, TopTypes DEF MarkAsync
  <1>2. Quiet /\ Data'
    BY <1>1 DEF MarkAsync, Quiet, resultVars, readyVars, startVars, fnVars,
                history,
                IInv, Data
  <1>3. PICK f : Made(f, "begin", Of(t), V(t)) /\ Goto(t, f)
    BY <1>1, MadeFrame, OpNames DEF MarkAsync
  <1>4. Fits(f)
    BY <1>1, <1>2, <1>3, StartFits DEF Made, Quiet
  <1> QED BY <1>1, <1>2, <1>3, <1>4, LightGoto DEF Made, Storing, LightOps

LEMMA BeginPromiseStep ==
    ASSUME IInv, NEW t \in Threads, BeginPromise(t)
    PROVE  IInv'
  <1>1. /\ stack[t] # <<>> /\ Top(t).op = "begin"
        /\ Of(t) = Top(t).of /\ Of(t) \in States
        /\ V(t) = Top(t).v /\ V(t) \in Seq(Vals)
    BY RunningTop, TopKnows, TopTypes DEF BeginPromise
  <1>2. Quiet /\ Data'
    BY <1>1 DEF BeginPromise, Quiet, resultVars, readyVars, startVars, fnVars,
                history,
                IInv, Data
  <1>3. PICK f : Made(f, "base", Of(t), V(t)) /\ Goto(t, f)
    BY <1>1, MadeFrame, OpNames DEF BeginPromise
  <1>4. Fits(f)
    BY <1>1, <1>2, <1>3, FreeFits DEF Made, Quiet
  <1> QED BY <1>1, <1>2, <1>3, <1>4, LightGoto DEF Made, Storing, LightOps

LEMMA HoldSelfStep ==
    ASSUME IInv, NEW t \in Threads, HoldSelf(t)
    PROVE  IInv'
  <1>1. /\ stack[t] # <<>> /\ Top(t).op = "hold"
        /\ Of(t) = Top(t).of /\ Of(t) \in States
        /\ V(t) = Top(t).v /\ V(t) \in Seq(Vals)
        /\ made[Of(t)] /\ called[Of(t)] /\ Of(t) \in Fns
    BY RunningTop, TopKnows, TopTypes DEF HoldSelf
  <1>2. Quiet /\ Data'
    BY <1>1 DEF HoldSelf, Quiet, resultVars, readyVars, startVars, fnVars,
                history,
                IInv, Data
  <1>3. PICK f : Made(f, "claim", Of(t), <<"sync">>) /\ Goto(t, f)
    BY <1>1, MadeFrame, OpNames, OneTuples, WordsAreVals DEF HoldSelf
  <1>4. Fits(f)
    BY <1>1, <1>2, <1>3, StartFits DEF Made, Quiet
  <1> QED BY <1>1, <1>2, <1>3, <1>4, LightGoto DEF Made, Storing, LightOps

LEMMA BasePlainStep ==
    ASSUME IInv, NEW t \in Threads, BasePlain(t)
    PROVE  IInv'
  <1>1. /\ stack[t] # <<>> /\ Top(t).op = "base"
        /\ Of(t) = Top(t).of /\ Of(t) \in States
        /\ V(t) = Top(t).v /\ V(t) \in Seq(Vals)
    BY RunningTop, TopKnows, TopTypes DEF BasePlain
  <1>2. Quiet /\ Data'
    BY <1>1 DEF BasePlain, Quiet, resultVars, readyVars, startVars, fnVars,
                history,
                IInv, Data
  <1>3. PICK f : Made(f, "check", Of(t), <<>>) /\ Goto(t, f)
    BY <1>1, MadeEmpty, OpNames DEF BasePlain
  <1>4. Fits(f)
    BY <1>1, <1>2, <1>3, FreeFits DEF Made, Quiet
  <1> QED BY <1>1, <1>2, <1>3, <1>4, LightGoto DEF Made, Storing, LightOps

LEMMA GetStep ==
    ASSUME IInv, NEW t \in Threads, Get(t)
    PROVE  IInv'
  <1>1. /\ stack[t] # <<>> /\ Top(t).op = "get"
        /\ Of(t) = Top(t).of /\ Of(t) \in States
        /\ V(t) = Top(t).v /\ V(t) \in Seq(Vals)
        /\ made[Of(t)]
    BY RunningTop, TopKnows, TopTypes DEF Get
  <1>2. Quiet /\ Data'
    BY <1>1 DEF Get, Quiet, resultVars, readyVars, startVars, fnVars, history,
                IInv, Data
  <1>3. PICK f, g : /\ Made(f, "start", Of(t), <<"sync">>)
                    /\ Made(g, "spin", Of(t), <<>>) /\ Call(t, f, g)
    BY <1>1, MadeEmpty, MadeFrame, OpNames, OneTuples, WordsAreVals DEF Get
  <1>4. Fits(f) /\ Fits(g)
    BY <1>1, <1>2, <1>3, StartFits, FreeFits DEF Made, Quiet
  <1> QED BY <1>1, <1>2, <1>3, <1>4, LightCall DEF Made, Storing, LightOps

LEMMA WaitUntilStep ==
    ASSUME IInv, NEW t \in Threads, WaitUntil(t)
    PROVE  IInv'
  <1>1. /\ stack[t] # <<>> /\ Top(t).op = "wait_until"
        /\ Of(t) = Top(t).of /\ Of(t) \in States
        /\ V(t) = Top(t).v /\ V(t) \in Seq(Vals)
        /\ made[Of(t)]
    BY RunningTop, TopKnows, TopTypes DEF WaitUntil
  <1>2. Quiet /\ Data'
    BY <1>1 DEF WaitUntil, Quiet, resultVars, readyVars, startVars, fnVars,
                history,
                IInv, Data
  <1>3. PICK f, g : /\ Made(f, "start", Of(t), <<"async">>)
                    /\ Made(g, "timed", Of(t), <<>>) /\ Call(t, f, g)
    BY <1>1, MadeEmpty, MadeFrame, OpNames, OneTuples, WordsAreVals
       DEF WaitUntil
  <1>4. Fits(f) /\ Fits(g)
    BY <1>1, <1>2, <1>3, StartFits, FreeFits DEF Made, Quiet
  <1> QED BY <1>1, <1>2, <1>3, <1>4, LightCall DEF Made, Storing, LightOps

LEMMA StartStep ==
    ASSUME IInv, NEW t \in Threads, Start(t)
    PROVE  IInv'
  <1>1. /\ stack[t] # <<>> /\ Top(t).op = "start"
        /\ Of(t) = Top(t).of /\ Of(t) \in States
        /\ V(t) = Top(t).v /\ V(t) \in Seq(Vals)
        /\ made[Of(t)]
    BY RunningTop, TopKnows, TopTypes DEF Start
  <1>2. Quiet /\ Data'
    BY <1>1 DEF Start, Quiet, resultVars, readyVars, startVars, fnVars, history,
                IInv, Data
  <1>3. PICK op, f : /\ op \in {"mark", "begin"} /\ Made(f, op, Of(t), V(t))
                     /\ Goto(t, f)
    <2>1. CASE V(t)[1] = "async"
      BY <1>1, <2>1, MadeFrame, OpNames DEF Start
    <2>2. CASE V(t)[1] # "async"
      BY <1>1, <2>2, MadeFrame, OpNames DEF Start
    <2> QED BY <2>1, <2>2
  <1>4. called'[Of(t)]
    BY <1>1 DEF Start, IInv, Data
  <1>5. Fits(f)
    BY <1>1, <1>2, <1>3, <1>4, StartFits DEF Made, Quiet
  <1> QED BY <1>1, <1>2, <1>3, <1>5, LightGoto DEF Made, Storing, LightOps

LEMMA BeginLazyStep ==
    ASSUME IInv, NEW t \in Threads, BeginLazy(t)
    PROVE  IInv'
  <1>1. /\ stack[t] # <<>> /\ Top(t).op = "begin"
        /\ Of(t) = Top(t).of /\ Of(t) \in States
        /\ V(t) = Top(t).v /\ V(t) \in Seq(Vals)
        /\ made[Of(t)] /\ called[Of(t)]
        /\ Of(t) \in Fns
    BY RunningTop, TopKnows DEF BeginLazy, Fns
  <1>2. Quiet /\ Data'
    BY <1>1 DEF BeginLazy, Quiet, resultVars, readyVars, startVars, fnVars,
                history,
                IInv, Data
  <1>3. CASE V(t)[1] = "sync"
    <2>1. PICK f : Made(f, "claim", Of(t), V(t)) /\ Goto(t, f)
      BY <1>1, <1>3, MadeFrame, OpNames DEF BeginLazy
    <2>2. Fits(f)
      BY <1>1, <1>2, <2>1, StartFits DEF Made, Quiet
    <2> QED BY <1>1, <1>2, <2>1, <2>2, LightGoto
           DEF Made, Storing, LightOps
  <1>4. CASE V(t)[1] = "async" /\ state[Of(t)] # "deferred"
    <2>1. PICK f : Made(f, "base", Of(t), V(t)) /\ Goto(t, f)
      BY <1>1, <1>4, MadeFrame, OpNames DEF BeginLazy
    <2>2. Fits(f)
      BY <1>1, <1>2, <2>1, FreeFits DEF Made, Quiet
    <2> QED BY <1>1, <1>2, <2>1, <2>2, LightGoto
           DEF Made, Storing, LightOps
  <1>5. CASE /\ V(t)[1] # "sync"
             /\ ~(V(t)[1] = "async" /\ state[Of(t)] # "deferred")
    <2>1. Return(t)
      BY <1>1, <1>5 DEF BeginLazy
    <2> QED BY <1>1, <1>2, <2>1, LightReturn DEF Storing, LightOps
  <1> QED BY <1>3, <1>4, <1>5

LEMMA BeginJobStep ==
    ASSUME IInv, NEW t \in Threads, BeginJob(t)
    PROVE  IInv'
  <1>1. /\ stack[t] # <<>> /\ Top(t).op = "begin"
        /\ Of(t) = Top(t).of /\ Of(t) \in States
        /\ V(t) = Top(t).v /\ V(t) \in Seq(Vals)
        /\ made[Of(t)] /\ called[Of(t)]
        /\ Of(t) \in Fns
    BY RunningTop, TopKnows DEF BeginJob, Fns
  <1>2. Quiet /\ Data'
    BY <1>1 DEF BeginJob, Quiet, resultVars, readyVars, startVars, fnVars,
                history,
                IInv, Data, Assertion
  <1>3. CASE state[Of(t)] = "deferred"
    <2>1. PICK f : Made(f, "hold", Of(t), <<>>) /\ Goto(t, f)
      BY <1>1, <1>3, MadeEmpty, OpNames DEF BeginJob
    <2>2. Fits(f)
      BY <1>1, <1>2, <2>1, StartFits DEF Made, Quiet
    <2> QED BY <1>1, <1>2, <2>1, <2>2, LightGoto
           DEF Made, Storing, LightOps
  <1>4. CASE state[Of(t)] # "deferred"
    <2>1. PICK f : Made(f, "base", Of(t), V(t)) /\ Goto(t, f)
      BY <1>1, <1>4, MadeFrame, OpNames DEF BeginJob
    <2>2. Fits(f)
      BY <1>1, <1>2, <2>1, FreeFits DEF Made, Quiet
    <2> QED BY <1>1, <1>2, <2>1, <2>2, LightGoto
           DEF Made, Storing, LightOps
  <1> QED BY <1>3, <1>4

LEMMA BaseConvertStep ==
    ASSUME IInv, NEW t \in Threads, BaseConvert(t)
    PROVE  IInv'
  <1>1. /\ stack[t] # <<>> /\ Top(t).op = "base"
        /\ Of(t) = Top(t).of /\ Of(t) \in States
        /\ V(t) = Top(t).v /\ V(t) \in Seq(Vals)
        /\ conv[Of(t)] \in States /\ made[conv[Of(t)]]
    BY RunningTop DEF BaseConvert, IInv, Data, Starts
  <1>2. Quiet /\ Data'
    BY <1>1 DEF BaseConvert, Quiet, resultVars, readyVars, startVars, fnVars,
                history,
                IInv, Data
  <1>3. CASE UNCHANGED stack
    BY <1>2, <1>3, NothingMoves
  <1>4. CASE ~UNCHANGED stack
    <2>1. PICK f : Made(f, "start", conv[Of(t)], V(t)) /\ Goto(t, f)
      BY <1>1, <1>4, MadeFrame, OpNames DEF BaseConvert
    <2>2. Fits(f)
      BY <1>1, <1>2, <2>1, StartFits DEF Made, Quiet
    <2> QED BY <1>1, <1>2, <2>1, <2>2, LightGoto
           DEF Made, Storing, LightOps
  <1> QED BY <1>3, <1>4

LEMMA UnchainStep ==
    ASSUME IInv, NEW t \in Threads, Unchain(t)
    PROVE  IInv'
  <1>1. /\ stack[t] # <<>> /\ Top(t).op = "unchain"
        /\ Of(t) = Top(t).of /\ Of(t) \in States
        /\ V(t) = Top(t).v /\ V(t) \in Seq(Vals)
    BY RunningTop, TopKnows, TopTypes DEF Unchain
  <1>2. Quiet /\ Data'
    BY <1>1 DEF Unchain, Quiet, resultVars, readyVars, startVars, fnVars,
                history,
                IInv, Data
  <1>3. CASE UNCHANGED stack
    BY <1>2, <1>3, NothingMoves
  <1>4. CASE ~UNCHANGED stack
    <2>1. Return(t)
      BY <1>1, <1>4 DEF Unchain
    <2> QED BY <1>1, <1>2, <2>1, LightReturn DEF Storing, LightOps, Ready
  <1> QED BY <1>3, <1>4

LEMMA SetThrowsStep ==
    ASSUME IInv, NEW t \in Threads, SetThrows(t)
    PROVE  IInv'
  <1>1. /\ stack[t] # <<>> /\ Top(t).op = "set"
        /\ Of(t) = Top(t).of /\ Of(t) \in States
        /\ V(t) = Top(t).v /\ V(t) \in Seq(Vals)
    BY RunningTop, TopKnows, TopTypes DEF SetThrows
  <1>2. Quiet /\ Data'
    BY <1>1 DEF SetThrows, Quiet, resultVars, readyVars, startVars, fnVars,
                history,
                IInv, Data
  <1>3. CASE UNCHANGED stack
    BY <1>2, <1>3, NothingMoves
  <1>4. CASE ~UNCHANGED stack
    <2>1. Return(t)
      BY <1>1, <1>4 DEF SetThrows
    <2> QED BY <1>1, <1>2, <2>1, LightReturn DEF Storing, LightOps, Ready
  <1> QED BY <1>3, <1>4

LEMMA OrphanStep ==
    ASSUME IInv, NEW t \in Threads, Orphan(t)
    PROVE  IInv'
  <1>1. /\ stack[t] # <<>> /\ Top(t).op = "orphan"
        /\ Of(t) = Top(t).of /\ Of(t) \in States
        /\ V(t) = Top(t).v /\ V(t) \in Seq(Vals)
    BY RunningTop, TopKnows, TopTypes DEF Orphan
  <1>2. Quiet /\ Data'
    BY <1>1 DEF Orphan, Quiet, resultVars, readyVars, startVars, fnVars,
                history,
                IInv, Data
  <1>3. CASE state[Of(t)] = "uninitialized"
    <2>1. PICK f :
               /\ Made(f, "set", Of(t), <<"broken", "noexcept">>)
               /\ Goto(t, f)
      BY <1>1, <1>3, MadeFrame, OpNames, OneTuples, WordsAreVals DEF Orphan
    <2>2. Fits(f)
      BY <1>1, <1>2, <2>1, ResultFits, OneTuples, WordsAreVals DEF Made, Quiet
    <2> QED BY <1>1, <1>2, <2>1, <2>2, LightGoto
           DEF Made, Storing, LightOps
  <1>4. CASE state[Of(t)] # "uninitialized"
    <2>1. Return(t)
      BY <1>1, <1>4 DEF Orphan
    <2> QED BY <1>1, <1>2, <2>1, LightReturn DEF Storing, LightOps, Ready
  <1> QED BY <1>3, <1>4

LEMMA ConvertStep ==
    ASSUME IInv, NEW t \in Threads, Convert(t)
    PROVE  IInv'
  <1>1. /\ stack[t] # <<>> /\ Top(t).op = "conv"
        /\ Of(t) = Top(t).of /\ Of(t) \in States
        /\ V(t) = Top(t).v /\ V(t) \in Seq(Vals)
        /\ Of(t) \in Promises
    BY RunningTop, TopKnows, TopTypes DEF Convert
  <1>2. Quiet /\ Data'
    BY <1>1 DEF Convert, Quiet, resultVars, readyVars, startVars, fnVars,
                history,
                IInv, Data
  <1>3. CASE UNCHANGED stack
    BY <1>2, <1>3, NothingMoves
  <1>4. CASE ~UNCHANGED stack
    <2>1. PICK r \in Results : Goto(t, Frame("clear", Of(t), <<r>>))
      BY <1>4 DEF Convert
    <2>2. <<r>> \in Seq(Vals)
      BY WordsAreVals DEF Results
    <2>3. PICK f : Made(f, "clear", Of(t), <<r>>) /\ Goto(t, f)
      BY <1>1, <2>1, <2>2, MadeFrame, OpNames
    <2>4. f.v[1] \in {"value", "exc", "broken"}
      BY <2>3, OneTuples, WordsAreVals DEF Made, Results
    <2>5. Fits(f)
      BY <1>1, <2>3, <2>4, ConvertFits DEF Made
    <2> QED BY <1>1, <1>2, <2>3, <2>5, LightGoto DEF Made, Storing, LightOps
  <1> QED BY <1>3, <1>4

LEMMA InvokeLazyStep ==
    ASSUME IInv, NEW t \in Threads, InvokeLazy(t)
    PROVE  IInv'
  <1>1. /\ stack[t] # <<>> /\ Top(t).op = "invoke"
        /\ Of(t) = Top(t).of /\ Of(t) \in States
        /\ V(t) = Top(t).v /\ V(t) \in Seq(Vals)
        /\ Of(t) \in Fns /\ state[Of(t)] # "deferred"
    BY RunningTop, TopKnows, TopTypes DEF InvokeLazy
  <1>2. Quiet /\ Data'
    BY <1>1 DEF InvokeLazy, Quiet, resultVars, readyVars, startVars, fnVars,
                history,
                IInv, Data
  <1>3. PICK f : Made(f, "run", Of(t), Args[Of(t)]) /\ Goto(t, f)
    BY <1>1, MadeFrame, OpNames, ArgsAreStates DEF InvokeLazy
  <1>4. /\ Fits(f)
        /\ \A a \in ArgsOf(f.of) : \E k \in DOMAIN f.v : f.v[k] = a
    BY <1>1, <1>2, <1>3, FnFits DEF Made, Quiet, ArgsOf
  <1>5. Alike(f, Top(t))
    BY <1>1, <1>3, RunningTop, AlikeFrames DEF InvokeLazy, Made, RunOps
  <1>6. CanRun(f) /\ Typed(f) /\ Known(f)'
    BY <1>3, <1>4 DEF Made, Fits, CanRun
  <1>7. /\ f.op \notin Storing /\ Top(t).op \notin {"ready", "swap"}
        /\ Top(t).op \notin Storing /\ Top(t).op \notin {"get", "spin"}
    BY <1>1, <1>3 DEF Made, Storing
  <1> QED BY <1>1, <1>2, <1>3, <1>5, <1>6, <1>7, QuietGoto DEF Made

LEMMA LockRegisterStep ==
    ASSUME IInv, NEW t \in Threads, LockRegister(t)
    PROVE  IInv'
  <1>1. /\ stack[t] # <<>> /\ Top(t).op = "register"
        /\ Of(t) = Top(t).of /\ Of(t) \in States
        /\ V(t) = Top(t).v /\ V(t) \in Seq(Vals)
        /\ V(t)[1] \in Fns
    BY RunningTop, TopKnows, TopTypes DEF LockRegister
  <1>2. Quiet /\ Data'
    BY <1>1 DEF LockRegister, Quiet, resultVars, readyVars, startVars, fnVars,
                history,
                IInv, Data
  <1>3. PICK f : Made(f, "registered", Of(t), V(t)) /\ Goto(t, f)
    BY <1>1, MadeFrame, OpNames DEF LockRegister
  <1>4. Fits(f)
    BY <1>1, <1>2, <1>3, RegisterFits DEF Made, Quiet
  <1>5. Alike(f, Top(t))
    BY <1>1, <1>3, RunningTop, AlikeFrames DEF LockRegister, Made, RegisterOps
  <1>6. CanRun(f) /\ Typed(f) /\ Known(f)'
    BY <1>3, <1>4 DEF Made, Fits, CanRun
  <1>7. /\ f.op \notin Storing /\ Top(t).op \notin {"ready", "swap"}
        /\ Top(t).op \notin Storing /\ Top(t).op \notin {"get", "spin"}
    BY <1>1, <1>3 DEF Made, Storing
  <1> QED BY <1>1, <1>2, <1>3, <1>5, <1>6, <1>7, QuietGoto DEF Made

LEMMA LockInstallStep ==
    ASSUME IInv, NEW t \in Threads, LockInstall(t)
    PROVE  IInv'
  <1>1. /\ stack[t] # <<>> /\ Top(t).op = "install"
        /\ Of(t) = Top(t).of /\ Of(t) \in States
        /\ V(t) = Top(t).v /\ V(t) \in Seq(Vals)
        /\ made[Of(t)]
        /\ V(t)[1] \in Callbacks /\ On[V(t)[1]] = Of(t)
    BY RunningTop, TopKnows, TopTypes DEF LockInstall
  <1>2. Quiet /\ Data'
    BY <1>1 DEF LockInstall, Quiet, resultVars, readyVars, startVars, fnVars,
                history,
                IInv, Data
  <1>3. PICK f : Made(f, "installed", Of(t), V(t)) /\ Goto(t, f)
    BY <1>1, MadeFrame, OpNames DEF LockInstall
  <1>4. Fits(f)
    BY <1>1, <1>2, <1>3, CallFits DEF Made, Quiet
  <1>5. Alike(f, Top(t))
    BY <1>1, <1>3, RunningTop, AlikeFrames DEF LockInstall, Made, BackOps
  <1>6. CanRun(f) /\ Typed(f) /\ Known(f)'
    BY <1>3, <1>4 DEF Made, Fits, CanRun
  <1>7. /\ f.op \notin Storing /\ Top(t).op \notin {"ready", "swap"}
        /\ Top(t).op \notin Storing /\ Top(t).op \notin {"get", "spin"}
    BY <1>1, <1>3 DEF Made, Storing
  <1> QED BY <1>1, <1>2, <1>3, <1>5, <1>6, <1>7, QuietGoto DEF Made

LEMMA HeavyGoto ==
    ASSUME IInv, NEW t \in Threads, stack[t] # <<>>, Quiet, Data',
           NEW f \in FrameSet, Goto(t, f), Fits(f),
           f.op \notin Storing, f.op # "run",
           Top(t).op \notin Storing, Top(t).op \notin {"ready", "swap"},
           Top(t).op \notin {"get", "spin"},
           Alike(f, Top(t))
    PROVE  IInv'
  <1>1. CanRun(f)
    BY DEF CanRun
  <1> QED BY <1>1, QuietGoto DEF Fits

LEMMA HeavyCall ==
    ASSUME IInv, NEW t \in Threads, stack[t] # <<>>, Quiet, Data',
           NEW f \in FrameSet, NEW g \in FrameSet, Call(t, f, g),
           Fits(f), Fits(g), f.op \notin Storing, f.op # "run",
           g.op \notin Storing, g.op # "run",
           Top(t).op \notin Storing, Top(t).op \notin {"ready", "swap"},
           Top(t).op \notin {"get", "spin"},
           Parts(f, g, Top(t))
    PROVE  IInv'
  <1>1. CanRun(f)
    BY DEF CanRun
  <1> QED BY <1>1, QuietCall DEF Fits

LEMMA OccursHead ==
    ASSUME NEW T, NEW v \in Seq(T), v # <<>>
    PROVE  /\ Tail(v) \in Seq(T) /\ Head(v) = v[1] /\ Head(v) \in T
           /\ Len(Tail(v)) = Len(v) - 1
           /\ DOMAIN v = 1 .. Len(v) /\ Len(v) \in Nat \ {0}
           /\ DOMAIN Tail(v) = 1 .. Len(v) - 1
           /\ \A i \in 1 .. Len(v) - 1 : Tail(v)[i] = v[i + 1]
           /\ \A x : /\ Occurs(Tail(v), x) \in Nat
                     /\ Occurs(v, x) = One(Head(v) = x) + Occurs(Tail(v), x)
  <1>1. /\ Tail(v) \in Seq(T) /\ Head(v) = v[1] /\ Head(v) \in T
        /\ Len(Tail(v)) = Len(v) - 1
        /\ DOMAIN v = 1 .. Len(v) /\ Len(v) \in Nat \ {0}
        /\ \A i \in 1 .. Len(v) - 1 : Tail(v)[i] = v[i + 1]
    BY HeadTailProperties, EmptySeq, LenProperties
  <1>2. DOMAIN Tail(v) = 1 .. Len(v) - 1
    BY <1>1, LenProperties
  <1> DEFINE h == <<Head(v)>>
  <1> DEFINE r == Tail(v)
  <1>3. h \in Seq(T) /\ r \in Seq(T) /\ v = h \o r
    BY <1>1
  <1>4. \A x : Occurs(h, x) = One(Head(v) = x)
    BY OccursOne
  <1> HIDE DEF h, r
  <1>5. \A x : Occurs(h \o r, x) = Occurs(h, x) + Occurs(r, x)
    BY <1>3, OccursConcat
  <1>6. \A x : Occurs(r, x) \in Nat
    BY <1>3, OccursNat
  <1>7. \A x : /\ Occurs(r, x) \in Nat
               /\ Occurs(v, x) = One(Head(v) = x) + Occurs(r, x)
    BY <1>3, <1>4, <1>5, <1>6
  <1>8. \A x : /\ Occurs(Tail(v), x) \in Nat
               /\ Occurs(v, x) = One(Head(v) = x) + Occurs(Tail(v), x)
    BY <1>7 DEF r
  <1> QED BY <1>1, <1>2, <1>8

LEMMA Kindly ==
    /\ None \notin States /\ None \notin Callbacks /\ None \notin Threads
    /\ Callbacks \cap States = {} /\ Promises \cap Fns = {}
    /\ Fns \subseteq States /\ Promises \subseteq States
    /\ \A k, x : Counted(k, x) =>
          /\ k \in {"promise", "tell", "run", "call", "make"}
          /\ k = "tell" => x \in Fns
          /\ k = "call" => x \in Callbacks
  BY StatesAssumption, CallbacksAssumption DEF Counted, Kinds, States, Fns

LEMMA DeliverStep ==
    ASSUME IInv, NEW t \in Threads, Deliver(t)
    PROVE  IInv'
  <1>1. /\ stack[t] # <<>> /\ Top(t).op = "deliver"
        /\ Of(t) = Top(t).of /\ Of(t) \in States
        /\ V(t) = Top(t).v /\ V(t) \in Seq(Vals)
        /\ Top(t) \in FrameSet
        /\ state[Of(t)] \in ReadyStates
        /\ \A i \in DOMAIN V(t) :
              /\ V(t)[i] \in Callbacks \cup States \cup {None}
              /\ V(t)[i] \in Callbacks => On[V(t)[i]] = Of(t)
    BY RunningTop, TopKnows, TopTypes DEF Deliver
  <1>2. Quiet /\ Data'
    BY <1>1 DEF Deliver, Quiet, resultVars, readyVars, startVars, fnVars,
                history, IInv, Data
  <1>3. \A k, x : Counted(k, x) =>
           Load(k, x, Top(t)) = IF k \in {"tell", "call"} THEN Occurs(V(t), x)
                                ELSE 0
    BY <1>1, HeavyLoads
  <1>4. CASE V(t) = <<>>
    <2>1. Return(t)
      BY <1>4 DEF Deliver
    <2>2. Light(Top(t))
      BY <1>3, <1>4, OccursOne DEF Light
    <2> QED BY <1>1, <1>2, <2>1, <2>2, QuietReturn DEF Storing
  <1>5. CASE V(t) # <<>>
    <2> DEFINE x0 == Head(V(t))
    <2> DEFINE v0 == Tail(V(t))
    <2>1. /\ v0 \in Seq(Vals) /\ x0 = V(t)[1] /\ 1 \in DOMAIN V(t)
          /\ Len(V(t)) \in Nat
          /\ DOMAIN V(t) = 1 .. Len(V(t)) /\ DOMAIN v0 = 1 .. Len(V(t)) - 1
          /\ \A i \in 1 .. Len(V(t)) - 1 : v0[i] = V(t)[i + 1]
          /\ \A x : /\ Occurs(v0, x) \in Nat
                    /\ Occurs(V(t), x) = One(x0 = x) + Occurs(v0, x)
      BY <1>1, <1>5, OccursHead
    <2>2. \A i \in DOMAIN v0 : /\ v0[i] \in Callbacks \cup States \cup {None}
                               /\ v0[i] \in Callbacks => On[v0[i]] = Of(t)
      BY <1>1, <2>1
    <2>3. /\ x0 \in Callbacks \cup States \cup {None}
          /\ x0 \in Callbacks => On[x0] = Of(t)
      BY <1>1, <2>1
    <2>4. /\ x0 = None => Goto(t, Frame("deliver", Of(t), v0))
          /\ x0 \in Callbacks => Call(t, Frame("call", Of(t), <<x0>>),
                                         Frame("deliver", Of(t), v0))
          /\ x0 \in States => Call(t, Frame("depend", x0, <<>>),
                                      Frame("deliver", Of(t), v0))
      BY <1>5, Kindly DEF Deliver
    <2>5. PICK g : g = Frame("deliver", Of(t), v0)
      OBVIOUS
    <2> HIDE DEF x0, v0
    <2>6. Made(g, "deliver", Of(t), v0)
      BY <1>1, <2>1, <2>5, MadeFrame, OpNames
    <2>7. Fits(g) /\ g \in FrameSet /\ g.op = "deliver"
      BY <1>1, <1>2, <2>2, <2>6, DeliverFits DEF Made, Quiet
    <2>8. \A k, x : Counted(k, x) =>
             Load(k, x, g) = IF k \in {"tell", "call"} THEN Occurs(v0, x)
                             ELSE 0
      BY <2>6, HeavyLoads DEF Made
    <2>9. CASE x0 = None
      <3>1. Alike(g, Top(t))
        BY <1>3, <2>1, <2>8, <2>9, Kindly DEF Alike, One
      <3> QED BY <1>1, <1>2, <2>4, <2>5, <2>7, <2>9, <3>1, HeavyGoto
              DEF Storing
    <2>10. CASE x0 \in Callbacks
      <3>1. PICK f : Made(f, "call", Of(t), <<x0>>) /\ Call(t, f, g)
        <4>1. <<x0>> \in Seq(Vals)
          BY <2>10, WordsAreVals
        <4> QED BY <1>1, <2>4, <2>5, <2>10, <4>1, MadeFrame, OpNames
      <3>2. f.v[1] = x0
        BY <3>1 DEF Made
      <3>3. Fits(f)
        BY <1>1, <1>2, <2>3, <2>10, <3>1, <3>2, CallFits DEF Made, Quiet
      <3>4. \A k, x : Counted(k, x) =>
               Load(k, x, f) = One(k = "call" /\ x0 = x)
        BY <3>1, <3>2, HeavyLoads DEF Made
      <3>5. Parts(f, g, Top(t))
        BY <1>3, <2>1, <2>8, <2>10, <3>4, Kindly DEF Parts, One
      <3> QED BY <1>1, <1>2, <2>7, <3>1, <3>3, <3>5, HeavyCall
              DEF Made, Storing
    <2>11. CASE x0 \in States
      <3>1. PICK f : Made(f, "depend", x0, <<>>) /\ Call(t, f, g)
        BY <1>1, <2>4, <2>5, <2>11, MadeEmpty, OpNames
      <3>2. Fits(f)
        BY <3>1, FreeFits DEF Made
      <3>3. \A k, x : Counted(k, x) =>
               Load(k, x, f) = One(k = "tell" /\ x0 = x)
        BY <3>1, HeavyLoads DEF Made
      <3>4. Parts(f, g, Top(t))
        BY <1>3, <2>1, <2>8, <2>11, <3>3, Kindly DEF Parts, One
      <3> QED BY <1>1, <1>2, <2>7, <3>1, <3>2, <3>4, HeavyCall
              DEF Made, Storing
    <2> QED BY <2>3, <2>9, <2>10, <2>11
  <1> QED BY <1>4, <1>5

LEMMA MadeWithArgs ==
    ASSUME IInv, NEW o \in Fns, state[o] # "deferred"
    PROVE  made[o] /\ called[o] /\ \A a \in ArgsOf(o) : made[a] /\ a \in States
  BY ArgsAreStates DEF IInv, Starts

LEMMA StartArgStep ==
    ASSUME IInv, NEW t \in Threads, StartArg(t)
    PROVE  IInv'
  <1>1. /\ stack[t] # <<>> /\ Top(t).op = "args" /\ V(t) # <<>>
        /\ Of(t) = Top(t).of /\ Of(t) \in States
        /\ V(t) = Top(t).v /\ V(t) \in Seq(Vals)
        /\ Top(t) \in FrameSet
        /\ Of(t) \in Fns /\ state[Of(t)] # "deferred"
        /\ \A i \in DOMAIN V(t) : V(t)[i] \in ArgsOf(Of(t))
    BY RunningTop, TopKnows, TopTypes DEF StartArg
  <1>2. Quiet /\ Data'
    BY <1>1 DEF StartArg, Quiet, resultVars, readyVars, startVars, fnVars,
                history, IInv, Data
  <1> DEFINE x0 == Head(V(t))
  <1> DEFINE v0 == Tail(V(t))
  <1>3. /\ v0 \in Seq(Vals) /\ x0 = V(t)[1] /\ 1 \in DOMAIN V(t)
        /\ Len(V(t)) \in Nat
        /\ DOMAIN V(t) = 1 .. Len(V(t)) /\ DOMAIN v0 = 1 .. Len(V(t)) - 1
        /\ \A i \in 1 .. Len(V(t)) - 1 : v0[i] = V(t)[i + 1]
    BY <1>1, OccursHead
  <1>4. Call(t, Frame("start", x0, <<"sync">>), Frame("args", Of(t), v0))
    BY DEF StartArg
  <1>5. x0 \in States /\ made[x0]
    BY <1>1, <1>3, MadeWithArgs
  <1>6. \A i \in DOMAIN v0 : v0[i] \in ArgsOf(Of(t))
    BY <1>1, <1>3
  <1> HIDE DEF x0, v0
  <1>7. PICK f, g : /\ Made(f, "start", x0, <<"sync">>)
                    /\ Made(g, "args", Of(t), v0) /\ Call(t, f, g)
    BY <1>1, <1>3, <1>4, <1>5, MadeFrame, OpNames, OneTuples, WordsAreVals
  <1>8. Fits(f) /\ Fits(g)
    BY <1>1, <1>2, <1>5, <1>6, <1>7, StartFits, FnFits DEF Made, Quiet
  <1>9. Light(f) /\ Alike(g, Top(t))
    BY <1>1, <1>7, LightLoad, AlikeFrames DEF Made, LightOps, TellOps
  <1>10. Parts(f, g, Top(t))
    BY <1>1, <1>7, <1>9, PartFrames DEF Made
  <1> QED BY <1>1, <1>2, <1>7, <1>8, <1>10, HeavyCall DEF Made, Storing

LEMMA InvokeJobHere ==
    ASSUME IInv, NEW t \in Threads, InvokeJob(t), UNCHANGED posted,
           Goto(t, Frame("job", Of(t), <<>>))
    PROVE  IInv'
  <1>1. /\ stack[t] # <<>> /\ Top(t).op = "invoke"
        /\ Of(t) = Top(t).of /\ Of(t) \in States
        /\ Top(t) \in FrameSet
        /\ Of(t) \in Fns /\ state[Of(t)] # "deferred"
    BY RunningTop, TopKnows, TopTypes DEF InvokeJob
  <1>2. Quiet /\ Data'
    BY <1>1 DEF InvokeJob, Quiet, resultVars, readyVars, startVars, fnVars,
                history, IInv, Data, Assertion
  <1>3. PICK f : Made(f, "job", Of(t), <<>>) /\ Goto(t, f)
    BY <1>1, MadeEmpty, OpNames
  <1>4. Fits(f)
    BY <1>1, <1>2, <1>3, FnFits DEF Made, Quiet
  <1>5. Alike(f, Top(t))
    BY <1>1, <1>3, AlikeFrames DEF Made, RunOps
  <1> QED BY <1>1, <1>2, <1>3, <1>4, <1>5, HeavyGoto DEF Made, Storing

LEMMA RunJobStep ==
    ASSUME IInv, NEW t \in Threads, RunJob(t)
    PROVE  IInv'
  <1>1. /\ stack[t] # <<>> /\ Top(t).op = "job"
        /\ Of(t) = Top(t).of /\ Of(t) \in States
        /\ Top(t) \in FrameSet
        /\ Of(t) \in Fns /\ state[Of(t)] # "deferred"
    BY RunningTop, TopKnows, TopTypes DEF RunJob
  <1>2. Quiet /\ Data'
    BY <1>1 DEF RunJob, Quiet, resultVars, readyVars, startVars, fnVars,
                history, IInv, Data, Assertion
  <1>3. PICK f, g : /\ Made(f, "run", Of(t), Args[Of(t)])
                    /\ Made(g, "end", Of(t), <<>>) /\ Call(t, f, g)
    BY <1>1, MadeFrame, MadeEmpty, OpNames, ArgsAreStates DEF RunJob
  <1>4. /\ Fits(f) /\ Fits(g)
        /\ \A a \in ArgsOf(f.of) : \E k \in DOMAIN f.v : f.v[k] = a
    BY <1>1, <1>2, <1>3, FnFits DEF Made, Quiet, ArgsOf
  <1>5. Light(g) /\ Alike(f, Top(t))
    BY <1>1, <1>3, LightLoad, AlikeFrames DEF Made, LightOps, RunOps
  <1>6. Parts(f, g, Top(t))
    BY <1>1, <1>3, <1>5, PartFrames DEF Made
  <1>7. /\ f.op \notin Storing /\ g.op \notin Storing /\ g.op # "run"
        /\ Top(t).op \notin Storing \cup {"ready", "swap", "spin"}
        /\ Top(t).op # "get"
    BY <1>1, <1>3 DEF Made, Storing
  <1>8. CanRun(f) /\ Typed(f) /\ Known(f)' /\ Typed(g) /\ Known(g)'
    BY <1>4 DEF Fits, CanRun
  <1> QED BY <1>1, <1>2, <1>3, <1>6, <1>7, <1>8, QuietCall DEF Made

LEMMA GetArgStep ==
    ASSUME IInv, NEW t \in Threads, GetArg(t)
    PROVE  IInv'
  <1>1. /\ stack[t] # <<>> /\ Top(t).op = "run" /\ V(t) # <<>>
        /\ Of(t) = Top(t).of /\ Of(t) \in States
        /\ V(t) = Top(t).v /\ V(t) \in Seq(Vals)
        /\ Top(t) \in FrameSet
        /\ Of(t) \in Fns /\ state[Of(t)] # "deferred"
        /\ \A i \in DOMAIN V(t) : V(t)[i] \in ArgsOf(Of(t))
    BY RunningTop, TopKnows, TopTypes DEF GetArg
  <1>2. Quiet /\ Data'
    BY <1>1 DEF GetArg, Quiet, resultVars, readyVars, startVars, fnVars,
                history, IInv, Data
  <1> DEFINE x0 == Head(V(t))
  <1> DEFINE v0 == Tail(V(t))
  <1>3. /\ v0 \in Seq(Vals) /\ x0 = V(t)[1] /\ 1 \in DOMAIN V(t)
        /\ Len(V(t)) \in Nat
        /\ DOMAIN V(t) = 1 .. Len(V(t)) /\ DOMAIN v0 = 1 .. Len(V(t)) - 1
        /\ \A i \in 1 .. Len(V(t)) - 1 : v0[i] = V(t)[i + 1]
    BY <1>1, OccursHead
  <1>4. Call(t, Frame("get", x0, <<>>), Frame("run", Of(t), v0))
    BY DEF GetArg
  <1>5. x0 \in States /\ made[x0]
    BY <1>1, <1>3, MadeWithArgs
  <1>6. \A i \in DOMAIN v0 : v0[i] \in ArgsOf(Of(t))
    BY <1>1, <1>3
  <1>7. ASSUME NEW a \in ArgsOf(Of(t))
        PROVE  Ready(a) \/ a = x0 \/ \E k \in DOMAIN v0 : v0[k] = a
    <2>1. Top(t) = stack[t][1] /\ 1 \in DOMAIN stack[t]
      BY <1>1, TopTyped DEF IInv
    <2>2. Fed(stack[t], 1)
      BY <2>1 DEF IInv, ArgumentsReady
    <2>3. Ready(a) \/ \E k \in DOMAIN V(t) : V(t)[k] = a
      BY <1>1, <2>1, <2>2 DEF Fed
    <2>4. ASSUME NEW k \in DOMAIN V(t), V(t)[k] = a
          PROVE  a = x0 \/ \E j \in DOMAIN v0 : v0[j] = a
      <3>1. CASE k = 1
        BY <1>3, <2>4, <3>1
      <3>2. CASE k # 1
        <4>1. k - 1 \in DOMAIN v0 /\ v0[k - 1] = V(t)[k]
          BY <1>3, <3>2
        <4> QED BY <2>4, <4>1
      <3> QED BY <3>1, <3>2
    <2> QED BY <2>3, <2>4
  <1> HIDE DEF x0, v0
  <1>8. PICK f, g : /\ Made(f, "get", x0, <<>>)
                    /\ Made(g, "run", Of(t), v0) /\ Call(t, f, g)
    BY <1>1, <1>3, <1>4, <1>5, MadeFrame, MadeEmpty, OpNames
  <1>9. Fits(f) /\ Fits(g)
    BY <1>1, <1>2, <1>5, <1>6, <1>8, StartFits, FnFits DEF Made, Quiet
  <1>10. Light(f) /\ Alike(g, Top(t))
    BY <1>1, <1>8, LightLoad, AlikeFrames DEF Made, LightOps, RunOps
  <1>11. Parts(f, g, Top(t))
    BY <1>1, <1>8, <1>10, PartFrames DEF Made
  <1>12. /\ f.op \notin Storing /\ g.op \notin Storing
         /\ Top(t).op \notin Storing \cup {"ready", "swap", "spin"}
         /\ Top(t).op # "get"
    BY <1>1, <1>8 DEF Made, Storing
  <1>13. CanRun(f) /\ Typed(f) /\ Known(f)' /\ Typed(g) /\ Known(g)'
    BY <1>8, <1>9 DEF Fits, CanRun, Made
  <1>14. \A a \in ArgsOf(g.of) : \/ Ready(a)
                                 \/ \E k \in DOMAIN g.v : g.v[k] = a
                                 \/ f.op = "get" /\ f.of = a
    BY <1>7, <1>8 DEF Made
  <1> QED BY <1>1, <1>2, <1>8, <1>11, <1>12, <1>13, <1>14, QuietCall DEF Made

LEMMA UnwindStep ==
    ASSUME IInv, NEW t \in Threads, Unwind(t)
    PROVE  IInv'
  <1>1. /\ stack[t] # <<>> /\ Top(t).op = "unwind"
        /\ Of(t) = Top(t).of /\ Of(t) \in States
        /\ Top(t) \in FrameSet
        /\ Of(t) \in Fns
    BY RunningTop, TopKnows, TopTypes DEF Unwind
  <1>2. Quiet /\ Data'
    BY <1>1 DEF Unwind, Quiet, resultVars, readyVars, startVars, fnVars,
                history, IInv, Data
  <1>3. CASE V(t)[1] = "throws"
    <2>1. PICK f, g : /\ Made(f, "drop", Of(t), <<>>)
                      /\ Made(g, "set", Of(t), <<"exc", "noexcept">>)
                      /\ Call(t, f, g)
      BY <1>1, <1>3, MadeFrame, MadeEmpty, OpNames, OneTuples, WordsAreVals
         DEF Unwind
    <2>2. Fits(f) /\ Fits(g)
      BY <2>1, FreeFits, ResultFits, OneTuples, WordsAreVals DEF Made
    <2>3. Light(g) /\ Alike(f, Top(t))
      BY <1>1, <2>1, LightLoad, AlikeFrames DEF Made, LightOps, PromiseOps
    <2>4. Parts(f, g, Top(t))
      BY <1>1, <2>1, <2>3, PartFrames DEF Made
    <2> QED BY <1>1, <1>2, <2>1, <2>2, <2>4, HeavyCall DEF Made, Storing
  <1>4. CASE V(t)[1] # "throws"
    <2>1. PICK f : Made(f, "drop", Of(t), <<>>) /\ Goto(t, f)
      BY <1>1, <1>4, MadeEmpty, OpNames DEF Unwind
    <2>2. Fits(f)
      BY <2>1, FreeFits DEF Made
    <2>3. Alike(f, Top(t))
      BY <1>1, <2>1, AlikeFrames DEF Made, PromiseOps
    <2> QED BY <1>1, <1>2, <2>1, <2>2, <2>3, HeavyGoto DEF Made, Storing
  <1> QED BY <1>3, <1>4

LEMMA RegisterReady ==
    ASSUME IInv, NEW t \in Threads, Register(t), Ready(Of(t))
    PROVE  IInv'
  <1>1. /\ stack[t] # <<>> /\ Top(t).op = "registered"
        /\ Of(t) = Top(t).of /\ Of(t) \in States
        /\ V(t) = Top(t).v /\ V(t) \in Seq(Vals)
        /\ Top(t) \in FrameSet
        /\ V(t)[1] \in Fns
    BY RunningTop, TopKnows, TopTypes DEF Register
  <1>2. Quiet /\ Data'
    BY <1>1 DEF Register, Quiet, resultVars, readyVars, startVars, fnVars,
                history, IInv, Data
  <1>3. PICK f, g : /\ Made(f, "depend", V(t)[1], <<>>)
                    /\ Made(g, "scope", Of(t), <<>>) /\ Call(t, f, g)
    BY <1>1, MadeEmpty, OpNames, Kindly DEF Register
  <1>4. Fits(f) /\ Fits(g)
    BY <1>3, FreeFits DEF Made
  <1>5. Light(g) /\ Alike(f, Top(t))
    BY <1>1, <1>3, LightLoad, AlikeFrames
       DEF Made, LightOps, TellOps, RegisterOps
  <1>6. Parts(f, g, Top(t))
    BY <1>1, <1>3, <1>5, PartFrames DEF Made
  <1> QED BY <1>1, <1>2, <1>3, <1>4, <1>6, HeavyCall DEF Made, Storing

LEMMA SetCurrentExceptionStep ==
    ASSUME IInv, NEW t \in Threads, SetCurrentException(t)
    PROVE  IInv'
  <1>1. /\ stack[t] # <<>> /\ Top(t).op = "except"
        /\ Of(t) = Top(t).of /\ Of(t) \in States
        /\ Top(t) \in FrameSet
    BY RunningTop DEF SetCurrentException
  <1>2. Quiet /\ Data'
    BY <1>1 DEF SetCurrentException, Quiet, resultVars, readyVars, startVars,
                fnVars, history, IInv, Data
  <1>3. CASE state[Of(t)] = "uninitialized"
    <2>1. PICK f, g : /\ Made(f, "set", Of(t), <<"exc", "noexcept">>)
                      /\ Made(g, "drop", Of(t), <<>>)
                      /\ Call(t, f, g)
      BY <1>1, <1>3, MadeFrame, MadeEmpty, OpNames, OneTuples, WordsAreVals
         DEF SetCurrentException
    <2>2. Fits(f) /\ Fits(g)
      BY <2>1, FreeFits, ResultFits, OneTuples, WordsAreVals DEF Made
    <2>3. Light(f) /\ Alike(g, Top(t))
      BY <1>1, <2>1, LightLoad, AlikeFrames DEF Made, LightOps, PromiseOps
    <2>4. Parts(f, g, Top(t))
      BY <1>1, <2>1, <2>3, PartFrames DEF Made
    <2> QED BY <1>1, <1>2, <2>1, <2>2, <2>4, HeavyCall DEF Made, Storing
  <1>4. CASE state[Of(t)] # "uninitialized"
    <2>1. PICK f : Made(f, "drop", Of(t), <<>>) /\ Goto(t, f)
      BY <1>1, <1>4, MadeEmpty, OpNames DEF SetCurrentException
    <2>2. Fits(f)
      BY <2>1, FreeFits DEF Made
    <2>3. Alike(f, Top(t))
      BY <1>1, <2>1, AlikeFrames DEF Made, PromiseOps
    <2> QED BY <1>1, <1>2, <2>1, <2>2, <2>3, HeavyGoto DEF Made, Storing
  <1> QED BY <1>3, <1>4

LEMMA LockSourceStep ==
    ASSUME IInv, NEW t \in Threads, LockSource(t)
    PROVE  IInv'
  <1>1. /\ stack[t] # <<>> /\ Top(t).op \in {"convert", "commit"}
        /\ Of(t) = Top(t).of /\ Of(t) \in States
        /\ V(t) = Top(t).v /\ V(t) \in Seq(Vals)
        /\ Top(t) \in FrameSet
        /\ Of(t) \in Promises /\ V(t)[1] \in States /\ made[V(t)[1]]
        /\ Top(t).op = "commit" =>
              /\ V(t)[2] \in Nat
              /\ state[V(t)[1]] \notin ReadyStates =>
                    /\ V(t)[2] \in DOMAIN deps[V(t)[1]]
                    /\ deps[V(t)[1]][V(t)[2]] \notin Fns
    <2>1. Running(t, "convert") \/ Running(t, "commit")
      BY DEF LockSource
    <2> QED BY <2>1, RunningTop, TopKnows, TopTypes
  <1>2. Quiet /\ Data'
    BY <1>1 DEF LockSource, Quiet, resultVars, readyVars, startVars, fnVars,
                history, IInv, Data
  <1>3. CASE Top(t).op = "convert"
    <2>1. PICK f : Made(f, "reserve", Of(t), V(t)) /\ Goto(t, f)
      BY <1>1, <1>3, MadeFrame, OpNames DEF LockSource
    <2>2. Fits(f)
      BY <1>1, <1>2, <2>1, ConvertFits DEF Made, Quiet
    <2>3. Alike(f, Top(t))
      BY <1>1, <1>3, <2>1, AlikeFrames DEF Made, PromiseOps, SourceOps
    <2> QED BY <1>1, <1>2, <2>1, <2>2, <2>3, HeavyGoto DEF Made, Storing
  <1>4. CASE Top(t).op = "commit"
    <2>1. PICK f : Made(f, "fill", Of(t), V(t)) /\ Goto(t, f)
      BY <1>1, <1>4, MadeFrame, OpNames DEF LockSource
    <2>2. Fits(f)
      BY <1>1, <1>2, <1>4, <2>1, ConvertFits DEF Made, Quiet, PlaceOps
    <2>3. Alike(f, Top(t))
      BY <1>1, <1>4, <2>1, AlikeFrames DEF Made, PromiseOps, SourceOps
    <2> QED BY <1>1, <1>2, <2>1, <2>2, <2>3, HeavyGoto DEF Made, Storing
  <1> QED BY <1>1, <1>3, <1>4

LEMMA ReserveReady ==
    ASSUME IInv, NEW t \in Threads, Reserve(t), Ready(V(t)[1])
    PROVE  IInv'
  <1>1. /\ stack[t] # <<>> /\ Top(t).op = "reserve"
        /\ Of(t) = Top(t).of /\ Of(t) \in States
        /\ Top(t) \in FrameSet
        /\ Of(t) \in Promises /\ V(t)[1] \in States /\ made[V(t)[1]]
    BY RunningTop, TopKnows, TopTypes DEF Reserve
  <1>2. Quiet /\ Data'
    BY <1>1 DEF Reserve, Quiet, resultVars, readyVars, startVars, fnVars,
                history, IInv, Data
  <1>3. V(t)[1] \in Vals
    BY <1>1, WordsAreVals
  <1>4. PICK f : Made(f, "present", Of(t), <<V(t)[1], 1>>) /\ Goto(t, f)
    BY <1>1, <1>3, MadeFrame, OpNames, OneTuples, WordsAreVals DEF Reserve
  <1>5. f.v[1] = V(t)[1] /\ f.v[2] = 1
    BY <1>4 DEF Made
  <1>6. Fits(f)
    BY <1>1, <1>2, <1>4, <1>5, ConvertFits DEF Made, Quiet, PlaceOps, Ready
  <1>7. Alike(f, Top(t))
    BY <1>1, <1>4, AlikeFrames DEF Made, PromiseOps, SourceOps
  <1> QED BY <1>1, <1>2, <1>4, <1>6, <1>7, HeavyGoto DEF Made, Storing

\* Being told that a source is ready is no load for a promise.
LEMMA PromiseTold ==
    \A f \in FrameSet : f.op = "depend" /\ f.of \in Promises => Light(f)
  BY HeavyLoads, Kindly DEF Light, One

\* Frames of which one has loads.
LEMMA OneLoaded ==
    ASSUME NEW f \in FrameSet, NEW g \in FrameSet, NEW h \in FrameSet,
           Light(g)
    PROVE  /\ \A k, x : Counted(k, x) => Weight(<<f, g>>, k, x) = Load(k, x, f)
           /\ Light(f) => \A k, x : Counted(k, x) =>
                 Weight(<<f, g, h>>, k, x) = Load(k, x, h)
           /\ Light(h) => \A k, x : Counted(k, x) =>
                 Weight(<<f, g, h>>, k, x) = Load(k, x, f)
  <1>1. \A k, x : /\ Load(k, x, f) \in Nat /\ Load(k, x, h) \in Nat
                  /\ Counted(k, x) => Load(k, x, g) = 0
    BY LoadNat DEF Light
  <1>2. \A k, x : Weight(<<f, g>>, k, x) = Load(k, x, f) + Load(k, x, g)
    BY Weights
  <1>3. \A k, x : Weight(<<f, g, h>>, k, x) =
                     Load(k, x, f) + Load(k, x, g) + Load(k, x, h)
    BY Weights
  <1>4. Light(f) => \A k, x : Counted(k, x) => Load(k, x, f) = 0
    BY DEF Light
  <1>5. Light(h) => \A k, x : Counted(k, x) => Load(k, x, h) = 0
    BY DEF Light
  <1> QED BY <1>1, <1>2, <1>3, <1>4, <1>5

LEMMA CommitReady ==
    ASSUME IInv, NEW t \in Threads, Commit(t), Ready(V(t)[1])
    PROVE  IInv'
  <1>1. /\ stack[t] # <<>> /\ Top(t).op = "fill"
        /\ Of(t) = Top(t).of /\ Of(t) \in States
        /\ Top(t) \in FrameSet
        /\ Of(t) \in Promises /\ V(t)[1] \in States /\ made[V(t)[1]]
    BY RunningTop, TopKnows, TopTypes DEF Commit
  <1>2. Quiet /\ Data'
    BY <1>1 DEF Commit, Quiet, resultVars, readyVars, startVars, fnVars,
                history, IInv, Data
  <1>3. <<V(t)[1]>> \in Seq(Vals)
    BY <1>1, WordsAreVals
  <1>4. PICK f, g, h :
           /\ Made(f, "depend", Of(t), <<>>)
           /\ Made(g, "scope", V(t)[1], <<>>)
           /\ Made(h, "started", Of(t), <<V(t)[1]>>)
           /\ stack' = [stack EXCEPT ![t] = <<f, g, h>> \o Tail(@)]
    BY <1>1, <1>3, MadeFrame, MadeEmpty, OpNames DEF Commit
  <1>5. h.v[1] = V(t)[1]
    BY <1>4 DEF Made
  <1>6. Fits(f) /\ Fits(g) /\ Fits(h)
    BY <1>1, <1>2, <1>4, <1>5, FreeFits, ConvertFits DEF Made, Quiet
  <1>7. Light(f) /\ Light(g) /\ Alike(h, Top(t))
    BY <1>1, <1>4, PromiseTold, LightLoad, AlikeFrames
       DEF Made, LightOps, PromiseOps, SourceOps
  <1> DEFINE s == <<f, g, h>>
  <1>8. /\ s \in Seq(FrameSet) /\ DOMAIN s = {1, 2, 3} /\ s # <<>>
        /\ s[1] = f /\ s[2] = g /\ s[3] = h
    BY <1>4 DEF Made
  <1>9. Moves(t, s)
    BY <1>1, <1>2, <1>4, <1>8 DEF Moves, Quiet
  <1>10. Same(t, s)
    <2>1. f \in FrameSet /\ g \in FrameSet /\ h \in FrameSet
      BY <1>4 DEF Made
    <2>2. \A k, x : Counted(k, x) => Weight(s, k, x) = Load(k, x, h)
      BY <1>7, <2>1, OneLoaded
    <2> QED BY <1>7, <2>2 DEF Same, Alike
  <1> HIDE DEF s
  <1>11. \A i \in DOMAIN s : /\ Fits(s[i]) /\ s[i].op # "run"
                             /\ s[i].op \notin Storing
    BY <1>4, <1>6, <1>8 DEF Made, Storing
  <1>12. \A i \in DOMAIN s : Typed(s[i]) /\ Known(s[i])' /\ Fed(s, i)'
    BY <1>11 DEF Fits, Fed
  <1>13. Proceeds(t, s) /\ Top(t).op \notin Storing
    BY <1>1, <1>9, <1>12 DEF Proceeds, Leads, Storing
  <1> QED BY <1>2, <1>10, <1>11, <1>13, QuietStep

LEMMA PassStartStep ==
    ASSUME IInv, NEW t \in Threads, PassStart(t)
    PROVE  IInv'
  <1>1. /\ stack[t] # <<>> /\ Top(t).op = "started"
        /\ Of(t) = Top(t).of /\ Of(t) \in States
        /\ Top(t) \in FrameSet
        /\ Of(t) \in Promises /\ V(t)[1] \in States /\ made[V(t)[1]]
    BY RunningTop, TopKnows, TopTypes DEF PassStart
  <1>2. Quiet /\ Data'
    BY <1>1 DEF PassStart, Quiet, resultVars, readyVars, startVars, fnVars,
                history, IInv, Data
  <1>3. CASE UNCHANGED stack
    BY <1>2, <1>3, NothingMoves
  <1>4. CASE /\ ~UNCHANGED stack /\ called[Of(t)]
    <2>1. PICK how \in {"sync", "async"} :
             Call(t, Frame("start", V(t)[1], <<how>>),
                     Frame("drop", Of(t), <<>>))
      <3>1. CASE async[Of(t)]
        BY <1>4, <3>1 DEF PassStart
      <3>2. CASE ~async[Of(t)]
        BY <1>4, <3>2 DEF PassStart
      <3> QED BY <3>1, <3>2
    <2>2. <<how>> \in Seq(Vals)
      BY WordsAreVals
    <2>3. PICK f, g : /\ Made(f, "start", V(t)[1], <<how>>)
                      /\ Made(g, "drop", Of(t), <<>>)
                      /\ Call(t, f, g)
      BY <1>1, <2>1, <2>2, MadeFrame, MadeEmpty, OpNames
    <2>4. Fits(f) /\ Fits(g)
      BY <1>1, <1>2, <2>3, FreeFits, StartFits DEF Made, Quiet
    <2>5. Light(f) /\ Alike(g, Top(t))
      BY <1>1, <2>3, LightLoad, AlikeFrames
         DEF Made, LightOps, PromiseOps, SourceOps
    <2>6. Parts(f, g, Top(t))
      BY <1>1, <2>3, <2>5, PartFrames DEF Made
    <2> QED BY <1>1, <1>2, <2>3, <2>4, <2>6, HeavyCall DEF Made, Storing
  <1>5. CASE /\ ~UNCHANGED stack /\ ~called[Of(t)]
    <2>1. PICK f : Made(f, "drop", Of(t), <<>>) /\ Goto(t, f)
      BY <1>1, <1>5, MadeEmpty, OpNames DEF PassStart
    <2>2. Fits(f)
      BY <2>1, FreeFits DEF Made
    <2>3. Alike(f, Top(t))
      BY <1>1, <2>1, AlikeFrames DEF Made, PromiseOps, SourceOps
    <2> QED BY <1>1, <1>2, <2>1, <2>2, <2>3, HeavyGoto DEF Made, Storing
  <1> QED BY <1>3, <1>4, <1>5

LEMMA DependConvertStep ==
    ASSUME IInv, NEW t \in Threads, DependConvert(t)
    PROVE  IInv'
  <1>1. /\ stack[t] # <<>> /\ Top(t).op = "depend"
        /\ Of(t) = Top(t).of /\ Of(t) \in States
        /\ Top(t) \in FrameSet
        /\ Of(t) \in Promises /\ conv[Of(t)] \in States /\ made[conv[Of(t)]]
    BY RunningTop DEF DependConvert, IInv, Starts, Data
  <1>2. Quiet /\ Data'
    BY <1>1 DEF DependConvert, Quiet, resultVars, readyVars, startVars,
                fnVars, history, IInv, Data
  <1>3. PICK f, g : /\ Made(f, "get", conv[Of(t)], <<>>)
                    /\ Made(g, "conv", Of(t), <<>>) /\ Call(t, f, g)
    BY <1>1, MadeEmpty, OpNames DEF DependConvert
  <1>4. Fits(f) /\ Fits(g)
    BY <1>1, <1>2, <1>3, StartFits, ConvertFits DEF Made, Quiet
  <1>5. Light(f) /\ Light(g) /\ Light(Top(t))
    BY <1>1, <1>3, LightLoad, PromiseTold DEF Made, LightOps
  <1>6. Parts(f, g, Top(t))
    BY <1>5 DEF Parts, Light
  <1> QED BY <1>1, <1>2, <1>3, <1>4, <1>6, HeavyCall DEF Made, Storing

LEMMA CallbackCallStep ==
    ASSUME IInv, NEW t \in Threads, CallbackCall(t)
    PROVE  IInv'
  <1>1. /\ stack[t] # <<>> /\ Top(t).op = "callback"
        /\ Of(t) = Top(t).of /\ Of(t) \in States
        /\ V(t) = Top(t).v /\ V(t) \in Seq(Vals)
        /\ Top(t) \in FrameSet
        /\ V(t)[1] \in Callbacks /\ On[V(t)[1]] = Of(t) /\ made[Of(t)]
    BY RunningTop, TopKnows, TopTypes DEF CallbackCall
  <1>2. Quiet /\ Data'
    BY <1>1 DEF CallbackCall, Quiet, resultVars, readyVars, startVars,
                fnVars, history, IInv, Data
  <1>3. CASE Ready(Of(t))
    <2>1. <<V(t)[1]>> \in Seq(Vals)
      BY <1>1, WordsAreVals
    <2>2. PICK f, g : /\ Made(f, "call", Of(t), <<V(t)[1]>>)
                      /\ Made(g, "unchain", Of(t), <<V(t)[1]>>)
                      /\ Call(t, f, g)
      BY <1>1, <1>3, <2>1, MadeFrame, OpNames DEF CallbackCall
    <2>3. f.v[1] = V(t)[1] /\ g.v[1] = V(t)[1]
      BY <2>2 DEF Made
    <2>4. Fits(f) /\ Fits(g)
      BY <1>1, <1>2, <1>3, <2>2, <2>3, CallFits DEF Made, Quiet, Ready
    <2>5. Light(g) /\ Alike(f, Top(t))
      BY <1>1, <2>2, <2>3, LightLoad, AlikeFrames DEF Made, LightOps, BackOps
    <2>6. Parts(f, g, Top(t))
      BY <1>1, <2>2, <2>5, PartFrames DEF Made
    <2> QED BY <1>1, <1>2, <2>2, <2>4, <2>6, HeavyCall DEF Made, Storing
  <1>4. CASE ~Ready(Of(t))
    <2>1. PICK f : Made(f, "install", Of(t), V(t)) /\ Goto(t, f)
      BY <1>1, <1>4, MadeFrame, OpNames DEF CallbackCall
    <2>2. Fits(f)
      BY <1>1, <1>2, <2>1, CallFits DEF Made, Quiet
    <2>3. Alike(f, Top(t))
      BY <1>1, <2>1, AlikeFrames DEF Made, BackOps
    <2> QED BY <1>1, <1>2, <2>1, <2>2, <2>3, HeavyGoto DEF Made, Storing
  <1> QED BY <1>3, <1>4

LEMMA InstallReadyStep ==
    ASSUME IInv, NEW t \in Threads, InstallReady(t)
    PROVE  IInv'
  <1>1. /\ stack[t] # <<>> /\ Top(t).op = "installed" /\ Ready(Of(t))
        /\ Of(t) = Top(t).of /\ Of(t) \in States
        /\ Top(t) \in FrameSet
        /\ V(t) = Top(t).v
        /\ V(t)[1] \in Callbacks /\ On[V(t)[1]] = Of(t) /\ made[Of(t)]
    BY RunningTop, TopKnows, TopTypes DEF InstallReady
  <1>2. Quiet /\ Data'
    BY <1>1 DEF InstallReady, Quiet, resultVars, readyVars, startVars,
                fnVars, history, IInv, Data
  <1>3. <<V(t)[1]>> \in Seq(Vals)
    BY <1>1, WordsAreVals
  <1>4. PICK f, g, h :
           /\ Made(f, "call", Of(t), <<V(t)[1]>>)
           /\ Made(g, "unchain", Of(t), <<V(t)[1]>>)
           /\ Made(h, "start", Of(t), <<"sync">>)
           /\ f = Frame("call", Of(t), <<V(t)[1]>>)
           /\ g = Frame("unchain", Of(t), <<V(t)[1]>>)
           /\ h = Frame("start", Of(t), <<"sync">>)
    BY <1>1, <1>3, MadeFrame, OpNames, OneTuples, WordsAreVals
  <1>5. f.v[1] = V(t)[1] /\ g.v[1] = V(t)[1]
    BY <1>4 DEF Made
  <1>6. Fits(f) /\ Fits(g) /\ Fits(h)
    BY <1>1, <1>2, <1>4, <1>5, CallFits, StartFits DEF Made, Quiet, Ready
  <1>7. Alike(f, Top(t)) /\ Light(g) /\ Light(h)
    BY <1>1, <1>4, <1>5, LightLoad, AlikeFrames DEF Made, LightOps, BackOps
  <1>8. \E s \in Seq(FrameSet) :
           /\ s # <<>> /\ Moves(t, s) /\ Same(t, s)
           /\ \A i \in DOMAIN s : s[i] \in {f, g, h}
    <2>1. stack[t] \in Seq(FrameSet) /\ DOMAIN stack = Threads
      BY StacksAndPrograms DEF IInv
    <2>2. CASE V(t)[2] = "start"
      <3> DEFINE s == <<f, g, h>>
      <3>1. /\ s \in Seq(FrameSet) /\ s # <<>>
            /\ \A i \in DOMAIN s : s[i] \in {f, g, h}
        BY <1>4 DEF Made
      <3>2. s = <<f, g>> \o <<h>>
        BY <1>4, TriplesConcat DEF Made
      <3>3. stack' = [stack EXCEPT ![t] =
                         <<f, g>> \o <<h>> \o Tail(@)]
        BY <1>4, <2>2 DEF InstallReady, AfterInstall
      <3>4. stack' = [stack EXCEPT ![t] = s \o Tail(@)]
        BY <3>2, <3>3
      <3>5. Same(t, s)
        <4>1. f \in FrameSet /\ g \in FrameSet /\ h \in FrameSet
          BY <1>4 DEF Made
        <4>2. \A k, x : Counted(k, x) => Weight(s, k, x) = Load(k, x, f)
          BY <1>7, <4>1, OneLoaded
        <4> QED BY <1>7, <4>2 DEF Same, Alike
      <3> HIDE DEF s
      <3>6. Moves(t, s)
        BY <1>1, <1>2, <3>1, <3>4 DEF Moves, Quiet
      <3> QED BY <3>1, <3>5, <3>6
    <2>3. CASE V(t)[2] # "start"
      <3> DEFINE s == <<f, g>>
      <3>1. /\ s \in Seq(FrameSet) /\ s # <<>>
            /\ \A i \in DOMAIN s : s[i] \in {f, g, h}
        BY <1>4 DEF Made
      <3>2. s = <<f, g>> \o <<>>
        BY <3>1, ConcatEmptySeq
      <3>3. stack' = [stack EXCEPT ![t] = <<f, g>> \o <<>> \o Tail(@)]
        BY <1>4, <2>3 DEF InstallReady, AfterInstall
      <3>4. stack' = [stack EXCEPT ![t] = s \o Tail(@)]
        BY <3>2, <3>3
      <3>5. Same(t, s)
        <4>1. f \in FrameSet /\ g \in FrameSet /\ h \in FrameSet
          BY <1>4 DEF Made
        <4>2. \A k, x : Counted(k, x) => Weight(s, k, x) = Load(k, x, f)
          BY <1>7, <4>1, OneLoaded
        <4> QED BY <1>7, <4>2 DEF Same, Alike
      <3> HIDE DEF s
      <3>6. Moves(t, s)
        BY <1>1, <1>2, <3>1, <3>4 DEF Moves, Quiet
      <3> QED BY <3>1, <3>5, <3>6
    <2> QED BY <2>2, <2>3
  <1>9. PICK s \in Seq(FrameSet) :
           /\ s # <<>> /\ Moves(t, s) /\ Same(t, s)
           /\ \A i \in DOMAIN s : s[i] \in {f, g, h}
    BY <1>8
  <1>10. \A i \in DOMAIN s : /\ Fits(s[i]) /\ s[i].op # "run"
                             /\ s[i].op \notin Storing
    BY <1>4, <1>6, <1>9 DEF Made, Storing
  <1>11. \A i \in DOMAIN s : Typed(s[i]) /\ Known(s[i])' /\ Fed(s, i)'
    BY <1>10 DEF Fits, Fed
  <1>12. Proceeds(t, s) /\ Top(t).op \notin Storing
    BY <1>1, <1>9, <1>11 DEF Proceeds, Leads, Storing
  <1> QED BY <1>2, <1>9, <1>10, <1>12, QuietStep

LEMMA ClaimAgain ==
    ASSUME IInv, NEW t \in Threads, Claim(t), state[Of(t)] # "deferred"
    PROVE  IInv'
  <1>1. /\ stack[t] # <<>> /\ Top(t).op = "claim"
        /\ Of(t) = Top(t).of /\ Of(t) \in States
        /\ V(t) = Top(t).v /\ V(t) \in Seq(Vals)
    BY RunningTop DEF Claim
  <1>2. Quiet /\ Data'
    BY <1>1 DEF Claim, Quiet, resultVars, readyVars, startVars, fnVars,
                history, IInv, Data
  <1>3. PICK f : Made(f, "base", Of(t), V(t)) /\ Goto(t, f)
    BY <1>1, MadeFrame, OpNames DEF Claim
  <1>4. Fits(f)
    BY <1>3, FreeFits DEF Made
  <1> QED BY <1>1, <1>2, <1>3, <1>4, LightGoto DEF Made, Storing, LightOps

-----------------------------------------------------------------------------
(* The steps that are not quiet.                                           *)

\* What is in the lists of a ready shared state was there before.
ListsFixed ==
    \A o \in States :
       Ready(o)' /\ (single'[o] # None \/ chain'[o] # <<>> \/ deps'[o] # <<>>)
       => Ready(o) /\ (single[o] # None \/ chain[o] # <<>> \/ deps[o] # <<>>)

LEMMA PlainKept ==
    ASSUME IInv, NEW t \in Threads, NEW s, Proceeds(t, s), Forward,
           Top(t).op \notin Storing, \A i \in DOMAIN s : s[i].op \notin Storing,
           lck' = lck, storage' = storage, RunsSound,
           \A o \in States : Ready(o)' => Ready(o),
           ListsFixed
    PROVE  Frames' /\ ResultLocked' /\ ListsTaken' /\ ArgumentsReady'
  <1>1. Frames /\ ResultLocked /\ ListsTaken /\ ArgumentsReady
    BY DEF IInv
  <1>2. /\ Moves(t, s) /\ Leads(t, s)
        /\ \A i \in DOMAIN s : Typed(s[i]) /\ Known(s[i])'
    BY DEF Proceeds, Leads
  <1>3. Frames'
    BY <1>1, <1>2, FramesKept
  <1>4. ResultLocked'
    BY <1>1, <1>2, LockKept
  <1>5. ListsTaken'
    BY <1>1, ListsKept DEF ListsFixed
  <1>6. ArgumentsReady'
    BY <1>1, <1>2, ArgsKept
  <1> QED BY <1>3, <1>4, <1>5, <1>6

LEMMA StartsKept ==
    ASSUME Starts, made' = made, conv' = conv, posted' = posted,
           \A o \in States : called[o] => called'[o],
           \A o \in States : state'[o] = "deferred" <=> state[o] = "deferred"
    PROVE  Starts'
  BY Kindly DEF Starts, Fns, States

LEMMA KindsCounted ==
    /\ \A o : Counted("promise", o) /\ Counted("run", o) /\ Counted("make", o)
    /\ \A o \in Fns : Counted("tell", o)
    /\ \A c \in Callbacks : Counted("call", c)
  BY DEF Counted, Kinds

\* What a step adds to the totals.
Adds(k, x, d) == Total(k, x)' = Total(k, x) + d
AddsNone(k) == \A x : Counted(k, x) => Adds(k, x, 0)

LEMMA TotalsAre ==
    ASSUME IInv
    PROVE  \A k, x : Total(k, x) \in Nat
  BY TotalNat DEF IInv

LEMMA NoneAdded ==
    ASSUME IInv
    PROVE  /\ AddsNone("promise") =>
                 \A o \in States : Total("promise", o)' = Total("promise", o)
           /\ AddsNone("make") =>
                 \A o \in Fns : Total("make", o)' = Total("make", o)
           /\ AddsNone("run") =>
                 \A o \in Fns : Total("run", o)' = Total("run", o)
           /\ AddsNone("tell") =>
                 \A o \in Fns : Total("tell", o)' = Total("tell", o)
           /\ AddsNone("call") =>
                 \A c \in Callbacks : Total("call", c)' = Total("call", c)
  BY TotalsAre, KindsCounted DEF AddsNone, Adds

LEMMA Kept ==
    ASSUME IInv
    PROVE  /\ AddsNone("promise") /\ promises' = promises => PromisesCounted'
           /\ /\ AddsNone("call") /\ calls' = calls
              /\ single' = single /\ chain' = chain
              => CalledOnce'
           /\ AddsNone("make") /\ made' = made => MadeOnce'
           /\ /\ AddsNone("tell") /\ need' = need /\ deps' = deps
              /\ \A o \in States : state'[o] = "deferred" <=>
                                   state[o] = "deferred"
              => NeedCounted'
           /\ /\ AddsNone("run") /\ runs' = runs /\ posted' = posted
              /\ \A o \in Fns : need[o] = 0 => need'[o] = 0
              => RunOnce'
  <1>1. AddsNone("promise") /\ promises' = promises => PromisesCounted'
    BY NoneAdded, PromisesKept DEF IInv
  <1>2. /\ AddsNone("call") /\ calls' = calls /\ single' = single
        /\ chain' = chain
        => CalledOnce'
    BY NoneAdded, CallsKept DEF IInv
  <1>3. AddsNone("make") /\ made' = made => MadeOnce'
    BY NoneAdded, MadeKept DEF IInv
  <1>4. /\ AddsNone("tell") /\ need' = need /\ deps' = deps
        /\ \A o \in States : state'[o] = "deferred" <=> state[o] = "deferred"
        => NeedCounted'
    <2> SUFFICES ASSUME AddsNone("tell"), need' = need, deps' = deps,
                        \A o \in States : state'[o] = "deferred" <=>
                                          state[o] = "deferred"
                 PROVE  NeedCounted'
      OBVIOUS
    <2>1. \A o \in Fns : Dependants(o)' = Dependants(o)
      BY DEF Dependants
    <2>2. \A o \in Fns : /\ Total("tell", o)' = Total("tell", o)
                         /\ Dependants(o)' = Dependants(o)
                         /\ state'[o] = "deferred" <=> state[o] = "deferred"
      BY <2>1, NoneAdded, Kindly
    <2> QED BY <2>2, NeedKept DEF IInv
  <1>5. /\ AddsNone("run") /\ runs' = runs /\ posted' = posted
        /\ \A o \in Fns : need[o] = 0 => need'[o] = 0
        => RunOnce'
    BY NoneAdded, RunKept DEF IInv
  <1> QED BY <1>1, <1>2, <1>3, <1>4, <1>5

\* The totals after a step, from what the frames carry.
LEMMA TotalsAfter ==
    ASSUME IInv, NEW t \in Threads, NEW s, Moves(t, s)
    PROVE  \A k, x :
              /\ Total(k, x) \in Nat /\ Total(k, x)' \in Nat
              /\ Load(k, x, Top(t)) =< Total(k, x)
              /\ Load(k, x, Top(t)) \in Nat /\ Weight(s, k, x) \in Nat
              /\ Total(k, x)' =
                    (Total(k, x) - Load(k, x, Top(t))) + Weight(s, k, x)
  BY MoveTotals DEF IInv

LEMMA SameAdds ==
    ASSUME IInv, NEW t \in Threads, NEW s, Moves(t, s)
    PROVE  /\ Same(t, s) => \A k : AddsNone(k)
           /\ \A k : (\A x : Counted(k, x) =>
                         Weight(s, k, x) = Load(k, x, Top(t)))
                     => AddsNone(k)
  BY TotalsAfter DEF Same, AddsNone, Adds

\* The frames of a stack whose top is replaced by f.
LEMMA GotoFrames ==
    ASSUME IInv, NEW t \in Threads, stack[t] # <<>>, NEW f \in FrameSet,
           Goto(t, f), prog' = prog
    PROVE  /\ Moves(t, <<f>>)
           /\ stack'[t] # <<>> /\ stack'[t][1] = f /\ Top(t)' = f
           /\ \A i \in DOMAIN stack'[t] : i # 1 =>
                 i \in DOMAIN stack[t] /\ stack'[t][i] = stack[t][i]
           /\ \A u \in Threads : u # t => stack'[u] = stack[u]
           /\ \A k, x : Weight(<<f>>, k, x) = Load(k, x, f)
           /\ DOMAIN stack' = Threads
  <1> DEFINE s == <<f>>
  <1>1. s \in Seq(FrameSet) /\ Len(s) = 1 /\ s[1] = f
    OBVIOUS
  <1>2. Moves(t, s)
    BY <1>1 DEF Moves, Goto
  <1>3. \A k, x : Weight(s, k, x) = Load(k, x, f)
    BY Weights
  <1> HIDE DEF s
  <1>4. /\ stack'[t] = s \o Tail(stack[t]) /\ stack'[t] \in Seq(FrameSet)
        /\ Len(stack[t]) \in Nat \ {0}
        /\ DOMAIN stack[t] = 1 .. Len(stack[t])
        /\ DOMAIN stack'[t] = 1 .. Len(s) + Len(stack[t]) - 1
        /\ \A i \in DOMAIN stack'[t] :
              IF i =< Len(s) THEN i \in DOMAIN s /\ stack'[t][i] = s[i]
              ELSE /\ i - Len(s) + 1 \in DOMAIN stack[t]
                   /\ stack'[t][i] = stack[t][i - Len(s) + 1]
        /\ \A u \in Threads : u # t => stack'[u] = stack[u]
        /\ DOMAIN stack' = Threads
    BY <1>2, NewStack DEF IInv
  <1>5. 1 \in DOMAIN stack'[t] /\ stack'[t][1] = f
    BY <1>1, <1>4
  <1>6. stack'[t] # <<>>
    BY <1>5
  <1>7. Top(t)' = f
    BY <1>4, <1>5, <1>6 DEF Top
  <1>8. \A i \in DOMAIN stack'[t] : i # 1 =>
           i \in DOMAIN stack[t] /\ stack'[t][i] = stack[t][i]
    BY <1>1, <1>4
  <1> QED BY <1>2, <1>3, <1>4, <1>5, <1>6, <1>7, <1>8 DEF s

\* Setting a result: who has lck_, and what the frames below are not.
LEMMA ResultFrames ==
    ASSUME IInv, NEW t \in Threads, stack[t] # <<>>, NEW f \in FrameSet,
           Goto(t, f), prog' = prog, Fits(f), Forward,
           Top(t).op \in {"set", "store", "publish"},
           f.op \in {"store", "publish", "ready"},
           \A o \in States : o # f.of => (Ready(o)' <=> Ready(o)),
           f.op # "ready" => (Ready(f.of)' <=> Ready(f.of)),
           f.of = Top(t).of,
           UNCHANGED <<single, chain, deps, runs>>
    PROVE  /\ Frames' /\ ListsTaken' /\ ArgumentsReady'
           /\ \A k : AddsNone(k)
           /\ \A u \in Threads : \A i \in DOMAIN stack'[u] :
                 stack'[u][i].op \in Storing =>
                    \/ u = t /\ i = 1 /\ stack'[u][i] = f
                    \/ u # t /\ stack'[u] = stack[u]
  <1> DEFINE s == <<f>>
  <1>1. /\ Moves(t, s)
        /\ stack'[t] # <<>> /\ stack'[t][1] = f /\ Top(t)' = f
        /\ \A i \in DOMAIN stack'[t] : i # 1 =>
              i \in DOMAIN stack[t] /\ stack'[t][i] = stack[t][i]
        /\ \A u \in Threads : u # t => stack'[u] = stack[u]
    BY GotoFrames
  <1>2. DOMAIN s = {1} /\ s[1] = f /\ s # <<>>
    OBVIOUS
  <1>3. \A k, x : Weight(s, k, x) = Load(k, x, f)
    BY GotoFrames
  <1>4. Light(f) /\ Light(Top(t))
    BY LightLoad, TopTyped DEF LightOps, IInv
  <1>5. Same(t, s)
    BY <1>3, <1>4 DEF Same, Light
  <1> HIDE DEF s
  <1>6. \A i \in DOMAIN s : Typed(s[i]) /\ Known(s[i])' /\ Fed(s, i)'
    BY <1>2 DEF Fits, Fed
  <1>7. Leads(t, s)
    BY <1>1, <1>6 DEF Leads
  <1>8. Frames' /\ ArgumentsReady'
    BY <1>1, <1>6, <1>7, FramesKept, ArgsKept DEF IInv, RunsSound
  <1>9. \A k : AddsNone(k)
    BY <1>1, <1>5, SameAdds
  <1>10. ListsTaken'
    <2> SUFFICES ASSUME NEW o \in States, Ready(o)',
                        single'[o] # None \/ chain'[o] # <<>>
                        \/ deps'[o] # <<>>
                 PROVE  \E u \in Threads : /\ stack'[u] # <<>>
                                           /\ Top(u)'.of = o
                                           /\ Top(u)'.op \in {"ready", "swap"}
      BY DEF ListsTaken
    <2>1. CASE f.op = "ready" /\ f.of = o
      BY <1>1, <2>1
    <2>2. CASE ~(f.op = "ready" /\ f.of = o)
      <3>1. Ready(o)
        BY <2>2
      <3>2. PICK u \in Threads : /\ stack[u] # <<>> /\ Top(u).of = o
                                 /\ Top(u).op \in {"ready", "swap"}
        BY <3>1 DEF ListsTaken, IInv
      <3>3. u # t
        BY <3>2
      <3> QED BY <1>1, <3>2, <3>3 DEF Top
    <2> QED BY <2>1, <2>2
  <1>11. ASSUME NEW u \in Threads, NEW i \in DOMAIN stack'[u],
                stack'[u][i].op \in Storing
         PROVE  \/ u = t /\ i = 1 /\ stack'[u][i] = f
                \/ u # t /\ stack'[u] = stack[u]
    <2>1. CASE u # t
      BY <1>1, <2>1
    <2>2. CASE u = t /\ i = 1
      BY <1>1, <2>2
    <2>3. CASE u = t /\ i # 1
      BY <1>1, <1>11, <2>3 DEF IInv, ResultLocked, Storing
    <2> QED BY <2>1, <2>2, <2>3
  <1> QED BY <1>8, <1>9, <1>10, <1>11

LEMMA SetStep ==
    ASSUME IInv, NEW t \in Threads, Set(t)
    PROVE  IInv'
  <1>1. /\ stack[t] # <<>> /\ Top(t).op = "set"
        /\ Of(t) = Top(t).of /\ Of(t) \in States
        /\ V(t) = Top(t).v /\ V(t) \in Seq(Vals)
        /\ V(t)[1] \in {"value", "exc", "broken"}
        /\ lck[Of(t)] = None /\ state[Of(t)] = "uninitialized"
    BY RunningTop, TopTypes DEF Set
  <1>2. /\ UNCHANGED <<state, storage, readyVars, startVars, fnVars, prog,
                       history>>
        /\ lck' = [lck EXCEPT ![Of(t)] = t]
    BY DEF Set
  <1>3. Data'
    BY <1>1, <1>2 DEF Set, readyVars, startVars, fnVars, history, IInv, Data
  <1>4. \A o \in States : (Ready(o)' <=> Ready(o))
    BY <1>2 DEF Ready
  <1>5. Forward
    BY <1>2, <1>4 DEF Forward, startVars, fnVars, readyVars
  <1>6. PICK f : Made(f, "store", Of(t), V(t)) /\ Goto(t, f)
    BY <1>1, MadeFrame, OpNames DEF Set
  <1>7. Fits(f)
    BY <1>1, <1>2, <1>6, ResultFits DEF Made, Storing
  <1>8. /\ Frames' /\ ListsTaken' /\ ArgumentsReady'
        /\ \A k : AddsNone(k)
        /\ \A u \in Threads : \A i \in DOMAIN stack'[u] :
              stack'[u][i].op \in Storing =>
                 \/ u = t /\ i = 1 /\ stack'[u][i] = f
                 \/ u # t /\ stack'[u] = stack[u]
    BY <1>1, <1>2, <1>4, <1>5, <1>6, <1>7, ResultFrames
       DEF Made, readyVars, history
  <1>9. PromisesCounted' /\ CalledOnce' /\ MadeOnce' /\ NeedCounted' /\ RunOnce'
    BY <1>2, <1>8, Kept DEF readyVars, fnVars, history
  <1>10. Starts'
    BY <1>2, StartsKept DEF IInv, startVars, fnVars
  <1>11. ResultLocked'
    <2>1. ASSUME NEW u \in Threads, NEW i \in DOMAIN stack'[u],
                 stack'[u][i].op \in Storing
          PROVE  /\ i = 1 /\ lck'[stack'[u][i].of] = u
                 /\ stack'[u][i].op = "publish" =>
                       storage'[stack'[u][i].of] = stack'[u][i].v[1]
      <3>1. CASE u = t /\ i = 1 /\ stack'[u][i] = f
        BY <1>1, <1>2, <1>6, <3>1 DEF Made, IInv, Data
      <3>2. CASE u # t /\ stack'[u] = stack[u]
        <4>1. i = 1 /\ lck[stack[u][i].of] = u
          BY <2>1, <3>2 DEF IInv, ResultLocked, Storing
        <4>2. stack[u][i].of # Of(t)
          BY <1>1, <4>1, Kindly
        <4> QED BY <1>2, <2>1, <3>2, <4>1, <4>2
                DEF IInv, ResultLocked, Storing, Data
      <3> QED BY <1>8, <2>1, <3>1, <3>2
    <2>2. \A o \in States : Ready(o)' => lck'[o] = None /\ storage'[o] # "none"
      BY <1>1, <1>2, <1>4 DEF IInv, ResultLocked, Data, Ready, ReadyStates
    <2> QED BY <2>1, <2>2 DEF ResultLocked, Storing
  <1> QED BY <1>3, <1>8, <1>9, <1>10, <1>11 DEF IInv

LEMMA TopStores ==
    ASSUME IInv, NEW t \in Threads, stack[t] # <<>>, Top(t).op \in Storing
    PROVE  /\ lck[Of(t)] = t /\ ~Ready(Of(t))
           /\ Top(t).op = "publish" => storage[Of(t)] = V(t)[1]
  <1>1. Top(t) = stack[t][1] /\ 1 \in DOMAIN stack[t] /\ Of(t) \in States
    BY TopTyped DEF IInv, Of, FrameSet
  <1>2. /\ lck[Of(t)] = t
        /\ Top(t).op = "publish" => storage[Of(t)] = V(t)[1]
    BY <1>1 DEF IInv, ResultLocked, Of, V, Storing
  <1> QED BY <1>1, <1>2, Kindly DEF IInv, ResultLocked

LEMMA StoreStep ==
    ASSUME IInv, NEW t \in Threads, Store(t)
    PROVE  IInv'
  <1>1. /\ stack[t] # <<>> /\ Top(t).op = "store"
        /\ Of(t) = Top(t).of /\ Of(t) \in States
        /\ V(t) = Top(t).v /\ V(t) \in Seq(Vals)
        /\ V(t)[1] \in {"value", "exc", "broken"}
        /\ state[Of(t)] # "deferred"
    BY RunningTop, TopTypes, TopKnows DEF Store
  <1>2. /\ UNCHANGED <<state, lck, readyVars, startVars, fnVars, prog, history>>
        /\ storage' = [storage EXCEPT ![Of(t)] = V(t)[1]]
    BY DEF Store
  <1>3. Data'
    BY <1>1, <1>2 DEF Store, readyVars, startVars, fnVars, history, IInv, Data
  <1>4. \A o \in States : (Ready(o)' <=> Ready(o))
    BY <1>2 DEF Ready
  <1>5. Forward
    BY <1>2, <1>4 DEF Forward, startVars, fnVars, readyVars
  <1>6. PICK f : Made(f, "publish", Of(t), V(t)) /\ Goto(t, f)
    BY <1>1, MadeFrame, OpNames DEF Store
  <1>7. Fits(f)
    BY <1>1, <1>2, <1>6, ResultFits DEF Made, Storing
  <1>8. /\ Frames' /\ ListsTaken' /\ ArgumentsReady'
        /\ \A k : AddsNone(k)
        /\ \A u \in Threads : \A i \in DOMAIN stack'[u] :
              stack'[u][i].op \in Storing =>
                 \/ u = t /\ i = 1 /\ stack'[u][i] = f
                 \/ u # t /\ stack'[u] = stack[u]
    BY <1>1, <1>2, <1>4, <1>5, <1>6, <1>7, ResultFrames
       DEF Made, readyVars, history
  <1>9. PromisesCounted' /\ CalledOnce' /\ MadeOnce' /\ NeedCounted' /\ RunOnce'
    BY <1>2, <1>8, Kept DEF readyVars, fnVars, history
  <1>10. Starts'
    BY <1>2, StartsKept DEF IInv, startVars, fnVars
  <1>11. lck[Of(t)] = t /\ ~Ready(Of(t))
    BY <1>1, TopStores DEF Storing
  <1>12. ResultLocked'
    <2>1. ASSUME NEW u \in Threads, NEW i \in DOMAIN stack'[u],
                 stack'[u][i].op \in Storing
          PROVE  /\ i = 1 /\ lck'[stack'[u][i].of] = u
                 /\ stack'[u][i].op = "publish" =>
                       storage'[stack'[u][i].of] = stack'[u][i].v[1]
      <3>1. CASE u = t /\ i = 1 /\ stack'[u][i] = f
        BY <1>1, <1>2, <1>6, <1>11, <3>1 DEF Made, IInv, Data
      <3>2. CASE u # t /\ stack'[u] = stack[u]
        <4>1. i = 1 /\ lck[stack[u][i].of] = u
          BY <2>1, <3>2 DEF IInv, ResultLocked, Storing
        <4>2. stack[u][i].of # Of(t)
          BY <1>11, <3>2, <4>1
        <4> QED BY <1>2, <2>1, <3>2, <4>1, <4>2
                DEF IInv, ResultLocked, Storing, Data
      <3> QED BY <1>8, <2>1, <3>1, <3>2
    <2>2. \A o \in States : Ready(o)' => lck'[o] = None /\ storage'[o] # "none"
      BY <1>1, <1>2, <1>4, <1>11 DEF IInv, ResultLocked, Data
    <2> QED BY <2>1, <2>2 DEF ResultLocked, Storing
  <1> QED BY <1>3, <1>8, <1>9, <1>10, <1>12 DEF IInv

LEMMA PublishStep ==
    ASSUME IInv, NEW t \in Threads, Publish(t)
    PROVE  /\ IInv' /\ ~Ready(Of(t)) /\ Of(t) \in States
           /\ storage[Of(t)] \in {"value", "exc", "broken"}
           /\ \A o \in States : Ready(o)' <=> Ready(o) \/ o = Of(t)
  <1>1. /\ stack[t] # <<>> /\ Top(t).op = "publish"
        /\ Of(t) = Top(t).of /\ Of(t) \in States
        /\ V(t) = Top(t).v /\ V(t) \in Seq(Vals)
        /\ V(t)[1] \in {"value", "exc", "broken"}
        /\ state[Of(t)] # "deferred"
    BY RunningTop, TopTypes, TopKnows DEF Publish
  <1>2. /\ UNCHANGED <<storage, readyVars, startVars, fnVars, prog, history>>
        /\ lck' = [lck EXCEPT ![Of(t)] = None]
    BY DEF Publish
  <1>3. PICK r \in ReadyStates : state' = [state EXCEPT ![Of(t)] = r]
    BY <1>1 DEF Publish, ReadyStates
  <1>4. Data'
    BY <1>1, <1>2, <1>3 DEF Publish, Assertion, readyVars, startVars, fnVars,
       history, IInv, Data
  <1>5. \A o \in States : Ready(o)' <=> Ready(o) \/ o = Of(t)
    BY <1>1, <1>3 DEF Ready, IInv, Data
  <1>6. \A o \in States : state'[o] = "deferred" <=> state[o] = "deferred"
    BY <1>1, <1>3 DEF IInv, Data, ReadyStates
  <1>7. Forward
    BY <1>2, <1>5, <1>6 DEF Forward, startVars, fnVars, readyVars
  <1>8. PICK f : Made(f, "ready", Of(t), <<>>) /\ Goto(t, f)
    BY <1>1, MadeEmpty, OpNames DEF Publish
  <1>9. Fits(f)
    BY <1>1, <1>5, <1>8, ReadyFits DEF Made, Ready
  <1>10. /\ Frames' /\ ListsTaken' /\ ArgumentsReady'
         /\ \A k : AddsNone(k)
         /\ \A u \in Threads : \A i \in DOMAIN stack'[u] :
               stack'[u][i].op \in Storing =>
                  \/ u = t /\ i = 1 /\ stack'[u][i] = f
                  \/ u # t /\ stack'[u] = stack[u]
    BY <1>1, <1>2, <1>5, <1>7, <1>8, <1>9, ResultFrames
       DEF Made, readyVars, history
  <1>11. PromisesCounted' /\ CalledOnce' /\ MadeOnce' /\ NeedCounted'
         /\ RunOnce'
    BY <1>2, <1>6, <1>10, Kept DEF readyVars, fnVars, history
  <1>12. Starts'
    BY <1>2, <1>6, StartsKept DEF IInv, startVars, fnVars
  <1>13. lck[Of(t)] = t /\ ~Ready(Of(t)) /\ storage[Of(t)] = V(t)[1]
    BY <1>1, TopStores DEF Storing
  <1>14. ResultLocked'
    <2>1. ASSUME NEW u \in Threads, NEW i \in DOMAIN stack'[u],
                 stack'[u][i].op \in Storing
          PROVE  /\ i = 1 /\ lck'[stack'[u][i].of] = u
                 /\ stack'[u][i].op = "publish" =>
                       storage'[stack'[u][i].of] = stack'[u][i].v[1]
      <3>1. ~(u = t /\ i = 1 /\ stack'[u][i] = f)
        BY <1>8, <2>1 DEF Made, Storing
      <3>2. u # t /\ stack'[u] = stack[u]
        BY <1>10, <2>1, <3>1
      <3>3. i = 1 /\ lck[stack[u][i].of] = u
        BY <2>1, <3>2 DEF IInv, ResultLocked, Storing
      <3>4. stack[u][i].of # Of(t)
        BY <1>13, <3>2, <3>3
      <3> QED BY <1>2, <2>1, <3>2, <3>3, <3>4
              DEF IInv, ResultLocked, Storing, Data
    <2>2. \A o \in States : Ready(o)' => lck'[o] = None /\ storage'[o] # "none"
      BY <1>1, <1>2, <1>5, <1>13 DEF IInv, ResultLocked, Data
    <2> QED BY <2>1, <2>2 DEF ResultLocked, Storing
  <1>15. IInv'
    BY <1>4, <1>10, <1>11, <1>12, <1>14 DEF IInv
  <1> QED BY <1>1, <1>5, <1>13, <1>15

-----------------------------------------------------------------------------
(* The lists.                                                              *)

\* Dependants, as one list is replaced by another.
LEMMA DepsChange ==
    ASSUME Data, NEW o \in States, NEW w \in Seq(States \cup {None}),
           deps' = [deps EXCEPT ![o] = w], NEW x,
           IsFiniteSet(Dependants(x))
    PROVE  /\ IsFiniteSet(Dependants(x)')
           /\ Cardinality(Dependants(x)) \in Nat
           /\ Cardinality(Dependants(x)') \in Nat
           /\ Occurs(w, x) \in Nat /\ Occurs(deps[o], x) \in Nat
           /\ Cardinality(Dependants(x)') + Occurs(deps[o], x) =
                 Cardinality(Dependants(x)) + Occurs(w, x)
  <1> DEFINE T == States \cup {None}
  <1> DEFINE other == {p \in Dependants(x) : p[1] # o}
  <1> DEFINE Here(v) == {p \in {o} \X Nat : p[2] \in Places(v, x)}
  <1>1. deps[o] \in Seq(T) /\ deps'[o] = w
        /\ \A p \in States : p # o => deps'[p] = deps[p]
    BY DEF Data
  <1>2. ASSUME NEW v \in Seq(T)
        PROVE  IsFiniteSet(Here(v)) /\ Cardinality(Here(v)) = Occurs(v, x)
               /\ Occurs(v, x) \in Nat
    <2> DEFINE m == [i \in Places(v, x) |-> <<o, i>>]
    <2>1. DOMAIN v \subseteq Nat /\ IsFiniteSet(Places(v, x))
          /\ Occurs(v, x) \in Nat
      BY SeqDomain, OccursNat
    <2>2. /\ m \in [Places(v, x) -> Here(v)]
          /\ \A y \in Here(v) : \E i \in Places(v, x) : m[i] = y
          /\ \A i, k \in Places(v, x) : m[i] = m[k] => i = k
      BY <2>1 DEF Places
    <2> HIDE DEF m, Here
    <2>3. IsFiniteSet(Here(v)) /\ Cardinality(Here(v)) =
             Cardinality(Places(v, x))
      BY <2>1, <2>2, SameSize
    <2> QED BY <2>1, <2>3 DEF Occurs, Places
  <1>3. Dependants(x) = other \cup Here(deps[o])
    <2>1. DOMAIN deps[o] \subseteq Nat
      BY <1>1, SeqDomain
    <2> QED BY <2>1 DEF Dependants, Places
  <1>4. Dependants(x)' = other \cup Here(w)
    <2>1. DOMAIN w \subseteq Nat
      BY SeqDomain
    <2> QED BY <1>1, <2>1 DEF Dependants, Places
  <1>5. other \cap Here(deps[o]) = {} /\ other \cap Here(w) = {}
    OBVIOUS
  <1>6. other \subseteq Dependants(x)
    OBVIOUS
  <1>7. /\ IsFiniteSet(Here(deps[o])) /\ IsFiniteSet(Here(w))
        /\ Cardinality(Here(deps[o])) = Occurs(deps[o], x)
        /\ Cardinality(Here(w)) = Occurs(w, x)
        /\ Occurs(w, x) \in Nat /\ Occurs(deps[o], x) \in Nat
    BY <1>1, <1>2
  <1> HIDE DEF other, Here
  <1>8. IsFiniteSet(other)
    BY <1>6, FS_Subset
  <1>9. /\ IsFiniteSet(other \cup Here(w))
        /\ Cardinality(other) \in Nat
        /\ Cardinality(other \cup Here(w)) =
              Cardinality(other) + Occurs(w, x)
        /\ Cardinality(other \cup Here(deps[o])) =
              Cardinality(other) + Occurs(deps[o], x)
    BY <1>5, <1>7, <1>8, Disjoint
  <1> QED BY <1>3, <1>4, <1>7, <1>9

\* What Swap takes from the lists of o.
Lists(o) == (IF single[o] = None THEN <<>> ELSE <<single[o]>>)
            \o chain[o] \o deps[o]

LEMMA ListsHold ==
    ASSUME Data, NEW o \in States
    PROVE  /\ Lists(o) \in Seq(Vals)
           /\ \A i \in DOMAIN Lists(o) :
                 /\ Lists(o)[i] \in Callbacks \cup States \cup {None}
                 /\ Lists(o)[i] \in Callbacks => On[Lists(o)[i]] = o
           /\ \A x \in Fns : Occurs(Lists(o), x) = Occurs(deps[o], x)
           /\ \A c \in Callbacks :
                 /\ Occurs(Lists(o), c) =
                       One(single[o] = c) + Occurs(chain[o], c)
                 /\ Occurs(chain[o], c) \in Nat
                 /\ On[c] # o => Occurs(Lists(o), c) = 0
  <1> DEFINE T == Callbacks \cup States \cup {None}
  <1> DEFINE a == IF single[o] = None THEN <<>> ELSE <<single[o]>>
  <1> DEFINE b == chain[o]
  <1> DEFINE d == deps[o]
  <1>1. single[o] \in Callbacks \cup {None}
    BY DEF Data
  <1>2. a \in Seq(T) /\ Len(a) \in Nat /\ DOMAIN a = 1 .. Len(a)
        /\ \A i \in DOMAIN a : a[i] \in Callbacks /\ On[a[i]] = o
    <2>1. CASE single[o] = None
      BY <2>1
    <2>2. CASE single[o] # None
      BY <1>1, <2>2 DEF Data
    <2> QED BY <2>1, <2>2
  <1>3. /\ b \in Seq(T) /\ b \in Seq(Callbacks)
        /\ \A i \in DOMAIN b : b[i] \in Callbacks /\ On[b[i]] = o
    <2>1. b \in Seq(Callbacks) /\ Callbacks \subseteq T
      BY DEF Data
    <2> HIDE DEF T
    <2> QED BY <2>1, SeqMonotonic, SeqDomain DEF Data
  <1>4. /\ d \in Seq(T) /\ \A i \in DOMAIN d : d[i] \in States \cup {None}
    <2>1. d \in Seq(States \cup {None}) /\ States \cup {None} \subseteq T
      BY DEF Data
    <2> HIDE DEF T
    <2> QED BY <2>1, SeqMonotonic, SeqDomain
  <1>5. \A x : Occurs(a, x) = One(single[o] # None /\ single[o] = x)
    BY OccursOne DEF One
  <1>6. Lists(o) = (a \o b) \o d
    BY DEF Lists
  <1>7. T \subseteq Vals /\ None \notin Callbacks /\ Callbacks \cap States = {}
        /\ Fns \subseteq States /\ None \notin Fns
    BY Kindly DEF Vals
  <1> HIDE DEF a, b, d
  <1>8. ASSUME NEW i \in DOMAIN Lists(o)
        PROVE  /\ Lists(o)[i] \in T
               /\ Lists(o)[i] \in Callbacks => On[Lists(o)[i]] = o
    <2> DEFINE ab == a \o b
    <2>1. /\ ab \in Seq(T) /\ DOMAIN ab = 1 .. Len(a) + Len(b)
          /\ Len(b) \in Nat /\ DOMAIN b = 1 .. Len(b)
          /\ \A j \in 1 .. Len(a) + Len(b) :
                ab[j] = IF j =< Len(a) THEN a[j] ELSE b[j - Len(a)]
      <3> HIDE DEF T
      <3> QED BY <1>2, <1>3, Concat
    <2>2. Len(ab) = Len(a) + Len(b)
      <3> HIDE DEF T
      <3> QED BY <1>2, <1>3, ConcatProperties
    <2> HIDE DEF ab
    <2>3. /\ DOMAIN (ab \o d) = 1 .. Len(ab) + Len(d)
          /\ Len(ab) \in Nat /\ Len(d) \in Nat /\ DOMAIN d = 1 .. Len(d)
          /\ DOMAIN ab = 1 .. Len(ab)
          /\ \A j \in 1 .. Len(ab) + Len(d) :
                (ab \o d)[j] = IF j =< Len(ab) THEN ab[j] ELSE d[j - Len(ab)]
      <3> HIDE DEF T
      <3> QED BY <1>4, <2>1, Concat
    <2>4. ASSUME NEW j \in DOMAIN ab
          PROVE  ab[j] \in Callbacks /\ On[ab[j]] = o
      <3>1. CASE j =< Len(a)
        BY <1>2, <2>1, <3>1
      <3>2. CASE ~(j =< Len(a))
        <4>1. j - Len(a) \in DOMAIN b
          BY <1>2, <2>1, <3>2
        <4> QED BY <1>3, <2>1, <3>2, <4>1
      <3> QED BY <3>1, <3>2
    <2>5. Lists(o) = ab \o d
      BY <1>6 DEF ab
    <2>6. CASE i =< Len(ab)
      <3>1. i \in DOMAIN ab /\ Lists(o)[i] = ab[i]
        BY <2>3, <2>5, <2>6
      <3> QED BY <2>4, <3>1
    <2>7. CASE ~(i =< Len(ab))
      <3>1. i - Len(ab) \in DOMAIN d /\ Lists(o)[i] = d[i - Len(ab)]
        BY <2>3, <2>5, <2>7
      <3>2. Lists(o)[i] \in States \cup {None}
        BY <1>4, <3>1
      <3> QED BY <1>7, <3>2
    <2> QED BY <2>6, <2>7
  <1>9. Lists(o) \in Seq(Vals)
    <2> HIDE DEF T
    <2>1. (a \o b) \o d \in Seq(T)
      BY <1>2, <1>3, <1>4, ConcatProperties
    <2> QED BY <1>6, <1>7, <2>1, SeqMonotonic
  <1>10. \A x : /\ Occurs(Lists(o), x) =
                      (Occurs(a, x) + Occurs(b, x)) + Occurs(d, x)
                /\ Occurs(a, x) \in Nat /\ Occurs(b, x) \in Nat
                /\ Occurs(d, x) \in Nat
    <2> HIDE DEF T
    <2> DEFINE ab == a \o b
    <2>1. ab \in Seq(T)
      BY <1>2, <1>3, ConcatProperties
    <2>2. \A x : Occurs(ab, x) = Occurs(a, x) + Occurs(b, x)
      BY <1>2, <1>3, OccursConcat
    <2> HIDE DEF ab
    <2>3. \A x : Occurs(ab \o d, x) = Occurs(ab, x) + Occurs(d, x)
      BY <1>4, <2>1, OccursConcat
    <2>4. \A x : /\ Occurs(a, x) \in Nat /\ Occurs(b, x) \in Nat
                 /\ Occurs(d, x) \in Nat
      BY <1>2, <1>3, <1>4, OccursNat
    <2> QED BY <1>6, <2>2, <2>3, <2>4 DEF ab
  <1>11. \A x \in Fns : Occurs(a, x) = 0 /\ Occurs(b, x) = 0
    <2>1. \A x \in Fns : \A i \in DOMAIN b : b[i] # x
      BY <1>3, <1>7
    <2> QED BY <1>1, <1>3, <1>5, <1>7, <2>1, OccursNat DEF One
  <1>12. \A c \in Callbacks : Occurs(d, c) = 0
                              /\ Occurs(a, c) = One(single[o] = c)
    <2>1. \A c \in Callbacks : \A i \in DOMAIN d : d[i] # c
      BY <1>4, <1>7
    <2>2. \A c \in Callbacks : Occurs(a, c) = One(single[o] = c)
      BY <1>5, <1>7 DEF One
    <2> QED BY <1>4, <2>1, <2>2, OccursNat
  <1>13. \A c \in Callbacks : On[c] # o => Occurs(a, c) = 0 /\ Occurs(b, c) = 0
    <2>1. \A c \in Callbacks : On[c] # o => \A i \in DOMAIN b : b[i] # c
      BY <1>3
    <2>2. \A c \in Callbacks : On[c] # o => \A i \in DOMAIN a : a[i] # c
      BY <1>2
    <2> QED BY <1>2, <1>3, <2>1, <2>2, OccursNat
  <1>14. \A x \in Fns : Occurs(Lists(o), x) = Occurs(deps[o], x)
    BY <1>10, <1>11 DEF d
  <1>15. \A c \in Callbacks :
            /\ Occurs(Lists(o), c) = One(single[o] = c) + Occurs(chain[o], c)
            /\ Occurs(chain[o], c) \in Nat
            /\ On[c] # o => Occurs(Lists(o), c) = 0
    BY <1>10, <1>12, <1>13 DEF b
  <1> QED BY <1>8, <1>9, <1>14, <1>15

LEMMA SwapStep ==
    ASSUME IInv, NEW t \in Threads, Swap(t)
    PROVE  IInv'
  <1> DEFINE o == Of(t)
  <1>1. /\ stack[t] # <<>> /\ Top(t).op = "swap"
        /\ o = Top(t).of /\ o \in States /\ Top(t) \in FrameSet
        /\ state[o] \in ReadyStates
    BY RunningTop, TopKnows DEF Swap
  <1>2. /\ UNCHANGED <<resultVars, startVars, fnVars, prog, dead, history>>
        /\ single' = [single EXCEPT ![o] = None]
        /\ chain' = [chain EXCEPT ![o] = <<>>]
        /\ deps' = [deps EXCEPT ![o] = <<>>]
        /\ mtx' = [mtx EXCEPT ![o] = None]
        /\ Goto(t, Frame("deliver", o, Lists(o)))
    BY DEF Swap, Lists
  <1> HIDE DEF o
  <1>3. Data'
    BY <1>1, <1>2 DEF resultVars, startVars, fnVars, history, IInv, Data
  <1>4. \A p \in States : (Ready(p)' <=> Ready(p)) /\ (p = o => Ready(p))
    BY <1>1, <1>2 DEF Ready, resultVars
  <1>5. \A p \in States : p # o => /\ single'[p] = single[p]
                                   /\ chain'[p] = chain[p]
                                   /\ deps'[p] = deps[p]
    BY <1>2 DEF IInv, Data
  <1>6. single'[o] = None /\ chain'[o] = <<>> /\ deps'[o] = <<>>
    BY <1>1, <1>2 DEF IInv, Data
  <1>7. Forward
    BY <1>2, <1>4, <1>5 DEF Forward, startVars, fnVars, resultVars
  <1>8. /\ Lists(o) \in Seq(Vals)
        /\ \A i \in DOMAIN Lists(o) :
              /\ Lists(o)[i] \in Callbacks \cup States \cup {None}
              /\ Lists(o)[i] \in Callbacks => On[Lists(o)[i]] = o
        /\ \A x \in Fns : Occurs(Lists(o), x) = Occurs(deps[o], x)
        /\ \A c \in Callbacks :
              /\ Occurs(Lists(o), c) = One(single[o] = c) + Occurs(chain[o], c)
              /\ Occurs(chain[o], c) \in Nat
              /\ On[c] # o => Occurs(Lists(o), c) = 0
    BY <1>1, ListsHold DEF IInv
  <1>9. PICK f : Made(f, "deliver", o, Lists(o)) /\ Goto(t, f)
    BY <1>1, <1>2, <1>8, MadeFrame, OpNames
  <1>10. Fits(f)
    BY <1>1, <1>2, <1>8, <1>9, DeliverFits DEF Made, resultVars
  <1> DEFINE s == <<f>>
  <1>11. /\ Moves(t, s) /\ \A k, x : Weight(s, k, x) = Load(k, x, f)
         /\ \A u \in Threads : u # t => stack'[u] = stack[u]
    BY <1>1, <1>2, <1>9, GotoFrames DEF Made
  <1>12. DOMAIN s = {1} /\ s[1] = f
    OBVIOUS
  <1> HIDE DEF s
  <1>13. Frames'
    BY <1>7, <1>10, <1>11, <1>12, FramesKept DEF IInv, Fits
  <1>14. ResultLocked'
    BY <1>1, <1>2, <1>4, <1>9, <1>11, <1>12, LockKept
       DEF IInv, Made, Storing, resultVars
  <1>15. ListsTaken'
    <2> SUFFICES ASSUME NEW p \in States, Ready(p)',
                        single'[p] # None \/ chain'[p] # <<>>
                        \/ deps'[p] # <<>>
                 PROVE  \E u \in Threads : /\ stack'[u] # <<>>
                                           /\ Top(u)'.of = p
                                           /\ Top(u)'.op \in {"ready", "swap"}
      BY DEF ListsTaken
    <2>1. p # o /\ Ready(p)
      BY <1>4, <1>6
    <2>2. PICK u \in Threads : /\ stack[u] # <<>> /\ Top(u).of = p
                               /\ Top(u).op \in {"ready", "swap"}
      BY <1>5, <2>1 DEF ListsTaken, IInv
    <2>3. u # t
      BY <1>1, <2>1, <2>2
    <2> QED BY <1>11, <2>2, <2>3 DEF Top
  <1>16. ArgumentsReady'
    <2>1. Fed(s, 1)'
      BY <1>9, <1>12 DEF Fed, Made
    <2>2. Leads(t, s)
      BY <1>1, <1>10, <1>11, <1>12, <2>1 DEF Fits, Leads
    <2> QED BY <1>2, <1>7, <2>2, ArgsKept DEF IInv, history, RunsSound
  <1>17. \A k : k \notin {"tell", "call"} => AddsNone(k)
    <2>1. \A k, x : Counted(k, x) /\ k \notin {"tell", "call"} =>
             Load(k, x, f) = 0 /\ Load(k, x, Top(t)) = 0
      BY <1>1, <1>9, HeavyLoads, LightLoad DEF Made, LightOps, Light
    <2> QED BY <1>11, <2>1, SameAdds
  <1>18. PromisesCounted' /\ MadeOnce' /\ RunOnce'
    BY <1>2, <1>17, Kept DEF fnVars, history
  <1>19. Starts'
    BY <1>2, StartsKept DEF IInv, startVars, fnVars, resultVars
  <1>20. /\ \A x \in Fns : Total("tell", x) \in Nat
                           /\ Adds("tell", x, Occurs(deps[o], x))
         /\ \A c \in Callbacks : Total("call", c) \in Nat
                           /\ Adds("call", c, Occurs(Lists(o), c))
    <2>1. \A k, x : Counted(k, x) /\ k \in {"tell", "call"} =>
             Load(k, x, f) = Occurs(Lists(o), x) /\ Load(k, x, Top(t)) = 0
      BY <1>1, <1>9, HeavyLoads, LightLoad DEF Made, LightOps, Light
    <2>2. \A k, x : Counted(k, x) /\ k \in {"tell", "call"} =>
             Total(k, x) \in Nat /\ Adds(k, x, Occurs(Lists(o), x))
      BY <1>11, <2>1, TotalsAfter DEF Adds
    <2> QED BY <1>8, <2>2, KindsCounted
  <1>21. NeedCounted'
    <2> SUFFICES ASSUME NEW x \in Fns
                 PROVE  /\ IsFiniteSet(Dependants(x)')
                        /\ need'[x] = One(state'[x] = "deferred")
                             + Total("tell", x)' + Cardinality(Dependants(x)')
      BY DEF NeedCounted
    <2>1. /\ IsFiniteSet(Dependants(x))
          /\ need[x] = One(state[x] = "deferred") + Total("tell", x)
                       + Cardinality(Dependants(x))
      BY DEF IInv, NeedCounted
    <2>2. <<>> \in Seq(States \cup {None}) /\ Occurs(<<>>, x) = 0
      BY OccursOne
    <2>3. /\ IsFiniteSet(Dependants(x)')
          /\ Cardinality(Dependants(x)) \in Nat
          /\ Cardinality(Dependants(x)') \in Nat
          /\ Occurs(deps[o], x) \in Nat
          /\ Cardinality(Dependants(x)') + Occurs(deps[o], x) =
                Cardinality(Dependants(x)) + Occurs(<<>>, x)
      BY <1>1, <1>2, <2>1, <2>2, DepsChange DEF IInv
    <2>4. One(state[x] = "deferred") \in Nat
      BY DEF One
    <2>5. need' = need /\ state' = state
      BY <1>2 DEF fnVars, resultVars
    <2> QED BY <1>20, <2>1, <2>2, <2>3, <2>4, <2>5 DEF Adds
  <1>22. CalledOnce'
    <2> SUFFICES ASSUME NEW c \in Callbacks
                 PROVE  calls'[c] + Total("call", c)' + One(single'[On[c]] = c)
                        + Occurs(chain'[On[c]], c) =< 1
      BY DEF CalledOnce
    <2>1. /\ calls[c] + Total("call", c) + One(single[On[c]] = c)
             + Occurs(chain[On[c]], c) =< 1
          /\ calls' = calls /\ calls[c] \in Nat /\ On[c] \in States
      BY <1>2, CallbacksAssumption DEF IInv, CalledOnce, Data, history
    <2>2. Total("call", c) \in Nat
          /\ Total("call", c)' = Total("call", c) + Occurs(Lists(o), c)
      BY <1>20 DEF Adds
    <2>3. CASE On[c] = o
      <3>1. One(single'[On[c]] = c) = 0 /\ Occurs(chain'[On[c]], c) = 0
        BY <1>6, <2>3, Kindly, OccursOne DEF One
      <3>2. Occurs(Lists(o), c) = One(single[On[c]] = c)
                                  + Occurs(chain[On[c]], c)
            /\ Occurs(chain[On[c]], c) \in Nat
            /\ One(single[On[c]] = c) \in Nat
        BY <1>8, <2>3 DEF One
      <3> QED BY <2>1, <2>2, <3>1, <3>2
    <2>4. CASE On[c] # o
      BY <1>5, <1>8, <2>1, <2>2, <2>4
    <2> QED BY <2>3, <2>4
  <1> QED BY <1>3, <1>13, <1>14, <1>15, <1>16, <1>18, <1>19, <1>21, <1>22
          DEF IInv

-----------------------------------------------------------------------------
(* What is told, run, made and called.                                     *)

\* A step to one frame that leaves results and lists as they are.
LEMMA PlainGoto ==
    ASSUME IInv, NEW t \in Threads, stack[t] # <<>>, NEW f \in FrameSet,
           Goto(t, f), prog' = prog, Fits(f), f.op # "run",
           f.op \notin Storing, Top(t).op \notin Storing,
           Top(t).op \notin {"ready", "swap"},
           Top(t).op \notin {"get", "spin"},
           Forward, lck' = lck, storage' = storage, RunsSound,
           \A o \in States : Ready(o)' => Ready(o), ListsFixed
    PROVE  /\ Frames' /\ ResultLocked' /\ ListsTaken' /\ ArgumentsReady'
           /\ \A k, x : /\ Total(k, x) \in Nat
                        /\ Load(k, x, Top(t)) =< Total(k, x)
                        /\ Load(k, x, Top(t)) \in Nat /\ Load(k, x, f) \in Nat
                        /\ Total(k, x)' =
                              (Total(k, x) - Load(k, x, Top(t)))
                                 + Load(k, x, f)
  <1> DEFINE s == <<f>>
  <1>1. Moves(t, s) /\ \A k, x : Weight(s, k, x) = Load(k, x, f)
    BY GotoFrames
  <1>2. DOMAIN s = {1} /\ s[1] = f
    OBVIOUS
  <1> HIDE DEF s
  <1>3. Proceeds(t, s)
    BY <1>1, <1>2 DEF Proceeds, Leads, Fits, Fed
  <1>4. \A i \in DOMAIN s : s[i].op \notin Storing
    BY <1>2
  <1>5. Frames' /\ ResultLocked' /\ ListsTaken' /\ ArgumentsReady'
    BY <1>3, <1>4, PlainKept
  <1>6. \A k, x :
           /\ Total(k, x) \in Nat /\ Load(k, x, Top(t)) =< Total(k, x)
           /\ Load(k, x, Top(t)) \in Nat /\ Weight(s, k, x) \in Nat
           /\ Total(k, x)' =
                 (Total(k, x) - Load(k, x, Top(t))) + Weight(s, k, x)
    BY <1>1, TotalsAfter
  <1> QED BY <1>1, <1>5, <1>6

LEMMA PlainCall ==
    ASSUME IInv, NEW t \in Threads, stack[t] # <<>>, NEW f \in FrameSet,
           NEW g \in FrameSet, Call(t, f, g), prog' = prog,
           Fits(f), Fits(g), f.op # "run", g.op # "run",
           f.op \notin Storing, g.op \notin Storing, Top(t).op \notin Storing,
           Top(t).op \notin {"ready", "swap"},
           Top(t).op \notin {"get", "spin"},
           Forward, lck' = lck, storage' = storage, RunsSound,
           \A o \in States : Ready(o)' => Ready(o), ListsFixed
    PROVE  /\ Frames' /\ ResultLocked' /\ ListsTaken' /\ ArgumentsReady'
           /\ \A k, x : /\ Total(k, x) \in Nat
                        /\ Load(k, x, Top(t)) =< Total(k, x)
                        /\ Load(k, x, Top(t)) \in Nat
                        /\ Load(k, x, f) \in Nat /\ Load(k, x, g) \in Nat
                        /\ Total(k, x)' =
                              (Total(k, x) - Load(k, x, Top(t)))
                                 + (Load(k, x, f) + Load(k, x, g))
  <1> DEFINE s == <<f, g>>
  <1>1. /\ s \in Seq(FrameSet) /\ DOMAIN s = {1, 2} /\ s[1] = f /\ s[2] = g
    OBVIOUS
  <1>2. Moves(t, s)
    BY <1>1 DEF Call, Moves
  <1>3. \A k, x : Weight(s, k, x) = Load(k, x, f) + Load(k, x, g)
    BY Weights
  <1> HIDE DEF s
  <1>4. Proceeds(t, s)
    BY <1>1, <1>2 DEF Proceeds, Leads, Fits, Fed
  <1>5. \A i \in DOMAIN s : s[i].op \notin Storing
    BY <1>1
  <1>6. Frames' /\ ResultLocked' /\ ListsTaken' /\ ArgumentsReady'
    BY <1>4, <1>5, PlainKept
  <1>7. \A k, x :
           /\ Total(k, x) \in Nat /\ Load(k, x, Top(t)) =< Total(k, x)
           /\ Load(k, x, Top(t)) \in Nat /\ Weight(s, k, x) \in Nat
           /\ Total(k, x)' =
                 (Total(k, x) - Load(k, x, Top(t))) + Weight(s, k, x)
    BY <1>2, TotalsAfter
  <1>8. \A k, x : Load(k, x, f) \in Nat /\ Load(k, x, g) \in Nat
    BY LoadNat
  <1> QED BY <1>3, <1>6, <1>7, <1>8

LEMMA PlainReturn ==
    ASSUME IInv, NEW t \in Threads, stack[t] # <<>>, Return(t), prog' = prog,
           Top(t).op \notin Storing,
           Top(t).op \notin {"ready", "swap"},
           Top(t).op \notin {"get", "spin"},
           Forward, lck' = lck, storage' = storage, RunsSound,
           \A o \in States : Ready(o)' => Ready(o), ListsFixed
    PROVE  /\ Frames' /\ ResultLocked' /\ ListsTaken' /\ ArgumentsReady'
           /\ \A k, x : /\ Total(k, x) \in Nat
                        /\ Load(k, x, Top(t)) =< Total(k, x)
                        /\ Load(k, x, Top(t)) \in Nat
                        /\ Total(k, x)' = Total(k, x) - Load(k, x, Top(t))
  <1> DEFINE s == <<>>
  <1>1. s \in Seq(FrameSet) /\ DOMAIN s = {}
    OBVIOUS
  <1>2. Moves(t, s)
    <2>1. Tail(stack[t]) \in Seq(FrameSet)
      BY TopTyped DEF IInv
    <2>2. s \o Tail(stack[t]) = Tail(stack[t])
      BY <2>1, ConcatEmptySeq
    <2>3. DOMAIN stack = Threads
      BY StacksAndPrograms DEF IInv
    <2> QED BY <1>1, <2>2, <2>3 DEF Return, Moves
  <1>3. \A k, x : Weight(s, k, x) = 0
    BY Weights
  <1> HIDE DEF s
  <1>4. Proceeds(t, s)
    BY <1>1, <1>2 DEF Proceeds, Leads
  <1>5. Frames' /\ ResultLocked' /\ ListsTaken' /\ ArgumentsReady'
    BY <1>1, <1>4, PlainKept
  <1>6. \A k, x :
           /\ Total(k, x) \in Nat /\ Load(k, x, Top(t)) =< Total(k, x)
           /\ Load(k, x, Top(t)) \in Nat /\ Weight(s, k, x) \in Nat
           /\ Total(k, x)' =
                 (Total(k, x) - Load(k, x, Top(t))) + Weight(s, k, x)
    BY <1>2, TotalsAfter
  <1> QED BY <1>3, <1>5, <1>6

\* A step that leaves results, lists and runs as they are.
Plain ==
    /\ UNCHANGED <<lck, storage, single, chain, deps, runs, prog>>
    /\ \A o \in States : Ready(o)' <=> Ready(o)

LEMMA PlainFixes ==
    ASSUME Plain
    PROVE  /\ lck' = lck /\ storage' = storage /\ prog' = prog
           /\ RunsSound /\ ListsFixed
           /\ \A o \in States : Ready(o)' => Ready(o)
  BY DEF Plain, RunsSound, ListsFixed

LEMMA OneSum ==
    /\ One(TRUE) = 1 /\ One(FALSE) = 0
    /\ \A b \in BOOLEAN : One(b) \in Nat /\ One(b) =< 1
  BY DEF One

LEMMA CallBackStep ==
    ASSUME IInv, NEW t \in Threads, CallBack(t)
    PROVE  /\ IInv'
           /\ V(t)[1] \in Callbacks /\ calls[V(t)[1]] = 0 /\ Ready(On[V(t)[1]])
  <1> DEFINE c == V(t)[1]
  <1>1. /\ stack[t] # <<>> /\ Top(t).op = "call"
        /\ Of(t) = Top(t).of /\ Of(t) \in States
        /\ V(t) = Top(t).v /\ Top(t) \in FrameSet
        /\ c \in Callbacks /\ On[c] = Of(t)
        /\ state[Of(t)] \in ReadyStates
    BY RunningTop, TopKnows, TopTypes DEF CallBack
  <1>2. /\ UNCHANGED <<resultVars, readyVars, startVars, fnVars, prog, dead,
                       runs>>
        /\ calls' = [calls EXCEPT ![c] = @ + 1]
    BY DEF CallBack
  <1>3. Data'
    BY <1>1, <1>2
       DEF resultVars, readyVars, startVars, fnVars, IInv, Data
  <1>4. Plain /\ Forward /\ ListsFixed /\ RunsSound
    BY <1>2 DEF Plain, Forward, ListsFixed, RunsSound, resultVars, readyVars,
                startVars, fnVars, Ready
  <1>5. \A k, x : Counted(k, x) =>
           Load(k, x, Top(t)) = One(k = "call" /\ c = x)
    BY <1>1, HeavyLoads
  <1>6. /\ Frames' /\ ResultLocked' /\ ListsTaken' /\ ArgumentsReady'
        /\ \A k, x : Counted(k, x) =>
              /\ Total(k, x) \in Nat /\ Load(k, x, Top(t)) =< Total(k, x)
              /\ Load(k, x, Top(t)) \in Nat
              /\ Total(k, x)' = Total(k, x) - Load(k, x, Top(t))
    <2>1. CASE c \in Getters
      <3>1. PICK f : Made(f, "get", Of(t), <<>>) /\ Goto(t, f)
        BY <1>1, <2>1, MadeEmpty, OpNames DEF CallBack
      <3>2. made[Of(t)]
        BY <1>1 DEF IInv, Starts, ReadyStates, States
      <3>3. Fits(f)
        BY <1>2, <3>1, <3>2, StartFits DEF Made, fnVars
      <3>4. Light(f)
        BY <3>1, LightLoad DEF Made, LightOps
      <3>5. /\ Frames' /\ ResultLocked' /\ ListsTaken' /\ ArgumentsReady'
            /\ \A k, x : /\ Total(k, x) \in Nat
                         /\ Load(k, x, Top(t)) =< Total(k, x)
                         /\ Load(k, x, Top(t)) \in Nat
                         /\ Load(k, x, f) \in Nat
                         /\ Total(k, x)' =
                               (Total(k, x) - Load(k, x, Top(t)))
                                  + Load(k, x, f)
        BY <1>1, <1>4, <3>1, <3>3, PlainGoto, PlainFixes DEF Made, Storing
      <3> QED BY <3>4, <3>5 DEF Light
    <2>2. CASE c \notin Getters
      <3>1. Return(t)
        BY <2>2 DEF CallBack
      <3> QED BY <1>1, <1>4, <3>1, PlainReturn, PlainFixes DEF Storing
    <2> QED BY <2>1, <2>2
  <1> HIDE DEF c
  <1>7. \A k : k # "call" => AddsNone(k)
    BY <1>5, <1>6 DEF AddsNone, Adds, One
  <1>8. PromisesCounted' /\ MadeOnce' /\ NeedCounted' /\ RunOnce'
    BY <1>2, <1>7, Kept DEF resultVars, readyVars, fnVars
  <1>9. Starts'
    BY <1>2, StartsKept DEF IInv, startVars, fnVars, resultVars
  <1>10. \A d \in Callbacks :
            /\ Total("call", d) \in Nat /\ One(c = d) =< Total("call", d)
            /\ Total("call", d)' = Total("call", d) - One(c = d)
    BY <1>5, <1>6, KindsCounted
  <1>11. \A d \in Callbacks :
            /\ calls[d] + Total("call", d) + One(single[On[d]] = d)
                 + Occurs(chain[On[d]], d) =< 1
            /\ calls[d] \in Nat /\ Occurs(chain[On[d]], d) \in Nat
            /\ One(single[On[d]] = d) \in Nat
    <2>1. \A d \in Callbacks : On[d] \in States
      BY CallbacksAssumption
    <2>2. \A d \in Callbacks : Occurs(chain[On[d]], d) \in Nat
      BY <2>1, OccursNat DEF IInv, Data
    <2> QED BY <2>2 DEF IInv, CalledOnce, Data, One
  <1>12. \A d \in Callbacks : calls'[d] = calls[d] + One(c = d)
    BY <1>2 DEF IInv, Data, One
  <1>13. CalledOnce'
    <2> SUFFICES ASSUME NEW d \in Callbacks
                 PROVE  calls'[d] + Total("call", d)' + One(single'[On[d]] = d)
                        + Occurs(chain'[On[d]], d) =< 1
      BY DEF CalledOnce
    <2>1. One(c = d) \in Nat
      BY DEF One
    <2> QED BY <1>2, <1>10, <1>11, <1>12, <2>1 DEF readyVars
  <1>14. calls[c] = 0
    BY <1>1, <1>10, <1>11 DEF One
  <1>15. IInv'
    BY <1>3, <1>6, <1>8, <1>9, <1>13 DEF IInv
  <1> QED BY <1>1, <1>14, <1>15 DEF Ready, c

LEMMA TopCounted ==
    ASSUME IInv, NEW t \in Threads, stack[t] # <<>>
    PROVE  \A k, x : /\ Total(k, x) \in Nat /\ Load(k, x, Top(t)) \in Nat
                     /\ Load(k, x, Top(t)) =< Total(k, x)
  <1> SUFFICES ASSUME NEW k, NEW x
               PROVE  /\ Total(k, x) \in Nat /\ Load(k, x, Top(t)) \in Nat
                      /\ Load(k, x, Top(t)) =< Total(k, x)
    OBVIOUS
  <1> DEFINE below == Tail(stack[t]) \o prog[t]
  <1> DEFINE one == <<Top(t)>>
  <1>1. /\ Rest \in [Threads -> Seq(FrameSet)]
        /\ Rest[t] = stack[t] \o prog[t] /\ prog[t] \in Seq(FrameSet)
    BY StacksAndPrograms DEF IInv
  <1>2. /\ Top(t) \in FrameSet /\ Tail(stack[t]) \in Seq(FrameSet)
        /\ stack[t] = <<Top(t)>> \o Tail(stack[t])
    BY TopTyped DEF IInv
  <1>3. below \in Seq(FrameSet) /\ one \in Seq(FrameSet)
    BY <1>1, <1>2, ConcatProperties
  <1>4. Rest[t] = one \o below
    <2>1. (one \o Tail(stack[t])) \o prog[t] = one \o below
      BY <1>1, <1>2, <1>3, ConcatFrames
    <2>2. stack[t] \o prog[t] = (one \o Tail(stack[t])) \o prog[t]
      BY <1>2
    <2> QED BY <1>1, <2>1, <2>2
  <1>5. Weight(one, k, x) = Load(k, x, Top(t)) /\ Load(k, x, Top(t)) \in Nat
    BY <1>2, Weights
  <1> HIDE DEF below, one
  <1>6. /\ Weight(one \o below, k, x) = Weight(one, k, x) + Weight(below, k, x)
        /\ Weight(below, k, x) \in Nat
    BY <1>3, WeightConcat, LoadsFinite
  <1>7. Weight(Rest[t], k, x) =< Total(k, x) /\ Total(k, x) \in Nat
    BY <1>1, OneRestChanges DEF Total
  <1> QED BY <1>4, <1>5, <1>6, <1>7

LEMMA ClaimFirst ==
    ASSUME IInv, NEW t \in Threads, Claim(t), state[Of(t)] = "deferred"
    PROVE  IInv'
  <1> DEFINE o == Of(t)
  <1>1. /\ stack[t] # <<>> /\ Top(t).op = "claim"
        /\ o = Top(t).of /\ o \in States /\ o \in Fns
        /\ Top(t) \in FrameSet /\ made[o] /\ called[o]
        /\ state[o] = "deferred"
    BY RunningTop, TopKnows, TopTypes DEF Claim
  <1>2. /\ UNCHANGED <<storage, lck, readyVars, startVars, fnVars, prog, dead,
                       history>>
        /\ state' = [state EXCEPT ![o] = "uninitialized"]
        /\ Goto(t, Frame("args", o, Args[o]))
    BY <1>1 DEF Claim
  <1> HIDE DEF o
  <1>3. Data' /\ state'[o] = "uninitialized"
        /\ \A p \in States : p # o => state'[p] = state[p]
    BY <1>1, <1>2
       DEF readyVars, startVars, fnVars, history, IInv, Data, Uninitialized
  <1>4. Plain /\ Forward
    <2>1. \A p \in States : Ready(p)' <=> Ready(p)
      BY <1>1, <1>3 DEF Ready, ReadyStates
    <2> QED BY <1>2, <1>3, <2>1
            DEF Plain, Forward, readyVars, startVars, fnVars, history
  <1>5. PICK f : Made(f, "args", o, Args[o]) /\ Goto(t, f)
    BY <1>1, <1>2, MadeFrame, OpNames, ArgsAreStates
  <1>6. Fits(f)
    BY <1>1, <1>3, <1>5, FnFits DEF Made, ArgsOf
  <1>7. \A k, x : Counted(k, x) => /\ Load(k, x, Top(t)) = 0
                                   /\ Load(k, x, f) = One(k = "tell" /\ o = x)
    BY <1>1, <1>5, HeavyLoads, LightLoad DEF Made, LightOps, Light
  <1>8. /\ Frames' /\ ResultLocked' /\ ListsTaken' /\ ArgumentsReady'
        /\ \A k, x : /\ Total(k, x) \in Nat
                     /\ Load(k, x, Top(t)) =< Total(k, x)
                     /\ Load(k, x, Top(t)) \in Nat /\ Load(k, x, f) \in Nat
                     /\ Total(k, x)' =
                           (Total(k, x) - Load(k, x, Top(t)))
                              + Load(k, x, f)
    BY <1>1, <1>4, <1>5, <1>6, PlainGoto, PlainFixes DEF Made, Storing
  <1>9. \A k : k # "tell" => AddsNone(k)
    BY <1>7, <1>8 DEF AddsNone, Adds, One
  <1>10. PromisesCounted' /\ MadeOnce' /\ CalledOnce' /\ RunOnce'
    BY <1>2, <1>9, Kept DEF readyVars, fnVars, history
  <1>11. Starts'
    BY <1>1, <1>2, <1>3, Kindly
       DEF Starts, IInv, startVars, fnVars, Fns, States
  <1>12. NeedCounted'
    <2> SUFFICES ASSUME NEW x \in Fns
                 PROVE  /\ IsFiniteSet(Dependants(x)')
                        /\ need'[x] = One(state'[x] = "deferred")
                             + Total("tell", x)' + Cardinality(Dependants(x)')
      BY DEF NeedCounted
    <2>1. Dependants(x)' = Dependants(x) /\ need' = need
      BY <1>2 DEF Dependants, readyVars, fnVars
    <2>2. Total("tell", x)' = Total("tell", x) + One(o = x)
          /\ Total("tell", x) \in Nat
      BY <1>7, <1>8, KindsCounted
    <2>3. One(state[x] = "deferred") = One(state'[x] = "deferred") + One(o = x)
          /\ One(o = x) \in Nat /\ One(state'[x] = "deferred") \in Nat
      BY <1>1, <1>3, Kindly DEF One
    <2>4. /\ IsFiniteSet(Dependants(x))
          /\ need[x] = One(state[x] = "deferred") + Total("tell", x)
                       + Cardinality(Dependants(x))
      BY DEF IInv, NeedCounted
    <2>5. Cardinality(Dependants(x)) \in Nat
      BY <2>4, FS_CardinalityType
    <2> QED BY <2>1, <2>2, <2>3, <2>4, <2>5
  <1> QED BY <1>3, <1>8, <1>10, <1>11, <1>12 DEF IInv

\* The start, or an argument, has told o that it is there.
LEMMA ResolveStep ==
    ASSUME IInv, NEW t \in Threads, ArgsStarted(t) \/ DependFn(t)
    PROVE  IInv'
  <1> DEFINE o == Of(t)
  <1>1. /\ stack[t] # <<>> /\ Top(t).op \in {"args", "depend"}
        /\ o = Top(t).of /\ o \in States /\ o \in Fns
        /\ Top(t) \in FrameSet
    <2>1. \/ Running(t, "args")
          \/ Running(t, "depend") /\ o \in Fns
      BY DEF ArgsStarted, DependFn
    <2>2. CASE Running(t, "args")
      BY <2>2, RunningTop, TopTypes
    <2>3. CASE Running(t, "depend") /\ o \in Fns
      BY <2>3, RunningTop
    <2> QED BY <2>1, <2>2, <2>3
  <1>2. /\ UNCHANGED <<resultVars, readyVars, startVars, promises, self,
                       posted, made, prog, dead, history>>
        /\ need' = [need EXCEPT ![o] = @ - 1]
        /\ IF need[o] = 1 THEN Goto(t, Frame("invoke", o, <<>>)) ELSE Return(t)
    BY DEF ArgsStarted, DependFn, Resolve
  <1> HIDE DEF o
  <1>3. /\ Data' /\ need[o] \in Int
        /\ \A p \in Fns : need'[p] = need[p] - One(o = p)
    BY <1>1, <1>2
       DEF resultVars, readyVars, startVars, history, IInv, Data, One
  <1>4. Plain /\ Forward
    BY <1>2 DEF Plain, Forward, resultVars, readyVars, startVars, history,
                Ready
  <1>5. \A k, x : Counted(k, x) =>
           Load(k, x, Top(t)) = One(k = "tell" /\ o = x)
    BY <1>1, HeavyLoads
  <1>6. \A p \in Fns :
           /\ IsFiniteSet(Dependants(p))
           /\ need[p] = One(state[p] = "deferred") + Total("tell", p)
                        + Cardinality(Dependants(p))
           /\ Cardinality(Dependants(p)) \in Nat
           /\ One(state[p] = "deferred") \in Nat
    BY FS_CardinalityType DEF IInv, NeedCounted, One
  <1>7. /\ 1 =< Total("tell", o) /\ Total("tell", o) \in Nat
        /\ need[o] \in Nat \ {0}
    <2>1. Load("tell", o, Top(t)) = 1
      BY <1>1, <1>5, KindsCounted DEF One
    <2>2. Load("tell", o, Top(t)) =< Total("tell", o)
          /\ Total("tell", o) \in Nat
      BY <1>1, TopCounted
    <2> QED BY <1>1, <1>3, <1>6, <2>1, <2>2
  <1>8. /\ \A p \in Fns :
              /\ Total("run", p) \in Nat /\ runs[p] \in Nat
              /\ One(p \in Jobs /\ posted[p]) \in {0, 1}
              /\ runs[p] + Total("run", p) + One(p \in Jobs /\ posted[p])
                    =< One(need[p] = 0)
    BY TotalsAre DEF IInv, RunOnce, Data, One
  <1>9. /\ Frames' /\ ResultLocked' /\ ListsTaken' /\ ArgumentsReady'
        /\ \A k, x : Counted(k, x) =>
              /\ Total(k, x) \in Nat
              /\ Total(k, x)' = (Total(k, x) - One(k = "tell" /\ o = x))
                                   + One(k = "run" /\ o = x /\ need[o] = 1)
    <2>1. CASE need[o] = 1
      <3>1. PICK f : Made(f, "invoke", o, <<>>) /\ Goto(t, f)
        BY <1>1, <1>2, <2>1, MadeEmpty, OpNames
      <3>2. state[o] # "deferred"
        BY <1>1, <1>6, <1>7, <2>1 DEF One
      <3>3. Fits(f)
        BY <1>1, <1>2, <3>1, <3>2, FnFits DEF Made, resultVars
      <3>4. \A k, x : Counted(k, x) => Load(k, x, f) = One(k = "run" /\ o = x)
        BY <3>1, HeavyLoads DEF Made
      <3>5. /\ Frames' /\ ResultLocked' /\ ListsTaken' /\ ArgumentsReady'
            /\ \A k, x : /\ Total(k, x) \in Nat
                         /\ Total(k, x)' =
                               (Total(k, x) - Load(k, x, Top(t)))
                                  + Load(k, x, f)
        BY <1>1, <1>4, <3>1, <3>3, PlainGoto, PlainFixes DEF Made, Storing
      <3> QED BY <1>5, <2>1, <3>4, <3>5
    <2>2. CASE need[o] # 1
      <3>1. Return(t)
        BY <1>2, <2>2
      <3>2. /\ Frames' /\ ResultLocked' /\ ListsTaken' /\ ArgumentsReady'
            /\ \A k, x : /\ Total(k, x) \in Nat
                         /\ Load(k, x, Top(t)) \in Nat
                         /\ Total(k, x)' = Total(k, x) - Load(k, x, Top(t))
        BY <1>1, <1>4, <3>1, PlainReturn, PlainFixes DEF Storing
      <3>3. \A k, x : /\ Counted(k, x) =>
                            /\ Total(k, x) \in Nat
                            /\ Total(k, x)' =
                                  Total(k, x) - One(k = "tell" /\ o = x)
                      /\ One(k = "run" /\ o = x /\ need[o] = 1) = 0
                      /\ One(k = "tell" /\ o = x) \in Nat
        BY <1>5, <2>2, <3>2 DEF One
      <3> QED BY <3>2, <3>3
    <2> QED BY <2>1, <2>2
  <1>10. AddsNone("promise") /\ AddsNone("make") /\ AddsNone("call")
    BY <1>9 DEF AddsNone, Adds, One
  <1>11. PromisesCounted' /\ MadeOnce' /\ CalledOnce'
    BY <1>2, <1>10, Kept DEF resultVars, readyVars, history
  <1>12. Starts'
    BY <1>2, StartsKept DEF IInv, resultVars, startVars
  <1>13. NeedCounted'
    <2> SUFFICES ASSUME NEW x \in Fns
                 PROVE  /\ IsFiniteSet(Dependants(x)')
                        /\ need'[x] = One(state'[x] = "deferred")
                             + Total("tell", x)' + Cardinality(Dependants(x)')
      BY DEF NeedCounted
    <2>1. Dependants(x)' = Dependants(x) /\ state' = state
      BY <1>2 DEF Dependants, readyVars, resultVars
    <2>2. Total("tell", x)' = Total("tell", x) - One(o = x)
          /\ Total("tell", x) \in Nat /\ One(o = x) \in Nat
      BY <1>9, KindsCounted DEF One
    <2> QED BY <1>3, <1>6, <2>1, <2>2
  <1>14. RunOnce'
    <2> SUFFICES ASSUME NEW x \in Fns
                 PROVE  runs'[x] + Total("run", x)'
                        + One(x \in Jobs /\ posted'[x]) =< One(need'[x] = 0)
      BY DEF RunOnce
    <2>1. runs' = runs /\ posted' = posted
      BY <1>2 DEF history
    <2>2. Total("run", x)' = Total("run", x) + One(o = x /\ need[o] = 1)
      BY <1>9, KindsCounted DEF One
    <2>3. CASE o = x
      BY <1>3, <1>7, <1>8, <2>1, <2>2, <2>3 DEF One
    <2>4. CASE o # x
      BY <1>3, <1>7, <1>8, <2>1, <2>2, <2>4 DEF One
    <2> QED BY <2>3, <2>4
  <1> QED BY <1>3, <1>9, <1>11, <1>12, <1>13, <1>14 DEF IInv

-----------------------------------------------------------------------------
(* Functions that are posted and run.                                      *)

\* What is run now was to be run before.
LEMMA RunMoves ==
    ASSUME IInv, need' = need, runs' \in [Fns -> Nat],
           \A x \in Fns : /\ Total("run", x)' \in Nat
                          /\ runs'[x] + Total("run", x)'
                                + One(x \in Jobs /\ posted'[x])
                             =< runs[x] + Total("run", x)
                                   + One(x \in Jobs /\ posted[x])
    PROVE  RunOnce'
  <1> SUFFICES ASSUME NEW x \in Fns
               PROVE  runs'[x] + Total("run", x)'
                      + One(x \in Jobs /\ posted'[x]) =< One(need'[x] = 0)
    BY DEF RunOnce
  <1>1. /\ runs'[x] \in Nat /\ runs[x] \in Nat /\ Total("run", x) \in Nat
        /\ One(x \in Jobs /\ posted'[x]) \in Nat
        /\ One(x \in Jobs /\ posted[x]) \in Nat
        /\ One(need[x] = 0) \in Nat
    BY TotalsAre DEF IInv, Data, One
  <1>2. runs[x] + Total("run", x) + One(x \in Jobs /\ posted[x])
           =< One(need[x] = 0)
    BY DEF IInv, RunOnce
  <1> QED BY <1>1, <1>2

\* Who runs a function with no argument left to wait for has them all.
LEMMA TopFed ==
    ASSUME IInv, NEW t \in Threads, stack[t] # <<>>, Top(t).op = "run",
           V(t) = <<>>
    PROVE  \A a \in ArgsOf(Of(t)) : Ready(a)
  <1>1. Top(t) = stack[t][1] /\ 1 \in DOMAIN stack[t]
    BY TopTyped DEF IInv
  <1>2. Fed(stack[t], 1)
    BY <1>1 DEF IInv, ArgumentsReady
  <1> QED BY <1>1, <1>2 DEF Fed, V, Of

LEMMA InvokeJobStep ==
    ASSUME IInv, NEW t \in Threads, InvokeJob(t)
    PROVE  IInv'
  <1> DEFINE o == Of(t)
  <1>1. /\ stack[t] # <<>> /\ Top(t).op = "invoke"
        /\ o = Top(t).of /\ o \in States /\ o \in Fns /\ o \in Jobs
        /\ Top(t) \in FrameSet /\ state[o] # "deferred"
    BY RunningTop, TopKnows, TopTypes DEF InvokeJob
  <1>2. CASE UNCHANGED posted /\ Goto(t, Frame("job", Of(t), <<>>))
    BY <1>2, InvokeJobHere
  <1>3. CASE posted' = [posted EXCEPT ![o] = TRUE] /\ Return(t)
    <2> HIDE DEF o
    <2>1. /\ UNCHANGED <<resultVars, readyVars, startVars, promises, need,
                         self, made, prog, history>>
          /\ dead' \in {"no", "assert"}
      BY DEF InvokeJob, Assertion
    <2>2. /\ Data' /\ posted'[o] = TRUE
          /\ \A p \in Jobs : p # o => posted'[p] = posted[p]
      BY <1>1, <1>3, <2>1
         DEF resultVars, readyVars, startVars, history, IInv, Data
    <2>3. Plain /\ Forward
      BY <2>1 DEF Plain, Forward, resultVars, readyVars, startVars, history,
                  Ready
    <2>4. \A k, x : Counted(k, x) =>
             Load(k, x, Top(t)) = One(k = "run" /\ o = x)
      BY <1>1, HeavyLoads
    <2>5. /\ Frames' /\ ResultLocked' /\ ListsTaken' /\ ArgumentsReady'
          /\ \A k, x : /\ Total(k, x) \in Nat
                       /\ Load(k, x, Top(t)) =< Total(k, x)
                       /\ Load(k, x, Top(t)) \in Nat
                       /\ Total(k, x)' = Total(k, x) - Load(k, x, Top(t))
      BY <1>1, <1>3, <2>3, PlainReturn, PlainFixes DEF Storing
    <2>6. \A k : k # "run" => AddsNone(k)
      BY <2>4, <2>5 DEF AddsNone, Adds, One
    <2>7. PromisesCounted' /\ MadeOnce' /\ CalledOnce' /\ NeedCounted'
      BY <2>1, <2>6, Kept DEF resultVars, readyVars, history
    <2>8. Starts'
      BY <1>1, <2>1, <2>2 DEF Starts, IInv, resultVars, startVars
    <2>9. \A x \in Fns :
             /\ Total("run", x)' \in Nat
             /\ runs'[x] + Total("run", x)' + One(x \in Jobs /\ posted'[x])
                   =< runs[x] + Total("run", x)
                         + One(x \in Jobs /\ posted[x])
      <3> SUFFICES ASSUME NEW x \in Fns
                   PROVE
             /\ Total("run", x)' \in Nat
             /\ runs'[x] + Total("run", x)' + One(x \in Jobs /\ posted'[x])
                   =< runs[x] + Total("run", x)
                         + One(x \in Jobs /\ posted[x])
        OBVIOUS
      <3>1. /\ Total("run", x) \in Nat /\ One(o = x) =< Total("run", x)
            /\ Total("run", x)' = Total("run", x) - One(o = x)
        BY <2>4, <2>5, KindsCounted
      <3>2. runs' = runs /\ runs[x] \in Nat
        BY <2>1 DEF history, IInv, Data
      <3>3. /\ One(x \in Jobs /\ posted'[x])
                  =< One(o = x) + One(x \in Jobs /\ posted[x])
            /\ One(o = x) \in Nat /\ One(x \in Jobs /\ posted[x]) \in Nat
            /\ One(x \in Jobs /\ posted'[x]) \in Nat
        BY <2>2 DEF One
      <3> QED BY <3>1, <3>2, <3>3
    <2>10. RunOnce'
      BY <2>1, <2>2, <2>9, RunMoves DEF Data
    <2> QED BY <2>2, <2>5, <2>7, <2>8, <2>10 DEF IInv
  <1> QED BY <1>2, <1>3 DEF InvokeJob

LEMMA ArgThrowsStep ==
    ASSUME IInv, NEW t \in Threads, ArgThrows(t)
    PROVE  IInv'
  <1> DEFINE o == Of(t)
  <1>1. /\ stack[t] # <<>> /\ Top(t).op = "run"
        /\ o = Top(t).of /\ o \in States /\ o \in Fns
        /\ Top(t) \in FrameSet
    BY RunningTop, TopTypes DEF ArgThrows
  <1>2. /\ UNCHANGED <<resultVars, readyVars, startVars, fnVars, prog, dead,
                       history>>
        /\ Goto(t, Frame("set", o, <<"exc", "noexcept">>))
    BY DEF ArgThrows
  <1> HIDE DEF o
  <1>3. Data' /\ Plain /\ Forward
    BY <1>2 DEF Plain, Forward, resultVars, readyVars, startVars, history,
                Ready, fnVars, IInv, Data
  <1>4. PICK f : Made(f, "set", o, <<"exc", "noexcept">>) /\ Goto(t, f)
    BY <1>1, <1>2, MadeFrame, OpNames, OneTuples, WordsAreVals
  <1>5. Fits(f) /\ Light(f)
    BY <1>4, ResultFits, LightLoad DEF Made, LightOps
  <1>6. /\ Frames' /\ ResultLocked' /\ ListsTaken' /\ ArgumentsReady'
        /\ \A k, x : /\ Total(k, x) \in Nat
                     /\ Load(k, x, Top(t)) =< Total(k, x)
                     /\ Load(k, x, Top(t)) \in Nat
                     /\ Total(k, x)' = (Total(k, x) - Load(k, x, Top(t)))
                                          + Load(k, x, f)
    BY <1>1, <1>3, <1>4, <1>5, PlainGoto, PlainFixes DEF Made, Storing
  <1>7. \A k, x : Counted(k, x) =>
           /\ Load(k, x, Top(t)) = One(k = "run" /\ o = x)
           /\ Load(k, x, f) = 0
    BY <1>1, <1>5, HeavyLoads DEF Light
  <1>8. \A k : k # "run" => AddsNone(k)
    BY <1>6, <1>7 DEF AddsNone, Adds, One
  <1>9. PromisesCounted' /\ MadeOnce' /\ CalledOnce' /\ NeedCounted'
    BY <1>2, <1>8, Kept DEF resultVars, readyVars, history, fnVars
  <1>10. Starts'
    BY <1>2, StartsKept DEF IInv, resultVars, startVars, fnVars
  <1>11. \A x \in Fns :
            /\ Total("run", x)' \in Nat /\ Total("run", x) \in Nat
            /\ Total("run", x)' =< Total("run", x)
    BY <1>6, <1>7, KindsCounted
  <1>12. \A x \in Fns :
            /\ Total("run", x)' \in Nat
            /\ runs'[x] + Total("run", x)' + One(x \in Jobs /\ posted'[x])
                  =< runs[x] + Total("run", x) + One(x \in Jobs /\ posted[x])
    BY <1>2, <1>11 DEF history, fnVars, IInv, Data, One
  <1>13. RunOnce'
    BY <1>2, <1>3, <1>12, RunMoves DEF Data, fnVars
  <1> QED BY <1>3, <1>6, <1>9, <1>10, <1>13 DEF IInv

\* The step of RunFn and RunPassPromise, whatever frames they make.
LEMMA RunsFn ==
    ASSUME IInv, NEW t \in Threads, CanInvoke(t),
           runs' = [runs EXCEPT ![Of(t)] = @ + 1]
    PROVE  /\ stack[t] # <<>> /\ Top(t).op = "run"
           /\ Of(t) = Top(t).of /\ Of(t) \in States /\ Of(t) \in Fns
           /\ Top(t) \in FrameSet
           /\ RunsSound /\ runs' \in [Fns -> Nat]
           /\ \A x \in Fns : runs'[x] = runs[x] + One(Of(t) = x)
           /\ \A k, x : Counted(k, x) =>
                 Load(k, x, Top(t)) = One(k = "run" /\ Of(t) = x)
  <1> DEFINE o == Of(t)
  <1>1. /\ stack[t] # <<>> /\ Top(t).op = "run"
        /\ o = Top(t).of /\ o \in States /\ o \in Fns
        /\ Top(t) \in FrameSet
    BY RunningTop, TopTypes DEF CanInvoke
  <1>2. runs' = [runs EXCEPT ![o] = @ + 1] /\ runs \in [Fns -> Nat]
    BY DEF IInv, Data
  <1>3. \A a \in ArgsOf(o) : Ready(a)
    BY <1>1, TopFed DEF CanInvoke
  <1> HIDE DEF o
  <1>4. /\ runs' \in [Fns -> Nat]
        /\ \A x \in Fns : runs'[x] = runs[x] + One(o = x)
    BY <1>1, <1>2 DEF One
  <1>5. RunsSound
    <2> SUFFICES ASSUME NEW x \in Fns, runs'[x] > 0
                 PROVE  runs[x] > 0 \/ \A a \in ArgsOf(x) : Ready(a)
      BY DEF RunsSound
    <2>1. CASE x = o
      BY <1>3, <2>1
    <2>2. CASE x # o
      BY <1>2, <1>4, <2>2 DEF One
    <2> QED BY <2>1, <2>2
  <1>6. \A k, x : Counted(k, x) =>
           Load(k, x, Top(t)) = One(k = "run" /\ o = x)
    BY <1>1, HeavyLoads
  <1> QED BY <1>1, <1>4, <1>5, <1>6 DEF o

LEMMA RanOnce ==
    ASSUME IInv, NEW o \in Fns, need' = need, posted' = posted,
           runs' \in [Fns -> Nat],
           \A x \in Fns : /\ runs'[x] = runs[x] + One(o = x)
                          /\ One(o = x) =< Total("run", x)
                          /\ Total("run", x)' = Total("run", x) - One(o = x)
    PROVE  RunOnce'
  <1>1. \A x \in Fns : /\ Total("run", x) \in Nat /\ One(o = x) \in Nat
                       /\ One(x \in Jobs /\ posted[x]) \in Nat
                       /\ runs[x] \in Nat
    BY TotalsAre DEF IInv, Data, One
  <1>2. \A x \in Fns :
           /\ Total("run", x)' \in Nat
           /\ runs'[x] + Total("run", x)' + One(x \in Jobs /\ posted'[x])
                 =< runs[x] + Total("run", x) + One(x \in Jobs /\ posted[x])
    BY <1>1
  <1> QED BY <1>2, RunMoves

LEMMA RunFnStep ==
    ASSUME IInv, NEW t \in Threads, RunFn(t)
    PROVE  IInv'
  <1> DEFINE o == Of(t)
  <1>1. /\ stack[t] # <<>> /\ Top(t).op = "run"
        /\ o = Top(t).of /\ o \in States /\ o \in Fns
        /\ Top(t) \in FrameSet
        /\ RunsSound /\ runs' \in [Fns -> Nat]
        /\ \A x \in Fns : runs'[x] = runs[x] + One(o = x)
        /\ \A k, x : Counted(k, x) =>
              Load(k, x, Top(t)) = One(k = "run" /\ o = x)
    BY RunsFn DEF RunFn
  <1>2. UNCHANGED <<resultVars, readyVars, startVars, fnVars, prog, dead,
                    calls>>
    BY DEF RunFn
  <1>3. Data' /\ Forward /\ ListsFixed
        /\ \A p \in States : Ready(p)' <=> Ready(p)
    BY <1>1, <1>2 DEF Forward, resultVars, readyVars, startVars,
                Ready, fnVars, IInv, Data, ListsFixed
  <1>4. PICK f, r : /\ r \in Results /\ Made(f, "set", o, <<r, "noexcept">>)
                    /\ Goto(t, f)
    BY <1>1, MadeFrame, OpNames, OneTuples, WordsAreVals DEF RunFn, Results
  <1> HIDE DEF o
  <1>5. Fits(f) /\ Light(f)
    BY <1>4, ResultFits, LightLoad, OneTuples, WordsAreVals
       DEF Made, LightOps, Results
  <1>6. /\ Frames' /\ ResultLocked' /\ ListsTaken' /\ ArgumentsReady'
        /\ \A k, x : /\ Total(k, x) \in Nat
                     /\ Load(k, x, Top(t)) =< Total(k, x)
                     /\ Load(k, x, Top(t)) \in Nat
                     /\ Total(k, x)' = (Total(k, x) - Load(k, x, Top(t)))
                                          + Load(k, x, f)
    BY <1>1, <1>2, <1>3, <1>4, <1>5, PlainGoto DEF Made, Storing, resultVars
  <1>7. \A k, x : Counted(k, x) =>
           /\ Load(k, x, Top(t)) = One(k = "run" /\ o = x)
           /\ Load(k, x, f) = 0
    BY <1>1, <1>5 DEF Light
  <1>8. \A k : k # "run" => AddsNone(k)
    BY <1>6, <1>7 DEF AddsNone, Adds, One
  <1>9. PromisesCounted' /\ MadeOnce' /\ CalledOnce' /\ NeedCounted'
    BY <1>2, <1>8, Kept DEF resultVars, readyVars, fnVars
  <1>10. Starts'
    BY <1>2, StartsKept DEF IInv, resultVars, startVars, fnVars
  <1>11. \A x \in Fns :
            /\ One(o = x) =< Total("run", x)
            /\ Total("run", x)' = Total("run", x) - One(o = x)
    BY <1>6, <1>7, KindsCounted
  <1>12. RunOnce'
    BY <1>1, <1>2, <1>11, RanOnce DEF fnVars
  <1> QED BY <1>3, <1>6, <1>9, <1>10, <1>12 DEF IInv

LEMMA RunPassPromiseStep ==
    ASSUME IInv, NEW t \in Threads, RunPassPromise(t)
    PROVE  IInv'
  <1> DEFINE o == Of(t)
  <1>1. /\ stack[t] # <<>> /\ Top(t).op = "run"
        /\ o = Top(t).of /\ o \in States /\ o \in Fns
        /\ Top(t) \in FrameSet
        /\ RunsSound /\ runs' \in [Fns -> Nat]
        /\ \A x \in Fns : runs'[x] = runs[x] + One(o = x)
        /\ \A k, x : Counted(k, x) =>
              Load(k, x, Top(t)) = One(k = "run" /\ o = x)
    BY RunsFn DEF RunPassPromise
  <1>2. /\ UNCHANGED <<resultVars, readyVars, startVars, need, self, posted,
                       made, prog, dead, calls>>
        /\ promises' = [promises EXCEPT ![o] = @ + 1]
    BY DEF RunPassPromise
  <1>3. Data' /\ Forward /\ ListsFixed
        /\ \A p \in States : Ready(p)' <=> Ready(p)
    BY <1>1, <1>2 DEF Forward, resultVars, readyVars, startVars,
                Ready, IInv, Data, ListsFixed
  <1>4. \E how \in {"returns", "throws"} :
           \/ Call(t, Frame("set", o, <<"value", "user">>),
                      Frame("unwind", o, <<how>>))
           \/ Goto(t, Frame("unwind", o, <<how>>))
    BY DEF RunPassPromise
  <1> HIDE DEF o
  <1>5. PICK g, how :
           /\ Made(g, "unwind", o, <<how>>)
           /\ \/ Call(t, Frame("set", o, <<"value", "user">>), g)
              \/ Goto(t, g)
    BY <1>1, <1>4, MadeFrame, OpNames, OneTuples, WordsAreVals
  <1>6. /\ Fits(g)
        /\ \A k, x : Counted(k, x) =>
              Load(k, x, g) = One(k = "promise" /\ o = x)
    BY <1>1, <1>5, FnFits, HeavyLoads DEF Made, PromiseOps
  <1>7. /\ Frames' /\ ResultLocked' /\ ListsTaken' /\ ArgumentsReady'
        /\ \A k, x : Counted(k, x) =>
              /\ Total(k, x) \in Nat
              /\ One(k = "run" /\ o = x) =< Total(k, x)
              /\ Total(k, x)' = (Total(k, x) - One(k = "run" /\ o = x))
                                   + One(k = "promise" /\ o = x)
    <2>1. CASE Goto(t, g)
      <3>1. /\ Frames' /\ ResultLocked' /\ ListsTaken' /\ ArgumentsReady'
            /\ \A k, x : /\ Total(k, x) \in Nat
                         /\ Load(k, x, Top(t)) =< Total(k, x)
                         /\ Total(k, x)' =
                               (Total(k, x) - Load(k, x, Top(t)))
                                  + Load(k, x, g)
        BY <1>1, <1>2, <1>3, <1>5, <1>6, <2>1, PlainGoto
           DEF Made, Storing, resultVars
      <3> QED BY <1>1, <1>6, <3>1
    <2>2. CASE Call(t, Frame("set", o, <<"value", "user">>), g)
      <3>1. PICK f : Made(f, "set", o, <<"value", "user">>) /\ Call(t, f, g)
        BY <1>1, <2>2, MadeFrame, OpNames, OneTuples, WordsAreVals
      <3>2. Fits(f) /\ Light(f)
        BY <3>1, ResultFits, LightLoad, OneTuples, WordsAreVals
           DEF Made, LightOps
      <3>3. f \in FrameSet /\ f.op = "set" /\ g \in FrameSet /\ g.op = "unwind"
        BY <1>5, <3>1 DEF Made
      <3>4. /\ Frames' /\ ResultLocked' /\ ListsTaken' /\ ArgumentsReady'
            /\ \A k, x : /\ Total(k, x) \in Nat
                         /\ Load(k, x, Top(t)) =< Total(k, x)
                         /\ Total(k, x)' =
                               (Total(k, x) - Load(k, x, Top(t)))
                                  + (Load(k, x, f) + Load(k, x, g))
        BY <1>1, <1>2, <1>3, <1>6, <3>1, <3>2, <3>3, PlainCall
           DEF Storing, resultVars
      <3>5. \A k, x : Counted(k, x) => /\ Load(k, x, f) = 0
                                       /\ Load(k, x, g) \in Nat
        BY <3>2, <3>3, LoadNat DEF Light
      <3>6. \A k, x : Counted(k, x) =>
               Load(k, x, f) + Load(k, x, g) = One(k = "promise" /\ o = x)
        BY <1>6, <3>5
      <3> QED BY <1>1, <3>4, <3>6
    <2> QED BY <1>5, <2>1, <2>2
  <1>8. AddsNone("make") /\ AddsNone("tell") /\ AddsNone("call")
    BY <1>7 DEF AddsNone, Adds, One
  <1>9. MadeOnce' /\ CalledOnce' /\ NeedCounted'
    BY <1>2, <1>8, Kept DEF resultVars, readyVars
  <1>10. Starts'
    BY <1>2, StartsKept DEF IInv, resultVars, startVars
  <1>11. \A x \in Fns :
            /\ One(o = x) =< Total("run", x)
            /\ Total("run", x)' = Total("run", x) - One(o = x)
    <2> SUFFICES ASSUME NEW x \in Fns
                 PROVE  /\ One(o = x) =< Total("run", x)
                        /\ Total("run", x)' = Total("run", x) - One(o = x)
      OBVIOUS
    <2>1. /\ Total("run", x) \in Nat
          /\ One("run" = "run" /\ o = x) =< Total("run", x)
          /\ Total("run", x)' = (Total("run", x) - One("run" = "run" /\ o = x))
                                   + One("run" = "promise" /\ o = x)
      BY <1>7, KindsCounted
    <2> QED BY <2>1 DEF One
  <1>12. RunOnce'
    BY <1>1, <1>2, <1>11, RanOnce
  <1>13. PromisesCounted'
    <2> SUFFICES ASSUME NEW x \in States
                 PROVE  promises'[x] = Total("promise", x)'
      BY DEF PromisesCounted
    <2>1. promises'[x] = promises[x] + One(o = x)
      BY <1>1, <1>2 DEF IInv, Data, One
    <2>2. promises[x] = Total("promise", x)
      BY DEF IInv, PromisesCounted
    <2>3. /\ Total("promise", x) \in Nat
          /\ Total("promise", x)' =
                (Total("promise", x) - One("promise" = "run" /\ o = x))
                   + One("promise" = "promise" /\ o = x)
      BY <1>7, KindsCounted
    <2> QED BY <2>1, <2>2, <2>3 DEF One
  <1> QED BY <1>3, <1>7, <1>9, <1>10, <1>12, <1>13 DEF IInv

-----------------------------------------------------------------------------
(* Making functions, and letting promises go.                              *)

LEMMA MakeStep ==
    ASSUME IInv, NEW t \in Threads, Make(t)
    PROVE  IInv'
  <1> DEFINE o == Of(t)
  <1>1. /\ stack[t] # <<>> /\ Top(t).op = "make"
        /\ o = Top(t).of /\ o \in States /\ o \in Fns
        /\ Top(t) \in FrameSet /\ \A a \in ArgsOf(o) : made[a]
    BY RunningTop, TopKnows, TopTypes DEF Make
  <1>2. /\ UNCHANGED <<resultVars, readyVars, startVars, promises, need, self,
                       posted, prog, dead, history>>
        /\ made' = [made EXCEPT ![o] = TRUE] /\ Return(t)
    BY DEF Make
  <1> HIDE DEF o
  <1>3. /\ Data' /\ made'[o] = TRUE
        /\ \A p \in States : p # o => made'[p] = made[p]
    BY <1>1, <1>2 DEF resultVars, readyVars, startVars, history, IInv, Data
  <1>4. Plain /\ Forward
    BY <1>2, <1>3 DEF Plain, Forward, resultVars, readyVars, startVars,
                      history, Ready
  <1>5. \A k, x : Counted(k, x) =>
           Load(k, x, Top(t)) = One(k = "make" /\ o = x)
    BY <1>1, HeavyLoads
  <1>6. /\ Frames' /\ ResultLocked' /\ ListsTaken' /\ ArgumentsReady'
        /\ \A k, x : /\ Total(k, x) \in Nat
                     /\ Load(k, x, Top(t)) =< Total(k, x)
                     /\ Load(k, x, Top(t)) \in Nat
                     /\ Total(k, x)' = Total(k, x) - Load(k, x, Top(t))
    BY <1>1, <1>2, <1>4, PlainReturn, PlainFixes DEF Storing
  <1>7. \A k : k # "make" => AddsNone(k)
    BY <1>5, <1>6 DEF AddsNone, Adds, One
  <1>8. PromisesCounted' /\ NeedCounted' /\ CalledOnce' /\ RunOnce'
    BY <1>2, <1>7, Kept DEF resultVars, readyVars, history
  <1>9. Starts'
    BY <1>1, <1>2, <1>3, ArgsAreStates, Kindly
       DEF Starts, IInv, resultVars, startVars
  <1>10. MadeOnce'
    <2> SUFFICES ASSUME NEW x \in Fns
                 PROVE  Total("make", x)' =< One(~made'[x])
      BY DEF MadeOnce
    <2>1. /\ Total("make", x) \in Nat /\ One(o = x) =< Total("make", x)
          /\ Total("make", x)' = Total("make", x) - One(o = x)
      BY <1>5, <1>6, KindsCounted
    <2>2. Total("make", x) =< One(~made[x])
      BY DEF IInv, MadeOnce
    <2> QED BY <1>3, <2>1, <2>2, Kindly DEF One
  <1> QED BY <1>3, <1>6, <1>8, <1>9, <1>10 DEF IInv

LEMMA MakeArgStep ==
    ASSUME IInv, NEW t \in Threads, MakeArg(t)
    PROVE  IInv'
  <1> DEFINE o == Of(t)
  <1> DEFINE a == Head(V(t))
  <1>1. /\ stack[t] # <<>> /\ Top(t).op = "make"
        /\ o = Top(t).of /\ o \in States /\ o \in Fns
        /\ Top(t) \in FrameSet /\ \A b \in ArgsOf(o) : made[b]
        /\ V(t) \in Seq(Vals) /\ V(t) # <<>>
        /\ \A i \in DOMAIN V(t) : V(t)[i] \in ArgsOf(o)
    BY RunningTop, TopKnows, TopTypes DEF MakeArg
  <1>2. /\ UNCHANGED <<resultVars, readyVars, startVars, promises, self,
                       posted, made, prog, dead, history>>
        /\ need' = [need EXCEPT ![o] = @ + 1]
        /\ Call(t, Frame("register", a, <<o>>), Frame("make", o, Tail(V(t))))
    BY DEF MakeArg
  <1>3. /\ Tail(V(t)) \in Seq(Vals) /\ a = V(t)[1]
        /\ DOMAIN V(t) = 1 .. Len(V(t)) /\ Len(V(t)) \in Nat \ {0}
        /\ DOMAIN Tail(V(t)) = 1 .. Len(V(t)) - 1
        /\ \A i \in 1 .. Len(V(t)) - 1 : Tail(V(t))[i] = V(t)[i + 1]
    BY <1>1, OccursHead
  <1>4. /\ a \in States
        /\ \A i \in DOMAIN Tail(V(t)) : Tail(V(t))[i] \in ArgsOf(o)
    BY <1>1, <1>3, ArgsAreStates
  <1> HIDE DEF o, a
  <1>5. PICK f, g : /\ Made(f, "register", a, <<o>>)
                    /\ Made(g, "make", o, Tail(V(t))) /\ Call(t, f, g)
    BY <1>1, <1>2, <1>3, <1>4, MadeFrame, OpNames, OneTuples, WordsAreVals
  <1>6. Fits(f) /\ Fits(g)
    <2>1. f \in FrameSet /\ f.op = "register" /\ f.v[1] \in Fns
      BY <1>1, <1>5 DEF Made
    <2>2. Fits(f)
      BY <2>1, RegisterFits
    <2>3. /\ g \in FrameSet /\ g.op = "make" /\ g.of \in Fns
          /\ \A b \in ArgsOf(g.of) : made'[b]
          /\ \A i \in DOMAIN g.v : g.v[i] \in ArgsOf(g.of)
      BY <1>1, <1>2, <1>4, <1>5 DEF Made
    <2> QED BY <2>2, <2>3, FnFits
  <1>7. /\ Data' /\ need[o] \in Int
        /\ \A p \in Fns : need'[p] = need[p] + One(o = p)
    BY <1>1, <1>2
       DEF resultVars, readyVars, startVars, history, IInv, Data, One
  <1>8. Plain /\ Forward
    BY <1>2 DEF Plain, Forward, resultVars, readyVars, startVars, history,
                Ready
  <1>9. \A k, x : Counted(k, x) =>
           /\ Load(k, x, Top(t)) = One(k = "make" /\ o = x)
           /\ Load(k, x, f) = One(k = "tell" /\ o = x)
           /\ Load(k, x, g) = One(k = "make" /\ o = x)
    BY <1>1, <1>5, HeavyLoads DEF Made
  <1>10. /\ Frames' /\ ResultLocked' /\ ListsTaken' /\ ArgumentsReady'
         /\ \A k, x : /\ Total(k, x) \in Nat
                      /\ Load(k, x, Top(t)) =< Total(k, x)
                      /\ Load(k, x, Top(t)) \in Nat
                      /\ Total(k, x)' = (Total(k, x) - Load(k, x, Top(t)))
                            + (Load(k, x, f) + Load(k, x, g))
    <2>1. f \in FrameSet /\ f.op = "register" /\ g \in FrameSet /\ g.op = "make"
          /\ Call(t, f, g)
      BY <1>5 DEF Made
    <2> QED BY <1>1, <1>6, <1>8, <2>1, PlainCall, PlainFixes DEF Storing
  <1>11. \A k, x : Counted(k, x) =>
            /\ Total(k, x) \in Nat
            /\ Total(k, x)' = Total(k, x) + One(k = "tell" /\ o = x)
    BY <1>9, <1>10 DEF One
  <1>12. \A k : k # "tell" => AddsNone(k)
    BY <1>11 DEF AddsNone, Adds, One
  <1>13. need[o] \in Nat \ {0}
    <2>1. Load("make", o, Top(t)) = 1
      BY <1>1, <1>9, KindsCounted DEF One
    <2>2. Total("make", o) \in Nat \ {0}
      BY <1>10, <2>1
    <2>3. ~made[o]
      BY <1>1, <2>2 DEF IInv, MadeOnce, One
    <2>4. One(state[o] = "deferred") = 1
      BY <1>1, <2>3 DEF IInv, Starts, One
    <2>5. /\ need[o] = One(state[o] = "deferred") + Total("tell", o)
                       + Cardinality(Dependants(o))
          /\ IsFiniteSet(Dependants(o))
      BY <1>1 DEF IInv, NeedCounted
    <2>6. Cardinality(Dependants(o)) \in Nat
      BY <2>5, FS_CardinalityType
    <2> QED BY <1>10, <2>4, <2>5, <2>6
  <1>14. \A p \in Fns : need[p] = 0 => need'[p] = 0
    BY <1>7, <1>13 DEF One
  <1>15. PromisesCounted' /\ MadeOnce' /\ CalledOnce' /\ RunOnce'
    BY <1>2, <1>12, <1>14, Kept DEF resultVars, readyVars, history
  <1>16. Starts'
    BY <1>2, StartsKept DEF IInv, resultVars, startVars
  <1>17. NeedCounted'
    <2> SUFFICES ASSUME NEW x \in Fns
                 PROVE  /\ IsFiniteSet(Dependants(x)')
                        /\ need'[x] = One(state'[x] = "deferred")
                             + Total("tell", x)' + Cardinality(Dependants(x)')
      BY DEF NeedCounted
    <2>1. Dependants(x)' = Dependants(x) /\ state' = state
      BY <1>2 DEF Dependants, readyVars, resultVars
    <2>2. Total("tell", x)' = Total("tell", x) + One(o = x)
          /\ Total("tell", x) \in Nat /\ One(o = x) \in Nat
          /\ One(state[x] = "deferred") \in Nat
      BY <1>11, KindsCounted DEF One
    <2>3. /\ need[x] = One(state[x] = "deferred") + Total("tell", x)
                       + Cardinality(Dependants(x))
          /\ IsFiniteSet(Dependants(x))
      BY DEF IInv, NeedCounted
    <2>4. Cardinality(Dependants(x)) \in Nat
      BY <2>3, FS_CardinalityType
    <2> QED BY <1>7, <2>1, <2>2, <2>3, <2>4
  <1> QED BY <1>7, <1>10, <1>15, <1>16, <1>17 DEF IInv

LEMMA DropStep ==
    ASSUME IInv, NEW t \in Threads, Drop(t)
    PROVE  IInv'
  <1> DEFINE o == Of(t)
  <1>1. /\ stack[t] # <<>> /\ Top(t).op = "drop"
        /\ o = Top(t).of /\ o \in States /\ Top(t) \in FrameSet
    BY RunningTop DEF Drop
  <1>2. /\ UNCHANGED <<resultVars, readyVars, startVars, need, self, posted,
                       made, prog, dead, history>>
        /\ promises' = [promises EXCEPT ![o] = @ - 1]
        /\ Goto(t, Frame("orphan", o, <<>>)) \/ Return(t)
    BY DEF Drop
  <1> HIDE DEF o
  <1>3. /\ Data'
        /\ \A p \in States : promises'[p] = promises[p] - One(o = p)
    BY <1>1, <1>2
       DEF resultVars, readyVars, startVars, history, IInv, Data, One
  <1>4. Plain /\ Forward
    BY <1>2 DEF Plain, Forward, resultVars, readyVars, startVars, history,
                Ready
  <1>5. \A k, x : Counted(k, x) =>
           Load(k, x, Top(t)) = One(k = "promise" /\ o = x)
    BY <1>1, HeavyLoads DEF PromiseOps
  <1>6. /\ Frames' /\ ResultLocked' /\ ListsTaken' /\ ArgumentsReady'
        /\ \A k, x : Counted(k, x) =>
              /\ Total(k, x) \in Nat
              /\ Total(k, x)' = Total(k, x) - Load(k, x, Top(t))
    <2>1. CASE Return(t)
      BY <1>1, <1>4, <2>1, PlainReturn, PlainFixes DEF Storing
    <2>2. CASE Goto(t, Frame("orphan", o, <<>>))
      <3>1. PICK f : Made(f, "orphan", o, <<>>) /\ Goto(t, f)
        BY <1>1, <2>2, MadeEmpty, OpNames
      <3>2. Fits(f) /\ Light(f)
        BY <3>1, FreeFits, LightLoad DEF Made, LightOps
      <3>3. /\ Frames' /\ ResultLocked' /\ ListsTaken' /\ ArgumentsReady'
            /\ \A k, x : /\ Total(k, x) \in Nat
                         /\ Load(k, x, Top(t)) \in Nat
                         /\ Load(k, x, Top(t)) =< Total(k, x)
                         /\ Total(k, x)' =
                               (Total(k, x) - Load(k, x, Top(t)))
                                  + Load(k, x, f)
        BY <1>1, <1>4, <3>1, <3>2, PlainGoto, PlainFixes DEF Made, Storing
      <3> QED BY <3>2, <3>3 DEF Light
    <2> QED BY <1>2, <2>1, <2>2
  <1>7. \A k : k # "promise" => AddsNone(k)
    BY <1>5, <1>6 DEF AddsNone, Adds, One
  <1>8. MadeOnce' /\ NeedCounted' /\ CalledOnce' /\ RunOnce'
    BY <1>2, <1>7, Kept DEF resultVars, readyVars, history
  <1>9. Starts'
    BY <1>2, StartsKept DEF IInv, resultVars, startVars
  <1>10. PromisesCounted'
    <2>1. \A x \in States : Total("promise", x)' =
                               Total("promise", x) - One(o = x)
      BY <1>5, <1>6, KindsCounted
    <2>2. \A x \in States : promises[x] = Total("promise", x)
      BY DEF IInv, PromisesCounted
    <2> QED BY <1>3, <2>1, <2>2 DEF PromisesCounted
  <1> QED BY <1>3, <1>6, <1>8, <1>9, <1>10 DEF IInv

-----------------------------------------------------------------------------
(* The dependants of a shared state that is not ready.                     *)

LEMMA Appended ==
    ASSUME NEW T, NEW s \in Seq(T), NEW y \in T
    PROVE  /\ Append(s, y) \in Seq(T) /\ Append(s, y)[Len(s) + 1] = y
           /\ Len(s) \in Nat
           /\ DOMAIN s = 1 .. Len(s) /\ DOMAIN Append(s, y) = 1 .. Len(s) + 1
           /\ \A i \in DOMAIN s : Append(s, y)[i] = s[i]
           /\ \A x : /\ Occurs(s, x) \in Nat
                     /\ Occurs(Append(s, y), x) = Occurs(s, x) + One(y = x)
  <1>1. /\ Append(s, y) \in Seq(T) /\ Append(s, y)[Len(s) + 1] = y
        /\ Len(s) \in Nat
        /\ DOMAIN s = 1 .. Len(s) /\ DOMAIN Append(s, y) = 1 .. Len(s) + 1
        /\ \A i \in DOMAIN s : Append(s, y)[i] = s[i]
    OBVIOUS
  <1>2. Append(s, y) = s \o <<y>> /\ <<y>> \in Seq(T)
    OBVIOUS
  <1>3. \A x : Occurs(s \o <<y>>, x) = Occurs(s, x) + Occurs(<<y>>, x)
    BY <1>2, OccursConcat
  <1>4. \A x : Occurs(s, x) \in Nat
    BY OccursNat
  <1>5. \A x : Occurs(Append(s, y), x) = Occurs(s, x) + One(y = x)
    BY <1>2, <1>3, OccursOne
  <1> QED BY <1>1, <1>4, <1>5

LEMMA Replaced ==
    ASSUME NEW T, NEW s \in Seq(T), NEW y \in T, NEW i \in DOMAIN s
    PROVE  /\ [s EXCEPT ![i] = y] \in Seq(T)
           /\ DOMAIN [s EXCEPT ![i] = y] = DOMAIN s
           /\ \A k \in DOMAIN s :
                 [s EXCEPT ![i] = y][k] = IF k = i THEN y ELSE s[k]
           /\ \A x : x # y /\ x # s[i] =>
                 Occurs([s EXCEPT ![i] = y], x) = Occurs(s, x)
  <1> DEFINE w == [s EXCEPT ![i] = y]
  <1>1. /\ w \in Seq(T) /\ DOMAIN w = DOMAIN s
        /\ \A k \in DOMAIN s : w[k] = IF k = i THEN y ELSE s[k]
    OBVIOUS
  <1> HIDE DEF w
  <1>2. \A x : x # y /\ x # s[i] => Occurs(w, x) = Occurs(s, x)
    <2> SUFFICES ASSUME NEW x, x # y, x # s[i]
                 PROVE  Occurs(w, x) = Occurs(s, x)
      OBVIOUS
    <2>1. {k \in DOMAIN w : w[k] = x} = {k \in DOMAIN s : s[k] = x}
      BY <1>1
    <2> QED BY <2>1 DEF Occurs
  <1> QED BY <1>1, <1>2 DEF w

Dep == States \cup {None}

LEMMA AppendedDep ==
    \A s \in Seq(Dep), y \in Dep :
       /\ Append(s, y) \in Seq(Dep)
       /\ \A i \in DOMAIN s : i \in DOMAIN Append(s, y)
                            /\ Append(s, y)[i] = s[i]
       /\ \A x : Occurs(s, x) \in Nat
                /\ Occurs(Append(s, y), x) = Occurs(s, x) + One(y = x)
       /\ Len(s) + 1 \in Nat /\ Len(s) + 1 \in DOMAIN Append(s, y)
       /\ Append(s, y)[Len(s) + 1] = y
  <1> SUFFICES ASSUME NEW s \in Seq(Dep), NEW y \in Dep
               PROVE
       /\ Append(s, y) \in Seq(Dep)
       /\ \A i \in DOMAIN s : i \in DOMAIN Append(s, y)
                            /\ Append(s, y)[i] = s[i]
       /\ \A x : Occurs(s, x) \in Nat
                /\ Occurs(Append(s, y), x) = Occurs(s, x) + One(y = x)
       /\ Len(s) + 1 \in Nat /\ Len(s) + 1 \in DOMAIN Append(s, y)
       /\ Append(s, y)[Len(s) + 1] = y
    OBVIOUS
  <1>1. /\ Append(s, y) \in Seq(Dep) /\ Append(s, y)[Len(s) + 1] = y
        /\ Len(s) \in Nat
        /\ DOMAIN s = 1 .. Len(s) /\ DOMAIN Append(s, y) = 1 .. Len(s) + 1
        /\ \A i \in DOMAIN s : Append(s, y)[i] = s[i]
        /\ \A x : /\ Occurs(s, x) \in Nat
                  /\ Occurs(Append(s, y), x) = Occurs(s, x) + One(y = x)
    BY Appended
  <1>2. \A i \in DOMAIN s : i \in DOMAIN Append(s, y)
    BY <1>1
  <1>3. Len(s) + 1 \in Nat /\ Len(s) + 1 \in DOMAIN Append(s, y)
    BY <1>1
  <1> QED BY <1>1, <1>2, <1>3

LEMMA ReplacedDep ==
    \A s \in Seq(Dep), y \in Dep : \A i \in DOMAIN s :
       /\ [s EXCEPT ![i] = y] \in Seq(Dep)
       /\ DOMAIN [s EXCEPT ![i] = y] = DOMAIN s
       /\ \A k \in DOMAIN s :
             [s EXCEPT ![i] = y][k] = IF k = i THEN y ELSE s[k]
       /\ \A x : x # y /\ x # s[i] =>
             Occurs([s EXCEPT ![i] = y], x) = Occurs(s, x)
  BY Replaced

LEMMA DepsStep ==
    ASSUME IInv,
           UNCHANGED <<resultVars, single, chain, startVars, fnVars, prog,
                       dead, history>>
    PROVE  \A o, m \in States, w \in Seq(Dep) :
              /\ ~Ready(o) /\ deps' = [deps EXCEPT ![o] = w]
              /\ mtx' = [mtx EXCEPT ![m] = None]
              /\ \A i \in DOMAIN deps[o] : deps[o][i] \notin Fns =>
                    i \in DOMAIN w /\ w[i] \notin Fns
              => /\ Data' /\ Starts' /\ Forward /\ RunsSound /\ ListsFixed
                 /\ lck' = lck /\ storage' = storage /\ prog' = prog
                 /\ deps'[o] = w
                 /\ \A p \in States : Ready(p)' <=> Ready(p)
                 /\ (\A x \in Fns :
                       /\ Total("tell", x) \in Nat
                       /\ Total("tell", x)' \in Nat
                       /\ Total("tell", x)' + Occurs(w, x) =
                             Total("tell", x) + Occurs(deps[o], x))
                    => NeedCounted'
  <1> SUFFICES ASSUME NEW o \in States, ~Ready(o), NEW w \in Seq(Dep),
                      deps' = [deps EXCEPT ![o] = w],
                      \A i \in DOMAIN deps[o] : deps[o][i] \notin Fns =>
                         i \in DOMAIN w /\ w[i] \notin Fns,
                      NEW m \in States, mtx' = [mtx EXCEPT ![m] = None]
               PROVE
                 /\ Data' /\ Starts' /\ Forward /\ RunsSound /\ ListsFixed
                 /\ lck' = lck /\ storage' = storage /\ prog' = prog
                 /\ deps'[o] = w
                 /\ \A p \in States : Ready(p)' <=> Ready(p)
                 /\ (\A x \in Fns :
                       /\ Total("tell", x) \in Nat
                       /\ Total("tell", x)' \in Nat
                       /\ Total("tell", x)' + Occurs(w, x) =
                             Total("tell", x) + Occurs(deps[o], x))
                    => NeedCounted'
    OBVIOUS
  <1>1. \A p \in States : Ready(p)' <=> Ready(p)
    BY DEF Ready, resultVars
  <1>2. deps \in [States -> Seq(Dep)]
    BY DEF IInv, Data, Dep
  <1>3. deps'[o] = w /\ \A p \in States : p # o => deps'[p] = deps[p]
    BY <1>2
  <1>4. Data'
    BY <1>2 DEF resultVars, startVars, fnVars, history, IInv, Data, Dep
  <1>5. Starts'
    BY StartsKept DEF IInv, resultVars, startVars, fnVars
  <1>6. Forward
    BY <1>1, <1>3 DEF Forward, resultVars, startVars, fnVars
  <1>7. RunsSound /\ ListsFixed
    BY <1>1, <1>3 DEF RunsSound, ListsFixed, history
  <1>8. ASSUME \A x \in Fns : /\ Total("tell", x) \in Nat
                              /\ Total("tell", x)' \in Nat
                              /\ Total("tell", x)' + Occurs(w, x) =
                                    Total("tell", x) + Occurs(deps[o], x)
        PROVE  NeedCounted'
    <2> SUFFICES ASSUME NEW x \in Fns
                 PROVE  /\ IsFiniteSet(Dependants(x)')
                        /\ need'[x] = One(state'[x] = "deferred")
                             + Total("tell", x)' + Cardinality(Dependants(x)')
      BY DEF NeedCounted
    <2>1. /\ IsFiniteSet(Dependants(x))
          /\ need[x] = One(state[x] = "deferred") + Total("tell", x)
                       + Cardinality(Dependants(x))
          /\ One(state[x] = "deferred") \in Nat
      BY DEF IInv, NeedCounted, One
    <2>2. /\ IsFiniteSet(Dependants(x)')
          /\ Cardinality(Dependants(x)) \in Nat
          /\ Cardinality(Dependants(x)') \in Nat
          /\ Occurs(w, x) \in Nat /\ Occurs(deps[o], x) \in Nat
          /\ Cardinality(Dependants(x)') + Occurs(deps[o], x) =
                Cardinality(Dependants(x)) + Occurs(w, x)
      BY <2>1, DepsChange DEF IInv, Dep
    <2>3. need' = need /\ state' = state
      BY DEF fnVars, resultVars
    <2>4. /\ Total("tell", x) \in Nat /\ Total("tell", x)' \in Nat
          /\ Total("tell", x)' + Occurs(w, x) =
                Total("tell", x) + Occurs(deps[o], x)
      BY <1>8
    <2>5. Total("tell", x)' + Cardinality(Dependants(x)') =
             Total("tell", x) + Cardinality(Dependants(x))
      BY <2>2, <2>4
    <2>6. need[x] = One(state[x] = "deferred") + Total("tell", x)'
                       + Cardinality(Dependants(x)')
      <3>1. \A e \in Nat : \A n :
               n = e + Total("tell", x) + Cardinality(Dependants(x))
                  => n = e + Total("tell", x)' + Cardinality(Dependants(x)')
        BY <2>2, <2>4, <2>5
      <3> QED BY <2>1, <3>1
    <2> QED BY <2>2, <2>3, <2>6
  <1>9. lck' = lck /\ storage' = storage /\ prog' = prog
    BY DEF resultVars
  <1> QED BY <1>1, <1>3, <1>4, <1>5, <1>6, <1>7, <1>8, <1>9

LEMMA RegisterStep ==
    ASSUME IInv, NEW t \in Threads, Register(t)
    PROVE  IInv'
  <1> DEFINE o == Of(t)
  <1> DEFINE a == V(t)[1]
  <1> SUFFICES ASSUME ~Ready(o) PROVE IInv'
    BY RegisterReady
  <1>1. /\ stack[t] # <<>> /\ Top(t).op = "registered"
        /\ o = Top(t).of /\ o \in States
        /\ V(t) = Top(t).v /\ Top(t) \in FrameSet /\ a \in Fns
    BY RunningTop, TopTypes DEF Register
  <1>2. /\ UNCHANGED <<resultVars, single, chain, startVars, fnVars, prog,
                       dead, history>>
        /\ mtx' = [mtx EXCEPT ![o] = None]
        /\ deps' = [deps EXCEPT ![o] = Append(@, a)]
        /\ Return(t)
    BY DEF Register
  <1>3. deps[o] \in Seq(Dep) /\ a \in Dep
    BY <1>1, Kindly DEF IInv, Data, Dep
  <1> HIDE DEF o, a
  <1> PICK w : w = Append(deps[o], a)
    OBVIOUS
  <1>4. /\ w \in Seq(Dep)
        /\ \A i \in DOMAIN deps[o] : i \in DOMAIN w /\ w[i] = deps[o][i]
        /\ \A x : /\ Occurs(deps[o], x) \in Nat
                  /\ Occurs(w, x) = Occurs(deps[o], x) + One(a = x)
    BY <1>3, AppendedDep
  <1>5. deps' = [deps EXCEPT ![o] = w]
    BY <1>2
  <1>0. \A i \in DOMAIN deps[o] : deps[o][i] \notin Fns =>
           i \in DOMAIN w /\ w[i] \notin Fns
    BY <1>4
  <1>6. /\ Data' /\ Starts' /\ Forward /\ RunsSound /\ ListsFixed
        /\ lck' = lck /\ storage' = storage /\ prog' = prog
        /\ \A p \in States : Ready(p)' <=> Ready(p)
        /\ (\A x \in Fns : /\ Total("tell", x) \in Nat
                           /\ Total("tell", x)' \in Nat
                           /\ Total("tell", x)' + Occurs(w, x) =
                                 Total("tell", x) + Occurs(deps[o], x))
           => NeedCounted'
    <2>1. /\ o \in States /\ w \in Seq(Dep)
          /\ deps' = [deps EXCEPT ![o] = w]
          /\ mtx' = [mtx EXCEPT ![o] = None]
          /\ UNCHANGED <<resultVars, single, chain, startVars, fnVars, prog,
                         dead, history>>
      BY <1>1, <1>2, <1>4, <1>5
    <2> QED BY <1>0, <2>1, DepsStep
  <1>7. \A k, x : Counted(k, x) =>
           Load(k, x, Top(t)) = One(k = "tell" /\ a = x)
    BY <1>1, HeavyLoads DEF a
  <1>8. /\ Frames' /\ ResultLocked' /\ ListsTaken' /\ ArgumentsReady'
        /\ \A k, x : /\ Total(k, x) \in Nat
                     /\ Load(k, x, Top(t)) =< Total(k, x)
                     /\ Load(k, x, Top(t)) \in Nat
                     /\ Total(k, x)' = Total(k, x) - Load(k, x, Top(t))
    BY <1>1, <1>2, <1>6, PlainReturn DEF Storing
  <1>9. \A k : k # "tell" => AddsNone(k)
    BY <1>7, <1>8 DEF AddsNone, Adds, One
  <1>10. PromisesCounted' /\ MadeOnce' /\ CalledOnce' /\ RunOnce'
    BY <1>2, <1>9, Kept DEF fnVars, history
  <1>11. NeedCounted'
    <2>1. \A x \in Fns : /\ Total("tell", x) \in Nat
                         /\ One(a = x) =< Total("tell", x)
                         /\ One(a = x) \in Nat
                         /\ Total("tell", x)' = Total("tell", x) - One(a = x)
      BY <1>7, <1>8, KindsCounted DEF One
    <2> QED BY <1>4, <1>6, <2>1
  <1> QED BY <1>6, <1>8, <1>10, <1>11 DEF IInv

LEMMA ReserveStep ==
    ASSUME IInv, NEW t \in Threads, Reserve(t)
    PROVE  IInv'
  <1> DEFINE src == V(t)[1]
  <1> SUFFICES ASSUME ~Ready(src) PROVE IInv'
    BY ReserveReady
  <1>1. /\ stack[t] # <<>> /\ Top(t).op = "reserve"
        /\ Of(t) = Top(t).of /\ Of(t) \in States /\ Of(t) \in Promises
        /\ Top(t) \in FrameSet /\ src \in States /\ made[src]
    BY RunningTop, TopKnows, TopTypes DEF Reserve
  <1>2. /\ UNCHANGED <<resultVars, single, chain, startVars, fnVars, prog,
                       dead, history>>
        /\ mtx' = [mtx EXCEPT ![src] = None]
        /\ deps' = [deps EXCEPT ![src] = Append(@, None)]
        /\ Goto(t, Frame("present", Of(t), <<src, Len(deps[src]) + 1>>))
    BY DEF Reserve
  <1>3. deps[src] \in Seq(Dep) /\ None \in Dep
    BY <1>1 DEF IInv, Data, Dep
  <1> HIDE DEF src
  <1> PICK w, place : w = Append(deps[src], None) /\ place = Len(deps[src]) + 1
    OBVIOUS
  <1>4. /\ w \in Seq(Dep)
        /\ \A i \in DOMAIN deps[src] : i \in DOMAIN w /\ w[i] = deps[src][i]
        /\ \A x : /\ Occurs(deps[src], x) \in Nat
                  /\ Occurs(w, x) = Occurs(deps[src], x) + One(None = x)
        /\ place \in Nat /\ place \in DOMAIN w /\ w[place] = None
    BY <1>3, AppendedDep
  <1>5. deps' = [deps EXCEPT ![src] = w]
    BY <1>2
  <1>0. \A i \in DOMAIN deps[src] : deps[src][i] \notin Fns =>
           i \in DOMAIN w /\ w[i] \notin Fns
    BY <1>4
  <1>6. /\ Data' /\ Starts' /\ Forward /\ RunsSound /\ ListsFixed
        /\ lck' = lck /\ storage' = storage /\ prog' = prog
        /\ deps'[src] = w
        /\ \A p \in States : Ready(p)' <=> Ready(p)
        /\ (\A x \in Fns : /\ Total("tell", x) \in Nat
                           /\ Total("tell", x)' \in Nat
                           /\ Total("tell", x)' + Occurs(w, x) =
                                 Total("tell", x) + Occurs(deps[src], x))
           => NeedCounted'
    BY <1>0, <1>1, <1>2, <1>4, <1>5, DepsStep
  <1>7. PICK f : Made(f, "present", Of(t), <<src, place>>) /\ Goto(t, f)
    BY <1>1, <1>2, <1>4, MadeFrame, OpNames, OneTuples, WordsAreVals
  <1>8. Fits(f)
    <2>1. /\ f \in FrameSet /\ f.op \in PlaceOps /\ f.of \in Promises
          /\ f.v[1] = src /\ f.v[2] = place
      BY <1>1, <1>4, <1>7, OneTuples, WordsAreVals DEF Made, PlaceOps
    <2>2. /\ made'[src] /\ place \in DOMAIN deps'[src]
          /\ deps'[src][place] \notin Fns
      BY <1>1, <1>2, <1>4, <1>6, Kindly DEF fnVars
    <2> QED BY <1>1, <1>4, <2>1, <2>2, ConvertFits
  <1>9. Alike(f, Top(t))
    BY <1>1, <1>7, AlikeFrames DEF Made, PromiseOps, SourceOps
  <1>10. /\ Frames' /\ ResultLocked' /\ ListsTaken' /\ ArgumentsReady'
         /\ \A k, x : /\ Total(k, x) \in Nat
                      /\ Load(k, x, Top(t)) =< Total(k, x)
                      /\ Load(k, x, Top(t)) \in Nat
                      /\ Total(k, x)' = (Total(k, x) - Load(k, x, Top(t)))
                                           + Load(k, x, f)
    BY <1>1, <1>2, <1>6, <1>7, <1>8, PlainGoto DEF Made, Storing
  <1>11. \A k : AddsNone(k)
    BY <1>9, <1>10 DEF AddsNone, Adds, Alike
  <1>12. PromisesCounted' /\ MadeOnce' /\ CalledOnce' /\ RunOnce'
    BY <1>2, <1>11, Kept DEF fnVars, history
  <1>13. NeedCounted'
    <2>1. \A x \in Fns : Total("tell", x)' = Total("tell", x)
      BY <1>11, NoneAdded
    <2>2. \A x \in Fns : Occurs(w, x) = Occurs(deps[src], x)
      BY <1>4, Kindly DEF One
    <2> QED BY <1>6, <1>10, <2>1, <2>2
  <1> QED BY <1>6, <1>10, <1>12, <1>13 DEF IInv

LEMMA CommitStep ==
    ASSUME IInv, NEW t \in Threads, Commit(t)
    PROVE  IInv'
  <1> DEFINE src == V(t)[1]
  <1> DEFINE place == V(t)[2]
  <1> SUFFICES ASSUME ~Ready(src) PROVE IInv'
    BY CommitReady
  <1>1. /\ stack[t] # <<>> /\ Top(t).op = "fill"
        /\ Of(t) = Top(t).of /\ Of(t) \in States /\ Of(t) \in Promises
        /\ Top(t) \in FrameSet /\ src \in States /\ made[src]
        /\ place \in DOMAIN deps[src] /\ deps[src][place] \notin Fns
    BY RunningTop, TopKnows, TopTypes DEF Commit, Ready
  <1>2. /\ UNCHANGED <<resultVars, single, chain, startVars, fnVars, prog,
                       dead, history>>
        /\ mtx' = [mtx EXCEPT ![src] = None]
        /\ deps' = [deps EXCEPT ![src][place] = Of(t)]
        /\ Goto(t, Frame("started", Of(t), <<src>>))
    BY DEF Commit
  <1>3. deps[src] \in Seq(Dep) /\ Of(t) \in Dep
    BY <1>1 DEF IInv, Data, Dep
  <1> HIDE DEF src, place
  <1> PICK w : w = [deps[src] EXCEPT ![place] = Of(t)]
    OBVIOUS
  <1>4. /\ w \in Seq(Dep)
        /\ DOMAIN w = DOMAIN deps[src]
        /\ \A i \in DOMAIN deps[src] :
              w[i] = IF i = place THEN Of(t) ELSE deps[src][i]
        /\ \A x \in Fns : Occurs(w, x) = Occurs(deps[src], x)
    BY <1>1, <1>3, ReplacedDep, Kindly
  <1>5. deps' = [deps EXCEPT ![src] = w]
    BY <1>2
  <1>6. \A i \in DOMAIN deps[src] : deps[src][i] \notin Fns =>
           i \in DOMAIN w /\ w[i] \notin Fns
    BY <1>1, <1>4, Kindly
  <1>7. /\ Data' /\ Starts' /\ Forward /\ RunsSound /\ ListsFixed
        /\ lck' = lck /\ storage' = storage /\ prog' = prog
        /\ \A p \in States : Ready(p)' <=> Ready(p)
        /\ (\A x \in Fns : /\ Total("tell", x) \in Nat
                           /\ Total("tell", x)' \in Nat
                           /\ Total("tell", x)' + Occurs(w, x) =
                                 Total("tell", x) + Occurs(deps[src], x))
           => NeedCounted'
    BY <1>1, <1>2, <1>4, <1>5, <1>6, DepsStep
  <1>8. PICK f : Made(f, "started", Of(t), <<src>>) /\ Goto(t, f)
    BY <1>1, <1>2, MadeFrame, OpNames, OneTuples, WordsAreVals
  <1>9. Fits(f)
    BY <1>1, <1>2, <1>8, ConvertFits, OneTuples, WordsAreVals DEF Made, fnVars
  <1>10. Alike(f, Top(t))
    BY <1>1, <1>8, AlikeFrames DEF Made, PromiseOps, SourceOps
  <1>11. /\ Frames' /\ ResultLocked' /\ ListsTaken' /\ ArgumentsReady'
         /\ \A k, x : /\ Total(k, x) \in Nat
                      /\ Load(k, x, Top(t)) =< Total(k, x)
                      /\ Load(k, x, Top(t)) \in Nat
                      /\ Total(k, x)' = (Total(k, x) - Load(k, x, Top(t)))
                                           + Load(k, x, f)
    BY <1>1, <1>2, <1>7, <1>8, <1>9, PlainGoto DEF Made, Storing
  <1>12. \A k : AddsNone(k)
    BY <1>10, <1>11 DEF AddsNone, Adds, Alike
  <1>13. PromisesCounted' /\ MadeOnce' /\ CalledOnce' /\ RunOnce'
    BY <1>2, <1>12, Kept DEF fnVars, history
  <1>14. NeedCounted'
    <2>1. \A x \in Fns : Total("tell", x)' = Total("tell", x)
      BY <1>12, NoneAdded
    <2> QED BY <1>4, <1>7, <1>11, <2>1
  <1> QED BY <1>7, <1>11, <1>13, <1>14 DEF IInv

-----------------------------------------------------------------------------
(* Conversions, and callbacks that are installed.                          *)

LEMMA MarkConvertStep ==
    ASSUME IInv, NEW t \in Threads, MarkConvert(t)
    PROVE  IInv'
  <1> DEFINE o == Of(t)
  <1>1. /\ stack[t] # <<>> /\ Top(t).op = "present"
        /\ o = Top(t).of /\ o \in States /\ o \in Promises
        /\ Top(t) \in FrameSet /\ V(t) = Top(t).v /\ V(t) \in Seq(Vals)
        /\ V(t)[1] \in States /\ made[V(t)[1]] /\ V(t)[2] \in Nat
        /\ state[V(t)[1]] \notin ReadyStates =>
              /\ V(t)[2] \in DOMAIN deps[V(t)[1]]
              /\ deps[V(t)[1]][V(t)[2]] \notin Fns
    BY RunningTop, TopKnows, TopTypes DEF MarkConvert
  <1>2. /\ UNCHANGED <<storage, lck, readyVars, startVars, fnVars, prog,
                       history>>
        /\ state' = [state EXCEPT ![o] =
                        IF @ = "uninitialized" THEN "convert" ELSE @]
        /\ Goto(t, Frame("exchange", o, V(t)))
        /\ dead' \in {"no", "assert"}
    BY DEF MarkConvert, Assertion
  <1> HIDE DEF o
  <1>3. /\ Data'
        /\ \A p \in States : \/ state'[p] = state[p]
                             \/ state[p] = "uninitialized"
                                /\ state'[p] = "convert"
    BY <1>1, <1>2
       DEF readyVars, startVars, fnVars, history, IInv, Data, Uninitialized
  <1>4. /\ \A p \in States : Ready(p)' <=> Ready(p)
        /\ \A p \in States : state'[p] = "deferred" <=> state[p] = "deferred"
    BY <1>3 DEF Ready, ReadyStates
  <1>5. Plain /\ Forward
    BY <1>2, <1>4
       DEF Plain, Forward, readyVars, startVars, fnVars, history
  <1>6. PICK f : Made(f, "exchange", o, V(t)) /\ Goto(t, f)
    BY <1>1, <1>2, MadeFrame, OpNames
  <1>7. Fits(f)
    <2>1. state'[V(t)[1]] \notin ReadyStates
             => state[V(t)[1]] \notin ReadyStates
      BY <1>1, <1>4 DEF Ready
    <2> QED BY <1>1, <1>2, <1>6, <2>1, ConvertFits
            DEF Made, PlaceOps, fnVars, readyVars
  <1>8. Alike(f, Top(t))
    BY <1>1, <1>6, AlikeFrames DEF Made, PromiseOps, SourceOps
  <1>9. /\ Frames' /\ ResultLocked' /\ ListsTaken' /\ ArgumentsReady'
        /\ \A k, x : /\ Total(k, x) \in Nat
                     /\ Load(k, x, Top(t)) =< Total(k, x)
                     /\ Load(k, x, Top(t)) \in Nat
                     /\ Total(k, x)' = (Total(k, x) - Load(k, x, Top(t)))
                                          + Load(k, x, f)
    BY <1>1, <1>5, <1>6, <1>7, PlainGoto, PlainFixes DEF Made, Storing
  <1>10. \A k : AddsNone(k)
    BY <1>8, <1>9 DEF AddsNone, Adds, Alike
  <1>11. PromisesCounted' /\ MadeOnce' /\ CalledOnce' /\ RunOnce'
         /\ NeedCounted'
    BY <1>2, <1>4, <1>10, Kept DEF fnVars, history, readyVars
  <1>12. Starts'
    BY <1>2, <1>4, StartsKept DEF IInv, startVars, fnVars
  <1> QED BY <1>3, <1>9, <1>11, <1>12 DEF IInv

LEMMA SetConvertStep ==
    ASSUME IInv, NEW t \in Threads, SetConvert(t)
    PROVE  IInv'
  <1> DEFINE o == Of(t)
  <1>1. /\ stack[t] # <<>> /\ Top(t).op = "exchange"
        /\ o = Top(t).of /\ o \in States /\ o \in Promises
        /\ Top(t) \in FrameSet /\ V(t) = Top(t).v /\ V(t) \in Seq(Vals)
        /\ V(t)[1] \in States /\ made[V(t)[1]] /\ V(t)[2] \in Nat
        /\ state[V(t)[1]] \notin ReadyStates =>
              /\ V(t)[2] \in DOMAIN deps[V(t)[1]]
              /\ deps[V(t)[1]][V(t)[2]] \notin Fns
    BY RunningTop, TopKnows, TopTypes DEF SetConvert
  <1>2. /\ UNCHANGED <<resultVars, readyVars, called, async, gone, fnVars,
                       prog, history>>
        /\ conv' = [conv EXCEPT ![o] = V(t)[1]]
        /\ Goto(t, Frame("commit", o, V(t)))
        /\ dead' \in {"no", "assert"}
    BY DEF SetConvert, Assertion
  <1> HIDE DEF o
  <1>3. /\ Data' /\ conv'[o] = V(t)[1]
        /\ \A p \in States : p # o => conv'[p] = conv[p]
    BY <1>1, <1>2
       DEF resultVars, readyVars, fnVars, history, IInv, Data
  <1>4. Plain /\ Forward
    BY <1>2 DEF Plain, Forward, resultVars, readyVars, fnVars, history, Ready
  <1>5. PICK f : Made(f, "commit", o, V(t)) /\ Goto(t, f)
    BY <1>1, <1>2, MadeFrame, OpNames
  <1>6. Fits(f)
    BY <1>1, <1>2, <1>5, ConvertFits
       DEF Made, PlaceOps, fnVars, readyVars, resultVars
  <1>7. Alike(f, Top(t))
    BY <1>1, <1>5, AlikeFrames DEF Made, PromiseOps, SourceOps
  <1>8. /\ Frames' /\ ResultLocked' /\ ListsTaken' /\ ArgumentsReady'
        /\ \A k, x : /\ Total(k, x) \in Nat
                     /\ Load(k, x, Top(t)) =< Total(k, x)
                     /\ Load(k, x, Top(t)) \in Nat
                     /\ Total(k, x)' = (Total(k, x) - Load(k, x, Top(t)))
                                          + Load(k, x, f)
    BY <1>1, <1>4, <1>5, <1>6, PlainGoto, PlainFixes DEF Made, Storing
  <1>9. \A k : AddsNone(k)
    BY <1>7, <1>8 DEF AddsNone, Adds, Alike
  <1>10. PromisesCounted' /\ MadeOnce' /\ CalledOnce' /\ RunOnce'
         /\ NeedCounted'
    BY <1>2, <1>9, Kept DEF fnVars, history, readyVars, resultVars
  <1>11. Starts'
    BY <1>1, <1>2, <1>3 DEF Starts, IInv, resultVars, fnVars
  <1> QED BY <1>3, <1>8, <1>10, <1>11 DEF IInv

LEMMA InstallStep ==
    ASSUME IInv, NEW t \in Threads, Install(t)
    PROVE  IInv'
  <1> DEFINE o == Of(t)
  <1>1. /\ stack[t] # <<>> /\ Top(t).op = "clear"
        /\ o = Top(t).of /\ o \in States /\ o \in Promises
        /\ Top(t) \in FrameSet /\ V(t)[1] \in {"value", "exc", "broken"}
    BY RunningTop, TopTypes DEF Install
  <1>2. /\ UNCHANGED <<storage, lck, readyVars, startVars, fnVars, prog, dead,
                       history>>
        /\ state' = [state EXCEPT ![o] =
                        IF @ = "convert" THEN "uninitialized" ELSE @]
        /\ \E fails \in {"noexcept", "caught"} :
              Call(t, Frame("set", o, <<V(t)[1], fails>>),
                      Frame("gone", o, <<>>))
    BY DEF Install
  <1> HIDE DEF o
  <1>3. /\ Data'
        /\ \A p \in States : \/ state'[p] = state[p]
                             \/ state[p] = "convert"
                                /\ state'[p] = "uninitialized"
    BY <1>1, <1>2
       DEF readyVars, startVars, fnVars, history, IInv, Data, Uninitialized
  <1>4. /\ \A p \in States : Ready(p)' <=> Ready(p)
        /\ \A p \in States : state'[p] = "deferred" <=> state[p] = "deferred"
    BY <1>3 DEF Ready, ReadyStates
  <1>5. Plain /\ Forward
    BY <1>2, <1>4
       DEF Plain, Forward, readyVars, startVars, fnVars, history
  <1>6. PICK f, g, fails : /\ fails \in {"noexcept", "caught"}
                           /\ Made(f, "set", o, <<V(t)[1], fails>>)
                           /\ Made(g, "gone", o, <<>>) /\ Call(t, f, g)
    BY <1>1, <1>2, MadeFrame, MadeEmpty, OpNames, OneTuples, WordsAreVals
  <1>7. Fits(f) /\ Fits(g)
    BY <1>1, <1>6, ResultFits, ConvertFits, OneTuples, WordsAreVals DEF Made
  <1>8. Light(f) /\ Light(g) /\ Light(Top(t))
    BY <1>1, <1>6, LightLoad DEF Made, LightOps
  <1>9. /\ Frames' /\ ResultLocked' /\ ListsTaken' /\ ArgumentsReady'
        /\ \A k, x : /\ Total(k, x) \in Nat
                     /\ Total(k, x)' = (Total(k, x) - Load(k, x, Top(t)))
                                          + (Load(k, x, f) + Load(k, x, g))
    <2>1. /\ f \in FrameSet /\ f.op = "set" /\ g \in FrameSet /\ g.op = "gone"
          /\ Call(t, f, g)
      BY <1>6 DEF Made
    <2> QED BY <1>1, <1>5, <1>7, <2>1, PlainCall, PlainFixes DEF Storing
  <1>10. \A k : AddsNone(k)
    BY <1>8, <1>9 DEF AddsNone, Adds, Light
  <1>11. PromisesCounted' /\ MadeOnce' /\ CalledOnce' /\ RunOnce'
         /\ NeedCounted'
    BY <1>2, <1>4, <1>10, Kept DEF fnVars, history, readyVars
  <1>12. Starts'
    BY <1>2, <1>4, StartsKept DEF IInv, startVars, fnVars
  <1> QED BY <1>3, <1>9, <1>11, <1>12 DEF IInv

LEMMA Prepended ==
    \A s \in Seq(Callbacks), c \in Callbacks :
       /\ <<c>> \o s \in Seq(Callbacks)
       /\ \A i \in DOMAIN (<<c>> \o s) :
             \/ (<<c>> \o s)[i] = c
             \/ \E k \in DOMAIN s : (<<c>> \o s)[i] = s[k]
       /\ \A x : /\ Occurs(s, x) \in Nat
                 /\ Occurs(<<c>> \o s, x) = One(c = x) + Occurs(s, x)
  <1> SUFFICES ASSUME NEW s \in Seq(Callbacks), NEW c \in Callbacks
               PROVE
       /\ <<c>> \o s \in Seq(Callbacks)
       /\ \A i \in DOMAIN (<<c>> \o s) :
             \/ (<<c>> \o s)[i] = c
             \/ \E k \in DOMAIN s : (<<c>> \o s)[i] = s[k]
       /\ \A x : /\ Occurs(s, x) \in Nat
                 /\ Occurs(<<c>> \o s, x) = One(c = x) + Occurs(s, x)
    OBVIOUS
  <1> DEFINE a == <<c>>
  <1>1. a \in Seq(Callbacks) /\ Len(a) = 1 /\ a[1] = c
    OBVIOUS
  <1>2. \A x : Occurs(a, x) = One(c = x)
    BY OccursOne
  <1> HIDE DEF a
  <1>3. /\ a \o s \in Seq(Callbacks)
        /\ DOMAIN s = 1 .. Len(s) /\ Len(s) \in Nat
        /\ DOMAIN (a \o s) = 1 .. 1 + Len(s)
        /\ \A i \in 1 .. 1 + Len(s) :
              (a \o s)[i] = IF i =< 1 THEN a[i] ELSE s[i - 1]
    <2>1. /\ a \o s \in Seq(Callbacks)
          /\ DOMAIN s = 1 .. Len(s) /\ Len(s) \in Nat
          /\ DOMAIN (a \o s) = 1 .. Len(a) + Len(s)
          /\ \A i \in 1 .. Len(a) + Len(s) :
                (a \o s)[i] = IF i =< Len(a) THEN a[i] ELSE s[i - Len(a)]
      <3> DEFINE T == Callbacks
      <3>1. a \in Seq(T) /\ s \in Seq(T)
        BY <1>1
      <3> HIDE DEF T
      <3>2. /\ a \o s \in Seq(T)
            /\ DOMAIN s = 1 .. Len(s) /\ Len(s) \in Nat
            /\ DOMAIN (a \o s) = 1 .. Len(a) + Len(s)
            /\ \A i \in 1 .. Len(a) + Len(s) :
                  (a \o s)[i] = IF i =< Len(a) THEN a[i] ELSE s[i - Len(a)]
        BY <3>1, Concat
      <3> QED BY <3>2 DEF T
    <2> QED BY <1>1, <2>1
  <1>4. \A i \in DOMAIN (a \o s) :
           (a \o s)[i] = c \/ \E k \in DOMAIN s : (a \o s)[i] = s[k]
    <2> SUFFICES ASSUME NEW i \in DOMAIN (a \o s)
                 PROVE  \/ (a \o s)[i] = c
                        \/ \E k \in DOMAIN s : (a \o s)[i] = s[k]
      OBVIOUS
    <2>1. CASE i = 1
      BY <1>1, <1>3, <2>1
    <2>2. CASE i # 1
      <3>1. i - 1 \in DOMAIN s /\ (a \o s)[i] = s[i - 1]
        BY <1>3, <2>2
      <3> QED BY <3>1
    <2> QED BY <2>1, <2>2
  <1>5. \A x : Occurs(a \o s, x) = Occurs(a, x) + Occurs(s, x)
    BY <1>1, OccursConcat
  <1>6. \A x : Occurs(s, x) \in Nat
    BY OccursNat
  <1> QED BY <1>2, <1>3, <1>4, <1>5, <1>6 DEF a

\* A callback in the lists is called by who takes them, once.
LEMMA ListedOnce ==
    ASSUME IInv, NEW c \in Callbacks, calls' = calls,
           \/ /\ chain' = [chain EXCEPT ![On[c]] = <<c>> \o @]
              /\ single' = single
           \/ /\ single' = [single EXCEPT ![On[c]] = c]
              /\ chain' = chain,
           \A d \in Callbacks :
              /\ One(c = d) =< Total("call", d)
              /\ Total("call", d)' = Total("call", d) - One(c = d)
    PROVE  CalledOnce'
  <1> SUFFICES ASSUME NEW d \in Callbacks
               PROVE  calls'[d] + Total("call", d)' + One(single'[On[d]] = d)
                      + Occurs(chain'[On[d]], d) =< 1
    BY DEF CalledOnce
  <1>1. /\ calls[d] + Total("call", d) + One(single[On[d]] = d)
             + Occurs(chain[On[d]], d) =< 1
        /\ calls[d] \in Nat /\ Total("call", d) \in Nat
        /\ One(c = d) \in Nat
        /\ One(single[On[d]] = d) \in Nat /\ One(single'[On[d]] = d) \in Nat
        /\ Total("call", d)' = Total("call", d) - One(c = d)
    BY TotalsAre DEF IInv, CalledOnce, Data, One
  <1>2. On[c] \in States /\ On[d] \in States
    BY CallbacksAssumption
  <1>3. /\ chain \in [States -> Seq(Callbacks)]
        /\ single \in [States -> Callbacks \cup {None}]
    BY DEF IInv, Data
  <1>4. Occurs(chain[On[d]], d) \in Nat
    BY <1>2, <1>3, OccursNat
  <1>5. /\ Occurs(chain'[On[d]], d) \in Nat
        /\ One(single'[On[d]] = d) + Occurs(chain'[On[d]], d) =<
              One(c = d) + (One(single[On[d]] = d) + Occurs(chain[On[d]], d))
    <2>1. CASE /\ chain' = [chain EXCEPT ![On[c]] = <<c>> \o @]
               /\ single' = single
      <3>1. CASE On[d] = On[c]
        <4>1. chain'[On[d]] = <<c>> \o chain[On[d]]
          BY <1>2, <1>3, <2>1, <3>1
        <4>2. Occurs(chain'[On[d]], d) = One(c = d) + Occurs(chain[On[d]], d)
          BY <1>2, <1>3, <4>1, Prepended
        <4>3. single'[On[d]] = single[On[d]]
          BY <2>1
        <4> HIDE <1>3, <2>1
        <4> QED BY <1>1, <1>4, <4>2, <4>3
      <3>2. CASE On[d] # On[c]
        <4>1. chain'[On[d]] = chain[On[d]] /\ single'[On[d]] = single[On[d]]
          BY <1>2, <1>3, <2>1, <3>2
        <4> QED BY <1>1, <1>4, <4>1
      <3> QED BY <3>1, <3>2
    <2>2. CASE /\ single' = [single EXCEPT ![On[c]] = c]
               /\ chain' = chain
      <3>1. One(single'[On[d]] = d) =< One(c = d) + One(single[On[d]] = d)
        BY <1>2, <1>3, <2>2 DEF One
      <3>2. chain'[On[d]] = chain[On[d]]
        BY <2>2
      <3> QED BY <1>1, <1>4, <3>1, <3>2
    <2> QED BY <2>1, <2>2
  <1>6. calls'[d] = calls[d]
    OBVIOUS
  <1> QED BY <1>1, <1>4, <1>5, <1>6

LEMMA InstallCallbackStep ==
    ASSUME IInv, NEW t \in Threads, InstallCallback(t)
    PROVE  IInv'
  <1> DEFINE o == Of(t)
  <1> DEFINE c == V(t)[1]
  <1>1. /\ stack[t] # <<>> /\ Top(t).op = "installed"
        /\ o = Top(t).of /\ o \in States /\ Top(t) \in FrameSet
        /\ V(t) = Top(t).v /\ c \in Callbacks /\ On[c] = o /\ made[o]
        /\ ~Ready(o)
    BY RunningTop, TopKnows, TopTypes DEF InstallCallback
  <1>2. /\ UNCHANGED <<resultVars, deps, startVars, fnVars, prog, history>>
        /\ mtx' = [mtx EXCEPT ![o] = None]
        /\ \/ chain' = [chain EXCEPT ![o] = <<c>> \o @] /\ single' = single
           \/ single' = [single EXCEPT ![o] = c] /\ chain' = chain
        /\ dead' \in {dead, "no", "assert"}
        /\ stack' = [stack EXCEPT ![t] = AfterInstall(o, V(t)[2]) \o Tail(@)]
    BY DEF InstallCallback, Assertion
  <1>3. \A k, x : Counted(k, x) =>
           Load(k, x, Top(t)) = One(k = "call" /\ c = x)
    BY <1>1, HeavyLoads
  <1> HIDE DEF o, c
  <1>4. /\ single' \in [States -> Callbacks \cup {None}]
        /\ \A p \in States : single'[p] # None => On[single'[p]] = p
        /\ chain' \in [States -> Seq(Callbacks)]
        /\ \A p \in States : p # o => chain'[p] = chain[p]
        /\ \A p \in States : p # o => single'[p] = single[p]
        /\ \A i \in DOMAIN chain'[o] : On[chain'[o][i]] = o
    <2>1. /\ single \in [States -> Callbacks \cup {None}]
          /\ \A p \in States : single[p] # None => On[single[p]] = p
          /\ chain \in [States -> Seq(Callbacks)]
          /\ \A i \in DOMAIN chain[o] : On[chain[o][i]] = o
      BY <1>1 DEF IInv, Data
    <2>2. CASE single' = [single EXCEPT ![o] = c] /\ chain' = chain
      BY <1>1, <2>1, <2>2
    <2>3. CASE chain' = [chain EXCEPT ![o] = <<c>> \o @] /\ single' = single
      <3>1. /\ <<c>> \o chain[o] \in Seq(Callbacks)
            /\ \A i \in DOMAIN (<<c>> \o chain[o]) :
                  \/ (<<c>> \o chain[o])[i] = c
                  \/ \E k \in DOMAIN chain[o] :
                        (<<c>> \o chain[o])[i] = chain[o][k]
        BY <1>1, <2>1, Prepended
      <3>2. /\ chain'[o] = <<c>> \o chain[o]
            /\ chain' \in [States -> Seq(Callbacks)]
            /\ \A p \in States : p # o => chain'[p] = chain[p]
        BY <1>1, <2>1, <2>3, <3>1
      <3>3. \A i \in DOMAIN chain'[o] : On[chain'[o][i]] = o
        BY <1>1, <2>1, <3>1, <3>2
      <3> QED BY <2>1, <2>3, <3>2, <3>3
    <2> QED BY <1>2, <2>2, <2>3
  <1>5. Data'
    <2>1. \A p \in States : \A i \in DOMAIN chain'[p] : On[chain'[p][i]] = p
      BY <1>4 DEF IInv, Data
    <2>2. /\ mtx' \in [States -> Threads \cup {None}]
          /\ dead' \in {"no", "assert", "terminate", "nullptr", "chain"}
      BY <1>1, <1>2 DEF IInv, Data
    <2>3. UNCHANGED <<state, storage, lck, deps, called, async, conv, gone,
                      promises, need, self, posted, made, runs, calls>>
      BY <1>2 DEF resultVars, startVars, fnVars, history
    <2>4. Data
      BY DEF IInv
    <2> QED BY <1>4, <2>1, <2>2, <2>3, <2>4 DEF Data
  <1>6. /\ Forward /\ RunsSound /\ ListsFixed
        /\ lck' = lck /\ storage' = storage /\ prog' = prog
        /\ \A p \in States : Ready(p)' <=> Ready(p)
    <2>1. \A p \in States : Ready(p)' <=> Ready(p)
      BY <1>2 DEF Ready, resultVars
    <2>2. Forward /\ RunsSound
      BY <1>2, <2>1 DEF Forward, RunsSound, resultVars, startVars, fnVars,
                        history
    <2>3. ListsFixed
      BY <1>1, <1>2, <1>4, <2>1 DEF ListsFixed
    <2> QED BY <1>2, <2>1, <2>2, <2>3 DEF resultVars
  <1>7. /\ Frames' /\ ResultLocked' /\ ListsTaken' /\ ArgumentsReady'
        /\ \A k, x : Counted(k, x) =>
              /\ Total(k, x) \in Nat /\ Load(k, x, Top(t)) =< Total(k, x)
              /\ Load(k, x, Top(t)) \in Nat
              /\ Total(k, x)' = Total(k, x) - Load(k, x, Top(t))
    <2>1. CASE V(t)[2] = "start"
      <3>1. Goto(t, Frame("start", o, <<"sync">>))
        BY <1>2, <2>1 DEF AfterInstall, Goto
      <3>2. PICK f : Made(f, "start", o, <<"sync">>) /\ Goto(t, f)
        BY <1>1, <3>1, MadeFrame, OpNames, OneTuples, WordsAreVals
      <3>3. Fits(f)
        BY <1>1, <1>2, <3>2, StartFits DEF Made, fnVars
      <3>4. Light(f)
        BY <3>2, LightLoad DEF Made, LightOps
      <3>5. /\ Frames' /\ ResultLocked' /\ ListsTaken' /\ ArgumentsReady'
            /\ \A k, x : /\ Total(k, x) \in Nat
                         /\ Load(k, x, Top(t)) =< Total(k, x)
                         /\ Load(k, x, Top(t)) \in Nat
                         /\ Total(k, x)' =
                               (Total(k, x) - Load(k, x, Top(t)))
                                  + Load(k, x, f)
        BY <1>1, <1>6, <3>2, <3>3, PlainGoto DEF Made, Storing
      <3> QED BY <3>4, <3>5 DEF Light
    <2>2. CASE V(t)[2] # "start"
      <3>1. Tail(stack[t]) \in Seq(FrameSet)
        BY <1>1, TopTyped DEF IInv
      <3>2. <<>> \o Tail(stack[t]) = Tail(stack[t])
        BY <3>1, ConcatEmptySeq
      <3>3. Return(t)
        BY <1>2, <2>2, <3>2 DEF AfterInstall, Return
      <3> QED BY <1>1, <1>6, <3>3, PlainReturn DEF Storing
    <2> QED BY <2>1, <2>2
  <1>8. \A k : k # "call" => AddsNone(k)
    BY <1>3, <1>7 DEF AddsNone, Adds, One
  <1>9. PromisesCounted' /\ MadeOnce' /\ NeedCounted' /\ RunOnce'
    BY <1>2, <1>8, Kept DEF resultVars, fnVars, history
  <1>10. Starts'
    BY <1>2, StartsKept DEF IInv, startVars, fnVars, resultVars
  <1>11. \A d \in Callbacks :
            /\ One(c = d) =< Total("call", d)
            /\ Total("call", d)' = Total("call", d) - One(c = d)
    BY <1>3, <1>7, KindsCounted
  <1>12. CalledOnce'
    <2>1. /\ calls' = calls
          /\ \/ /\ chain' = [chain EXCEPT ![On[c]] = <<c>> \o @]
                /\ single' = single
             \/ /\ single' = [single EXCEPT ![On[c]] = c]
                /\ chain' = chain
      BY <1>1, <1>2 DEF history
    <2>2. c \in Callbacks
      BY <1>1
    <2> QED BY <1>11, <2>1, <2>2, ListedOnce
  <1> QED BY <1>5, <1>7, <1>9, <1>10, <1>12 DEF IInv

-----------------------------------------------------------------------------
(* Threads that have nothing to do make the next call, or run a job.       *)

\* A thread that was idle begins with the frame f.
Begins(t, f) ==
    /\ stack[t] = <<>> /\ stack' = [stack EXCEPT ![t] = <<f>>]
    /\ f \in FrameSet /\ Fits(f) /\ f.op \notin Storing /\ f.op # "run"
    /\ prog' \in [Threads -> Seq(Calls)]
    /\ UNCHANGED <<resultVars, readyVars, runs>>

LEMMA IdleBegins ==
    ASSUME IInv, NEW t \in Threads, NEW f, Begins(t, f), Forward
    PROVE  /\ Frames' /\ ResultLocked' /\ ListsTaken' /\ ArgumentsReady'
           /\ stack'[t] = <<f>>
           /\ \A u \in Threads : u # t => stack'[u] = stack[u]
           /\ stack' \in [Threads -> Seq(FrameSet)]
  <1> DEFINE T == {g \in FrameSet : Typed(g)}
  <1>1. /\ stack \in [Threads -> Seq(T)]
        /\ \A u \in Threads : \A i \in DOMAIN stack[u] :
              /\ stack[u][i] \in FrameSet /\ Typed(stack[u][i])
              /\ Known(stack[u][i])
    BY StacksAndPrograms DEF IInv, Frames
  <1>2. /\ stack'[t] = <<f>> /\ DOMAIN stack' = Threads
        /\ \A u \in Threads : u # t => stack'[u] = stack[u]
    BY <1>1 DEF Begins
  <1>3. <<f>> \in Seq(T) /\ DOMAIN <<f>> = {1} /\ <<f>>[1] = f
    <2>1. f \in T
      BY DEF Begins, Fits
    <2> QED BY <2>1
  <1>4. stack' \in [Threads -> Seq(T)]
    <2> HIDE DEF T
    <2>1. stack' = [stack EXCEPT ![t] = <<f>>]
      BY DEF Begins
    <2> QED BY <1>1, <1>3, <2>1
  <1>5. ASSUME NEW u \in Threads, NEW i \in DOMAIN stack'[u]
        PROVE  Known(stack[u][i])'
    <2>1. CASE u = t
      BY <1>2, <1>3, <2>1 DEF Begins, Fits
    <2>2. CASE u # t
      BY <1>1, <1>2, <2>2, KnownStays
    <2> QED BY <2>1, <2>2
  <1>6. Frames'
    BY <1>4, <1>5 DEF Frames, Begins
  <1>7. ResultLocked'
    <2>1. ASSUME NEW u \in Threads, NEW i \in DOMAIN stack'[u],
                 stack'[u][i].op \in Storing
          PROVE  u # t
      BY <1>2, <1>3, <2>1 DEF Begins
    <2>2. ASSUME NEW u \in Threads, NEW i \in DOMAIN stack'[u],
                 stack'[u][i].op \in Storing
          PROVE  /\ i = 1 /\ lck'[stack'[u][i].of] = u
                 /\ stack'[u][i].op = "publish" =>
                       storage'[stack'[u][i].of] = stack'[u][i].v[1]
      BY <1>2, <2>1, <2>2
         DEF ResultLocked, Storing, Begins, resultVars, IInv
    <2>3. \A o \in States : Ready(o)' => lck'[o] = None /\ storage'[o] # "none"
      BY DEF ResultLocked, IInv, Begins, resultVars, Ready
    <2> QED BY <2>2, <2>3 DEF ResultLocked, Storing
  <1>8. ListsTaken'
    <2> SUFFICES ASSUME NEW o \in States, Ready(o)',
                        \/ single'[o] # None \/ chain'[o] # <<>>
                        \/ deps'[o] # <<>>
                 PROVE  \E u \in Threads :
                           /\ stack'[u] # <<>> /\ Top(u)'.of = o
                           /\ Top(u)'.op \in {"ready", "swap"}
      BY DEF ListsTaken
    <2>1. PICK u \in Threads : /\ stack[u] # <<>> /\ Top(u).of = o
                               /\ Top(u).op \in {"ready", "swap"}
      BY DEF ListsTaken, IInv, Begins, resultVars, readyVars, Ready
    <2>2. u # t
      BY <2>1 DEF Begins
    <2>3. stack'[u] = stack[u]
      BY <1>2, <2>2
    <2> QED BY <2>1, <2>3 DEF Top
  <1>9. ArgumentsReady'
    <2>1. \A o \in States : Ready(o) => Ready(o)'
      BY DEF Forward
    <2>2. ASSUME NEW u \in Threads, NEW i \in DOMAIN stack'[u]
          PROVE  Fed(stack[u], i)'
      <3>1. CASE u = t
        BY <1>2, <1>3, <3>1 DEF Fed, Begins
      <3>2. CASE u # t
        <4>1. Fed(stack[u], i)
          BY <1>2, <3>2 DEF IInv, ArgumentsReady
        <4>2. stack[u][i].op = "run" => stack[u][i].of \in Fns
          BY <1>1, <1>2, <3>2 DEF Typed, FnOps
        <4> QED BY <1>2, <2>1, <3>2, <4>1, <4>2, ArgsAreStates DEF Fed
      <3> QED BY <3>1, <3>2
    <2>3. \A o \in Fns : runs'[o] > 0 => \A a \in ArgsOf(o) : Ready(a)'
      BY <2>1, ArgsAreStates DEF IInv, ArgumentsReady, Begins
    <2> QED BY <2>2, <2>3 DEF ArgumentsReady
  <1>10. stack' \in [Threads -> Seq(FrameSet)]
    <2>1. T \subseteq FrameSet
      OBVIOUS
    <2> HIDE DEF T
    <2> QED BY <1>4, <2>1, SeqMonotonic
  <1> QED BY <1>2, <1>6, <1>7, <1>8, <1>9, <1>10

\* The totals, when what t has to do changes from one sequence to another.
LEMMA IdleTotals ==
    ASSUME IInv, NEW t \in Threads, NEW f, Begins(t, f), Forward,
           NEW n \in Seq(FrameSet), prog'[t] = n,
           \A u \in Threads : u # t => prog'[u] = prog[u]
    PROVE  \A k, x :
              /\ Total(k, x) \in Nat /\ Load(k, x, f) \in Nat
              /\ Weight(n, k, x) \in Nat /\ Weight(prog[t], k, x) \in Nat
              /\ Total(k, x)' \in Nat
              /\ Weight(prog[t], k, x) =< Total(k, x)
              /\ Total(k, x)' = (Total(k, x) - Weight(prog[t], k, x))
                                   + (Load(k, x, f) + Weight(n, k, x))
  <1> SUFFICES ASSUME NEW k, NEW x
               PROVE
              /\ Total(k, x) \in Nat /\ Load(k, x, f) \in Nat
              /\ Weight(n, k, x) \in Nat /\ Weight(prog[t], k, x) \in Nat
              /\ Total(k, x)' \in Nat
              /\ Weight(prog[t], k, x) =< Total(k, x)
              /\ Total(k, x)' = (Total(k, x) - Weight(prog[t], k, x))
                                   + (Load(k, x, f) + Weight(n, k, x))
    OBVIOUS
  <1>1. /\ stack'[t] = <<f>> /\ f \in FrameSet
        /\ \A u \in Threads : u # t => stack'[u] = stack[u]
        /\ stack' \in [Threads -> Seq(FrameSet)] /\ Frames' /\ stack[t] = <<>>
    BY IdleBegins DEF Begins
  <1>2. /\ prog \in [Threads -> Seq(FrameSet)]
        /\ Rest \in [Threads -> Seq(FrameSet)]
        /\ \A u \in Threads : Rest[u] = stack[u] \o prog[u]
    BY StacksAndPrograms DEF IInv
  <1>3. Rest' = [u \in Threads |-> stack'[u] \o prog'[u]]
    BY DEF Rest
  <1>4. /\ Rest[t] = prog[t] /\ Rest'[t] = <<f>> \o n
        /\ \A u \in Threads : u # t => Rest'[u] = Rest[u]
    <2>1. <<>> \o prog[t] = prog[t]
      BY <1>2, ConcatEmptySeq
    <2>2. Rest[t] = prog[t]
      BY <1>1, <1>2, <2>1
    <2> QED BY <1>1, <1>2, <1>3, <2>2
  <1> DEFINE one == <<f>>
  <1>5. one \in Seq(FrameSet) /\ Weight(one, k, x) = Load(k, x, f)
        /\ Load(k, x, f) \in Nat
    BY <1>1, Weights
  <1>6. Rest'[t] = one \o n
    BY <1>4
  <1> HIDE DEF one
  <1>7. /\ one \o n \in Seq(FrameSet)
        /\ Weight(one \o n, k, x) = Weight(one, k, x) + Weight(n, k, x)
        /\ Weight(n, k, x) \in Nat
    BY <1>5, ConcatProperties, WeightConcat, LoadsFinite
  <1>8. \A u \in Threads : Rest'[u] \in Seq(FrameSet)
    BY <1>2, <1>4, <1>6, <1>7
  <1>9. PICK new : new = Rest'
    OBVIOUS
  <1>10. /\ new \in [Threads -> Seq(FrameSet)]
         /\ \A u \in Threads : u # t => new[u] = Rest[u]
         /\ new[t] = one \o n
    <2>1. new = [u \in Threads |-> new[u]]
      BY <1>3, <1>9
    <2> QED BY <1>4, <1>6, <1>8, <1>9, <2>1
  <1>11. /\ Cardinality(AllLoads(Rest, k, x)) \in Nat
         /\ Cardinality(AllLoads(new, k, x)) \in Nat
         /\ Weight(Rest[t], k, x) =< Cardinality(AllLoads(Rest, k, x))
         /\ Cardinality(AllLoads(new, k, x)) =
               (Cardinality(AllLoads(Rest, k, x)) - Weight(Rest[t], k, x))
                  + Weight(new[t], k, x)
    BY <1>2, <1>10, OneRestChanges
  <1>12. /\ Total(k, x) = Cardinality(AllLoads(Rest, k, x))
         /\ Total(k, x)' = Cardinality(AllLoads(new, k, x))
    BY <1>9 DEF Total
  <1>13. Weight(prog[t], k, x) \in Nat
    BY <1>2, LoadsFinite
  <1>14. Weight(Rest[t], k, x) = Weight(prog[t], k, x)
    BY <1>4
  <1> QED BY <1>5, <1>7, <1>10, <1>11, <1>12, <1>13, <1>14

LEMMA NextCallStep ==
    ASSUME IInv, NEW t \in Threads, NextCall(t)
    PROVE  IInv'
  <1>1. /\ stack[t] = <<>> /\ prog[t] # <<>>
        /\ prog' = [prog EXCEPT ![t] = Tail(@)]
        /\ UNCHANGED <<resultVars, readyVars, startVars, fnVars, dead, history>>
    BY DEF NextCall
  <1>2. prog \in [Threads -> Seq(Calls)] /\ prog[t] \in Seq(Calls)
    BY DEF IInv, Frames
  <1>3. PICK f : f = Head(prog[t])
    OBVIOUS
  <1>4. PICK n : n = Tail(prog[t])
    OBVIOUS
  <1>5. /\ f \in Calls /\ n \in Seq(Calls) /\ prog[t] = <<f>> \o n
    BY <1>1, <1>2, <1>3, <1>4
  <1>6. /\ IF f.op = "make" THEN \A a \in ArgsOf(f.of) : made[a]
           ELSE made[f.of]
        /\ f.op = "convert" => made[f.v[1]]
        /\ stack' = [stack EXCEPT ![t] = <<f>>]
    BY <1>3 DEF NextCall
  <1>7. /\ f \in FrameSet /\ Typed(f)
        /\ f.op \in {"make", "get", "wait_until", "start", "set", "drop",
                     "except", "convert", "callback"}
    BY <1>5, CallsTyped
  <1>8. made' = made
    BY <1>1 DEF fnVars
  <1>9. Known(f)'
    BY <1>6, <1>7, <1>8 DEF Known, StartOps, SourceOps, PlaceOps
  <1>10. /\ prog'[t] = n /\ \A u \in Threads : u # t => prog'[u] = prog[u]
         /\ prog' \in [Threads -> Seq(Calls)]
    <2>1. Tail(prog[t]) \in Seq(Calls)
      BY <1>4, <1>5
    <2> QED BY <1>1, <1>2, <1>4, <2>1
  <1>11. Data' /\ Forward
    BY <1>1 DEF Forward, resultVars, readyVars, startVars, fnVars, history,
                Ready, IInv, Data
  <1>12. Begins(t, f)
    BY <1>1, <1>6, <1>7, <1>9, <1>10 DEF Begins, Fits, Storing, history
  <1>13. Frames' /\ ResultLocked' /\ ListsTaken' /\ ArgumentsReady'
    BY <1>11, <1>12, IdleBegins
  <1>14. n \in Seq(FrameSet)
    <2>1. Calls \subseteq FrameSet
      BY CallsTyped
    <2> QED BY <1>5, <2>1, SeqMonotonic
  <1>15. \A k, x :
            /\ Total(k, x) \in Nat /\ Load(k, x, f) \in Nat
            /\ Weight(n, k, x) \in Nat /\ Weight(prog[t], k, x) \in Nat
            /\ Total(k, x)' = (Total(k, x) - Weight(prog[t], k, x))
                                 + (Load(k, x, f) + Weight(n, k, x))
    BY <1>10, <1>11, <1>12, <1>14, IdleTotals
  <1>16. \A k, x : Weight(prog[t], k, x) = Load(k, x, f) + Weight(n, k, x)
    <2> DEFINE one == <<f>>
    <2>1. one \in Seq(FrameSet) /\ \A k, x : Weight(one, k, x) = Load(k, x, f)
      BY <1>7, Weights
    <2>2. prog[t] = one \o n
      BY <1>5
    <2> HIDE DEF one
    <2>3. \A k, x : Weight(one \o n, k, x) = Weight(one, k, x) + Weight(n, k, x)
      BY <1>14, <2>1, WeightConcat
    <2> QED BY <2>1, <2>2, <2>3
  <1>17. \A k : AddsNone(k)
    <2>1. \A k, x : Total(k, x)' = Total(k, x)
      BY <1>15, <1>16
    <2> QED BY <1>15, <2>1 DEF AddsNone, Adds
  <1>18. PromisesCounted' /\ MadeOnce' /\ CalledOnce' /\ RunOnce'
         /\ NeedCounted'
    BY <1>1, <1>17, Kept DEF fnVars, history, readyVars, resultVars
  <1>19. Starts'
    BY <1>1, StartsKept DEF IInv, startVars, fnVars, resultVars
  <1> QED BY <1>11, <1>13, <1>18, <1>19 DEF IInv

LEMMA RunPostedStep ==
    ASSUME IInv, NEW t \in Threads, RunPosted(t)
    PROVE  IInv'
  <1>1. /\ stack[t] = <<>>
        /\ UNCHANGED <<resultVars, readyVars, startVars, promises, need, self,
                       made, prog, dead, history>>
    BY DEF RunPosted
  <1>2. PICK o \in Jobs :
           /\ posted[o] /\ posted' = [posted EXCEPT ![o] = FALSE]
           /\ stack' = [stack EXCEPT ![t] = <<Frame("job", o, <<>>)>>]
    BY DEF RunPosted
  <1>3. o \in Fns /\ o \in States /\ state[o] # "deferred"
    BY <1>2, Kindly DEF IInv, Starts, Fns
  <1>4. PICK f : /\ Made(f, "job", o, <<>>)
                 /\ stack' = [stack EXCEPT ![t] = <<f>>]
    BY <1>2, <1>3, MadeEmpty, OpNames
  <1>5. Fits(f)
    BY <1>1, <1>3, <1>4, FnFits DEF Made, resultVars
  <1>6. /\ prog \in [Threads -> Seq(Calls)]
        /\ prog \in [Threads -> Seq(FrameSet)] /\ prog[t] \in Seq(FrameSet)
    BY StacksAndPrograms DEF IInv, Frames
  <1>7. /\ Data' /\ Forward
        /\ posted'[o] = FALSE /\ \A p \in Jobs : p # o => posted'[p] = posted[p]
    BY <1>1, <1>2 DEF Forward, resultVars, readyVars, startVars, history,
                Ready, IInv, Data
  <1>8. Begins(t, f)
    BY <1>1, <1>4, <1>5, <1>6 DEF Begins, Made, Storing, history
  <1>9. Frames' /\ ResultLocked' /\ ListsTaken' /\ ArgumentsReady'
    BY <1>7, <1>8, IdleBegins
  <1>10. \A k, x :
            /\ Total(k, x) \in Nat /\ Load(k, x, f) \in Nat
            /\ Total(k, x)' = Total(k, x) + Load(k, x, f)
    <2>1. PICK n \in Seq(FrameSet) : n = prog[t]
      BY <1>6
    <2>2. prog'[t] = n /\ \A u \in Threads : u # t => prog'[u] = prog[u]
      BY <1>1, <2>1
    <2>3. \A k, x :
             /\ Total(k, x) \in Nat /\ Load(k, x, f) \in Nat
             /\ Weight(n, k, x) \in Nat /\ Weight(prog[t], k, x) \in Nat
             /\ Total(k, x)' = (Total(k, x) - Weight(prog[t], k, x))
                                  + (Load(k, x, f) + Weight(n, k, x))
      BY <1>7, <1>8, <2>2, IdleTotals
    <2>4. \A k, x : Weight(prog[t], k, x) = Weight(n, k, x)
      BY <2>1
    <2> QED BY <2>3, <2>4
  <1>11. \A k, x : Counted(k, x) => Load(k, x, f) = One(k = "run" /\ o = x)
    BY <1>4, HeavyLoads DEF Made
  <1>12. \A k : k # "run" => AddsNone(k)
    BY <1>10, <1>11 DEF AddsNone, Adds, One
  <1>13. PromisesCounted' /\ MadeOnce' /\ CalledOnce' /\ NeedCounted'
    BY <1>1, <1>12, Kept DEF history, readyVars, resultVars
  <1>14. Starts'
    BY <1>1, <1>7 DEF Starts, IInv, startVars, resultVars
  <1>15. \A x \in Fns :
            /\ Total("run", x)' \in Nat
            /\ runs'[x] + Total("run", x)' + One(x \in Jobs /\ posted'[x])
                  =< runs[x] + Total("run", x) + One(x \in Jobs /\ posted[x])
    <2> SUFFICES ASSUME NEW x \in Fns
                 PROVE
            /\ Total("run", x)' \in Nat
            /\ runs'[x] + Total("run", x)' + One(x \in Jobs /\ posted'[x])
                  =< runs[x] + Total("run", x) + One(x \in Jobs /\ posted[x])
      OBVIOUS
    <2>1. /\ Total("run", x) \in Nat
          /\ Total("run", x)' = Total("run", x) + One(o = x)
      BY <1>10, <1>11, KindsCounted
    <2>2. runs' = runs /\ runs[x] \in Nat
      BY <1>1 DEF history, IInv, Data
    <2>3. /\ One(x \in Jobs /\ posted'[x]) + One(o = x)
                =< One(x \in Jobs /\ posted[x])
          /\ One(o = x) \in Nat /\ One(x \in Jobs /\ posted[x]) \in Nat
          /\ One(x \in Jobs /\ posted'[x]) \in Nat
      BY <1>2, <1>7 DEF One
    <2> QED BY <2>1, <2>2, <2>3
  <1>16. RunOnce'
    BY <1>1, <1>7, <1>15, RunMoves DEF Data, history
  <1> QED BY <1>7, <1>9, <1>13, <1>14, <1>16 DEF IInv

-----------------------------------------------------------------------------
(* The initial states.                                                     *)

LEMMA CallLoads ==
    ASSUME NEW f \in Calls
    PROVE  /\ \A o \in States :
                 Load("promise", o, f) =
                    One(f.of = o /\ f.op \in {"drop", "except", "convert"})
           /\ \A x : Load("tell", x, f) = 0 /\ Load("run", x, f) = 0
           /\ \A x : Load("make", x, f) = One(f.op = "make" /\ f.of = x)
           /\ \A x : Load("call", x, f) = One(f.op = "callback" /\ f.v[1] = x)
  <1>1. f.op \in {"make", "get", "wait_until", "start", "set", "drop",
                  "except", "convert", "callback"}
    BY CallsTyped
  <1>2. \A o \in States :
           Load("promise", o, f) =
              One(f.of = o /\ f.op \in {"drop", "except", "convert"})
    BY <1>1 DEF Load, One, PromiseOps, SourceOps
  <1>3. \A x : Load("tell", x, f) = 0 /\ Load("run", x, f) = 0
    BY <1>1 DEF Load, One
  <1>4. \A x : Load("make", x, f) = One(f.op = "make" /\ f.of = x)
    BY <1>1 DEF Load, One
  <1>5. \A x : Load("call", x, f) = One(f.op = "callback" /\ f.v[1] = x)
    BY <1>1 DEF Load, One
  <1> QED BY <1>2, <1>3, <1>4, <1>5

LEMMA InitRest ==
    ASSUME Init
    PROVE  /\ Frames
           /\ Rest \in [Threads -> Seq(FrameSet)]
           /\ prog \in [Threads -> Seq(Calls)]
           /\ \A t \in Threads : Rest[t] = prog[t] /\ stack[t] = <<>>
           /\ \A k, x, t, i, h :
                 <<t, <<i, h>>>> \in AllLoads(Rest, k, x)
                    <=> /\ t \in Threads /\ i \in DOMAIN prog[t]
                        /\ i \in Nat /\ h \in Nat
                        /\ h \in 1 .. Load(k, x, prog[t][i])
           /\ \A k, x : \A p \in AllLoads(Rest, k, x) :
                 p = <<p[1], <<p[2][1], p[2][2]>>>>
  <1>1. /\ \A t \in Threads : stack[t] = <<>>
        /\ stack \in [Threads -> {<<>>}]
    BY DEF Init
  <1>2. prog \in [Threads -> Seq(Calls)]
    BY ProgramsAssumption DEF Init
  <1>3. Frames
    <2> DEFINE T == {f \in FrameSet : Typed(f)}
    <2> HIDE DEF T
    <2>1. stack \in [Threads -> Seq(T)]
      <3>1. <<>> \in Seq(T)
        OBVIOUS
      <3>2. {<<>>} \subseteq Seq(T)
        BY <3>1
      <3> QED BY <1>1, <3>2
    <2>2. \A t \in Threads : DOMAIN stack[t] = {}
      BY <1>1
    <2> QED BY <1>2, <2>1, <2>2 DEF Frames, T
  <1>4. Rest \in [Threads -> Seq(FrameSet)]
    BY <1>3, StacksAndPrograms
  <1>5. ASSUME NEW t \in Threads PROVE Rest[t] = prog[t]
    <2>1. Rest[t] = <<>> \o prog[t] /\ prog[t] \in Seq(FrameSet)
      BY <1>1, <1>3, StacksAndPrograms
    <2> QED BY <2>1, ConcatEmptySeq
  <1>6. \A k, x, t, i, h :
           <<t, <<i, h>>>> \in AllLoads(Rest, k, x)
              <=> /\ t \in Threads /\ i \in DOMAIN prog[t]
                  /\ i \in Nat /\ h \in Nat
                  /\ h \in 1 .. Load(k, x, prog[t][i])
    BY <1>5 DEF AllLoads, Loads
  <1>7. \A k, x : \A p \in AllLoads(Rest, k, x) :
           p = <<p[1], <<p[2][1], p[2][2]>>>>
    BY DEF AllLoads
  <1> QED BY <1>1, <1>2, <1>3, <1>4, <1>5, <1>6, <1>7

LEMMA AtMostOne ==
    ASSUME NEW S, \A p, q \in S : p = q
    PROVE  Cardinality(S) \in {0, 1}
  <1>1. CASE S = {}
    BY <1>1, FS_EmptySet
  <1>2. CASE S # {}
    <2>1. PICK p : p \in S
      BY <1>2
    <2>2. S = {p}
      BY <2>1
    <2> QED BY <2>2, FS_Singleton
  <1> QED BY <1>1, <1>2

\* No program tells a function that something is ready, or runs it.
LEMMA InitNothing ==
    ASSUME Init
    PROVE  \A x : Total("tell", x) = 0 /\ Total("run", x) = 0
  <1>1. ASSUME NEW x, NEW k \in {"tell", "run"}
        PROVE  Total(k, x) = 0
    <2>1. ASSUME NEW p \in AllLoads(Rest, k, x)
          PROVE  FALSE
      <3>1. PICK t, i, h : p = <<t, <<i, h>>>>
        BY InitRest
      <3>2. /\ t \in Threads /\ i \in DOMAIN prog[t]
            /\ h \in 1 .. Load(k, x, prog[t][i])
        BY <2>1, <3>1, InitRest
      <3>3. prog[t][i] \in Calls
        BY <3>2, InitRest, SeqDomain
      <3> QED BY <1>1, <3>2, <3>3, CallLoads
    <2>2. AllLoads(Rest, k, x) = {}
      BY <2>1
    <2> QED BY <2>2, FS_EmptySet DEF Total
  <1> QED BY <1>1

LEMMA InitOnce ==
    ASSUME Init
    PROVE  \A x : Total("make", x) \in {0, 1} /\ Total("call", x) \in {0, 1}
  <1>1. ASSUME NEW x, NEW k \in {"make", "call"}
        PROVE  Total(k, x) \in {0, 1}
    <2>1. ASSUME NEW p \in AllLoads(Rest, k, x), NEW q \in AllLoads(Rest, k, x)
          PROVE  p = q
      <3>1. PICK t, i, h : p = <<t, <<i, h>>>>
        BY InitRest
      <3>2. PICK u, j, g : q = <<u, <<j, g>>>>
        BY InitRest
      <3>3. /\ t \in Threads /\ i \in DOMAIN prog[t]
            /\ h \in 1 .. Load(k, x, prog[t][i])
            /\ u \in Threads /\ j \in DOMAIN prog[u]
            /\ g \in 1 .. Load(k, x, prog[u][j])
        BY <2>1, <3>1, <3>2, InitRest
      <3>4. prog[t][i] \in Calls /\ prog[u][j] \in Calls
        BY <3>3, InitRest, SeqDomain
      <3>5. /\ Load(k, x, prog[t][i]) \in {0, 1}
            /\ Load(k, x, prog[u][j]) \in {0, 1}
        BY <1>1, <3>4, CallLoads DEF One
      <3>6. /\ Load(k, x, prog[t][i]) = 1 /\ h = 1
            /\ Load(k, x, prog[u][j]) = 1 /\ g = 1
        BY <3>3, <3>5
      <3>7. Again(prog[t][i], prog[u][j])
        <4>1. CASE k = "make"
          <5>1. /\ One(prog[t][i].op = "make" /\ prog[t][i].of = x) = 1
                /\ One(prog[u][j].op = "make" /\ prog[u][j].of = x) = 1
            BY <3>4, <3>6, <4>1, CallLoads
          <5> QED BY <5>1 DEF Again, One
        <4>2. CASE k = "call"
          <5>1. /\ One(prog[t][i].op = "callback" /\ prog[t][i].v[1] = x) = 1
                /\ One(prog[u][j].op = "callback" /\ prog[u][j].v[1] = x) = 1
            BY <3>4, <3>6, <4>2, CallLoads
          <5> QED BY <5>1 DEF Again, One
        <4> QED BY <1>1, <4>1, <4>2
      <3>8. t = u /\ i = j
        BY <3>3, <3>7, ProgramsAssumption DEF Init
      <3> QED BY <3>1, <3>2, <3>6, <3>8
    <2> QED BY <2>1, AtMostOne DEF Total
  <1> QED BY <1>1

\* The promises that the program has are what its calls let go of.
LEMMA InitPromises ==
    ASSUME Init
    PROVE  PromisesCounted
  <1> SUFFICES ASSUME NEW o \in States
               PROVE  promises[o] = Total("promise", o)
    BY DEF PromisesCounted
  <1> DEFINE T == {p \in Threads \X (1..MaxCalls) :
                     /\ p[2] \in DOMAIN prog[p[1]] /\ prog[p[1]][p[2]].of = o
                     /\ prog[p[1]][p[2]].op \in {"drop", "except", "convert"}}
  <1> DEFINE S == AllLoads(Rest, "promise", o)
  <1> DEFINE m == [p \in S |-> <<p[1], p[2][1]>>]
  <1>1. promises[o] = Cardinality(T)
    BY DEF Init
  <1>2. IsFiniteSet(S)
    BY InitRest, AllLoadsFinite
  <1>3. ASSUME NEW t \in Threads, NEW i \in DOMAIN prog[t]
        PROVE  /\ prog[t][i] \in Calls /\ i \in Nat /\ i \in 1 .. MaxCalls
               /\ Load("promise", o, prog[t][i]) =
                     One(/\ prog[t][i].of = o
                         /\ prog[t][i].op \in {"drop", "except", "convert"})
    <2>1. prog[t] \in Seq(Calls) /\ Len(prog[t]) =< MaxCalls
      BY InitRest, ProgramsAssumption DEF Init
    <2>2. prog[t][i] \in Calls /\ i \in 1 .. Len(prog[t])
          /\ Len(prog[t]) \in Nat
      BY <2>1, SeqDomain
    <2>3. i \in Nat /\ i \in 1 .. MaxCalls
      BY <2>1, <2>2, ProgramsAssumption
    <2>4. Load("promise", o, prog[t][i]) =
             One(/\ prog[t][i].of = o
                 /\ prog[t][i].op \in {"drop", "except", "convert"})
      BY <2>2, CallLoads
    <2> QED BY <2>2, <2>3, <2>4
  <1>4. ASSUME NEW p \in S
        PROVE  /\ p[1] \in Threads /\ p[2][1] \in DOMAIN prog[p[1]]
               /\ p = <<p[1], <<p[2][1], 1>>>> /\ <<p[1], p[2][1]>> \in T
    <2>1. PICK t, i, h : p = <<t, <<i, h>>>>
      BY InitRest
    <2>2. /\ t \in Threads /\ i \in DOMAIN prog[t]
          /\ h \in 1 .. Load("promise", o, prog[t][i])
      BY <1>4, <2>1, InitRest
    <2>3. /\ prog[t][i].of = o /\ h = 1
          /\ prog[t][i].op \in {"drop", "except", "convert"}
      BY <1>3, <2>2 DEF One
    <2>4. <<t, i>> \in T
      BY <1>3, <2>2, <2>3
    <2> HIDE DEF T
    <2> QED BY <2>1, <2>2, <2>3, <2>4
  <1>5. ASSUME NEW p \in T
        PROVE  \E q \in S : m[q] = p
    <2>1. PICK t \in Threads, i \in 1 .. MaxCalls : p = <<t, i>>
      OBVIOUS
    <2>2. /\ i \in DOMAIN prog[t] /\ prog[t][i].of = o
          /\ prog[t][i].op \in {"drop", "except", "convert"}
      BY <1>5, <2>1
    <2>3. Load("promise", o, prog[t][i]) = 1 /\ i \in Nat
      BY <1>3, <2>2 DEF One
    <2>4. <<t, <<i, 1>>>> \in S
      <3>1. 1 \in Nat /\ 1 \in 1 .. Load("promise", o, prog[t][i])
        BY <2>3
      <3> QED BY <2>2, <2>3, <3>1, InitRest, Zenon
    <2> HIDE DEF S
    <2>5. m[<<t, <<i, 1>>>>] = <<t, i>>
      BY <2>4
    <2> HIDE DEF m
    <2> QED BY <2>1, <2>4, <2>5
  <1>6. m \in [S -> T]
    <2> HIDE DEF S, T
    <2> QED BY <1>4
  <1>7. \A p, q \in S : m[p] = m[q] => p = q
    <2> HIDE DEF S, T
    <2>1. ASSUME NEW p \in S, NEW q \in S, m[p] = m[q]
          PROVE  p = q
      <3>1. p[1] = q[1] /\ p[2][1] = q[2][1]
        BY <2>1
      <3> HIDE DEF m
      <3> QED BY <1>4, <3>1
    <2> QED BY <2>1
  <1> HIDE DEF m, S, T
  <1>8. Cardinality(T) = Cardinality(S)
    BY <1>2, <1>5, <1>6, <1>7, SameSize
  <1> QED BY <1>1, <1>8 DEF Total, S

LEMMA InitData ==
    ASSUME Init
    PROVE  Data /\ Starts /\ ResultLocked /\ ListsTaken /\ ArgumentsReady
  <1>1. Promises \cap Fns = {} /\ States = Promises \cup Fns
        /\ Jobs \subseteq Fns /\ Jobs \subseteq States
    BY StatesAssumption DEF States, Fns
  <1>2. \A t \in Threads : stack[t] = <<>> /\ DOMAIN stack[t] = {}
    BY DEF Init
  <1>3. \A o \in States : ~Ready(o)
    BY DEF Init, Ready, ReadyStates
  <1>4. promises \in [States -> Int]
    <2>1. PromisesCounted /\ Frames
      BY InitPromises, InitRest
    <2>2. \A o \in States : promises[o] \in Int
      BY <2>1, TotalNat DEF PromisesCounted
    <2>3. promises = [o \in States |-> promises[o]]
      BY DEF Init
    <2> QED BY <2>2, <2>3
  <1>5. Data
    <2>1. /\ state \in [States -> Uninitialized \cup ReadyStates]
          /\ storage \in [States -> {"none", "value", "exc", "broken"}]
          /\ lck \in [States -> Threads \cup {None}]
          /\ mtx \in [States -> Threads \cup {None}]
          /\ called \in [States -> BOOLEAN] /\ async \in [States -> BOOLEAN]
          /\ conv \in [States -> States \cup {None}]
          /\ gone \in [States -> BOOLEAN] /\ made \in [States -> BOOLEAN]
          /\ self \in [Jobs -> BOOLEAN] /\ posted \in [Jobs -> BOOLEAN]
      BY DEF Init, Uninitialized
    <2>2. /\ single \in [States -> Callbacks \cup {None}]
          /\ \A o \in States : single[o] = None
          /\ chain \in [States -> Seq(Callbacks)]
          /\ \A o \in States : DOMAIN chain[o] = {}
          /\ deps \in [States -> Seq(States \cup {None})]
      BY DEF Init
    <2>3. /\ need \in [Fns -> Int] /\ runs \in [Fns -> Nat]
          /\ calls \in [Callbacks -> Nat]
          /\ dead \in {"no", "assert", "terminate", "nullptr", "chain"}
      BY DEF Init, Needs
    <2> QED BY <1>4, <2>1, <2>2, <2>3 DEF Data
  <1>6. Starts
    <2>1. \A o \in Promises : made[o] /\ state[o] # "deferred"
      BY <1>1 DEF Init
    <2>2. \A o \in Fns : state[o] = "deferred" /\ ~made[o]
      BY <1>1 DEF Init
    <2>3. \A o \in Jobs : ~posted[o]
      BY DEF Init
    <2>4. \A o \in States : conv[o] = None
      BY DEF Init
    <2> QED BY <2>1, <2>2, <2>3, <2>4 DEF Starts
  <1>7. ResultLocked /\ ListsTaken
    BY <1>2, <1>3 DEF ResultLocked, ListsTaken
  <1>8. ArgumentsReady
    <2>1. \A o \in Fns : ~(runs[o] > 0)
      BY DEF Init
    <2> QED BY <1>2, <2>1 DEF ArgumentsReady
  <1> QED BY <1>5, <1>6, <1>7, <1>8

LEMMA InitCounts ==
    ASSUME Init
    PROVE  CalledOnce /\ MadeOnce /\ NeedCounted /\ RunOnce
  <1>1. Promises \cap Fns = {} /\ States = Promises \cup Fns
        /\ Jobs \subseteq Fns
    BY StatesAssumption DEF States, Fns
  <1>2. CalledOnce
    <2> SUFFICES ASSUME NEW c \in Callbacks
                 PROVE  calls[c] + Total("call", c) + One(single[On[c]] = c)
                        + Occurs(chain[On[c]], c) =< 1
      BY DEF CalledOnce
    <2>1. On[c] \in States /\ c # None
      BY CallbacksAssumption, StatesAssumption
    <2>2. calls[c] = 0 /\ single[On[c]] = None /\ chain[On[c]] = <<>>
      BY <2>1 DEF Init
    <2>3. Occurs(chain[On[c]], c) = 0
      BY <2>2, OccursOne
    <2>4. One(single[On[c]] = c) = 0
      BY <2>1, <2>2 DEF One
    <2>5. Total("call", c) \in {0, 1}
      BY InitOnce
    <2> QED BY <2>2, <2>3, <2>4, <2>5
  <1>3. MadeOnce
    <2>1. \A o \in Fns : ~made[o]
      <3>1. \A o \in States : made[o] = (o \in Promises)
        BY Zenon DEF Init
      <3> QED BY <1>1, <3>1
    <2>2. \A o \in Fns : One(~made[o]) = 1
      BY <2>1 DEF One
    <2>3. \A o \in Fns : Total("make", o) \in {0, 1}
      BY InitOnce
    <2> QED BY <2>2, <2>3 DEF MadeOnce
  <1>4. NeedCounted
    <2> SUFFICES ASSUME NEW o \in Fns
                 PROVE  /\ IsFiniteSet(Dependants(o))
                        /\ need[o] = One(state[o] = "deferred")
                                     + Total("tell", o)
                                     + Cardinality(Dependants(o))
      BY DEF NeedCounted
    <2>1. \A u \in States : DOMAIN deps[u] = {}
      BY DEF Init
    <2>2. Dependants(o) = {}
      BY <2>1 DEF Dependants
    <2>3. Total("tell", o) = 0
      BY InitNothing
    <2>4. state[o] = "deferred" /\ need[o] = 1
      BY <1>1 DEF Init, Needs
    <2>5. One(state[o] = "deferred") = 1
      BY <2>4 DEF One
    <2>6. IsFiniteSet(Dependants(o)) /\ Cardinality(Dependants(o)) = 0
      BY <2>2, FS_EmptySet
    <2> QED BY <2>3, <2>4, <2>5, <2>6
  <1>5. RunOnce
    <2> SUFFICES ASSUME NEW o \in Fns
                 PROVE  runs[o] + Total("run", o) + One(o \in Jobs /\ posted[o])
                           =< One(need[o] = 0)
      BY DEF RunOnce
    <2>1. runs[o] = 0 /\ need[o] = 1 /\ ~(o \in Jobs /\ posted[o])
      BY DEF Init, Needs
    <2>2. Total("run", o) = 0
      BY InitNothing
    <2> QED BY <2>1, <2>2 DEF One
  <1> QED BY <1>2, <1>3, <1>4, <1>5

LEMMA InitIInv == Init => IInv
  BY InitRest, InitPromises, InitData, InitCounts DEF IInv

-----------------------------------------------------------------------------
(* Every step.                                                             *)

LEMMA ResultSteps ==
    ASSUME IInv, NEW t \in Threads, SetResult(t) \/ InvokeReady(t)
    PROVE  IInv'
  <1>1. CASE Set(t)
    BY <1>1, SetStep
  <1>2. CASE SetThrows(t)
    BY <1>2, SetThrowsStep
  <1>3. CASE Store(t)
    BY <1>3, StoreStep
  <1>4. CASE Publish(t)
    BY <1>4, PublishStep
  <1>5. CASE LockReady(t)
    BY <1>5, LockReadyStep
  <1>6. CASE Swap(t)
    BY <1>6, SwapStep
  <1>7. CASE Deliver(t)
    BY <1>7, DeliverStep
  <1>8. CASE CallBack(t)
    BY <1>8, CallBackStep
  <1>9. CASE ScopeEnd(t)
    BY <1>9, ScopeEndStep
  <1> QED BY <1>1, <1>2, <1>3, <1>4, <1>5, <1>6, <1>7, <1>8, <1>9
          DEF SetResult, InvokeReady

LEMMA StartSteps ==
    ASSUME IInv, NEW t \in Threads, StartDeferred(t)
    PROVE  IInv'
  <1>1. CASE Start(t)
    BY <1>1, StartStep
  <1>2. CASE MarkAsync(t)
    BY <1>2, MarkAsyncStep
  <1>3. CASE BeginPromise(t)
    BY <1>3, BeginPromiseStep
  <1>4. CASE BeginLazy(t)
    BY <1>4, BeginLazyStep
  <1>5. CASE BeginJob(t)
    BY <1>5, BeginJobStep
  <1>6. CASE HoldSelf(t)
    BY <1>6, HoldSelfStep
  <1>7. CASE Claim(t)
    BY <1>7, ClaimFirst, ClaimAgain
  <1>8. CASE StartArg(t)
    BY <1>8, StartArgStep
  <1>9. CASE ArgsStarted(t) \/ DependFn(t)
    BY <1>9, ResolveStep
  <1>10. CASE BaseConvert(t)
    BY <1>10, BaseConvertStep
  <1>11. CASE BasePlain(t)
    BY <1>11, BasePlainStep
  <1>12. CASE BaseCheck(t)
    BY <1>12, BaseCheckStep
  <1> QED BY <1>1, <1>2, <1>3, <1>4, <1>5, <1>6, <1>7, <1>8, <1>9, <1>10,
             <1>11, <1>12 DEF StartDeferred

LEMMA FunctionSteps ==
    ASSUME IInv, NEW t \in Threads, InvokeDeferred(t) \/ MakeFn(t)
    PROVE  IInv'
  <1>1. CASE InvokeLazy(t)
    BY <1>1, InvokeLazyStep
  <1>2. CASE InvokeJob(t)
    BY <1>2, InvokeJobStep
  <1>3. CASE RunJob(t)
    BY <1>3, RunJobStep
  <1>4. CASE JobEnd(t)
    BY <1>4, JobEndStep
  <1>5. CASE GetArg(t)
    BY <1>5, GetArgStep
  <1>6. CASE ArgThrows(t)
    BY <1>6, ArgThrowsStep
  <1>7. CASE RunFn(t)
    BY <1>7, RunFnStep
  <1>8. CASE RunPassPromise(t)
    BY <1>8, RunPassPromiseStep
  <1>9. CASE Unwind(t)
    BY <1>9, UnwindStep
  <1>10. CASE Make(t)
    BY <1>10, MakeStep
  <1>11. CASE MakeArg(t)
    BY <1>11, MakeArgStep
  <1>12. CASE LockRegister(t)
    BY <1>12, LockRegisterStep
  <1>13. CASE Register(t)
    BY <1>13, RegisterStep
  <1> QED BY <1>1, <1>2, <1>3, <1>4, <1>5, <1>6, <1>7, <1>8, <1>9, <1>10,
             <1>11, <1>12, <1>13 DEF InvokeDeferred, MakeFn

LEMMA PromiseSteps ==
    ASSUME IInv, NEW t \in Threads, DropPromise(t) \/ ConvertPromise(t)
    PROVE  IInv'
  <1>1. CASE Drop(t)
    BY <1>1, DropStep
  <1>2. CASE Orphan(t)
    BY <1>2, OrphanStep
  <1>3. CASE SetCurrentException(t)
    BY <1>3, SetCurrentExceptionStep
  <1>4. CASE LockSource(t)
    BY <1>4, LockSourceStep
  <1>5. CASE Reserve(t)
    BY <1>5, ReserveStep
  <1>6. CASE MarkConvert(t)
    BY <1>6, MarkConvertStep
  <1>7. CASE SetConvert(t)
    BY <1>7, SetConvertStep
  <1>8. CASE Commit(t)
    BY <1>8, CommitStep
  <1>9. CASE PassStart(t)
    BY <1>9, PassStartStep
  <1>10. CASE DependConvert(t)
    BY <1>10, DependConvertStep
  <1>11. CASE Convert(t)
    BY <1>11, ConvertStep
  <1>12. CASE Install(t)
    BY <1>12, InstallStep
  <1>13. CASE SourceGone(t)
    BY <1>13, SourceGoneStep
  <1> QED BY <1>1, <1>2, <1>3, <1>4, <1>5, <1>6, <1>7, <1>8, <1>9, <1>10,
             <1>11, <1>12, <1>13 DEF DropPromise, ConvertPromise

LEMMA FutureSteps ==
    ASSUME IInv, NEW t \in Threads, UseFuture(t)
    PROVE  IInv'
  <1>1. CASE Get(t)
    BY <1>1, GetStep
  <1>2. CASE Got(t)
    BY <1>2, GotStep
  <1>3. CASE WaitUntil(t)
    BY <1>3, WaitUntilStep
  <1>4. CASE WaitEnds(t)
    BY <1>4, WaitEndsStep
  <1>5. CASE CallbackCall(t)
    BY <1>5, CallbackCallStep
  <1>6. CASE LockInstall(t)
    BY <1>6, LockInstallStep
  <1>7. CASE InstallReady(t)
    BY <1>7, InstallReadyStep
  <1>8. CASE InstallCallback(t)
    BY <1>8, InstallCallbackStep
  <1>9. CASE Unchain(t)
    BY <1>9, UnchainStep
  <1> QED BY <1>1, <1>2, <1>3, <1>4, <1>5, <1>6, <1>7, <1>8, <1>9
          DEF UseFuture

LEMMA StepKeeps ==
    ASSUME IInv, [Next]_vars
    PROVE  IInv'
  <1>1. ASSUME NEW t \in Threads, Step(t)
        PROVE  IInv'
    BY <1>1, NextCallStep, RunPostedStep, ResultSteps, StartSteps,
       FunctionSteps, PromiseSteps, FutureSteps DEF Step
  <1>2. CASE UNCHANGED vars
    <2>1. UNCHANGED stack /\ Quiet
      BY <1>2 DEF vars, Quiet, resultVars, readyVars, startVars, fnVars,
                  history
    <2>2. Data'
      BY <1>2 DEF IInv, Data, vars, resultVars, readyVars, startVars, fnVars,
                  history
    <2> QED BY <2>1, <2>2, NothingMoves
  <1> QED BY <1>1, <1>2 DEF Next

LEMMA Invariance == Spec => []IInv
  BY InitIInv, StepKeeps, PTL DEF Spec

-----------------------------------------------------------------------------
(* What follows.                                                           *)

LEMMA FunctionsFollow == IInv => FunctionsSound
  <1> SUFFICES ASSUME IInv PROVE FunctionsSound
    OBVIOUS
  <1>1. Frames /\ Data /\ \A k, x : Total(k, x) \in Nat
    BY TotalNat DEF IInv
  <1>2. promises \in [States -> Nat]
    <2>1. \A o \in States : promises[o] \in Nat
      BY <1>1 DEF IInv, PromisesCounted
    <2> QED BY <1>1, <2>1 DEF Data
  <1>3. \A o \in Fns : /\ need[o] \in Nat
                       /\ need[o] = 0 => state[o] # "deferred"
    <2> SUFFICES ASSUME NEW o \in Fns
                 PROVE  /\ need[o] \in Nat
                        /\ need[o] = 0 => state[o] # "deferred"
      OBVIOUS
    <2>1. /\ Cardinality(Dependants(o)) \in Nat /\ Total("tell", o) \in Nat
          /\ need[o] = One(state[o] = "deferred") + Total("tell", o)
                       + Cardinality(Dependants(o))
      BY <1>1, FS_CardinalityType DEF IInv, NeedCounted
    <2> QED BY <2>1 DEF One
  <1>4. need \in [Fns -> Nat]
    BY <1>1, <1>3 DEF Data
  <1>5. TypeOK
    BY <1>1, <1>2, <1>4 DEF Data, TypeOK
  <1>6. ASSUME NEW o \in Fns, runs[o] > 0
        PROVE  runs[o] = 1 /\ called[o] /\ \A a \in ArgsOf(o) : Ready(a)
    <2>1. /\ runs[o] \in Nat /\ Total("run", o) \in Nat
          /\ runs[o] + Total("run", o) + One(o \in Jobs /\ posted[o])
                =< One(need[o] = 0)
      BY <1>1 DEF IInv, Data, RunOnce
    <2>2. runs[o] = 1 /\ need[o] = 0
      BY <1>6, <2>1 DEF One
    <2>3. called[o]
      BY <1>3, <2>2 DEF IInv, Starts
    <2>4. \A a \in ArgsOf(o) : Ready(a)
      BY <1>6 DEF IInv, ArgumentsReady
    <2> QED BY <2>2, <2>3, <2>4
  <1> QED BY <1>5, <1>6 DEF FunctionsSound, RunsOnceWhenReady

(* A function that is run is run once, was started, and all the futures    *)
(* among its arguments are ready, however many threads start it and        *)
(* resolve its arguments at once (need_resolution_, clear_deferred()); and *)
(* no count of promises or of needs goes below zero.                       *)
THEOREM FunctionsAreSound == Spec => []FunctionsSound
  BY Invariance, FunctionsFollow, PTL

(* When no call is under way the lists of a ready shared state are empty:  *)
(* although ready_cb_mtx_ is unlocked twice, nobody adds a callback or a   *)
(* dependant after invoke_ready_cb() has swapped the lists out.            *)
THEOREM NothingIsLeft == Spec => []NothingLeftBehind
  <1>1. IInv => NothingLeftBehind
    BY DEF IInv, ListsTaken, NothingLeftBehind
  <1> QED BY <1>1, Invariance, PTL

-----------------------------------------------------------------------------
(* The refinement.                                                         *)

\* A step that assigns no result and calls no callback.
Silent == Result' = Result /\ calls' = calls

LEMMA SameResults ==
    ASSUME \A o \in States : Ready(o)' <=> Ready(o),
           \A o \in States : Ready(o) => storage'[o] = storage[o],
           calls' = calls
    PROVE  Silent
  BY DEF Silent, Result

LEMMA SilentSteps ==
    ASSUME IInv, NEW t \in Threads, Step(t)
    PROVE  Silent \/ Publish(t) \/ CallBack(t)
  <1>1. ASSUME UNCHANGED <<state, storage, calls>>
        PROVE  Silent
    BY <1>1 DEF Silent, Result, Ready
  <1>2. CASE SetResult(t)
    <2>1. CASE Set(t) \/ SetThrows(t)
      BY <1>1, <2>1 DEF Set, SetThrows, resultVars, history
    <2>2. CASE Store(t)
      <3>1. ~Ready(Of(t))
            /\ storage \in [States -> {"none", "value", "exc", "broken"}]
        BY <2>2, TopStores DEF Store, Running, Storing, IInv, Data
      <3>2. UNCHANGED <<state, calls>>
            /\ storage' = [storage EXCEPT ![Of(t)] = V(t)[1]]
        BY <2>2 DEF Store, history
      <3> QED BY <3>1, <3>2, SameResults DEF Ready
    <2> QED BY <1>2, <2>1, <2>2 DEF SetResult
  <1>3. CASE StartDeferred(t)
    <2>1. CASE Claim(t)
      <3>1. /\ state \in [States -> Uninitialized \cup ReadyStates]
            /\ \/ state' = state
               \/ /\ state[Of(t)] = "deferred"
                  /\ state' = [state EXCEPT ![Of(t)] = "uninitialized"]
        BY <2>1 DEF Claim, IInv, Data
      <3>2. UNCHANGED <<storage, calls>>
        BY <2>1 DEF Claim, history
      <3>3. \A o \in States : Ready(o)' <=> Ready(o)
        BY <3>1 DEF Ready, ReadyStates
      <3> QED BY <3>2, <3>3, SameResults
    <2>2. CASE ~Claim(t)
      BY <1>1, <1>3, <2>2
         DEF StartDeferred, Start, MarkAsync, BeginPromise, BeginLazy,
             BeginJob, HoldSelf, StartArg, ArgsStarted, DependFn, BaseConvert,
             BasePlain, BaseCheck, resultVars, history
    <2> QED BY <2>1, <2>2
  <1>4. CASE ConvertPromise(t)
    <2>1. CASE MarkConvert(t)
      <3>1. /\ state \in [States -> Uninitialized \cup ReadyStates]
            /\ state' = [state EXCEPT ![Of(t)] =
                            IF @ = "uninitialized" THEN "convert" ELSE @]
        BY <2>1 DEF MarkConvert, IInv, Data
      <3>2. UNCHANGED <<storage, calls>>
        BY <2>1 DEF MarkConvert, history
      <3>3. \A o \in States : Ready(o)' <=> Ready(o)
        BY <3>1 DEF Ready, ReadyStates
      <3> QED BY <3>2, <3>3, SameResults
    <2>2. CASE Install(t)
      <3>1. /\ state \in [States -> Uninitialized \cup ReadyStates]
            /\ state' = [state EXCEPT ![Of(t)] =
                            IF @ = "convert" THEN "uninitialized" ELSE @]
        BY <2>2 DEF Install, IInv, Data
      <3>2. UNCHANGED <<storage, calls>>
        BY <2>2 DEF Install, history
      <3>3. \A o \in States : Ready(o)' <=> Ready(o)
        BY <3>1 DEF Ready, ReadyStates
      <3> QED BY <3>2, <3>3, SameResults
    <2>3. CASE ~MarkConvert(t) /\ ~Install(t)
      BY <1>1, <1>4, <2>3
         DEF ConvertPromise, LockSource, Reserve, SetConvert, Commit,
             PassStart, DependConvert, Convert, SourceGone, resultVars, history
    <2> QED BY <2>1, <2>2, <2>3
  <1>5. CASE InvokeReady(t)
    BY <1>1, <1>5 DEF InvokeReady, LockReady, Swap, Deliver, ScopeEnd,
                      resultVars, history
  <1>6. CASE InvokeDeferred(t)
    BY <1>1, <1>6 DEF InvokeDeferred, InvokeLazy, InvokeJob, RunJob, JobEnd,
                      GetArg, ArgThrows, RunFn, RunPassPromise, Unwind,
                      resultVars, history
  <1>7. CASE MakeFn(t) \/ DropPromise(t)
    BY <1>1, <1>7 DEF MakeFn, Make, MakeArg, LockRegister, Register,
                      DropPromise, Drop, Orphan, SetCurrentException,
                      resultVars, history
  <1>8. CASE UseFuture(t)
    BY <1>1, <1>8 DEF UseFuture, Get, Got, WaitUntil, WaitEnds, CallbackCall,
                      LockInstall, InstallReady, InstallCallback, Unchain,
                      resultVars, history
  <1>9. CASE NextCall(t) \/ RunPosted(t)
    BY <1>1, <1>9 DEF NextCall, RunPosted, resultVars, history
  <1> QED BY <1>2, <1>3, <1>4, <1>5, <1>6, <1>7, <1>8, <1>9 DEF Step

LEMMA PublishResolves ==
    ASSUME IInv, NEW t \in Threads, Publish(t)
    PROVE  Contract!Resolve
  <1>1. /\ ~Ready(Of(t)) /\ Of(t) \in States
        /\ storage[Of(t)] \in {"value", "exc", "broken"}
        /\ \A o \in States : Ready(o)' <=> Ready(o) \/ o = Of(t)
    BY PublishStep
  <1>2. storage' = storage /\ calls' = calls
    BY DEF Publish, history
  <1>3. Result[Of(t)] = "none"
    BY <1>1 DEF Result
  <1>4. Result' = [Result EXCEPT ![Of(t)] = storage[Of(t)]]
    <2>1. ASSUME NEW o \in States
          PROVE  (IF Ready(o) THEN storage[o] ELSE "none")' =
                    IF o = Of(t) THEN storage[Of(t)]
                    ELSE IF Ready(o) THEN storage[o] ELSE "none"
      BY <1>1, <1>2
    <2> QED BY <1>1, <2>1 DEF Result
  <1> QED BY <1>1, <1>2, <1>3, <1>4 DEF Contract!Resolve

LEMMA CallBackInvokes ==
    ASSUME IInv, NEW t \in Threads, CallBack(t)
    PROVE  Contract!Invoke
  <1> DEFINE c == V(t)[1]
  <1>1. c \in Callbacks /\ calls[c] = 0 /\ Ready(On[c]) /\ On[c] \in States
    BY CallBackStep, CallbacksAssumption
  <1>2. calls' = [calls EXCEPT ![c] = @ + 1] /\ UNCHANGED <<state, storage>>
    BY DEF CallBack, resultVars
  <1> HIDE DEF c
  <1>3. calls' = [calls EXCEPT ![c] = 1]
    BY <1>1, <1>2
  <1>4. Result[On[c]] # "none"
    BY <1>1 DEF Result, IInv, ResultLocked
  <1>5. Result' = Result
    BY <1>2 DEF Result, Ready
  <1> QED BY <1>1, <1>3, <1>4, <1>5 DEF Contract!Invoke

(* Promises and futures keep the contract of FutureContract: a result is   *)
(* assigned once and never changes, a callback is called once and after    *)
(* its result.  Publish() is the step that assigns, CallBack() the one     *)
(* that calls, and no other step does either.                              *)
THEOREM Refinement == Spec => KeepsContract
  <1>1. Init => Contract!Init
    <2>1. ASSUME Init PROVE \A o \in States : ~Ready(o)
      BY <2>1 DEF Init, Ready, ReadyStates
    <2> QED BY <2>1 DEF Init, Contract!Init, Result
  <1>2. ASSUME IInv, [Next]_vars
        PROVE  [Contract!Resolve \/ Contract!Invoke]_<<Result, calls>>
    <2>1. ASSUME NEW t \in Threads, Step(t)
          PROVE  \/ Contract!Resolve \/ Contract!Invoke
                 \/ UNCHANGED <<Result, calls>>
      BY <1>2, <2>1, SilentSteps, PublishResolves, CallBackInvokes DEF Silent
    <2>2. CASE UNCHANGED vars
      <3>1. UNCHANGED <<state, storage, calls>>
        BY <2>2 DEF vars, resultVars, history
      <3> QED BY <3>1 DEF Result, Ready
    <2> QED BY <1>2, <2>1, <2>2 DEF Next
  <1> QED BY <1>1, <1>2, Invariance, PTL DEF Spec, KeepsContract, Contract!Spec
=============================================================================
