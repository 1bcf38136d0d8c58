--------------------------- MODULE Monitor_proofs ---------------------------
(***************************************************************************)
(* Proofs about Monitor, for every finite set of clients: the counters are *)
(* exact, write access derives from one grant, and nobody who waits is     *)
(* forgotten.  The three go together: that a grant finds no other writer   *)
(* is read off a counter, and that a waiter has somebody to wait for       *)
(* compares two of them.                                                   *)
(***************************************************************************)
EXTENDS Monitor, FiniteSetTheorems, SequenceTheorems, TLAPS

(* What the counters count, for any tokens h and upgraders' requests uq.   *)
ReadersOf(h) == {c \in Clients : h[c] = "read"}
UpgradersOf(h) == {c \in Clients : h[c] = "upgrade"}
WritersOf(h, uq) == {c \in Clients : h[c] \in {"upgrade", "write"}} \cup uq

Exact(r, w, u, h, uq) ==
    /\ r = Cardinality(ReadersOf(h))
    /\ w = Cardinality(WritersOf(h, uq))
    /\ u = Cardinality(UpgradersOf(h))

(* A client waits in one place, without a token.                           *)
WaitOK ==
    /\ \A c \in Clients : Queued(c) => held[c] = "none"
    /\ r_queue_ \cap u_queue_ = {}
    /\ \A i \in DOMAIN w_queue_ :
          w_queue_[i].client \notin r_queue_ \cup u_queue_
    /\ \A i, j \in DOMAIN w_queue_ :
          w_queue_[i].client = w_queue_[j].client => i = j

IInv == TypeOK /\ WaitOK /\ CountersExact /\ OneFamily /\ NobodyStranded

-----------------------------------------------------------------------------
(* Counting.                                                               *)

(* The sets that are counted are finite, so that the counts are naturals.  *)
LEMMA CountedFinite ==
    ASSUME NEW h, NEW uq \in SUBSET Clients
    PROVE  /\ IsFiniteSet(ReadersOf(h)) /\ Cardinality(ReadersOf(h)) \in Nat
           /\ IsFiniteSet(UpgradersOf(h)) /\ Cardinality(UpgradersOf(h)) \in Nat
           /\ IsFiniteSet(WritersOf(h, uq))
           /\ Cardinality(WritersOf(h, uq)) \in Nat
  <1>1. /\ ReadersOf(h) \in SUBSET Clients
        /\ UpgradersOf(h) \in SUBSET Clients
        /\ WritersOf(h, uq) \in SUBSET Clients
    BY DEF ReadersOf, UpgradersOf, WritersOf
  <1>2. \A S \in SUBSET Clients : IsFiniteSet(S) /\ Cardinality(S) \in Nat
    BY ClientsAssumption, FS_Subset, FS_CardinalityType
  <1> QED
    BY <1>1, <1>2

(* No writers are counted exactly when there are none.                     *)
LEMMA NoWriters ==
    ASSUME NEW r, NEW w, NEW u, NEW h, NEW uq \in SUBSET Clients,
           Exact(r, w, u, h, uq), w = 0
    PROVE  WritersOf(h, uq) = {}
  BY CountedFinite, FS_EmptySet DEF Exact

(* Upgraders are writers; with another writer there are more of these.     *)
LEMMA MoreWriters ==
    ASSUME NEW r, NEW w, NEW u, NEW h, NEW uq \in SUBSET Clients,
           Exact(r, w, u, h, uq)
    PROVE  /\ w >= u
           /\ (\E c \in WritersOf(h, uq) : h[c] # "upgrade") => w > u
  <1>1. UpgradersOf(h) \in SUBSET WritersOf(h, uq)
    BY DEF UpgradersOf, WritersOf
  <1>2. /\ u <= w
        /\ u = w => UpgradersOf(h) = WritersOf(h, uq)
    BY <1>1, CountedFinite, FS_Subset DEF Exact
  <1>3. u \in Nat /\ w \in Nat
    BY CountedFinite DEF Exact
  <1>4. (\E c \in WritersOf(h, uq) : h[c] # "upgrade")
        => UpgradersOf(h) # WritersOf(h, uq)
    BY DEF UpgradersOf
  <1> QED
    BY <1>2, <1>3, <1>4

(* A client without a token gets one.                                      *)
LEMMA GrantExact ==
    ASSUME NEW r, NEW w, NEW u, NEW h \in [Clients -> Access],
           NEW uq \in SUBSET Clients, Exact(r, w, u, h, uq),
           NEW c \in Clients, h[c] = "none", c \notin uq,
           NEW a \in Access
    PROVE  Exact(r + Reads(a), w + Writes(a), u + Upgrades(a),
                 [h EXCEPT ![c] = a], uq)
  <1> DEFINE g == [h EXCEPT ![c] = a]
  <1>1. /\ ReadersOf(g) = IF a = "read" THEN ReadersOf(h) \cup {c}
                          ELSE ReadersOf(h)
        /\ c \notin ReadersOf(h)
    BY DEF ReadersOf
  <1>2. /\ UpgradersOf(g) = IF a = "upgrade" THEN UpgradersOf(h) \cup {c}
                            ELSE UpgradersOf(h)
        /\ c \notin UpgradersOf(h)
    BY DEF UpgradersOf
  <1>3. /\ WritersOf(g, uq) = IF a \in {"upgrade", "write"}
                              THEN WritersOf(h, uq) \cup {c}
                              ELSE WritersOf(h, uq)
        /\ c \notin WritersOf(h, uq)
    BY DEF WritersOf
  <1> HIDE DEF g
  <1>4. Cardinality(ReadersOf(g)) = r + Reads(a)
    <2>1. Cardinality(ReadersOf(h) \cup {c})
           = IF c \in ReadersOf(h) THEN Cardinality(ReadersOf(h)) ELSE Cardinality(ReadersOf(h)) + 1
      BY CountedFinite, FS_AddElement
    <2>2. r = Cardinality(ReadersOf(h)) /\ r \in Nat
      BY CountedFinite DEF Exact
    <2> QED
      BY <1>1, <2>1, <2>2 DEF Reads
  <1>5. Cardinality(UpgradersOf(g)) = u + Upgrades(a)
    <2>1. Cardinality(UpgradersOf(h) \cup {c})
           = IF c \in UpgradersOf(h) THEN Cardinality(UpgradersOf(h)) ELSE Cardinality(UpgradersOf(h)) + 1
      BY CountedFinite, FS_AddElement
    <2>2. u = Cardinality(UpgradersOf(h)) /\ u \in Nat
      BY CountedFinite DEF Exact
    <2> QED
      BY <1>2, <2>1, <2>2 DEF Upgrades
  <1>6. Cardinality(WritersOf(g, uq)) = w + Writes(a)
    <2>1. Cardinality(WritersOf(h, uq) \cup {c})
           = IF c \in WritersOf(h, uq) THEN Cardinality(WritersOf(h, uq)) ELSE Cardinality(WritersOf(h, uq)) + 1
      BY CountedFinite, FS_AddElement
    <2>2. w = Cardinality(WritersOf(h, uq)) /\ w \in Nat
      BY CountedFinite DEF Exact
    <2> QED
      BY <1>3, <2>1, <2>2 DEF Writes
  <1>7. Exact(r + Reads(a), w + Writes(a), u + Upgrades(a), g, uq)
    BY <1>4, <1>5, <1>6 DEF Exact
  <1> QED
    BY <1>7 DEF g

(* A token is destroyed.                                                   *)
LEMMA ReleaseExact ==
    ASSUME NEW r, NEW w, NEW u, NEW h \in [Clients -> Access],
           NEW uq \in SUBSET Clients, Exact(r, w, u, h, uq),
           NEW c \in Clients, c \notin uq
    PROVE  Exact(r - Reads(h[c]), w - Writes(h[c]), u - Upgrades(h[c]),
                 [h EXCEPT ![c] = "none"], uq)
  <1> DEFINE g == [h EXCEPT ![c] = "none"]
  <1>1. /\ ReadersOf(g) = ReadersOf(h) \ {c}
        /\ c \in ReadersOf(h) <=> h[c] = "read"
    BY DEF ReadersOf
  <1>2. /\ UpgradersOf(g) = UpgradersOf(h) \ {c}
        /\ c \in UpgradersOf(h) <=> h[c] = "upgrade"
    BY DEF UpgradersOf
  <1>3. /\ WritersOf(g, uq) = WritersOf(h, uq) \ {c}
        /\ c \in WritersOf(h, uq) <=> h[c] \in {"upgrade", "write"}
    BY DEF WritersOf
  <1> HIDE DEF g
  <1>4. Cardinality(ReadersOf(g)) = r - Reads(h[c])
    <2>1. Cardinality(ReadersOf(h) \ {c})
           = IF c \in ReadersOf(h) THEN Cardinality(ReadersOf(h)) - 1 ELSE Cardinality(ReadersOf(h))
      BY CountedFinite, FS_RemoveElement
    <2>2. r = Cardinality(ReadersOf(h)) /\ r \in Nat
      BY CountedFinite DEF Exact
    <2> QED
      BY <1>1, <2>1, <2>2 DEF Reads
  <1>5. Cardinality(UpgradersOf(g)) = u - Upgrades(h[c])
    <2>1. Cardinality(UpgradersOf(h) \ {c})
           = IF c \in UpgradersOf(h) THEN Cardinality(UpgradersOf(h)) - 1 ELSE Cardinality(UpgradersOf(h))
      BY CountedFinite, FS_RemoveElement
    <2>2. u = Cardinality(UpgradersOf(h)) /\ u \in Nat
      BY CountedFinite DEF Exact
    <2> QED
      BY <1>2, <2>1, <2>2 DEF Upgrades
  <1>6. Cardinality(WritersOf(g, uq)) = w - Writes(h[c])
    <2>1. Cardinality(WritersOf(h, uq) \ {c})
           = IF c \in WritersOf(h, uq) THEN Cardinality(WritersOf(h, uq)) - 1 ELSE Cardinality(WritersOf(h, uq))
      BY CountedFinite, FS_RemoveElement
    <2>2. w = Cardinality(WritersOf(h, uq)) /\ w \in Nat
      BY CountedFinite DEF Exact
    <2> QED
      BY <1>3, <2>1, <2>2 DEF Writes
  <1>7. Exact(r - Reads(h[c]), w - Writes(h[c]), u - Upgrades(h[c]), g, uq)
    BY <1>4, <1>5, <1>6 DEF Exact
  <1> QED
    BY <1>7 DEF g

(* All requests of upgraders are granted: they are counted already.        *)
LEMMA UpgradersExact ==
    ASSUME NEW r, NEW w, NEW u, NEW h \in [Clients -> Access],
           NEW uq \in SUBSET Clients, Exact(r, w, u, h, uq),
           \A c \in uq : h[c] = "none"
    PROVE  Exact(r, w, u,
                 [c \in Clients |-> IF c \in uq THEN "write" ELSE h[c]], {})
  <1> DEFINE g == [c \in Clients |-> IF c \in uq THEN "write" ELSE h[c]]
  <1>1. ReadersOf(g) = ReadersOf(h)
    BY DEF ReadersOf
  <1>2. UpgradersOf(g) = UpgradersOf(h)
    BY DEF UpgradersOf
  <1>3. WritersOf(g, {}) = WritersOf(h, uq)
    BY DEF WritersOf
  <1> QED
    BY <1>1, <1>2, <1>3 DEF Exact

(* All requests for read access are granted.                               *)
LEMMA ReadersExact ==
    ASSUME NEW r, NEW w, NEW u, NEW h \in [Clients -> Access],
           NEW uq \in SUBSET Clients, Exact(r, w, u, h, uq),
           NEW rq \in SUBSET Clients, \A c \in rq : h[c] = "none"
    PROVE  Exact(r + Cardinality(rq), w, u,
                 [c \in Clients |-> IF c \in rq THEN "read" ELSE h[c]], uq)
  <1> DEFINE g == [c \in Clients |-> IF c \in rq THEN "read" ELSE h[c]]
  <1>1. /\ ReadersOf(g) = ReadersOf(h) \cup rq
        /\ ReadersOf(h) \cap rq = {}
    BY DEF ReadersOf
  <1>2. UpgradersOf(g) = UpgradersOf(h)
    BY DEF UpgradersOf
  <1>3. WritersOf(g, uq) = WritersOf(h, uq)
    BY DEF WritersOf
  <1>4. IsFiniteSet(rq) /\ Cardinality(rq) \in Nat
    BY ClientsAssumption, FS_Subset, FS_CardinalityType
  <1>5. Cardinality(ReadersOf(h) \cup rq) = r + Cardinality(rq)
    BY <1>1, <1>4, CountedFinite, FS_Union, FS_EmptySet DEF Exact
  <1>6. Cardinality(ReadersOf(g)) = r + Cardinality(rq)
    BY <1>1, <1>5
  <1> QED
    BY <1>2, <1>3, <1>6 DEF Exact

(* The invariant of the counters in terms of Exact.                        *)
LEMMA ExactNow ==
    CountersExact <=> Exact(active_readers_, active_writers_,
                            upgrade_active_, held, u_queue_)
  BY DEF CountersExact, Exact, Readers, Writers, Upgraders,
         ReadersOf, WritersOf, UpgradersOf

LEMMA ExactNext ==
    CountersExact' <=> Exact(active_readers_', active_writers_',
                             upgrade_active_', held', u_queue_')
  BY DEF CountersExact, Exact, Readers, Writers, Upgraders,
         ReadersOf, WritersOf, UpgradersOf

(* Writers in terms of WritersOf, now and after a step.                    *)
LEMMA WritersNow ==
    /\ Writers = WritersOf(held, u_queue_)
    /\ Writers' = WritersOf(held', u_queue_')
  BY DEF Writers, WritersOf

-----------------------------------------------------------------------------
(* The steps.                                                              *)

LEMMA InitIInv == Init => IInv
  <1> SUFFICES ASSUME Init PROVE IInv
    OBVIOUS
  <1>1. TypeOK
    BY DEF Init, TypeOK, Access
  <1>2. /\ Readers = {} /\ Writers = {} /\ Upgraders = {}
    BY DEF Init, Readers, Writers, Upgraders
  <1>3. CountersExact /\ OneFamily
    BY <1>2, FS_EmptySet DEF Init, CountersExact, OneFamily
  <1>4. WaitOK /\ NobodyStranded
    BY DEF Init, WaitOK, NobodyStranded, Queued
  <1> QED
    BY <1>1, <1>3, <1>4 DEF IInv

LEMMA StutterIInv == IInv /\ UNCHANGED vars => IInv'
  <1> SUFFICES ASSUME IInv, UNCHANGED vars PROVE IInv'
    OBVIOUS
  <1> USE DEF vars, counters, queues
  <1>1. TypeOK' /\ NobodyStranded'
    BY DEF IInv, TypeOK, NobodyStranded
  <1>2. WaitOK'
    BY DEF IInv, WaitOK, Queued
  <1>3. CountersExact' /\ OneFamily'
    BY DEF IInv, CountersExact, OneFamily, Readers, Writers, Upgraders
  <1> QED
    BY <1>1, <1>2, <1>3 DEF IInv

(* A grant keeps the invariant if write access is not given to a second    *)
(* family.                                                                 *)
LEMMA GrantStep ==
    ASSUME IInv, NEW c \in Clients, Idle(c), NEW a \in Access \ {"none"},
           NEW origin \in Clients, Grant(c, a, origin), plain' \subseteq Clients,
           \/ a = "read"
           \/ Writers = {}
           \/ \E d \in Writers : family[d] = origin
    PROVE  IInv'
  <1> USE DEF Grant, queues
  <1>1. TypeOK /\ WaitOK /\ CountersExact /\ OneFamily /\ NobodyStranded
    BY DEF IInv
  <1>2. held[c] = "none" /\ c \notin u_queue_ /\ ~Queued(c)
    BY DEF Idle, Queued
  <1>3. Reads(a) \in Nat /\ Writes(a) \in Nat /\ Upgrades(a) \in Nat
        /\ Writes(a) >= Upgrades(a)
    BY DEF Reads, Writes, Upgrades
  <1>4. TypeOK'
    BY <1>1, <1>3 DEF TypeOK, Count
  <1>5. WaitOK'
    BY <1>1, <1>2 DEF WaitOK, Queued, TypeOK
  <1>6. CountersExact'
    <2>1. Exact(active_readers_ + Reads(a), active_writers_ + Writes(a),
                upgrade_active_ + Upgrades(a), [held EXCEPT ![c] = a], u_queue_)
      BY <1>1, <1>2, GrantExact, ExactNow DEF TypeOK
    <2> QED
      BY <2>1, ExactNext DEF Count
  <1>7. OneFamily'
    <2>1. Writers' = IF a = "read" THEN Writers ELSE Writers \cup {c}
      BY <1>1, <1>2 DEF Writers, TypeOK, Access
    <2>2. c \notin Writers
      BY <1>2 DEF Writers
    <2> QED
      BY <1>1, <2>1, <2>2 DEF OneFamily, TypeOK, Writers
  <1>8. NobodyStranded'
    BY <1>1, <1>3 DEF NobodyStranded, TypeOK, Count
  <1> QED
    BY <1>4, <1>5, <1>6, <1>7, <1>8 DEF IInv

(* Nobody is active: there are no writers.                                 *)
LEMMA NoWritersNow ==
    ASSUME IInv, active_writers_ = 0
    PROVE  Writers = {} /\ upgrade_active_ = 0
  <1>1. TypeOK /\ CountersExact
    BY DEF IInv
  <1>2. Exact(active_readers_, active_writers_, upgrade_active_, held, u_queue_)
        /\ u_queue_ \in SUBSET Clients
    BY <1>1, ExactNow DEF TypeOK
  <1>3. WritersOf(held, u_queue_) = {}
    BY <1>2, NoWriters
  <1>4. active_writers_ >= upgrade_active_
    BY <1>2, MoreWriters
  <1> QED
    BY <1>1, <1>3, <1>4, WritersNow DEF TypeOK

LEMMA QueueIInv ==
    ASSUME IInv, NEW c \in Clients, NEW a \in Access \ {"none"}, Queue(c, a)
    PROVE  IInv'
  <1> DEFINE now == \/ a = "read"
                       /\ (active_writers_ = 0 \/ upgrade_active_ # 0)
                    \/ a # "read" /\ NobodyActive
  <1>1. TypeOK /\ WaitOK /\ CountersExact /\ OneFamily /\ NobodyStranded
    BY DEF IInv
  <1>2. Idle(c) /\ plain' = plain
    BY DEF Queue
  <1>3. CASE now
    <2>1. Grant(c, a, c)
      BY <1>3 DEF Queue
    <2>2. a = "read" \/ Writers = {}
      BY <1>3, NoWritersNow DEF NobodyActive
    <2> QED
      BY <1>1, <1>2, <2>1, <2>2, GrantStep DEF TypeOK
  <1>4. CASE ~now
    <2>1. /\ UNCHANGED <<counters, u_queue_, held, serving>>
          /\ family' = [family EXCEPT ![c] = c]
      BY <1>4 DEF Queue
    <2>2. \/ /\ a = "read"
             /\ r_queue_' = r_queue_ \cup {c}
             /\ UNCHANGED w_queue_
          \/ /\ a # "read"
             /\ w_queue_' = Append(w_queue_, [access |-> a, client |-> c])
             /\ UNCHANGED r_queue_
      BY <1>4 DEF Queue
    <2>3. /\ held[c] = "none" /\ c \notin r_queue_ /\ c \notin u_queue_
          /\ \A i \in DOMAIN w_queue_ : w_queue_[i].client # c
      BY <1>2 DEF Idle, Queued
    <2>4. a # "read" => [access |-> a, client |-> c] \in Requests
      BY DEF Access, Requests
    <2>5. TypeOK'
      <3>1. w_queue_' \in Seq(Requests) /\ r_queue_' \subseteq Clients
        <4>1. CASE a = "read"
          BY <1>1, <2>2, <4>1 DEF TypeOK
        <4>2. CASE a # "read"
          <5> DEFINE e == [access |-> a, client |-> c]
          <5>1. /\ w_queue_' = Append(w_queue_, e) /\ r_queue_' = r_queue_
                /\ e \in Requests /\ w_queue_ \in Seq(Requests)
            BY <1>1, <2>2, <2>4, <4>2 DEF TypeOK
          <5> HIDE DEF e
          <5> QED
            BY <1>1, <5>1, AppendProperties DEF TypeOK
        <4> QED
          BY <4>1, <4>2
      <3> QED
        BY <1>1, <1>2, <2>1, <3>1 DEF TypeOK, counters
    <2>6. WaitOK'
      <3>1. CASE a = "read"
        BY <1>1, <2>1, <2>2, <2>3, <3>1 DEF WaitOK, Queued
      <3>2. CASE a # "read"
        <4> DEFINE e == [access |-> a, client |-> c]
        <4>1. /\ w_queue_ \in Seq(Requests) /\ e \in Requests
              /\ w_queue_' = Append(w_queue_, e)
              /\ UNCHANGED <<r_queue_, u_queue_, held>>
          BY <1>1, <2>1, <2>2, <2>4, <3>2 DEF TypeOK
        <4>2. /\ DOMAIN w_queue_' = 1 .. Len(w_queue_) + 1
              /\ DOMAIN w_queue_ = 1 .. Len(w_queue_)
              /\ Len(w_queue_) \in Nat
              /\ \A i \in 1 .. Len(w_queue_) : w_queue_'[i] = w_queue_[i]
              /\ w_queue_'[Len(w_queue_) + 1].client = c
          BY <4>1, AppendProperties, LenProperties
        <4> HIDE DEF e
        <4>3. \A i \in DOMAIN w_queue_' :
                 \/ i \in DOMAIN w_queue_ /\ w_queue_'[i] = w_queue_[i]
                 \/ i = Len(w_queue_) + 1 /\ w_queue_'[i].client = c
          BY <4>2
        <4>4. \A x \in Clients : Queued(x)' => Queued(x) \/ x = c
          BY <4>1, <4>3 DEF Queued
        <4>5. \A i \in DOMAIN w_queue_' :
                 w_queue_'[i].client \notin r_queue_' \cup u_queue_'
          BY <1>1, <2>3, <4>1, <4>3 DEF WaitOK
        <4>6. \A i, j \in DOMAIN w_queue_' :
                 w_queue_'[i].client = w_queue_'[j].client => i = j
          BY <1>1, <2>3, <4>3 DEF WaitOK
        <4> QED
          BY <1>1, <2>3, <4>1, <4>4, <4>5, <4>6 DEF WaitOK
      <3> QED
        BY <3>1, <3>2
    <2>7. CountersExact'
      BY <1>1, <2>1 DEF CountersExact, Readers, Writers, Upgraders, counters
    <2>8. OneFamily'
      <3>1. Writers' = Writers /\ c \notin Writers
        BY <2>1, <2>3 DEF Writers
      <3> QED
        BY <1>1, <2>1, <3>1 DEF OneFamily, TypeOK, Writers
    <2>9. NobodyStranded'
      <3>1. a = "read" => active_writers_ > upgrade_active_
        BY <1>1, <1>4 DEF TypeOK
      <3>2. a # "read" => active_writers_ > 0 \/ active_readers_ > 0
        BY <1>1, <1>4 DEF TypeOK, NobodyActive
      <3> QED
        BY <1>1, <2>1, <2>2, <3>1, <3>2 DEF NobodyStranded, counters
    <2> QED
      BY <2>5, <2>6, <2>7, <2>8, <2>9 DEF IInv
  <1> QED
    BY <1>3, <1>4

LEMMA TryImmediateIInv ==
    ASSUME IInv, NEW c \in Clients, NEW a \in Access \ {"none"},
           TryImmediate(c, a)
    PROVE  IInv'
  <1>1. /\ Idle(c) /\ Grant(c, a, c) /\ plain' = plain /\ Available(a)
        /\ plain \subseteq Clients
    BY DEF TryImmediate, IInv, TypeOK
  <1>2. a = "read" \/ active_writers_ = 0
    BY <1>1 DEF Available, NobodyActive
  <1> QED
    BY <1>1, <1>2, NoWritersNow, GrantStep

LEMMA LockIInv ==
    ASSUME IInv, NEW c \in Clients,
           Lock(c) \/ LockShared(c) \/ TryLockShared(c)
    PROVE  IInv'
  <1>1. plain \subseteq Clients
    BY DEF IInv, TypeOK
  <1>2. CASE Lock(c)
    <2>1. Idle(c) /\ Grant(c, "write", c) /\ plain' \subseteq Clients
          /\ active_writers_ = 0
      BY <1>1, <1>2 DEF Lock, NobodyActive
    <2> QED
      BY <2>1, NoWritersNow, GrantStep DEF Access
  <1>3. CASE LockShared(c) \/ TryLockShared(c)
    <2>1. Idle(c) /\ Grant(c, "read", c) /\ plain' \subseteq Clients
      BY <1>1, <1>3 DEF LockShared, TryLockShared
    <2> QED
      BY <2>1, GrantStep DEF Access
  <1> QED
    BY <1>2, <1>3

LEMMA DeriveIInv ==
    ASSUME IInv, NEW c \in Clients, NEW d \in Clients,
           Copy(c, d) \/ DowngradeToRead(c, d) \/ DowngradeToUpgrade(c, d)
    PROVE  IInv'
  <1>1. /\ plain \subseteq Clients /\ held \in [Clients -> Access]
        /\ family[c] \in Clients
    BY DEF IInv, TypeOK
  <1>2. held[c] \in {"upgrade", "write"} => c \in Writers
    BY DEF Writers
  <1>3. PICK a \in Access \ {"none"} :
          /\ Idle(d) /\ Grant(d, a, family[c]) /\ plain' = plain
          /\ a = "read" \/ held[c] \in {"upgrade", "write"}
    <2>1. CASE Copy(c, d)
      <3>1. /\ held[c] \in Access \ {"none"} /\ Idle(d)
            /\ Grant(d, held[c], family[c]) /\ plain' = plain
        BY <1>1, <2>1 DEF Copy
      <3> QED
        BY <3>1 DEF Access
    <2>2. CASE DowngradeToRead(c, d)
      BY <2>2 DEF DowngradeToRead, Access
    <2>3. CASE DowngradeToUpgrade(c, d)
      BY <2>3 DEF DowngradeToUpgrade, Access
    <2> QED
      BY <2>1, <2>2, <2>3
  <1> QED
    BY <1>1, <1>2, <1>3, GrantStep

LEMMA UpgradeToWriteIInv ==
    ASSUME IInv, NEW c \in Clients, NEW d \in Clients, UpgradeToWrite(c, d)
    PROVE  IInv'
  <1>1. TypeOK /\ WaitOK /\ CountersExact /\ OneFamily /\ NobodyStranded
    BY DEF IInv
  <1>2. /\ held[c] = "upgrade" /\ Idle(d)
        /\ active_writers_' = active_writers_ + 1
        /\ family' = [family EXCEPT ![d] = family[c]]
        /\ UNCHANGED <<active_readers_, upgrade_active_, w_queue_, r_queue_,
                       plain, serving>>
    BY DEF UpgradeToWrite
  <1>3. \/ /\ active_readers_ = 0
           /\ held' = [held EXCEPT ![d] = "write"]
           /\ UNCHANGED u_queue_
        \/ /\ active_readers_ # 0
           /\ u_queue_' = u_queue_ \cup {d}
           /\ UNCHANGED held
    BY DEF UpgradeToWrite
  <1>4. /\ held[d] = "none" /\ ~Queued(d) /\ d \notin u_queue_
        /\ d \notin r_queue_
        /\ \A i \in DOMAIN w_queue_ : w_queue_[i].client # d
    BY <1>2 DEF Idle, Queued
  <1>5. TypeOK'
    BY <1>1, <1>2, <1>3 DEF TypeOK, Access
  <1>6. WaitOK'
    BY <1>1, <1>2, <1>3, <1>4 DEF WaitOK, Queued, TypeOK
  <1>7. CountersExact'
    <2>1. /\ Readers' = Readers /\ Upgraders' = Upgraders
          /\ Writers' = Writers \cup {d} /\ d \notin Writers
      BY <1>1, <1>3, <1>4 DEF Readers, Upgraders, Writers, TypeOK
    <2>2. IsFiniteSet(Writers)
      BY <1>1, CountedFinite, WritersNow DEF TypeOK
    <2>3. Cardinality(Writers \cup {d}) = Cardinality(Writers) + 1
      BY <2>1, <2>2, FS_AddElement
    <2> QED
      BY <1>1, <1>2, <2>1, <2>3 DEF CountersExact
  <1>8. OneFamily'
    <2>1. /\ Writers' = Writers \cup {d} /\ d \notin Writers /\ c \in Writers
          /\ Writers \subseteq Clients
      BY <1>1, <1>2, <1>3, <1>4 DEF Writers, TypeOK
    <2> QED
      BY <1>1, <1>2, <2>1 DEF OneFamily, TypeOK
  <1>9. NobodyStranded'
    BY <1>1, <1>2, <1>3 DEF NobodyStranded, TypeOK
  <1> QED
    BY <1>5, <1>6, <1>7, <1>8, <1>9 DEF IInv

-----------------------------------------------------------------------------
(* unlock_.                                                                *)

(* What holds of the counters and the tokens once client c's token is gone. *)
ReleasedBy(c, readers, writers, upgraders, tokens) ==
    /\ Exact(readers, writers, upgraders, tokens, u_queue_)
    /\ tokens \in [Clients -> Access]
    /\ readers \in Nat /\ writers \in Nat /\ upgraders \in Nat
    /\ writers >= upgraders
    /\ u_queue_ # {} => writers > upgraders
    /\ writers = 0 => WritersOf(tokens, u_queue_) = {}
    /\ WritersOf(tokens, u_queue_) \subseteq Writers
    /\ \A x \in Clients : Queued(x) => x # c /\ tokens[x] = "none"
    /\ \A x \in Clients : tokens[x] # "none" => held[x] # "none"
    /\ u_queue_ \in SUBSET Clients /\ r_queue_ \in SUBSET Clients

(* The state between the release and what unlock_ serves afterwards.       *)
LEMMA Released ==
    ASSUME IInv, NEW c \in Clients, held[c] # "none",
           NEW readers, readers = active_readers_ - Reads(held[c]),
           NEW writers, writers = active_writers_ - Writes(held[c]),
           NEW upgraders, upgraders = upgrade_active_ - Upgrades(held[c]),
           NEW tokens, tokens = [held EXCEPT ![c] = "none"]
    PROVE  ReleasedBy(c, readers, writers, upgraders, tokens)
  <1>1. TypeOK /\ WaitOK /\ CountersExact
    BY DEF IInv
  <1>2. \A x \in Clients : Queued(x) => x # c /\ held[x] = "none"
    BY <1>1 DEF WaitOK
  <1>3. u_queue_ \in SUBSET Clients /\ r_queue_ \in SUBSET Clients
        /\ c \notin u_queue_
    BY <1>1, <1>2 DEF TypeOK, Queued
  <1>4. tokens \in [Clients -> Access]
    BY <1>1 DEF TypeOK, Access
  <1>5. Exact(readers, writers, upgraders, tokens, u_queue_)
    BY <1>1, <1>3, ExactNow, ReleaseExact DEF TypeOK
  <1>6. readers \in Nat /\ writers \in Nat /\ upgraders \in Nat
    BY <1>3, <1>5, CountedFinite DEF Exact
  <1>7. \A x \in Clients : Queued(x) => x # c /\ tokens[x] = "none"
    BY <1>1, <1>2 DEF TypeOK
  <1>8. u_queue_ # {}
        => \E x \in WritersOf(tokens, u_queue_) : tokens[x] # "upgrade"
    BY <1>3, <1>7 DEF WritersOf, Queued
  <1>9. writers >= upgraders /\ (u_queue_ # {} => writers > upgraders)
    BY <1>3, <1>5, <1>8, MoreWriters
  <1>10. writers = 0 => WritersOf(tokens, u_queue_) = {}
    BY <1>3, <1>5, NoWriters
  <1>11. WritersOf(tokens, u_queue_) \subseteq Writers
    BY <1>1 DEF WritersOf, Writers, TypeOK
  <1>12. \A x \in Clients : tokens[x] # "none" => held[x] # "none"
    BY <1>1 DEF TypeOK
  <1> QED
    BY <1>3, <1>4, <1>5, <1>6, <1>7, <1>9, <1>10, <1>11, <1>12
    DEF ReleasedBy

(* Readers are served, from tokens that are counted exactly.               *)
LEMMA ServeReadersStep ==
    ASSUME NEW readers \in Nat, NEW writers \in Nat, NEW upgraders \in Nat,
           NEW tokens \in [Clients -> Access],
           r_queue_ \in SUBSET Clients, u_queue_ \in SUBSET Clients,
           r_queue_ \cap u_queue_ = {},
           Exact(readers, writers, upgraders, tokens, u_queue_),
           \A x \in r_queue_ : tokens[x] = "none",
           ServeReaders(readers, writers, upgraders, tokens)
    PROVE  /\ Exact(active_readers_', writers, upgraders, held', u_queue_)
           /\ held' \in [Clients -> Access]
           /\ active_readers_' \in Nat /\ active_readers_' >= readers
           /\ r_queue_' \subseteq r_queue_
           /\ r_queue_' # {} => writers # upgraders
           /\ \A x \in Clients :
                 held'[x] = tokens[x] \/ (x \in r_queue_ /\ r_queue_' = {})
           /\ WritersOf(held', u_queue_) = WritersOf(tokens, u_queue_)
  <1>1. Cardinality(r_queue_) \in Nat
    BY ClientsAssumption, FS_Subset, FS_CardinalityType
  <1>2. CASE writers = upgraders
    <2>1. /\ active_readers_' = readers + Cardinality(r_queue_)
          /\ r_queue_' = {}
          /\ held' = [c \in Clients |->
                         IF c \in r_queue_ THEN "read" ELSE tokens[c]]
      BY <1>2 DEF ServeReaders
    <2>2. Exact(active_readers_', writers, upgraders, held', u_queue_)
      BY <2>1, ReadersExact
    <2>3. WritersOf(held', u_queue_) = WritersOf(tokens, u_queue_)
      BY <2>1 DEF WritersOf
    <2> QED
      BY <1>1, <2>1, <2>2, <2>3 DEF Access
  <1>3. CASE writers # upgraders
    <2>1. active_readers_' = readers /\ r_queue_' = r_queue_
      BY <1>3 DEF ServeReaders
    <2>2. held' = tokens
      BY <1>3 DEF ServeReaders
    <2> QED
      BY <1>3, <2>1, <2>2
  <1> QED
    BY <1>2, <1>3

LEMMA UnlockReadersIInv ==
    ASSUME IInv, NEW c \in Clients, UnlockReaders(c)
    PROVE  IInv'
  <1>1. TypeOK /\ WaitOK /\ CountersExact /\ OneFamily /\ NobodyStranded
    BY DEF IInv
  <1>2. /\ ServeReaders(active_readers_, active_writers_, upgrade_active_, held)
        /\ serving' = serving \ {c}
        /\ UNCHANGED <<active_writers_, upgrade_active_, w_queue_, u_queue_,
                       plain, family>>
    BY DEF UnlockReaders
  <1>3. Exact(active_readers_, active_writers_, upgrade_active_, held, u_queue_)
    BY <1>1, ExactNow
  <1>4. \A x \in r_queue_ : held[x] = "none"
    BY <1>1 DEF WaitOK, Queued, TypeOK
  <1>5. r_queue_ \in SUBSET Clients /\ u_queue_ \in SUBSET Clients
        /\ r_queue_ \cap u_queue_ = {}
        /\ active_readers_ \in Nat /\ active_writers_ \in Nat
        /\ upgrade_active_ \in Nat /\ held \in [Clients -> Access]
    BY <1>1 DEF TypeOK, WaitOK
  <1>6. /\ Exact(active_readers_', active_writers_, upgrade_active_, held',
                 u_queue_)
        /\ held' \in [Clients -> Access]
        /\ active_readers_' \in Nat /\ active_readers_' >= active_readers_
        /\ r_queue_' \subseteq r_queue_
        /\ r_queue_' # {} => active_writers_ # upgrade_active_
        /\ \A x \in Clients :
              held'[x] = held[x] \/ (x \in r_queue_ /\ r_queue_' = {})
        /\ WritersOf(held', u_queue_) = WritersOf(held, u_queue_)
    BY <1>2, <1>3, <1>4, <1>5, ServeReadersStep
  <1>7. TypeOK'
    BY <1>1, <1>2, <1>6 DEF TypeOK
  <1>8. WaitOK'
    <2>1. ASSUME NEW x \in Clients, Queued(x)' PROVE held'[x] = "none"
      <3>1. Queued(x)
        BY <1>2, <1>6, <2>1 DEF Queued
      <3>2. held[x] = "none"
        BY <1>1, <3>1 DEF WaitOK
      <3>3. ~(x \in r_queue_ /\ r_queue_' = {})
        BY <1>1, <1>2, <2>1 DEF Queued, WaitOK
      <3> QED
        BY <1>6, <3>2, <3>3
    <2> QED
      BY <1>1, <1>2, <1>6, <2>1 DEF WaitOK
  <1>9. CountersExact'
    BY <1>2, <1>6, ExactNext
  <1>10. OneFamily'
    BY <1>1, <1>2, <1>6, WritersNow DEF OneFamily
  <1>11. NobodyStranded'
    <2>1. active_writers_ >= upgrade_active_
      BY <1>3, <1>5, MoreWriters
    <2> QED
      BY <1>1, <1>2, <1>5, <1>6, <2>1 DEF NobodyStranded
  <1> QED
    BY <1>7, <1>8, <1>9, <1>10, <1>11 DEF IInv

(* The three things unlock_ does next, with those counters and tokens.      *)
Serves(c, readers, writers, upgraders, tokens) ==
    \/ /\ u_queue_ # {}
       /\ ServeUpgraders(readers, tokens)
       /\ active_readers_' = readers
       /\ active_writers_' = writers
       /\ upgrade_active_' = upgraders
       /\ UNCHANGED serving
    \/ /\ u_queue_ = {} /\ WriterNext(writers)
       /\ w_queue_' = Tail(w_queue_)
       /\ active_readers_' = readers
       /\ active_writers_' = writers + 1
       /\ upgrade_active_' = upgraders + Upgrades(Head(w_queue_).access)
       /\ held' = [tokens EXCEPT ![Head(w_queue_).client]
                                     = Head(w_queue_).access]
       /\ serving' = IF Head(w_queue_).access = "upgrade"
                     THEN serving \cup {c} ELSE serving
       /\ UNCHANGED <<r_queue_, u_queue_>>
    \/ /\ u_queue_ = {} /\ ~WriterNext(writers)
       /\ ServeReaders(readers, writers, upgraders, tokens)
       /\ active_writers_' = writers
       /\ upgrade_active_' = upgraders
       /\ UNCHANGED <<w_queue_, u_queue_, serving>>

LEMMA ServesIInv ==
    ASSUME IInv, NEW c \in Clients,
           NEW readers, NEW writers, NEW upgraders, NEW tokens,
           ReleasedBy(c, readers, writers, upgraders, tokens),
           Serves(c, readers, writers, upgraders, tokens),
           plain' = plain \ {c}, family' = family
    PROVE  IInv'
  <1>1. TypeOK /\ WaitOK /\ CountersExact /\ OneFamily /\ NobodyStranded
    BY DEF IInv
  <1>2. /\ plain' = plain \ {c} /\ family' = family
    OBVIOUS
  <1>3. /\ Exact(readers, writers, upgraders, tokens, u_queue_)
        /\ tokens \in [Clients -> Access]
        /\ readers \in Nat /\ writers \in Nat /\ upgraders \in Nat
        /\ writers >= upgraders
        /\ u_queue_ # {} => writers > upgraders
        /\ writers = 0 => WritersOf(tokens, u_queue_) = {}
        /\ WritersOf(tokens, u_queue_) \subseteq Writers
        /\ \A x \in Clients : Queued(x) => x # c /\ tokens[x] = "none"
        /\ \A x \in Clients : tokens[x] # "none" => held[x] # "none"
        /\ u_queue_ \in SUBSET Clients /\ r_queue_ \in SUBSET Clients
    BY DEF ReleasedBy
  <1>4. CASE /\ u_queue_ # {}
             /\ ServeUpgraders(readers, tokens)
             /\ active_readers_' = readers
             /\ active_writers_' = writers
             /\ upgrade_active_' = upgraders
             /\ UNCHANGED serving
    <2>1. w_queue_' = w_queue_ /\ r_queue_' = r_queue_
      BY <1>4 DEF ServeUpgraders
    <2>2. \/ /\ readers = 0
             /\ u_queue_' = {}
             /\ held' = [x \in Clients |->
                            IF x \in u_queue_ THEN "write" ELSE tokens[x]]
          \/ readers # 0 /\ u_queue_' = u_queue_ /\ held' = tokens
      BY <1>4 DEF ServeUpgraders
    <2>3. \A x \in u_queue_ : tokens[x] = "none"
      BY <1>3 DEF Queued
    <2>4. Exact(readers, writers, upgraders, held', u_queue_')
      <3>1. Exact(readers, writers, upgraders,
                  [x \in Clients |-> IF x \in u_queue_ THEN "write"
                                     ELSE tokens[x]], {})
        BY <1>3, <2>3, UpgradersExact
      <3> QED
        BY <1>3, <2>2, <3>1
    <2>5. CountersExact'
      BY <1>4, <2>4, ExactNext
    <2>6. TypeOK'
      <3>1. held' \in [Clients -> Access]
        BY <1>3, <2>2 DEF Access
      <3>2. active_readers_' \in Nat /\ active_writers_' \in Nat
            /\ upgrade_active_' \in Nat
        BY <1>3, <1>4
      <3>3. w_queue_' \in Seq(Requests) /\ r_queue_' \subseteq Clients
            /\ u_queue_' \subseteq Clients /\ serving' \subseteq Clients
        BY <1>1, <1>4, <2>1, <2>2 DEF TypeOK
      <3>4. plain' \subseteq Clients /\ family' \in [Clients -> Clients]
        BY <1>1, <1>2 DEF TypeOK
      <3> QED
        BY <3>1, <3>2, <3>3, <3>4 DEF TypeOK
    <2>7. WaitOK'
      <3>1. ASSUME NEW x \in Clients, Queued(x)' PROVE held'[x] = "none"
        <4>1. Queued(x)
          BY <2>1, <2>2, <3>1 DEF Queued
        <4>2. x \notin u_queue_ \/ u_queue_' = u_queue_
          BY <1>1, <2>1, <2>2, <3>1 DEF Queued, WaitOK
        <4> QED
          BY <1>3, <2>2, <4>1, <4>2
      <3> QED
        BY <1>1, <2>1, <2>2, <3>1 DEF WaitOK
    <2>8. OneFamily'
      <3>1. WritersOf(held', u_queue_') \subseteq WritersOf(tokens, u_queue_)
        BY <1>3, <2>2 DEF WritersOf
      <3> QED
        BY <1>1, <1>2, <1>3, <3>1, WritersNow DEF OneFamily
    <2>9. NobodyStranded'
      BY <1>1, <1>3, <1>4, <2>1, <2>2 DEF NobodyStranded
    <2> QED
      BY <2>5, <2>6, <2>7, <2>8, <2>9 DEF IInv
  <1>5. CASE /\ u_queue_ = {} /\ WriterNext(writers)
             /\ w_queue_' = Tail(w_queue_)
             /\ active_readers_' = readers
             /\ active_writers_' = writers + 1
             /\ upgrade_active_' = upgraders + Upgrades(Head(w_queue_).access)
             /\ held' = [tokens EXCEPT ![Head(w_queue_).client]
                                           = Head(w_queue_).access]
             /\ serving' = IF Head(w_queue_).access = "upgrade"
                           THEN serving \cup {c} ELSE serving
             /\ UNCHANGED <<r_queue_, u_queue_>>
    <2>1. w_queue_ # << >> /\ writers = 0 /\ upgraders = 0
      BY <1>3, <1>5 DEF WriterNext
    <2>2. /\ w_queue_ \in Seq(Requests)
          /\ Len(w_queue_) \in Nat \ {0}
          /\ DOMAIN w_queue_ = 1 .. Len(w_queue_)
          /\ Head(w_queue_) = w_queue_[1] /\ w_queue_[1] \in Requests
      BY <1>1, <2>1, EmptySeq, LenProperties, ElementOfSeq DEF TypeOK
    <2>3. /\ Tail(w_queue_) \in Seq(Requests)
          /\ DOMAIN Tail(w_queue_) = 1 .. Len(w_queue_) - 1
          /\ \A i \in 1 .. Len(w_queue_) - 1 : Tail(w_queue_)[i] = w_queue_[i + 1]
      BY <2>1, <2>2, HeadTailProperties, LenProperties
    <2> PICK d : d = w_queue_[1].client
      OBVIOUS
    <2> PICK a : a = w_queue_[1].access
      OBVIOUS
    <2>4. d \in Clients /\ a \in {"upgrade", "write"} /\ a \in Access
      BY <2>2 DEF Requests, Access
    <2>5. Queued(d)
      BY <2>2 DEF Queued
    <2>6. tokens[d] = "none" /\ d # c
      BY <1>3, <2>4, <2>5
    <2>7. held' = [tokens EXCEPT ![d] = a]
      BY <1>5, <2>2
    <2>8. d \notin r_queue_ /\ d \notin u_queue_
      BY <1>1, <2>2 DEF WaitOK
    <2>9. Exact(readers + Reads(a), writers + Writes(a),
                upgraders + Upgrades(a), held', u_queue_)
      BY <1>3, <2>4, <2>6, <2>7, <2>8, GrantExact
    <2>10. Reads(a) = 0 /\ Writes(a) = 1 /\ Upgrades(a) \in Nat
           /\ (Upgrades(a) = 1 => a = "upgrade") /\ Upgrades(a) <= 1
           /\ (a = "upgrade" => Upgrades(a) = 1)
      BY <2>4 DEF Reads, Writes, Upgrades
    <2>11. CountersExact'
      BY <1>3, <1>5, <2>2, <2>9, <2>10, ExactNext
    <2>12. TypeOK'
      <3>1. held' \in [Clients -> Access]
        BY <1>3, <2>4, <2>7
      <3>2. active_readers_' \in Nat /\ active_writers_' \in Nat
            /\ upgrade_active_' \in Nat
        BY <1>3, <1>5, <2>2, <2>10
      <3>3. w_queue_' \in Seq(Requests) /\ r_queue_' \subseteq Clients
            /\ u_queue_' \subseteq Clients /\ serving' \subseteq Clients
        BY <1>1, <1>5, <2>3 DEF TypeOK
      <3>4. plain' \subseteq Clients /\ family' \in [Clients -> Clients]
        BY <1>1, <1>2 DEF TypeOK
      <3> QED
        BY <3>1, <3>2, <3>3, <3>4 DEF TypeOK
    <2>13. WaitOK'
      <3>1. \A i \in DOMAIN w_queue_' :
               i + 1 \in DOMAIN w_queue_ /\ w_queue_'[i] = w_queue_[i + 1]
               /\ i \in Nat
        BY <1>5, <2>2, <2>3
      <3>2. \A i \in DOMAIN w_queue_' : w_queue_'[i].client # d
        BY <1>1, <2>2, <2>3, <1>5, <3>1 DEF WaitOK
      <3>3. ASSUME NEW x \in Clients, Queued(x)' PROVE held'[x] = "none"
        <4>1. Queued(x) /\ x # d
          BY <1>5, <2>8, <3>1, <3>2, <3>3 DEF Queued
        <4> QED
          BY <1>3, <2>7, <4>1
      <3>4. \A i, j \in DOMAIN w_queue_' :
               w_queue_'[i].client = w_queue_'[j].client => i = j
        <4> SUFFICES ASSUME NEW i \in DOMAIN w_queue_', NEW j \in DOMAIN w_queue_',
                            w_queue_'[i].client = w_queue_'[j].client
                     PROVE  i = j
          OBVIOUS
        <4>1. i + 1 = j + 1 /\ i \in Nat /\ j \in Nat
          BY <1>1, <3>1 DEF WaitOK
        <4> QED
          BY <4>1
      <3>5. \A i \in DOMAIN w_queue_' :
               w_queue_'[i].client \notin r_queue_' \cup u_queue_'
        BY <1>1, <1>5, <3>1 DEF WaitOK
      <3>6. r_queue_' \cap u_queue_' = {}
        BY <1>5
      <3> QED
        BY <3>3, <3>4, <3>5, <3>6 DEF WaitOK
    <2>14. OneFamily'
      <3>1. WritersOf(held', u_queue_') \subseteq WritersOf(tokens, u_queue_) \cup {d}
        BY <1>3, <1>5, <2>7 DEF WritersOf
      <3>2. WritersOf(held', u_queue_') \subseteq {d}
        BY <1>3, <2>1, <3>1
      <3> QED
        BY <3>2, WritersNow DEF OneFamily
    <2>15. NobodyStranded'
      <3>1. active_writers_' = 1 /\ upgrade_active_' = Upgrades(a)
        BY <1>5, <2>1, <2>2, <2>10
      <3>2. a = "upgrade" => serving' # {}
        BY <1>5, <2>2
      <3> QED
        <4>1. u_queue_' = {}
          BY <1>5
        <4>2. CASE a = "upgrade"
          BY <3>1, <3>2, <4>1, <4>2 DEF NobodyStranded
        <4>3. CASE a # "upgrade"
          <5>1. upgrade_active_' = 0 /\ active_writers_' = 1
            BY <2>4, <2>10, <3>1, <4>3
          <5> QED
            BY <4>1, <5>1 DEF NobodyStranded
        <4> QED
          BY <4>2, <4>3
    <2> QED
      BY <2>11, <2>12, <2>13, <2>14, <2>15 DEF IInv
  <1>6. CASE /\ u_queue_ = {} /\ ~WriterNext(writers)
             /\ ServeReaders(readers, writers, upgraders, tokens)
             /\ active_writers_' = writers
             /\ upgrade_active_' = upgraders
             /\ UNCHANGED <<w_queue_, u_queue_, serving>>
    <2>1. \A x \in r_queue_ : tokens[x] = "none"
      BY <1>3 DEF Queued
    <2>2. /\ Exact(active_readers_', writers, upgraders, held', u_queue_)
          /\ held' \in [Clients -> Access]
          /\ active_readers_' \in Nat /\ active_readers_' >= readers
          /\ r_queue_' \subseteq r_queue_
          /\ r_queue_' # {} => writers # upgraders
          /\ \A x \in Clients :
                held'[x] = tokens[x] \/ (x \in r_queue_ /\ r_queue_' = {})
          /\ WritersOf(held', u_queue_) = WritersOf(tokens, u_queue_)
      <3>1. r_queue_ \cap u_queue_ = {}
        BY <1>6
      <3>2. ServeReaders(readers, writers, upgraders, tokens)
        BY <1>6
      <3>3. /\ Exact(readers, writers, upgraders, tokens, u_queue_)
            /\ tokens \in [Clients -> Access]
            /\ readers \in Nat /\ writers \in Nat /\ upgraders \in Nat
            /\ u_queue_ \in SUBSET Clients /\ r_queue_ \in SUBSET Clients
        BY <1>3
      <3> QED
        BY <2>1, <3>1, <3>2, <3>3, ServeReadersStep
    <2>3. TypeOK'
      <3>1. active_readers_' \in Nat /\ active_writers_' \in Nat
            /\ upgrade_active_' \in Nat
        BY <1>3, <1>6, <2>2
      <3>2. w_queue_' \in Seq(Requests) /\ r_queue_' \subseteq Clients
            /\ u_queue_' \subseteq Clients /\ serving' \subseteq Clients
        BY <1>1, <1>6, <2>2 DEF TypeOK
      <3>3. plain' \subseteq Clients /\ family' \in [Clients -> Clients]
        BY <1>1, <1>2 DEF TypeOK
      <3> QED
        BY <2>2, <3>1, <3>2, <3>3 DEF TypeOK
    <2>4. WaitOK'
      <3>1. ASSUME NEW x \in Clients, Queued(x)' PROVE held'[x] = "none"
        <4>1. Queued(x)
          BY <1>6, <2>2, <3>1 DEF Queued
        <4>2. ~(x \in r_queue_ /\ r_queue_' = {})
          BY <1>1, <1>6, <3>1 DEF Queued, WaitOK
        <4> QED
          BY <1>3, <2>2, <4>1, <4>2
      <3> QED
        BY <1>1, <1>6, <2>2, <3>1 DEF WaitOK
    <2>5. CountersExact'
      BY <1>6, <2>2, ExactNext
    <2>6. OneFamily'
      BY <1>1, <1>2, <1>3, <1>6, <2>2, WritersNow DEF OneFamily
    <2>7. NobodyStranded'
      BY <1>3, <1>6, <2>2 DEF NobodyStranded, WriterNext
    <2> QED
      BY <2>3, <2>4, <2>5, <2>6, <2>7 DEF IInv
  <1> QED
    BY <1>4, <1>5, <1>6 DEF Serves

LEMMA UnlockIInv ==
    ASSUME IInv, NEW c \in Clients, Unlock(c)
    PROVE  IInv'
  <1> PICK readers : readers = active_readers_ - Reads(held[c])
    OBVIOUS
  <1> PICK writers : writers = active_writers_ - Writes(held[c])
    OBVIOUS
  <1> PICK upgraders : upgraders = upgrade_active_ - Upgrades(held[c])
    OBVIOUS
  <1> PICK tokens : tokens = [held EXCEPT ![c] = "none"]
    OBVIOUS
  <1>2. /\ held[c] # "none" /\ plain' = plain \ {c} /\ family' = family
    BY DEF Unlock
  <1>3. ReleasedBy(c, readers, writers, upgraders, tokens)
    BY <1>2, Released
  <1>4. Serves(c, readers, writers, upgraders, tokens)
    BY DEF Unlock, Serves
  <1> QED
    BY <1>2, <1>3, <1>4, ServesIInv

LEMMA NextIInv == IInv /\ [Next]_vars => IInv'
  <1> SUFFICES ASSUME IInv, [Next]_vars PROVE IInv'
    OBVIOUS
  <1>1. CASE UNCHANGED vars
    BY <1>1, StutterIInv
  <1>2. ASSUME NEW c \in Clients, Acquire(c) PROVE IInv'
    <2>1. Lock(c) \/ LockShared(c) \/ TryLockShared(c) => IInv'
      BY LockIInv
    <2> QED
      BY <1>2, <2>1, QueueIInv, TryImmediateIInv DEF Acquire
  <1>3. ASSUME NEW c \in Clients, NEW d \in Clients, Derive(c, d) PROVE IInv'
    <2>1. Copy(c, d) \/ DowngradeToRead(c, d) \/ DowngradeToUpgrade(c, d)
          => IInv'
      BY DeriveIInv
    <2> QED
      BY <1>3, <2>1, UpgradeToWriteIInv DEF Derive
  <1> QED
    BY <1>1, <1>2, <1>3, UnlockIInv, UnlockReadersIInv DEF Next

THEOREM Invariant == Spec => []IInv
  <1> QED BY InitIInv, NextIInv, StutterIInv, PTL DEF Spec

(* The types hold, and no counter of the monitor wraps below zero.         *)
THEOREM TypeCorrect == Spec => []TypeOK
  <1>1. IInv => TypeOK
    BY DEF IInv
  <1> QED BY <1>1, Invariant, PTL

(* However tokens are copied, granted, upgraded and destroyed, the three   *)
(* counters count them.                                                    *)
THEOREM ExactCounters == Spec => []CountersExact
  <1>1. IInv => CountersExact
    BY DEF IInv
  <1> QED BY <1>1, Invariant, PTL

(* Tokens with write or upgrade access derive from one grant: two requests *)
(* never have such access at the same time.                                *)
THEOREM WriterExclusion == Spec => []OneFamily
  <1>1. IInv => OneFamily
    BY DEF IInv
  <1> QED BY <1>1, Invariant, PTL

(* No wakeup is lost: a client that waits has somebody to wait for.        *)
THEOREM NoLostWakeup == Spec => []NobodyStranded
  <1>1. IInv => NobodyStranded
    BY DEF IInv
  <1> QED BY <1>1, Invariant, PTL
=============================================================================
