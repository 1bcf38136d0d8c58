---------------------------- MODULE Llptr_proofs -----------------------------
(***************************************************************************)
(* CountsSound for every number of threads, llptrs, objects and hazards,   *)
(* and for every program: the count of an object is the number of pointers *)
(* to it, and references are acquired of objects that are alive.           *)
(*                                                                         *)
(* The strengthening is made of four layers, each proved from those below. *)
(* Typed, the types and the locals of a call; Owning, whose a hazard is    *)
(* and who reads what it names; Protected, who will grant the reference    *)
(* that a reader relies on when the llptr has another pointer already; and *)
(* Balanced, the count.                                                    *)
(***************************************************************************)
EXTENDS Llptr, FiniteSetTheorems, TLAPS

Ptr == Objs \cup {None}
Ptrs == [p : Ptr, fl : BOOLEAN]
Locals == [v : Ptrs, h : Hz, acq : 0 .. 2, p : Ptr,
           left : 0 .. HazardCount + 1, i : Hz]

Labels == {"idle", "hz.alloc", "hz.set", "hz.check", "hz.acq", "hz.clear",
           "hz.done", "hz.free", "hz.again", "g.acq", "g.value", "g.owner",
           "g.give", "g.unflag", "g.rel"}

\* TypeOK but for the counts, which are natural numbers because they match.
Types ==
    /\ cell \in [Cells -> Ptrs]
    /\ refs \in [Objs -> Int]
    /\ owner \in [Hz -> [own : Cells \cup {None}, flag : BOOLEAN]]
    /\ value \in [Hz -> Ptr]
    /\ hold \in [Threads -> [Regs -> Ptr]]
    /\ prog \in [Threads -> Seq(Call)]
    /\ pc \in [Threads -> Labels]
    /\ hz \in [Threads -> Locals]

\* The locals of a thread, at each of its places.
LocalsOK(t) ==
    LET f == hz[t]
    IN  /\ pc[t] # "idle" => prog[t] # <<>>
        /\ pc[t] = "idle" => f = NoLocals
        /\ ~Grants(t) => f.p = None
        /\ Grants(t) => f.p # None
        /\ InHazard(t) => f.v.p # None
        /\ pc[t] \in {"hz.check", "hz.acq"} => f.acq = 0
        /\ pc[t] = "hz.clear" => f.acq =< 1
        /\ pc[t] = "g.acq" =>
              /\ f.i = 1
              /\ f.left > 0 \/ hold[t][Op(t).r] = f.p
        /\ pc[t] \in {"g.value", "g.owner", "g.give"} =>
              f.left + f.i > HazardCount
        /\ pc[t] = "g.unflag" => f.left + f.i >= HazardCount

Typed == Types /\ \A t \in Threads : LocalsOK(t)

\* A hazard has one owner, and what it names is being read by the owner.
Owns(t) == HasHazard(t) => owner[hz[t].h].own = Op(t).c
Apart(t, u) == HasHazard(t) /\ HasHazard(u) /\ t # u => hz[t].h # hz[u].h
Named(h) ==
    value[h] # None =>
        \E t \in Threads : InHazard(t) /\ hz[t].h = h /\ hz[t].v.p = value[h]

Owning ==
    /\ \A t \in Threads : Owns(t)
    /\ \A t, u \in Threads : Apart(t, u)
    /\ \A h \in Hz : Named(h)

\* The grant of u has still to come to hazard h.
Pending(u, h) ==
    \/ pc[u] = "g.acq"
    \/ pc[u] \in {"g.value", "g.owner", "g.give"} /\ hz[u].i =< h
    \/ pc[u] = "g.unflag" /\ hz[u].i < h

\* A reader that is about to acquire has a reference to count on: the llptr's,
\* the one that it was granted, or the one that it will be granted.
Covered(t, u) ==
    Pending(u, hz[t].h) /\ hz[u].p = hz[t].v.p /\ Op(u).c = Op(t).c

Protects(t) ==
    At(t, "hz.acq") /\ value[hz[t].h] # None =>
        MayAcquire(t) \/ \E u \in Threads : Covered(t, u)

Protected == \A t \in Threads : Protects(t)

IInv == Typed /\ Owning /\ Protected /\ CountsMatch

-----------------------------------------------------------------------------
(* Types and locals.                                                       *)

\* A thread in a call has the call at the head of its program.
LEMMA OpIsCall ==
    ASSUME Types, NEW t \in Threads, prog[t] # <<>>
    PROVE  /\ Op(t) \in Call /\ Tail(prog[t]) \in Seq(Call)
           /\ Op(t).c \in Cells /\ Op(t).c # None /\ Op(t).r \in Regs
           /\ Op(t).ef \in BOOLEAN
  <1>1. prog[t] \in Seq(Call)
    BY DEF Types
  <1>2. Op(t) \in Call /\ Tail(prog[t]) \in Seq(Call)
    BY <1>1 DEF Op
  <1> QED BY <1>2, LlptrAssumption DEF Call

LEMMA NoLocalsType == NoLocals \in Locals /\ NoLocals.p = None
  <1>1. HazardCount \in Nat /\ 1 \in Hz
    BY LlptrAssumption DEF Hz
  <1> QED BY <1>1 DEF NoLocals, Locals, Ptrs, Ptr, Null

\* What a step of t leaves alone.
OthersStay(t) ==
    \A u \in Threads \ {t} :
        /\ pc'[u] = pc[u] /\ hz'[u] = hz[u] /\ prog'[u] = prog[u]
        /\ hold'[u] = hold[u]

LEMMA EndTypes ==
    ASSUME Types, NEW t \in Threads, prog[t] # <<>>, End(t)
    PROVE  /\ prog' \in [Threads -> Seq(Call)]
           /\ pc' \in [Threads -> Labels] /\ pc'[t] = "idle"
           /\ hz' \in [Threads -> Locals] /\ hz'[t] = NoLocals
           /\ LocalsOK(t)'
           /\ \A u \in Threads \ {t} :
                 pc'[u] = pc[u] /\ hz'[u] = hz[u] /\ prog'[u] = prog[u]
  <1>1. prog' \in [Threads -> Seq(Call)]
    BY OpIsCall DEF End, Types
  <1>2. pc' \in [Threads -> Labels] /\ pc'[t] = "idle"
    BY DEF End, Types, Labels
  <1>3. hz' \in [Threads -> Locals] /\ hz'[t] = NoLocals
    BY NoLocalsType DEF End, Types
  <1>4. LocalsOK(t)'
    BY <1>2, <1>3, NoLocalsType DEF LocalsOK, Grants, InHazard
  <1>5. \A u \in Threads \ {t} :
            pc'[u] = pc[u] /\ hz'[u] = hz[u] /\ prog'[u] = prog[u]
    BY DEF End, Types
  <1> QED BY <1>1, <1>2, <1>3, <1>4, <1>5

LEMMA CountTypes ==
    ASSUME Types, NEW p \in Ptr, NEW n \in Int
    PROVE  /\ Acquired(p, n) \in [Objs -> Int]
           /\ Dropped(p, n) \in [Objs -> Int]
           /\ \A q \in Objs : /\ Acquired(p, n)[q]
                                   = refs[q] + (IF q = p THEN n ELSE 0)
                              /\ Dropped(p, n)[q]
                                   = refs[q] - (IF q = p THEN n ELSE 0)
  BY LlptrAssumption DEF Types, Ptr, Acquired, Dropped

LEMMA AssignTypes ==
    ASSUME Types, NEW t \in Threads, NEW r \in Regs, NEW p \in Ptr,
           Assign(t, r, p)
    PROVE  /\ refs' \in [Objs -> Int]
           /\ hold' \in [Threads -> [Regs -> Ptr]]
           /\ \A u \in Threads \ {t} : hold'[u] = hold[u]
  <1>1. hold[t][r] \in Ptr
    BY DEF Types
  <1> QED BY <1>1, CountTypes DEF Types, Assign

\* The calls that need no hazard.
LEMMA TypedPlain ==
    ASSUME Typed, NEW t \in Threads,
           New(t) \/ Drop(t) \/ fetch_or(t)
    PROVE  Types' /\ OthersStay(t) /\ LocalsOK(t)'
  <1> USE DEF Typed
  <1>1. CASE New(t)
    <2>1. prog[t] # <<>> /\ End(t) /\ UNCHANGED <<cell, owner, value>>
      BY <1>1 DEF New
    <2>2. PICK p \in Objs : /\ refs' = [refs EXCEPT ![p] = 1]
                            /\ hold' = [hold EXCEPT ![t][Op(t).r] = p]
      BY <1>1 DEF New
    <2> QED BY <2>1, <2>2, EndTypes, OpIsCall DEF Types, OthersStay, Ptr
  <1>2. CASE Drop(t)
    <2>1. /\ prog[t] # <<>> /\ End(t) /\ UNCHANGED <<cell, owner, value>>
          /\ Assign(t, Op(t).r, None)
      BY <1>2 DEF Drop
    <2>2. None \in Ptr
      BY DEF Ptr
    <2> QED BY <2>1, <2>2, EndTypes, AssignTypes, OpIsCall
            DEF Types, OthersStay
  <1>3. CASE fetch_or(t)
    <2>1. /\ prog[t] # <<>> /\ End(t)
          /\ UNCHANGED <<refs, owner, value, hold>>
          /\ cell' = [cell EXCEPT ![Op(t).c].fl = TRUE]
      BY <1>3 DEF fetch_or
    <2>2. cell' \in [Cells -> Ptrs]
      BY <2>1, OpIsCall DEF Types, Ptrs
    <2> QED BY <2>1, <2>2, EndTypes DEF Types, OthersStay
  <1> QED BY <1>1, <1>2, <1>3

\* One of the locals is assigned.
LEMMA FieldTypes ==
    ASSUME NEW f \in Locals
    PROVE  /\ f.v \in Ptrs /\ f.v.p \in Ptr /\ f.h \in Hz /\ f.acq \in 0 .. 2
           /\ f.p \in Ptr /\ f.left \in 0 .. HazardCount + 1 /\ f.i \in Hz
  BY DEF Locals, Ptrs

LEMMA SetV ==
    ASSUME NEW f \in Locals, NEW x \in Ptrs
    PROVE  /\ [f EXCEPT !.v = x] \in Locals
           /\ [f EXCEPT !.v = x].v = x
           /\ [f EXCEPT !.v = x].h = f.h
           /\ [f EXCEPT !.v = x].acq = f.acq
           /\ [f EXCEPT !.v = x].p = f.p
           /\ [f EXCEPT !.v = x].left = f.left
           /\ [f EXCEPT !.v = x].i = f.i
  BY DEF Locals

LEMMA SetH ==
    ASSUME NEW f \in Locals, NEW x \in Hz
    PROVE  /\ [f EXCEPT !.h = x] \in Locals
           /\ [f EXCEPT !.h = x].v = f.v
           /\ [f EXCEPT !.h = x].h = x
           /\ [f EXCEPT !.h = x].acq = f.acq
           /\ [f EXCEPT !.h = x].p = f.p
           /\ [f EXCEPT !.h = x].left = f.left
           /\ [f EXCEPT !.h = x].i = f.i
  BY DEF Locals

LEMMA SetAcq ==
    ASSUME NEW f \in Locals, NEW x \in 0 .. 2
    PROVE  /\ [f EXCEPT !.acq = x] \in Locals
           /\ [f EXCEPT !.acq = x].v = f.v
           /\ [f EXCEPT !.acq = x].h = f.h
           /\ [f EXCEPT !.acq = x].acq = x
           /\ [f EXCEPT !.acq = x].p = f.p
           /\ [f EXCEPT !.acq = x].left = f.left
           /\ [f EXCEPT !.acq = x].i = f.i
  BY DEF Locals

LEMMA SetP ==
    ASSUME NEW f \in Locals, NEW x \in Ptr
    PROVE  /\ [f EXCEPT !.p = x] \in Locals
           /\ [f EXCEPT !.p = x].v = f.v
           /\ [f EXCEPT !.p = x].h = f.h
           /\ [f EXCEPT !.p = x].acq = f.acq
           /\ [f EXCEPT !.p = x].p = x
           /\ [f EXCEPT !.p = x].left = f.left
           /\ [f EXCEPT !.p = x].i = f.i
  BY DEF Locals

LEMMA SetLeft ==
    ASSUME NEW f \in Locals, NEW x \in 0 .. HazardCount + 1
    PROVE  /\ [f EXCEPT !.left = x] \in Locals
           /\ [f EXCEPT !.left = x].v = f.v
           /\ [f EXCEPT !.left = x].h = f.h
           /\ [f EXCEPT !.left = x].acq = f.acq
           /\ [f EXCEPT !.left = x].p = f.p
           /\ [f EXCEPT !.left = x].left = x
           /\ [f EXCEPT !.left = x].i = f.i
  BY DEF Locals

LEMMA SetI ==
    ASSUME NEW f \in Locals, NEW x \in Hz
    PROVE  /\ [f EXCEPT !.i = x] \in Locals
           /\ [f EXCEPT !.i = x].v = f.v
           /\ [f EXCEPT !.i = x].h = f.h
           /\ [f EXCEPT !.i = x].acq = f.acq
           /\ [f EXCEPT !.i = x].p = f.p
           /\ [f EXCEPT !.i = x].left = f.left
           /\ [f EXCEPT !.i = x].i = x
  BY DEF Locals

\* What do_hazard() does at each of its four places.
HazardSet(t) ==
    /\ At(t, "hz.set")
    /\ IF hz[t].v.p = None THEN Goto(t, "hz.done") /\ UNCHANGED value
       ELSE /\ value' = [value EXCEPT ![hz[t].h] = hz[t].v.p]
            /\ Goto(t, "hz.check")
    /\ Set(t, [hz[t] EXCEPT !.acq = 0])
    /\ UNCHANGED refs
HazardCheck(t) ==
    /\ At(t, "hz.check")
    /\ Goto(t, IF MayAcquire(t) THEN "hz.acq" ELSE "hz.clear")
    /\ UNCHANGED <<refs, value, hz>>
HazardAcquire(t) ==
    /\ At(t, "hz.acq")
    /\ refs' = Acquired(hz[t].v.p, 1)
    /\ Set(t, [hz[t] EXCEPT !.acq = 1])
    /\ Goto(t, "hz.clear")
    /\ UNCHANGED value
HazardClear(t) ==
    /\ At(t, "hz.clear")
    /\ value' = [value EXCEPT ![hz[t].h] = None]
    /\ Set(t, [hz[t] EXCEPT !.acq = CountedGrant(t)])
    /\ Goto(t, "hz.done")
    /\ UNCHANGED refs

LEMMA DoHazardCases ==
    ASSUME NEW t \in Threads, do_hazard(t)
    PROVE  /\ \/ HazardSet(t) \/ HazardCheck(t) \/ HazardAcquire(t)
              \/ HazardClear(t)
           /\ UNCHANGED <<cell, owner, hold, prog>>
  BY DEF do_hazard, HazardSet, HazardCheck, HazardAcquire, HazardClear

\* The locals of a reader.
Readers == {"hz.alloc", "hz.set", "hz.check", "hz.acq", "hz.clear", "hz.done",
            "hz.free", "hz.again"}

LEMMA ReaderLocals ==
    ASSUME NEW t \in Threads, pc'[t] \in Readers, prog'[t] # <<>>,
           hz'[t].p = None,
           pc'[t] \in {"hz.check", "hz.acq", "hz.clear"} => hz'[t].v.p # None,
           pc'[t] \in {"hz.check", "hz.acq"} => hz'[t].acq = 0,
           pc'[t] = "hz.clear" => hz'[t].acq =< 1
    PROVE  LocalsOK(t)'
  BY DEF LocalsOK, Readers, Grants, InHazard

LEMMA ReaderFacts ==
    ASSUME NEW t \in Threads, pc[t] \in Readers, LocalsOK(t)
    PROVE  /\ prog[t] # <<>> /\ hz[t].p = None
           /\ pc[t] \in {"hz.check", "hz.acq", "hz.clear"} => hz[t].v.p # None
           /\ pc[t] \in {"hz.check", "hz.acq"} => hz[t].acq = 0
           /\ pc[t] = "hz.clear" => hz[t].acq =< 1
  BY DEF LocalsOK, Readers, Grants, InHazard

LEMMA TypedDoHazard ==
    ASSUME Typed, NEW t \in Threads, do_hazard(t)
    PROVE  Types' /\ OthersStay(t) /\ LocalsOK(t)'
  <1> USE DEF Typed
  <1>1. hz[t] \in Locals /\ LocalsOK(t)
    BY DEF Types
  <1>2. UNCHANGED <<cell, owner, hold, prog>>
    BY DoHazardCases

  <1>3. CASE HazardSet(t)
    <2>1. 0 \in 0 .. 2 /\ "hz.check" \in Labels /\ "hz.done" \in Labels
      BY DEF Labels
    <2>2. value' \in [Hz -> Ptr]
      BY <1>1, <1>3, FieldTypes DEF Types, HazardSet
    <2>3. pc' \in [Threads -> Labels]
          /\ (pc'[t] = "hz.done" \/ (pc'[t] = "hz.check" /\ hz[t].v.p # None))
      BY <1>3 DEF HazardSet, Goto, Types, Labels
    <2>4. hz' \in [Threads -> Locals] /\ hz'[t] = [hz[t] EXCEPT !.acq = 0]
      BY <1>1, <1>3, <2>1, SetAcq DEF Types, HazardSet, Set
    <2>5. OthersStay(t)
      BY <1>2, <1>3 DEF OthersStay, HazardSet, Set, Goto, Types
    <2>6. LocalsOK(t)'
      <3>1. pc[t] \in Readers
        BY <1>3 DEF HazardSet, At, Readers
      <3>2. pc'[t] \in Readers
        BY <2>1, <2>2, <2>3, <2>4, <2>5 DEF Readers
      <3>3. /\ prog[t] # <<>> /\ hz[t].p = None
            /\ pc[t] \in {"hz.check", "hz.acq", "hz.clear"} =>
                  hz[t].v.p # None
        BY <1>1, <3>1, ReaderFacts
      <3>4. /\ hz'[t].p = hz[t].p /\ hz'[t].v = hz[t].v
            /\ hz'[t].acq = 0
        BY <1>1, <2>1, <2>4, SetAcq
      <3> QED BY <1>2, <1>3, <2>3, <3>2, <3>3, <3>4, ReaderLocals
              DEF HazardSet, At
    <2> QED BY <1>1, <1>2, <1>3, <2>1, <2>2, <2>3, <2>4, <2>5, <2>6 DEF Types, HazardSet
  <1>4. CASE HazardCheck(t)
    <2>1. pc' \in [Threads -> Labels] /\ pc'[t] \in {"hz.acq", "hz.clear"}
      BY <1>4 DEF HazardCheck, Goto, Types, Labels
    <2>2. OthersStay(t)
      BY <1>2, <1>4 DEF OthersStay, HazardCheck, Goto, Types
    <2>3. LocalsOK(t)'
      <3>1. pc[t] \in Readers
        BY <1>4 DEF HazardCheck, At, Readers
      <3>2. pc'[t] \in Readers
        BY <2>1, <2>2 DEF Readers
      <3> QED BY <1>1, <1>2, <1>4, <2>1, <2>2, <3>1, <3>2, FieldTypes, SetAcq,
                 ReaderFacts, ReaderLocals DEF HazardCheck, At
    <2> QED BY <1>1, <1>2, <1>4, <2>1, <2>2, <2>3 DEF Types, HazardCheck
  <1>5. CASE HazardAcquire(t)
    <2>1. 1 \in 0 .. 2 /\ "hz.clear" \in Labels
      BY DEF Labels
    <2>2. hz' \in [Threads -> Locals] /\ hz'[t] = [hz[t] EXCEPT !.acq = 1]
      BY <1>1, <1>5, <2>1, SetAcq
      DEF Types, HazardAcquire, Set
    <2>3. pc' \in [Threads -> Labels] /\ pc'[t] = "hz.clear"
      BY <1>5 DEF HazardAcquire, Goto, Types, Labels
    <2>4. refs' \in [Objs -> Int]
      BY <1>1, <1>5, FieldTypes, CountTypes DEF HazardAcquire
    <2>5. OthersStay(t)
      BY <1>2, <1>5 DEF OthersStay, HazardAcquire, Set, Goto, Types
    <2>6. LocalsOK(t)'
      <3>1. pc[t] \in Readers
        BY <1>5 DEF HazardAcquire, At, Readers
      <3>2. pc'[t] \in Readers
        BY <2>1, <2>2, <2>3, <2>4, <2>5 DEF Readers
      <3>3. /\ prog[t] # <<>> /\ hz[t].p = None
            /\ pc[t] \in {"hz.check", "hz.acq", "hz.clear"} =>
                  hz[t].v.p # None
        BY <1>1, <3>1, ReaderFacts
      <3>4. /\ hz'[t].p = hz[t].p /\ hz'[t].v = hz[t].v
            /\ hz'[t].acq = 1
        BY <1>1, <2>1, <2>2, SetAcq
      <3> QED BY <1>2, <1>5, <2>3, <3>2, <3>3, <3>4, ReaderLocals
              DEF HazardAcquire, At
    <2> QED BY <1>1, <1>2, <1>5, <2>1, <2>2, <2>3, <2>4, <2>5, <2>6 DEF Types, HazardAcquire
  <1>6. CASE HazardClear(t)
    <2>1. "hz.done" \in Labels
      BY DEF Labels
    <2>2. CountedGrant(t) \in 0 .. 2
      BY <1>1, <1>6, FieldTypes
      DEF CountedGrant, HazardClear, LocalsOK, At
    <2>3. hz' \in [Threads -> Locals]
          /\ hz'[t] = [hz[t] EXCEPT !.acq = CountedGrant(t)]
      BY <1>1, <1>6, <2>2, SetAcq DEF Types, HazardClear, Set
    <2>4. pc' \in [Threads -> Labels] /\ pc'[t] = "hz.done"
      BY <1>6 DEF HazardClear, Goto, Types, Labels
    <2>5. value' \in [Hz -> Ptr]
      BY <1>1, <1>6, FieldTypes DEF Types, HazardClear, Ptr
    <2>6. OthersStay(t)
      BY <1>2, <1>6 DEF OthersStay, HazardClear, Set, Goto, Types
    <2>7. LocalsOK(t)'
      <3>1. pc[t] \in Readers
        BY <1>6 DEF HazardClear, At, Readers
      <3>2. pc'[t] \in Readers
        BY <2>1, <2>2, <2>3, <2>4, <2>5, <2>6 DEF Readers
      <3>3. /\ prog[t] # <<>> /\ hz[t].p = None
            /\ pc[t] \in {"hz.check", "hz.acq", "hz.clear"} =>
                  hz[t].v.p # None
        BY <1>1, <3>1, ReaderFacts
      <3>4. /\ hz'[t].p = hz[t].p /\ hz'[t].v = hz[t].v
            /\ hz'[t].acq = CountedGrant(t)
        BY <1>1, <2>2, <2>3, SetAcq
      <3> QED BY <1>2, <1>6, <2>4, <3>2, <3>3, <3>4, ReaderLocals
              DEF HazardClear, At
    <2> QED BY <1>1, <1>2, <1>6, <2>1, <2>2, <2>3, <2>4, <2>5, <2>6, <2>7 DEF Types, HazardClear
  <1> QED BY <1>3, <1>4, <1>5, <1>6, DoHazardCases

\* What is read from an llptr, before a hazard is found for it.
LEMMA TypedRead ==
    ASSUME Typed, NEW t \in Threads, pc[t] = "idle", prog[t] # <<>>,
           NEW v \in Ptrs, Set(t, [hz[t] EXCEPT !.v = v]), Goto(t, "hz.alloc"),
           UNCHANGED <<refs, hold, prog, cell, owner, value>>
    PROVE  Types' /\ OthersStay(t) /\ LocalsOK(t)'
  <1> USE DEF Typed
  <1>1. hz[t] \in Locals /\ hz[t].p = None
    BY NoLocalsType DEF LocalsOK
  <1>2. hz' \in [Threads -> Locals] /\ hz'[t].p = None
    BY <1>1, SetV DEF Set, Types
  <1>3. pc' \in [Threads -> Labels] /\ pc'[t] = "hz.alloc"
    BY DEF Goto, Types, Labels
  <1>4. OthersStay(t)
    BY DEF OthersStay, Set, Goto, Types
  <1>5. LocalsOK(t)'
    BY <1>2, <1>3, ReaderLocals DEF Readers
  <1> QED BY <1>2, <1>3, <1>4, <1>5 DEF Types

LEMMA TypedLoad ==
    ASSUME Typed, NEW t \in Threads, load(t)
    PROVE  Types' /\ OthersStay(t) /\ LocalsOK(t)'
  <1> USE DEF Typed
  <1>1. pc[t] = "idle" /\ prog[t] # <<>> /\ UNCHANGED <<cell, owner, value>>
    BY DEF load, At
  <1>2. Op(t).c \in Cells /\ Op(t).r \in Regs
    BY <1>1, OpIsCall
  <1>3. cell[Op(t).c] \in Ptrs
    BY <1>2 DEF Types
  <1>4. CASE cell[Op(t).c].p = None
    <2>1. Assign(t, Op(t).r, None) /\ End(t)
      BY <1>4 DEF load
    <2> QED BY <1>1, <1>2, <2>1, EndTypes, AssignTypes
            DEF Types, OthersStay, Ptr
  <1>5. CASE cell[Op(t).c].p # None
    BY <1>1, <1>3, <1>5, TypedRead DEF load
  <1> QED BY <1>4, <1>5

LEMMA TypedAllocate ==
    ASSUME Typed, NEW t \in Threads, allocate_hazard(t)
    PROVE  Types' /\ OthersStay(t) /\ LocalsOK(t)'
  <1> USE DEF Typed
  <1>1. PICK h \in Hz : /\ owner[h] = Nobody
                        /\ owner' = [owner EXCEPT ![h].own = Op(t).c]
                        /\ Set(t, [hz[t] EXCEPT !.h = h])
    BY DEF allocate_hazard
  <1>2. /\ pc[t] = "hz.alloc" /\ Goto(t, "hz.set")
        /\ UNCHANGED <<cell, refs, value, hold, prog>>
    BY DEF allocate_hazard, At
  <1>3. hz[t] \in Locals /\ prog[t] # <<>> /\ hz[t].p = None
    BY <1>2, ReaderFacts DEF Types, Readers
  <1>4. hz' \in [Threads -> Locals] /\ hz'[t].p = None
    BY <1>1, <1>3, SetH DEF Set, Types
  <1>5. pc' \in [Threads -> Labels] /\ pc'[t] = "hz.set"
    BY <1>2 DEF Goto, Types, Labels
  <1>6. owner' \in [Hz -> [own : Cells \cup {None}, flag : BOOLEAN]]
    BY <1>1, <1>3, OpIsCall DEF Types
  <1>7. OthersStay(t)
    BY <1>1, <1>2 DEF OthersStay, Set, Goto, Types
  <1>8. LocalsOK(t)'
    BY <1>2, <1>3, <1>4, <1>5, ReaderLocals DEF Readers
  <1> QED BY <1>2, <1>4, <1>5, <1>6, <1>7, <1>8 DEF Types

LEMMA TypedReread ==
    ASSUME Typed, NEW t \in Threads, Reread(t)
    PROVE  Types' /\ OthersStay(t) /\ LocalsOK(t)'
  <1> USE DEF Typed
  <1>1. /\ pc[t] = "hz.done" /\ hz[t].acq = 0
        /\ Set(t, [hz[t] EXCEPT !.v = Readout(t)])
        /\ UNCHANGED <<cell, refs, owner, value, hold, prog>>
    BY DEF Reread, At
  <1>2. pc' \in [Threads -> Labels]
        /\ pc'[t] \in {"hz.again", "hz.done", "hz.set"}
    BY DEF Reread, Goto, Types, Labels
  <1>3. hz[t] \in Locals /\ prog[t] # <<>> /\ hz[t].p = None
    BY <1>1, ReaderFacts DEF Types, Readers
  <1>4. Readout(t) \in Ptrs
    BY <1>3, OpIsCall DEF Types, Readout
  <1>5. hz' \in [Threads -> Locals] /\ hz'[t].p = None
    BY <1>1, <1>3, <1>4, SetV DEF Set, Types
  <1>6. OthersStay(t)
    BY <1>1 DEF OthersStay, Reread, Set, Goto, Types
  <1>7. LocalsOK(t)'
    BY <1>1, <1>2, <1>3, <1>5, ReaderLocals DEF Readers
  <1> QED BY <1>1, <1>2, <1>5, <1>6, <1>7 DEF Types

LEMMA TypedTaken ==
    ASSUME Typed, NEW t \in Threads, Taken(t)
    PROVE  Types' /\ OthersStay(t) /\ LocalsOK(t)'
  <1> USE DEF Typed
  <1>1. /\ pc[t] = "hz.done"
        /\ UNCHANGED <<cell, owner, value, prog>>
    BY DEF Taken, At
  <1>2. hz[t] \in Locals /\ prog[t] # <<>> /\ hz[t].p = None
    BY <1>1, ReaderFacts DEF Types, Readers
  <1>3. hz[t].v.p \in Ptr /\ hz[t].acq \in 0 .. 2
    BY <1>2, FieldTypes
  <1>4. CASE hz[t].acq > 1
    <2>1. /\ refs' = Dropped(hz[t].v.p, hz[t].acq - 1)
          /\ Set(t, [hz[t] EXCEPT !.acq = 1])
          /\ UNCHANGED <<pc, hold>>
      BY <1>4 DEF Taken
    <2>2. refs' \in [Objs -> Int]
      BY <1>3, <2>1, CountTypes
    <2>3. hz' \in [Threads -> Locals] /\ hz'[t].p = None
      <3>1. 1 \in 0 .. 2
        OBVIOUS
      <3>2. /\ [hz[t] EXCEPT !.acq = 1] \in Locals
            /\ [hz[t] EXCEPT !.acq = 1].p = None
        BY <1>2, <3>1, SetAcq
      <3> QED BY <2>1, <3>2 DEF Set, Types
    <2>4. OthersStay(t)
      BY <1>1, <2>1 DEF OthersStay, Set, Types
    <2>5. LocalsOK(t)'
      BY <1>1, <1>2, <2>1, <2>3, ReaderLocals DEF Readers
    <2> QED BY <1>1, <2>1, <2>2, <2>3, <2>4, <2>5 DEF Types
  <1>5. CASE ~(hz[t].acq > 1)
    <2>1. PICK r \in Regs : Assign(t, r, hz[t].v.p)
      BY <1>2, <1>5, OpIsCall DEF Taken, Regs
    <2>2. Goto(t, "hz.free") /\ UNCHANGED hz
      BY <1>5 DEF Taken
    <2>3. pc' \in [Threads -> Labels] /\ pc'[t] = "hz.free"
      BY <2>2 DEF Goto, Types, Labels
    <2>4. OthersStay(t)
      BY <1>1, <1>3, <2>1, <2>2, AssignTypes DEF OthersStay, Goto, Types
    <2>5. LocalsOK(t)'
      BY <1>1, <1>2, <2>2, <2>3, ReaderLocals DEF Readers
    <2>6. refs' \in [Objs -> Int] /\ hold' \in [Threads -> [Regs -> Ptr]]
      BY <1>3, <2>1, AssignTypes
    <2> QED BY <1>1, <2>2, <2>3, <2>4, <2>5, <2>6 DEF Types
  <1> QED BY <1>4, <1>5

LEMMA TypedFree ==
    ASSUME Typed, NEW t \in Threads, FreeHazard(t)
    PROVE  Types' /\ OthersStay(t) /\ LocalsOK(t)'
  <1> USE DEF Typed
  <1>1. /\ pc[t] \in {"hz.free", "hz.again"}
        /\ owner' = [owner EXCEPT ![hz[t].h].own = None]
        /\ UNCHANGED <<cell, refs, value, hold>>
    BY DEF FreeHazard, At
  <1>2. hz[t] \in Locals /\ prog[t] # <<>>
    BY <1>1, ReaderFacts DEF Types, Readers
  <1>3. owner' \in [Hz -> [own : Cells \cup {None}, flag : BOOLEAN]]
    BY <1>1, <1>2, FieldTypes DEF Types
  <1>4. CASE At(t, "hz.free")
    <2>1. End(t)
      BY <1>4 DEF FreeHazard
    <2> QED BY <1>1, <1>2, <1>3, <2>1, EndTypes DEF Types, OthersStay
  <1>5. CASE ~At(t, "hz.free")
    <2>1. Goto(t, "idle") /\ Set(t, NoLocals) /\ UNCHANGED prog
      BY <1>5 DEF FreeHazard
    <2>2. pc' \in [Threads -> Labels] /\ pc'[t] = "idle"
      BY <2>1 DEF Goto, Types, Labels
    <2>3. hz' \in [Threads -> Locals] /\ hz'[t] = NoLocals
      BY <2>1, NoLocalsType DEF Set, Types
    <2>4. OthersStay(t)
      BY <1>1, <2>1 DEF OthersStay, Set, Goto, Types
    <2>5. LocalsOK(t)'
      BY <2>2, <2>3, NoLocalsType DEF LocalsOK, Grants, InHazard
    <2> QED BY <1>1, <1>3, <2>1, <2>2, <2>3, <2>4, <2>5 DEF Types
  <1> QED BY <1>4, <1>5

\* The locals of a writer that grants.
Writers == {"g.acq", "g.value", "g.owner", "g.give", "g.unflag", "g.rel"}

LEMMA WriterLocals ==
    ASSUME NEW t \in Threads, pc'[t] \in Writers, prog'[t] # <<>>,
           hz'[t].p # None,
           pc'[t] = "g.acq" =>
              /\ hz'[t].i = 1
              /\ hz'[t].left > 0 \/ hold'[t][Op(t).r'] = hz'[t].p,
           pc'[t] \in {"g.value", "g.owner", "g.give"} =>
              hz'[t].left + hz'[t].i > HazardCount,
           pc'[t] = "g.unflag" => hz'[t].left + hz'[t].i >= HazardCount
    PROVE  LocalsOK(t)'
  BY DEF LocalsOK, Writers, Grants, InHazard

LEMMA WriterFacts ==
    ASSUME NEW t \in Threads, pc[t] \in Writers, LocalsOK(t)
    PROVE  /\ prog[t] # <<>> /\ hz[t].p # None
           /\ pc[t] = "g.acq" =>
                 /\ hz[t].i = 1
                 /\ hz[t].left > 0 \/ hold[t][Op(t).r] = hz[t].p
           /\ pc[t] \in {"g.value", "g.owner", "g.give"} =>
                 hz[t].left + hz[t].i > HazardCount
           /\ pc[t] = "g.unflag" => hz[t].left + hz[t].i >= HazardCount
  BY DEF LocalsOK, Writers, Grants, InHazard

\* The end of the exchange proper: the pointer that was taken out is granted.
Granting(t, p, n) ==
    /\ hz' = [hz EXCEPT ![t] = [hz[t] EXCEPT !.p = p, !.left = n]]
    /\ Goto(t, "g.acq")
    /\ UNCHANGED prog

LEMMA TypedGranting ==
    ASSUME Typed, NEW t \in Threads, pc[t] = "idle", prog[t] # <<>>,
           NEW p \in Objs, NEW n \in 0 .. 2, Granting(t, p, n),
           n > 0 \/ hold'[t][Op(t).r] = p
    PROVE  /\ pc' \in [Threads -> Labels] /\ pc'[t] = "g.acq"
           /\ hz' \in [Threads -> Locals] /\ hz'[t].p = p /\ hz'[t].left = n
           /\ hz'[t].i = 1
           /\ prog' = prog
           /\ LocalsOK(t)'
           /\ \A u \in Threads \ {t} : pc'[u] = pc[u] /\ hz'[u] = hz[u]
  <1> USE DEF Typed
  <1>1. hz[t] = NoLocals
    BY DEF LocalsOK
  <1>2. 2 =< HazardCount + 1
    BY LlptrAssumption
  <1> DEFINE e == [NoLocals EXCEPT !.p = p]
  <1> DEFINE f == [e EXCEPT !.left = n]
  <1>3. p \in Ptr /\ n \in 0 .. HazardCount + 1
    BY <1>2, LlptrAssumption DEF Ptr
  <1>4. f \in Locals /\ f.p = p /\ f.left = n /\ f.i = 1
    <2>1. e \in Locals /\ e.p = p /\ e.i = NoLocals.i
      BY <1>3, NoLocalsType, SetP
    <2> HIDE DEF e
    <2>2. f \in Locals /\ f.p = e.p /\ f.left = n /\ f.i = e.i
      BY <1>3, <2>1, SetLeft
    <2> QED BY <2>1, <2>2 DEF NoLocals
  <1>5. hz' = [hz EXCEPT ![t] = f]
    BY <1>1 DEF Granting
  <1> HIDE DEF f
  <1>6. hz' \in [Threads -> Locals] /\ hz'[t] = f
    BY <1>4, <1>5 DEF Types
  <1>7. pc' \in [Threads -> Labels] /\ pc'[t] = "g.acq"
    BY DEF Granting, Goto, Types, Labels
  <1>8. \A u \in Threads \ {t} : pc'[u] = pc[u] /\ hz'[u] = hz[u]
    BY <1>5 DEF Granting, Goto, Types
  <1>9. LocalsOK(t)'
    <2>1. prog' = prog
      BY DEF Granting
    <2>2. Op(t).r' = Op(t).r
      BY <2>1 DEF Op
    <2>3. p # None
      BY LlptrAssumption
    <2> QED BY <1>4, <1>6, <1>7, <2>1, <2>2, <2>3, WriterLocals DEF Writers
  <1> QED BY <1>4, <1>6, <1>7, <1>8, <1>9 DEF Granting

LEMMA TypedSwap ==
    ASSUME Typed, NEW t \in Threads, Swap(t)
    PROVE  Types' /\ OthersStay(t) /\ LocalsOK(t)'
  <1> USE DEF Typed
  <1>1. /\ pc[t] = "idle" /\ prog[t] # <<>>
        /\ UNCHANGED <<refs, owner, value>>
        /\ cell' = [cell EXCEPT ![Op(t).c] =
                       [p |-> hold[t][Op(t).r], fl |-> FALSE]]
        /\ hold' = [hold EXCEPT ![t][Op(t).r] =
                       IF Op(t).op = "store" THEN None ELSE cell[Op(t).c].p]
    BY DEF Swap, At
  <1>2. Op(t).c \in Cells /\ Op(t).r \in Regs
    BY <1>1, OpIsCall
  <1>3. cell[Op(t).c].p \in Ptr /\ hold[t][Op(t).r] \in Ptr /\ None \in Ptr
    BY <1>2 DEF Types, Ptrs, Ptr
  <1>4. cell' \in [Cells -> Ptrs]
    BY <1>1, <1>3 DEF Types, Ptrs
  <1>5. /\ hold' \in [Threads -> [Regs -> Ptr]]
        /\ \A u \in Threads \ {t} : hold'[u] = hold[u]
        /\ hold'[t][Op(t).r] = IF Op(t).op = "store" THEN None
                               ELSE cell[Op(t).c].p
    BY <1>1, <1>2, <1>3 DEF Types
  <1>6. CASE cell[Op(t).c].p = None
    <2>1. End(t)
      BY <1>6 DEF Swap
    <2> QED BY <1>1, <1>4, <1>5, <2>1, EndTypes DEF Types, OthersStay
  <1>7. CASE cell[Op(t).c].p # None
    <2> DEFINE m == IF Op(t).op = "store" THEN 1 ELSE 0
    <2>0. Granting(t, cell[Op(t).c].p, m) /\ m \in 0 .. 2
      BY <1>7 DEF Swap, Granting, Set
    <2>1. PICK n \in 0 .. 2 : Granting(t, cell[Op(t).c].p, n) /\ n = m
      BY <2>0
    <2>2. n > 0 \/ hold'[t][Op(t).r] = cell[Op(t).c].p
      BY <1>5, <2>1
    <2>3. cell[Op(t).c].p \in Objs
      BY <1>3, <1>7 DEF Ptr
    <2> QED BY <1>1, <1>4, <1>5, <2>1, <2>2, <2>3, TypedGranting
            DEF Types, OthersStay
  <1> QED BY <1>6, <1>7

LEMMA TypedCasSucceeds ==
    ASSUME Typed, NEW t \in Threads, CasSucceeds(t)
    PROVE  Types' /\ OthersStay(t) /\ LocalsOK(t)'
  <1> USE DEF Typed
  <1>1. /\ pc[t] = "idle" /\ prog[t] # <<>>
        /\ UNCHANGED <<refs, owner, value>>
        /\ cell' = [cell EXCEPT ![Op(t).c] = [p |-> hold[t][2], fl |-> FALSE]]
        /\ hold' = [hold EXCEPT ![t] = [r \in Regs |->
              IF r = 2 \/ Op(t).op = "move" THEN None ELSE hold[t][r]]]
    BY DEF CasSucceeds, At
  <1>2. Op(t).c \in Cells
    BY <1>1, OpIsCall
  <1>3. hold[t][1] \in Ptr /\ hold[t][2] \in Ptr /\ None \in Ptr
    BY DEF Types, Ptr, Regs
  <1>4. cell' \in [Cells -> Ptrs]
    BY <1>1, <1>3 DEF Types, Ptrs
  <1>5. /\ hold' \in [Threads -> [Regs -> Ptr]]
        /\ \A u \in Threads \ {t} : hold'[u] = hold[u]
    BY <1>1, <1>3 DEF Types
  <1>6. CASE hold[t][1] = None
    <2>1. End(t)
      BY <1>6 DEF CasSucceeds
    <2> QED BY <1>1, <1>4, <1>5, <2>1, EndTypes DEF Types, OthersStay
  <1>7. CASE hold[t][1] # None
    <2> DEFINE m == IF Op(t).op = "move" THEN 2 ELSE 1
    <2>0. Granting(t, hold[t][1], m) /\ m \in 0 .. 2 /\ m > 0
      BY <1>7 DEF CasSucceeds, Granting, Set
    <2>1. PICK n \in 0 .. 2 : Granting(t, hold[t][1], n) /\ n > 0
      BY <2>0
    <2>2. hold[t][1] \in Objs
      BY <1>3, <1>7 DEF Ptr
    <2> QED BY <1>1, <1>4, <1>5, <2>1, <2>2, TypedGranting
            DEF Types, OthersStay
  <1> QED BY <1>6, <1>7

LEMMA TypedCasFails ==
    ASSUME Typed, NEW t \in Threads, CasFails(t)
    PROVE  Types' /\ OthersStay(t) /\ LocalsOK(t)'
  <1> USE DEF Typed
  <1>1. /\ pc[t] = "idle" /\ prog[t] # <<>>
        /\ UNCHANGED <<cell, owner, value>>
    BY DEF CasFails, At
  <1>2. cell[Op(t).c] \in Ptrs
    BY <1>1, OpIsCall DEF Types
  <1>3. CASE End(t) /\ UNCHANGED <<refs, hold>>
    BY <1>1, <1>3, EndTypes DEF Types, OthersStay
  <1>4. CASE Assign(t, 1, None) /\ End(t)
    BY <1>1, <1>4, EndTypes, AssignTypes DEF Types, OthersStay, Ptr, Regs
  <1>5. CASE /\ Set(t, [hz[t] EXCEPT !.v = cell[Op(t).c]])
             /\ Goto(t, "hz.alloc")
             /\ UNCHANGED <<refs, hold, prog>>
    BY <1>1, <1>2, <1>5, TypedRead
  <1> QED BY <1>3, <1>4, <1>5 DEF CasFails

\* What grant() and mark() do at each of their places.
GrantAcquire(t) ==
    /\ At(t, "g.acq")
    /\ IF hz[t].left < HazardCount
       THEN /\ refs' = Acquired(hz[t].p, HazardCount - hz[t].left)
            /\ Set(t, [hz[t] EXCEPT !.left = HazardCount])
       ELSE UNCHANGED <<refs, hz>>
    /\ Goto(t, "g.value")
    /\ UNCHANGED <<cell, owner, value, hold, prog>>
GrantRelease(t) ==
    /\ At(t, "g.rel")
    /\ refs' = Dropped(hz[t].p, hz[t].left)
    /\ End(t)
    /\ UNCHANGED <<cell, owner, value, hold>>
MarkValue(t) ==
    /\ At(t, "g.value")
    /\ IF value[hz[t].i] = hz[t].p THEN Goto(t, "g.owner") /\ UNCHANGED hz
       ELSE NextHazard(t)
    /\ UNCHANGED <<cell, refs, owner, value, hold, prog>>
MarkOwner(t) ==
    /\ At(t, "g.owner")
    /\ IF owner[hz[t].i] = [own |-> Op(t).c, flag |-> FALSE]
       THEN /\ owner' = [owner EXCEPT ![hz[t].i].flag = TRUE]
            /\ Goto(t, "g.give")
            /\ UNCHANGED hz
       ELSE /\ IF owner[hz[t].i].own = Op(t).c
               THEN Goto(t, "g.value") /\ UNCHANGED hz
               ELSE NextHazard(t)
            /\ UNCHANGED owner
    /\ UNCHANGED <<cell, refs, value, hold, prog>>
MarkGive(t) ==
    /\ At(t, "g.give")
    /\ IF value[hz[t].i] = hz[t].p
       THEN /\ value' = [value EXCEPT ![hz[t].i] = None]
            /\ Set(t, [hz[t] EXCEPT !.left = hz[t].left - 1])
       ELSE UNCHANGED <<value, hz>>
    /\ Goto(t, "g.unflag")
    /\ UNCHANGED <<cell, refs, owner, hold, prog>>
MarkUnflag(t) ==
    /\ At(t, "g.unflag")
    /\ owner' = [owner EXCEPT ![hz[t].i].flag = FALSE]
    /\ NextHazard(t)
    /\ UNCHANGED <<cell, refs, value, hold, prog>>

LEMMA GrantCases ==
    ASSUME NEW t \in Threads, grant(t)
    PROVE  GrantAcquire(t) \/ GrantRelease(t)
  BY DEF grant, GrantAcquire, GrantRelease

LEMMA MarkCases ==
    ASSUME Types, NEW t \in Threads, mark(t)
    PROVE  MarkValue(t) \/ MarkOwner(t) \/ MarkGive(t) \/ MarkUnflag(t)
  <1>1. hz[t] \in Locals
    BY DEF Types
  <1>2. [hz[t] EXCEPT !.left = @ - 1] = [hz[t] EXCEPT !.left = hz[t].left - 1]
    BY <1>1 DEF Locals
  <1> QED BY <1>2 DEF mark, MarkValue, MarkOwner, MarkGive, MarkUnflag

\* The next hazard is looked at, or there is none.
LEMMA NextHazardCases ==
    ASSUME Types, NEW t \in Threads, NextHazard(t)
    PROVE  \/ /\ hz[t].i < HazardCount
              /\ Goto(t, "g.value")
              /\ hz' = [hz EXCEPT ![t] = [hz[t] EXCEPT !.i = hz[t].i + 1]]
           \/ /\ hz[t].i = HazardCount
              /\ Goto(t, "g.rel")
              /\ hz' = hz
  <1>1. hz[t] \in Locals
    BY DEF Types
  <1>2. [hz[t] EXCEPT !.i = @ + 1] = [hz[t] EXCEPT !.i = hz[t].i + 1]
    BY <1>1 DEF Locals
  <1>3. hz[t].i \in 1 .. HazardCount /\ HazardCount \in Nat
    BY <1>1, FieldTypes, LlptrAssumption DEF Hz
  <1> QED BY <1>2, <1>3 DEF NextHazard, Set

LEMMA TypedNextHazard ==
    ASSUME Types, NEW t \in Threads, NextHazard(t), prog'[t] = prog[t],
           pc[t] \in Writers, LocalsOK(t),
           hz[t].left + hz[t].i >= HazardCount
    PROVE  /\ pc' \in [Threads -> Labels] /\ pc'[t] \in {"g.value", "g.rel"}
           /\ hz' \in [Threads -> Locals]
           /\ hz'[t].p = hz[t].p /\ hz'[t].left = hz[t].left
           /\ LocalsOK(t)'
           /\ \A u \in Threads \ {t} : pc'[u] = pc[u] /\ hz'[u] = hz[u]
  <1>1. hz[t] \in Locals /\ hz[t].p # None /\ prog[t] # <<>>
    BY WriterFacts DEF Types
  <1>2. /\ hz[t].i \in 1 .. HazardCount /\ HazardCount \in Nat
        /\ hz[t].left \in 0 .. HazardCount + 1
    BY <1>1, FieldTypes, LlptrAssumption DEF Hz
  <1>3. CASE /\ hz[t].i < HazardCount
             /\ Goto(t, "g.value")
             /\ hz' = [hz EXCEPT ![t] = [hz[t] EXCEPT !.i = hz[t].i + 1]]
    <2>1. hz[t].i + 1 \in Hz
      BY <1>2, <1>3 DEF Hz
    <2>2. /\ hz' \in [Threads -> Locals] /\ hz'[t].i = hz[t].i + 1
          /\ hz'[t].p = hz[t].p /\ hz'[t].left = hz[t].left
      BY <1>1, <1>3, <2>1, SetI DEF Types
    <2>3. pc' \in [Threads -> Labels] /\ pc'[t] = "g.value"
      BY <1>3 DEF Goto, Types, Labels
    <2>4. hz'[t].left + hz'[t].i > HazardCount
      BY <1>2, <2>2
    <2>5. LocalsOK(t)'
      BY <1>1, <2>2, <2>3, <2>4, WriterLocals DEF Writers
    <2> QED BY <1>3, <2>2, <2>3, <2>5 DEF Goto, Types
  <1>4. CASE Goto(t, "g.rel") /\ hz' = hz
    <2>1. pc' \in [Threads -> Labels] /\ pc'[t] = "g.rel"
      BY <1>4 DEF Goto, Types, Labels
    <2>2. LocalsOK(t)'
      BY <1>1, <1>4, <2>1, WriterLocals DEF Writers
    <2> QED BY <1>4, <2>1, <2>2 DEF Goto, Types
  <1> QED BY <1>3, <1>4, NextHazardCases

LEMMA TypedGrant ==
    ASSUME Typed, NEW t \in Threads, grant(t)
    PROVE  Types' /\ OthersStay(t) /\ LocalsOK(t)'
  <1> USE DEF Typed
  <1>1. CASE GrantAcquire(t)
    <2>1. /\ pc[t] = "g.acq" /\ Goto(t, "g.value")
          /\ UNCHANGED <<cell, owner, value, hold, prog>>
      BY <1>1 DEF GrantAcquire, At
    <2>2. /\ hz[t] \in Locals /\ prog[t] # <<>> /\ hz[t].p # None
          /\ hz[t].i = 1
      BY <2>1, WriterFacts DEF Types, Writers
    <2>3. /\ hz[t].p \in Ptr /\ hz[t].left \in 0 .. HazardCount + 1
          /\ HazardCount \in Nat
      BY <2>2, FieldTypes, LlptrAssumption
    <2>4. pc' \in [Threads -> Labels] /\ pc'[t] = "g.value"
      BY <2>1 DEF Goto, Types, Labels
    <2>5. CASE hz[t].left < HazardCount
      <3>1. /\ refs' = Acquired(hz[t].p, HazardCount - hz[t].left)
            /\ hz' = [hz EXCEPT ![t] = [hz[t] EXCEPT !.left = HazardCount]]
        BY <1>1, <2>5 DEF GrantAcquire, Set
      <3>2. refs' \in [Objs -> Int]
        <4>1. HazardCount - hz[t].left \in Int
          BY <2>3
        <4> QED BY <2>3, <3>1, <4>1, CountTypes
      <3>3. HazardCount \in 0 .. HazardCount + 1
        BY <2>3
      <3>4. /\ hz' \in [Threads -> Locals] /\ hz'[t].p = hz[t].p
            /\ hz'[t].i = 1 /\ hz'[t].left = HazardCount
        <4> DEFINE f == [hz[t] EXCEPT !.left = HazardCount]
        <4>1. /\ f \in Locals /\ f.p = hz[t].p /\ f.left = HazardCount
              /\ f.i = hz[t].i
          BY <2>2, <3>3, SetLeft
        <4>2. hz' = [hz EXCEPT ![t] = f]
          BY <3>1
        <4> HIDE DEF f
        <4> QED BY <2>2, <4>1, <4>2 DEF Types
      <3>5. LocalsOK(t)'
        BY <2>1, <2>2, <2>3, <2>4, <3>4, WriterLocals DEF Writers
      <3> QED BY <2>1, <2>4, <3>1, <3>2, <3>4, <3>5
              DEF Types, OthersStay, Goto
    <2>6. CASE ~(hz[t].left < HazardCount)
      <3>1. UNCHANGED <<refs, hz>>
        BY <1>1, <2>6 DEF GrantAcquire
      <3>2. hz[t].left + hz[t].i > HazardCount
        BY <2>2, <2>3, <2>6
      <3>3. LocalsOK(t)'
        BY <2>1, <2>2, <2>4, <3>1, <3>2, WriterLocals DEF Writers
      <3> QED BY <2>1, <2>4, <3>1, <3>3 DEF Types, OthersStay, Goto
    <2> QED BY <2>5, <2>6
  <1>2. CASE GrantRelease(t)
    <2>1. /\ pc[t] = "g.rel" /\ End(t)
          /\ UNCHANGED <<cell, owner, value, hold>>
          /\ refs' = Dropped(hz[t].p, hz[t].left)
      BY <1>2 DEF GrantRelease, At
    <2>2. hz[t] \in Locals /\ prog[t] # <<>>
      BY <2>1, WriterFacts DEF Types, Writers
    <2>3. hz[t].p \in Ptr /\ hz[t].left \in Int
      BY <2>2, FieldTypes, LlptrAssumption
    <2>4. refs' \in [Objs -> Int]
      BY <2>1, <2>3, CountTypes
    <2> QED BY <2>1, <2>2, <2>4, EndTypes DEF Types, OthersStay
  <1> QED BY <1>1, <1>2, GrantCases

LEMMA TypedMark ==
    ASSUME Typed, NEW t \in Threads, mark(t)
    PROVE  Types' /\ OthersStay(t) /\ LocalsOK(t)'
  <1> USE DEF Typed
  <1>1. /\ pc[t] \in Writers /\ LocalsOK(t) /\ hz[t] \in Locals
        /\ UNCHANGED <<cell, refs, hold, prog>>
    BY MarkCases
    DEF Types, Writers, MarkValue, MarkOwner, MarkGive, MarkUnflag, At
  <1>2. prog[t] # <<>> /\ hz[t].p # None
    BY <1>1, WriterFacts
  <1>3. /\ hz[t].i \in Hz /\ hz[t].i \in 1 .. HazardCount
        /\ HazardCount \in Nat /\ hz[t].left \in 0 .. HazardCount + 1
    BY <1>1, FieldTypes, LlptrAssumption DEF Hz
  <1>4. ASSUME NextHazard(t), hz[t].left + hz[t].i >= HazardCount,
               UNCHANGED value,
               owner' \in [Hz -> [own : Cells \cup {None}, flag : BOOLEAN]]
        PROVE  Types' /\ OthersStay(t) /\ LocalsOK(t)'
    BY <1>1, <1>4, TypedNextHazard DEF Types, OthersStay
  <1>5. ASSUME NEW l \in {"g.value", "g.owner", "g.give", "g.unflag"},
               Goto(t, l), UNCHANGED <<hz, value>>,
               hz[t].left + hz[t].i > HazardCount,
               owner' \in [Hz -> [own : Cells \cup {None}, flag : BOOLEAN]]
        PROVE  Types' /\ OthersStay(t) /\ LocalsOK(t)'
    <2>1. pc' \in [Threads -> Labels] /\ pc'[t] = l
      BY <1>5 DEF Goto, Types, Labels
    <2>2. LocalsOK(t)'
      BY <1>1, <1>2, <1>3, <1>5, <2>1, WriterLocals DEF Writers
    <2> QED BY <1>1, <1>5, <2>1, <2>2 DEF Types, OthersStay, Goto
  <1>6. CASE MarkValue(t)
    <2>1. pc[t] = "g.value" /\ UNCHANGED <<owner, value>>
      BY <1>6 DEF MarkValue, At
    <2>2. hz[t].left + hz[t].i > HazardCount
      BY <1>1, <2>1, WriterFacts
    <2>3. CASE value[hz[t].i] = hz[t].p
      BY <1>5, <1>6, <2>1, <2>2, <2>3 DEF MarkValue, Types
    <2>4. CASE value[hz[t].i] # hz[t].p
      <3>1. NextHazard(t)
        BY <1>6, <2>4 DEF MarkValue
      <3> QED BY <1>3, <1>4, <2>1, <2>2, <3>1 DEF Types
    <2> QED BY <2>3, <2>4
  <1>7. CASE MarkOwner(t)
    <2>1. pc[t] = "g.owner" /\ UNCHANGED value
      BY <1>7 DEF MarkOwner, At
    <2>2. hz[t].left + hz[t].i > HazardCount
      BY <1>1, <2>1, WriterFacts
    <2>3. owner' \in [Hz -> [own : Cells \cup {None}, flag : BOOLEAN]]
      <3>1. CASE owner' = [owner EXCEPT ![hz[t].i].flag = TRUE]
        BY <1>3, <3>1 DEF Types
      <3>2. CASE UNCHANGED owner
        BY <3>2 DEF Types
      <3> QED BY <1>7, <3>1, <3>2 DEF MarkOwner
    <2>4. \/ Goto(t, "g.give") /\ UNCHANGED hz
          \/ Goto(t, "g.value") /\ UNCHANGED hz
          \/ NextHazard(t)
      BY <1>7 DEF MarkOwner
    <2> QED BY <1>3, <1>4, <1>5, <2>1, <2>2, <2>3, <2>4
  <1>8. CASE MarkGive(t)
    <2>1. pc[t] = "g.give" /\ Goto(t, "g.unflag") /\ UNCHANGED owner
      BY <1>8 DEF MarkGive, At
    <2>2. hz[t].left + hz[t].i > HazardCount
      BY <1>1, <2>1, WriterFacts
    <2>3. CASE UNCHANGED <<value, hz>>
      BY <1>5, <2>1, <2>2, <2>3 DEF Types
    <2>4. CASE /\ value' = [value EXCEPT ![hz[t].i] = None]
               /\ Set(t, [hz[t] EXCEPT !.left = hz[t].left - 1])
      <3>1. hz[t].left - 1 \in 0 .. HazardCount + 1
        BY <1>3, <2>2
      <3> DEFINE f == [hz[t] EXCEPT !.left = hz[t].left - 1]
      <3>2. /\ f \in Locals /\ f.p = hz[t].p /\ f.left = hz[t].left - 1
            /\ f.i = hz[t].i
        BY <1>1, <3>1, SetLeft
      <3>3. hz' = [hz EXCEPT ![t] = f]
        BY <2>4 DEF Set
      <3> HIDE DEF f
      <3>4. hz' \in [Threads -> Locals] /\ hz'[t] = f
        BY <3>2, <3>3 DEF Types
      <3>5. pc' \in [Threads -> Labels] /\ pc'[t] = "g.unflag"
        BY <2>1 DEF Goto, Types, Labels
      <3>6. hz'[t].left + hz'[t].i >= HazardCount
        BY <1>3, <2>2, <3>2, <3>4
      <3>7. LocalsOK(t)'
        BY <1>1, <1>2, <3>2, <3>4, <3>5, <3>6, WriterLocals DEF Writers
      <3>8. value' \in [Hz -> Ptr]
        BY <2>4 DEF Types, Ptr
      <3> QED BY <1>1, <2>1, <3>3, <3>4, <3>5, <3>7, <3>8
              DEF Types, OthersStay, Goto
    <2> QED BY <1>8, <2>3, <2>4 DEF MarkGive
  <1>9. CASE MarkUnflag(t)
    <2>1. pc[t] = "g.unflag" /\ NextHazard(t) /\ UNCHANGED value
      BY <1>9 DEF MarkUnflag, At
    <2>2. hz[t].left + hz[t].i >= HazardCount
      BY <1>1, <2>1, WriterFacts
    <2>3. owner' \in [Hz -> [own : Cells \cup {None}, flag : BOOLEAN]]
      BY <1>3, <1>9 DEF MarkUnflag, Types
    <2> QED BY <1>4, <2>1, <2>2, <2>3
  <1> QED BY <1>6, <1>7, <1>8, <1>9, MarkCases

LEMMA TypedInit == Init => Typed
  <1> SUFFICES ASSUME Init PROVE Typed
    OBVIOUS
  <1>1. Null \in Ptrs /\ None \in Ptr
    BY DEF Null, Ptrs, Ptr
  <1>2. prog \in [Threads -> Seq(Call)]
    BY LlptrAssumption DEF Init
  <1>3. Types
    BY <1>1, <1>2, NoLocalsType DEF Init, Types, Nobody, Labels
  <1>4. \A t \in Threads : LocalsOK(t)
    BY NoLocalsType DEF Init, LocalsOK, Grants, InHazard
  <1> QED BY <1>3, <1>4 DEF Typed

\* A step is a step of one thread.
LEMMA TypedRun ==
    ASSUME Typed, NEW t \in Threads, Run(t)
    PROVE  Types' /\ OthersStay(t) /\ LocalsOK(t)'
  BY TypedPlain, TypedLoad, TypedAllocate, TypedDoHazard, TypedReread,
     TypedTaken, TypedFree, TypedSwap, TypedCasSucceeds, TypedCasFails,
     TypedGrant, TypedMark DEF Run

LEMMA TypedNext ==
    ASSUME Typed, [Next]_vars
    PROVE  Typed'
  <1>1. CASE UNCHANGED vars
    BY <1>1 DEF vars, Typed, Types, LocalsOK, Grants, InHazard, Op
  <1>2. ASSUME NEW t \in Threads, Run(t) PROVE Typed'
    <2>1. Types' /\ OthersStay(t) /\ LocalsOK(t)'
      BY <1>2, TypedRun
    <2>2. ASSUME NEW u \in Threads, u # t PROVE LocalsOK(u)'
      <3>1. LocalsOK(u)
        BY DEF Typed
      <3>2. /\ pc'[u] = pc[u] /\ hz'[u] = hz[u] /\ prog'[u] = prog[u]
            /\ hold'[u] = hold[u]
        BY <2>1, <2>2 DEF OthersStay
      <3> QED BY <3>1, <3>2 DEF LocalsOK, Grants, InHazard, Op
    <2> QED BY <2>1, <2>2 DEF Typed
  <1> QED BY <1>1, <1>2 DEF Next

-----------------------------------------------------------------------------
(* Whose a hazard is.                                                      *)


\* Other threads have the hazards that they had.
LEMMA OthersHazards ==
    ASSUME NEW t \in Threads, OthersStay(t), NEW u \in Threads \ {t}
    PROVE  /\ HasHazard(u)' = HasHazard(u) /\ InHazard(u)' = InHazard(u)
           /\ hz'[u].h = hz[u].h /\ hz'[u].v = hz[u].v
           /\ Op(u)' = Op(u) /\ At(u, "hz.acq")' = At(u, "hz.acq")
  BY DEF OthersStay, HasHazard, InHazard, Op, At

\* A step of t that allocates no hazard, frees none and names nothing.
LEMMA OwningFrame ==
    ASSUME Typed, Owning, NEW t \in Threads, OthersStay(t),
           \A h \in Hz : owner'[h].own = owner[h].own, value' = value,
           HasHazard(t)' => /\ HasHazard(t) /\ hz'[t].h = hz[t].h
                            /\ prog'[t] = prog[t],
           InHazard(t) => /\ InHazard(t)' /\ hz'[t].h = hz[t].h
                          /\ hz'[t].v = hz[t].v
    PROVE  Owning'
  <1>1. ASSUME NEW u \in Threads PROVE Owns(u)'
    <2>1. hz[u].h \in Hz
      BY FieldTypes DEF Typed, Types
    <2>2. CASE u = t
      BY <2>1, <2>2 DEF Owning, Owns, Op
    <2>3. CASE u # t
      BY <2>1, <2>3, OthersHazards DEF Owning, Owns
    <2> QED BY <2>2, <2>3
  <1>2. ASSUME NEW u \in Threads, NEW w \in Threads PROVE Apart(u, w)'
    BY OthersHazards DEF Owning, Apart
  <1>3. ASSUME NEW h \in Hz PROVE Named(h)'
    <2> SUFFICES ASSUME value[h] # None PROVE Named(h)'
      BY DEF Named
    <2>1. PICK u \in Threads : /\ InHazard(u) /\ hz[u].h = h
                               /\ hz[u].v.p = value[h]
      BY DEF Owning, Named
    <2>2. /\ InHazard(u)' /\ hz'[u].h = h /\ hz'[u].v.p = value'[h]
      BY <2>1, OthersHazards
    <2> QED BY <2>2 DEF Named
  <1> QED BY <1>1, <1>2, <1>3 DEF Owning

\* The same, for a thread that has no hazard.
LEMMA OwningWithout ==
    ASSUME Typed, Owning, NEW t \in Threads, OthersStay(t),
           \A h \in Hz : owner'[h].own = owner[h].own, value' = value,
           ~HasHazard(t), ~HasHazard(t)'
    PROVE  Owning'
  <1>1. ~InHazard(t)
    BY DEF HasHazard
  <1> QED BY <1>1, OwningFrame

LEMMA OwningPlain ==
    ASSUME Typed, Owning, NEW t \in Threads, OthersStay(t),
           \/ New(t) \/ Drop(t) \/ fetch_or(t) \/ load(t) \/ Swap(t)
           \/ CasSucceeds(t) \/ CasFails(t) \/ grant(t)
    PROVE  Owning'
  <1>1. owner' = owner /\ value' = value
    BY DEF New, Drop, fetch_or, load, Swap, CasSucceeds, CasFails, grant
  <1>2. pc[t] \in {"idle", "g.acq", "g.rel"}
    BY DEF New, Drop, fetch_or, load, Swap, CasSucceeds, CasFails, grant, At
  <1>3. pc'[t] \in {"idle", "hz.alloc", "g.acq", "g.value"}
    BY <1>2 DEF New, Drop, fetch_or, load, Swap, CasSucceeds, CasFails, grant,
       End, Goto, Typed, Types
  <1> QED BY <1>1, <1>2, <1>3, OwningWithout DEF HasHazard, InHazard

LEMMA OwningAllocate ==
    ASSUME Typed, Typed', Owning, NEW t \in Threads, OthersStay(t),
           allocate_hazard(t)
    PROVE  Owning'
  <1>1. PICK h \in Hz : /\ owner[h] = Nobody
                        /\ owner' = [owner EXCEPT ![h].own = Op(t).c]
                        /\ Set(t, [hz[t] EXCEPT !.h = h])
    BY DEF allocate_hazard
  <1>2. /\ pc[t] = "hz.alloc" /\ pc'[t] = "hz.set"
        /\ UNCHANGED <<value, prog>>
    BY DEF allocate_hazard, At, Goto, Typed, Types
  <1>3. hz[t] \in Locals /\ prog[t] # <<>>
    BY <1>2, ReaderFacts DEF Typed, Types, Readers
  <1>4. hz'[t].h = h
    BY <1>1, <1>3, SetH DEF Set, Typed, Types
  <1>5. /\ owner'[h].own = Op(t).c
        /\ \A k \in Hz \ {h} : owner'[k].own = owner[k].own
    BY <1>1 DEF Typed, Types
  <1>6. ASSUME NEW u \in Threads, HasHazard(u)
        PROVE  hz[u].h \in Hz /\ hz[u].h # h
    <2>1. prog[u] # <<>> /\ hz[u].h \in Hz
      BY <1>6, ReaderFacts, FieldTypes
      DEF Typed, Types, HasHazard, InHazard, Readers
    <2>2. owner[hz[u].h].own # None
      BY <1>6, <2>1, OpIsCall DEF Owning, Owns, Typed
    <2> QED BY <1>1, <2>1, <2>2 DEF Nobody
  <1>7. ASSUME NEW u \in Threads PROVE Owns(u)'
    <2>1. CASE u = t
      BY <1>2, <1>4, <1>5, <2>1 DEF Owns, Op
    <2>2. CASE u # t
      BY <1>5, <1>6, <2>2, OthersHazards DEF Owning, Owns
    <2> QED BY <2>1, <2>2
  <1>8. ASSUME NEW u \in Threads, NEW w \in Threads PROVE Apart(u, w)'
    <2>1. CASE u # t /\ w # t
      BY <2>1, OthersHazards DEF Owning, Apart
    <2>2. CASE u = t
      BY <1>4, <1>6, <2>2, OthersHazards DEF Apart
    <2>3. CASE w = t
      BY <1>4, <1>6, <2>3, OthersHazards DEF Apart
    <2> QED BY <2>1, <2>2, <2>3
  <1>9. ASSUME NEW k \in Hz, value[k] # None PROVE Named(k)'
    <2>1. PICK u \in Threads : /\ InHazard(u) /\ hz[u].h = k
                               /\ hz[u].v.p = value[k]
      BY <1>9 DEF Owning, Named
    <2>2. u # t
      BY <1>2, <2>1 DEF InHazard
    <2>3. InHazard(u)' /\ hz'[u].h = k /\ hz'[u].v.p = value'[k]
      BY <1>2, <2>1, <2>2, OthersHazards
    <2> QED BY <2>3 DEF Named
  <1>10. \A k \in Hz : Named(k)'
    BY <1>2, <1>9 DEF Named
  <1> QED BY <1>7, <1>8, <1>10 DEF Owning

\* A step of t that keeps its hazard, and names or clears what it reads.
LEMMA OwningReader ==
    ASSUME Typed, Owning, NEW t \in Threads, OthersStay(t), owner' = owner,
           HasHazard(t), HasHazard(t)', hz'[t].h = hz[t].h,
           prog'[t] = prog[t], hz[t].h \in Hz,
           \A k \in Hz \ {hz[t].h} : value'[k] = value[k],
           value'[hz[t].h] # None =>
              InHazard(t)' /\ hz'[t].v.p = value'[hz[t].h]
    PROVE  Owning'
  <1>1. ASSUME NEW u \in Threads PROVE Owns(u)'
    BY OthersHazards DEF Owning, Owns, Op
  <1>2. ASSUME NEW u \in Threads, NEW w \in Threads PROVE Apart(u, w)'
    BY OthersHazards DEF Owning, Apart
  <1>3. ASSUME NEW k \in Hz, k # hz[t].h, value[k] # None PROVE Named(k)'
    <2>1. PICK u \in Threads : /\ InHazard(u) /\ hz[u].h = k
                               /\ hz[u].v.p = value[k]
      BY <1>3 DEF Owning, Named
    <2>2. InHazard(u)' /\ hz'[u].h = k /\ hz'[u].v.p = value'[k]
      BY <1>3, <2>1, OthersHazards
    <2> QED BY <2>2 DEF Named
  <1>4. \A k \in Hz : Named(k)'
    BY <1>3 DEF Named
  <1> QED BY <1>1, <1>2, <1>4 DEF Owning

LEMMA OwningDoHazard ==
    ASSUME Typed, Typed', Owning, NEW t \in Threads, OthersStay(t),
           do_hazard(t)
    PROVE  Owning'
  <1>1. UNCHANGED <<cell, owner, hold, prog>>
    BY DoHazardCases
  <1>2. hz[t] \in Locals /\ hz[t].h \in Hz
    BY FieldTypes DEF Typed, Types
  <1>3. CASE HazardSet(t)
    <2>1. pc[t] = "hz.set" /\ hz' = [hz EXCEPT ![t] = [hz[t] EXCEPT !.acq = 0]]
      BY <1>3 DEF HazardSet, At, Set
    <2>2. hz'[t].h = hz[t].h /\ hz'[t].v = hz[t].v
      <3>1. 0 \in 0 .. 2
        OBVIOUS
      <3>2. /\ [hz[t] EXCEPT !.acq = 0].h = hz[t].h
            /\ [hz[t] EXCEPT !.acq = 0].v = hz[t].v
        BY <1>2, <3>1, SetAcq
      <3> QED BY <2>1, <3>2 DEF Typed, Types
    <2>3. HasHazard(t) /\ ~InHazard(t)
      BY <2>1 DEF HasHazard, InHazard
    <2>4. CASE hz[t].v.p = None
      <3>1. pc'[t] = "hz.done" /\ value' = value
        BY <1>3, <2>4 DEF HazardSet, Goto, Typed, Types
      <3> QED BY <1>1, <2>2, <2>3, <3>1, OwningFrame
    <2>5. CASE hz[t].v.p # None
      <3>1. /\ pc'[t] = "hz.check"
            /\ value' = [value EXCEPT ![hz[t].h] = hz[t].v.p]
        BY <1>3, <2>5 DEF HazardSet, Goto, Typed, Types
      <3>2. InHazard(t)' /\ HasHazard(t)'
        BY <3>1 DEF InHazard, HasHazard
      <3>3. /\ value'[hz[t].h] = hz[t].v.p
            /\ \A k \in Hz \ {hz[t].h} : value'[k] = value[k]
        BY <1>2, <3>1 DEF Typed, Types
      <3> QED BY <1>1, <1>2, <2>2, <2>3, <3>2, <3>3, OwningReader
    <2> QED BY <2>4, <2>5
  <1>4. CASE HazardCheck(t)
    <2>1. /\ pc[t] = "hz.check" /\ pc'[t] \in {"hz.acq", "hz.clear"}
          /\ UNCHANGED <<value, hz>>
      BY <1>4 DEF HazardCheck, At, Goto, Typed, Types
    <2>2. HasHazard(t) /\ InHazard(t)'
      BY <2>1 DEF HasHazard, InHazard
    <2> QED BY <1>1, <2>1, <2>2, OwningFrame
  <1>5. CASE HazardAcquire(t)
    <2>1. /\ pc[t] = "hz.acq" /\ pc'[t] = "hz.clear" /\ value' = value
          /\ hz' = [hz EXCEPT ![t] = [hz[t] EXCEPT !.acq = 1]]
      BY <1>5 DEF HazardAcquire, At, Set, Goto, Typed, Types
    <2>2. hz'[t].h = hz[t].h /\ hz'[t].v = hz[t].v
      <3>1. 1 \in 0 .. 2
        OBVIOUS
      <3>2. /\ [hz[t] EXCEPT !.acq = 1].h = hz[t].h
            /\ [hz[t] EXCEPT !.acq = 1].v = hz[t].v
        BY <1>2, <3>1, SetAcq
      <3> QED BY <2>1, <3>2 DEF Typed, Types
    <2>3. HasHazard(t) /\ InHazard(t)'
      BY <2>1 DEF HasHazard, InHazard
    <2> QED BY <1>1, <2>1, <2>2, <2>3, OwningFrame
  <1>6. CASE HazardClear(t)
    <2>1. /\ pc[t] = "hz.clear" /\ pc'[t] = "hz.done"
          /\ value' = [value EXCEPT ![hz[t].h] = None]
          /\ hz' = [hz EXCEPT ![t] = [hz[t] EXCEPT !.acq = CountedGrant(t)]]
      BY <1>6 DEF HazardClear, At, Set, Goto, Typed, Types
    <2>2. hz'[t].h = hz[t].h
      BY <1>2, <2>1 DEF Typed, Types, Locals
    <2>3. HasHazard(t) /\ HasHazard(t)'
      BY <2>1 DEF HasHazard, InHazard
    <2>4. /\ value'[hz[t].h] = None
          /\ \A k \in Hz \ {hz[t].h} : value'[k] = value[k]
      BY <1>2, <2>1 DEF Typed, Types
    <2> QED BY <1>1, <1>2, <2>2, <2>3, <2>4, OwningReader
  <1> QED BY <1>3, <1>4, <1>5, <1>6, DoHazardCases

LEMMA OwningReread ==
    ASSUME Typed, Owning, NEW t \in Threads, OthersStay(t), Reread(t)
    PROVE  Owning'
  <1>1. /\ pc[t] = "hz.done" /\ UNCHANGED <<owner, value, prog>>
        /\ Set(t, [hz[t] EXCEPT !.v = Readout(t)])
    BY DEF Reread, At
  <1>2. hz[t] \in Locals
    BY DEF Typed, Types
  <1>3. hz'[t].h = hz[t].h
    BY <1>1, <1>2 DEF Set, Typed, Types, Locals
  <1>4. HasHazard(t) /\ ~InHazard(t)
    BY <1>1 DEF HasHazard, InHazard
  <1> QED BY <1>1, <1>3, <1>4, OwningFrame

LEMMA OwningTaken ==
    ASSUME Typed, Owning, NEW t \in Threads, OthersStay(t), Taken(t)
    PROVE  Owning'
  <1>1. /\ pc[t] = "hz.done" /\ UNCHANGED <<owner, value, prog>>
    BY DEF Taken, At
  <1>2. hz[t] \in Locals
    BY DEF Typed, Types
  <1>3. hz'[t].h = hz[t].h
    BY <1>2 DEF Taken, Set, Typed, Types, Locals
  <1>4. HasHazard(t) /\ ~InHazard(t)
    BY <1>1 DEF HasHazard, InHazard
  <1> QED BY <1>1, <1>3, <1>4, OwningFrame

LEMMA OwningFree ==
    ASSUME Typed, Owning, NEW t \in Threads, OthersStay(t), FreeHazard(t)
    PROVE  Owning'
  <1>1. /\ pc[t] \in {"hz.free", "hz.again"}
        /\ owner' = [owner EXCEPT ![hz[t].h].own = None]
        /\ value' = value
    BY DEF FreeHazard, At
  <1>2. pc'[t] = "idle"
    BY DEF FreeHazard, End, Goto, Typed, Types
  <1>3. hz[t].h \in Hz /\ HasHazard(t) /\ ~InHazard(t) /\ ~HasHazard(t)'
    BY <1>1, <1>2, FieldTypes DEF HasHazard, InHazard, Typed, Types
  <1>4. ASSUME NEW u \in Threads PROVE Owns(u)'
    <2>1. CASE u = t
      BY <1>3, <2>1 DEF Owns
    <2>2. CASE u # t
      <3> SUFFICES ASSUME HasHazard(u) PROVE owner'[hz[u].h].own = Op(u).c
        BY <2>2, OthersHazards DEF Owns
      <3>1. hz[u].h # hz[t].h /\ owner[hz[u].h].own = Op(u).c
        BY <1>3, <2>2 DEF Owning, Apart, Owns
      <3>2. hz[u].h \in Hz
        BY FieldTypes DEF Typed, Types
      <3> QED BY <1>1, <1>3, <3>1, <3>2 DEF Typed, Types
    <2> QED BY <2>1, <2>2
  <1>5. ASSUME NEW u \in Threads, NEW w \in Threads PROVE Apart(u, w)'
    BY <1>3, OthersHazards DEF Owning, Apart
  <1>6. ASSUME NEW k \in Hz, value[k] # None PROVE Named(k)'
    <2>1. PICK u \in Threads : /\ InHazard(u) /\ hz[u].h = k
                               /\ hz[u].v.p = value[k]
      BY <1>6 DEF Owning, Named
    <2>2. InHazard(u)' /\ hz'[u].h = k /\ hz'[u].v.p = value'[k]
      BY <1>1, <1>3, <2>1, OthersHazards
    <2> QED BY <2>2 DEF Named
  <1>7. \A k \in Hz : Named(k)'
    BY <1>1, <1>6 DEF Named
  <1> QED BY <1>4, <1>5, <1>7 DEF Owning

\* mark() changes flags, and takes what a hazard names.
LEMMA OwningMark ==
    ASSUME Typed, Typed', Owning, NEW t \in Threads, OthersStay(t), mark(t)
    PROVE  Owning'
  <1>1. pc[t] \in {"g.value", "g.owner", "g.give", "g.unflag"}
    BY DEF mark, At
  <1>2. pc'[t] \in {"g.value", "g.owner", "g.give", "g.unflag", "g.rel"}
    BY DEF mark, Goto, NextHazard, Typed, Types
  <1>3. /\ ~HasHazard(t) /\ ~InHazard(t)
        /\ ~HasHazard(t)' /\ ~InHazard(t)'
    BY <1>1, <1>2 DEF HasHazard, InHazard
  <1>4. hz[t].i \in Hz
    BY FieldTypes DEF Typed, Types
  <1>5. \A h \in Hz : owner'[h].own = owner[h].own
    <2>1. \/ owner' = [owner EXCEPT ![hz[t].i].flag = TRUE]
          \/ owner' = [owner EXCEPT ![hz[t].i].flag = FALSE]
          \/ owner' = owner
      BY DEF mark
    <2>2. ASSUME NEW b \in BOOLEAN,
                 owner' = [owner EXCEPT ![hz[t].i].flag = b], NEW h \in Hz
          PROVE  owner'[h].own = owner[h].own
      <3>1. owner \in [Hz -> [own : Cells \cup {None}, flag : BOOLEAN]]
        BY DEF Typed, Types
      <3> QED BY <1>4, <2>2, <3>1
    <2> QED BY <2>1, <2>2
  <1>6. CASE value' = value
    BY <1>3, <1>5, <1>6, OwningWithout
  <1>7. CASE value' = [value EXCEPT ![hz[t].i] = None]
    <2>1. ASSUME NEW u \in Threads PROVE Owns(u)'
      <3>1. hz[u].h \in Hz
        BY FieldTypes DEF Typed, Types
      <3>2. CASE u = t
        BY <1>3, <3>2 DEF Owns
      <3>3. CASE u # t
        BY <1>5, <3>1, <3>3, OthersHazards DEF Owning, Owns
      <3> QED BY <3>2, <3>3
    <2>2. ASSUME NEW u \in Threads, NEW w \in Threads PROVE Apart(u, w)'
      BY <1>3, OthersHazards DEF Owning, Apart
    <2>3. ASSUME NEW k \in Hz, value'[k] # None PROVE Named(k)'
      <3>1. value[k] # None /\ value'[k] = value[k]
        BY <1>4, <1>7, <2>3 DEF Typed, Types
      <3>2. PICK u \in Threads : /\ InHazard(u) /\ hz[u].h = k
                                 /\ hz[u].v.p = value[k]
        BY <3>1 DEF Owning, Named
      <3>3. InHazard(u)' /\ hz'[u].h = k /\ hz'[u].v.p = value'[k]
        BY <1>3, <3>1, <3>2, OthersHazards
      <3> QED BY <3>3 DEF Named
    <2>4. \A k \in Hz : Named(k)'
      BY <2>3 DEF Named
    <2> QED BY <2>1, <2>2, <2>4 DEF Owning
  <1> QED BY <1>6, <1>7 DEF mark

LEMMA OwningInit == Init => Owning
  BY DEF Init, Owning, Owns, Apart, Named, HasHazard, InHazard

LEMMA OwningNext ==
    ASSUME Typed, Typed', Owning, [Next]_vars
    PROVE  Owning'
  <1>1. CASE UNCHANGED vars
    BY <1>1 DEF vars, Owning, Owns, Apart, Named, HasHazard, InHazard, Op
  <1>2. ASSUME NEW t \in Threads, Run(t) PROVE Owning'
    <2>1. OthersStay(t)
      BY <1>2, TypedRun
    <2> QED BY <1>2, <2>1, OwningPlain, OwningAllocate, OwningDoHazard,
               OwningReread, OwningTaken, OwningFree, OwningMark DEF Run
  <1> QED BY <1>1, <1>2 DEF Next

-----------------------------------------------------------------------------
(* What a reader relies on when it acquires.                               *)

\* What a hazard names is what its owner read.
LEMMA NamedByOwner ==
    ASSUME Typed, Owning, NEW w \in Threads, InHazard(w),
           value[hz[w].h] # None
    PROVE  value[hz[w].h] = hz[w].v.p
  <1>1. hz[w].h \in Hz
    BY FieldTypes DEF Typed, Types
  <1>2. PICK u \in Threads : /\ InHazard(u) /\ hz[u].h = hz[w].h
                             /\ hz[u].v.p = value[hz[w].h]
    BY <1>1 DEF Owning, Named
  <1>3. u = w
    BY <1>2 DEF Owning, Apart, HasHazard
  <1> QED BY <1>2, <1>3

\* Another thread never names anything in the hazard of w.
LEMMA NamedStays ==
    ASSUME Typed, Owning, NEW t \in Threads, Run(t), NEW w \in Threads \ {t},
           HasHazard(w), value'[hz[w].h] # None
    PROVE  value'[hz[w].h] = value[hz[w].h]
  <1>1. hz[w].h \in Hz /\ hz[t].h \in Hz /\ hz[t].i \in Hz
    BY FieldTypes DEF Typed, Types
  <1>2. CASE value' = value
    BY <1>2
  <1>3. CASE \E h \in Hz : value' = [value EXCEPT ![h] = None]
    BY <1>1, <1>3 DEF Typed, Types
  <1>4. CASE HazardSet(t)
    <2>1. HasHazard(t)
      BY <1>4 DEF HazardSet, HasHazard, At
    <2>2. hz[t].h # hz[w].h
      BY <2>1 DEF Owning, Apart
    <2> QED BY <1>1, <1>4, <2>2 DEF HazardSet, Typed, Types
  <1>5. CASE do_hazard(t)
    BY <1>1, <1>2, <1>3, <1>4, <1>5, DoHazardCases
    DEF HazardCheck, HazardAcquire, HazardClear
  <1>6. CASE mark(t)
    BY <1>1, <1>2, <1>3, <1>6 DEF mark
  <1> QED BY <1>2, <1>5, <1>6
          DEF Run, New, Drop, fetch_or, load, allocate_hazard, Reread, Taken,
              FreeHazard, Swap, CasSucceeds, CasFails, grant

\* A grant that is to come to the hazard of w still is after a step of it,
\* unless the step is the one that gives the reference.
LEMMA PassesNoReader ==
    ASSUME Typed, Owning, NEW t \in Threads, Run(t), OthersStay(t),
           NEW w \in Threads \ {t}, At(w, "hz.acq"), Covered(w, t),
           value'[hz[w].h] # None
    PROVE  Covered(w, t)'
  <1>1. /\ pc[t] \in {"g.acq", "g.value", "g.owner", "g.give", "g.unflag"}
        /\ hz[t].p = hz[w].v.p /\ Op(t).c = Op(w).c
        /\ Pending(t, hz[w].h)
    BY DEF Covered, Pending
  <1>2. grant(t) \/ mark(t)
    BY <1>1 DEF Run, New, Drop, fetch_or, load, allocate_hazard, do_hazard,
                Reread, Taken, FreeHazard, Swap, CasSucceeds, CasFails, At
  <1>3. /\ InHazard(w) /\ HasHazard(w)
        /\ value[hz[w].h] = hz[w].v.p /\ owner[hz[w].h].own = Op(w).c
    <2>1. InHazard(w) /\ HasHazard(w)
      BY DEF InHazard, HasHazard, At
    <2>2. value[hz[w].h] # None
      BY <2>1, NamedStays
    <2> QED BY <2>1, <2>2, NamedByOwner DEF Owning, Owns
  <1>4. /\ hz[t] \in Locals /\ hz[w].h \in 1 .. HazardCount
        /\ hz[t].i \in 1 .. HazardCount /\ HazardCount \in Nat
    BY FieldTypes, LlptrAssumption DEF Typed, Types, Hz
  <1>5. hz'[w].v = hz[w].v /\ hz'[w].h = hz[w].h /\ Op(w)' = Op(w)
    BY OthersHazards
  <1>6. ASSUME prog' = prog, hz'[t].p = hz[t].p, Pending(t, hz[w].h)'
        PROVE  Covered(w, t)'
    BY <1>1, <1>5, <1>6 DEF Covered, Op, Pending
  <1>7. ASSUME prog' = prog, NextHazard(t), hz[t].i < hz[w].h
        PROVE  Covered(w, t)'
    <2>1. /\ Goto(t, "g.value")
          /\ hz' = [hz EXCEPT ![t] = [hz[t] EXCEPT !.i = hz[t].i + 1]]
      BY <1>4, <1>7, NextHazardCases DEF Typed
    <2>2. hz[t].i + 1 \in Hz
      BY <1>4, <1>7 DEF Hz
    <2>3. /\ pc'[t] = "g.value" /\ hz'[t].p = hz[t].p
          /\ hz'[t].i = hz[t].i + 1
      BY <1>4, <2>1, <2>2, SetI DEF Goto, Typed, Types
    <2>4. Pending(t, hz[w].h)'
      BY <1>4, <1>5, <1>7, <2>3 DEF Pending
    <2> QED BY <1>6, <1>7, <2>3, <2>4
  <1>8. ASSUME prog' = prog, hz'[t].p = hz[t].p, hz'[t].i = hz[t].i,
               \/ /\ pc'[t] \in {"g.value", "g.owner", "g.give"}
                  /\ hz[t].i =< hz[w].h
               \/ pc'[t] = "g.unflag" /\ hz[t].i < hz[w].h
        PROVE  Covered(w, t)'
    <2>1. Pending(t, hz[w].h)'
      BY <1>5, <1>8 DEF Pending
    <2> QED BY <1>6, <1>8, <2>1
  <1>9. CASE GrantAcquire(t)
    <2>1. /\ pc[t] = "g.acq" /\ pc'[t] = "g.value" /\ prog' = prog
      BY <1>9 DEF GrantAcquire, At, Goto, Typed, Types
    <2>2. hz[t].i = 1
      BY <2>1, WriterFacts DEF Typed, Writers
    <2>3. hz'[t].p = hz[t].p /\ hz'[t].i = hz[t].i
      BY <1>4, <1>9 DEF GrantAcquire, Set, Typed, Types, Locals
    <2> QED BY <1>4, <1>8, <2>1, <2>2, <2>3
  <1>10. CASE GrantRelease(t)
    BY <1>1, <1>10 DEF GrantRelease, At
  <1>11. CASE MarkValue(t)
    <2>1. pc[t] = "g.value" /\ prog' = prog /\ hz[t].i =< hz[w].h
      BY <1>1, <1>11 DEF MarkValue, At, Pending
    <2>2. CASE value[hz[t].i] = hz[t].p
      <3>1. pc'[t] = "g.owner" /\ hz' = hz
        BY <1>11, <2>2 DEF MarkValue, Goto, Typed, Types
      <3> QED BY <1>8, <2>1, <3>1
    <2>3. CASE value[hz[t].i] # hz[t].p
      <3>1. hz[t].i # hz[w].h
        BY <1>1, <1>3, <2>3
      <3> QED BY <1>4, <1>7, <1>11, <2>1, <2>3, <3>1 DEF MarkValue
    <2> QED BY <2>2, <2>3
  <1>12. CASE MarkOwner(t)
    <2>1. pc[t] = "g.owner" /\ prog' = prog /\ hz[t].i =< hz[w].h
      BY <1>1, <1>12 DEF MarkOwner, At, Pending
    <2>2. CASE NextHazard(t) /\ owner[hz[t].i].own # Op(t).c
      <3>1. hz[t].i # hz[w].h
        BY <1>1, <1>3, <2>2
      <3> QED BY <1>4, <1>7, <2>1, <2>2, <3>1
    <2>3. CASE hz' = hz /\ (Goto(t, "g.give") \/ Goto(t, "g.value"))
      <3>1. pc'[t] \in {"g.give", "g.value"}
        BY <2>3 DEF Goto, Typed, Types
      <3> QED BY <1>8, <2>1, <2>3, <3>1
    <2> QED BY <1>12, <2>2, <2>3 DEF MarkOwner
  <1>13. CASE MarkGive(t)
    <2>1. /\ pc[t] = "g.give" /\ prog' = prog /\ hz[t].i =< hz[w].h
          /\ pc'[t] = "g.unflag"
      BY <1>1, <1>13 DEF MarkGive, At, Pending, Goto, Typed, Types
    <2>2. hz[t].i # hz[w].h
      <3>1. CASE value[hz[t].i] # hz[t].p
        BY <1>1, <1>3, <3>1
      <3>2. CASE value[hz[t].i] = hz[t].p
        <4>1. value' = [value EXCEPT ![hz[t].i] = None]
          BY <1>13, <3>2 DEF MarkGive
        <4>2. value'[hz[t].i] = None
          BY <1>4, <4>1 DEF Typed, Types, Hz
        <4> QED BY <4>2
      <3> QED BY <3>1, <3>2
    <2>3. hz'[t].p = hz[t].p /\ hz'[t].i = hz[t].i
      BY <1>4, <1>13 DEF MarkGive, Set, Typed, Types, Locals
    <2> QED BY <1>4, <1>8, <2>1, <2>2, <2>3
  <1>14. CASE MarkUnflag(t)
    <2>1. pc[t] = "g.unflag" /\ prog' = prog /\ hz[t].i < hz[w].h
      BY <1>1, <1>14 DEF MarkUnflag, At, Pending
    <2> QED BY <1>7, <1>14, <2>1 DEF MarkUnflag
  <1> QED BY <1>2, <1>9, <1>10, <1>11, <1>12, <1>13, <1>14, GrantCases,
             MarkCases DEF Typed

\* A writer that takes the pointer out of the llptr of w has it to grant.
LEMMA TakesOverReader ==
    ASSUME Typed, NEW t \in Threads, Run(t), OthersStay(t),
           NEW w \in Threads \ {t}, At(w, "hz.acq"), MayAcquire(w),
           ~MayAcquire(w)'
    PROVE  Covered(w, t)'
  <1>1. prog[w] # <<>> /\ hz[w].v.p # None
    BY ReaderFacts DEF At, Typed, Readers
  <1>2. Op(w).c \in Cells
    BY <1>1, OpIsCall DEF Typed
  <1>3. hz'[w].v = hz[w].v /\ hz'[w].h = hz[w].h /\ Op(w)' = Op(w)
    BY OthersHazards
  <1>4. /\ cell'[Op(w).c].p # cell[Op(w).c].p
        /\ cell[Op(w).c].p = hz[w].v.p
    BY <1>3 DEF MayAcquire
  <1>5. ASSUME NEW n \in 0 .. 2, Granting(t, hz[w].v.p, n), pc[t] = "idle",
               Op(t).c = Op(w).c
        PROVE  Covered(w, t)'
    <2>1. /\ pc'[t] = "g.acq" /\ Op(t)' = Op(t)
          /\ hz' = [hz EXCEPT ![t] = [hz[t] EXCEPT !.p = hz[w].v.p,
                                                   !.left = n]]
      BY <1>5 DEF Granting, Goto, Op, Typed, Types
    <2>2. hz[t] = NoLocals
      BY <1>5 DEF Typed, LocalsOK
    <2>3. hz'[t].p = hz[w].v.p
      BY <2>1, <2>2 DEF Typed, Types, NoLocals
    <2> QED BY <1>3, <1>5, <2>1, <2>3 DEF Covered, Pending
  <1>6. CASE Swap(t)
    <2>1. /\ pc[t] = "idle" /\ prog[t] # <<>>
          /\ cell' = [cell EXCEPT ![Op(t).c] =
                         [p |-> hold[t][Op(t).r], fl |-> FALSE]]
      BY <1>6 DEF Swap, At
    <2>2. Op(t).c = Op(w).c
      BY <1>2, <1>4, <2>1 DEF Typed, Types
    <2> DEFINE m == IF Op(t).op = "store" THEN 1 ELSE 0
    <2>3. cell[Op(t).c].p = hz[w].v.p /\ cell[Op(t).c].p # None
      BY <1>1, <1>4, <2>2
    <2>4. Granting(t, cell[Op(t).c].p, m) /\ m \in 0 .. 2
      BY <1>6, <2>3 DEF Swap, Granting, Set
    <2>5. Granting(t, hz[w].v.p, m)
      BY <2>3, <2>4
    <2> QED BY <1>5, <2>1, <2>2, <2>4, <2>5
  <1>7. CASE CasSucceeds(t)
    <2>1. /\ pc[t] = "idle" /\ prog[t] # <<>>
          /\ cell' = [cell EXCEPT ![Op(t).c] = [p |-> hold[t][2], fl |-> FALSE]]
          /\ cell[Op(t).c].p = hold[t][1]
      BY <1>7 DEF CasSucceeds, At, Expect
    <2>2. Op(t).c = Op(w).c
      BY <1>2, <1>4, <2>1 DEF Typed, Types
    <2> DEFINE m == IF Op(t).op = "move" THEN 2 ELSE 1
    <2>3. hold[t][1] = hz[w].v.p /\ hold[t][1] # None
      BY <1>1, <1>4, <2>1, <2>2
    <2>4. Granting(t, hold[t][1], m) /\ m \in 0 .. 2
      BY <1>7, <2>3 DEF CasSucceeds, Granting, Set
    <2>5. Granting(t, hz[w].v.p, m)
      BY <2>3, <2>4
    <2> QED BY <1>5, <2>1, <2>2, <2>4, <2>5
  <1>8. CASE fetch_or(t)
    <2>1. prog[t] # <<>> /\ cell' = [cell EXCEPT ![Op(t).c].fl = TRUE]
      BY <1>8 DEF fetch_or
    <2>2. Op(t).c \in Cells
      BY <2>1, OpIsCall DEF Typed
    <2> QED BY <1>2, <1>4, <2>1, <2>2 DEF Typed, Types, Ptrs
  <1>9. CASE cell' = cell
    BY <1>4, <1>9
  <1> QED BY <1>6, <1>7, <1>8, <1>9
          DEF Run, New, Drop, load, allocate_hazard, do_hazard, Reread, Taken,
              FreeHazard, CasFails, grant, mark

\* A thread comes to acquire when it has seen the llptr a second time.
LEMMA SeesAgain ==
    ASSUME Typed, NEW t \in Threads, Run(t), pc'[t] = "hz.acq"
    PROVE  MayAcquire(t)'
  <1>1. do_hazard(t)
    BY DEF Run, New, Drop, fetch_or, load, allocate_hazard, Reread, Taken,
       FreeHazard, Swap, CasSucceeds, CasFails, grant, mark, NextHazard, End,
       Goto, At, Typed, Types
  <1>2. HazardCheck(t) /\ MayAcquire(t) /\ UNCHANGED <<cell, prog>>
    BY <1>1, DoHazardCases
    DEF HazardSet, HazardCheck, HazardAcquire, HazardClear, Goto, Typed, Types
  <1> QED BY <1>2 DEF HazardCheck, MayAcquire, Op

LEMMA ProtectedInit == Init => Protected
  BY DEF Init, Protected, Protects, At

LEMMA ProtectedNext ==
    ASSUME Typed, Owning, Protected, [Next]_vars
    PROVE  Protected'
  <1>1. CASE UNCHANGED vars
    BY <1>1 DEF vars, Protected, Protects, Covered, Pending, MayAcquire, At, Op
  <1>2. ASSUME NEW t \in Threads, Run(t), NEW w \in Threads
        PROVE  Protects(w)'
    <2>1. OthersStay(t)
      BY <1>2, TypedRun
    <2>2. CASE w = t
      BY <1>2, <2>2, SeesAgain DEF Protects, At
    <2>3. CASE w # t
      <3> SUFFICES ASSUME At(w, "hz.acq"), value'[hz[w].h] # None
                   PROVE  \/ MayAcquire(w)'
                          \/ \E u \in Threads : Covered(w, u)'
        BY <2>1, <2>3, OthersHazards DEF Protects
      <3>1. HasHazard(w)
        BY DEF At, HasHazard, InHazard
      <3>2. value[hz[w].h] # None
        BY <1>2, <2>3, <3>1, NamedStays
      <3>3. CASE MayAcquire(w)
        BY <1>2, <2>1, <2>3, <3>3, TakesOverReader
      <3>4. CASE \E u \in Threads : Covered(w, u)
        <4>1. PICK u \in Threads : Covered(w, u)
          BY <3>4
        <4>2. CASE u = t
          BY <1>2, <2>1, <2>3, <4>1, <4>2, PassesNoReader
        <4>3. CASE u # t
          <5>1. Covered(w, u)'
            BY <2>1, <2>3, <4>1, <4>3, OthersHazards
            DEF Covered, Pending, OthersStay, Op
          <5> QED BY <5>1
        <4> QED BY <4>2, <4>3
      <3> QED BY <3>2, <3>3, <3>4 DEF Protected, Protects
    <2> QED BY <2>2, <2>3
  <1> QED BY <1>1, <1>2 DEF Next, Protected

-----------------------------------------------------------------------------
(* Counting.                                                               *)

One(b) == IF b THEN 1 ELSE 0

\* Two sets that differ in one place at most.
LEMMA ChangeOne ==
    ASSUME NEW S, IsFiniteSet(S), NEW A \in SUBSET S, NEW B \in SUBSET S,
           NEW x \in S, \A y \in S \ {x} : y \in A <=> y \in B
    PROVE  /\ Cardinality(A) \in Nat /\ Cardinality(B) \in Nat
           /\ Cardinality(B) = Cardinality(A) + One(x \in B) - One(x \in A)
  <1>1. IsFiniteSet(A) /\ IsFiniteSet(B)
    BY FS_Subset
  <1>2. Cardinality(A) \in Nat /\ Cardinality(B) \in Nat
    BY <1>1, FS_CardinalityType
  <1>3. CASE (x \in A <=> x \in B)
    <2>1. A = B
      BY <1>3
    <2>2. One(x \in B) = One(x \in A) /\ One(x \in B) \in Int
      BY <1>3 DEF One
    <2> QED BY <1>2, <2>1, <2>2
  <1>4. CASE x \in A /\ x \notin B
    <2>1. B = A \ {x}
      BY <1>4
    <2>2. Cardinality(B) = Cardinality(A) - 1
      BY <1>1, <1>4, <2>1, FS_RemoveElement
    <2> QED BY <1>2, <1>4, <2>2 DEF One
  <1>5. CASE x \notin A /\ x \in B
    <2>1. B = A \cup {x}
      BY <1>5
    <2>2. Cardinality(B) = Cardinality(A) + 1
      BY <1>1, <1>5, <2>1, FS_AddElement
    <2> QED BY <1>2, <1>5, <2>2 DEF One
  <1> QED BY <1>3, <1>4, <1>5

\* The pairs of t and 1 .. n are n.
LEMMA SliceSize ==
    ASSUME NEW t, NEW n \in Nat
    PROVE  /\ IsFiniteSet({t} \X (1 .. n))
           /\ Cardinality({t} \X (1 .. n)) = n
  <1>1. IsFiniteSet({t}) /\ Cardinality({t}) = 1
    BY FS_Singleton
  <1>2. IsFiniteSet(1 .. n) /\ Cardinality(1 .. n) = n
    BY FS_Interval
  <1>3. /\ IsFiniteSet({t} \X (1 .. n))
        /\ Cardinality({t} \X (1 .. n)) = 1 * n
    BY <1>1, <1>2, FS_Product, ZenonT(60)
  <1>4. 1 * n = n
    OBVIOUS
  <1> QED BY <1>3, <1>4

\* In a set of pairs t has the first a of the numbers 1 .. n; and two such sets
\* differ in the pairs of t at most.
HasFirst(A, t, n, a) == \A i \in 1 .. n : <<t, i>> \in A <=> i =< a
SameBut(A, B, S, t, n) ==
    \A u \in S \ {t}, i \in 1 .. n : <<u, i>> \in A <=> <<u, i>> \in B

LEMMA ChangeSlice ==
    ASSUME NEW S, IsFiniteSet(S), NEW n \in Nat, NEW t \in S,
           NEW A \in SUBSET (S \X (1 .. n)), NEW B \in SUBSET (S \X (1 .. n)),
           NEW a \in 0 .. n, NEW b \in 0 .. n,
           HasFirst(A, t, n, a), HasFirst(B, t, n, b), SameBut(A, B, S, t, n)
    PROVE  /\ Cardinality(A) \in Nat /\ Cardinality(B) \in Nat
           /\ Cardinality(B) = Cardinality(A) + b - a
  <1>1. IsFiniteSet(S \X (1 .. n))
    <2>1. IsFiniteSet(1 .. n)
      BY FS_Interval
    <2> QED BY <2>1, FS_Product
  <1>2. IsFiniteSet(A) /\ IsFiniteSet(B)
    BY <1>1, FS_Subset
  <1>3. Cardinality(A) \in Nat /\ Cardinality(B) \in Nat
    BY <1>2, FS_CardinalityType
  <1> DEFINE At1 == {t} \X (1 .. a)
  <1> DEFINE At2 == {t} \X (1 .. b)
  <1>4. /\ IsFiniteSet(At1) /\ Cardinality(At1) = a
        /\ IsFiniteSet(At2) /\ Cardinality(At2) = b
    <2>1. a \in Nat /\ b \in Nat
      OBVIOUS
    <2>2. IsFiniteSet(At1) /\ Cardinality(At1) = a
      BY <2>1, SliceSize
    <2>3. IsFiniteSet(At2) /\ Cardinality(At2) = b
      BY <2>1, SliceSize
    <2> QED BY <2>2, <2>3
  <1>5. At1 \subseteq A /\ At2 \subseteq B
    BY DEF HasFirst
  <1>6. A \ At1 = B \ At2
    <2>1. ASSUME NEW x \in S \X (1 .. n)
          PROVE  x \in A \ At1 <=> x \in B \ At2
      <3>1. PICK u \in S : \E i \in 1 .. n : x = <<u, i>>
        OBVIOUS
      <3>2. PICK i \in 1 .. n : x = <<u, i>>
        BY <3>1
      <3>3. CASE u # t
        BY <3>2, <3>3 DEF SameBut
      <3>4. CASE u = t
        BY <3>2, <3>4 DEF HasFirst
      <3> QED BY <3>3, <3>4
    <2> QED BY <2>1
  <1>7. A \cap At1 = At1 /\ B \cap At2 = At2
    BY <1>5
  <1> HIDE DEF At1, At2
  <1>8. Cardinality(A \ At1) = Cardinality(A) - a
    <2>1. Cardinality(A \ At1) = Cardinality(A) - Cardinality(A \cap At1)
      BY <1>2, FS_Difference
    <2> QED BY <1>4, <1>7, <2>1
  <1>9. Cardinality(B \ At2) = Cardinality(B) - b
    <2>1. Cardinality(B \ At2) = Cardinality(B) - Cardinality(B \cap At2)
      BY <1>2, FS_Difference
    <2> QED BY <1>4, <1>7, <2>1
  <1>10. Cardinality(A) - a = Cardinality(B) - b
    BY <1>6, <1>8, <1>9
  <1>11. \A k, l \in Nat : k - a = l - b => l = k + b - a
    OBVIOUS
  <1> QED BY <1>3, <1>10, <1>11

\* What a thread at l with locals f and registers g adds to the count of p,
\* when the hazards name vs; and an llptr with v.
OwnIn(g, p) == One(g[1] = p) + One(g[2] = p)
CountIn(l, f, p) ==
    IF l \in {"hz.check", "hz.acq", "hz.clear", "hz.done"} /\ f.v.p = p
    THEN f.acq ELSE 0
GrantIn(l, f, vs, p) ==
    One(l \in {"hz.check", "hz.acq", "hz.clear"} /\ f.v.p = p
        /\ vs[f.h] = None)
LeftIn(f, p) == IF f.p = p THEN f.left ELSE 0
CallIn(l, f, vs, p) == CountIn(l, f, p) + GrantIn(l, f, vs, p) + LeftIn(f, p)

LEMMA InTypes ==
    ASSUME NEW l, NEW f \in Locals, NEW vs, NEW g, NEW p
    PROVE  /\ OwnIn(g, p) \in Nat /\ GrantIn(l, f, vs, p) \in 0 .. 1
           /\ CountIn(l, f, p) \in 0 .. 2
           /\ LeftIn(f, p) \in 0 .. HazardCount + 1
           /\ CallIn(l, f, vs, p) \in Nat
  <1>1. OwnIn(g, p) \in Nat /\ GrantIn(l, f, vs, p) \in 0 .. 1
    BY DEF OwnIn, GrantIn, One
  <1>2. CountIn(l, f, p) \in 0 .. 2 /\ LeftIn(f, p) \in 0 .. HazardCount + 1
    BY FieldTypes, LlptrAssumption DEF CountIn, LeftIn
  <1>3. CountIn(l, f, p) \in Nat /\ LeftIn(f, p) \in Nat
        /\ GrantIn(l, f, vs, p) \in Nat
    BY <1>1, <1>2, LlptrAssumption
  <1> QED BY <1>1, <1>2, <1>3 DEF CallIn

LEMMA StoredChange ==
    ASSUME NEW c \in Cells, NEW p \in Objs,
           \A d \in Cells \ {c} : cell'[d].p = cell[d].p
    PROVE  /\ Cardinality(Stored(p)) \in Nat
           /\ Cardinality(Stored(p))' \in Nat
           /\ Cardinality(Stored(p))'
                = Cardinality(Stored(p)) + One(cell'[c].p = p)
                  - One(cell[c].p = p)
  <1> DEFINE A == Stored(p)
  <1> DEFINE B == Stored(p)'
  <1>1. /\ A \in SUBSET Cells /\ B \in SUBSET Cells
        /\ \A d \in Cells \ {c} : d \in A <=> d \in B
        /\ c \in A <=> cell[c].p = p
        /\ c \in B <=> cell'[c].p = p
    BY DEF Stored
  <1>2. One(c \in A) = One(cell[c].p = p) /\ One(c \in B) = One(cell'[c].p = p)
    BY <1>1 DEF One
  <1> HIDE DEF A, B
  <1>3. /\ Cardinality(A) \in Nat /\ Cardinality(B) \in Nat
        /\ Cardinality(B) = Cardinality(A) + One(c \in B) - One(c \in A)
    BY <1>1, ChangeOne, LlptrAssumption
  <1> QED BY <1>2, <1>3 DEF A, B

LEMMA OwnedChange ==
    ASSUME NEW t \in Threads, NEW p \in Objs, OthersStay(t)
    PROVE  /\ Cardinality(Owned(p)) \in Nat
           /\ Cardinality(Owned(p))' \in Nat
           /\ Cardinality(Owned(p))'
                = Cardinality(Owned(p)) + OwnIn(hold'[t], p)
                  - OwnIn(hold[t], p)
  <1> DEFINE S == Threads \X Regs
  <1> DEFINE A == Owned(p)
  <1> DEFINE B == Owned(p)'
  <1> DEFINE M == {x \in S : IF x = <<t, 1>> THEN hold'[t][1] = p
                             ELSE hold[x[1]][x[2]] = p}
  <1>1. IsFiniteSet(S)
    <2>1. IsFiniteSet({1}) /\ Regs = {1} \cup {2}
      BY FS_Singleton DEF Regs
    <2>2. IsFiniteSet(Regs)
      BY <2>1, FS_AddElement
    <2> QED BY <2>2, FS_Product, LlptrAssumption
  <1>2. <<t, 1>> \in S /\ <<t, 2>> \in S /\ <<t, 1>> # <<t, 2>>
    BY DEF Regs
  <1>3. A \in SUBSET S /\ B \in SUBSET S /\ M \in SUBSET S
    BY DEF Owned
  <1>4. \A y \in S \ {<<t, 1>>} : y \in A <=> y \in M
    BY DEF Owned
  <1>5. \A y \in S \ {<<t, 2>>} : y \in M <=> y \in B
    <2> SUFFICES ASSUME NEW u \in Threads, NEW r \in Regs,
                        <<u, r>> # <<t, 2>>
                 PROVE  <<u, r>> \in M <=> <<u, r>> \in B
      OBVIOUS
    <2>1. CASE u # t
      BY <2>1 DEF OthersStay, Owned
    <2>2. CASE u = t
      <3>1. r = 1
        BY <2>2 DEF Regs
      <3> QED BY <1>2, <2>2, <3>1 DEF Owned
    <2> QED BY <2>1, <2>2
  <1>6. /\ <<t, 1>> \in A <=> hold[t][1] = p
        /\ <<t, 1>> \in M <=> hold'[t][1] = p
        /\ <<t, 2>> \in M <=> hold[t][2] = p
        /\ <<t, 2>> \in B <=> hold'[t][2] = p
    BY <1>2 DEF Owned
  <1>7. /\ One(<<t, 1>> \in A) = One(hold[t][1] = p)
        /\ One(<<t, 1>> \in M) = One(hold'[t][1] = p)
        /\ One(<<t, 2>> \in M) = One(hold[t][2] = p)
        /\ One(<<t, 2>> \in B) = One(hold'[t][2] = p)
    BY <1>6 DEF One
  <1>8. \A b : One(b) \in Int
    BY DEF One
  <1> HIDE DEF A, B, M, S
  <1>9. /\ Cardinality(A) \in Nat /\ Cardinality(M) \in Nat
        /\ Cardinality(M) = Cardinality(A) + One(<<t, 1>> \in M)
                            - One(<<t, 1>> \in A)
    BY <1>1, <1>2, <1>3, <1>4, ChangeOne
  <1>10. /\ Cardinality(B) \in Nat
         /\ Cardinality(B) = Cardinality(M) + One(<<t, 2>> \in B)
                             - One(<<t, 2>> \in M)
    BY <1>1, <1>2, <1>3, <1>5, ChangeOne
  <1>11. Cardinality(B) = Cardinality(A) + OwnIn(hold'[t], p)
                          - OwnIn(hold[t], p)
    BY <1>7, <1>8, <1>9, <1>10 DEF OwnIn
  <1> QED BY <1>9, <1>10, <1>11 DEF A, B

LEMMA CountedChange ==
    ASSUME Types, Types', NEW t \in Threads, NEW p \in Objs, OthersStay(t)
    PROVE  /\ Cardinality(Counted(p)) \in Nat
           /\ Cardinality(Counted(p))' \in Nat
           /\ Cardinality(Counted(p))'
                = Cardinality(Counted(p)) + CountIn(pc'[t], hz'[t], p)
                  - CountIn(pc[t], hz[t], p)
  <1> DEFINE A == Counted(p)
  <1> DEFINE B == Counted(p)'
  <1> DEFINE a == CountIn(pc[t], hz[t], p)
  <1> DEFINE b == CountIn(pc'[t], hz'[t], p)
  <1>1. hz[t] \in Locals /\ hz'[t] \in Locals
    BY DEF Types
  <1>2. a \in 0 .. 2 /\ b \in 0 .. 2
    BY <1>1, InTypes
  <1>3. A \in SUBSET (Threads \X (1 .. 2)) /\ B \in SUBSET (Threads \X (1 .. 2))
    BY DEF Counted
  <1>4. HasFirst(A, t, 2, a)
    BY <1>1, FieldTypes DEF HasFirst, Counted, CountIn, InHazard, At
  <1>5. HasFirst(B, t, 2, b)
    BY <1>1, FieldTypes DEF HasFirst, Counted, CountIn, InHazard, At
  <1>6. SameBut(A, B, Threads, t, 2)
    BY DEF SameBut, Counted, InHazard, At, OthersStay
  <1> HIDE DEF A, B, a, b
  <1>7. /\ Cardinality(A) \in Nat /\ Cardinality(B) \in Nat
        /\ Cardinality(B) = Cardinality(A) + b - a
    <2>1. IsFiniteSet(Threads) /\ 2 \in Nat
      BY LlptrAssumption
    <2> QED BY <1>2, <1>3, <1>4, <1>5, <1>6, <2>1, ChangeSlice
  <1> QED BY <1>7 DEF A, B, a, b

LEMMA LeftChange ==
    ASSUME Types, Types', NEW t \in Threads, NEW p \in Objs, OthersStay(t)
    PROVE  /\ Cardinality(Left(p)) \in Nat /\ Cardinality(Left(p))' \in Nat
           /\ Cardinality(Left(p))' = Cardinality(Left(p)) + LeftIn(hz'[t], p)
                                      - LeftIn(hz[t], p)
  <1> DEFINE n == HazardCount + 1
  <1> DEFINE A == Left(p)
  <1> DEFINE B == Left(p)'
  <1> DEFINE a == LeftIn(hz[t], p)
  <1> DEFINE b == LeftIn(hz'[t], p)
  <1>1. hz[t] \in Locals /\ hz'[t] \in Locals /\ n \in Nat
    BY LlptrAssumption DEF Types
  <1>2. a \in 0 .. n /\ b \in 0 .. n
    BY <1>1, InTypes
  <1>3. A \in SUBSET (Threads \X (1 .. n)) /\ B \in SUBSET (Threads \X (1 .. n))
    BY DEF Left
  <1>4. HasFirst(A, t, n, a)
    BY <1>1, FieldTypes DEF HasFirst, Left, LeftIn
  <1>5. HasFirst(B, t, n, b)
    BY <1>1, FieldTypes DEF HasFirst, Left, LeftIn
  <1>6. SameBut(A, B, Threads, t, n)
    BY DEF SameBut, Left, OthersStay
  <1> HIDE DEF A, B, a, b, n
  <1>7. /\ Cardinality(A) \in Nat /\ Cardinality(B) \in Nat
        /\ Cardinality(B) = Cardinality(A) + b - a
    <2>1. IsFiniteSet(Threads) /\ n \in Nat
      BY <1>1, LlptrAssumption
    <2> QED BY <1>2, <1>3, <1>4, <1>5, <1>6, <2>1, ChangeSlice
  <1> QED BY <1>7 DEF A, B, a, b

\* x is the thread whose hazard is cleared, if one is.
LEMMA GrantedChange ==
    ASSUME NEW x \in Threads, NEW p \in Objs,
           \A u \in Threads \ {x} :
              /\ InHazard(u)' = InHazard(u)
              /\ InHazard(u) => /\ hz'[u].v = hz[u].v
                                /\ (value'[hz'[u].h] = None
                                    <=> value[hz[u].h] = None)
    PROVE  /\ Cardinality(Granted(p)) \in Nat
           /\ Cardinality(Granted(p))' \in Nat
           /\ Cardinality(Granted(p))'
                = Cardinality(Granted(p)) + GrantIn(pc'[x], hz'[x], value', p)
                  - GrantIn(pc[x], hz[x], value, p)
  <1> DEFINE A == Granted(p)
  <1> DEFINE B == Granted(p)'
  <1>1. /\ A \in SUBSET Threads /\ B \in SUBSET Threads
        /\ \A u \in Threads \ {x} : u \in A <=> u \in B
    BY DEF Granted
  <1>2. /\ One(x \in A) = GrantIn(pc[x], hz[x], value, p)
        /\ One(x \in B) = GrantIn(pc'[x], hz'[x], value', p)
    BY DEF Granted, GrantIn, InHazard, One
  <1> HIDE DEF A, B
  <1>3. /\ Cardinality(A) \in Nat /\ Cardinality(B) \in Nat
        /\ Cardinality(B) = Cardinality(A) + One(x \in B) - One(x \in A)
    BY <1>1, ChangeOne, LlptrAssumption
  <1> QED BY <1>2, <1>3 DEF A, B

\* The count of p changes as the places of t and the llptr c do.
Balanced(t, c, p) ==
    refs'[p] - refs[p] =
        (One(cell'[c].p = p) - One(cell[c].p = p))
        + (OwnIn(hold'[t], p) - OwnIn(hold[t], p))
        + (CallIn(pc'[t], hz'[t], value', p) - CallIn(pc[t], hz[t], value, p))

\* Nobody but t is affected by what it does to its hazard.
OthersNamed(t) ==
    \A u \in Threads \ {t} :
        InHazard(u) => (value'[hz[u].h] = None <=> value[hz[u].h] = None)

LEMMA Balance ==
    ASSUME Types, Types', CountsMatch, NEW t \in Threads, NEW c \in Cells,
           OthersStay(t), OthersNamed(t),
           \A d \in Cells \ {c} : cell'[d].p = cell[d].p,
           \A p \in Objs : Balanced(t, c, p)
    PROVE  CountsMatch'
  <1> SUFFICES ASSUME NEW p \in Objs
               PROVE  refs'[p] = Cardinality(Stored(p))'
                                 + Cardinality(Owned(p))'
                                 + Cardinality(Counted(p))'
                                 + Cardinality(Granted(p))'
                                 + Cardinality(Left(p))'
    BY DEF CountsMatch
  <1>1. /\ refs[p] = Cardinality(Stored(p)) + Cardinality(Owned(p))
                     + Cardinality(Counted(p)) + Cardinality(Granted(p))
                     + Cardinality(Left(p))
        /\ refs[p] \in Int /\ refs'[p] \in Int
        /\ Balanced(t, c, p)
    BY DEF CountsMatch, Types
  <1>2. /\ Cardinality(Stored(p)) \in Nat /\ Cardinality(Stored(p))' \in Nat
        /\ Cardinality(Stored(p))' = Cardinality(Stored(p))
              + One(cell'[c].p = p) - One(cell[c].p = p)
    BY StoredChange
  <1>3. /\ Cardinality(Owned(p)) \in Nat /\ Cardinality(Owned(p))' \in Nat
        /\ Cardinality(Owned(p))' = Cardinality(Owned(p))
              + OwnIn(hold'[t], p) - OwnIn(hold[t], p)
    BY OwnedChange
  <1>4. /\ Cardinality(Counted(p)) \in Nat /\ Cardinality(Counted(p))' \in Nat
        /\ Cardinality(Counted(p))' = Cardinality(Counted(p))
              + CountIn(pc'[t], hz'[t], p) - CountIn(pc[t], hz[t], p)
    BY CountedChange
  <1>5. /\ Cardinality(Granted(p)) \in Nat /\ Cardinality(Granted(p))' \in Nat
        /\ Cardinality(Granted(p))' = Cardinality(Granted(p))
              + GrantIn(pc'[t], hz'[t], value', p)
              - GrantIn(pc[t], hz[t], value, p)
    BY GrantedChange, OthersHazards DEF OthersNamed
  <1>6. /\ Cardinality(Left(p)) \in Nat /\ Cardinality(Left(p))' \in Nat
        /\ Cardinality(Left(p))' = Cardinality(Left(p))
              + LeftIn(hz'[t], p) - LeftIn(hz[t], p)
    BY LeftChange
  <1>7. hz[t] \in Locals /\ hz'[t] \in Locals
    BY DEF Types
  <1>8. /\ One(cell'[c].p = p) \in Int /\ One(cell[c].p = p) \in Int
        /\ OwnIn(hold'[t], p) \in Int /\ OwnIn(hold[t], p) \in Int
        /\ CountIn(pc'[t], hz'[t], p) \in Int /\ CountIn(pc[t], hz[t], p) \in Int
        /\ GrantIn(pc'[t], hz'[t], value', p) \in Int
        /\ GrantIn(pc[t], hz[t], value, p) \in Int
        /\ LeftIn(hz'[t], p) \in Int /\ LeftIn(hz[t], p) \in Int
    BY <1>7, FieldTypes, LlptrAssumption
    DEF One, OwnIn, CountIn, GrantIn, LeftIn
  <1>9. refs'[p] = refs[p]
            + (One(cell'[c].p = p) - One(cell[c].p = p))
            + (OwnIn(hold'[t], p) - OwnIn(hold[t], p))
            + (CountIn(pc'[t], hz'[t], p) - CountIn(pc[t], hz[t], p))
            + (GrantIn(pc'[t], hz'[t], value', p)
               - GrantIn(pc[t], hz[t], value, p))
            + (LeftIn(hz'[t], p) - LeftIn(hz[t], p))
    BY <1>1, <1>8 DEF Balanced, CallIn
  <1> QED BY <1>1, <1>2, <1>3, <1>4, <1>5, <1>6, <1>8, <1>9

\* A step that changes no llptr.
LEMMA BalanceHere ==
    ASSUME Types, Types', CountsMatch, NEW t \in Threads, prog[t] # <<>>,
           OthersStay(t), OthersNamed(t), cell' = cell,
           \A p \in Objs :
              refs'[p] - refs[p] =
                 (OwnIn(hold'[t], p) - OwnIn(hold[t], p))
                 + (CallIn(pc'[t], hz'[t], value', p)
                    - CallIn(pc[t], hz[t], value, p))
    PROVE  CountsMatch'
  <1>1. Op(t).c \in Cells
    BY OpIsCall
  <1>2. ASSUME NEW p \in Objs PROVE Balanced(t, Op(t).c, p)
    <2>1. hz[t] \in Locals /\ hz'[t] \in Locals
      BY DEF Types
    <2>2. /\ OwnIn(hold'[t], p) \in Nat /\ OwnIn(hold[t], p) \in Nat
          /\ CallIn(pc'[t], hz'[t], value', p) \in Nat
          /\ CallIn(pc[t], hz[t], value, p) \in Nat
      BY <2>1, InTypes
    <2>3. One(cell'[Op(t).c].p = p) = One(cell[Op(t).c].p = p)
          /\ One(cell[Op(t).c].p = p) \in Int
      BY DEF One
    <2> QED BY <2>2, <2>3 DEF Balanced
  <1> QED BY <1>1, <1>2, Balance

LEMMA QuietIn ==
    ASSUME NEW l, l \notin {"hz.check", "hz.acq", "hz.clear", "hz.done"},
           NEW f, f.p = None, NEW vs, NEW p \in Objs
    PROVE  CallIn(l, f, vs, p) = 0
  <1>1. p # None
    BY LlptrAssumption
  <1>2. CountIn(l, f, p) = 0 /\ GrantIn(l, f, vs, p) = 0 /\ LeftIn(f, p) = 0
    BY <1>1 DEF CountIn, GrantIn, LeftIn, One
  <1> QED BY <1>2 DEF CallIn

LEMMA WriterIn ==
    ASSUME NEW l \in Writers, NEW f \in Locals, NEW vs, NEW p \in Objs
    PROVE  CallIn(l, f, vs, p) = IF f.p = p THEN f.left ELSE 0
  <1>1. CountIn(l, f, p) = 0 /\ GrantIn(l, f, vs, p) = 0
    BY DEF CountIn, GrantIn, One, Writers
  <1>2. LeftIn(f, p) \in 0 .. HazardCount + 1
    BY InTypes
  <1>3. LeftIn(f, p) \in Int
    BY <1>2, LlptrAssumption
  <1> QED BY <1>1, <1>3 DEF CallIn, LeftIn

\* One register of t changes.
LEMMA RegisterIn ==
    ASSUME Types, NEW t \in Threads, NEW r \in Regs, NEW q \in Ptr,
           hold' = [hold EXCEPT ![t][r] = q], NEW p \in Objs
    PROVE  OwnIn(hold'[t], p) - OwnIn(hold[t], p)
             = One(q = p) - One(hold[t][r] = p)
  <1>1. /\ hold'[t][r] = q
        /\ \A s \in Regs \ {r} : hold'[t][s] = hold[t][s]
    BY DEF Types
  <1>2. r = 1 \/ r = 2
    BY DEF Regs
  <1> QED BY <1>1, <1>2 DEF OwnIn, One, Regs

LEMMA AssignIn ==
    ASSUME Types, NEW t \in Threads, NEW r \in Regs, NEW q \in Ptr,
           Assign(t, r, q), NEW p \in Objs
    PROVE  refs'[p] - refs[p] =
              (OwnIn(hold'[t], p) - OwnIn(hold[t], p)) - One(q = p)
  <1>1. hold[t][r] \in Ptr
    BY DEF Types
  <1>2. refs'[p] = refs[p] - One(hold[t][r] = p) /\ refs[p] \in Int
    BY <1>1, CountTypes DEF Assign, One, Types
  <1>3. OwnIn(hold'[t], p) - OwnIn(hold[t], p)
             = One(q = p) - One(hold[t][r] = p)
    BY RegisterIn DEF Assign
  <1>4. One(q = p) \in Int /\ One(hold[t][r] = p) \in Int
    BY DEF One
  <1> QED BY <1>2, <1>3, <1>4

\* A thread that is not in a call, or only holds a hazard, has nothing.
LEMMA IdleIn ==
    ASSUME Typed, NEW t \in Threads, NEW p \in Objs,
           pc[t] \in {"idle", "hz.alloc", "hz.set", "hz.free", "hz.again"}
    PROVE  CallIn(pc[t], hz[t], value, p) = 0
  <1>1. hz[t].p = None
    BY DEF Typed, LocalsOK, Grants
  <1> QED BY <1>1, QuietIn

LEMMA EndIn ==
    ASSUME Types, NEW t \in Threads, NEW p \in Objs, End(t)
    PROVE  CallIn(pc'[t], hz'[t], value', p) = 0
  <1>1. pc'[t] = "idle" /\ hz'[t] = NoLocals
    BY DEF End, Types
  <1> QED BY <1>1, QuietIn, NoLocalsType

LEMMA MatchPlain ==
    ASSUME Typed, Typed', CountsMatch, NEW t \in Threads, OthersStay(t),
           New(t) \/ Drop(t) \/ fetch_or(t)
    PROVE  CountsMatch'
  <1>1. /\ pc[t] = "idle" /\ prog[t] # <<>> /\ End(t) /\ value' = value
    BY DEF New, Drop, fetch_or, At
  <1>2. Op(t).r \in Regs /\ Op(t).c \in Cells /\ Types /\ Types' /\ None \in Ptr
    BY <1>1, OpIsCall DEF Typed, Ptr
  <1>3. \A p \in Objs : /\ CallIn(pc[t], hz[t], value, p) = 0
                        /\ CallIn(pc'[t], hz'[t], value', p) = 0
    BY <1>1, <1>2, IdleIn, EndIn
  <1>4. OthersNamed(t)
    BY <1>1 DEF OthersNamed
  <1>5. CASE New(t)
    <2>1. PICK o \in Objs : /\ refs[o] = 0
                            /\ refs' = [refs EXCEPT ![o] = 1]
                            /\ hold' = [hold EXCEPT ![t][Op(t).r] = o]
      BY <1>5 DEF New
    <2>2. hold[t][Op(t).r] = None /\ cell' = cell /\ o \in Ptr
      BY <1>5 DEF New, Ptr
    <2>3. ASSUME NEW p \in Objs
          PROVE  refs'[p] - refs[p] = OwnIn(hold'[t], p) - OwnIn(hold[t], p)
      <3>1. OwnIn(hold'[t], p) - OwnIn(hold[t], p) = One(o = p) - One(None = p)
        <4>1. OwnIn(hold'[t], p) - OwnIn(hold[t], p)
                = One(o = p) - One(hold[t][Op(t).r] = p)
          BY <1>2, <2>1, <2>2, RegisterIn
        <4> QED BY <2>2, <4>1
      <3>2. One(None = p) = 0
        BY LlptrAssumption DEF One
      <3>3. refs'[p] - refs[p] = One(o = p)
        <4>1. refs \in [Objs -> Int]
          BY <1>2 DEF Types
        <4>2. CASE p = o
          BY <2>1, <4>1, <4>2 DEF One
        <4>3. CASE p # o
          BY <2>1, <4>1, <4>3 DEF One
        <4> QED BY <4>2, <4>3
      <3> QED BY <3>1, <3>2, <3>3 DEF One
    <2>4. ASSUME NEW p \in Objs
          PROVE  OwnIn(hold'[t], p) - OwnIn(hold[t], p) \in Int
      BY DEF OwnIn, One
    <2> QED BY <1>1, <1>2, <1>3, <1>4, <2>2, <2>3, <2>4, BalanceHere
  <1>6. CASE Drop(t)
    <2>1. Assign(t, Op(t).r, None) /\ cell' = cell
      BY <1>6 DEF Drop
    <2>2. ASSUME NEW p \in Objs
          PROVE  /\ refs'[p] - refs[p]
                      = OwnIn(hold'[t], p) - OwnIn(hold[t], p)
                 /\ OwnIn(hold'[t], p) - OwnIn(hold[t], p) \in Int
      <3>1. refs'[p] - refs[p] =
              (OwnIn(hold'[t], p) - OwnIn(hold[t], p)) - One(None = p)
        BY <1>2, <2>1, AssignIn
      <3>2. One(None = p) = 0
        BY LlptrAssumption DEF One
      <3>3. OwnIn(hold'[t], p) - OwnIn(hold[t], p) \in Int
        BY DEF OwnIn, One
      <3> QED BY <3>1, <3>2, <3>3
    <2> QED BY <1>1, <1>2, <1>3, <1>4, <2>1, <2>2, BalanceHere
  <1>7. CASE fetch_or(t)
    <2>1. /\ cell' = [cell EXCEPT ![Op(t).c].fl = TRUE]
          /\ UNCHANGED <<refs, hold>>
      BY <1>7 DEF fetch_or
    <2>2. \A c \in Cells : cell'[c].p = cell[c].p
      BY <1>2, <2>1 DEF Types, Ptrs
    <2>3. ASSUME NEW p \in Objs PROVE Balanced(t, Op(t).c, p)
      <3>1. One(cell'[Op(t).c].p = p) = One(cell[Op(t).c].p = p)
        BY <1>2, <2>2
      <3> QED BY <1>2, <1>3, <2>1, <3>1 DEF Balanced, OwnIn, One, Types
    <2> QED BY <1>2, <1>4, <2>2, <2>3, Balance
  <1> QED BY <1>5, <1>6, <1>7

\* A step of a reader that only goes on, or ends, with no reference of its
\* call before or after.
LEMMA MatchQuiet ==
    ASSUME Typed, Typed', CountsMatch, NEW t \in Threads, OthersStay(t),
           prog[t] # <<>>, UNCHANGED <<cell, refs, value, hold>>,
           \A p \in Objs : /\ CallIn(pc[t], hz[t], value, p) = 0
                           /\ CallIn(pc'[t], hz'[t], value', p) = 0
    PROVE  CountsMatch'
  <1>1. OthersNamed(t) /\ Types /\ Types'
    BY DEF OthersNamed, Typed
  <1>2. ASSUME NEW p \in Objs
        PROVE  /\ refs'[p] - refs[p] = 0
               /\ OwnIn(hold'[t], p) - OwnIn(hold[t], p) = 0
    BY <1>1 DEF OwnIn, One, Types
  <1> QED BY <1>1, <1>2, BalanceHere

\* The end of a call that has assigned null to a register.
LEMMA MatchAssignNull ==
    ASSUME Typed, Typed', CountsMatch, NEW t \in Threads, OthersStay(t),
           prog[t] # <<>>, pc[t] = "idle", UNCHANGED <<cell, value>>,
           NEW r \in Regs, Assign(t, r, None), End(t)
    PROVE  CountsMatch'
  <1>1. OthersNamed(t) /\ Types /\ Types' /\ None \in Ptr
    BY DEF OthersNamed, Typed, Ptr
  <1>2. ASSUME NEW p \in Objs
        PROVE  /\ refs'[p] - refs[p] = OwnIn(hold'[t], p) - OwnIn(hold[t], p)
               /\ OwnIn(hold'[t], p) - OwnIn(hold[t], p) \in Int
    <2>1. refs'[p] - refs[p] =
            (OwnIn(hold'[t], p) - OwnIn(hold[t], p)) - One(None = p)
      BY <1>1, AssignIn
    <2>2. One(None = p) = 0
      BY LlptrAssumption DEF One
    <2>3. OwnIn(hold'[t], p) - OwnIn(hold[t], p) \in Int
      BY DEF OwnIn, One
    <2> QED BY <2>1, <2>2, <2>3
  <1>3. \A p \in Objs : /\ CallIn(pc[t], hz[t], value, p) = 0
                        /\ CallIn(pc'[t], hz'[t], value', p) = 0
    BY <1>1, IdleIn, EndIn
  <1> QED BY <1>1, <1>2, <1>3, BalanceHere

LEMMA AllocIn ==
    ASSUME Typed', NEW t \in Threads, NEW p \in Objs,
           pc'[t] \in {"idle", "hz.alloc", "hz.set", "hz.free", "hz.again"}
    PROVE  CallIn(pc'[t], hz'[t], value', p) = 0
  <1>1. hz'[t].p = None
    BY DEF Typed, LocalsOK, Grants
  <1> QED BY <1>1, QuietIn

LEMMA MatchLoad ==
    ASSUME Typed, Typed', CountsMatch, NEW t \in Threads, OthersStay(t),
           load(t) \/ CasFails(t)
    PROVE  CountsMatch'
  <1>1. /\ pc[t] = "idle" /\ prog[t] # <<>> /\ UNCHANGED <<cell, owner, value>>
    BY DEF load, CasFails, At
  <1>2. Op(t).r \in Regs /\ 1 \in Regs /\ Types
    BY <1>1, OpIsCall DEF Typed, Regs
  <1>3. CASE \E r \in Regs : Assign(t, r, None) /\ End(t)
    BY <1>1, <1>3, MatchAssignNull
  <1>4. CASE UNCHANGED <<refs, hold>> /\ (End(t) \/ Goto(t, "hz.alloc"))
    <2>1. pc'[t] \in {"idle", "hz.alloc"}
      BY <1>2, <1>4 DEF End, Goto, Types
    <2>2. \A p \in Objs : /\ CallIn(pc[t], hz[t], value, p) = 0
                          /\ CallIn(pc'[t], hz'[t], value', p) = 0
      BY <1>1, <2>1, IdleIn, AllocIn
    <2> QED BY <1>1, <1>4, <2>2, MatchQuiet
  <1>5. CASE load(t)
    BY <1>2, <1>3, <1>4, <1>5 DEF load
  <1>6. CASE CasFails(t)
    BY <1>2, <1>3, <1>4, <1>6 DEF CasFails
  <1> QED BY <1>5, <1>6

LEMMA MatchAllocateFree ==
    ASSUME Typed, Typed', CountsMatch, NEW t \in Threads, OthersStay(t),
           allocate_hazard(t) \/ FreeHazard(t)
    PROVE  CountsMatch'
  <1>1. /\ pc[t] \in {"hz.alloc", "hz.free", "hz.again"}
        /\ UNCHANGED <<cell, refs, value, hold>>
    BY DEF allocate_hazard, FreeHazard, At
  <1>2. prog[t] # <<>>
    BY <1>1, ReaderFacts DEF Typed, Readers
  <1>3. pc'[t] \in {"hz.set", "idle"}
    BY DEF allocate_hazard, FreeHazard, End, Goto, Typed, Types
  <1>4. \A p \in Objs : /\ CallIn(pc[t], hz[t], value, p) = 0
                        /\ CallIn(pc'[t], hz'[t], value', p) = 0
    BY <1>1, <1>3, IdleIn, AllocIn
  <1> QED BY <1>1, <1>2, <1>4, MatchQuiet

\* A reader that has no reference yet, without a hazard or with one that
\* names what it reads.
LEMMA ReaderIn ==
    ASSUME NEW l \in Readers, NEW f \in Locals, f.p = None, NEW vs,
           NEW p \in Objs
    PROVE  CallIn(l, f, vs, p) =
              CountIn(l, f, p) + GrantIn(l, f, vs, p)
  <1>1. LeftIn(f, p) = 0
    BY LlptrAssumption DEF LeftIn
  <1>2. CountIn(l, f, p) \in 0 .. 2 /\ GrantIn(l, f, vs, p) \in 0 .. 1
    BY InTypes
  <1> QED BY <1>1, <1>2 DEF CallIn

LEMMA MatchReread ==
    ASSUME Typed, Typed', CountsMatch, NEW t \in Threads, OthersStay(t),
           Reread(t)
    PROVE  CountsMatch'
  <1>1. /\ pc[t] = "hz.done" /\ hz[t].acq = 0
        /\ Set(t, [hz[t] EXCEPT !.v = Readout(t)])
        /\ UNCHANGED <<cell, refs, owner, value, hold, prog>>
    BY DEF Reread, At
  <1>2. pc'[t] \in {"hz.again", "hz.done", "hz.set"}
    BY DEF Reread, Goto, Typed, Types
  <1>3. /\ hz[t] \in Locals /\ hz'[t] \in Locals /\ prog[t] # <<>>
        /\ hz[t].p = None
    BY <1>1, ReaderFacts DEF Typed, Types, Readers
  <1>4. hz'[t].p = None /\ hz'[t].acq = 0
    BY <1>1, <1>3 DEF Set, Typed, Types, Locals
  <1>5. \A p \in Objs : /\ CallIn(pc[t], hz[t], value, p) = 0
                        /\ CallIn(pc'[t], hz'[t], value', p) = 0
    <2> SUFFICES ASSUME NEW p \in Objs
                 PROVE  /\ CallIn(pc[t], hz[t], value, p) = 0
                        /\ CallIn(pc'[t], hz'[t], value', p) = 0
      OBVIOUS
    <2>1. CountIn(pc[t], hz[t], p) = 0 /\ GrantIn(pc[t], hz[t], value, p) = 0
      BY <1>1 DEF CountIn, GrantIn, One
    <2>2. /\ CountIn(pc'[t], hz'[t], p) = 0
          /\ GrantIn(pc'[t], hz'[t], value', p) = 0
      BY <1>2, <1>4 DEF CountIn, GrantIn, One
    <2>3. pc[t] \in Readers /\ pc'[t] \in Readers
      BY <1>1, <1>2 DEF Readers
    <2> QED BY <1>3, <1>4, <2>1, <2>2, <2>3, ReaderIn
  <1> QED BY <1>1, <1>3, <1>5, MatchQuiet

LEMMA MatchTaken ==
    ASSUME Typed, Typed', CountsMatch, NEW t \in Threads, OthersStay(t),
           Taken(t)
    PROVE  CountsMatch'
  <1>1. /\ pc[t] = "hz.done" /\ UNCHANGED <<cell, owner, value, prog>>
        /\ hz[t].acq > 0 \/ hz[t].v.p = None
    BY DEF Taken, At
  <1>2. /\ hz[t] \in Locals /\ hz'[t] \in Locals /\ prog[t] # <<>>
        /\ hz[t].p = None /\ Types /\ Types'
    BY <1>1, ReaderFacts DEF Typed, Types, Readers
  <1>3. hz[t].v.p \in Ptr /\ hz[t].acq \in 0 .. 2
    BY <1>2, FieldTypes
  <1>4. OthersNamed(t)
    BY <1>1 DEF OthersNamed
  <1>5. ASSUME NEW p \in Objs
        PROVE  /\ CallIn(pc[t], hz[t], value, p)
                    = IF hz[t].v.p = p THEN hz[t].acq ELSE 0
               /\ refs[p] \in Int
    <2>1. GrantIn(pc[t], hz[t], value, p) = 0 /\ pc[t] \in Readers
      BY <1>1 DEF GrantIn, One, Readers
    <2>2. CountIn(pc[t], hz[t], p) = IF hz[t].v.p = p THEN hz[t].acq ELSE 0
      BY <1>1 DEF CountIn
    <2>3. CallIn(pc[t], hz[t], value, p)
            = CountIn(pc[t], hz[t], p) + GrantIn(pc[t], hz[t], value, p)
      BY <1>2, <2>1, ReaderIn
    <2> QED BY <1>2, <1>3, <2>1, <2>2, <2>3 DEF Types
  <1>6. CASE hz[t].acq > 1
    <2>1. /\ refs' = Dropped(hz[t].v.p, hz[t].acq - 1)
          /\ hz' = [hz EXCEPT ![t] = [hz[t] EXCEPT !.acq = 1]]
          /\ UNCHANGED <<pc, hold>>
      BY <1>6 DEF Taken, Set
    <2>2. hz'[t].v = hz[t].v /\ hz'[t].acq = 1 /\ hz'[t].p = None
      BY <1>2, <2>1 DEF Types, Locals
    <2>3. hz[t].acq - 1 \in Int
      BY <1>3
    <2>4. ASSUME NEW p \in Objs
          PROVE  refs'[p] - refs[p] =
                    (OwnIn(hold'[t], p) - OwnIn(hold[t], p))
                    + (CallIn(pc'[t], hz'[t], value', p)
                       - CallIn(pc[t], hz[t], value, p))
      <3>1. refs'[p] = refs[p] - (IF p = hz[t].v.p THEN hz[t].acq - 1 ELSE 0)
        BY <1>2, <1>3, <2>1, <2>3, CountTypes
      <3>2. /\ GrantIn(pc'[t], hz'[t], value', p) = 0 /\ pc'[t] \in Readers
            /\ CountIn(pc'[t], hz'[t], p) = IF hz[t].v.p = p THEN 1 ELSE 0
        BY <1>1, <2>1, <2>2 DEF GrantIn, CountIn, One, Readers
      <3>3. CallIn(pc'[t], hz'[t], value', p)
              = CountIn(pc'[t], hz'[t], p) + GrantIn(pc'[t], hz'[t], value', p)
        BY <1>2, <2>2, <3>2, ReaderIn
      <3>4. CallIn(pc'[t], hz'[t], value', p)
              = IF hz[t].v.p = p THEN 1 ELSE 0
        BY <3>2, <3>3
      <3>5. OwnIn(hold'[t], p) - OwnIn(hold[t], p) = 0
        BY <2>1 DEF OwnIn, One
      <3> QED BY <1>3, <1>5, <3>1, <3>4, <3>5
    <2> QED BY <1>1, <1>2, <1>4, <2>4, BalanceHere
  <1>7. CASE ~(hz[t].acq > 1)
    <2>1. PICK r \in Regs : Assign(t, r, hz[t].v.p)
      BY <1>2, <1>7, OpIsCall DEF Taken, Regs
    <2>2. pc'[t] = "hz.free"
      BY <1>2, <1>7 DEF Taken, Goto, Types
    <2>3. ASSUME NEW p \in Objs
          PROVE  refs'[p] - refs[p] =
                    (OwnIn(hold'[t], p) - OwnIn(hold[t], p))
                    + (CallIn(pc'[t], hz'[t], value', p)
                       - CallIn(pc[t], hz[t], value, p))
      <3>1. refs'[p] - refs[p] =
               (OwnIn(hold'[t], p) - OwnIn(hold[t], p)) - One(hz[t].v.p = p)
        BY <1>2, <1>3, <2>1, AssignIn
      <3>2. p # None
        BY LlptrAssumption
      <3>3. CallIn(pc[t], hz[t], value, p) = One(hz[t].v.p = p)
        BY <1>1, <1>3, <1>5, <1>7, <3>2 DEF One
      <3>4. CallIn(pc'[t], hz'[t], value', p) = 0
        BY <2>2, AllocIn
      <3>5. OwnIn(hold'[t], p) - OwnIn(hold[t], p) \in Int
            /\ One(hz[t].v.p = p) \in Int
        BY DEF OwnIn, One
      <3> QED BY <3>1, <3>3, <3>4, <3>5
    <2>4. cell' = cell
      BY <1>1
    <2> QED BY <1>2, <1>4, <2>3, <2>4, BalanceHere
  <1> QED BY <1>6, <1>7

LEMMA MatchDoHazard ==
    ASSUME Typed, Typed', Owning, CountsMatch, NEW t \in Threads,
           OthersStay(t), do_hazard(t)
    PROVE  CountsMatch'
  <1>1. UNCHANGED <<cell, owner, hold, prog>>
    BY DoHazardCases
  <1>2. pc[t] \in {"hz.set", "hz.check", "hz.acq", "hz.clear"}
    BY DEF do_hazard, At
  <1>3. /\ hz[t] \in Locals /\ hz'[t] \in Locals /\ prog[t] # <<>>
        /\ hz[t].p = None /\ Types /\ Types' /\ pc[t] \in Readers
    BY <1>2, ReaderFacts DEF Typed, Types, Readers
  <1>4. /\ hz[t].v.p \in Ptr /\ hz[t].acq \in 0 .. 2 /\ hz[t].h \in Hz
    BY <1>3, FieldTypes
  <1>5. HasHazard(t)
    BY <1>2 DEF HasHazard, InHazard
  <1>6. OthersNamed(t)
    <2> SUFFICES ASSUME NEW u \in Threads \ {t}, InHazard(u)
                 PROVE  value'[hz[u].h] = value[hz[u].h]
      BY DEF OthersNamed
    <2>1. hz[u].h # hz[t].h /\ hz[u].h \in Hz
      BY <1>5, FieldTypes DEF Owning, Apart, HasHazard, Typed, Types
    <2>2. \/ value' = value
          \/ \E q : value' = [value EXCEPT ![hz[t].h] = q]
      BY DEF do_hazard
    <2> QED BY <1>3, <1>4, <2>1, <2>2 DEF Types
  <1>7. \A p \in Objs : /\ refs[p] \in Int /\ p # None
                        /\ OwnIn(hold'[t], p) - OwnIn(hold[t], p) = 0
    BY <1>1, <1>3, LlptrAssumption DEF Types, OwnIn, One
  <1>8. ASSUME pc'[t] \in Readers, hz'[t].p = None,
               \A p \in Objs :
                  refs'[p] - refs[p] =
                     (CountIn(pc'[t], hz'[t], p)
                      + GrantIn(pc'[t], hz'[t], value', p))
                     - (CountIn(pc[t], hz[t], p)
                        + GrantIn(pc[t], hz[t], value, p))
        PROVE  CountsMatch'
    <2>1. ASSUME NEW p \in Objs
          PROVE  refs'[p] - refs[p] =
                    (OwnIn(hold'[t], p) - OwnIn(hold[t], p))
                    + (CallIn(pc'[t], hz'[t], value', p)
                       - CallIn(pc[t], hz[t], value, p))
      <3>1. CallIn(pc[t], hz[t], value, p)
              = CountIn(pc[t], hz[t], p) + GrantIn(pc[t], hz[t], value, p)
        BY <1>3, ReaderIn
      <3>2. CallIn(pc'[t], hz'[t], value', p)
              = CountIn(pc'[t], hz'[t], p) + GrantIn(pc'[t], hz'[t], value', p)
        BY <1>3, <1>8, ReaderIn
      <3>3. /\ CallIn(pc[t], hz[t], value, p) \in Nat
            /\ CallIn(pc'[t], hz'[t], value', p) \in Nat
        BY <1>3, InTypes
      <3>4. refs'[p] - refs[p] = CallIn(pc'[t], hz'[t], value', p)
                                 - CallIn(pc[t], hz[t], value, p)
        BY <1>8, <3>1, <3>2
      <3> QED BY <1>7, <3>3, <3>4
    <2> QED BY <1>1, <1>3, <1>6, <2>1, BalanceHere
  <1>9. CASE HazardSet(t)
    <2>1. /\ pc[t] = "hz.set" /\ refs' = refs
          /\ hz' = [hz EXCEPT ![t] = [hz[t] EXCEPT !.acq = 0]]
      BY <1>9 DEF HazardSet, At, Set
    <2>2. /\ hz'[t].v = hz[t].v /\ hz'[t].acq = 0 /\ hz'[t].p = None
          /\ hz'[t].h = hz[t].h
      BY <1>3, <2>1 DEF Types, Locals
    <2>3. \/ pc'[t] = "hz.done"
          \/ pc'[t] = "hz.check" /\ value'[hz'[t].h] # None
      BY <1>3, <1>4, <1>9, <2>2 DEF HazardSet, Goto, Types
    <2>4. ASSUME NEW p \in Objs
          PROVE  /\ CountIn(pc'[t], hz'[t], p) = 0
                 /\ GrantIn(pc'[t], hz'[t], value', p) = 0
                 /\ CountIn(pc[t], hz[t], p) = 0
                 /\ GrantIn(pc[t], hz[t], value, p) = 0
      BY <2>1, <2>2, <2>3 DEF CountIn, GrantIn, One
    <2>5. pc'[t] \in Readers
      BY <2>3 DEF Readers
    <2>6. \A p \in Objs : refs'[p] - refs[p] = 0
      BY <1>7, <2>1
    <2> QED BY <1>8, <2>2, <2>4, <2>5, <2>6
  <1>10. CASE HazardCheck(t)
    <2>1. /\ pc[t] = "hz.check" /\ pc'[t] \in {"hz.acq", "hz.clear"}
          /\ UNCHANGED <<refs, value, hz>>
      BY <1>3, <1>10 DEF HazardCheck, At, Goto, Types
    <2>2. ASSUME NEW p \in Objs
          PROVE  /\ CountIn(pc'[t], hz'[t], p) = CountIn(pc[t], hz[t], p)
                 /\ GrantIn(pc'[t], hz'[t], value', p)
                      = GrantIn(pc[t], hz[t], value, p)
                 /\ CountIn(pc[t], hz[t], p) \in Int
                 /\ GrantIn(pc[t], hz[t], value, p) \in Int
      BY <1>4, <2>1 DEF CountIn, GrantIn, One
    <2>3. pc'[t] \in Readers
      BY <2>1 DEF Readers
    <2>4. \A p \in Objs : refs'[p] - refs[p] = 0
      BY <1>7, <2>1
    <2> QED BY <1>3, <1>8, <2>1, <2>2, <2>3, <2>4
  <1>11. CASE HazardAcquire(t)
    <2>1. /\ pc[t] = "hz.acq" /\ pc'[t] = "hz.clear" /\ value' = value
          /\ refs' = Acquired(hz[t].v.p, 1)
          /\ hz' = [hz EXCEPT ![t] = [hz[t] EXCEPT !.acq = 1]]
      BY <1>3, <1>11 DEF HazardAcquire, At, Set, Goto, Types
    <2>2. /\ hz'[t].v = hz[t].v /\ hz'[t].acq = 1 /\ hz'[t].p = None
          /\ hz'[t].h = hz[t].h
      BY <1>3, <2>1 DEF Types, Locals
    <2>3. hz[t].acq = 0
      BY <2>1, ReaderFacts DEF Typed, Readers
    <2>4. ASSUME NEW p \in Objs
          PROVE  /\ CountIn(pc'[t], hz'[t], p) = One(p = hz[t].v.p)
                 /\ CountIn(pc[t], hz[t], p) = 0
                 /\ GrantIn(pc'[t], hz'[t], value', p)
                      = GrantIn(pc[t], hz[t], value, p)
                 /\ GrantIn(pc[t], hz[t], value, p) \in Int
                 /\ One(p = hz[t].v.p) \in Int
                 /\ refs'[p] - refs[p] = One(p = hz[t].v.p)
      <3>1. refs'[p] = refs[p] + One(p = hz[t].v.p)
        BY <1>3, <1>4, <2>1, CountTypes DEF One
      <3>2. refs[p] \in Int /\ One(p = hz[t].v.p) \in Int
        BY <1>7 DEF One
      <3>3. refs'[p] - refs[p] = One(p = hz[t].v.p)
        BY <3>1, <3>2
      <3>4. /\ CountIn(pc'[t], hz'[t], p) = One(p = hz[t].v.p)
            /\ CountIn(pc[t], hz[t], p) = 0
        BY <2>1, <2>2, <2>3 DEF CountIn, One
      <3>5. GrantIn(pc'[t], hz'[t], value', p) = GrantIn(pc[t], hz[t], value, p)
        BY <2>1, <2>2 DEF GrantIn, One
      <3>6. GrantIn(pc[t], hz[t], value, p) \in Int
        BY DEF GrantIn, One
      <3> QED BY <3>2, <3>3, <3>4, <3>5, <3>6
    <2>5. pc'[t] \in Readers
      BY <2>1 DEF Readers
    <2> QED BY <1>8, <2>2, <2>4, <2>5
  <1>12. CASE HazardClear(t)
    <2>1. /\ pc[t] = "hz.clear" /\ pc'[t] = "hz.done" /\ refs' = refs
          /\ hz' = [hz EXCEPT ![t] = [hz[t] EXCEPT !.acq = CountedGrant(t)]]
      BY <1>3, <1>12 DEF HazardClear, At, Set, Goto, Types
    <2>2. /\ hz'[t].v = hz[t].v /\ hz'[t].acq = CountedGrant(t)
          /\ hz'[t].p = None
      BY <1>3, <2>1 DEF Types, Locals
    <2>3. ASSUME NEW p \in Objs
          PROVE  /\ CountIn(pc'[t], hz'[t], p) =
                      CountIn(pc[t], hz[t], p) + GrantIn(pc[t], hz[t], value, p)
                 /\ GrantIn(pc'[t], hz'[t], value', p) = 0
                 /\ CountIn(pc[t], hz[t], p) \in Int
                 /\ GrantIn(pc[t], hz[t], value, p) \in Int
      <3>1. GrantIn(pc'[t], hz'[t], value', p) = 0
        BY <2>1 DEF GrantIn, One
      <3>2. /\ CountIn(pc[t], hz[t], p) =
                  IF hz[t].v.p = p THEN hz[t].acq ELSE 0
            /\ CountIn(pc'[t], hz'[t], p) =
                  IF hz[t].v.p = p THEN CountedGrant(t) ELSE 0
        BY <2>1, <2>2 DEF CountIn
      <3>3. GrantIn(pc[t], hz[t], value, p)
              = One(hz[t].v.p = p /\ value[hz[t].h] = None)
        BY <2>1 DEF GrantIn, One
      <3>4. CountedGrant(t) = hz[t].acq + One(value[hz[t].h] = None)
        BY <1>4 DEF CountedGrant, One
      <3> QED BY <1>4, <3>1, <3>2, <3>3, <3>4 DEF One
    <2>4. pc'[t] \in Readers
      BY <2>1 DEF Readers
    <2>5. \A p \in Objs : refs'[p] - refs[p] = 0
      BY <1>7, <2>1
    <2>6. \A k, l \in Int : ((k + l) + 0) - (k + l) = 0
      OBVIOUS
    <2> QED BY <1>8, <2>2, <2>3, <2>4, <2>5, <2>6
  <1> QED BY <1>9, <1>10, <1>11, <1>12, DoHazardCases

\* The registers of t give v.p to a cell and get q, but for n references that
\* are still to be granted.
Exchanged(t, q, v, n) ==
    \A p \in Objs :
        OwnIn(hold'[t], p) - OwnIn(hold[t], p) =
           (One(q = p) - One(v.p = p)) - (IF q = p THEN n ELSE 0)

\* An exchange moves p into an llptr, or nothing, and takes q out of it, for
\* the registers and for the grant.
LEMMA MatchExchange ==
    ASSUME Typed, Typed', CountsMatch, NEW t \in Threads, OthersStay(t),
           pc[t] = "idle", prog[t] # <<>>, UNCHANGED <<refs, value>>,
           NEW q \in Ptr, NEW v \in Ptrs,
           cell[Op(t).c].p = q, cell' = [cell EXCEPT ![Op(t).c] = v],
           NEW n \in 0 .. 2,
           IF q = None THEN End(t) ELSE Granting(t, q, n),
           n > 0 \/ hold'[t][Op(t).r] = q,
           Exchanged(t, q, v, n)
    PROVE  CountsMatch'
  <1>1. /\ Op(t).c \in Cells /\ Types /\ Types'
        /\ hz[t] \in Locals /\ hz'[t] \in Locals
    BY OpIsCall DEF Typed, Types
  <1>2. /\ cell'[Op(t).c].p = v.p
        /\ \A d \in Cells \ {Op(t).c} : cell'[d].p = cell[d].p
    BY <1>1 DEF Types
  <1>3. OthersNamed(t)
    BY DEF OthersNamed
  <1>4. ASSUME NEW p \in Objs
        PROVE  CallIn(pc'[t], hz'[t], value', p) = IF q = p THEN n ELSE 0
    <2>1. CASE q = None
      <3>1. q # p
        BY <2>1, LlptrAssumption
      <3> QED BY <1>1, <2>1, <3>1, EndIn
    <2>2. CASE q # None
      <3>1. q \in Objs /\ Granting(t, q, n)
        BY <2>2 DEF Ptr
      <3>2. pc'[t] = "g.acq" /\ hz'[t].p = q /\ hz'[t].left = n
        BY <3>1, TypedGranting
      <3> QED BY <1>1, <3>2, WriterIn DEF Writers
    <2> QED BY <2>1, <2>2
  <1>5. ASSUME NEW p \in Objs PROVE Balanced(t, Op(t).c, p)
    <2>1. CallIn(pc[t], hz[t], value, p) = 0
      BY IdleIn
    <2>2. refs'[p] - refs[p] = 0
      BY <1>1 DEF Types
    <2>3. /\ One(cell'[Op(t).c].p = p) = One(v.p = p)
          /\ One(cell[Op(t).c].p = p) = One(q = p)
      BY <1>2
    <2>4. One(v.p = p) \in Int /\ One(q = p) \in Int
          /\ (IF q = p THEN n ELSE 0) \in Int
      BY DEF One
    <2>5. OwnIn(hold'[t], p) - OwnIn(hold[t], p) =
             (One(q = p) - One(v.p = p)) - (IF q = p THEN n ELSE 0)
      BY DEF Exchanged
    <2> QED BY <1>4, <2>1, <2>2, <2>3, <2>4, <2>5 DEF Balanced
  <1> QED BY <1>1, <1>2, <1>3, <1>5, Balance

LEMMA MatchSwap ==
    ASSUME Typed, Typed', CountsMatch, NEW t \in Threads, OthersStay(t),
           Swap(t)
    PROVE  CountsMatch'
  <1> DEFINE r == Op(t).r
  <1> DEFINE q == cell[Op(t).c].p
  <1> DEFINE v == [p |-> hold[t][r], fl |-> FALSE]
  <1> DEFINE w == IF Op(t).op = "store" THEN None ELSE q
  <1> DEFINE n == IF Op(t).op = "store" THEN 1 ELSE 0
  <1>1. /\ pc[t] = "idle" /\ prog[t] # <<>> /\ UNCHANGED <<refs, value>>
        /\ cell' = [cell EXCEPT ![Op(t).c] = v]
        /\ hold' = [hold EXCEPT ![t][r] = w]
    BY DEF Swap, At
  <1>2. Types /\ Op(t).c \in Cells /\ r \in Regs
    BY <1>1, OpIsCall DEF Typed
  <1>3. q \in Ptr /\ hold[t][r] \in Ptr /\ None \in Ptr
    BY <1>2 DEF Types, Ptrs, Ptr
  <1>4. v \in Ptrs /\ v.p = hold[t][r] /\ w \in Ptr /\ n \in 0 .. 2
    BY <1>3 DEF Ptrs
  <1>5. IF q = None THEN End(t) ELSE Granting(t, q, n)
    BY DEF Swap, Granting, Set
  <1>6. n > 0 \/ hold'[t][r] = q
    BY <1>1, <1>2 DEF Types
  <1>7. ASSUME NEW p \in Objs
        PROVE  OwnIn(hold'[t], p) - OwnIn(hold[t], p) =
                  (One(q = p) - One(v.p = p)) - (IF q = p THEN n ELSE 0)
    <2>1. OwnIn(hold'[t], p) - OwnIn(hold[t], p)
             = One(w = p) - One(hold[t][r] = p)
      BY <1>1, <1>2, <1>4, RegisterIn
    <2>2. One(w = p) = One(q = p) - (IF q = p THEN n ELSE 0)
      BY LlptrAssumption DEF One
    <2>3. One(hold[t][r] = p) = One(v.p = p) /\ One(v.p = p) \in Int
          /\ One(q = p) \in Int /\ (IF q = p THEN n ELSE 0) \in Int
      BY <1>4 DEF One
    <2> QED BY <2>1, <2>2, <2>3
  <1>8. q = cell[Op(t).c].p
    OBVIOUS
  <1>9. Exchanged(t, q, v, n)
    BY <1>7 DEF Exchanged
  <1> HIDE DEF q, v, w, n
  <1> QED BY <1>1, <1>3, <1>4, <1>5, <1>6, <1>8, <1>9, MatchExchange

LEMMA MatchCasSucceeds ==
    ASSUME Typed, Typed', CountsMatch, NEW t \in Threads, OthersStay(t),
           CasSucceeds(t)
    PROVE  CountsMatch'
  <1> DEFINE q == hold[t][1]
  <1> DEFINE v == [p |-> hold[t][2], fl |-> FALSE]
  <1> DEFINE n == IF Op(t).op = "move" THEN 2 ELSE 1
  <1>1. /\ pc[t] = "idle" /\ prog[t] # <<>> /\ UNCHANGED <<refs, value>>
        /\ cell' = [cell EXCEPT ![Op(t).c] = v]
        /\ hold' = [hold EXCEPT ![t] = [r \in Regs |->
              IF r = 2 \/ Op(t).op = "move" THEN None ELSE hold[t][r]]]
        /\ cell[Op(t).c].p = q
    BY DEF CasSucceeds, At, Expect
  <1>2. Types /\ Op(t).c \in Cells
    BY <1>1, OpIsCall DEF Typed
  <1>3. q \in Ptr /\ hold[t][2] \in Ptr /\ 1 \in Regs /\ 2 \in Regs
    BY <1>2 DEF Types, Regs
  <1>4. v \in Ptrs /\ v.p = hold[t][2] /\ n \in 0 .. 2 /\ n > 0
    BY <1>3 DEF Ptrs
  <1>5. IF q = None THEN End(t) ELSE Granting(t, q, n)
    BY DEF CasSucceeds, Granting, Set
  <1>6. ASSUME NEW p \in Objs
        PROVE  OwnIn(hold'[t], p) - OwnIn(hold[t], p) =
                  (One(q = p) - One(v.p = p)) - (IF q = p THEN n ELSE 0)
    <2>1. /\ hold'[t][2] = None
          /\ hold'[t][1] = IF Op(t).op = "move" THEN None ELSE q
      BY <1>1, <1>2, <1>3 DEF Types
    <2>2. p # None
      BY LlptrAssumption
    <2>3. OwnIn(hold'[t], p) = IF q = p /\ Op(t).op # "move" THEN 1 ELSE 0
      BY <2>1, <2>2 DEF OwnIn, One
    <2>4. OwnIn(hold[t], p) = One(q = p) + One(v.p = p)
      BY <1>4 DEF OwnIn
    <2> QED BY <2>3, <2>4 DEF One
  <1>7. Exchanged(t, q, v, n)
    BY <1>6 DEF Exchanged
  <1> HIDE DEF q, v, n
  <1> QED BY <1>1, <1>3, <1>4, <1>5, <1>7, MatchExchange

\* A step of a grant that changes no hazard: what is left of p changes with
\* its count.
LEMMA MatchWriter ==
    ASSUME Typed, Typed', CountsMatch, NEW t \in Threads, OthersStay(t),
           pc[t] \in Writers, UNCHANGED <<cell, value, hold>>,
           \/ pc'[t] \in Writers /\ hz'[t].p = hz[t].p
           \/ pc'[t] = "idle" /\ hz'[t].left = 0,
           \A p \in Objs : refs'[p] = refs[p]
              + (IF p = hz[t].p THEN hz'[t].left - hz[t].left ELSE 0)
    PROVE  CountsMatch'
  <1>1. /\ Types /\ Types' /\ hz[t] \in Locals /\ hz'[t] \in Locals
        /\ prog[t] # <<>>
    BY WriterFacts DEF Typed, Types
  <1>2. /\ hz[t].left \in Int /\ hz'[t].left \in Int
    BY <1>1, FieldTypes, LlptrAssumption
  <1>3. OthersNamed(t)
    BY DEF OthersNamed
  <1>4. ASSUME NEW p \in Objs
        PROVE  refs'[p] - refs[p] =
                  (OwnIn(hold'[t], p) - OwnIn(hold[t], p))
                  + (CallIn(pc'[t], hz'[t], value', p)
                     - CallIn(pc[t], hz[t], value, p))
    <2>1. CallIn(pc[t], hz[t], value, p) =
             IF hz[t].p = p THEN hz[t].left ELSE 0
      BY <1>1, WriterIn
    <2>2. CallIn(pc'[t], hz'[t], value', p) =
             IF hz[t].p = p THEN hz'[t].left ELSE 0
      <3>1. CASE pc'[t] \in Writers /\ hz'[t].p = hz[t].p
        BY <1>1, <3>1, WriterIn
      <3>2. CASE pc'[t] = "idle" /\ hz'[t].left = 0
        BY <3>2, AllocIn
      <3> QED BY <3>1, <3>2
    <2>3. OwnIn(hold'[t], p) - OwnIn(hold[t], p) = 0 /\ refs[p] \in Int
      BY <1>1 DEF OwnIn, One, Types
    <2> QED BY <1>2, <2>1, <2>2, <2>3
  <1> QED BY <1>1, <1>3, <1>4, BalanceHere

LEMMA MatchGrant ==
    ASSUME Typed, Typed', CountsMatch, NEW t \in Threads, OthersStay(t),
           grant(t)
    PROVE  CountsMatch'
  <1>1. pc[t] \in Writers /\ UNCHANGED <<cell, value, hold>>
    BY DEF grant, At, Writers
  <1>2. /\ hz[t] \in Locals /\ Types
        /\ \A p \in Objs : refs[p] \in Int
    BY DEF Typed, Types
  <1>3. /\ hz[t].p \in Ptr /\ hz[t].left \in Int /\ HazardCount \in Nat
        /\ HazardCount \in Int /\ HazardCount - hz[t].left \in Int
    BY <1>2, FieldTypes, LlptrAssumption
  <1>4. CASE GrantAcquire(t)
    <2>1. pc'[t] \in Writers
      BY <1>2, <1>4 DEF GrantAcquire, Goto, Types, Writers
    <2>2. CASE hz[t].left < HazardCount
      <3>1. /\ refs' = Acquired(hz[t].p, HazardCount - hz[t].left)
            /\ hz' = [hz EXCEPT ![t] = [hz[t] EXCEPT !.left = HazardCount]]
        BY <1>4, <2>2 DEF GrantAcquire, Set
      <3>2. hz'[t].p = hz[t].p /\ hz'[t].left = HazardCount
        BY <1>2, <3>1 DEF Types, Locals
      <3>3. \A p \in Objs : refs'[p] = refs[p]
               + (IF p = hz[t].p THEN HazardCount - hz[t].left ELSE 0)
        BY <1>2, <1>3, <3>1, CountTypes
      <3> QED BY <1>1, <2>1, <3>2, <3>3, MatchWriter
    <2>3. CASE ~(hz[t].left < HazardCount)
      <3>1. UNCHANGED <<refs, hz>>
        BY <1>4, <2>3 DEF GrantAcquire
      <3>2. \A p \in Objs : refs'[p] = refs[p]
               + (IF p = hz[t].p THEN hz'[t].left - hz[t].left ELSE 0)
        BY <1>2, <1>3, <3>1
      <3> QED BY <1>1, <2>1, <3>1, <3>2, MatchWriter
    <2> QED BY <2>2, <2>3
  <1>5. CASE GrantRelease(t)
    <2>1. refs' = Dropped(hz[t].p, hz[t].left) /\ End(t)
      BY <1>5 DEF GrantRelease
    <2>2. pc'[t] = "idle" /\ hz'[t].left = 0
      BY <1>2, <2>1 DEF End, Types, NoLocals
    <2>3. \A p \in Objs : refs'[p] = refs[p]
             - (IF p = hz[t].p THEN hz[t].left ELSE 0)
      BY <1>2, <1>3, <2>1, CountTypes
    <2>4. \A p \in Objs : refs'[p] = refs[p]
             + (IF p = hz[t].p THEN hz'[t].left - hz[t].left ELSE 0)
      BY <1>2, <1>3, <2>2, <2>3
    <2> QED BY <1>1, <2>2, <2>4, MatchWriter
  <1> QED BY <1>4, <1>5, GrantCases

\* A reference changes hands: from what the writer has left to the reader
\* whose hazard names the pointer.
LEMMA MatchGive ==
    ASSUME Typed, Typed', Owning, CountsMatch, NEW t \in Threads,
           OthersStay(t), pc[t] = "g.give", pc'[t] = "g.unflag",
           UNCHANGED <<cell, refs, hold>>,
           value[hz[t].i] = hz[t].p,
           value' = [value EXCEPT ![hz[t].i] = None],
           hz'[t].p = hz[t].p, hz'[t].left = hz[t].left - 1
    PROVE  CountsMatch'
  <1>1. /\ Types /\ Types' /\ hz[t] \in Locals /\ hz'[t] \in Locals
        /\ hz[t].p # None
    BY WriterFacts DEF Typed, Types, Writers
  <1>2. hz[t].i \in Hz /\ hz[t].left \in Int /\ hz'[t].left \in Int
    BY <1>1, FieldTypes, LlptrAssumption
  <1>3. PICK u \in Threads : /\ InHazard(u) /\ hz[u].h = hz[t].i
                             /\ hz[u].v.p = hz[t].p
    BY <1>1, <1>2 DEF Owning, Named
  <1>4. /\ u # t /\ InHazard(t)' = InHazard(t) /\ ~InHazard(t)
        /\ pc'[u] = pc[u] /\ hz'[u] = hz[u]
    BY <1>3 DEF InHazard, OthersStay
  <1>5. value'[hz[t].i] = None
        /\ \A k \in Hz \ {hz[t].i} : value'[k] = value[k]
    BY <1>1, <1>2 DEF Types
  <1> SUFFICES ASSUME NEW p \in Objs
               PROVE  refs'[p] = Cardinality(Stored(p))'
                                 + Cardinality(Owned(p))'
                                 + Cardinality(Counted(p))'
                                 + Cardinality(Granted(p))'
                                 + Cardinality(Left(p))'
    BY DEF CountsMatch
  <1>6. /\ Stored(p)' = Stored(p) /\ Owned(p)' = Owned(p)
        /\ refs[p] = Cardinality(Stored(p)) + Cardinality(Owned(p))
                     + Cardinality(Counted(p)) + Cardinality(Granted(p))
                     + Cardinality(Left(p))
    BY DEF CountsMatch, Stored, Owned
  <1>7. Counted(p)' = Counted(p)
    <2>1. ASSUME NEW x \in Threads \X (1 .. 2)
          PROVE  x \in Counted(p)' <=> x \in Counted(p)
      <3>1. PICK w \in Threads : x[1] = w
        OBVIOUS
      <3>2. CASE w = t
        <4>1. /\ ~(InHazard(w) \/ At(w, "hz.done"))
              /\ ~(InHazard(w)' \/ At(w, "hz.done")')
          BY <1>4, <3>2 DEF At
        <4> QED BY <3>1, <4>1 DEF Counted
      <3>3. CASE w # t
        BY <3>1, <3>3 DEF Counted, OthersStay, InHazard, At
      <3> QED BY <3>2, <3>3
    <2> QED BY <2>1 DEF Counted
  <1>8. ASSUME NEW w \in Threads \ {u}
        PROVE  /\ InHazard(w)' = InHazard(w)
               /\ InHazard(w) => /\ hz'[w].v = hz[w].v
                                 /\ (value'[hz'[w].h] = None
                                     <=> value[hz[w].h] = None)
    <2>1. CASE w = t
      BY <1>4, <2>1
    <2>2. CASE w # t
      <3>1. /\ InHazard(w)' = InHazard(w) /\ hz'[w] = hz[w]
        BY <2>2 DEF OthersStay, InHazard
      <3>2. InHazard(w) => hz[w].h # hz[t].i
        BY <1>3 DEF Owning, Apart, HasHazard
      <3>3. hz[w].h \in Hz
        BY <1>1, FieldTypes DEF Types
      <3> QED BY <1>5, <3>1, <3>2, <3>3
    <2> QED BY <2>1, <2>2
  <1>9. /\ Cardinality(Granted(p)) \in Nat /\ Cardinality(Granted(p))' \in Nat
        /\ Cardinality(Granted(p))' = Cardinality(Granted(p))
              + GrantIn(pc'[u], hz'[u], value', p)
              - GrantIn(pc[u], hz[u], value, p)
    BY <1>8, GrantedChange
  <1>10. /\ GrantIn(pc'[u], hz'[u], value', p) = One(hz[t].p = p)
         /\ GrantIn(pc[u], hz[u], value, p) = 0
    BY <1>1, <1>3, <1>4, <1>5 DEF GrantIn, One, InHazard
  <1>11. /\ Cardinality(Left(p)) \in Nat /\ Cardinality(Left(p))' \in Nat
         /\ Cardinality(Left(p))' = Cardinality(Left(p))
               + LeftIn(hz'[t], p) - LeftIn(hz[t], p)
    BY <1>1, LeftChange
  <1>12. /\ LeftIn(hz'[t], p) = LeftIn(hz[t], p) - One(hz[t].p = p)
         /\ LeftIn(hz[t], p) \in Int /\ One(hz[t].p = p) \in Int
    BY <1>2 DEF LeftIn, One
  <1>13. Cardinality(Granted(p))' + Cardinality(Left(p))'
           = Cardinality(Granted(p)) + Cardinality(Left(p))
    BY <1>9, <1>10, <1>11, <1>12
  <1>14. /\ Cardinality(Stored(p)) \in Nat /\ Cardinality(Owned(p)) \in Nat
         /\ Cardinality(Counted(p)) \in Nat
    <2>1. Op(t).c \in Cells
      BY <1>1, OpIsCall, WriterFacts DEF Typed, Writers
    <2> QED BY <1>1, <2>1, StoredChange, OwnedChange, CountedChange
  <1> QED BY <1>6, <1>7, <1>9, <1>11, <1>13, <1>14

LEMMA MatchMark ==
    ASSUME Typed, Typed', Owning, CountsMatch, NEW t \in Threads,
           OthersStay(t), mark(t)
    PROVE  CountsMatch'
  <1>1. /\ pc[t] \in Writers /\ pc'[t] \in Writers
        /\ UNCHANGED <<cell, refs, hold>>
    BY DEF mark, NextHazard, Goto, At, Writers, Typed, Types
  <1>2. hz[t] \in Locals /\ Types /\ hz[t].i \in Hz /\ hz[t].left \in Int
    BY FieldTypes, LlptrAssumption DEF Typed, Types
  <1>3. CASE value' = value /\ hz'[t].p = hz[t].p /\ hz'[t].left = hz[t].left
    <2>1. \A p \in Objs : refs'[p] = refs[p]
             + (IF p = hz[t].p THEN hz'[t].left - hz[t].left ELSE 0)
      BY <1>1, <1>2, <1>3 DEF Types
    <2> QED BY <1>1, <1>3, <2>1, MatchWriter
  <1>4. ASSUME NextHazard(t)
        PROVE  hz'[t].p = hz[t].p /\ hz'[t].left = hz[t].left
    <2>1. CASE hz' = [hz EXCEPT ![t] = [hz[t] EXCEPT !.i = hz[t].i + 1]]
      BY <1>2, <2>1 DEF Types, Locals
    <2> QED BY <1>2, <1>4, <2>1, NextHazardCases
  <1>5. CASE MarkValue(t) \/ MarkOwner(t) \/ MarkUnflag(t)
    BY <1>3, <1>4, <1>5 DEF MarkValue, MarkOwner, MarkUnflag
  <1>6. CASE MarkGive(t)
    <2>1. pc[t] = "g.give" /\ pc'[t] = "g.unflag"
      BY <1>2, <1>6 DEF MarkGive, At, Goto, Types
    <2>2. CASE value[hz[t].i] = hz[t].p
      <3>1. /\ value' = [value EXCEPT ![hz[t].i] = None]
            /\ hz' = [hz EXCEPT ![t] = [hz[t] EXCEPT !.left = hz[t].left - 1]]
        BY <1>6, <2>2 DEF MarkGive, Set
      <3>2. hz'[t].p = hz[t].p /\ hz'[t].left = hz[t].left - 1
        BY <1>2, <3>1 DEF Types, Locals
      <3> QED BY <1>1, <2>1, <2>2, <3>1, <3>2, MatchGive
    <2>3. CASE value[hz[t].i] # hz[t].p
      BY <1>3, <1>6, <2>3 DEF MarkGive
    <2> QED BY <2>2, <2>3
  <1> QED BY <1>2, <1>5, <1>6, MarkCases

LEMMA MatchInit == Init => CountsMatch
  <1> SUFFICES ASSUME Init, NEW p \in Objs
               PROVE  refs[p] = Cardinality(Stored(p)) + Cardinality(Owned(p))
                                + Cardinality(Counted(p))
                                + Cardinality(Granted(p))
                                + Cardinality(Left(p))
    BY DEF CountsMatch
  <1>1. p # None /\ refs[p] = 0
    BY LlptrAssumption DEF Init
  <1>2. /\ Stored(p) = {} /\ Owned(p) = {} /\ Counted(p) = {}
        /\ Granted(p) = {} /\ Left(p) = {}
    BY <1>1 DEF Init, Stored, Owned, Counted, Granted, Left, InHazard, At,
                NoLocals, Null
  <1> QED BY <1>1, <1>2, FS_EmptySet

LEMMA MatchNext ==
    ASSUME Typed, Typed', Owning, CountsMatch, [Next]_vars
    PROVE  CountsMatch'
  <1>1. CASE UNCHANGED vars
    BY <1>1 DEF vars, CountsMatch, Stored, Owned, Counted, Granted, Left,
                InHazard, At
  <1>2. ASSUME NEW t \in Threads, Run(t) PROVE CountsMatch'
    <2>1. OthersStay(t)
      BY <1>2, TypedRun
    <2> QED BY <1>2, <2>1, MatchPlain, MatchLoad, MatchAllocateFree,
               MatchDoHazard, MatchReread, MatchTaken, MatchSwap,
               MatchCasSucceeds, MatchGrant, MatchMark DEF Run
  <1> QED BY <1>1, <1>2 DEF Next

-----------------------------------------------------------------------------
(* The theorem.                                                            *)

\* A set of places that has one counts at least one.
LEMMA CountsOf ==
    ASSUME Types, NEW p \in Objs
    PROVE  /\ IsFiniteSet(Stored(p)) /\ IsFiniteSet(Owned(p))
           /\ IsFiniteSet(Counted(p)) /\ IsFiniteSet(Granted(p))
           /\ IsFiniteSet(Left(p))
  <1>1. /\ IsFiniteSet(Cells) /\ IsFiniteSet(Threads)
        /\ HazardCount + 1 \in Int
    BY LlptrAssumption
  <1>2. /\ IsFiniteSet(1 .. 2) /\ IsFiniteSet(Regs)
        /\ IsFiniteSet(1 .. HazardCount + 1)
    <2>1. IsFiniteSet(1 .. 2)
      BY 1 \in Int, 2 \in Int, FS_Interval
    <2>2. Regs = 1 .. 2
      BY DEF Regs
    <2>3. IsFiniteSet(1 .. HazardCount + 1)
      BY <1>1, 1 \in Int, FS_Interval
    <2> QED BY <2>1, <2>2, <2>3
  <1>3. /\ IsFiniteSet(Threads \X Regs) /\ IsFiniteSet(Threads \X (1 .. 2))
        /\ IsFiniteSet(Threads \X (1 .. HazardCount + 1))
    BY <1>1, <1>2, FS_Product
  <1> QED BY <1>1, <1>3, FS_Subset DEF Stored, Owned, Counted, Granted, Left

LEMMA CountsArePositive ==
    ASSUME Types, CountsMatch, NEW p \in Objs
    PROVE  /\ refs[p] \in Nat
           /\ \/ Stored(p) # {} \/ Owned(p) # {} \/ Counted(p) # {}
              \/ Granted(p) # {} \/ Left(p) # {}
              => refs[p] > 0
  <1>1. /\ Cardinality(Stored(p)) \in Nat /\ Cardinality(Owned(p)) \in Nat
        /\ Cardinality(Counted(p)) \in Nat /\ Cardinality(Granted(p)) \in Nat
        /\ Cardinality(Left(p)) \in Nat
    BY CountsOf, FS_CardinalityType
  <1>2. /\ Stored(p) # {} => Cardinality(Stored(p)) # 0
        /\ Owned(p) # {} => Cardinality(Owned(p)) # 0
        /\ Counted(p) # {} => Cardinality(Counted(p)) # 0
        /\ Granted(p) # {} => Cardinality(Granted(p)) # 0
        /\ Left(p) # {} => Cardinality(Left(p)) # 0
    BY CountsOf, FS_EmptySet
  <1>3. refs[p] = Cardinality(Stored(p)) + Cardinality(Owned(p))
                  + Cardinality(Counted(p)) + Cardinality(Granted(p))
                  + Cardinality(Left(p))
    BY DEF CountsMatch
  <1> QED BY <1>1, <1>2, <1>3

\* A pointer that is being granted has a reference.
LEMMA GrantIsLive ==
    ASSUME Typed, CountsMatch, NEW u \in Threads, NEW h \in Hz, Pending(u, h)
    PROVE  hz[u].p \in Objs /\ refs[hz[u].p] > 0
  <1>1. /\ pc[u] \in {"g.acq", "g.value", "g.owner", "g.give", "g.unflag"}
        /\ pc[u] \in Writers
    BY DEF Pending, Writers
  <1>2. /\ prog[u] # <<>> /\ hz[u].p # None /\ hz[u] \in Locals /\ Types
        /\ pc[u] = "g.acq" => (hz[u].left > 0 \/ hold[u][Op(u).r] = hz[u].p)
        /\ pc[u] \in {"g.value", "g.owner", "g.give"} =>
              hz[u].left + hz[u].i > HazardCount
        /\ pc[u] = "g.unflag" => hz[u].left + hz[u].i >= HazardCount
    BY <1>1, WriterFacts DEF Typed, Types
  <1>3. /\ hz[u].p \in Objs /\ hz[u].left \in 0 .. HazardCount + 1
        /\ hz[u].i \in 1 .. HazardCount /\ h \in 1 .. HazardCount
        /\ HazardCount \in Nat
    BY <1>2, FieldTypes, LlptrAssumption DEF Ptr, Hz
  <1>4. CASE hz[u].left > 0
    <2>1. <<u, 1>> \in Left(hz[u].p)
      BY <1>3, <1>4 DEF Left
    <2> QED BY <1>2, <1>3, <2>1, CountsArePositive
  <1>5. CASE pc[u] = "g.acq" /\ hold[u][Op(u).r] = hz[u].p
    <2>1. <<u, Op(u).r>> \in Owned(hz[u].p)
      BY <1>2, <1>5, OpIsCall DEF Owned
    <2> QED BY <1>2, <1>3, <2>1, CountsArePositive
  <1>6. hz[u].left > 0 \/ (pc[u] = "g.acq" /\ hold[u][Op(u).r] = hz[u].p)
    BY <1>1, <1>2, <1>3 DEF Pending
  <1> QED BY <1>4, <1>5, <1>6

LEMMA InvariantSuffices ==
    ASSUME IInv
    PROVE  CountsSound
  <1> USE DEF IInv
  <1>1. Types
    BY DEF Typed
  <1>2. TypeOK
    <2>1. refs \in [Objs -> Nat]
      BY <1>1, CountsArePositive DEF Types
    <2>2. \A t \in Threads : \/ At(t, "idle") \/ At(t, "hz.alloc")
                             \/ HasHazard(t) \/ Grants(t)
      BY <1>1 DEF Types, Labels, At, HasHazard, InHazard, Grants
    <2> QED BY <1>1, <2>1, <2>2 DEF TypeOK, Types, Ptr, Ptrs, Locals
  <1>3. ASSUME NEW t \in Threads, At(t, "hz.acq") PROVE refs[hz[t].v.p] > 0
    <2>1. /\ prog[t] # <<>> /\ hz[t].v.p # None /\ hz[t] \in Locals
      BY <1>1, <1>3, ReaderFacts DEF At, Typed, Types, Readers
    <2>2. hz[t].v.p \in Objs /\ hz[t].h \in Hz /\ Op(t).c \in Cells
      BY <1>1, <2>1, FieldTypes, OpIsCall DEF Ptr
    <2>3. CASE value[hz[t].h] = None
      <3>1. t \in Granted(hz[t].v.p)
        BY <1>3, <2>3 DEF Granted, InHazard, At
      <3> QED BY <1>1, <2>2, <3>1, CountsArePositive
    <2>4. CASE MayAcquire(t)
      <3>1. Op(t).c \in Stored(hz[t].v.p)
        BY <2>2, <2>4 DEF Stored, MayAcquire
      <3> QED BY <1>1, <2>2, <3>1, CountsArePositive
    <2>5. ASSUME NEW u \in Threads, Covered(t, u) PROVE refs[hz[t].v.p] > 0
      BY <2>2, <2>5, GrantIsLive DEF Covered
    <2> QED BY <1>3, <2>3, <2>4, <2>5 DEF Protected, Protects
  <1>4. ASSUME NEW t \in Threads, At(t, "g.acq")
        PROVE  hz[t].p # None /\ refs[hz[t].p] > 0
    <2>1. Pending(t, 1) /\ 1 \in Hz
      BY <1>4, LlptrAssumption DEF Pending, At, Hz
    <2> QED BY <2>1, GrantIsLive, LlptrAssumption
  <1> QED BY <1>2, <1>3, <1>4 DEF CountsSound, AcquiresLive

LEMMA InvariantInit == Init => IInv
  BY TypedInit, OwningInit, ProtectedInit, MatchInit DEF IInv

LEMMA InvariantNext == IInv /\ [Next]_vars => IInv'
  <1> SUFFICES ASSUME IInv, [Next]_vars PROVE IInv'
    OBVIOUS
  <1>1. Typed /\ Owning /\ Protected /\ CountsMatch
    BY DEF IInv
  <1>2. Typed'
    BY <1>1, TypedNext
  <1> QED BY <1>1, <1>2, OwningNext, ProtectedNext, MatchNext DEF IInv

\* The count of an object is the number of pointers to it, in llptrs, owned by
\* threads, granted to readers and held by grants under way; and a reference
\* is acquired only of an object that has one (llptr.h:349-632,
\* hazard-inl.h:53-72, hazard.cc:31-101).  It holds for any finite number of
\* threads and llptrs, any number of hazards and every program.
THEOREM ReferencesAreCounted == Spec => []CountsSound
  <1>1. Init => IInv
    BY InvariantInit
  <1>2. IInv /\ [Next]_vars => IInv'
    BY InvariantNext
  <1>3. IInv => CountsSound
    BY InvariantSuffices
  <1> QED BY <1>1, <1>2, <1>3, PTL DEF Spec
===============================================================================
