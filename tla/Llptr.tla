-------------------------------- MODULE Llptr ---------------------------------
(***************************************************************************)
(* llptr: an atomic pointer to counted objects, with flags, over hazard    *)
(* pointers (src/include/ilias/llptr.h, hazard.h, hazard-inl.h,            *)
(* src/src/hazard.cc).                                                     *)
(*                                                                         *)
(* A reader publishes in a hazard the pointer that it read, before it may  *)
(* take a reference.  A writer that takes a pointer out of an llptr first  *)
(* acquires a reference for every hazard there is, gives one to each       *)
(* hazard that names the pointer, and releases the rest.                   *)
(*                                                                         *)
(* An object is an address; it is deleted when its count gets to zero, and *)
(* the address may then be used for another object.  A thread owns the     *)
(* pointers in its two registers.  Every atomic operation is a step.       *)
(***************************************************************************)
EXTENDS Integers, Sequences, FiniteSets

CONSTANTS
    Threads,
    Cells,        \* the llptrs
    Objs,         \* the addresses of objects
    HazardCount,  \* the length of hazards: 64 in the code
    Programs,     \* what the threads call
    None          \* the null pointer

Regs == {1, 2}
Ops == {"new", "drop", "load", "store", "exchange", "strong", "weak", "raw",
        "move", "flag"}

\* An operation on llptr c; r is the register that it moves or assigns, ef
\* the flag that a compare_exchange expects beside the pointer in register 1.
Call == [op : Ops, c : Cells, r : Regs, ef : BOOLEAN]

ASSUME LlptrAssumption ==
    /\ HazardCount \in Nat \ {0}
    /\ None \notin Objs \cup Cells
    /\ IsFiniteSet(Threads) /\ IsFiniteSet(Cells)
    /\ \A p \in Programs : p \in [Threads -> Seq(Call)]

Hz == 1 .. HazardCount
Nobody == [own |-> None, flag |-> FALSE]

VARIABLES
    cell,   \* m_impl of the llptrs: a pointer and a flag
    refs,   \* m_refcount of the objects
    owner, value,  \* the hazards
    hold,   \* the pointers that a thread owns
    prog,
    pc,     \* where a thread is in its call
    hz      \* the locals of the call

vars == <<cell, refs, owner, value, hold, prog, pc, hz>>

Null == [p |-> None, fl |-> FALSE]
\* v is what was read, h the hazard, acq the references that do_hazard()
\* found, p, left and i the pointer that is granted, the references that are
\* not given away yet, and the next hazard.
NoLocals == [v |-> Null, h |-> 1, acq |-> 0, p |-> None, left |-> 0, i |-> 1]

Op(t) == Head(prog[t])
At(t, l) == pc[t] = l
Goto(t, l) == pc' = [pc EXCEPT ![t] = l]
Set(t, f) == hz' = [hz EXCEPT ![t] = f]
Expect(t) == [p |-> hold[t][1], fl |-> Op(t).ef]

\* AcqRel::acquire() and release(), of any number of references.
Acquired(p, n) == IF p = None THEN refs ELSE [refs EXCEPT ![p] = @ + n]
Dropped(p, n) == Acquired(p, 0 - n)

\* The end of a call.
End(t) ==
    /\ pc' = [pc EXCEPT ![t] = "idle"]
    /\ prog' = [prog EXCEPT ![t] = Tail(@)]
    /\ hz' = [hz EXCEPT ![t] = NoLocals]

\* The pointer that was read is assigned to a register, which releases what
\* the register had.
Assign(t, r, p) ==
    /\ refs' = Dropped(hold[t][r], 1)
    /\ hold' = [hold EXCEPT ![t][r] = p]

-----------------------------------------------------------------------------
(* Objects, and the calls that need no hazard.                             *)

\* A thread makes an object, or drops a pointer.
New(t) ==
    /\ At(t, "idle") /\ prog[t] # <<>> /\ Op(t).op = "new"
    /\ hold[t][Op(t).r] = None
    /\ \E p \in Objs : /\ refs[p] = 0
                       /\ refs' = [refs EXCEPT ![p] = 1]
                       /\ hold' = [hold EXCEPT ![t][Op(t).r] = p]
    /\ End(t)
    /\ UNCHANGED <<cell, owner, value>>

Drop(t) ==
    /\ At(t, "idle") /\ prog[t] # <<>> /\ Op(t).op = "drop"
    /\ Assign(t, Op(t).r, None)
    /\ End(t)
    /\ UNCHANGED <<cell, owner, value>>

fetch_or(t) ==
    /\ At(t, "idle") /\ prog[t] # <<>> /\ Op(t).op = "flag"
    /\ cell' = [cell EXCEPT ![Op(t).c].fl = TRUE]
    /\ End(t)
    /\ UNCHANGED <<refs, owner, value, hold>>

-----------------------------------------------------------------------------
(* Readers: allocate_hazard() and do_hazard().                             *)

load(t) ==
    LET v == cell[Op(t).c]
    IN  /\ At(t, "idle") /\ prog[t] # <<>> /\ Op(t).op = "load"
        /\ IF v.p = None
           THEN Assign(t, Op(t).r, None) /\ End(t)
           ELSE /\ Set(t, [hz[t] EXCEPT !.v = v])
                /\ Goto(t, "hz.alloc")
                /\ UNCHANGED <<refs, hold, prog>>
        /\ UNCHANGED <<cell, owner, value>>

allocate_hazard(t) ==
    /\ At(t, "hz.alloc")
    /\ \E h \in Hz : /\ owner[h] = Nobody
                     /\ owner' = [owner EXCEPT ![h].own = Op(t).c]
                     /\ Set(t, [hz[t] EXCEPT !.h = h])
    /\ Goto(t, "hz.set")
    /\ UNCHANGED <<cell, refs, value, hold, prog>>

\* The llptr still has the pointer that the hazard names.
MayAcquire(t) == cell[Op(t).c].p = hz[t].v.p

\* Mutant: a reference that was granted meanwhile goes unnoticed.
CountedOwn(t) == hz[t].acq

\* The hazard is found null when a reference was granted.
CountedGrant(t) ==
    IF value[hz[t].h] = None THEN hz[t].acq + 1 ELSE hz[t].acq

\* A reference is taken while the llptr still has the pointer, one may have
\* been granted, or both, or none.
do_hazard(t) ==
    LET f == hz[t]   p == f.v.p
    IN  /\ \/ /\ At(t, "hz.set")
              /\ IF p = None THEN Goto(t, "hz.done") /\ UNCHANGED value
                 ELSE /\ value' = [value EXCEPT ![f.h] = p]
                      /\ Goto(t, "hz.check")
              /\ Set(t, [f EXCEPT !.acq = 0])
              /\ UNCHANGED refs
           \/ /\ At(t, "hz.check")
              /\ Goto(t, IF MayAcquire(t) THEN "hz.acq" ELSE "hz.clear")
              /\ UNCHANGED <<refs, value, hz>>
           \/ /\ At(t, "hz.acq")
              /\ refs' = Acquired(p, 1)
              /\ Set(t, [f EXCEPT !.acq = 1])
              /\ Goto(t, "hz.clear")
              /\ UNCHANGED value
           \/ /\ At(t, "hz.clear")
              /\ value' = [value EXCEPT ![f.h] = None]
              /\ Set(t, [f EXCEPT !.acq = CountedGrant(t)])
              /\ Goto(t, "hz.done")
              /\ UNCHANGED refs
        /\ UNCHANGED <<cell, owner, hold, prog>>

\* Mutant: the loop tries the pointer that it has.
ReadoutOnce(t) == hz[t].v

Readout(t) == cell[Op(t).c]

\* Without a reference the llptr is read again.  compare_exchange_strong()
\* starts over when it finds what it expects after all.
Reread(t) ==
    LET f == hz[t]   v == Readout(t)
    IN  /\ At(t, "hz.done") /\ f.acq = 0 /\ f.v.p # None
        /\ Set(t, [f EXCEPT !.v = v])
        /\ Goto(t, IF Op(t).op = "strong" /\ v = Expect(t) THEN "hz.again"
                   ELSE IF v.p = None THEN "hz.done" ELSE "hz.set")
        /\ UNCHANGED <<cell, refs, owner, value, hold, prog>>

\* One reference is kept, for the register that is assigned.
Taken(t) ==
    LET f == hz[t]   p == f.v.p   r == IF Op(t).op = "load" THEN Op(t).r
                                       ELSE 1
    IN  /\ At(t, "hz.done")
        /\ f.acq > 0 \/ p = None
        /\ IF f.acq > 1
           THEN /\ refs' = Dropped(p, f.acq - 1)
                /\ Set(t, [f EXCEPT !.acq = 1])
                /\ UNCHANGED <<pc, hold>>
           ELSE /\ Assign(t, r, p)
                /\ Goto(t, "hz.free")
                /\ UNCHANGED hz
        /\ UNCHANGED <<cell, owner, value, prog>>

\* ~basic_hazard() leaves the flag alone.
FreeHazard(t) ==
    /\ At(t, "hz.free") \/ At(t, "hz.again")
    /\ owner' = [owner EXCEPT ![hz[t].h].own = None]
    /\ IF At(t, "hz.free") THEN End(t)
       ELSE Goto(t, "idle") /\ Set(t, NoLocals) /\ UNCHANGED prog
    /\ UNCHANGED <<cell, refs, value, hold>>

-----------------------------------------------------------------------------
(* Writers: the pointer that leaves an llptr is granted to its readers.    *)

\* store(), reset() and exchange() move a register into the llptr.
Swap(t) ==
    LET o == Op(t)   old == cell[o.c].p
    IN  /\ At(t, "idle") /\ prog[t] # <<>> /\ o.op \in {"store", "exchange"}
        /\ cell' = [cell EXCEPT ![o.c] = [p |-> hold[t][o.r], fl |-> FALSE]]
        /\ hold' = [hold EXCEPT ![t][o.r] = IF o.op = "store" THEN None
                                            ELSE old]
        /\ IF old = None THEN End(t)
           ELSE /\ Set(t, [hz[t] EXCEPT
                             !.p = old,
                             !.left = IF o.op = "store" THEN 1 ELSE 0])
                /\ Goto(t, "g.acq")
                /\ UNCHANGED prog
        /\ UNCHANGED <<refs, owner, value>>

\* compare_exchange: the expected value is a pointer that the thread owns,
\* one that it does not ("raw"), or one that it gives away ("move").
CasOps == {"strong", "weak", "raw", "move"}

CasSucceeds(t) ==
    LET o == Op(t)   p == hold[t][1]
    IN  /\ At(t, "idle") /\ prog[t] # <<>> /\ o.op \in CasOps
        /\ cell[o.c] = Expect(t)
        /\ cell' = [cell EXCEPT ![o.c] = [p |-> hold[t][2], fl |-> FALSE]]
        /\ hold' = [hold EXCEPT ![t] = [r \in Regs |->
              IF r = 2 \/ o.op = "move" THEN None ELSE @[r]]]
        /\ IF p = None THEN End(t)
           ELSE /\ Set(t, [hz[t] EXCEPT
                             !.p = p, !.left = IF o.op = "move" THEN 2 ELSE 1])
                /\ Goto(t, "g.acq")
                /\ UNCHANGED prog
        /\ UNCHANGED <<refs, owner, value>>

\* A failed one reads the llptr into the expected value, through a hazard
\* unless the pointer is owned already, or null.  A weak one may fail though
\* the llptr has what is expected.
CasFails(t) ==
    LET o == Op(t)   v == cell[o.c]
    IN  /\ At(t, "idle") /\ prog[t] # <<>> /\ o.op \in CasOps
        /\ v # Expect(t) \/ o.op # "strong"
        /\ \/ /\ o.op \in {"raw", "move"} \/ v.p = hold[t][1]
              /\ End(t)
              /\ UNCHANGED <<refs, hold>>
           \/ /\ o.op \notin {"raw", "move"} /\ v.p # hold[t][1] /\ v.p = None
              /\ Assign(t, 1, None)
              /\ End(t)
           \/ /\ o.op \notin {"raw", "move"} /\ v.p # hold[t][1] /\ v.p # None
              /\ Set(t, [hz[t] EXCEPT !.v = v])
              /\ Goto(t, "hz.alloc")
              /\ UNCHANGED <<refs, hold, prog>>
        /\ UNCHANGED <<cell, owner, value>>

\* basic_hazard::grant(): a reference for every hazard, before the first is
\* looked at; what is over is released.
grant(t) ==
    LET f == hz[t]
    IN  /\ \/ /\ At(t, "g.acq")
              /\ IF f.left < HazardCount
                 THEN /\ refs' = Acquired(f.p, HazardCount - f.left)
                      /\ Set(t, [f EXCEPT !.left = HazardCount])
                 ELSE UNCHANGED <<refs, hz>>
              /\ Goto(t, "g.value")
              /\ UNCHANGED prog
           \/ /\ At(t, "g.rel")
              /\ refs' = Dropped(f.p, f.left)
              /\ End(t)
        /\ UNCHANGED <<cell, owner, value, hold>>

NextHazard(t) ==
    IF hz[t].i < HazardCount
    THEN Set(t, [hz[t] EXCEPT !.i = @ + 1]) /\ Goto(t, "g.value")
    ELSE Goto(t, "g.rel") /\ UNCHANGED hz

\* mark(): the flag on the owner keeps the hazard from being given to another
\* reader while its value is exchanged for null.
mark(t) ==
    LET f == hz[t]   i == f.i   c == Op(t).c
    IN  /\ \/ /\ At(t, "g.value")
              /\ IF value[i] = f.p THEN Goto(t, "g.owner") /\ UNCHANGED hz
                 ELSE NextHazard(t)
              /\ UNCHANGED <<owner, value>>
           \/ /\ At(t, "g.owner")
              /\ IF owner[i] = [own |-> c, flag |-> FALSE]
                 THEN /\ owner' = [owner EXCEPT ![i].flag = TRUE]
                      /\ Goto(t, "g.give")
                      /\ UNCHANGED hz
                 ELSE /\ IF owner[i].own = c
                         THEN Goto(t, "g.value") /\ UNCHANGED hz
                         ELSE NextHazard(t)
                      /\ UNCHANGED owner
              /\ UNCHANGED value
           \/ /\ At(t, "g.give")
              /\ IF value[i] = f.p
                 THEN /\ value' = [value EXCEPT ![i] = None]
                      /\ Set(t, [f EXCEPT !.left = @ - 1])
                 ELSE UNCHANGED <<value, hz>>
              /\ Goto(t, "g.unflag")
              /\ UNCHANGED owner
           \/ /\ At(t, "g.unflag")
              /\ owner' = [owner EXCEPT ![i].flag = FALSE]
              /\ NextHazard(t)
              /\ UNCHANGED value
        /\ UNCHANGED <<cell, refs, hold, prog>>

-----------------------------------------------------------------------------
Init ==
    /\ cell = [c \in Cells |-> Null]
    /\ refs = [p \in Objs |-> 0]
    /\ owner = [h \in Hz |-> Nobody] /\ value = [h \in Hz |-> None]
    /\ hold = [t \in Threads |-> [r \in Regs |-> None]]
    /\ prog \in Programs
    /\ pc = [t \in Threads |-> "idle"]
    /\ hz = [t \in Threads |-> NoLocals]

Run(t) ==
    \/ New(t) \/ Drop(t) \/ fetch_or(t) \/ load(t)
    \/ allocate_hazard(t) \/ do_hazard(t) \/ Reread(t) \/ Taken(t)
    \/ FreeHazard(t)
    \/ Swap(t) \/ CasSucceeds(t) \/ CasFails(t) \/ grant(t) \/ mark(t)

Next == \E t \in Threads : Run(t)

Spec == Init /\ [][Next]_vars

\* Threads are scheduled: a step that stays possible is taken.
FairSpec == Spec /\ \A t \in Threads : WF_vars(Run(t))

-----------------------------------------------------------------------------
(* Properties.                                                             *)

\* Where a thread is: in a call that uses a hazard, in one that grants.
InHazard(t) == pc[t] \in {"hz.check", "hz.acq", "hz.clear"}
HasHazard(t) ==
    InHazard(t) \/ pc[t] \in {"hz.set", "hz.done", "hz.free", "hz.again"}
Grants(t) == pc[t] \in {"g.acq", "g.value", "g.owner", "g.give", "g.unflag",
                        "g.rel"}

\* What the variables hold.
TypeOK ==
    LET Ptr == Objs \cup {None}
        Read == [p : Ptr, fl : BOOLEAN]
    IN  /\ cell \in [Cells -> Read]
        /\ refs \in [Objs -> Nat]
        /\ owner \in [Hz -> [own : Cells \cup {None}, flag : BOOLEAN]]
        /\ value \in [Hz -> Ptr]
        /\ hold \in [Threads -> [Regs -> Ptr]]
        /\ prog \in [Threads -> Seq(Call)]
        /\ DOMAIN pc = Threads
        /\ \A t \in Threads : \/ At(t, "idle") \/ At(t, "hz.alloc")
                              \/ HasHazard(t) \/ Grants(t)
        /\ hz \in [Threads -> [v : Read, h : Hz, acq : 0 .. 2, p : Ptr,
                               left : 0 .. HazardCount + 1, i : Hz]]

\* Where there are pointers to an object: in llptrs, in registers, those that
\* do_hazard() counted, those that were granted and are not counted yet, and
\* those that grant() has left.
Stored(p) == {c \in Cells : cell[c].p = p}
Owned(p) == {x \in Threads \X Regs : hold[x[1]][x[2]] = p}
Counted(p) ==
    {x \in Threads \X (1 .. 2) :
        /\ InHazard(x[1]) \/ At(x[1], "hz.done")
        /\ hz[x[1]].v.p = p /\ x[2] =< hz[x[1]].acq}
Granted(p) ==
    {t \in Threads : InHazard(t) /\ hz[t].v.p = p /\ value[hz[t].h] = None}
Left(p) ==
    {x \in Threads \X (1 .. HazardCount + 1) :
        hz[x[1]].p = p /\ x[2] =< hz[x[1]].left}

\* The count of an object is the number of pointers to it.  So an object is
\* not deleted under anybody, and is deleted when nobody has it any more
\* (llptr.h:349, 414-632, hazard-inl.h:55, hazard.cc:31).
CountsMatch ==
    \A p \in Objs :
        refs[p] = Cardinality(Stored(p)) + Cardinality(Owned(p))
                  + Cardinality(Counted(p)) + Cardinality(Granted(p))
                  + Cardinality(Left(p))

\* Whoever is about to acquire a reference, on the llptr's word, finds the
\* object alive: between the second look and the acquisition the reference of
\* the llptr may go, but then the hazard was given one (llptr.h:378-384).
AcquiresLive ==
    \A t \in Threads :
        /\ At(t, "hz.acq") => refs[hz[t].v.p] > 0
        /\ At(t, "g.acq") => hz[t].p # None /\ refs[hz[t].p] > 0

\* The references of objects are counted, and taken of what is alive.
CountsSound == TypeOK /\ CountsMatch /\ AcquiresLive

\* Every call ends, though readers wait for hazards and go round when the
\* pointer changes, and writers wait for the flags of other writers
\* (hazard.cc:76-84, hazard.cc:34-48, llptr.h:423, 591).
CallsEnd == []<>(\A t \in Threads : pc[t] = "idle")
=============================================================================
