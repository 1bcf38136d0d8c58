--------------------------- MODULE ThreadpoolIntf ---------------------------
(***************************************************************************)
(* What joins the users of a threadpool to its threads: combiners of one   *)
(* client and one service, the service multiplexer (many clients on one    *)
(* service), the client multiplexer (many services for one client) and the *)
(* aid service (src/src/threadpool_intf.cc, threadpool_intf.h), between    *)
(* the work queue services of workq.cc and the worker threads of           *)
(* threadpool.cc.                                                          *)
(*                                                                         *)
(* Functions call each other through the combiners, so every thread has a  *)
(* stack of frames, and an action is one step of the top one: one access   *)
(* of shared state and the local computation up to the next.  A frame      *)
(* holds at most one smart pointer (own, of the side given by side).       *)
(* Reference counts of the sides are the pointers that exist, and the      *)
(* counts of the locks are the frames in their scope.  The lists are the   *)
(* lock-free ones: an operation on a list takes effect at once, and a      *)
(* thread that iterates has a marker in the list behind its element.       *)
(*                                                                         *)
(* A weak compare_exchange does not fail spuriously, the numbers of        *)
(* threads to wake are "one" and "all", and m_wakeup_cb of the aid service *)
(* is null: callback() takes a tp_aid_service by value, which cannot be    *)
(* copied.                                                                 *)
(***************************************************************************)
EXTENDS Integers, Sequences, SequencesExt, FiniteSets, FiniteSetsExt

CONSTANTS
    Comb,                   \* combiners
    Wq,                     \* work queue services
    SMux, CMux, Aid, Pool,  \* the multiplexers, the aid service, the pool
    ClientOf, ServiceOf,    \* what each combiner joins
    User, Worker,           \* threads
    Programs, \* the combiners that are attached, and the calls users make
    MaxWork,  \* the units of work that are added to a queue at most
    None

ClientHolder == Wq \cup {SMux}
ServiceHolder == {CMux, Aid, Pool}
Object == ClientHolder \cup ServiceHolder
Thread == User \cup Worker

ASSUME IntfAssumption ==
    /\ ClientOf \in [Comb -> Wq \cup {SMux, CMux}]
    /\ ServiceOf \in [Comb -> {SMux, CMux, Aid, Pool}]
    /\ MaxWork \in 0..31
    /\ None \notin Comb \cup Object \cup Thread
    /\ \A p \in Programs : /\ p.attached \subseteq Comb
                           /\ p.workers \subseteq Worker
                           /\ \A u \in User : p.calls[u] \in
                                Seq([op : STRING, x : Comb \cup Object])

VARIABLES
    ref,    \* m_refcnt of each combiner
    life,   \* whether it is created and deleted
    avail,  \* m_work_avail of the combiners that the service multiplexer has
    list,   \* m_active and m_data of the service, m_data of the client one
    impl,   \* the pointer of each object: m_impl, m_wakeup_cb, m_p, m_serv
    work,   \* the jobs on each queue
    pool,   \* what each worker shows the pool
    gone,   \* the objects that are destroyed
    todo, stack, ret

shared == <<ref, life, avail, list, impl, work, pool, gone>>
vars == <<shared, todo, stack, ret>>

-----------------------------------------------------------------------------
(* Frames and pointers. *)

Frame(at, k, m) ==
    [at |-> at, k |-> k, m |-> m, b |-> FALSE, own |-> None, side |-> ""]
Holding(f, side, k) == [f EXCEPT !.own = k, !.side = side]

Top(t) == stack[t][1]
At(t, l) == stack[t] # <<>> /\ Top(t).at = l
Frames(t) == {<<t, i>> : i \in DOMAIN stack[t]}
AllFrames == UNION {Frames(t) : t \in Thread}
FrameAt(f) == stack[f[1]][f[2]]

InList(l, k) == \E i \in DOMAIN list[l] : list[l][i] = k
Held(side, k) == Cardinality({f \in AllFrames : /\ FrameAt(f).own = k
                                                /\ FrameAt(f).side = side})
Lists(ls, k) == Cardinality({l \in ls : InList(l, k)})
Holders(hs, k) == Cardinality({h \in hs : impl[h] = k})

\* m_service_refcnt and m_client_refcnt.
ServicePtrs(k) == Lists({"active", "data"}, k) + Holders(ServiceHolder, k)
                  + Held("service", k)
ClientPtrs(k) == Lists({"clients"}, k) + Holders(ClientHolder, k)
                 + Held("client", k)

has_service(k) == ServicePtrs(k) > 0
has_client(k) == ServicePtrs(k) > 0

\* m_client_locks: a client's call holds its lock in these places.
ClientLocked == {"act.loop", "act.done", "act.relink", "act.tested",
                 "act.erase", "act.dispose", "act.drop", "act.next",
                 "act.skip", "act.activate",
                 "q.pin", "c.impl", "c.done", "c.out"}
client_locks(k) == Cardinality({f \in AllFrames :
                       FrameAt(f).k = k /\ FrameAt(f).at \in ClientLocked})

\* A release that drops the last pointer of its side goes on as a call.
ServiceRelease(k) ==
    IF k # None /\ ServicePtrs(k) = 1 THEN <<Frame("rel.wait", k, "")>>
    ELSE <<>>
ClientRelease(k) ==
    IF k = None \/ ClientPtrs(k) # 1 THEN <<>>
    ELSE <<Frame(IF ServiceOf[k] = SMux THEN "detach" ELSE "rel.wait", k, "")>>
Release(f) == IF f.side = "service" THEN ServiceRelease(f.own)
              ELSE ClientRelease(f.own)

Go(t, f, calls) ==
    /\ stack' = [stack EXCEPT ![t] = calls \o <<f>> \o Tail(@)]
    /\ ret' = [ret EXCEPT ![t] = FALSE]
Goto(t, l) == Go(t, [Top(t) EXCEPT !.at = l], <<>>)
Return(t, b) == /\ stack' = [stack EXCEPT ![t] = Tail(@)]
                /\ ret' = [ret EXCEPT ![t] = b]
\* The frame lets its pointer go, then goes on at l, or returns.
Drop(t, f, l) ==
    Go(t, [f EXCEPT !.at = l, !.own = None, !.side = ""], Release(f))

Call(m, k) ==
    Frame(IF ClientOf[k] \in Wq THEN "q." \o m
          ELSE IF ClientOf[k] = SMux THEN "mux" ELSE "c.call", k, m)
Wake(k, n) == Frame("wake", k, n)

-----------------------------------------------------------------------------
(* Reference counts. *)

\* link_back(this): the element's own pointer is a service pointer.
LinkBack(l, k) ==
    /\ list' = IF InList(l, k) THEN list
               ELSE [list EXCEPT ![l] = Append(@, k)]
    /\ ref' = IF has_service(k) THEN ref ELSE [ref EXCEPT ![k] = @ + 1]

refcnt_release(k) ==
    /\ ref' = [ref EXCEPT ![k] = @ - 1]
    /\ life' = IF ref[k] = 1 THEN [life EXCEPT ![k] = "deleted"] ELSE life

\* The last pointer of a side went: client_lock_wait(), or
\* service_lock_wait(), which waits for the client locks too.
LastRelease(t) ==
    LET k == Top(t).k
    IN  /\ At(t, "rel.wait") /\ client_locks(k) = 0
        /\ refcnt_release(k)
        /\ Return(t, FALSE)
        /\ UNCHANGED <<avail, list, impl, work, pool, gone, todo>>

\* The client of a multiplexed service goes away: the workers find the
\* combiner on the active list and drop it there.
on_client_detach(t) ==
    LET k == Top(t).k
    IN  /\ \/ /\ At(t, "detach")
              /\ Goto(t, IF has_service(k) THEN "detach.store" ELSE "rel.wait")
              /\ UNCHANGED <<avail, ref, list>>
           \/ /\ At(t, "detach.store")
              /\ avail' = [avail EXCEPT ![k] = "DETACHED"]
              /\ Goto(t, "detach.link")
              /\ UNCHANGED <<ref, list>>
           \/ /\ At(t, "detach.link")
              /\ LinkBack("active", k)
              /\ Goto(t, "rel.wait")
              /\ UNCHANGED avail
        /\ UNCHANGED <<life, impl, work, pool, gone, todo>>

-----------------------------------------------------------------------------
(* Iterators. *)

\* The sequence s after t's marker has passed the next combiner: at the end
\* it stands at the head, so that another step begins again.
After(s, t) == {j \in DOMAIN s : s[j] \in Comb /\ \E i \in 1..j : s[i] = t}
Without(s, x) == SelectSeq(s, LAMBDA y : y # x)
NextOf(s, t) == IF After(s, t) = {} THEN None ELSE s[Min(After(s, t))]
Step(s, t) == IF After(s, t) = {} THEN <<t>> \o Without(s, t)
              ELSE LET j == Min(After(s, t))
                   IN  InsertAt(Without(s, t), j, t)

\* ++i: the iterator's pointer moves on.
Advance(t, l, at) ==
    LET f == Top(t)   s == list[l]   n == NextOf(s, t)
    IN  /\ list' = [list EXCEPT ![l] = Step(s, t)]
        /\ Go(t, [f EXCEPT !.at = at, !.own = n],
              IF n = f.own THEN <<>> ELSE Release(f))

\* Mutant: an erase that fails is tried again.
EraseRetry(t, l, done, skip) ==
    LET k == Top(t).own
    IN  IF InList(l, k)
        THEN /\ list' = [list EXCEPT ![l] =
                            LET u == Without(@, t)
                                i == CHOOSE i \in DOMAIN u : u[i] = k
                            IN  [u EXCEPT ![i] = t]]
             /\ Goto(t, done)
        ELSE Goto(t, Top(t).at) /\ UNCHANGED list

\* i = erase(i): it fails when another thread has unlinked the element, and
\* the iterator then steps once in erase() and once in the loop.
EraseHere(t, l, done, skip) ==
    LET k == Top(t).own
    IN  IF InList(l, k)
        THEN /\ list' = [list EXCEPT ![l] =
                            LET u == Without(@, t)
                                i == CHOOSE i \in DOMAIN u : u[i] = k
                            IN  [u EXCEPT ![i] = t]]
             /\ Goto(t, done)
        ELSE Goto(t, skip) /\ UNCHANGED list

\* begin(), for a frame that goes on at the label at.
Begin(t, l, side, at) ==
    LET s == <<t>> \o list[l]
    IN  /\ list' = [list EXCEPT ![l] = Step(s, t)]
        /\ Go(t, [Top(t) EXCEPT !.at = at, !.own = NextOf(s, t),
                                !.side = side], <<>>)
End(t, l) == list' = [list EXCEPT ![l] = Without(@, t)]

-----------------------------------------------------------------------------
(* The service multiplexer, for its clients: invoke_work(), invoke_test()  *)
(* and post_deactivate() of the elements of m_active.                      *)

\* remove_and_dispose_if() or remove_if() starts, under the client lock.
MuxEnter(t) ==
    /\ At(t, "mux")
    /\ Begin(t, "active", "service", "act.loop")
    /\ UNCHANGED <<ref, life, avail, impl, work, pool, gone, todo>>

\* The answer is whether the active list has an element.
MuxLeave(t) ==
    /\ At(t, "act.loop") /\ Top(t).own = None
    /\ End(t, "active")
    /\ Return(t, \E k \in Comb : InList("active", k))
    /\ UNCHANGED <<ref, life, avail, impl, work, pool, gone, todo>>

invoke_work(t) ==
    LET f == Top(t)   s == f.own   a == avail[s]
    IN  /\ \/ /\ At(t, "act.loop") /\ s # None /\ f.m = "do"
              /\ IF a \in {"YES", "MAYBE"}
                 THEN /\ avail' = [avail EXCEPT ![s] = "MAYBE"]
                      /\ Go(t, [f EXCEPT !.at = "act.done"],
                            <<Call("do", s)>>)
                 ELSE UNCHANGED avail /\ Goto(t, "act.erase")
           \/ /\ At(t, "act.done") /\ ret[t]
              /\ avail' = IF a = "DETACHED" THEN avail
                          ELSE [avail EXCEPT ![s] = "YES"]
              /\ Goto(t, CASE a = "DETACHED" -> "act.erase"
                           [] a = "NO" -> "act.activate"
                           [] OTHER -> "act.next")
           \/ /\ At(t, "act.done") /\ ~ret[t]
              /\ avail' = [avail EXCEPT ![s] = IF @ = "MAYBE" THEN "NO"
                                               ELSE @]
              /\ Goto(t, "act.erase")
        /\ UNCHANGED <<ref, life, list, impl, work, pool, gone, todo>>

invoke_test(t) ==
    LET f == Top(t)   s == f.own   a == avail[s]
    IN  /\ \/ /\ At(t, "act.loop") /\ s # None /\ f.m = "has"
              /\ UNCHANGED avail
              /\ IF a = "NO"
                 THEN Go(t, [f EXCEPT !.at = "act.tested"],
                         <<Call("has", s)>>)
                 ELSE Goto(t, IF a = "DETACHED" THEN "act.erase"
                              ELSE "act.next")
           \/ /\ At(t, "act.tested")
              /\ avail' = IF ret[t] THEN [avail EXCEPT ![s] = "YES"]
                          ELSE avail
              /\ Goto(t, IF ret[t] THEN "act.next" ELSE "act.erase")
        /\ UNCHANGED <<ref, life, list, impl, work, pool, gone, todo>>

\* activate(), for the loop and for the disposer.
activate(t) ==
    LET s == Top(t).own
    IN  /\ \/ At(t, "act.activate") /\ Goto(t, "act.next")
           \/ At(t, "act.relink") /\ Goto(t, "act.drop")
        /\ LinkBack("active", s)
        /\ UNCHANGED <<life, avail, impl, work, pool, gone, todo>>

\* Mutant: nobody looks at the state again.
post_deactivate_blind(t) ==
    /\ At(t, "act.dispose") /\ Goto(t, "act.next")
    /\ UNCHANGED <<ref, life, avail, list, impl, work, pool, gone, todo>>

\* The element is off the list: if a wakeup came in between it goes back,
\* and if its client is gone it leaves m_data.
post_deactivate(t) ==
    LET s == Top(t).own
    IN  /\ \/ /\ At(t, "act.dispose")
              /\ Goto(t, IF avail[s] \in {"YES", "MAYBE"} THEN "act.relink"
                         ELSE "act.drop")
              /\ UNCHANGED list
           \/ /\ At(t, "act.drop")
              /\ list' = IF avail[s] # "DETACHED" THEN list
                         ELSE [list EXCEPT !["data"] = Without(@, s)]
              /\ Goto(t, "act.next")
        /\ UNCHANGED <<ref, life, avail, impl, work, pool, gone, todo>>

MuxErase(t) ==
    /\ At(t, "act.erase")
    /\ EraseHere(t, "active",
                 IF Top(t).m = "do" THEN "act.dispose" ELSE "act.next",
                 "act.skip")
    /\ UNCHANGED <<ref, life, avail, impl, work, pool, gone, todo>>

MuxNext(t) ==
    /\ \/ At(t, "act.skip") /\ Advance(t, "active", "act.next")
       \/ At(t, "act.next") /\ Advance(t, "active", "act.loop")
    /\ UNCHANGED <<ref, life, avail, impl, work, pool, gone, todo>>

\* do_work() and has_work() of the service multiplexer's client.
Mux(t) == MuxEnter(t) \/ MuxLeave(t) \/ invoke_work(t) \/ invoke_test(t)
          \/ activate(t) \/ post_deactivate(t) \/ MuxErase(t) \/ MuxNext(t)

-----------------------------------------------------------------------------
(* The client multiplexer's client and the work queue service.             *)

\* do_work() and has_work() of tp_client_multiplexer::threadpool_client: the
\* call goes to a copy of the multiplexer's pointer.
ClientMuxLock(t) ==
    LET f == Top(t)
    IN  /\ \/ /\ At(t, "c.call")
              /\ IF has_client(f.k) THEN Goto(t, "c.impl")
                 ELSE Return(t, FALSE)
           \/ At(t, "c.done") /\ Drop(t, [f EXCEPT !.b = ret[t]], "c.out")
           \/ At(t, "c.out") /\ Return(t, f.b)
        /\ UNCHANGED <<shared, todo>>

\* Mutant: the client is called through a pointer that holds no reference.
ClientMuxRaw(t) ==
    /\ At(t, "c.impl")
    /\ IF impl[CMux] = None THEN Return(t, FALSE)
       ELSE Go(t, [Top(t) EXCEPT !.at = "c.done"],
               <<Call(Top(t).m, impl[CMux])>>)
    /\ UNCHANGED <<shared, todo>>

ClientMuxCall(t) ==
    /\ At(t, "c.impl")
    /\ IF impl[CMux] = None THEN Return(t, FALSE)
       ELSE Go(t, [Holding(Top(t), "service", impl[CMux]) EXCEPT
                      !.at = "c.done"], <<Call(Top(t).m, impl[CMux])>>)
    /\ UNCHANGED <<shared, todo>>

ClientMux(t) == ClientMuxLock(t) \/ ClientMuxCall(t)

\* do_work() of workq_service::threadpool_client: aid(32), each job of which
\* another thread may take first.
WorkqDo(t) ==
    LET f == Top(t)   c == ClientOf[f.k]
    IN  /\ \/ /\ At(t, "q.do")
              /\ IF has_client(f.k) THEN Goto(t, "q.pin")
                 ELSE Return(t, FALSE)
              /\ UNCHANGED work
           \/ At(t, "q.pin") /\ Goto(t, "q.aid") /\ UNCHANGED work
           \/ /\ At(t, "q.aid") /\ work[c] > 0
              /\ work' = [work EXCEPT ![c] = @ - 1]
              /\ Go(t, [f EXCEPT !.b = TRUE], <<>>)
           \/ /\ At(t, "q.aid") /\ work[c] = 0
              /\ Return(t, f.b) /\ UNCHANGED work
        /\ UNCHANGED <<ref, life, avail, list, impl, pool, gone, todo>>

WorkqHas(t) ==
    /\ At(t, "q.has")
    /\ Return(t, has_client(Top(t).k) /\ work[ClientOf[Top(t).k]] > 0)
    /\ UNCHANGED <<shared, todo>>

-----------------------------------------------------------------------------
(* wakeup(), by the service of the combiner.                               *)

\* The service multiplexer: the state becomes YES, the combiner is linked
\* if the state was NO, and the multiplexer's own service is woken.
WakeServiceMux(t) ==
    LET f == Top(t)   k == f.k   a == avail[k]
        ToImpl == Go(t, [Holding(f, "client", impl[SMux]) EXCEPT
                           !.at = "wake.out"],
                     IF impl[SMux] = None THEN <<>>
                     ELSE <<Wake(impl[SMux], f.m)>>)
    IN  /\ \/ /\ At(t, "wake") /\ ServiceOf[k] = SMux
              /\ IF has_service(k) THEN Goto(t, "wake.cas")
                 ELSE Return(t, FALSE)
              /\ UNCHANGED <<ref, avail, list>>
           \/ /\ At(t, "wake.cas")
              /\ avail' = IF a = "MAYBE" THEN [avail EXCEPT ![k] = "YES"]
                          ELSE avail
              /\ Goto(t, CASE a = "MAYBE" -> "wake.cas"
                           [] a = "NO" -> "wake.link"
                           [] OTHER -> "wake.impl")
              /\ UNCHANGED <<ref, list>>
           \/ /\ At(t, "wake.link")
              /\ LinkBack("active", k)
              /\ Goto(t, "wake.impl")
              /\ UNCHANGED avail
           \/ /\ At(t, "wake.impl") /\ ToImpl
              /\ UNCHANGED <<ref, avail, list>>
           \/ /\ At(t, "wake.out") /\ f.own # None
              /\ Drop(t, f, "wake.out")
              /\ UNCHANGED <<ref, avail, list>>
           \/ /\ At(t, "wake.out") /\ f.own = None
              /\ Return(t, FALSE)
              /\ UNCHANGED <<ref, avail, list>>
        /\ UNCHANGED <<life, impl, work, pool, gone, todo>>

\* The client multiplexer wakes every service it has, and drops the ones
\* that have a service themselves.
WakeClientMux(t) ==
    LET f == Top(t)
    IN  /\ \/ /\ At(t, "wake") /\ ServiceOf[f.k] = CMux
              /\ IF has_service(f.k)
                 THEN Begin(t, "clients", "client", "cl.loop")
                 ELSE Return(t, FALSE) /\ UNCHANGED list
           \/ /\ At(t, "cl.loop") /\ f.own = None
              /\ End(t, "clients") /\ Return(t, FALSE)
           \/ /\ At(t, "cl.loop") /\ f.own # None
              /\ Go(t, [f EXCEPT !.at = "cl.test"], <<Wake(f.own, f.m)>>)
              /\ UNCHANGED list
           \/ /\ At(t, "cl.test")
              /\ Goto(t, IF has_service(f.own) THEN "cl.erase" ELSE "cl.next")
              /\ UNCHANGED list
           \/ /\ At(t, "cl.erase")
              /\ EraseHere(t, "clients", "cl.next", "cl.skip")
           \/ At(t, "cl.skip") /\ Advance(t, "clients", "cl.next")
           \/ At(t, "cl.next") /\ Advance(t, "clients", "cl.loop")
        /\ UNCHANGED <<ref, life, avail, impl, work, pool, gone, todo>>

\* The pool wakes a worker that is or will be asleep; all of them for "all".
\* The aid service has nobody to wake.
PoolWake(n) ==
    LET idle == {w \in Worker : pool[w] \in {"idle", "asleep"}}
    IN  IF idle = {} THEN UNCHANGED pool
        ELSE \E s \in (IF n = "all" THEN {idle} ELSE {{w} : w \in idle}) :
                pool' = [w \in Worker |-> IF w \in s THEN "busy" ELSE pool[w]]

WakePool(t) ==
    /\ At(t, "wake") /\ ServiceOf[Top(t).k] = Pool
    /\ IF has_service(Top(t).k) THEN PoolWake(Top(t).m) ELSE UNCHANGED pool
    /\ Return(t, FALSE)
    /\ UNCHANGED <<ref, life, avail, list, impl, work, gone, todo>>

WakeAid(t) ==
    /\ At(t, "wake") /\ ServiceOf[Top(t).k] = Aid
    /\ Return(t, FALSE)
    /\ UNCHANGED <<shared, todo>>

wakeup(t) == WakeServiceMux(t) \/ WakeClientMux(t)
             \/ WakePool(t) \/ WakeAid(t)

-----------------------------------------------------------------------------
(* threadpool_attach().                                                    *)

\* The combiner is made with three references: the local one and the first
\* of each side.  The service's pointer goes in first.
AttachStart(t, k) ==
    /\ life[k] = "new"
    /\ life' = [life EXCEPT ![k] = "live"]
    /\ ref' = [ref EXCEPT ![k] = 3]
    /\ Go(t, Top(t), <<Holding(Frame("at.service", k, ""), "service", k),
                       Holding(Frame("at.client", k, ""), "client", k),
                       Frame("at.end", k, "")>>)
    /\ UNCHANGED <<avail, list, impl, work, pool, gone>>

\* attach(service pointer) of the service multiplexer: m_data, m_active and
\* a wakeup.
AttachServiceMux(t) ==
    LET f == Top(t)   k == f.k
    IN  /\ \/ /\ At(t, "at.service") /\ ServiceOf[k] = SMux
              /\ LinkBack("data", k)
              /\ Goto(t, "at.active")
           \/ /\ At(t, "at.active")
              /\ LinkBack("active", k)
              /\ Go(t, [f EXCEPT !.at = "at.drop"], <<Wake(k, "all")>>)
           \/ /\ \/ At(t, "at.drop") /\ Drop(t, f, "at.done")
                 \/ At(t, "at.done") /\ Return(t, TRUE)
              /\ UNCHANGED <<ref, list>>
        /\ UNCHANGED <<life, avail, impl, work, pool, gone, todo>>

\* The other services have one place, where a second pointer throws.
Place(t, o, f, calls) ==
    /\ At(t, "at.service") /\ ServiceOf[Top(t).k] = o
    /\ IF impl[o] # None THEN Drop(t, Top(t), "at.throw") /\ UNCHANGED impl
       ELSE /\ impl' = [impl EXCEPT ![o] = Top(t).k]
            /\ Go(t, [f EXCEPT !.own = None, !.side = ""], calls)

AttachThrow(t) ==
    /\ At(t, "at.throw") /\ Return(t, FALSE)
    /\ UNCHANGED <<shared, todo>>

AttachClientMux(t) ==
    /\ Place(t, CMux, [Top(t) EXCEPT !.at = "at.done"], <<>>)
    /\ UNCHANGED <<ref, life, avail, list, work, pool, gone, todo>>

\* The aid service asks whether there is work, but has nobody to tell.
AttachAid(t) ==
    /\ Place(t, Aid, [Top(t) EXCEPT !.at = "at.done"],
             <<Call("has", Top(t).k)>>)
    /\ UNCHANGED <<ref, life, avail, list, work, pool, gone, todo>>

\* The pool wakes its workers.
AttachPool(t) ==
    /\ \/ /\ Place(t, Pool, [Top(t) EXCEPT !.at = "at.tell"], <<>>)
          /\ UNCHANGED pool
       \/ At(t, "at.tell") /\ PoolWake("all") /\ Return(t, TRUE)
          /\ UNCHANGED impl
    /\ UNCHANGED <<ref, life, avail, list, work, gone, todo>>

\* attach(client pointer): the service multiplexer's client and the work
\* queue service have one place; after an exception the pointer just goes.
ClientThrow(t) ==
    LET o == ClientOf[Top(t).k]
    IN  /\ \/ /\ At(t, "at.client")
              /\ ~ret[t] \/ (o # CMux /\ impl[o] # None)
              /\ Drop(t, Top(t), "at.left")
           \/ At(t, "at.left") /\ Return(t, FALSE)
        /\ UNCHANGED <<shared, todo>>

ClientPlace(t, l) ==
    LET o == ClientOf[Top(t).k]
    IN  /\ At(t, "at.client") /\ ret[t] /\ impl[o] = None
        /\ impl' = [impl EXCEPT ![o] = Top(t).k]
        /\ Goto(t, l)

AttachWorkq(t) ==
    /\ \/ ClientOf[Top(t).k] \in Wq /\ ClientPlace(t, "at.let")
       \/ At(t, "at.let") /\ Drop(t, Top(t), "at.left") /\ UNCHANGED impl
    /\ UNCHANGED <<ref, life, avail, list, work, pool, gone, todo>>

AttachMuxClient(t) ==
    LET k == Top(t).k
        some == \E j \in Comb : InList("active", j)
    IN  /\ \/ ClientOf[k] = SMux /\ ClientPlace(t, "at.wake")
           \/ /\ At(t, "at.wake")
              /\ Go(t, [Top(t) EXCEPT !.at = "at.let"],
                    IF some THEN <<Wake(k, "all")>> ELSE <<>>)
              /\ UNCHANGED impl
        /\ UNCHANGED <<ref, life, avail, list, work, pool, gone, todo>>

AttachClientList(t) ==
    /\ At(t, "at.client") /\ ret[t] /\ ClientOf[Top(t).k] = CMux
    /\ list' = [list EXCEPT !["clients"] = Append(@, Top(t).k)]
    /\ Return(t, TRUE)
    /\ UNCHANGED <<ref, life, avail, impl, work, pool, gone, todo>>

AttachEnd(t) ==
    /\ At(t, "at.end")
    /\ refcnt_release(Top(t).k)
    /\ Return(t, FALSE)
    /\ UNCHANGED <<avail, list, impl, work, pool, gone, todo>>

Attach(t) ==
    \/ AttachServiceMux(t) \/ AttachClientMux(t) \/ AttachAid(t)
    \/ AttachPool(t) \/ AttachThrow(t) \/ ClientThrow(t)
    \/ AttachEnd(t)
    \/ (stack[t] # <<>> /\ Top(t).k \in Comb
        /\ (AttachWorkq(t) \/ AttachMuxClient(t) \/ AttachClientList(t)))

-----------------------------------------------------------------------------
(* The calls of users, and the workers of the pool.                        *)

\* The pointer of o becomes null; the old one goes.
Store0(t, o, f) ==
    /\ impl' = [impl EXCEPT ![o] = None]
    /\ Go(t, f, IF o \in ServiceHolder THEN ServiceRelease(impl[o])
                ELSE ClientRelease(impl[o]))

\* A job becomes runnable, and workq_service::wakeup() tells the service.
Add(t, c) ==
    /\ work[c] < MaxWork
    /\ work' = [work EXCEPT ![c] = @ + 1]
    /\ Go(t, Top(t), <<Frame("tell", c, "")>>)
    /\ UNCHANGED <<ref, life, avail, list, impl, pool, gone>>

Tell(t) ==
    LET f == Top(t)   c == f.k
    IN  /\ \/ /\ At(t, "tell")
              /\ IF impl[c] = None THEN Return(t, FALSE)
                 ELSE Go(t, [Holding(f, "client", impl[c]) EXCEPT
                             !.at = "tell.test"], <<>>)
              /\ UNCHANGED impl
           \/ /\ At(t, "tell.test") /\ has_service(f.own)
              /\ Go(t, [f EXCEPT !.at = "tell.drop"],
                    <<Wake(f.own, "one")>>)
              /\ UNCHANGED impl
           \/ /\ At(t, "tell.test") /\ ~has_service(f.own)
              /\ Store0(t, c, [f EXCEPT !.at = "tell.drop"])
           \/ /\ At(t, "tell.drop") /\ Drop(t, f, "tell.out")
              /\ UNCHANGED impl
           \/ /\ At(t, "tell.out") /\ Return(t, FALSE)
              /\ UNCHANGED impl
        /\ UNCHANGED <<ref, life, avail, list, work, pool, gone, todo>>

\* clear() of a multiplexer, or of its other list: pop until it is empty.
\* Without a list to go on with the object o is gone.
Clear(t) ==
    LET f == Top(t)   l == f.m
        elems == {i \in DOMAIN list[l] : list[l][i] \in Comb}
        k == list[l][Min(elems)]
    IN  /\ At(t, "clear")
        /\ IF elems = {} THEN Return(t, FALSE) /\ UNCHANGED list
           ELSE /\ list' = [list EXCEPT ![l] = Without(@, k)]
                /\ Go(t, f, IF l = "clients" THEN ClientRelease(k)
                            ELSE ServiceRelease(k))
        /\ UNCHANGED <<ref, life, avail, impl, work, pool, gone, todo>>

Gone(t) ==
    /\ At(t, "gone")
    /\ gone' = gone \cup {Top(t).k}
    /\ Return(t, FALSE)
    /\ UNCHANGED <<ref, life, avail, list, impl, work, pool, todo>>

\* The owner of an object drops it: its members go in the reverse order.
\* A workq_service and a pool have just their pointer.
DestroyServiceMux ==
    <<Frame("clear", SMux, "data"), Frame("null", SMux, ""),
      Frame("clear", SMux, "active"), Frame("clear", SMux, "data"),
      Frame("gone", SMux, "")>>
DestroyClientMux ==
    <<Frame("null", CMux, ""), Frame("clear", CMux, "clients"),
      Frame("gone", CMux, "")>>
wq_deleter(c) == <<Frame("null", c, ""), Frame("gone", c, "")>>
impl_deleter == <<Frame("null", Pool, ""), Frame("gone", Pool, "")>>

Destroy(t, o) ==
    /\ Go(t, Top(t), CASE o = SMux -> DestroyServiceMux
                       [] o = CMux -> DestroyClientMux
                       [] o = Pool -> impl_deleter
                       [] OTHER -> wq_deleter(o))
    /\ UNCHANGED shared

Null(t) ==
    LET f == Top(t)
    IN  /\ \/ /\ At(t, "null") /\ Store0(t, f.k, [f EXCEPT !.at = "null.end"])
           \/ At(t, "null.end") /\ Return(t, FALSE) /\ UNCHANGED impl
        /\ UNCHANGED <<ref, life, avail, list, work, pool, gone, todo>>

\* do_work() of the aid service uses its pointer as it stands.
AidCall(t) ==
    /\ Go(t, Top(t), IF impl[Aid] = None THEN <<>>
                     ELSE <<Call("do", impl[Aid])>>)
    /\ UNCHANGED shared

\* The next call of a user.
UserCall(t) ==
    LET c == todo[t][1]
    IN  /\ At(t, "user") /\ todo[t] # <<>>
        /\ todo' = [todo EXCEPT ![t] = Tail(@)]
        /\ \/ c.op = "attach" /\ AttachStart(t, c.x)
           \/ c.op = "add" /\ Add(t, c.x)
           \/ c.op = "destroy" /\ Destroy(t, c.x)
           \/ /\ c.op = "clear"
              /\ Go(t, Top(t), <<Frame("clear", c.x,
                      IF c.x = SMux THEN "data" ELSE "clients")>>)
              /\ UNCHANGED shared
           \/ c.op = "aid" /\ AidCall(t)

\* A worker: do_work(), and when there was none, shown as idle, has_work().
WorkerStep(t) ==
    LET f == Top(t)
        Ask(m, yes, no) ==
            IF impl[Pool] = None THEN Goto(t, no)
            ELSE Go(t, [Holding(f, "service", impl[Pool]) EXCEPT !.at = yes],
                    <<Call(m, impl[Pool])>>)
    IN  /\ \/ At(t, "run") /\ Ask("do", "ran", "show") /\ UNCHANGED pool
           \/ /\ At(t, "ran")
              /\ Drop(t, f, IF ret[t] THEN "run" ELSE "show")
              /\ UNCHANGED pool
           \/ /\ At(t, "show")
              /\ pool' = [pool EXCEPT ![t] = "idle"]
              /\ Goto(t, "test")
           \/ At(t, "test") /\ Ask("has", "tested", "sleep") /\ UNCHANGED pool
           \/ /\ At(t, "tested")
              /\ Drop(t, f, IF ret[t] THEN "run" ELSE "sleep")
              /\ pool' = IF ret[t] THEN [pool EXCEPT ![t] = "busy"] ELSE pool
           \/ /\ At(t, "sleep")
              /\ IF pool[t] = "busy" THEN Goto(t, "run") /\ UNCHANGED pool
                 ELSE /\ pool' = [pool EXCEPT ![t] = "asleep"]
                      /\ Goto(t, "asleep")
           \/ /\ At(t, "asleep") /\ pool[t] = "busy"
              /\ Goto(t, "run") /\ UNCHANGED pool
        /\ UNCHANGED <<ref, life, avail, list, impl, work, gone, todo>>

-----------------------------------------------------------------------------
\* Some combiners are attached, and nothing else has happened yet.
InitCombiners(p) ==
    /\ life = [k \in Comb |-> IF k \in p.attached THEN "live" ELSE "new"]
    /\ ref = [k \in Comb |-> IF k \in p.attached THEN 2 ELSE 0]

InitServiceMux(p) ==
    /\ avail = [k \in Comb |-> "YES"]
    /\ list = [l \in {"active", "data", "clients"} |->
                 SetToSeq({k \in p.attached :
                     IF l = "clients" THEN ClientOf[k] = CMux
                     ELSE ServiceOf[k] = SMux})]

InitPointers(p) ==
    impl = [o \in Object |->
              LET ks == {k \in p.attached :
                           IF o \in ClientHolder THEN ClientOf[k] = o
                           ELSE ServiceOf[k] = o}
              IN  IF ks = {} THEN None ELSE CHOOSE k \in ks : TRUE]

Init ==
    /\ \E p \in Programs :
          /\ InitCombiners(p) /\ InitServiceMux(p) /\ InitPointers(p)
          /\ stack = [t \in Thread |->
                        IF t \in User THEN <<Frame("user", None, "")>>
                        ELSE IF t \in p.workers THEN <<Frame("run", None, "")>>
                        ELSE <<>>]
          /\ todo = [u \in User |-> p.calls[u]]
    /\ work = [c \in Wq |-> 0]
    /\ pool = [w \in Worker |-> IF stack[w] = <<>> THEN "none" ELSE "busy"]
    /\ gone = {}
    /\ ret = [t \in Thread |-> FALSE]

Run(t) == \/ LastRelease(t) \/ on_client_detach(t)
          \/ Mux(t) \/ ClientMux(t) \/ WorkqDo(t) \/ WorkqHas(t)
          \/ wakeup(t)
          \/ Attach(t) \/ Tell(t) \/ Clear(t) \/ Gone(t) \/ Null(t)
          \/ (t \in Worker /\ WorkerStep(t))

Next == \/ \E t \in Thread : Run(t)
        \/ \E u \in User : UserCall(u)

Spec == Init /\ [][Next]_vars

\* Threads keep running; nobody has to make another call.
Fairness == \A t \in Thread : WF_vars(Run(t))
FairSpec == Spec /\ Fairness

-----------------------------------------------------------------------------
(* Properties. *)

FrameOK(f) ==
    /\ f.at \in STRING /\ f.m \in STRING /\ f.b \in BOOLEAN
    /\ f.k \in Comb \cup Object \cup {None}
    /\ f.own \in Comb \cup {None}
    /\ f.side \in {"", "service", "client"}

\* A list has each combiner once, and one marker for each thread that
\* iterates.
ListOK(l) ==
    /\ IsInjective(list[l])
    /\ \A i \in DOMAIN list[l] : list[l][i] \in Comb \cup Thread
    /\ \A t \in Thread : InList(l, t) <=>
         \E i \in DOMAIN stack[t] :
            \/ l = "active" /\ stack[t][i].at \in ClientLocked
               /\ ClientOf[stack[t][i].k] = SMux
            \/ l = "clients"
               /\ stack[t][i].at \in {"cl.loop", "cl.test", "cl.erase",
                                      "cl.next", "cl.skip"}

\* Every variable has its type, and the lists are the lock-free lists' (each
\* element once, a position for each iteration that is under way).
TypeOK ==
    /\ ref \in [Comb -> Nat]
    /\ life \in [Comb -> {"new", "live", "deleted"}]
    /\ avail \in [Comb -> {"NO", "MAYBE", "YES", "DETACHED"}]
    /\ DOMAIN list = {"active", "data", "clients"}
    /\ \A l \in DOMAIN list : ListOK(l)
    /\ impl \in [Object -> Comb \cup {None}]
    /\ work \in [Wq -> 0..MaxWork]
    /\ pool \in [Worker -> {"none", "busy", "idle", "asleep"}]
    /\ gone \subseteq Object
    /\ ret \in [Thread -> BOOLEAN]
    /\ \A t \in Thread : \A i \in DOMAIN stack[t] : FrameOK(stack[t][i])

\* A combiner lives as long as a pointer to it exists: m_refcnt is one for
\* each side that has pointers, one for each release that is under way and
\* one for the attach, and the combiner is deleted when there is none.
RefsMatch ==
    \A k \in Comb :
        /\ life[k] = "new" => ref[k] = 0
        /\ life[k] # "new" =>
             ref[k] = (IF ServicePtrs(k) > 0 THEN 1 ELSE 0)
                      + (IF ClientPtrs(k) > 0 THEN 1 ELSE 0)
                      + Cardinality({f \in AllFrames :
                           /\ FrameAt(f).k = k
                           /\ FrameAt(f).at \in {"rel.wait", "detach",
                                "detach.store", "detach.link", "at.end"}})
        /\ life[k] = "deleted" <=> (life[k] # "new" /\ ref[k] = 0)

\* No thread is in a function of a combiner that has been deleted.
CombinersLive ==
    \A f \in AllFrames : FrameAt(f).k \in Comb =>
                            life[FrameAt(f).k] # "deleted"

\* Combiners are counted, deleted and used consistently by all threads.
CombinersSound == TypeOK /\ RefsMatch /\ CombinersLive

\* A wakeup is not lost: when a queue has jobs and the service multiplexer
\* knows it (its state says so), the queue is run.  That is so with one
\* worker in the pool, once the pool is attached.  With two, invoke_test() of
\* one may store YES after the other has taken the element off the list.
Marked(k) == avail[k] \in {"YES", "MAYBE"} /\ InList("data", k)
Served == /\ impl[SMux] # None /\ impl[Pool] = impl[SMux]
          /\ Cardinality({w \in Worker : stack[w] # <<>>}) = 1
MarkedIsRun ==
    \A k \in {k \in Comb : ClientOf[k] \in Wq /\ ServiceOf[k] = SMux} :
        []<>(work[ClientOf[k]] = 0 \/ ~Marked(k) \/ ~Served)

\* A call of a user ends, a destruction that waits for the clients' locks
\* too, unless a waker and a worker turn the state of a combiner to and fro
\* between YES and MAYBE for ever.
Retries(t) == At(t, "wake.cas") /\ avail[Top(t).k] = "MAYBE"
CallsEnd ==
    []<>(\/ \E u \in User : Retries(u)
         \/ \A u \in User : Len(stack[u]) = 1)
=============================================================================
