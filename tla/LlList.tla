------------------------------- MODULE LlList -------------------------------
(***************************************************************************)
(* The lock-free doubly linked list (src/src/ll_list.cc and ll_list-inl.h).*)
(* Every element has two atomic pointers with flags: succ_, with S (its    *)
(* target is being unlinked) and D (it is itself being unlinked), and      *)
(* pred_, with M (it is being unlinked).  Iterators are pairs of elements  *)
(* of their own, linked around the element they stand on.  Functions call  *)
(* each other, unlink_aid_() itself, so each thread has a stack of frames  *)
(* and an action is one step of the top one: one atomic access of the code *)
(* and the local computation up to the next.  A frame has the label of its *)
(* next step, the references of the call (arg), its local elem_ptrs (p and  *)
(* q), which count as links of the element they point to, and a local      *)
(* plain pointer (r), which does not.                                      *)
(*                                                                         *)
(* A weak compare_exchange that fails spuriously changes nothing and tries *)
(* again: it is a stuttering step.  The atomic pointer with its count is   *)
(* llptr, a component of its own; memory is sequentially consistent.       *)
(***************************************************************************)
EXTENDS Integers, Sequences, SequencesExt, FiniteSets

CONSTANTS
    Element, Thread,
    Position, \* the positions of each thread, of its iterators and its calls
    Programs, \* the calls that the threads may be about to make
    Lists,    \* the elements that the list starts with
    MaxCalls, \* the calls that a thread makes at most
    None

ASSUME ListAssumption ==
    /\ None \notin Element \cup Thread
    /\ Position \subseteq Thread \X {"i", "j", "end", "dummy"}
    /\ MaxCalls \in Nat
    /\ \A p \in Programs : p \in [Thread -> Seq([op : STRING, x : {None}
                                       \cup Element \cup STRING])]
    /\ \A p \in Programs : \A t \in Thread : Len(p[t]) <= MaxCalls
    /\ \A l \in Lists : l \in Seq(Element) /\ IsInjective(l)

VARIABLES
    succ, pred,   \* succ_ and pred_ of each element: a pointer and its flags
    linking,      \* linking_
    swap,         \* swap_ of each position
    ptr,          \* ptr_ of each iterator
    todo,         \* the calls that each thread has still to make
    stack, ret,   \* the frames of each thread, and what the last call returned
    items,        \* history: the elements that are linked, in order
    call, did, saw, answer, \* history: the call, its effect and its answer
    stay, seen    \* history: what stayed in the list, what a visit passed

shared == <<succ, pred, linking>>
vars == <<succ, pred, linking, swap, ptr, todo, stack, ret,
          items, call, did, saw, answer, stay, seen>>

-----------------------------------------------------------------------------
(* Elements, positions, frames. *)

Nil == <<"nullptr">>
Data == <<"head">>
Elem(e) == <<"element", e>>
Iter(p, k) == <<"iterator", p, k>>
Node == {Data} \cup {Elem(e) : e \in Element}
               \cup {Iter(p, k) : p \in Position, k \in 0..1}

get_elem_type(y) == y[1]
front_(p) == Iter(p, swap[p])
back_(p) == Iter(p, 1 - swap[p])

Ptr(y, fl) == [to |-> y, fl |-> fl]
Null == Ptr(Nil, {})

Frame(at, arg) ==
    [at |-> at, arg |-> arg, p |-> Nil, q |-> Nil, r |-> Nil, f |-> {},
     c |-> ""]
\* A result: a code, two elem_ptrs and flags.
Result(c, p, q, f) == [c |-> c, p |-> p, q |-> q, f |-> f]
Void == Result("", Nil, Nil, {})

Top(t) == stack[t][1]
Arg(t) == Top(t).arg
At(t, l) == stack[t] # <<>> /\ Top(t).at = l

\* The next step of this frame, a call of a function, and a return.
Go(t, f) == /\ stack' = [stack EXCEPT ![t] = <<f>> \o Tail(@)]
            /\ ret' = [ret EXCEPT ![t] = Void]
Invoke(t, f, callee) ==
    /\ stack' = [stack EXCEPT ![t] = <<callee, f>> \o Tail(@)]
    /\ ret' = [ret EXCEPT ![t] = Void]
Return(t, r) == /\ stack' = [stack EXCEPT ![t] = Tail(@)]
                /\ ret' = [ret EXCEPT ![t] = r]
Goto(t, l) == Go(t, [Top(t) EXCEPT !.at = l])

\* link_count_: the pointers in the list and on the stacks.
Count(y) ==
    LET Ptrs(f) == (IF f.p = y THEN 1 ELSE 0) + (IF f.q = y THEN 1 ELSE 0)
        OfThread(t) == FoldSeq(LAMBDA f, n : n + Ptrs(f), Ptrs(ret[t]),
                               stack[t])
    IN  Cardinality({n \in Node : succ[n].to = y})
        + Cardinality({n \in Node : pred[n].to = y})
        + FoldSet(LAMBDA t, n : n + OfThread(t), 0, Thread)

is_unlinked_(y) == pred[y].to = Nil \/ pred[y].fl = {"M"}

-----------------------------------------------------------------------------
(* Walking: a marked pointer on the way is helped along first. *)

CallSucc(x) == Frame("succ", [x |-> x])
CallPred(x) == Frame("pred", [x |-> x])
CallAid(a, x) == Frame("aid", [a |-> a, x |-> x])

\* succ_() has s as the value of x.succ_.
SuccLoop(t, s) ==
    IF s.to # Nil /\ "S" \in s.fl
    THEN Invoke(t, [Top(t) EXCEPT !.at = "succ.aided", !.q = s.to],
                CallAid(Arg(t).x, s.to))
    ELSE Return(t, Result("", Nil, s.to, {}))

Succ(t) ==
    /\ \/ At(t, "succ") /\ SuccLoop(t, succ[Arg(t).x])
       \/ /\ At(t, "succ.aided")
          /\ SuccLoop(t, IF ret[t].q = Nil THEN succ[Arg(t).x]
                         ELSE Ptr(ret[t].q, ret[t].f))
    /\ UNCHANGED shared

\* pred_() has the pointer p as its value of x.pred_.
PredLoop(t, p) ==
    IF p.to = Nil THEN Return(t, Void)
    ELSE Go(t, [Top(t) EXCEPT !.p = p.to, !.f = p.fl, !.q = Nil,
                  !.at = IF p.fl = {} THEN "pred.succ" ELSE "pred.direct"])

PredSucc(t, y) ==
    IF y = Nil THEN Goto(t, "pred.back")
    ELSE IF y # Arg(t).x
    THEN Go(t, [Top(t) EXCEPT !.at = "pred.cas", !.q = y])
    ELSE Goto(t, "pred.direct")

\* Replace x.pred_ by q and keep the flags: on success the local p is as it
\* was after a step back, and q after a step forward.
PredCas(t) ==
    LET x == Arg(t).x   p == Ptr(Top(t).p, Top(t).f)
    IN  /\ At(t, "pred.cas") \/ At(t, "pred.cas.back")
        /\ IF pred[x] = p
           THEN /\ pred' = [pred EXCEPT ![x].to = Top(t).q]
                /\ PredLoop(t, IF At(t, "pred.cas") THEN pred'[x] ELSE p)
           ELSE PredLoop(t, pred[x]) /\ UNCHANGED pred
        /\ UNCHANGED <<succ, linking>>

Pred(t) ==
    LET x == Arg(t).x   p == Top(t).p   ps == succ[p]   pp == pred[p]
        StepBack == Go(t, [Top(t) EXCEPT !.at = "pred.cas.back", !.q = pp.to])
    IN  \/ /\ \/ At(t, "pred") /\ PredLoop(t, pred[x])
              \/ /\ At(t, "pred.succ")
                 /\ IF ps.to \notin {Nil, x} /\ "S" \in ps.fl
                    THEN Invoke(t, [Top(t) EXCEPT !.at = "pred.aided",
                                                  !.q = ps.to],
                                CallAid(p, ps.to))
                    ELSE PredSucc(t, ps.to)
              \/ At(t, "pred.aided") /\ PredSucc(t, ret[t].q)
              \/ /\ At(t, "pred.back") /\ pp.to # Nil
                 /\ StepBack
              \/ /\ At(t, "pred.direct") /\ pp.to # Nil
                 /\ IF pp.fl = {"M"} THEN StepBack
                    ELSE Return(t, Result("", Nil, p, {}))
           /\ UNCHANGED shared
        \/ PredCas(t)

\* The part of unlink_aid_() that marks x.pred_; D on x.succ_ follows, so
\* that nothing is linked after x any more.
MarkPred(t) ==
    LET a == Arg(t).a   x == Arg(t).x
    IN  /\ At(t, "aid")
        /\ IF pred[x].to = Nil THEN Return(t, Void) /\ UNCHANGED pred
           ELSE LET p == IF pred[x].fl = {"M"} THEN pred[x].to ELSE a
                IN  /\ pred' = [pred EXCEPT ![x] = Ptr(p, {"M"})]
                    /\ Go(t, [Top(t) EXCEPT !.at = "aid.dmark", !.p = p])
        /\ UNCHANGED <<succ, linking>>

\* Its loop over the successors that are unlinked too, with s as x_succ.
AidCascade(t, s) ==
    IF s.to = Nil THEN Return(t, Result("", Top(t).p, Nil, {}))
    ELSE LET f == [Top(t) EXCEPT !.q = s.to, !.f = s.fl]
         IN  IF "S" \in s.fl
             THEN Invoke(t, [f EXCEPT !.at = "aid.cascade"],
                         CallAid(Arg(t).x, s.to))
             ELSE Go(t, [f EXCEPT !.at = "aid.bpred"])

UnlinkAid(t) ==
    LET x == Arg(t).x   p == Top(t).p   b == Top(t).q   s == succ[x]
    IN  \/ MarkPred(t)
        \/ /\ At(t, "aid.dmark")
           /\ IF s.to = Nil \/ "D" \in s.fl
              THEN AidCascade(t, s) /\ UNCHANGED succ
              ELSE /\ succ' = [succ EXCEPT ![x].fl = @ \cup {"D"}]
                   /\ Goto(t, "aid.dmark")
           /\ UNCHANGED <<pred, linking>>
        \/ /\ At(t, "aid.cascade")
           /\ AidCascade(t, IF ret[t].q = Nil THEN s
                            ELSE Ptr(ret[t].q, ret[t].f))
           /\ UNCHANGED shared
        \/ /\ At(t, "aid.bpred")
           /\ IF pred[b] = Ptr(x, {})
              THEN /\ pred' = [pred EXCEPT ![b] = Ptr(p, {})]
                   /\ Goto(t, "aid.asucc")
              ELSE /\ UNCHANGED pred
                   /\ Goto(t, IF pred[b] = Ptr(x, {"M"}) THEN "aid.bpredm"
                              ELSE "aid.asucc")
           /\ UNCHANGED <<succ, linking>>
        \/ /\ At(t, "aid.bpredm")
           /\ pred' = [pred EXCEPT ![b] = IF @ = Ptr(x, {"M"})
                                          THEN Ptr(p, {"M"}) ELSE @]
           /\ Goto(t, "aid.asucc")
           /\ UNCHANGED <<succ, linking>>
        \/ /\ At(t, "aid.asucc")
           /\ LET skip == succ[p].to = x /\ "S" \in succ[p].fl
                  s2 == IF skip THEN Ptr(b, succ[p].fl \ {"S"}) ELSE succ[p]
              IN  /\ succ' = [succ EXCEPT ![p] = s2]
                  /\ Go(t, [Top(t) EXCEPT !.at = "aid.end", !.q = s2.to,
                                          !.f = s2.fl])
           /\ UNCHANGED <<pred, linking>>
        \/ /\ At(t, "aid.end")
           /\ succ' = [succ EXCEPT ![x] = Null]
           /\ Return(t, Result("", p, b, Top(t).f))
           /\ UNCHANGED <<pred, linking>>

-----------------------------------------------------------------------------
(* link_(a, x, b) and unlink_(a, x, expect). *)

CallLink(a, x, b) == Frame("link", [a |-> a, x |-> x, b |-> b])
CallUnlink(a, x, n) == [Frame("unlink", [x |-> x, n |-> n]) EXCEPT !.p = a]

\* elem_linking_lock and the tests of x: it was linked already.
LinkStart(t) ==
    LET a == Arg(t).a   x == Arg(t).x   b == Arg(t).b
    IN  \/ /\ At(t, "link")
           /\ IF linking[x]
              THEN Return(t, Result("XLINK_TWICE", Nil, Nil, {}))
              ELSE Goto(t, "link.pred")
           /\ linking' = [linking EXCEPT ![x] = TRUE]
           /\ UNCHANGED <<succ, pred>>
        \/ /\ At(t, "link.pred")
           /\ IF pred[x] = Null
              THEN /\ pred' = [pred EXCEPT ![x] = Ptr(a, {})]
                   /\ Goto(t, "link.succ")
              ELSE /\ UNCHANGED pred
                   /\ Go(t, [Top(t) EXCEPT !.at = "link.unlock",
                                           !.c = "XLINK_TWICE"])
           /\ UNCHANGED <<succ, linking>>
        \/ /\ At(t, "link.succ") /\ succ[x] = Null
           /\ succ' = [succ EXCEPT ![x] = Ptr(b, {})]
           /\ Goto(t, "link.commit")
           /\ UNCHANGED <<pred, linking>>

\* a.succ_ skips x no more: x is linked, or the attempt is undone.
LinkCommit(t) ==
    LET a == Arg(t).a   x == Arg(t).x   b == Arg(t).b   s == succ[a]
        Undo(e) == Go(t, [Top(t) EXCEPT !.at = "link.undo", !.c = e])
    IN  \/ /\ At(t, "link.commit")
           /\ IF s = Ptr(b, {})
              THEN /\ succ' = [succ EXCEPT ![a] = Ptr(x, {})]
                   /\ Goto(t, "link.bpred")
              ELSE /\ UNCHANGED succ
                   /\ IF s.to = Nil THEN Goto(t, "link.lost_a")
                      ELSE IF s = Ptr(b, {"S"}) THEN Goto(t, "link.lost_b")
                      ELSE Undo("XLINK_RETRY")
           /\ UNCHANGED <<pred, linking>>
        \/ /\ At(t, "link.lost_a")
           /\ Undo(IF pred[b].fl = {"M"} THEN "XLINK_LOST_AB"
                   ELSE "XLINK_LOST_A")
           /\ UNCHANGED shared
        \/ /\ At(t, "link.lost_b")
           /\ Undo(IF pred[a].fl = {"M"} THEN "XLINK_LOST_AB"
                   ELSE "XLINK_LOST_B")
           /\ UNCHANGED shared

LinkUndo(t) ==
    LET x == Arg(t).x
    IN  \/ /\ At(t, "link.undo")
           /\ succ' = [succ EXCEPT ![x] = Null]
           /\ Goto(t, "link.undo.pred") /\ UNCHANGED <<pred, linking>>
        \/ /\ At(t, "link.undo.pred")
           /\ pred' = [pred EXCEPT ![x] = Null]
           /\ Goto(t, "link.unlock") /\ UNCHANGED <<succ, linking>>

LinkUnlock(t) ==
    /\ At(t, "link.unlock")
    /\ linking' = [linking EXCEPT ![Arg(t).x] = FALSE]
    /\ Return(t, Result(Top(t).c, Nil, Nil, {}))
    /\ UNCHANGED <<succ, pred>>

\* b.pred_ is moved from a to x, if it is still at a.
LinkPred(t) ==
    LET a == Arg(t).a   x == Arg(t).x   b == Arg(t).b
        done == [Top(t) EXCEPT !.at = "link.unlock", !.c = "XLINK_OK"]
        Fix == Invoke(t, done, CallPred(b))
    IN  /\ \/ /\ At(t, "link.bpred")
              /\ IF pred[b] = Ptr(a, {})
                 THEN pred' = [pred EXCEPT ![b] = Ptr(x, {})] /\ Go(t, done)
                 ELSE /\ IF pred[b] = Ptr(a, {"M"})
                         THEN Goto(t, "link.bpredm")
                         ELSE Fix
                      /\ UNCHANGED pred
           \/ /\ At(t, "link.bpredm")
              /\ IF pred[b] = Ptr(a, {"M"})
                 THEN pred' = [pred EXCEPT ![b] = Ptr(x, {"M"})] /\ Go(t, done)
                 ELSE Fix /\ UNCHANGED pred
        /\ UNCHANGED <<succ, linking>>

Link(t) == LinkStart(t) \/ LinkCommit(t) \/ LinkUndo(t) \/ LinkUnlock(t)
           \/ LinkPred(t)

\* S on a.succ_ is what unlinks x: one caller succeeds.  The others hold a
\* reference to x (as_assign), and a plain pointer to what follows a instead.
UnlinkMark(t) ==
    LET a == Top(t).p   x == Arg(t).x   s == succ[a]
        Answer(c) == Return(t, Result(c, Nil, Nil, {}))
    IN  \/ /\ At(t, "unlink") /\ a # Nil
           /\ IF s = Ptr(x, {})
              THEN /\ succ' = [succ EXCEPT ![a].fl = {"S"}]
                   /\ Invoke(t, [Top(t) EXCEPT !.at = "unlink.aided"],
                             CallAid(a, x))
              ELSE /\ IF s.to = x /\ "S" \in s.fl THEN Answer("UNLINK_FAIL")
                      ELSE Go(t, [Top(t) EXCEPT !.at = "unlink.lost", !.q = x,
                                                !.r = s.to, !.f = s.fl])
                   /\ UNCHANGED succ
           /\ UNCHANGED <<pred, linking>>
        \/ /\ At(t, "unlink.lost")
           /\ IF pred[x].fl = {"M"} THEN Answer("UNLINK_FAIL")
              ELSE IF Top(t).r # Nil /\ "D" \in Top(t).f
              THEN Invoke(t, [Top(t) EXCEPT !.at = "unlink.retry"],
                          CallPred(Top(t).r))
              ELSE Answer("UNLINK_RETRY")
           /\ UNCHANGED shared
        \/ /\ At(t, "unlink.retry") /\ Answer("UNLINK_RETRY")
           /\ UNCHANGED shared

\* The unlinker visits the successors b until no pointer leads to x, or it
\* is back at the head, and then waits for the others to drop theirs.
UnlinkSweep(t) ==
    LET a == Top(t).p   b == Top(t).q   x == Arg(t).x
        busy == Count(x) > Arg(t).n
        ToB(y) == Go(t, [Top(t) EXCEPT !.q = y, !.at =
                           IF y = Nil THEN "unlink.anext" ELSE "unlink.b"])
        Leave(l) == Go(t, [Top(t) EXCEPT !.at = l, !.p = Nil, !.q = Nil])
    IN  /\ \/ /\ At(t, "unlink.aided") /\ ret[t].p # Nil
              /\ Go(t, [Top(t) EXCEPT !.at = "unlink.count",
                          !.p = ret[t].p, !.q = ret[t].q])
           \/ At(t, "unlink.count") /\ IF busy THEN ToB(b)
                                       ELSE Leave("unlink.end")
           \/ At(t, "unlink.anext") /\ ToB(succ[a].to) /\ succ[a].to # Nil
           \/ /\ At(t, "unlink.anext") /\ succ[a].to = Nil
              /\ Goto(t, "unlink.aback")
           \/ /\ At(t, "unlink.aback") /\ pred[a].to # Nil
              /\ Go(t, [Top(t) EXCEPT !.at = "unlink.anext", !.p = pred[a].to])
           \/ /\ At(t, "unlink.b")
              /\ IF pred[b].to = x
                 THEN Invoke(t, [Top(t) EXCEPT !.at = "unlink.bpred"],
                             CallPred(b))
                 ELSE Goto(t, "unlink.recount")
           \/ /\ At(t, "unlink.bpred")
              /\ IF ret[t].q = x
                 THEN Invoke(t, Top(t), CallPred(b))
                 ELSE Goto(t, IF ret[t].q = Nil THEN "unlink.b"
                              ELSE "unlink.recount")
           \/ /\ At(t, "unlink.recount")
              /\ IF ~busy THEN Leave("unlink.end")
                 ELSE IF get_elem_type(b) = "head" THEN Leave("wait")
                 ELSE Goto(t, "unlink.bnext")
           \/ At(t, "unlink.bnext") /\ ToB(succ[b].to)
        /\ UNCHANGED shared

\* Mutants: it does not look at the count, or one too low.
wait_link0_once(t) ==
    /\ At(t, "wait") /\ Goto(t, "unlink.end") /\ UNCHANGED shared
wait_link0_below(t) ==
    /\ At(t, "wait") /\ Count(Arg(t).x) < Arg(t).n
    /\ Goto(t, "unlink.end") /\ UNCHANGED shared

wait_link0(t) ==
    /\ At(t, "wait")
    /\ is_unlinked_(Arg(t).x) /\ Count(Arg(t).x) <= Arg(t).n
    /\ Goto(t, "unlink.end") /\ UNCHANGED shared

UnlinkEnd(t) ==
    /\ At(t, "unlink.end")
    /\ pred' = [pred EXCEPT ![Arg(t).x] = Null]
    /\ Return(t, Result("UNLINK_OK", Nil, Nil, {}))
    /\ UNCHANGED <<succ, linking>>

Unlink(t) == UnlinkMark(t) \/ UnlinkSweep(t) \/ wait_link0(t) \/ UnlinkEnd(t)

-----------------------------------------------------------------------------
(* The loops around them. *)

CallSuccElem(x) == Frame("succ_elem", [x |-> x])
CallPredElem(x) == Frame("pred_elem", [x |-> x])
CallLinkAfter(a, x) == Frame("link_after", [a |-> a, x |-> x])
CallLinkBefore(b, x) == Frame("link_before", [b |-> b, x |-> x])

\* succ_elem_() and pred_elem_(), with step for succ_() or pred_(): iterators
\* are passed over, and a lost one means to start again.
Skip(t, f, step(_)) ==
    LET x == Arg(t).x   s == ret[t].q
        From(y) == Invoke(t, [Top(t) EXCEPT !.at = f \o ".next",
                                !.p = IF y = x THEN Nil ELSE y], step(y))
    IN  /\ \/ At(t, f) /\ From(x)
           \/ /\ At(t, f \o ".next")
              /\ IF s = Nil
                 THEN IF Top(t).p = Nil THEN Return(t, Void) ELSE From(x)
                 ELSE IF get_elem_type(s) = "iterator" THEN From(s)
                 ELSE Return(t, Result("", Nil, s, {}))
        /\ UNCHANGED shared

SuccElem(t) == Skip(t, "succ_elem", CallSucc)
PredElem(t) == Skip(t, "pred_elem", CallPred)

\* Call callee and go on at l; answer with a code and an element.
Then(t, l, callee) == Invoke(t, [Top(t) EXCEPT !.at = l], callee)
Answer(t, c, y) == Return(t, Result(c, Nil, y, {}))
\* The answer of a call that was to link x.  Mutant: it is true anyway.
LinkedAlways(t, ok, x) == Return(t, Result("TRUE", Nil, Nil, {x[2]}))
Linked(t, ok, x) ==
    Return(t, IF ok THEN Result("TRUE", Nil, Nil, {x[2]}) ELSE Void)

\* link_after_() and link_before_(), whose links of link_() are a and b: y is
\* the sibling found next to z, and lost the errors that leave no place.
LinkLoop(t, f, find, a(_), b(_), lost) ==
    LET c == ret[t].c   y == ret[t].q
    IN  \/ At(t, f) /\ Then(t, f \o ".found", find)
        \/ /\ At(t, f \o ".found")
           /\ IF y = Nil THEN Answer(t, "LINK_LOST", Nil)
              ELSE Invoke(t, [Top(t) EXCEPT !.at = f \o ".done", !.p = y],
                          CallLink(a(y), Arg(t).x, b(y)))
        \/ /\ At(t, f \o ".done")
           /\ CASE c = "XLINK_OK" -> Answer(t, "LINK_OK", Nil)
                [] c = "XLINK_TWICE" -> Answer(t, "LINK_TWICE", Nil)
                [] c \in lost -> Answer(t, "LINK_LOST", Nil)
                [] OTHER -> Invoke(t, [Top(t) EXCEPT !.at = f \o ".found",
                                                     !.p = Nil], find)

LinkAfterElem(t) ==
    LinkLoop(t, "link_after", CallSucc(Arg(t).a),
             LAMBDA y : Arg(t).a, LAMBDA y : y,
             {"XLINK_LOST_A", "XLINK_LOST_AB"})

LinkBeforeElem(t) ==
    LinkLoop(t, "link_before", CallPred(Arg(t).b),
             LAMBDA y : y, LAMBDA y : Arg(t).b,
             {"XLINK_LOST_B", "XLINK_LOST_AB"})

\* A pop tries the element at its end until it unlinks one.
Pop(t, f, find) ==
    LET c == ret[t].c   y == ret[t].q   e == Top(t).p
        Take(d) == Invoke(t, [Top(t) EXCEPT !.at = f \o ".pred", !.p = d],
                          CallPred(d))
    IN  \/ At(t, f) /\ Then(t, f \o ".found", find)
        \/ /\ At(t, f \o ".found")
           /\ IF get_elem_type(y) = "head" THEN Return(t, Void) ELSE Take(y)
        \/ At(t, f \o ".pred") /\ Then(t, f \o ".done", CallUnlink(y, e, 1))
        \/ /\ At(t, f \o ".done")
           /\ CASE c = "UNLINK_OK" -> Answer(t, "", e)
                [] c = "UNLINK_RETRY" -> Take(e)
                [] c = "UNLINK_FAIL" -> Then(t, f \o ".found", find)

pop_front(t) == Pop(t, "pop_front", CallSuccElem(Data))
pop_back(t) == Pop(t, "pop_back", CallPredElem(Data))

link_front(t) ==
    \/ /\ At(t, "link_front")
       /\ Invoke(t, [Top(t) EXCEPT !.at = "link_front.done", !.p = Arg(t).x],
                 CallLinkAfter(Data, Arg(t).x))
    \/ /\ At(t, "link_front.done") /\ ret[t].c # "LINK_LOST"
       /\ Linked(t, ret[t].c = "LINK_OK", Arg(t).x)

link_back(t) ==
    \/ /\ At(t, "link_back")
       /\ Invoke(t, [Top(t) EXCEPT !.at = "link_back.done", !.p = Arg(t).x],
                 CallLinkBefore(Data, Arg(t).x))
    \/ /\ At(t, "link_back.done") /\ ret[t].c # "LINK_LOST"
       /\ Linked(t, ret[t].c = "LINK_OK", Arg(t).x)

empty(t) ==
    \/ At(t, "empty") /\ Then(t, "empty.done", CallSuccElem(Data))
    \/ /\ At(t, "empty.done")
       /\ Answer(t, IF get_elem_type(ret[t].q) = "head" THEN "TRUE"
                    ELSE "FALSE", Nil)

\* size() counts the elements on its way and starts again when it is lost.
size(t) ==
    LET y == ret[t].q
        From(z) == Invoke(t, [Top(t) EXCEPT !.at = "size.next", !.p =
                                IF z = Data THEN Nil ELSE z], CallSuccElem(z))
    IN  \/ At(t, "size") /\ From(Data)
        \/ /\ At(t, "size.next")
           /\ IF y = Nil THEN From(Data)
              ELSE IF get_elem_type(y) = "head" THEN Return(t, Void)
              ELSE From(y)

-----------------------------------------------------------------------------
(* Positions and iterators. *)

CallUnlinkIter(x) == Frame("unlink_iter", [x |-> x])
CallPosUnlink(p) == Frame("pos_unlink", [pos |-> p])
CallAssign(o, p) == Frame("assign", [from |-> o, pos |-> p, k |-> 0])

unlink_iter_(t) ==
    LET c == ret[t].c   x == Arg(t).x
    IN  \/ At(t, "unlink_iter") /\ Then(t, "unlink_iter.pred", CallPred(x))
        \/ /\ At(t, "unlink_iter.pred")
           /\ IF ret[t].q = Nil THEN Answer(t, "FALSE", Nil)
              ELSE Then(t, "unlink_iter.done", CallUnlink(ret[t].q, x, 0))
        \/ /\ At(t, "unlink_iter.done")
           /\ CASE c = "UNLINK_OK" -> Answer(t, "TRUE", Nil)
                [] c = "UNLINK_FAIL" -> Answer(t, "FALSE", Nil)
                [] c = "UNLINK_RETRY" -> Then(t, "unlink_iter.pred",
                                              CallPred(x))

PosUnlink(t) ==
    LET p == Arg(t).pos
    IN  \/ /\ At(t, "pos_unlink")
           /\ Then(t, "pos_unlink.2", CallUnlinkIter(Iter(p, 0)))
           /\ UNCHANGED swap
        \/ /\ At(t, "pos_unlink.2")
           /\ Then(t, "pos_unlink.done", CallUnlinkIter(Iter(p, 1)))
           /\ UNCHANGED swap
        \/ /\ At(t, "pos_unlink.done") /\ Return(t, Void)
           /\ swap' = [swap EXCEPT ![p] = 0]

\* ~iter_link() of both elements of a position, the last one first.
DropPosition(t) ==
    LET p == Arg(t).pos
    IN  \/ At(t, "drop") /\ Then(t, "drop.2", CallUnlinkIter(Iter(p, 1)))
        \/ At(t, "drop.2") /\ Then(t, "drop.done", CallUnlinkIter(Iter(p, 0)))
        \/ At(t, "drop.done") /\ Return(t, Void)

\* operator= of the two elements, each linked after the one it copies.
AssignPosition(t) ==
    LET p == Arg(t).pos   o == Arg(t).from   k == Arg(t).k
        Free(n) == Invoke(t, [Top(t) EXCEPT !.at = "assign.link",
                                   !.arg.k = n],
                          CallUnlinkIter(Iter(p, n)))
        Next0 == IF k = 0 THEN Free(1) /\ UNCHANGED swap
                 ELSE Return(t, Void) /\ swap' = [swap EXCEPT ![p] = swap[o]]
    IN  \/ At(t, "assign") /\ Free(0) /\ UNCHANGED swap
        \/ /\ At(t, "assign.link")
           /\ IF is_unlinked_(Iter(o, k)) THEN Next0
              ELSE /\ Then(t, "assign.done",
                           CallLinkAfter(Iter(o, k), Iter(p, k)))
                   /\ UNCHANGED swap
        \/ /\ At(t, "assign.done") /\ ret[t].c = "LINK_OK" /\ Next0

\* begin(): around the first element; back_ goes right after the head.
init_begin(t) ==
    LET p == Arg(t).pos   e == Top(t).p
        Link1(y) == Invoke(t, [Top(t) EXCEPT !.at = "begin.front", !.p = y],
                           CallLinkAfter(y, front_(p)))
    IN  \/ At(t, "begin") /\ Then(t, "begin.clear", CallPosUnlink(p))
        \/ At(t, "begin.clear") /\ Then(t, "begin.e", CallSuccElem(Data))
        \/ At(t, "begin.e") /\ Link1(ret[t].q)
        \/ /\ At(t, "begin.front") /\ ret[t].c = "LINK_OK"
           /\ Then(t, "begin.back", CallLinkAfter(Data, back_(p)))
        \/ /\ At(t, "begin.front") /\ ret[t].c = "LINK_LOST"
           /\ Then(t, "begin.e", CallSuccElem(Data))
        \/ /\ At(t, "begin.back") /\ ret[t].c = "LINK_OK"
           /\ Answer(t, "", e)

init_end(t) ==
    LET p == Arg(t).pos
    IN  \/ At(t, "end") /\ Then(t, "end.clear", CallPosUnlink(p))
        \/ At(t, "end.clear") /\ Then(t, "end.back",
                                      CallLinkBefore(Data, back_(p)))
        \/ /\ At(t, "end.back") /\ ret[t].c = "LINK_OK"
           /\ Then(t, "end.front", CallLinkAfter(Data, front_(p)))
        \/ /\ At(t, "end.front") /\ ret[t].c = "LINK_OK"
           /\ Answer(t, "", Data)

\* One element of the position goes around the other: into the next gap.
StepPos(t, f, leave, find, into(_)) ==
    LET p == Arg(t).pos   e == Top(t).p
    IN  \/ /\ At(t, f) /\ Then(t, f \o ".free", CallUnlinkIter(leave))
           /\ UNCHANGED swap
        \/ /\ At(t, f \o ".free")
           /\ IF ret[t].c = "FALSE" THEN Return(t, Void)
              ELSE Then(t, f \o ".e", find)
           /\ UNCHANGED swap
        \/ /\ At(t, f \o ".e") /\ ret[t].q # Nil
           /\ Invoke(t, [Top(t) EXCEPT !.at = f \o ".link", !.p = ret[t].q],
                     into(ret[t].q))
           /\ UNCHANGED swap
        \/ /\ At(t, f \o ".link") /\ ret[t].c = "LINK_OK"
           /\ Answer(t, "", e)
           /\ swap' = [swap EXCEPT ![p] = 1 - @]
        \/ /\ At(t, f \o ".link") /\ ret[t].c = "LINK_LOST"
           /\ Then(t, f \o ".e", find) /\ UNCHANGED swap

step_forward(t) ==
    LET p == Arg(t).pos
    IN  StepPos(t, "step_forward", back_(p), CallSuccElem(front_(p)),
                LAMBDA e : CallLinkAfter(e, back_(p)))

step_backward(t) ==
    LET p == Arg(t).pos
    IN  StepPos(t, "step_backward", front_(p), CallPredElem(back_(p)),
                LAMBDA e : CallLinkBefore(e, front_(p)))

link_around(t) ==
    LET p == Arg(t).pos   x == Arg(t).x   c == ret[t].c
    IN  \/ At(t, "link_around") /\ Then(t, "link_around.clear",
                                        CallPosUnlink(p))
        \/ At(t, "link_around.clear")
           /\ Then(t, "link_around.front", CallLinkAfter(x, front_(p)))
        \/ /\ At(t, "link_around.front")
           /\ CASE c = "LINK_OK" -> Then(t, "link_around.back",
                                         CallLinkBefore(x, back_(p)))
                [] c = "LINK_LOST" -> Answer(t, "FALSE", Nil)
        \/ /\ At(t, "link_around.back")
           /\ CASE c = "LINK_OK" -> Answer(t, "TRUE", Nil)
                [] c = "LINK_LOST" -> Then(t, "link_around.lost",
                                           CallPosUnlink(p))
        \/ At(t, "link_around.lost") /\ Answer(t, "FALSE", Nil)

\* link_after() and link_before() of a position: out is linked first, and
\* the element between its two links.
PosLink(t, f, first, second, near, between, x) ==
    LET p == Arg(t).pos   c == ret[t].c
    IN  \/ At(t, f) /\ Then(t, f \o ".clear", CallPosUnlink(p))
        \/ At(t, f \o ".clear") /\ Then(t, f \o ".first", first)
        \/ /\ At(t, f \o ".first") /\ c = "LINK_OK"
           /\ Then(t, f \o ".second", second)
        \/ /\ At(t, f \o ".second") /\ c = "LINK_OK"
           /\ Invoke(t, [Top(t) EXCEPT !.at = f \o ".done", !.p = x], between)
        \/ /\ At(t, f \o ".done")
           /\ CASE c = "LINK_OK" -> Linked(t, TRUE, x)
                [] c = "LINK_TWICE" -> Then(t, f \o ".twice",
                                            CallPosUnlink(p))
        \/ At(t, f \o ".twice") /\ Linked(t, FALSE, x)

link_after(t) ==
    LET p == Arg(t).pos   i == Arg(t).from   x == Arg(t).x
    IN  PosLink(t, "insert_after", CallLinkAfter(front_(i), back_(p)),
                CallLinkAfter(back_(p), front_(p)), front_(i),
                CallLinkAfter(back_(p), x), x)

link_before(t) ==
    LET p == Arg(t).pos   i == Arg(t).from   x == Arg(t).x
    IN  PosLink(t, "insert_before", CallLinkBefore(back_(i), front_(p)),
                CallLinkBefore(front_(p), back_(p)), back_(i),
                CallLinkBefore(front_(p), x), x)

CallUnlinkPos(x, p, n) == Frame("erase_pos", [x |-> x, pos |-> p, n |-> n])

\* unlink(): out is linked around e, so that out->back_() is its predecessor.
\* After a retry only the back link is made again.
unlink(t) ==
    LET x == Arg(t).x   p == Arg(t).pos   c == ret[t].c
        Back == CallLinkBefore(x, back_(p))
    IN  \/ At(t, "erase_pos") /\ Then(t, "erase_pos.clear", CallPosUnlink(p))
        \/ /\ At(t, "erase_pos.clear")
           /\ Invoke(t, [Top(t) EXCEPT !.at = "erase_pos.front", !.p = x],
                     CallLinkAfter(x, front_(p)))
        \/ /\ At(t, "erase_pos.front")
           /\ IF c = "LINK_LOST" THEN Answer(t, "FALSE", Nil)
              ELSE Then(t, "erase_pos.back", Back)
        \/ /\ At(t, "erase_pos.back")
           /\ IF c = "LINK_LOST" THEN Answer(t, "FALSE", Nil)
              ELSE Then(t, "erase_pos.done",
                        CallUnlink(back_(p), x, Arg(t).n + 1))
        \/ /\ At(t, "erase_pos.done")
           /\ IF c = "UNLINK_OK" THEN Answer(t, "TRUE", x)
              ELSE Then(t, IF c = "UNLINK_RETRY" THEN "erase_pos.again"
                           ELSE "erase_pos.fail", CallPosUnlink(p))
        \/ At(t, "erase_pos.again") /\ Then(t, "erase_pos.back", Back)
        \/ At(t, "erase_pos.fail") /\ Answer(t, "FALSE", Nil)

CallIteratorTo(x, p) == Frame("iterator_to", [x |-> x, pos |-> p])

iterator_to(t) ==
    LET x == Arg(t).x   p == Arg(t).pos   c == ret[t].c   b == back_(p)
        Undo == Then(t, "iterator_to.undo", CallPred(b))
    IN  \/ At(t, "iterator_to")
           /\ Then(t, "iterator_to.clear", CallPosUnlink(p))
        \/ /\ At(t, "iterator_to.clear")
           /\ IF linking[x] THEN Answer(t, "FALSE", Nil)
              ELSE Then(t, "iterator_to.back", CallLinkBefore(x, b))
        \/ /\ At(t, "iterator_to.back")
           /\ CASE c = "LINK_LOST" -> Answer(t, "FALSE", Nil)
                [] c = "LINK_OK" -> Then(t, "iterator_to.front",
                                         CallLinkAfter(x, front_(p)))
        \/ /\ At(t, "iterator_to.front")
           /\ CASE c = "LINK_OK" -> Answer(t, "TRUE", Nil)
                [] c = "LINK_LOST" -> Undo
        \/ At(t, "iterator_to.undo")
           /\ Then(t, "iterator_to.undone", CallUnlink(ret[t].q, b, 0))
        \/ /\ At(t, "iterator_to.undone")
           /\ CASE c = "UNLINK_OK" -> Answer(t, "FALSE", Nil)
                [] c = "UNLINK_RETRY" -> Undo

CallEqual(p, o) == Frame("equal", [pos |-> p, from |-> o])

\* operator==: no element between the two positions, only iterators.  Each
\* walks from its own back_ and starts again when it is lost.
EqualPosition(t) ==
    LET a == back_(Arg(t).pos)   o == back_(Arg(t).from)
        s1 == Top(t).p   s2 == Top(t).q   y == ret[t].q
        Iterates(s) == get_elem_type(s) = "iterator"
        Bool(b) == Answer(t, IF b THEN "TRUE" ELSE "FALSE", Nil)
    IN  \/ /\ At(t, "equal")
           /\ IF is_unlinked_(a) \/ is_unlinked_(o)
              THEN Bool(is_unlinked_(a) /\ is_unlinked_(o))
              ELSE Then(t, "equal.1", CallSucc(a))
        \/ /\ At(t, "equal.1") /\ y # Nil
           /\ Invoke(t, [Top(t) EXCEPT !.at = "equal.2", !.p = y], CallSucc(o))
        \/ /\ At(t, "equal.2") /\ y # Nil
           /\ Go(t, [Top(t) EXCEPT !.at = "equal.loop", !.q = y])
        \/ /\ At(t, "equal.loop")
           /\ IF s1 = o \/ s2 = a THEN Bool(TRUE)
              ELSE IF Iterates(s1) THEN Then(t, "equal.next1", CallSucc(s1))
              ELSE IF Iterates(s2) THEN Then(t, "equal.next2", CallSucc(s2))
              ELSE Bool(FALSE)
        \/ /\ At(t, "equal.next1")
           /\ LET f == [Top(t) EXCEPT !.p = y]
              IN  IF y = Nil THEN Then(t, "equal.next1", CallSucc(a))
                  ELSE IF Iterates(s2)
                  THEN Invoke(t, [f EXCEPT !.at = "equal.next2"],
                              CallSucc(s2))
                  ELSE Go(t, [f EXCEPT !.at = "equal.loop"])
        \/ /\ At(t, "equal.next2")
           /\ IF y = Nil THEN Then(t, "equal.next2", CallSucc(o))
              ELSE Go(t, [Top(t) EXCEPT !.at = "equal.loop", !.q = y])

-----------------------------------------------------------------------------
(* The calls of a program (ll_smartptr_list and its iterators). *)

IsElem(y) == y[1] = "element"

begin(t) ==
    LET p == Arg(t).pos
    IN  \/ At(t, "begin_it")
           /\ Then(t, "begin_it.done", Frame("begin", Arg(t)))
           /\ UNCHANGED ptr
        \/ /\ At(t, "begin_it.done") /\ Return(t, Void)
           /\ ptr' = [ptr EXCEPT ![p] = IF IsElem(ret[t].q) THEN ret[t].q
                                        ELSE Nil]

end(t) ==
    \/ At(t, "end_it") /\ Then(t, "end_it.done", Frame("end", Arg(t)))
       /\ UNCHANGED ptr
    \/ /\ At(t, "end_it.done") /\ Return(t, Void)
       /\ ptr' = [ptr EXCEPT ![Arg(t).pos] = Nil]

\* operator++ and operator--: ptr_ is null at the head.
StepIterator(t, f, step) ==
    \/ At(t, f) /\ Then(t, f \o ".done", Frame(step, Arg(t))) /\ UNCHANGED ptr
    \/ /\ At(t, f \o ".done") /\ Return(t, Void)
       /\ ptr' = [ptr EXCEPT ![Arg(t).pos] =
                    IF IsElem(ret[t].q) THEN ret[t].q ELSE Nil]

next(t) == StepIterator(t, "next", "step_forward")
prev(t) == StepIterator(t, "prev", "step_backward")

\* erase_and_dispose(i): out goes on from where the element was, or from i
\* if somebody else unlinked it.
erase_and_dispose(t) ==
    LET p == Arg(t).pos   i == Arg(t).from   f == Top(t).c
        Step(c) == Invoke(t, [Top(t) EXCEPT !.at = "erase.done", !.c = c],
                          Frame("next", [pos |-> p]))
    IN  \/ At(t, "erase") /\ Then(t, "erase.out", CallUnlinkPos(ptr[i], p, 0))
        \/ /\ At(t, "erase.out")
           /\ IF ret[t].c = "TRUE" THEN Step("TRUE")
              ELSE Then(t, "erase.assigned", CallAssign(i, p))
        \/ At(t, "erase.assigned") /\ Step("FALSE")
        \/ At(t, "erase.done") /\ Answer(t, f, Nil)

\* What a program does to take out one element: erase(iterator_to(x)).
EraseElement(t) ==
    LET x == Arg(t).x   i == <<t, "i">>   j == <<t, "j">>   f == Top(t).c
    IN  \/ /\ At(t, "erase_x")
           /\ Invoke(t, [Top(t) EXCEPT !.at = "erase_x.i", !.p = x],
                     CallIteratorTo(x, i))
           /\ ptr' = [ptr EXCEPT ![i] = x]
        \/ /\ At(t, "erase_x.i") /\ UNCHANGED ptr
           /\ LET g == [Top(t) EXCEPT !.at = "erase_x.erase", !.p = Nil]
              IN  IF ret[t].c = "TRUE" THEN Go(t, g)
                  ELSE Invoke(t, g, Frame("end", [pos |-> i]))
        \/ /\ At(t, "erase_x.erase") /\ UNCHANGED ptr
           /\ Then(t, "erase_x.out", Frame("erase", [from |-> i, pos |-> j]))
        \/ /\ At(t, "erase_x.out") /\ UNCHANGED ptr
           /\ Invoke(t, [Top(t) EXCEPT !.at = "erase_x.drop", !.c = ret[t].c],
                     Frame("drop", [pos |-> j]))
        \/ /\ At(t, "erase_x.drop") /\ UNCHANGED ptr
           /\ Then(t, "erase_x.end", Frame("drop", [pos |-> i]))
        \/ /\ At(t, "erase_x.end") /\ UNCHANGED ptr
           /\ Answer(t, f, IF f = "TRUE" THEN x ELSE Nil)

\* After an erase in remove_if() the iterator is on the next element already.
\* Mutant: it goes on one more.
NextElement(t) ==
    Then(t, "visit.test", Frame("next", [pos |-> <<t, "i">>]))
AfterEraseNext(t) == NextElement(t)
AfterErase(t) ==
    IF "fired" \in Top(t).f THEN Goto(t, "visit.test") ELSE NextElement(t)

\* visit() and remove_if(): from begin() to end(); remove_if takes out x.
\* The flags are fired (in this round) and took (in any).
Traverse(t) ==
    LET i == <<t, "i">>   j == <<t, "j">>   e == <<t, "end">>
        x == Arg(t).x   f == Top(t).f
    IN  \/ /\ At(t, "visit") /\ UNCHANGED <<ptr, seen>>
           /\ Then(t, "visit.end", Frame("begin_it", [pos |-> i]))
        \/ /\ At(t, "visit.end") /\ UNCHANGED <<ptr, seen>>
           /\ Then(t, "visit.test", Frame("end_it", [pos |-> e]))
        \/ /\ At(t, "visit.test") /\ UNCHANGED <<ptr, seen>>
           /\ Then(t, "visit.at", CallEqual(i, e))
        \/ /\ At(t, "visit.at") /\ ret[t].c = "TRUE"
           /\ Then(t, "visit.drop", Frame("drop", [pos |-> e]))
           /\ UNCHANGED <<ptr, seen>>
        \/ /\ At(t, "visit.at") /\ ret[t].c = "FALSE" /\ ptr[i] # Nil
           /\ IF ptr[i] = x
              THEN Then(t, "visit.erased",
                        Frame("erase", [from |-> i, pos |-> j]))
              ELSE NextElement(t)
           /\ seen' = [seen EXCEPT ![t] = @ \cup {ptr[i][2]}]
           /\ UNCHANGED ptr
        \/ /\ At(t, "visit.erased")
           /\ Invoke(t, [Top(t) EXCEPT !.at = "visit.assigned", !.f =
                           IF ret[t].c = "TRUE" THEN {"fired", "took"}
                           ELSE @ \ {"fired"}], CallAssign(j, i))
           /\ ptr' = [ptr EXCEPT ![i] = ptr[j]] /\ UNCHANGED seen
        \/ /\ At(t, "visit.assigned") /\ UNCHANGED <<ptr, seen>>
           /\ Then(t, "visit.fired", Frame("drop", [pos |-> j]))
        \/ /\ At(t, "visit.fired") /\ UNCHANGED <<ptr, seen>>
           /\ AfterErase(t)
        \/ /\ At(t, "visit.drop") /\ UNCHANGED <<ptr, seen>>
           /\ Then(t, "visit.done", Frame("drop", [pos |-> i]))
        \/ /\ At(t, "visit.done") /\ UNCHANGED <<ptr, seen>>
           /\ Answer(t, "", IF "took" \in f THEN x ELSE Nil)

\* link(i, e): before the position of an iterator.
LinkAt(t) ==
    LET d == <<t, "dummy">>   j == <<t, "j">>   x == Arg(t).x
    IN  \/ /\ At(t, "link_at")
           /\ Then(t, "link_at.copied", CallAssign(Arg(t).pos, j))
        \/ /\ At(t, "link_at.copied")
           /\ Invoke(t, [Top(t) EXCEPT !.at = "link_at.linked", !.p = x],
                     Frame("insert_before", [from |-> Arg(t).pos, pos |-> d,
                                             x |-> x]))
        \/ /\ At(t, "link_at.linked")
           /\ Invoke(t, [Top(t) EXCEPT !.at = "link_at.drop", !.p = Nil,
                                       !.c = ret[t].c],
                     Frame("drop", [pos |-> d]))
        \/ /\ At(t, "link_at.drop")
           /\ Then(t, "link_at.end", Frame("drop", [pos |-> j]))
        \/ At(t, "link_at.end") /\ Linked(t, Top(t).c = "TRUE", x)

\* ~ll_smartptr_list(), when nobody uses the list any more: clear() pops
\* until nothing is left, ~list() waits for the head to be alone.
Destroy(t) ==
    LET alone == \A u \in Thread \ {t} : todo[u] = <<>> /\ stack[u] = <<>>
    IN  \/ /\ At(t, "destroy") /\ alone
           /\ Then(t, "destroy.pop", Frame("pop_front", [x |-> None]))
           /\ UNCHANGED shared
        \/ /\ At(t, "destroy.pop")
           /\ IF ret[t].q # Nil
              THEN Then(t, "destroy.pop", Frame("pop_front", [x |-> None]))
              ELSE Then(t, "destroy.empty", Frame("empty", [x |-> None]))
           /\ UNCHANGED shared
        \/ /\ At(t, "destroy.empty") /\ ret[t].c = "TRUE"
           /\ Then(t, "destroy.wait", CallSucc(Data)) /\ UNCHANGED shared
        \/ /\ At(t, "destroy.wait") /\ UNCHANGED shared
           /\ IF Count(Data) > 3 \/ ret[t].q # Data
              THEN Then(t, "destroy.wait", CallSucc(Data))
              ELSE Then(t, "destroy.end", CallPred(Data))
        \/ /\ At(t, "destroy.end") /\ ret[t].q = Data
           /\ succ' = [succ EXCEPT ![Data] = Null]
           /\ pred' = [pred EXCEPT ![Data] = Null]
           /\ UNCHANGED linking /\ Return(t, Void)

\* The frame of a call that a program makes.
OpFrame(t, o) ==
    LET p == <<t, o.x>>   i == <<t, "i">>   j == <<t, "j">>
    IN  CASE o.op \in {"link_front", "link_back", "erase_x"} ->
                 Frame(o.op, [x |-> Elem(o.x)])
          [] o.op \in {"pop_front", "pop_back", "empty", "size", "destroy"} ->
                 Frame(o.op, [x |-> None])
          [] o.op = "visit" -> Frame("visit", [x |-> None])
          [] o.op = "remove_if" -> Frame("visit", [x |-> Elem(o.x)])
          [] o.op = "link_at" -> Frame("link_at", [x |-> Elem(o.x),
                                                   pos |-> i])
          [] o.op = "insert_after" ->
                 Frame("insert_after", [x |-> Elem(o.x), from |-> i,
                                        pos |-> j])
          [] o.op = "link_around" ->
                 Frame("link_around", [x |-> Elem(o.x), pos |-> i])
          [] o.op \in {"begin_it", "end_it", "next", "prev", "drop"} ->
                 Frame(o.op, [pos |-> p])

Links == {"link_front", "link_back", "link_at", "insert_after"}

Start(t) ==
    LET o == Head(todo[t])
    IN  /\ call[t] = None /\ todo[t] # <<>>
        /\ o.op = "destroy" =>
              \A u \in Thread \ {t} : todo[u] = <<>> /\ call[u] = None
        /\ stack' = [stack EXCEPT ![t] = <<OpFrame(t, o)>>]
        /\ todo' = [todo EXCEPT ![t] = Tail(@)]
        /\ call' = [call EXCEPT ![t] = o.op]
        /\ seen' = [seen EXCEPT ![t] = {}]
        /\ UNCHANGED <<shared, swap, ptr, ret, answer>>

End(t) ==
    /\ call[t] # None /\ stack[t] = <<>>
    /\ answer' = [answer EXCEPT ![t] =
          IF IsElem(ret[t].q) THEN ret[t].q[2]
          ELSE IF call[t] \in Links /\ ret[t].c = "TRUE"
          THEN CHOOSE e \in Element : e \in ret[t].f
          ELSE None]
    /\ call' = [call EXCEPT ![t] = None]
    /\ ret' = [ret EXCEPT ![t] = Void]
    /\ UNCHANGED <<shared, swap, ptr, todo, stack, seen>>

-----------------------------------------------------------------------------
(* The specification. *)

\* The elements from the head on, and those of them that are linked.
Chain ==
    LET from[c \in Seq(Node)] ==
            LET y == succ[Last(c)].to
            IN  IF y = Nil \/ y \in ToSet(c) THEN c ELSE from[Append(c, y)]
    IN  from[<<Data>>]
Linkeds ==
    LET c == Chain
        live(k) == IsElem(c[k]) /\ "S" \notin succ[c[k - 1]].fl
    IN  FoldLeft(LAMBDA l, k : IF live(k) THEN Append(l, c[k][2]) ELSE l,
                 <<>>, [k \in 1..(Len(c) - 1) |-> k + 1])

\* Links in the order of a list of elements.
InOrder(l) ==
    LET c == <<Data>> \o [k \in 1..Len(l) |-> Elem(l[k])] \o <<Data>>
        k(y) == CHOOSE n \in 1..(Len(l) + 1) : c[n] = y
    IN  /\ succ = [y \in Node |-> IF y \in ToSet(c)
                                  THEN Ptr(c[k(y) + 1], {}) ELSE Null]
        /\ pred = [y \in Node |-> IF y \in ToSet(c)
                                  THEN Ptr(IF y = Data THEN c[Len(c) - 1]
                                           ELSE c[k(y) - 1], {}) ELSE Null]

Init ==
    /\ \E l \in Lists : InOrder(l) /\ items = l
    /\ linking = [y \in Node |-> FALSE]
    /\ swap = [p \in Position |-> 0] /\ ptr = [p \in Position |-> Nil]
    /\ todo \in Programs
    /\ stack = [t \in Thread |-> <<>>] /\ ret = [t \in Thread |-> Void]
    /\ call = [t \in Thread |-> None] /\ did = [t \in Thread |-> None]
    /\ saw = [t \in Thread |-> FALSE] /\ answer = [t \in Thread |-> None]
    /\ stay = [t \in Thread |-> {}] /\ seen = [t \in Thread |-> {}]

Atomics(t) == Succ(t) \/ Pred(t) \/ UnlinkAid(t) \/ Link(t) \/ Unlink(t)

Lists1(t) == SuccElem(t) \/ PredElem(t) \/ LinkAfterElem(t)
             \/ LinkBeforeElem(t) \/ pop_front(t) \/ pop_back(t)
             \/ link_front(t) \/ link_back(t) \/ empty(t) \/ size(t)

Positions(t) == unlink_iter_(t) \/ DropPosition(t) \/ init_begin(t)
                \/ init_end(t) \/ link_around(t) \/ link_after(t)
                \/ link_before(t) \/ unlink(t) \/ iterator_to(t)
                \/ EqualPosition(t) \/ erase_and_dispose(t) \/ LinkAt(t)

Swaps(t) == PosUnlink(t) \/ AssignPosition(t) \/ step_forward(t)
            \/ step_backward(t)

Iterators(t) == begin(t) \/ end(t) \/ next(t) \/ prev(t) \/ EraseElement(t)

\* The element that the next step of t links or unlinks, if it does.
Effect(t) ==
    LET x == Arg(t).x
    IN  IF /\ At(t, "link.commit") /\ IsElem(x)
           /\ succ[Arg(t).a] = Ptr(Arg(t).b, {}) THEN x[2]
        ELSE IF /\ At(t, "unlink") /\ IsElem(x) /\ call[t] # "destroy"
                /\ succ[Top(t).p] = Ptr(x, {}) THEN x[2]
        ELSE did[t]

Step(t) ==
    /\ \/ (Atomics(t) \/ Destroy(t)) /\ UNCHANGED <<swap, ptr, seen>>
       \/ /\ Lists1(t) \/ Positions(t)
          /\ UNCHANGED <<shared, swap, ptr, seen>>
       \/ Swaps(t) /\ UNCHANGED <<shared, ptr, seen>>
       \/ Iterators(t) /\ UNCHANGED <<shared, swap, seen>>
       \/ Traverse(t) /\ UNCHANGED <<shared, swap>>
    /\ did' = [did EXCEPT ![t] = Effect(t)]
    /\ UNCHANGED <<todo, call, answer>>

Run(t) ==
    /\ \/ Step(t)
       \/ Start(t) /\ did' = [did EXCEPT ![t] = None]
       \/ End(t) /\ UNCHANGED did
    /\ items' = IF UNCHANGED succ THEN items ELSE Linkeds'
    /\ saw' = [u \in Thread |-> /\ call'[u] # None
                                /\ saw[u] \/ items' = <<>>]
    /\ stay' = [u \in Thread |->
                  IF call[u] = None THEN ToSet(items')
                  ELSE stay[u] \cap ToSet(items')]

Done == \A t \in Thread : todo[t] = <<>> /\ call[t] = None

Next == (\E t \in Thread : Run(t)) \/ (Done /\ UNCHANGED vars)

\* Every thread runs, and wait_link0() reads the count again and again: it
\* comes to read a value that the count has again and again.
Fairness == \A t \in Thread : /\ WF_vars(Run(t))
                               /\ SF_vars(At(t, "wait") /\ Run(t))

Spec == Init /\ [][Next]_vars
FairSpec == Spec /\ Fairness

-----------------------------------------------------------------------------
(* Properties. *)

TypeOK ==
    /\ succ \in [Node -> [to : Node \cup {Nil}, fl : SUBSET {"S", "D"}]]
    /\ pred \in [Node -> [to : Node \cup {Nil}, fl : SUBSET {"M"}]]
    /\ linking \in [Node -> BOOLEAN] /\ swap \in [Position -> 0..1]
    /\ ptr \in [Position -> {Nil} \cup {Elem(e) : e \in Element}]
    /\ \A t \in Thread : ret[t].p \in Node \cup {Nil}
    /\ answer \in [Thread -> Element \cup {None}]
    /\ stay \in [Thread -> SUBSET Element]
    /\ seen \in [Thread -> SUBSET Element]

\* The assertions of the list, and the pointers that it follows untested.
Fails(t) ==
    LET c == ret[t].c   y == ret[t].q   p == Top(t).p
        Is(ls) == \E l \in ls : At(t, l)
    IN  \/ Is({"pred.back", "pred.direct", "unlink.aback"}) /\ pred[p].to = Nil
        \/ At(t, "link.succ") /\ succ[Arg(t).x] # Null
        \/ At(t, "unlink") /\ p = Nil
        \/ At(t, "unlink.aided") /\ ret[t].p = Nil
        \/ At(t, "wait") /\ ~is_unlinked_(Arg(t).x)
        \/ /\ Is({"pop_front.found", "pop_back.found", "begin.e", "equal.1",
                  "equal.2", "step_forward.e", "step_backward.e"})
           /\ y = Nil
        \/ Is({"link_front.done", "link_back.done"}) /\ c = "LINK_LOST"
        \/ /\ Is({"begin.front", "step_forward.link", "step_backward.link",
                  "link_around.front", "link_around.back",
                  "iterator_to.front", "iterator_to.back"})
           /\ c = "LINK_TWICE"
        \/ /\ Is({"begin.back", "end.back", "end.front", "assign.done",
                  "insert_after.first", "insert_after.second",
                  "insert_before.first", "insert_before.second"})
           /\ c # "LINK_OK"
        \/ At(t, "iterator_to.undone") /\ c = "UNLINK_FAIL"
        \/ At(t, "visit.at") /\ c = "FALSE" /\ ptr[<<t, "i">>] = Nil
        \/ At(t, "destroy.empty") /\ c = "FALSE"
        \/ At(t, "destroy.end") /\ y # Data

\* No assertion of the list fails and no null pointer is followed.
NoAssertionFails == \A t \in Thread : ~Fails(t)

\* What is unlinked is free when unlink_() ends: nothing in the list and no
\* other thread leads to it any more, by a reference that is counted or by
\* one that is not, so that its owner may destroy it (ll_list.cc:37, 54).  A
\* thread that was given the element itself, or whose iterator keeps it
\* alive, may still try and fail to use it.  Two threads keep to this; of
\* three, one may be left with the plain pointer of unlink_() (404, 416).
Keeps(u, y) ==
    \/ /\ stack[u] # <<>> /\ "x" \in DOMAIN Last(stack[u]).arg
       /\ Last(stack[u]).arg.x = y
    \/ \E p \in Position : p[1] = u /\ ptr[p] = y
LeadsTo(u, y) ==
    \E n \in DOMAIN stack[u] :
        LET f == stack[u][n]
        IN  \/ \E k \in DOMAIN f.arg \cap {"a", "x", "b"} : f.arg[k] = y
            \/ f.at = "unlink.lost" /\ f.r = y /\ "D" \in f.f
UnlinkedIsFree ==
    \A t \in Thread : At(t, "unlink.end") =>
        LET x == Arg(t).x
            others == {u \in Thread \ {t} : ~Keeps(u, x)}
        IN  /\ \A u \in others : ~LeadsTo(u, x)
            /\ Count(x) <= Arg(t).n \/ others # Thread \ {t}

\* The elements are linked as the code takes them to be, and let go whole.
ElementsSound == TypeOK /\ NoAssertionFails /\ UnlinkedIsFree

\* Refines the sequence.
Contract == INSTANCE ListContract
KeepsContract == Contract!Spec

\* A visit, and remove_if() unless another thread takes out the element that
\* it is about to, passes every element that is in the list all the time.
VisitsPassAll ==
    \A t \in Thread :
        call[t] \in {"visit", "remove_if"} /\ stack[t] = <<>> =>
            stay[t] \subseteq seen[t]

\* Every call returns, but for two ways to hang.  One unlink_() waits for an
\* element that a pred_ was moved to after the unlinker had passed it, and
\* another for an element that link_before_() tries for ever to link before:
\* it has a predecessor still, and its successor is some other element.
Stranded ==
    \E t \in Thread, y \in Node : At(t, "wait") /\ pred[y].to = Arg(t).x
Retrying ==
    \E t, u \in Thread : \E n \in DOMAIN stack[u] :
        /\ At(t, "wait") /\ "b" \in DOMAIN stack[u][n].arg
        /\ stack[u][n].arg.b = Arg(t).x
CallsReturn ==
    []<>((\A t \in Thread : call[t] = None) \/ Stranded \/ Retrying)
=============================================================================
