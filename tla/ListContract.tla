---------------------------- MODULE ListContract ----------------------------
(***************************************************************************)
(* What the lock-free list promises: a sequence of elements that several   *)
(* threads insert into and remove from.  A call has at most one effect,    *)
(* and its answer tells that effect: true for an element that it linked,   *)
(* the element that it removed, or nothing.  link_front() and link_back()  *)
(* insert at the ends; a pop may find nothing only if the list was empty   *)
(* at some moment of the call.                                             *)
(***************************************************************************)
EXTENDS Naturals, Sequences, SequencesExt

CONSTANTS Element, Thread, None

VARIABLES items, \* the elements of the list, in order
          call,  \* the operation that each thread is in, or None
          did,   \* what that call did to the list: the element, or None
          saw,   \* whether the list was empty at some moment of the call
          answer \* the answer of each thread's last call

vars == <<items, call, did, saw, answer>>

Inserts == {"link_front", "link_back", "link_at", "insert_after"}
Removes == {"pop_front", "pop_back", "erase_x", "remove_if", "destroy"}
Others == {"empty", "size", "visit", "link_around", "begin_it", "end_it",
           "next", "prev", "drop"}

Init ==
    /\ items \in SetToAllKPermutations(Element)
    /\ call = [t \in Thread |-> None] /\ did = [t \in Thread |-> None]
    /\ saw = [t \in Thread |-> FALSE] /\ answer = [t \in Thread |-> None]

\* The threads in a call see an empty list as soon as there is one.
Sees(c, l) == saw' = [t \in Thread |-> /\ c[t] # None
                                       /\ saw[t] \/ l = <<>>]

Call(t, op) ==
    /\ call[t] = None
    /\ call' = [call EXCEPT ![t] = op]
    /\ did' = [did EXCEPT ![t] = None]
    /\ UNCHANGED <<items, answer>> /\ Sees(call', items)

LinkElement(t, e, i) ==
    /\ call[t] \in Inserts /\ did[t] = None
    /\ e \notin ToSet(items)
    /\ call[t] = "link_front" => i = 1
    /\ call[t] = "link_back" => i = Len(items) + 1
    /\ items' = InsertAt(items, i, e)
    /\ did' = [did EXCEPT ![t] = e]
    /\ UNCHANGED <<call, answer>> /\ Sees(call, items')

UnlinkElement(t, i) ==
    /\ call[t] \in Removes /\ did[t] = None
    /\ did' = [did EXCEPT ![t] = IF call[t] = "destroy" THEN None
                                 ELSE items[i]]
    /\ items' = RemoveAt(items, i)
    /\ UNCHANGED <<call, answer>> /\ Sees(call, items')

Return(t) ==
    /\ call[t] # None
    /\ call[t] \in {"pop_front", "pop_back"} /\ did[t] = None => saw[t]
    /\ answer' = [answer EXCEPT ![t] = did[t]]
    /\ call' = [call EXCEPT ![t] = None]
    /\ UNCHANGED <<items, did>> /\ Sees(call', items)

Next == \E t \in Thread :
    \/ \E op \in Inserts \cup Removes \cup Others : Call(t, op)
    \/ \E e \in Element, i \in 1..(Len(items) + 1) : LinkElement(t, e, i)
    \/ \E i \in 1..Len(items) : UnlinkElement(t, i)
    \/ Return(t)

Spec == Init /\ [][Next]_vars
=============================================================================
