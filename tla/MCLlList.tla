------------------------------ MODULE MCLlList ------------------------------
(* Programs of two threads on a list of two elements, with a third to link,  *)
(* and of three threads that take out neighbours.                            *)
EXTENDS LlList

CONSTANTS e1, e2, e3, t1, t2, t3

C(op, x) == [op |-> op, x |-> x]
Two(p, q) == [t \in Thread |-> IF t = t1 THEN p ELSE q]
Pf == C("pop_front", None)
Pb == C("pop_back", None)
Lb == C("link_back", e3)
Lf == C("link_front", e3)
Drop == C("drop", "i")

AllPositions == Thread \X {"i", "j", "end", "dummy"}
OneList == {<<e1, e2>>}

\* Calls at both ends, of one element, and the end of the list.
EndPrograms == {Two(<<Pf, Lb>>, <<Pb, Lf>>),
                Two(<<Lb>>, <<Lf, C("empty", None)>>),
                Two(<<C("size", None)>>, <<Pf, C("destroy", None)>>)}

\* Calls with iterators that race with a pop or a link.
IteratorPrograms ==
    {Two(<<C("erase_x", e1)>>, <<Pf>>),
     Two(<<C("visit", None)>>, <<Lb>>),
     Two(<<C("remove_if", e1)>>, <<Lb>>),
     Two(<<C("begin_it", "i"), C("next", "i"), C("insert_after", e3), Drop>>,
         <<Lf>>),
     Two(<<C("begin_it", "i"), C("link_at", e3), Drop>>,
         <<C("empty", None)>>),
     Two(<<C("end_it", "i"), C("prev", "i"), Drop>>, <<Pb>>),
     Two(<<C("link_around", e1), Drop>>, <<Pf>>)}
AllPrograms == EndPrograms \cup IteratorPrograms

\* While one thread pops the second element, another has an iterator in front
\* of it, and the third pops the first element.
OnePosition == {<<t2, "i">>}
ThreePrograms == {[Two(<<Pb>>, <<C("link_around", e2), Drop>>)
                   EXCEPT ![t3] = <<Pf>>]}
=============================================================================
