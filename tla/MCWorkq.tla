------------------------------ MODULE MCWorkq ------------------------------
(* Instances of Workq for TLC: which jobs there are, on which workq, of    *)
(* which type, and what the threads of a run may call.                     *)
EXTENDS Workq

CONSTANTS t1, t2, t3, w1, w2, j1, j2, j3

OneWorkq == [j \in Jobs |-> w1]

Plain == [j \in Jobs |-> {}]
Mixed == [j \in Jobs |-> IF j = j1 THEN {"PARALLEL", "PERSIST"}
                         ELSE IF j = j2 THEN {} ELSE {"ONCE", "NO_AID"}]

(* The calls of the threads, by the question a run asks.                   *)
ActivateDeactivateHelp ==
    [t \in Threads |-> {"activate", "activate_immed", "deactivate",
                        "service_aid"}]
DeactivateHelp == [t \in Threads |-> {"activate", "deactivate", "service_aid"}]
(* t1 is the application, the other threads do nothing but help.           *)
AppAndHelpers == [t \in Threads |->
    IF t = t1 THEN {"activate", "deactivate"} ELSE {"workq_aid"}]

(* The threads make the same calls.                                        *)
ThreadSymmetry == Permutations(Threads)
=============================================================================
