--------------------------- MODULE WorkqContract ---------------------------
(***************************************************************************)
(* What the workq system promises its users about jobs, as stated in       *)
(* src/documentation/workq.md: activation sets a flag that is cleared when *)
(* the job runs, activations may be combined into one run, a job that is   *)
(* activated while it runs will run again, and jobs that share a workq do  *)
(* not run concurrently unless they are PARALLEL.                          *)
(***************************************************************************)
CONSTANTS Jobs, WorkqOf, TypeOf

VARIABLES
    pending,   \* pending[j]: an activation of j is to be served
    running    \* running[j]: j runs

contractVars == <<pending, running>>

Init ==
    /\ pending = [j \in Jobs |-> FALSE]
    /\ running = [j \in Jobs |-> FALSE]

Activate(j) ==
    /\ pending' = [pending EXCEPT ![j] = TRUE]
    /\ UNCHANGED running

Deactivate(j) ==
    /\ pending' = [pending EXCEPT ![j] = FALSE]
    /\ UNCHANGED running

(* Jobs that must not run at the same time.                                *)
Excludes(i, j) ==
    /\ WorkqOf[i] = WorkqOf[j]
    /\ "PARALLEL" \notin TypeOf[i]
    /\ "PARALLEL" \notin TypeOf[j]

(* A run serves every activation made before it; a PERSIST job stays       *)
(* active.                                                                 *)
Start(j) ==
    /\ pending[j]
    /\ ~running[j]
    /\ \A i \in Jobs : Excludes(i, j) => ~running[i]
    /\ pending' = [pending EXCEPT ![j] = "PERSIST" \in TypeOf[j]]
    /\ running' = [running EXCEPT ![j] = TRUE]

Finish(j) ==
    /\ running[j]
    /\ running' = [running EXCEPT ![j] = FALSE]
    /\ UNCHANGED pending

Next == \E j \in Jobs : Activate(j) \/ Deactivate(j) \/ Start(j) \/ Finish(j)

Spec == Init /\ [][Next]_contractVars
=============================================================================
