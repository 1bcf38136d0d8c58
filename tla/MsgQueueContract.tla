-------------------------- MODULE MsgQueueContract --------------------------
(***************************************************************************)
(* What src/documentation/msg_queue.md promises about the event of a       *)
(* message queue: the functor installed last is called after messages are  *)
(* enqueued, one call may serve many messages, calls do not overlap, and a *)
(* functor that replaces one that runs is called after it.                 *)
(***************************************************************************)
CONSTANTS Messages, Functors, None

VARIABLES
    installed,  \* the functor that callback() installed last, or None
    running,    \* the functor that runs, or None
    current,    \* the functor that runs is the one installed
    due         \* messages and functors that a call is still due for

contractVars == <<installed, running, current, due>>

Init == installed = None /\ running = None /\ ~current /\ due = {}

Enqueue(S) ==
    /\ due' = due \cup S
    /\ UNCHANGED <<installed, running, current>>

(* A message that was read needs no call.                                  *)
Read(S) ==
    /\ due' = due \ S
    /\ UNCHANGED <<installed, running, current>>

(* A functor that replaces one that runs is due itself, and so is one that *)
(* replaces a functor that was due.                                        *)
Install(f) ==
    /\ installed' = f
    /\ due' = IF current \/ due \cap Functors # {}
              THEN (due \ Functors) \cup {f}
              ELSE due
    /\ current' = FALSE
    /\ UNCHANGED running

Uninstall ==
    /\ installed' = None
    /\ due' = due \ Functors
    /\ current' = FALSE
    /\ UNCHANGED running

(* The call serves everything that was enqueued before it.                 *)
Begin ==
    /\ running = None
    /\ installed # None
    /\ running' = installed
    /\ current' = TRUE
    /\ due' = {}
    /\ UNCHANGED installed

End ==
    /\ running # None
    /\ running' = None
    /\ current' = FALSE
    /\ UNCHANGED <<installed, due>>

Next ==
    \/ \E S \in SUBSET Messages : Enqueue(S) \/ Read(S)
    \/ \E f \in Functors : Install(f)
    \/ Uninstall \/ Begin \/ End

Spec == Init /\ [][Next]_contractVars
=============================================================================
