--------------------------- MODULE FutureContract ---------------------------
(***************************************************************************)
(* What promises and futures promise (src/documentation/promise.md): a     *)
(* shared state is assigned a result once and keeps it, and each callback  *)
(* is invoked once, after its shared state has got its result.             *)
(***************************************************************************)
EXTENDS Naturals

CONSTANTS States, Callbacks, On

VARIABLES result, invoked

Init ==
    /\ result = [o \in States |-> "none"]
    /\ invoked = [c \in Callbacks |-> 0]

Resolve ==
    /\ \E o \in States, r \in {"value", "exc", "broken"} :
          result[o] = "none" /\ result' = [result EXCEPT ![o] = r]
    /\ UNCHANGED invoked

Invoke ==
    /\ \E c \in Callbacks :
          /\ invoked[c] = 0 /\ result[On[c]] # "none"
          /\ invoked' = [invoked EXCEPT ![c] = 1]
    /\ UNCHANGED result

Spec == Init /\ [][Resolve \/ Invoke]_<<result, invoked>>
=============================================================================
