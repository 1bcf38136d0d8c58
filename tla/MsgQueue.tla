------------------------------ MODULE MsgQueue ------------------------------
(***************************************************************************)
(* A message queue with its event: msg_queue_events, data_msg_queue,       *)
(* void_msg_queue and msg_queue of src/include/ilias/msg_queue.h.          *)
(*                                                                         *)
(* One action is one atomic operation of the code: an operation on         *)
(* m_state, a critical section under m_evmtx, or one operation of the      *)
(* lock-free list (of the counter m_size, for untyped messages).  A thread *)
(* that executes the event keeps its place in _fire in loop[t], while the  *)
(* functor it runs may make calls of its own, whose place is in pc[t].     *)
(***************************************************************************)
EXTENDS Naturals, Sequences, FiniteSets, SequencesExt

CONSTANTS
    Threads,    \* threads of the process
    Messages,   \* messages; one that has been read may be written again
    Functors,   \* what callback() may install
    Calls,      \* what the threads may call
    Limits,     \* numbers of messages asked of dequeue()
    None        \* an empty std::function, and no functor

CallNames ==
    {"enqueue", "commit", "dequeue", "throw", "callback", "callback_null",
     "move"}

ASSUME EventAssumption ==
    /\ IsFiniteSet(Messages)
    /\ None \notin Functors
    /\ Messages \cap Functors = {}
    /\ Limits \subseteq Nat \ {0}
    /\ Calls \subseteq CallNames

VARIABLES
    untyped,       \* whether this is a msg_queue<void>; never changes
    m_state,       \* msg_queue_events::m_state
    m_ev,          \* msg_queue_events::m_ev, or None
    m_ev_restore,  \* msg_queue_events::m_ev_restore
    m_list,        \* data_msg_queue::m_list; the messages m_size counts
    pc,            \* pc[t]: the next operation of the call t is in
    loop,          \* loop[t]: the place of t in the loop of _fire
    tmp,           \* tmp[t]: the functor that t has taken out of m_ev
    taken,         \* taken[t]: untyped messages that dequeue() of t holds
    left,          \* left[t]: how many messages dequeue() of t still wants
    prepared,      \* prepared[t]: message of t's prepare_enqueue, or None
    unread,        \* history: messages written, and not given to a functor
    installed,     \* history: the functor that callback() was given last
    current,       \* history: the functor that runs is that one
    due            \* history: messages and functors a call is due for

eventVars == <<m_state, m_ev, m_ev_restore>>
readVars  == <<taken, left>>
histCb    == <<installed, current>>
history   == <<unread, histCb, due>>
vars == <<untyped, eventVars, m_list, pc, loop, tmp, readVars, prepared,
          history>>

Init ==
    /\ untyped \in BOOLEAN
    /\ m_state = "IDLE"
    /\ m_ev = None
    /\ m_ev_restore = FALSE
    /\ m_list = << >>
    /\ pc = [t \in Threads |-> "idle"]
    /\ loop = [t \in Threads |-> "none"]
    /\ tmp = [t \in Threads |-> None]
    /\ taken = [t \in Threads |-> << >>]
    /\ left = [t \in Threads |-> 0]
    /\ prepared = [t \in Threads |-> None]
    /\ unread = {}
    /\ installed = None /\ current = FALSE
    /\ due = {}

-----------------------------------------------------------------------------
(* A thread calls from application code, or from the functor it runs.      *)
May(t, call) ==
    /\ call \in Calls
    /\ pc[t] = "idle"
    /\ loop[t] \in {"none", "body"}

Goto(t, label) == pc' = [pc EXCEPT ![t] = label]

LoopTo(t, place) == loop' = [loop EXCEPT ![t] = place]

Fresh(m) == m \notin unread /\ \A t \in Threads : prepared[t] # m

(* The functor that runs, or None.                                         *)
Running ==
    IF \E t \in Threads : loop[t] = "body"
    THEN tmp[CHOOSE t \in Threads : loop[t] = "body"]
    ELSE None

-----------------------------------------------------------------------------
(* Writing.                                                                *)

(* The messages ms are on the list; next the event is fired.               *)
Push(t, ms) ==
    /\ m_list' = m_list \o ms
    /\ unread' = unread \cup ToSet(ms)
    /\ due' = due \cup ToSet(ms)
    /\ Goto(t, "fire")

(* enqueue of one message; enqueue_n of several untyped ones.              *)
Enqueue(t, S) ==
    /\ May(t, "enqueue")
    /\ S # {} /\ (Cardinality(S) = 1 \/ untyped)
    /\ \A m \in S : Fresh(m)
    /\ Push(t, SetToSeq(S))
    /\ UNCHANGED <<untyped, eventVars, loop, tmp, readVars, prepared, histCb>>

(* prepare_enqueue with its value assigned; it may be dropped again.       *)
Prepare(t, m) ==
    /\ May(t, "commit")
    /\ prepared[t] = None
    /\ Fresh(m)
    /\ prepared' = [prepared EXCEPT ![t] = m]
    /\ UNCHANGED <<untyped, eventVars, m_list, pc, loop, tmp, readVars,
                   history>>

ResetPrepared(t) ==
    /\ May(t, "commit")
    /\ prepared[t] # None
    /\ prepared' = [prepared EXCEPT ![t] = None]
    /\ UNCHANGED <<untyped, eventVars, m_list, pc, loop, tmp, readVars,
                   history>>

Commit(t) ==
    /\ May(t, "commit")
    /\ prepared[t] # None
    /\ Push(t, <<prepared[t]>>)
    /\ prepared' = [prepared EXCEPT ![t] = None]
    /\ UNCHANGED <<untyped, eventVars, loop, tmp, readVars, histCb>>

-----------------------------------------------------------------------------
(* Reading.                                                                *)

Dequeue(t, n) ==
    /\ May(t, "dequeue")
    /\ left' = [left EXCEPT ![t] = n]
    /\ Goto(t, IF untyped THEN "subtract" ELSE "pop")
    /\ UNCHANGED <<untyped, eventVars, m_list, loop, tmp, taken, prepared,
                   history>>

Return(t) == Goto(t, "idle") /\ left' = [left EXCEPT ![t] = 0]

(* Mutant: a message counts for two.                                       *)
PopCountsTwice(t) ==
    /\ pc[t] = "pop"
    /\ m_list # << >>
    /\ m_list' = Tail(m_list)
    /\ unread' = unread \ {Head(m_list)}
    /\ due' = due \ {Head(m_list)}
    /\ left' = [left EXCEPT ![t] = @ - 2]
    /\ UNCHANGED <<untyped, eventVars, pc, loop, tmp, taken, prepared, histCb>>

(* data_msg_queue::dequeue: pop one message and give it to the functor,    *)
(* which consumes it even if it throws.                                    *)
Pop(t) ==
    /\ pc[t] = "pop"
    /\ \/ /\ m_list = << >>
          /\ Return(t)
          /\ UNCHANGED <<m_list, unread, due>>
       \/ /\ m_list # << >>
          /\ m_list' = Tail(m_list)
          /\ unread' = unread \ {Head(m_list)}
          /\ due' = due \ {Head(m_list)}
          /\ \/ /\ left[t] > 1
                /\ left' = [left EXCEPT ![t] = @ - 1]
                /\ UNCHANGED pc
             \/ (left[t] = 1 \/ "throw" \in Calls) /\ Return(t)
    /\ UNCHANGED <<untyped, eventVars, loop, tmp, taken, prepared, histCb>>

(* void_msg_queue::_dequeue: up to left[t] messages are taken at once.     *)
Subtract(t) ==
    LET n == IF left[t] < Len(m_list) THEN left[t] ELSE Len(m_list) IN
    /\ pc[t] = "subtract"
    /\ taken' = [taken EXCEPT ![t] = SubSeq(m_list, 1, n)]
    /\ m_list' = SubSeq(m_list, n + 1, Len(m_list))
    /\ due' = due \ ToSet(SubSeq(m_list, 1, n))
    /\ left' = [left EXCEPT ![t] = 0]
    /\ Goto(t, IF n = 0 THEN "idle" ELSE "apply")
    /\ UNCHANGED <<untyped, eventVars, loop, tmp, prepared, unread, histCb>>

(* Mutant: what the functor was not fed is not put back.                   *)
ApplyDrops(t) ==
    /\ pc[t] = "apply"
    /\ unread' = unread \ {Head(taken[t])}
    /\ taken' = [taken EXCEPT ![t] = << >>]
    /\ Goto(t, "idle")
    /\ UNCHANGED <<untyped, eventVars, m_list, loop, tmp, left, prepared,
                   histCb, due>>

(* void_msg_queue::dequeue: the functor is called once for each message    *)
(* taken; if it throws the rest is put back, and no event is fired.        *)
Apply(t) ==
    LET rest == Tail(taken[t]) IN
    /\ pc[t] = "apply"
    /\ unread' = unread \ {Head(taken[t])}
    /\ \/ /\ taken' = [taken EXCEPT ![t] = rest]
          /\ Goto(t, IF rest = << >> THEN "idle" ELSE "apply")
          /\ UNCHANGED m_list
       \/ /\ "throw" \in Calls
          /\ taken' = [taken EXCEPT ![t] = << >>]
          /\ m_list' = m_list \o rest
          /\ Goto(t, "idle")
    /\ UNCHANGED <<untyped, eventVars, loop, tmp, left, prepared, histCb, due>>

-----------------------------------------------------------------------------
(* The callback.                                                           *)

(* callback(mq, fn) installs fn.  It makes the event run again if the      *)
(* functor it replaces is running; then it looks for messages.             *)
Callback(t, fn) ==
    /\ May(t, "callback")
    /\ m_ev' = fn
    /\ m_ev_restore' = FALSE
    /\ m_state' = IF m_ev_restore THEN "AGAIN" ELSE m_state
    /\ installed' = fn
    /\ current' = FALSE
    /\ due' = IF current \/ due \cap Functors # {}
              THEN (due \ Functors) \cup {fn}
              ELSE due
    /\ Goto(t, "check")
    /\ UNCHANGED <<untyped, m_list, loop, tmp, readVars, prepared, unread>>

(* Mutant: messages that were there before the callback fire no event.     *)
CheckNothing(t) ==
    /\ pc[t] = "check"
    /\ Goto(t, "idle")
    /\ UNCHANGED <<untyped, eventVars, m_list, loop, tmp, readVars, prepared,
                   history>>

CheckEmpty(t) ==
    /\ pc[t] = "check"
    /\ Goto(t, IF m_list = << >> THEN "idle" ELSE "fire")
    /\ UNCHANGED <<untyped, eventVars, m_list, loop, tmp, readVars, prepared,
                   history>>

(* Mutant: a functor that runs is restored although it was uninstalled.    *)
CallbackNullForgets(t) ==
    /\ May(t, "callback_null")
    /\ m_ev' = None
    /\ installed' = None
    /\ current' = FALSE
    /\ due' = due \ Functors
    /\ UNCHANGED <<untyped, m_state, m_ev_restore, m_list, pc, loop, tmp,
                   readVars, prepared, unread>>

(* callback(mq, nullptr)                                                   *)
CallbackNull(t) ==
    /\ May(t, "callback_null")
    /\ m_ev' = None
    /\ m_ev_restore' = FALSE
    /\ installed' = None
    /\ current' = FALSE
    /\ due' = due \ Functors
    /\ UNCHANGED <<untyped, m_state, m_list, pc, loop, tmp, readVars, prepared,
                   unread>>

-----------------------------------------------------------------------------
(* Firing the event.                                                       *)

(* Mutant: an event that is busy is not told to run again.                 *)
FireUnlessBusy(t) ==
    /\ pc[t] = "fire"
    /\ m_state' = IF m_state = "IDLE" THEN "AGAIN" ELSE m_state
    /\ IF m_state = "IDLE" THEN LoopTo(t, "store") ELSE UNCHANGED loop
    /\ Goto(t, "idle")
    /\ UNCHANGED <<untyped, m_ev, m_ev_restore, m_list, tmp, readVars,
                   prepared, history>>

(* The exchange of _fire: whoever finds IDLE executes the event.           *)
Fire(t) ==
    /\ pc[t] = "fire"
    /\ m_state' = "AGAIN"
    /\ IF m_state = "IDLE" THEN LoopTo(t, "store") ELSE UNCHANGED loop
    /\ Goto(t, "idle")
    /\ UNCHANGED <<untyped, m_ev, m_ev_restore, m_list, tmp, readVars,
                   prepared, history>>

StoreBusy(t) ==
    /\ loop[t] = "store"
    /\ m_state' = "BUSY"
    /\ LoopTo(t, "take")
    /\ UNCHANGED <<untyped, m_ev, m_ev_restore, m_list, pc, tmp, readVars,
                   prepared, history>>

(* First critical section of _fire_event.                                  *)
TakeEvent(t) ==
    /\ loop[t] = "take"
    /\ tmp' = [tmp EXCEPT ![t] = m_ev]
    /\ m_ev' = None
    /\ IF m_ev = None
       THEN /\ LoopTo(t, "cas")
            /\ UNCHANGED <<m_ev_restore, current, due>>
       ELSE /\ LoopTo(t, "body")
            /\ m_ev_restore' = TRUE
            /\ current' = TRUE
            /\ due' = {}
    /\ UNCHANGED <<untyped, m_state, m_list, pc, readVars, prepared, unread,
                   installed>>

BodyReturns(t) ==
    /\ pc[t] = "idle"
    /\ loop[t] = "body"
    /\ LoopTo(t, "restore")
    /\ current' = FALSE
    /\ UNCHANGED <<untyped, eventVars, m_list, pc, tmp, readVars, prepared,
                   unread, installed, due>>

(* Second critical section of _fire_event; tmp is then destroyed.          *)
RestoreEvent(t) ==
    /\ loop[t] = "restore"
    /\ m_ev' = IF m_ev_restore THEN tmp[t] ELSE m_ev
    /\ m_ev_restore' = FALSE
    /\ tmp' = [tmp EXCEPT ![t] = None]
    /\ LoopTo(t, "cas")
    /\ UNCHANGED <<untyped, m_state, m_list, pc, readVars, prepared, history>>

(* The compare-exchange from BUSY to IDLE; it fails for AGAIN.             *)
EndLoop(t) ==
    /\ loop[t] = "cas"
    /\ \/ /\ m_state = "BUSY"
          /\ m_state' = "IDLE"
          /\ LoopTo(t, "none")
       \/ /\ m_state # "BUSY"
          /\ LoopTo(t, "store")
          /\ UNCHANGED m_state
    /\ UNCHANGED <<untyped, m_ev, m_ev_restore, m_list, pc, tmp, readVars,
                   prepared, history>>

-----------------------------------------------------------------------------
(* The move constructor of msg_queue, when no thread uses the old queue; a *)
(* msg_queue<void> has none that compiles.  The variables then describe    *)
(* the new queue, which takes over m_ev.  The constructor of               *)
(* data_msg_queue pops from the list of the new queue, which is empty, and *)
(* not of the old one, whose messages stay behind.                         *)
Move ==
    /\ "move" \in Calls
    /\ ~untyped
    /\ \A t \in Threads :
          pc[t] = "idle" /\ loop[t] = "none" /\ prepared[t] = None
    /\ m_list' = << >>
    /\ unread' = {}
    /\ due' = due \ Messages
    /\ UNCHANGED <<untyped, eventVars, pc, loop, tmp, readVars, prepared,
                   histCb>>

-----------------------------------------------------------------------------
Call(t) ==
    \/ \E S \in SUBSET Messages : Enqueue(t, S)
    \/ \E m \in Messages : Prepare(t, m)
    \/ ResetPrepared(t) \/ Commit(t)
    \/ \E n \in Limits : Dequeue(t, n)
    \/ \E fn \in Functors : Callback(t, fn)
    \/ CallbackNull(t)

Step(t) ==
    \/ Pop(t) \/ Subtract(t) \/ Apply(t) \/ CheckEmpty(t) \/ Fire(t)
    \/ StoreBusy(t) \/ TakeEvent(t) \/ BodyReturns(t) \/ RestoreEvent(t)
    \/ EndLoop(t)

Next == Move \/ \E t \in Threads : Call(t) \/ Step(t)

Spec == Init /\ [][Next]_vars

(* A thread inside a call keeps executing it; the functor returns after    *)
(* finitely many calls.                                                    *)
Fairness ==
    \A t \in Threads : WF_vars(Step(t)) /\ SF_vars(BodyReturns(t))

FairSpec == Spec /\ Fairness

-----------------------------------------------------------------------------
(* Properties.                                                             *)

(* Every variable has its type.                                            *)
TypeOK ==
    /\ untyped \in BOOLEAN
    /\ m_state \in {"IDLE", "BUSY", "AGAIN"}
    /\ m_ev \in Functors \cup {None}
    /\ m_ev_restore \in BOOLEAN
    /\ m_list \in Seq(Messages)
    /\ pc \in [Threads -> {"idle", "fire", "pop", "subtract", "apply",
                          "check"}]
    /\ loop \in [Threads -> {"none", "store", "take", "body", "restore",
                            "cas"}]
    /\ tmp \in [Threads -> Functors \cup {None}]
    /\ taken \in [Threads -> Seq(Messages)]
    /\ left \in [Threads -> Nat]
    /\ prepared \in [Threads -> Messages \cup {None}]
    /\ unread \subseteq Messages
    /\ installed \in Functors \cup {None}
    /\ current \in BOOLEAN
    /\ due \subseteq Messages \cup Functors

(* Some thread is certain to take the functor before it is done.           *)
AboutToFire ==
    \E t \in Threads :
        \/ pc[t] \in {"fire", "check"}
        \/ loop[t] \in {"store", "take"}
        \/ loop[t] # "none" /\ m_state = "AGAIN"

(* msg_queue.md:72, "each enqueued message will invoke the callback        *)
(* afterwards", and msg_queue.h:264, "Make new event fire after old event  *)
(* completes": while a functor is installed, and a message that nobody has *)
(* read waits for its call, or a functor that replaced a running one waits *)
(* for its first, some thread is about to fire the event.                  *)
NoLostEvent == installed # None /\ due # {} => AboutToFire

(* A message that was written is on the queue, or in the hands of one      *)
(* dequeue(), until a functor is called with it; in particular the         *)
(* messages that the functor did not see when it threw.                    *)
MessagesKept ==
    unread = ToSet(m_list) \cup UNION {ToSet(taken[t]) : t \in Threads}

(* The event of the queue implements what msg_queue.md says of callbacks:  *)
(* one call at a time, of the functor installed last.                      *)
Contract == INSTANCE MsgQueueContract WITH running <- Running

ImplementsContract == Contract!Spec

(* What a call of the functor is due for gets it, unless no functor is     *)
(* installed.                                                              *)
EventuallyCalled ==
    \A x \in Messages \cup Functors :
        x \in due ~> x \notin due \/ installed = None
=============================================================================
