-------------------------- MODULE MsgQueue_proofs --------------------------
(***************************************************************************)
(* Proofs about MsgQueue, for any number of threads, messages and          *)
(* functors: types, the invariants that no event and no message is lost,   *)
(* and that the event implements MsgQueueContract.                         *)
(***************************************************************************)
EXTENDS MsgQueue, FiniteSetTheorems, TLAPS

(* dequeue() of untyped messages has some as long as it calls its functor. *)
CallOK == \A t \in Threads : pc[t] = "apply" => taken[t] # << >>

(* One thread executes the event, and m_state says whether one does.       *)
LoopOK ==
    /\ \A t, u \in Threads : loop[t] # "none" /\ loop[u] # "none" => t = u
    /\ m_state = "IDLE" <=> \A t \in Threads : loop[t] = "none"

(* A functor is in tmp[t] from the first critical section of _fire_event   *)
(* to the second; m_ev_restore says that it is the one to put back.        *)
HasTaken(t) == loop[t] \in {"body", "restore"}

FunctorOK ==
    /\ \A t \in Threads : HasTaken(t) => tmp[t] # None
    /\ m_ev_restore => m_ev = None /\ \E t \in Threads : HasTaken(t)
    /\ ~m_ev_restore => installed = m_ev
    /\ \A t \in Threads : m_ev_restore /\ HasTaken(t) => installed = tmp[t]
    /\ current <=> m_ev_restore /\ \E t \in Threads : loop[t] = "body"

(* A thread will execute the event (again) without anyone's help.          *)
WillLoop ==
    \E t \in Threads :
        \/ loop[t] \in {"store", "take"}
        \/ loop[t] # "none" /\ m_state = "AGAIN"

(* A call is due for the functor installed, if for any, and then the event *)
(* is going to be executed.                                                *)
FunctorsDue ==
    /\ due \cap Functors \subseteq {installed}
    /\ due \cap Functors # {} => WillLoop

(* The messages that a call is due for are on the list.                    *)
MessagesDue == due \cap Messages \subseteq ToSet(m_list)

IInv ==
    /\ TypeOK
    /\ CallOK /\ LoopOK /\ FunctorOK
    /\ FunctorsDue /\ MessagesDue
    /\ NoLostEvent

-----------------------------------------------------------------------------
(* Sequences.                                                              *)

(* The sequence that Enqueue makes of a set of messages.                   *)
LEMMA SetToSeqType ==
    ASSUME NEW S \in SUBSET Messages
    PROVE  SetToSeq(S) \in Seq(Messages)
<1>1. IsFiniteSet(S)
  BY EventAssumption, FS_Subset
<1>2. Cardinality(S) \in Nat /\ ExistsBijection(1 .. Cardinality(S), S)
  BY <1>1, FS_CardinalityType
<1>3. PICK f \in [1 .. Cardinality(S) -> S] : IsInjective(f)
  BY <1>2 DEF ExistsBijection, Bijection, Injection, IsInjective,
              Surjection
<1>4. SetToSeq(S) \in [1 .. Cardinality(S) -> S]
  BY <1>3 DEF SetToSeq
<1> QED
  BY <1>2, <1>4

(* The elements of a sequence of messages are messages.                    *)
LEMMA ToSetType ==
    ASSUME NEW s \in Seq(Messages)
    PROVE  ToSet(s) \subseteq Messages
BY DEF ToSet

(* What popping the head leaves.                                           *)
LEMMA TailSet ==
    ASSUME NEW s \in Seq(Messages), s # << >>
    PROVE  /\ Tail(s) \in Seq(Messages)
           /\ Head(s) \in Messages
           /\ ToSet(s) = {Head(s)} \cup ToSet(Tail(s))
<1> DEFINE r == Tail(s)
<1>1. Tail(s) \in Seq(Messages) /\ Head(s) \in Messages /\ Head(s) = s[1]
  OBVIOUS
<1>2. Len(s) \in Nat /\ Len(s) > 0 /\ Len(r) = Len(s) - 1
  OBVIOUS
<1>3. \A i \in 1 .. Len(s) - 1 : r[i] = s[i + 1]
  OBVIOUS
<1>0. r \in Seq(Messages)
  OBVIOUS
<1> HIDE DEF r
<1>4. ASSUME NEW x \in ToSet(s) PROVE x \in {Head(s)} \cup ToSet(r)
  <2>1. PICK i \in 1 .. Len(s) : x = s[i]
    BY DEF ToSet
  <2>2. CASE i = 1
    BY <1>1, <2>1, <2>2
  <2>3. CASE i # 1
    <3>1. i - 1 \in 1 .. Len(r) /\ r[i - 1] = x
      BY <1>2, <1>3, <2>1, <2>3
    <3> QED
      BY <1>0, <3>1 DEF ToSet
  <2> QED
    BY <2>2, <2>3
<1>5. ASSUME NEW x \in {Head(s)} \cup ToSet(r) PROVE x \in ToSet(s)
  <2>1. CASE x = Head(s)
    BY <1>1, <1>2, <2>1 DEF ToSet
  <2>2. CASE x \in ToSet(r)
    <3>1. PICK i \in 1 .. Len(r) : x = r[i]
      BY <1>0, <2>2 DEF ToSet
    <3>2. i + 1 \in 1 .. Len(s) /\ s[i + 1] = x
      BY <1>2, <1>3, <3>1
    <3> QED
      BY <3>2 DEF ToSet
  <2> QED
    BY <2>1, <2>2
<1> QED
  BY <1>1, <1>4, <1>5 DEF r

(* Messages that are written go to the end.                                *)
LEMMA ConcatSet ==
    ASSUME NEW s \in Seq(Messages), NEW ms \in Seq(Messages)
    PROVE  /\ s \o ms \in Seq(Messages)
           /\ ToSet(s \o ms) = ToSet(s) \cup ToSet(ms)
<1>1. s \o ms \in Seq(Messages) /\ Len(s \o ms) = Len(s) + Len(ms)
  OBVIOUS
<1>2. \A i \in 1 .. Len(s) : (s \o ms)[i] = s[i]
  OBVIOUS
<1>3. \A i \in 1 .. Len(ms) : (s \o ms)[Len(s) + i] = ms[i]
  OBVIOUS
<1>4. ASSUME NEW x \in ToSet(s \o ms) PROVE x \in ToSet(s) \cup ToSet(ms)
  <2>1. PICK i \in 1 .. Len(s) + Len(ms) : x = (s \o ms)[i]
    BY <1>1 DEF ToSet
  <2>2. CASE i <= Len(s)
    BY <1>2, <2>1, <2>2 DEF ToSet
  <2>3. CASE i > Len(s)
    <3>1. i - Len(s) \in 1 .. Len(ms) /\ Len(s) + (i - Len(s)) = i
      BY <2>1, <2>3
    <3>2. ms[i - Len(s)] = x
      BY <1>3, <2>1, <3>1
    <3> QED
      BY <3>1, <3>2 DEF ToSet
  <2> QED
    BY <2>1, <2>2, <2>3
<1>5. ASSUME NEW x \in ToSet(s) \cup ToSet(ms) PROVE x \in ToSet(s \o ms)
  <2>1. CASE x \in ToSet(s)
    BY <1>1, <1>2, <2>1 DEF ToSet
  <2>2. CASE x \in ToSet(ms)
    <3>1. PICK i \in 1 .. Len(ms) : x = ms[i]
      BY <2>2 DEF ToSet
    <3>2. Len(s) + i \in 1 .. Len(s) + Len(ms)
      BY <3>1
    <3> QED
      BY <1>1, <1>3, <3>1, <3>2 DEF ToSet
  <2> QED
    BY <2>1, <2>2
<1> QED
  BY <1>1, <1>4, <1>5

(* What taking the first n messages leaves.                                *)
LEMMA SplitSet ==
    ASSUME NEW s \in Seq(Messages), NEW n \in 0 .. Len(s)
    PROVE  /\ SubSeq(s, 1, n) \in Seq(Messages)
           /\ SubSeq(s, n + 1, Len(s)) \in Seq(Messages)
           /\ ToSet(s) \subseteq ToSet(SubSeq(s, 1, n))
                                 \cup ToSet(SubSeq(s, n + 1, Len(s)))
<1> DEFINE a == SubSeq(s, 1, n)
           b == SubSeq(s, n + 1, Len(s))
<1>1. a \in Seq(Messages) /\ b \in Seq(Messages)
  OBVIOUS
<1>2. Len(a) = n /\ \A i \in 1 .. n : a[i] = s[i]
  OBVIOUS
<1>3. Len(b) = Len(s) - n /\ \A i \in 1 .. Len(s) - n : b[i] = s[n + i]
  OBVIOUS
<1> HIDE DEF a, b
<1>4. ASSUME NEW x \in ToSet(s) PROVE x \in ToSet(a) \cup ToSet(b)
  <2>1. PICK i \in 1 .. Len(s) : x = s[i]
    BY DEF ToSet
  <2>2. CASE i <= n
    BY <1>2, <2>1, <2>2 DEF ToSet
  <2>3. CASE i > n
    <3>1. i - n \in 1 .. Len(s) - n /\ n + (i - n) = i
      BY <2>1, <2>3
    <3>2. b[i - n] = x
      BY <1>3, <2>1, <3>1
    <3> QED
      BY <1>3, <3>1, <3>2 DEF ToSet
  <2> QED
    BY <2>1, <2>2, <2>3
<1> QED
  BY <1>1, <1>4 DEF a, b

-----------------------------------------------------------------------------
(* Types.                                                                  *)

(* The types of what one event, and the calls about it, change.            *)
EventType ==
    /\ untyped \in BOOLEAN
    /\ m_state \in {"IDLE", "BUSY", "AGAIN"}
    /\ m_ev \in Functors \cup {None}
    /\ m_ev_restore \in BOOLEAN
    /\ pc \in [Threads -> {"idle", "fire", "pop", "subtract", "apply",
                          "check"}]
    /\ loop \in [Threads -> {"none", "store", "take", "body", "restore",
                            "cas"}]
    /\ tmp \in [Threads -> Functors \cup {None}]
    /\ installed \in Functors \cup {None}
    /\ current \in BOOLEAN

(* The types of what holds messages.                                       *)
DataType ==
    /\ m_list \in Seq(Messages)
    /\ taken \in [Threads -> Seq(Messages)]
    /\ left \in [Threads -> Nat]
    /\ prepared \in [Threads -> Messages \cup {None}]
    /\ unread \subseteq Messages
    /\ due \subseteq Messages \cup Functors

LEMMA SplitType == TypeOK <=> EventType /\ DataType
BY DEF TypeOK, EventType, DataType

(* What a call does to the data.                                           *)
LEMMA CallDataType ==
    ASSUME TypeOK, NEW t \in Threads, Call(t)
    PROVE  DataType'
<1> USE DEF TypeOK, DataType, history, histCb, readVars
<1>1. ASSUME NEW S \in SUBSET Messages, Enqueue(t, S) PROVE DataType'
  <2>1. SetToSeq(S) \in Seq(Messages)
    BY SetToSeqType
  <2>2. ToSet(SetToSeq(S)) \subseteq Messages
    BY <2>1, ToSetType
  <2> QED
    BY <1>1, <2>1, <2>2 DEF Enqueue, Push
<1>2. ASSUME NEW m \in Messages, Prepare(t, m) PROVE DataType'
  BY <1>2 DEF Prepare
<1>3. CASE ResetPrepared(t)
  BY <1>3 DEF ResetPrepared
<1>4. CASE Commit(t)
  <2>1. <<prepared[t]>> \in Seq(Messages) /\ prepared[t] \in Messages
    BY <1>4 DEF Commit
  <2>2. ToSet(<<prepared[t]>>) \subseteq Messages
    BY <2>1, ToSetType
  <2> QED
    BY <1>4, <2>1, <2>2 DEF Commit, Push
<1>5. ASSUME NEW n \in Limits, Dequeue(t, n) PROVE DataType'
  BY <1>5, EventAssumption DEF Dequeue
<1>6. ASSUME NEW fn \in Functors, Callback(t, fn) PROVE DataType'
  BY <1>6 DEF Callback
<1>7. CASE CallbackNull(t)
  BY <1>7 DEF CallbackNull
<1> QED
  BY <1>1, <1>2, <1>3, <1>4, <1>5, <1>6, <1>7 DEF Call

(* What a step inside a call does to the data.                             *)
LEMMA StepDataType ==
    ASSUME TypeOK, CallOK, NEW t \in Threads, Step(t)
    PROVE  DataType'
<1> USE DEF TypeOK, DataType, history, histCb, readVars
<1>1. CASE Pop(t)
  <2>1. left' \in [Threads -> Nat]
    BY <1>1 DEF Pop, Return
  <2>2. m_list' \in Seq(Messages)
    BY <1>1, TailSet DEF Pop
  <2>3. /\ UNCHANGED <<taken, prepared>>
        /\ unread' \subseteq unread /\ due' \subseteq due
    BY <1>1 DEF Pop
  <2> QED
    BY <2>1, <2>2, <2>3
<1>2. CASE Subtract(t)
  <2> DEFINE n == IF left[t] < Len(m_list) THEN left[t] ELSE Len(m_list)
  <2>1. n \in 0 .. Len(m_list)
    OBVIOUS
  <2>2. /\ SubSeq(m_list, 1, n) \in Seq(Messages)
        /\ SubSeq(m_list, n + 1, Len(m_list)) \in Seq(Messages)
    BY <2>1, SplitSet
  <2>3. /\ taken' = [taken EXCEPT ![t] = SubSeq(m_list, 1, n)]
        /\ m_list' = SubSeq(m_list, n + 1, Len(m_list))
        /\ due' \subseteq due
        /\ left' = [left EXCEPT ![t] = 0]
        /\ UNCHANGED <<prepared, unread>>
    BY <1>2 DEF Subtract
  <2> HIDE DEF n
  <2> QED
    BY <2>2, <2>3
<1>3. CASE Apply(t)
  <2>1. Tail(taken[t]) \in Seq(Messages)
    BY <1>3, TailSet DEF CallOK, Apply
  <2>2. m_list \o Tail(taken[t]) \in Seq(Messages)
    BY <2>1, ConcatSet
  <2>3. << >> \in Seq(Messages)
    OBVIOUS
  <2>4. m_list' \in Seq(Messages)
    BY <1>3, <2>2 DEF Apply
  <2>5. taken' \in [Threads -> Seq(Messages)]
    <3> DEFINE rest == Tail(taken[t])
    <3>1. \/ taken' = [taken EXCEPT ![t] = rest]
          \/ taken' = [taken EXCEPT ![t] = << >>]
      BY <1>3 DEF Apply
    <3>2. rest \in Seq(Messages)
      BY <2>1
    <3> HIDE DEF rest
    <3> QED
      BY <2>3, <3>1, <3>2
  <2>6. UNCHANGED <<left, prepared, due>> /\ unread' \subseteq unread
    BY <1>3 DEF Apply
  <2> QED
    BY <2>4, <2>5, <2>6
<1>4. CASE CheckEmpty(t)
  BY <1>4 DEF CheckEmpty
<1>5. CASE Fire(t)
  BY <1>5 DEF Fire
<1>6. CASE StoreBusy(t)
  BY <1>6 DEF StoreBusy
<1>7. CASE TakeEvent(t)
  BY <1>7 DEF TakeEvent
<1>8. CASE BodyReturns(t)
  BY <1>8 DEF BodyReturns
<1>9. CASE RestoreEvent(t)
  BY <1>9 DEF RestoreEvent
<1>10. CASE EndLoop(t)
  BY <1>10 DEF EndLoop
<1> QED
  BY <1>1, <1>2, <1>3, <1>4, <1>5, <1>6, <1>7, <1>8, <1>9, <1>10 DEF Step

(* What a thread does to the event.                                        *)
LEMMA EventTypeStep ==
    ASSUME TypeOK, NEW t \in Threads, Call(t) \/ Step(t)
    PROVE  EventType'
<1> USE DEF TypeOK, EventType, eventVars, histCb, history, Goto, LoopTo
<1>1. ASSUME NEW S \in SUBSET Messages, Enqueue(t, S) PROVE EventType'
  BY <1>1 DEF Enqueue, Push
<1>2. ASSUME NEW m \in Messages, Prepare(t, m) PROVE EventType'
  BY <1>2 DEF Prepare
<1>3. CASE ResetPrepared(t)
  BY <1>3 DEF ResetPrepared
<1>4. CASE Commit(t)
  BY <1>4 DEF Commit, Push
<1>5. ASSUME NEW n \in Limits, Dequeue(t, n) PROVE EventType'
  BY <1>5 DEF Dequeue
<1>6. ASSUME NEW fn \in Functors, Callback(t, fn) PROVE EventType'
  BY <1>6 DEF Callback
<1>7. CASE CallbackNull(t)
  BY <1>7 DEF CallbackNull
<1>8. CASE Pop(t)
  BY <1>8 DEF Pop, Return
<1>9. CASE Subtract(t)
  BY <1>9 DEF Subtract
<1>10. CASE Apply(t)
  BY <1>10 DEF Apply
<1>11. CASE CheckEmpty(t)
  BY <1>11 DEF CheckEmpty
<1>12. CASE Fire(t)
  BY <1>12 DEF Fire
<1>13. CASE StoreBusy(t)
  BY <1>13 DEF StoreBusy
<1>14. CASE TakeEvent(t)
  BY <1>14 DEF TakeEvent
<1>15. CASE BodyReturns(t)
  BY <1>15 DEF BodyReturns
<1>16. CASE RestoreEvent(t)
  BY <1>16 DEF RestoreEvent
<1>17. CASE EndLoop(t)
  BY <1>17 DEF EndLoop
<1> QED
  BY <1>1, <1>2, <1>3, <1>4, <1>5, <1>6, <1>7, <1>8, <1>9, <1>10, <1>11,
     <1>12, <1>13, <1>14, <1>15, <1>16, <1>17 DEF Call, Step

LEMMA NextType == TypeOK /\ CallOK /\ Next => TypeOK'
<1> SUFFICES ASSUME TypeOK, CallOK, Next PROVE EventType' /\ DataType'
  BY SplitType DEF TypeOK, EventType, DataType
<1>1. CASE Move
  BY <1>1 DEF Move, TypeOK, EventType, DataType, eventVars, histCb, readVars
<1>2. ASSUME NEW t \in Threads, Call(t) PROVE EventType' /\ DataType'
  BY <1>2, CallDataType, EventTypeStep
<1>3. ASSUME NEW t \in Threads, Step(t) PROVE EventType' /\ DataType'
  BY <1>3, StepDataType, EventTypeStep
<1> QED
  BY <1>1, <1>2, <1>3 DEF Next

-----------------------------------------------------------------------------
(* The event.                                                              *)

(* A call of dequeue() calls its functor while it has messages.            *)
LEMMA CallStep ==
    ASSUME TypeOK, CallOK, NEW t \in Threads, Call(t) \/ Step(t)
    PROVE  CallOK'
<1> USE DEF TypeOK, CallOK, eventVars, histCb, history, readVars, Goto, LoopTo
<1>1. ASSUME NEW S \in SUBSET Messages, Enqueue(t, S) PROVE CallOK'
  BY <1>1 DEF Enqueue, Push
<1>2. ASSUME NEW m \in Messages, Prepare(t, m) PROVE CallOK'
  BY <1>2 DEF Prepare
<1>3. CASE ResetPrepared(t)
  BY <1>3 DEF ResetPrepared
<1>4. CASE Commit(t)
  BY <1>4 DEF Commit, Push
<1>5. ASSUME NEW n \in Limits, Dequeue(t, n) PROVE CallOK'
  BY <1>5 DEF Dequeue
<1>6. ASSUME NEW fn \in Functors, Callback(t, fn) PROVE CallOK'
  BY <1>6 DEF Callback
<1>7. CASE CallbackNull(t)
  BY <1>7 DEF CallbackNull
<1>8. CASE Pop(t)
  BY <1>8 DEF Pop, Return
<1>9. CASE Subtract(t)
  <2> DEFINE n == IF left[t] < Len(m_list) THEN left[t] ELSE Len(m_list)
             ms == SubSeq(m_list, 1, n)
  <2>1. n \in Nat /\ Len(ms) = n
    OBVIOUS
  <2>2. n # 0 => ms # << >>
    BY <2>1
  <2>3. /\ taken' = [taken EXCEPT ![t] = ms]
        /\ pc' = [pc EXCEPT ![t] = IF n = 0 THEN "idle" ELSE "apply"]
    BY <1>9 DEF Subtract
  <2> HIDE DEF n, ms
  <2> QED
    BY <2>2, <2>3
<1>10. CASE Apply(t)
  BY <1>10 DEF Apply
<1>11. CASE CheckEmpty(t)
  BY <1>11 DEF CheckEmpty
<1>12. CASE Fire(t)
  BY <1>12 DEF Fire
<1>13. CASE StoreBusy(t)
  BY <1>13 DEF StoreBusy
<1>14. CASE TakeEvent(t)
  BY <1>14 DEF TakeEvent
<1>15. CASE BodyReturns(t)
  BY <1>15 DEF BodyReturns
<1>16. CASE RestoreEvent(t)
  BY <1>16 DEF RestoreEvent
<1>17. CASE EndLoop(t)
  BY <1>17 DEF EndLoop
<1> QED
  BY <1>1, <1>2, <1>3, <1>4, <1>5, <1>6, <1>7, <1>8, <1>9, <1>10, <1>11,
     <1>12, <1>13, <1>14, <1>15, <1>16, <1>17 DEF Call, Step

(* Whoever finds IDLE executes the event, and no other thread does.        *)
LEMMA LoopStep ==
    ASSUME TypeOK, LoopOK, FunctorOK, NEW t \in Threads, Call(t) \/ Step(t)
    PROVE  LoopOK'
<1> USE DEF TypeOK, LoopOK, May, eventVars, histCb, history, readVars, Goto, LoopTo
<1>1. ASSUME NEW S \in SUBSET Messages, Enqueue(t, S) PROVE LoopOK'
  BY <1>1 DEF Enqueue, Push
<1>2. ASSUME NEW m \in Messages, Prepare(t, m) PROVE LoopOK'
  BY <1>2 DEF Prepare
<1>3. CASE ResetPrepared(t)
  BY <1>3 DEF ResetPrepared
<1>4. CASE Commit(t)
  BY <1>4 DEF Commit, Push
<1>5. ASSUME NEW n \in Limits, Dequeue(t, n) PROVE LoopOK'
  BY <1>5 DEF Dequeue
<1>6. ASSUME NEW fn \in Functors, Callback(t, fn) PROVE LoopOK'
  BY <1>6 DEF Callback, FunctorOK, HasTaken
<1>7. CASE CallbackNull(t)
  BY <1>7 DEF CallbackNull
<1>8. CASE Pop(t)
  BY <1>8 DEF Pop, Return
<1>9. CASE Subtract(t)
  BY <1>9 DEF Subtract
<1>10. CASE Apply(t)
  BY <1>10 DEF Apply
<1>11. CASE CheckEmpty(t)
  BY <1>11 DEF CheckEmpty
<1>12. CASE Fire(t)
  BY <1>12 DEF Fire
<1>13. CASE StoreBusy(t)
  BY <1>13 DEF StoreBusy
<1>14. CASE TakeEvent(t)
  BY <1>14 DEF TakeEvent
<1>15. CASE BodyReturns(t)
  BY <1>15 DEF BodyReturns
<1>16. CASE RestoreEvent(t)
  BY <1>16 DEF RestoreEvent
<1>17. CASE EndLoop(t)
  BY <1>17 DEF EndLoop
<1> QED
  BY <1>1, <1>2, <1>3, <1>4, <1>5, <1>6, <1>7, <1>8, <1>9, <1>10, <1>11,
     <1>12, <1>13, <1>14, <1>15, <1>16, <1>17 DEF Call, Step

(* The functor that is taken is the one installed, and is put back only    *)
(* over an empty m_ev.                                                     *)
LEMMA FunctorStep ==
    ASSUME TypeOK, LoopOK, FunctorOK, NEW t \in Threads, Call(t) \/ Step(t)
    PROVE  FunctorOK'
<1> USE DEF TypeOK, LoopOK, FunctorOK, HasTaken, May, eventVars, histCb, history, readVars, Goto, LoopTo
<1>1. ASSUME NEW S \in SUBSET Messages, Enqueue(t, S) PROVE FunctorOK'
  BY <1>1 DEF Enqueue, Push
<1>2. ASSUME NEW m \in Messages, Prepare(t, m) PROVE FunctorOK'
  BY <1>2 DEF Prepare
<1>3. CASE ResetPrepared(t)
  BY <1>3 DEF ResetPrepared
<1>4. CASE Commit(t)
  BY <1>4 DEF Commit, Push
<1>5. ASSUME NEW n \in Limits, Dequeue(t, n) PROVE FunctorOK'
  BY <1>5 DEF Dequeue
<1>6. ASSUME NEW fn \in Functors, Callback(t, fn) PROVE FunctorOK'
  BY <1>6 DEF Callback
<1>7. CASE CallbackNull(t)
  BY <1>7 DEF CallbackNull
<1>8. CASE Pop(t)
  BY <1>8 DEF Pop, Return
<1>9. CASE Subtract(t)
  BY <1>9 DEF Subtract
<1>10. CASE Apply(t)
  BY <1>10 DEF Apply
<1>11. CASE CheckEmpty(t)
  BY <1>11 DEF CheckEmpty
<1>12. CASE Fire(t)
  BY <1>12 DEF Fire
<1>13. CASE StoreBusy(t)
  BY <1>13 DEF StoreBusy
<1>14. CASE TakeEvent(t)
  BY <1>14 DEF TakeEvent
<1>15. CASE BodyReturns(t)
  BY <1>15 DEF BodyReturns
<1>16. CASE RestoreEvent(t)
  BY <1>16 DEF RestoreEvent
<1>17. CASE EndLoop(t)
  BY <1>17 DEF EndLoop
<1> QED
  BY <1>1, <1>2, <1>3, <1>4, <1>5, <1>6, <1>7, <1>8, <1>9, <1>10, <1>11,
     <1>12, <1>13, <1>14, <1>15, <1>16, <1>17 DEF Call, Step

(* A functor that is due is the one installed, and will be called.         *)
LEMMA FunctorsDueStep ==
    ASSUME TypeOK, LoopOK, FunctorOK, FunctorsDue, NEW t \in Threads, Call(t) \/ Step(t)
    PROVE  FunctorsDue'
<1> USE DEF TypeOK, LoopOK, FunctorOK, FunctorsDue, WillLoop, HasTaken, May, eventVars, histCb, history, readVars, Goto, LoopTo
<1>1. ASSUME NEW S \in SUBSET Messages, Enqueue(t, S) PROVE FunctorsDue'
  <2>1. SetToSeq(S) \in Seq(Messages)
    BY SetToSeqType
  <2>2. ToSet(SetToSeq(S)) \cap Functors = {}
    BY <2>1, ToSetType, EventAssumption
  <2>3. due' \cap Functors = due \cap Functors
    BY <1>1, <2>2 DEF Enqueue, Push
  <2>4. UNCHANGED <<installed, loop, m_state>>
    BY <1>1 DEF Enqueue
  <2> QED
    BY <2>3, <2>4
<1>2. ASSUME NEW m \in Messages, Prepare(t, m) PROVE FunctorsDue'
  BY <1>2 DEF Prepare
<1>3. CASE ResetPrepared(t)
  BY <1>3 DEF ResetPrepared
<1>4. CASE Commit(t)
  <2>1. <<prepared[t]>> \in Seq(Messages)
    BY <1>4 DEF Commit
  <2>2. ToSet(<<prepared[t]>>) \cap Functors = {}
    BY <2>1, ToSetType, EventAssumption
  <2>3. due' \cap Functors = due \cap Functors
    BY <1>4, <2>2 DEF Commit, Push
  <2>4. UNCHANGED <<installed, loop, m_state>>
    BY <1>4 DEF Commit
  <2> QED
    BY <2>3, <2>4
<1>5. ASSUME NEW n \in Limits, Dequeue(t, n) PROVE FunctorsDue'
  BY <1>5 DEF Dequeue
<1>6. ASSUME NEW fn \in Functors, Callback(t, fn) PROVE FunctorsDue'
  BY <1>6 DEF Callback
<1>7. CASE CallbackNull(t)
  BY <1>7 DEF CallbackNull
<1>8. CASE Pop(t)
  BY <1>8 DEF Pop, Return
<1>9. CASE Subtract(t)
  BY <1>9 DEF Subtract
<1>10. CASE Apply(t)
  BY <1>10 DEF Apply
<1>11. CASE CheckEmpty(t)
  BY <1>11 DEF CheckEmpty
<1>12. CASE Fire(t)
  BY <1>12 DEF Fire
<1>13. CASE StoreBusy(t)
  BY <1>13 DEF StoreBusy
<1>14. CASE TakeEvent(t)
  <2>1. CASE m_ev = None
    <3>1. ~m_ev_restore
      BY <1>14 DEF TakeEvent
    <3>2. due \cap Functors = {}
      BY <2>1, <3>1, EventAssumption
    <3> QED
      BY <1>14, <2>1, <3>2 DEF TakeEvent
  <2>2. CASE m_ev # None
    BY <1>14, <2>2 DEF TakeEvent
  <2> QED
    BY <2>1, <2>2
<1>15. CASE BodyReturns(t)
  BY <1>15 DEF BodyReturns
<1>16. CASE RestoreEvent(t)
  BY <1>16 DEF RestoreEvent
<1>17. CASE EndLoop(t)
  BY <1>17 DEF EndLoop
<1> QED
  BY <1>1, <1>2, <1>3, <1>4, <1>5, <1>6, <1>7, <1>8, <1>9, <1>10, <1>11,
     <1>12, <1>13, <1>14, <1>15, <1>16, <1>17 DEF Call, Step

(* A message that is due is on the list.                                   *)
LEMMA MessagesDueStep ==
    ASSUME TypeOK, CallOK, MessagesDue, NEW t \in Threads, Call(t) \/ Step(t)
    PROVE  MessagesDue'
<1> USE DEF TypeOK, MessagesDue, eventVars, histCb, history, readVars, Goto, LoopTo
<1>1. ASSUME NEW S \in SUBSET Messages, Enqueue(t, S) PROVE MessagesDue'
  <2>1. SetToSeq(S) \in Seq(Messages)
    BY SetToSeqType
  <2>2. ToSet(m_list \o SetToSeq(S)) = ToSet(m_list) \cup ToSet(SetToSeq(S))
    BY <2>1, ConcatSet
  <2> QED
    BY <1>1, <2>2 DEF Enqueue, Push
<1>2. ASSUME NEW m \in Messages, Prepare(t, m) PROVE MessagesDue'
  BY <1>2 DEF Prepare
<1>3. CASE ResetPrepared(t)
  BY <1>3 DEF ResetPrepared
<1>4. CASE Commit(t)
  <2>1. <<prepared[t]>> \in Seq(Messages)
    BY <1>4 DEF Commit
  <2>2. ToSet(m_list \o <<prepared[t]>>)
            = ToSet(m_list) \cup ToSet(<<prepared[t]>>)
    BY <2>1, ConcatSet
  <2> QED
    BY <1>4, <2>2 DEF Commit, Push
<1>5. ASSUME NEW n \in Limits, Dequeue(t, n) PROVE MessagesDue'
  BY <1>5 DEF Dequeue
<1>6. ASSUME NEW fn \in Functors, Callback(t, fn) PROVE MessagesDue'
  BY <1>6, EventAssumption DEF Callback
<1>7. CASE CallbackNull(t)
  BY <1>7 DEF CallbackNull
<1>8. CASE Pop(t)
  <2>1. CASE m_list = << >>
    BY <1>8, <2>1 DEF Pop
  <2>2. CASE m_list # << >>
    <3>1. ToSet(m_list) = {Head(m_list)} \cup ToSet(Tail(m_list))
      BY <2>2, TailSet
    <3>2. m_list' = Tail(m_list) /\ due' = due \ {Head(m_list)}
      BY <1>8, <2>2 DEF Pop
    <3> QED
      BY <3>1, <3>2
  <2> QED
    BY <2>1, <2>2
<1>9. CASE Subtract(t)
  <2> DEFINE n == IF left[t] < Len(m_list) THEN left[t] ELSE Len(m_list)
             a == SubSeq(m_list, 1, n)
             b == SubSeq(m_list, n + 1, Len(m_list))
  <2>1. n \in 0 .. Len(m_list)
    OBVIOUS
  <2>2. ToSet(m_list) \subseteq ToSet(a) \cup ToSet(b)
    BY <2>1, SplitSet
  <2>3. m_list' = b /\ due' = due \ ToSet(a)
    BY <1>9 DEF Subtract
  <2> HIDE DEF n, a, b
  <2> QED
    BY <2>2, <2>3
<1>10. CASE Apply(t)
  <2>1. Tail(taken[t]) \in Seq(Messages)
    BY <1>10, TailSet DEF CallOK, Apply
  <2>2. ToSet(m_list \o Tail(taken[t]))
            = ToSet(m_list) \cup ToSet(Tail(taken[t]))
    BY <2>1, ConcatSet
  <2> QED
    BY <1>10, <2>2 DEF Apply
<1>11. CASE CheckEmpty(t)
  BY <1>11 DEF CheckEmpty
<1>12. CASE Fire(t)
  BY <1>12 DEF Fire
<1>13. CASE StoreBusy(t)
  BY <1>13 DEF StoreBusy
<1>14. CASE TakeEvent(t)
  BY <1>14 DEF TakeEvent
<1>15. CASE BodyReturns(t)
  BY <1>15 DEF BodyReturns
<1>16. CASE RestoreEvent(t)
  BY <1>16 DEF RestoreEvent
<1>17. CASE EndLoop(t)
  BY <1>17 DEF EndLoop
<1> QED
  BY <1>1, <1>2, <1>3, <1>4, <1>5, <1>6, <1>7, <1>8, <1>9, <1>10, <1>11,
     <1>12, <1>13, <1>14, <1>15, <1>16, <1>17 DEF Call, Step

(* No thread leaves the event while a call is due for it.                  *)
LEMMA EventStep ==
    ASSUME IInv, NEW t \in Threads, Call(t) \/ Step(t)
    PROVE  NoLostEvent'
<1> USE DEF IInv, TypeOK, LoopOK, FunctorOK, FunctorsDue, MessagesDue, NoLostEvent,
          AboutToFire, WillLoop, HasTaken, May, eventVars, histCb, history, readVars, Goto, LoopTo
<1>1. ASSUME NEW S \in SUBSET Messages, Enqueue(t, S) PROVE NoLostEvent'
  BY <1>1 DEF Enqueue, Push
<1>2. ASSUME NEW m \in Messages, Prepare(t, m) PROVE NoLostEvent'
  BY <1>2 DEF Prepare
<1>3. CASE ResetPrepared(t)
  BY <1>3 DEF ResetPrepared
<1>4. CASE Commit(t)
  BY <1>4 DEF Commit, Push
<1>5. ASSUME NEW n \in Limits, Dequeue(t, n) PROVE NoLostEvent'
  BY <1>5 DEF Dequeue
<1>6. ASSUME NEW fn \in Functors, Callback(t, fn) PROVE NoLostEvent'
  BY <1>6 DEF Callback
<1>7. CASE CallbackNull(t)
  BY <1>7 DEF CallbackNull
<1>8. CASE Pop(t)
  BY <1>8 DEF Pop, Return
<1>9. CASE Subtract(t)
  BY <1>9 DEF Subtract
<1>10. CASE Apply(t)
  BY <1>10 DEF Apply
<1>11. CASE CheckEmpty(t)
  <2>1. CASE m_list = << >>
    <3>1. due \cap Messages = {}
      BY <2>1 DEF ToSet
    <3>2. due # {} => WillLoop
      BY <3>1
    <3> QED
      BY <1>11, <3>2 DEF CheckEmpty
  <2>2. CASE m_list # << >>
    BY <1>11, <2>2 DEF CheckEmpty
  <2> QED
    BY <2>1, <2>2
<1>12. CASE Fire(t)
  BY <1>12 DEF Fire
<1>13. CASE StoreBusy(t)
  BY <1>13 DEF StoreBusy
<1>14. CASE TakeEvent(t)
  BY <1>14 DEF TakeEvent
<1>15. CASE BodyReturns(t)
  BY <1>15 DEF BodyReturns
<1>16. CASE RestoreEvent(t)
  BY <1>16 DEF RestoreEvent
<1>17. CASE EndLoop(t)
  BY <1>17 DEF EndLoop
<1> QED
  BY <1>1, <1>2, <1>3, <1>4, <1>5, <1>6, <1>7, <1>8, <1>9, <1>10, <1>11,
     <1>12, <1>13, <1>14, <1>15, <1>16, <1>17 DEF Call, Step

-----------------------------------------------------------------------------
(* The invariant.                                                          *)

LEMMA InitInv == Init => IInv
<1> SUFFICES ASSUME Init PROVE IInv
  OBVIOUS
<1>1. TypeOK
  <2>1. << >> \in Seq(Messages)
    OBVIOUS
  <2>2. EventType
    BY DEF Init, EventType
  <2>3. DataType
    BY <2>1 DEF Init, DataType
  <2> QED
    BY <2>2, <2>3, SplitType
<1>2. CallOK /\ LoopOK /\ FunctorOK
  BY DEF Init, CallOK, LoopOK, FunctorOK, HasTaken
<1>3. FunctorsDue /\ MessagesDue /\ NoLostEvent
  BY DEF Init, FunctorsDue, MessagesDue, NoLostEvent
<1> QED
  BY <1>1, <1>2, <1>3 DEF IInv

(* A move happens when nobody executes the event, so that no functor is    *)
(* due; the messages that were are gone.                                   *)
LEMMA MoveInv ==
    ASSUME IInv, Move
    PROVE  CallOK' /\ LoopOK' /\ FunctorOK' /\ FunctorsDue' /\ MessagesDue'
           /\ NoLostEvent'
<1>1. /\ UNCHANGED <<m_state, m_ev, m_ev_restore, pc, loop, tmp, taken>>
      /\ UNCHANGED <<installed, current>>
  BY DEF Move, eventVars, histCb, readVars
<1>2. due \cap Functors = {}
  BY DEF Move, IInv, FunctorsDue, WillLoop
<1>3. due' = {}
  BY <1>2 DEF Move, IInv, TypeOK
<1>4. CallOK' /\ LoopOK' /\ FunctorOK'
  BY <1>1 DEF IInv, CallOK, LoopOK, FunctorOK, HasTaken
<1>5. FunctorsDue' /\ MessagesDue' /\ NoLostEvent'
  BY <1>3 DEF FunctorsDue, MessagesDue, NoLostEvent
<1> QED
  BY <1>4, <1>5

LEMMA NextInv == IInv /\ [Next]_vars => IInv'
<1> SUFFICES ASSUME IInv, [Next]_vars PROVE IInv'
  OBVIOUS
<1>1. CASE Move
  <2>1. TypeOK'
    BY <1>1, NextType DEF IInv, Next
  <2> QED
    BY <1>1, <2>1, MoveInv DEF IInv
<1>2. ASSUME NEW t \in Threads, Call(t) \/ Step(t) PROVE IInv'
  <2>1. TypeOK'
    BY <1>2, NextType DEF IInv, Next
  <2>2. CallOK' /\ LoopOK' /\ FunctorOK'
    BY <1>2, CallStep, LoopStep, FunctorStep DEF IInv
  <2>3. FunctorsDue' /\ MessagesDue'
    BY <1>2, FunctorsDueStep, MessagesDueStep DEF IInv
  <2>4. NoLostEvent'
    BY <1>2, EventStep
  <2> QED
    BY <2>1, <2>2, <2>3, <2>4 DEF IInv
<1>3. CASE UNCHANGED vars
  BY <1>3 DEF vars, eventVars, histCb, history, readVars, IInv, TypeOK,
     CallOK, LoopOK, FunctorOK, HasTaken, FunctorsDue, WillLoop, MessagesDue,
     NoLostEvent, AboutToFire
<1> QED
  BY <1>1, <1>2, <1>3 DEF Next

LEMMA Invariance == Spec => []IInv
<1> QED
  BY InitInv, NextInv, PTL DEF Spec

(* Type correctness.                                                       *)
THEOREM TypeCorrect == Spec => []TypeOK
<1>1. IInv => TypeOK
  BY DEF IInv
<1> QED
  BY <1>1, Invariance, PTL

(* No wakeup is missed: while a functor is installed, and a message waits  *)
(* for its call or a functor that replaced a running one for its first,    *)
(* some thread is about to fire the event.  For every number of threads.   *)
THEOREM NoMissedEvent == Spec => []NoLostEvent
<1>1. IInv => NoLostEvent
  BY DEF IInv
<1> QED
  BY <1>1, Invariance, PTL

-----------------------------------------------------------------------------
(* The refinement.                                                         *)

(* If one thread at most is in the body, the CHOOSE of Running finds it.   *)
LEMMA ChooseBody ==
    ASSUME NEW f,
           \A v, u \in Threads : f[v] = "body" /\ f[u] = "body" => v = u,
           NEW t \in Threads, f[t] = "body"
    PROVE  (CHOOSE u \in Threads : f[u] = "body") = t
OBVIOUS

LEMMA RunningIs ==
    ASSUME LoopOK, NEW t \in Threads, loop[t] = "body"
    PROVE  Running = tmp[t]
<1>1. \A v, u \in Threads : loop[v] = "body" /\ loop[u] = "body" => v = u
  BY DEF LoopOK
<1>2. (CHOOSE u \in Threads : loop[u] = "body") = t
  BY <1>1, ChooseBody
<1> QED
  BY <1>2 DEF Running

LEMMA RunningWillBe ==
    ASSUME LoopOK', NEW t \in Threads, loop'[t] = "body"
    PROVE  Running' = tmp'[t]
<1>1. \A v, u \in Threads : loop'[v] = "body" /\ loop'[u] = "body" => v = u
  BY DEF LoopOK
<1>2. (CHOOSE u \in Threads : loop'[u] = "body") = t
  BY <1>1, ChooseBody
<1> QED
  BY <1>2 DEF Running

(* Nobody is in the body: no functor runs.                                 *)
LEMMA NoneRuns ==
    /\ (\A u \in Threads : loop[u] # "body") => Running = None
    /\ (\A u \in Threads : loop'[u] # "body") => Running' = None
BY DEF Running

(* What stays the same when the functor that runs does.                    *)
LEMMA RunningSame ==
    ASSUME LoopOK, LoopOK', tmp' = tmp,
           \A u \in Threads : loop[u] = "body" <=> loop'[u] = "body"
    PROVE  Running' = Running
<1>1. CASE \E u \in Threads : loop[u] = "body"
  <2>1. PICK u \in Threads : loop[u] = "body"
    BY <1>1
  <2>2. Running = tmp[u] /\ Running' = tmp'[u]
    BY <2>1, RunningIs, RunningWillBe
  <2> QED
    BY <2>2
<1>2. CASE \A u \in Threads : loop[u] # "body"
  BY <1>2, NoneRuns
<1> QED
  BY <1>1, <1>2

(* Calls are steps of the contract, or none of its business.               *)
LEMMA CallRefines ==
    ASSUME IInv, NEW t \in Threads, Call(t)
    PROVE  [Contract!Next]_(Contract!contractVars)
<1> USE DEF eventVars, histCb, history, readVars, Contract!contractVars
<1>0. Running' = Running
  <2>1. UNCHANGED <<loop, tmp>>
    BY DEF Call, Enqueue, Prepare, ResetPrepared, Commit, Dequeue, Callback,
           CallbackNull
  <2> QED
    BY <2>1 DEF Running
<1>1. ASSUME NEW S \in SUBSET Messages, Enqueue(t, S)
      PROVE  Contract!Next
  <2> DEFINE ms == ToSet(SetToSeq(S))
  <2>1. ms \in SUBSET Messages
    BY SetToSeqType, ToSetType
  <2>2. due' = due \cup ms /\ UNCHANGED <<installed, current>>
    BY <1>1 DEF Enqueue, Push
  <2> HIDE DEF ms
  <2>3. Contract!Enqueue(ms)
    BY <1>0, <2>2 DEF Contract!Enqueue
  <2> QED
    BY <2>1, <2>3 DEF Contract!Next
<1>2. CASE Commit(t)
  <2> DEFINE ms == ToSet(<<prepared[t]>>)
  <2>1. <<prepared[t]>> \in Seq(Messages)
    BY <1>2 DEF Commit, IInv, TypeOK
  <2>2. ms \in SUBSET Messages
    BY <2>1, ToSetType
  <2>3. due' = due \cup ms /\ UNCHANGED <<installed, current>>
    BY <1>2 DEF Commit, Push
  <2> HIDE DEF ms
  <2>4. Contract!Enqueue(ms)
    BY <1>0, <2>3 DEF Contract!Enqueue
  <2> QED
    BY <2>2, <2>4 DEF Contract!Next
<1>3. ASSUME NEW fn \in Functors, Callback(t, fn) PROVE Contract!Next
  <2>1. Contract!Install(fn)
    BY <1>0, <1>3 DEF Callback, Contract!Install
  <2> QED
    BY <2>1 DEF Contract!Next
<1>4. CASE CallbackNull(t)
  <2>1. Contract!Uninstall
    BY <1>0, <1>4 DEF CallbackNull, Contract!Uninstall
  <2> QED
    BY <2>1 DEF Contract!Next
<1>5. ASSUME NEW m \in Messages, Prepare(t, m)
      PROVE  UNCHANGED Contract!contractVars
  BY <1>0, <1>5 DEF Prepare
<1>6. CASE ResetPrepared(t)
  BY <1>0, <1>6 DEF ResetPrepared
<1>7. ASSUME NEW n \in Limits, Dequeue(t, n)
      PROVE  UNCHANGED Contract!contractVars
  BY <1>0, <1>7 DEF Dequeue
<1> QED
  BY <1>1, <1>2, <1>3, <1>4, <1>5, <1>6, <1>7 DEF Call

(* The steps of a thread that executes the event.  Nobody else is in the   *)
(* loop, so that only its functor can run before and after.                *)
LEMMA LoopRefines ==
    ASSUME IInv, IInv', NEW t \in Threads,
           StoreBusy(t) \/ TakeEvent(t) \/ BodyReturns(t) \/ RestoreEvent(t)
               \/ EndLoop(t)
    PROVE  [Contract!Next]_(Contract!contractVars)
<1> USE DEF eventVars, histCb, history, readVars, LoopTo,
            Contract!contractVars
<1>1. \A u \in Threads : u # t => loop[u] = "none" /\ loop'[u] = "none"
  BY DEF IInv, TypeOK, LoopOK, StoreBusy, TakeEvent, BodyReturns,
         RestoreEvent, EndLoop
<1>2. loop \in [Threads -> {"none", "store", "take", "body", "restore",
                            "cas"}]
  BY DEF IInv, TypeOK
<1>3. CASE StoreBusy(t) \/ RestoreEvent(t) \/ EndLoop(t)
  <2>1. loop[t] # "body" /\ loop'[t] # "body"
    BY <1>2, <1>3 DEF StoreBusy, RestoreEvent, EndLoop
  <2>2. Running' = Running
    BY <1>1, <2>1, NoneRuns
  <2>3. UNCHANGED <<installed, current, due>>
    BY <1>3 DEF StoreBusy, RestoreEvent, EndLoop
  <2> QED
    BY <2>2, <2>3
<1>4. CASE TakeEvent(t) /\ m_ev = None
  <2>1. loop[t] # "body" /\ loop'[t] # "body"
    BY <1>2, <1>4 DEF TakeEvent
  <2>2. Running' = Running
    BY <1>1, <2>1, NoneRuns
  <2>3. UNCHANGED <<installed, current, due>>
    BY <1>4 DEF TakeEvent
  <2> QED
    BY <2>2, <2>3
<1>5. CASE TakeEvent(t) /\ m_ev # None
  <2>1. loop[t] # "body" /\ loop'[t] = "body" /\ tmp'[t] = m_ev
    BY <1>2, <1>5 DEF TakeEvent, IInv, TypeOK
  <2>2. Running = None
    BY <1>1, <2>1, NoneRuns
  <2>3. Running' = m_ev
    BY <2>1, RunningWillBe DEF IInv
  <2>4. ~m_ev_restore
    BY <1>1, <1>5 DEF TakeEvent, IInv, FunctorOK, HasTaken
  <2>5. installed = m_ev
    BY <2>4 DEF IInv, FunctorOK
  <2>6. installed' = installed /\ current' = TRUE /\ due' = {}
    BY <1>5 DEF TakeEvent
  <2>7. Contract!Begin
    BY <1>5, <2>2, <2>3, <2>5, <2>6 DEF Contract!Begin
  <2> QED
    BY <2>7 DEF Contract!Next
<1>6. CASE BodyReturns(t)
  <2>1. loop[t] = "body" /\ loop'[t] # "body"
    BY <1>2, <1>6 DEF BodyReturns
  <2>2. Running = tmp[t] /\ tmp[t] # None
    BY <2>1, RunningIs DEF IInv, FunctorOK, HasTaken
  <2>3. Running' = None
    BY <1>1, <2>1, NoneRuns
  <2>4. current' = FALSE /\ UNCHANGED <<installed, due>>
    BY <1>6 DEF BodyReturns
  <2>5. Contract!End
    BY <2>2, <2>3, <2>4 DEF Contract!End
  <2> QED
    BY <2>5 DEF Contract!Next
<1> QED
  BY <1>3, <1>4, <1>5, <1>6

(* The other steps inside a call.                                          *)
LEMMA StepRefines ==
    ASSUME IInv, IInv', NEW t \in Threads, Step(t)
    PROVE  [Contract!Next]_(Contract!contractVars)
<1> USE DEF eventVars, histCb, history, readVars, Contract!contractVars
<1>1. ASSUME Pop(t) \/ Subtract(t) \/ Apply(t) \/ CheckEmpty(t)
      PROVE  Running' = Running /\ UNCHANGED <<installed, current>>
  <2>1. UNCHANGED <<loop, tmp, installed, current>>
    BY <1>1 DEF Pop, Subtract, Apply, CheckEmpty
  <2> QED
    BY <2>1 DEF Running
<1>2. ASSUME NEW S \in SUBSET Messages, due' = due \ S,
             Pop(t) \/ Subtract(t)
      PROVE  Contract!Next
  <2>1. Contract!Read(S)
    BY <1>1, <1>2 DEF Contract!Read
  <2> QED
    BY <2>1 DEF Contract!Next
<1>3. CASE Pop(t)
  <2>1. CASE m_list = << >>
    BY <1>1, <1>3, <2>1 DEF Pop
  <2>2. CASE m_list # << >>
    <3>1. {Head(m_list)} \in SUBSET Messages
      BY <2>2, TailSet DEF IInv, TypeOK
    <3>2. due' = due \ {Head(m_list)}
      BY <1>3, <2>2 DEF Pop
    <3> QED
      BY <1>2, <1>3, <3>1, <3>2
  <2> QED
    BY <2>1, <2>2
<1>4. CASE Subtract(t)
  <2> DEFINE n == IF left[t] < Len(m_list) THEN left[t] ELSE Len(m_list)
             a == SubSeq(m_list, 1, n)
  <2>1. m_list \in Seq(Messages) /\ n \in 0 .. Len(m_list)
    BY DEF IInv, TypeOK
  <2>2. a \in Seq(Messages)
    BY <2>1, SplitSet
  <2>3. due' = due \ ToSet(a)
    BY <1>4 DEF Subtract
  <2> HIDE DEF n, a
  <2>4. ToSet(a) \in SUBSET Messages
    BY <2>2, ToSetType
  <2> QED
    BY <1>2, <1>4, <2>3, <2>4
<1>5. CASE Apply(t) \/ CheckEmpty(t)
  <2>1. due' = due
    BY <1>5 DEF Apply, CheckEmpty
  <2> QED
    BY <1>1, <1>5, <2>1
<1>6. CASE Fire(t)
  <2>1. \A u \in Threads : (loop[u] = "body") <=> (loop'[u] = "body")
    BY <1>6 DEF Fire, LoopTo, IInv, TypeOK, LoopOK
  <2>2. UNCHANGED <<tmp, installed, current, due>>
    BY <1>6 DEF Fire
  <2>3. Running' = Running
    BY <2>1, <2>2, RunningSame DEF IInv
  <2> QED
    BY <2>2, <2>3
<1>7. CASE StoreBusy(t) \/ TakeEvent(t) \/ BodyReturns(t) \/ RestoreEvent(t)
               \/ EndLoop(t)
  BY <1>7, LoopRefines
<1> QED
  BY <1>3, <1>4, <1>5, <1>6, <1>7 DEF Step

(* The lock-free event implements what msg_queue.md says of callbacks: the *)
(* functors are called one at a time, each call is one of the functor      *)
(* installed last, and it serves every message written before it.          *)
THEOREM Refinement == Spec => ImplementsContract
<1>1. Init => Contract!Init
  BY DEF Init, Contract!Init, Running
<1>2. ASSUME IInv, IInv', [Next]_vars
      PROVE  [Contract!Next]_(Contract!contractVars)
  <2>1. CASE Move
    <3>1. due' = due \ Messages
      BY <2>1 DEF Move
    <3>2. UNCHANGED <<loop, tmp, installed, current>>
      BY <2>1 DEF Move, histCb
    <3>3. Running' = Running
      BY <3>2 DEF Running
    <3>4. Contract!Read(Messages)
      BY <3>1, <3>2, <3>3 DEF Contract!Read
    <3> QED
      BY <3>4 DEF Contract!Next
  <2>2. ASSUME NEW t \in Threads, Call(t) \/ Step(t)
        PROVE  [Contract!Next]_(Contract!contractVars)
    BY <1>2, <2>2, CallRefines, StepRefines
  <2>3. CASE UNCHANGED vars
    BY <2>3 DEF vars, history, histCb, Running, Contract!contractVars
  <2> QED
    BY <1>2, <2>1, <2>2, <2>3 DEF Next
<1> QED
  BY <1>1, <1>2, Invariance, PTL DEF Spec, ImplementsContract, Contract!Spec

-----------------------------------------------------------------------------
(* No message is lost.                                                     *)

(* Enqueue writes each of its messages once.                               *)
LEMMA SetToSeqOnce ==
    ASSUME NEW S \in SUBSET Messages
    PROVE  IsInjective(SetToSeq(S)) /\ ToSet(SetToSeq(S)) = S
<1>1. IsFiniteSet(S)
  BY EventAssumption, FS_Subset
<1>2. Cardinality(S) \in Nat /\ ExistsBijection(1 .. Cardinality(S), S)
  BY <1>1, FS_CardinalityType
<1>3. PICK f \in Bijection(1 .. Cardinality(S), S) : TRUE
  BY <1>2 DEF ExistsBijection
<1>4. /\ f \in [1 .. Cardinality(S) -> S] /\ IsInjective(f)
      /\ \A x \in S : \E i \in 1 .. Cardinality(S) : f[i] = x
  BY <1>3 DEF Bijection, Injection, IsInjective, Surjection
<1>5. SetToSeq(S) \in [1 .. Cardinality(S) -> S] /\ IsInjective(SetToSeq(S))
  BY <1>4 DEF SetToSeq
<1> DEFINE g == SetToSeq(S)
<1>6. g \in Injection(1 .. Cardinality(S), S)
  BY <1>5 DEF Injection, IsInjective
<1>7. g \in Surjection(1 .. Cardinality(S), S)
  <2> DEFINE n == Cardinality(S)
  <2>1. IsFiniteSet(1 .. n) /\ Cardinality(1 .. n) = Cardinality(S)
    BY <1>2, FS_Interval
  <2> QED BY <1>1, <1>6, <2>1, FS_Injection
<1>8. ToSet(g) = S
  BY <1>5, <1>7 DEF ToSet, Surjection
<1> QED BY <1>5, <1>8

(* What popping the head leaves does not repeat it.                        *)
LEMMA TailOnce ==
    ASSUME NEW s \in Seq(Messages), s # << >>, IsInjective(s)
    PROVE  IsInjective(Tail(s)) /\ Head(s) \notin ToSet(Tail(s))
<1> DEFINE r == Tail(s)
<1>1. /\ r \in Seq(Messages) /\ Head(s) = s[1]
      /\ Len(s) \in Nat /\ Len(s) > 0 /\ Len(r) = Len(s) - 1
      /\ \A i \in 1 .. Len(s) - 1 : r[i] = s[i + 1]
  OBVIOUS
<1>2. DOMAIN r = 1 .. Len(s) - 1 /\ DOMAIN s = 1 .. Len(s)
  BY <1>1
<1> HIDE DEF r
<1>3. IsInjective(r)
  BY <1>1, <1>2 DEF IsInjective
<1>4. \A i \in 1 .. Len(s) - 1 : r[i] # s[1]
  BY <1>1, <1>2 DEF IsInjective
<1>5. s[1] \notin ToSet(r)
  BY <1>2, <1>4 DEF ToSet
<1> QED BY <1>1, <1>3, <1>5 DEF r

(* New messages repeat nothing that is on the list.                        *)
LEMMA ConcatOnce ==
    ASSUME NEW s \in Seq(Messages), NEW ms \in Seq(Messages),
           IsInjective(s), IsInjective(ms), ToSet(s) \cap ToSet(ms) = {}
    PROVE  IsInjective(s \o ms)
<1> DEFINE r == s \o ms
<1>1. r \in Seq(Messages) /\ Len(r) = Len(s) + Len(ms)
  OBVIOUS
<1>2. \A i \in 1 .. Len(s) : r[i] = s[i]
  OBVIOUS
<1>3. \A i \in Len(s) + 1 .. Len(s) + Len(ms) : r[i] = ms[i - Len(s)]
  OBVIOUS
<1>4. /\ DOMAIN r = 1 .. Len(s) + Len(ms)
      /\ DOMAIN s = 1 .. Len(s) /\ DOMAIN ms = 1 .. Len(ms)
      /\ Len(s) \in Nat /\ Len(ms) \in Nat
  BY <1>1
<1> HIDE DEF r
<1>5. \A i \in 1 .. Len(s), k \in 1 .. Len(ms) : s[i] # ms[k]
  BY <1>4 DEF ToSet
<1> SUFFICES ASSUME NEW i \in 1 .. Len(s) + Len(ms),
                    NEW k \in 1 .. Len(s) + Len(ms), r[i] = r[k]
             PROVE  i = k
  BY <1>4 DEF IsInjective, r
<1>6. CASE i <= Len(s) /\ k <= Len(s)
  BY <1>2, <1>4, <1>6 DEF IsInjective
<1>7. CASE i > Len(s) /\ k > Len(s)
  <2>1. /\ i - Len(s) \in 1 .. Len(ms) /\ k - Len(s) \in 1 .. Len(ms)
        /\ r[i] = ms[i - Len(s)] /\ r[k] = ms[k - Len(s)]
    BY <1>3, <1>4, <1>7
  <2>2. i - Len(s) = k - Len(s)
    BY <1>4, <2>1 DEF IsInjective
  <2> QED BY <1>4, <2>2
<1>8. CASE i <= Len(s) /\ k > Len(s)
  <2>1. /\ i \in 1 .. Len(s) /\ k - Len(s) \in 1 .. Len(ms)
        /\ r[i] = s[i] /\ r[k] = ms[k - Len(s)]
    BY <1>2, <1>3, <1>4, <1>8
  <2> QED BY <1>5, <2>1
<1>9. CASE i > Len(s) /\ k <= Len(s)
  <2>1. /\ k \in 1 .. Len(s) /\ i - Len(s) \in 1 .. Len(ms)
        /\ r[k] = s[k] /\ r[i] = ms[i - Len(s)]
    BY <1>2, <1>3, <1>4, <1>9
  <2> QED BY <1>5, <2>1
<1> QED BY <1>4, <1>6, <1>7, <1>8, <1>9

(* Taking the first n messages splits the list in two.                     *)
LEMMA SplitOnce ==
    ASSUME NEW s \in Seq(Messages), NEW n \in 0 .. Len(s), IsInjective(s)
    PROVE  LET a == SubSeq(s, 1, n)
               b == SubSeq(s, n + 1, Len(s))
           IN  /\ IsInjective(a) /\ IsInjective(b)
               /\ ToSet(a) \cap ToSet(b) = {}
               /\ ToSet(s) = ToSet(a) \cup ToSet(b)
<1> DEFINE a == SubSeq(s, 1, n)
           b == SubSeq(s, n + 1, Len(s))
<1>1. a \in Seq(Messages) /\ b \in Seq(Messages)
  OBVIOUS
<1>2. Len(a) = n /\ \A i \in 1 .. n : a[i] = s[i]
  OBVIOUS
<1>3. Len(b) = Len(s) - n /\ \A i \in 1 .. Len(s) - n : b[i] = s[n + i]
  OBVIOUS
<1>4. /\ DOMAIN a = 1 .. n /\ DOMAIN b = 1 .. Len(s) - n
      /\ DOMAIN s = 1 .. Len(s) /\ Len(s) \in Nat
  BY <1>1, <1>2, <1>3
<1>5. ToSet(s) \subseteq ToSet(a) \cup ToSet(b)
  BY SplitSet
<1> HIDE DEF a, b
<1>6. IsInjective(a)
  BY <1>2, <1>4 DEF IsInjective
<1>7. IsInjective(b)
  <2> SUFFICES ASSUME NEW i \in 1 .. Len(s) - n, NEW k \in 1 .. Len(s) - n,
                      b[i] = b[k]
               PROVE  i = k
    BY <1>4 DEF IsInjective
  <2>1. n + i \in DOMAIN s /\ n + k \in DOMAIN s
    BY <1>4
  <2>2. s[n + i] = s[n + k]
    BY <1>3
  <2>3. n + i = n + k
    BY <2>1, <2>2 DEF IsInjective
  <2> QED BY <1>4, <2>3
<1>8. \A i \in 1 .. n, k \in 1 .. Len(s) - n : a[i] # b[k]
  <2> SUFFICES ASSUME NEW i \in 1 .. n, NEW k \in 1 .. Len(s) - n, a[i] = b[k]
               PROVE  FALSE
    OBVIOUS
  <2>1. a[i] = s[i] /\ b[k] = s[n + k]
    BY <1>2, <1>3
  <2>2. i \in DOMAIN s /\ n + k \in DOMAIN s
    BY <1>4
  <2>3. i = n + k
    BY <2>1, <2>2 DEF IsInjective
  <2> QED BY <1>4, <2>3
<1>9. ToSet(a) \cap ToSet(b) = {}
  BY <1>4, <1>8 DEF ToSet
<1>10. ToSet(a) \subseteq ToSet(s) /\ ToSet(b) \subseteq ToSet(s)
  <2>1. \A i \in 1 .. Len(s) - n : n + i \in DOMAIN s /\ b[i] = s[n + i]
    BY <1>3, <1>4
  <2>2. \A i \in 1 .. n : i \in DOMAIN s /\ a[i] = s[i]
    BY <1>2, <1>4
  <2>3. /\ \A i \in DOMAIN b : \E k \in DOMAIN s : b[i] = s[k]
        /\ \A i \in DOMAIN a : \E k \in DOMAIN s : a[i] = s[k]
    BY <1>4, <2>1, <2>2
  <2> QED BY <2>3 DEF ToSet
<1> QED BY <1>5, <1>6, <1>7, <1>9, <1>10 DEF a, b

(* A message is in one place: on the list, in the hands of one dequeue(),  *)
(* or prepared by one thread, and what is prepared is not written yet.     *)
Once ==
    /\ IsInjective(m_list)
    /\ \A t \in Threads :
          /\ IsInjective(taken[t])
          /\ ToSet(taken[t]) \cap ToSet(m_list) = {}
          /\ taken[t] # << >> => pc[t] = "apply"
          /\ prepared[t] # None => prepared[t] \notin unread
    /\ \A t, u \in Threads : t # u =>
          /\ ToSet(taken[t]) \cap ToSet(taken[u]) = {}
          /\ prepared[t] # None => prepared[t] # prepared[u]

(* Writing messages that are new to the queue.                             *)
LEMMA PushOnce ==
    ASSUME TypeOK, Once, MessagesKept, NEW t \in Threads,
           NEW ms \in Seq(Messages), Push(t, ms), pc[t] = "idle",
           IsInjective(ms), ToSet(ms) \cap unread = {},
           taken' = taken,
           \A u \in Threads : prepared'[u] # None =>
              prepared'[u] = prepared[u] /\ prepared[u] \notin ToSet(ms)
    PROVE  Once' /\ MessagesKept'
<1>1. /\ m_list' = m_list \o ms /\ unread' = unread \cup ToSet(ms)
      /\ pc' = [pc EXCEPT ![t] = "fire"]
  BY DEF Push, Goto
<1>2. ToSet(m_list \o ms) = ToSet(m_list) \cup ToSet(ms)
  BY ConcatSet DEF TypeOK
<1>3. ToSet(m_list) \subseteq unread
      /\ \A u \in Threads : ToSet(taken[u]) \subseteq unread
  BY DEF MessagesKept
<1>4. IsInjective(m_list \o ms)
  BY <1>3, ConcatOnce DEF TypeOK, Once
<1>5. \A u \in Threads : taken[u] # << >> => u # t
  BY DEF Once
<1>6. \A u \in Threads : taken[u] # << >> => pc'[u] = "apply"
  BY <1>1, <1>5 DEF Once, TypeOK
<1>7. Once'
  BY <1>1, <1>2, <1>3, <1>4, <1>6 DEF Once
<1>8. MessagesKept'
  BY <1>1, <1>2 DEF MessagesKept
<1> QED BY <1>7, <1>8

(* Writing, preparing, committing.                                         *)
LEMMA CallOnce ==
    ASSUME TypeOK, Once, MessagesKept, NEW t \in Threads, Call(t)
    PROVE  Once' /\ MessagesKept'
<1>1. ASSUME NEW S \in SUBSET Messages, Enqueue(t, S)
      PROVE  Once' /\ MessagesKept'
  <2>1. /\ SetToSeq(S) \in Seq(Messages) /\ IsInjective(SetToSeq(S))
        /\ ToSet(SetToSeq(S)) = S
    BY SetToSeqType, SetToSeqOnce
  <2>2. /\ Push(t, SetToSeq(S)) /\ pc[t] = "idle"
        /\ taken' = taken /\ prepared' = prepared
        /\ S \cap unread = {} /\ \A u \in Threads : prepared[u] \notin S
    BY <1>1 DEF Enqueue, May, Fresh, readVars
  <2> QED BY <2>1, <2>2, PushOnce
<1>2. ASSUME NEW m \in Messages, Prepare(t, m) PROVE Once' /\ MessagesKept'
  BY <1>2 DEF Prepare, Fresh, Once, MessagesKept, TypeOK, readVars, history
<1>3. CASE ResetPrepared(t)
  BY <1>3 DEF ResetPrepared, Once, MessagesKept, TypeOK, readVars, history
<1>4. CASE Commit(t)
  <2>1. PICK m \in Messages : m = prepared[t] /\ m # None
    BY <1>4 DEF Commit, TypeOK
  <2>2. /\ <<m>> \in Seq(Messages) /\ IsInjective(<<m>>) /\ ToSet(<<m>>) = {m}
    BY DEF IsInjective, ToSet
  <2>3. /\ Push(t, <<m>>) /\ pc[t] = "idle" /\ taken' = taken
        /\ prepared' = [prepared EXCEPT ![t] = None]
    BY <1>4, <2>1 DEF Commit, May, readVars
  <2>4. m \notin unread /\ \A u \in Threads : u # t => prepared[u] # m
    BY <2>1 DEF Once
  <2>5. \A u \in Threads : prepared'[u] # None =>
            prepared'[u] = prepared[u] /\ prepared[u] # m
    BY <2>3, <2>4 DEF TypeOK
  <2> QED BY <2>2, <2>3, <2>4, <2>5, PushOnce
<1>5. ASSUME NEW n \in Limits, Dequeue(t, n) PROVE Once' /\ MessagesKept'
  BY <1>5 DEF Dequeue, May, Goto, Once, MessagesKept, TypeOK, history
<1>6. ASSUME NEW fn \in Functors, Callback(t, fn) PROVE Once' /\ MessagesKept'
  BY <1>6 DEF Callback, May, Goto, Once, MessagesKept, TypeOK, readVars
<1>7. CASE CallbackNull(t)
  BY <1>7 DEF CallbackNull, Once, MessagesKept, readVars
<1> QED
  BY <1>1, <1>2, <1>3, <1>4, <1>5, <1>6, <1>7 DEF Call

(* A thread holds other messages than before, or none.                     *)
LEMMA TakenOnce ==
    ASSUME Once, NEW t \in Threads, NEW r,
           \A u \in Threads : taken'[u] = IF u = t THEN r ELSE taken[u],
           \A u \in Threads : taken'[u] # << >> => pc'[u] = "apply",
           prepared' = prepared, unread' \subseteq unread,
           IsInjective(r), IsInjective(m_list'),
           ToSet(r) \cap ToSet(m_list') = {},
           \A u \in Threads : u # t =>
              /\ ToSet(r) \cap ToSet(taken[u]) = {}
              /\ ToSet(m_list') \cap ToSet(taken[u]) = {}
    PROVE  Once'
<1>1. \A u \in Threads :
          /\ IsInjective(taken'[u])
          /\ ToSet(taken'[u]) \cap ToSet(m_list') = {}
          /\ prepared'[u] # None => prepared'[u] \notin unread'
  BY DEF Once
<1>2. \A u, v \in Threads : u # v =>
          /\ ToSet(taken'[u]) \cap ToSet(taken'[v]) = {}
          /\ prepared'[u] # None => prepared'[u] # prepared'[v]
  <2> SUFFICES ASSUME NEW u \in Threads, NEW v \in Threads, u # v
               PROVE  ToSet(taken'[u]) \cap ToSet(taken'[v]) = {}
    BY DEF Once
  <2>1. CASE u = t
    BY <2>1
  <2>2. CASE v = t
    BY <2>2
  <2>3. CASE u # t /\ v # t
    BY <2>3 DEF Once
  <2> QED BY <2>1, <2>2, <2>3
<1> QED BY <1>1, <1>2 DEF Once

(* Reading: what is popped, or given to a functor, is nowhere any more.    *)
LEMMA StepOnce ==
    ASSUME TypeOK, CallOK, Once, MessagesKept, NEW t \in Threads, Step(t)
    PROVE  Once' /\ MessagesKept'
<1>0. /\ m_list \in Seq(Messages) /\ taken \in [Threads -> Seq(Messages)]
      /\ pc \in [Threads -> {"idle", "fire", "pop", "subtract", "apply",
                            "check"}]
  BY DEF TypeOK
<1>1. CASE Pop(t)
  <2>1. CASE m_list = << >>
    BY <1>0, <1>1, <2>1 DEF Pop, Return, Goto, Once, MessagesKept
  <2>2. CASE m_list # << >>
    <3>1. /\ IsInjective(Tail(m_list)) /\ Head(m_list) \notin ToSet(Tail(m_list))
          /\ ToSet(m_list) = {Head(m_list)} \cup ToSet(Tail(m_list))
      BY <1>0, <2>2, TailOnce, TailSet DEF Once
    <3>2. /\ m_list' = Tail(m_list) /\ unread' = unread \ {Head(m_list)}
          /\ taken' = taken /\ prepared' = prepared
      BY <1>1, <2>2 DEF Pop
    <3>3. pc' = pc \/ pc' = [pc EXCEPT ![t] = "idle"]
      BY <1>1, <2>2 DEF Pop, Return, Goto
    <3>4. taken[t] = << >> /\ pc[t] = "pop"
      BY <1>1 DEF Pop, Once
    <3>5. \A u \in Threads : taken[u] # << >> => pc'[u] = "apply"
      BY <1>0, <3>3, <3>4 DEF Once
    <3>6. Once'
      BY <3>1, <3>2, <3>5 DEF Once
    <3>7. \A u \in Threads : Head(m_list) \notin ToSet(taken[u])
      BY <3>1 DEF Once
    <3>8. MessagesKept'
      BY <3>1, <3>2, <3>7 DEF MessagesKept
    <3> QED BY <3>6, <3>8
  <2> QED BY <2>1, <2>2
<1>2. CASE Subtract(t)
  <2> DEFINE n == IF left[t] < Len(m_list) THEN left[t] ELSE Len(m_list)
             a == SubSeq(m_list, 1, n)
             b == SubSeq(m_list, n + 1, Len(m_list))
  <2>1. n \in 0 .. Len(m_list) /\ Len(a) = n
    BY DEF TypeOK
  <2>2. /\ IsInjective(a) /\ IsInjective(b)
        /\ ToSet(a) \cap ToSet(b) = {}
        /\ ToSet(m_list) = ToSet(a) \cup ToSet(b)
    BY <1>0, <2>1, SplitOnce DEF Once
  <2>3. /\ m_list' = b /\ taken' = [taken EXCEPT ![t] = a]
        /\ unread' = unread /\ prepared' = prepared
        /\ pc' = [pc EXCEPT ![t] = IF n = 0 THEN "idle" ELSE "apply"]
    BY <1>2 DEF Subtract, Goto
  <2>4. n = 0 => a = << >>
    BY <2>1
  <2>5. taken[t] = << >> /\ ToSet(taken[t]) = {}
    <3>1. taken[t] = << >>
      BY <1>2 DEF Subtract, Once
    <3> QED BY <3>1 DEF ToSet
  <2> HIDE DEF n, a, b
  <2>6. \A u \in Threads : taken'[u] = IF u = t THEN a ELSE taken[u]
    BY <1>0, <2>3
  <2>7. \A u \in Threads : taken'[u] # << >> => pc'[u] = "apply"
    BY <1>0, <2>3, <2>4, <2>6 DEF Once
  <2>8. Once'
    <3>1. \A u \in Threads : ToSet(m_list) \cap ToSet(taken[u]) = {}
      BY DEF Once
    <3>2. \A u \in Threads : /\ ToSet(a) \cap ToSet(taken[u]) = {}
                             /\ ToSet(m_list') \cap ToSet(taken[u]) = {}
      BY <2>2, <2>3, <3>1
    <3>3. /\ IsInjective(m_list') /\ ToSet(a) \cap ToSet(m_list') = {}
          /\ unread' \subseteq unread
      BY <2>2, <2>3
    <3> QED BY <2>2, <2>3, <2>6, <2>7, <3>2, <3>3, TakenOnce
  <2>9. MessagesKept'
    BY <2>2, <2>3, <2>5, <2>6 DEF MessagesKept
  <2> QED BY <2>8, <2>9
<1>3. CASE Apply(t)
  <2> DEFINE rest == Tail(taken[t])
             m == Head(taken[t])
  <2>1. taken[t] # << >> /\ taken[t] \in Seq(Messages)
    BY <1>0, <1>3 DEF CallOK, Apply
  <2>2. /\ rest \in Seq(Messages) /\ IsInjective(rest) /\ m \notin ToSet(rest)
        /\ ToSet(taken[t]) = {m} \cup ToSet(rest)
    BY <2>1, TailOnce, TailSet DEF Once
  <2>3. unread' = unread \ {m} /\ prepared' = prepared
    BY <1>3 DEF Apply
  <2>4. ToSet(<< >>) = {} /\ IsInjective(<< >>)
    BY DEF ToSet, IsInjective
  <2>5. CASE /\ taken' = [taken EXCEPT ![t] = rest]
             /\ pc' = [pc EXCEPT ![t] = IF rest = << >> THEN "idle"
                                                        ELSE "apply"]
             /\ m_list' = m_list
    <3> HIDE DEF rest, m
    <3>1. \A u \in Threads : taken'[u] = IF u = t THEN rest ELSE taken[u]
      BY <1>0, <2>5
    <3>2. \A u \in Threads : taken'[u] # << >> => pc'[u] = "apply"
      BY <1>0, <2>5, <3>1 DEF Once
    <3>3. Once'
      <4>1. /\ IsInjective(m_list) /\ ToSet(rest) \cap ToSet(m_list) = {}
            /\ \A u \in Threads : u # t =>
                  /\ ToSet(rest) \cap ToSet(taken[u]) = {}
                  /\ ToSet(m_list) \cap ToSet(taken[u]) = {}
        BY <2>2 DEF Once
      <4>2. unread' \subseteq unread
        BY <2>3
      <4> QED BY <2>2, <2>3, <2>5, <3>1, <3>2, <4>1, <4>2, TakenOnce
    <3>4. MessagesKept'
      <4>1. m \notin ToSet(m_list)
            /\ \A u \in Threads : u # t => m \notin ToSet(taken[u])
        BY <2>2 DEF Once
      <4> QED BY <2>2, <2>3, <2>5, <3>1, <4>1 DEF MessagesKept
    <3> QED BY <3>3, <3>4
  <2>6. CASE /\ taken' = [taken EXCEPT ![t] = << >>]
             /\ m_list' = m_list \o rest
             /\ pc' = [pc EXCEPT ![t] = "idle"]
    <3>1. ToSet(m_list \o rest) = ToSet(m_list) \cup ToSet(rest)
      BY <1>0, <2>2, ConcatSet
    <3>2. IsInjective(m_list \o rest)
      <4>1. ToSet(m_list) \cap ToSet(rest) = {} /\ IsInjective(m_list)
        BY <2>2 DEF Once
      <4> QED BY <1>0, <2>2, <4>1, ConcatOnce
    <3> HIDE DEF rest, m
    <3>3. \A u \in Threads : taken'[u] = IF u = t THEN << >> ELSE taken[u]
      BY <1>0, <2>6
    <3>4. \A u \in Threads : taken'[u] # << >> => pc'[u] = "apply"
      BY <1>0, <2>6, <3>3 DEF Once
    <3>5. Once'
      <4>1. \A u \in Threads : u # t =>
               /\ ToSet(rest) \cap ToSet(taken[u]) = {}
               /\ ToSet(m_list) \cap ToSet(taken[u]) = {}
        BY <2>2 DEF Once
      <4>2. \A u \in Threads : u # t =>
               ToSet(m_list') \cap ToSet(taken[u]) = {}
        BY <2>6, <3>1, <4>1
      <4>3. /\ unread' \subseteq unread /\ IsInjective(m_list')
            /\ \A S : ToSet(<< >>) \cap S = {}
        BY <2>3, <2>4, <2>6, <3>2
      <4> QED BY <2>3, <2>4, <3>3, <3>4, <4>2, <4>3, TakenOnce
    <3>6. MessagesKept'
      <4>1. m \notin ToSet(m_list)
            /\ \A u \in Threads : u # t => m \notin ToSet(taken[u])
        BY <2>2 DEF Once
      <4>2. ToSet(m_list') = ToSet(m_list) \cup ToSet(rest)
        BY <2>6, <3>1
      <4> QED BY <2>2, <2>3, <2>4, <3>3, <4>1, <4>2 DEF MessagesKept
    <3> QED BY <3>5, <3>6
  <2> QED BY <1>3, <2>5, <2>6 DEF Apply, Goto
<1>4. CASE CheckEmpty(t) \/ Fire(t)
  BY <1>0, <1>4 DEF CheckEmpty, Fire, Goto, Once, MessagesKept, readVars,
                    history
<1>5. CASE StoreBusy(t) \/ TakeEvent(t) \/ BodyReturns(t) \/ RestoreEvent(t)
              \/ EndLoop(t)
  BY <1>5 DEF StoreBusy, TakeEvent, BodyReturns, RestoreEvent, EndLoop, Once,
              MessagesKept, readVars, history
<1> QED
  BY <1>1, <1>2, <1>3, <1>4, <1>5 DEF Step

LEMMA NextOnce ==
    IInv /\ Once /\ MessagesKept /\ [Next]_vars => Once' /\ MessagesKept'
<1> SUFFICES ASSUME IInv, Once, MessagesKept, [Next]_vars
             PROVE  Once' /\ MessagesKept'
  OBVIOUS
<1>1. CASE Move
  <2>1. /\ m_list' = << >> /\ unread' = {}
        /\ taken' = taken /\ pc' = pc /\ prepared' = prepared
        /\ \A u \in Threads : pc[u] = "idle"
    BY <1>1 DEF Move, readVars
  <2>2. \A u \in Threads : taken[u] = << >>
    BY <2>1 DEF Once
  <2>3. ToSet(<< >>) = {} /\ IsInjective(<< >>)
    BY DEF ToSet, IsInjective
  <2> QED BY <2>1, <2>2, <2>3 DEF Once, MessagesKept
<1>2. ASSUME NEW t \in Threads, Call(t) \/ Step(t)
      PROVE  Once' /\ MessagesKept'
  BY <1>2, CallOnce, StepOnce DEF IInv
<1>3. CASE UNCHANGED vars
  BY <1>3 DEF vars, readVars, history, Once, MessagesKept
<1> QED BY <1>1, <1>2, <1>3 DEF Next

(* What was written and not yet given to a functor is always on the queue  *)
(* or in the hands of one dequeue(), and never in two places: concurrent   *)
(* reads, functors that throw and put messages back, and prepared          *)
(* messages that are committed or dropped lose none and repeat none.       *)
THEOREM NoMessageLost == Spec => []MessagesKept
<1>1. Init => Once /\ MessagesKept
  <2>1. ToSet(<< >>) = {} /\ IsInjective(<< >>)
    BY DEF ToSet, IsInjective
  <2> QED BY <2>1 DEF Init, Once, MessagesKept
<1> QED
  BY <1>1, NextOnce, Invariance, PTL DEF Spec
=============================================================================
