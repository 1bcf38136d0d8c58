------------------------------ MODULE Monitor ------------------------------
(***************************************************************************)
(* The monitor of src/src/monitor.cc: a lock with read, upgrade and write  *)
(* access, handed out as tokens through futures, or taken by lock() and    *)
(* lock_shared().                                                          *)
(*                                                                         *)
(* A client stands for one token (or one hold of lock()) and for the       *)
(* thread that asks for it, destroys it and copies it.  One action is one  *)
(* critical section of mtx_.  A promise is set outside of the critical     *)
(* section that granted its token; the token counts from the grant on, and *)
(* a client that acts late has received it late.                           *)
(***************************************************************************)
EXTENDS Integers, Sequences, FiniteSets, SequencesExt

CONSTANTS
    Clients,   \* tokens and lock holds that may exist at the same time
    Calls      \* what the clients may call

CallNames == {"queue", "try_immediate", "lock", "lock_shared",
              "try_lock_shared", "copy", "upgrade_to_write",
              "downgrade_to_read", "downgrade_to_upgrade"}

ASSUME ClientsAssumption == IsFiniteSet(Clients)
ASSUME CallsAssumption == Calls \subseteq CallNames

VARIABLES
    active_readers_,   \* monitor::active_readers_
    active_writers_,   \* monitor::active_writers_, upgraders included
    upgrade_active_,   \* monitor::upgrade_active_
    w_queue_,          \* requests for write and upgrade access, in order
    r_queue_,          \* requests for read access: all are granted at once
    u_queue_,          \* requests of upgraders for write access
    held,              \* held[c]: the access of the token of c
    plain,             \* clients that hold by lock() or lock_shared()
    serving,           \* clients in unlock_, before its second section
    family             \* history: the client whose grant c's derives from

counters == <<active_readers_, active_writers_, upgrade_active_>>
queues   == <<w_queue_, r_queue_, u_queue_>>
vars     == <<counters, queues, held, plain, serving, family>>

Access == {"none", "read", "upgrade", "write"}
Requests == [access : {"upgrade", "write"}, client : Clients]

Init ==
    /\ active_readers_ = 0
    /\ active_writers_ = 0
    /\ upgrade_active_ = 0
    /\ w_queue_ = << >>
    /\ r_queue_ = {}
    /\ u_queue_ = {}
    /\ held = [c \in Clients |-> "none"]
    /\ plain = {}
    /\ serving = {}
    /\ family = [c \in Clients |-> c]

-----------------------------------------------------------------------------
Queued(c) ==
    \/ c \in r_queue_ \cup u_queue_
    \/ \E i \in DOMAIN w_queue_ : w_queue_[i].client = c

(* A client without a token, a request or a call in progress.              *)
Idle(c) == held[c] = "none" /\ ~Queued(c) /\ c \notin serving

(* What one token of access a counts for.                                  *)
Reads(a) == IF a = "read" THEN 1 ELSE 0
Upgrades(a) == IF a = "upgrade" THEN 1 ELSE 0
Writes(a) == IF a \in {"upgrade", "write"} THEN 1 ELSE 0

(* Mutant: the FALLTHROUGH from upgrade to write is missing.               *)
CountNoFallthrough(a) ==
    /\ active_readers_' = active_readers_ + Reads(a)
    /\ upgrade_active_' = upgrade_active_ + Upgrades(a)
    /\ active_writers_' = active_writers_ + Writes(a) - Upgrades(a)

(* monitor::add_, and the counting of every grant.                         *)
Count(a) ==
    /\ active_readers_' = active_readers_ + Reads(a)
    /\ upgrade_active_' = upgrade_active_ + Upgrades(a)
    /\ active_writers_' = active_writers_ + Writes(a)

Grant(c, a, origin) ==
    /\ Count(a)
    /\ held' = [held EXCEPT ![c] = a]
    /\ family' = [family EXCEPT ![c] = origin]
    /\ UNCHANGED <<queues, serving>>

NobodyActive == active_writers_ = 0 /\ active_readers_ = 0

(* monitor::queue_                                                         *)
Queue(c, a) ==
    LET now == \/ a = "read" /\ (active_writers_ = 0 \/ upgrade_active_ # 0)
               \/ a # "read" /\ NobodyActive
    IN /\ "queue" \in Calls
       /\ Idle(c)
       /\ \/ now /\ Grant(c, a, c)
          \/ /\ ~now
             /\ \/ /\ a = "read"
                   /\ r_queue_' = r_queue_ \cup {c}
                   /\ UNCHANGED w_queue_
                \/ /\ a # "read"
                   /\ w_queue_' = Append(w_queue_, [access |-> a, client |-> c])
                   /\ UNCHANGED r_queue_
             /\ family' = [family EXCEPT ![c] = c]
             /\ UNCHANGED <<counters, u_queue_, held, serving>>
       /\ UNCHANGED plain

(* Mutant: an upgrade looks at the readers and forgets the writers.        *)
AvailableBesidesWriter(a) ==
    \/ a = "read" /\ active_writers_ = upgrade_active_
    \/ a = "upgrade" /\ active_readers_ = 0
    \/ a = "write" /\ NobodyActive

Available(a) ==
    \/ a = "read" /\ active_writers_ = upgrade_active_
    \/ a = "upgrade" /\ active_writers_ = 0
    \/ a = "write" /\ NobodyActive

(* monitor::try_immediate; a refusal changes nothing.                      *)
TryImmediate(c, a) ==
    /\ "try_immediate" \in Calls
    /\ Idle(c)
    /\ Available(a)
    /\ Grant(c, a, c)
    /\ UNCHANGED plain

(* monitor::lock (which spins) and try_lock.                               *)
Lock(c) ==
    /\ "lock" \in Calls
    /\ Idle(c)
    /\ NobodyActive
    /\ Grant(c, "write", c)
    /\ plain' = plain \cup {c}

(* monitor::lock_shared spins until as many readers as upgraders are       *)
(* active.                                                                 *)
LockShared(c) ==
    /\ "lock_shared" \in Calls
    /\ Idle(c)
    /\ active_readers_ = upgrade_active_
    /\ Grant(c, "read", c)
    /\ plain' = plain \cup {c}

TryLockShared(c) ==
    /\ "try_lock_shared" \in Calls
    /\ Idle(c)
    /\ active_writers_ = upgrade_active_
    /\ Grant(c, "read", c)
    /\ plain' = plain \cup {c}

(* The copy constructor of token.                                          *)
Copy(c, d) ==
    /\ "copy" \in Calls
    /\ held[c] # "none" /\ c \notin plain
    /\ Idle(d)
    /\ Grant(d, held[c], family[c])
    /\ UNCHANGED plain

(* token::downgrade_to_read leaves its own token alone.                    *)
DowngradeToRead(c, d) ==
    /\ "downgrade_to_read" \in Calls
    /\ held[c] \in {"upgrade", "write"} /\ c \notin plain
    /\ Idle(d)
    /\ Grant(d, "read", family[c])
    /\ UNCHANGED plain

DowngradeToUpgrade(c, d) ==
    /\ "downgrade_to_upgrade" \in Calls
    /\ held[c] = "write" /\ c \notin plain
    /\ Idle(d)
    /\ Grant(d, "upgrade", family[c])
    /\ UNCHANGED plain

(* monitor::upgrade_to_write_: the writer counts from the request on.      *)
UpgradeToWrite(c, d) ==
    /\ "upgrade_to_write" \in Calls
    /\ held[c] = "upgrade" /\ c \notin plain
    /\ Idle(d)
    /\ active_writers_' = active_writers_ + 1
    /\ \/ /\ active_readers_ = 0
          /\ held' = [held EXCEPT ![d] = "write"]
          /\ UNCHANGED u_queue_
       \/ /\ active_readers_ # 0
          /\ u_queue_' = u_queue_ \cup {d}
          /\ UNCHANGED held
    /\ family' = [family EXCEPT ![d] = family[c]]
    /\ UNCHANGED <<active_readers_, upgrade_active_, w_queue_, r_queue_,
                   plain, serving>>
-----------------------------------------------------------------------------
(* monitor::unlock_, which also runs when a token is destroyed.  Its parts *)
(* take the counters and the tokens as the parts before left them.         *)

(* All requests of upgraders are granted once there are no readers; they   *)
(* are counted already.  While there are some, nobody else is served.      *)
ServeUpgraders(readers, tokens) ==
    /\ IF readers = 0
       THEN /\ u_queue_' = {}
            /\ held' = [c \in Clients |->
                           IF c \in u_queue_ THEN "write" ELSE tokens[c]]
       ELSE UNCHANGED u_queue_ /\ held' = tokens
    /\ UNCHANGED <<w_queue_, r_queue_>>

(* Mutant: one promise is taken for the whole queue of readers.            *)
ServeReadersAsOne(readers, writers, upgraders, tokens) ==
    /\ active_readers_' = readers
          + IF writers = upgraders /\ r_queue_ # {} THEN 1 ELSE 0
    /\ r_queue_' = IF writers = upgraders THEN {} ELSE r_queue_
    /\ held' = [c \in Clients |->
                   IF c \in r_queue_ /\ writers = upgraders
                   THEN "read" ELSE tokens[c]]

(* All requests for read access are granted, unless somebody writes.       *)
ServeReaders(readers, writers, upgraders, tokens) ==
    /\ active_readers_' = readers
          + IF writers = upgraders THEN Cardinality(r_queue_) ELSE 0
    /\ r_queue_' = IF writers = upgraders THEN {} ELSE r_queue_
    /\ held' = [c \in Clients |->
                   IF c \in r_queue_ /\ writers = upgraders
                   THEN "read" ELSE tokens[c]]

(* Mutant: a reader that leaves does not look for a writer to serve.       *)
WriterNextAfterWriter(writers) ==
    w_queue_ # << >> /\ writers = 0 /\ active_writers_ # 0

(* A request for write or upgrade access waits and nobody has it: the test *)
(* does not ask for readers.                                               *)
WriterNext(writers) == w_queue_ # << >> /\ writers = 0

(* After the release: upgraders first, then one writer or upgrader, then   *)
(* the readers.  An upgrader is given its token before the readers are     *)
(* looked at again, in a second critical section.                          *)
Unlock(c) ==
    LET readers   == active_readers_ - Reads(held[c])
        writers   == active_writers_ - Writes(held[c])
        upgraders == upgrade_active_ - Upgrades(held[c])
        tokens    == [held EXCEPT ![c] = "none"]
        head      == Head(w_queue_)
    IN /\ held[c] # "none"
       /\ \/ /\ u_queue_ # {}
             /\ ServeUpgraders(readers, tokens)
             /\ active_readers_' = readers
             /\ active_writers_' = writers
             /\ upgrade_active_' = upgraders
             /\ UNCHANGED serving
          \/ /\ u_queue_ = {} /\ WriterNext(writers)
             /\ w_queue_' = Tail(w_queue_)
             /\ active_readers_' = readers
             /\ active_writers_' = writers + 1
             /\ upgrade_active_' = upgraders + Upgrades(head.access)
             /\ held' = [tokens EXCEPT ![head.client] = head.access]
             /\ serving' = IF head.access = "upgrade" THEN serving \cup {c}
                           ELSE serving
             /\ UNCHANGED <<r_queue_, u_queue_>>
          \/ /\ u_queue_ = {} /\ ~WriterNext(writers)
             /\ ServeReaders(readers, writers, upgraders, tokens)
             /\ active_writers_' = writers
             /\ upgrade_active_' = upgraders
             /\ UNCHANGED <<w_queue_, u_queue_, serving>>
       /\ plain' = plain \ {c}
       /\ UNCHANGED family

(* Mutant: the second critical section is left out.                        *)
UnlockReadersNever(c) ==
    /\ c \in serving
    /\ serving' = serving \ {c}
    /\ UNCHANGED <<counters, queues, held, plain, family>>

(* The second critical section of unlock_.                                 *)
UnlockReaders(c) ==
    /\ c \in serving
    /\ ServeReaders(active_readers_, active_writers_, upgrade_active_, held)
    /\ serving' = serving \ {c}
    /\ UNCHANGED <<active_writers_, upgrade_active_, w_queue_, u_queue_,
                   plain, family>>

-----------------------------------------------------------------------------
Acquire(c) ==
    \/ \E a \in Access \ {"none"} : Queue(c, a) \/ TryImmediate(c, a)
    \/ Lock(c) \/ LockShared(c) \/ TryLockShared(c)

Derive(c, d) ==
    \/ Copy(c, d) \/ UpgradeToWrite(c, d)
    \/ DowngradeToRead(c, d) \/ DowngradeToUpgrade(c, d)

Next ==
    \/ \E c \in Clients : Acquire(c) \/ Unlock(c) \/ UnlockReaders(c)
    \/ \E c, d \in Clients : Derive(c, d)

Spec == Init /\ [][Next]_vars

(* Tokens are destroyed after some time, and unlock_ runs to its end.      *)
Fairness ==
    \A c \in Clients : WF_vars(Unlock(c)) /\ WF_vars(UnlockReaders(c))

(* Operations that keep access alive without a request: tokens may beget   *)
(* tokens for ever, and lock_shared overtakes those who wait.              *)
Prolong ==
    \/ \E c \in Clients : LockShared(c)
    \/ \E c, d \in Clients : Copy(c, d) \/ DowngradeToUpgrade(c, d)

(* The clients stop prolonging access some time.                           *)
FairSpec == Spec /\ Fairness /\ <>[][~Prolong]_vars

-----------------------------------------------------------------------------
(* Properties.                                                             *)

Readers   == {c \in Clients : held[c] = "read"}
Upgraders == {c \in Clients : held[c] = "upgrade"}

(* Write and upgrade tokens, and requests of upgraders.                    *)
Writers == {c \in Clients : held[c] \in {"upgrade", "write"}} \cup u_queue_

(* Every variable has its type; in particular no counter goes below zero,  *)
(* where the uintptr_t of the code would wrap.                             *)
TypeOK ==
    /\ active_readers_ \in Nat
    /\ active_writers_ \in Nat
    /\ upgrade_active_ \in Nat
    /\ w_queue_ \in Seq(Requests)
    /\ r_queue_ \subseteq Clients
    /\ u_queue_ \subseteq Clients
    /\ held \in [Clients -> Access]
    /\ plain \subseteq Clients
    /\ serving \subseteq Clients
    /\ family \in [Clients -> Clients]

(* The three counters count the tokens there are, through copies, grants   *)
(* from the queues and upgrades: every test in the code is about them, and *)
(* the asserts about upgrade_active_ follow.                               *)
CountersExact ==
    /\ active_readers_ = Cardinality(Readers)
    /\ active_writers_ = Cardinality(Writers)
    /\ upgrade_active_ = Cardinality(Upgraders)

(* Write and upgrade access is exclusive: all tokens with such access, and *)
(* the requests of upgraders, derive from one grant.                       *)
OneFamily == \A c, d \in Writers : family[c] = family[d]

(* No wakeup is lost, so that the asserts of ~monitor about its queues     *)
(* hold: whoever waits has somebody to wait for, whose unlock_ serves it.  *)
NobodyStranded ==
    /\ u_queue_ # {} => active_readers_ > 0
    /\ w_queue_ # << >> => active_writers_ > 0 \/ active_readers_ > 0
    /\ r_queue_ # {} => active_writers_ > upgrade_active_ \/ serving # {}

(* A request for write or upgrade access leaves its queue some time, which *)
(* it does only with its grant, as long as tokens are destroyed and not    *)
(* multiplied for ever.                                                    *)
RequestsServed ==
    \A c \in Clients :
        []<>(/\ c \notin u_queue_
             /\ \A i \in DOMAIN w_queue_ : w_queue_[i].client # c)
=============================================================================
