----------------------------- MODULE Threadpool -----------------------------
(***************************************************************************)
(* The thread pool of src/src/threadpool.cc: workers that run the work of  *)
(* the attached service, sleep on the idle list while there is none, and   *)
(* die when set_nthreads() or the destructor says so.                      *)
(*                                                                         *)
(* One action is one atomic operation on shared memory, or one critical    *)
(* section.  The idle and the dead list are taken as linearizable (LlList  *)
(* is about that).  A worker that was deleted keeps its name: a thread     *)
(* that still holds its pointer and uses it makes the program undefined,   *)
(* and the model ends there (undefined).                                   *)
(***************************************************************************)
EXTENDS Integers, Sequences, FiniteSets, SequencesExt

CONSTANTS
    Workers,    \* the worker structures that may ever be allocated
    Owner,      \* the thread that has the threadpool
    Poster,     \* a thread of the attached client, which calls wakeup()
    NoWorker,   \* the null pointer
    Scripts,    \* the calls that may be made on the pool, in order
    MaxPosts,   \* units of work that the client posts
    Inside      \* whether jobs of the pool may make the calls, too

Calls == [op : {"set_nthreads", "attach", "destroy"}, n : Nat]

ASSUME WorkersAssumption ==
    IsFiniteSet(Workers) /\ Cardinality({Owner, Poster, NoWorker}) = 3
    /\ Workers \cap {Owner, Poster, NoWorker} = {}
ASSUME ScriptAssumption ==
    /\ Scripts \subseteq Seq(Calls) /\ MaxPosts \in Nat /\ Inside \in BOOLEAN
    \* The last call on a pool is the one that destroys it.
    /\ \A s \in Scripts : \A i \in 1 .. Len(s) : s[i].op = "destroy" => i = Len(s)

VARIABLES
    n_threads, n_oversize, n_active,   \* the counters of threadpool::impl
    m_idle, m_dead,                    \* its lists of workers
    m_serv,        \* whether a service is attached
    m_state,       \* m_state[w]: worker::m_state, or UNBORN, or DELETED
    pc,            \* pc[w]: where worker w is in _run()
    asleep,        \* workers in the wait loop at the end of do_sleep()
    collect,       \* workers whose tls.collect is set
    waking,        \* waking[t]: the wakeup() that thread t is in
    setting,       \* setting[t]: the set_nthreads() that thread t is in
    script,        \* the calls still to be made
    posts,         \* units of work still to be posted
    pending,       \* units of work that wait to be done
    pool,          \* "live" or "gone"
    undefined,     \* a deleted worker or pool was used
    stolen,        \* history: a worker that had taken a death was woken
    lost           \* history: a change of n_active was lost

history  == <<stolen, lost>>
counters == <<n_threads, n_oversize, n_active>>
lists    == <<m_idle, m_dead>>
client   == <<m_serv, posts, pending>>
workers  == <<m_state, pc, asleep, collect>>
vars     == <<counters, lists, client, workers, waking, setting, script,
              pool, undefined, history>>

Threads == Workers \cup {Owner, Poster}
WakeAll == 1 + Cardinality(Workers)   \* UINT_MAX: until the list is empty
NotWaking == [left |-> 0, at |-> NoWorker, step |-> "pop"]
NotSetting == [step |-> "none", n |-> 0, old |-> 0, at |-> NoWorker,
               read |-> 0, destroy |-> FALSE]

Init ==
    /\ n_threads = 0 /\ n_oversize = 0 /\ n_active = 0
    /\ m_idle = << >> /\ m_dead = << >>
    /\ m_serv = FALSE
    /\ m_state = [w \in Workers |-> "UNBORN"]
    /\ pc = [w \in Workers |-> "unborn"]
    /\ asleep = {} /\ collect = {}
    /\ waking = [t \in Threads |-> NotWaking]
    /\ setting = [t \in Threads |-> NotSetting]
    /\ script \in Scripts
    /\ posts = MaxPosts /\ pending = 0
    /\ pool = "live"
    /\ undefined = FALSE
    /\ stolen = FALSE /\ lost = FALSE

-----------------------------------------------------------------------------
Running == ~undefined /\ pool = "live"
Free(t) == waking[t].left = 0
At(w, where) ==
    Running /\ pc[w] = where /\ Free(w) /\ setting[w].step = "none"
Goto(w, where) == pc' = [pc EXCEPT ![w] = where]
Become(w, s) == m_state' = [m_state EXCEPT ![w] = s]

(* m_sleep_mtx: do_sleep() has it in its wait loop, except in the wait.    *)
HasSleepMtx(w) == w \in asleep /\ pc[w] # "wait"

(* m_sleep_cnd.notify_one() under m_sleep_mtx.                             *)
Notify(w) ==
    /\ ~HasSleepMtx(w)
    /\ pc' = [pc EXCEPT ![w] = IF @ = "wait" THEN "woken" ELSE @]

Without(list, w) ==
    IF w \in ToSet(list)
    THEN RemoveAt(list, CHOOSE i \in DOMAIN list : list[i] = w)
    ELSE list
HasWork == m_serv /\ pending > 0

(* Use of a structure that was deleted.                                    *)
Undefined ==
    /\ undefined' = TRUE
    /\ UNCHANGED <<counters, lists, client, workers, waking, setting, script,
                   pool, history>>

-----------------------------------------------------------------------------
(* impl::wakeup, one worker of the idle list after the other, and          *)
(* worker::wakeup: SLEEP_TEST or SLEEP becomes BUSY, in two attempts.      *)
Wake(t, step) ==
    Running /\ waking[t].left > 0 /\ waking[t].step = step
NextOf(t, step, w) ==
    waking' = [waking EXCEPT ![t].step = step,
                             ![t].at = IF step = "pop" THEN NoWorker ELSE w]
OnlyWaking == UNCHANGED <<counters, client, asleep, collect, setting, script,
                          pool, undefined, lost>>

WakePop(t) ==
    /\ Wake(t, "pop")
    /\ \/ /\ m_idle = << >>
          /\ waking' = [waking EXCEPT ![t] = NotWaking]
          /\ UNCHANGED m_idle
       \/ /\ m_idle # << >>
          /\ NextOf(t, "first", Head(m_idle))
          /\ m_idle' = Tail(m_idle)
    /\ UNCHANGED <<m_dead, m_state, pc, stolen>> /\ OnlyWaking

WakeTry(t, step, from, otherwise) ==
    LET w == waking[t].at
    IN /\ Wake(t, step)
       /\ m_state[w] # "DELETED"
       /\ \/ /\ m_state[w] = from
             /\ Become(w, "BUSY")
             /\ NextOf(t, "notify", w)
             /\ stolen' = (stolen \/ (w \in asleep /\ pc[w] = "die_busy"))
          \/ /\ m_state[w] # from
             /\ NextOf(t, otherwise, w)
             /\ UNCHANGED <<m_state, stolen>>
       /\ UNCHANGED <<lists, pc>> /\ OnlyWaking

(* Mutant: the sleep test is not noticed.                                  *)
WakeSleepersOnly(t) == \/ WakeTry(t, "first", "SLEEP", "pop")
                       \/ WakeTry(t, "second", "SLEEP", "pop")

WakeWorker(t) == \/ WakeTry(t, "first", "SLEEP_TEST", "second")
                 \/ WakeTry(t, "second", "SLEEP", "pop")

WakeNotify(t) ==
    /\ Wake(t, "notify")
    /\ m_state[waking[t].at] # "DELETED"
    /\ Notify(waking[t].at)
    /\ waking' = [waking EXCEPT ![t] =
           IF @.left = 1 THEN NotWaking
           ELSE [NotWaking EXCEPT !.left = IF waking[t].left = WakeAll
                                           THEN WakeAll
                                           ELSE waking[t].left - 1]]
    /\ UNCHANGED <<lists, m_state, stolen>> /\ OnlyWaking

StartWaking(t, n) ==
    waking' = [waking EXCEPT ![t] = [NotWaking EXCEPT !.left = n]]

(* The worker that was popped left do_sleep(), died, and was collected.    *)
WakeDeleted(t) ==
    /\ Running /\ waking[t].left > 0 /\ waking[t].step # "pop"
    /\ m_state[waking[t].at] = "DELETED"
    /\ Undefined

-----------------------------------------------------------------------------
(* worker::must_die.  TRUE leads out of _run(), or out of the wait loop of *)
(* do_sleep(), as FALSE leads to do_work(), or to the wait.                *)
OnlyWorker == UNCHANGED <<waking, setting, script, pool, undefined, history>>
SaysYes(w) == Goto(w, IF w \in asleep THEN "woken" ELSE "exit")
SaysNo(w)  == Goto(w, IF w \in asleep THEN "wait" ELSE "work")

MustDie(w) ==
    /\ At(w, "must_die")
    /\ \/ m_state[w] = "DYING" /\ SaysYes(w) /\ UNCHANGED n_oversize
       \/ m_state[w] # "DYING" /\ n_oversize = 0 /\ SaysNo(w)
          /\ UNCHANGED n_oversize
       \/ /\ m_state[w] # "DYING" /\ n_oversize > 0
          /\ n_oversize' = n_oversize - 1
          /\ Goto(w, "die_busy")
    /\ UNCHANGED <<n_threads, n_active, lists, client, m_state, asleep,
                   collect>>
    /\ OnlyWorker

DieBusy(w) ==
    /\ At(w, "die_busy")
    /\ \/ m_state[w] = "BUSY" /\ Become(w, "DYING") /\ SaysYes(w)
       \/ m_state[w] # "BUSY" /\ Goto(w, "die_asleep") /\ UNCHANGED m_state
    /\ UNCHANGED <<counters, lists, client, asleep, collect>> /\ OnlyWorker

(* Mutant: what must_die() took of the oversize is not put back.           *)
DieAsleepKeeps(w) ==
    /\ At(w, "die_asleep")
    /\ \/ m_state[w] \in {"SLEEP_TEST", "SLEEP"}
          /\ Become(w, "DYING") /\ SaysYes(w)
       \/ m_state[w] \notin {"SLEEP_TEST", "SLEEP"}
          /\ SaysNo(w) /\ UNCHANGED m_state
    /\ UNCHANGED <<counters, lists, client, asleep, collect>> /\ OnlyWorker

(* The last attempts, and increase_oversize(1) when they fail, because     *)
(* another thread woke or killed the worker.                               *)
DieAsleep(w) ==
    /\ At(w, "die_asleep")
    /\ \/ /\ m_state[w] \in {"SLEEP_TEST", "SLEEP"}
          /\ Become(w, "DYING") /\ SaysYes(w)
          /\ UNCHANGED <<n_oversize, waking>>
       \/ /\ m_state[w] \notin {"SLEEP_TEST", "SLEEP"}
          /\ n_oversize' = n_oversize + 1
          /\ StartWaking(w, 1)
          /\ SaysNo(w)
          /\ UNCHANGED m_state
    /\ UNCHANGED <<n_threads, n_active, lists, client, asleep, collect,
                   setting, script, pool, undefined, history>>

(* _run: a unit of work, or collect() and do_sleep().                      *)
DoWork(w) ==
    /\ At(w, "work")
    /\ \/ HasWork /\ pending' = pending - 1 /\ Goto(w, "job")
       \/ ~HasWork /\ Goto(w, "collect") /\ UNCHANGED pending
    /\ UNCHANGED <<counters, lists, m_serv, posts, m_state, asleep, collect>>
    /\ OnlyWorker

JobEnds(w) ==
    /\ At(w, "job")
    /\ Goto(w, "must_die")
    /\ UNCHANGED <<counters, lists, client, m_state, asleep, collect>>
    /\ OnlyWorker

(* impl::collect: join and delete a dead worker.                           *)
CollectOne ==
    /\ m_dead # << >>
    /\ m_dead' = Tail(m_dead)
    /\ Become(Head(m_dead), "DELETED")
    /\ UNCHANGED m_idle

Collect(w) ==
    /\ At(w, "collect")
    /\ \/ CollectOne /\ UNCHANGED pc
       \/ m_dead = << >> /\ Goto(w, "sleep") /\ UNCHANGED <<lists, m_state>>
    /\ UNCHANGED <<counters, client, asleep, collect>> /\ OnlyWorker

(* The collect() that is done once in an interval.                         *)
CollectInterval(w) ==
    /\ At(w, "must_die") /\ w \notin asleep
    /\ CollectOne
    /\ UNCHANGED <<counters, client, pc, asleep, collect>> /\ OnlyWorker

-----------------------------------------------------------------------------
(* worker::do_sleep                                                        *)
OnlySleep == UNCHANGED <<counters, m_dead, client, collect>> /\ OnlyWorker

SleepTest(w) ==
    /\ At(w, "sleep")
    /\ \/ m_state[w] = "BUSY" /\ Become(w, "SLEEP_TEST") /\ Goto(w, "publish")
       \/ m_state[w] # "BUSY" /\ Goto(w, "must_die") /\ UNCHANGED m_state
    /\ UNCHANGED <<m_idle, asleep>> /\ OnlySleep

Publish(w) ==
    /\ At(w, "publish")
    /\ m_idle' = <<w>> \o m_idle
    /\ Goto(w, "test")
    /\ UNCHANGED <<m_state, asleep>> /\ OnlySleep

(* Mutant: the test for work comes before the worker is on the idle list.  *)
TestTooEarly(w) ==
    /\ At(w, "test")
    /\ Goto(w, "lock")
    /\ UNCHANGED <<m_idle, m_state, asleep>> /\ OnlySleep

TestWork(w) ==
    /\ At(w, "test")
    /\ \/ /\ HasWork
          /\ m_state' = [m_state EXCEPT ![w] = IF @ = "SLEEP_TEST" THEN "BUSY"
                                               ELSE @]
          /\ Goto(w, "erase")
       \/ ~HasWork /\ Goto(w, "lock") /\ UNCHANGED m_state
    /\ UNCHANGED <<m_idle, asleep>> /\ OnlySleep

Sleep(w) ==
    /\ At(w, "lock")
    /\ \/ /\ m_state[w] = "SLEEP_TEST"
          /\ Become(w, "SLEEP")
          /\ asleep' = asleep \cup {w}
          /\ Goto(w, "must_die")
       \/ m_state[w] # "SLEEP_TEST" /\ Goto(w, "erase")
          /\ UNCHANGED <<m_state, asleep>>
    /\ UNCHANGED m_idle /\ OnlySleep

(* The wait ends by itself: condition variables may.                       *)
SpuriousWakeup(w) ==
    /\ At(w, "wait")
    /\ Goto(w, "woken")
    /\ UNCHANGED <<m_idle, m_state, asleep>> /\ OnlySleep

Woken(w) ==
    /\ At(w, "woken")
    /\ \/ m_state[w] = "SLEEP" /\ Goto(w, "must_die") /\ UNCHANGED asleep
       \/ m_state[w] # "SLEEP" /\ Goto(w, "erase") /\ asleep' = asleep \ {w}
    /\ UNCHANGED <<m_idle, m_state>> /\ OnlySleep

(* ~idle_set_guard                                                         *)
Erase(w) ==
    /\ At(w, "erase")
    /\ m_idle' = Without(m_idle, w)
    /\ Goto(w, "must_die")
    /\ UNCHANGED <<m_state, asleep>> /\ OnlySleep

-----------------------------------------------------------------------------
(* The end of _run(): DEAD first, and then, under m_active_mtx, off   *)
(* the count and onto the dead list, unless the worker destroys the pool.  *)
Exit(w) ==
    /\ At(w, "exit")
    /\ Become(w, "DEAD")
    /\ Goto(w, "epilogue")
    /\ UNCHANGED <<counters, lists, client, asleep, collect>> /\ OnlyWorker

Epilogue(w) ==
    /\ At(w, "epilogue") /\ n_active > 0
    /\ n_active' = n_active - 1
    /\ \/ w \notin collect /\ m_dead' = Append(m_dead, w) /\ Goto(w, "ended")
       \/ w \in collect /\ Goto(w, "destroy") /\ UNCHANGED m_dead
    /\ UNCHANGED <<n_threads, n_oversize, m_idle, client, m_state, asleep,
                   collect>>
    /\ OnlyWorker

(* The assertion that the worker is counted.                               *)
EpilogueAsserts(w) == At(w, "epilogue") /\ n_active = 0 /\ Undefined

(* impl::~impl, by the owner or by a worker with tls.collect: collect what *)
(* died until no worker is active, and delete the pool.                    *)
Destroying(t) == \/ t = Owner /\ Running /\ setting[t].step = "delete"
                 \/ t \in Workers /\ At(t, "destroy")

DestroyCollects(t) ==
    /\ Destroying(t)
    /\ CollectOne
    /\ UNCHANGED <<counters, client, pc, asleep, collect>> /\ OnlyWorker

(* Mutant: the destructor does not wait for the workers.                   *)
DestroyAtOnce(t) ==
    /\ Destroying(t)
    /\ m_dead = << >>
    /\ pool' = "gone"
    /\ UNCHANGED <<counters, lists, client, workers, waking, setting, script,
                   undefined, history>>

DestroyEnds(t) ==
    /\ Destroying(t)
    /\ n_active = 0 /\ m_dead = << >>
    /\ pool' = "gone"
    /\ \/ t = Owner /\ setting' = [setting EXCEPT ![t] = NotSetting]
          /\ UNCHANGED <<m_state, pc>>
       \/ t # Owner /\ Become(t, "DELETED") /\ Goto(t, "ended")
          /\ UNCHANGED setting
    /\ UNCHANGED <<counters, lists, client, asleep, collect, waking, script,
                   undefined, history>>

-----------------------------------------------------------------------------
(* impl::set_nthreads, called by the owner or, in a job, by a worker.      *)
Callers == {Owner} \cup Workers
Setting(t, step) == Running /\ Free(t) /\ setting[t].step = step
InJob(t) == t \in Workers /\ Inside /\ At(t, "job")
MayCall(t, op) ==
    /\ \/ t = Owner /\ Setting(t, "none")
       \/ InJob(t)
    /\ script # << >> /\ Head(script).op = op
    /\ script' = Tail(script)

Step(t, step) == [setting[t] EXCEPT !.step = step]
Set(t, s) == setting' = [setting EXCEPT ![t] = s]
OnlySetting == UNCHANGED <<client, asleep, collect, script, pool, undefined,
                           history>>

Exchange(t, n, destroy) ==
    /\ n_threads' = n
    /\ Set(t, [NotSetting EXCEPT
                   !.step = IF n_threads < n THEN "cancel" ELSE "create",
                   !.n = n, !.old = n_threads, !.destroy = destroy])

SetNThreads(t) ==
    /\ MayCall(t, "set_nthreads")
    /\ Exchange(t, Head(script).n, FALSE)
    /\ UNCHANGED <<n_oversize, n_active, lists, client, workers, waking, pool,
                   undefined, history>>

(* impl_deleter: nobody else may use the pool any longer.                  *)
Destroy(t) ==
    /\ MayCall(t, "destroy")
    /\ \A u \in Callers : setting[u].step = "none"
    /\ Exchange(t, 0, TRUE)
    /\ UNCHANGED <<n_oversize, n_active, lists, client, workers, waking, pool,
                   undefined, history>>

(* reduce_oversize: growth first cancels deaths that are due.              *)
CancelDeaths(t) ==
    LET want == setting[t].n - setting[t].old
        r == IF want < n_oversize THEN want ELSE n_oversize
    IN /\ Setting(t, "cancel")
       /\ n_oversize' = n_oversize - r
       /\ Set(t, [Step(t, "create") EXCEPT !.old = @ + r])
       /\ UNCHANGED <<n_threads, n_active, lists, m_state, pc, waking>>
       /\ OnlySetting

(* create_worker: the thread is held back by m_init_mtx until              *)
(* assign_thread() has counted it.  The increment of n_active is not       *)
(* atomic, and not under m_active_mtx: when another thread changes it      *)
(* between its read and its write, one of the two changes may be lost.     *)
CreateWorker(t) ==
    /\ Setting(t, "create") /\ setting[t].old < setting[t].n
    /\ LET w == CHOOSE v \in Workers : m_state[v] = "UNBORN"
       IN /\ \E v \in Workers : m_state[v] = "UNBORN"
          /\ Become(w, "BUSY")
          /\ Goto(w, "init")
          /\ Set(t, [Step(t, "assign") EXCEPT !.at = w, !.read = n_active,
                                              !.old = @ + 1])
    /\ UNCHANGED <<counters, lists, waking>>
    /\ OnlySetting

AssignThread(t) ==
    /\ Setting(t, "assign")
    /\ n_active' \in IF n_active = setting[t].read THEN {n_active + 1}
                     ELSE {n_active, n_active + 1, setting[t].read + 1}
    /\ lost' = (lost \/ n_active' # n_active + 1)
    /\ Goto(setting[t].at, "must_die")
    /\ Set(t, [Step(t, "create") EXCEPT !.at = NoWorker, !.read = 0])
    /\ UNCHANGED <<n_threads, n_oversize, lists, m_state, waking>>
    /\ UNCHANGED <<client, asleep, collect, script, pool, undefined, stolen>>

(* Shrinking kills the worker that sleeps longest, while one sleeps, ...   *)
Return(t) == Set(t, IF setting[t].destroy THEN Step(t, "detach")
                    ELSE NotSetting)

KillPop(t) ==
    LET old == setting[t].old
    IN /\ Setting(t, "create") /\ old >= setting[t].n
       /\ \/ old > setting[t].n /\ m_idle # << >>
             /\ Set(t, [Step(t, "kill") EXCEPT !.at = Last(m_idle)])
             /\ m_idle' = Front(m_idle)
          \/ old > setting[t].n /\ m_idle = << >>
             /\ Set(t, Step(t, "oversize"))
             /\ UNCHANGED m_idle
          \/ old = setting[t].n /\ Return(t) /\ UNCHANGED m_idle
       /\ UNCHANGED <<counters, m_dead, m_state, pc, waking>>
       /\ OnlySetting

(* ... worker::kill by its m_state.exchange(DYING), ...                    *)
Kill(t) ==
    LET w == setting[t].at
    IN /\ Setting(t, "kill")
       /\ m_state[w] \notin {"DEAD", "DELETED"}
       /\ Become(w, "DYING")
       /\ Set(t, [Step(t, IF m_state[w] \in {"SLEEP", "SLEEP_TEST"}
                          THEN "kill_notify" ELSE "create")
                  EXCEPT !.old = IF m_state[w] = "DYING" THEN @ ELSE @ - 1])
       /\ UNCHANGED <<counters, lists, pc, waking>>
       /\ OnlySetting

KillNotify(t) ==
    /\ Setting(t, "kill_notify")
    /\ m_state[setting[t].at] # "DELETED"
    /\ Notify(setting[t].at)
    /\ Set(t, Step(t, "create"))
    /\ UNCHANGED <<counters, lists, m_state, waking>>
    /\ OnlySetting

(* The case DEAD of kill(), which asserts, and pointers to the deleted.    *)
KillDead(t) ==
    /\ \/ Setting(t, "kill") /\ m_state[setting[t].at] \in {"DEAD", "DELETED"}
       \/ Setting(t, "kill_notify") /\ m_state[setting[t].at] = "DELETED"
    /\ Undefined

(* ... then itself, when a worker calls, and leaves the rest to            *)
(* increase_oversize.                                                      *)
Suicides(t) == t \in Workers /\ m_state[t] # "DYING"
More(t) == setting[t].old - setting[t].n - (IF Suicides(t) THEN 1 ELSE 0)
Suicide(t) == IF Suicides(t) THEN Become(t, "DYING") ELSE UNCHANGED m_state

(* Mutant: the threads that are to die are published, not woken.           *)
OversizeSilent(t) ==
    /\ Setting(t, "oversize")
    /\ Suicide(t)
    /\ n_oversize' = n_oversize + More(t)
    /\ Return(t)
    /\ UNCHANGED <<n_threads, n_active, lists, pc, waking>>
    /\ OnlySetting

PublishOversize(t) ==
    /\ Setting(t, "oversize")
    /\ Suicide(t)
    /\ n_oversize' = n_oversize + More(t)
    /\ StartWaking(t, More(t))
    /\ Return(t)
    /\ UNCHANGED <<n_threads, n_active, lists, pc>>
    /\ OnlySetting

(* The rest of impl_deleter: detach the service; delete the pool, or leave *)
(* that to the worker that runs this.                                      *)
Detach(t) ==
    /\ Setting(t, "detach")
    /\ m_serv' = FALSE
    /\ \/ /\ t \in Workers
          /\ collect' = collect \cup {t}
          /\ Set(t, NotSetting)
       \/ t = Owner /\ Set(t, Step(t, "delete")) /\ UNCHANGED collect
    /\ UNCHANGED <<counters, lists, posts, pending, m_state, pc, asleep,
                   waking, script, pool, undefined, history>>

(* impl::attach, with wakeup(UINT_MAX).                                    *)
Attach(t) ==
    /\ MayCall(t, "attach")
    /\ ~m_serv
    /\ m_serv' = TRUE
    /\ StartWaking(t, WakeAll)
    /\ UNCHANGED <<counters, lists, posts, pending, workers, setting, pool,
                   undefined, history>>

(* The client has a unit of work, and calls threadpool_service::wakeup(1). *)
Post ==
    /\ Running /\ posts > 0 /\ Free(Poster)
    /\ posts' = posts - 1
    /\ pending' = pending + 1
    /\ IF m_serv THEN StartWaking(Poster, 1) ELSE UNCHANGED waking
    /\ UNCHANGED <<counters, lists, m_serv, workers, setting, script, pool,
                   undefined, history>>

(* A thread that has not finished with the pool goes on after its end.     *)
UsesPool(t) ==
    \/ ~Free(t)
    \/ t \in Workers /\ pc[t] \notin {"unborn", "ended"}

PoolDeleted(t) ==
    /\ pool = "gone" /\ ~undefined /\ UsesPool(t)
    /\ Undefined

-----------------------------------------------------------------------------
WorkerStep(w) ==
    \/ MustDie(w) \/ DieBusy(w) \/ DieAsleep(w) \/ DoWork(w) \/ Collect(w)
    \/ SleepTest(w) \/ Publish(w) \/ TestWork(w) \/ Sleep(w) \/ Woken(w)
    \/ Erase(w) \/ Exit(w) \/ Epilogue(w) \/ EpilogueAsserts(w)

WakeStep(t) ==
    WakePop(t) \/ WakeWorker(t) \/ WakeNotify(t) \/ WakeDeleted(t)

SetStep(t) ==
    \/ CancelDeaths(t) \/ CreateWorker(t) \/ AssignThread(t) \/ KillPop(t)
    \/ Kill(t) \/ KillNotify(t) \/ KillDead(t)
    \/ PublishOversize(t) \/ Detach(t)

CallStep(t) == SetNThreads(t) \/ Destroy(t) \/ Attach(t)
DestroyStep(t) == DestroyCollects(t) \/ DestroyEnds(t)

Next ==
    \/ \E w \in Workers : \/ WorkerStep(w) \/ JobEnds(w) \/ CollectInterval(w)
                           \/ SpuriousWakeup(w)
    \/ \E t \in Threads : WakeStep(t) \/ PoolDeleted(t)
    \/ \E t \in Callers : SetStep(t) \/ CallStep(t) \/ DestroyStep(t)
    \/ Post

(* Every thread goes on, and the owner makes its calls.  Whether a job     *)
(* makes one, whether the client posts, and spurious wakeups are free.     *)
Fairness ==
    /\ \A w \in Workers : WF_vars(\/ WorkerStep(w) \/ JobEnds(w) \/ WakeStep(w)
                                 \/ SetStep(w) \/ DestroyStep(w))
    /\ WF_vars(WakeStep(Owner) \/ SetStep(Owner) \/ DestroyStep(Owner)
               \/ CallStep(Owner))
    /\ WF_vars(WakeStep(Poster))

Spec == Init /\ [][Next]_vars /\ Fairness

-----------------------------------------------------------------------------
States == {"UNBORN", "BUSY", "SLEEP_TEST", "SLEEP", "DYING", "DEAD", "DELETED"}
Places == {"unborn", "init", "must_die", "die_busy", "die_asleep", "work",
           "job", "collect", "sleep", "publish", "test", "lock", "wait",
           "woken", "erase", "exit", "epilogue", "destroy", "ended"}
Worker == Workers \cup {NoWorker}

(* The variables have their types; no worker is on a list twice.           *)
TypeOK ==
    /\ n_threads \in Nat /\ n_oversize \in Nat /\ n_active \in Nat
    /\ m_idle \in Seq(Workers) /\ IsInjective(m_idle)
    /\ m_dead \in Seq(Workers) /\ IsInjective(m_dead)
    /\ m_serv \in BOOLEAN
    /\ m_state \in [Workers -> States]
    /\ pc \in [Workers -> Places]
    /\ asleep \subseteq Workers /\ collect \subseteq Workers
    /\ waking \in [Threads -> [left : Nat, at : Worker,
                               step : {"pop", "first", "second", "notify"}]]
    /\ setting \in [Threads ->
           [step : {"none", "cancel", "create", "assign", "kill",
                    "kill_notify", "oversize", "detach", "delete"},
            n : Nat, old : Nat, at : Worker, read : Nat, destroy : BOOLEAN]]
    /\ script \in Seq(Calls)
    /\ posts \in Nat /\ pending \in Nat
    /\ pool \in {"live", "gone"}
    /\ undefined \in BOOLEAN /\ stolen \in BOOLEAN /\ lost \in BOOLEAN

Living(w) == m_state[w] \in {"BUSY", "SLEEP_TEST", "SLEEP"}

(* Worker w is between taking a death off n_oversize and dying of it.      *)
HoldsDeath(w) == pc[w] \in {"die_busy", "die_asleep"}

(* What call s of set_nthreads(), of thread t, has still to do: the        *)
(* workers that it is to create, and those that it is to do away with.     *)
Changes(s) == s.step \notin {"none", "detach", "delete"}
ToCreate(s, t) == IF Changes(s) THEN {t} \X (s.old + 1 .. s.n) ELSE {}
ToKill(s, t)   == IF Changes(s) THEN {t} \X (s.n + 1 .. s.old) ELSE {}

Alive   == {w \in Workers : Living(w)}
Doomed  == {w \in Workers : HoldsDeath(w)}
Missing == UNION {ToCreate(setting[t], t) : t \in Callers}
Surplus == UNION {ToKill(setting[t], t) : t \in Callers}

(* No interleaving of set_nthreads(), wakeup() and dying workers loses or  *)
(* doubles a worker: those that are to live, the deaths that are due       *)
(* (n_oversize, or taken by a worker in must_die()) and the calls in       *)
(* progress account for n_threads (threadpool.cc:425, 622).                *)
WorkersAddUp ==
    Cardinality(Alive) + Cardinality(Missing)
      = n_threads + n_oversize + Cardinality(Surplus) + Cardinality(Doomed)

(* A worker that waits in SLEEP can be found: it is on the idle list, or   *)
(* a thread that popped it is about to wake or kill it.  One that waits in *)
(* another state is about to be notified (threadpool.cc:589-618).          *)
SleepersAreReachable ==
    \A w \in Workers : pc[w] = "wait" =>
        \/ m_state[w] = "SLEEP" /\ w \in ToSet(m_idle)
        \/ \E t \in Threads : waking[t].left > 0 /\ waking[t].at = w
        \/ \E t \in Callers :
              setting[t].at = w /\ setting[t].step \in {"kill", "kill_notify"}

(* n_active counts the workers whose epilogue has not been done, once the  *)
(* call that creates them has counted them, unless a change of it is lost. *)
ActiveIsCounted ==
    (~lost /\ \A t \in Callers : setting[t].step # "assign") =>
        n_active = Cardinality({w \in Workers :
                                  pc[w] \notin {"unborn", "ended", "destroy"}})

(* The numbers of the pool agree with its workers, at every step of calls  *)
(* and workers that count without a common lock.                           *)
WorkersAccounted == TypeOK /\ WorkersAddUp /\ ActiveIsCounted

(* The pool is deleted when all of its workers have ended, even when one   *)
(* of them deletes it, unless they are counted wrong                       *)
(* (threadpool.cc:167, 505).                                               *)
PoolOutlivesWorkers ==
    pool = "gone" /\ ~lost => \A w \in Workers : pc[w] \in {"unborn", "ended"}

(* Posted work does not wait forever while the pool keeps a service and is *)
(* to have a worker: what is published between a worker's test for work    *)
(* and its sleep wakes it (threadpool.cc:598-618).  This is about pools    *)
(* that do not shrink: a wakeup may be spent on a worker that dies (633).  *)
WorkIsDone == []<>(pending = 0 \/ n_threads = 0 \/ ~m_serv \/ undefined)

(* The destructor, which alone sets the pool to no threads, ends, whoever  *)
(* calls it.                                                               *)
DestroyReturns ==
    []<>(script # << >> \/ n_threads > 0 \/ pool = "gone"
         \/ undefined \/ stolen \/ lost)
=============================================================================
