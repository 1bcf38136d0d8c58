# A TLA+ model of ilias_async

ilias_async is a C++ library for asynchronous programs: work queues with jobs,
a thread pool, futures and promises, message queues, an asynchronous
reader/writer monitor, and the lock-free containers these are built on. This
directory holds TLA+ modules of its concurrent parts, TLC configurations that
model-check them, and proofs that the TLA+ proof system checks. Paths below
are relative to the repository, which is mounted as `src/`: the C++ sources are
`src/src/*.cc` and `src/include/ilias/*.h`. `PROJECT.json` is the index: it
gives for each definition of a module the source lines it stands for, for each
run what it checks, for each property a plausible bug of the code that breaks
it, and the list of hazards of the code with the properties that watch them.

Contents: 1. the system. 2. modules and plan. 3. workq run queue. 4. monitor.
5. message queue. 6. threadpool. 7. threadpool interface. 8. futures and
promises. 9. run locks, coroutines and lifetimes. 10. lock-free list. 11. lock-
free pointer and hazards. 12. disagreements found. 13. what is proved.
14. what is left out. 15. running it.


## 1. The system

Each part below has its state, its operations, how it meets the other parts,
what is hard about it and what makes it correct. Parts without a module are
explained in section 14.

**workq run queue** (`workq.cc`, `workq.h`; modules `Workq`, `WorkqContract`).
State: per job a word of bits (RUNNING, HAS_RUN, ACTIVE) and a generation
counter; per workq two lock-free lists of jobs (all jobs; PARALLEL jobs), a
flag for "run single" and a counter of "run parallel" holders; per service a
lock-free list of workqs with jobs; per thread a stack of the jobs it runs.
Operations: `activate` (with ACT_IMMED: run it here if possible), `deactivate`,
`workq::aid`, `workq_service::aid`, and the chain behind them (lock a workq,
pop a job, lock the job, downgrade, run, unlock). Hard: nothing is protected by
a mutex, every step is one atomic operation, and all of them race. Correct
when: jobs of one workq exclude each other unless PARALLEL; no job runs twice
at once; every activation leads to a run; `deactivate` waits for the run.

**co-runnables and coroutine jobs** (`workq.cc:671-760`, `workq.h`; module
`WorkqRun`). A job that
several threads run together: it publishes itself on the service's co-routine
runq with a count of threads wanted, helpers call `co_run`, the last one
releases the job. State: the count, the runq, the job's run lock that is handed
to the co-routine. Correct when: the run lock is released once, by the last
helper, and the co-routine ends.

**workq_switch, lock_wq, unlock_wq** (`workq.cc:490-520, 1290-1400`; module
`WorkqRun`). A thread
inside a job moves to another workq, or gives its lock up for a while. Correct
when: the locks on the stack match what is held, and threads that switch
cannot wait for each other for ever.

**lifetimes of jobs, workqs, services** (`workq.cc:900-1290`, `workq.h`; module
`WorkqRun`).
Reference counts external (`refpointer`) and internal (`workq_intref`), a
deleter that deactivates the job, and wrappers `job_single`, `job_once`.
Correct when: nobody uses a job that is destroyed; the last reference deletes.

**threadpool** (`threadpool.cc`, `threadpool.h`; module `Threadpool`). State: workers with a state
(BUSY, SLEEP_TEST, SLEEP, DYING, DEAD), lock-free lists of idle and dead
workers, the wanted and the surplus number of threads, a count of live workers
under a mutex. Operations: the worker's loop (do work, look for work, publish
as idle, sleep, die), `wakeup`, `set_nthreads`, collecting dead workers,
destruction from outside and from a worker. Correct when: no wakeup is missed,
the number of workers converges, destruction waits for all.

**threadpool interface** (`threadpool_intf.h`, `threadpool_intf.cc`; module
`ThreadpoolIntf`). Glue
between a client (has work) and a service (has threads): three reference
counts, two counts of locks against destruction, multiplexers for many clients
or many services with states YES, MAYBE, NO, DETACHED per client, and
`tp_aid_service` with a callback. Correct when: work that was announced is
polled; neither side calls the other after it detached.

**future and promise** (`future.h`, `future-inl.h`, `future.cc`; modules
`Future`, `FutureContract`). A shared
state: uninitialized, deferred, converted, or ready with a value or an
exception; a spin lock; callbacks and dependants; reference counts of promises
and futures. Correct when: it becomes ready once, each callback runs exactly
once whether installed before or after, waiters wake up, an abandoned promise
does what the documentation says.

**message queue** (`msg_queue.h`, `msg_queue.cc`; modules `MsgQueue`,
`MsgQueueContract`). A lock-free queue of
messages (or a counter, for `void`), with an event: a callback under a mutex and
a word (IDLE, BUSY, AGAIN) that makes it run in one thread at a time and again
when a message arrives meanwhile. Also `prepare_enqueue` (allocate, assign,
commit). Correct when: each message is read at most once; the callback runs
after each enqueue, never in two threads; a new callback follows the old one.

**message queue pointers** (`mq_ptr.h`, `mq_ptr.cc`): input and output
pointers with a count each; the last one of a side acts on the queue.

**promise message queue** (`prom_msg_queue.h`): futures deliver into a queue.
**workq callbacks** (`wq_callback.h`): a message queue's event, or a future's
callback, activates a job.

**monitor** (`monitor.cc`, `monitor.h`, `monitor-inl.h`; module `Monitor`).
State: counts of active readers, writers and upgraders, a FIFO queue of write
and upgrade requests, a queue of readers, a queue of upgraders, all under one
mutex. Operations: `queue` (a future for a token), `try_immediate`, `lock`,
`try_lock`, `lock_shared`, `try_lock_shared`, `unlock`, and of tokens: copy,
destroy, `upgrade_to_write`, `downgrade_to_read`, `downgrade_to_upgrade`. Hard:
tokens are handed to waiters by whoever leaves, in one of two critical
sections; the counters must stay exact. Correct when: the counters count the
tokens, writers exclude each other, nobody who waits is forgotten.

**lock-free list** (`ll_list.h`, `ll_list-inl.h`, `ll_list.cc`; modules
`LlList`, `ListContract`): a doubly linked intrusive list with flags on its
pointers and reference counts on its elements, iterators that are elements
themselves. **lock-free queue** (`ll_queue*`): a thin cover over that list.
Correct when: each call takes effect at once for its users, an element that was
taken out is free, an iterator misses nothing.

**lock-free smart pointer** (`llptr.h`) over **hazard pointers** (`hazard*`);
module `Llptr`. **reference counting** (`refcnt*`). Correct when: nothing is
freed while a thread looks at it, everything is freed at last.

**utilities** (`util.h`), **build files, examples, tests**: no state.

How they interact: a job is activated by an application, a message queue's
event or a future's callback; the workq service asks the threadpool interface
for a worker (`wakeup`), the threadpool's workers poll the service with
`do_work`, which is `workq_service::aid`. Runqs, idle lists and events are
`ll_list`s, message queues are `ll_queue`s. The monitor hands out futures.


## 2. Modules and plan

| module | what it is | runs |
|---|---|---|
| `Workq` | the lock-free run queue, one action per atomic operation | `workq_contract`, `workq_live`, `workq_deactivate` |
| `WorkqContract` | what `workq.md` promises about jobs; `Workq` refines it | `workq_contract` |
| `WorkqRun` | what a thread does with a run lock: stacks of locks, coroutine jobs, `workq_switch`, deleters | `workq_run`, `workq_coroutine` |
| `Monitor` | the monitor, one action per critical section | `monitor_tokens` |
| `MsgQueue` | a message queue and its event, one action per atomic operation or critical section | `msgqueue_event` |
| `MsgQueueContract` | what `msg_queue.md` promises about callbacks; `MsgQueue` refines it | `msgqueue_event` |
| `Threadpool` | workers, the idle list, wakeups, shrinking, destruction | `threadpool` |
| `ThreadpoolIntf` | combiners and multiplexers between work queues and the pool | `tpintf` |
| `Future` | shared states, callbacks, dependants, starts, conversions | `future` |
| `FutureContract` | what `promise.md` promises of results and callbacks; `Future` refines it | `future` |
| `LlList` | the list, one action per access of an atomic pointer | `ll_list` |
| `ListContract` | a sequence with atomic insertions and removals; `LlList` refines it | `ll_list` |
| `Llptr` | the counted atomic pointer and the hazards | `llptr` |
| `MCWorkq`, `MCWorkqRun`, `MCThreadpool`, `MCThreadpoolIntf`, `MCFuture`, `MCLlList`, `MCLlptr` | instances for TLC | |
| `Workq_proofs`, `WorkqQueue_proofs`, `Monitor_proofs`, `MsgQueue_proofs`, `Threadpool_proofs`, `Llptr_proofs`, `WorkqRun_proofs`, `Future_proofs` | section 13 | |

The modules meet where the code does. `Workq`, `Threadpool` and the queues take
a list whose operations are atomic, which is what `LlList` shows of it; `LlList`
takes a counted atomic pointer, which `Llptr` shows. `WorkqRun` takes the search
for a job as one step, which `Workq` takes apart. `ThreadpoolIntf` joins the
services of `Workq` to the workers of `Threadpool`, both reduced to what the
combiners call. A module of the whole would be out of TLC's reach.

Since the functions of `Future`, `LlList`, `ThreadpoolIntf` and `WorkqRun` call
each other, and callbacks call back, a thread has there a stack of frames, and
an action is a step of the top one up to its next access of shared state. What
the threads call is a program of a few calls for each, one of several that are
initial states of one run. So a run tells by its programs which races it is
about, and every run ends, in the sense that the threads have nothing to do.

Plan. All concurrent components have a module. Proved are the safety properties
of `Workq`, `Monitor`, `MsgQueue`, `Threadpool`, `Llptr` and `Future`,
`LocksSound` of `WorkqRun`, and the refinements of `Workq`, `MsgQueue` and
`Future` (section 13). Proofs that would come next: `CombinersSound` of
`ThreadpoolIntf`, whose threads have stacks of frames too, which `WorkqRun_proofs`
and `Future_proofs` show how to count; then `DeletedIsIdle` of `WorkqRun`, which
needs its counts and those of the references.


## 3. The workq run queue

### How the module corresponds to the code

| TLA+ | code |
|---|---|
| `m_state[j]`, a set of bits | `workq_job::m_state` |
| `m_run_gen[j]`, modulo `GenMod` | `workq_job::m_run_gen`, a 32 bit counter |
| `m_runq[w]`, `m_p_runq[w]`, sequences | the two lists of a workq |
| `m_wq_runq`, a set | the service's list of workqs |
| `m_run_single[w]`, `m_run_parallel[w]` | the lock on the workq |
| `lk[t]` | the `wq_run_lock` of the call in progress, with its locals |
| `stack[t]` | the `wq_stack` chain in thread-local storage |
| `pc[t]` | the next atomic operation; "body" is application code |
| `awaited[t]` | history: the run `deactivate` saw has not ended |

One action is one atomic read-modify-write, or one operation of a lock-free
list with the control flow up to the next one. The comments in the module name
the functions; `PROJECT.json` names the lines. Loads whose value is only used
by the compare-exchange that follows are part of that compare-exchange: a
failed compare-exchange changes nothing and tries again.

Abstractions. List operations are atomic (what `ll_list` is to guarantee). The
service's list of workqs is a set: each thread looks and inserts at an iterator
of its own, so that its order promises nothing. The wakeup of the threadpool (section 7) is
not there: a thread outside of any job may help at any time. All accesses are
sequentially consistent; the code's acquire/release orders are not examined.
Jobs are not created or destroyed (section 9). The body of a job makes calls from
`BodyCalls` and returns.

### Runs

| run | asks | instance |
|---|---|---|
| `workq_contract` | `TypeOK`, `JobExclusion`, `RunLockOwned`, `WorkqLocksHeld`, `NoLostActivation`, `RunqsWellFormed`, `ImplementsContract` | two threads with all calls, three jobs of one workq (PARALLEL and PERSIST, exclusive, exclusive with ONCE and NO_AID), job bodies that run jobs |
| `workq_live` | `EventuallyRuns` | an application thread against two helpers that never stop |
| `workq_deactivate` | a disagreement | section 12 |

- `TypeOK`: `m_run_parallel` is unsigned in the code, so a lock that is taken off
  twice, or under the wrong case, would wrap it; here it would fall below zero.
- `JobExclusion`: of the jobs of a workq that are not PARALLEL at most one runs.
  It needs run-single, the choice of the list by the lock that was handed
  out, the refusal of ACT_IMMED under run-parallel, and the downgrade.
- `RunLockOwned`: RUNNING is set exactly while one lock of one thread owns the
  job, at whatever depth of that thread's stack.
- `WorkqLocksHeld`: the flag and the counter of a workq equal the number of
  locks that hold them, in the middle of a downgrade too.
- `NoLostActivation`: an active job that does not run is on the runq(s) of its
  workq, or a thread is one operation from linking or locking it. This is what
  keeps an activation that arrives while the job runs, or while it is popped.
- `RunqsWellFormed`: no job twice on a list, none on a stranger's.
- `ImplementsContract`: with "pending" for ACTIVE and "running" for RUNNING
  every step is one of `WorkqContract`, or none.
- `EventuallyRuns`: an active job runs, or is deactivated.

Bounds. Two threads and two to three jobs suffice for each race in the code:
the code never compares more than two parties (a lock holder and a contender,
an activator and a runner), and a third thread is used where a helper must come
between them (`workq_live`). `MaxStack` 2 nests one job in another. `GenMod`
makes the generation wrap after a few runs where the code needs 2^32: in `workq_contract`,
whose properties say nothing of the generation, it is 1 and `deactivate` waits
for RUNNING to be cleared. The threads of `workq_contract` make the same calls, so that
they are symmetric.

CHECK_DEADLOCK is FALSE in these runs: two threads may each `deactivate` the job
the other one runs, and then spin for ever. That state is the code's.

Fairness (`FairSpec`): a thread inside a call keeps executing it (weak fairness
of `Step`: the scheduler runs every thread); the body of a job returns after
finitely many calls (strong fairness of `JobReturns`, since calls interrupt it);
a helper whose stack is empty calls `aid` again (weak fairness; a worker of the
pool does as long as there is work). Nothing is assumed of the application.


## 4. The monitor

### How the module corresponds to the code

| TLA+ | code |
|---|---|
| `active_readers_`, `active_writers_`, `upgrade_active_` | the members of those names |
| `w_queue_`, `r_queue_`, `u_queue_` | the three queues of promises |
| `held[c]` | the access of the token of client c, "none" without |
| `plain` | clients whose access came from `lock` or `lock_shared` and is given back with `unlock`: there is no token to copy or convert |
| `serving` | clients between the two critical sections of `unlock_` |
| `family[c]` | history: the grant that c's access derives from |

One action is one critical section under `mtx_`. A client is one token or one
future of a token; an idle client makes any call, so that a thread with many
tokens is many clients. `Unlock` is the first critical section of `unlock_`
with its three outcomes (upgraders, the next writer, readers); when it hands
an upgrade token out, the code releases the mutex to set the promise and takes
it again: `UnlockReaders` is that second section. `lock` and `lock_shared` wait
on a condition that is polled; they are actions that are enabled when the
condition holds. The readers' queue is a set because it is always emptied as a
whole. A refused `try_` call changes nothing and is not an action. `Calls` says
which operations the clients of a run use.

### Runs

| run | asks | instance |
|---|---|---|
| `monitor_tokens` | `TypeOK`, `CountersExact`, `OneFamily`, `NobodyStranded`, `RequestsServed` | four clients, all operations |

- `CountersExact`: each counter is the number of tokens of its kind; an
  upgrader that waits for the readers counts as a writer. Copies, conversions,
  grants and destructors must agree on this, or an unsigned counter wraps.
- `OneFamily`: the tokens with write or upgrade access, and the upgraders that
  wait, all derive from one grant. That is what exclusion of writers means
  where tokens may be copied and an upgrade token may ask for a write token.
- `NobodyStranded`: whoever waits in a queue waits for a token that exists, or
  for an `unlock_` that is between its two sections. Otherwise no call would
  ever look at the queue again.
- `RequestsServed`: requests for write, upgrade and upgrade-to-write are
  granted, against readers and `try_immediate` that barge in.

Bounds: four clients hold a reader, an upgrader with its upgrade in progress, a
queued writer and a queued reader at the same time, which is as many parties as
any branch of the code tells apart; the run reaches every action with each of
its outcomes, and the proofs of section 13 hold for any number of clients.

Fairness (`FairSpec`): a client with access gives it up (weak fairness of
`Unlock`), `unlock_` finishes, and clients stop at some time to prolong access
(`<>[][~Prolong]_vars`): readers that keep passing through `lock_shared`, or
tokens that are copied and downgraded on and on, never leave the monitor, and
the code promises a writer nothing then. The property leaves out readers in
the queue: writers go first, and the code does not bound how long.


## 5. The message queue

### How the module corresponds to the code

| TLA+ | code |
|---|---|
| `untyped` | whether the queue is a `msg_queue<void>`; chosen once |
| `m_state`, `m_ev`, `m_ev_restore` | the members of `msg_queue_events` |
| `m_list` | `data_msg_queue::m_list`; for untyped messages, those that `void_msg_queue::m_size` counts |
| `pc[t]` | the next operation of the call t is in |
| `loop[t]`, `tmp[t]` | the place of t in the loop of `_fire`, and the local of `_fire_event` |
| `taken[t]`, `left[t]` | the locals of `dequeue` |
| `prepared[t]` | a `prepare_enqueue` of t with its value |
| `unread`, `installed`, `current`, `due` | history: messages no functor got; the functor `callback` was given last, and whether it is the one that runs; the messages and functors that a call is due for |

One action is an atomic operation on `m_state`, a critical section under
`m_evmtx`, or an operation of the list. A thread in the loop keeps its place
there while the functor it runs (`loop[t] = "body"`) makes calls of its own,
which go through `pc[t]`: enqueue, dequeue, and replacing or removing the very
functor that runs. Untyped messages have names here that the code does not
give them, so that it can be said of one that it was lost; which ones an
untyped `dequeue` takes makes no difference to the code. `Move` is the move
constructor, which demands that nobody uses the queue; only typed queues have
one that compiles (that of `msg_queue<void>` names a base it does not have, and
calls `_fire` without its argument).

A message becomes due when it is written and stops to be when it is read or
when a call of the functor begins, for that call comes after the message. A
functor becomes due when it replaces the one that runs.

### Runs

| run | asks | instance |
|---|---|---|
| `msgqueue_event` | `TypeOK`, `NoLostEvent`, `MessagesKept`, `ImplementsContract`, `EventuallyCalled` | two threads, two messages, two functors, every call, typed and untyped |

- `NoLostEvent`: while a functor is installed and something is due, some thread
  is about to fire the event or to go round its loop again.
- `MessagesKept`: what was written and not read is on the list, or held by one
  `dequeue`; those that a functor that threw did not see are put back.
- `ImplementsContract`: one functor runs at a time; it is the one installed
  last, never one that was removed or replaced; its call serves all messages
  written before.
- `EventuallyCalled`: what is due gets its call, unless the functor is removed.

What the code does not promise, and no property says: messages that are put back
after an exception fire no event, so that a callback that found the queue empty
in between is not called for them.

Bounds. The protocol is between the thread in the loop and one that writes, or
one that replaces the functor; the two threads take all these parts, and the
one in the loop also makes calls from its functor. Two messages let a `dequeue`
take several and throw between them; two functors tell the one installed last
from the one before. Section 13 has the safety properties for any number of each.

Fairness: a thread inside a call keeps executing it (weak fairness of `Step`);
the functor returns after finitely many calls (strong fairness of
`BodyReturns`, since calls interrupt it).


## 6. The threadpool

### How the module corresponds to the code

| TLA+ | code |
|---|---|
| `n_threads`, `n_oversize`, `n_active`, `m_idle`, `m_dead`, `m_serv` | the members of `threadpool::impl` |
| `m_state[w]` | `worker::m_state`, or UNBORN, or DELETED |
| `pc[w]` | the place of w in `_run`, `do_sleep` and `must_die` |
| `asleep` | workers in the scope of `m_sleep_mtx` in `do_sleep` |
| `collect` | workers with `tls.collect` |
| `waking[t]`, `setting[t]` | the locals of `wakeup` and of `set_nthreads` |
| `script` | the calls on the pool that are still to come, from the owner or from a job |
| `posts`, `pending` | the client's units of work |
| `stolen`, `lost` | history, see below |

One action is one atomic operation or one critical section. The idle and the
dead list are atomic. A worker that was deleted keeps its name: a thread that
uses its pointer makes the program undefined, and the model ends there
(`undefined`). The increment of `n_active` is not atomic and not under the
mutex of its decrement: `CreateWorker` reads and `AssignThread` writes, and when
the counter was changed in between either change may be lost (`lost`). The
failure of `std::thread` to start is left out.

### Run `threadpool`

A pool is attached, set to two threads, then to one, and destroyed; or it is set to
one thread, attached, set to two, and kept. The owner or a job on a worker makes
each call, a client posts work at any time, workers wake up spuriously and collect
the dead at any time.

- `WorkersAccounted`: `TypeOK`; the workers that are alive are those that are
  wanted, plus the deaths that are due (`n_oversize`, or in the hands of a
  worker in `must_die`, or in those of a `set_nthreads` in progress); and
  `n_active` counts the workers whose epilogue is to come.
- `SleepersAreReachable`: a worker that waits is on the idle list, or some thread
  has its pointer and is going to wake or kill it (a thread that has popped it
  in `wakeup`, or a `set_nthreads` between taking it off the list and the end of
  `kill`).
- `PoolOutlivesWorkers`: the pool is deleted after the last worker has left it,
  also when a worker deletes it.
- `WorkIsDone`: posted work is done while the pool has a service and is to have a
  worker: nothing is missed between a worker's test for work and its sleep. The
  script that keeps the pool is for this property. It ends with a service attached
  and two threads wanted, and the owner makes its calls, so from some point on the
  property can only be met by work that is done; where the pool is destroyed, the
  destructor meets it. It says nothing of pools that shrink and are kept, which
  do not have it (section 12).
- `DestroyReturns`: the destructor ends. It excepts runs in which a wakeup was
  `stolen`: the one that was to make an idle worker die was spent on a worker that
  had taken a death already (section 12).

As far as they count workers, these except runs in which a change of `n_active`
was `lost`.

Bounds. Two workers let one go while the other stays, which is where the idle
list, `n_oversize` and `must_die` disagree. The calls grow the pool while
its first worker already runs jobs, and shrink it while it still grows. One unit
of work is enough: wakeups with many targets come from attaching (all) and
from shrinking.

Fairness: every thread goes on, and the owner makes its calls. Whether a job
makes one, whether the client posts, spurious wakeups and collecting are free.
`CHECK_DEADLOCK` is FALSE in this and the following runs: the programs end.


## 7. The threadpool interface

| TLA+ | code |
|---|---|
| `ref[k]`, `life[k]` | `m_refcnt` of a combiner; whether it is created, deleted |
| `ServicePtrs`, `ClientPtrs` | `m_service_refcnt`, `m_client_refcnt`: the pointers that exist in lists, members and frames |
| `client_locks(k)` | `m_client_locks`: the frames in the scope of such a lock |
| `avail[k]` | `m_work_avail` |
| `list["active"]`, `list["data"]`, `list["clients"]` | `m_active` and `m_data` of `tp_service_multiplexer`, `m_data` of `tp_client_multiplexer` |
| `impl[o]` | the pointer to a combiner that an object holds |
| `work[c]` | jobs of a work queue service |
| `pool[w]` | what a worker shows the pool |
| `stack[t]`, `ret[t]` | the calls that t is in, and the last result |

Run `tpintf` has fourteen programs on six combiners: queues behind the service
multiplexer with workers of the pool, a queue with two services behind the
client multiplexer, the aid service; users attach, add work, clear and destroy
meanwhile.

- `CombinersSound`: `TypeOK`; `m_refcnt` is one for each side that has pointers
  and one for each operation that keeps the combiner alive, and the combiner is
  deleted exactly when it is zero (`RefsMatch`); no thread is in a function of a
  deleted combiner (`CombinersLive`).
- `MarkedIsRun`: if the multiplexer knows that a queue has work (its state says
  so and it is on the list), the queue is run.
- `CallsEnd`: the calls of users end, those that wait for locks too, but for a
  waker and a worker that change YES and MAYBE to and fro (section 12).

Bounds: each protocol is between a client and a service at one combiner, and
one thread that takes it apart. Two users and one or two workers take all parts;
two units of work let one come while the other is run. Fairness: weak, for each
thread; nobody has to call again.


## 8. Futures and promises

| TLA+ | code |
|---|---|
| `state[o]`, `storage[o]` | `state_` and what `storage_` holds |
| `lck[o]`, `mtx[o]` | the lock of the one who sets the result; `ready_cb_mtx_` |
| `single[o]`, `chain[o]`, `deps[o]` | `ready_cb_`, the chain of `shared_ready_cb_`, `dependants_` |
| `called[o]`, `async[o]` | `start_deferred_called_`, `start_deferred_value_` |
| `promises[o]` | `promise_refcnt_` |
| `conv[o]`, `gone[o]` | the source of a conversion; whether `src_` was reset |
| `need[f]` | `need_resolution_` of a function |
| `self[j]`, `posted[j]` | `self_` and the activation of a job on a work queue |
| `dead` | the process ended: terminate, an assertion, a null pointer |
| `runs`, `calls` | history: functions run and callbacks called |

Shared states are those of promises, of lazy functions (`async_lazy`) and of
functions on a work queue (`async`), with the futures among their arguments.
Values are reduced to value, exception and broken promise. Every shared state
outlives the program, so that a weak pointer never expires.

Run `future` has seven programs of three threads: an argument that is set while
its function is made and started, a job with a broken argument, conversion
from a lazy function, from a shared future and from a job, `pass_promise`, and
two promises of one shared state. Programs are sequences of `Calls`, of any
length up to `MaxCalls`. The assumption on them says that a function is made
once and that a callback is moved into one future (`Again`); and a thread makes
a call when the futures that it needs are there, those among the arguments of a
function that it makes included (`NextCall`).

- `FunctionsSound`: `TypeOK`; a function runs once at most, after a start, when
  all its arguments are ready, whichever thread notices (`RunsOnceWhenReady`).
- `NothingLeftBehind`: when the threads are done, no callback or dependant is
  still installed on a shared state that is ready.
- `KeepsContract`: `FutureContract`. A result is assigned once and stays, a
  callback is called once and after the result, wherever its installation falls.
- `WaitersReturn`: every call returns, `get()` included, if the process lives on
  and no start was lost on the way (`StartLost`, section 12).

`NDEBUG` is TRUE in the run: with assertions some of these programs end in one
(section 12). Bounds: a result, a callback, a start and a conversion race in
pairs, so that three threads with up to five calls have one thread for each
party of a race and one that waits for the outcome. Fairness: weak, for each
thread, the workers of the work queue included.


## 9. Run locks, coroutines and lifetimes

| TLA+ | code |
|---|---|
| `fns[j]` | the functions of a job; a coroutine job has several |
| `active`, `running`, `gen`, `runq`, `wqq`, `single`, `parallel` | the state of `Workq`, with runqs as sets |
| `rlck[j]`, `count[j]`, `idx[j]` | `m_rlck`, `m_runcount`, `m_co_idx` of a co-runnable |
| `coq` | `m_co_runq` of the service |
| `ptr`, `wptr` | external references of jobs and workqs |
| `Refs(o)` | internal references: the pointers in locks, lists and frames |
| `suicide` | `int_suicide` |
| `stack[t]` | the `wq_stack` of a thread, and the calls it is in |

How a lock finds its job is the subject of section 3: here `lock(workq&)` takes
effect at once. The service lives on, and stacks stay below
ACT_IMMED_MAX_STACK.

| run | asks |
|---|---|
| `workq_run` | `LocksSound`, `DeletedIsIdle`, `DroppedIsDeleted`, `FunctionsTaken` |
| `workq_coroutine` | a disagreement, section 12 |

Twelve programs of a user and two helpers: jobs that are activated, run at
once, deactivated and dropped by users or by themselves, jobs that switch to
another workq and back or give their lock up, and a coroutine job beside others.

- `LocksSound`: `TypeOK`; the run locks of a workq are exactly those that frames
  hold, on a stack, in a coroutine job, or for a moment in `lock_wq`
  (`RunLocksHeld`); functions of a coroutine job run under the lock that was
  taken from the thread that published it (`CoroutineLocked`).
- `DeletedIsIdle`: what is deleted is not run, locked, linked or referred to.
- `DroppedIsDeleted`: a job whose last pointer is gone is deleted at last, by
  its deleter or by whoever gives up the last reference, apart from coroutine
  jobs and a case of parallel jobs (section 12).
- `FunctionsTaken`: all functions of a published coroutine job are run by
  somebody.

Bounds: a lock moves between a thread and one helper, and a second helper comes
between them. Two workqs are what a switch needs. Fairness: weak, per thread.


## 10. The lock-free list

| TLA+ | code |
|---|---|
| `succ[x]`, `pred[x]` | `succ_` and `pred_` with their flags S, D and M |
| `linking[x]` | `linking_` |
| `swap[p]` | which of the two elements of a position is its front |
| `ptr[p]` | `ptr_` of an iterator |
| `Count(x)` | the link count: pointers to x in the list, and in the `elem_ptr`s of frames (`p`, `q`) |
| `r` of a frame | a plain pointer, which is no reference: what a failed compare-exchange of `unlink_` loads |
| `stack[t]`, `ret[t]` | the calls that t is in, with their local pointers; the last result |
| `items`, `call`, `did`, `saw`, `answer`, `stay`, `seen` | history: the sequence and what each call saw of it |

One action is one access of an atomic pointer. A weak compare-exchange that
fails spuriously tries again, which is a stutter.

Run `ll_list` has ten programs of two threads: calls at both ends, the end
of the list, erasing, visiting, `remove_if`, linking at iterators.

- `ElementsSound`: `TypeOK`; no assertion of the code fails and no null pointer
  is followed (`NoAssertionFails`); when `unlink_` returns an element to a thread
  that may destroy it, no other thread has it as a counted reference, as the
  argument of a call, or as a plain pointer that it is going to follow
  (`UnlinkedIsFree`). A thread that owns the element itself, or stands on it with
  an iterator, keeps it alive (`Keeps`).
- `KeepsContract`: with the elements that are linked in order as the sequence,
  every step is an insertion, a removal or none; a call has one effect
  and its answer tells it; a pop that finds nothing saw an empty list.
- `VisitsPassAll`: a visit passes every element that stays in the list.
- `CallsReturn`: every call returns, but for two ways to hang (section 12).

With three threads `UnlinkedIsFree` fails (section 12). With two it cannot: the element that the plain pointer leads to is being unlinked
together with the one before it, the owner of that one waits for the thread
that has the pointer, and so it takes a third to take the element out and free it.
In `link_` too a failed compare-exchange loads a plain pointer (`ll_list.cc:349`,
357); it is not followed, and the model does not keep it.

Bounds: a link or unlink concerns an element and its two neighbours; with two
elements and the head, two threads unlink neighbours, the same element, or link
between what is unlinked. A third element is there to be linked. Fairness: weak,
for each thread, and strong where `wait_link0` reads a count again and
again: it comes to see a value that the count has again and again.


## 11. The atomic pointer and the hazards

| TLA+ | code |
|---|---|
| `cell[c]` | `m_impl` of an llptr: pointer and flag |
| `refs[o]` | the count of an object; an object is an address, which is used again once the count is zero |
| `owner[h]`, `value[h]` | `m_owner` and `m_ptr` of a hazard |
| `hold[t][r]` | the pointers that a thread owns |
| `hz[t]`, `pc[t]` | the locals of the call and its next atomic operation |

Run `llptr`: two or three threads load, store, exchange, reset, set flags and
compare-exchange in all four ways, on one or two llptrs, also with a new object
at the address of an old one.

- `CountsSound`: `TypeOK`; the count of an object is at each step the number of
  pointers to it, in llptrs, with threads, granted to hazards and in grants
  under way (`CountsMatch`): nothing is deleted under anybody, and nothing is
  kept; a reference is only taken of an object that is alive (`AcquiresLive`).
- `CallsEnd`: readers that go round and writers that wait for flags come to an
  end.

Bounds: two hazards instead of 64 make readers wait for one another and let a
grant pass one hazard that names the pointer and one that does not. Three
objects are what the programs make. Fairness: weak, per thread.


## 12. Disagreements found

Two are runs that TLC must find violated; `PROJECT.json` quotes the text.

1. `workq_deactivate` (`workq.cc:595`): the generation is counted after RUNNING
   is set; a `deactivate` in between takes the count for the end of the run and
   returns while the job runs.
2. `workq_coroutine` (`workq.cc:729`): the count of a coroutine job starts at the
   number of its functions, helpers add one and take one off: it never gets
   to zero, and the job keeps RUNNING and its run lock for ever.

The others were met while modelling. The modules contain them where they model
the code, and the properties name what they except.

**Work queues.** The loop of `lock(workq_service&)` (`workq.cc:454`) is said to
end when the runq is depleted; when both tries of a workq fail, `wq` stays set
and the loop tries it again, for ever (485). The same loop may erase a workq,
find a job there on its third try and leave without linking the workq again
(469), against `workq.md:54`. A helper in that loop takes no co-runnable.
`wakeup` may store null over a callback that was attached meanwhile (959). Two
jobs that deactivate each other spin for ever (602); so do two threads that
switch each to the workq that the other holds in a lower frame, since the
deadlock test looks at the caller's stack only, and functions of a coroutine
job that switch to their own workq. HAS_RUN is tested (632) and never set.
`atom_lck`, which is built where `std::shared_ptr` has no atomic operations,
spins while it succeeds (1367). A parallel job that is deactivated and then
popped under run-single stays on `m_p_runq`, and its destruction may wait for
ever; `DroppedIsDeleted` leaves parallel jobs out. A coroutine job that deletes or
deactivates itself from one of its functions waits for itself. `release` reads
`int_suicide` after it decremented the count.

**Monitor.** The next writer is served as soon as there is no writer, with
readers still active (`monitor.cc:151`, against the comment at 61). `queue` grants
read access beside a writer that came from an upgrade, where all other paths
refuse (53, against 92). `lock_shared` compares the readers with the upgraders,
and its own assertion fails (257, 263). `OneFamily` does not say that writers
exclude readers, because of these.

**Message queue.** The move constructor that is to "move elements between queues"
pops from the new queue, which is empty (`msg_queue.h:521`).

**Message queue pointers and callbacks.** The acquisition of an input pointer
tests for `old == n` instead of 0 (`mq_ptr.h:78`): the first one takes no reference
of the queue and its release takes one off; the output pointers count on
the same side. A `wq_callback_job` (`wq_callback.h:75`) keeps the last argument
only, and keeps it after the run, so that a queue whose output pointer is the
argument stays alive; its specialisation for references does not compile.
`prom_msg_queue::dequeue` returns nothing.

**Threadpool.** A wakeup for work may be spent on a worker that dies
(`threadpool.cc:633`), in spite of "Prevent missing of wakeup calls" (606):
`set_nthreads` finds nobody idle and publishes that one worker is to die; both
workers go to sleep, and one has found no work, when a unit of work is posted and its
wakeup turns the other one to BUSY; that one calls `must_die` before `do_work`, dies,
and passes nothing on. The worker that is left sleeps, on the idle list, beside
the work, until something else wakes it. TLC finds this with `threadpool_shrink.cfg`,
where `WorkIsDone` is violated. `increase_oversize` wakes threads "so any idle threads will also be
able to die" (`threadpool.cc:144`); the wakeup may be spent on a worker that has
just taken a death and turns BUSY again, and another sleeps on with a death due
(`stolen`). A thread that popped a worker from the idle list wakes or kills it by
pointer after it may have been deleted (383, 464; `undefined`). `n_active` is
incremented without the mutex of its decrement (333): when a job shrinks the
pool while another thread grows it a change is lost, and the destructor
waits for ever or not at all (`lost`).

**Threadpool interface.** `_has_client` reads the service's count
(`threadpool_intf.cc:137`), so that a client that is gone is still called, which
`wq_deleter` leads to (`workq.cc:1070`). A `wakeup` that finds NO leaves it at NO
(291); another worker's late YES may stay on an element that is off the list:
`MarkedIsRun` is about queues that are marked and listed, and one worker. The
loop of `wakeup` and a worker may change YES and MAYBE to and fro for ever
(284). `service_lock_wait` waits for the clients' locks (`threadpool_intf.h:68`). A
detached service stays in the list when `has_work` removes it. A
job that wakes its own queue through the client multiplexer waits for itself.
`callback` takes an object by value that cannot be copied.

**Futures.** `get()` of a lazy promise that was converted goes through a source
that was reset (`future-inl.h:1013`). A function with `pass_promise` that throws
ends the process (1345, against `promise.md:275`): its promise was destroyed and
is broken already. A broken promise completes its future, where `promise.md:49`
says it never will. The assertion of a started job fails (1389). A conversion
from a shared future with an exception ends the process (1060). A callback that is
installed on a ready shared future reads a chain that nobody initialised (113).
`ready_cb_mtx_` is unlocked twice (1098, 1117); `NothingLeftBehind` holds all the
same. The start of a promise that was first waited for with a timeout is passed on
as asynchronous, which does not start a lazy function (`StartLost`). `packaged_task`
leaves two pure virtual functions undefined.

**Lists.** The expected value of the compare-exchange of `unlink_` is a plain pointer
(`ll_list.cc:404`), so the successor that a failed one loads has no reference,
although the link count is to have those "originating from within the list or its
algorithms" (38); `pred_` follows it (416) after its owner may have unlinked and
destroyed it. TLC finds this with `ll_list_raw.cfg`, where `UnlinkedIsFree` is
violated: one thread pops the second element, another drops an iterator in front of
it, and a third is popping the first. `link_` may stay with a predecessor that is popped and linked again, and
one `unlink_` waits for it for ever (`ll_list.cc:357`; `Stranded`). `link_before_`
may retry for ever with an element that is being unlinked (591; `Retrying`).
`remove_if` skips an element after an erasure that failed, which `VisitsPassAll`
excepts. `operator++(int)` returns the advanced copy; `cend()` returns `begin()`;
copying a position that is not linked fails an assertion; `link_after`,
`link_before` and `link` of the smart-pointer list do not compile with const
iterators.

**Pointers.** A failure order of `memory_order_release` is not a valid one for a
compare-exchange (`llptr.h`). `atomic_store` of a refpointer releases the old
pointer while it holds a hashed lock (`refcnt.h:457`), which the destructor of
the object may want.


## 13. What is proved

All proofs are for every value of the constants that satisfies the ASSUMEs of
the modules: any number of threads, jobs, workqs, clients, messages, functors,
workers, llptrs, objects and hazards. What is counted is finite (clients,
messages, workers, the threads of `Llptr` and `Future`, the llptrs of `Llptr`,
the calls of a program of `Future`), null pointers are not objects, destroying a
pool is the last call on it, and in `Future` a function is made once and a
callback installed once: that is all that the ASSUMEs say beyond types.

`Workq_proofs`. The inductive invariant is

    IInv == Typed /\ ControlOK /\ RunqsOK /\ SingleHeld /\ RunLockOwned

`JobExclusion` alone is not inductive: a step of a thread that is about to set
RUNNING must know under which lock it got there. `ControlOK` says for each `pc`
what the thread's lock looks like (which lock on the workq, whether the job
is owned, whether it is parallel) and the same of every lock on the stack;
`RunqsOK` that the lists hold jobs of their workq, and the second one only
PARALLEL jobs; `SingleHeld` that run-single has one holder. Then a job that is
not PARALLEL runs only under run-single, and two of them would be two holders.

`Typed` is `TypeOK` but for the sign of `m_run_parallel`: that it is never taken below
zero needs the count of its holders, in the next module.

- `RunLockOwner`, `RunSingleHolder`, `MutualExclusion`.
- `Refinement`: `Spec => ImplementsContract`. Only `LockJob` starts a job, and
  the invariant gives it the exclusion that the contract's `Start` demands;
  `UnlockJob` finishes it; all other steps stutter or (de)activate.

`WorkqQueue_proofs` goes on from that invariant.

- `RunqsStayWellFormed`: `LinkBack` and `Erase` keep a list without repetitions
  (`LinkBackInjective`, `EraseOne`), and every step changes the runqs by these.
- `ActivationsKept`: `NoLostActivation`, strengthened to `Queued`, which says
  of every job that waits that it is on its runq or that a thread is about to
  link or lock it. For a PARALLEL job it asks this of both lists. Each step is
  one of three: it leaves the lists and the waiting jobs alone (`QuietQueued`),
  it links a job, or it takes one off that it is then about to lock.
- `LocksHeld`: `WorkqLocksHeld`, strengthened to `ParallelCounted`: the holders
  of run-parallel, counted as pairs of a thread and a depth of its stack, are
  finitely many and as many as `m_run_parallel` says. Pushing and popping a
  lock adds, removes or moves one such pair, which the lemmas `OneMore`,
  `OneLess` and `OneMoved` count.
- `TypeCorrect`: `TypeOK`, from `Typed` and from `ParallelCounted`: a counter that is
  the number of its holders is not negative.

`Monitor_proofs`. The inductive invariant is

    IInv == TypeOK /\ WaitOK /\ CountersExact /\ OneFamily /\ NobodyStranded

`WaitOK` says that a client waits in at most one place and holds nothing
meanwhile. The argument about counters is made once, for arbitrary counters and
tokens (`Exact`): `GrantExact` and `ReleaseExact` add and remove a token,
`UpgradersExact` and `ReadersExact` serve a whole queue; each action is then a
composition of these. Subtraction never goes below zero because the counter is
the cardinality of a set that holds the client.

- `TypeCorrect`, `ExactCounters`, `WriterExclusion`, `NoLostWakeup`.

`MsgQueue_proofs`. The inductive invariant is

    IInv == TypeOK /\ CallOK /\ LoopOK /\ FunctorOK
            /\ FunctorsDue /\ MessagesDue /\ NoLostEvent

`NoLostEvent` alone is not inductive: a writer that finds the event busy leaves
the rest to the thread in the loop, which must be there (`LoopOK`: one thread is
in the loop unless the state is IDLE, and no two are), and `callback` makes the
event run again only if the functor that it replaces was taken and not put back
(`FunctorOK`: where the functor installed last is kept, and what
`m_ev_restore` says about it). A `callback` that finds the list empty fires
nothing; it may, since what is due is on the list (`MessagesDue`) or is a
functor that the loop is going to call (`FunctorsDue`).

- `TypeCorrect`, `NoMissedEvent`.
- `NoMessageLost`: `MessagesKept`. It rests on `Once`: no message is twice on the
  list, or in two places at once (the list, the hands of two readers, a
  `prepare_enqueue` that has not committed). Without that a message that is
  read would still be on the list.
- `Refinement`: `Spec => ImplementsContract`. `TakeEvent` begins a call: nobody
  else is in the loop, and the functor it takes is the one installed.

`Threadpool_proofs`. The inductive invariant is

    IInv == Typed /\ Assigned /\ AllReachable /\ WorkersAddUp /\ Counted
            /\ DestroyedOnce /\ PoolOutlivesWorkers

in five layers, each proved from the ones before. `Typed` says for every place
of a worker in `_run` which states and which lists agree with it (`WorkerOK`), and
what the locals of `set_nthreads` and `wakeup` are at each step of them.
`Assigned`: a worker that waits for `m_init_mtx` is in the hands of the one
`create_worker` that will count it. `AllReachable` strengthens
`SleepersAreReachable` to every worker in a sleeping state from the moment it
is on the idle list, before it sleeps: it is on that list, or whoever has popped
it will still try the state it is in, and a worker that left its state while
asleep will be notified. `WorkersAddUp` counts sets: each action moves one worker
or changes what one call owes (`Balance`, `OwedNext`, which splits off the rows
of that call), and the sums follow. `Counted` says what `n_active` is between the
increment and the decrement, until an update is lost. `DestroyedOnce`: who
destroys the pool is alone with it, from `impl_deleter` on, and only the one
worker with `tls.collect` may take its place; then `n_active = 0` leaves nobody.

- `WorkersAreAccounted`, `SleepersAreFound`, `PoolIsLast`.

`Llptr_proofs`. The inductive invariant is

    IInv == Typed /\ Owning /\ Protected /\ CountsMatch

`Owning`: a hazard has one owner, and what it names is being read by the owner.
`Protected` is the heart of the algorithm: a reader that is about to take a
reference, and whose hazard still names the object, either finds the pointer
in the llptr, or a writer is on its way to that hazard with a reference to
grant. Then the object is alive (`AcquiresLive`), and every action moves
references between the five sets that `CountsMatch` counts, or changes the
count with them.

- `ReferencesAreCounted`: `Spec => []CountsSound`.

`WorkqRun_proofs`. A thread is here a stack of frames, and nothing bounds its
depth: jobs call `aid()`, which runs jobs. The inductive invariant is

    IInv == Given /\ DataType /\ StolenLocks /\ StacksSound
            /\ TalliesFinite /\ LocksTallied /\ CoroutinesTallied

`StacksSound` says of each frame what it may be (`About`, `LockAbout`,
`CoAbout`: by its label, what it is about, which lock it may hold, and that who
runs functions of a coroutine job found its lock published), and of each frame
that acts on the one below that the one below is what it takes it to be
(`Stacked`): `lock_wq()` is called by a function that has given its lock up, and
functions of a coroutine job are run from `aid()`. The rest counts. `Tally(P)` is
the number of places, on all stacks, whose frame is in the set P:
`LocksTallied` says that the places that hold a lock on a workq, the coroutine
jobs that do, and the places where `lock_wq()` is to give one back, add up to
what the workq's state says. `CoroutinesTallied` is why it is inductive: a
coroutine job that runs has one frame on its way to publish the lock, and none
once it is published, so the lock is stolen once, it never overwrites another
(`StolenLocks`), and it is linked to `m_co_runq` once; and `count` is the number
of its functions and of the frames that help. So no frame gets to `co.store`,
where the job would give its lock up: the disagreement of section 12, for every
number of helpers.

A step replaces the frames on top of one stack. Two lemmas, `Goes` and `Returns`,
say what this does to every tally; the proof of a step is then about its locks.
The tallies are finite without any assumption on the number of threads. The
assumption on programs says of which type their calls are, and that they are on
jobs and workqs that there are.

- `RunLocksAreSound`: `Spec => []LocksSound`, which is type correctness,
  `RunLocksHeld` and `CoroutineLocked`.

`Future_proofs`. A thread is a stack of frames here too, and a call goes from its
program to its stack, so what it is still to do is one sequence of frames
(`Rest`). The inductive invariant is

    IInv == Frames /\ Data /\ Starts
            /\ ResultLocked /\ ListsTaken
            /\ PromisesCounted /\ CalledOnce /\ MadeOnce
            /\ NeedCounted /\ RunOnce /\ ArgumentsReady

`Frames` says what a frame has (`Typed`) and what is so from when it was made and
stays so (`Known`: what it is about was made, or started, or is ready). The rest
counts. A frame carries loads (`Load`): promises that it is to let go, functions
that it is to tell that something is ready, a function that it is to run, a
callback that it is to call, a function that it is to make. `Total(k, x)` is how
many loads of kind k there are for x on all stacks and in all programs.

- `promise_refcnt_` is the number of promises that are still to be let go
  (`PromisesCounted`); a callback has been called, is about to be, or is in one of
  the two lists, once in all (`CalledOnce`).
- `need_resolution_` is one until the start is claimed, plus the frames that are
  to tell the function, plus its places among the dependants of its arguments
  (`NeedCounted`). So the step that takes it to zero is the last, nothing can
  take it there again, and the function has one run in all (`RunOnce`): it has
  been run, is about to be, or is posted to its work queue.
- `FunctionsSound` needs in addition that who runs a function has waited for each
  argument, or has it among those still to wait for (`Fed`, `ArgumentsReady`).
- `NothingLeftBehind`, strengthened to `ListsTaken`: what is in the lists of a
  ready shared state is about to be taken by the thread that made it ready. The
  second unlock, which may free the mutex of another thread, does no harm: it
  comes from who has found the state ready, and so does whoever locks the mutex
  after that, and adds nothing. This is also why testing the state and adding
  to the lists is one step of the model.
- `ResultLocked`: who stores a result has `lck_` and the shared state is not
  ready, so no result is written twice and none after it can be read. With
  `CalledOnce` this is the refinement: `Publish` is the contract's `Resolve`,
  `CallBack` its `Invoke`, and every other step stutters.

Each action has a lemma (`SetStep`, `PublishStep`, ...). Most say only which frames
take the place of the one on top, what these carry (`LightGoto`, `HeavyCall`) and
that they are as `Frames` demands (`StartFits`, `DeliverFits`, ...). The others
say which variable goes up as which load goes down (`Kept`).

- `FunctionsAreSound`, `NothingIsLeft`, `Refinement`: `Spec => KeepsContract`.

Only model-checked: `ThreadpoolIntf` and `LlList`, and `DeletedIsIdle` of
`WorkqRun`, whose runs stand for the programs and bounds that their sections
name; the refinement of `ListContract`; and the liveness properties, which are
out of the prover's reach. `CombinersSound` and `DeletedIsIdle` await their
inductive invariants: the first must count the service pointers of both
halves of a combiner on the stacks, the second relate those of the jobs and
workqs to the frames of deleters. `DeletedIsIdle` moreover does not hold of
every program that `WorkqRun`'s assumption allows: it needs programs that call
only through pointers they still hold, as those of its run do, and a theorem
would have to take that as an assumption. `LlList` needs an invariant about chains of
pointers of any length, which is induction over data.


## 14. What is left out

In the modules: memory orders weaker than sequential consistency, which no
module examines; failing allocations; times and the number of spins; what their
sections name.

Components without a module, or with part of one:

- `mq_ptr`, `prom_msg_queue`, `wq_callback`: covers of a few lines over modelled
  parts. The counting of `mq_ptr` is wrong from its first step and so keeps
  nothing that could be stated (section 12); `prom_msg_queue` and `wq_callback`
  have one call each into the modelled parts.
- `ll_queue`: forwards to the list of `LlList`; the nodes that it allocates for
  elements without hooks are left out.
- `refcnt`: one counter, which appears as the counts of `Llptr`, `ThreadpoolIntf`
  and `WorkqRun`; the store under a hashed lock is left out.
- `packaged_task`, the const iterators of the list, `tp_service_mp_wrap`,
  `tp_client_mp_wrap`, `grant_n` and `wait_unused`: cannot be built, are not used,
  or forward to what is modelled.
- the deletion of a workq service, which `WorkqRun` takes to live on; the detaching
  of its combiners is in `ThreadpoolIntf`.
- `util.h`, build files, examples and tests: no state of their own.


## 15. Running it

    tlc -workers 2 -config workq_contract.cfg MCWorkq
    tlc -workers 2 -config workq_live.cfg MCWorkq
    tlc -workers 2 -config workq_run.cfg MCWorkqRun
    tlc -workers 2 -config monitor_tokens.cfg Monitor
    tlc -workers 2 -config msgqueue_event.cfg MsgQueue
    tlc -workers 2 -config threadpool.cfg MCThreadpool
    tlc -workers 2 -config tpintf.cfg MCThreadpoolIntf
    tlc -workers 2 -config future.cfg MCFuture
    tlc -workers 2 -config ll_list.cfg MCLlList
    tlc -workers 2 -config llptr.cfg MCLlptr
    tlapm Workq_proofs.tla
    tlapm Monitor_proofs.tla
    tlapm MsgQueue_proofs.tla
    tlapm WorkqQueue_proofs.tla
    tlapm Threadpool_proofs.tla
    tlapm Llptr_proofs.tla
    tlapm WorkqRun_proofs.tla
    tlapm Future_proofs.tla

These end with a violation, which section 12 explains:

    tlc -workers 2 -config workq_deactivate.cfg MCWorkq
    tlc -workers 2 -config workq_coroutine.cfg MCWorkqRun
    tlc -workers 2 -config threadpool_shrink.cfg MCThreadpool
    tlc -workers 2 -config ll_list_raw.cfg MCLlList
