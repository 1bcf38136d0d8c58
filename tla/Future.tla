------------------------------- MODULE Future -------------------------------
(***************************************************************************)
(* The shared states behind promises and futures (src/src/future.cc and    *)
(* src/include/ilias/future-inl.h).  A shared state is that of a promise   *)
(* (shared_state_nofn), of a lazy function (shared_state_fn) or of a       *)
(* function on a work queue (shared_state_wqjob).  Calls nest deeply here: *)
(* a start runs a function, the result runs callbacks, a callback runs the *)
(* next function.  So each thread has a stack of frames, and an action is  *)
(* one step of the frame on top.  A frame has the operation, the shared    *)
(* state it works on and the rest of its arguments.                        *)
(*                                                                         *)
(* Left out: weak pointers that have expired (every shared state outlives  *)
(* the program), allocation failures, the T& and void specialisations      *)
(* (the same control) and packaged_task, whose shared state leaves two     *)
(* pure virtual functions of its base undefined and so cannot be built.    *)
(***************************************************************************)
EXTENDS Naturals, Sequences, FiniteSets

CONSTANTS
    Promises,        \* the shared states that a cb_promise was made for
    Lazies, Jobs,    \* those of async_lazy() and of async()
    Args,            \* the futures among the arguments of each function
    PassPromise,     \* the functions wrapped by pass_promise()
    SharedSources,   \* the sources of conversions held as shared futures
    Callbacks,       \* the callbacks that the program installs
    SharedCallbacks, \* those on a shared future
    Getters,         \* those that call get() on the future they are given
    On,              \* the shared state that each callback is installed on
    Threads, Workers,
    Programs,        \* what the threads may be about to do
    MaxCalls,        \* and how many calls that is for each at most
    NDEBUG,          \* whether assert() is compiled out
    None

Fns == Lazies \cup Jobs
States == Promises \cup Fns

ASSUME StatesAssumption ==
    /\ Promises \cap Fns = {} /\ Lazies \cap Jobs = {}
    /\ PassPromise \subseteq Fns /\ SharedSources \subseteq States
    /\ Args \in [Fns -> Seq(States)]
    /\ None \notin States \cup Callbacks \cup Threads
ASSUME CallbacksAssumption ==
    /\ Callbacks \cap States = {}
    /\ SharedCallbacks \subseteq Callbacks /\ Getters \subseteq Callbacks
    /\ On \in [Callbacks -> States]
Frame(op, o, v) == [op |-> op, of |-> o, v |-> v]

(* What a program may call: the functions of <ilias/future.h>.             *)
Calls ==
    {Frame("make", o, Args[o]) : o \in Fns}
    \cup {Frame(op, o, <<>>) : op \in {"get", "wait_until"}, o \in States}
    \cup {Frame("start", o, <<how>>) : o \in States, how \in {"sync", "async"}}
    \cup {Frame("set", o, <<r, "user">>) : o \in Promises,
                                           r \in {"value", "exc"}}
    \cup {Frame(op, o, <<>>) : op \in {"drop", "except"}, o \in Promises}
    \cup {Frame("convert", o, <<src>>) : o \in Promises, src \in States}
    \cup {Frame("callback", On[c], <<c, how>>) : c \in Callbacks,
                                                 how \in {"start", "defer"}}

(* A function is made once, and a callback is moved into its future.       *)
Again(f, g) == \/ f.op = "make" /\ g.op = "make" /\ f.of = g.of
               \/ f.op = "callback" /\ g.op = "callback" /\ f.v[1] = g.v[1]

ASSUME ProgramsAssumption ==
    /\ Workers \subseteq Threads /\ NDEBUG \in BOOLEAN
    /\ IsFiniteSet(Threads) /\ MaxCalls \in Nat
    /\ \A p \in Programs :
          /\ p \in [Threads -> Seq(Calls)]
          /\ \A t \in Threads : Len(p[t]) <= MaxCalls
          /\ \A t, u \in Threads : \A i \in DOMAIN p[t], k \in DOMAIN p[u] :
                Again(p[t][i], p[u][k]) => t = u /\ i = k

VARIABLES
    state, storage, \* state_ and what storage_ holds
    lck,            \* lck_: the thread that sets the result
    mtx,            \* ready_cb_mtx_
    single, chain,  \* ready_cb_ and the chain of shared_ready_cb_
    deps,           \* dependants_: None stands for the noop placeholder
    called, async,  \* start_deferred_called_ and start_deferred_value_
    promises,       \* promise_refcnt_
    conv, gone,     \* the source of convert_, and whether its src_ was reset
    need,           \* need_resolution_
    self, posted,   \* self_ and the activation of the job
    made,           \* the futures that the program has
    prog, stack,    \* what each thread has still to call, and its frames
    dead,           \* how the process ended, if it did
    runs, calls     \* history: functions run, callbacks called

resultVars == <<state, storage, lck>>
readyVars == <<mtx, single, chain, deps>>
startVars == <<called, async, conv, gone>>
fnVars == <<promises, need, self, posted, made>>
history == <<runs, calls>>
vars == <<resultVars, readyVars, startVars, fnVars, prog, stack, dead,
          history>>

(* What a shared state goes through, and the results a function can give. *)
Uninitialized == {"uninitialized", "deferred", "convert"}
ReadyStates == {"ready_value", "ready_exc"}
Results == {"value", "exc"}

Ready(o) == state[o] \in ReadyStates
ArgsOf(o) == {Args[o][i] : i \in DOMAIN Args[o]}

(* A function needs its start, and later each of its arguments. *)
NeedsNoStart == [o \in Fns |-> 0]
Needs == [o \in Fns |-> 1]

Init ==
    /\ state = [o \in States |->
                   IF o \in Fns THEN "deferred" ELSE "uninitialized"]
    /\ storage = [o \in States |-> "none"]
    /\ lck = [o \in States |-> None]
    /\ mtx = [o \in States |-> None]
    /\ single = [o \in States |-> None]
    /\ chain = [o \in States |-> <<>>]
    /\ deps = [o \in States |-> <<>>]
    /\ called = [o \in States |-> FALSE]
    /\ async = [o \in States |-> FALSE]
    /\ prog \in Programs
    /\ promises = [o \in States |-> \* the promise, and its exceptors
          Cardinality({p \in Threads \X (1..MaxCalls) :
              /\ p[2] \in DOMAIN prog[p[1]] /\ prog[p[1]][p[2]].of = o
              /\ prog[p[1]][p[2]].op \in {"drop", "except", "convert"}})]
    /\ conv = [o \in States |-> None]
    /\ gone = [o \in States |-> FALSE]
    /\ need = Needs
    /\ self = [o \in Jobs |-> FALSE]
    /\ posted = [o \in Jobs |-> FALSE]
    /\ made = [o \in States |-> o \in Promises]
    /\ stack = [t \in Threads |-> <<>>]
    /\ dead = "no"
    /\ runs = [o \in Fns |-> 0]
    /\ calls = [c \in Callbacks |-> 0]

-----------------------------------------------------------------------------
(* Frames.  Running(t, op) is the guard of a step: the frame on top of the *)
(* stack of t is at op.  f and g below are its shared state and arguments. *)

Top(t) == Head(stack[t])
Of(t) == Top(t).of
V(t) == Top(t).v
Running(t, op) == dead = "no" /\ stack[t] # <<>> /\ Top(t).op = op

Goto(t, f) == stack' = [stack EXCEPT ![t] = <<f>> \o Tail(@)]
Call(t, f, then) == stack' = [stack EXCEPT ![t] = <<f, then>> \o Tail(@)]
Return(t) == stack' = [stack EXCEPT ![t] = Tail(@)]

(* An assertion ends the process unless it is compiled out. *)
Assertion(ok) == dead' = IF ok \/ NDEBUG THEN "no" ELSE "assert"

(* The threads: one that has returned from a call makes the next one, once *)
(* the futures it needs are there.                                         *)
NextCall(t) ==
    /\ dead = "no" /\ stack[t] = <<>> /\ prog[t] # <<>>
    /\ LET f == Head(prog[t])
       IN  /\ IF f.op = "make" THEN \A a \in ArgsOf(f.of) : made[a]
              ELSE made[f.of]
           /\ f.op = "convert" => made[f.v[1]]
           /\ stack' = [stack EXCEPT ![t] = <<f>>]
    /\ prog' = [prog EXCEPT ![t] = Tail(@)]
    /\ UNCHANGED <<resultVars, readyVars, startVars, fnVars, dead, history>>

(* A worker of the work queue runs an activated job. *)
RunPosted(t) ==
    /\ dead = "no" /\ t \in Workers /\ stack[t] = <<>>
    /\ \E o \in Jobs :
          /\ posted[o]
          /\ posted' = [posted EXCEPT ![o] = FALSE]
          /\ stack' = [stack EXCEPT ![t] = <<Frame("job", o, <<>>)>>]
    /\ UNCHANGED <<resultVars, readyVars, startVars, promises, need, self,
                   made, prog, dead, history>>

-----------------------------------------------------------------------------
(* Setting the result, under lck_: set_value(), set_exc().  The frame has  *)
(* the result and what an exception of ensure_uninitialized() does.        *)

SetUnchecked(t) ==
    /\ Running(t, "set") /\ lck[Of(t)] = None
    /\ lck' = [lck EXCEPT ![Of(t)] = t]
    /\ Goto(t, Frame("store", Of(t), V(t)))
    /\ UNCHANGED <<state, storage, readyVars, startVars, fnVars, prog, dead,
                   history>>

Set(t) ==
    /\ Running(t, "set") /\ lck[Of(t)] = None
    /\ state[Of(t)] = "uninitialized"
    /\ lck' = [lck EXCEPT ![Of(t)] = t]
    /\ Goto(t, Frame("store", Of(t), V(t)))
    /\ UNCHANGED <<state, storage, readyVars, startVars, fnVars, prog, dead,
                   history>>

SetThrows(t) ==
    /\ Running(t, "set") /\ lck[Of(t)] = None
    /\ state[Of(t)] # "uninitialized"
    /\ \/ V(t)[2] # "noexcept" /\ Return(t) /\ dead' = "no"
       \/ V(t)[2] = "noexcept" /\ UNCHANGED stack /\ dead' = "terminate"
    /\ UNCHANGED <<resultVars, readyVars, startVars, fnVars, prog, history>>

Store(t) ==
    /\ Running(t, "store")
    /\ storage' = [storage EXCEPT ![Of(t)] = V(t)[1]]
    /\ Goto(t, Frame("publish", Of(t), V(t)))
    /\ UNCHANGED <<state, lck, readyVars, startVars, fnVars, prog, dead,
                   history>>

Publish(t) ==
    /\ Running(t, "publish")
    /\ Assertion(state[Of(t)] = "uninitialized")
    /\ state' = [state EXCEPT ![Of(t)] =
                    IF V(t)[1] = "value" THEN "ready_value" ELSE "ready_exc"]
    /\ lck' = [lck EXCEPT ![Of(t)] = None]
    /\ Goto(t, Frame("ready", Of(t), <<>>))
    /\ UNCHANGED <<storage, readyVars, startVars, fnVars, prog, history>>

-----------------------------------------------------------------------------
(* invoke_ready_cb(): the lists are swapped out under ready_cb_mtx_, and   *)
(* what was in them is called one by one.                                  *)

LockReady(t) ==
    /\ Running(t, "ready") /\ mtx[Of(t)] = None
    /\ mtx' = [mtx EXCEPT ![Of(t)] = t]
    /\ Goto(t, Frame("swap", Of(t), <<>>))
    /\ UNCHANGED <<resultVars, single, chain, deps, startVars, fnVars, prog,
                   dead, history>>

Swap(t) ==
    LET o == Of(t)
        first == IF single[o] = None THEN <<>> ELSE <<single[o]>>
    IN  /\ Running(t, "swap")
        /\ single' = [single EXCEPT ![o] = None]
        /\ chain' = [chain EXCEPT ![o] = <<>>]
        /\ deps' = [deps EXCEPT ![o] = <<>>]
        /\ mtx' = [mtx EXCEPT ![o] = None]
        /\ Goto(t, Frame("deliver", o, first \o chain[o] \o deps[o]))
        /\ UNCHANGED <<resultVars, startVars, fnVars, prog, dead, history>>

Deliver(t) ==
    /\ Running(t, "deliver")
    /\ IF V(t) = <<>> THEN Return(t)
       ELSE LET x == Head(V(t))
                rest == Frame("deliver", Of(t), Tail(V(t)))
            IN  CASE x = None -> Goto(t, rest)
                  [] x \in Callbacks ->
                       Call(t, Frame("call", Of(t), <<x>>), rest)
                  [] x \in States -> Call(t, Frame("depend", x, <<>>), rest)
    /\ UNCHANGED <<resultVars, readyVars, startVars, fnVars, prog, dead,
                   history>>

(* A callback of the program, which may get() the result. *)
CallBack(t) ==
    /\ Running(t, "call")
    /\ calls' = [calls EXCEPT ![V(t)[1]] = @ + 1]
    /\ IF V(t)[1] \in Getters THEN Goto(t, Frame("get", Of(t), <<>>))
       ELSE Return(t)
    /\ UNCHANGED <<resultVars, readyVars, startVars, fnVars, prog, dead, runs>>

(* Two unlocks by one thread, the second by the destructor of its          *)
(* unique_lock: it frees the mutex, whoever has it by then.                *)
ScopeEnd(t) ==
    /\ Running(t, "scope")
    /\ mtx' = [mtx EXCEPT ![Of(t)] = None]
    /\ Return(t)
    /\ UNCHANGED <<resultVars, single, chain, deps, startVars, fnVars, prog,
                   dead, history>>

-----------------------------------------------------------------------------
(* Starting: start_deferred() stores its flags, and do_start_deferred()    *)
(* depends on the kind of shared state.  The argument is sync or async.    *)

Start(t) ==
    LET async_ == V(t)[1] = "async"
    IN  /\ Running(t, "start")
        /\ called' = [called EXCEPT ![Of(t)] = TRUE]
        /\ Goto(t, Frame(IF async_ THEN "mark" ELSE "begin", Of(t), V(t)))
        /\ UNCHANGED <<resultVars, readyVars, async, conv, gone, fnVars, prog,
                       dead, history>>

MarkAsync(t) ==
    /\ Running(t, "mark")
    /\ async' = [async EXCEPT ![Of(t)] = TRUE]
    /\ Goto(t, Frame("begin", Of(t), V(t)))
    /\ UNCHANGED <<resultVars, readyVars, called, conv, gone, fnVars, prog,
                   dead, history>>

BeginPromise(t) ==
    /\ Running(t, "begin") /\ Of(t) \in Promises
    /\ Goto(t, Frame("base", Of(t), V(t)))
    /\ UNCHANGED <<resultVars, readyVars, startVars, fnVars, prog, dead,
                   history>>

(* shared_state_fn: an asynchronous start does not start it. *)
BeginLazy(t) ==
    /\ Running(t, "begin") /\ Of(t) \in Lazies
    /\ CASE V(t)[1] = "sync" -> Goto(t, Frame("claim", Of(t), V(t)))
         [] V(t)[1] = "async" /\ state[Of(t)] # "deferred" ->
              Goto(t, Frame("base", Of(t), V(t)))
         [] OTHER -> Return(t)
    /\ UNCHANGED <<resultVars, readyVars, startVars, fnVars, prog, dead,
                   history>>

(* shared_state_wqjob: it holds itself from its start to its end. *)
BeginJob(t) ==
    /\ Running(t, "begin") /\ Of(t) \in Jobs
    /\ Assertion(~self[Of(t)])
    /\ IF state[Of(t)] = "deferred" THEN Goto(t, Frame("hold", Of(t), <<>>))
       ELSE Goto(t, Frame("base", Of(t), V(t)))
    /\ UNCHANGED <<resultVars, readyVars, startVars, fnVars, prog, history>>

HoldSelf(t) ==
    /\ Running(t, "hold")
    /\ self' = [self EXCEPT ![Of(t)] = TRUE]
    /\ Goto(t, Frame("claim", Of(t), <<"sync">>))
    /\ UNCHANGED <<resultVars, readyVars, startVars, promises, need, posted,
                   made, prog, dead, history>>

(* clear_deferred(): of all who start the function one goes on. *)
Claim(t) ==
    LET o == Of(t)
    IN  /\ Running(t, "claim")
        /\ IF state[o] = "deferred"
           THEN /\ state' = [state EXCEPT ![o] = "uninitialized"]
                /\ Goto(t, Frame("args", o, Args[o]))
           ELSE /\ Goto(t, Frame("base", o, V(t)))
                /\ UNCHANGED state
        /\ UNCHANGED <<storage, lck, readyVars, startVars, fnVars, prog, dead,
                       history>>

StartArg(t) ==
    /\ Running(t, "args") /\ V(t) # <<>>
    /\ Call(t, Frame("start", Head(V(t)), <<"sync">>),
               Frame("args", Of(t), Tail(V(t))))
    /\ UNCHANGED <<resultVars, readyVars, startVars, fnVars, prog, dead,
                   history>>

(* need_resolution_ counts the start and the arguments: the last invokes.  *)
Resolve(t, o) ==
    /\ need' = [need EXCEPT ![o] = @ - 1]
    /\ IF need[o] = 1 THEN Goto(t, Frame("invoke", o, <<>>)) ELSE Return(t)

ArgsStarted(t) ==
    /\ Running(t, "args") /\ V(t) = <<>>
    /\ Resolve(t, Of(t))
    /\ UNCHANGED <<resultVars, readyVars, startVars, promises, self, posted,
                   made, prog, dead, history>>

(* A dependant is told that the shared state it depends on is ready. *)
DependFn(t) ==
    /\ Running(t, "depend") /\ Of(t) \in Fns /\ conv[Of(t)] = None
    /\ Resolve(t, Of(t))
    /\ UNCHANGED <<resultVars, readyVars, startVars, promises, self, posted,
                   made, prog, dead, history>>

(* shared_state<T>::do_start_deferred(): the start goes on to the source   *)
(* of a conversion, through src_, which is null once that has completed.   *)
BaseConvert(t) ==
    LET o == Of(t)
    IN  /\ Running(t, "base") /\ conv[o] # None
        /\ \/ gone[o] /\ dead' = "nullptr" /\ UNCHANGED stack
           \/ ~gone[o] /\ Goto(t, Frame("start", conv[o], V(t)))
              /\ UNCHANGED dead
        /\ UNCHANGED <<resultVars, readyVars, startVars, fnVars, prog,
                       history>>

BasePlain(t) ==
    /\ Running(t, "base") /\ conv[Of(t)] = None
    /\ Goto(t, Frame("check", Of(t), <<>>))
    /\ UNCHANGED <<resultVars, readyVars, startVars, fnVars, prog, dead,
                   history>>

BaseCheck(t) ==
    /\ Running(t, "check")
    /\ Assertion(state[Of(t)] \notin {"deferred", "convert"})
    /\ Return(t)
    /\ UNCHANGED <<resultVars, readyVars, startVars, fnVars, prog, history>>

-----------------------------------------------------------------------------
(* Invoking a function, at once or by its job on the work queue. *)

InvokeLazy(t) ==
    /\ Running(t, "invoke") /\ Of(t) \in Lazies
    /\ Goto(t, Frame("run", Of(t), Args[Of(t)]))
    /\ UNCHANGED <<resultVars, readyVars, startVars, fnVars, prog, dead,
                   history>>

(* activate(ACT_IMMED): the work queue runs the job here, or later. *)
InvokeJob(t) ==
    /\ Running(t, "invoke") /\ Of(t) \in Jobs
    /\ Assertion(self[Of(t)])
    /\ \/ /\ posted' = [posted EXCEPT ![Of(t)] = TRUE]
          /\ Return(t)
       \/ /\ Goto(t, Frame("job", Of(t), <<>>))
          /\ UNCHANGED posted
    /\ UNCHANGED <<resultVars, readyVars, startVars, promises, need, self,
                   made, prog, history>>

RunJob(t) ==
    /\ Running(t, "job")
    /\ Assertion(self[Of(t)])
    /\ Call(t, Frame("run", Of(t), Args[Of(t)]), Frame("end", Of(t), <<>>))
    /\ UNCHANGED <<resultVars, readyVars, startVars, fnVars, prog, history>>

JobEnd(t) ==
    /\ Running(t, "end")
    /\ self' = [self EXCEPT ![Of(t)] = FALSE]
    /\ Return(t)
    /\ UNCHANGED <<resultVars, readyVars, startVars, promises, need, posted,
                   made, prog, dead, history>>

(* invoke_deferred_() gets the arguments first. *)
GetArg(t) ==
    /\ Running(t, "run") /\ V(t) # <<>>
    /\ Call(t, Frame("get", Head(V(t)), <<>>),
               Frame("run", Of(t), Tail(V(t))))
    /\ UNCHANGED <<resultVars, readyVars, startVars, fnVars, prog, dead,
                   history>>

(* One of them threw: the exception is the result. *)
ArgThrows(t) ==
    /\ Running(t, "run") /\ V(t) = <<>>
    /\ \E a \in ArgsOf(Of(t)) : storage[a] # "value"
    /\ Goto(t, Frame("set", Of(t), <<"exc", "noexcept">>))
    /\ UNCHANGED <<resultVars, readyVars, startVars, fnVars, prog, dead,
                   history>>

CanInvoke(t) ==
    /\ Running(t, "run") /\ V(t) = <<>>
    /\ \A a \in ArgsOf(Of(t)) : storage[a] = "value"

(* The function returns a value or throws, and either is assigned; an      *)
(* exception of set_value() is caught, and that of set_exc() terminates.   *)
RunFn(t) ==
    /\ CanInvoke(t) /\ Of(t) \notin PassPromise
    /\ runs' = [runs EXCEPT ![Of(t)] = @ + 1]
    /\ \E r \in Results : Goto(t, Frame("set", Of(t), <<r, "noexcept">>))
    /\ UNCHANGED <<resultVars, readyVars, startVars, fnVars, prog, dead,
                   calls>>

(* A function with pass_promise() is given a promise, with which it sets   *)
(* the result or not, before it returns or throws.                         *)
RunPassPromise(t) ==
    LET o == Of(t)
    IN  /\ CanInvoke(t) /\ o \in PassPromise
        /\ runs' = [runs EXCEPT ![o] = @ + 1]
        /\ promises' = [promises EXCEPT ![o] = @ + 1]
        /\ \E sets \in BOOLEAN, how \in {"returns", "throws"} :
              LET unwind == Frame("unwind", o, <<how>>)
              IN  IF sets THEN Call(t, Frame("set", o, <<"value", "user">>),
                                       unwind)
                  ELSE Goto(t, unwind)
        /\ UNCHANGED <<resultVars, readyVars, startVars, need, self, posted,
                       made, prog, dead, calls>>

(* The promise is destroyed before the exception is caught. *)
Unwind(t) ==
    /\ Running(t, "unwind")
    /\ IF V(t)[1] = "throws"
       THEN Call(t, Frame("drop", Of(t), <<>>),
                    Frame("set", Of(t), <<"exc", "noexcept">>))
       ELSE Goto(t, Frame("drop", Of(t), <<>>))
    /\ UNCHANGED <<resultVars, readyVars, startVars, fnVars, prog, dead,
                   history>>

(* async_lazy() and async() make a function: it registers with the shared  *)
(* states of its arguments (init_cb_()), which may become ready meanwhile. *)
Make(t) ==
    /\ Running(t, "make") /\ V(t) = <<>>
    /\ made' = [made EXCEPT ![Of(t)] = TRUE]
    /\ Return(t)
    /\ UNCHANGED <<resultVars, readyVars, startVars, promises, need, self,
                   posted, prog, dead, history>>

MakeArg(t) ==
    /\ Running(t, "make") /\ V(t) # <<>>
    /\ need' = [need EXCEPT ![Of(t)] = @ + 1]
    /\ Call(t, Frame("register", Head(V(t)), <<Of(t)>>),
               Frame("make", Of(t), Tail(V(t))))
    /\ UNCHANGED <<resultVars, readyVars, startVars, promises, self, posted,
                   made, prog, dead, history>>

LockRegister(t) ==
    /\ Running(t, "register") /\ mtx[Of(t)] = None
    /\ mtx' = [mtx EXCEPT ![Of(t)] = t]
    /\ Goto(t, Frame("registered", Of(t), V(t)))
    /\ UNCHANGED <<resultVars, single, chain, deps, startVars, fnVars, prog,
                   dead, history>>

Register(t) ==
    LET o == Of(t)
    IN  /\ Running(t, "registered")
        /\ mtx' = [mtx EXCEPT ![o] = None]
        /\ IF Ready(o)
           THEN /\ Call(t, Frame("depend", V(t)[1], <<>>),
                           Frame("scope", o, <<>>))
                /\ UNCHANGED deps
           ELSE /\ deps' = [deps EXCEPT ![o] = Append(@, V(t)[1])]
                /\ Return(t)
        /\ UNCHANGED <<resultVars, single, chain, startVars, fnVars, prog,
                       dead, history>>

-----------------------------------------------------------------------------
(* Promises: the last that goes while nothing is assigned breaks.  *)

Drop(t) ==
    /\ Running(t, "drop")
    /\ promises' = [promises EXCEPT ![Of(t)] = @ - 1]
    /\ IF promises[Of(t)] = 1 THEN Goto(t, Frame("orphan", Of(t), <<>>))
       ELSE Return(t)
    /\ UNCHANGED <<resultVars, readyVars, startVars, need, self, posted, made,
                   prog, dead, history>>

OrphanStays(t) ==
    /\ Running(t, "orphan")
    /\ Return(t)
    /\ UNCHANGED <<resultVars, readyVars, startVars, fnVars, prog, dead,
                   history>>

Orphan(t) ==
    /\ Running(t, "orphan")
    /\ IF state[Of(t)] = "uninitialized"
       THEN Goto(t, Frame("set", Of(t), <<"broken", "noexcept">>))
       ELSE Return(t)
    /\ UNCHANGED <<resultVars, readyVars, startVars, fnVars, prog, dead,
                   history>>

(* cb_promise_exceptor::set_current_exception(), which is noexcept. *)
SetCurrentException(t) ==
    LET drop == Frame("drop", Of(t), <<>>)
    IN  /\ Running(t, "except")
        /\ IF state[Of(t)] = "uninitialized"
           THEN Call(t, Frame("set", Of(t), <<"exc", "noexcept">>), drop)
           ELSE Goto(t, drop)
        /\ UNCHANGED <<resultVars, readyVars, startVars, fnVars, prog, dead,
                       history>>

-----------------------------------------------------------------------------
(* convert(): the promise takes its result from a source.  A place among   *)
(* the dependants of the source is reserved before the promise is changed  *)
(* and filled after; V(t) is the source, and then the place.               *)

LockSource(t) ==
    /\ Running(t, "convert") \/ Running(t, "commit")
    /\ mtx[V(t)[1]] = None
    /\ mtx' = [mtx EXCEPT ![V(t)[1]] = t]
    /\ Goto(t, Frame(IF Top(t).op = "convert" THEN "reserve" ELSE "fill",
                     Of(t), V(t)))
    /\ UNCHANGED <<resultVars, single, chain, deps, startVars, fnVars, prog,
                   dead, history>>

Reserve(t) ==
    LET src == V(t)[1]
    IN  /\ Running(t, "reserve")
        /\ mtx' = [mtx EXCEPT ![src] = None]
        /\ IF Ready(src)
           THEN /\ Goto(t, Frame("present", Of(t), <<src, 1>>))
                /\ UNCHANGED deps
           ELSE /\ deps' = [deps EXCEPT ![src] = Append(@, None)]
                /\ Goto(t, Frame("present", Of(t),
                                 <<src, Len(deps[src]) + 1>>))
        /\ UNCHANGED <<resultVars, single, chain, startVars, fnVars, prog,
                       dead, history>>

MarkConvert(t) ==
    LET o == Of(t)
    IN  /\ Running(t, "present")
        /\ Assertion(state[o] = "uninitialized")
        /\ state' = [state EXCEPT ![o] =
                        IF @ = "uninitialized" THEN "convert" ELSE @]
        /\ Goto(t, Frame("exchange", o, V(t)))
        /\ UNCHANGED <<storage, lck, readyVars, startVars, fnVars, prog,
                       history>>

SetConvert(t) ==
    /\ Running(t, "exchange")
    /\ Assertion(conv[Of(t)] = None)
    /\ conv' = [conv EXCEPT ![Of(t)] = V(t)[1]]
    /\ Goto(t, Frame("commit", Of(t), V(t)))
    /\ UNCHANGED <<resultVars, readyVars, called, async, gone, fnVars, prog,
                   history>>

Commit(t) ==
    LET src == V(t)[1]
        rest == Frame("started", Of(t), <<src>>)
    IN  /\ Running(t, "fill")
        /\ mtx' = [mtx EXCEPT ![src] = None]
        /\ IF Ready(src)
           THEN /\ stack' = [stack EXCEPT ![t] =
                      <<Frame("depend", Of(t), <<>>),
                        Frame("scope", src, <<>>), rest>> \o Tail(@)]
                /\ UNCHANGED deps
           ELSE /\ deps' = [deps EXCEPT ![src][V(t)[2]] = Of(t)]
                /\ Goto(t, rest)
        /\ UNCHANGED <<resultVars, single, chain, startVars, fnVars, prog,
                       dead, history>>

(* A start that came before the conversion is passed on.  The promise was  *)
(* an argument of convert(), which destroys it.                            *)
PassStart(t) ==
    LET o == Of(t)
        drop == Frame("drop", o, <<>>)
        how == IF async[o] THEN "async" ELSE "sync"
    IN  /\ Running(t, "started")
        /\ \/ called[o] /\ gone[o] /\ dead' = "nullptr" /\ UNCHANGED stack
           \/ called[o] /\ ~gone[o] /\ UNCHANGED dead
              /\ Call(t, Frame("start", V(t)[1], <<how>>), drop)
           \/ ~called[o] /\ Goto(t, drop) /\ UNCHANGED dead
        /\ UNCHANGED <<resultVars, readyVars, startVars, fnVars, prog,
                       history>>

(* dependant_cb_() and dependant_cb_shared_(): the source is ready. *)
DependConvert(t) ==
    /\ Running(t, "depend") /\ conv[Of(t)] # None
    /\ Call(t, Frame("get", conv[Of(t)], <<>>), Frame("conv", Of(t), <<>>))
    /\ UNCHANGED <<resultVars, readyVars, startVars, fnVars, prog, dead,
                   history>>

(* The source may have an exception, and the conversion may throw. *)
Convert(t) ==
    LET o == Of(t)
    IN  /\ Running(t, "conv")
        /\ \E r \in Results :
              /\ storage[conv[o]] # "value" => r = "exc"
              /\ IF r = "exc" /\ conv[o] \in SharedSources
                 THEN dead' = "terminate" /\ UNCHANGED stack
                 ELSE Goto(t, Frame("clear", o, <<r>>)) /\ UNCHANGED dead
        /\ UNCHANGED <<resultVars, readyVars, startVars, fnVars, prog,
                       history>>

(* install_value() and install_exc(). *)
Install(t) ==
    LET o == Of(t)
        fails == IF V(t)[1] = "exc" \/ conv[o] \in SharedSources
                 THEN "noexcept" ELSE "caught"
    IN  /\ Running(t, "clear")
        /\ state' = [state EXCEPT ![o] =
                        IF @ = "convert" THEN "uninitialized" ELSE @]
        /\ Call(t, Frame("set", o, <<V(t)[1], fails>>),
                   Frame("gone", o, <<>>))
        /\ UNCHANGED <<storage, lck, readyVars, startVars, fnVars, prog, dead,
                       history>>

SourceGone(t) ==
    /\ Running(t, "gone")
    /\ gone' = [gone EXCEPT ![Of(t)] = TRUE]
    /\ Return(t)
    /\ UNCHANGED <<resultVars, readyVars, called, async, conv, fnVars, prog,
                   dead, history>>

-----------------------------------------------------------------------------
(* Futures: get(), wait(), wait_until() and callback(). *)

Get(t) ==
    /\ Running(t, "get")
    /\ Call(t, Frame("start", Of(t), <<"sync">>), Frame("spin", Of(t), <<>>))
    /\ UNCHANGED <<resultVars, readyVars, startVars, fnVars, prog, dead,
                   history>>

Got(t) ==
    /\ Running(t, "spin") /\ Ready(Of(t))
    /\ Return(t)
    /\ UNCHANGED <<resultVars, readyVars, startVars, fnVars, prog, dead,
                   history>>

WaitUntil(t) ==
    /\ Running(t, "wait_until")
    /\ Call(t, Frame("start", Of(t), <<"async">>), Frame("timed", Of(t), <<>>))
    /\ UNCHANGED <<resultVars, readyVars, startVars, fnVars, prog, dead,
                   history>>

(* It returns when the state is ready or deferred, or the time has come. *)
WaitEnds(t) ==
    /\ Running(t, "timed")
    /\ Return(t)
    /\ UNCHANGED <<resultVars, readyVars, startVars, fnVars, prog, dead,
                   history>>

(* callback() calls at once if the state is ready; else it installs the    *)
(* callback and starts the future.  V(t) is the callback and whether to.   *)
CallbackCall(t) ==
    LET o == Of(t)
        c == V(t)[1]
    IN  /\ Running(t, "callback")
        /\ IF Ready(o)
           THEN Call(t, Frame("call", o, <<c>>), Frame("unchain", o, <<c>>))
           ELSE Goto(t, Frame("install", o, V(t)))
        /\ UNCHANGED <<resultVars, readyVars, startVars, fnVars, prog, dead,
                       history>>

LockInstall(t) ==
    /\ Running(t, "install") /\ mtx[Of(t)] = None
    /\ mtx' = [mtx EXCEPT ![Of(t)] = t]
    /\ Goto(t, Frame("installed", Of(t), V(t)))
    /\ UNCHANGED <<resultVars, single, chain, deps, startVars, fnVars, prog,
                   dead, history>>

AfterInstall(o, how) ==
    IF how = "start" THEN <<Frame("start", o, <<"sync">>)>> ELSE <<>>

InstallReady(t) ==
    LET o == Of(t)
        c == V(t)[1]
    IN  /\ Running(t, "installed") /\ Ready(o)
        /\ mtx' = [mtx EXCEPT ![o] = None]
        /\ stack' = [stack EXCEPT ![t] =
               <<Frame("call", o, <<c>>), Frame("unchain", o, <<c>>)>>
               \o AfterInstall(o, V(t)[2]) \o Tail(@)]
        /\ UNCHANGED <<resultVars, single, chain, deps, startVars, fnVars,
                       prog, dead, history>>

InstallUntested(t) ==
    /\ Running(t, "installed")
    /\ mtx' = [mtx EXCEPT ![Of(t)] = None]
    /\ chain' = [chain EXCEPT ![Of(t)] = <<V(t)[1]>> \o @]
    /\ Return(t)
    /\ UNCHANGED <<resultVars, single, deps, startVars, fnVars, prog, dead,
                   history>>

InstallCallback(t) ==
    LET o == Of(t)
        c == V(t)[1]
    IN  /\ Running(t, "installed") /\ ~Ready(o)
        /\ mtx' = [mtx EXCEPT ![o] = None]
        /\ IF c \in SharedCallbacks
           THEN /\ chain' = [chain EXCEPT ![o] = <<c>> \o @]
                /\ UNCHANGED <<single, dead>>
           ELSE /\ Assertion(single[o] = None)
                /\ single' = [single EXCEPT ![o] = c]
                /\ UNCHANGED chain
        /\ stack' = [stack EXCEPT ![t] =
               AfterInstall(o, V(t)[2]) \o Tail(@)]
        /\ UNCHANGED <<resultVars, deps, startVars, fnVars, prog, history>>

(* A callback on a shared future that was not chained is destroyed with    *)
(* its chain pointer uninitialised, and deletes what that points to.       *)
Unchain(t) ==
    /\ Running(t, "unchain")
    /\ \/ Return(t) /\ UNCHANGED dead
       \/ /\ V(t)[1] \in SharedCallbacks
          /\ dead' = "chain" /\ UNCHANGED stack
    /\ UNCHANGED <<resultVars, readyVars, startVars, fnVars, prog, history>>

-----------------------------------------------------------------------------
(* The specification. *)

SetResult(t) == Set(t) \/ SetThrows(t) \/ Store(t) \/ Publish(t)
InvokeReady(t) ==
    LockReady(t) \/ Swap(t) \/ Deliver(t) \/ CallBack(t) \/ ScopeEnd(t)
StartDeferred(t) ==
    \/ Start(t) \/ MarkAsync(t) \/ BeginPromise(t) \/ BeginLazy(t)
    \/ BeginJob(t) \/ HoldSelf(t) \/ Claim(t) \/ StartArg(t)
    \/ ArgsStarted(t) \/ DependFn(t) \/ BaseConvert(t) \/ BasePlain(t)
    \/ BaseCheck(t)
InvokeDeferred(t) ==
    \/ InvokeLazy(t) \/ InvokeJob(t) \/ RunJob(t) \/ JobEnd(t) \/ GetArg(t)
    \/ ArgThrows(t) \/ RunFn(t) \/ RunPassPromise(t) \/ Unwind(t)
MakeFn(t) == Make(t) \/ MakeArg(t) \/ LockRegister(t) \/ Register(t)
DropPromise(t) == Drop(t) \/ Orphan(t) \/ SetCurrentException(t)
ConvertPromise(t) ==
    \/ LockSource(t) \/ Reserve(t) \/ MarkConvert(t) \/ SetConvert(t)
    \/ Commit(t) \/ PassStart(t) \/ DependConvert(t) \/ Convert(t)
    \/ Install(t) \/ SourceGone(t)
UseFuture(t) ==
    \/ Get(t) \/ Got(t) \/ WaitUntil(t) \/ WaitEnds(t) \/ CallbackCall(t)
    \/ LockInstall(t) \/ InstallReady(t) \/ InstallCallback(t) \/ Unchain(t)

Step(t) ==
    \/ NextCall(t) \/ RunPosted(t) \/ SetResult(t) \/ InvokeReady(t)
    \/ StartDeferred(t) \/ InvokeDeferred(t) \/ MakeFn(t) \/ DropPromise(t)
    \/ ConvertPromise(t) \/ UseFuture(t)

Next == \E t \in Threads : Step(t)

Spec == Init /\ [][Next]_vars

(* Every thread is scheduled, the workers of the work queue included. *)
FairSpec == Spec /\ \A t \in Threads : WF_vars(Step(t))

-----------------------------------------------------------------------------
(* Properties. *)

(* Every variable has a value of its type. *)
TypeOK ==
    /\ state \in [States -> Uninitialized \cup ReadyStates]
    /\ storage \in [States -> {"none", "value", "exc", "broken"}]
    /\ lck \in [States -> Threads \cup {None}]
    /\ mtx \in [States -> Threads \cup {None}]
    /\ single \in [States -> Callbacks \cup {None}]
    /\ chain \in [States -> Seq(Callbacks)]
    /\ deps \in [States -> Seq(States \cup {None})]
    /\ called \in [States -> BOOLEAN] /\ async \in [States -> BOOLEAN]
    /\ promises \in [States -> Nat]
    /\ conv \in [States -> States \cup {None}] /\ gone \in [States -> BOOLEAN]
    /\ need \in [Fns -> Nat]
    /\ self \in [Jobs -> BOOLEAN] /\ posted \in [Jobs -> BOOLEAN]
    /\ made \in [States -> BOOLEAN]
    /\ dead \in {"no", "assert", "terminate", "nullptr", "chain"}
    /\ runs \in [Fns -> Nat] /\ calls \in [Callbacks -> Nat]

(* What is in storage_ is visible once the state is ready, and counts from *)
(* then on.  Promises and futures keep the contract whatever threads do at *)
(* once: a result is assigned once and is never changed or overwritten,    *)
(* and a callback that races with it is called once, after it.             *)
Result == [o \in States |-> IF Ready(o) THEN storage[o] ELSE "none"]
Contract == INSTANCE FutureContract WITH result <- Result, invoked <- calls
KeepsContract == Contract!Spec

(* A function is invoked at most once, never before a start, and only when *)
(* the futures among its arguments are all ready, whichever threads start  *)
(* it and finish the arguments meanwhile (need_resolution_).               *)
RunsOnceWhenReady ==
    \A o \in Fns : runs[o] > 0 =>
        runs[o] = 1 /\ called[o] /\ \A a \in ArgsOf(o) : Ready(a)

(* Functions are counted and invoked as the threads' bookkeeping says.     *)
FunctionsSound == TypeOK /\ RunsOnceWhenReady

(* ready_cb_mtx_ is unlocked twice where a ready shared state is given a   *)
(* dependant (future-inl.h:1098, 1117).  Even so nobody adds to the lists  *)
(* after they were swapped out to be called: nothing is left behind.       *)
NothingLeftBehind ==
    (\A t \in Threads : stack[t] = <<>>) =>
        \A o \in States : Ready(o) =>
            single[o] = None /\ chain[o] = <<>> /\ deps[o] = <<>>

(* Whoever waits for a future goes on: its promise is assigned, converted  *)
(* or dropped, its function is run.  The exception is a promise that was   *)
(* waited for with a timeout before it was converted from a lazy function: *)
(* the start is passed on as asynchronous, which does not start that.      *)
StartLost ==
    \E o \in States : async[o] /\ conv[o] \in Lazies /\ ~Ready(conv[o])
WaitersReturn ==
    []<>((\A t \in Threads : stack[t] = <<>>) \/ dead # "no" \/ StartLost)
=============================================================================
