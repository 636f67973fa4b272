------------------------------- MODULE Future -------------------------------
(***************************************************************************)
(* Future<A> of src/include/nstd/Future.hpp and src/src/Future.cpp, with   *)
(* the Signal it is built on (src/src/Signal.cpp) and the lazy creation of *)
(* the global thread pool.                                                 *)
(*                                                                         *)
(* Each owner is a thread with a Future of its own: it starts calls, joins *)
(* them, starts again, and destroys the Future in the end, while any       *)
(* thread may abort() it.  The pool appears as what ThreadPool.tla shows   *)
(* of it: a call handed to run() is executed once, by some worker.         *)
(* The n-th call of a Future returns n.                                    *)
(***************************************************************************)
EXTENDS Naturals, FiniteSets, FiniteSetsExt

CONSTANTS Owners,     \* the threads that own a Future (and the name of it)
          Workers,    \* the threads of the pool
          MaxStarts   \* bound: how often the Futures are started, together

ASSUME FutureAssumption == MaxStarts \in Nat

VARIABLES
  threadPool,   \* _threadPool is not null
  poolLock,     \* _threadPoolLock
  created,      \* history: how many pools have been made
  aborting, state, joinable, result,  \* the members of each Future
  signaled,     \* the member of its Signal
  alive,        \* the Futures that are not destroyed
  starts,       \* how often each Future has been started
  abortOf,      \* history: in which of its calls each Future was last aborted
  pc, after,    \* where each owner is, and what it does when join() returns
  pending,      \* the calls that run() has taken and no worker has begun
  wpc, call, seen   \* where each worker is, its call, the _aborting it read

poolVars == <<threadPool, poolLock, created>>
memberVars == <<aborting, state, joinable, result, signaled, alive>>
historyVars == <<starts, abortOf>>
ownerVars == <<pc, after>>
workerVars == <<pending, wpc, call, seen>>
vars == <<poolVars, memberVars, historyVars, ownerVars, workerVars>>

NoCall == <<>>

Init == /\ threadPool = FALSE /\ poolLock = FALSE /\ created = 0
        /\ aborting = [o \in Owners |-> FALSE]
        /\ state = [o \in Owners |-> "idle"]
        /\ joinable = [o \in Owners |-> FALSE]
        /\ result = [o \in Owners |-> 0]
        /\ signaled = [o \in Owners |-> FALSE]
        /\ alive = Owners
        /\ starts = [o \in Owners |-> 0]
        /\ abortOf = [o \in Owners |-> 0]
        /\ pc = [o \in Owners |-> "idle"]
        /\ after = [o \in Owners |-> "idle"]
        /\ pending = {}
        /\ wpc = [w \in Workers |-> "idle"]
        /\ call = [w \in Workers |-> NoCall]
        /\ seen = [w \in Workers |-> FALSE]

Goto(o, from, to) == pc[o] = from /\ pc' = [pc EXCEPT ![o] = to]

-----------------------------------------------------------------------------
(* startProc: the pool is made by whoever needs it first *)

\* How often start() has been called.
Started == MapThenSumSet(LAMBDA o : starts[o], Owners) + Cardinality({o \in Owners : after[o] = "run" /\ pc[o] # "idle"})

\* threadPool = Private::_threadPool
Start(o) ==
  /\ o \in alive
  /\ Started < MaxStarts
  /\ Goto(o, "idle", IF threadPool THEN "join" ELSE "lock")
  /\ after' = [after EXCEPT ![o] = "run"]
  /\ UNCHANGED <<poolVars, memberVars, historyVars, workerVars>>

\* while(Atomic::testAndSet(Private::_threadPoolLock) != 0);
LockPool(o) ==
  /\ ~poolLock
  /\ Goto(o, "lock", "create")
  /\ poolLock' = TRUE
  /\ UNCHANGED <<threadPool, created, memberVars, historyVars, after, workerVars>>

\* Mutant: the pointer is not read again under the lock.
CreatePoolBlindly(o) ==
  /\ Goto(o, "create", "unlock")
  /\ created' = created + 1
  /\ threadPool' = TRUE
  /\ UNCHANGED <<poolLock, memberVars, historyVars, after, workerVars>>

\* if(!(threadPool = Private::_threadPool)) a new one, and the pointer is set
CreatePool(o) ==
  /\ Goto(o, "create", "unlock")
  /\ created' = IF threadPool THEN created ELSE created + 1
  /\ threadPool' = TRUE
  /\ UNCHANGED <<poolLock, memberVars, historyVars, after, workerVars>>

UnlockPool(o) ==
  /\ Goto(o, "unlock", "join")
  /\ poolLock' = FALSE
  /\ UNCHANGED <<threadPool, created, memberVars, historyVars, after, workerVars>>

\* Mutant: the flag of an earlier call is kept.
RunStillAborting(o) ==
  /\ Goto(o, "run", "idle")
  /\ joinable' = [joinable EXCEPT ![o] = TRUE]
  /\ starts' = [starts EXCEPT ![o] = @ + 1]
  /\ pending' = pending \cup {<<o, starts[o] + 1>>}
  /\ UNCHANGED <<poolVars, aborting, state, result, signaled, alive, abortOf, after, wpc, call,
                 seen>>

\* _joinable = true; _aborting = false; threadPool->run(proc, args)
Run(o) ==
  /\ Goto(o, "run", "idle")
  /\ joinable' = [joinable EXCEPT ![o] = TRUE]
  /\ aborting' = [aborting EXCEPT ![o] = FALSE]
  /\ starts' = [starts EXCEPT ![o] = @ + 1]
  /\ pending' = pending \cup {<<o, starts[o] + 1>>}
  /\ UNCHANGED <<poolVars, state, result, signaled, alive, abortOf, after, wpc, call, seen>>

-----------------------------------------------------------------------------
(* join, and the operations that call it *)

\* join(), or the conversion to the result, which joins first
Join(o) ==
  /\ o \in alive
  /\ Goto(o, "idle", "join")
  /\ after' = [after EXCEPT ![o] = "idle"]
  /\ UNCHANGED <<poolVars, memberVars, historyVars, workerVars>>

\* if(_joinable)
JoinTest(o) ==
  /\ Goto(o, "join", IF joinable[o] THEN "wait" ELSE after[o])
  /\ UNCHANGED <<poolVars, memberVars, historyVars, after, workerVars>>

\* _sig.wait(): with its mutex, go on if signaled, sleep otherwise
Wait(o) ==
  /\ Goto(o, "wait", IF signaled[o] THEN "reset" ELSE "asleep")
  /\ UNCHANGED <<poolVars, memberVars, historyVars, after, workerVars>>

\* Mutant: the signal stays set.
ResetNothing(o) ==
  /\ Goto(o, "reset", after[o])
  /\ joinable' = [joinable EXCEPT ![o] = FALSE]
  /\ UNCHANGED <<poolVars, aborting, state, result, signaled, alive, historyVars, after,
                 workerVars>>

\* _sig.reset(); _joinable = false
Reset(o) ==
  /\ Goto(o, "reset", after[o])
  /\ signaled' = [signaled EXCEPT ![o] = FALSE]
  /\ joinable' = [joinable EXCEPT ![o] = FALSE]
  /\ UNCHANGED <<poolVars, aborting, state, result, alive, historyVars, after, workerVars>>

\* Mutant: the destructor does not join.
DestroyAtOnce(o) ==
  /\ o \in alive
  /\ Goto(o, "idle", "destroy")
  /\ after' = [after EXCEPT ![o] = "destroy"]
  /\ UNCHANGED <<poolVars, memberVars, historyVars, workerVars>>

\* ~Future joins, and then its members are destroyed
Destroy(o) ==
  /\ o \in alive
  /\ Goto(o, "idle", "join")
  /\ after' = [after EXCEPT ![o] = "destroy"]
  /\ UNCHANGED <<poolVars, memberVars, historyVars, workerVars>>

Destroyed(o) ==
  /\ Goto(o, "destroy", "gone")
  /\ alive' = alive \ {o}
  /\ UNCHANGED <<poolVars, aborting, state, joinable, result, signaled, historyVars, after,
                 workerVars>>

\* abort(), from any thread
Abort(o) ==
  /\ o \in alive
  /\ aborting' = [aborting EXCEPT ![o] = TRUE]
  /\ abortOf' = [abortOf EXCEPT ![o] = starts[o]]
  /\ UNCHANGED <<poolVars, state, joinable, result, signaled, alive, starts, ownerVars,
                 workerVars>>

-----------------------------------------------------------------------------
(* proc, in a worker *)

WGoto(w, from, to) == wpc[w] = from /\ wpc' = [wpc EXCEPT ![w] = to]

\* The pool gives the worker a call.
Take(w, c) ==
  /\ c \in pending
  /\ pending' = pending \ {c}
  /\ WGoto(w, "idle", "call")
  /\ call' = [call EXCEPT ![w] = c]
  /\ UNCHANGED <<poolVars, memberVars, historyVars, ownerVars, seen>>

FutureOf(w) == call[w][1]

\* result = b->call()
Call(w) ==
  /\ WGoto(w, "call", "readAborting")
  /\ result' = [result EXCEPT ![FutureOf(w)] = call[w][2]]
  /\ UNCHANGED <<poolVars, aborting, state, joinable, signaled, alive, historyVars, ownerVars,
                 pending, call, seen>>

\* _aborting ? abortedState : finishedState
ReadAborting(w) ==
  /\ WGoto(w, "readAborting", "swapState")
  /\ seen' = [seen EXCEPT ![w] = aborting[FutureOf(w)]]
  /\ UNCHANGED <<poolVars, memberVars, historyVars, ownerVars, pending, call>>

SwapState(w) ==
  /\ WGoto(w, "swapState", "signal")
  /\ state' = [state EXCEPT ![FutureOf(w)] = IF seen[w] THEN "aborted" ELSE "finished"]
  /\ seen' = [seen EXCEPT ![w] = FALSE]
  /\ UNCHANGED <<poolVars, aborting, joinable, result, signaled, alive, historyVars, ownerVars,
                 pending, call>>

\* Signal::set: signaled = true under the mutex ...
SetSignal(w) ==
  /\ WGoto(w, "signal", "broadcast")
  /\ signaled' = [signaled EXCEPT ![FutureOf(w)] = TRUE]
  /\ UNCHANGED <<poolVars, aborting, state, joinable, result, alive, historyVars, ownerVars,
                 pending, call, seen>>

\* Mutant: the waiting thread is not woken.
BroadcastNothing(w) ==
  /\ WGoto(w, "broadcast", "idle")
  /\ call' = [call EXCEPT ![w] = NoCall]
  /\ UNCHANGED <<poolVars, memberVars, historyVars, ownerVars, pending, seen>>

\* ... and then, without it, pthread_cond_broadcast(cdata)
Broadcast(w) ==
  /\ WGoto(w, "broadcast", "idle")
  /\ pc' = [pc EXCEPT ![FutureOf(w)] = IF @ = "asleep" THEN "wait" ELSE @]
  /\ call' = [call EXCEPT ![w] = NoCall]
  /\ UNCHANGED <<poolVars, memberVars, historyVars, after, pending, seen>>

-----------------------------------------------------------------------------
\* What an owner does once it has called something.
Proceed(o) == \/ LockPool(o) \/ CreatePool(o) \/ UnlockPool(o)
              \/ JoinTest(o) \/ Wait(o) \/ Reset(o) \/ Run(o) \/ Destroyed(o)

Work(w) == \/ \E c \in pending : Take(w, c)
           \/ Call(w) \/ ReadAborting(w) \/ SwapState(w) \/ SetSignal(w) \/ Broadcast(w)

\* Nobody has anything to do any more.
Stop == /\ \A o \in Owners : pc[o] \in {"idle", "gone"}
        /\ UNCHANGED vars

Next == \/ \E o \in Owners : Start(o) \/ Join(o) \/ Destroy(o) \/ Abort(o) \/ Proceed(o)
        \/ \E w \in Workers : Work(w)
        \/ Stop

Spec == Init /\ [][Next]_vars

\* An owner finishes what it has called, and so does a worker: the operating system
\* schedules every thread, and the functions that are called return.
Fairness == /\ \A o \in Owners : WF_vars(Proceed(o))
            /\ \A w \in Workers : WF_vars(Work(w))

LiveSpec == Spec /\ Fairness

-----------------------------------------------------------------------------
(* Properties *)

\* The variables keep their types: a worker that is not idle has a call.
TypeOK ==
  /\ threadPool \in BOOLEAN /\ poolLock \in BOOLEAN /\ created \in Nat
  /\ aborting \in [Owners -> BOOLEAN]
  /\ state \in [Owners -> {"idle", "finished", "aborted"}]
  /\ joinable \in [Owners -> BOOLEAN]
  /\ result \in [Owners -> Nat]
  /\ signaled \in [Owners -> BOOLEAN]
  /\ alive \subseteq Owners
  /\ starts \in [Owners -> Nat] /\ abortOf \in [Owners -> Nat]
  /\ pc \in [Owners -> {"idle", "lock", "create", "unlock", "join", "wait", "asleep", "reset",
                        "run", "destroy", "gone"}]
  /\ after \in [Owners -> {"idle", "run", "destroy"}]
  /\ pending \subseteq Owners \X Nat
  /\ wpc \in [Workers -> {"idle", "call", "readAborting", "swapState", "signal", "broadcast"}]
  /\ \A w \in Workers : wpc[w] # "idle" => call[w] \in Owners \X Nat
  /\ DOMAIN call = Workers
  /\ seen \in [Workers -> BOOLEAN]

\* Only one pool is made, however the first calls of start() race, whoever goes on
\* to run() sees it, and the spin lock admits one thread at a time.
OnePool ==
  /\ created <= 1
  /\ \A o \in Owners : pc[o] = "run" => created = 1
  /\ \A o, p \in Owners :
       pc[o] \in {"create", "unlock"} /\ pc[p] \in {"create", "unlock"} => o = p

\* When a Future is not joinable its last call is over: join() and start() never
\* return on the signal of an earlier call, and the result and the state are those
\* of the last call.
JoinedMeansDone ==
  \A o \in Owners :
    ~joinable[o] => /\ result[o] = starts[o]
                    /\ starts[o] > 0 => state[o] \in {"finished", "aborted"}

\* isAborted() after a join tells of an abort() of that very call: an abort() from
\* before start() does not carry over, nor does one of an earlier call.
AbortOfThisCall ==
  \A o \in Owners : ~joinable[o] /\ state[o] = "aborted" => abortOf[o] = starts[o]

\* A worker that has begun a call and not yet signaled uses a Future that exists.
CallOutlived ==
  \A w \in Workers :
    wpc[w] \in {"call", "readAborting", "swapState", "signal"} => FutureOf(w) \in alive

\* Every join(), start() and destructor returns.
CallsReturn == \A o \in Owners : pc[o] \notin {"idle", "gone"} ~> pc[o] \in {"idle", "gone"}

\* The condition variable that Signal::set broadcasts to exists.
BroadcastToLiveSignal ==
  \A w \in Workers : wpc[w] = "broadcast" => FutureOf(w) \in alive
=============================================================================
