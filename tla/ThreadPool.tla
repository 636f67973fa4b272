----------------------------- MODULE ThreadPool -----------------------------
(***************************************************************************)
(* Future<void>::Private::ThreadPool and FastSignal of src/src/Future.cpp, *)
(* over Signal (src/src/Signal.cpp), Thread and the LockFreeQueue.         *)
(*                                                                         *)
(* Clients call run(), worker threads (one ThreadContext each) pop and     *)
(* execute jobs, and the thread main runs the destructor when no client is *)
(* left.  Clients and workers move jobs through the same loop with the     *)
(* roles of the two FastSignals exchanged: try; if that fails reset the    *)
(* signal the other side sets, try again, and wait for it; once it         *)
(* succeeds set the signal the other side waits for.                       *)
(*                                                                         *)
(* The queue is LockFreeQueue with the check and the compare-and-swap of a *)
(* call taken as one step: a node goes from free to claimed to filled to   *)
(* taken to free.  A call fails if the node of the next ticket is not      *)
(* ready, or if it loaded its ticket before another call took it and the   *)
(* ring has come round since: the node is ready for a later ticket         *)
(* (LockFreeQueue!FailureExcused).                                         *)
(***************************************************************************)
EXTENDS Integers, FiniteSets

CONSTANTS
  Clients,          \* threads that call run()
  MaxJobs,          \* bound: how often they do, together
  Contexts,         \* the ThreadContext objects of _threads' pool
  WarmWorkers,      \* how many workers an earlier use of the pool left asleep
  QueueSize,        \* _queue._capacity
  MinThreads,       \* _minThreads
  MaxThreads,       \* _maxThreads (the constructor makes it at least 3)
  StartFailures,    \* bound: how often pthread_create fails
  IdleTimeouts      \* is the pool idle for two ticks of 1.024s: TRUE, FALSE, or both

Main == "main"
Pill == <<"pill", 0>> \* the job {0, 0} that ends a worker
Jobs == {"job"} \X (1 .. MaxJobs)
NoJob == <<"nojob", 0>>
NoContext == "nocontext"
Callers == Clients \cup {Main}
AllThreads == Callers \cup Contexts

ASSUME PoolAssumption == /\ QueueSize \in Nat \ {0}
                         /\ MinThreads \in Nat
                         /\ MaxThreads \in Nat /\ MaxThreads >= MinThreads /\ MaxThreads >= 2
                         /\ MaxJobs \in Nat
                         /\ WarmWorkers \in Nat
                         /\ WarmWorkers + MaxJobs <= Cardinality(Contexts)
                         /\ StartFailures \in Nat
                         /\ IdleTimeouts \subseteq BOOLEAN
                         /\ NoContext \notin Contexts \cup Clients
                         /\ Main \notin Clients
                         /\ (Clients \cup {Main}) \cap Contexts = {}
                         /\ IsFiniteSet(Clients) /\ IsFiniteSet(Contexts)

VARIABLES
  nodes,        \* the ring of _queue: what each node holds
  qTail, qHead, \* where the next push and the next pop go
  sig,          \* _enqueuedSignal and _dequeuedSignal
  pushed,       \* _pushedJobs
  processed,    \* _processedJobs
  threadCount,  \* _threadCount
  mutex,        \* who holds _mutex
  threads,      \* _threads
  terminated,   \* the contexts whose _terminated is true
  started,      \* the contexts whose _thread holds a thread handle
  pc, job, node, \* where each thread is, its local job, the node it owns
  overtaken,    \* the nodes other calls of its kind took since its try began
  busy,         \* run()'s locals pushedJobs and busyThreads
  context,      \* run()'s local context
  calls,        \* how often run() has been called
  pills,        \* how many contexts the destructor has still to send a job
  idleTimeout,  \* can two ticks pass while workers are idle?
  failures,     \* how often Thread::start has returned false
  ran           \* history: how often each job has been executed

queueVars == <<nodes, qTail, qHead>>
counterVars == <<pushed, processed, threadCount>>
contextVars == <<mutex, threads, terminated, started, failures, idleTimeout>>
localVars == <<busy, context, calls, pills>>
vars == <<queueVars, sig, counterVars, contextVars, localVars, pc, job, node, overtaken, ran>>

Free == <<"free", 0>>       \* Node::tail has the ticket of the next push
Claimed == <<"claimed", 0>> \* a push is filling it
Taken == <<"taken", 0>>     \* a pop is emptying it

\* The pool after its constructor (W empty), or at rest after earlier calls of
\* run(): the workers W sleep, and both FastSignals are as the last pop left them.
Init == \E W \in {X \in SUBSET Contexts : Cardinality(X) = WarmWorkers} :
        /\ nodes = [i \in 0 .. QueueSize - 1 |-> Free]
        /\ qTail = 0 /\ qHead = 0
        /\ sig = [x \in {"enqueued", "dequeued"} |->
                    IF x = "dequeued" /\ W # {} THEN [state |-> 1, signaled |-> TRUE]
                                               ELSE [state |-> 0, signaled |-> FALSE]]
        /\ pushed = Cardinality(W) /\ processed = Cardinality(W)
        /\ threadCount = Cardinality(W)
        /\ mutex = NoContext
        /\ threads = W /\ terminated = {} /\ started = W
        /\ failures = 0
        /\ idleTimeout \in IdleTimeouts
        /\ pc = [t \in AllThreads |-> CASE t \in W -> "asleep"
                                         [] t \in Contexts \ W -> "none"
                                         [] OTHER -> "idle"]
        /\ job = [t \in AllThreads |-> NoJob]
        /\ node = [t \in AllThreads |-> 0]
        /\ overtaken = [t \in AllThreads |-> {}]
        /\ busy = [c \in Clients |-> 0]
        /\ context = [c \in Clients |-> NoContext]
        /\ calls = 0
        /\ pills = 0
        /\ ran = [j \in Jobs |-> 0]

Goto(t, from, to) == pc[t] = from /\ pc' = [pc EXCEPT ![t] = to]

\* The FastSignal a thread waits for, and the one it sets.
Awaits(t) == IF t \in Contexts THEN "enqueued" ELSE "dequeued"
Sets(t) == IF t \in Contexts THEN "dequeued" ELSE "enqueued"
Peers(t) == IF t \in Contexts THEN Callers ELSE Contexts

-----------------------------------------------------------------------------
(* LockFreeQueue: push for a caller, pop for a worker *)

\* The node of the next ticket of a thread's call, and is a node ready for it?
NextNode(t) == IF t \in Contexts THEN qHead ELSE qTail
ReadyNode(t, n) == IF t \in Contexts THEN nodes[n] \in Jobs \cup {Pill} ELSE nodes[n] = Free
Ready(t) == ReadyNode(t, NextNode(t))

\* Another call of the same kind that is still trying may hold the ticket that t takes.
TryStates == {"try1", "try2", "shrinkTry"}
Overtake(t) ==
  overtaken' = [u \in AllThreads |->
                  CASE u = t -> {}
                    [] u # t /\ u \notin Peers(t) /\ pc[u] \in TryStates
                              -> overtaken[u] \cup {NextNode(t)}
                    [] OTHER -> overtaken[u]]

\* Mutant: a pop leaves the queue as it is.
ClaimPeek(t) ==
  /\ Overtake(t)
  /\ IF t \in Contexts
     THEN /\ node' = [node EXCEPT ![t] = qHead]
          /\ job' = [job EXCEPT ![t] = nodes[qHead]]
          /\ UNCHANGED queueVars
     ELSE /\ node' = [node EXCEPT ![t] = qTail]
          /\ nodes' = [nodes EXCEPT ![qTail] = Claimed]
          /\ qTail' = (qTail + 1) % QueueSize
          /\ UNCHANGED <<job, qHead>>

\* The call takes a ticket.
Claim(t) ==
  /\ Overtake(t)
  /\ IF t \in Contexts
     THEN /\ node' = [node EXCEPT ![t] = qHead]
          /\ job' = [job EXCEPT ![t] = nodes[qHead]]
          /\ nodes' = [nodes EXCEPT ![qHead] = Taken]
          /\ qHead' = (qHead + 1) % QueueSize
          /\ UNCHANGED qTail
     ELSE /\ node' = [node EXCEPT ![t] = qTail]
          /\ nodes' = [nodes EXCEPT ![qTail] = Claimed]
          /\ qTail' = (qTail + 1) % QueueSize
          /\ UNCHANGED <<job, qHead>>

\* The call hands its node over.
HandOver(t) ==
  /\ nodes' = [nodes EXCEPT ![node[t]] = IF t \in Contexts THEN Free ELSE job[t]]
  /\ node' = [node EXCEPT ![t] = 0]
  /\ UNCHANGED <<qTail, qHead>>

\* A call with a stale ticket fails: another call took that ticket, and the node has
\* since been made ready again, for the ticket one round later.  The failure changes
\* nothing but where t is, so it is taken to happen while the call that made a node
\* ready has still to go on; whatever comes between that and the code's failure comes
\* after it here.
StaleTicket(t) ==
  /\ \E n \in overtaken[t] : ReadyNode(t, n)
  /\ \E u \in Peers(t) : pc[u] \in {"setState", "shrinkCount"}

\* The call returns false.
Refused(t) ==
  /\ ~Ready(t) \/ StaleTicket(t)
  /\ overtaken' = [overtaken EXCEPT ![t] = {}]
  /\ UNCHANGED <<queueVars, job, node>>

-----------------------------------------------------------------------------
(* The loop around push and pop, with FastSignal and Signal *)

TryOk(t) ==
  /\ pc[t] \in {"try1", "try2"}
  /\ pc' = [pc EXCEPT ![t] = "handOver"]
  /\ Ready(t)
  /\ Claim(t)
  /\ UNCHANGED <<sig, counterVars, contextVars, localVars, ran>>

TryFails(t) ==
  /\ \/ Goto(t, "try1", "swapState")
     \/ Goto(t, "try2", "loadState")
  /\ Refused(t)
  /\ UNCHANGED <<sig, counterVars, contextVars, localVars, ran>>

Handed(t) ==
  /\ Goto(t, "handOver", "setState")
  /\ HandOver(t)
  /\ UNCHANGED <<sig, counterVars, contextVars, localVars, job, overtaken, ran>>

\* Mutant: the state is set and the waiting threads are not told.
SetStateOnly(t) ==
  /\ Goto(t, "setState", "moved")
  /\ sig' = [sig EXCEPT ![Sets(t)].state = 1]
  /\ UNCHANGED <<queueVars, counterVars, contextVars, localVars, job, node, overtaken, ran>>

\* FastSignal::set: Atomic::testAndSet(_state) == 0
SetState(t) ==
  /\ Goto(t, "setState", IF sig[Sets(t)].state = 0 THEN "setSignal" ELSE "moved")
  /\ sig' = [sig EXCEPT ![Sets(t)].state = 1]
  /\ UNCHANGED <<queueVars, counterVars, contextVars, localVars, job, node, overtaken, ran>>

\* Signal::set: signaled = true under the signal's mutex ...
SetSignal(t) ==
  /\ Goto(t, "setSignal", "broadcast")
  /\ sig' = [sig EXCEPT ![Sets(t)].signaled = TRUE]
  /\ UNCHANGED <<queueVars, counterVars, contextVars, localVars, job, node, overtaken, ran>>

\* ... and after it the broadcast, which wakes everyone in pthread_cond_wait.
Broadcast(t) ==
  /\ pc[t] = "broadcast"
  /\ pc' = [u \in AllThreads |->
              CASE u = t -> "moved"
                [] u \in Peers(t) /\ pc[u] = "asleep" -> "awaken"
                [] OTHER -> pc[u]]
  /\ UNCHANGED <<queueVars, sig, counterVars, contextVars, localVars, job, node, overtaken, ran>>

\* FastSignal::reset: Atomic::swap(_state, 0) == 1
SwapState(t) ==
  /\ Goto(t, "swapState", IF sig[Awaits(t)].state = 1 THEN "resetSignal" ELSE "try2")
  /\ sig' = [sig EXCEPT ![Awaits(t)].state = 0]
  /\ UNCHANGED <<queueVars, counterVars, contextVars, localVars, job, node, overtaken, ran>>

\* Mutant: no second try between the reset and the wait.
ResetSignalThenWait(t) ==
  /\ Goto(t, "resetSignal", "loadState")
  /\ sig' = [sig EXCEPT ![Awaits(t)].signaled = FALSE]
  /\ UNCHANGED <<queueVars, counterVars, contextVars, localVars, job, node, overtaken, ran>>

\* Signal::reset
ResetSignal(t) ==
  /\ Goto(t, "resetSignal", "try2")
  /\ sig' = [sig EXCEPT ![Awaits(t)].signaled = FALSE]
  /\ UNCHANGED <<queueVars, counterVars, contextVars, localVars, job, node, overtaken, ran>>

\* FastSignal::wait: if (Atomic::load(_state)) return true
LoadState(t) ==
  /\ Goto(t, "loadState", IF sig[Awaits(t)].state = 1 THEN "try1" ELSE "awaken")
  /\ UNCHANGED <<queueVars, sig, counterVars, contextVars, localVars, job, node, overtaken, ran>>

\* Signal::wait: with the signal's mutex, return if signaled, else sleep.
WaitSignal(t) ==
  /\ Goto(t, "awaken", IF sig[Awaits(t)].signaled THEN "try1" ELSE "asleep")
  /\ UNCHANGED <<queueVars, sig, counterVars, contextVars, localVars, job, node, overtaken, ran>>

Move(t) == \/ TryOk(t) \/ TryFails(t) \/ Handed(t)
           \/ SetState(t) \/ SetSignal(t) \/ Broadcast(t)
           \/ SwapState(t) \/ ResetSignal(t) \/ LoadState(t) \/ WaitSignal(t)

-----------------------------------------------------------------------------
(* ThreadContext::proc *)

\* job.proc(job.args)
Execute(w) ==
  /\ job[w] \in Jobs
  /\ Goto(w, "moved", "executed")
  /\ ran' = [ran EXCEPT ![job[w]] = @ + 1]
  /\ UNCHANGED <<queueVars, sig, counterVars, contextVars, localVars, job, node, overtaken>>

\* Atomic::increment(_pool->_processedJobs)
CountProcessed(w) ==
  /\ Goto(w, "executed", "try1")
  /\ processed' = processed + 1
  /\ job' = [job EXCEPT ![w] = NoJob]
  /\ UNCHANGED <<queueVars, sig, pushed, threadCount, contextVars, localVars, node, overtaken, ran>>

\* else break; _terminated = true
Exit(w) ==
  /\ job[w] = Pill
  /\ Goto(w, "moved", "ended")
  /\ terminated' = terminated \cup {w}
  /\ job' = [job EXCEPT ![w] = NoJob]
  /\ UNCHANGED <<queueVars, sig, counterVars, mutex, threads, started, failures, idleTimeout,
                 localVars, node, overtaken, ran>>

Worker(w) == Move(w) \/ Execute(w) \/ CountProcessed(w) \/ Exit(w)

-----------------------------------------------------------------------------
(* run *)

RunBegin(c) ==
  /\ pc[Main] = "idle"
  /\ calls < MaxJobs
  /\ Goto(c, "idle", "try1")
  /\ calls' = calls + 1
  /\ job' = [job EXCEPT ![c] = <<"job", calls + 1>>]
  /\ UNCHANGED <<queueVars, sig, counterVars, contextVars, busy, context, pills, node, overtaken, ran>>

\* usize pushedJobs = Atomic::increment(_pushedJobs)
CountPushed(c) ==
  /\ Goto(c, "moved", "counted")
  /\ pushed' = pushed + 1
  /\ busy' = [busy EXCEPT ![c] = pushed + 1]
  /\ job' = [job EXCEPT ![c] = NoJob]
  /\ UNCHANGED <<queueVars, sig, processed, threadCount, contextVars, context, calls,
                 pills, node, overtaken, ran>>

\* ssize busyThreads = (ssize)(pushedJobs - _processedJobs)
ReadProcessed(c) ==
  /\ Goto(c, "counted", "adjust")
  /\ busy' = [busy EXCEPT ![c] = @ - processed]
  /\ UNCHANGED <<queueVars, sig, counterVars, contextVars, context, calls, pills, job,
                 node, overtaken, ran>>

\* Which branch run() takes with the _threadCount it reads.
Idle(c) == threadCount - busy[c]
Grow(c) == Idle(c) <= 0 /\ threadCount < MaxThreads
Shrink(c) == Idle(c) > 1 /\ threadCount > MinThreads /\ idleTimeout

Return(c) == busy' = [busy EXCEPT ![c] = 0]

Adjust(c) ==
  /\ \/ Grow(c) /\ Goto(c, "adjust", "growLock") /\ UNCHANGED busy
     \/ Shrink(c) /\ Goto(c, "adjust", "shrinkLock") /\ UNCHANGED busy
     \/ ~Grow(c) /\ Goto(c, "adjust", "idle") /\ Return(c)
  /\ UNCHANGED <<queueVars, sig, counterVars, contextVars, context, calls, pills, job,
                 node, overtaken, ran>>

\* The contexts left when those that have terminated are removed (and joined).
Reaped == threads \ terminated

\* Under _mutex: remove terminated contexts, append a new one if allowed.
GrowLocked(c) ==
  /\ mutex = NoContext
  /\ pc[c] = "growLock"
  /\ terminated' = {}
  /\ IF threadCount < MaxThreads
     THEN \E x \in Contexts \ Reaped :
            /\ threads' = Reaped \cup {x}
            /\ started' = (started \ terminated) \ {x}
            /\ context' = [context EXCEPT ![c] = x]
            /\ threadCount' = threadCount + 1
            /\ pc' = [t \in AllThreads |-> CASE t = c -> "start"
                                             [] t \in terminated -> "none"
                                             [] OTHER -> pc[t]]
            /\ UNCHANGED busy
     ELSE /\ threads' = Reaped
          /\ started' = started \ terminated
          /\ pc' = [t \in AllThreads |-> CASE t = c -> "idle"
                                           [] t \in terminated -> "none"
                                           [] OTHER -> pc[t]]
          /\ Return(c)
          /\ UNCHANGED <<context, threadCount>>
  /\ UNCHANGED <<queueVars, sig, pushed, processed, mutex, failures, idleTimeout, calls, pills,
                 job, node, overtaken, ran>>

\* Thread::start: pthread_create made the thread, which may run before ...
StartThread(c) ==
  /\ pc[c] = "start"
  /\ context[c] \notin started
  /\ pc' = [pc EXCEPT ![c] = "storeHandle", ![context[c]] = "try1"]
  /\ UNCHANGED <<queueVars, sig, counterVars, contextVars, localVars, job, node, overtaken, ran>>

\* ... this->thread = (void*)thread
StoreHandle(c) ==
  /\ Goto(c, "storeHandle", "idle")
  /\ started' = started \cup {context[c]}
  /\ context' = [context EXCEPT ![c] = NoContext]
  /\ Return(c)
  /\ UNCHANGED <<queueVars, sig, counterVars, mutex, threads, terminated, failures, idleTimeout,
                 calls, pills, job, node, overtaken, ran>>

\* pthread_create failed, or the context already holds a handle:
\* context->_terminated = true
StartFails(c) ==
  /\ context[c] \in started \/ failures < StartFailures
  /\ failures' = failures + 1
  /\ Goto(c, "start", "idle")
  /\ terminated' = terminated \cup {context[c]}
  /\ context' = [context EXCEPT ![c] = NoContext]
  /\ Return(c)
  /\ UNCHANGED <<queueVars, sig, counterVars, mutex, threads, started, idleTimeout, calls, pills,
                 job, node, overtaken, ran>>

\* Mutex::Guard guard(_mutex); if(_threadCount > _minThreads)
ShrinkLock(c) ==
  /\ mutex = NoContext
  /\ mutex' = c
  /\ Goto(c, "shrinkLock", IF threadCount > MinThreads THEN "shrinkTry" ELSE "shrinkReap")
  /\ UNCHANGED <<queueVars, sig, counterVars, threads, terminated, started, failures,
                 idleTimeout, localVars, job, node, overtaken, ran>>

\* Under _mutex: push a job that ends a worker, without setting _enqueuedSignal.
\* The push is tried once; if it fails no worker is ended.
ShrinkTry(c) ==
  /\ \/ Goto(c, "shrinkTry", "shrinkHandOver") /\ Ready(c) /\ Claim(c)
     \/ Goto(c, "shrinkTry", "shrinkReap") /\ Refused(c)
  /\ UNCHANGED <<sig, counterVars, contextVars, localVars, ran>>

ShrinkHandOver(c) ==
  /\ Goto(c, "shrinkHandOver", "shrinkCount")
  /\ nodes' = [nodes EXCEPT ![node[c]] = Pill]
  /\ node' = [node EXCEPT ![c] = 0]
  /\ UNCHANGED <<qTail, qHead, sig, counterVars, contextVars, localVars, job, overtaken, ran>>

\* Mutant: the worker that is sent home is still counted.
ShrinkUncounted(c) ==
  /\ Goto(c, "shrinkCount", "shrinkReap")
  /\ UNCHANGED <<queueVars, sig, counterVars, contextVars, localVars, job, node, overtaken, ran>>

\* --_threadCount
ShrinkCount(c) ==
  /\ Goto(c, "shrinkCount", "shrinkReap")
  /\ threadCount' = threadCount - 1
  /\ UNCHANGED <<queueVars, sig, pushed, processed, contextVars, localVars, job, node, overtaken, ran>>

\* remove terminated contexts; ~Guard
ShrinkReap(c) ==
  /\ pc[c] = "shrinkReap"
  /\ threads' = Reaped
  /\ terminated' = {}
  /\ started' = started \ terminated
  /\ mutex' = NoContext
  /\ pc' = [t \in AllThreads |-> CASE t = c -> "idle"
                                   [] t \in terminated -> "none"
                                   [] OTHER -> pc[t]]
  /\ Return(c)
  /\ UNCHANGED <<queueVars, sig, counterVars, failures, idleTimeout, context, calls, pills, job,
                 node, overtaken, ran>>

Run(c) == \/ Move(c) \/ CountPushed(c) \/ ReadProcessed(c) \/ Adjust(c)
          \/ GrowLocked(c) \/ StartThread(c) \/ StoreHandle(c) \/ StartFails(c)
          \/ ShrinkLock(c) \/ ShrinkTry(c) \/ ShrinkHandOver(c) \/ ShrinkCount(c)
          \/ ShrinkReap(c)

-----------------------------------------------------------------------------
(* ~ThreadPool, run by ~Framework when the process ends: no run() is active *)

DestroyBegin ==
  /\ \A c \in Clients : pc[c] = "idle"
  /\ Goto(Main, "idle", "nextPill")
  /\ pills' = Cardinality(threads)
  /\ UNCHANGED <<queueVars, sig, counterVars, contextVars, busy, context, calls, job,
                 node, overtaken, ran>>

\* one job {0, 0} for each context
SendPill ==
  /\ pills > 0
  /\ Goto(Main, "nextPill", "try1")
  /\ pills' = pills - 1
  /\ job' = [job EXCEPT ![Main] = Pill]
  /\ UNCHANGED <<queueVars, sig, counterVars, contextVars, busy, context, calls, node, overtaken, ran>>

PillSent ==
  /\ Goto(Main, "moved", "nextPill")
  /\ job' = [job EXCEPT ![Main] = NoJob]
  /\ UNCHANGED <<queueVars, sig, counterVars, contextVars, localVars, node, overtaken, ran>>

\* Mutant: the pool is deleted without joining its threads.
JoinNone ==
  /\ pills = 0
  /\ Goto(Main, "nextPill", "deleted")
  /\ UNCHANGED <<queueVars, sig, counterVars, contextVars, localVars, job, node, overtaken, ran>>

\* i->_thread.join() for every context; a context without a thread is skipped
JoinAll ==
  /\ pills = 0
  /\ \A x \in threads \cap started : pc[x] = "ended"
  /\ Goto(Main, "nextPill", "deleted")
  /\ UNCHANGED <<queueVars, sig, counterVars, contextVars, localVars, job, node, overtaken, ran>>

Destroy == Move(Main) \/ SendPill \/ PillSent \/ JoinAll

-----------------------------------------------------------------------------
\* The pool is gone, or nobody calls it any more: the process may stop here.
Stop == /\ pc[Main] \in {"idle", "deleted"}
        /\ \A c \in Clients : pc[c] = "idle"
        /\ UNCHANGED vars

Next == \/ \E c \in Clients : RunBegin(c) \/ Run(c)
        \/ \E w \in Contexts : Worker(w)
        \/ DestroyBegin
        \/ Destroy
        \/ Stop

Spec == Init /\ [][Next]_vars

\* Every thread that can run runs: the operating system schedules all of them,
\* every job ends, and the mutexes are fair enough to be got in the end.
Fairness == /\ \A c \in Clients : WF_vars(Run(c))
            /\ \A w \in Contexts : WF_vars(Worker(w))
            /\ WF_vars(Destroy)

LiveSpec == Spec /\ Fairness

-----------------------------------------------------------------------------
(* Properties *)

\* A job is executed at most once, whoever pops it (Future.cpp 176-188).
JobRunsOnce == \A j \in Jobs : ran[j] <= 1

\* The jobs {0, 0} that are queued or already with a worker.
PillsOnTheWay ==
  Cardinality({i \in DOMAIN nodes : nodes[i] = Pill})
  + Cardinality({w \in Contexts : job[w] = Pill})

\* While the pool is in use _threadCount is the number of contexts that are not
\* terminated, less those that a job {0, 0} is about to end: the count that run()
\* compares with the number of jobs is the number of workers it can rely on.
ThreadCountExact ==
  pc[Main] = "idle" /\ failures = 0 =>
    threadCount + PillsOnTheWay
      = Cardinality(threads \ terminated)
        + Cardinality({c \in Clients : pc[c] = "shrinkCount"})

\* When the destructor has joined the threads, every job that was pushed has been
\* executed and no worker is left that could touch the deleted pool.
CleanShutdown ==
  pc[Main] = "deleted" /\ failures = 0 =>
    /\ \A n \in 1 .. calls : ran[<<"job", n>>] = 1
    /\ \A w \in Contexts : pc[w] \in {"none", "ended"}

\* All the threads are at rest before the destructor has begun.
AtRest == /\ \A t \in Callers : pc[t] = "idle"
          /\ \A w \in Contexts : pc[w] \in {"none", "ended", "asleep"}

\* When the pool comes to rest no job is left in the queue, unless a thread could
\* not be started or the pool was shrinking (see NoSleepOverJob): the reset of
\* _enqueuedSignal before the second pop does not lose the wakeup.
NoJobStranded ==
  AtRest /\ failures = 0 /\ ~idleTimeout => \A i \in DOMAIN nodes : nodes[i] \notin Jobs

\* A worker does not sleep while the pool is at rest and a job is queued, in a
\* pool that shrinks as well: join() of the job's Future returns.
NoSleepOverJob ==
  AtRest /\ (\E w \in Contexts : pc[w] = "asleep") =>
    \A i \in DOMAIN nodes : nodes[i] \notin Jobs

\* A job handed to the pool is executed in the end, under the same conditions.
EveryJobRuns ==
  \A j \in Jobs :
    (\E c \in Clients : job[c] = j) ~> (ran[j] = 1 \/ failures > 0 \/ idleTimeout)

\* The destructor, which joins every worker, returns.
DestructorReturns == pc[Main] = "nextPill" ~> pc[Main] = "deleted"
=============================================================================
