------------------------- MODULE ThreadPool_proofs --------------------------
(***************************************************************************)
(* Proofs about ThreadPool for every number of clients, jobs, contexts and *)
(* nodes.                                                                  *)
(*                                                                         *)
(* CoreInv is about single threads, nodes and jobs: the queue is a ring    *)
(* whose claimed and filled nodes are those between its ends, a thread in  *)
(* the middle of a push or pop owns its node, and a job is in exactly one  *)
(* place.  It gives that no job runs twice.  _threadCount is exact because *)
(* every step changes the numbers it is compared with together.            *)
(*                                                                         *)
(* IInv adds what a pool that does not shrink keeps: which worker will see *)
(* the state "set" of _enqueuedSignal, and that a job in the queue either  *)
(* is looked for or has set it.  No job is left behind in such a pool.     *)
(*                                                                         *)
(* RepairInv is about a pool that shrinks: before each job in the queue    *)
(* there are fewer jobs {0, 0} than workers, or a client has still to      *)
(* compare _threadCount with all the jobs that are not processed.  It      *)
(* gives that the destructor leaves no job behind.                         *)
(***************************************************************************)
EXTENDS ThreadPool, FiniteSetTheorems, TLAPS

\* The indices of the ring, and what a filled node can hold.
Slots == 0 .. QueueSize - 1
Filled == Jobs \cup {Pill}

\* The states of the loop around push and pop.  A caller has its job until it hands
\* its node over, a worker from then on.
Before == {"try1", "try2", "swapState", "resetSignal", "loadState", "awaken", "asleep",
           "handOver"}
After == {"setState", "setSignal", "broadcast", "moved"}
MoveStates == Before \cup After
Carrying == After \cup {"handOver"}
ShrinkStates == {"shrinkLock", "shrinkTry", "shrinkHandOver", "shrinkCount", "shrinkReap"}
ClientStates == {"idle", "counted", "adjust", "growLock", "start", "storeHandle"}
                  \cup ShrinkStates \cup MoveStates
MainStates == {"idle", "nextPill", "deleted"} \cup MoveStates
WorkerStates == {"none", "ended", "executed"} \cup MoveStates

\* The steps in which a client that wants to end a worker takes a ticket, or does not.
ShrinkPush(c) == ShrinkLock(c) \/ ShrinkTry(c)

\* The members of the pool, of its queue and of its threads keep their types.
TypeInv ==
  /\ nodes \in [Slots -> Filled \cup {Free, Claimed, Taken}]
  /\ qTail \in Slots /\ qHead \in Slots
  /\ sig \in [{"enqueued", "dequeued"} -> [state : {0, 1}, signaled : BOOLEAN]]
  /\ pushed \in Nat /\ processed \in Nat /\ threadCount \in Int
  /\ threads \in SUBSET Contexts /\ terminated \in SUBSET Contexts
  /\ failures \in Nat /\ idleTimeout \in BOOLEAN
  /\ pc \in [AllThreads -> ClientStates \cup MainStates \cup WorkerStates]
  /\ job \in [AllThreads -> Filled \cup {NoJob}]
  /\ node \in [AllThreads -> Slots]
  /\ overtaken \in [AllThreads -> SUBSET Slots]
  /\ busy \in [Clients -> Int]
  /\ context \in [Clients -> Contexts \cup {NoContext}]
  /\ calls \in 0 .. MaxJobs
  /\ pills \in Nat
  /\ ran \in [Jobs -> Nat]

\* Who is where, and with which job.
JobsHeld ==
  /\ \A c \in Clients : /\ pc[c] \in ClientStates
                        /\ pc[c] \in MoveStates => job[c] \in Jobs
                        /\ pc[c] \notin MoveStates => job[c] = NoJob
  /\ pc[Main] \in MainStates
  /\ pc[Main] \in MoveStates => job[Main] = Pill
  /\ pc[Main] \notin MoveStates => job[Main] = NoJob
  /\ \A w \in Contexts : /\ pc[w] \in WorkerStates
                         /\ pc[w] \in Carrying => job[w] \in Filled
                         /\ pc[w] = "executed" => job[w] \in Jobs
                         /\ pc[w] \notin Carrying \cup {"executed"} => job[w] = NoJob

\* The nodes between the two ends are claimed or filled, the others are not.
Occupied(i) == nodes[i] \in Filled \cup {Claimed}
RingInv ==
  \/ qHead < qTail /\ \A i \in Slots : Occupied(i) <=> qHead <= i /\ i < qTail
  \/ qTail < qHead /\ \A i \in Slots : Occupied(i) <=> i < qTail \/ qHead <= i
  \/ qHead = qTail /\ \A i \in Slots : Occupied(i)
  \/ qHead = qTail /\ \A i \in Slots : ~Occupied(i)

\* A thread in the middle of a push or pop owns its node.
Owner(t) == pc[t] \in {"handOver", "shrinkHandOver"}
OwnInv ==
  /\ \A t \in AllThreads : Owner(t) =>
       nodes[node[t]] = IF t \in Contexts THEN Taken ELSE Claimed
  /\ \A t, u \in AllThreads : Owner(t) /\ Owner(u) /\ t # u => node[t] # node[u]
  /\ \A i \in Slots : nodes[i] = Claimed => \E t \in Callers : Owner(t) /\ node[t] = i

\* A context has a thread from the start of it to the end, and is in _threads for as long; one that
\* has none was terminated, or is about to get it from the client that counted it.
Alive(w) == pc[w] \notin {"none", "ended"}
ContextInv ==
  /\ terminated \subseteq threads
  /\ \A w \in Contexts : /\ Alive(w) => w \in threads /\ w \notin terminated
                         /\ pc[w] = "ended" => w \in terminated
                         /\ w \in terminated /\ pc[w] = "none" => failures > 0
                         /\ w \in threads /\ w \notin terminated /\ pc[w] = "none" =>
                              \E c \in Clients : pc[c] = "start" /\ context[c] = w
                         /\ Alive(w) /\ w \notin started =>
                              \E c \in Clients : pc[c] = "storeHandle" /\ context[c] = w
  /\ \A c \in Clients : /\ pc[c] = "start" => /\ context[c] \in threads \ terminated
                                              /\ pc[context[c]] = "none"
                        /\ pc[c] = "storeHandle" => context[c] \in Contexts
  /\ \A c, d \in Clients : pc[c] = "start" /\ pc[d] = "start" /\ c # d => context[c] # context[d]

\* The destructor runs when no client does, and returns when no worker does.
ShutdownInv ==
  /\ pc[Main] # "idle" => \A c \in Clients : pc[c] = "idle"
  /\ pc[Main] = "deleted" => \A w \in Contexts : ~Alive(w)

\* Where a job is: with a caller that pushes it or a worker that popped it, in a
\* node, or executed.
Holds(t) == pc[t] \in IF t \in Contexts THEN Carrying ELSE Before
HeldBy(t, j) == Holds(t) /\ job[t] = j

\* A job is in one place, and has not been executed while it is there.
OnceInv ==
  \A j \in Jobs :
    /\ \A t, u \in AllThreads : HeldBy(t, j) /\ HeldBy(u, j) => t = u
    /\ \A i, k \in Slots : nodes[i] = j /\ nodes[k] = j => i = k
    /\ \A t \in AllThreads : HeldBy(t, j) => ran[j] = 0 /\ \A i \in Slots : nodes[i] # j
    /\ \A i \in Slots : nodes[i] = j => ran[j] = 0
    /\ ran[j] <= 1

\* A job that run() has not been called with is nowhere.
FreshInv ==
  \A n \in 1 .. MaxJobs : n > calls =>
    /\ \A t \in AllThreads : ~HeldBy(t, <<"job", n>>)
    /\ \A i \in Slots : nodes[i] # <<"job", n>>
    /\ ran[<<"job", n>>] = 0

\* A job that run() has been called with is somewhere.
Place(j) == \/ \E t \in AllThreads : HeldBy(t, j)
            \/ \E i \in Slots : nodes[i] = j
            \/ ran[j] = 1

\* So it is for every call there was.
PlaceInv == \A n \in 1 .. calls : Place(<<"job", n>>)

\* The place of a node in the queue, counted from its front, and where a client that has pushed
\* its job still has to look at the number of threads.
Rank(i) == IF i >= qHead THEN i - qHead ELSE i - qHead + QueueSize
Going == After \cup {"counted", "adjust", "growLock"}

\* In a pool that does not shrink the only jobs {0, 0} are those of the destructor, and they are
\* behind every other job.
CalmInv ==
  ~idleTimeout =>
    /\ \A c \in Clients : pc[c] \notin ShrinkStates
    /\ (\E i \in Slots : nodes[i] = Pill) \/ (\E w \in Contexts : job[w] = Pill \/ pc[w] = "ended")
         => pc[Main] # "idle"
    /\ \A w \in Contexts : job[w] = Pill \/ pc[w] = "ended" => \A i \in Slots : nodes[i] \notin Jobs
    /\ \A i, k \in Slots : nodes[i] = Pill /\ nodes[k] \in Jobs => Rank(k) < Rank(i)
    /\ pc[Main] = "handOver" => \A k \in Slots : nodes[k] \in Jobs => Rank(k) < Rank(node[Main])

\* In a pool that has not had a thread yet, a client that has pushed its job is still on its way to
\* start the first one.
NoWorkerInv ==
  ~idleTimeout /\ failures = 0 /\ threads = {} =>
    /\ threadCount = 0 /\ processed = 0
    /\ \A c \in Clients : pc[c] \in {"counted", "adjust"} => busy[c] >= 1
    /\ (\E i \in Slots : nodes[i] \in Jobs) => \E c \in Clients : pc[c] \in Going

\* A worker that will try to pop before it sleeps.
Bound(w) == \/ pc[w] \in Carrying \cup {"try1", "try2", "swapState", "resetSignal", "executed"}
            \/ pc[w] = "loadState" /\ sig["enqueued"].state = 1

\* A state "set" of _enqueuedSignal is seen by somebody: such a worker, the caller that is going to
\* set the Signal, or the Signal itself with nobody left asleep on it.
SignalInv ==
  ~idleTimeout /\ pc[Main] = "idle" /\ sig["enqueued"].state = 1 =>
    \/ \E w \in Contexts : Bound(w)
    \/ \E t \in Callers : pc[t] = "setSignal"
    \/ /\ sig["enqueued"].signaled
       /\ \/ \E t \in Callers : pc[t] = "broadcast"
          \/ \A w \in Contexts : pc[w] # "asleep"

\* A job in the queue will be looked for, or the state of _enqueuedSignal says it is there.
QueuedInv ==
  /\ ~idleTimeout /\ pc[Main] = "idle"
  /\ \E i \in Slots : nodes[i] \in Jobs
  /\ \E w \in Contexts : Alive(w)
  => \/ \E w \in Contexts : Bound(w)
     \/ \E t \in Callers : pc[t] \in {"handOver", "setState"}
     \/ sig["enqueued"].state = 1

-----------------------------------------------------------------------------
\* The values a node or a job can have are different from one another, and every
\* call of run() has a job of its own.
LEMMA Values ==
  /\ Pill \notin Jobs /\ NoJob \notin Jobs /\ NoJob # Pill
  /\ Free \notin Filled /\ Claimed \notin Filled /\ Taken \notin Filled
  /\ Free # Claimed /\ Free # Taken /\ Claimed # Taken
  /\ \A n \in 1 .. MaxJobs : <<"job", n>> \in Jobs
  /\ \A n, m \in 1 .. MaxJobs : <<"job", n>> = <<"job", m>> => n = m
BY PoolAssumption DEF Jobs, Pill, NoJob, Free, Claimed, Taken, Filled

\* The index after one in the ring.
LEMMA Successor ==
  ASSUME NEW q \in Slots
  PROVE /\ (q + 1) % QueueSize = IF q + 1 = QueueSize THEN 0 ELSE q + 1
        /\ (q + 1) % QueueSize \in Slots
BY PoolAssumption, Z3 DEF Slots

\* The ring is finite.
LEMMA SlotsFinite == IsFiniteSet(Slots)
<1>1. 0 \in Int /\ QueueSize - 1 \in Int
  BY PoolAssumption
<1>2. IsFiniteSet(0 .. (QueueSize - 1))
  BY <1>1, FS_Interval, Zenon
<1> QED BY <1>2 DEF Slots

\* Threads are clients, the thread main, or contexts, never two of them.
LEMMA ThreadKinds ==
  /\ Clients \subseteq AllThreads /\ Contexts \subseteq AllThreads /\ Main \in AllThreads
  /\ Callers \subseteq AllThreads /\ Clients \subseteq Callers /\ Main \in Callers
  /\ Main \notin Clients /\ Main \notin Contexts /\ Clients \cap Contexts = {}
  /\ \A t \in AllThreads : t \in Contexts \/ t \in Callers
  /\ \A t \in Callers : t \notin Contexts
  /\ \A t \in Callers : t \in Clients \/ t = Main
BY PoolAssumption DEF AllThreads, Callers

\* Setting and resetting a signal keeps its type.
LEMMA SignalType ==
  ASSUME NEW S, NEW s \in [S -> [state : {0, 1}, signaled : BOOLEAN]], NEW x \in S,
         NEW b \in BOOLEAN
  PROVE  [s EXCEPT ![x].signaled = b] \in [S -> [state : {0, 1}, signaled : BOOLEAN]]
<1>1. s[x] \in [state : {0, 1}, signaled : BOOLEAN]
  OBVIOUS
<1>2. [s[x] EXCEPT !.signaled = b] \in [state : {0, 1}, signaled : BOOLEAN]
  BY <1>1, Zenon
<1> QED BY <1>2, Zenon

\* The nodes that were taken while a call tried are nodes of the ring.
LEMMA OvertakeType ==
  ASSUME TypeInv, NEW t \in AllThreads, Overtake(t)
  PROVE  overtaken' \in [AllThreads -> SUBSET Slots]
BY DEF TypeInv, Overtake, NextNode

\* Every step keeps the types.
LEMMA TypeStep == TypeInv /\ JobsHeld /\ ContextInv /\ [Next]_vars => TypeInv'
<1> SUFFICES ASSUME TypeInv, JobsHeld, ContextInv, [Next]_vars PROVE TypeInv'
  OBVIOUS
<1> USE Values, ThreadKinds DEF queueVars, counterVars, contextVars, localVars
<1>1. ASSUME NEW t \in AllThreads, TryOk(t) PROVE TypeInv'
  <2>1. CASE t \in Contexts
    BY <1>1, <2>1, Successor, OvertakeType DEF TypeInv, TryOk, Claim, Ready, ReadyNode, NextNode,
          ClientStates, MoveStates, Before, Filled
  <2>2. CASE t \notin Contexts
    BY <1>1, <2>2, Successor, OvertakeType DEF TypeInv, TryOk, Claim, Ready, ReadyNode, NextNode,
          ClientStates, MoveStates, Before
  <2> QED BY <2>1, <2>2
<1>2. ASSUME NEW t \in AllThreads, TryFails(t) \/ LoadState(t) \/ WaitSignal(t) PROVE TypeInv'
  BY <1>2 DEF TypeInv, TryFails, Refused, LoadState, WaitSignal, Goto, ClientStates, MoveStates, Before
<1>3. ASSUME NEW t \in AllThreads, Handed(t) PROVE TypeInv'
  <2>1. t \notin Contexts => job[t] \in Filled
    BY <1>3 DEF JobsHeld, Handed, Goto, MoveStates, Before, Filled
  <2> QED
    BY PoolAssumption, <1>3, <2>1 DEF TypeInv, Handed, HandOver, Goto, ClientStates, MoveStates, After, Slots
<1>4. ASSUME NEW t \in AllThreads,
             SetState(t) \/ SetSignal(t) \/ SwapState(t) \/ ResetSignal(t)
      PROVE  TypeInv'
  <2>1. CASE SetState(t)
    BY <2>1 DEF TypeInv, SetState, Goto, Sets, ClientStates, MoveStates, After
  <2>2. CASE SetSignal(t)
    <3>1. sig' \in [{"enqueued", "dequeued"} -> [state : {0, 1}, signaled : BOOLEAN]]
      BY <2>2, SignalType DEF TypeInv, SetSignal, Sets
    <3> QED
      BY <2>2, <3>1 DEF TypeInv, SetSignal, Goto, ClientStates, MoveStates, After
  <2>3. CASE SwapState(t)
    BY <2>3 DEF TypeInv, SwapState, Goto, Awaits, ClientStates, MoveStates, Before
  <2>4. CASE ResetSignal(t)
    <3>1. sig' \in [{"enqueued", "dequeued"} -> [state : {0, 1}, signaled : BOOLEAN]]
      BY <2>4, SignalType DEF TypeInv, ResetSignal, Awaits
    <3> QED
      BY <2>4, <3>1 DEF TypeInv, ResetSignal, Goto, ClientStates, MoveStates, Before
  <2> QED BY <1>4, <2>1, <2>2, <2>3, <2>4
<1>5. ASSUME NEW t \in AllThreads, Broadcast(t) PROVE TypeInv'
  BY <1>5 DEF TypeInv, Broadcast, ClientStates, MoveStates, Before, After
<1>6. ASSUME NEW w \in Contexts, Execute(w) \/ CountProcessed(w) \/ Exit(w) PROVE TypeInv'
  BY <1>6 DEF TypeInv, Execute, CountProcessed, Exit, Goto, ClientStates, MoveStates, Before,
              WorkerStates
<1>7. ASSUME NEW c \in Clients, RunBegin(c) PROVE TypeInv'
  BY PoolAssumption, <1>7 DEF TypeInv, RunBegin, Goto, ClientStates, MoveStates, Before, Filled
<1>8. ASSUME NEW c \in Clients, CountPushed(c) \/ ReadProcessed(c) \/ Adjust(c) PROVE TypeInv'
  BY <1>8 DEF TypeInv, CountPushed, ReadProcessed, Adjust, Return, Goto, ClientStates, ShrinkStates
<1>9. ASSUME NEW c \in Clients, GrowLocked(c) PROVE TypeInv'
  BY <1>9 DEF TypeInv, GrowLocked, Reaped, Return, ClientStates, WorkerStates
<1>10. ASSUME NEW c \in Clients, StartThread(c) \/ StoreHandle(c) \/ StartFails(c) PROVE TypeInv'
  <2>1. CASE StartThread(c)
    BY <2>1 DEF TypeInv, StartThread, ClientStates, MoveStates, Before
  <2>2. CASE StoreHandle(c)
    BY <2>2 DEF TypeInv, StoreHandle, Return, Goto, ClientStates
  <2>3. CASE StartFails(c)
    BY <2>3 DEF TypeInv, ContextInv, StartFails, Return, Goto, ClientStates
  <2> QED BY <1>10, <2>1, <2>2, <2>3
<1>11. ASSUME NEW c \in Clients, ShrinkPush(c) PROVE TypeInv'
  <2>1. CASE ShrinkLock(c)
    BY <2>1 DEF TypeInv, ShrinkLock, Goto, ClientStates, ShrinkStates
  <2>2. CASE ShrinkTry(c) /\ Claim(c)
    BY <2>2, Successor, OvertakeType DEF TypeInv, ShrinkTry, Claim, Goto, ClientStates, ShrinkStates
  <2>3. CASE ShrinkTry(c) /\ Refused(c)
    BY <2>3 DEF TypeInv, ShrinkTry, Refused, Goto, ClientStates, ShrinkStates
  <2> QED BY <1>11, <2>1, <2>2, <2>3 DEF ShrinkPush, ShrinkTry
<1>12. ASSUME NEW c \in Clients, ShrinkHandOver(c) \/ ShrinkCount(c) PROVE TypeInv'
  <2>1. CASE ShrinkHandOver(c)
    BY PoolAssumption, <2>1 DEF TypeInv, ShrinkHandOver, Goto, ClientStates, ShrinkStates, Filled, Slots
  <2>2. CASE ShrinkCount(c)
    BY <2>2 DEF TypeInv, ShrinkCount, Goto, ClientStates, ShrinkStates
  <2> QED BY <1>12, <2>1, <2>2
<1>13. ASSUME NEW c \in Clients, ShrinkReap(c) PROVE TypeInv'
  BY <1>13 DEF TypeInv, ShrinkReap, Reaped, Return, ClientStates, WorkerStates
<1>14. CASE DestroyBegin
  BY PoolAssumption, <1>14, FS_CardinalityType, FS_Subset DEF TypeInv, DestroyBegin, Goto, MainStates
<1>15. CASE SendPill \/ PillSent \/ JoinAll
  BY <1>15 DEF TypeInv, SendPill, PillSent, JoinAll, Goto, MainStates, MoveStates, Before, Filled
<1>16. CASE Stop \/ UNCHANGED vars
  BY <1>16 DEF TypeInv, Stop, vars
<1> QED
  BY <1>1, <1>2, <1>3, <1>4, <1>5, <1>6, <1>7, <1>8, <1>9, <1>10, <1>11, <1>12, <1>13, <1>14,
     <1>15, <1>16 DEF Next, Run, Worker, Destroy, Move, ShrinkPush

\* The steps of FastSignal and Signal, and a try that fails: they move threads about
\* before the push or pop, or after it, and touch nothing but the signals.
Trying == Before \ {"handOver"}
Quiet ==
  /\ UNCHANGED <<queueVars, counterVars, contextVars, localVars, job, node, ran>>
  /\ \A u \in AllThreads : \/ pc'[u] = pc[u]
                           \/ pc[u] \in Trying /\ pc'[u] \in Trying
                           \/ pc[u] \in After /\ pc'[u] \in After

\* A step of the loop around push and pop succeeds, ends, or is quiet.
LEMMA QuietMoves ==
  ASSUME TypeInv, NEW t \in AllThreads, Move(t)
  PROVE  TryOk(t) \/ Handed(t) \/ Quiet
<1> USE DEF queueVars, counterVars, contextVars, localVars, Trying, Before, After
<1>1. DOMAIN pc = AllThreads
  BY DEF TypeInv
<1>2. CASE TryFails(t) \/ LoadState(t) \/ WaitSignal(t)
  BY <1>1, <1>2 DEF TryFails, Refused, LoadState, WaitSignal, Goto, Quiet
<1>3. CASE SetState(t) \/ SetSignal(t)
  BY <1>1, <1>3 DEF SetState, SetSignal, Goto, Quiet
<1>4. CASE SwapState(t) \/ ResetSignal(t)
  BY <1>1, <1>4 DEF SwapState, ResetSignal, Goto, Quiet
<1>5. CASE Broadcast(t)
  BY <1>1, <1>5 DEF Broadcast, Quiet
<1> QED BY <1>2, <1>3, <1>4, <1>5 DEF Move

\* The steps of the pool, the quiet ones taken together.
LEMMA Steps ==
  ASSUME TypeInv, [Next]_vars
  PROVE  \/ Quiet
         \/ \E t \in AllThreads : TryOk(t) \/ Handed(t)
         \/ \E w \in Contexts : Execute(w) \/ CountProcessed(w) \/ Exit(w)
         \/ \E c \in Clients : RunBegin(c) \/ CountPushed(c) \/ ReadProcessed(c) \/ Adjust(c)
         \/ \E c \in Clients : GrowLocked(c) \/ StartThread(c) \/ StoreHandle(c) \/ StartFails(c)
         \/ \E c \in Clients : ShrinkPush(c) \/ ShrinkHandOver(c) \/ ShrinkCount(c) \/ ShrinkReap(c)
         \/ DestroyBegin \/ SendPill \/ PillSent \/ JoinAll
<1>1. ASSUME NEW t \in AllThreads, Move(t) PROVE TryOk(t) \/ Handed(t) \/ Quiet
  BY <1>1, QuietMoves
<1>2. Stop \/ UNCHANGED vars => Quiet
  BY DEF Stop, vars, Quiet, queueVars, counterVars, contextVars, localVars
<1> QED BY <1>1, <1>2, ThreadKinds DEF Next, Run, Worker, Destroy, ShrinkPush

\* The jobs in hand follow from where a thread is.
LEMMA JobsStep ==
  TypeInv /\ JobsHeld /\ ContextInv /\ [Next]_vars => JobsHeld'
<1> SUFFICES ASSUME TypeInv, JobsHeld, ContextInv, [Next]_vars PROVE JobsHeld'
  OBVIOUS
<1> USE Values, ThreadKinds DEF Trying, MoveStates, Carrying, Before, After, ClientStates, MainStates,
      WorkerStates, ShrinkStates
<1>0. /\ pc \in [AllThreads -> ClientStates \cup MainStates \cup WorkerStates]
      /\ job \in [AllThreads -> Filled \cup {NoJob}]
      /\ calls \in 0 .. MaxJobs
  BY DEF TypeInv
<1>1. CASE Quiet
  BY <1>1 DEF JobsHeld, Quiet
<1>2. ASSUME NEW t \in AllThreads, TryOk(t) PROVE JobsHeld'
  <2>1. CASE t \in Contexts
    BY <1>0, <1>2, <2>1 DEF JobsHeld, TryOk, Claim, Ready, ReadyNode, NextNode, Filled
  <2>2. CASE t \notin Contexts
    BY <1>0, <1>2, <2>2 DEF JobsHeld, TryOk, Claim, Ready, ReadyNode, NextNode
  <2> QED BY <2>1, <2>2
<1>3. ASSUME NEW t \in AllThreads, Handed(t) PROVE JobsHeld'
  BY <1>0, <1>3 DEF JobsHeld, Handed, HandOver, Goto
<1>4. ASSUME NEW w \in Contexts, Execute(w) \/ CountProcessed(w) \/ Exit(w) PROVE JobsHeld'
  BY <1>0, <1>4 DEF JobsHeld, Execute, CountProcessed, Exit, Goto
<1>5. ASSUME NEW c \in Clients, RunBegin(c) PROVE JobsHeld'
  BY PoolAssumption, <1>0, <1>5 DEF JobsHeld, RunBegin, Goto
<1>6. ASSUME NEW c \in Clients, CountPushed(c) \/ ReadProcessed(c) \/ Adjust(c) PROVE JobsHeld'
  BY <1>0, <1>6 DEF JobsHeld, CountPushed, ReadProcessed, Adjust, Goto
<1>7. ASSUME NEW c \in Clients, GrowLocked(c) \/ ShrinkReap(c) PROVE JobsHeld'
  <2>1. \A w \in terminated : w \in Contexts /\ job[w] = NoJob
    BY DEF JobsHeld, ContextInv, TypeInv, Alive
  <2> QED BY <1>0, <1>7, <2>1 DEF JobsHeld, GrowLocked, ShrinkReap
<1>8. ASSUME NEW c \in Clients, StartThread(c) PROVE JobsHeld'
  <2>1. context[c] \in Contexts /\ job[context[c]] = NoJob
    BY <1>8 DEF JobsHeld, ContextInv, TypeInv, StartThread
  <2> QED BY <1>0, <1>8, <2>1 DEF JobsHeld, StartThread
<1>9. ASSUME NEW c \in Clients, StoreHandle(c) \/ StartFails(c) PROVE JobsHeld'
  BY <1>0, <1>9 DEF JobsHeld, StoreHandle, StartFails, Goto
<1>10. ASSUME NEW c \in Clients, ShrinkPush(c) PROVE JobsHeld'
  BY <1>0, <1>10 DEF JobsHeld, ShrinkPush, ShrinkLock, ShrinkTry, Refused, Claim, Goto
<1>11. ASSUME NEW c \in Clients, ShrinkHandOver(c) \/ ShrinkCount(c) PROVE JobsHeld'
  BY <1>0, <1>11 DEF JobsHeld, ShrinkHandOver, ShrinkCount, Goto
<1>12. CASE DestroyBegin \/ SendPill \/ PillSent \/ JoinAll
  BY <1>0, <1>12 DEF JobsHeld, DestroyBegin, SendPill, PillSent, JoinAll, Goto
<1> QED
  BY <1>1, <1>2, <1>3, <1>4, <1>5, <1>6, <1>7, <1>8, <1>9, <1>10, <1>11, <1>12, Steps

\* Steps that leave the contexts, and who starts them, as they are.
SameContexts ==
  /\ UNCHANGED <<threads, terminated, started, failures, context>>
  /\ \A w \in Contexts : /\ pc'[w] = "none" <=> pc[w] = "none"
                         /\ pc'[w] = "ended" <=> pc[w] = "ended"
  /\ \A c \in Clients : /\ pc'[c] = "start" <=> pc[c] = "start"
                        /\ pc'[c] = "storeHandle" <=> pc[c] = "storeHandle"

\* Only the end of a worker and the start of a thread touch the contexts.
LEMMA SameContextsSteps ==
  ASSUME TypeInv, JobsHeld, [Next]_vars
  PROVE \/ SameContexts
        \/ \E w \in Contexts : Exit(w)
        \/ \E c \in Clients : GrowLocked(c) \/ StartThread(c) \/ StoreHandle(c) \/ StartFails(c)
        \/ \E c \in Clients : ShrinkReap(c)
<1> USE ThreadKinds DEF contextVars, localVars
<1>0. pc \in [AllThreads -> ClientStates \cup MainStates \cup WorkerStates]
  BY DEF TypeInv
<1>1. Quiet => SameContexts
  BY <1>0 DEF Quiet, SameContexts, Trying, Before, After
<1>2. ASSUME NEW t \in AllThreads, TryOk(t) \/ Handed(t) PROVE SameContexts
  BY <1>0, <1>2 DEF TryOk, Handed, Goto, SameContexts
<1>3. ASSUME NEW w \in Contexts, Execute(w) \/ CountProcessed(w) PROVE SameContexts
  BY <1>0, <1>3 DEF Execute, CountProcessed, Goto, SameContexts
<1>4. ASSUME NEW c \in Clients, RunBegin(c) \/ CountPushed(c) \/ ReadProcessed(c) \/ Adjust(c)
      PROVE  SameContexts
  BY <1>0, <1>4 DEF RunBegin, CountPushed, ReadProcessed, Adjust, Goto, SameContexts
<1>5. ASSUME NEW c \in Clients, ShrinkPush(c) \/ ShrinkHandOver(c) \/ ShrinkCount(c)
      PROVE  SameContexts
  BY <1>0, <1>5 DEF ShrinkPush, ShrinkLock, ShrinkTry, Refused, ShrinkHandOver, ShrinkCount, Goto,
                    SameContexts
<1>6. DestroyBegin \/ SendPill \/ PillSent \/ JoinAll => SameContexts
  BY <1>0 DEF DestroyBegin, SendPill, PillSent, JoinAll, Goto, SameContexts
<1> QED BY <1>1, <1>2, <1>3, <1>4, <1>5, <1>6, Steps

\* A context is in _threads from the time it is appended until it is removed, and
\* _terminated is set exactly when its thread has ended or could not be started.
LEMMA ContextStep ==
  TypeInv /\ JobsHeld /\ ContextInv /\ [Next]_vars => ContextInv'
<1> SUFFICES ASSUME TypeInv, JobsHeld, ContextInv, [Next]_vars PROVE ContextInv'
  OBVIOUS
<1> USE ThreadKinds DEF contextVars, localVars, Alive
<1>0. /\ pc \in [AllThreads -> ClientStates \cup MainStates \cup WorkerStates]
      /\ threads \in SUBSET Contexts /\ terminated \in SUBSET Contexts
      /\ context \in [Clients -> Contexts \cup {NoContext}]
      /\ failures \in Nat
  BY DEF TypeInv
<1>1. CASE SameContexts
  BY <1>1, <1>0 DEF ContextInv, SameContexts
<1>2. ASSUME NEW w \in Contexts, Exit(w) PROVE ContextInv'
  BY <1>2, <1>0 DEF ContextInv, Exit, Goto
<1>3. ASSUME NEW c \in Clients, ShrinkReap(c) PROVE ContextInv'
  BY <1>3, <1>0 DEF ContextInv, ShrinkReap, Reaped
<1>4. ASSUME NEW c \in Clients, GrowLocked(c) PROVE ContextInv'
  <2>1. CASE threadCount < MaxThreads
    <3>1. PICK x \in Contexts \ Reaped :
            /\ threads' = Reaped \cup {x}
            /\ started' = (started \ terminated) \ {x}
            /\ context' = [context EXCEPT ![c] = x]
            /\ pc' = [t \in AllThreads |-> CASE t = c -> "start"
                                             [] t \in terminated -> "none"
                                             [] OTHER -> pc[t]]
      BY <1>4, <2>1 DEF GrowLocked
    <3>2. terminated' = {} /\ failures' = failures
      BY <1>4 DEF GrowLocked
    <3>3. x \notin threads \/ x \in terminated
      BY <3>1 DEF Reaped
    <3>4. pc'[x] = "none"
      BY <3>1, <3>3, <1>0, <1>4 DEF ContextInv
    <3>5. \A w \in Contexts : pc'[w] = IF w \in terminated THEN "none" ELSE pc[w]
      BY <3>1, <1>0
    <3>6. \A d \in Clients : pc'[d] = IF d = c THEN "start" ELSE pc[d]
      BY <3>1, <1>0
    <3>7. \A d \in Clients : context'[d] = IF d = c THEN x ELSE context[d]
      BY <3>1, <1>0
    <3>8. \A d \in Clients : pc[d] = "start" => context[d] # x
      BY <3>3 DEF ContextInv
    <3>9. pc[c] = "growLock"
      BY <1>4 DEF GrowLocked
    <3>10. \A w \in Contexts : w \in threads' <=> w = x \/ (w \in threads /\ w \notin terminated)
      BY <3>1 DEF Reaped
    <3>11. ASSUME NEW w \in Contexts
           PROVE  /\ Alive(w)' => w \in threads'
                  /\ pc'[w] # "ended"
                  /\ w \in threads' /\ pc'[w] = "none" =>
                       \E d \in Clients : pc'[d] = "start" /\ context'[d] = w
                  /\ Alive(w)' /\ w \notin started' =>
                       \E d \in Clients : pc'[d] = "storeHandle" /\ context'[d] = w
      <4>2. Alive(w)' => w \in threads' /\ Alive(w) /\ w # x /\ w \notin terminated
        BY <3>4, <3>5, <3>10 DEF ContextInv
      <4>3. pc'[w] # "ended"
        BY <3>5 DEF ContextInv
      <4>4. w \in threads' /\ pc'[w] = "none" =>
              \E d \in Clients : pc'[d] = "start" /\ context'[d] = w
        <5>1. CASE w = x
          BY <5>1, <3>6, <3>7
        <5>2. ASSUME w # x, w \in threads', pc'[w] = "none"
              PROVE  \E d \in Clients : pc'[d] = "start" /\ context'[d] = w
          <6>1. PICK d \in Clients : pc[d] = "start" /\ context[d] = w
            BY <5>2, <3>5, <3>10 DEF ContextInv
          <6> QED BY <6>1, <3>6, <3>7, <3>9
        <5> QED BY <5>1, <5>2
      <4>5. ASSUME Alive(w)', w \notin started'
            PROVE  \E d \in Clients : pc'[d] = "storeHandle" /\ context'[d] = w
        <5>1. PICK d \in Clients : pc[d] = "storeHandle" /\ context[d] = w
          BY <4>2, <4>5, <3>1 DEF ContextInv
        <5> QED BY <5>1, <3>6, <3>7, <3>9
      <4> QED BY <4>2, <4>3, <4>4, <4>5
    <3>12. ASSUME NEW d \in Clients
           PROVE  /\ pc'[d] = "start" => context'[d] \in threads' /\ pc'[context'[d]] = "none"
                  /\ pc'[d] = "storeHandle" => context'[d] \in Contexts
      BY <1>0, <3>1, <3>4, <3>5, <3>6, <3>7, <3>10 DEF ContextInv
    <3>13. \A d, e \in Clients : pc'[d] = "start" /\ pc'[e] = "start" /\ d # e =>
             context'[d] # context'[e]
      BY <3>6, <3>7, <3>8 DEF ContextInv
    <3> QED BY <3>2, <3>11, <3>12, <3>13 DEF ContextInv
  <2>2. CASE ~(threadCount < MaxThreads)
    BY <1>4, <2>2, <1>0 DEF ContextInv, GrowLocked, Reaped
  <2> QED BY <2>1, <2>2
<1>5. ASSUME NEW c \in Clients, StartThread(c) PROVE ContextInv'
  <2>1. context[c] \in Contexts
    BY <1>5, <1>0 DEF ContextInv, StartThread
  <2> QED BY <1>5, <1>0, <2>1 DEF ContextInv, StartThread
<1>6. ASSUME NEW c \in Clients, StoreHandle(c) PROVE ContextInv'
  BY <1>6, <1>0 DEF ContextInv, StoreHandle, Goto
<1>7. ASSUME NEW c \in Clients, StartFails(c) PROVE ContextInv'
  BY <1>7, <1>0 DEF ContextInv, StartFails, Goto
<1> QED BY <1>1, <1>2, <1>3, <1>4, <1>5, <1>6, <1>7, SameContextsSteps

\* What a step does to the queue: nothing, a call that takes a ticket, or a call that
\* hands its node over.
SameQueue == UNCHANGED <<queueVars, node>> /\ \A u \in AllThreads : Owner(u)' <=> Owner(u)
Claims(t) == /\ Ready(t) /\ Claim(t) /\ ~Owner(t)
             /\ \A u \in AllThreads : Owner(u)' <=> u = t \/ Owner(u)
Releases(t, v) == /\ nodes' = [nodes EXCEPT ![node[t]] = v]
                  /\ node' = [node EXCEPT ![t] = 0]
                  /\ UNCHANGED <<qTail, qHead>>
                  /\ Owner(t)
                  /\ \A u \in AllThreads : Owner(u)' <=> u # t /\ Owner(u)

\* Every step is one of these.
LEMMA QueueSteps ==
  ASSUME TypeInv, JobsHeld, ContextInv, [Next]_vars
  PROVE \/ SameQueue
        \/ \E t \in AllThreads : Claims(t)
        \/ \E t \in Callers, v \in Filled : Releases(t, v)
        \/ \E t \in Contexts : Releases(t, Free)
<1> USE ThreadKinds DEF queueVars, Owner
<1>0. pc \in [AllThreads -> ClientStates \cup MainStates \cup WorkerStates]
  BY DEF TypeInv
<1>1. Quiet => SameQueue
  BY <1>0 DEF Quiet, SameQueue, Trying, Before, After
<1>2. ASSUME NEW t \in AllThreads, TryOk(t) PROVE Claims(t)
  BY <1>0, <1>2 DEF TryOk, Claims
<1>3. ASSUME NEW t \in Contexts, Handed(t) PROVE Releases(t, Free)
  BY <1>0, <1>3 DEF Handed, HandOver, Goto, Releases
<1>4. ASSUME NEW t \in Callers, Handed(t) PROVE \E v \in Filled : Releases(t, v)
  <2>1. job[t] \in Filled
    BY <1>4 DEF JobsHeld, Handed, Goto, MoveStates, Before, Filled
  <2>2. Releases(t, job[t])
    BY <1>0, <1>4 DEF Handed, HandOver, Goto, Releases
  <2> QED BY <2>1, <2>2 DEF Releases
<1>5. ASSUME NEW w \in Contexts, Execute(w) \/ CountProcessed(w) \/ Exit(w) PROVE SameQueue
  BY <1>0, <1>5 DEF Execute, CountProcessed, Exit, Goto, SameQueue
<1>6. ASSUME NEW c \in Clients, RunBegin(c) \/ CountPushed(c) \/ ReadProcessed(c) \/ Adjust(c)
      PROVE  SameQueue
  BY <1>0, <1>6 DEF RunBegin, CountPushed, ReadProcessed, Adjust, Goto, SameQueue
<1>7. ASSUME NEW c \in Clients, GrowLocked(c) \/ ShrinkReap(c) PROVE SameQueue
  <2>1. \A w \in terminated : w \in Contexts /\ ~Owner(w)
    BY DEF ContextInv, TypeInv, Alive
  <2> QED BY <1>0, <1>7, <2>1 DEF GrowLocked, ShrinkReap, SameQueue
<1>8. ASSUME NEW c \in Clients, StartThread(c) PROVE SameQueue
  <2>1. context[c] \in Contexts /\ ~Owner(context[c])
    BY <1>8 DEF ContextInv, TypeInv, StartThread
  <2> QED BY <1>0, <1>8, <2>1 DEF StartThread, SameQueue
<1>9. ASSUME NEW c \in Clients, StoreHandle(c) \/ StartFails(c) \/ ShrinkCount(c) PROVE SameQueue
  BY <1>0, <1>9 DEF StoreHandle, StartFails, ShrinkCount, Goto, SameQueue
<1>10. ASSUME NEW c \in Clients, ShrinkPush(c) PROVE SameQueue \/ Claims(c)
  BY <1>0, <1>10 DEF ShrinkPush, ShrinkLock, ShrinkTry, Refused, Goto, Claims, SameQueue
<1>11. ASSUME NEW c \in Clients, ShrinkHandOver(c) PROVE Releases(c, Pill)
  BY <1>0, <1>11 DEF ShrinkHandOver, Goto, Releases
<1>12. DestroyBegin \/ SendPill \/ PillSent \/ JoinAll => SameQueue
  BY <1>0 DEF DestroyBegin, SendPill, PillSent, JoinAll, Goto, SameQueue
<1>13. Pill \in Filled
  BY DEF Filled
<1> QED
  BY <1>1, <1>2, <1>3, <1>4, <1>5, <1>6, <1>7, <1>8, <1>9, <1>10, <1>11, <1>12, <1>13, Steps

\* A call that took a ticket has the node to itself, and a claimed node has an owner.
LEMMA OwnStep ==
  TypeInv /\ JobsHeld /\ ContextInv /\ OwnInv /\ [Next]_vars => OwnInv'
<1> SUFFICES ASSUME TypeInv, JobsHeld, ContextInv, OwnInv, [Next]_vars PROVE OwnInv'
  OBVIOUS
<1> USE Values, ThreadKinds
<1>0. /\ nodes \in [Slots -> Filled \cup {Free, Claimed, Taken}]
      /\ node \in [AllThreads -> Slots]
      /\ qTail \in Slots /\ qHead \in Slots /\ 0 \in Slots
  BY PoolAssumption DEF TypeInv, Slots
<1>1. CASE SameQueue
  BY <1>1 DEF SameQueue, OwnInv, queueVars
<1>2. ASSUME NEW t \in AllThreads, Claims(t) PROVE OwnInv'
  <2>1. CASE t \in Contexts
    BY <1>0, <1>2, <2>1 DEF Claims, Claim, Ready, ReadyNode, NextNode, OwnInv, Filled
  <2>2. CASE t \notin Contexts
    BY <1>0, <1>2, <2>2 DEF Claims, Claim, Ready, ReadyNode, NextNode, OwnInv
  <2> QED BY <2>1, <2>2
<1>3. ASSUME NEW t \in AllThreads, NEW v \in Filled \cup {Free}, Releases(t, v) PROVE OwnInv'
  BY <1>0, <1>3 DEF Releases, OwnInv
<1> QED BY <1>1, <1>2, <1>3, QueueSteps

\* The two ends of the queue delimit what is in it.
LEMMA RingStep ==
  TypeInv /\ JobsHeld /\ ContextInv /\ OwnInv /\ RingInv /\ [Next]_vars => RingInv'
<1> SUFFICES ASSUME TypeInv, JobsHeld, ContextInv, OwnInv, RingInv, [Next]_vars PROVE RingInv'
  OBVIOUS
<1> USE Values, ThreadKinds
<1>0. /\ nodes \in [Slots -> Filled \cup {Free, Claimed, Taken}]
      /\ node \in [AllThreads -> Slots]
      /\ qTail \in Slots /\ qHead \in Slots
  BY DEF TypeInv
<1>1. CASE SameQueue
  BY <1>1 DEF SameQueue, RingInv, Occupied, queueVars
<1>2. ASSUME NEW t \in Contexts, Claims(t) PROVE RingInv'
  <2>1. Occupied(qHead) /\ \A i \in Slots : Occupied(i)' <=> Occupied(i) /\ i # qHead
    BY <1>0, <1>2 DEF Claims, Claim, Ready, ReadyNode, NextNode, Filled, Occupied
  <2>2. qHead' = (IF qHead + 1 = QueueSize THEN 0 ELSE qHead + 1) /\ qTail' = qTail
    BY <1>0, <1>2, Successor DEF Claims, Claim
  <2> QED BY <1>0, <2>1, <2>2 DEF RingInv, Slots
<1>3. ASSUME NEW t \in Callers, Claims(t) PROVE RingInv'
  <2>1. ~Occupied(qTail) /\ \A i \in Slots : Occupied(i)' <=> Occupied(i) \/ i = qTail
    BY <1>0, <1>3 DEF Claims, Claim, Ready, ReadyNode, NextNode, Occupied
  <2>2. qTail' = (IF qTail + 1 = QueueSize THEN 0 ELSE qTail + 1) /\ qHead' = qHead
    BY <1>0, <1>3, Successor DEF Claims, Claim
  <2> QED BY <1>0, <2>1, <2>2 DEF RingInv, Slots
<1>4. ASSUME NEW t \in Callers, NEW v \in Filled, Releases(t, v) PROVE RingInv'
  <2>1. \A i \in Slots : Occupied(i)' <=> Occupied(i)
    BY <1>0, <1>4 DEF Releases, OwnInv, Occupied
  <2> QED BY <1>4, <2>1 DEF Releases, RingInv
<1>5. ASSUME NEW t \in Contexts, Releases(t, Free) PROVE RingInv'
  <2>1. \A i \in Slots : Occupied(i)' <=> Occupied(i)
    BY <1>0, <1>5 DEF Releases, OwnInv, Occupied
  <2> QED BY <1>5, <2>1 DEF Releases, RingInv
<1> QED BY <1>1, <1>2, <1>3, <1>4, <1>5, QueueSteps

\* What a step does to the jobs: nothing; a caller puts its job into a node; a worker
\* takes one out of a node; a worker executes its job; a client comes with a new one.
SameJobs == /\ UNCHANGED <<ran, calls>>
            /\ \A j \in Jobs : /\ \A u \in AllThreads : HeldBy(u, j)' <=> HeldBy(u, j)
                               /\ \A x \in Slots : nodes'[x] = j <=> nodes[x] = j
JobIn == /\ UNCHANGED <<ran, calls>>
         /\ \E t \in AllThreads, i \in Slots, k \in Jobs :
              /\ HeldBy(t, k) /\ nodes[i] \notin Jobs
              /\ \A j \in Jobs : /\ \A u \in AllThreads : HeldBy(u, j)' <=> HeldBy(u, j) /\ u # t
                                 /\ \A x \in Slots : nodes'[x] = j <=> nodes[x] = j \/ (x = i /\ j = k)
JobOut == /\ UNCHANGED <<ran, calls>>
          /\ \E t \in AllThreads, i \in Slots, k \in Jobs :
               /\ nodes[i] = k
               /\ \A j \in Jobs :
                    /\ \A u \in AllThreads : HeldBy(u, j)' <=> HeldBy(u, j) \/ (u = t /\ j = k)
                    /\ \A x \in Slots : nodes'[x] = j <=> nodes[x] = j /\ x # i
JobRun == /\ UNCHANGED calls
          /\ \E t \in AllThreads, k \in Jobs :
               /\ HeldBy(t, k)
               /\ ran' = [ran EXCEPT ![k] = @ + 1]
               /\ \A j \in Jobs : /\ \A u \in AllThreads : HeldBy(u, j)' <=> HeldBy(u, j) /\ u # t
                                  /\ \A x \in Slots : nodes'[x] = j <=> nodes[x] = j
NewJob == /\ UNCHANGED ran
          /\ calls < MaxJobs /\ calls' = calls + 1
          /\ \E t \in AllThreads : \A j \in Jobs :
               /\ \A u \in AllThreads :
                    HeldBy(u, j)' <=> HeldBy(u, j) \/ (u = t /\ j = <<"job", calls + 1>>)
               /\ \A x \in Slots : nodes'[x] = j <=> nodes[x] = j

\* Every step is one of these.
LEMMA JobSteps ==
  ASSUME TypeInv, JobsHeld, ContextInv, OwnInv, [Next]_vars
  PROVE SameJobs \/ JobIn \/ JobOut \/ JobRun \/ NewJob
<1> USE Values, ThreadKinds DEF HeldBy, Holds, Carrying, Before, After, queueVars, localVars
<1>0. /\ pc \in [AllThreads -> ClientStates \cup MainStates \cup WorkerStates]
      /\ job \in [AllThreads -> Filled \cup {NoJob}]
      /\ nodes \in [Slots -> Filled \cup {Free, Claimed, Taken}]
      /\ node \in [AllThreads -> Slots]
      /\ qTail \in Slots /\ qHead \in Slots
      /\ Jobs \subseteq Filled /\ Pill \in Filled
      /\ calls \in 0 .. MaxJobs
  BY DEF TypeInv, Filled
<1>1. Quiet => SameJobs
  BY <1>0 DEF Quiet, SameJobs, Trying
<1>2. ASSUME NEW t \in Contexts, TryOk(t) PROVE SameJobs \/ JobOut
  <2>1. /\ nodes' = [nodes EXCEPT ![qHead] = Taken]
        /\ job' = [job EXCEPT ![t] = nodes[qHead]]
        /\ pc' = [pc EXCEPT ![t] = "handOver"]
        /\ ~Holds(t) /\ nodes[qHead] \in Jobs \cup {Pill}
        /\ UNCHANGED <<ran, calls>>
    BY <1>2 DEF TryOk, Claim, Ready, ReadyNode, NextNode
  <2>2. \A j \in Jobs, u \in AllThreads :
          HeldBy(u, j)' <=> HeldBy(u, j) \/ (u = t /\ j = nodes[qHead])
    BY <1>0, <2>1
  <2>3. \A j \in Jobs, x \in Slots : nodes'[x] = j <=> nodes[x] = j /\ x # qHead
    BY <1>0, <2>1
  <2>4. CASE nodes[qHead] \in Jobs
    <3> HIDE DEF HeldBy
    <3> QED BY <1>0, <2>1, <2>2, <2>3, <2>4 DEF JobOut
  <2>5. CASE nodes[qHead] = Pill
    <3> HIDE DEF HeldBy
    <3> QED BY <2>1, <2>2, <2>3, <2>5, <1>0 DEF SameJobs
  <2> QED BY <2>1, <2>4, <2>5
<1>3. ASSUME NEW t \in Callers, TryOk(t) PROVE SameJobs
  BY <1>0, <1>3 DEF TryOk, Claim, Ready, ReadyNode, NextNode, SameJobs
<1>4. ASSUME NEW t \in Contexts, Handed(t) PROVE SameJobs
  <2>1. nodes[node[t]] = Taken
    BY <1>4 DEF Handed, Goto, OwnInv, Owner
  <2> QED BY <1>0, <1>4, <2>1 DEF Handed, HandOver, Goto, SameJobs
<1>5. ASSUME NEW t \in Callers, Handed(t) PROVE SameJobs \/ JobIn
  <2>1. /\ nodes' = [nodes EXCEPT ![node[t]] = job[t]] /\ nodes[node[t]] = Claimed
        /\ pc' = [pc EXCEPT ![t] = "setState"] /\ pc[t] = "handOver"
        /\ job[t] \in Jobs \cup {Pill}
        /\ UNCHANGED <<ran, calls, job>>
    BY <1>5 DEF Handed, HandOver, Goto, OwnInv, Owner, JobsHeld, MoveStates
  <2>2. \A j \in Jobs, u \in AllThreads : HeldBy(u, j)' <=> HeldBy(u, j) /\ u # t
    BY <1>0, <2>1
  <2>3. \A j \in Jobs, x \in Slots : nodes'[x] = j <=> nodes[x] = j \/ (x = node[t] /\ j = job[t])
    BY <1>0, <2>1
  <2>4. CASE job[t] \in Jobs
    <3>1. HeldBy(t, job[t]) /\ nodes[node[t]] \notin Jobs
      BY <1>0, <2>1
    <3> HIDE DEF HeldBy
    <3> QED BY <1>0, <2>1, <2>2, <2>3, <2>4, <3>1 DEF JobIn
  <2>5. CASE job[t] = Pill
    <3>1. \A j \in Jobs : ~HeldBy(t, j)
      BY <2>5
    <3> HIDE DEF HeldBy
    <3> QED BY <2>1, <2>2, <2>3, <2>5, <3>1, <1>0 DEF SameJobs
  <2> QED BY <2>1, <2>4, <2>5
<1>6. ASSUME NEW w \in Contexts, Execute(w) PROVE JobRun
  <2>1. /\ pc' = [pc EXCEPT ![w] = "executed"] /\ pc[w] = "moved"
        /\ job[w] \in Jobs
        /\ ran' = [ran EXCEPT ![job[w]] = @ + 1]
        /\ UNCHANGED <<nodes, calls, job>>
    BY <1>6 DEF Execute, Goto
  <2>2. \A j \in Jobs, u \in AllThreads : HeldBy(u, j)' <=> HeldBy(u, j) /\ u # w
    BY <1>0, <2>1
  <2>3. HeldBy(w, job[w])
    BY <2>1
  <2> HIDE DEF HeldBy
  <2>4. \E k \in Jobs : /\ HeldBy(w, k) /\ ran' = [ran EXCEPT ![k] = @ + 1]
                        /\ \A j \in Jobs :
                             /\ \A u \in AllThreads : HeldBy(u, j)' <=> HeldBy(u, j) /\ u # w
                             /\ \A x \in Slots : nodes'[x] = j <=> nodes[x] = j
    BY <2>1, <2>2, <2>3
  <2> QED BY <2>1, <2>4 DEF JobRun
<1>7. ASSUME NEW w \in Contexts, CountProcessed(w) \/ Exit(w) PROVE SameJobs
  BY <1>0, <1>7 DEF CountProcessed, Exit, Goto, SameJobs
<1>8. ASSUME NEW c \in Clients, RunBegin(c) PROVE NewJob
  <2>1. /\ pc' = [pc EXCEPT ![c] = "try1"] /\ pc[c] = "idle"
        /\ job' = [job EXCEPT ![c] = <<"job", calls + 1>>]
        /\ UNCHANGED <<nodes, ran>> /\ calls < MaxJobs /\ calls' = calls + 1
    BY <1>8 DEF RunBegin, Goto
  <2>2. \A j \in Jobs, u \in AllThreads :
          HeldBy(u, j)' <=> HeldBy(u, j) \/ (u = c /\ j = <<"job", calls + 1>>)
    BY <1>0, <2>1
  <2> HIDE DEF HeldBy
  <2> QED BY <2>1, <2>2 DEF NewJob
<1>9. ASSUME NEW c \in Clients, CountPushed(c) \/ ReadProcessed(c) \/ Adjust(c) PROVE SameJobs
  BY <1>0, <1>9 DEF CountPushed, ReadProcessed, Adjust, Goto, SameJobs
<1>10. ASSUME NEW c \in Clients, GrowLocked(c) \/ ShrinkReap(c) PROVE SameJobs
  <2>1. \A w \in terminated : w \in Contexts /\ ~Holds(w)
    BY DEF ContextInv, TypeInv, Alive
  <2> QED BY <1>0, <1>10, <2>1 DEF GrowLocked, ShrinkReap, SameJobs
<1>11. ASSUME NEW c \in Clients, StartThread(c) PROVE SameJobs
  <2>1. context[c] \in Contexts /\ ~Holds(context[c])
    BY <1>11 DEF ContextInv, TypeInv, StartThread
  <2> QED BY <1>0, <1>11, <2>1 DEF StartThread, SameJobs
<1>12. ASSUME NEW c \in Clients, StoreHandle(c) \/ StartFails(c) \/ ShrinkCount(c) PROVE SameJobs
  BY <1>0, <1>12 DEF StoreHandle, StartFails, ShrinkCount, Goto, SameJobs
<1>13. ASSUME NEW c \in Clients, ShrinkPush(c) PROVE SameJobs
  BY <1>0, <1>13 DEF ShrinkPush, ShrinkLock, ShrinkTry, Refused, Claim, Ready, ReadyNode, NextNode,
                     Goto, SameJobs
<1>14. ASSUME NEW c \in Clients, ShrinkHandOver(c) PROVE SameJobs
  <2>1. nodes[node[c]] = Claimed
    BY <1>14 DEF ShrinkHandOver, Goto, OwnInv, Owner
  <2> QED BY <1>0, <1>14, <2>1 DEF ShrinkHandOver, Goto, SameJobs
<1>15. DestroyBegin \/ SendPill \/ PillSent \/ JoinAll => SameJobs
  BY <1>0 DEF DestroyBegin, SendPill, PillSent, JoinAll, Goto, SameJobs
<1> QED
  BY <1>1, <1>2, <1>3, <1>4, <1>5, <1>6, <1>7, <1>8, <1>9, <1>10, <1>11, <1>12, <1>13, <1>14,
     <1>15, Steps

\* A job is in one place, one that is still to come is in none, one that came is in one.
LEMMA OnceStep ==
  TypeInv /\ JobsHeld /\ ContextInv /\ OwnInv /\ OnceInv /\ FreshInv /\ PlaceInv /\ [Next]_vars
    => OnceInv' /\ FreshInv' /\ PlaceInv'
<1> SUFFICES ASSUME TypeInv, JobsHeld, ContextInv, OwnInv, OnceInv, FreshInv, PlaceInv, [Next]_vars
             PROVE  OnceInv' /\ FreshInv' /\ PlaceInv'
  OBVIOUS
<1> USE Values
<1>0. ran \in [Jobs -> Nat] /\ calls \in 0 .. MaxJobs
  BY DEF TypeInv
<1>1. CASE SameJobs
  BY PoolAssumption, <1>0, <1>1 DEF SameJobs, OnceInv, FreshInv, PlaceInv, Place
<1>2. CASE JobIn
  <2>1. PICK t \in AllThreads, i \in Slots, k \in Jobs :
          /\ HeldBy(t, k) /\ nodes[i] \notin Jobs
          /\ \A j \in Jobs :
               /\ \A u \in AllThreads : HeldBy(u, j)' <=> HeldBy(u, j) /\ u # t
               /\ \A x \in Slots : nodes'[x] = j <=> nodes[x] = j \/ (x = i /\ j = k)
    BY <1>2 DEF JobIn
  <2>2. ran' = ran /\ calls' = calls
    BY <1>2 DEF JobIn
  <2>3. \A j \in Jobs : HeldBy(t, j) <=> j = k
    BY <2>1 DEF HeldBy
  <2>4. OnceInv'
    BY <2>1, <2>2, <2>3 DEF OnceInv
  <2>5. FreshInv'
    BY <1>0, <2>1, <2>2, <2>3 DEF FreshInv
  <2>6. PlaceInv'
    <3>1. \A n \in 1 .. MaxJobs : Place(<<"job", n>>) => Place(<<"job", n>>)'
      BY <2>1, <2>2, <2>3 DEF Place
    <3>2. \A n \in 1 .. calls' : n \in 1 .. calls /\ n \in 1 .. MaxJobs
      BY PoolAssumption, <1>0, <2>2
    <3> QED BY <3>1, <3>2, Zenon DEF PlaceInv
  <2> QED BY <2>4, <2>5, <2>6
<1>3. CASE JobOut
  <2>1. PICK t \in AllThreads, i \in Slots, k \in Jobs :
          /\ nodes[i] = k
          /\ \A j \in Jobs :
               /\ \A u \in AllThreads : HeldBy(u, j)' <=> HeldBy(u, j) \/ (u = t /\ j = k)
               /\ \A x \in Slots : nodes'[x] = j <=> nodes[x] = j /\ x # i
    BY <1>3 DEF JobOut
  <2>2. ran' = ran /\ calls' = calls
    BY <1>3 DEF JobOut
  <2>4. OnceInv'
    BY <2>1, <2>2 DEF OnceInv
  <2>5. FreshInv'
    BY <1>0, <2>1, <2>2 DEF FreshInv
  <2>6. PlaceInv'
    <3>1. \A n \in 1 .. MaxJobs : Place(<<"job", n>>) => Place(<<"job", n>>)'
      BY <2>1, <2>2 DEF Place
    <3>2. \A n \in 1 .. calls' : n \in 1 .. calls /\ n \in 1 .. MaxJobs
      BY PoolAssumption, <1>0, <2>2
    <3> QED BY <3>1, <3>2, Zenon DEF PlaceInv
  <2> QED BY <2>4, <2>5, <2>6
<1>4. CASE JobRun
  <2>1. PICK t \in AllThreads, k \in Jobs :
          /\ HeldBy(t, k)
          /\ ran' = [ran EXCEPT ![k] = @ + 1]
          /\ \A j \in Jobs : /\ \A u \in AllThreads : HeldBy(u, j)' <=> HeldBy(u, j) /\ u # t
                             /\ \A x \in Slots : nodes'[x] = j <=> nodes[x] = j
    BY <1>4 DEF JobRun
  <2>2. calls' = calls
    BY <1>4 DEF JobRun
  <2>3. \A j \in Jobs : HeldBy(t, j) <=> j = k
    BY <2>1 DEF HeldBy
  <2>7. ran[k] = 0 /\ \A j \in Jobs : ran'[j] = IF j = k THEN 1 ELSE ran[j]
    BY <1>0, <2>1 DEF OnceInv
  <2>4. OnceInv'
    BY <1>0, <2>1, <2>3, <2>7 DEF OnceInv
  <2>5. FreshInv'
    BY <1>0, <2>1, <2>2, <2>3, <2>7 DEF FreshInv
  <2>6. PlaceInv'
    <3>1. \A n \in 1 .. MaxJobs : Place(<<"job", n>>) => Place(<<"job", n>>)'
      BY <2>1, <2>3, <2>7 DEF Place
    <3>2. \A n \in 1 .. calls' : n \in 1 .. calls /\ n \in 1 .. MaxJobs
      BY PoolAssumption, <1>0, <2>2
    <3> QED BY <3>1, <3>2, Zenon DEF PlaceInv
  <2> QED BY <2>4, <2>5, <2>6
<1>5. CASE NewJob
  <2>1. PICK t \in AllThreads : \A j \in Jobs :
          /\ \A u \in AllThreads :
               HeldBy(u, j)' <=> HeldBy(u, j) \/ (u = t /\ j = <<"job", calls + 1>>)
          /\ \A x \in Slots : nodes'[x] = j <=> nodes[x] = j
    BY <1>5 DEF NewJob
  <2>2. ran' = ran /\ calls' = calls + 1 /\ calls + 1 \in 1 .. MaxJobs
    BY PoolAssumption, <1>0, <1>5 DEF NewJob
  <2>4. OnceInv'
    BY <1>0, <2>1, <2>2 DEF OnceInv, FreshInv
  <2>5. FreshInv'
    <3> SUFFICES ASSUME NEW n \in 1 .. MaxJobs, n > calls + 1
                 PROVE  /\ \A u \in AllThreads : ~HeldBy(u, <<"job", n>>)'
                        /\ \A i \in Slots : nodes'[i] # <<"job", n>>
                        /\ ran[<<"job", n>>] = 0
      BY <2>2 DEF FreshInv
    <3>1. <<"job", n>> \in Jobs /\ <<"job", n>> # <<"job", calls + 1>> /\ n > calls
      BY <1>0, <2>2
    <3> QED BY <2>1, <3>1 DEF FreshInv
  <2>6. PlaceInv'
    <3>1. \A n \in 1 .. MaxJobs : Place(<<"job", n>>) => Place(<<"job", n>>)'
      BY <2>1, <2>2 DEF Place
    <3>2. ASSUME NEW n \in 1 .. MaxJobs, n = calls + 1 PROVE Place(<<"job", n>>)'
      <4>1. HeldBy(t, <<"job", n>>)'
        BY <2>1, <3>2
      <4> QED BY <4>1 DEF Place
    <3>3. \A n \in 1 .. calls' : n \in 1 .. MaxJobs /\ (n \in 1 .. calls \/ n = calls + 1)
      BY PoolAssumption, <1>0, <2>2
    <3> QED BY <3>1, <3>2, <3>3, Zenon DEF PlaceInv
  <2> QED BY <2>4, <2>5, <2>6
<1> QED BY <1>1, <1>2, <1>3, <1>4, <1>5, JobSteps

\* The pool as it was constructed, or at rest with warm workers.
LEMMA InitInv ==
  Init => TypeInv /\ JobsHeld /\ ContextInv /\ OwnInv /\ RingInv /\ OnceInv /\ FreshInv /\ PlaceInv
<1> SUFFICES ASSUME Init
             PROVE  TypeInv /\ JobsHeld /\ ContextInv /\ OwnInv /\ RingInv /\ OnceInv /\ FreshInv
                    /\ PlaceInv
  OBVIOUS
<1> USE Values, ThreadKinds
<1>1. PICK W \in SUBSET Contexts :
        /\ sig = [x \in {"enqueued", "dequeued"} |->
                    IF x = "dequeued" /\ W # {} THEN [state |-> 1, signaled |-> TRUE]
                                               ELSE [state |-> 0, signaled |-> FALSE]]
        /\ pushed = Cardinality(W) /\ processed = Cardinality(W)
        /\ threadCount = Cardinality(W)
        /\ threads = W /\ started = W
        /\ pc = [t \in AllThreads |-> CASE t \in W -> "asleep"
                                         [] t \in Contexts \ W -> "none"
                                         [] OTHER -> "idle"]
  BY DEF Init
<1>2. /\ nodes = [i \in Slots |-> Free]
      /\ qTail = 0 /\ qHead = 0 /\ terminated = {} /\ failures = 0
      /\ idleTimeout \in BOOLEAN
      /\ job = [t \in AllThreads |-> NoJob] /\ node = [t \in AllThreads |-> 0]
      /\ overtaken = [t \in AllThreads |-> {}]
      /\ busy = [c \in Clients |-> 0] /\ context = [c \in Clients |-> NoContext]
      /\ calls = 0 /\ pills = 0 /\ ran = [j \in Jobs |-> 0]
  BY PoolAssumption DEF Init, Slots
<1>3. Cardinality(W) \in Nat
  BY PoolAssumption, FS_CardinalityType, FS_Subset
<1>4. /\ \A c \in Clients : pc[c] = "idle"
      /\ pc[Main] = "idle"
      /\ \A w \in Contexts : pc[w] = IF w \in W THEN "asleep" ELSE "none"
  BY <1>1
<1>5. TypeInv
  <2>1. sig \in [{"enqueued", "dequeued"} -> [state : {0, 1}, signaled : BOOLEAN]]
    <3>1. [state |-> 1, signaled |-> TRUE] \in [state : {0, 1}, signaled : BOOLEAN]
      BY Zenon
    <3>2. [state |-> 0, signaled |-> FALSE] \in [state : {0, 1}, signaled : BOOLEAN]
      BY Zenon
    <3> QED BY <1>1, <3>1, <3>2, Zenon
  <2>2. pc \in [AllThreads -> ClientStates \cup MainStates \cup WorkerStates]
    BY <1>1 DEF ClientStates, MoveStates, Before, WorkerStates
  <2> QED BY PoolAssumption, <1>1, <1>2, <1>3, <2>1, <2>2 DEF TypeInv, Slots
<1>6. JobsHeld
  BY <1>2, <1>4 DEF JobsHeld, ClientStates, MainStates, WorkerStates, MoveStates, Carrying, Before,
                    After
<1>7. ContextInv
  BY <1>1, <1>2, <1>4 DEF ContextInv, Alive
<1>8. OwnInv
  BY <1>1, <1>2 DEF OwnInv, Owner
<1>9. RingInv
  BY <1>2 DEF RingInv, Occupied
<1>10. OnceInv /\ FreshInv /\ PlaceInv
  BY <1>2 DEF OnceInv, FreshInv, PlaceInv, HeldBy, Filled
<1> QED BY <1>5, <1>6, <1>7, <1>8, <1>9, <1>10

\* The part of the invariant that is about single threads, nodes and jobs.
CoreInv == TypeInv /\ JobsHeld /\ ContextInv /\ OwnInv /\ RingInv /\ OnceInv /\ FreshInv /\ PlaceInv

\* It holds in every reachable state.
THEOREM CoreInvariance == Spec => []CoreInv
<1>1. Init => CoreInv
  BY InitInv DEF CoreInv
<1>2. CoreInv /\ [Next]_vars => CoreInv'
  BY TypeStep, JobsStep, ContextStep, OwnStep, RingStep, OnceStep DEF CoreInv
<1> QED BY <1>1, <1>2, PTL DEF Spec

\* No job is executed twice, however many workers pop (Future.cpp 171-190).
THEOREM NoJobTwice == Spec => []JobRunsOnce
<1>1. CoreInv => JobRunsOnce
  BY DEF CoreInv, OnceInv, JobRunsOnce
<1> QED BY <1>1, CoreInvariance, PTL

-----------------------------------------------------------------------------
(* _threadCount *)

\* What is counted: the jobs {0, 0} in the queue and with workers, the threads that were not
\* terminated, and the clients that sent one but have not corrected _threadCount yet.
PillNodes == {i \in DOMAIN nodes : nodes[i] = Pill}
PillWorkers == {w \in Contexts : job[w] = Pill}
Usable == threads \ terminated
Counting == {c \in Clients : pc[c] = "shrinkCount"}
CountVars == <<PillNodes, PillWorkers, Usable, Counting, threadCount>>

\* The sets that are counted are finite.
LEMMA CountFinite ==
  ASSUME TypeInv
  PROVE  /\ IsFiniteSet(PillNodes) /\ Cardinality(PillNodes) \in Nat
         /\ IsFiniteSet(PillWorkers) /\ Cardinality(PillWorkers) \in Nat
         /\ IsFiniteSet(Usable) /\ Cardinality(Usable) \in Nat
         /\ IsFiniteSet(Counting) /\ Cardinality(Counting) \in Nat
<1>1. IsFiniteSet(Slots)
  BY SlotsFinite
<1>2. /\ PillNodes \subseteq Slots /\ PillWorkers \subseteq Contexts
      /\ Usable \subseteq Contexts /\ Counting \subseteq Clients
  BY DEF PillNodes, PillWorkers, Usable, Counting, TypeInv
<1>3. IsFiniteSet(PillNodes) /\ IsFiniteSet(PillWorkers) /\ IsFiniteSet(Usable) /\ IsFiniteSet(Counting)
  BY PoolAssumption, <1>1, <1>2, FS_Subset
<1> QED BY <1>3, FS_CardinalityType

\* Once the destructor runs, or a thread could not be started, that stays so.
LEMMA MainLeaves ==
  ASSUME TypeInv, JobsHeld, ContextInv, [Next]_vars
  PROVE  /\ pc[Main] # "idle" => pc'[Main] # "idle"
         /\ pc[Main] = "idle" /\ pc'[Main] # "idle" => DestroyBegin
         /\ failures' >= failures
         /\ idleTimeout' = idleTimeout
<1> USE ThreadKinds DEF contextVars
<1>0. /\ pc \in [AllThreads -> ClientStates \cup MainStates \cup WorkerStates]
      /\ failures \in Nat /\ threads \in SUBSET Contexts /\ terminated \in SUBSET Contexts
      /\ context \in [Clients -> Contexts \cup {NoContext}]
  BY DEF TypeInv
<1>1. CASE Quiet
  BY <1>0, <1>1 DEF Quiet, Trying, Before, After
<1>2. ASSUME NEW t \in AllThreads, TryOk(t) \/ Handed(t)
      PROVE  (pc[Main] = "idle" <=> pc'[Main] = "idle") /\ UNCHANGED <<failures, idleTimeout>>
  BY <1>0, <1>2 DEF TryOk, Handed, Goto
<1>3. ASSUME NEW w \in Contexts, Execute(w) \/ CountProcessed(w) \/ Exit(w)
      PROVE  pc'[Main] = pc[Main] /\ UNCHANGED <<failures, idleTimeout>>
  BY <1>0, <1>3 DEF Execute, CountProcessed, Exit, Goto
<1>4. ASSUME NEW c \in Clients, RunBegin(c) \/ CountPushed(c) \/ ReadProcessed(c) \/ Adjust(c)
      PROVE  pc'[Main] = pc[Main] /\ UNCHANGED <<failures, idleTimeout>>
  BY <1>0, <1>4 DEF RunBegin, CountPushed, ReadProcessed, Adjust, Goto
<1>5. ASSUME NEW c \in Clients, GrowLocked(c) \/ ShrinkReap(c)
      PROVE  pc'[Main] = pc[Main] /\ UNCHANGED <<failures, idleTimeout>>
  BY <1>0, <1>5 DEF GrowLocked, ShrinkReap
<1>6. ASSUME NEW c \in Clients, StartThread(c) \/ StoreHandle(c) \/ StartFails(c)
      PROVE  pc'[Main] = pc[Main] /\ failures' >= failures /\ idleTimeout' = idleTimeout
  <2>1. pc[c] = "start" => context[c] # Main
    BY <1>0 DEF ContextInv
  <2> QED BY <1>0, <1>6, <2>1 DEF StartThread, StoreHandle, StartFails, Goto
<1>7. ASSUME NEW c \in Clients, ShrinkPush(c) \/ ShrinkHandOver(c) \/ ShrinkCount(c)
      PROVE  pc'[Main] = pc[Main] /\ UNCHANGED <<failures, idleTimeout>>
  BY <1>0, <1>7 DEF ShrinkPush, ShrinkLock, ShrinkTry, Refused, ShrinkHandOver, ShrinkCount, Goto
<1>8. CASE DestroyBegin \/ SendPill \/ PillSent \/ JoinAll
  BY <1>0, <1>8 DEF DestroyBegin, SendPill, PillSent, JoinAll, Goto
<1> QED
  BY <1>0, <1>1, <1>2, <1>3, <1>4, <1>5, <1>6, <1>7, <1>8, Steps

\* What a step does to the count while the pool is in use.
LEMMA CountSteps ==
  ASSUME TypeInv, JobsHeld, ContextInv, OwnInv, [Next]_vars, pc'[Main] = "idle", failures' = 0
  PROVE  \/ UNCHANGED CountVars
         \/ \E t \in Contexts : /\ qHead \in PillNodes /\ PillNodes' = PillNodes \ {qHead}
                                /\ t \notin PillWorkers /\ PillWorkers' = PillWorkers \cup {t}
                                /\ UNCHANGED <<Usable, Counting, threadCount>>
         \/ \E w \in Contexts : /\ w \in PillWorkers /\ PillWorkers' = PillWorkers \ {w}
                                /\ w \in Usable /\ Usable' = Usable \ {w}
                                /\ UNCHANGED <<PillNodes, Counting, threadCount>>
         \/ \E x \in Contexts : /\ x \notin Usable /\ Usable' = Usable \cup {x}
                                /\ threadCount' = threadCount + 1
                                /\ UNCHANGED <<PillNodes, PillWorkers, Counting>>
         \/ \E c \in Clients : /\ node[c] \notin PillNodes /\ PillNodes' = PillNodes \cup {node[c]}
                               /\ c \notin Counting /\ Counting' = Counting \cup {c}
                               /\ UNCHANGED <<PillWorkers, Usable, threadCount>>
         \/ \E c \in Clients : /\ c \in Counting /\ Counting' = Counting \ {c}
                               /\ threadCount' = threadCount - 1
                               /\ UNCHANGED <<PillNodes, PillWorkers, Usable>>
<1> USE Values, ThreadKinds DEF contextVars, queueVars, counterVars, PillNodes, PillWorkers, Usable,
      Counting, CountVars
<1>0. /\ pc \in [AllThreads -> ClientStates \cup MainStates \cup WorkerStates]
      /\ job \in [AllThreads -> Filled \cup {NoJob}]
      /\ nodes \in [Slots -> Filled \cup {Free, Claimed, Taken}]
      /\ node \in [AllThreads -> Slots]
      /\ qTail \in Slots /\ qHead \in Slots
      /\ Jobs \subseteq Filled /\ Pill \in Filled
      /\ calls \in 0 .. MaxJobs
      /\ threads \in SUBSET Contexts /\ terminated \in SUBSET Contexts
      /\ context \in [Clients -> Contexts \cup {NoContext}]
      /\ failures \in Nat /\ threadCount \in Int
  BY DEF TypeInv, Filled
<1>1. pc[Main] = "idle" /\ failures = 0
  BY <1>0, MainLeaves
<1>2. CASE Quiet
  BY <1>0, <1>2 DEF Quiet, Trying, Before, After
<1>3. ASSUME NEW t \in Contexts, TryOk(t), nodes[qHead] = Pill
      PROVE  /\ qHead \in PillNodes /\ PillNodes' = PillNodes \ {qHead}
             /\ t \notin PillWorkers /\ PillWorkers' = PillWorkers \cup {t}
             /\ UNCHANGED <<Usable, Counting, threadCount>>
  <2>1. job[t] = NoJob
    BY <1>3 DEF TryOk, JobsHeld, Carrying, After
  <2> QED BY <1>0, <1>3, <2>1 DEF TryOk, Claim, Ready, ReadyNode, NextNode
<1>4. ASSUME NEW t \in Contexts, TryOk(t), nodes[qHead] # Pill PROVE UNCHANGED CountVars
  <2>1. job[t] = NoJob
    BY <1>4 DEF TryOk, JobsHeld, Carrying, After
  <2> QED BY <1>0, <1>4, <2>1 DEF TryOk, Claim, Ready, ReadyNode, NextNode
<1>5. ASSUME NEW t \in Callers, TryOk(t) PROVE UNCHANGED CountVars
  BY <1>0, <1>5 DEF TryOk, Claim, Ready, ReadyNode, NextNode
<1>6. ASSUME NEW t \in AllThreads, Handed(t) PROVE UNCHANGED CountVars
  <2>1. nodes[node[t]] # Pill
    BY <1>0, <1>6 DEF Handed, Goto, OwnInv, Owner
  <2>2. t # Main
    BY <1>1, <1>6 DEF Handed, Goto
  <2>3. t \notin Contexts => job[t] # Pill
    BY <1>6, <2>2 DEF JobsHeld, Handed, Goto, MoveStates, Before
  <2> QED BY <1>0, <1>6, <2>1, <2>3 DEF Handed, HandOver, Goto
<1>7. ASSUME NEW w \in Contexts, Execute(w) \/ CountProcessed(w) PROVE UNCHANGED CountVars
  <2>1. job[w] # Pill
    BY <1>7 DEF Execute, CountProcessed, Goto, JobsHeld
  <2> QED BY <1>0, <1>7, <2>1 DEF Execute, CountProcessed, Goto
<1>8. ASSUME NEW w \in Contexts, Exit(w)
      PROVE  /\ w \in PillWorkers /\ PillWorkers' = PillWorkers \ {w}
             /\ w \in Usable /\ Usable' = Usable \ {w}
             /\ UNCHANGED <<PillNodes, Counting, threadCount>>
  <2>1. w \in threads \ terminated
    BY <1>8 DEF Exit, Goto, ContextInv, Alive
  <2> QED BY <1>0, <1>8, <2>1 DEF Exit, Goto
<1>9. ASSUME NEW c \in Clients, RunBegin(c) \/ CountPushed(c) \/ ReadProcessed(c) \/ Adjust(c)
      PROVE  UNCHANGED CountVars
  BY <1>0, <1>9 DEF RunBegin, CountPushed, ReadProcessed, Adjust, Goto
<1>10. ASSUME NEW c \in Clients, GrowLocked(c), threadCount < MaxThreads
       PROVE  \E x \in Contexts : /\ x \notin Usable /\ Usable' = Usable \cup {x}
                                  /\ threadCount' = threadCount + 1
                                  /\ UNCHANGED <<PillNodes, PillWorkers, Counting>>
  BY <1>0, <1>10 DEF GrowLocked, Reaped
<1>11. ASSUME NEW c \in Clients, GrowLocked(c), ~(threadCount < MaxThreads) PROVE UNCHANGED CountVars
  BY <1>0, <1>11 DEF GrowLocked, Reaped
<1>12. ASSUME NEW c \in Clients, ShrinkReap(c) PROVE UNCHANGED CountVars
  BY <1>0, <1>12 DEF ShrinkReap, Reaped
<1>13. ASSUME NEW c \in Clients, StartThread(c) \/ StoreHandle(c) PROVE UNCHANGED CountVars
  <2>1. pc[c] = "start" => context[c] \in Contexts
    BY <1>0 DEF ContextInv
  <2> QED BY <1>0, <1>13, <2>1 DEF StartThread, StoreHandle, Goto
<1>14. \A c \in Clients : ~StartFails(c)
  BY <1>0, <1>1 DEF StartFails
<1>15. ASSUME NEW c \in Clients, ShrinkPush(c) PROVE UNCHANGED CountVars
  BY <1>0, <1>15 DEF ShrinkPush, ShrinkLock, ShrinkTry, Refused, Claim, Ready, ReadyNode, NextNode, Goto
<1>16. ASSUME NEW c \in Clients, ShrinkHandOver(c)
       PROVE  /\ node[c] \notin PillNodes /\ PillNodes' = PillNodes \cup {node[c]}
              /\ c \notin Counting /\ Counting' = Counting \cup {c}
              /\ UNCHANGED <<PillWorkers, Usable, threadCount>>
  <2>1. nodes[node[c]] = Claimed
    BY <1>16 DEF ShrinkHandOver, Goto, OwnInv, Owner
  <2> QED BY <1>0, <1>16, <2>1 DEF ShrinkHandOver, Goto
<1>17. ASSUME NEW c \in Clients, ShrinkCount(c)
       PROVE  /\ c \in Counting /\ Counting' = Counting \ {c}
              /\ threadCount' = threadCount - 1
              /\ UNCHANGED <<PillNodes, PillWorkers, Usable>>
  BY <1>0, <1>17 DEF ShrinkCount, Goto
<1>18. ~(DestroyBegin \/ SendPill \/ PillSent \/ JoinAll)
  BY <1>0, <1>1 DEF DestroyBegin, SendPill, PillSent, JoinAll, Goto
<1> HIDE DEF PillNodes, PillWorkers, Usable, Counting, CountVars
<1> QED
  BY <1>2, <1>3, <1>4, <1>5, <1>6, <1>7, <1>8, <1>9, <1>10, <1>11, <1>12, <1>13, <1>14, <1>15,
     <1>16, <1>17, <1>18, Steps

\* Every step keeps the count exact.
LEMMA CountStep ==
  TypeInv /\ TypeInv' /\ JobsHeld /\ ContextInv /\ OwnInv /\ ThreadCountExact /\ [Next]_vars
    => ThreadCountExact'
<1> SUFFICES ASSUME TypeInv, TypeInv', JobsHeld, ContextInv, OwnInv, ThreadCountExact, [Next]_vars,
                    pc'[Main] = "idle", failures' = 0
             PROVE  threadCount' + (Cardinality(PillNodes') + Cardinality(PillWorkers'))
                      = Cardinality(Usable') + Cardinality(Counting')
  BY DEF ThreadCountExact, PillsOnTheWay, PillNodes, PillWorkers, Usable, Counting
<1>1. pc[Main] = "idle" /\ failures = 0
  BY MainLeaves DEF TypeInv
<1>2. threadCount + (Cardinality(PillNodes) + Cardinality(PillWorkers))
        = Cardinality(Usable) + Cardinality(Counting)
  BY <1>1 DEF ThreadCountExact, PillsOnTheWay, PillNodes, PillWorkers, Usable, Counting
<1>3. threadCount \in Int
  BY DEF TypeInv
<1>4. CASE UNCHANGED CountVars
  BY <1>2, <1>4 DEF CountVars
<1>5. ASSUME NEW t \in Contexts, qHead \in PillNodes, PillNodes' = PillNodes \ {qHead},
             t \notin PillWorkers, PillWorkers' = PillWorkers \cup {t},
             UNCHANGED <<Usable, Counting, threadCount>>
      PROVE  threadCount' + (Cardinality(PillNodes') + Cardinality(PillWorkers'))
               = Cardinality(Usable') + Cardinality(Counting')
  <2>1. Cardinality(PillNodes') = Cardinality(PillNodes) - 1
    BY <1>5, CountFinite, FS_RemoveElement
  <2>2. Cardinality(PillWorkers') = Cardinality(PillWorkers) + 1
    BY <1>5, CountFinite, FS_AddElement
  <2> QED BY <1>2, <1>3, <1>5, <2>1, <2>2, CountFinite
<1>6. ASSUME NEW w \in Contexts, w \in PillWorkers, PillWorkers' = PillWorkers \ {w},
             w \in Usable, Usable' = Usable \ {w}, UNCHANGED <<PillNodes, Counting, threadCount>>
      PROVE  threadCount' + (Cardinality(PillNodes') + Cardinality(PillWorkers'))
               = Cardinality(Usable') + Cardinality(Counting')
  <2>1. Cardinality(PillWorkers') = Cardinality(PillWorkers) - 1
    BY <1>6, CountFinite, FS_RemoveElement
  <2>2. Cardinality(Usable') = Cardinality(Usable) - 1
    BY <1>6, CountFinite, FS_RemoveElement
  <2> QED BY <1>2, <1>3, <1>6, <2>1, <2>2, CountFinite
<1>7. ASSUME NEW x \in Contexts, x \notin Usable, Usable' = Usable \cup {x},
             threadCount' = threadCount + 1, UNCHANGED <<PillNodes, PillWorkers, Counting>>
      PROVE  threadCount' + (Cardinality(PillNodes') + Cardinality(PillWorkers'))
               = Cardinality(Usable') + Cardinality(Counting')
  <2>1. Cardinality(Usable') = Cardinality(Usable) + 1
    BY <1>7, CountFinite, FS_AddElement
  <2> QED BY <1>2, <1>3, <1>7, <2>1, CountFinite
<1>8. ASSUME NEW c \in Clients, node[c] \notin PillNodes, PillNodes' = PillNodes \cup {node[c]},
             c \notin Counting, Counting' = Counting \cup {c},
             UNCHANGED <<PillWorkers, Usable, threadCount>>
      PROVE  threadCount' + (Cardinality(PillNodes') + Cardinality(PillWorkers'))
               = Cardinality(Usable') + Cardinality(Counting')
  <2>1. Cardinality(PillNodes') = Cardinality(PillNodes) + 1
    BY <1>8, CountFinite, FS_AddElement
  <2>2. Cardinality(Counting') = Cardinality(Counting) + 1
    BY <1>8, CountFinite, FS_AddElement
  <2> QED BY <1>2, <1>3, <1>8, <2>1, <2>2, CountFinite
<1>9. ASSUME NEW c \in Clients, c \in Counting, Counting' = Counting \ {c},
             threadCount' = threadCount - 1, UNCHANGED <<PillNodes, PillWorkers, Usable>>
      PROVE  threadCount' + (Cardinality(PillNodes') + Cardinality(PillWorkers'))
               = Cardinality(Usable') + Cardinality(Counting')
  <2>1. Cardinality(Counting') = Cardinality(Counting) - 1
    BY <1>9, CountFinite, FS_RemoveElement
  <2> QED BY <1>2, <1>3, <1>9, <2>1, CountFinite
<1> QED BY <1>4, <1>5, <1>6, <1>7, <1>8, <1>9, CountSteps

\* While the pool is in use and every thread could be started, _threadCount is the
\* number of workers that run() can rely on (Future.cpp 120-124, 138-142).
THEOREM CountIsExact == Spec => []ThreadCountExact
<1>1. Init => ThreadCountExact
  <2> SUFFICES ASSUME Init PROVE ThreadCountExact
    OBVIOUS
  <2>1. PICK W \in SUBSET Contexts :
          threadCount = Cardinality(W) /\ threads = W /\
          pc = [t \in AllThreads |-> CASE t \in W -> "asleep"
                                       [] t \in Contexts \ W -> "none"
                                       [] OTHER -> "idle"]
    BY DEF Init
  <2>2. {i \in DOMAIN nodes : nodes[i] = Pill} = {}
    BY Values DEF Init, Filled
  <2>3. {w \in Contexts : job[w] = Pill} = {}
    BY Values, ThreadKinds DEF Init
  <2>4. {c \in Clients : pc[c] = "shrinkCount"} = {}
    BY <2>1, ThreadKinds
  <2>5. threads \ terminated = W
    BY <2>1 DEF Init
  <2>6. Cardinality(W) \in Nat
    BY PoolAssumption, FS_Subset, FS_CardinalityType
  <2>7. Cardinality({}) = 0
    BY FS_EmptySet
  <2>8. PillsOnTheWay = 0
    <3>1. PillsOnTheWay = Cardinality({}) + Cardinality({})
      BY <2>2, <2>3, Zenon DEF PillsOnTheWay
    <3> QED BY <2>7, <3>1
  <2> QED BY <2>1, <2>4, <2>5, <2>6, <2>7, <2>8 DEF ThreadCountExact
<1>2. CoreInv /\ CoreInv' /\ ThreadCountExact /\ [Next]_vars => ThreadCountExact'
  BY CountStep DEF CoreInv
<1> QED BY <1>1, <1>2, CoreInvariance, PTL DEF Spec

-----------------------------------------------------------------------------
(* The destructor, and a pool that does not shrink *)

\* When the destructor has begun no run() is active, and when it has ended no worker
\* is: a worker whose handle was not stored yet cannot have been missed by join().
LEMMA ShutdownStep ==
  TypeInv /\ JobsHeld /\ ContextInv /\ ShutdownInv /\ [Next]_vars => ShutdownInv'
<1> SUFFICES ASSUME TypeInv, JobsHeld, ContextInv, ShutdownInv, [Next]_vars PROVE ShutdownInv'
  OBVIOUS
<1> USE ThreadKinds DEF Alive
<1>0. /\ pc \in [AllThreads -> ClientStates \cup MainStates \cup WorkerStates]
      /\ threads \in SUBSET Contexts /\ terminated \in SUBSET Contexts
      /\ context \in [Clients -> Contexts \cup {NoContext}]
  BY DEF TypeInv
<1>1. CASE Quiet
  BY <1>0, <1>1 DEF ShutdownInv, Quiet, Trying, Before, After
<1>2. ASSUME NEW t \in AllThreads, TryOk(t) \/ Handed(t) PROVE ShutdownInv'
  <2>1. pc[t] # "idle" /\ pc[t] # "deleted" /\ pc' = [pc EXCEPT ![t] = pc'[t]]
        /\ pc[t] # "none" /\ pc[t] # "ended" /\ pc'[t] \in {"handOver", "setState"}
    BY <1>0, <1>2 DEF TryOk, Handed, Goto
  <2> QED BY <1>0, <2>1 DEF ShutdownInv
<1>3. ASSUME NEW w \in Contexts, Execute(w) \/ CountProcessed(w) \/ Exit(w) PROVE ShutdownInv'
  BY <1>0, <1>3 DEF ShutdownInv, Execute, CountProcessed, Exit, Goto
<1>4. ASSUME NEW c \in Clients, RunBegin(c) \/ CountPushed(c) \/ ReadProcessed(c) \/ Adjust(c)
      PROVE  ShutdownInv'
  BY <1>0, <1>4 DEF ShutdownInv, RunBegin, CountPushed, ReadProcessed, Adjust, Goto
<1>5. ASSUME NEW c \in Clients, GrowLocked(c) \/ ShrinkReap(c) PROVE ShutdownInv'
  BY <1>0, <1>5 DEF ShutdownInv, GrowLocked, ShrinkReap
<1>6. ASSUME NEW c \in Clients, StartThread(c) \/ StoreHandle(c) \/ StartFails(c) PROVE ShutdownInv'
  <2>1. pc[c] # "idle" /\ pc[Main] = "idle" /\ pc'[Main] = "idle"
    BY <1>0, <1>6 DEF ShutdownInv, ContextInv, StartThread, StoreHandle, StartFails, Goto
  <2> QED BY <2>1 DEF ShutdownInv
<1>7. ASSUME NEW c \in Clients, ShrinkPush(c) \/ ShrinkHandOver(c) \/ ShrinkCount(c)
      PROVE  ShutdownInv'
  BY <1>0, <1>7 DEF ShutdownInv, ShrinkPush, ShrinkLock, ShrinkTry, Refused, ShrinkHandOver, ShrinkCount, Goto
<1>8. CASE DestroyBegin \/ SendPill \/ PillSent
  BY <1>0, <1>8 DEF ShutdownInv, DestroyBegin, SendPill, PillSent, Goto
<1>9. CASE JoinAll
  <2>1. \A w \in Contexts : ~Alive(w)
    BY <1>9 DEF ShutdownInv, ContextInv, JoinAll, Goto
  <2> QED BY <1>0, <1>9, <2>1 DEF ShutdownInv, JoinAll, Goto
<1> QED BY <1>1, <1>2, <1>3, <1>4, <1>5, <1>6, <1>7, <1>8, <1>9, Steps

\* How the rank of a node changes when the head moves on.
LEMMA RankPop ==
  ASSUME qHead \in Slots, qHead' = (qHead + 1) % QueueSize
  PROVE  /\ \A i \in Slots : i # qHead => Rank(i)' = Rank(i) - 1
         /\ Rank(qHead) = 0
         /\ \A i \in Slots : Rank(i) \in Nat
BY PoolAssumption, Successor DEF Rank, Slots

\* Steps that bring no job and no pill into the queue, take none out, and end no worker
\* that had none.
SameCalm ==
  /\ UNCHANGED <<idleTimeout, qHead>>
  /\ \A i \in Slots : nodes'[i] = nodes[i] \/ nodes'[i] \notin Filled
  /\ \A w \in Contexts : job'[w] = Pill \/ pc'[w] = "ended" => job[w] = Pill \/ pc[w] = "ended"
  /\ pc'[Main] = "handOver" => pc[Main] = "handOver" /\ node'[Main] = node[Main]
  /\ \A c \in Clients : pc'[c] \notin ShrinkStates

\* In a pool that does not shrink, the other steps are a try that succeeds and a node handed over.
LEMMA CalmSteps ==
  ASSUME TypeInv, JobsHeld, ContextInv, OwnInv, CalmInv, ~idleTimeout, [Next]_vars
  PROVE \/ SameCalm
        \/ \E t \in Contexts \cup {Main} : TryOk(t)
        \/ \E t \in Callers : Handed(t)
<1> USE Values, ThreadKinds DEF contextVars, queueVars, ShrinkStates
<1>0. /\ pc \in [AllThreads -> ClientStates \cup MainStates \cup WorkerStates]
      /\ job \in [AllThreads -> Filled \cup {NoJob}]
      /\ nodes \in [Slots -> Filled \cup {Free, Claimed, Taken}]
      /\ node \in [AllThreads -> Slots]
      /\ threads \in SUBSET Contexts /\ terminated \in SUBSET Contexts
      /\ context \in [Clients -> Contexts \cup {NoContext}]
      /\ qTail \in Slots /\ calls \in 0 .. MaxJobs
  BY DEF TypeInv
<1>c. \A c \in Clients : pc[c] \notin ShrinkStates
  BY DEF CalmInv
<1>1. Quiet => SameCalm
  BY <1>0, <1>c DEF Quiet, SameCalm, Trying, Before, After
<1>2. ASSUME NEW t \in Clients, TryOk(t) PROVE SameCalm
  BY <1>0, <1>c, <1>2 DEF TryOk, Claim, SameCalm
<1>3. ASSUME NEW t \in Contexts, Handed(t) PROVE SameCalm
  BY <1>0, <1>c, <1>3 DEF Handed, HandOver, Goto, SameCalm
<1>4. ASSUME NEW w \in Contexts, Execute(w) \/ CountProcessed(w) \/ Exit(w) PROVE SameCalm
  BY <1>0, <1>c, <1>4 DEF Execute, CountProcessed, Exit, Goto, SameCalm
<1>5. ASSUME NEW c \in Clients, RunBegin(c) \/ CountPushed(c) \/ ReadProcessed(c) \/ Adjust(c)
      PROVE  SameCalm
  BY <1>0, <1>c, <1>5 DEF RunBegin, CountPushed, ReadProcessed, Adjust, Shrink, Goto, SameCalm
<1>6. ASSUME NEW c \in Clients, GrowLocked(c) PROVE SameCalm
  BY <1>0, <1>c, <1>6 DEF GrowLocked, SameCalm
<1>7. ASSUME NEW c \in Clients, StartThread(c) \/ StoreHandle(c) \/ StartFails(c) PROVE SameCalm
  <2>1. pc[c] = "start" => context[c] \in Contexts
    BY <1>0 DEF ContextInv
  <2> QED BY <1>0, <1>c, <1>7, <2>1 DEF StartThread, StoreHandle, StartFails, Goto, SameCalm
<1>8. \A c \in Clients : ~(ShrinkPush(c) \/ ShrinkHandOver(c) \/ ShrinkCount(c) \/ ShrinkReap(c))
  BY <1>c DEF ShrinkPush, ShrinkLock, ShrinkTry, Refused, ShrinkHandOver, ShrinkCount, ShrinkReap, Goto
<1>9. DestroyBegin \/ SendPill \/ PillSent \/ JoinAll => SameCalm
  BY <1>0, <1>c DEF DestroyBegin, SendPill, PillSent, JoinAll, Goto, SameCalm
<1> QED BY <1>1, <1>2, <1>3, <1>4, <1>5, <1>6, <1>7, <1>8, <1>9, Steps

\* In a pool that does not shrink the jobs {0, 0} come from the destructor alone, after
\* every other job, and no worker takes one while another job is queued.
LEMMA CalmStep ==
  TypeInv /\ JobsHeld /\ ContextInv /\ OwnInv /\ RingInv /\ ShutdownInv /\ CalmInv /\ [Next]_vars
    => CalmInv'
<1> SUFFICES ASSUME TypeInv, JobsHeld, ContextInv, OwnInv, RingInv, ShutdownInv, CalmInv,
                    [Next]_vars
             PROVE  CalmInv'
  OBVIOUS
<1>i. idleTimeout' = idleTimeout
  BY MainLeaves
<1> SUFFICES ASSUME ~idleTimeout PROVE CalmInv'
  BY <1>i DEF CalmInv
<1> USE Values, ThreadKinds
<1>0. /\ pc \in [AllThreads -> ClientStates \cup MainStates \cup WorkerStates]
      /\ job \in [AllThreads -> Filled \cup {NoJob}]
      /\ nodes \in [Slots -> Filled \cup {Free, Claimed, Taken}]
      /\ node \in [AllThreads -> Slots]
      /\ qTail \in Slots /\ qHead \in Slots
      /\ Jobs \subseteq Filled /\ Pill \in Filled
  BY DEF TypeInv, Filled
<1>m. pc[Main] # "idle" => pc'[Main] # "idle"
  BY MainLeaves
<1>1. CASE SameCalm
  <2>1. \A i \in Slots : Rank(i)' = Rank(i)
    BY <1>1 DEF SameCalm, Rank
  <2>2. \A i \in Slots : nodes'[i] \in Filled => nodes'[i] = nodes[i]
    BY <1>1 DEF SameCalm
  <2> QED BY <1>0, <1>1, <1>m, <2>1, <2>2 DEF CalmInv, SameCalm
<1>2. ASSUME NEW t \in Contexts, TryOk(t) PROVE CalmInv'
  <2>1. /\ nodes' = [nodes EXCEPT ![qHead] = Taken] /\ nodes[qHead] \in Filled
        /\ job' = [job EXCEPT ![t] = nodes[qHead]]
        /\ node' = [node EXCEPT ![t] = qHead]
        /\ pc' = [pc EXCEPT ![t] = "handOver"]
        /\ qHead' = (qHead + 1) % QueueSize
    BY <1>2 DEF TryOk, Claim, Ready, ReadyNode, NextNode, Filled
  <2>2. /\ \A i \in Slots : i # qHead => Rank(i)' = Rank(i) - 1
        /\ Rank(qHead) = 0
        /\ \A i \in Slots : Rank(i) \in Nat
    BY <1>0, <2>1, RankPop
  <2>3. \A i \in Slots : nodes'[i] \in Filled => nodes'[i] = nodes[i] /\ i # qHead
    BY <1>0, <2>1
  <2>4. \A u \in Callers : pc'[u] = pc[u] /\ node'[u] = node[u]
    BY <1>0, <2>1
  <2>5. \A w \in Contexts : job'[w] = Pill \/ pc'[w] = "ended" =>
          job[w] = Pill \/ pc[w] = "ended" \/ nodes[qHead] = Pill
    BY <1>0, <2>1
  <2>6. nodes[qHead] = Pill => \A i \in Slots : nodes[i] \notin Jobs
    BY <1>0, <2>2 DEF CalmInv
  <2>7. pc[Main] = "handOver" => node[Main] # qHead
    BY <1>0, <2>1 DEF OwnInv, Owner
  <2>8. \A c \in Clients : pc'[c] \notin ShrinkStates
    BY <2>4 DEF CalmInv
  <2>9. (\E i \in Slots : nodes'[i] = Pill) \/ (\E w \in Contexts : job'[w] = Pill \/ pc'[w] = "ended")
           => pc'[Main] # "idle"
    BY <1>0, <2>3, <2>4, <2>5 DEF CalmInv
  <2>10. \A w \in Contexts : job'[w] = Pill \/ pc'[w] = "ended" =>
           \A i \in Slots : nodes'[i] \notin Jobs
    BY <1>0, <2>3, <2>5, <2>6 DEF CalmInv
  <2>11. \A i, k \in Slots : nodes'[i] = Pill /\ nodes'[k] \in Jobs => Rank(k)' < Rank(i)'
    <3> SUFFICES ASSUME NEW i \in Slots, NEW k \in Slots, nodes'[i] = Pill, nodes'[k] \in Jobs
                 PROVE  Rank(k)' < Rank(i)'
      OBVIOUS
    <3>1. nodes[i] = Pill /\ nodes[k] \in Jobs /\ i # qHead /\ k # qHead
      BY <1>0, <2>3
    <3>2. Rank(k) < Rank(i)
      BY <3>1 DEF CalmInv
    <3> QED BY <2>2, <3>1, <3>2
  <2>12. ASSUME pc'[Main] = "handOver", NEW k \in Slots, nodes'[k] \in Jobs, NEW i \in Slots,
                i = node[Main]
         PROVE  Rank(k)' < Rank(i)'
    <3>1. nodes[k] \in Jobs /\ k # qHead /\ i # qHead
      BY <1>0, <2>3, <2>4, <2>7, <2>12
    <3>2. Rank(k) < Rank(i)
      BY <2>4, <2>12, <3>1 DEF CalmInv
    <3> QED BY <2>2, <3>1, <3>2
  <2>13. pc'[Main] = "handOver" =>
           \A k \in Slots : nodes'[k] \in Jobs => Rank(k)' < Rank(node[Main])'
    BY <1>0, <2>4, <2>12 DEF Rank
  <2> QED BY <2>8, <2>9, <2>10, <2>11, <2>13 DEF CalmInv
<1>3. CASE TryOk(Main)
  <2>1. /\ nodes' = [nodes EXCEPT ![qTail] = Claimed] /\ nodes[qTail] = Free
        /\ node' = [node EXCEPT ![Main] = qTail]
        /\ pc' = [pc EXCEPT ![Main] = "handOver"]
        /\ UNCHANGED <<job, qHead>>
    BY <1>3 DEF TryOk, Claim, Ready, ReadyNode, NextNode
  <2>2. \A i \in Slots : Rank(i)' = Rank(i)
    BY <2>1 DEF Rank
  <2>3. \A i \in Slots : nodes'[i] \in Filled => nodes'[i] = nodes[i]
    BY <1>0, <2>1
  <2>4. \A k \in Slots : Occupied(k) => Rank(k) < Rank(qTail)
    <3>1. ~Occupied(qTail)
      BY <2>1 DEF Occupied
    <3> QED BY PoolAssumption, <1>0, <3>1 DEF RingInv, Rank, Slots
  <2>5. \A k \in Slots : nodes[k] \in Jobs => Rank(k) < Rank(qTail)
    BY <1>0, <2>4 DEF Occupied
  <2>6. \A k \in Slots : nodes'[k] \in Jobs => Rank(k)' < Rank(node[Main])'
    <3>1. node'[Main] = qTail
      BY <1>0, <2>1
    <3>2. qHead' = qHead
      BY <2>1
    <3> QED BY <1>0, <2>3, <2>5, <3>1, <3>2 DEF Rank
  <2> QED BY <1>0, <2>1, <2>2, <2>3, <2>6 DEF CalmInv
<1>4. ASSUME NEW t \in Clients, Handed(t) PROVE CalmInv'
  <2>1. /\ nodes' = [nodes EXCEPT ![node[t]] = job[t]] /\ job[t] \in Jobs
        /\ pc' = [pc EXCEPT ![t] = "setState"]
        /\ UNCHANGED job
    BY <1>4 DEF Handed, HandOver, Goto, JobsHeld, MoveStates, Before
  <2>2. pc[Main] = "idle"
    BY <1>4 DEF Handed, Goto, ShutdownInv
  <2>3. /\ \A i \in Slots : nodes'[i] # Pill
        /\ \A w \in Contexts : job'[w] # Pill /\ pc'[w] # "ended"
    BY <1>0, <2>1, <2>2 DEF CalmInv
  <2>4. pc'[Main] = "idle" /\ \A c \in Clients : pc'[c] \notin ShrinkStates
    BY <1>0, <2>1, <2>2 DEF CalmInv, ShrinkStates
  <2> QED BY <2>3, <2>4 DEF CalmInv
<1>5. CASE Handed(Main)
  <2>1. /\ nodes' = [nodes EXCEPT ![node[Main]] = Pill]
        /\ pc' = [pc EXCEPT ![Main] = "setState"] /\ pc[Main] = "handOver"
        /\ UNCHANGED <<job, qHead>>
    BY <1>5 DEF Handed, HandOver, Goto, JobsHeld, MoveStates, Before
  <2>2. \A i \in Slots : Rank(i)' = Rank(i)
    BY <2>1 DEF Rank
  <2>3. \A i \in Slots : /\ nodes'[i] \in Jobs => nodes[i] \in Jobs
                         /\ nodes'[i] = Pill => nodes[i] = Pill \/ i = node[Main]
    BY <1>0, <2>1
  <2> QED BY <1>0, <2>1, <2>2, <2>3 DEF CalmInv
<1> QED BY <1>1, <1>2, <1>3, <1>4, <1>5, CalmSteps

\* Until the first worker exists every job is pushed by a run() that will find no idle
\* thread and go on to start one.
LEMMA NoWorkerStep ==
  TypeInv /\ JobsHeld /\ ContextInv /\ OwnInv /\ ShutdownInv /\ CalmInv /\ NoWorkerInv /\ [Next]_vars
    => NoWorkerInv'
<1> SUFFICES ASSUME TypeInv, JobsHeld, ContextInv, OwnInv, ShutdownInv, CalmInv, NoWorkerInv,
                    [Next]_vars
             PROVE  NoWorkerInv'
  OBVIOUS
<1>i. idleTimeout' = idleTimeout /\ failures' >= failures
  BY MainLeaves
<1>0. /\ pc \in [AllThreads -> ClientStates \cup MainStates \cup WorkerStates]
      /\ job \in [AllThreads -> Filled \cup {NoJob}]
      /\ nodes \in [Slots -> Filled \cup {Free, Claimed, Taken}]
      /\ node \in [AllThreads -> Slots]
      /\ threads \in SUBSET Contexts /\ terminated \in SUBSET Contexts
      /\ busy \in [Clients -> Int]
      /\ qTail \in Slots /\ qHead \in Slots
      /\ failures \in Nat /\ pushed \in Nat /\ processed \in Nat /\ threadCount \in Int
      /\ MaxThreads \in Nat /\ MaxThreads >= 1
      /\ Jobs \subseteq Filled
  BY PoolAssumption DEF TypeInv, Filled
<1> SUFFICES ASSUME ~idleTimeout, failures' = 0, threads' = {}
             PROVE  /\ threadCount' = 0 /\ processed' = 0
                    /\ \A c \in Clients : pc'[c] \in {"counted", "adjust"} => busy'[c] >= 1
                    /\ (\E i \in Slots : nodes'[i] \in Jobs) => \E c \in Clients : pc'[c] \in Going
  BY <1>i DEF NoWorkerInv
<1> DEFINE Goal == /\ threadCount' = 0 /\ processed' = 0
                   /\ \A c \in Clients : pc'[c] \in {"counted", "adjust"} => busy'[c] >= 1
                   /\ (\E i \in Slots : nodes'[i] \in Jobs) => \E c \in Clients : pc'[c] \in Going
<1> USE Values, ThreadKinds DEF Going, After
<1>1. failures = 0
  BY <1>0, <1>i
<1>2. \A c \in Clients : pc[c] \notin ShrinkStates
  BY DEF CalmInv
<1>3. terminated # {} => \A c \in Clients : pc[c] = "idle"
  <2>1. \A w \in terminated : pc[w] = "ended"
    BY <1>0, <1>1 DEF ContextInv, Alive
  <2> QED BY <1>0, <2>1 DEF CalmInv, ShutdownInv
<1>4. threads = {}
  <2>1. ASSUME NEW c \in Clients, GrowLocked(c) PROVE threads = {}
    <3>1. terminated = {}
      BY <1>3, <2>1 DEF GrowLocked
    <3>2. threads \subseteq threads'
      BY <2>1, <3>1 DEF GrowLocked, Reaped
    <3> QED BY <3>2
  <2>2. \A c \in Clients : ~ShrinkReap(c)
    BY <1>2 DEF ShrinkReap, ShrinkStates
  <2>3. (\E w \in Contexts : Exit(w)) \/ (\E c \in Clients : StartThread(c) \/ StoreHandle(c) \/ StartFails(c))
          => threads' = threads
    BY DEF Exit, StartThread, StoreHandle, StartFails, contextVars
  <2> QED BY <2>1, <2>2, <2>3, SameContextsSteps DEF SameContexts
<1>5. /\ threadCount = 0 /\ processed = 0
      /\ \A c \in Clients : pc[c] \in {"counted", "adjust"} => busy[c] >= 1
      /\ (\E i \in Slots : nodes[i] \in Jobs) => \E c \in Clients : pc[c] \in Going
  BY <1>1, <1>4 DEF NoWorkerInv
<1>6. \A w \in Contexts : pc[w] \in {"none", "ended"}
  BY <1>4 DEF ContextInv, Alive
<1>7. CASE Quiet
  BY <1>5, <1>7 DEF Quiet, counterVars, localVars, queueVars, Trying, Before
<1>8. ASSUME NEW t \in AllThreads, TryOk(t) PROVE Goal
  <2>1. t \in Callers
    BY <1>6, <1>8 DEF TryOk
  <2> QED BY <1>0, <1>5, <1>8, <2>1 DEF TryOk, Claim, counterVars, localVars
<1>9. ASSUME NEW t \in AllThreads, Handed(t) PROVE Goal
  <2>1. CASE t \in Clients
    BY <1>0, <1>5, <1>9, <2>1 DEF Handed, Goto, counterVars, localVars
  <2>2. CASE t = Main
    <3>1. job[t] = Pill
      BY <1>9, <2>2 DEF Handed, Goto, JobsHeld, MoveStates, Before
    <3> QED BY <1>0, <1>5, <1>9, <2>2, <3>1 DEF Handed, HandOver, Goto, counterVars, localVars
  <2>3. CASE t \in Contexts
    BY <1>6, <1>9, <2>3 DEF Handed, Goto
  <2> QED BY <2>1, <2>2, <2>3
<1>10. \A w \in Contexts : ~(Execute(w) \/ CountProcessed(w) \/ Exit(w))
  BY <1>6 DEF Execute, CountProcessed, Exit, Goto
<1>11. ASSUME NEW c \in Clients, RunBegin(c) PROVE Goal
  BY <1>0, <1>5, <1>11 DEF RunBegin, Goto, queueVars, counterVars
<1>12. ASSUME NEW c \in Clients, CountPushed(c) PROVE Goal
  BY <1>0, <1>5, <1>12 DEF CountPushed, Goto, queueVars
<1>13. ASSUME NEW c \in Clients, ReadProcessed(c) PROVE Goal
  BY <1>0, <1>5, <1>13 DEF ReadProcessed, Goto, queueVars, counterVars
<1>14. ASSUME NEW c \in Clients, Adjust(c) PROVE Goal
  <2>1. Grow(c) /\ ~Shrink(c)
    BY <1>0, <1>5, <1>14 DEF Adjust, Goto, Grow, Shrink, Idle
  <2> QED BY <1>0, <1>5, <1>14, <2>1 DEF Adjust, Goto, queueVars, counterVars
<1>15. \A c \in Clients : ~GrowLocked(c)
  BY <1>0, <1>5 DEF GrowLocked
<1>16. \A c \in Clients : ~StartThread(c) /\ ~StartFails(c)
  BY <1>4 DEF StartThread, StartFails, Goto, ContextInv
<1>17. ASSUME NEW c \in Clients, StoreHandle(c) PROVE Goal
  BY <1>0, <1>5, <1>17 DEF StoreHandle, Return, Goto, queueVars, counterVars
<1>18. \A c \in Clients : ~(ShrinkPush(c) \/ ShrinkHandOver(c) \/ ShrinkCount(c) \/ ShrinkReap(c))
  BY <1>2 DEF ShrinkPush, ShrinkLock, ShrinkTry, Refused, ShrinkHandOver, ShrinkCount, ShrinkReap,
              Goto, ShrinkStates
<1>19. CASE DestroyBegin \/ SendPill \/ PillSent \/ JoinAll
  BY <1>0, <1>5, <1>19 DEF DestroyBegin, SendPill, PillSent, JoinAll, Goto, queueVars, counterVars,
                           localVars
<1> QED
  BY <1>7, <1>8, <1>9, <1>10, <1>11, <1>12, <1>13, <1>14, <1>15, <1>16, <1>17, <1>18, <1>19, Steps

\* Steps after which _enqueuedSignal, the threads that set it and the workers bound for
\* the queue are still there, and nothing new waits for them.
SameWake ==
  /\ sig'["enqueued"] = sig["enqueued"]
  /\ \A w \in Contexts : /\ Bound(w) => Bound(w)'
                         /\ pc'[w] = "asleep" => pc[w] = "asleep"
                         /\ Alive(w)' => Alive(w)
  /\ \A t \in Callers : /\ pc[t] = "setSignal" => pc'[t] = "setSignal"
                        /\ pc[t] = "broadcast" => pc'[t] = "broadcast"
                        /\ pc[t] \in {"handOver", "setState"} => pc'[t] \in {"handOver", "setState"}
  /\ \A i \in Slots : nodes'[i] \in Jobs => nodes[i] \in Jobs

\* A worker's step ends in a state in which it is bound for the queue, but for these three.
LEMMA WorkerBound ==
  ASSUME TypeInv, NEW w \in Contexts, Worker(w)
  PROVE  \/ Bound(w)'
         \/ TryFails(w) /\ pc[w] = "try2" /\ sig["enqueued"].state # 1
         \/ LoadState(w) /\ sig["enqueued"].state # 1
         \/ WaitSignal(w) /\ ~sig["enqueued"].signaled
         \/ Exit(w)
<1> USE ThreadKinds DEF Carrying, After
<1>0. pc \in [AllThreads -> ClientStates \cup MainStates \cup WorkerStates]
  BY DEF TypeInv
<1>1. CASE TryOk(w) \/ Handed(w)
  BY <1>0, <1>1 DEF TryOk, Handed, Goto, Bound
<1>2. CASE TryFails(w)
  BY <1>0, <1>2 DEF TryFails, Refused, Goto, Bound
<1>3. CASE SetState(w) \/ SetSignal(w) \/ Broadcast(w)
  BY <1>0, <1>3 DEF SetState, SetSignal, Broadcast, Goto, Bound
<1>4. CASE SwapState(w) \/ ResetSignal(w)
  BY <1>0, <1>4 DEF SwapState, ResetSignal, Goto, Bound
<1>5. CASE LoadState(w) \/ WaitSignal(w)
  BY <1>0, <1>5 DEF LoadState, WaitSignal, Goto, Bound, Awaits
<1>6. CASE Execute(w) \/ CountProcessed(w)
  BY <1>0, <1>6 DEF Execute, CountProcessed, Goto, Bound
<1> QED BY <1>1, <1>2, <1>3, <1>4, <1>5, <1>6 DEF Worker, Move

\* What a client's step does to the wakeups, in a pool that does not shrink.
LEMMA ClientWakes ==
  ASSUME TypeInv, JobsHeld, ContextInv, CalmInv, ~idleTimeout, NEW c \in Clients,
         RunBegin(c) \/ Run(c)
  PROVE  \/ SameWake
         \/ \E w \in Contexts : Bound(w)'
         \/ Handed(c) \/ SetState(c) \/ SetSignal(c) \/ Broadcast(c)
<1> USE ThreadKinds, Values DEF queueVars, Alive, Bound, Carrying, After
<1>0. /\ pc \in [AllThreads -> ClientStates \cup MainStates \cup WorkerStates]
      /\ nodes \in [Slots -> Filled \cup {Free, Claimed, Taken}]
      /\ sig \in [{"enqueued", "dequeued"} -> [state : {0, 1}, signaled : BOOLEAN]]
      /\ terminated \in SUBSET Contexts /\ threads \in SUBSET Contexts
      /\ qTail \in Slots
      /\ Jobs \subseteq Filled
  BY DEF TypeInv, Filled
<1>1. CASE TryOk(c)
  BY <1>0, <1>1 DEF TryOk, Claim, SameWake
<1>2. CASE TryFails(c)
  BY <1>0, <1>2 DEF TryFails, Refused, Goto, SameWake
<1>3. CASE SwapState(c) \/ ResetSignal(c)
  BY <1>0, <1>3 DEF SwapState, ResetSignal, Goto, Awaits, SameWake
<1>4. CASE LoadState(c) \/ WaitSignal(c)
  BY <1>0, <1>4 DEF LoadState, WaitSignal, Goto, SameWake
<1>5. CASE RunBegin(c) \/ CountPushed(c) \/ ReadProcessed(c) \/ Adjust(c)
  BY <1>0, <1>5 DEF RunBegin, CountPushed, ReadProcessed, Adjust, Goto, SameWake
<1>6. CASE GrowLocked(c)
  <2>1. \A w \in terminated : ~Alive(w)
    BY <1>0 DEF ContextInv
  <2> QED BY <1>0, <1>6, <2>1 DEF GrowLocked, SameWake
<1>7. CASE StartThread(c)
  <2>1. context[c] \in Contexts
    BY <1>0, <1>7 DEF ContextInv, StartThread
  <2>2. pc'[context[c]] = "try1"
    BY <1>0, <1>7, <2>1 DEF StartThread
  <2>3. \A w \in Contexts : pc'[w] = "try1" => Bound(w)'
    OBVIOUS
  <2> QED BY <2>1, <2>2, <2>3
<1>8. CASE StoreHandle(c) \/ StartFails(c)
  BY <1>0, <1>8 DEF StoreHandle, StartFails, Goto, SameWake
<1>9. ~(ShrinkPush(c) \/ ShrinkHandOver(c) \/ ShrinkCount(c) \/ ShrinkReap(c))
  BY DEF CalmInv, ShrinkPush, ShrinkLock, ShrinkTry, Refused, ShrinkHandOver, ShrinkCount,
         ShrinkReap, Goto, ShrinkStates
<1> QED BY <1>1, <1>2, <1>3, <1>4, <1>5, <1>6, <1>7, <1>8, <1>9 DEF Run, Move, ShrinkPush

\* A worker that finds the queue empty the second time, although a job is queued, was
\* beaten by a push that has still to set _enqueuedSignal.
LEMMA EmptyExcused ==
  ASSUME TypeInv, JobsHeld, OwnInv, RingInv, CalmInv, ~idleTimeout,
         NEW w \in Contexts, ~Ready(w) \/ StaleTicket(w),
         NEW i \in Slots, nodes[i] \in Jobs
  PROVE  \E t \in Callers : pc[t] \in {"handOver", "setState"}
<1> USE Values, ThreadKinds
<1>1. CASE StaleTicket(w)
  <2>1. PICK u \in Callers : pc[u] \in {"setState", "shrinkCount"}
    BY <1>1 DEF StaleTicket, Peers
  <2>2. CASE u \in Clients
    BY <2>1, <2>2 DEF CalmInv, ShrinkStates
  <2>3. CASE u = Main
    BY <2>1, <2>3 DEF JobsHeld, MainStates, MoveStates, Before, After
  <2> QED BY <2>1, <2>2, <2>3
<1>2. CASE ~Ready(w)
  <2>1. qHead \in Slots /\ qTail \in Slots /\ nodes \in [Slots -> Filled \cup {Free, Claimed, Taken}]
    BY DEF TypeInv
  <2>2. Occupied(i)
    BY DEF Occupied, Filled
  <2>3. Occupied(qHead)
    BY <2>1, <2>2 DEF RingInv, Slots
  <2>4. nodes[qHead] = Claimed
    BY <1>2, <2>3 DEF Occupied, Ready, ReadyNode, NextNode, Filled
  <2>5. PICK t \in Callers : Owner(t)
    BY <2>1, <2>4 DEF OwnInv
  <2>6. pc[t] # "shrinkHandOver"
    <3>1. CASE t \in Clients
      BY <3>1 DEF CalmInv, ShrinkStates
    <3>2. CASE t = Main
      BY <3>2 DEF JobsHeld, MainStates, MoveStates, Before, After
    <3> QED BY <3>1, <3>2
  <2> QED BY <2>5, <2>6 DEF Owner
<1> QED BY <1>1, <1>2

\* The wakeup protocol: a queued job, a worker, and _enqueuedSignal.
LEMMA WakeStep ==
  /\ TypeInv /\ JobsHeld /\ ContextInv /\ OwnInv /\ RingInv /\ CalmInv
  /\ SignalInv /\ QueuedInv /\ [Next]_vars
  => SignalInv' /\ QueuedInv'
<1> SUFFICES ASSUME TypeInv, JobsHeld, ContextInv, OwnInv, RingInv, CalmInv, SignalInv, QueuedInv,
                    [Next]_vars
             PROVE  SignalInv' /\ QueuedInv'
  OBVIOUS
<1>i. idleTimeout' = idleTimeout /\ (pc[Main] # "idle" => pc'[Main] # "idle")
  BY MainLeaves
<1> SUFFICES ASSUME ~idleTimeout, pc[Main] = "idle", pc'[Main] = "idle"
             PROVE  SignalInv' /\ QueuedInv'
  BY <1>i DEF SignalInv, QueuedInv
<1> USE ThreadKinds
<1>0. /\ pc \in [AllThreads -> ClientStates \cup MainStates \cup WorkerStates]
      /\ nodes \in [Slots -> Filled \cup {Free, Claimed, Taken}]
      /\ sig \in [{"enqueued", "dequeued"} -> [state : {0, 1}, signaled : BOOLEAN]]
  BY DEF TypeInv
<1>1. ASSUME NEW w \in Contexts, Bound(w)' PROVE SignalInv' /\ QueuedInv'
  BY <1>1 DEF SignalInv, QueuedInv
<1>2. CASE SameWake
  BY <1>2 DEF SameWake, SignalInv, QueuedInv
<1>3. ASSUME NEW w \in Contexts, TryFails(w), pc[w] = "try2", sig["enqueued"].state # 1
      PROVE  SignalInv' /\ QueuedInv'
  <2>1. sig' = sig /\ nodes' = nodes /\ pc' = [pc EXCEPT ![w] = "loadState"]
        /\ (~Ready(w) \/ StaleTicket(w))
    BY <1>3 DEF TryFails, Refused, Goto, queueVars
  <2>2. SignalInv'
    BY <1>3, <2>1 DEF SignalInv
  <2>3. (\E i \in Slots : nodes[i] \in Jobs) => \E t \in Callers : pc[t] \in {"handOver", "setState"}
    BY <2>1, EmptyExcused
  <2>4. QueuedInv'
    BY <1>0, <2>1, <2>3 DEF QueuedInv
  <2> QED BY <2>2, <2>4
<1>4. ASSUME NEW w \in Contexts,
             \/ LoadState(w) /\ sig["enqueued"].state # 1
             \/ WaitSignal(w) /\ ~sig["enqueued"].signaled
      PROVE  SignalInv' /\ QueuedInv'
  <2>1. /\ sig' = sig /\ nodes' = nodes /\ ~Bound(w)
        /\ \A u \in AllThreads : u # w => pc'[u] = pc[u]
        /\ Alive(w)
    BY <1>0, <1>4 DEF LoadState, WaitSignal, Goto, queueVars, Bound, Carrying, After, Alive
  <2>2. \A u \in Contexts : u # w => (Bound(u) <=> Bound(u)')
    BY <2>1 DEF Bound
  <2>3. \A u \in Callers : pc'[u] = pc[u]
    BY <2>1
  <2>4. SignalInv'
    <3>1. CASE sig["enqueued"].state # 1
      BY <2>1, <3>1 DEF SignalInv
    <3>2. CASE ~sig["enqueued"].signaled
      BY <2>1, <2>2, <2>3, <3>2 DEF SignalInv
    <3> QED BY <1>4, <3>1, <3>2
  <2>5. QueuedInv'
    BY <2>1, <2>2, <2>3 DEF QueuedInv
  <2> QED BY <2>4, <2>5
<1>5. \A w \in Contexts : ~Exit(w)
  BY DEF Exit, CalmInv
<1>6. ASSUME NEW c \in Clients, Handed(c) PROVE SignalInv' /\ QueuedInv'
  <2>1. sig' = sig /\ pc' = [pc EXCEPT ![c] = "setState"] /\ pc[c] = "handOver"
    BY <1>6 DEF Handed, Goto
  <2> QED BY <1>0, <2>1 DEF SignalInv, QueuedInv, Bound, Carrying, After
<1>7. ASSUME NEW c \in Clients, SetState(c) PROVE SignalInv' /\ QueuedInv'
  <2>1. /\ sig'["enqueued"].state = 1 /\ sig'["enqueued"].signaled = sig["enqueued"].signaled
        /\ pc' = [pc EXCEPT ![c] = IF sig["enqueued"].state = 0 THEN "setSignal" ELSE "moved"]
        /\ pc[c] = "setState" /\ (sig["enqueued"].state = 0 \/ sig["enqueued"].state = 1)
    BY <1>0, <1>7 DEF SetState, Goto, Sets
  <2>2. QueuedInv'
    BY <2>1 DEF QueuedInv
  <2>3. CASE sig["enqueued"].state = 0
    BY <1>0, <2>1, <2>2, <2>3 DEF SignalInv
  <2>4. CASE sig["enqueued"].state = 1
    BY <1>0, <2>1, <2>2, <2>4 DEF SignalInv, Bound, Carrying, After
  <2> QED BY <2>1, <2>3, <2>4
<1>8. ASSUME NEW c \in Clients, SetSignal(c) PROVE SignalInv' /\ QueuedInv'
  <2>1. /\ sig'["enqueued"].state = sig["enqueued"].state /\ sig'["enqueued"].signaled
        /\ pc' = [pc EXCEPT ![c] = "broadcast"] /\ pc[c] = "setSignal" /\ nodes' = nodes
    BY <1>0, <1>8 DEF SetSignal, Goto, Sets, queueVars
  <2> QED BY <1>0, <2>1 DEF SignalInv, QueuedInv, Bound, Carrying, After, Alive
<1>9. ASSUME NEW c \in Clients, Broadcast(c) PROVE SignalInv' /\ QueuedInv'
  <2>1. /\ sig' = sig /\ nodes' = nodes /\ pc[c] = "broadcast"
        /\ \A u \in Callers : u # c => pc'[u] = pc[u]
        /\ \A w \in Contexts : pc'[w] = IF pc[w] = "asleep" THEN "awaken" ELSE pc[w]
    BY <1>0, <1>9 DEF Broadcast, Peers, queueVars
  <2>2. \A w \in Contexts : (Bound(w) <=> Bound(w)') /\ (Alive(w) <=> Alive(w)')
    BY <2>1 DEF Bound, Alive, Carrying, After
  <2> QED BY <2>1, <2>2 DEF SignalInv, QueuedInv
<1>10. CASE Stop \/ UNCHANGED vars
  BY <1>10 DEF Stop, vars, queueVars, SameWake, SignalInv, QueuedInv, Bound, Alive
<1>11. ~(DestroyBegin \/ Destroy)
  BY <1>0 DEF DestroyBegin, Destroy, Move, SendPill, PillSent, JoinAll, TryOk, TryFails, Refused,
              Handed, SetState,
              SetSignal, Broadcast, SwapState, ResetSignal, LoadState, WaitSignal, Goto
<1>12. ASSUME NEW w \in Contexts, Worker(w) PROVE SignalInv' /\ QueuedInv'
  BY <1>1, <1>3, <1>4, <1>5, <1>12, WorkerBound
<1>13. ASSUME NEW c \in Clients, RunBegin(c) \/ Run(c) PROVE SignalInv' /\ QueuedInv'
  BY <1>1, <1>2, <1>6, <1>7, <1>8, <1>9, <1>13, ClientWakes
<1> QED BY <1>10, <1>11, <1>12, <1>13 DEF Next

\* The whole invariant.
IInv == CoreInv /\ ShutdownInv /\ CalmInv /\ NoWorkerInv /\ SignalInv /\ QueuedInv

\* It holds in every reachable state.
THEOREM Invariance == Spec => []IInv
<1>1. Init => ShutdownInv /\ CalmInv /\ NoWorkerInv /\ SignalInv /\ QueuedInv
  <2> SUFFICES ASSUME Init PROVE ShutdownInv /\ CalmInv /\ NoWorkerInv /\ SignalInv /\ QueuedInv
    OBVIOUS
  <2> USE Values, ThreadKinds
  <2>1. PICK W \in SUBSET Contexts :
          /\ sig = [x \in {"enqueued", "dequeued"} |->
                      IF x = "dequeued" /\ W # {} THEN [state |-> 1, signaled |-> TRUE]
                                                 ELSE [state |-> 0, signaled |-> FALSE]]
          /\ processed = Cardinality(W) /\ threadCount = Cardinality(W) /\ threads = W
          /\ pc = [t \in AllThreads |-> CASE t \in W -> "asleep"
                                           [] t \in Contexts \ W -> "none"
                                           [] OTHER -> "idle"]
    BY DEF Init
  <2>2. nodes = [i \in Slots |-> Free] /\ job = [t \in AllThreads |-> NoJob]
    BY DEF Init, Slots
  <2>3. /\ \A t \in Callers : pc[t] = "idle"
        /\ \A w \in Contexts : pc[w] \in {"asleep", "none"}
    BY <2>1
  <2>4. /\ \A i \in Slots : nodes[i] \notin Jobs /\ nodes[i] # Pill
        /\ \A w \in Contexts : job[w] # Pill
    BY <2>2 DEF Filled
  <2>5. sig["enqueued"].state = 0
    BY <2>1
  <2>6. ShutdownInv /\ SignalInv /\ QueuedInv
    BY <2>3, <2>4, <2>5 DEF ShutdownInv, SignalInv, QueuedInv
  <2>7. CalmInv
    BY <2>3, <2>4 DEF CalmInv, ShrinkStates
  <2>8. NoWorkerInv
    BY <2>1, <2>3, <2>4, FS_EmptySet DEF NoWorkerInv
  <2> QED BY <2>6, <2>7, <2>8
<1>2. IInv /\ CoreInv' /\ [Next]_vars => IInv'
  BY ShutdownStep, CalmStep, NoWorkerStep, WakeStep DEF IInv, CoreInv
<1>3. Init => CoreInv
  BY InitInv DEF CoreInv
<1> QED BY <1>1, <1>2, <1>3, CoreInvariance, PTL DEF Spec, IInv

\* Contexts without an ended or a running thread exist only while run() starts them.
LEMMA NoThreads ==
  ASSUME IInv, failures = 0, \A c \in Clients : pc[c] = "idle",
         \A w \in Contexts : pc[w] = "none"
  PROVE  threads = {}
BY DEF IInv, CoreInv, TypeInv, ContextInv

\* A pool at rest that does not shrink has no job in its queue: the wakeup is not lost
\* between the reset of _enqueuedSignal and the wait (Future.cpp 171-184).
THEOREM NoneStranded == Spec => []NoJobStranded
<1>1. IInv => NoJobStranded
  <2> SUFFICES ASSUME IInv, AtRest, failures = 0, ~idleTimeout, NEW i \in DOMAIN nodes,
                      nodes[i] \in Jobs
               PROVE  FALSE
    BY DEF NoJobStranded
  <2>1. i \in Slots
    BY DEF IInv, CoreInv, TypeInv
  <2>2. /\ \A t \in Callers : pc[t] = "idle"
        /\ \A w \in Contexts : pc[w] \in {"none", "asleep"}
    BY ThreadKinds DEF AtRest, IInv, CalmInv
  <2>3. \A w \in Contexts : ~Bound(w)
    BY <2>2 DEF Bound, Carrying, After
  <2>4. CASE \A w \in Contexts : pc[w] = "none"
    <3>1. threads = {}
      BY <2>2, <2>4, NoThreads, ThreadKinds
    <3> QED BY <2>1, <2>2, <3>1, ThreadKinds DEF IInv, NoWorkerInv, Going, After
  <2>5. ASSUME NEW w \in Contexts, pc[w] = "asleep" PROVE FALSE
    <3>1. sig["enqueued"].state = 1
      BY <2>1, <2>2, <2>3, <2>5, ThreadKinds DEF IInv, QueuedInv, Alive
    <3> QED BY <2>2, <2>3, <2>5, <3>1, ThreadKinds DEF IInv, SignalInv
  <2> QED BY <2>2, <2>4, <2>5
<1> QED BY <1>1, Invariance, PTL

-----------------------------------------------------------------------------
(* The destructor, in a pool that shrinks as well *)

\* Only the holder of _mutex is inside the part of run() that shrinks the pool.
MutexInv ==
  \A c \in Clients : pc[c] \in {"shrinkTry", "shrinkHandOver", "shrinkCount", "shrinkReap"} => mutex = c

\* _threadCount is not negative: it is decremented under _mutex if it was large enough there.
SpareInv ==
  /\ threadCount >= 0
  /\ \A c \in Clients : pc[c] \in {"shrinkTry", "shrinkHandOver", "shrinkCount"} => threadCount > MinThreads

\* The jobs that are not processed, and the clients that have not counted theirs.
JobNodes == {i \in Slots : nodes[i] \in Jobs}
JobWorkers == {w \in Contexts : job[w] \in Jobs}
Uncounted == {c \in Clients : pc[c] \in After}
WorkVars == <<JobNodes, JobWorkers, Uncounted, pushed, processed>>

\* _pushedJobs and _processedJobs differ by the jobs in between, but for those not counted yet.
WorkInv == pushed + Cardinality(Uncounted)
             = processed + Cardinality(JobNodes) + Cardinality(JobWorkers)

\* The thread has claimed a node for a job {0, 0}.
Sends(t) == pc[t] = "shrinkHandOver" \/ (t = Main /\ pc[t] = "handOver")

\* The nodes before the i-th that hold a job {0, 0} or are claimed for one.
Sent(i) == nodes[i] = Pill \/ \E t \in Callers : Sends(t) /\ node[t] = i
PillsBefore(i) == {k \in Slots : Sent(k) /\ Rank(k) < Rank(i)}

\* There are more workers than jobs {0, 0} that come before the job in node i.
Enough(i) == Cardinality(Usable) > Cardinality(PillsBefore(i)) + Cardinality(PillWorkers)

\* A client that has still to compare the number of threads with that of all jobs.
Repairs(c) == \/ pc[c] \in After \cup {"growLock"}
              \/ pc[c] = "counted" /\ busy[c] = pushed
              \/ pc[c] = "adjust" /\ busy[c] >= pushed - processed

\* Every job in the queue will be reached by a worker, or a client is going to see to it.
RepairInv ==
  failures = 0 => \A i \in JobNodes : Enough(i) \/ \E c \in Clients : Repairs(c)

\* The places that only one thread is in at a time.
Shrinking(c) == pc[c] \in {"shrinkTry", "shrinkHandOver", "shrinkCount", "shrinkReap"}

\* What a step does to the lock: nothing, a client takes it to shrink the pool, or gives it back.
LEMMA LockSteps ==
  ASSUME TypeInv, JobsHeld, ContextInv, [Next]_vars
  PROVE  \/ mutex' = mutex /\ \A d \in Clients : Shrinking(d)' <=> Shrinking(d)
         \/ \E c \in Clients : /\ mutex = NoContext /\ mutex' = c
                               /\ \A d \in Clients : Shrinking(d)' <=> d = c \/ Shrinking(d)
         \/ \E c \in Clients : /\ Shrinking(c) /\ mutex' = NoContext
                               /\ \A d \in Clients : Shrinking(d)' <=> d # c /\ Shrinking(d)
<1> USE ThreadKinds DEF contextVars, Shrinking
<1>0. /\ pc \in [AllThreads -> ClientStates \cup MainStates \cup WorkerStates]
      /\ threads \in SUBSET Contexts /\ terminated \in SUBSET Contexts
      /\ context \in [Clients -> Contexts \cup {NoContext}]
  BY DEF TypeInv
<1> DEFINE Same == mutex' = mutex /\ \A d \in Clients : Shrinking(d)' <=> Shrinking(d)
<1>1. CASE Quiet
  BY <1>0, <1>1 DEF Quiet, Trying, Before, After
<1>2. ASSUME NEW t \in AllThreads, TryOk(t) \/ Handed(t) PROVE Same
  BY <1>0, <1>2 DEF TryOk, Handed, Goto
<1>3. ASSUME NEW w \in Contexts, Execute(w) \/ CountProcessed(w) \/ Exit(w) PROVE Same
  BY <1>0, <1>3 DEF Execute, CountProcessed, Exit, Goto
<1>4. ASSUME NEW c \in Clients, RunBegin(c) \/ CountPushed(c) \/ ReadProcessed(c) \/ Adjust(c) PROVE Same
  BY <1>0, <1>4 DEF RunBegin, CountPushed, ReadProcessed, Adjust, Goto
<1>5. ASSUME NEW c \in Clients, GrowLocked(c) PROVE Same
  BY <1>0, <1>5 DEF GrowLocked
<1>6. ASSUME NEW c \in Clients, StartThread(c) \/ StoreHandle(c) \/ StartFails(c) PROVE Same
  <2>1. pc[c] = "start" => context[c] \in Contexts
    BY <1>0 DEF ContextInv
  <2> QED BY <1>0, <1>6, <2>1 DEF StartThread, StoreHandle, StartFails, Goto
<1>7. ASSUME NEW c \in Clients, ShrinkLock(c)
      PROVE  /\ mutex = NoContext /\ mutex' = c
             /\ \A d \in Clients : Shrinking(d)' <=> d = c \/ Shrinking(d)
  BY <1>0, <1>7 DEF ShrinkLock, Goto
<1>8. ASSUME NEW c \in Clients, ShrinkTry(c) \/ ShrinkHandOver(c) \/ ShrinkCount(c) PROVE Same
  BY <1>0, <1>8 DEF ShrinkTry, ShrinkHandOver, ShrinkCount, Goto
<1>9. ASSUME NEW c \in Clients, ShrinkReap(c)
      PROVE  /\ Shrinking(c) /\ mutex' = NoContext
             /\ \A d \in Clients : Shrinking(d)' <=> d # c /\ Shrinking(d)
  BY <1>0, <1>9 DEF ShrinkReap
<1>10. CASE DestroyBegin \/ SendPill \/ PillSent \/ JoinAll
  BY <1>0, <1>10 DEF DestroyBegin, SendPill, PillSent, JoinAll, Goto
<1> HIDE DEF Shrinking
<1> QED BY <1>1, <1>2, <1>3, <1>4, <1>5, <1>6, <1>7, <1>8, <1>9, <1>10, Steps DEF Same, ShrinkPush

\* Nobody gets the lock while another client has it.
LEMMA MutexStep ==
  TypeInv /\ JobsHeld /\ ContextInv /\ MutexInv /\ [Next]_vars => MutexInv'
<1> SUFFICES ASSUME TypeInv, JobsHeld, ContextInv, MutexInv, [Next]_vars PROVE MutexInv'
  OBVIOUS
<1>1. \A c \in Clients : Shrinking(c) => mutex = c
  BY DEF MutexInv, Shrinking
<1>2. \A c \in Clients : Shrinking(c)' => mutex' = c
  BY PoolAssumption, <1>1, LockSteps
<1> QED BY <1>2 DEF MutexInv, Shrinking

\* The count of threads grows only when no client shrinks the pool, and shrinks only by the
\* client that found it large enough.
LEMMA SpareStep ==
  TypeInv /\ JobsHeld /\ ContextInv /\ MutexInv /\ SpareInv /\ [Next]_vars => SpareInv'
<1> SUFFICES ASSUME TypeInv, JobsHeld, ContextInv, MutexInv, SpareInv, [Next]_vars PROVE SpareInv'
  OBVIOUS
<1> USE ThreadKinds DEF counterVars
<1>0. /\ pc \in [AllThreads -> ClientStates \cup MainStates \cup WorkerStates]
      /\ threads \in SUBSET Contexts /\ terminated \in SUBSET Contexts /\ threadCount \in Int
      /\ context \in [Clients -> Contexts \cup {NoContext}]
      /\ MinThreads \in Nat
  BY PoolAssumption DEF TypeInv
<1>1. CASE Quiet
  BY <1>0, <1>1 DEF Quiet, Trying, Before, After, SpareInv
<1>2. ASSUME NEW t \in AllThreads, TryOk(t) \/ Handed(t) PROVE SpareInv'
  BY <1>0, <1>2 DEF TryOk, Handed, Goto, SpareInv
<1>3. ASSUME NEW w \in Contexts, Execute(w) \/ CountProcessed(w) \/ Exit(w) PROVE SpareInv'
  BY <1>0, <1>3 DEF Execute, CountProcessed, Exit, Goto, SpareInv
<1>4. ASSUME NEW c \in Clients, RunBegin(c) \/ CountPushed(c) \/ ReadProcessed(c) \/ Adjust(c)
      PROVE  SpareInv'
  BY <1>0, <1>4 DEF RunBegin, CountPushed, ReadProcessed, Adjust, Goto, SpareInv
<1>5. ASSUME NEW c \in Clients, GrowLocked(c) PROVE SpareInv'
  <2>1. threadCount' \in {threadCount, threadCount + 1}
    BY <1>5 DEF GrowLocked
  <2>2. \A d \in Clients : pc'[d] \in {"shrinkTry", "shrinkHandOver", "shrinkCount"} => pc'[d] = pc[d]
    BY <1>0, <1>5 DEF GrowLocked
  <2> QED BY <1>0, <2>1, <2>2 DEF SpareInv
<1>6. ASSUME NEW c \in Clients, StartThread(c) \/ StoreHandle(c) \/ StartFails(c) PROVE SpareInv'
  <2>1. pc[c] = "start" => context[c] \in Contexts
    BY <1>0 DEF ContextInv
  <2> QED BY <1>0, <1>6, <2>1 DEF StartThread, StoreHandle, StartFails, Goto, SpareInv
<1>7. ASSUME NEW c \in Clients, ShrinkPush(c) \/ ShrinkHandOver(c) PROVE SpareInv'
  BY <1>0, <1>7 DEF ShrinkPush, ShrinkLock, ShrinkTry, Refused, ShrinkHandOver, Goto, SpareInv
<1>8. ASSUME NEW c \in Clients, ShrinkCount(c) PROVE SpareInv'
  <2>1. threadCount > MinThreads /\ threadCount' = threadCount - 1 /\ pc[c] = "shrinkCount"
    BY <1>8 DEF ShrinkCount, Goto, SpareInv
  <2>2. \A d \in Clients : pc'[d] \notin {"shrinkTry", "shrinkHandOver", "shrinkCount"}
    BY <1>0, <1>8 DEF ShrinkCount, Goto, MutexInv
  <2> QED BY <1>0, <2>1, <2>2 DEF SpareInv
<1>9. ASSUME NEW c \in Clients, ShrinkReap(c) PROVE SpareInv'
  BY <1>0, <1>9 DEF ShrinkReap, SpareInv
<1>10. CASE DestroyBegin \/ SendPill \/ PillSent \/ JoinAll
  BY <1>0, <1>10 DEF DestroyBegin, SendPill, PillSent, JoinAll, Goto, SpareInv
<1> QED BY <1>1, <1>2, <1>3, <1>4, <1>5, <1>6, <1>7, <1>8, <1>9, <1>10, Steps

\* The sets of jobs are finite.
LEMMA WorkFinite ==
  ASSUME TypeInv
  PROVE  /\ IsFiniteSet(JobNodes) /\ Cardinality(JobNodes) \in Nat
         /\ IsFiniteSet(JobWorkers) /\ Cardinality(JobWorkers) \in Nat
         /\ IsFiniteSet(Uncounted) /\ Cardinality(Uncounted) \in Nat
<1>1. IsFiniteSet(Slots)
  BY SlotsFinite
<1>2. JobNodes \subseteq Slots /\ JobWorkers \subseteq Contexts /\ Uncounted \subseteq Clients
  BY DEF JobNodes, JobWorkers, Uncounted
<1>3. IsFiniteSet(JobNodes) /\ IsFiniteSet(JobWorkers) /\ IsFiniteSet(Uncounted)
  BY PoolAssumption, <1>1, <1>2, FS_Subset
<1> QED BY <1>3, FS_CardinalityType

\* What a step does to the jobs that are not processed or not counted.
LEMMA WorkSteps ==
  ASSUME TypeInv, JobsHeld, ContextInv, OwnInv, [Next]_vars
  PROVE  \/ UNCHANGED WorkVars
         \/ \E t \in Contexts : /\ qHead \in JobNodes /\ JobNodes' = JobNodes \ {qHead}
                                /\ t \notin JobWorkers /\ JobWorkers' = JobWorkers \cup {t}
                                /\ UNCHANGED <<Uncounted, pushed, processed>>
         \/ \E c \in Clients : /\ node[c] \notin JobNodes /\ JobNodes' = JobNodes \cup {node[c]}
                               /\ c \notin Uncounted /\ Uncounted' = Uncounted \cup {c}
                               /\ UNCHANGED <<JobWorkers, pushed, processed>>
         \/ \E w \in Contexts : /\ w \in JobWorkers /\ JobWorkers' = JobWorkers \ {w}
                                /\ processed' = processed + 1
                                /\ UNCHANGED <<JobNodes, Uncounted, pushed>>
         \/ \E c \in Clients : /\ c \in Uncounted /\ Uncounted' = Uncounted \ {c}
                               /\ pushed' = pushed + 1
                               /\ UNCHANGED <<JobNodes, JobWorkers, processed>>
<1> USE Values, ThreadKinds DEF contextVars, queueVars, counterVars, JobNodes, JobWorkers, Uncounted,
      WorkVars, After
<1>0. /\ pc \in [AllThreads -> ClientStates \cup MainStates \cup WorkerStates]
      /\ job \in [AllThreads -> Filled \cup {NoJob}]
      /\ nodes \in [Slots -> Filled \cup {Free, Claimed, Taken}]
      /\ node \in [AllThreads -> Slots]
      /\ qTail \in Slots /\ qHead \in Slots
      /\ Jobs \subseteq Filled /\ Pill \in Filled
      /\ calls \in 0 .. MaxJobs
      /\ threads \in SUBSET Contexts /\ terminated \in SUBSET Contexts
      /\ context \in [Clients -> Contexts \cup {NoContext}]
  BY DEF TypeInv, Filled
<1>2. CASE Quiet
  BY <1>0, <1>2 DEF Quiet, Trying, Before
<1>3. ASSUME NEW t \in Contexts, TryOk(t), nodes[qHead] \in Jobs
      PROVE  /\ qHead \in JobNodes /\ JobNodes' = JobNodes \ {qHead}
             /\ t \notin JobWorkers /\ JobWorkers' = JobWorkers \cup {t}
             /\ UNCHANGED <<Uncounted, pushed, processed>>
  <2>1. job[t] = NoJob
    BY <1>3 DEF TryOk, JobsHeld, Carrying
  <2> QED BY <1>0, <1>3, <2>1 DEF TryOk, Claim, Ready, ReadyNode, NextNode, Filled
<1>4. ASSUME NEW t \in Contexts, TryOk(t), nodes[qHead] \notin Jobs PROVE UNCHANGED WorkVars
  <2>1. job[t] = NoJob
    BY <1>4 DEF TryOk, JobsHeld, Carrying
  <2> QED BY <1>0, <1>4, <2>1 DEF TryOk, Claim, Ready, ReadyNode, NextNode, Filled
<1>5. ASSUME NEW t \in Callers, TryOk(t) PROVE UNCHANGED WorkVars
  BY <1>0, <1>5 DEF TryOk, Claim, Ready, ReadyNode, NextNode, Filled
<1>6. ASSUME NEW t \in Contexts \cup {Main}, Handed(t) PROVE UNCHANGED WorkVars
  <2>1. nodes[node[t]] \notin Jobs
    BY <1>0, <1>6 DEF Handed, Goto, OwnInv, Owner
  <2>2. t = Main => job[t] = Pill
    BY <1>6 DEF JobsHeld, Handed, Goto, MoveStates, Before
  <2> QED BY <1>0, <1>6, <2>1, <2>2 DEF Handed, HandOver, Goto, Filled
<1>7. ASSUME NEW c \in Clients, Handed(c)
      PROVE  /\ node[c] \notin JobNodes /\ JobNodes' = JobNodes \cup {node[c]}
             /\ c \notin Uncounted /\ Uncounted' = Uncounted \cup {c}
             /\ UNCHANGED <<JobWorkers, pushed, processed>>
  <2>1. nodes[node[c]] \notin Jobs
    BY <1>0, <1>7 DEF Handed, Goto, OwnInv, Owner
  <2>2. job[c] \in Jobs
    BY <1>7 DEF JobsHeld, Handed, Goto, MoveStates, Before
  <2> QED BY <1>0, <1>7, <2>1, <2>2 DEF Handed, HandOver, Goto
<1>8. ASSUME NEW w \in Contexts, Execute(w) \/ Exit(w) PROVE UNCHANGED WorkVars
  BY <1>0, <1>8 DEF Execute, Exit, Goto
<1>9. ASSUME NEW w \in Contexts, CountProcessed(w)
      PROVE  /\ w \in JobWorkers /\ JobWorkers' = JobWorkers \ {w}
             /\ processed' = processed + 1
             /\ UNCHANGED <<JobNodes, Uncounted, pushed>>
  <2>1. job[w] \in Jobs
    BY <1>9 DEF CountProcessed, Goto, JobsHeld
  <2> QED BY <1>0, <1>9, <2>1 DEF CountProcessed, Goto
<1>10. ASSUME NEW c \in Clients, CountPushed(c)
       PROVE  /\ c \in Uncounted /\ Uncounted' = Uncounted \ {c}
              /\ pushed' = pushed + 1
              /\ UNCHANGED <<JobNodes, JobWorkers, processed>>
  BY <1>0, <1>10 DEF CountPushed, Goto
<1>11. ASSUME NEW c \in Clients, RunBegin(c) \/ ReadProcessed(c) \/ Adjust(c) PROVE UNCHANGED WorkVars
  BY <1>0, <1>11 DEF RunBegin, ReadProcessed, Adjust, Goto
<1>12. ASSUME NEW c \in Clients, GrowLocked(c) \/ ShrinkReap(c) PROVE UNCHANGED WorkVars
  BY <1>0, <1>12 DEF GrowLocked, ShrinkReap
<1>13. ASSUME NEW c \in Clients, StartThread(c) \/ StoreHandle(c) \/ StartFails(c)
       PROVE  UNCHANGED WorkVars
  <2>1. pc[c] = "start" => context[c] \in Contexts
    BY <1>0 DEF ContextInv
  <2> QED BY <1>0, <1>13, <2>1 DEF StartThread, StoreHandle, StartFails, Goto
<1>14. ASSUME NEW c \in Clients, ShrinkPush(c) PROVE UNCHANGED WorkVars
  BY <1>0, <1>14 DEF ShrinkPush, ShrinkLock, ShrinkTry, Refused, Claim, Ready, ReadyNode, NextNode,
                     Goto, Filled
<1>15. ASSUME NEW c \in Clients, ShrinkHandOver(c) PROVE UNCHANGED WorkVars
  <2>1. nodes[node[c]] = Claimed
    BY <1>15 DEF ShrinkHandOver, Goto, OwnInv, Owner
  <2> QED BY <1>0, <1>15, <2>1 DEF ShrinkHandOver, Goto, Filled
<1>16. ASSUME NEW c \in Clients, ShrinkCount(c) PROVE UNCHANGED WorkVars
  BY <1>0, <1>16 DEF ShrinkCount, Goto
<1>17. CASE DestroyBegin \/ SendPill \/ PillSent \/ JoinAll
  BY <1>0, <1>17 DEF DestroyBegin, SendPill, PillSent, JoinAll, Goto, localVars
<1> HIDE DEF JobNodes, JobWorkers, Uncounted, WorkVars
<1> QED
  BY <1>2, <1>3, <1>4, <1>5, <1>6, <1>7, <1>8, <1>9, <1>10, <1>11, <1>12, <1>13, <1>14, <1>15,
     <1>16, <1>17, Steps

\* Every step keeps the jobs in between and the two counters in step.
LEMMA WorkStep ==
  TypeInv /\ TypeInv' /\ JobsHeld /\ ContextInv /\ OwnInv /\ WorkInv /\ [Next]_vars => WorkInv'
<1> SUFFICES ASSUME TypeInv, TypeInv', JobsHeld, ContextInv, OwnInv, WorkInv, [Next]_vars
             PROVE  WorkInv'
  OBVIOUS
<1>1. pushed \in Nat /\ processed \in Nat
  BY DEF TypeInv
<1>2. pushed + Cardinality(Uncounted) = processed + Cardinality(JobNodes) + Cardinality(JobWorkers)
  BY DEF WorkInv
<1>4. CASE UNCHANGED WorkVars
  BY <1>2, <1>4 DEF WorkVars, WorkInv
<1>5. ASSUME NEW t \in Contexts, qHead \in JobNodes, JobNodes' = JobNodes \ {qHead},
             t \notin JobWorkers, JobWorkers' = JobWorkers \cup {t},
             UNCHANGED <<Uncounted, pushed, processed>>
      PROVE  WorkInv'
  <2>1. Cardinality(JobNodes') = Cardinality(JobNodes) - 1
    BY <1>5, WorkFinite, FS_RemoveElement
  <2>2. Cardinality(JobWorkers') = Cardinality(JobWorkers) + 1
    BY <1>5, WorkFinite, FS_AddElement
  <2> QED BY <1>1, <1>2, <1>5, <2>1, <2>2, WorkFinite DEF WorkInv
<1>6. ASSUME NEW c \in Clients, node[c] \notin JobNodes, JobNodes' = JobNodes \cup {node[c]},
             c \notin Uncounted, Uncounted' = Uncounted \cup {c},
             UNCHANGED <<JobWorkers, pushed, processed>>
      PROVE  WorkInv'
  <2>1. Cardinality(JobNodes') = Cardinality(JobNodes) + 1
    BY <1>6, WorkFinite, FS_AddElement
  <2>2. Cardinality(Uncounted') = Cardinality(Uncounted) + 1
    BY <1>6, WorkFinite, FS_AddElement
  <2> QED BY <1>1, <1>2, <1>6, <2>1, <2>2, WorkFinite DEF WorkInv
<1>7. ASSUME NEW w \in Contexts, w \in JobWorkers, JobWorkers' = JobWorkers \ {w},
             processed' = processed + 1, UNCHANGED <<JobNodes, Uncounted, pushed>>
      PROVE  WorkInv'
  <2>1. Cardinality(JobWorkers') = Cardinality(JobWorkers) - 1
    BY <1>7, WorkFinite, FS_RemoveElement
  <2> QED BY <1>1, <1>2, <1>7, <2>1, WorkFinite DEF WorkInv
<1>8. ASSUME NEW c \in Clients, c \in Uncounted, Uncounted' = Uncounted \ {c},
             pushed' = pushed + 1, UNCHANGED <<JobNodes, JobWorkers, processed>>
      PROVE  WorkInv'
  <2>1. Cardinality(Uncounted') = Cardinality(Uncounted) - 1
    BY <1>8, WorkFinite, FS_RemoveElement
  <2> QED BY <1>1, <1>2, <1>8, <2>1, WorkFinite DEF WorkInv
<1> QED BY <1>4, <1>5, <1>6, <1>7, <1>8, WorkSteps

\* What a step does to the jobs {0, 0} before the job in node i, and to the workers.
LEMMA PillSteps ==
  ASSUME TypeInv, JobsHeld, ContextInv, OwnInv, RingInv, [Next]_vars, failures' = 0,
         NEW i \in Slots, nodes[i] \in Jobs
  PROVE  \/ /\ PillsBefore(i)' \subseteq PillsBefore(i) /\ PillWorkers' \subseteq PillWorkers
            /\ Usable \subseteq Usable'
         \/ nodes'[i] \notin Jobs
         \/ \E t \in Contexts :
              /\ qHead \in PillsBefore(i) /\ PillsBefore(i)' \subseteq PillsBefore(i) \ {qHead}
              /\ PillWorkers' \subseteq PillWorkers \cup {t} /\ Usable \subseteq Usable'
         \/ \E w \in Contexts :
              /\ PillsBefore(i)' \subseteq PillsBefore(i)
              /\ w \in PillWorkers /\ PillWorkers' = PillWorkers \ {w}
              /\ w \in Usable /\ Usable' = Usable \ {w}
<1> USE Values, ThreadKinds DEF contextVars, queueVars, PillWorkers, Usable
<1>0. /\ pc \in [AllThreads -> ClientStates \cup MainStates \cup WorkerStates]
      /\ job \in [AllThreads -> Filled \cup {NoJob}]
      /\ nodes \in [Slots -> Filled \cup {Free, Claimed, Taken}]
      /\ node \in [AllThreads -> Slots]
      /\ qTail \in Slots /\ qHead \in Slots
      /\ Jobs \subseteq Filled /\ Pill \in Filled
      /\ calls \in 0 .. MaxJobs
      /\ threads \in SUBSET Contexts /\ terminated \in SUBSET Contexts
      /\ context \in [Clients -> Contexts \cup {NoContext}]
      /\ failures \in Nat
  BY DEF TypeInv, Filled
<1> DEFINE Kept == PillWorkers' \subseteq PillWorkers /\ Usable \subseteq Usable'
           Same == qHead' = qHead /\ \A k \in Slots : Sent(k)' => Sent(k)
           Late == qHead' = qHead /\ \A k \in Slots : Sent(k)' => Sent(k) \/ k = qTail
<1>1. Same => PillsBefore(i)' \subseteq PillsBefore(i)
  BY DEF PillsBefore, Rank
<1>2. ASSUME nodes[qTail] = Free, Late PROVE PillsBefore(i)' \subseteq PillsBefore(i)
  <2>1. Occupied(i) /\ ~Occupied(qTail)
    BY <1>0, <1>2 DEF Occupied
  <2>2. Rank(i) < Rank(qTail)
    BY PoolAssumption, <1>0, <2>1 DEF RingInv, Rank, Slots
  <2>3. \A k \in Slots : Rank(k)' = Rank(k) /\ Rank(k) \in Int
    BY PoolAssumption, <1>0, <1>2 DEF Rank, Slots
  <2>4. ~(Rank(qTail) < Rank(i))
    BY <1>0, <2>2, <2>3
  <2> QED BY <1>2, <2>3, <2>4 DEF PillsBefore
<1>3. CASE Quiet
  <2>1. \A t \in Callers : Sends(t)' => Sends(t)
    BY <1>0, <1>3 DEF Quiet, Trying, Before, After, Sends
  <2>2. Same
    BY <1>3, <2>1 DEF Quiet, Sent
  <2>3. Kept
    BY <1>3 DEF Quiet
  <2> QED BY <1>1, <2>2, <2>3
<1>4. ASSUME NEW t \in Contexts, TryOk(t), i # qHead
      PROVE  \/ PillsBefore(i)' \subseteq PillsBefore(i) /\ Kept
             \/ /\ qHead \in PillsBefore(i) /\ PillsBefore(i)' \subseteq PillsBefore(i) \ {qHead}
                /\ PillWorkers' \subseteq PillWorkers \cup {t} /\ Usable \subseteq Usable'
  <2>1. /\ nodes' = [nodes EXCEPT ![qHead] = Taken] /\ nodes[qHead] \in Filled
        /\ job' = [job EXCEPT ![t] = nodes[qHead]]
        /\ node' = [node EXCEPT ![t] = qHead]
        /\ pc' = [pc EXCEPT ![t] = "handOver"]
        /\ qHead' = (qHead + 1) % QueueSize
        /\ UNCHANGED <<threads, terminated>>
    BY <1>4 DEF TryOk, Claim, Ready, ReadyNode, NextNode, Filled
  <2>2. /\ \A k \in Slots : k # qHead => Rank(k)' = Rank(k) - 1
        /\ Rank(qHead) = 0
        /\ \A k \in Slots : Rank(k) \in Nat
    BY <1>0, <2>1, RankPop
  <2>3. Rank(i) # 0
    BY PoolAssumption, <1>0, <1>4 DEF Rank, Slots
  <2>4. \A u \in Callers : Sends(u)' => Sends(u) /\ node'[u] = node[u]
    BY <1>0, <2>1 DEF Sends
  <2>5. \A u \in Callers : Sends(u) => node[u] # qHead
    BY <1>0, <2>1 DEF Sends, OwnInv, Owner
  <2>6. \A k \in Slots : Sent(k)' => Sent(k) /\ k # qHead
    BY <1>0, <2>1, <2>4, <2>5 DEF Sent
  <2>7. PillsBefore(i)' \subseteq PillsBefore(i) \ {qHead}
    <3> SUFFICES ASSUME NEW k \in Slots, Sent(k)', Rank(k)' < Rank(i)'
                 PROVE  k # qHead /\ Sent(k) /\ Rank(k) < Rank(i)
      BY DEF PillsBefore
    <3> QED BY <1>4, <2>2, <2>6
  <2>8. PillWorkers' \subseteq PillWorkers \cup {t} /\ Usable \subseteq Usable'
    BY <1>0, <2>1
  <2>9. nodes[qHead] # Pill => PillWorkers' \subseteq PillWorkers
    BY <1>0, <2>1
  <2>10. nodes[qHead] = Pill => qHead \in PillsBefore(i)
    BY <1>0, <2>2, <2>3 DEF PillsBefore, Sent
  <2> QED BY <2>7, <2>8, <2>9, <2>10
<1>5. ASSUME NEW t \in Callers, TryOk(t) PROVE PillsBefore(i)' \subseteq PillsBefore(i) /\ Kept
  <2>1. /\ nodes' = [nodes EXCEPT ![qTail] = Claimed] /\ nodes[qTail] = Free
        /\ node' = [node EXCEPT ![t] = qTail]
        /\ pc' = [pc EXCEPT ![t] = "handOver"]
        /\ UNCHANGED <<job, qHead, threads, terminated>>
    BY <1>5 DEF TryOk, Claim, Ready, ReadyNode, NextNode
  <2>2. \A u \in Callers : u # t /\ Sends(u)' => Sends(u) /\ node'[u] = node[u]
    BY <1>0, <2>1 DEF Sends
  <2>3. Late
    BY <1>0, <2>1, <2>2 DEF Sent
  <2> QED BY <1>2, <2>1, <2>3
<1>6. ASSUME NEW t \in AllThreads, Handed(t) PROVE PillsBefore(i)' \subseteq PillsBefore(i) /\ Kept
  <2>1. /\ nodes' = [nodes EXCEPT ![node[t]] = IF t \in Contexts THEN Free ELSE job[t]]
        /\ node' = [node EXCEPT ![t] = 0]
        /\ pc' = [pc EXCEPT ![t] = "setState"] /\ pc[t] = "handOver"
        /\ UNCHANGED <<job, qHead, threads, terminated>>
    BY <1>6 DEF Handed, HandOver, Goto
  <2>2. \A u \in Callers : Sends(u)' => Sends(u) /\ u # t /\ node'[u] = node[u]
    BY <1>0, <2>1 DEF Sends
  <2>3. t \in Clients => job[t] # Pill
    BY <2>1 DEF JobsHeld, MoveStates, Before
  <2>4. \A k \in Slots : nodes'[k] = Pill => nodes[k] = Pill \/ (t = Main /\ k = node[Main])
    BY <1>0, <2>1, <2>3
  <2>5. Sends(Main) \/ t # Main
    BY <2>1 DEF Sends
  <2>6. Same
    BY <2>1, <2>2, <2>4, <2>5 DEF Sent
  <2>7. Kept
    BY <2>1
  <2> QED BY <1>1, <2>6, <2>7
<1>7. ASSUME NEW w \in Contexts, Execute(w) \/ CountProcessed(w)
      PROVE  PillsBefore(i)' \subseteq PillsBefore(i) /\ Kept
  <2>1. \A u \in Callers : Sends(u)' => Sends(u)
    BY <1>0, <1>7 DEF Execute, CountProcessed, Goto, Sends
  <2>2. Same
    BY <1>7, <2>1 DEF Execute, CountProcessed, Sent
  <2>3. Kept
    BY <1>0, <1>7 DEF Execute, CountProcessed
  <2> QED BY <1>1, <2>2, <2>3
<1>8. ASSUME NEW w \in Contexts, Exit(w)
      PROVE  /\ PillsBefore(i)' \subseteq PillsBefore(i)
             /\ w \in PillWorkers /\ PillWorkers' = PillWorkers \ {w}
             /\ w \in Usable /\ Usable' = Usable \ {w}
  <2>1. \A u \in Callers : Sends(u)' => Sends(u)
    BY <1>0, <1>8 DEF Exit, Goto, Sends
  <2>2. Same
    BY <1>8, <2>1 DEF Exit, Sent
  <2>3. w \in threads \ terminated
    BY <1>8 DEF Exit, Goto, ContextInv, Alive
  <2> QED BY <1>0, <1>1, <1>8, <2>2, <2>3 DEF Exit, Goto
<1>9. ASSUME NEW c \in Clients, RunBegin(c) \/ CountPushed(c) \/ ReadProcessed(c) \/ Adjust(c)
      PROVE  PillsBefore(i)' \subseteq PillsBefore(i) /\ Kept
  <2>1. \A u \in Callers : Sends(u)' => Sends(u)
    BY <1>0, <1>9 DEF RunBegin, CountPushed, ReadProcessed, Adjust, Goto, Sends
  <2>2. Same
    BY <1>9, <2>1 DEF RunBegin, CountPushed, ReadProcessed, Adjust, Sent
  <2>3. Kept
    BY <1>0, <1>9 DEF RunBegin, CountPushed, ReadProcessed, Adjust
  <2> QED BY <1>1, <2>2, <2>3
<1>10. ASSUME NEW c \in Clients, GrowLocked(c) \/ ShrinkReap(c)
       PROVE  PillsBefore(i)' \subseteq PillsBefore(i) /\ Kept
  <2>1. \A u \in Callers : Sends(u)' => Sends(u)
    BY <1>0, <1>10 DEF GrowLocked, ShrinkReap, Sends
  <2>2. Same
    BY <1>10, <2>1 DEF GrowLocked, ShrinkReap, Sent
  <2>3. Kept
    BY <1>10 DEF GrowLocked, ShrinkReap, Reaped
  <2> QED BY <1>1, <2>2, <2>3
<1>11. ASSUME NEW c \in Clients, StartThread(c) \/ StoreHandle(c)
       PROVE  PillsBefore(i)' \subseteq PillsBefore(i) /\ Kept
  <2>1. pc[c] = "start" => context[c] \in Contexts
    BY <1>0 DEF ContextInv
  <2>2. \A u \in Callers : Sends(u)' => Sends(u)
    BY <1>0, <1>11, <2>1 DEF StartThread, StoreHandle, Goto, Sends
  <2>3. Same
    BY <1>11, <2>2 DEF StartThread, StoreHandle, Sent
  <2>4. Kept
    BY <1>11 DEF StartThread, StoreHandle
  <2> QED BY <1>1, <2>3, <2>4
<1>12. \A c \in Clients : ~StartFails(c)
  BY <1>0 DEF StartFails
<1>13. ASSUME NEW c \in Clients, ShrinkPush(c) PROVE PillsBefore(i)' \subseteq PillsBefore(i) /\ Kept
  <2>1. UNCHANGED <<job, threads, terminated, qHead>>
    BY <1>13 DEF ShrinkPush, ShrinkLock, ShrinkTry, Refused, Claim
  <2>2. CASE pc'[c] = "shrinkHandOver"
    <3>1. /\ nodes' = [nodes EXCEPT ![qTail] = Claimed] /\ nodes[qTail] = Free
          /\ node' = [node EXCEPT ![c] = qTail]
          /\ pc' = [pc EXCEPT ![c] = "shrinkHandOver"]
      BY <1>0, <1>13, <2>2 DEF ShrinkPush, ShrinkLock, ShrinkTry, Refused, Claim, Ready, ReadyNode,
                               NextNode, Goto
    <3>2. \A u \in Callers : u # c /\ Sends(u)' => Sends(u) /\ node'[u] = node[u]
      BY <1>0, <3>1 DEF Sends
    <3>3. Late
      BY <1>0, <2>1, <3>1, <3>2 DEF Sent
    <3> QED BY <1>2, <2>1, <3>1, <3>3
  <2>3. CASE pc'[c] # "shrinkHandOver"
    <3>1. /\ UNCHANGED <<nodes, node>>
          /\ \/ pc' = [pc EXCEPT ![c] = "shrinkTry"]
             \/ pc' = [pc EXCEPT ![c] = "shrinkReap"]
      BY <1>0, <1>13, <2>3 DEF ShrinkPush, ShrinkLock, ShrinkTry, Refused, Goto
    <3>2. \A u \in Callers : Sends(u)' => Sends(u)
      BY <1>0, <3>1 DEF Sends
    <3>3. Same
      BY <2>1, <3>1, <3>2 DEF Sent
    <3> QED BY <1>1, <2>1, <3>3
  <2> QED BY <2>2, <2>3
<1>14. ASSUME NEW c \in Clients, ShrinkHandOver(c) PROVE PillsBefore(i)' \subseteq PillsBefore(i) /\ Kept
  <2>1. /\ nodes' = [nodes EXCEPT ![node[c]] = Pill]
        /\ node' = [node EXCEPT ![c] = 0]
        /\ pc' = [pc EXCEPT ![c] = "shrinkCount"] /\ pc[c] = "shrinkHandOver"
        /\ UNCHANGED <<job, qHead, threads, terminated>>
    BY <1>14 DEF ShrinkHandOver, Goto
  <2>2. \A u \in Callers : Sends(u)' => Sends(u) /\ u # c /\ node'[u] = node[u]
    BY <1>0, <2>1 DEF Sends
  <2>3. Sends(c)
    BY <2>1 DEF Sends
  <2>4. Same
    BY <1>0, <2>1, <2>2, <2>3 DEF Sent
  <2> QED BY <1>1, <2>1, <2>4
<1>15. ASSUME NEW c \in Clients, ShrinkCount(c) PROVE PillsBefore(i)' \subseteq PillsBefore(i) /\ Kept
  <2>1. \A u \in Callers : Sends(u)' => Sends(u)
    BY <1>0, <1>15 DEF ShrinkCount, Goto, Sends
  <2>2. Same
    BY <1>15, <2>1 DEF ShrinkCount, Sent
  <2> QED BY <1>1, <1>15, <2>2 DEF ShrinkCount
<1>16. CASE DestroyBegin \/ SendPill \/ PillSent \/ JoinAll
  <2>1. \A u \in Callers : Sends(u)' => Sends(u)
    BY <1>0, <1>16 DEF DestroyBegin, SendPill, PillSent, JoinAll, Goto, Sends
  <2>2. Same
    BY <1>16, <2>1 DEF DestroyBegin, SendPill, PillSent, JoinAll, Sent
  <2>3. Kept
    BY <1>0, <1>16 DEF DestroyBegin, SendPill, PillSent, JoinAll
  <2> QED BY <1>1, <2>2, <2>3
<1>17. ASSUME NEW t \in Contexts, TryOk(t), i = qHead PROVE nodes'[i] \notin Jobs
  BY <1>0, <1>17 DEF TryOk, Claim
<1> HIDE DEF PillWorkers, Usable
<1> QED
  BY <1>3, <1>4, <1>5, <1>6, <1>7, <1>8, <1>9, <1>10, <1>11, <1>12, <1>13, <1>14, <1>15,
     <1>16, <1>17, Steps

\* One element makes a set larger by at most one.
LEMMA OneMore ==
  ASSUME NEW S, IsFiniteSet(S), NEW x
  PROVE  IsFiniteSet(S \cup {x}) /\ Cardinality(S \cup {x}) <= Cardinality(S) + 1
<1>1. Cardinality(S) \in Nat
  BY FS_CardinalityType
<1>2. /\ IsFiniteSet(S \cup {x})
      /\ Cardinality(S \cup {x}) = IF x \in S THEN Cardinality(S) ELSE Cardinality(S) + 1
  BY FS_AddElement
<1>3. Cardinality(S \cup {x}) <= Cardinality(S) + 1
  BY <1>1, <1>2
<1> QED BY <1>2, <1>3

\* A job that enough workers are left for stays so.
LEMMA EnoughStep ==
  ASSUME TypeInv, TypeInv', JobsHeld, ContextInv, OwnInv, RingInv, [Next]_vars, failures' = 0,
         NEW i \in Slots, nodes[i] \in Jobs, nodes'[i] \in Jobs, Enough(i)
  PROVE  Enough(i)'
<1>1. IsFiniteSet(Slots)
  BY SlotsFinite
<1>2. PillsBefore(i) \subseteq Slots /\ PillsBefore(i)' \subseteq Slots
  BY DEF PillsBefore
<1>3. /\ IsFiniteSet(PillsBefore(i)) /\ Cardinality(PillsBefore(i)) \in Nat
      /\ IsFiniteSet(PillsBefore(i)') /\ Cardinality(PillsBefore(i)') \in Nat
  BY <1>1, <1>2, FS_Subset, FS_CardinalityType
<1>4. /\ IsFiniteSet(PillWorkers) /\ Cardinality(PillWorkers) \in Nat
      /\ IsFiniteSet(Usable) /\ Cardinality(Usable) \in Nat
  BY CountFinite
<1>5. /\ IsFiniteSet(PillWorkers') /\ Cardinality(PillWorkers') \in Nat
      /\ IsFiniteSet(Usable') /\ Cardinality(Usable') \in Nat
  <2>1. PillWorkers' \subseteq Contexts /\ Usable' \subseteq Contexts
    BY DEF PillWorkers, Usable, TypeInv
  <2> QED BY <2>1, PoolAssumption, FS_Subset, FS_CardinalityType
<1>6. Cardinality(Usable) > Cardinality(PillsBefore(i)) + Cardinality(PillWorkers)
  BY DEF Enough
<1>7. CASE /\ PillsBefore(i)' \subseteq PillsBefore(i) /\ PillWorkers' \subseteq PillWorkers
           /\ Usable \subseteq Usable'
  <2>1. /\ Cardinality(PillsBefore(i)') <= Cardinality(PillsBefore(i))
        /\ Cardinality(PillWorkers') <= Cardinality(PillWorkers)
        /\ Cardinality(Usable) <= Cardinality(Usable')
    BY <1>3, <1>4, <1>5, <1>7, FS_Subset
  <2> QED BY <1>3, <1>4, <1>5, <1>6, <2>1 DEF Enough
<1>8. ASSUME NEW t \in Contexts,
             qHead \in PillsBefore(i), PillsBefore(i)' \subseteq PillsBefore(i) \ {qHead},
             PillWorkers' \subseteq PillWorkers \cup {t}, Usable \subseteq Usable'
      PROVE  Enough(i)'
  <2>1. /\ IsFiniteSet(PillsBefore(i) \ {qHead})
        /\ Cardinality(PillsBefore(i) \ {qHead}) = Cardinality(PillsBefore(i)) - 1
    BY <1>3, <1>8, FS_RemoveElement
  <2>2. /\ IsFiniteSet(PillWorkers \cup {t})
        /\ Cardinality(PillWorkers \cup {t}) <= Cardinality(PillWorkers) + 1
    BY <1>4, OneMore
  <2>3. /\ Cardinality(PillsBefore(i)') <= Cardinality(PillsBefore(i)) - 1
        /\ Cardinality(PillWorkers') <= Cardinality(PillWorkers \cup {t})
        /\ Cardinality(Usable) <= Cardinality(Usable')
    BY <1>5, <1>8, <2>1, <2>2, FS_Subset
  <2>4. Cardinality(PillWorkers \cup {t}) \in Nat
    BY <2>2, FS_CardinalityType
  <2> QED BY <1>3, <1>4, <1>5, <1>6, <2>2, <2>3, <2>4 DEF Enough
<1>9. ASSUME NEW w \in Contexts, PillsBefore(i)' \subseteq PillsBefore(i),
             w \in PillWorkers, PillWorkers' = PillWorkers \ {w},
             w \in Usable, Usable' = Usable \ {w}
      PROVE  Enough(i)'
  <2>1. Cardinality(PillWorkers') = Cardinality(PillWorkers) - 1
    BY <1>4, <1>9, FS_RemoveElement
  <2>2. Cardinality(Usable') = Cardinality(Usable) - 1
    BY <1>4, <1>9, FS_RemoveElement
  <2>3. Cardinality(PillsBefore(i)') <= Cardinality(PillsBefore(i))
    BY <1>3, <1>9, FS_Subset
  <2> QED BY <1>3, <1>4, <1>5, <1>6, <2>1, <2>2, <2>3 DEF Enough
<1> QED BY <1>7, <1>8, <1>9, PillSteps

\* When run() sees two threads more than it needs, or one while nobody shrinks the pool, there are
\* enough of them for every job in the queue.
LEMMA EnoughCounted ==
  ASSUME TypeInv, MutexInv, ThreadCountExact, pc[Main] = "idle", failures = 0, NEW i \in Slots,
         \/ threadCount >= 2
         \/ threadCount >= 1 /\ \A c \in Clients : ~Shrinking(c)
  PROVE  Enough(i)
<1> USE ThreadKinds
<1>0. threadCount \in Int /\ node \in [AllThreads -> Slots]
  BY DEF TypeInv
<1>1. threadCount + (Cardinality(PillNodes) + Cardinality(PillWorkers))
        = Cardinality(Usable) + Cardinality(Counting)
  BY DEF ThreadCountExact, PillsOnTheWay, PillNodes, PillWorkers, Usable, Counting
<1>2. DOMAIN nodes = Slots
  BY DEF TypeInv
<1>3. \A k \in PillsBefore(i) : k \in PillNodes \/ \E c \in Clients : Sends(c) /\ k = node[c]
  BY <1>2 DEF PillsBefore, Sent, Sends, PillNodes
<1>4. \A c \in Clients : Sends(c) => pc[c] = "shrinkHandOver"
  BY DEF Sends
<1>5. \A c, d \in Clients : Shrinking(c) /\ Shrinking(d) => c = d
  BY DEF MutexInv, Shrinking
<1>6. CASE \A c \in Clients : pc[c] \notin {"shrinkHandOver", "shrinkCount"}
  <2>1. PillsBefore(i) \subseteq PillNodes /\ Counting = {}
    BY <1>3, <1>4, <1>6 DEF Counting
  <2>2. Cardinality(PillsBefore(i)) <= Cardinality(PillNodes) /\ Cardinality(Counting) = 0
    BY <2>1, CountFinite, FS_Subset, FS_EmptySet
  <2>3. Cardinality(PillsBefore(i)) \in Nat
    BY <2>1, CountFinite, FS_Subset, FS_CardinalityType
  <2> QED BY <1>0, <1>1, <2>2, <2>3, CountFinite DEF Enough
<1>7. ASSUME NEW c \in Clients, pc[c] = "shrinkHandOver" PROVE Enough(i)
  <2>1. Counting = {}
    BY <1>5, <1>7 DEF Counting, Shrinking
  <2>2. \A d \in Clients : Sends(d) => d = c
    BY <1>4, <1>5, <1>7 DEF Shrinking
  <2>3. PillsBefore(i) \subseteq PillNodes \cup {node[c]}
    BY <1>3, <2>2
  <2>4. /\ IsFiniteSet(PillNodes \cup {node[c]})
        /\ Cardinality(PillNodes \cup {node[c]}) <= Cardinality(PillNodes) + 1
    BY CountFinite, OneMore
  <2>5. /\ Cardinality(PillsBefore(i)) <= Cardinality(PillNodes \cup {node[c]})
        /\ IsFiniteSet(PillsBefore(i))
    BY <2>3, <2>4, FS_Subset
  <2>6. Cardinality(PillsBefore(i)) \in Nat /\ Cardinality(PillNodes \cup {node[c]}) \in Nat
    BY <2>4, <2>5, FS_CardinalityType
  <2>7. Cardinality(Counting) = 0
    BY <2>1, FS_EmptySet
  <2>8. threadCount >= 2
    BY <1>7 DEF Shrinking
  <2> QED BY <1>0, <1>1, <2>4, <2>5, <2>6, <2>7, <2>8, CountFinite DEF Enough
<1>8. ASSUME NEW c \in Clients, pc[c] = "shrinkCount" PROVE Enough(i)
  <2>1. Counting = {c}
    BY <1>5, <1>8 DEF Counting, Shrinking
  <2>2. \A d \in Clients : ~Sends(d)
    BY <1>4, <1>5, <1>8 DEF Shrinking
  <2>3. PillsBefore(i) \subseteq PillNodes
    BY <1>3, <2>2
  <2>4. Cardinality(PillsBefore(i)) <= Cardinality(PillNodes) /\ Cardinality(Counting) = 1
    BY <2>1, <2>3, CountFinite, FS_Subset, FS_Singleton
  <2>5. Cardinality(PillsBefore(i)) \in Nat
    BY <2>3, CountFinite, FS_Subset, FS_CardinalityType
  <2>6. threadCount >= 2
    BY <1>8 DEF Shrinking
  <2> QED BY <1>0, <1>1, <2>4, <2>5, <2>6, CountFinite DEF Enough
<1> QED BY <1>6, <1>7, <1>8

\* No client is inside the part of run() that shrinks the pool.
NobodyShrinks == \A c \in Clients : ~Shrinking(c)

\* So it is after a step that leaves nobody shrinking the pool.
LEMMA EnoughCountedNext ==
  /\ TypeInv' /\ MutexInv' /\ ThreadCountExact' /\ pc'[Main] = "idle" /\ failures' = 0
  /\ threadCount' >= 1 /\ NobodyShrinks'
  => \A i \in Slots : Enough(i)'
<1>1. /\ TypeInv /\ MutexInv /\ ThreadCountExact /\ pc[Main] = "idle" /\ failures = 0
      /\ threadCount >= 1 /\ NobodyShrinks
      => \A i \in Slots : Enough(i)
  BY EnoughCounted DEF NobodyShrinks
<1>2. (/\ TypeInv /\ MutexInv /\ ThreadCountExact /\ pc[Main] = "idle" /\ failures = 0
       /\ threadCount >= 1 /\ NobodyShrinks
       => \A i \in Slots : Enough(i))'
  BY <1>1, PTL
<1> QED BY <1>2

\* A client that is to compare the numbers goes on with it, unless another one has taken its place.
LEMMA RepairMoves ==
  ASSUME TypeInv, JobsHeld, ContextInv, [Next]_vars, NEW c \in Clients, Repairs(c)
  PROVE  \/ \E d \in Clients : Repairs(d)'
         \/ Adjust(c)
         \/ GrowLocked(c)
<1> USE ThreadKinds DEF counterVars, localVars, After
<1>0. /\ pc \in [AllThreads -> ClientStates \cup MainStates \cup WorkerStates]
      /\ pushed \in Nat /\ processed \in Nat /\ busy \in [Clients -> Int]
      /\ threads \in SUBSET Contexts /\ terminated \in SUBSET Contexts
      /\ context \in [Clients -> Contexts \cup {NoContext}]
  BY DEF TypeInv
<1>1. CASE Quiet
  BY <1>0, <1>1 DEF Quiet, Trying, Before, Repairs
<1>2. ASSUME NEW t \in AllThreads, TryOk(t) \/ Handed(t) PROVE Repairs(c)'
  BY <1>0, <1>2 DEF TryOk, Handed, Goto, Repairs
<1>3. ASSUME NEW w \in Contexts, Execute(w) \/ CountProcessed(w) \/ Exit(w) PROVE Repairs(c)'
  BY <1>0, <1>3 DEF Execute, CountProcessed, Exit, Goto, Repairs
<1>4. ASSUME NEW d \in Clients, RunBegin(d) PROVE Repairs(c)'
  BY <1>0, <1>4 DEF RunBegin, Goto, Repairs
<1>5. ASSUME NEW d \in Clients, CountPushed(d) PROVE Repairs(d)'
  BY <1>0, <1>5 DEF CountPushed, Goto, Repairs
<1>6. ASSUME NEW d \in Clients, ReadProcessed(d) PROVE Repairs(c)'
  <2>1. CASE d = c
    BY <1>0, <1>6, <2>1 DEF ReadProcessed, Goto, Repairs
  <2>2. CASE d # c
    BY <1>0, <1>6, <2>2 DEF ReadProcessed, Goto, Repairs
  <2> QED BY <2>1, <2>2
<1>7. ASSUME NEW d \in Clients, Adjust(d), d # c PROVE Repairs(c)'
  BY <1>0, <1>7 DEF Adjust, Return, Goto, Repairs
<1>8. ASSUME NEW d \in Clients, GrowLocked(d), d # c PROVE Repairs(c)'
  <2>1. pc'[c] = pc[c] /\ busy'[c] = busy[c] /\ UNCHANGED <<pushed, processed>>
    BY <1>0, <1>8 DEF GrowLocked, Return
  <2> QED BY <2>1 DEF Repairs
<1>9. ASSUME NEW d \in Clients, StartThread(d) \/ StoreHandle(d) \/ StartFails(d) PROVE Repairs(c)'
  <2>1. pc[d] = "start" => context[d] \in Contexts
    BY <1>0 DEF ContextInv
  <2>2. pc[c] \notin {"start", "storeHandle"}
    BY DEF Repairs
  <2> QED BY <1>0, <1>9, <2>1, <2>2 DEF StartThread, StoreHandle, StartFails, Return, Goto, Repairs
<1>10. ASSUME NEW d \in Clients, ShrinkPush(d) \/ ShrinkHandOver(d) \/ ShrinkCount(d)
       PROVE  Repairs(c)'
  BY <1>0, <1>10 DEF ShrinkPush, ShrinkLock, ShrinkTry, Refused, ShrinkHandOver, ShrinkCount, Goto, Repairs
<1>11. ASSUME NEW d \in Clients, ShrinkReap(d) PROVE Repairs(c)'
  <2>1. d # c
    BY <1>11 DEF ShrinkReap, Repairs
  <2>2. pc'[c] = pc[c] /\ busy'[c] = busy[c] /\ UNCHANGED <<pushed, processed>>
    BY <1>0, <1>11, <2>1 DEF ShrinkReap, Return
  <2> QED BY <2>2 DEF Repairs
<1>12. CASE DestroyBegin \/ SendPill \/ PillSent \/ JoinAll
  BY <1>0, <1>12 DEF DestroyBegin, SendPill, PillSent, JoinAll, Goto, Repairs
<1> QED
  BY <1>1, <1>2, <1>3, <1>4, <1>5, <1>6, <1>7, <1>8, <1>9, <1>10, <1>11, <1>12, Steps

\* All that the next lemma needs of the state.
PoolSound == IInv /\ ThreadCountExact /\ MutexInv /\ SpareInv /\ WorkInv

\* The client that compares the numbers last starts a worker, or finds enough of them.
LEMMA RepairStep ==
  PoolSound /\ PoolSound' /\ RepairInv /\ [Next]_vars => RepairInv'
<1> SUFFICES ASSUME PoolSound, PoolSound', RepairInv, [Next]_vars, failures' = 0,
                    NEW i \in Slots, nodes'[i] \in Jobs
             PROVE  Enough(i)' \/ \E c \in Clients : Repairs(c)'
  BY DEF RepairInv, JobNodes
<1> USE ThreadKinds
<1>0. /\ TypeInv /\ TypeInv' /\ JobsHeld /\ ContextInv /\ OwnInv /\ RingInv /\ ShutdownInv
      /\ ShutdownInv'
      /\ ThreadCountExact /\ ThreadCountExact' /\ MutexInv /\ MutexInv' /\ SpareInv /\ WorkInv
  BY DEF PoolSound, IInv, CoreInv
<1>1. failures = 0
  BY <1>0, MainLeaves DEF TypeInv
<1>2. CASE nodes[i] \notin Jobs
  <2>1. i \in JobNodes' /\ i \notin JobNodes
    BY <1>2 DEF JobNodes
  <2>2. PICK c \in Clients : Uncounted' = Uncounted \cup {c}
    BY <1>0, <2>1, WorkSteps DEF WorkVars
  <2>3. pc'[c] \in After
    BY <2>2 DEF Uncounted
  <2> QED BY <2>3 DEF Repairs
<1>3. CASE nodes[i] \in Jobs /\ Enough(i)
  BY <1>0, <1>3, EnoughStep
<1>4. ASSUME nodes[i] \in Jobs, NEW c \in Clients, Repairs(c), Adjust(c),
             \A d \in Clients : pc[d] \notin After
      PROVE  Enough(i)' \/ Repairs(c)'
  <2>1. /\ pc[c] = "adjust" /\ busy[c] >= pushed - processed
        /\ pc \in [AllThreads -> ClientStates \cup MainStates \cup WorkerStates]
        /\ pushed \in Nat /\ processed \in Nat /\ busy[c] \in Int /\ threadCount \in Int
    BY <1>0, <1>4 DEF Adjust, Goto, Repairs, After, TypeInv
  <2>2. Cardinality(JobNodes) \in Nat \ {0} /\ Cardinality(JobWorkers) \in Nat
    <3>1. JobNodes # {}
      BY <1>4 DEF JobNodes
    <3> QED BY <1>0, <3>1, WorkFinite, FS_EmptySet
  <2>3. Cardinality(Uncounted) = 0
    <3>1. Uncounted = {}
      BY <1>4 DEF Uncounted
    <3> QED BY <3>1, FS_EmptySet
  <2>4. busy[c] >= 1
    BY <1>0, <2>1, <2>2, <2>3 DEF WorkInv
  <2>5. CASE Grow(c)
    BY <1>4, <2>1, <2>4, <2>5 DEF Adjust, Grow, Shrink, Idle, Goto, Repairs
  <2>6. CASE ~Grow(c)
    <3>1. threadCount >= 2
      BY PoolAssumption, <2>1, <2>4, <2>6 DEF Grow, Idle
    <3>2. pc[Main] = "idle"
      BY <1>0, <2>1 DEF ShutdownInv
    <3>3. Enough(i)
      BY <1>0, <1>1, <3>1, <3>2, EnoughCounted
    <3> QED BY <1>0, <1>4, <3>3, EnoughStep
  <2> QED BY <2>5, <2>6
<1>5. ASSUME NEW c \in Clients, GrowLocked(c) PROVE Enough(i)'
  <2>1. pc[c] = "growLock" /\ mutex' = NoContext
    BY <1>5 DEF GrowLocked
  <2>2. threadCount' >= 1
    <3>1. threadCount \in Int /\ threadCount >= 0
      BY <1>0 DEF TypeInv, SpareInv
    <3> QED BY PoolAssumption, <1>5, <3>1 DEF GrowLocked
  <2>3. \A d \in Clients : ~Shrinking(d)'
    BY PoolAssumption, <1>0, <2>1 DEF MutexInv, Shrinking
  <2>4. pc'[Main] = "idle"
    <3>1. pc[Main] = "idle"
      BY <1>0, <2>1 DEF ShutdownInv
    <3> QED BY <1>0, <1>5, <3>1 DEF GrowLocked, TypeInv
  <2> QED BY <1>0, <2>2, <2>3, <2>4, EnoughCountedNext DEF NobodyShrinks
<1>6. ASSUME nodes[i] \in Jobs, NEW c \in Clients, Repairs(c)
      PROVE  Enough(i)' \/ \E d \in Clients : Repairs(d)'
  <2>1. CASE \E d \in Clients : Repairs(d)'
    BY <2>1
  <2>2. CASE GrowLocked(c)
    BY <1>5, <2>2
  <2>3. CASE Adjust(c) /\ \A d \in Clients : pc[d] \notin After
    BY <1>4, <1>6, <2>3
  <2>4. ASSUME Adjust(c), NEW d \in Clients, pc[d] \in After PROVE Repairs(d)'
    <3>1. pc'[d] = pc[d]
      BY <1>0, <2>4 DEF Adjust, Goto, After, TypeInv
    <3> QED BY <2>4, <3>1 DEF Repairs
  <2> QED BY <1>0, <1>6, <2>1, <2>2, <2>3, <2>4, RepairMoves
<1> QED BY <1>1, <1>2, <1>3, <1>6 DEF RepairInv, JobNodes

\* At first nothing is pushed and nobody counts.
LEMMA PoolInit == Init => MutexInv /\ SpareInv /\ WorkInv /\ RepairInv
<1> SUFFICES ASSUME Init PROVE MutexInv /\ SpareInv /\ WorkInv /\ RepairInv
  OBVIOUS
<1> USE Values, ThreadKinds
<1>1. PICK W \in SUBSET Contexts :
        /\ pushed = Cardinality(W) /\ processed = Cardinality(W) /\ threadCount = Cardinality(W)
        /\ pc = [t \in AllThreads |-> CASE t \in W -> "asleep"
                                         [] t \in Contexts \ W -> "none"
                                         [] OTHER -> "idle"]
  BY DEF Init
<1>2. \A c \in Clients : pc[c] = "idle"
  BY <1>1
<1>3. Cardinality(W) \in Nat
  BY PoolAssumption, FS_Subset, FS_CardinalityType
<1>4. JobNodes = {} /\ JobWorkers = {} /\ Uncounted = {}
  <2>1. JobNodes = {}
    BY DEF Init, JobNodes, Slots, Filled
  <2>2. JobWorkers = {}
    BY DEF Init, JobWorkers
  <2>3. Uncounted = {}
    BY <1>2 DEF Uncounted, After
  <2> QED BY <2>1, <2>2, <2>3
<1>5. WorkInv
  BY <1>1, <1>3, <1>4, FS_EmptySet DEF WorkInv
<1>6. MutexInv /\ SpareInv
  BY <1>1, <1>2, <1>3 DEF MutexInv, SpareInv
<1> QED BY <1>4, <1>5, <1>6 DEF RepairInv

\* It holds in every reachable state.
THEOREM RepairInvariance == Spec => [](PoolSound /\ RepairInv)
<1>1. IInv /\ IInv' /\ MutexInv /\ SpareInv /\ WorkInv /\ [Next]_vars => MutexInv' /\ SpareInv' /\ WorkInv'
  BY MutexStep, SpareStep, WorkStep DEF IInv, CoreInv
<1>2. PoolSound <=> IInv /\ ThreadCountExact /\ MutexInv /\ SpareInv /\ WorkInv
  BY DEF PoolSound
<1> QED BY <1>1, <1>2, PoolInit, RepairStep, Invariance, CountIsExact, PTL DEF Spec

\* Every job was executed and every thread has ended when the destructor returns (Future.cpp
\* 67-82): the jobs {0, 0} it sends are behind all others, run() has left more workers than it
\* sent home before any of them, and the destructor joins them all.
THEOREM ShutdownIsClean == Spec => []CleanShutdown
<1>1. PoolSound /\ RepairInv => CleanShutdown
  <2> SUFFICES ASSUME PoolSound, RepairInv, pc[Main] = "deleted", failures = 0
               PROVE  /\ \A n \in 1 .. calls : ran[<<"job", n>>] = 1
                      /\ \A w \in Contexts : pc[w] \in {"none", "ended"}
    BY DEF CleanShutdown
  <2> USE ThreadKinds
  <2>0. TypeInv /\ JobsHeld /\ ContextInv /\ PlaceInv /\ ShutdownInv
    BY DEF PoolSound, IInv, CoreInv
  <2>1. /\ \A c \in Clients : pc[c] = "idle"
        /\ \A w \in Contexts : pc[w] \in {"none", "ended"}
    BY <2>0 DEF ShutdownInv, Alive
  <2>2. \A i \in Slots : nodes[i] \notin Jobs
    <3> SUFFICES ASSUME NEW i \in Slots, nodes[i] \in Jobs PROVE FALSE
      OBVIOUS
    <3>1. \A c \in Clients : ~Repairs(c)
      BY <2>1 DEF Repairs, After
    <3>2. Enough(i)
      BY <3>1 DEF RepairInv, JobNodes
    <3>3. Usable = {}
      BY <2>0, <2>1 DEF Usable, ContextInv, TypeInv
    <3>4. Cardinality(Usable) = 0 /\ Cardinality(PillWorkers) \in Nat
      BY <2>0, <3>3, CountFinite, FS_EmptySet
    <3>5. Cardinality(PillsBefore(i)) \in Nat
      <4>1. PillsBefore(i) \subseteq Slots /\ IsFiniteSet(Slots)
        BY SlotsFinite DEF PillsBefore
      <4> QED BY <4>1, FS_Subset, FS_CardinalityType
    <3> QED BY <3>2, <3>4, <3>5 DEF Enough
  <2>3. \A t \in AllThreads : ~Holds(t)
    BY <2>1 DEF Holds, Carrying, Before, After
  <2>4. ASSUME NEW n \in 1 .. calls PROVE ran[<<"job", n>>] = 1
    <3>1. <<"job", n>> \in Jobs
      BY PoolAssumption, <2>0, Values DEF TypeInv
    <3>2. Place(<<"job", n>>)
      BY <2>0 DEF PlaceInv
    <3> QED BY <2>2, <2>3, <3>1, <3>2 DEF Place, HeldBy
  <2> QED BY <2>1, <2>4
<1> QED BY <1>1, RepairInvariance, PTL
=============================================================================
