--------------------------- MODULE LockFreeQueue ---------------------------
(***************************************************************************)
(* Future<void>::Private::LockFreeQueue<T> of src/src/Future.cpp: the      *)
(* bounded multi-producer multi-consumer ring through which Future::start  *)
(* hands jobs to the worker threads.                                       *)
(*                                                                         *)
(* One action is one access to shared memory: a read of _tail or _head, a  *)
(* read of a node's ticket, a compare-and-swap, the copy of the data, the  *)
(* swap that hands the node over.  The accesses are taken to be            *)
(* sequentially consistent (the compare-and-swap and the swap are full     *)
(* barriers, and every plain read of a node follows one).  Tickets are     *)
(* natural numbers: a usize does not wrap in the life of a process.        *)
(***************************************************************************)
EXTENDS Integers, Sequences, FiniteSets

CONSTANTS Threads,    \* every thread may push and pop
          Values,     \* the jobs
          Capacity,   \* _capacity, as the constructor rounded it up
          MaxPushes   \* bound: no push begins once so many tickets are taken

ASSUME CapacityAssumption == Capacity \in Nat \ {0}
ASSUME BoundAssumption == MaxPushes \in Nat

\* The bytes of a node's data where no T is constructed.
Raw == "raw"
ASSUME RawAssumption == Raw \notin Values

VARIABLES
  tail,       \* _tail: the next ticket for a push
  head,       \* _head: the next ticket for a pop
  nodeTail,   \* Node::tail of each node: the ticket that may fill it
  nodeHead,   \* Node::head of each node: the ticket that may empty it
  data,       \* Node::data of each node
  pc,         \* where each thread is
  loc,        \* its local variable tail of push, head of pop and of size
  val,        \* the argument of push, the result of pop
  excused     \* history: a false return of the running call is justified

vars == <<tail, head, nodeTail, nodeHead, data, pc, loc, val, excused>>

Slots == 0 .. Capacity - 1

\* ticket & _capacityMask
Slot(ticket) == ticket % Capacity

PushStates == {"pushCheck", "pushCAS"}
PopStates == {"popCheck", "popCAS"}
PushOwner == {"pushWrite", "pushPublish"}
PopOwner == {"popRead", "popRelease"}

\* The queue refuses a push (a pop) now: the next ticket's node has not been
\* released (published) yet.
FullNow(tl, nt) == nt[Slot(tl)] # tl
EmptyNow(hd, nh) == nh[Slot(hd)] # hd

Init == /\ tail = 0
        /\ head = 0
        /\ nodeTail = [s \in Slots |-> s]
        /\ nodeHead = [s \in Slots |-> -1]
        /\ data = [s \in Slots |-> Raw]
        /\ pc = [t \in Threads |-> "idle"]
        /\ loc = [t \in Threads |-> 0]
        /\ val = [t \in Threads |-> Raw]
        /\ excused = [t \in Threads |-> FALSE]

Goto(t, from, to) == /\ pc[t] = from
                     /\ pc' = [pc EXCEPT ![t] = to]

\* The call returns and its local variables are gone.
Return(t, from) == /\ Goto(t, from, "idle")
                   /\ loc' = [loc EXCEPT ![t] = 0]
                   /\ val' = [val EXCEPT ![t] = Raw]

\* The calls in the states S have an excuse from now on, if cond; the call of t
\* can no longer fail.
ExcuseAll(t, S, cond) ==
  excused' = [u \in Threads |-> u # t /\ (excused[u] \/ (cond /\ pc[u] \in S))]

-----------------------------------------------------------------------------
(* push *)

PushBegin(t, v) ==
  /\ tail < MaxPushes
  /\ Goto(t, "idle", "pushCheck")
  /\ loc' = [loc EXCEPT ![t] = tail]
  /\ val' = [val EXCEPT ![t] = v]
  /\ excused' = [excused EXCEPT ![t] = FullNow(tail, nodeTail)]
  /\ UNCHANGED <<tail, head, nodeTail, nodeHead, data>>

\* node->tail == tail
PushCheck(t) ==
  /\ nodeTail[Slot(loc[t])] = loc[t]
  /\ Goto(t, "pushCheck", "pushCAS")
  /\ UNCHANGED <<tail, head, nodeTail, nodeHead, data, loc, val, excused>>

\* node->tail != tail: return false
PushFail(t) ==
  /\ nodeTail[Slot(loc[t])] # loc[t]
  /\ Return(t, "pushCheck")
  /\ excused' = [excused EXCEPT ![t] = FALSE]
  /\ UNCHANGED <<tail, head, nodeTail, nodeHead, data>>

\* Mutant: the ticket is taken without comparing.
PushCASBlind(t) ==
  /\ Goto(t, "pushCAS", "pushWrite")
  /\ tail' = tail + 1
  /\ ExcuseAll(t, PushStates, FullNow(tail + 1, nodeTail))
  /\ UNCHANGED <<head, nodeTail, nodeHead, data, loc, val>>

\* compareAndSwap(_tail, tail, tail + 1) == tail
PushCAS(t) ==
  /\ tail = loc[t]
  /\ Goto(t, "pushCAS", "pushWrite")
  /\ tail' = tail + 1
  /\ ExcuseAll(t, PushStates, FullNow(tail + 1, nodeTail))
  /\ UNCHANGED <<head, nodeTail, nodeHead, data, loc, val>>

\* Mutant: the retry continues behind the ticket the compare-and-swap returned.
PushRetryNext(t) ==
  /\ tail # loc[t]
  /\ Goto(t, "pushCAS", "pushCheck")
  /\ loc' = [loc EXCEPT ![t] = tail + 1]
  /\ UNCHANGED <<tail, head, nodeTail, nodeHead, data, val, excused>>

\* the compare-and-swap lost: for (;; tail = next)
PushRetry(t) ==
  /\ tail # loc[t]
  /\ Goto(t, "pushCAS", "pushCheck")
  /\ loc' = [loc EXCEPT ![t] = tail]
  /\ UNCHANGED <<tail, head, nodeTail, nodeHead, data, val, excused>>

\* new (&node->data) T(data)
PushWrite(t) ==
  /\ Goto(t, "pushWrite", "pushPublish")
  /\ data' = [data EXCEPT ![Slot(loc[t])] = val[t]]
  /\ UNCHANGED <<tail, head, nodeTail, nodeHead, loc, val, excused>>

\* Atomic::swap(node->head, tail); return true
PushPublish(t) ==
  /\ Return(t, "pushPublish")
  /\ nodeHead' = [nodeHead EXCEPT ![Slot(loc[t])] = loc[t]]
  /\ ExcuseAll(t, PopStates, TRUE)
  /\ UNCHANGED <<tail, head, nodeTail, data>>

-----------------------------------------------------------------------------
(* pop *)

PopBegin(t) ==
  /\ Goto(t, "idle", "popCheck")
  /\ loc' = [loc EXCEPT ![t] = head]
  /\ excused' = [excused EXCEPT ![t] = EmptyNow(head, nodeHead)]
  /\ UNCHANGED <<tail, head, nodeTail, nodeHead, data, val>>

\* Mutant: a node is taken without looking whether it is published.
PopCheckNothing(t) ==
  /\ Goto(t, "popCheck", "popCAS")
  /\ UNCHANGED <<tail, head, nodeTail, nodeHead, data, loc, val, excused>>

\* node->head == head
PopCheck(t) ==
  /\ nodeHead[Slot(loc[t])] = loc[t]
  /\ Goto(t, "popCheck", "popCAS")
  /\ UNCHANGED <<tail, head, nodeTail, nodeHead, data, loc, val, excused>>

\* node->head != head: return false
PopFail(t) ==
  /\ nodeHead[Slot(loc[t])] # loc[t]
  /\ Return(t, "popCheck")
  /\ excused' = [excused EXCEPT ![t] = FALSE]
  /\ UNCHANGED <<tail, head, nodeTail, nodeHead, data>>

\* compareAndSwap(_head, head, head + 1) == head
PopCAS(t) ==
  /\ head = loc[t]
  /\ Goto(t, "popCAS", "popRead")
  /\ head' = head + 1
  /\ ExcuseAll(t, PopStates, EmptyNow(head + 1, nodeHead))
  /\ UNCHANGED <<tail, nodeTail, nodeHead, data, loc, val>>

PopRetry(t) ==
  /\ head # loc[t]
  /\ Goto(t, "popCAS", "popCheck")
  /\ loc' = [loc EXCEPT ![t] = head]
  /\ UNCHANGED <<tail, head, nodeTail, nodeHead, data, val, excused>>

\* Mutant: the T in the node is copied and not destroyed.
PopReadLeak(t) ==
  /\ Goto(t, "popRead", "popRelease")
  /\ val' = [val EXCEPT ![t] = data[Slot(loc[t])]]
  /\ UNCHANGED <<tail, head, nodeTail, nodeHead, data, loc, excused>>

\* result = node->data; (&node->data)->~T()
PopRead(t) ==
  /\ Goto(t, "popRead", "popRelease")
  /\ val' = [val EXCEPT ![t] = data[Slot(loc[t])]]
  /\ data' = [data EXCEPT ![Slot(loc[t])] = Raw]
  /\ UNCHANGED <<tail, head, nodeTail, nodeHead, loc, excused>>

\* Atomic::swap(node->tail, head + _capacity); return true
PopRelease(t) ==
  /\ Return(t, "popRelease")
  /\ nodeTail' = [nodeTail EXCEPT ![Slot(loc[t])] = loc[t] + Capacity]
  /\ ExcuseAll(t, PushStates, TRUE)
  /\ UNCHANGED <<tail, head, nodeHead, data>>

-----------------------------------------------------------------------------
(* size reads _head, then, behind a barrier, _tail *)

SizeBegin(t) ==
  /\ Goto(t, "idle", "sizeTail")
  /\ loc' = [loc EXCEPT ![t] = head]
  /\ UNCHANGED <<tail, head, nodeTail, nodeHead, data, val, excused>>

\* Mutant: the reads are taken in the other order.
SizeResultSwapped(t) == loc[t] - head

\* What size() returns when its second read happens now.
SizeResult(t) == tail - loc[t]

SizeEnd(t) ==
  /\ Return(t, "sizeTail")
  /\ UNCHANGED <<tail, head, nodeTail, nodeHead, data, excused>>

\* The nodes whose data the destructor destroys, for (i = _head; i != _tail;).
Destroyed == [i \in head .. tail - 1 |-> Slot(i)]

-----------------------------------------------------------------------------
Push(t) == \/ \E v \in Values : PushBegin(t, v)
           \/ PushCheck(t) \/ PushFail(t) \/ PushCAS(t) \/ PushRetry(t)
           \/ PushWrite(t) \/ PushPublish(t)

Pop(t) == \/ PopBegin(t) \/ PopCheck(t) \/ PopFail(t) \/ PopCAS(t)
          \/ PopRetry(t) \/ PopRead(t) \/ PopRelease(t)

Size(t) == SizeBegin(t) \/ SizeEnd(t)

Next == \E t \in Threads : Push(t) \/ Pop(t) \/ Size(t)

Spec == Init /\ [][Next]_vars
-----------------------------------------------------------------------------
(* Properties *)

\* The variables hold what the C++ types and the algorithm let them hold.
TypeOK ==
  /\ tail \in Nat
  /\ head \in Nat
  /\ nodeTail \in [Slots -> Nat]
  /\ nodeHead \in [Slots -> Nat \cup {-1}]
  /\ data \in [Slots -> Values \cup {Raw}]
  /\ pc \in [Threads -> {"idle", "sizeTail"} \cup PushStates \cup PopStates
                           \cup PushOwner \cup PopOwner]
  /\ loc \in [Threads -> Nat]
  /\ val \in [Threads -> Values \cup {Raw}]
  /\ excused \in [Threads -> BOOLEAN]

Owns(t) == pc[t] \in PushOwner \cup PopOwner

\* Two threads between their compare-and-swap and the swap that hands the
\* node over are never at the same node: the unprotected writes and reads of
\* Node::data (Future.cpp 310, 328-329) do not race, whatever the threads that
\* wrap around the ring do.
NoDataRace ==
  \A t, u \in Threads : t # u /\ Owns(t) /\ Owns(u) => Slot(loc[t]) # Slot(loc[u])

\* push returns false only if, at some instant of the call, the node of the
\* next ticket was not released, or a pop released a node during the call; and
\* likewise pop.  The stale-ticket case is the second one: the queue need not
\* have been full (empty) at any instant.  The retry loops of ThreadPool rely on
\* it: whoever made the call fail sets the signal after it.
FailureExcused ==
  \A t \in Threads :
    /\ pc[t] = "pushCheck" /\ nodeTail[Slot(loc[t])] # loc[t] => excused[t]
    /\ pc[t] = "popCheck" /\ nodeHead[Slot(loc[t])] # loc[t] => excused[t]

\* size() never underflows, although both ends move between its two reads.
SizeNoUnderflow ==
  \A t \in Threads : pc[t] = "sizeTail" => SizeResult(t) >= 0

\* Between calls the constructed T objects are exactly those the destructor
\* destroys, each once.
DestructorSound ==
  (\A t \in Threads : ~Owns(t)) =>
    /\ \A i, j \in DOMAIN Destroyed : i # j => Destroyed[i] # Destroyed[j]
    /\ \A s \in Slots :
         data[s] # Raw <=> \E i \in DOMAIN Destroyed : Destroyed[i] = s

-----------------------------------------------------------------------------
(* Refinement: the queue is a bounded FIFO queue. *)

\* The value of a ticket that is pushed and not popped: still with the thread
\* that pushes it, or in its node.
TicketValue(i) ==
  IF \E t \in Threads : pc[t] = "pushWrite" /\ loc[t] = i
  THEN val[CHOOSE t \in Threads : pc[t] = "pushWrite" /\ loc[t] = i]
  ELSE data[Slot(i)]

\* What the running call of a thread has done so far.
CallOf(t) ==
  CASE pc[t] \in PushStates -> [kind |-> "pushing", value |-> val[t]]
    [] pc[t] \in PushOwner -> [kind |-> "pushed"]
    [] pc[t] \in PopStates -> [kind |-> "popping"]
    [] pc[t] = "popRead" -> [kind |-> "popped", value |-> data[Slot(loc[t])]]
    [] pc[t] = "popRelease" -> [kind |-> "popped", value |-> val[t]]
    [] OTHER -> [kind |-> "idle"]

\* The queued values, oldest first, and what every thread is doing.
Items == [i \in 1 .. tail - head |-> TicketValue(head + i - 1)]
Calls == [t \in Threads |-> CallOf(t)]

Fifo == INSTANCE BoundedFifo WITH items <- Items, op <- Calls

\* Every push and pop takes effect at its compare-and-swap, as one step of a
\* bounded FIFO queue: nothing is lost, duplicated or reordered, and there are
\* never more than Capacity values.
FifoSpec == Fifo!Spec
=============================================================================
