---------------------------- MODULE BoundedFifo ----------------------------
(***************************************************************************)
(* What LockFreeQueue promises to the thread pool: a bounded first-in      *)
(* first-out queue whose operations take effect at one instant between     *)
(* call and return.  A call may also return false without any effect;      *)
(* when the lock-free queue is allowed to do that is stated in             *)
(* LockFreeQueue.tla (FailureExcused), not here.                           *)
(***************************************************************************)
EXTENDS Naturals, Sequences

CONSTANTS Threads,   \* the threads that call push and pop
          Values,    \* what is queued
          Capacity   \* the most values the queue holds

VARIABLES items,     \* the queued values, oldest first
          op         \* what each thread is doing

fifoVars == <<items, op>>

Idle == [kind |-> "idle"]
Pushing(v) == [kind |-> "pushing", value |-> v]
Pushed == [kind |-> "pushed"]
Popping == [kind |-> "popping"]
Popped(v) == [kind |-> "popped", value |-> v]

Init == /\ items = <<>>
        /\ op = [t \in Threads |-> Idle]

CallPush(t, v) == /\ op[t] = Idle
                  /\ op' = [op EXCEPT ![t] = Pushing(v)]
                  /\ UNCHANGED items

CallPop(t) == /\ op[t] = Idle
              /\ op' = [op EXCEPT ![t] = Popping]
              /\ UNCHANGED items

\* The push takes effect: the value is the youngest of at most Capacity.
Enqueue(t, v) == /\ op[t] = Pushing(v)
                 /\ Len(items) < Capacity
                 /\ items' = Append(items, v)
                 /\ op' = [op EXCEPT ![t] = Pushed]

\* The pop takes effect: it takes the oldest value.
Dequeue(t) == /\ op[t] = Popping
              /\ items # <<>>
              /\ items' = Tail(items)
              /\ op' = [op EXCEPT ![t] = Popped(Head(items))]

\* true is returned after the effect, false without one.
Return(t) == /\ op[t] # Idle
             /\ op' = [op EXCEPT ![t] = Idle]
             /\ UNCHANGED items

Next == \E t \in Threads : \/ \E v \in Values : CallPush(t, v) \/ Enqueue(t, v)
                           \/ CallPop(t) \/ Dequeue(t) \/ Return(t)

Spec == Init /\ [][Next]_fifoVars
=============================================================================
