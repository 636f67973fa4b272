------------------------ MODULE LockFreeQueue_proofs ------------------------
(***************************************************************************)
(* Proofs about LockFreeQueue for every set of threads, every capacity and *)
(* every number of pushes.                                                 *)
(*                                                                         *)
(* A node goes through four phases for the ticket k it is next used for:   *)
(* free (nodeTail = k), being filled by the thread that took k, filled     *)
(* (nodeHead = k as well), being emptied by the thread that popped k.  The *)
(* inductive invariant says which phase the two tickets in a node and the  *)
(* two ends of the queue put it in.                                        *)
(***************************************************************************)
EXTENDS LockFreeQueue, SequenceTheorems, TLAPS

\* The ends of the queue, and the tickets a node can hold.
NodeInv ==
  /\ head <= tail
  /\ tail <= head + Capacity
  /\ \A s \in Slots :
       /\ nodeTail[s] < head + Capacity
       /\ nodeHead[s] < tail
       /\ nodeHead[s] \in {nodeTail[s], nodeTail[s] - Capacity, -1}

\* The node of every ticket between the ends belongs to that ticket.
TicketInv ==
  \A k \in Nat : head <= k /\ k < tail => nodeTail[Slot(k)] = k

\* A thread that took a ticket finds its node in the phase it needs.
OwnerInv ==
  \A t \in Threads :
    /\ pc[t] \in PushOwner => /\ head <= loc[t]
                              /\ loc[t] < tail
                              /\ nodeTail[Slot(loc[t])] = loc[t]
                              /\ nodeHead[Slot(loc[t])] < loc[t]
    /\ pc[t] \in PopOwner => /\ loc[t] < head
                             /\ nodeTail[Slot(loc[t])] = loc[t]
                             /\ nodeHead[Slot(loc[t])] = loc[t]

\* What a thread checked is still true if its compare-and-swap succeeds.
CheckedInv ==
  \A t \in Threads :
    /\ pc[t] \in PushStates => loc[t] <= tail
    /\ pc[t] \in PopStates => loc[t] <= head
    /\ pc[t] = "pushCAS" /\ loc[t] = tail => nodeTail[Slot(loc[t])] = loc[t]
    /\ pc[t] = "popCAS" /\ loc[t] = head => nodeHead[Slot(loc[t])] = loc[t]

\* size() holds an old value of _head.
SizeInv == \A t \in Threads : pc[t] = "sizeTail" => loc[t] <= head

\* A call without excuse sees the ends of the queue open, and so does its ticket.
ExcuseInv ==
  \A t \in Threads :
    /\ pc[t] \in PushStates /\ ~excused[t] =>
         /\ nodeTail[Slot(tail)] = tail
         /\ nodeTail[Slot(loc[t])] = loc[t]
    /\ pc[t] \in PopStates /\ ~excused[t] =>
         /\ nodeHead[Slot(head)] = head
         /\ nodeHead[Slot(loc[t])] = loc[t]

\* The inductive invariant.
IInv == /\ TypeOK
        /\ NodeInv
        /\ TicketInv
        /\ OwnerInv
        /\ CheckedInv
        /\ SizeInv
        /\ ExcuseInv
        /\ NoDataRace

-----------------------------------------------------------------------------
\* Every ticket has a node.
LEMMA SlotType == /\ \A k \in Nat : Slot(k) \in Slots
                  /\ Slots \subseteq Nat
  BY CapacityAssumption DEF Slot, Slots

\* The empty queue satisfies the invariant.
LEMMA InitIInv == Init => IInv
  <1> SUFFICES ASSUME Init PROVE IInv
    OBVIOUS
  <1> USE CapacityAssumption DEF Init
  <1>1. TypeOK
    BY DEF TypeOK, Slots
  <1>2. NodeInv
    BY DEF NodeInv, Slots
  <1>3. TicketInv
    BY SlotType DEF TicketInv
  <1>4. OwnerInv
    BY DEF OwnerInv, PushOwner, PopOwner
  <1>5. CheckedInv
    BY DEF CheckedInv, PushStates, PopStates
  <1>6. SizeInv
    BY DEF SizeInv
  <1>7. ExcuseInv
    BY SlotType DEF ExcuseInv, PushStates, PopStates
  <1>8. NoDataRace
    BY DEF NoDataRace, Owns, PushOwner, PopOwner
  <1> QED BY <1>1, <1>2, <1>3, <1>4, <1>5, <1>6, <1>7, <1>8 DEF IInv

\* A push that reads a ticket keeps the invariant.
LEMMA PushBeginStep ==
  ASSUME IInv, NEW t \in Threads, NEW v \in Values, PushBegin(t, v)
  PROVE IInv'
  <1> USE CapacityAssumption DEF IInv, TypeOK, PushBegin, Goto, FullNow,
          PushStates, PopStates, PushOwner, PopOwner
  <1>1. TypeOK' OBVIOUS
  <1>2. NodeInv' BY DEF NodeInv
  <1>3. TicketInv' BY DEF TicketInv
  <1>4. OwnerInv' BY DEF OwnerInv
  <1>5. CheckedInv' BY DEF CheckedInv
  <1>6. SizeInv' BY DEF SizeInv
  <1>7. ExcuseInv' BY DEF ExcuseInv
  <1>8. NoDataRace' BY DEF NoDataRace, Owns
  <1> QED BY <1>1, <1>2, <1>3, <1>4, <1>5, <1>6, <1>7, <1>8

\* A push that looks at the node of its ticket keeps the invariant.
LEMMA PushCheckStep ==
  ASSUME IInv, NEW t \in Threads, PushCheck(t)
  PROVE IInv'
  <1> USE CapacityAssumption DEF IInv, TypeOK, PushCheck, Goto, PushStates,
          PopStates, PushOwner, PopOwner
  <1>1. TypeOK' OBVIOUS
  <1>2. NodeInv' BY DEF NodeInv
  <1>3. TicketInv' BY DEF TicketInv
  <1>4. OwnerInv' BY DEF OwnerInv
  <1>5. CheckedInv' BY DEF CheckedInv
  <1>6. SizeInv' BY DEF SizeInv
  <1>7. ExcuseInv' BY DEF ExcuseInv
  <1>8. NoDataRace' BY DEF NoDataRace, Owns
  <1> QED BY <1>1, <1>2, <1>3, <1>4, <1>5, <1>6, <1>7, <1>8

\* A push that returns false keeps the invariant.
LEMMA PushFailStep ==
  ASSUME IInv, NEW t \in Threads, PushFail(t)
  PROVE IInv'
  <1> USE CapacityAssumption DEF IInv, TypeOK, PushFail, Return, Goto,
          PushStates, PopStates, PushOwner, PopOwner
  <1>1. TypeOK' OBVIOUS
  <1>2. NodeInv' BY DEF NodeInv
  <1>3. TicketInv' BY DEF TicketInv
  <1>4. OwnerInv' BY DEF OwnerInv
  <1>5. CheckedInv' BY DEF CheckedInv
  <1>6. SizeInv' BY DEF SizeInv
  <1>7. ExcuseInv' BY DEF ExcuseInv
  <1>8. NoDataRace' BY DEF NoDataRace, Owns
  <1> QED BY <1>1, <1>2, <1>3, <1>4, <1>5, <1>6, <1>7, <1>8

\* A push that takes a ticket whose node is free keeps the invariant.
LEMMA PushCASStep ==
  ASSUME IInv, NEW t \in Threads, PushCAS(t)
  PROVE IInv'
  <1> USE CapacityAssumption DEF IInv, TypeOK, PushCAS, Goto, ExcuseAll,
          FullNow, PushStates, PopStates, PushOwner, PopOwner
  <1>0. tail = loc[t] /\ nodeTail[Slot(tail)] = tail /\ Slot(tail) \in Slots
    BY SlotType DEF CheckedInv
  <1>1. TypeOK' OBVIOUS
  <1>2. NodeInv' BY <1>0 DEF NodeInv
  <1>3. TicketInv' BY <1>0 DEF TicketInv
  <1>4. OwnerInv' BY <1>0 DEF OwnerInv, NodeInv
  <1>5. CheckedInv' BY DEF CheckedInv
  <1>6. SizeInv' BY DEF SizeInv
  <1>7. ExcuseInv' BY DEF ExcuseInv
  <1>8. NoDataRace' BY <1>0 DEF NoDataRace, OwnerInv, NodeInv, Owns
  <1> QED BY <1>1, <1>2, <1>3, <1>4, <1>5, <1>6, <1>7, <1>8

\* A push that reads the ticket again keeps the invariant.
LEMMA PushRetryStep ==
  ASSUME IInv, NEW t \in Threads, PushRetry(t)
  PROVE IInv'
  <1> USE CapacityAssumption DEF IInv, TypeOK, PushRetry, Goto, PushStates,
          PopStates, PushOwner, PopOwner
  <1>1. TypeOK' OBVIOUS
  <1>2. NodeInv' BY DEF NodeInv
  <1>3. TicketInv' BY DEF TicketInv
  <1>4. OwnerInv' BY DEF OwnerInv
  <1>5. CheckedInv' BY DEF CheckedInv
  <1>6. SizeInv' BY DEF SizeInv
  <1>7. ExcuseInv' BY DEF ExcuseInv
  <1>8. NoDataRace' BY DEF NoDataRace, Owns
  <1> QED BY <1>1, <1>2, <1>3, <1>4, <1>5, <1>6, <1>7, <1>8

\* A push that fills the node it owns keeps the invariant.
LEMMA PushWriteStep ==
  ASSUME IInv, NEW t \in Threads, PushWrite(t)
  PROVE IInv'
  <1> USE CapacityAssumption DEF IInv, TypeOK, PushWrite, Goto, PushStates,
          PopStates, PushOwner, PopOwner
  <1>1. TypeOK' OBVIOUS
  <1>2. NodeInv' BY DEF NodeInv
  <1>3. TicketInv' BY DEF TicketInv
  <1>4. OwnerInv' BY DEF OwnerInv
  <1>5. CheckedInv' BY DEF CheckedInv
  <1>6. SizeInv' BY DEF SizeInv
  <1>7. ExcuseInv' BY DEF ExcuseInv
  <1>8. NoDataRace' BY DEF NoDataRace, Owns
  <1> QED BY <1>1, <1>2, <1>3, <1>4, <1>5, <1>6, <1>7, <1>8

\* A push that hands the node to the pops keeps the invariant.
LEMMA PushPublishStep ==
  ASSUME IInv, NEW t \in Threads, PushPublish(t)
  PROVE IInv'
  <1> USE CapacityAssumption DEF IInv, TypeOK, PushPublish, Return, Goto,
          ExcuseAll, PushStates, PopStates, PushOwner, PopOwner
  <1>1. TypeOK' OBVIOUS
  <1>2. NodeInv' BY SlotType DEF NodeInv, OwnerInv
  <1>3. TicketInv' BY SlotType DEF TicketInv
  <1>4. OwnerInv' BY SlotType DEF OwnerInv, NoDataRace, Owns
  <1>5. CheckedInv' BY SlotType DEF CheckedInv, NodeInv, TicketInv, OwnerInv
  <1>6. SizeInv' BY DEF SizeInv
  <1>7. ExcuseInv' BY SlotType DEF ExcuseInv
  <1>8. NoDataRace' BY DEF NoDataRace, Owns
  <1> QED BY <1>1, <1>2, <1>3, <1>4, <1>5, <1>6, <1>7, <1>8

\* A pop that reads a ticket keeps the invariant.
LEMMA PopBeginStep ==
  ASSUME IInv, NEW t \in Threads, PopBegin(t)
  PROVE IInv'
  <1> USE CapacityAssumption DEF IInv, TypeOK, PopBegin, Goto, EmptyNow,
          PushStates, PopStates, PushOwner, PopOwner
  <1>1. TypeOK' OBVIOUS
  <1>2. NodeInv' BY DEF NodeInv
  <1>3. TicketInv' BY DEF TicketInv
  <1>4. OwnerInv' BY DEF OwnerInv
  <1>5. CheckedInv' BY DEF CheckedInv
  <1>6. SizeInv' BY DEF SizeInv
  <1>7. ExcuseInv' BY DEF ExcuseInv
  <1>8. NoDataRace' BY DEF NoDataRace, Owns
  <1> QED BY <1>1, <1>2, <1>3, <1>4, <1>5, <1>6, <1>7, <1>8

\* A pop that looks at the node of its ticket keeps the invariant.
LEMMA PopCheckStep ==
  ASSUME IInv, NEW t \in Threads, PopCheck(t)
  PROVE IInv'
  <1> USE CapacityAssumption DEF IInv, TypeOK, PopCheck, Goto, PushStates,
          PopStates, PushOwner, PopOwner
  <1>1. TypeOK' OBVIOUS
  <1>2. NodeInv' BY DEF NodeInv
  <1>3. TicketInv' BY DEF TicketInv
  <1>4. OwnerInv' BY DEF OwnerInv
  <1>5. CheckedInv' BY DEF CheckedInv
  <1>6. SizeInv' BY DEF SizeInv
  <1>7. ExcuseInv' BY DEF ExcuseInv
  <1>8. NoDataRace' BY DEF NoDataRace, Owns
  <1> QED BY <1>1, <1>2, <1>3, <1>4, <1>5, <1>6, <1>7, <1>8

\* A pop that returns false keeps the invariant.
LEMMA PopFailStep ==
  ASSUME IInv, NEW t \in Threads, PopFail(t)
  PROVE IInv'
  <1> USE CapacityAssumption DEF IInv, TypeOK, PopFail, Return, Goto,
          PushStates, PopStates, PushOwner, PopOwner
  <1>1. TypeOK' OBVIOUS
  <1>2. NodeInv' BY DEF NodeInv
  <1>3. TicketInv' BY DEF TicketInv
  <1>4. OwnerInv' BY DEF OwnerInv
  <1>5. CheckedInv' BY DEF CheckedInv
  <1>6. SizeInv' BY DEF SizeInv
  <1>7. ExcuseInv' BY DEF ExcuseInv
  <1>8. NoDataRace' BY DEF NoDataRace, Owns
  <1> QED BY <1>1, <1>2, <1>3, <1>4, <1>5, <1>6, <1>7, <1>8

\* A pop that takes a ticket whose node is filled keeps the invariant.
LEMMA PopCASStep ==
  ASSUME IInv, NEW t \in Threads, PopCAS(t)
  PROVE IInv'
  <1> USE CapacityAssumption DEF IInv, TypeOK, PopCAS, Goto, ExcuseAll,
          EmptyNow, PushStates, PopStates, PushOwner, PopOwner
  <1>0. head = loc[t] /\ nodeHead[Slot(head)] = head /\ Slot(head) \in Slots
    BY SlotType DEF CheckedInv
  <1>1. TypeOK' OBVIOUS
  <1>2. NodeInv' BY <1>0 DEF NodeInv
  <1>3. TicketInv' BY DEF TicketInv
  <1>4. OwnerInv' BY <1>0 DEF OwnerInv, TicketInv, NodeInv
  <1>5. CheckedInv' BY DEF CheckedInv
  <1>6. SizeInv' BY DEF SizeInv
  <1>7. ExcuseInv' BY DEF ExcuseInv
  <1>8. NoDataRace' BY <1>0 DEF NoDataRace, OwnerInv, NodeInv, TicketInv, Owns
  <1> QED BY <1>1, <1>2, <1>3, <1>4, <1>5, <1>6, <1>7, <1>8

\* A pop that reads the ticket again keeps the invariant.
LEMMA PopRetryStep ==
  ASSUME IInv, NEW t \in Threads, PopRetry(t)
  PROVE IInv'
  <1> USE CapacityAssumption DEF IInv, TypeOK, PopRetry, Goto, PushStates,
          PopStates, PushOwner, PopOwner
  <1>1. TypeOK' OBVIOUS
  <1>2. NodeInv' BY DEF NodeInv
  <1>3. TicketInv' BY DEF TicketInv
  <1>4. OwnerInv' BY DEF OwnerInv
  <1>5. CheckedInv' BY DEF CheckedInv
  <1>6. SizeInv' BY DEF SizeInv
  <1>7. ExcuseInv' BY DEF ExcuseInv
  <1>8. NoDataRace' BY DEF NoDataRace, Owns
  <1> QED BY <1>1, <1>2, <1>3, <1>4, <1>5, <1>6, <1>7, <1>8

\* A pop that empties the node it owns keeps the invariant.
LEMMA PopReadStep ==
  ASSUME IInv, NEW t \in Threads, PopRead(t)
  PROVE IInv'
  <1> USE CapacityAssumption DEF IInv, TypeOK, PopRead, Goto, PushStates,
          PopStates, PushOwner, PopOwner
  <1>1. TypeOK' BY SlotType
  <1>2. NodeInv' BY DEF NodeInv
  <1>3. TicketInv' BY DEF TicketInv
  <1>4. OwnerInv' BY DEF OwnerInv
  <1>5. CheckedInv' BY DEF CheckedInv
  <1>6. SizeInv' BY DEF SizeInv
  <1>7. ExcuseInv' BY DEF ExcuseInv
  <1>8. NoDataRace' BY DEF NoDataRace, Owns
  <1> QED BY <1>1, <1>2, <1>3, <1>4, <1>5, <1>6, <1>7, <1>8

\* A pop that hands the node to the pushes keeps the invariant.
LEMMA PopReleaseStep ==
  ASSUME IInv, NEW t \in Threads, PopRelease(t)
  PROVE IInv'
  <1> USE CapacityAssumption DEF IInv, TypeOK, PopRelease, Return, Goto,
          ExcuseAll, PushStates, PopStates, PushOwner, PopOwner
  <1>1. TypeOK' BY SlotType
  <1>2. NodeInv' BY SlotType DEF NodeInv, OwnerInv
  <1>3. TicketInv' BY SlotType DEF TicketInv, OwnerInv
  <1>4. OwnerInv' BY SlotType DEF OwnerInv, NoDataRace, Owns
  <1>5. CheckedInv' BY SlotType DEF CheckedInv, NodeInv, OwnerInv
  <1>6. SizeInv' BY DEF SizeInv
  <1>7. ExcuseInv' BY SlotType DEF ExcuseInv
  <1>8. NoDataRace' BY DEF NoDataRace, Owns
  <1> QED BY <1>1, <1>2, <1>3, <1>4, <1>5, <1>6, <1>7, <1>8

\* A size that reads _head keeps the invariant.
LEMMA SizeBeginStep ==
  ASSUME IInv, NEW t \in Threads, SizeBegin(t)
  PROVE IInv'
  <1> USE CapacityAssumption DEF IInv, TypeOK, SizeBegin, Goto, PushStates,
          PopStates, PushOwner, PopOwner
  <1>1. TypeOK' OBVIOUS
  <1>2. NodeInv' BY DEF NodeInv
  <1>3. TicketInv' BY DEF TicketInv
  <1>4. OwnerInv' BY DEF OwnerInv
  <1>5. CheckedInv' BY DEF CheckedInv
  <1>6. SizeInv' BY DEF SizeInv
  <1>7. ExcuseInv' BY DEF ExcuseInv
  <1>8. NoDataRace' BY DEF NoDataRace, Owns
  <1> QED BY <1>1, <1>2, <1>3, <1>4, <1>5, <1>6, <1>7, <1>8

\* A size that reads _tail keeps the invariant.
LEMMA SizeEndStep ==
  ASSUME IInv, NEW t \in Threads, SizeEnd(t)
  PROVE IInv'
  <1> USE CapacityAssumption DEF IInv, TypeOK, SizeEnd, Return, Goto,
          PushStates, PopStates, PushOwner, PopOwner
  <1>1. TypeOK' OBVIOUS
  <1>2. NodeInv' BY DEF NodeInv
  <1>3. TicketInv' BY DEF TicketInv
  <1>4. OwnerInv' BY DEF OwnerInv
  <1>5. CheckedInv' BY DEF CheckedInv
  <1>6. SizeInv' BY DEF SizeInv
  <1>7. ExcuseInv' BY DEF ExcuseInv
  <1>8. NoDataRace' BY DEF NoDataRace, Owns
  <1> QED BY <1>1, <1>2, <1>3, <1>4, <1>5, <1>6, <1>7, <1>8

\* No step of the queue breaks the invariant.
LEMMA NextIInv == IInv /\ [Next]_vars => IInv'
  <1> SUFFICES ASSUME IInv, [Next]_vars PROVE IInv'
    OBVIOUS
  <1>1. ASSUME NEW t \in Threads, Push(t) PROVE IInv'
    BY <1>1, PushBeginStep, PushCheckStep, PushFailStep, PushCASStep,
       PushRetryStep, PushWriteStep, PushPublishStep DEF Push
  <1>2. ASSUME NEW t \in Threads, Pop(t) PROVE IInv'
    BY <1>2, PopBeginStep, PopCheckStep, PopFailStep, PopCASStep,
       PopRetryStep, PopReadStep, PopReleaseStep DEF Pop
  <1>3. ASSUME NEW t \in Threads, Size(t) PROVE IInv'
    BY <1>3, SizeBeginStep, SizeEndStep DEF Size
  <1>4. CASE UNCHANGED vars
    BY <1>4 DEF vars, IInv, TypeOK, NodeInv, TicketInv, OwnerInv, CheckedInv,
                SizeInv, ExcuseInv, NoDataRace, Owns
  <1> QED BY <1>1, <1>2, <1>3, <1>4 DEF Next

\* The inductive invariant holds in every reachable state.
THEOREM Invariance == Spec => []IInv
  BY InitIInv, NextIInv, PTL DEF Spec

\* The tickets and indices of push, pop and size keep their types.
THEOREM TypeCorrect == Spec => []TypeOK
  <1>1. IInv => TypeOK
    BY DEF IInv
  <1> QED BY <1>1, Invariance, PTL

\* For every number of threads and every capacity, the data of a node is never
\* accessed by two threads at once.
THEOREM DataRaceFreedom == Spec => []NoDataRace
  <1>1. IInv => NoDataRace
    BY DEF IInv
  <1> QED BY <1>1, Invariance, PTL

\* push and pop return false only with an excuse: the ring was full (empty) at
\* an instant of the call, or a pop (push) completed during it.
THEOREM FailuresExcused == Spec => []FailureExcused
  <1>1. IInv => FailureExcused
    BY DEF IInv, ExcuseInv, FailureExcused, PushStates, PopStates
  <1> QED BY <1>1, Invariance, PTL

\* size() returns a number that is not negative, whatever happens between its
\* two reads.
THEOREM SizeSound == Spec => []SizeNoUnderflow
  <1>1. IInv => SizeNoUnderflow
    BY DEF IInv, TypeOK, NodeInv, SizeInv, SizeNoUnderflow, SizeResult
  <1> QED BY <1>1, Invariance, PTL

-----------------------------------------------------------------------------
(* The contents of the nodes *)

\* A node only ever gets tickets of its own slot and is at most one round behind,
\* and a push carries a value until it has filled its node.
CarryInv ==
  /\ \A s \in Slots : Slot(nodeTail[s]) = s /\ head <= nodeTail[s] + Capacity
  /\ \A t \in Threads : pc[t] \in PushStates \cup {"pushWrite"} => val[t] # Raw

\* A T lives in a node from the write of the push to the read of the pop: the
\* phase of the node and the progress of its owner say whether there is one.
ContentsInv ==
  /\ \A s \in Slots : tail <= nodeTail[s] => data[s] = Raw
  /\ \A s \in Slots : nodeTail[s] < head /\ data[s] # Raw =>
       \E t \in Threads : pc[t] = "popRead" /\ Slot(loc[t]) = s
  /\ \A s \in Slots : head <= nodeTail[s] /\ nodeTail[s] < tail /\ data[s] = Raw =>
       \E t \in Threads : pc[t] = "pushWrite" /\ Slot(loc[t]) = s
  /\ \A t \in Threads :
       /\ pc[t] \in {"pushWrite", "popRelease"} => data[Slot(loc[t])] = Raw
       /\ pc[t] \in {"pushPublish", "popRead"} => data[Slot(loc[t])] # Raw

\* Division has one remainder.
LEMMA Remainder ==
  ASSUME NEW n \in Nat \ {0}, NEW k \in Nat, NEW q \in Int, NEW r \in 0 .. n - 1,
         k = q * n + r
  PROVE  k % n = r
  OBVIOUS

\* A ticket and the one the ring's length after it use the same node: what
\* popping a node leaves in it (head + _capacity) is a ticket of that node.
LEMMA SlotWraps == ASSUME NEW k \in Nat PROVE Slot(k + Capacity) = Slot(k)
  <1> USE CapacityAssumption
  <1>1. k = (k \div Capacity) * Capacity + (k % Capacity)
    BY Z3
  <1>2. PICK q \in Int, r \in 0 .. Capacity - 1 :
          k = q * Capacity + r /\ r = k % Capacity
    BY <1>1
  <1>3. k + Capacity = (q + 1) * Capacity + r
    BY <1>2
  <1>4. k + Capacity \in Nat /\ q + 1 \in Int
    OBVIOUS
  <1>5. (k + Capacity) % Capacity = r
    BY <1>3, <1>4, Remainder
  <1> QED BY <1>2, <1>5 DEF Slot

\* The first tickets number the nodes.
LEMMA SlotOfSlot == \A s \in Slots : Slot(s) = s
  BY CapacityAssumption DEF Slot, Slots

\* The empty queue holds no T.
LEMMA InitContents == Init => CarryInv /\ ContentsInv
  BY CapacityAssumption, SlotOfSlot DEF Init, CarryInv, ContentsInv, Slots, PushStates

\* The compare-and-swap of a push takes the ticket of a free node.
LEMMA TicketToPush ==
  ASSUME IInv, NEW t \in Threads, PushCAS(t)
  PROVE  /\ loc[t] = tail
         /\ Slot(tail) \in Slots
         /\ nodeTail[Slot(tail)] = tail
         /\ tail < head + Capacity
  <1>1. loc[t] = tail /\ Slot(tail) \in Slots
    BY SlotType DEF IInv, TypeOK, PushCAS
  <1>2. nodeTail[Slot(tail)] = tail
    BY <1>1 DEF IInv, CheckedInv, PushCAS, Goto
  <1> QED BY <1>1, <1>2 DEF IInv, NodeInv

\* The compare-and-swap of a pop takes the ticket of a filled node.
LEMMA TicketToPop ==
  ASSUME IInv, NEW t \in Threads, PopCAS(t)
  PROVE  /\ loc[t] = head
         /\ Slot(head) \in Slots
         /\ head < tail
         /\ nodeTail[Slot(head)] = head
         /\ nodeHead[Slot(head)] = head
         /\ \A u \in Threads : pc[u] \in PushOwner => loc[u] # head
  <1>1. loc[t] = head /\ Slot(head) \in Slots /\ head \in Nat
    BY SlotType DEF IInv, TypeOK, PopCAS
  <1>2. nodeHead[Slot(head)] = head
    BY <1>1 DEF IInv, CheckedInv, PopCAS, Goto
  <1>3. head < tail
    BY <1>1, <1>2 DEF IInv, NodeInv
  <1>4. nodeTail[Slot(head)] = head
    BY <1>1, <1>3 DEF IInv, TicketInv
  <1>5. \A u \in Threads : pc[u] \in PushOwner => loc[u] # head
    BY <1>1, <1>2 DEF IInv, OwnerInv
  <1> QED BY <1>1, <1>2, <1>3, <1>4, <1>5

\* The node a push or a pop owns has its ticket.
LEMMA TicketOwned ==
  ASSUME IInv, NEW t \in Threads, Owns(t)
  PROVE  /\ loc[t] \in Nat
         /\ Slot(loc[t]) \in Slots
         /\ nodeTail[Slot(loc[t])] = loc[t]
  BY SlotType DEF IInv, TypeOK, OwnerInv, Owns

\* No step gives a node a ticket of another slot, or loses the value of a push.
LEMMA CarryStep ==
  ASSUME IInv, CarryInv, [Next]_vars
  PROVE  CarryInv'
  <1> USE DEF IInv, TypeOK, CarryInv, Goto, Return, PushStates
  <1>1. ASSUME NEW t \in Threads, Push(t) PROVE CarryInv'
    BY <1>1, RawAssumption
    DEF Push, PushBegin, PushCheck, PushFail, PushCAS, PushRetry, PushWrite, PushPublish
  <1>2. ASSUME NEW t \in Threads, Pop(t) PROVE CarryInv'
    <2>1. CASE PopRelease(t)
      BY <2>1, SlotWraps, SlotType, CapacityAssumption DEF PopRelease, OwnerInv, PopOwner
    <2>2. CASE PopCAS(t)
      <3>1. nodeTail[Slot(head)] = head
        BY <2>2, TicketToPop
      <3>2. ASSUME NEW s \in Slots PROVE head # nodeTail[s] + Capacity
        BY <3>1, SlotWraps, CapacityAssumption
      <3> QED BY <2>2, <3>2, CapacityAssumption DEF PopCAS
    <2>3. CASE ~PopRelease(t) /\ ~PopCAS(t)
      BY <1>2, <2>3 DEF Pop, PopBegin, PopCheck, PopFail, PopRetry, PopRead
    <2> QED BY <2>1, <2>2, <2>3
  <1>3. ASSUME NEW t \in Threads, Size(t) PROVE CarryInv'
    BY <1>3 DEF Size, SizeBegin, SizeEnd
  <1>4. CASE UNCHANGED vars
    BY <1>4 DEF vars
  <1> QED BY <1>1, <1>2, <1>3, <1>4 DEF Next

\* Every step of a push keeps the contents right: the two that matter fill the
\* node and hand it over.
LEMMA ContentsPush ==
  ASSUME IInv, CarryInv, ContentsInv, NEW t \in Threads, Push(t)
  PROVE  ContentsInv'
  <1>0. ASSUME PushCAS(t)
        PROVE  loc[t] = tail /\ Slot(tail) \in Slots /\ data[Slot(tail)] = Raw
    <2>1. tail \in Nat
      BY DEF IInv, TypeOK
    <2>2. loc[t] = tail /\ Slot(tail) \in Slots /\ tail <= nodeTail[Slot(tail)]
      BY <1>0, <2>1, TicketToPush
    <2> QED BY <2>2 DEF ContentsInv
  <1> USE SlotType DEF IInv, TypeOK, ContentsInv, Goto, Return
  <1>1. ASSUME NEW v \in Values, PushBegin(t, v) PROVE ContentsInv'
    BY <1>1 DEF PushBegin
  <1>2. CASE PushCheck(t)
    BY <1>2 DEF PushCheck
  <1>3. CASE PushFail(t)
    BY <1>3 DEF PushFail
  <1>4. CASE PushCAS(t)
    <2>1. \A s \in Slots : nodeTail[s] = tail => s = Slot(tail)
      BY DEF CarryInv
    <2> QED BY <1>0, <1>4, <2>1 DEF PushCAS, NodeInv
  <1>5. CASE PushRetry(t)
    BY <1>5 DEF PushRetry
  <1>6. CASE PushWrite(t)
    BY <1>6 DEF PushWrite, CarryInv, NoDataRace, Owns, PushOwner, PopOwner, OwnerInv
  <1>7. CASE PushPublish(t)
    BY <1>7 DEF PushPublish
  <1> QED BY <1>1, <1>2, <1>3, <1>4, <1>5, <1>6, <1>7, Push(t) DEF Push

\* Every step of a pop keeps the contents right.
LEMMA ContentsPop ==
  ASSUME IInv, CarryInv, ContentsInv, NEW t \in Threads, Pop(t)
  PROVE  ContentsInv'
  <1>0. ASSUME PopCAS(t)
        PROVE  loc[t] = head /\ Slot(head) \in Slots /\ data[Slot(head)] # Raw
    <2>1. head \in Nat
      BY DEF IInv, TypeOK
    <2>2. /\ loc[t] = head /\ Slot(head) \in Slots
          /\ head <= nodeTail[Slot(head)] /\ nodeTail[Slot(head)] < tail
      BY <1>0, <2>1, TicketToPop
    <2>3. ASSUME NEW u \in Threads, pc[u] = "pushWrite", Slot(loc[u]) = Slot(head)
          PROVE  FALSE
      <3>1. loc[u] # head /\ nodeTail[Slot(loc[u])] = loc[u]
        BY <1>0, <2>3, TicketToPop, TicketOwned DEF PushOwner, Owns
      <3> QED BY <1>0, <2>3, <3>1, TicketToPop
    <2> QED BY <2>2, <2>3 DEF ContentsInv
  <1> USE SlotType DEF IInv, TypeOK, ContentsInv, Goto, Return
  <1>1. CASE PopBegin(t)
    BY <1>1 DEF PopBegin
  <1>2. CASE PopCheck(t)
    BY <1>2 DEF PopCheck
  <1>3. CASE PopFail(t)
    BY <1>3 DEF PopFail
  <1>4. CASE PopCAS(t)
    <2>1. \A s \in Slots : nodeTail[s] = head => s = Slot(head)
      BY DEF CarryInv
    <2> QED BY <1>0, <1>4, <2>1 DEF PopCAS
  <1>5. CASE PopRetry(t)
    BY <1>5 DEF PopRetry
  <1>6. CASE PopRead(t)
    BY <1>6 DEF PopRead, NoDataRace, Owns, PushOwner, PopOwner, OwnerInv
  <1>7. CASE PopRelease(t)
    <2>1. /\ Slot(loc[t]) \in Slots
          /\ nodeTail[Slot(loc[t])] = loc[t]
          /\ data[Slot(loc[t])] = Raw
      BY <1>7, TicketOwned DEF PopRelease, Owns, PopOwner
    <2>2. loc[t] + Capacity \in Nat /\ Slot(loc[t] + Capacity) = Slot(loc[t])
      BY SlotWraps, CapacityAssumption
    <2>3. ~(head <= loc[t] + Capacity /\ loc[t] + Capacity < tail)
      BY <2>1, <2>2, CapacityAssumption DEF TicketInv
    <2>4. tail <= loc[t] + Capacity
      <3>1. head <= loc[t] + Capacity
        BY <2>1 DEF CarryInv
      <3> QED BY <2>3, <3>1, CapacityAssumption
    <2>5. /\ \A s \in Slots : s # Slot(loc[t]) => nodeTail'[s] = nodeTail[s]
          /\ nodeTail'[Slot(loc[t])] = loc[t] + Capacity
          /\ \A u \in Threads : u # t => pc'[u] = pc[u] /\ loc'[u] = loc[u]
          /\ pc[t] = "popRelease" /\ pc'[t] = "idle"
          /\ UNCHANGED <<head, tail, data>>
      BY <1>7, <2>1 DEF PopRelease
    <2>6. \A s \in Slots : nodeTail'[s] < tail => s # Slot(loc[t])
      BY <2>1, <2>4, <2>5, CapacityAssumption
    <2>7. head <= tail
      BY DEF NodeInv
    <2>8. \A s \in Slots : tail <= nodeTail'[s] => data[s] = Raw
      BY <2>1, <2>5
    <2>9. \A s \in Slots : nodeTail'[s] < head /\ data[s] # Raw =>
             \E u \in Threads : pc'[u] = "popRead" /\ Slot(loc'[u]) = s
      BY <2>1, <2>5
    <2>10. \A s \in Slots : head <= nodeTail'[s] /\ nodeTail'[s] < tail /\ data[s] = Raw =>
             \E u \in Threads : pc'[u] = "pushWrite" /\ Slot(loc'[u]) = s
      <3> SUFFICES ASSUME NEW s \in Slots, head <= nodeTail'[s], nodeTail'[s] < tail,
                          data[s] = Raw
                   PROVE  \E u \in Threads : pc'[u] = "pushWrite" /\ Slot(loc'[u]) = s
        OBVIOUS
      <3>1. nodeTail'[s] = nodeTail[s]
        BY <2>5, <2>6
      <3>2. PICK u \in Threads : pc[u] = "pushWrite" /\ Slot(loc[u]) = s
        BY <3>1
      <3> QED BY <2>5, <3>2
    <2> QED BY <2>5, <2>8, <2>9, <2>10
  <1> QED BY <1>1, <1>2, <1>3, <1>4, <1>5, <1>6, <1>7, Pop(t) DEF Pop

\* A size keeps the contents right.
LEMMA ContentsSize ==
  ASSUME IInv, ContentsInv, NEW t \in Threads, Size(t)
  PROVE  ContentsInv'
  BY DEF IInv, TypeOK, ContentsInv, Goto, Return, Size, SizeBegin, SizeEnd

\* What the nodes hold is right in every reachable state.
THEOREM ContentsInvariance == Spec => [](IInv /\ CarryInv /\ ContentsInv)
  <1>1. Init => IInv /\ CarryInv /\ ContentsInv
    BY InitIInv, InitContents
  <1>2. IInv /\ CarryInv /\ ContentsInv /\ [Next]_vars => (IInv /\ CarryInv /\ ContentsInv)'
    <2> SUFFICES ASSUME IInv, CarryInv, ContentsInv, [Next]_vars
                 PROVE  (IInv /\ CarryInv /\ ContentsInv)'
      OBVIOUS
    <2>1. IInv' /\ CarryInv'
      BY NextIInv, CarryStep
    <2>2. CASE UNCHANGED vars
      BY <2>1, <2>2 DEF vars, ContentsInv
    <2>3. CASE Next
      BY <2>1, <2>3, ContentsPush, ContentsPop, ContentsSize DEF Next
    <2> QED BY <2>2, <2>3
  <1> QED BY <1>1, <1>2, PTL DEF Spec

\* The destructor of the queue (Future.cpp, for (i = _head; i != _tail;)) destroys
\* every T that was pushed and not popped, once, and nothing else.
THEOREM DestructorExact == Spec => []DestructorSound
  <1>1. IInv /\ CarryInv /\ ContentsInv => DestructorSound
    <2> SUFFICES ASSUME IInv, CarryInv, ContentsInv, \A t \in Threads : ~Owns(t)
                 PROVE  /\ \A i, j \in DOMAIN Destroyed : i # j => Destroyed[i] # Destroyed[j]
                        /\ \A s \in Slots :
                             data[s] # Raw <=> \E i \in DOMAIN Destroyed : Destroyed[i] = s
      BY DEF DestructorSound
    <2>0. head \in Nat /\ tail \in Nat /\ nodeTail \in [Slots -> Nat]
      BY DEF IInv, TypeOK
    <2>1. /\ DOMAIN Destroyed = head .. tail - 1
          /\ \A i \in head .. tail - 1 : Destroyed[i] = Slot(i)
      BY DEF Destroyed
    <2>2. \A i \in head .. tail - 1 : nodeTail[Slot(i)] = i /\ Slot(i) \in Slots
      BY <2>0, SlotType DEF IInv, TicketInv
    <2>3. \A s \in Slots : data[s] # Raw => nodeTail[s] \in head .. tail - 1
      BY <2>0 DEF ContentsInv, Owns, PopOwner
    <2>4. \A i \in head .. tail - 1 : data[Slot(i)] # Raw
      BY <2>0, <2>2 DEF ContentsInv, Owns, PushOwner
    <2>5. \A s \in Slots : Slot(nodeTail[s]) = s
      BY DEF CarryInv
    <2> QED BY <2>1, <2>2, <2>3, <2>4, <2>5
  <1> QED BY <1>1, ContentsInvariance, PTL

-----------------------------------------------------------------------------
(* Refinement: every step of the queue is a step of a bounded FIFO queue *)

\* While a push has not filled its node its thread has the value of the ticket.
LEMMA TicketFilling ==
  NoDataRace => \A t \in Threads : pc[t] = "pushWrite" => TicketValue(loc[t]) = val[t]
  <1> SUFFICES ASSUME NoDataRace, NEW t \in Threads, pc[t] = "pushWrite"
               PROVE  TicketValue(loc[t]) = val[t]
    OBVIOUS
  <1>1. \A u \in Threads : pc[u] = "pushWrite" /\ loc[u] = loc[t] => u = t
    BY DEF NoDataRace, Owns, PushOwner
  <1>2. (CHOOSE u \in Threads : pc[u] = "pushWrite" /\ loc[u] = loc[t]) = t
    BY <1>1
  <1> QED BY <1>2 DEF TicketValue

\* Otherwise the node has it.
LEMMA TicketFilled ==
  \A i : ~(\E t \in Threads : pc[t] = "pushWrite" /\ loc[t] = i)
           => TicketValue(i) = data[Slot(i)]
  BY DEF TicketValue

\* The same in the state after a step.
LEMMA TicketFillingNext ==
  NoDataRace' => \A t \in Threads : pc'[t] = "pushWrite" => TicketValue(loc[t])' = val'[t]
  <1>1. (NoDataRace => \A t \in Threads : pc[t] = "pushWrite" => TicketValue(loc[t]) = val[t])'
    BY TicketFilling, PTL
  <1> QED BY <1>1

\* Once no thread writes the data of a ticket, its value is what the node holds.
LEMMA TicketFilledNext ==
  \A i : ~(\E t \in Threads : pc'[t] = "pushWrite" /\ loc'[t] = i)
           => TicketValue(i)' = data'[Slot(i)]
  BY DEF TicketValue

\* A step that leaves the ends, the running writes and the queued nodes alone
\* leaves the queued values alone.
LEMMA SameItems ==
  ASSUME NoDataRace, NoDataRace', UNCHANGED <<head, tail>>,
         \A t \in Threads :
           /\ pc'[t] = "pushWrite" <=> pc[t] = "pushWrite"
           /\ pc[t] = "pushWrite" => loc'[t] = loc[t] /\ val'[t] = val[t],
         \A i \in head .. tail - 1 : data'[Slot(i)] = data[Slot(i)],
         head \in Nat, tail \in Nat
  PROVE  Items' = Items
  <1>1. ASSUME NEW i \in head .. tail - 1 PROVE TicketValue(i)' = TicketValue(i)
    <2>1. CASE \E t \in Threads : pc[t] = "pushWrite" /\ loc[t] = i
      <3>1. PICK t \in Threads : pc[t] = "pushWrite" /\ loc[t] = i
        BY <2>1
      <3>2. TicketValue(loc[t]) = val[t] /\ TicketValue(loc[t])' = val'[t]
        BY <3>1, TicketFilling, TicketFillingNext
      <3>3. TicketValue(loc[t])' = TicketValue(i)'
        BY <3>1 DEF TicketValue
      <3> QED BY <3>1, <3>2, <3>3
    <2>2. CASE ~(\E t \in Threads : pc[t] = "pushWrite" /\ loc[t] = i)
      BY <2>2, TicketFilled, TicketFilledNext
    <2> QED BY <2>1, <2>2
  <1>2. \A j \in 1 .. tail - head : head + j - 1 \in head .. tail - 1
    OBVIOUS
  <1> QED BY <1>1, <1>2 DEF Items

\* A call whose thread does not move looks the same.
LEMMA SameCall ==
  ASSUME NEW u \in Threads, pc'[u] = pc[u], val'[u] = val[u],
         pc[u] = "popRead" => data'[Slot(loc'[u])] = data[Slot(loc[u])]
  PROVE  CallOf(u)' = CallOf(u)
  BY DEF CallOf

\* What the abstract queue sees of a step of one thread.
LEMMA OneCall ==
  ASSUME NEW t \in Threads, NEW x, CallOf(t)' = x,
         \A u \in Threads : u # t => CallOf(u)' = CallOf(u)
  PROVE  Calls' = [Calls EXCEPT ![t] = x]
  BY DEF Calls

\* The steps that neither take a ticket nor touch the data of a node.
Quiet(t) ==
  \/ \E v \in Values : PushBegin(t, v)
  \/ PushCheck(t) \/ PushFail(t) \/ PushRetry(t) \/ PushPublish(t)
  \/ PopBegin(t) \/ PopCheck(t) \/ PopFail(t) \/ PopRetry(t) \/ PopRelease(t)
  \/ SizeBegin(t) \/ SizeEnd(t)

\* They leave the queued values, and the calls of the other threads, alone.
LEMMA QuietStep ==
  ASSUME IInv, IInv', NEW t \in Threads, Quiet(t)
  PROVE  /\ Items' = Items
         /\ \A u \in Threads : u # t => CallOf(u)' = CallOf(u)
  <1>1. /\ NoDataRace /\ NoDataRace' /\ head \in Nat /\ tail \in Nat
        /\ DOMAIN pc = Threads /\ DOMAIN loc = Threads /\ DOMAIN val = Threads
    BY DEF IInv, TypeOK
  <1> USE DEF Quiet, Goto, Return, PushBegin, PushCheck, PushFail, PushRetry,
          PushPublish, PopBegin, PopCheck, PopFail, PopRetry, PopRelease, SizeBegin,
          SizeEnd
  <1>2. UNCHANGED <<head, tail, data>>
    OBVIOUS
  <1>3. pc'[t] # "pushWrite" /\ pc[t] # "pushWrite"
    BY <1>1
  <1>4. \A u \in Threads : u # t => pc'[u] = pc[u] /\ loc'[u] = loc[u] /\ val'[u] = val[u]
    BY <1>1
  <1>5. Items' = Items
    BY <1>1, <1>2, <1>3, <1>4, SameItems
  <1>6. ASSUME NEW u \in Threads, u # t PROVE CallOf(u)' = CallOf(u)
    BY <1>2, <1>4, <1>6, SameCall
  <1> QED BY <1>5, <1>6

\* They begin or end a call of the abstract queue, or are no step of it.
LEMMA QuietSimulates ==
  ASSUME IInv, IInv', NEW t \in Threads, Quiet(t)
  PROVE  Fifo!Next \/ UNCHANGED Fifo!fifoVars
  <1>1. /\ Items' = Items
        /\ \A u \in Threads : u # t => CallOf(u)' = CallOf(u)
    BY QuietStep
  <1>2. /\ Calls[t] = CallOf(t)
        /\ \A x : CallOf(t)' = x => Calls' = [Calls EXCEPT ![t] = x]
    BY <1>1, OneCall DEF Calls
  <1>3. DOMAIN pc = Threads /\ DOMAIN val = Threads
    BY DEF IInv, TypeOK
  <1>4. ASSUME NEW v \in Values, PushBegin(t, v) PROVE Fifo!CallPush(t, v)
    <2>1. CallOf(t) = Fifo!Idle /\ CallOf(t)' = Fifo!Pushing(v)
      BY <1>3, <1>4
      DEF PushBegin, Goto, CallOf, Fifo!Idle, Fifo!Pushing, PushStates, PopStates,
          PushOwner
    <2> QED BY <1>1, <1>2, <2>1 DEF Fifo!CallPush
  <1>5. ASSUME PopBegin(t) PROVE Fifo!CallPop(t)
    <2>1. CallOf(t) = Fifo!Idle /\ CallOf(t)' = Fifo!Popping
      BY <1>3, <1>5
      DEF PopBegin, Goto, CallOf, Fifo!Idle, Fifo!Popping, PushStates, PopStates,
          PushOwner
    <2> QED BY <1>1, <1>2, <2>1 DEF Fifo!CallPop
  <1>6. ASSUME PushFail(t) \/ PushPublish(t) \/ PopFail(t) \/ PopRelease(t)
        PROVE  Fifo!Return(t)
    <2>1. CallOf(t)' = Fifo!Idle
      BY <1>3, <1>6
      DEF PushFail, PushPublish, PopFail, PopRelease, Return, Goto, CallOf, Fifo!Idle,
          PushStates, PopStates, PushOwner
    <2>2. CallOf(t) # Fifo!Idle
      BY <1>3, <1>6
      DEF PushFail, PushPublish, PopFail, PopRelease, Return, Goto, CallOf, Fifo!Idle,
          PushStates, PopStates, PushOwner
    <2> QED BY <1>1, <1>2, <2>1, <2>2 DEF Fifo!Return
  <1>7. ASSUME \/ PushCheck(t) \/ PushRetry(t) \/ PopCheck(t) \/ PopRetry(t)
               \/ SizeBegin(t) \/ SizeEnd(t)
        PROVE  UNCHANGED Fifo!fifoVars
    <2>1. CallOf(t)' = CallOf(t)
      BY <1>3, <1>7
      DEF PushCheck, PushRetry, PopCheck, PopRetry, SizeBegin, SizeEnd, Return, Goto,
          CallOf, PushStates, PopStates, PushOwner
    <2>2. Calls' = Calls
      BY <1>1, <2>1 DEF Calls
    <2> QED BY <1>1, <2>2 DEF Fifo!fifoVars
  <1> QED BY <1>4, <1>5, <1>6, <1>7, Quiet(t) DEF Quiet, Fifo!Next

\* The queued values are a sequence, one for every ticket between the ends.
LEMMA ItemsSeq ==
  ASSUME IInv
  PROVE  /\ Items \in Seq(Values \cup {Raw})
         /\ Len(Items) = tail - head
         /\ \A j \in 1 .. tail - head : Items[j] = TicketValue(head + j - 1)
  <1>1. /\ head \in Nat /\ tail \in Nat /\ head <= tail
        /\ val \in [Threads -> Values \cup {Raw}]
        /\ data \in [Slots -> Values \cup {Raw}]
    BY DEF IInv, TypeOK, NodeInv
  <1>2. ASSUME NEW i \in Nat PROVE TicketValue(i) \in Values \cup {Raw}
    <2>1. CASE \E t \in Threads : pc[t] = "pushWrite" /\ loc[t] = i
      BY <1>1, <2>1 DEF TicketValue
    <2>2. CASE ~(\E t \in Threads : pc[t] = "pushWrite" /\ loc[t] = i)
      BY <1>1, <2>2, SlotType, TicketFilled
    <2> QED BY <2>1, <2>2
  <1>3. \A j \in 1 .. tail - head : head + j - 1 \in Nat
    BY <1>1
  <1>4. tail - head \in Nat
    BY <1>1
  <1>5. Items \in [1 .. tail - head -> Values \cup {Raw}]
    BY <1>2, <1>3 DEF Items
  <1>6. Items \in Seq(Values \cup {Raw}) /\ Len(Items) = tail - head
    BY <1>4, <1>5
  <1> QED BY <1>6 DEF Items

\* The compare-and-swap of a push appends its value to a queue that is not full.
LEMMA PushCASSimulates ==
  ASSUME IInv, IInv', CarryInv, NEW t \in Threads, PushCAS(t)
  PROVE  \E v \in Values : Fifo!Enqueue(t, v)
  <1>1. /\ loc[t] = tail /\ tail < head + Capacity
        /\ pc[t] = "pushCAS" /\ pc' = [pc EXCEPT ![t] = "pushWrite"]
        /\ tail' = tail + 1
        /\ UNCHANGED <<head, loc, val, data>>
    BY TicketToPush DEF PushCAS, Goto
  <1>2. /\ head \in Nat /\ tail \in Nat /\ head <= tail /\ DOMAIN pc = Threads
        /\ NoDataRace /\ NoDataRace' /\ Capacity \in Nat
    BY CapacityAssumption DEF IInv, TypeOK, NodeInv
  <1>3. val[t] \in Values
    BY <1>1 DEF IInv, TypeOK, CarryInv, PushStates
  <1>4. ASSUME NEW i \in head .. tail - 1 PROVE TicketValue(i)' = TicketValue(i)
    <2>1. CASE \E u \in Threads : pc[u] = "pushWrite" /\ loc[u] = i
      <3>1. PICK u \in Threads : pc[u] = "pushWrite" /\ loc[u] = i
        BY <2>1
      <3>2. pc'[u] = "pushWrite"
        BY <1>1, <1>2, <3>1
      <3>3. TicketValue(loc[u]) = val[u] /\ TicketValue(loc[u])' = val'[u]
        BY <1>2, <3>1, <3>2, TicketFilling, TicketFillingNext
      <3>4. TicketValue(loc[u])' = TicketValue(i)'
        BY <1>1, <3>1 DEF TicketValue
      <3> QED BY <1>1, <3>1, <3>3, <3>4
    <2>2. CASE ~(\E u \in Threads : pc[u] = "pushWrite" /\ loc[u] = i)
      <3>1. ~(\E u \in Threads : pc'[u] = "pushWrite" /\ loc'[u] = i)
        BY <1>1, <1>2, <2>2
      <3> QED BY <1>1, <2>2, <3>1, TicketFilled, TicketFilledNext
    <2> QED BY <2>1, <2>2
  <1>5. ASSUME NEW i, i = tail PROVE TicketValue(i)' = val[t]
    <2>1. pc'[t] = "pushWrite"
      BY <1>1, <1>2
    <2>2. TicketValue(loc[t])' = val'[t]
      BY <1>2, <2>1, TicketFillingNext
    <2>3. TicketValue(loc[t])' = TicketValue(i)'
      BY <1>1, <1>5 DEF TicketValue
    <2> QED BY <1>1, <2>2, <2>3
  <1>6. Items' = Append(Items, val[t])
    <2>1. Items' = [j \in 1 .. tail + 1 - head |-> IF j = tail + 1 - head THEN val[t] ELSE Items[j]]
      <3>0. tail' - head' = tail + 1 - head
        BY <1>1, <1>2
      <3>1. Items' = [j \in 1 .. tail + 1 - head |-> TicketValue(head + j - 1)']
        BY <3>0 DEF Items
      <3>2. ASSUME NEW j \in 1 .. tail + 1 - head
            PROVE  TicketValue(head + j - 1)'
                     = IF j = tail + 1 - head THEN val[t] ELSE Items[j]
        <4>1. PICK i : i = head + j - 1
          OBVIOUS
        <4>2. TicketValue(i)' = TicketValue(head + j - 1)'
          BY <1>1, <4>1 DEF TicketValue
        <4>3. CASE j = tail + 1 - head
          BY <1>2, <1>5, <4>1, <4>2, <4>3
        <4>4. CASE j # tail + 1 - head
          BY <1>2, <1>4, <4>1, <4>2, <4>4, ItemsSeq
        <4> QED BY <4>3, <4>4
      <3> QED BY <3>1, <3>2
    <2>2. /\ Items \in Seq(Values \cup {Raw}) /\ Len(Items) = tail - head
          /\ tail + 1 - head = tail - head + 1
      BY <1>2, ItemsSeq
    <2> QED BY <2>1, <2>2
  <1>7. Calls[t] = Fifo!Pushing(val[t]) /\ Calls' = [Calls EXCEPT ![t] = Fifo!Pushed]
    <2>1. CallOf(t) = Fifo!Pushing(val[t]) /\ CallOf(t)' = Fifo!Pushed
      BY <1>1, <1>2
      DEF CallOf, Fifo!Pushing, Fifo!Pushed, PushStates, PopStates, PushOwner
    <2>2. ASSUME NEW u \in Threads, u # t PROVE CallOf(u)' = CallOf(u)
      BY <1>1, <1>2, <2>2, SameCall
    <2> QED BY <2>1, <2>2, OneCall DEF Calls
  <1>8. Len(Items) < Capacity
    BY <1>1, <1>2, ItemsSeq
  <1> QED BY <1>3, <1>6, <1>7, <1>8 DEF Fifo!Enqueue

\* The copy of the value into the node is no step of the abstract queue: until
\* then the thread had the value of the ticket, from then on the node has it.
LEMMA PushWriteSimulates ==
  ASSUME IInv, IInv', NEW t \in Threads, PushWrite(t)
  PROVE  UNCHANGED Fifo!fifoVars
  <1>1. /\ pc[t] = "pushWrite" /\ pc' = [pc EXCEPT ![t] = "pushPublish"]
        /\ data' = [data EXCEPT ![Slot(loc[t])] = val[t]]
        /\ UNCHANGED <<head, tail, loc, val>>
    BY DEF PushWrite, Goto
  <1>2. /\ head \in Nat /\ tail \in Nat /\ DOMAIN pc = Threads /\ DOMAIN data = Slots
        /\ NoDataRace /\ NoDataRace' /\ Owns(t)
    BY <1>1 DEF IInv, TypeOK, Owns, PushOwner
  <1>3. loc[t] \in Nat /\ Slot(loc[t]) \in Slots /\ nodeTail[Slot(loc[t])] = loc[t]
    BY <1>2, TicketOwned
  <1>4. \A u \in Threads : u # t => pc'[u] = pc[u]
    BY <1>1, <1>2
  <1>5. \A u \in Threads : pc[u] = "pushWrite" /\ loc[u] = loc[t] => u = t
    BY <1>2 DEF NoDataRace, Owns, PushOwner
  <1>6. ASSUME NEW i \in head .. tail - 1 PROVE TicketValue(i)' = TicketValue(i)
    <2>1. CASE i = loc[t]
      <3>1. TicketValue(i) = val[t]
        BY <1>1, <1>2, <2>1, TicketFilling
      <3>2. ~(\E u \in Threads : pc'[u] = "pushWrite" /\ loc'[u] = i)
        BY <1>1, <1>2, <1>4, <1>5, <2>1
      <3>3. TicketValue(i)' = data'[Slot(i)]
        BY <3>2, TicketFilledNext
      <3> QED BY <1>1, <1>2, <1>3, <2>1, <3>1, <3>3
    <2>2. CASE \E u \in Threads : u # t /\ pc[u] = "pushWrite" /\ loc[u] = i
      <3>1. PICK u \in Threads : u # t /\ pc[u] = "pushWrite" /\ loc[u] = i
        BY <2>2
      <3>2. TicketValue(loc[u]) = val[u] /\ TicketValue(loc[u])' = val'[u]
        BY <1>2, <1>4, <3>1, TicketFilling, TicketFillingNext
      <3>3. TicketValue(loc[u])' = TicketValue(i)'
        BY <1>1, <3>1 DEF TicketValue
      <3> QED BY <1>1, <3>1, <3>2, <3>3
    <2>3. CASE i # loc[t] /\ ~(\E u \in Threads : u # t /\ pc[u] = "pushWrite" /\ loc[u] = i)
      <3>1. ~(\E u \in Threads : pc[u] = "pushWrite" /\ loc[u] = i)
        BY <2>3
      <3>2. ~(\E u \in Threads : pc'[u] = "pushWrite" /\ loc'[u] = i)
        BY <1>1, <1>2, <1>4, <2>3
      <3>3. i \in Nat /\ head <= i /\ i < tail
        BY <1>2
      <3>4. nodeTail[Slot(i)] = i
        BY <3>3 DEF IInv, TicketInv
      <3>5. data'[Slot(i)] = data[Slot(i)]
        BY <1>1, <1>2, <1>3, <2>3, <3>3, <3>4, SlotType
      <3> QED BY <3>1, <3>2, <3>5, TicketFilled, TicketFilledNext
    <2> QED BY <2>1, <2>2, <2>3
  <1>7. Items' = Items
    <2>1. \A j \in 1 .. tail - head : head + j - 1 \in head .. tail - 1
      BY <1>2
    <2> QED BY <1>1, <1>6, <2>1 DEF Items
  <1>8. ASSUME NEW u \in Threads PROVE CallOf(u)' = CallOf(u)
    <2>1. CASE u = t
      BY <1>1, <1>2, <2>1 DEF CallOf, PushStates, PopStates, PushOwner
    <2>2. CASE u # t
      <3>1. ASSUME pc[u] = "popRead" PROVE data'[Slot(loc'[u])] = data[Slot(loc[u])]
        <4>1. Owns(u)
          BY <3>1 DEF Owns, PopOwner
        <4>2. Slot(loc[u]) # Slot(loc[t])
          BY <1>2, <2>2, <4>1 DEF NoDataRace
        <4> QED BY <1>1, <1>2, <4>1, <4>2, TicketOwned
      <3> QED BY <1>1, <1>4, <2>2, <3>1, SameCall
    <2> QED BY <2>1, <2>2
  <1>9. Calls' = Calls
    BY <1>8 DEF Calls
  <1> QED BY <1>7, <1>9 DEF Fifo!fifoVars

\* The read of the value from the node is no step of the abstract queue either.
LEMMA PopReadSimulates ==
  ASSUME IInv, IInv', NEW t \in Threads, PopRead(t)
  PROVE  UNCHANGED Fifo!fifoVars
  <1>1. /\ pc[t] = "popRead" /\ pc' = [pc EXCEPT ![t] = "popRelease"]
        /\ val' = [val EXCEPT ![t] = data[Slot(loc[t])]]
        /\ data' = [data EXCEPT ![Slot(loc[t])] = Raw]
        /\ UNCHANGED <<head, tail, loc>>
    BY DEF PopRead, Goto
  <1>2. /\ head \in Nat /\ tail \in Nat /\ DOMAIN pc = Threads /\ DOMAIN val = Threads
        /\ DOMAIN data = Slots
        /\ NoDataRace /\ NoDataRace' /\ Owns(t)
    BY <1>1 DEF IInv, TypeOK, Owns, PopOwner
  <1>3. loc[t] \in Nat /\ Slot(loc[t]) \in Slots /\ nodeTail[Slot(loc[t])] = loc[t]
    BY <1>2, TicketOwned
  <1>4. loc[t] < head
    BY <1>1 DEF IInv, OwnerInv, PopOwner
  <1>5. \A u \in Threads : u # t => pc'[u] = pc[u] /\ val'[u] = val[u]
    BY <1>1, <1>2
  <1>6. ASSUME NEW i \in head .. tail - 1 PROVE data'[Slot(i)] = data[Slot(i)]
    <2>1. i \in Nat /\ head <= i /\ i < tail
      BY <1>2
    <2>2. nodeTail[Slot(i)] = i
      BY <2>1 DEF IInv, TicketInv
    <2> QED BY <1>1, <1>2, <1>3, <1>4, <2>1, <2>2, SlotType
  <1>7. Items' = Items
    BY <1>1, <1>2, <1>5, <1>6, SameItems
  <1>8. ASSUME NEW u \in Threads PROVE CallOf(u)' = CallOf(u)
    <2>1. CASE u = t
      BY <1>1, <1>2, <2>1 DEF CallOf, PushStates, PopStates, PushOwner
    <2>2. CASE u # t
      <3>1. ASSUME pc[u] = "popRead" PROVE data'[Slot(loc'[u])] = data[Slot(loc[u])]
        <4>1. Owns(u)
          BY <3>1 DEF Owns, PopOwner
        <4>2. Slot(loc[u]) # Slot(loc[t])
          BY <1>2, <2>2, <4>1 DEF NoDataRace
        <4> QED BY <1>1, <1>2, <4>1, <4>2, TicketOwned
      <3> QED BY <1>1, <1>5, <2>2, <3>1, SameCall
    <2> QED BY <2>1, <2>2
  <1>9. Calls' = Calls
    BY <1>8 DEF Calls
  <1> QED BY <1>7, <1>9 DEF Fifo!fifoVars

\* The tail of a sequence moves every element one place to the front.
LEMMA TailShifts ==
  ASSUME NEW S, NEW s \in Seq(S), s # <<>>
  PROVE  Tail(s) = [j \in 1 .. Len(s) - 1 |-> s[j + 1]]
  <1>1. /\ Tail(s) \in Seq(S)
        /\ Len(Tail(s)) = Len(s) - 1
        /\ \A j \in 1 .. Len(s) - 1 : Tail(s)[j] = s[j + 1]
    BY HeadTailProperties
  <1>2. Tail(s) \in [1 .. Len(s) - 1 -> S]
    BY <1>1, LenProperties
  <1> QED BY <1>1, <1>2

\* The compare-and-swap of a pop takes the oldest value.
LEMMA PopCASSimulates ==
  ASSUME IInv, IInv', NEW t \in Threads, PopCAS(t)
  PROVE  Fifo!Dequeue(t)
  <1>1. /\ loc[t] = head /\ head < tail
        /\ pc[t] = "popCAS" /\ pc' = [pc EXCEPT ![t] = "popRead"]
        /\ head' = head + 1
        /\ UNCHANGED <<tail, loc, val, data>>
        /\ \A u \in Threads : pc[u] \in PushOwner => loc[u] # head
    BY TicketToPop DEF PopCAS, Goto
  <1>2. /\ head \in Nat /\ tail \in Nat /\ DOMAIN pc = Threads
        /\ NoDataRace /\ NoDataRace'
    BY DEF IInv, TypeOK
  <1>3. \A u \in Threads : pc'[u] = "pushWrite" <=> pc[u] = "pushWrite"
    BY <1>1, <1>2
  <1>4. ASSUME NEW i PROVE TicketValue(i)' = TicketValue(i)
    <2>1. CASE \E u \in Threads : pc[u] = "pushWrite" /\ loc[u] = i
      <3>1. PICK u \in Threads : pc[u] = "pushWrite" /\ loc[u] = i
        BY <2>1
      <3>2. TicketValue(loc[u]) = val[u] /\ TicketValue(loc[u])' = val'[u]
        BY <1>2, <1>3, <3>1, TicketFilling, TicketFillingNext
      <3>3. TicketValue(loc[u])' = TicketValue(i)'
        BY <1>1, <3>1 DEF TicketValue
      <3> QED BY <1>1, <3>1, <3>2, <3>3
    <2>2. CASE ~(\E u \in Threads : pc[u] = "pushWrite" /\ loc[u] = i)
      BY <1>1, <1>3, <2>2, TicketFilled, TicketFilledNext
    <2> QED BY <2>1, <2>2
  <1>5. TicketValue(head) = data[Slot(head)]
    BY <1>1, TicketFilled DEF PushOwner
  <1>6. /\ Items \in Seq(Values \cup {Raw})
        /\ Len(Items) = tail - head
        /\ \A j \in 1 .. tail - head : Items[j] = TicketValue(head + j - 1)
    BY ItemsSeq
  <1>7. Items # <<>> /\ Head(Items) = data[Slot(loc[t])]
    BY <1>1, <1>2, <1>5, <1>6
  <1>8. Items' = Tail(Items)
    <2>1. tail' - head' = tail - head - 1
      BY <1>1, <1>2
    <2>2. Items' = [j \in 1 .. tail - head - 1 |-> TicketValue(head + j - 1)']
      BY <2>1 DEF Items
    <2>3. ASSUME NEW j \in 1 .. tail - head - 1
          PROVE  TicketValue(head + j - 1)' = Items[j + 1]
      <3>1. PICK i : i = head + j
        OBVIOUS
      <3>2. i = head' + j - 1
        BY <1>1, <1>2, <3>1
      <3>3. TicketValue(i)' = TicketValue(head + j - 1)'
        BY <3>2 DEF TicketValue
      <3>4. Items[j + 1] = TicketValue(i)
        BY <1>2, <1>6, <3>1
      <3> QED BY <1>4, <3>3, <3>4
    <2>4. Items' = [j \in 1 .. tail - head - 1 |-> Items[j + 1]]
      BY <2>2, <2>3
    <2>5. Items' = [j \in 1 .. Len(Items) - 1 |-> Items[j + 1]]
      BY <1>6, <2>4
    <2> QED BY <1>6, <1>7, <2>5, TailShifts
  <1>9. Calls[t] = Fifo!Popping /\ Calls' = [Calls EXCEPT ![t] = Fifo!Popped(Head(Items))]
    <2>1. CallOf(t) = Fifo!Popping /\ CallOf(t)' = Fifo!Popped(data[Slot(loc[t])])
      BY <1>1, <1>2
      DEF CallOf, Fifo!Popping, Fifo!Popped, PushStates, PopStates, PushOwner
    <2>2. ASSUME NEW u \in Threads, u # t PROVE CallOf(u)' = CallOf(u)
      BY <1>1, <1>2, <2>2, SameCall
    <2> QED BY <1>7, <2>1, <2>2, OneCall DEF Calls
  <1> QED BY <1>7, <1>8, <1>9 DEF Fifo!Dequeue

\* The lock-free queue is a bounded first-in first-out queue, for every number of
\* threads and every capacity: each successful push and pop takes effect at its
\* compare-and-swap, nothing is lost, duplicated or reordered.
THEOREM Refinement == Spec => FifoSpec
  <1>1. Init => Fifo!Init
    <2> SUFFICES ASSUME Init PROVE Fifo!Init
      OBVIOUS
    <2>1. Items = <<>>
      BY DEF Init, Items
    <2>2. Calls = [t \in Threads |-> Fifo!Idle]
      BY DEF Init, Calls, CallOf, Fifo!Idle, PushStates, PopStates, PushOwner
    <2> QED BY <2>1, <2>2 DEF Fifo!Init
  <1>2. /\ IInv /\ CarryInv /\ ContentsInv /\ [Next]_vars
        /\ (IInv /\ CarryInv /\ ContentsInv)'
        => [Fifo!Next]_Fifo!fifoVars
    <2> SUFFICES ASSUME IInv, CarryInv, [Next]_vars, IInv'
                 PROVE  Fifo!Next \/ UNCHANGED Fifo!fifoVars
      OBVIOUS
    <2>1. ASSUME NEW t \in Threads, Push(t) \/ Pop(t) \/ Size(t)
          PROVE  Quiet(t) \/ PushCAS(t) \/ PushWrite(t) \/ PopCAS(t) \/ PopRead(t)
      BY <2>1 DEF Push, Pop, Size, Quiet
    <2>2. ASSUME NEW t \in Threads, PushCAS(t) PROVE Fifo!Next
      BY <2>2, PushCASSimulates DEF Fifo!Next
    <2>3. ASSUME NEW t \in Threads, PopCAS(t) PROVE Fifo!Next
      BY <2>3, PopCASSimulates DEF Fifo!Next
    <2>4. CASE UNCHANGED vars
      <3>1. NoDataRace /\ NoDataRace' /\ head \in Nat /\ tail \in Nat
        BY DEF IInv, TypeOK
      <3>2. Items' = Items
        BY <2>4, <3>1, SameItems DEF vars
      <3>3. Calls' = Calls
        BY <2>4, SameCall DEF vars, Calls
      <3> QED BY <3>2, <3>3 DEF Fifo!fifoVars
    <2> QED BY <2>1, <2>2, <2>3, <2>4, QuietSimulates, PushWriteSimulates,
               PopReadSimulates DEF Next
  <1> QED BY <1>1, <1>2, ContentsInvariance, PTL DEF Spec, FifoSpec, Fifo!Spec
=============================================================================
