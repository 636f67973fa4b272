--------------------------- MODULE Future_proofs ---------------------------
(***************************************************************************)
(* Proofs about Future for every set of owners and workers and every       *)
(* number of calls, and, at the end, about the Monitor and the Signal of   *)
(* Waiting.                                                                *)
(*                                                                         *)
(* A Future that is joinable has exactly one call, and that call is either *)
(* pending, or with one worker that has not signaled yet, or signaled; one *)
(* that is not joinable has none.  The inductive invariant says so, and    *)
(* what result, _state and _aborting are in each of these phases.          *)
(***************************************************************************)
EXTENDS Future, Waiting, TLAPS

\* Before Signal::set: the worker still has the call of its Future to finish.
Running(w) == wpc[w] \in {"call", "readAborting", "swapState", "signal"}

\* The call of o is not over.
Busy(o) == \/ \E c \in pending : c[1] = o
           \/ \E w \in Workers : Running(w) /\ FutureOf(w) = o

\* A call that is not over is the last one that was started, and the only one.
CallInv ==
  /\ \A c \in pending : c[2] = starts[c[1]]
  /\ \A w \in Workers : Running(w) => call[w][2] = starts[FutureOf(w)]
  /\ \A w \in Workers, c \in pending : Running(w) => FutureOf(w) # c[1]
  /\ \A v, w \in Workers : Running(v) /\ Running(w) /\ v # w => FutureOf(v) # FutureOf(w)

\* The three phases of a call, and where the owner can be in them.
PhaseInv ==
  \A o \in Owners :
    /\ Busy(o) => joinable[o] /\ ~signaled[o] /\ starts[o] > 0
    /\ signaled[o] => joinable[o]
    /\ pc[o] = "reset" => signaled[o]
    /\ pc[o] \in {"wait", "asleep"} => joinable[o]
    /\ pc[o] \in {"run", "destroy", "gone"} => ~joinable[o]
    /\ o \notin alive => pc[o] = "gone"

\* What the members hold when the call is over or as far as a worker has come.
ResultInv ==
  /\ \A o \in Owners :
       ~joinable[o] \/ signaled[o] => /\ result[o] = starts[o]
                                      /\ starts[o] > 0 => state[o] # "idle"
  /\ \A w \in Workers :
       /\ wpc[w] \in {"readAborting", "swapState", "signal"} => result[FutureOf(w)] = call[w][2]
       /\ wpc[w] = "signal" => state[FutureOf(w)] # "idle"

\* An abort that shows in _aborting, in what a worker read of it or in the state of
\* a call that is over is an abort of the last call.
AbortInv ==
  /\ \A o \in Owners :
       /\ aborting[o] => abortOf[o] = starts[o]
       /\ (~joinable[o] \/ signaled[o]) /\ state[o] = "aborted" => abortOf[o] = starts[o]
  /\ \A w \in Workers :
       /\ wpc[w] = "swapState" /\ seen[w] => abortOf[FutureOf(w)] = starts[FutureOf(w)]
       /\ wpc[w] = "signal" /\ state[FutureOf(w)] = "aborted"
            => abortOf[FutureOf(w)] = starts[FutureOf(w)]

\* The pool exists once its pointer is set, and behind startProc it is set.
PoolInv ==
  /\ created = IF threadPool THEN 1 ELSE 0
  /\ \A o \in Owners :
       /\ pc[o] \in {"create", "unlock"} => poolLock
       /\ pc[o] \in {"lock", "create", "unlock"} => after[o] = "run"
       /\ after[o] = "run" /\ pc[o] \in {"unlock", "join", "wait", "asleep", "reset", "run"}
            => threadPool
       /\ pc[o] = "run" => after[o] = "run"
  /\ \A o, p \in Owners :
       pc[o] \in {"create", "unlock"} /\ pc[p] \in {"create", "unlock"} => o = p

\* The inductive invariant.
IInv == TypeOK /\ CallInv /\ PhaseInv /\ ResultInv /\ AbortInv /\ PoolInv

-----------------------------------------------------------------------------
\* Futures that have not been started satisfy the invariant.
LEMMA InitIInv == Init => IInv
  <1> SUFFICES ASSUME Init PROVE IInv
    OBVIOUS
  <1> USE DEF Init, Running, Busy
  <1>1. TypeOK BY DEF TypeOK
  <1>2. CallInv BY DEF CallInv
  <1>3. PhaseInv BY DEF PhaseInv
  <1>4. ResultInv BY DEF ResultInv
  <1>5. AbortInv BY DEF AbortInv
  <1>6. PoolInv BY DEF PoolInv
  <1> QED BY <1>1, <1>2, <1>3, <1>4, <1>5, <1>6 DEF IInv

\* An owner that begins to start a call keeps the invariant.
LEMMA StartStep ==
  ASSUME IInv, NEW o \in Owners, Start(o)
  PROVE IInv'
  <1> USE DEF IInv, TypeOK, Start, Goto, Running, FutureOf, poolVars, memberVars,
          historyVars, ownerVars, workerVars
  <1>1. TypeOK' OBVIOUS
  <1>2. CallInv' BY DEF CallInv, PhaseInv, Busy
  <1>3. PhaseInv' BY DEF PhaseInv, CallInv, Busy
  <1>4. ResultInv' BY DEF ResultInv, PhaseInv, CallInv, Busy
  <1>5. AbortInv' BY DEF AbortInv, PhaseInv, CallInv, Busy
  <1>6. PoolInv' BY DEF PoolInv
  <1> QED BY <1>1, <1>2, <1>3, <1>4, <1>5, <1>6

\* An owner that takes the lock of the pool's pointer keeps the invariant.
LEMMA LockPoolStep ==
  ASSUME IInv, NEW o \in Owners, LockPool(o)
  PROVE IInv'
  <1> USE DEF IInv, TypeOK, LockPool, Goto, Running, FutureOf, poolVars, memberVars,
          historyVars, ownerVars, workerVars
  <1>1. TypeOK' OBVIOUS
  <1>2. CallInv' BY DEF CallInv, PhaseInv, Busy
  <1>3. PhaseInv' BY DEF PhaseInv, CallInv, Busy
  <1>4. ResultInv' BY DEF ResultInv, PhaseInv, CallInv, Busy
  <1>5. AbortInv' BY DEF AbortInv, PhaseInv, CallInv, Busy
  <1>6. PoolInv' BY DEF PoolInv
  <1> QED BY <1>1, <1>2, <1>3, <1>4, <1>5, <1>6

\* An owner that makes the pool, or finds it made keeps the invariant.
LEMMA CreatePoolStep ==
  ASSUME IInv, NEW o \in Owners, CreatePool(o)
  PROVE IInv'
  <1> USE DEF IInv, TypeOK, CreatePool, Goto, Running, FutureOf, poolVars, memberVars,
          historyVars, ownerVars, workerVars
  <1>1. TypeOK' OBVIOUS
  <1>2. CallInv' BY DEF CallInv, PhaseInv, Busy
  <1>3. PhaseInv' BY DEF PhaseInv, CallInv, Busy
  <1>4. ResultInv' BY DEF ResultInv, PhaseInv, CallInv, Busy
  <1>5. AbortInv' BY DEF AbortInv, PhaseInv, CallInv, Busy
  <1>6. PoolInv' BY DEF PoolInv
  <1> QED BY <1>1, <1>2, <1>3, <1>4, <1>5, <1>6

\* An owner that releases the lock keeps the invariant.
LEMMA UnlockPoolStep ==
  ASSUME IInv, NEW o \in Owners, UnlockPool(o)
  PROVE IInv'
  <1> USE DEF IInv, TypeOK, UnlockPool, Goto, Running, FutureOf, poolVars, memberVars,
          historyVars, ownerVars, workerVars
  <1>1. TypeOK' OBVIOUS
  <1>2. CallInv' BY DEF CallInv, PhaseInv, Busy
  <1>3. PhaseInv' BY DEF PhaseInv, CallInv, Busy
  <1>4. ResultInv' BY DEF ResultInv, PhaseInv, CallInv, Busy
  <1>5. AbortInv' BY DEF AbortInv, PhaseInv, CallInv, Busy
  <1>6. PoolInv' BY DEF PoolInv
  <1> QED BY <1>1, <1>2, <1>3, <1>4, <1>5, <1>6

\* An owner that hands its call to the pool keeps the invariant.
LEMMA RunStep ==
  ASSUME IInv, NEW o \in Owners, Run(o)
  PROVE IInv'
  <1> USE DEF IInv, TypeOK, Run, Goto, Running, FutureOf, poolVars, memberVars,
          historyVars, ownerVars, workerVars
  <1>1. TypeOK' OBVIOUS
  <1>2. CallInv' BY DEF CallInv, PhaseInv, Busy
  <1>3. PhaseInv' BY DEF PhaseInv, CallInv, Busy
  <1>4. ResultInv' BY DEF ResultInv, PhaseInv, CallInv, Busy
  <1>5. AbortInv' BY DEF AbortInv, PhaseInv, CallInv, Busy
  <1>6. PoolInv' BY DEF PoolInv
  <1> QED BY <1>1, <1>2, <1>3, <1>4, <1>5, <1>6

\* An owner that calls join() keeps the invariant.
LEMMA JoinStep ==
  ASSUME IInv, NEW o \in Owners, Join(o)
  PROVE IInv'
  <1> USE DEF IInv, TypeOK, Join, Goto, Running, FutureOf, poolVars, memberVars,
          historyVars, ownerVars, workerVars
  <1>1. TypeOK' OBVIOUS
  <1>2. CallInv' BY DEF CallInv, PhaseInv, Busy
  <1>3. PhaseInv' BY DEF PhaseInv, CallInv, Busy
  <1>4. ResultInv' BY DEF ResultInv, PhaseInv, CallInv, Busy
  <1>5. AbortInv' BY DEF AbortInv, PhaseInv, CallInv, Busy
  <1>6. PoolInv' BY DEF PoolInv
  <1> QED BY <1>1, <1>2, <1>3, <1>4, <1>5, <1>6

\* An owner that looks whether there is a call to join keeps the invariant.
LEMMA JoinTestStep ==
  ASSUME IInv, NEW o \in Owners, JoinTest(o)
  PROVE IInv'
  <1> USE DEF IInv, TypeOK, JoinTest, Goto, Running, FutureOf, poolVars, memberVars,
          historyVars, ownerVars, workerVars
  <1>1. TypeOK' OBVIOUS
  <1>2. CallInv' BY DEF CallInv, PhaseInv, Busy
  <1>3. PhaseInv' BY DEF PhaseInv, CallInv, Busy
  <1>4. ResultInv' BY DEF ResultInv, PhaseInv, CallInv, Busy
  <1>5. AbortInv' BY DEF AbortInv, PhaseInv, CallInv, Busy
  <1>6. PoolInv' BY DEF PoolInv
  <1> QED BY <1>1, <1>2, <1>3, <1>4, <1>5, <1>6

\* An owner that waits for the signal keeps the invariant.
LEMMA WaitStep ==
  ASSUME IInv, NEW o \in Owners, Wait(o)
  PROVE IInv'
  <1> USE DEF IInv, TypeOK, Wait, Goto, Running, FutureOf, poolVars, memberVars,
          historyVars, ownerVars, workerVars
  <1>1. TypeOK' OBVIOUS
  <1>2. CallInv' BY DEF CallInv, PhaseInv, Busy
  <1>3. PhaseInv' BY DEF PhaseInv, CallInv, Busy
  <1>4. ResultInv' BY DEF ResultInv, PhaseInv, CallInv, Busy
  <1>5. AbortInv' BY DEF AbortInv, PhaseInv, CallInv, Busy
  <1>6. PoolInv' BY DEF PoolInv
  <1> QED BY <1>1, <1>2, <1>3, <1>4, <1>5, <1>6

\* An owner that has been signaled and resets keeps the invariant.
LEMMA ResetStep ==
  ASSUME IInv, NEW o \in Owners, Reset(o)
  PROVE IInv'
  <1> USE DEF IInv, TypeOK, Reset, Goto, Running, FutureOf, poolVars, memberVars,
          historyVars, ownerVars, workerVars
  <1>1. TypeOK' OBVIOUS
  <1>2. CallInv' BY DEF CallInv, PhaseInv, Busy
  <1>3. PhaseInv' BY DEF PhaseInv, CallInv, Busy
  <1>4. ResultInv' BY DEF ResultInv, PhaseInv, CallInv, Busy
  <1>5. AbortInv' BY DEF AbortInv, PhaseInv, CallInv, Busy
  <1>6. PoolInv' BY DEF PoolInv
  <1> QED BY <1>1, <1>2, <1>3, <1>4, <1>5, <1>6

\* An owner that begins to destroy its Future keeps the invariant.
LEMMA DestroyStep ==
  ASSUME IInv, NEW o \in Owners, Destroy(o)
  PROVE IInv'
  <1> USE DEF IInv, TypeOK, Destroy, Goto, Running, FutureOf, poolVars, memberVars,
          historyVars, ownerVars, workerVars
  <1>1. TypeOK' OBVIOUS
  <1>2. CallInv' BY DEF CallInv, PhaseInv, Busy
  <1>3. PhaseInv' BY DEF PhaseInv, CallInv, Busy
  <1>4. ResultInv' BY DEF ResultInv, PhaseInv, CallInv, Busy
  <1>5. AbortInv' BY DEF AbortInv, PhaseInv, CallInv, Busy
  <1>6. PoolInv' BY DEF PoolInv
  <1> QED BY <1>1, <1>2, <1>3, <1>4, <1>5, <1>6

\* An owner that has destroyed its Future keeps the invariant.
LEMMA DestroyedStep ==
  ASSUME IInv, NEW o \in Owners, Destroyed(o)
  PROVE IInv'
  <1> USE DEF IInv, TypeOK, Destroyed, Goto, Running, FutureOf, poolVars, memberVars,
          historyVars, ownerVars, workerVars
  <1>1. TypeOK' OBVIOUS
  <1>2. CallInv' BY DEF CallInv, PhaseInv, Busy
  <1>3. PhaseInv' BY DEF PhaseInv, CallInv, Busy
  <1>4. ResultInv' BY DEF ResultInv, PhaseInv, CallInv, Busy
  <1>5. AbortInv' BY DEF AbortInv, PhaseInv, CallInv, Busy
  <1>6. PoolInv' BY DEF PoolInv
  <1> QED BY <1>1, <1>2, <1>3, <1>4, <1>5, <1>6

\* An owner whose Future is aborted keeps the invariant.
LEMMA AbortStep ==
  ASSUME IInv, NEW o \in Owners, Abort(o)
  PROVE IInv'
  <1> USE DEF IInv, TypeOK, Abort, Goto, Running, FutureOf, poolVars, memberVars,
          historyVars, ownerVars, workerVars
  <1>1. TypeOK' OBVIOUS
  <1>2. CallInv' BY DEF CallInv, PhaseInv, Busy
  <1>3. PhaseInv' BY DEF PhaseInv, CallInv, Busy
  <1>4. ResultInv' BY DEF ResultInv, PhaseInv, CallInv, Busy
  <1>5. AbortInv' BY DEF AbortInv, PhaseInv, CallInv, Busy
  <1>6. PoolInv' BY DEF PoolInv
  <1> QED BY <1>1, <1>2, <1>3, <1>4, <1>5, <1>6

\* A worker that takes a call keeps the invariant.
LEMMA TakeStep ==
  ASSUME IInv, NEW w \in Workers, NEW c \in pending, Take(w, c)
  PROVE IInv'
  <1> USE DEF IInv, TypeOK, Take, WGoto, Running, FutureOf, poolVars, memberVars,
          historyVars, ownerVars, workerVars
  <1>1. TypeOK' OBVIOUS
  <1>2. CallInv' BY DEF CallInv, PhaseInv, Busy
  <1>3. PhaseInv' BY DEF PhaseInv, CallInv, Busy
  <1>4. ResultInv' BY DEF ResultInv, PhaseInv, CallInv, Busy
  <1>5. AbortInv' BY DEF AbortInv, PhaseInv, CallInv, Busy
  <1>6. PoolInv' BY DEF PoolInv
  <1> QED BY <1>1, <1>2, <1>3, <1>4, <1>5, <1>6

\* A worker that executes its call keeps the invariant.
LEMMA CallStep ==
  ASSUME IInv, NEW w \in Workers, Call(w)
  PROVE IInv'
  <1> USE DEF IInv, TypeOK, Call, WGoto, Running, FutureOf, poolVars, memberVars,
          historyVars, ownerVars, workerVars
  <1>1. TypeOK' OBVIOUS
  <1>2. CallInv' BY DEF CallInv, PhaseInv, Busy
  <1>3. PhaseInv' BY DEF PhaseInv, CallInv, Busy
  <1>4. ResultInv' BY DEF ResultInv, PhaseInv, CallInv, Busy
  <1>5. AbortInv' BY DEF AbortInv, PhaseInv, CallInv, Busy
  <1>6. PoolInv' BY DEF PoolInv
  <1> QED BY <1>1, <1>2, <1>3, <1>4, <1>5, <1>6

\* A worker that reads _aborting keeps the invariant.
LEMMA ReadAbortingStep ==
  ASSUME IInv, NEW w \in Workers, ReadAborting(w)
  PROVE IInv'
  <1> USE DEF IInv, TypeOK, ReadAborting, WGoto, Running, FutureOf, poolVars,
          memberVars, historyVars, ownerVars, workerVars
  <1>1. TypeOK' OBVIOUS
  <1>2. CallInv' BY DEF CallInv, PhaseInv, Busy
  <1>3. PhaseInv' BY DEF PhaseInv, CallInv, Busy
  <1>4. ResultInv' BY DEF ResultInv, PhaseInv, CallInv, Busy
  <1>5. AbortInv' BY DEF AbortInv, PhaseInv, CallInv, Busy
  <1>6. PoolInv' BY DEF PoolInv
  <1> QED BY <1>1, <1>2, <1>3, <1>4, <1>5, <1>6

\* A worker that sets the state keeps the invariant.
LEMMA SwapStateStep ==
  ASSUME IInv, NEW w \in Workers, SwapState(w)
  PROVE IInv'
  <1> USE DEF IInv, TypeOK, SwapState, WGoto, Running, FutureOf, poolVars, memberVars,
          historyVars, ownerVars, workerVars
  <1>1. TypeOK' OBVIOUS
  <1>2. CallInv' BY DEF CallInv, PhaseInv, Busy
  <1>3. PhaseInv' BY DEF PhaseInv, CallInv, Busy
  <1>4. ResultInv' BY DEF ResultInv, PhaseInv, CallInv, Busy
  <1>5. AbortInv' BY DEF AbortInv, PhaseInv, CallInv, Busy
  <1>6. PoolInv' BY DEF PoolInv
  <1> QED BY <1>1, <1>2, <1>3, <1>4, <1>5, <1>6

\* A worker that sets the signal keeps the invariant.
LEMMA SetSignalStep ==
  ASSUME IInv, NEW w \in Workers, SetSignal(w)
  PROVE IInv'
  <1> USE DEF IInv, TypeOK, SetSignal, WGoto, Running, FutureOf, poolVars, memberVars,
          historyVars, ownerVars, workerVars
  <1>1. TypeOK' OBVIOUS
  <1>2. CallInv' BY DEF CallInv, PhaseInv, Busy
  <1>3. PhaseInv' BY DEF PhaseInv, CallInv, Busy
  <1>4. ResultInv' BY DEF ResultInv, PhaseInv, CallInv, Busy
  <1>5. AbortInv' BY DEF AbortInv, PhaseInv, CallInv, Busy
  <1>6. PoolInv' BY DEF PoolInv
  <1> QED BY <1>1, <1>2, <1>3, <1>4, <1>5, <1>6

\* A worker that wakes the owner keeps the invariant.
LEMMA BroadcastStep ==
  ASSUME IInv, NEW w \in Workers, Broadcast(w)
  PROVE IInv'
  <1> USE DEF IInv, TypeOK, Broadcast, WGoto, Running, FutureOf, poolVars, memberVars,
          historyVars, ownerVars, workerVars
  <1>1. TypeOK' OBVIOUS
  <1>2. CallInv' BY DEF CallInv, PhaseInv, Busy
  <1>3. PhaseInv' BY DEF PhaseInv, CallInv, Busy
  <1>4. ResultInv' BY DEF ResultInv, PhaseInv, CallInv, Busy
  <1>5. AbortInv' BY DEF AbortInv, PhaseInv, CallInv, Busy
  <1>6. PoolInv' BY DEF PoolInv
  <1> QED BY <1>1, <1>2, <1>3, <1>4, <1>5, <1>6

\* No step breaks the invariant.
LEMMA NextIInv == IInv /\ [Next]_vars => IInv'
  <1> SUFFICES ASSUME IInv, [Next]_vars PROVE IInv'
    OBVIOUS
  <1>1. ASSUME NEW o \in Owners, Start(o) \/ Join(o) \/ Destroy(o) \/ Abort(o) \/ Proceed(o)
        PROVE IInv'
    BY <1>1, StartStep, JoinStep, DestroyStep, AbortStep, LockPoolStep, CreatePoolStep,
       UnlockPoolStep, JoinTestStep, WaitStep, ResetStep, RunStep, DestroyedStep DEF Proceed
  <1>2. ASSUME NEW w \in Workers, Work(w) PROVE IInv'
    BY <1>2, TakeStep, CallStep, ReadAbortingStep, SwapStateStep, SetSignalStep, BroadcastStep
       DEF Work
  <1>3. CASE UNCHANGED vars
    BY <1>3 DEF vars, poolVars, memberVars, historyVars, ownerVars, workerVars, IInv, TypeOK,
                CallInv, PhaseInv, ResultInv, AbortInv, PoolInv, Running, Busy, FutureOf
  <1> QED BY <1>1, <1>2, <1>3 DEF Next, Stop

\* The inductive invariant holds in every reachable state.
THEOREM Invariance == Spec => []IInv
  BY InitIInv, NextIInv, PTL DEF Spec

\* The members of every Future and the locals of every thread keep their types.
THEOREM TypeCorrect == Spec => []TypeOK
  <1>1. IInv => TypeOK
    BY DEF IInv
  <1> QED BY <1>1, Invariance, PTL

\* join() and start() return after the call they are for and on no other signal,
\* however often the Future is started again.
THEOREM JoinSound == Spec => []JoinedMeansDone
  <1>1. IInv => JoinedMeansDone
    BY DEF IInv, TypeOK, ResultInv, JoinedMeansDone
  <1> QED BY <1>1, Invariance, PTL

\* The state of a call that is over is "aborted" only if that call was aborted.
THEOREM AbortSound == Spec => []AbortOfThisCall
  <1>1. IInv => AbortOfThisCall
    BY DEF IInv, AbortInv, AbortOfThisCall
  <1> QED BY <1>1, Invariance, PTL

\* A Future is not destroyed while a worker still has to set its signal.
THEOREM LifetimeSound == Spec => []CallOutlived
  <1>1. IInv => CallOutlived
    BY DEF IInv, TypeOK, PhaseInv, Busy, Running, FutureOf, CallOutlived
  <1> QED BY <1>1, Invariance, PTL

\* However many threads start their first call at once, there is one pool.
THEOREM PoolUnique == Spec => []OnePool
  <1>1. IInv => OnePool
    BY DEF IInv, PoolInv, OnePool
  <1> QED BY <1>1, Invariance, PTL

(***************************************************************************)
(* Monitor and Signal for every set of threads.                            *)
(*                                                                         *)
(* What one set() of a Monitor hands over is the flag: it is counted while *)
(* it stands, and when a wait() takes it.  The invariant therefore adds    *)
(* the flag to the waits that returned true.                               *)
(***************************************************************************)

\* The members of Monitor and Signal keep their types.
WaitTypes == /\ class \in {"Monitor", "Signal"}
             /\ flag \in BOOLEAN
             /\ sets \in Nat
             /\ taken \in Nat
             /\ DOMAIN at = Waiters \cup Setters

\* The flag of a Monitor is a set() that no wait() has taken yet.
TokenInv == class = "Monitor" => taken + (IF flag THEN 1 ELSE 0) <= sets

\* The inductive invariant.
WaitInv == WaitTypes /\ TokenInv

\* No wait() is in progress at first, and no set() either.
LEMMA InitWaitInv == WaitInit => WaitInv
  <1> SUFFICES ASSUME WaitInit PROVE WaitInv
    OBVIOUS
  <1>1. class \in {"Monitor", "Signal"} /\ flag \in BOOLEAN
    BY Zenon DEF WaitInit
  <1>2. class = "Monitor" => flag = FALSE
    BY DEF WaitInit
  <1> QED BY <1>1, <1>2 DEF WaitInit, WaitInv, WaitTypes, TokenInv

\* A waiting thread takes the flag at most once, and takes it away.
LEMMA WaiterStep ==
  ASSUME WaitInv, NEW w \in Waiters,
         lock(w) \/ InWait(w) \/ Timeout(w) \/ Spurious(w)
  PROVE  WaitInv'
  <1> USE NobodyAssumption DEF WaitInv, WaitTypes, MoveTo
  <1>1. CASE lock(w)
    BY <1>1 DEF lock, TokenInv
  <1>2. CASE wait(w)
    BY <1>2 DEF wait, Sleep, Leave, TokenInv
  <1>3. CASE wake(w)
    <2>1. CASE class = "Signal"
      BY <1>3, <2>1 DEF wake, TokenInv
    <2>2. CASE class # "Signal" /\ flag
      <3>1. /\ taken' = taken + 1 /\ flag' = FALSE /\ mutex' = w
            /\ at' = [at EXCEPT ![w] = "done"] /\ mutex = Nobody
            /\ UNCHANGED <<class, sets>>
        BY <1>3, <2>2 DEF wake, Leave
      <3>2. class = "Monitor" => taken + 1 <= sets
        BY <2>2 DEF TokenInv
      <3>3. TokenInv'
        BY <3>1, <3>2 DEF TokenInv
      <3>4. flag' \in BOOLEAN
        BY <3>1, Zenon
      <3>5. taken' \in Nat
        BY <3>1
      <3> QED BY <3>1, <3>3, <3>4, <3>5
    <2>3. CASE class # "Signal" /\ ~flag
      BY <1>3, <2>3 DEF wake, Sleep, TokenInv
    <2> QED BY <2>1, <2>2, <2>3
  <1>4. CASE expire(w)
    BY <1>4 DEF expire, Leave, TokenInv
  <1>5. CASE unlock(w)
    BY <1>5 DEF unlock, TokenInv
  <1>6. CASE Timeout(w)
    BY <1>6 DEF Timeout, TokenInv
  <1>7. CASE Spurious(w)
    BY <1>7 DEF Spurious, TokenInv
  <1> QED BY <1>1, <1>2, <1>3, <1>4, <1>5, <1>6, <1>7 DEF InWait

\* A set() raises the flag and is counted; a reset() only takes a flag away.
LEMMA SetterStep ==
  ASSUME WaitInv, NEW s \in Setters, set(s) \/ notify(s) \/ reset(s)
  PROVE  WaitInv'
  <1> USE DEF WaitInv, WaitTypes, MoveTo
  <1>1. CASE set(s)
    BY <1>1 DEF set, TokenInv
  <1>2. CASE notify(s)
    BY <1>2 DEF notify, TokenInv
  <1>3. CASE reset(s)
    BY <1>3 DEF reset, TokenInv
  <1> QED BY <1>1, <1>2, <1>3

\* The inductive invariant holds in every reachable state.
THEOREM WaitInvariance == WaitSpec => []WaitInv
  <1>1. WaitInv /\ [WaitNext]_waitVars => WaitInv'
    <2> SUFFICES ASSUME WaitInv, [WaitNext]_waitVars PROVE WaitInv'
      OBVIOUS
    <2>1. CASE UNCHANGED waitVars
      BY <2>1 DEF waitVars, WaitInv, WaitTypes, TokenInv
    <2>2. CASE WaitNext
      BY <2>2, WaiterStep, SetterStep DEF WaitNext
    <2> QED BY <2>1, <2>2
  <1> QED BY <1>1, InitWaitInv, PTL DEF WaitSpec

\* One Monitor::set() lets at most one wait() return true, for any number of threads,
\* with timeouts and spurious wakeups (Monitor.cpp 66-109).
THEOREM OneWaitPerSet == WaitSpec => []MonitorOnce
  <1>1. WaitInv => MonitorOnce
    BY DEF WaitInv, WaitTypes, TokenInv, MonitorOnce
  <1> QED BY <1>1, WaitInvariance, PTL
=============================================================================
