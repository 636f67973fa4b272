------------------------------ MODULE Waiting -------------------------------
(***************************************************************************)
(* Monitor and Signal of src/src/Monitor.cpp and src/src/Signal.cpp over   *)
(* the mutex and the condition variable of pthread: threads that wait,     *)
(* with and without a timeout, and threads that set and reset.             *)
(*                                                                         *)
(* Both keep a flag under a mutex. Signal::wait() looks at the flag before *)
(* it sleeps, and leaves it; Monitor::wait() sleeps first, in the lock of  *)
(* its caller, and takes the flag with it.                                 *)
(***************************************************************************)
EXTENDS Naturals

CONSTANTS Waiters,  \* threads that wait
          Timed,    \* those of them that wait with a timeout
          Setters,
          MaxWaits, MaxSets \* bounds: how often they do

VARIABLES class,       \* "Monitor" or "Signal"
          flag,        \* signaled
          mutex,       \* who holds mdata
          at,          \* where each thread is; "asleep": in the queue of cdata
          waits, sets, \* how often wait() and set() were called
          taken        \* how often wait() returned true

waitVars == <<class, flag, mutex, at, waits, sets, taken>>

Nobody == "nobody"

\* Nobody is no thread.
ASSUME NobodyAssumption == Nobody \notin Waiters

MoveTo(t, to) == at' = [at EXCEPT ![t] = to]

WaitInit == /\ class \in {"Monitor", "Signal"}
            /\ flag \in (IF class = "Signal" THEN BOOLEAN ELSE {FALSE})
            /\ mutex = Nobody
            /\ at = [t \in Waiters \cup Setters |-> "idle"]
            /\ waits = 0 /\ sets = 0 /\ taken = 0

\* Monitor::lock(), a tryLock() that succeeds, and the lock at the start of Signal::wait().
lock(w) == /\ at[w] = "idle" /\ mutex = Nobody /\ waits < MaxWaits
           /\ mutex' = w /\ waits' = waits + 1
           /\ MoveTo(w, "locked")
           /\ UNCHANGED <<class, flag, sets, taken>>

\* pthread_cond_wait: the mutex is given up.
Sleep(w) == MoveTo(w, "asleep") /\ mutex' = Nobody /\ UNCHANGED <<flag, taken>>

Leave(w, true) == /\ MoveTo(w, "done") /\ mutex' = w
                  /\ taken' = IF true THEN taken + 1 ELSE taken

\* Monitor::wait() up to its first sleep; an iteration of Signal::wait().
wait(w) == /\ at[w] = "locked"
           /\ IF class = "Signal" /\ flag THEN Leave(w, TRUE) /\ UNCHANGED flag ELSE Sleep(w)
           /\ UNCHANGED <<class, waits, sets>>

\* Mutant: the flag is not reset.
wakeKeeps(w) == /\ at[w] = "woken" /\ mutex = Nobody
                /\ IF class = "Signal" THEN MoveTo(w, "locked") /\ mutex' = w /\ UNCHANGED <<flag, taken>>
                   ELSE IF flag THEN Leave(w, TRUE) /\ UNCHANGED flag
                   ELSE Sleep(w)
                /\ UNCHANGED <<class, waits, sets>>

\* pthread_cond_wait returns, with the mutex: Monitor::wait() takes the flag or sleeps again.
wake(w) == /\ at[w] = "woken" /\ mutex = Nobody
           /\ IF class = "Signal" THEN MoveTo(w, "locked") /\ mutex' = w /\ UNCHANGED <<flag, taken>>
              ELSE IF flag THEN Leave(w, TRUE) /\ flag' = FALSE
              ELSE Sleep(w)
           /\ UNCHANGED <<class, waits, sets>>

\* Mutant: the flag is reset by a wait that reports a timeout.
expireResets(w) == /\ at[w] = "expired" /\ mutex = Nobody
                   /\ Leave(w, FALSE) /\ flag' = (class = "Signal" /\ flag)
                   /\ UNCHANGED <<class, waits, sets>>

\* pthread_cond_timedwait returns an error: the flag is not looked at.
expire(w) == /\ at[w] = "expired" /\ mutex = Nobody
             /\ Leave(w, FALSE)
             /\ UNCHANGED <<class, flag, waits, sets>>

unlock(w) == /\ at[w] = "done" /\ mutex = w
             /\ mutex' = Nobody
             /\ MoveTo(w, "idle")
             /\ UNCHANGED <<class, flag, waits, sets, taken>>

\* External: the timeout of pthread_cond_timedwait, and a spurious wakeup.
Timeout(w) == /\ at[w] = "asleep" /\ w \in Timed
              /\ MoveTo(w, "expired")
              /\ UNCHANGED <<class, flag, mutex, waits, sets, taken>>

Spurious(w) == /\ at[w] = "asleep"
               /\ MoveTo(w, "woken")
               /\ UNCHANGED <<class, flag, mutex, waits, sets, taken>>

\* set() up to the unlock.
set(s) == /\ at[s] = "idle" /\ mutex = Nobody /\ sets < MaxSets
          /\ flag' = TRUE /\ sets' = sets + 1
          /\ MoveTo(s, "stored")
          /\ UNCHANGED <<class, mutex, waits, taken>>

\* Mutant: Signal::set() wakes only one thread.
notifyOne(s) ==
  /\ at[s] = "stored"
  /\ LET asleep == {w \in Waiters : at[w] = "asleep"}
     IN  \E W \in {{w} : w \in asleep} \cup {V \in {{}} : asleep = {}} :
           at' = [t \in DOMAIN at |-> IF t = s THEN "idle" ELSE IF t \in W THEN "woken" ELSE at[t]]
  /\ UNCHANGED <<class, flag, mutex, waits, sets, taken>>

\* pthread_cond_signal of Monitor::set(), pthread_cond_broadcast of Signal::set().
notify(s) ==
  /\ at[s] = "stored"
  /\ LET asleep == {w \in Waiters : at[w] = "asleep"}
     IN  \E W \in IF class = "Signal" \/ asleep = {} THEN {asleep} ELSE {{w} : w \in asleep} :
           at' = [t \in DOMAIN at |-> IF t = s THEN "idle" ELSE IF t \in W THEN "woken" ELSE at[t]]
  /\ UNCHANGED <<class, flag, mutex, waits, sets, taken>>

reset(s) == /\ class = "Signal" /\ at[s] = "idle" /\ mutex = Nobody
            /\ flag' = FALSE
            /\ UNCHANGED <<class, mutex, at, waits, sets, taken>>

InWait(w) == wait(w) \/ wake(w) \/ expire(w) \/ unlock(w)

WaitNext == \/ \E w \in Waiters : lock(w) \/ InWait(w) \/ Timeout(w) \/ Spurious(w)
            \/ \E s \in Setters : set(s) \/ notify(s) \/ reset(s)

\* A thread that is not blocked goes on; nobody has to call wait() or set() again, and no
\* timeout and no spurious wakeup is relied on.
WaitFairness == /\ \A w \in Waiters : WF_waitVars(InWait(w))
                /\ \A s \in Setters : WF_waitVars(notify(s))

WaitSpec == WaitInit /\ [][WaitNext]_waitVars /\ WaitFairness

-----------------------------------------------------------------------------
\* One set() of a Monitor lets at most one wait() return true, however the wakeups, the timeouts
\* and the calls overlap (Monitor.cpp 66-76, 99-108).
MonitorOnce == class = "Monitor" => taken <= sets

\* A set() made while a thread is in Monitor::wait() without a timeout is not lost, although the
\* mutex is released before pthread_cond_signal is called and a timed wait may run out in
\* between: some wait() returns true (Monitor.cpp 84-109, 120-137).
MonitorWakes ==
  \A n \in 0 .. MaxSets - 1 :
    (/\ class = "Monitor" /\ flag /\ taken = n
     /\ \E s \in Setters : at[s] = "stored"
     /\ \E w \in Waiters \ Timed : at[w] = "asleep") ~> (taken > n)

\* While a Signal is set no thread stays in wait(), whoever was woken before it
\* (Signal.cpp 35-45, 58-74).
SignalReleases ==
  \A w \in Waiters : (class = "Signal" /\ flag /\ at[w] = "asleep") ~> (at[w] = "done" \/ ~flag)
=============================================================================
