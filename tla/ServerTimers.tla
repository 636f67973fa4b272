---------------------------- MODULE ServerTimers ----------------------------
(***************************************************************************)
(* The timers of src/src/Socket/Server.cpp: time(), remove(Timer&) and the *)
(* loop of run() that activates them, on the MultiMap _queuedTimers as it  *)
(* is implemented (AvlTree).  An item of the map is named after the timer  *)
(* its value points to; Default is the "default timeout" timer, whose      *)
(* value is null.                                                          *)
(*                                                                         *)
(* The user calls time() and remove() between two rounds of run() (in any  *)
(* callback, or while run() is not running) and in onActivated().          *)
(***************************************************************************)
EXTENDS AvlTree, FiniteSets

CONSTANTS Timers,       \* addresses of TimerImpl objects
          Intervals,    \* the intervals the user asks for
          DefaultTime,  \* 300 * 1000 in the code
          MaxTime       \* bound: the clock stops here

Default == 1   \* the item of the null pointer; Timers are numbers above it

VARIABLES queue,   \* _queuedTimers
          timers,  \* _timers: executionTime and interval of the live ones
          clock,   \* Time::ticks()
          at,      \* "user", "timers" or, in onActivated(), "callback"
          now,     \* the local variable of run()
          active   \* the timer of the callback

vars == <<queue, timers, clock, at, now, active>>

Init == /\ queue = Insert(NewTree(Timers \cup {Default}), Default, 0, TRUE)
        /\ timers = <<>>
        /\ clock = 0
        /\ at = "user" /\ now = 0 /\ active = Nil

User == at \in {"user", "callback"}
Queued == {queue.cell[c] : c \in DOMAIN queue.cell} \ {Nil}

time(t, interval) ==
  /\ User /\ t \notin DOMAIN timers \cup Queued
  /\ timers' = (t :> [executionTime |-> clock + interval, interval |-> interval]) @@ timers
  /\ queue' = Insert(queue, t, clock + interval, TRUE)
  /\ UNCHANGED <<clock, at, now, active>>

\* The loop in remove(TimerImpl&), from the item find() has returned.
RECURSIVE Search(_, _)
Search(i, t) ==
  IF i = EndItem THEN EndItem
  ELSE IF i = t THEN i
  ELSE IF queue.key[i] # timers[t].executionTime THEN EndItem
  ELSE Search(queue.next[i], t)

remove(t) ==
  /\ User /\ t \in DOMAIN timers
  /\ LET i == Search(Find(queue, timers[t].executionTime), t)
     IN  queue' = IF i = EndItem THEN queue ELSE RemoveItem(queue, i)
  /\ timers' = [u \in DOMAIN timers \ {t} |-> timers[u]]
  /\ UNCHANGED <<clock, at, now, active>>

\* run() is called, or goes into the next round.
Round == /\ at = "user"
         /\ at' = "timers" /\ now' = clock
         /\ UNCHANGED <<queue, timers, clock, active>>

\* The loop over the timers that are due.
NextTimer ==
  /\ at = "timers"
  /\ LET first == queue.begin
         rest == RemoveItem(queue, first)
     IN  IF queue.key[first] > now
         THEN /\ at' = "user" /\ active' = Nil /\ now' = 0
              /\ UNCHANGED <<queue, timers>>
         ELSE IF first = Default
         THEN /\ queue' = Insert(rest, Default, now + DefaultTime, TRUE)
              /\ UNCHANGED <<timers, at, now, active>>
         ELSE /\ first \in DOMAIN timers   \* otherwise the program reads freed memory
              /\ LET next == timers[first].executionTime + timers[first].interval
                 IN  /\ timers' = [timers EXCEPT ![first].executionTime = next]
                     /\ queue' = Insert(rest, first, next, TRUE)
              /\ at' = "callback" /\ active' = first
              /\ UNCHANGED now
  /\ UNCHANGED clock

Return == /\ at = "callback"
          /\ at' = "timers"
          /\ UNCHANGED <<queue, timers, clock, now, active>>

Tick == /\ clock < MaxTime
        /\ clock' = clock + 1
        /\ UNCHANGED <<queue, timers, at, now, active>>

Next == \/ \E t \in Timers : remove(t) \/ \E n \in Intervals : time(t, n)
        \/ Round \/ NextTimer \/ Return \/ Tick

Spec == Init /\ [][Next]_vars

-----------------------------------------------------------------------------
\* A removed timer is not activated any more: what the test of the timers asserts with the
\* ASSERT(false) behind the activation that removes it (TestServer.cpp 33-34).  The loop of
\* run() (Server.cpp 250-262) is never about to read and call back a timer that was freed.
NoActivationAfterRemove ==
  at = "timers" /\ queue.key[queue.begin] <= now => queue.begin \in DOMAIN timers \cup {Default}
=============================================================================
