------------------------------ MODULE MCFuture ------------------------------
(***************************************************************************)
(* Future for TLC: two owners that start their first calls at once, and    *)
(* two workers. Next to it, as a behaviour of its own, what Future waits   *)
(* on: Signal, and Monitor, with three waiting and two setting threads.    *)
(***************************************************************************)
EXTENDS Future, Waiting

VARIABLE subject

mcVars == <<subject, vars, waitVars>>

MCInit == /\ subject \in {"future", "waiting"}
          /\ Init
          /\ WaitInit
          /\ subject = "future" => class = "Monitor"

\* A thread may wait forever when nobody calls set() any more.
Forever == subject = "waiting" /\ UNCHANGED mcVars

MCNext == \/ subject = "future" /\ Next /\ UNCHANGED <<subject, waitVars>>
          \/ subject = "waiting" /\ WaitNext /\ UNCHANGED <<subject, vars>>
          \/ Forever

MCSpec ==
  /\ MCInit
  /\ [][MCNext]_mcVars
  /\ \A o \in Owners : WF_mcVars(subject = "future" /\ Proceed(o) /\ UNCHANGED <<subject, waitVars>>)
  /\ \A w \in Workers : WF_mcVars(subject = "future" /\ Work(w) /\ UNCHANGED <<subject, waitVars>>)
  /\ \A w \in Waiters : WF_mcVars(subject = "waiting" /\ InWait(w) /\ UNCHANGED <<subject, vars>>)
  /\ \A s \in Setters : WF_mcVars(subject = "waiting" /\ notify(s) /\ UNCHANGED <<subject, vars>>)
=============================================================================
