------------------------------ MODULE Process -------------------------------
(***************************************************************************)
(* Process of src/src/Process.cpp on POSIX: children, the pipes to them,   *)
(* wait() for the first of several and interrupt() of that wait.           *)
(*                                                                         *)
(* waitid() has no other way to be woken than the end of a child: to       *)
(* interrupt it, interrupt() forks a child that ends at once, and wait()   *)
(* tells that child, signaled, from those of the user.                     *)
(*                                                                         *)
(* One thread, main, waits, and uses the processes of Mine; each of Others *)
(* is used by a thread of its own. A child is its pid, which is free again *)
(* when the child was waited for; pids and descriptors are numbers, the    *)
(* lowest that is free, so that one is used again as soon as it can be.    *)
(***************************************************************************)
EXTENDS Integers, FiniteSets

CONSTANTS Mine, Others,
          Pids,      \* positive numbers
          Streams,   \* of "stdout", "stderr" and "stdin"
          Piped,     \* bound: the processes that are opened; the others are only started
          MaxFd      \* bound: descriptors of this process, 1 .. MaxFd

\* What the constants stand for: a pid is positive, and open() knows three streams.
ASSUME ProcessAssumption == /\ Pids \subseteq Nat \ {0}
                            /\ MaxFd \in Nat
                            /\ Streams \subseteq {"stdout", "stderr", "stdin"}

Processes == Mine \cup Others

VARIABLES proc,       \* the members of each Process: pid, and a descriptor per stream, 0 if none
          children,   \* the children not yet waited for: "running" or "over"
          fds,        \* the descriptors that are open
          pipes,      \* the local variables of each open(): per stream the ends <<kept, given>>
          signaled, waitState,
          main,       \* where main is in wait(), what it waits for, and what waitid() told
          result,     \* history: what wait() returned last, until that process is joined
          interrupted, \* history: interrupt() was called since wait() returned
          leaked      \* history: what an open() lost that could not fork

frameworkVars == <<signaled, waitState, main, result, interrupted>>
vars == <<proc, children, fds, pipes, frameworkVars, leaked>>

NoPipes == [s \in Streams |-> <<0, 0>>]
Nothing == [pid |-> 0, fd |-> [s \in Streams |-> 0]]
Idle == [at |-> "idle", set |-> {}, pid |-> 0]

Init == /\ proc = [p \in Processes |-> Nothing]
        /\ children = <<>>
        /\ fds = {}
        /\ pipes = [p \in Processes |-> NoPipes]
        /\ signaled = 0 /\ waitState = 0
        /\ main = Idle /\ result = {} /\ interrupted = FALSE
        /\ leaked = {}

NewPid == {c \in Pids \ DOMAIN children : \A d \in Pids \ DOMAIN children : c <= d}
WithChild(pid, state) == [c \in DOMAIN children \cup {pid} |-> IF c = pid THEN state ELSE children[c]]
Reaped(pid) == [c \in DOMAIN children \ {pid} |-> children[c]]
Ends(p) == (UNION {{pipes[p][s][1], pipes[p][s][2]} : s \in Streams}) \ {0}

\* The thread that uses p, or main, is in no call.
MainFree == main = Idle /\ \A p \in Mine : Ends(p) = {}
Usable(p) == IF p \in Mine THEN MainFree ELSE Ends(p) = {}

-----------------------------------------------------------------------------
(* The processes.                                                          *)

\* start(): a child, or vfork() fails and nothing happens.
start(p) ==
  /\ Usable(p) /\ proc[p].pid = 0
  /\ \E pid \in NewPid :
       /\ proc' = [proc EXCEPT ![p].pid = pid]
       /\ children' = WithChild(pid, "running")
  /\ UNCHANGED <<fds, pipes, frameworkVars, leaked>>

Lowest(n) == LET free == (1 .. MaxFd) \ fds
             IN  CHOOSE S \in SUBSET free : Cardinality(S) = n /\ \A i \in S, j \in free \ S : i < j

\* The order in which open() makes the pipes.
Order == <<"stdout", "stderr", "stdin">>
Rank(s, streams) == Cardinality({t \in streams : \E i, j \in 1 .. 3 : i < j /\ Order[i] = t /\ Order[j] = s})

\* open() up to vfork(), when there are descriptors enough: pipe() takes the two lowest ones,
\* the second is for writing. When pipe() fails the pipes made before are closed again.
openPipes(p, streams) ==
  /\ p \in Piped /\ Usable(p) /\ proc[p].pid = 0 /\ streams # {}
  /\ Cardinality(fds) + 2 * Cardinality(streams) <= MaxFd
  /\ LET new == Lowest(2 * Cardinality(streams))
         nth(n) == CHOOSE d \in new : Cardinality({e \in new : e < d}) = n
     IN  /\ pipes' = [pipes EXCEPT ![p] = [s \in Streams |->
              IF s \notin streams THEN <<0, 0>>
              ELSE LET ends == <<nth(2 * Rank(s, streams)), nth(2 * Rank(s, streams) + 1)>>
                   IN  IF s = "stdin" THEN <<ends[2], ends[1]>> ELSE ends]]
         /\ fds' = fds \cup new
  /\ UNCHANGED <<proc, children, frameworkVars, leaked>>

\* vfork() and what the parent does then: it closes the ends of the child and keeps its own.
openFork(p) ==
  /\ Ends(p) # {}
  /\ \E pid \in NewPid :
       /\ proc' = [proc EXCEPT ![p] = [pid |-> pid, fd |-> [s \in Streams |-> pipes[p][s][1]]]]
       /\ children' = WithChild(pid, "running")
  /\ fds' = fds \ {pipes[p][s][2] : s \in Streams}
  /\ pipes' = [pipes EXCEPT ![p] = NoPipes]
  /\ UNCHANGED <<frameworkVars, leaked>>

\* vfork() fails: open() returns and leaves its pipes open.
openFails(p) ==
  /\ Ends(p) # {}
  /\ leaked' = leaked \cup Ends(p)
  /\ pipes' = [pipes EXCEPT ![p] = NoPipes]
  /\ UNCHANGED <<proc, children, fds, frameworkVars>>

\* Mutant: the members keep the numbers of the descriptors that are closed.
closeKeeps(p, streams) ==
  /\ Usable(p) /\ \E s \in streams : proc[p].fd[s] # 0
  /\ fds' = fds \ {proc[p].fd[s] : s \in streams}
  /\ UNCHANGED <<proc, children, pipes, frameworkVars, leaked>>

close(p, streams) ==
  /\ Usable(p) /\ \E s \in streams : proc[p].fd[s] # 0
  /\ fds' = fds \ {proc[p].fd[s] : s \in streams}
  /\ proc' = [proc EXCEPT ![p].fd = [s \in Streams |-> IF s \in streams THEN 0 ELSE @[s]]]
  /\ UNCHANGED <<children, pipes, frameworkVars, leaked>>

\* What join() and kill() do after waitpid().
Forget(p) ==
  /\ children' = Reaped(proc[p].pid)
  /\ fds' = fds \ {proc[p].fd[s] : s \in Streams}
  /\ proc' = [proc EXCEPT ![p] = Nothing]
  /\ result' = result \ {p}
  /\ UNCHANGED <<pipes, signaled, waitState, main, interrupted, leaked>>

\* join(), also of the destructor: waitpid() returns when the child is over.
join(p) == /\ Usable(p) /\ proc[p].pid # 0
           /\ proc[p].pid \in DOMAIN children /\ children[proc[p].pid] = "over"
           /\ Forget(p)

kill(p) == /\ Usable(p) /\ proc[p].pid # 0
           /\ proc[p].pid \in DOMAIN children
           /\ Forget(p)

\* External: a child ends, by itself or because of terminate().
Exit(c) == /\ children[c] = "running"
           /\ children' = [children EXCEPT ![c] = "over"]
           /\ UNCHANGED <<proc, fds, pipes, frameworkVars, leaked>>

-----------------------------------------------------------------------------
(* wait(): the parts that hold the mutex, and waitid() between them.       *)

Return(R) == main' = Idle /\ result' = R /\ interrupted' = FALSE

\* waitpid(signaled) and what depends on it; the child is over since vfork() returned.
Take == signaled' = 0 /\ children' = Reaped(signaled)

\* No process to wait for: sleep on the condition.
waitNone ==
  /\ MainFree /\ signaled = 0
  /\ waitState' = 1 /\ main' = [Idle EXCEPT !.at = "asleep"] /\ result' = {}
  /\ UNCHANGED <<proc, children, fds, pipes, signaled, interrupted, leaked>>

waitSome(set) ==
  /\ MainFree /\ signaled = 0 /\ set # {}
  /\ waitState' = 2 /\ main' = [Idle EXCEPT !.at = "waitid", !.set = set] /\ result' = {}
  /\ UNCHANGED <<proc, children, fds, pipes, signaled, interrupted, leaked>>

\* interrupt() was called before: the flag, or the child, is taken.
waitInterrupted ==
  /\ MainFree /\ signaled # 0
  /\ Return({})
  /\ IF signaled \in Pids
     THEN Take /\ waitState' = 0
     ELSE signaled' = 0 /\ UNCHANGED <<children, waitState>>
  /\ UNCHANGED <<proc, fds, pipes, leaked>>

\* pthread_cond_wait returned.
woken ==
  /\ main.at = "woken"
  /\ IF signaled = 0
     THEN main' = [Idle EXCEPT !.at = "asleep"] /\ UNCHANGED <<signaled, waitState, result, interrupted>>
     ELSE signaled' = 0 /\ waitState' = 0 /\ Return({})
  /\ UNCHANGED <<proc, children, fds, pipes, leaked>>

Spurious == /\ main.at = "asleep" /\ main' = [main EXCEPT !.at = "woken"]
            /\ UNCHANGED <<proc, children, fds, pipes, signaled, waitState, result, interrupted, leaked>>

\* waitid(P_ALL): some child that is over, which stays; an error when there is none at all.
waitid ==
  /\ main.at = "waitid"
  /\ \/ \E c \in DOMAIN children : children[c] = "over" /\ main' = [main EXCEPT !.at = "told", !.pid = c]
        /\ UNCHANGED <<result, interrupted>>
     \/ children = <<>> /\ Return({})
  /\ UNCHANGED <<proc, children, fds, pipes, signaled, waitState, leaked>>

\* The child of a process waited for: waitState stays as it is.
waitFound ==
  /\ main.at = "told"
  /\ \E p \in main.set : proc[p].pid = main.pid /\ Return({p})
  /\ UNCHANGED <<proc, children, fds, pipes, signaled, waitState, leaked>>

\* The child of interrupt(), or one that is not waited for.
waitOther ==
  /\ main.at = "told"
  /\ \A p \in main.set : proc[p].pid # main.pid
  /\ waitState' = 0
  /\ Return({})
  /\ IF main.pid = signaled THEN Take ELSE UNCHANGED <<signaled, children>>
  /\ UNCHANGED <<proc, fds, pipes, leaked>>

Proceed == woken \/ waitid \/ waitFound \/ waitOther

\* -1 of the code, which is no pid.
Flag == 0 - 1

\* Mutant: the flag alone is set.
interruptFlag ==
  /\ IF signaled # 0 THEN UNCHANGED <<children, signaled, main>>
     ELSE /\ signaled' = Flag
          /\ main' = IF main.at = "asleep" THEN [main EXCEPT !.at = "woken"] ELSE main
          /\ UNCHANGED children
  /\ interrupted' = TRUE
  /\ UNCHANGED <<proc, fds, pipes, waitState, result, leaked>>

\* interrupt(): a child for a thread in waitid(), the condition for one that sleeps on it.
\* When vfork() fails the call has no effect.
interrupt ==
  /\ IF signaled # 0 THEN UNCHANGED <<children, signaled, main>>
     ELSE IF waitState = 2
     THEN \E pid \in NewPid : /\ signaled' = pid
                              /\ children' = WithChild(pid, "over")
                              /\ UNCHANGED main
     ELSE /\ signaled' = Flag
          /\ main' = IF main.at = "asleep" THEN [main EXCEPT !.at = "woken"] ELSE main
          /\ UNCHANGED children
  /\ interrupted' = TRUE
  /\ UNCHANGED <<proc, fds, pipes, waitState, result, leaked>>

Next == \/ \E p \in Processes : \/ start(p) \/ openFork(p) \/ openFails(p) \/ join(p) \/ kill(p)
                                \/ \E S \in SUBSET Streams : openPipes(p, S) \/ close(p, S)
        \/ \E c \in DOMAIN children : Exit(c)
        \/ waitNone \/ \E S \in SUBSET Mine : waitSome(S)
        \/ waitInterrupted \/ Proceed \/ Spurious \/ interrupt

Spec == Init /\ [][Next]_vars

-----------------------------------------------------------------------------
Held(p) == {proc[p].fd[s] : s \in Streams} \ {0}

\* Every child that was not waited for is that of one Process or the one of interrupt(), so that
\* none is left behind and kill() hits no stranger; every descriptor is held in one place, so
\* that none is closed twice, and none is lost except where open() cannot fork; and a process
\* that wait() returned is over: join() does not block (Process.cpp 266-320, 353-380, 436-463,
\* 616-692, 778-792, 1279-1337, 1350-1375).
ProcessExact ==
  /\ DOMAIN children = ({proc[p].pid : p \in Processes} \cup {signaled}) \cap Pids
  /\ \A p \in Processes : proc[p].pid # 0 => proc[p].pid # signaled
  /\ fds = leaked \cup UNION {Held(p) \cup Ends(p) : p \in Processes}
  /\ \A p \in Processes : (Held(p) \cup Ends(p)) \cap leaked = {}
  /\ \A p, q \in Processes : p # q => /\ proc[p].pid # 0 => proc[p].pid # proc[q].pid
                                      /\ (Held(p) \cup Ends(p)) \cap (Held(q) \cup Ends(q)) = {}
  /\ \A p \in result : proc[p].pid # 0 /\ children[proc[p].pid] = "over"

\* An interrupted wait() is never left waiting, whenever interrupt() comes: before the call,
\* while wait() is on its way into waitid() or to sleep, together with the end of a child, or
\* when an earlier wait() left waitState as it was. main is on its way out, or waitid() has a
\* child to tell it of that nobody else takes (Process.cpp 1279-1337, 1350-1375).
InterruptHeard ==
  interrupted => /\ main.at # "asleep"
                 /\ main = Idle => signaled # 0
                 /\ main.at = "waitid" => signaled \in DOMAIN children /\ children[signaled] = "over"
=============================================================================
