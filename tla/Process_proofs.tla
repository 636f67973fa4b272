--------------------------- MODULE Process_proofs ---------------------------
(***************************************************************************)
(* Proofs about Process: children and descriptors belong to one place      *)
(* each, and interrupt() is heard by wait() whenever it comes, for any     *)
(* number of processes, pids and descriptors.                              *)
(***************************************************************************)
EXTENDS Process, FiniteSetTheorems, WellFoundedInduction, TLAPS

\* The members of a Process, and main's place in wait().
ProcType == [pid : Pids \cup {0}, fd : [Streams -> Nat]]
MainType == [at : {"idle", "asleep", "woken", "waitid", "told"}, set : SUBSET Mine,
             pid : Pids \cup {0}]

\* The types of what wait(), interrupt() and the children share.
WaitTyped == /\ proc \in [Processes -> ProcType]
             /\ DOMAIN children \subseteq Pids
             /\ children \in [DOMAIN children -> {"running", "over"}]
             /\ signaled \in Pids \cup {0, Flag}
             /\ main \in MainType /\ (main.at = "idle" => main = Idle)
             /\ result \subseteq Mine

\* Whose the children are.
ChildrenOwned ==
  /\ DOMAIN children = ({proc[p].pid : p \in Processes} \cup {signaled}) \cap Pids
  /\ \A p \in Processes : proc[p].pid # 0 => proc[p].pid # signaled
  /\ \A p, q \in Processes : p # q /\ proc[p].pid # 0 => proc[p].pid # proc[q].pid
  /\ signaled \in Pids => children[signaled] = "over"

\* open() is in progress only for a process that does not run, and for none of main's while
\* main waits.
OpensFresh ==
  /\ \A p \in Processes : Ends(p) # {} => proc[p].pid = 0
  /\ main # Idle => \A p \in Mine : Ends(p) = {}

\* The handshake of wait() and interrupt().
Handshake ==
  /\ main.at \in {"asleep", "woken"} => waitState = 1
  /\ main.at \in {"waitid", "told"} => waitState = 2 /\ signaled # Flag
  /\ main.at = "asleep" => signaled = 0
  /\ main.at = "woken" => signaled \notin Pids
  /\ interrupted => signaled # 0

\* A child that ended and was not waited for.
Over(c) == c \in DOMAIN children /\ children[c] = "over"

\* What waitid() told stays true for the processes waited for, and what wait() returned.
ToldSound ==
  /\ main.at = "told" => main.pid # 0 /\ \A p \in main.set : proc[p].pid = main.pid => Over(main.pid)
  /\ \A p \in result : proc[p].pid # 0 /\ Over(proc[p].pid)

\* The part of the invariant about children and wait().
WaitInv == WaitTyped /\ ChildrenOwned /\ OpensFresh /\ Handshake /\ ToldSound

\* The types of what the descriptors are kept in; 0 is no descriptor.
FdTyped == /\ fds \subseteq 1 .. MaxFd
           /\ leaked \subseteq fds
           /\ pipes \in [Processes -> [Streams -> Nat \X Nat]]

\* The descriptors a process holds, or open() on its behalf.
Fds(p) == Held(p) \cup Ends(p)

\* No descriptor is in two places.
OwnEnds ==
  \A p \in Processes :
    /\ proc[p].pid = 0 => Held(p) = {}
    /\ \A s, t \in Streams :
         /\ proc[p].fd[s] # 0 /\ s # t => proc[p].fd[s] # proc[p].fd[t]
         /\ pipes[p][s][1] # 0 => pipes[p][s][1] # pipes[p][t][2]
         /\ pipes[p][s][1] # 0 /\ s # t => pipes[p][s][1] # pipes[p][t][1]

\* Every open descriptor belongs to one process, or is leaked.
FdsOwned ==
  /\ fds = leaked \cup UNION {Fds(p) : p \in Processes}
  /\ \A p \in Processes : Fds(p) \cap leaked = {}
  /\ \A p, q \in Processes : p # q => Fds(p) \cap Fds(q) = {}

\* The part of the invariant about descriptors.
FdInv == FdTyped /\ OwnEnds /\ FdsOwned

-----------------------------------------------------------------------------
(* Children: what a step does to them is one of a few things.              *)

\* p gets a new child.
Forks(p) ==
  /\ proc[p].pid = 0 /\ (p \in Mine => main = Idle)
  /\ \E pid \in Pids \ DOMAIN children :
       /\ children' = WithChild(pid, "running")
       /\ proc' \in [Processes -> ProcType]
       /\ \A q \in Processes : proc'[q].pid = IF q = p THEN pid ELSE proc[q].pid
  /\ \A q \in Processes : Ends(q)' = IF q = p THEN {} ELSE Ends(q)
  /\ UNCHANGED frameworkVars

\* The child of p is waited for.
Reaps(p) ==
  /\ proc[p].pid # 0 /\ (p \in Mine => main = Idle)
  /\ children' = Reaped(proc[p].pid)
  /\ proc' = [proc EXCEPT ![p] = Nothing]
  /\ result' = result \ {p}
  /\ UNCHANGED <<pipes, signaled, waitState, main, interrupted>>

\* Only descriptors change.
Descriptors ==
  /\ proc' \in [Processes -> ProcType]
  /\ \A q \in Processes : proc'[q].pid = proc[q].pid
  /\ \A q \in Processes : Ends(q)' # {} => proc[q].pid = 0 /\ (q \in Mine => main = Idle)
  /\ UNCHANGED <<children, frameworkVars>>

\* Steps of wait() and interrupt().
Waits == \/ waitNone \/ \E S \in SUBSET Mine : waitSome(S)
         \/ waitInterrupted \/ woken \/ waitid \/ waitFound \/ waitOther \/ Spurious \/ interrupt

\* The steps, as the children see them.
ChildSteps == \/ \E p \in Processes : Forks(p) \/ Reaps(p)
              \/ Descriptors
              \/ \E c \in DOMAIN children : Exit(c)
              \/ Waits
              \/ UNCHANGED vars

\* The descriptors of a process, one by one.
LEMMA FdsOf ==
  ASSUME NEW p \in Processes, NEW x
  PROVE  /\ x \in Held(p) <=> x # 0 /\ \E s \in Streams : x = proc[p].fd[s]
         /\ x \in Ends(p) <=> x # 0 /\ \E s \in Streams : x = pipes[p][s][1] \/ x = pipes[p][s][2]
         /\ x \in Held(p)' <=> x # 0 /\ \E s \in Streams : x = proc'[p].fd[s]
         /\ x \in Ends(p)' <=> x # 0 /\ \E s \in Streams : x = pipes'[p][s][1] \/ x = pipes'[p][s][2]
BY DEF Held, Ends

\* open() is over: its pipes are no more its own.
LEMMA NoMorePipes ==
  ASSUME FdTyped, NEW p \in Processes, pipes' = [pipes EXCEPT ![p] = NoPipes]
  PROVE  /\ pipes' \in [Processes -> [Streams -> Nat \X Nat]]
         /\ \A q \in Processes : Ends(q)' = IF q = p THEN {} ELSE Ends(q)
         /\ \A s \in Streams : pipes'[p][s][1] = 0 /\ pipes'[p][s][2] = 0
         /\ \A q \in Processes : q # p => pipes'[q] = pipes[q]
<1>1. pipes \in [Processes -> [Streams -> Nat \X Nat]]
  BY DEF FdTyped
<1>2. NoPipes \in [Streams -> Nat \X Nat]
  BY DEF NoPipes
<1>3. pipes'[p] = NoPipes /\ \A q \in Processes : q # p => pipes'[q] = pipes[q]
  BY <1>1
<1>4. \A s \in Streams : pipes'[p][s][1] = 0 /\ pipes'[p][s][2] = 0
  BY <1>3 DEF NoPipes
<1>5. Ends(p)' = {}
  BY <1>4, FdsOf
<1>6. \A q \in Processes : q # p => Ends(q)' = Ends(q)
  BY <1>3 DEF Ends
<1> QED BY <1>1, <1>2, <1>3, <1>4, <1>5, <1>6

\* Every step is of one of these kinds.
LEMMA ChildClasses ==
  ASSUME WaitInv, FdTyped, [Next]_vars PROVE ChildSteps
<1>1. /\ proc \in [Processes -> ProcType] /\ OpensFresh
      /\ pipes \in [Processes -> [Streams -> Nat \X Nat]]
  BY DEF WaitInv, WaitTyped, FdTyped
<1>2. UNCHANGED pipes => \A q \in Processes : Ends(q)' = Ends(q)
  BY DEF Ends
<1>3. ASSUME NEW p \in Processes, pipes' = [pipes EXCEPT ![p] = NoPipes]
      PROVE  \A q \in Processes : Ends(q)' = IF q = p THEN {} ELSE Ends(q)
  BY <1>3, NoMorePipes
<1>4. ASSUME NEW p \in Processes, Usable(p) PROVE p \in Mine => main = Idle
  BY <1>4 DEF Usable, MainFree
<1>5. ASSUME NEW p \in Processes, Usable(p) PROVE Ends(p) = {}
  BY <1>5 DEF Usable, MainFree
<1>6. ASSUME NEW p \in Processes, start(p) PROVE Forks(p)
  <2>1. PICK pid \in NewPid : /\ proc' = [proc EXCEPT ![p].pid = pid]
                              /\ children' = WithChild(pid, "running")
    BY <1>6 DEF start
  <2>2. pid \in Pids \ DOMAIN children
    BY DEF NewPid
  <2>3. /\ proc' \in [Processes -> ProcType]
        /\ \A q \in Processes : proc'[q].pid = IF q = p THEN pid ELSE proc[q].pid
    BY <1>1, <2>1, <2>2 DEF ProcType
  <2>4. Usable(p) /\ proc[p].pid = 0 /\ UNCHANGED <<pipes, frameworkVars>>
    BY <1>6 DEF start
  <2> QED BY <1>2, <1>4, <1>5, <2>1, <2>2, <2>3, <2>4 DEF Forks
<1>7. ASSUME NEW p \in Processes, openFork(p) PROVE Forks(p)
  <2> DEFINE new(pid) == [pid |-> pid, fd |-> [s \in Streams |-> pipes[p][s][1]]]
  <2>1. PICK pid \in NewPid : proc' = [proc EXCEPT ![p] = new(pid)] /\ children' = WithChild(pid, "running")
    BY <1>7 DEF openFork
  <2>2. pid \in Pids \ DOMAIN children
    BY DEF NewPid
  <2>3. \A s \in Streams : pipes[p][s][1] \in Nat
    BY <1>1
  <2>4. new(pid) \in ProcType /\ new(pid).pid = pid
    BY <2>2, <2>3 DEF ProcType
  <2>5. /\ proc' \in [Processes -> ProcType]
        /\ \A q \in Processes : proc'[q].pid = IF q = p THEN pid ELSE proc[q].pid
    <3> HIDE DEF new
    <3> QED BY <1>1, <2>1, <2>4
  <2>6. Ends(p) # {} /\ pipes' = [pipes EXCEPT ![p] = NoPipes] /\ UNCHANGED frameworkVars
    BY <1>7 DEF openFork
  <2>7. proc[p].pid = 0 /\ (p \in Mine => main = Idle)
    BY <1>1, <2>6 DEF OpensFresh
  <2> QED BY <1>3, <2>1, <2>2, <2>5, <2>6, <2>7 DEF Forks
<1>8. ASSUME NEW p \in Processes, join(p) \/ kill(p) PROVE Reaps(p)
  BY <1>4, <1>8 DEF join, kill, Forget, Reaps
<1>9. ASSUME NEW p \in Processes, openFails(p) PROVE Descriptors
  <2>1. pipes' = [pipes EXCEPT ![p] = NoPipes] /\ UNCHANGED <<proc, children, frameworkVars>>
    BY <1>9 DEF openFails
  <2>2. \A q \in Processes : Ends(q)' # {} => Ends(q) # {}
    BY <1>3, <2>1
  <2>3. \A q \in Processes : Ends(q) # {} => proc[q].pid = 0 /\ (q \in Mine => main = Idle)
    BY <1>1 DEF OpensFresh
  <2> QED BY <1>1, <2>1, <2>2, <2>3 DEF Descriptors
<1>10. ASSUME NEW p \in Processes, NEW S \in SUBSET Streams, close(p, S) PROVE Descriptors
  <2> DEFINE fd == [s \in Streams |-> IF s \in S THEN 0 ELSE proc[p].fd[s]]
  <2>1. proc' = [proc EXCEPT ![p].fd = fd] /\ UNCHANGED <<children, pipes, frameworkVars>>
    BY <1>10 DEF close
  <2>2. fd \in [Streams -> Nat]
    BY <1>1 DEF ProcType
  <2>3. proc' \in [Processes -> ProcType] /\ \A q \in Processes : proc'[q].pid = proc[q].pid
    <3> HIDE DEF fd
    <3> QED BY <1>1, <2>1, <2>2 DEF ProcType
  <2>4. \A q \in Processes : Ends(q) # {} => proc[q].pid = 0 /\ (q \in Mine => main = Idle)
    BY <1>1 DEF OpensFresh
  <2> QED BY <1>2, <2>1, <2>3, <2>4 DEF Descriptors
<1>11. ASSUME NEW p \in Processes, NEW S \in SUBSET Streams, openPipes(p, S) PROVE Descriptors
  <2>1. Usable(p) /\ proc[p].pid = 0 /\ UNCHANGED <<proc, children, frameworkVars>>
    BY <1>11 DEF openPipes
  <2>2. \E x : pipes' = [pipes EXCEPT ![p] = x]
    BY <1>11 DEF openPipes
  <2>3. ASSUME NEW q \in Processes, q # p PROVE Ends(q)' = Ends(q)
    BY <1>1, <2>2, <2>3 DEF Ends
  <2>4. \A q \in Processes : Ends(q) # {} => proc[q].pid = 0 /\ (q \in Mine => main = Idle)
    BY <1>1 DEF OpensFresh
  <2> QED BY <1>1, <1>4, <2>1, <2>3, <2>4 DEF Descriptors
<1> QED BY <1>6, <1>7, <1>8, <1>9, <1>10, <1>11 DEF Next, Proceed, Waits, ChildSteps

\* There is no child at first, and nobody waits.
LEMMA WaitInitially == Init => WaitInv
<1> SUFFICES ASSUME Init PROVE WaitInv
  OBVIOUS
<1>1. Nothing \in ProcType /\ Nothing.pid = 0
  BY DEF Nothing, ProcType
<1>2. proc \in [Processes -> ProcType] /\ \A p \in Processes : proc[p].pid = 0
  BY <1>1 DEF Init
<1>3. DOMAIN children = {} /\ signaled = 0 /\ main = Idle /\ result = {} /\ interrupted = FALSE
  BY DEF Init
<1>4. WaitTyped
  BY <1>2, <1>3 DEF WaitTyped, MainType, Idle
<1>5. 0 \notin Pids
  BY ProcessAssumption
<1>6. ChildrenOwned
  BY <1>2, <1>3, <1>5 DEF ChildrenOwned
<1>7. OpensFresh
  BY <1>2, <1>3 DEF OpensFresh
<1>8. Handshake /\ ToldSound
  BY <1>3 DEF Handshake, ToldSound, Idle
<1> QED BY <1>4, <1>6, <1>7, <1>8 DEF WaitInv

\* The pid of a new child is nobody's: nobody who waits can take it for the one it was told of.
LEMMA WaitForks ==
  ASSUME WaitInv, NEW p \in Processes, Forks(p) PROVE WaitInv'
<1> USE DEF WaitInv
<1>1. PICK pid \in Pids \ DOMAIN children :
        /\ children' = WithChild(pid, "running")
        /\ proc' \in [Processes -> ProcType]
        /\ \A q \in Processes : proc'[q].pid = IF q = p THEN pid ELSE proc[q].pid
  BY DEF Forks
<1>2. /\ proc[p].pid = 0 /\ (p \in Mine => main = Idle)
      /\ \A q \in Processes : Ends(q)' = IF q = p THEN {} ELSE Ends(q)
      /\ UNCHANGED <<signaled, waitState, main, result, interrupted>>
  BY DEF Forks, frameworkVars
<1>3. 0 \notin Pids /\ Flag \notin Pids
  BY ProcessAssumption DEF Flag
<1>4. pid # 0 /\ pid # signaled
  BY <1>3 DEF ChildrenOwned
<1>5. /\ DOMAIN children' = DOMAIN children \cup {pid} /\ children'[pid] = "running"
      /\ \A c \in DOMAIN children : children'[c] = children[c]
  BY <1>1 DEF WithChild
<1>6. WaitTyped'
  <2>1. children' \in [DOMAIN children' -> {"running", "over"}]
    BY <1>1 DEF WithChild, WaitTyped
  <2> QED BY <1>1, <1>2, <1>5, <2>1 DEF WaitTyped, MainType, Idle
<1>7. ChildrenOwned'
  <2>0. \A c \in Pids : c \in DOMAIN children <=> c = signaled \/ \E q \in Processes : c = proc[q].pid
    BY DEF ChildrenOwned
  <2>1. DOMAIN children' = ({proc'[q].pid : q \in Processes} \cup {signaled'}) \cap Pids
    <3>1. DOMAIN children' \subseteq Pids
      BY <1>5 DEF WaitTyped
    <3>2. ASSUME NEW c \in Pids PROVE c \in DOMAIN children' <=> c = signaled' \/ \E q \in Processes : c = proc'[q].pid
      <4>1. CASE c = pid
        BY <1>1, <1>5, <4>1
      <4>2. CASE c # pid
        BY <1>1, <1>2, <1>3, <1>5, <2>0, <4>2
      <4> QED BY <4>1, <4>2
    <3> QED BY <3>1, <3>2
  <2>2. \A q \in Processes : proc'[q].pid # 0 => proc'[q].pid # signaled'
    BY <1>1, <1>2, <1>4 DEF ChildrenOwned
  <2>3. \A q \in Processes : proc[q].pid # pid
    BY <1>1 DEF ChildrenOwned
  <2>4. \A q, r \in Processes : q # r /\ proc'[q].pid # 0 => proc'[q].pid # proc'[r].pid
    BY <1>1, <2>3 DEF ChildrenOwned
  <2>5. signaled' \in Pids => children'[signaled'] = "over"
    BY <1>2, <1>5 DEF ChildrenOwned
  <2> QED BY <2>1, <2>2, <2>4, <2>5 DEF ChildrenOwned
<1>8. OpensFresh'
  BY <1>1, <1>2 DEF OpensFresh, Processes
<1>9. Handshake'
  BY <1>2 DEF Handshake
<1>10. ToldSound'
  <2>1. ASSUME main.at = "told"
        PROVE  main.pid # 0 /\ \A q \in main.set : proc'[q].pid = main.pid => main.pid \in DOMAIN children' /\ children'[main.pid] = "over"
    <3>1. p \notin main.set /\ main.set \subseteq Processes
      BY <1>2, <2>1 DEF WaitTyped, MainType, Idle, Processes
    <3> QED BY <1>1, <1>5, <2>1, <3>1 DEF ToldSound, Over
  <2>2. ASSUME NEW q \in result PROVE proc'[q].pid # 0 /\ proc'[q].pid \in DOMAIN children' /\ children'[proc'[q].pid] = "over"
    <3>1. q \in Processes /\ q # p
      BY <1>2 DEF WaitTyped, ToldSound, Processes
    <3>2. proc'[q].pid = proc[q].pid
      BY <1>1, <3>1
    <3> QED BY <1>5, <3>2 DEF ToldSound, Over
  <2> QED BY <1>2, <2>1, <2>2 DEF ToldSound, Over
<1> QED BY <1>6, <1>7, <1>8, <1>9, <1>10

\* A pid is given back when its child was waited for, and then no Process has it.
LEMMA WaitReaps ==
  ASSUME WaitInv, NEW p \in Processes, Reaps(p) PROVE WaitInv'
<1> USE DEF WaitInv
<1> DEFINE pid == proc[p].pid
<1>1. /\ pid # 0 /\ (p \in Mine => main = Idle)
      /\ children' = Reaped(pid)
      /\ proc' = [proc EXCEPT ![p] = Nothing]
      /\ result' = result \ {p}
      /\ UNCHANGED <<pipes, signaled, waitState, main, interrupted>>
  BY DEF Reaps
<1>2. Nothing \in ProcType /\ Nothing.pid = 0
  BY DEF Nothing, ProcType
<1>3. /\ proc' \in [Processes -> ProcType]
      /\ \A q \in Processes : proc'[q].pid = IF q = p THEN 0 ELSE proc[q].pid
  BY <1>1, <1>2 DEF WaitTyped
<1>4. /\ DOMAIN children' = DOMAIN children \ {pid}
      /\ \A c \in DOMAIN children \ {pid} : children'[c] = children[c]
  BY <1>1 DEF Reaped
<1>5. 0 \notin Pids /\ pid # signaled
  BY <1>1, ProcessAssumption DEF ChildrenOwned
<1>6. \A q \in Processes : q # p => proc[q].pid # pid
  BY <1>1 DEF ChildrenOwned
<1> HIDE DEF pid
<1>7. WaitTyped'
  <2>1. children' \in [DOMAIN children' -> {"running", "over"}]
    BY <1>1 DEF Reaped, WaitTyped
  <2> QED BY <1>1, <1>3, <1>4, <2>1 DEF WaitTyped, MainType, Idle
<1>8. ChildrenOwned'
  <2>1. DOMAIN children' = ({proc'[q].pid : q \in Processes} \cup {signaled'}) \cap Pids
    BY <1>1, <1>3, <1>4, <1>5, <1>6 DEF ChildrenOwned, pid
  <2>2. \A q \in Processes : proc'[q].pid # 0 => proc'[q].pid # signaled'
    BY <1>1, <1>3 DEF ChildrenOwned
  <2>3. \A q, r \in Processes : q # r /\ proc'[q].pid # 0 => proc'[q].pid # proc'[r].pid
    BY <1>3 DEF ChildrenOwned
  <2>4. signaled' \in Pids => children'[signaled'] = "over"
    BY <1>1, <1>4, <1>5 DEF ChildrenOwned
  <2> QED BY <2>1, <2>2, <2>3, <2>4 DEF ChildrenOwned
<1>9. OpensFresh'
  <2>1. \A q \in Processes : Ends(q)' = Ends(q)
    BY <1>1 DEF Ends
  <2> QED BY <1>1, <1>3, <2>1 DEF OpensFresh, Processes
<1>10. Handshake'
  BY <1>1 DEF Handshake
<1>11. ToldSound'
  <2>1. ASSUME main.at = "told"
        PROVE  main.pid # 0 /\ \A q \in main.set : proc'[q].pid = main.pid => main.pid \in DOMAIN children' /\ children'[main.pid] = "over"
    <3>1. p \notin main.set /\ main.set \subseteq Processes
      BY <1>1, <2>1 DEF WaitTyped, MainType, Idle, Processes
    <3> QED BY <1>3, <1>4, <1>6, <2>1, <3>1 DEF ToldSound, Over
  <2>2. ASSUME NEW q \in result, q # p PROVE proc'[q].pid # 0 /\ proc'[q].pid \in DOMAIN children' /\ children'[proc'[q].pid] = "over"
    <3>1. q \in Processes
      BY DEF WaitTyped, Processes
    <3>2. proc'[q].pid = proc[q].pid /\ proc[q].pid # pid
      BY <1>3, <1>6, <2>2, <3>1
    <3> QED BY <1>4, <3>2 DEF ToldSound, Over
  <2> QED BY <1>1, <2>1, <2>2 DEF ToldSound, Over
<1> QED BY <1>7, <1>8, <1>9, <1>10, <1>11

\* Descriptors are no business of wait(), except that open() is in progress.
LEMMA WaitDescriptors ==
  ASSUME WaitInv, Descriptors PROVE WaitInv'
<1> USE DEF WaitInv, Descriptors
<1>1. /\ UNCHANGED <<children, signaled, waitState, main, result, interrupted>>
      /\ \A q \in Processes : proc'[q].pid = proc[q].pid
  BY DEF frameworkVars
<1>2. WaitTyped'
  BY <1>1 DEF WaitTyped, MainType
<1>3. ChildrenOwned'
  BY <1>1 DEF ChildrenOwned
<1>4. OpensFresh'
  BY <1>1 DEF OpensFresh, Processes
<1>5. Handshake'
  BY <1>1 DEF Handshake
<1>6. ToldSound'
  <2>1. result \subseteq Processes /\ main.set \subseteq Processes
    BY DEF WaitTyped, MainType, Processes
  <2> QED BY <1>1, <2>1 DEF ToldSound, Over
<1> QED BY <1>2, <1>3, <1>4, <1>5, <1>6

\* A child that ends changes nobody's pid.
LEMMA WaitExit ==
  ASSUME WaitInv, NEW c \in DOMAIN children, Exit(c) PROVE WaitInv'
<1> USE DEF WaitInv
<1>1. /\ children' = [children EXCEPT ![c] = "over"]
      /\ UNCHANGED <<proc, pipes, signaled, waitState, main, result, interrupted>>
  BY DEF Exit, frameworkVars
<1>2. /\ DOMAIN children' = DOMAIN children
      /\ \A d \in DOMAIN children : children[d] = "over" => children'[d] = "over"
  BY <1>1 DEF WaitTyped
<1>3. WaitTyped'
  BY <1>1 DEF WaitTyped, MainType
<1>4. ChildrenOwned'
  BY <1>1, <1>2 DEF ChildrenOwned
<1>5. OpensFresh' /\ Handshake'
  BY <1>1 DEF OpensFresh, Handshake, Ends
<1>6. ToldSound'
  BY <1>1, <1>2 DEF ToldSound, Over
<1> QED BY <1>3, <1>4, <1>5, <1>6

\* wait() and interrupt(): what happens to signaled is one of five things, and in each the
\* children are still owned.
LEMMA WaitWaits ==
  ASSUME WaitInv, Waits PROVE WaitInv'
<1> USE DEF WaitInv
<1>1. 0 \notin Pids /\ Flag \notin Pids /\ Flag # 0
  BY ProcessAssumption DEF Flag
<1>2. UNCHANGED <<proc, pipes>>
  BY DEF Waits, waitNone, waitSome, waitInterrupted, woken, waitid, waitFound, waitOther,
         Spurious, interrupt
<1>3. \A q \in Processes : Ends(q)' = Ends(q)
  BY <1>2 DEF Ends
<1>4. /\ proc \in [Processes -> ProcType] /\ signaled \in Pids \cup {0, Flag}
      /\ main \in MainType /\ (main.at = "idle" => main = Idle) /\ result \subseteq Mine
      /\ DOMAIN children \subseteq Pids
      /\ children \in [DOMAIN children -> {"running", "over"}]
  BY DEF WaitTyped
<1>5. Idle \in MainType /\ Idle.at = "idle"
  BY DEF Idle, MainType
<1>6. DOMAIN children = ({proc[p].pid : p \in Processes} \cup {signaled}) \cap Pids
  BY DEF ChildrenOwned
<1> DEFINE Same == UNCHANGED <<children, signaled>>
<1> DEFINE Freed == /\ signaled \in Pids /\ signaled' = 0 /\ children' = Reaped(signaled)
<1> DEFINE Cleared == signaled \notin Pids /\ signaled' = 0 /\ UNCHANGED children
<1> DEFINE Flagged == signaled = 0 /\ signaled' = Flag /\ UNCHANGED children
<1> DEFINE Sent == /\ signaled = 0 /\ signaled' \in Pids \ DOMAIN children
                   /\ children' = WithChild(signaled', "over")
<1>7. Same \/ Freed \/ Cleared \/ Flagged \/ Sent
  <2>1. CASE waitNone \/ (\E S \in SUBSET Mine : waitSome(S)) \/ waitid \/ waitFound \/ Spurious
    BY <2>1 DEF waitNone, waitSome, waitid, waitFound, Spurious
  <2>2. CASE waitInterrupted
    BY <2>2 DEF waitInterrupted, Take
  <2>3. CASE woken
    BY <2>3 DEF woken, Handshake
  <2>4. CASE waitOther
    <3>1. main.pid = signaled => signaled \in Pids
      BY <1>4, <2>4 DEF waitOther, ToldSound, MainType
    <3> QED BY <2>4, <3>1 DEF waitOther, Take
  <2>5. CASE interrupt
    BY <2>5 DEF interrupt, NewPid
  <2> QED BY <2>1, <2>2, <2>3, <2>4, <2>5 DEF Waits
<1>8. /\ DOMAIN children' \subseteq Pids
      /\ children' \in [DOMAIN children' -> {"running", "over"}]
      /\ signaled' \in Pids \cup {0, Flag}
      /\ ChildrenOwned'
      /\ \A c \in DOMAIN children : c # signaled =>
           c \in DOMAIN children' /\ (children[c] = "over" => children'[c] = "over")
  <2>1. CASE Same
    BY <1>2, <1>4, <2>1 DEF ChildrenOwned
  <2>2. CASE Freed
    <3>1. /\ DOMAIN children' = DOMAIN children \ {signaled}
          /\ \A c \in DOMAIN children \ {signaled} : children'[c] = children[c]
          /\ children' \in [DOMAIN children' -> {"running", "over"}]
      BY <1>4, <2>2 DEF Reaped
    <3>2. DOMAIN children' = ({proc[p].pid : p \in Processes} \cup {0}) \cap Pids
      BY <1>1, <1>4, <1>6, <2>2, <3>1 DEF ChildrenOwned, ProcType
    <3> QED BY <1>1, <1>2, <1>4, <2>2, <3>1, <3>2 DEF ChildrenOwned
  <2>3. CASE Cleared \/ Flagged
    <3>1. DOMAIN children' = ({proc[p].pid : p \in Processes} \cup {signaled'}) \cap Pids
      BY <1>1, <1>6, <2>3
    <3>2. \A p \in Processes : proc[p].pid \in Nat
      BY <1>4, ProcessAssumption DEF ProcType
    <3>3. Flag \notin Nat
      BY DEF Flag
    <3> QED BY <1>1, <1>2, <1>4, <2>3, <3>1, <3>2, <3>3 DEF ChildrenOwned
  <2>4. CASE Sent
    <3> DEFINE pid == signaled'
    <3>1. /\ DOMAIN children' = DOMAIN children \cup {pid} /\ children'[pid] = "over"
          /\ \A c \in DOMAIN children : children'[c] = children[c]
          /\ children' \in [DOMAIN children' -> {"running", "over"}]
      BY <1>4, <2>4 DEF WithChild
    <3>2. \A p \in Processes : proc[p].pid # pid
      BY <1>6, <2>4
    <3>3. DOMAIN children' = ({proc[p].pid : p \in Processes} \cup {pid}) \cap Pids
      BY <1>1, <1>6, <2>4, <3>1
    <3> QED BY <1>1, <1>2, <1>4, <2>4, <3>1, <3>2, <3>3 DEF ChildrenOwned
  <2> QED BY <1>7, <2>1, <2>2, <2>3, <2>4
<1> HIDE DEF Same, Freed, Cleared, Flagged, Sent
<1> DEFINE MainOk == main' \in MainType /\ (main'.at = "idle" => main' = Idle) /\ result' \subseteq Mine
<1>9. MainOk
  <2>1. CASE waitNone
    BY <1>4, <2>1 DEF waitNone, MainType, Idle
  <2>2. ASSUME NEW S \in SUBSET Mine, waitSome(S) PROVE MainOk
    BY <1>4, <2>2 DEF waitSome, MainType, Idle
  <2>3. CASE waitInterrupted \/ waitOther
    BY <1>5, <2>3 DEF waitInterrupted, waitOther, Return
  <2>4. CASE woken
    BY <1>4, <1>5, <2>4 DEF woken, Return, MainType, Idle
  <2>5. CASE waitid
    <3>1. CASE main' = Idle /\ result' = {}
      BY <1>5, <3>1
    <3>2. CASE \E c \in DOMAIN children : main' = [main EXCEPT !.at = "told", !.pid = c] /\ result' = result
      BY <1>4, <3>2 DEF MainType
    <3> QED BY <2>5, <3>1, <3>2 DEF waitid, Return
  <2>6. CASE waitFound
    BY <1>4, <1>5, <2>6 DEF waitFound, Return, MainType
  <2>7. CASE Spurious
    BY <1>4, <2>7 DEF Spurious, MainType
  <2>8. CASE interrupt
    BY <1>4, <2>8 DEF interrupt, MainType
  <2> QED BY <2>1, <2>2, <2>3, <2>4, <2>5, <2>6, <2>7, <2>8 DEF Waits
<1>10. OpensFresh'
  <2>1. main' # Idle => main # Idle \/ MainFree
    <3>1. CASE main = Idle
      <4>1. main.at = "idle"
        BY <1>5, <3>1
      <4> QED BY <4>1 DEF Waits, waitNone, waitSome, waitInterrupted, woken, waitid, waitFound, waitOther,
                          Spurious, interrupt
    <3> QED BY <3>1
  <2> QED BY <1>2, <1>3, <2>1 DEF OpensFresh, MainFree, Processes
<1>11. Handshake'
  <2>1. CASE waitNone
    BY <1>1, <2>1 DEF waitNone, Handshake, Idle
  <2>2. ASSUME NEW S \in SUBSET Mine, waitSome(S) PROVE Handshake'
    BY <1>1, <2>2 DEF waitSome, Handshake, Idle
  <2>3. CASE waitInterrupted \/ waitOther \/ waitFound
    BY <2>3 DEF waitInterrupted, waitOther, waitFound, Return, Handshake, Idle
  <2>4. CASE woken
    BY <1>1, <1>4, <2>4 DEF woken, Return, Handshake, Idle
  <2>5. CASE waitid
    <3>1. CASE main' = Idle /\ interrupted' = FALSE
      BY <3>1 DEF Handshake, Idle
    <3>2. CASE \E c \in DOMAIN children : main' = [main EXCEPT !.at = "told", !.pid = c] /\ UNCHANGED interrupted
      <4>1. main'.at = "told" /\ main.at = "waitid" /\ UNCHANGED <<signaled, waitState, interrupted>>
        BY <1>4, <2>5, <3>2 DEF waitid, MainType
      <4> QED BY <4>1 DEF Handshake
    <3> QED BY <2>5, <3>1, <3>2 DEF waitid, Return
  <2>6. CASE Spurious
    <3>1. main'.at = "woken" /\ main.at = "asleep" /\ UNCHANGED <<signaled, waitState, interrupted>>
      BY <1>4, <2>6 DEF Spurious, MainType
    <3> QED BY <1>1, <3>1 DEF Handshake
  <2>7. CASE interrupt
    <3>1. main'.at = (IF signaled = 0 /\ waitState # 2 /\ main.at = "asleep" THEN "woken" ELSE main.at)
      BY <1>4, <2>7 DEF interrupt, MainType
    <3>2. /\ waitState' = waitState
          /\ \/ signaled # 0 /\ signaled' = signaled
             \/ signaled = 0 /\ waitState = 2 /\ signaled' \in Pids
             \/ signaled = 0 /\ waitState # 2 /\ signaled' = Flag
      BY <2>7 DEF interrupt, NewPid
    <3> QED BY <1>1, <3>1, <3>2 DEF Handshake
  <2> QED BY <2>1, <2>2, <2>3, <2>4, <2>5, <2>6, <2>7 DEF Waits
<1>12. ToldSound'
  <2>1. \A p \in result' : proc[p].pid # 0 /\ proc[p].pid \in DOMAIN children
                           /\ children[proc[p].pid] = "over"
    <3>1. CASE result' = result \/ result' = {}
      BY <3>1 DEF ToldSound, Over
    <3>2. CASE waitFound
      BY <3>2 DEF waitFound, Return, ToldSound, Over
    <3> QED BY <3>1, <3>2 DEF Waits, waitNone, waitSome, waitInterrupted, woken, waitid, waitOther,
                              Spurious, interrupt, Return
  <2>2. \A p \in result' : proc[p].pid # signaled
    BY <1>9, <2>1 DEF ChildrenOwned, Processes
  <2>3. ASSUME NEW p \in result'
        PROVE  proc'[p].pid # 0 /\ proc'[p].pid \in DOMAIN children' /\ children'[proc'[p].pid] = "over"
    BY <1>2, <1>8, <2>1, <2>2
  <2>4. ASSUME main'.at = "told"
        PROVE  main'.pid # 0 /\ \A p \in main'.set : proc'[p].pid = main'.pid =>
                 main'.pid \in DOMAIN children' /\ children'[main'.pid] = "over"
    <3>1. CASE waitid
      <4>1. PICK c \in DOMAIN children : children[c] = "over" /\ main' = [main EXCEPT !.at = "told", !.pid = c]
        BY <1>5, <2>4, <3>1 DEF waitid, Return
      <4>2. main'.pid = c /\ c # 0 /\ UNCHANGED children
        BY <1>1, <1>4, <3>1, <4>1 DEF MainType, waitid
      <4> QED BY <4>1, <4>2
    <3>2. CASE interrupt
      <4>1. main' = main /\ main.at = "told"
        BY <1>4, <2>4, <3>2 DEF interrupt, MainType
      <4>2. main.set \subseteq Processes
        BY <1>4 DEF MainType, Processes
      <4>3. ASSUME NEW p \in main.set, proc[p].pid = main.pid
            PROVE main.pid \in DOMAIN children /\ children[main.pid] = "over" /\ main.pid # signaled
        BY <4>1, <4>2, <4>3 DEF ToldSound, Over, ChildrenOwned
      <4> QED BY <1>2, <1>8, <4>1, <4>3 DEF ToldSound
    <3>3. CASE waitNone \/ (\E S \in SUBSET Mine : waitSome(S)) \/ woken
      BY <1>5, <2>4, <3>3 DEF waitNone, waitSome, woken, Return, Idle
    <3>4. CASE waitInterrupted \/ waitFound \/ waitOther
      BY <1>5, <2>4, <3>4 DEF waitInterrupted, waitFound, waitOther, Return
    <3>5. CASE Spurious
      BY <1>4, <2>4, <3>5 DEF Spurious, MainType
    <3> QED BY <3>1, <3>2, <3>3, <3>4, <3>5 DEF Waits
  <2> QED BY <2>3, <2>4 DEF ToldSound, Over
<1> QED BY <1>2, <1>4, <1>8, <1>9, <1>10, <1>11, <1>12 DEF WaitTyped, MainType

\* Every step preserves the part about children and wait().
LEMMA WaitStep ==
  ASSUME WaitInv, FdTyped, [Next]_vars PROVE WaitInv'
<1>1. ASSUME UNCHANGED vars PROVE WaitInv'
  <2> USE DEF WaitInv
  <2>1. UNCHANGED <<proc, children, pipes, signaled, waitState, main, result, interrupted>>
    BY <1>1 DEF vars, frameworkVars
  <2>2. WaitTyped' /\ ChildrenOwned'
    BY <2>1 DEF WaitTyped, ChildrenOwned, MainType
  <2>3. OpensFresh' /\ Handshake'
    BY <2>1 DEF OpensFresh, Handshake, Ends
  <2>4. ToldSound'
    BY <2>1 DEF ToldSound, Over
  <2> QED BY <2>2, <2>3, <2>4
<1> QED BY <1>1, ChildClasses, WaitForks, WaitReaps, WaitDescriptors, WaitExit, WaitWaits DEF ChildSteps

-----------------------------------------------------------------------------
(* Descriptors.                                                            *)

\* A set of numbers that is not empty has a least one.
LEMMA Least ==
  ASSUME NEW T, T \subseteq Nat, T # {} PROVE \E x \in T : \A y \in T : x <= y
<1>1. PICK x \in T : \A y \in T : ~ (<<y, x>> \in OpToRel(<, Nat))
  BY NatLessThanWellFounded, WFMin
<1>2. ASSUME NEW y \in T PROVE x <= y
  <2>1. x \in Nat /\ y \in Nat
    OBVIOUS
  <2>2. ~(y < x)
    BY <1>1, <2>1 DEF OpToRel
  <2> QED BY <2>1, <2>2
<1> QED BY <1>2

\* pipe() finds the lowest descriptors: a finite set of numbers has n lowest ones.
LEMMA LowestExist ==
  ASSUME NEW free, free \subseteq Nat, IsFiniteSet(free), NEW n \in Nat, n <= Cardinality(free)
  PROVE  \E S \in SUBSET free : Cardinality(S) = n /\ \A i \in S, j \in free \ S : i < j
<1> DEFINE Has(k) == \E S \in SUBSET free : Cardinality(S) = k /\ \A i \in S, j \in free \ S : i < j
<1> DEFINE T == {k \in Nat : k <= Cardinality(free) /\ ~Has(k)}
<1>1. SUFFICES ASSUME T # {} PROVE FALSE
  OBVIOUS
<1>2. PICK m \in T : \A k \in T : m <= k
  <2> HIDE DEF T
  <2>1. T \subseteq Nat
    BY DEF T
  <2> QED BY <1>1, <2>1, Least
<1>3. Has(0)
  BY FS_EmptySet
<1> HIDE DEF Has
<1>4. m \in Nat /\ m # 0 /\ m <= Cardinality(free) /\ ~Has(m)
  BY <1>2, <1>3
<1>5. Cardinality(free) \in Nat
  BY FS_CardinalityType
<1>6. Has(m - 1)
  <2>1. m - 1 \in Nat /\ m - 1 <= Cardinality(free) /\ ~(m <= m - 1)
    BY <1>4, <1>5
  <2> QED BY <1>2, <2>1
<1>7. PICK S \in SUBSET free : Cardinality(S) = m - 1 /\ \A i \in S, j \in free \ S : i < j
  BY <1>6 DEF Has
<1>8. IsFiniteSet(S)
  BY FS_Subset
<1>9. free \ S # {}
  <2>1. free \ S = {} => S = free
    OBVIOUS
  <2>2. S = free => Cardinality(free) = m - 1
    BY <1>7
  <2>3. Cardinality(free) # m - 1
    BY <1>4, <1>5
  <2> QED BY <2>1, <2>2, <2>3
<1>10. PICK d \in free \ S : \A y \in free \ S : d <= y
  BY <1>9, Least
<1>11. Cardinality(S \cup {d}) = m
  <2>1. Cardinality(S \cup {d}) = Cardinality(S) + 1
    BY <1>8, <1>10, FS_AddElement
  <2> QED BY <1>4, <1>7, <2>1
<1>12. \A i \in S \cup {d}, j \in free \ (S \cup {d}) : i < j
  BY <1>7, <1>10
<1>13. Has(m)
  BY <1>11, <1>12 DEF Has
<1> QED BY <1>4, <1>13

\* The place of d among the members of S.
RankIn(S, pos, d) == Cardinality({e \in S : pos[e] < pos[d]})

\* The members of a finite set, put in an order, are numbered from 0 without gaps.
LEMMA Ranked ==
  ASSUME NEW S, IsFiniteSet(S), NEW pos \in [S -> Nat],
         \A x, y \in S : x # y => pos[x] # pos[y]
  PROVE  /\ \A d \in S : RankIn(S, pos, d) \in 0 .. (Cardinality(S) - 1)
         /\ \A d, e \in S : d # e => RankIn(S, pos, d) # RankIn(S, pos, e)
         /\ \A k \in 0 .. (Cardinality(S) - 1) : \E d \in S : RankIn(S, pos, d) = k
<1> DEFINE below(d) == {e \in S : pos[e] < pos[d]}
<1> DEFINE rank(d) == Cardinality(below(d))
<1> DEFINE n == Cardinality(S)
<1>1. \A d \in S : IsFiniteSet(below(d))
  BY FS_Subset
<1>2. n \in Nat /\ \A d \in S : rank(d) \in Nat
  BY <1>1, FS_CardinalityType
<1>3. ASSUME NEW d \in S PROVE rank(d) < n
  <2>1. below(d) \in SUBSET S /\ d \notin below(d)
    OBVIOUS
  <2>2. rank(d) <= n /\ rank(d) # n
    <3> HIDE DEF below
    <3> QED BY <2>1, FS_Subset
  <2> HIDE DEF rank, n
  <2> QED BY <1>2, <2>2
<1>4. ASSUME NEW d \in S, NEW e \in S, pos[d] < pos[e] PROVE rank(d) < rank(e)
  <2>1. below(d) \in SUBSET below(e) /\ d \in below(e) /\ d \notin below(d)
    BY <1>4
  <2>2. rank(d) <= rank(e) /\ rank(d) # rank(e)
    <3> HIDE DEF below
    <3> QED BY <1>1, <2>1, FS_Subset
  <2> HIDE DEF rank
  <2> QED BY <1>2, <2>2
<1>5. ASSUME NEW d \in S, NEW e \in S, d # e PROVE rank(d) # rank(e)
  <2>1. pos[d] < pos[e] \/ pos[e] < pos[d]
    BY <1>5
  <2> HIDE DEF rank
  <2> QED BY <1>2, <1>4, <2>1
<1> DEFINE T == 0 .. (n - 1)
<1> DEFINE f == [d \in S |-> rank(d)]
<1> HIDE DEF rank, n
<1>6. f \in Injection(S, T)
  <2>1. f \in [S -> T]
    BY <1>2, <1>3
  <2>2. \A d, e \in S : f[d] = f[e] => d = e
    BY <1>5
  <2> HIDE DEF f, T
  <2> QED BY <2>1, <2>2 DEF Injection, IsInjective
<1>7. IsFiniteSet(T) /\ Cardinality(T) = n
  BY <1>2, FS_Interval
<1>8. f \in Surjection(S, T)
  <2> HIDE DEF f, T
  <2> QED BY <1>6, <1>7, FS_Injection DEF n
<1>9. \A k \in T : \E d \in S : rank(d) = k
  <2>1. \A k \in T : \E d \in S : f[d] = k
    <3> HIDE DEF f, T
    <3> QED BY <1>8 DEF Surjection
  <2> QED BY <2>1
<1>10. \A d \in S : rank(d) \in T
  BY <1>2, <1>3
<1> QED BY <1>5, <1>9, <1>10 DEF rank, n, RankIn

\* What openPipes() makes: descriptors that were free, each the end of one pipe.
Made(p, new) ==
  /\ new \subseteq (1 .. MaxFd) \ fds
  /\ fds' = fds \cup new
  /\ pipes' \in [Processes -> [Streams -> Nat \X Nat]]
  /\ \A q \in Processes : q # p => pipes'[q] = pipes[q]
  /\ \A x : x \in new <=> x # 0 /\ \E s \in Streams : x = pipes'[p][s][1] \/ x = pipes'[p][s][2]
  /\ \A s, t \in Streams :
       /\ pipes'[p][s][1] # 0 => pipes'[p][s][1] # pipes'[p][t][2]
       /\ pipes'[p][s][1] # 0 /\ s # t => pipes'[p][s][1] # pipes'[p][t][1]

\* The descriptors are numbered, and so are the streams: the pipe of the r-th stream has the
\* descriptors 2 r and 2 r + 1, so that no descriptor is used twice and none is left.
LEMMA PipesMade ==
  ASSUME FdTyped, NEW p \in Processes, NEW S \in SUBSET Streams, openPipes(p, S)
  PROVE  \E new : Made(p, new)
<1> DEFINE m == Cardinality(S)
<1> DEFINE free == (1 .. MaxFd) \ fds
<1> DEFINE new == Lowest(2 * m)
<1> DEFINE nth(k) == CHOOSE d \in new : Cardinality({e \in new : e < d}) = k
<1> DEFINE first(s) == nth(2 * Rank(s, S))
<1> DEFINE second(s) == nth(2 * Rank(s, S) + 1)
<1>1. IsFiniteSet(S) /\ m \in Nat
  <2>1. IsFiniteSet({"stdout", "stderr", "stdin"})
    <3>1. IsFiniteSet({"stdout"})
      BY FS_Singleton
    <3>2. IsFiniteSet({"stdout"} \cup {"stderr"})
      BY <3>1, FS_AddElement
    <3>3. IsFiniteSet(({"stdout"} \cup {"stderr"}) \cup {"stdin"})
      BY <3>2, FS_AddElement
    <3>4. {"stdout", "stderr", "stdin"} = ({"stdout"} \cup {"stderr"}) \cup {"stdin"}
      OBVIOUS
    <3> QED BY <3>3, <3>4
  <2> QED BY <2>1, FS_Subset, FS_CardinalityType, ProcessAssumption
<1>2. free \subseteq Nat /\ IsFiniteSet(free) /\ Cardinality(free) \in Nat /\ 2 * m <= Cardinality(free)
  <2>1. IsFiniteSet(1 .. MaxFd) /\ Cardinality(1 .. MaxFd) = MaxFd /\ MaxFd \in Nat
    BY FS_Interval, ProcessAssumption
  <2>2. (1 .. MaxFd) \cap fds = fds
    BY DEF FdTyped
  <2>3. IsFiniteSet(free) /\ Cardinality(free) = MaxFd - Cardinality(fds)
    <3>1. /\ IsFiniteSet((1 .. MaxFd) \ fds)
          /\ Cardinality((1 .. MaxFd) \ fds) = Cardinality(1 .. MaxFd) - Cardinality((1 .. MaxFd) \cap fds)
      BY <2>1, FS_Difference
    <3> QED BY <2>1, <2>2, <3>1
  <2>4. Cardinality(fds) \in Nat /\ Cardinality(free) \in Nat
    BY <2>1, <2>3, FS_Subset, FS_CardinalityType DEF FdTyped
  <2>5. Cardinality(fds) + 2 * m <= MaxFd
    BY DEF openPipes
  <2>6. free \subseteq Nat
    OBVIOUS
  <2> HIDE DEF m, free
  <2> QED BY <1>1, <2>1, <2>3, <2>4, <2>5, <2>6
<1>3. new \in SUBSET free /\ Cardinality(new) = 2 * m
  <2>1. 2 * m \in Nat
    BY <1>1
  <2> DEFINE n == 2 * m
  <2>2. new = CHOOSE T \in SUBSET free : Cardinality(T) = n /\ \A i \in T, j \in free \ T : i < j
    BY DEF Lowest
  <2> HIDE DEF free, n, new
  <2>3. \E T \in SUBSET free : Cardinality(T) = n /\ \A i \in T, j \in free \ T : i < j
    BY <1>2, <2>1, LowestExist DEF n
  <2> QED BY <2>2, <2>3 DEF n
<1>4. new \subseteq Nat /\ IsFiniteSet(new)
  BY <1>2, <1>3, FS_Subset
<1> HIDE DEF m, free, new
\* The descriptors are numbered.
<1> DEFINE at(d) == Cardinality({e \in new : e < d})
<1>5. /\ \A d, e \in new : d # e => at(d) # at(e)
      /\ \A d \in new : at(d) \in 0 .. (2 * m - 1)
      /\ \A k \in 0 .. (2 * m - 1) : \E d \in new : at(d) = k
  <2> DEFINE pos == [d \in new |-> d]
  <2>1. pos \in [new -> Nat] /\ \A x, y \in new : x # y => pos[x] # pos[y]
    BY <1>4
  <2>2. \A d \in new : {e \in new : pos[e] < pos[d]} = {e \in new : e < d}
    OBVIOUS
  <2> HIDE DEF pos
  <2>3. /\ \A d \in new : RankIn(new, pos, d) \in 0 .. (Cardinality(new) - 1)
        /\ \A d, e \in new : d # e => RankIn(new, pos, d) # RankIn(new, pos, e)
        /\ \A k \in 0 .. (Cardinality(new) - 1) : \E d \in new : RankIn(new, pos, d) = k
    BY <1>4, <2>1, Ranked
  <2> QED BY <1>3, <2>2, <2>3 DEF RankIn
<1>6. \A k \in 0 .. (2 * m - 1) : nth(k) \in new /\ at(nth(k)) = k
  BY <1>5
<1>7. \A d \in new : \E k \in 0 .. (2 * m - 1) : d = nth(k)
  BY <1>5, <1>6
<1>8. \A j, k \in 0 .. (2 * m - 1) : j # k => nth(j) # nth(k)
  BY <1>6
\* And so are the streams.
<1>9. /\ \A s \in S : Rank(s, S) \in 0 .. (m - 1)
      /\ \A s, t \in S : s # t => Rank(s, S) # Rank(t, S)
      /\ \A k \in 0 .. (m - 1) : \E s \in S : Rank(s, S) = k
  <2> DEFINE pos == [s \in S |-> IF s = "stdout" THEN 1 ELSE IF s = "stderr" THEN 2 ELSE 3]
  <2>1. pos \in [S -> Nat] /\ \A x, y \in S : x # y => pos[x] # pos[y]
    BY ProcessAssumption
  <2>2. ASSUME NEW s \in S, NEW t \in S
        PROVE  (\E i, j \in 1 .. 3 : i < j /\ Order[i] = t /\ Order[j] = s) <=> pos[t] < pos[s]
    <3>1. Order[1] = "stdout" /\ Order[2] = "stderr" /\ Order[3] = "stdin"
      BY DEF Order
    <3>2. 1 .. 3 = {1, 2, 3}
      OBVIOUS
    <3>3. s \in {"stdout", "stderr", "stdin"} /\ t \in {"stdout", "stderr", "stdin"}
      BY ProcessAssumption
    <3>4. pos[t] < pos[s] <=> \/ t = "stdout" /\ s # "stdout"
                              \/ t = "stderr" /\ s = "stdin"
      BY <3>3
    <3> QED BY <3>1, <3>2, <3>3, <3>4
  <2>3. \A s \in S : {t \in S : \E i, j \in 1 .. 3 : i < j /\ Order[i] = t /\ Order[j] = s} = {t \in S : pos[t] < pos[s]}
    <3> HIDE DEF pos
    <3> QED BY <2>2
  <2> HIDE DEF pos
  <2>4. /\ \A d \in S : RankIn(S, pos, d) \in 0 .. (Cardinality(S) - 1)
        /\ \A d, e \in S : d # e => RankIn(S, pos, d) # RankIn(S, pos, e)
        /\ \A k \in 0 .. (Cardinality(S) - 1) : \E d \in S : RankIn(S, pos, d) = k
    BY <1>1, <2>1, Ranked
  <2>5. \A s \in S : Rank(s, S) = RankIn(S, pos, s)
    BY <2>3 DEF Rank, RankIn
  <2> QED BY <2>4, <2>5 DEF m
<1>10. \A s \in S : 2 * Rank(s, S) \in 0 .. (2 * m - 1) /\ 2 * Rank(s, S) + 1 \in 0 .. (2 * m - 1)
  BY <1>1, <1>9
<1>11. ASSUME NEW s \in S, NEW t \in S PROVE first(s) # second(t)
  <2>1. Rank(s, S) \in Nat /\ Rank(t, S) \in Nat
    BY <1>1, <1>9
  <2>2. 2 * Rank(s, S) # 2 * Rank(t, S) + 1
    BY <2>1
  <2> HIDE DEF nth
  <2> QED BY <1>8, <1>10, <2>2
<1>12. ASSUME NEW s \in S, NEW t \in S, s # t PROVE first(s) # first(t) /\ second(s) # second(t)
  <2>1. Rank(s, S) \in Nat /\ Rank(t, S) \in Nat /\ Rank(s, S) # Rank(t, S)
    BY <1>1, <1>9, <1>12
  <2>2. 2 * Rank(s, S) # 2 * Rank(t, S) /\ 2 * Rank(s, S) + 1 # 2 * Rank(t, S) + 1
    BY <2>1
  <2> HIDE DEF nth
  <2> QED BY <1>8, <1>10, <2>2
<1>13. \A s \in S : first(s) \in new /\ second(s) \in new
  <2> HIDE DEF nth
  <2> QED BY <1>6, <1>10
<1>14. ASSUME NEW d \in new PROVE \E s \in S : d = first(s) \/ d = second(s)
  <2> HIDE DEF nth
  <2>1. PICK k \in 0 .. (2 * m - 1) : d = nth(k)
    BY <1>7
  <2>2. \E r \in 0 .. (m - 1) : k = 2 * r \/ k = 2 * r + 1
    <3>1. k \in Nat /\ k < 2 * m
      BY <1>1
    <3>2. k = 2 * (k \div 2) \/ k = 2 * (k \div 2) + 1
      BY <3>1
    <3>3. k \div 2 \in 0 .. (m - 1)
      BY <1>1, <3>1, <3>2
    <3> QED BY <3>2, <3>3
  <2>3. PICK r \in 0 .. (m - 1) : k = 2 * r \/ k = 2 * r + 1
    BY <2>2
  <2>4. PICK s \in S : Rank(s, S) = r
    BY <1>9
  <2> QED BY <2>1, <2>3, <2>4
<1>15. 0 \notin new
  BY <1>3 DEF free
<1> DEFINE row == [s \in Streams |->
              IF s \notin S THEN <<0, 0>>
              ELSE LET ends == <<nth(2 * Rank(s, S)), nth(2 * Rank(s, S) + 1)>>
                   IN  IF s = "stdin" THEN <<ends[2], ends[1]>> ELSE ends]
<1>16. pipes' = [pipes EXCEPT ![p] = row] /\ fds' = fds \cup new
  BY DEF openPipes, new, m
<1> HIDE DEF nth
<1>17. \A s \in Streams : row[s] =
          IF s \notin S THEN <<0, 0>>
          ELSE IF s = "stdin" THEN <<second(s), first(s)>> ELSE <<first(s), second(s)>>
  OBVIOUS
<1>18. row \in [Streams -> Nat \X Nat]
  <2>1. \A s \in S : first(s) \in Nat /\ second(s) \in Nat
    BY <1>4, <1>13
  <2> HIDE DEF first, second
  <2>2. \A s \in Streams : row[s] \in Nat \X Nat
    BY <1>17, <2>1
  <2> QED BY <2>2
<1> HIDE DEF row, first, second
<1>19. pipes'[p] = row /\ pipes' \in [Processes -> [Streams -> Nat \X Nat]]
       /\ \A q \in Processes : q # p => pipes'[q] = pipes[q]
  BY <1>16, <1>18 DEF FdTyped
<1>20. ASSUME NEW s \in Streams \ S PROVE row[s][1] = 0 /\ row[s][2] = 0
  <2>1. row[s] = <<0, 0>>
    BY <1>17
  <2> QED BY <2>1
<1>21. ASSUME NEW s \in S
       PROVE  \/ s = "stdin" /\ row[s][1] = second(s) /\ row[s][2] = first(s)
              \/ s # "stdin" /\ row[s][1] = first(s) /\ row[s][2] = second(s)
  <2>1. s = "stdin" => row[s] = <<second(s), first(s)>>
    BY <1>17
  <2>2. s # "stdin" => row[s] = <<first(s), second(s)>>
    BY <1>17
  <2> QED BY <2>1, <2>2
<1>22. ASSUME NEW x PROVE x \in new <=> x # 0 /\ \E s \in Streams : x = row[s][1] \/ x = row[s][2]
  <2>1. ASSUME x \in new PROVE x # 0 /\ \E s \in Streams : x = row[s][1] \/ x = row[s][2]
    BY <1>14, <1>15, <1>21, <2>1
  <2>2. ASSUME x # 0, NEW s \in Streams, x = row[s][1] \/ x = row[s][2] PROVE x \in new
    BY <1>13, <1>20, <1>21, <2>2
  <2> QED BY <2>1, <2>2
<1>23. ASSUME NEW s \in Streams, NEW t \in Streams, row[s][1] # 0
       PROVE  row[s][1] # row[t][2] /\ (s # t => row[s][1] # row[t][1])
  <2>1. s \in S
    BY <1>20, <1>23
  <2>2. CASE t \notin S
    BY <1>20, <1>23, <2>2
  <2>3. CASE t \in S
    <3>1. CASE s = t
      BY <1>11, <1>21, <2>1, <3>1
    <3>2. CASE s # t
      BY <1>11, <1>12, <1>21, <2>1, <2>3, <3>2
    <3> QED BY <3>1, <3>2
  <2> QED BY <2>2, <2>3
<1>24. new \subseteq (1 .. MaxFd) \ fds
  BY <1>3 DEF free
<1>25. Made(p, new)
  BY <1>16, <1>19, <1>22, <1>23, <1>24 DEF Made
<1> QED BY <1>25

\* Descriptors change hands between p, leaked and the system: those of the others stay.
LEMMA Reowned ==
  ASSUME FdsOwned, NEW p \in Processes,
         \A q \in Processes : q # p => Fds(q)' = Fds(q),
         NEW rest, rest = fds \ (Fds(p) \cup leaked),
         fds' = rest \cup Fds(p)' \cup leaked',
         Fds(p)' \cap rest = {}, leaked' \cap rest = {}, Fds(p)' \cap leaked' = {}
  PROVE  FdsOwned'
<1>1. ASSUME NEW q \in Processes, q # p PROVE Fds(q)' \subseteq rest
  BY <1>1 DEF FdsOwned
<1>2. ASSUME NEW x \in rest PROVE \E q \in Processes : q # p /\ x \in Fds(q)'
  <2>1. x \in fds /\ x \notin Fds(p) /\ x \notin leaked
    OBVIOUS
  <2>2. PICK q \in Processes : x \in Fds(q)
    BY <2>1 DEF FdsOwned
  <2> QED BY <2>1, <2>2
<1>3. fds' = leaked' \cup UNION {Fds(q)' : q \in Processes}
  <2>1. ASSUME NEW x \in fds' PROVE x \in leaked' \/ \E q \in Processes : x \in Fds(q)'
    BY <1>2
  <2>2. ASSUME NEW q \in Processes PROVE Fds(q)' \subseteq fds'
    BY <1>1
  <2> QED BY <2>1, <2>2
<1>4. \A q \in Processes : Fds(q)' \cap leaked' = {}
  BY <1>1
<1>5. ASSUME NEW q \in Processes, NEW r \in Processes, q # r PROVE Fds(q)' \cap Fds(r)' = {}
  <2>1. CASE q = p \/ r = p
    BY <1>1, <1>5, <2>1
  <2>2. CASE q # p /\ r # p
    BY <1>5, <2>2 DEF FdsOwned
  <2> QED BY <2>1, <2>2
<1> QED BY <1>3, <1>4, <1>5 DEF FdsOwned

\* No process has a descriptor at first.
LEMMA FdInitially == Init => FdInv
<1> SUFFICES ASSUME Init PROVE FdInv
  OBVIOUS
<1>1. \A p \in Processes : proc[p] = Nothing /\ pipes[p] = NoPipes
  BY DEF Init
<1>2. \A p \in Processes, s \in Streams : proc[p].fd[s] = 0 /\ pipes[p][s][1] = 0 /\ pipes[p][s][2] = 0
  BY <1>1 DEF Nothing, NoPipes
<1>3. \A p \in Processes : Held(p) = {} /\ Ends(p) = {}
  BY <1>2, FdsOf
<1>4. FdTyped
  <2>1. NoPipes \in [Streams -> Nat \X Nat]
    BY DEF NoPipes
  <2> QED BY <2>1 DEF Init, FdTyped
<1>5. OwnEnds
  BY <1>2, <1>3 DEF OwnEnds
<1>6. FdsOwned
  BY <1>3 DEF FdsOwned, Fds, Init
<1> QED BY <1>4, <1>5, <1>6 DEF FdInv

\* openPipes: new descriptors for p.
LEMMA FdOpen ==
  ASSUME FdInv, NEW p \in Processes, NEW S \in SUBSET Streams, openPipes(p, S)
  PROVE  FdInv'
<1> USE DEF FdInv
<1>1. PICK new : Made(p, new)
  BY PipesMade
<1>2. UNCHANGED <<proc, leaked>>
  BY DEF openPipes
<1>3. \A q \in Processes : Held(q)' = Held(q) /\ (q # p => Ends(q)' = Ends(q))
  BY <1>1, <1>2 DEF Held, Ends, Made
<1>4. Ends(p)' = new
  <2>1. ASSUME NEW x PROVE x \in Ends(p)' <=> x \in new
    BY <1>1, FdsOf DEF Made
  <2> QED BY <2>1
<1>5. Ends(p) = {}
  BY DEF openPipes, Usable, MainFree
<1>6. new \cap fds = {} /\ new \subseteq 1 .. MaxFd /\ fds' = fds \cup new
  BY <1>1 DEF Made
<1>7. FdTyped'
  BY <1>1, <1>2, <1>6 DEF FdTyped, Made
<1>8. OwnEnds'
  <2>1. ASSUME NEW q \in Processes PROVE
          /\ proc'[q].pid = 0 => Held(q)' = {}
          /\ \A s, t \in Streams :
               /\ proc'[q].fd[s] # 0 /\ s # t => proc'[q].fd[s] # proc'[q].fd[t]
               /\ pipes'[q][s][1] # 0 => pipes'[q][s][1] # pipes'[q][t][2]
               /\ pipes'[q][s][1] # 0 /\ s # t => pipes'[q][s][1] # pipes'[q][t][1]
    <3>1. CASE q = p
      BY <1>1, <1>2, <1>3, <3>1 DEF OwnEnds, Made
    <3>2. CASE q # p
      <4>1. proc' = proc /\ pipes'[q] = pipes[q] /\ Held(q)' = Held(q)
        BY <1>1, <1>2, <1>3, <3>2 DEF Made
      <4> QED BY <4>1 DEF OwnEnds
    <3> QED BY <3>1, <3>2
  <2> QED BY <2>1 DEF OwnEnds
<1>9. FdsOwned'
  <2> DEFINE rest == fds \ (Fds(p) \cup leaked)
  <2>1. Fds(p)' = Fds(p) \cup new /\ \A q \in Processes : q # p => Fds(q)' = Fds(q)
    BY <1>3, <1>4, <1>5 DEF Fds
  <2>2. Fds(p) \subseteq fds /\ leaked \subseteq fds /\ Fds(p) \cap leaked = {}
    BY DEF FdsOwned
  <2>3. /\ fds' = rest \cup Fds(p)' \cup leaked'
        /\ Fds(p)' \cap rest = {} /\ leaked' \cap rest = {} /\ Fds(p)' \cap leaked' = {}
    BY <1>2, <1>6, <2>1, <2>2
  <2> HIDE DEF rest
  <2>4. FdsOwned /\ rest = fds \ (Fds(p) \cup leaked)
    BY DEF rest
  <2> QED BY <2>1, <2>3, <2>4, Reowned
<1> QED BY <1>7, <1>8, <1>9

\* openFork: p keeps its own ends, and the ends of the child are closed.
LEMMA FdFork ==
  ASSUME WaitInv, FdInv, NEW p \in Processes, openFork(p) PROVE FdInv'
<1> USE DEF FdInv
<1> DEFINE row(pid) == [pid |-> pid, fd |-> [s \in Streams |-> pipes[p][s][1]]]
<1>1. PICK pid \in NewPid : proc' = [proc EXCEPT ![p] = row(pid)]
  BY DEF openFork
<1>2. /\ Ends(p) # {} /\ UNCHANGED leaked
      /\ fds' = fds \ {pipes[p][s][2] : s \in Streams}
      /\ pipes' = [pipes EXCEPT ![p] = NoPipes]
  BY DEF openFork
<1>3. proc \in [Processes -> ProcType] /\ pipes \in [Processes -> [Streams -> Nat \X Nat]]
  BY DEF WaitInv, WaitTyped, FdTyped
<1>4. /\ pipes' \in [Processes -> [Streams -> Nat \X Nat]]
      /\ \A q \in Processes : Ends(q)' = IF q = p THEN {} ELSE Ends(q)
      /\ \A s \in Streams : pipes'[p][s][1] = 0 /\ pipes'[p][s][2] = 0
      /\ \A q \in Processes : q # p => pipes'[q] = pipes[q]
  BY <1>2, NoMorePipes
<1>5. /\ proc'[p].pid = pid /\ \A s \in Streams : proc'[p].fd[s] = pipes[p][s][1]
      /\ \A q \in Processes : q # p => proc'[q] = proc[q]
  BY <1>1, <1>3
<1>6. pid # 0
  BY ProcessAssumption DEF NewPid
<1>7. Held(p) = {}
  BY <1>2 DEF WaitInv, OpensFresh, OwnEnds
<1>8. \A q \in Processes : q # p => Held(q)' = Held(q)
  BY <1>5 DEF Held
<1>9. OwnEnds'
  <2>1. ASSUME NEW q \in Processes PROVE
          /\ proc'[q].pid = 0 => Held(q)' = {}
          /\ \A s, t \in Streams :
               /\ proc'[q].fd[s] # 0 /\ s # t => proc'[q].fd[s] # proc'[q].fd[t]
               /\ pipes'[q][s][1] # 0 => pipes'[q][s][1] # pipes'[q][t][2]
               /\ pipes'[q][s][1] # 0 /\ s # t => pipes'[q][s][1] # pipes'[q][t][1]
    <3>1. CASE q = p
      <4>1. \A s, t \in Streams : pipes[p][s][1] # 0 /\ s # t => pipes[p][s][1] # pipes[p][t][1]
        BY DEF OwnEnds
      <4> QED BY <1>4, <1>5, <1>6, <3>1, <4>1
    <3>2. CASE q # p
      <4>1. proc'[q] = proc[q] /\ pipes'[q] = pipes[q] /\ Held(q)' = Held(q)
        BY <1>4, <1>5, <1>8, <3>2
      <4> QED BY <4>1 DEF OwnEnds
    <3> QED BY <3>1, <3>2
  <2> QED BY <2>1 DEF OwnEnds
<1>10. ASSUME NEW x PROVE x \in Fds(p)' <=> x \in Fds(p) /\ x \notin {pipes[p][s][2] : s \in Streams}
  <2>1. Ends(p)' = {}
    BY <1>4
  <2>2. x \in Fds(p)' <=> x # 0 /\ \E s \in Streams : x = pipes[p][s][1]
    BY <1>5, <2>1, FdsOf DEF Fds
  <2>3. x \in Fds(p) <=> x # 0 /\ \E s \in Streams : x = pipes[p][s][1] \/ x = pipes[p][s][2]
    BY <1>7, FdsOf DEF Fds
  <2>4. \A s, t \in Streams : pipes[p][s][1] # 0 => pipes[p][s][1] # pipes[p][t][2]
    BY DEF OwnEnds
  <2> QED BY <2>2, <2>3, <2>4
<1>11. FdTyped' /\ FdsOwned'
  <2> DEFINE rest == fds \ (Fds(p) \cup leaked)
             given == {pipes[p][s][2] : s \in Streams}
  <2>1. Fds(p) \subseteq fds /\ leaked \subseteq fds /\ Fds(p) \cap leaked = {}
    BY DEF FdsOwned
  <2>2. given \cap fds \subseteq Fds(p)
    <3>1. 0 \notin fds
      BY DEF FdTyped
    <3> QED BY <3>1, FdsOf DEF Fds
  <2>3. Fds(p)' = Fds(p) \ given /\ fds' = fds \ given /\ leaked' = leaked
    BY <1>2, <1>10
  <2> HIDE DEF given
  <2>4. /\ fds' = rest \cup Fds(p)' \cup leaked'
        /\ Fds(p)' \cap rest = {} /\ leaked' \cap rest = {} /\ Fds(p)' \cap leaked' = {}
    BY <2>1, <2>2, <2>3
  <2> HIDE DEF rest
  <2>5. FdsOwned /\ rest = fds \ (Fds(p) \cup leaked)
    BY DEF rest
  <2>6. \A q \in Processes : q # p => Fds(q)' = Fds(q)
    BY <1>4, <1>8 DEF Fds
  <2>7. FdsOwned'
    BY <2>4, <2>5, <2>6, Reowned
  <2>8. fds' \subseteq fds /\ leaked' \subseteq fds'
    BY <2>1, <2>2, <2>3
  <2> QED BY <1>4, <2>7, <2>8 DEF FdTyped
<1> QED BY <1>9, <1>11

\* openFails: the descriptors of open() are leaked.
LEMMA FdFails ==
  ASSUME WaitInv, FdInv, NEW p \in Processes, openFails(p) PROVE FdInv'
<1> USE DEF FdInv
<1>1. /\ Ends(p) # {} /\ UNCHANGED <<proc, fds>>
      /\ leaked' = leaked \cup Ends(p)
      /\ pipes' = [pipes EXCEPT ![p] = NoPipes]
  BY DEF openFails
<1>2. /\ pipes' \in [Processes -> [Streams -> Nat \X Nat]]
      /\ \A q \in Processes : Ends(q)' = IF q = p THEN {} ELSE Ends(q)
      /\ \A s \in Streams : pipes'[p][s][1] = 0 /\ pipes'[p][s][2] = 0
      /\ \A q \in Processes : q # p => pipes'[q] = pipes[q]
  BY <1>1, NoMorePipes
<1>3. Held(p) = {}
  BY <1>1 DEF WaitInv, OpensFresh, OwnEnds
<1>4. \A q \in Processes : Held(q)' = Held(q)
  BY <1>1 DEF Held
<1>5. Fds(p) \subseteq fds /\ leaked \subseteq fds /\ Fds(p) \cap leaked = {} /\ Fds(p) = Ends(p)
  BY <1>3 DEF FdsOwned, Fds
<1>6. FdTyped'
  BY <1>1, <1>2, <1>5 DEF FdTyped
<1>7. OwnEnds'
  <2>1. ASSUME NEW q \in Processes PROVE
          /\ proc'[q].pid = 0 => Held(q)' = {}
          /\ \A s, t \in Streams :
               /\ proc'[q].fd[s] # 0 /\ s # t => proc'[q].fd[s] # proc'[q].fd[t]
               /\ pipes'[q][s][1] # 0 => pipes'[q][s][1] # pipes'[q][t][2]
               /\ pipes'[q][s][1] # 0 /\ s # t => pipes'[q][s][1] # pipes'[q][t][1]
    <3>0. proc' = proc /\ Held(q)' = Held(q)
      BY <1>1, <1>4
    <3>1. CASE q = p
      BY <1>2, <3>0, <3>1 DEF OwnEnds
    <3>2. CASE q # p
      <4>1. pipes'[q] = pipes[q]
        BY <1>2, <3>2
      <4> QED BY <3>0, <4>1 DEF OwnEnds
    <3> QED BY <3>1, <3>2
  <2> QED BY <2>1 DEF OwnEnds
<1>8. FdsOwned'
  <2> DEFINE rest == fds \ (Fds(p) \cup leaked)
  <2>1. Fds(p)' = {} /\ fds' = fds /\ leaked' = leaked \cup Fds(p)
    <3>1. Ends(p)' = {} /\ Held(p)' = {}
      BY <1>2, <1>3, <1>4
    <3> QED BY <1>1, <1>5, <3>1 DEF Fds
  <2>2. /\ fds' = rest \cup Fds(p)' \cup leaked'
        /\ Fds(p)' \cap rest = {} /\ leaked' \cap rest = {} /\ Fds(p)' \cap leaked' = {}
    BY <1>5, <2>1
  <2> HIDE DEF rest
  <2>3. FdsOwned /\ rest = fds \ (Fds(p) \cup leaked)
    BY DEF rest
  <2>4. \A q \in Processes : q # p => Fds(q)' = Fds(q)
    BY <1>2, <1>4 DEF Fds
  <2> QED BY <2>2, <2>3, <2>4, Reowned
<1> QED BY <1>6, <1>7, <1>8

\* close(), join() and kill(): p loses the descriptors of some streams.
Closes(p, S) ==
  /\ Ends(p) = {} /\ UNCHANGED <<pipes, leaked>>
  /\ fds' = fds \ {proc[p].fd[s] : s \in S}
  /\ \A q \in Processes : q # p => proc'[q] = proc[q]
  /\ proc'[p].pid = 0 => proc[p].pid = 0 \/ S = Streams
  /\ \A s \in Streams : proc'[p].fd[s] = IF s \in S THEN 0 ELSE proc[p].fd[s]

\* A descriptor is closed once, and the number is forgotten with it.
LEMMA FdCloses ==
  ASSUME FdInv, NEW p \in Processes, NEW S \in SUBSET Streams, Closes(p, S)
  PROVE  FdInv'
<1> USE DEF FdInv
<1> DEFINE given == {proc[p].fd[s] : s \in S}
<1>1. /\ Ends(p) = {} /\ UNCHANGED <<pipes, leaked>> /\ fds' = fds \ given
      /\ \A q \in Processes : q # p => proc'[q] = proc[q]
      /\ proc'[p].pid = 0 => proc[p].pid = 0 \/ S = Streams
  BY DEF Closes
<1>2. \A s \in Streams : proc'[p].fd[s] = IF s \in S THEN 0 ELSE proc[p].fd[s]
  BY DEF Closes
<1>3. \A q \in Processes : Ends(q)' = Ends(q) /\ (q # p => Held(q)' = Held(q))
  BY <1>1 DEF Ends, Held
<1>4. 0 \notin fds
  BY DEF FdTyped
<1>5. ASSUME NEW x PROVE x \in Held(p)' <=> x \in Held(p) /\ x \notin given
  <2>1. x \in Held(p)' <=> x # 0 /\ \E s \in Streams \ S : x = proc[p].fd[s]
    BY <1>2, FdsOf
  <2>2. x \in Held(p) <=> x # 0 /\ \E s \in Streams : x = proc[p].fd[s]
    BY FdsOf
  <2>3. \A s, t \in Streams : proc[p].fd[s] # 0 /\ s # t => proc[p].fd[s] # proc[p].fd[t]
    BY DEF OwnEnds
  <2> QED BY <2>1, <2>2, <2>3
<1>6. given \cap fds \subseteq Held(p)
  BY <1>4, FdsOf
<1> HIDE DEF given
<1>7. Fds(p) = Held(p) /\ Fds(p)' = Fds(p) \ given /\ fds' = fds \ given /\ leaked' = leaked
  BY <1>1, <1>3, <1>5 DEF Fds
<1>8. Fds(p) \subseteq fds /\ leaked \subseteq fds /\ Fds(p) \cap leaked = {}
  BY DEF FdsOwned
<1>9. FdTyped'
  <2>1. leaked \cap given = {}
    BY <1>6, <1>7, <1>8
  <2> QED BY <1>1, <1>7, <1>8, <2>1 DEF FdTyped
<1>10. OwnEnds'
  <2>1. ASSUME NEW q \in Processes PROVE
          /\ proc'[q].pid = 0 => Held(q)' = {}
          /\ \A s, t \in Streams :
               /\ proc'[q].fd[s] # 0 /\ s # t => proc'[q].fd[s] # proc'[q].fd[t]
               /\ pipes'[q][s][1] # 0 => pipes'[q][s][1] # pipes'[q][t][2]
               /\ pipes'[q][s][1] # 0 /\ s # t => pipes'[q][s][1] # pipes'[q][t][1]
    <3>0. pipes' = pipes
      BY <1>1
    <3>1. CASE q = p
      <4>1. proc'[p].pid = 0 => Held(p)' = {}
        <5>1. CASE proc[p].pid = 0
          BY <1>5, <5>1 DEF OwnEnds
        <5>2. CASE S = Streams
          BY <1>2, <5>2, FdsOf
        <5> QED BY <1>1, <5>1, <5>2
      <4> QED BY <1>2, <3>0, <3>1, <4>1 DEF OwnEnds
    <3>2. CASE q # p
      <4>1. proc'[q] = proc[q] /\ Held(q)' = Held(q)
        BY <1>1, <1>3, <3>2
      <4> QED BY <3>0, <4>1 DEF OwnEnds
    <3> QED BY <3>1, <3>2
  <2> QED BY <2>1 DEF OwnEnds
<1>11. FdsOwned'
  <2> DEFINE rest == fds \ (Fds(p) \cup leaked)
  <2>1. /\ fds' = rest \cup Fds(p)' \cup leaked'
        /\ Fds(p)' \cap rest = {} /\ leaked' \cap rest = {} /\ Fds(p)' \cap leaked' = {}
    BY <1>6, <1>7, <1>8
  <2> HIDE DEF rest
  <2>2. FdsOwned /\ rest = fds \ (Fds(p) \cup leaked)
    BY DEF rest
  <2>3. \A q \in Processes : q # p => Fds(q)' = Fds(q)
    BY <1>3 DEF Fds
  <2> QED BY <2>1, <2>2, <2>3, Reowned
<1> QED BY <1>9, <1>10, <1>11

\* Every step preserves the part about descriptors.
LEMMA FdStep ==
  ASSUME WaitInv, FdInv, [Next]_vars PROVE FdInv'
<1>1. proc \in [Processes -> ProcType]
  BY DEF WaitInv, WaitTyped
<1>2. ASSUME NEW p \in Processes, NEW S \in SUBSET Streams, close(p, S) PROVE Closes(p, S)
  <2> DEFINE fd == [s \in Streams |-> IF s \in S THEN 0 ELSE proc[p].fd[s]]
  <2>1. /\ Usable(p) /\ fds' = fds \ {proc[p].fd[s] : s \in S} /\ UNCHANGED <<pipes, leaked>>
        /\ proc' = [proc EXCEPT ![p].fd = fd]
    BY <1>2 DEF close
  <2>2. Ends(p) = {}
    BY <2>1 DEF Usable, MainFree
  <2>3. /\ proc'[p].fd = fd /\ proc'[p].pid = proc[p].pid
        /\ \A q \in Processes : q # p => proc'[q] = proc[q]
    <3> HIDE DEF fd
    <3> QED BY <1>1, <2>1 DEF ProcType
  <2> QED BY <2>1, <2>2, <2>3 DEF Closes
<1>3. ASSUME NEW p \in Processes, join(p) \/ kill(p) PROVE Closes(p, Streams)
  <2>1. /\ Usable(p) /\ fds' = fds \ {proc[p].fd[s] : s \in Streams} /\ UNCHANGED <<pipes, leaked>>
        /\ proc' = [proc EXCEPT ![p] = Nothing]
    BY <1>3 DEF join, kill, Forget
  <2>2. Ends(p) = {}
    BY <2>1 DEF Usable, MainFree
  <2>3. proc'[p] = Nothing /\ \A q \in Processes : q # p => proc'[q] = proc[q]
    BY <1>1, <2>1
  <2>4. \A s \in Streams : proc'[p].fd[s] = 0
    BY <2>3 DEF Nothing
  <2> QED BY <2>1, <2>2, <2>3, <2>4 DEF Closes
<1>4. ASSUME UNCHANGED <<fds, pipes, leaked>>,
             \A q \in Processes : proc'[q].fd = proc[q].fd /\ (proc'[q].pid = 0 => proc[q].pid = 0)
      PROVE  FdInv'
  <2>1. \A q \in Processes : Held(q)' = Held(q) /\ Ends(q)' = Ends(q) /\ Fds(q)' = Fds(q)
    BY <1>4 DEF Held, Ends, Fds
  <2>2. FdTyped'
    BY <1>4 DEF FdTyped, FdInv
  <2>3. OwnEnds'
    BY <1>4, <2>1 DEF OwnEnds, FdInv
  <2>4. FdsOwned'
    BY <1>4, <2>1 DEF FdsOwned, FdInv
  <2> QED BY <2>2, <2>3, <2>4 DEF FdInv
<1>5. ASSUME NEW p \in Processes, start(p) PROVE FdInv'
  <2>1. PICK pid \in NewPid : proc' = [proc EXCEPT ![p].pid = pid]
    BY <1>5 DEF start
  <2>2. pid # 0
    BY ProcessAssumption DEF NewPid
  <2>3. \A q \in Processes : proc'[q].fd = proc[q].fd /\ (proc'[q].pid = 0 => proc[q].pid = 0)
    BY <1>1, <2>1, <2>2 DEF ProcType
  <2> QED BY <1>4, <1>5, <2>3 DEF start
<1>6. ASSUME UNCHANGED <<proc, fds, pipes, leaked>> PROVE FdInv'
  BY <1>4, <1>6
<1>7. ASSUME Waits \/ (\E c \in DOMAIN children : Exit(c)) \/ UNCHANGED vars
      PROVE  UNCHANGED <<proc, fds, pipes, leaked>>
  BY <1>7 DEF Waits, waitNone, waitSome, waitInterrupted, woken, waitid, waitFound, waitOther,
              Spurious, interrupt, Exit, vars
<1> QED BY <1>2, <1>3, <1>5, <1>6, <1>7, FdOpen, FdFork, FdFails, FdCloses DEF Next, Proceed, Waits

-----------------------------------------------------------------------------
\* The inductive invariant.
ProcessInv == WaitInv /\ FdInv

\* It holds in every reachable state.
THEOREM Invariance == Spec => []ProcessInv
<1>1. Init => ProcessInv
  BY WaitInitially, FdInitially DEF ProcessInv
<1>2. ProcessInv /\ [Next]_vars => ProcessInv'
  BY WaitStep, FdStep DEF ProcessInv, FdInv
<1> QED BY <1>1, <1>2, PTL DEF Spec

\* Every child is that of one Process or of interrupt(), every descriptor is in one place, and
\* what wait() returned is over (Process.cpp 266-320, 353-380, 436-463, 616-692, 778-792,
\* 1279-1337, 1350-1375).
THEOREM AllAccountedFor == Spec => []ProcessExact
<1>1. ProcessInv => ProcessExact
  BY DEF ProcessInv, WaitInv, FdInv, ChildrenOwned, ToldSound, Over, FdsOwned, Fds, ProcessExact
<1> QED BY <1>1, Invariance, PTL

\* A wait() that interrupt() was called for has something to wake it, whenever the call came
\* (Process.cpp 1279-1337, 1350-1375).
THEOREM InterruptIsHeard == Spec => []InterruptHeard
<1>1. ProcessInv => InterruptHeard
  <2> SUFFICES ASSUME WaitInv PROVE InterruptHeard
    BY DEF ProcessInv
  <2>1. main = Idle => main.at = "idle"
    BY DEF Idle
  <2>2. main.at = "waitid" => signaled # Flag
    BY DEF WaitInv, Handshake
  <2>3. signaled # 0 /\ signaled # Flag => signaled \in Pids
    BY DEF WaitInv, WaitTyped
  <2>4. signaled \in Pids => signaled \in DOMAIN children /\ children[signaled] = "over"
    BY DEF WaitInv, ChildrenOwned
  <2> QED BY <2>1, <2>2, <2>3, <2>4 DEF InterruptHeard, WaitInv, Handshake
<1> QED BY <1>1, Invariance, PTL
=============================================================================
