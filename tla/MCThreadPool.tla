---------------------------- MODULE MCThreadPool ----------------------------
(***************************************************************************)
(* ThreadPool for TLC: two clients, and a context for each worker that     *)
(* sleeps in the beginning and for each job.                               *)
(***************************************************************************)
EXTENDS ThreadPool, TLC

\* Clients are interchangeable, and so are contexts (for invariants).
Symmetry == Permutations(Clients) \cup Permutations(Contexts)

\* They are for EveryJobRuns too, but TLC must not use the symmetry there. So the same client
\* calls first in every behaviour, and contexts are taken in a fixed order, the first free one
\* each time; every other behaviour is one of these with the names exchanged.
Rank == CHOOSE rank \in [Contexts -> 1 .. Cardinality(Contexts)] :
          \A x, y \in Contexts : rank[x] = rank[y] => x = y
First(x, free) == x \in free /\ \A y \in free : Rank[x] <= Rank[y]

InOrder ==
  \A c \in Clients :
    /\ context'[c] \in Contexts /\ context[c] = NoContext => First(context'[c], Contexts \ Reaped)
    /\ calls = 0 /\ pc'[c] # pc[c] => c = CHOOSE first \in Clients : TRUE

OrderedInit == Init /\ \A x \in threads : Rank[x] <= WarmWorkers
OrderedSpec == OrderedInit /\ [][Next]_vars /\ Fairness
=============================================================================
