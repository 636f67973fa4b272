--------------------------- MODULE Callback_proofs ---------------------------
(***************************************************************************)
(* Proofs about Callback, for any number of emitters, listeners, signals   *)
(* and slots, and emit() calls nested to any depth.                        *)
(* EmitInv holds in every history: what the frames of emit() and the lists *)
(* of slots know of each other. LinkInv adds that the two ends agree, as   *)
(* long as no slot was connected twice (~ambiguous).                       *)
(***************************************************************************)
EXTENDS Callback, FiniteSetTheorems, SequenceTheorems, WellFoundedInduction, TLAPS

\* A Slot, a Listener::Signal and a SignalActivation with its iterator.
NodeType == [id : 1 .. MaxSlots, receiver : Listeners, slot : SlotFns,
             state : {"connected", "connecting", "disconnected"}]

\* The rest of the types: what a listener knows of a slot, and an emit() in progress.
EntryType == [signal : Signals, slot : SlotFns]
FrameType == [key : Keys, next : Nat, invalidated : BOOLEAN, i : 0 .. MaxSlots, calling : BOOLEAN,
              called : SUBSET (1 .. MaxSlots), snapshot : SUBSET (1 .. MaxSlots)]

\* The types of the variables.
Typed == /\ emitters \subseteq Emitters /\ listeners \subseteq Listeners
         /\ slots \in [Keys -> Seq(NodeType)]
         /\ activation \in [Keys -> Nat]
         /\ dirty \in [Keys -> BOOLEAN]
         /\ slotData \in [Listeners -> [Emitters -> Seq(EntryType)]]
         /\ stack \in Seq(FrameType)

\* The nodes of a list are distinct.
IdsUnique == \A k \in Keys : \A i, j \in DOMAIN slots[k] : slots[k][i].id = slots[k][j].id => i = j

\* The emitter of the signal is there.
Live(k) == k[1] \in emitters

\* The frames of a signal are linked by next, the innermost one first, and only the innermost
\* frame of all may be outside a slot, with its emitter there.
Chain ==
  /\ \A p \in DOMAIN stack :
       /\ p < Len(stack) => stack[p].calling
       /\ stack[p].next < p
       /\ stack[p].next # 0 => stack[stack[p].next].key = stack[p].key
       /\ \A q \in DOMAIN stack : q < p /\ stack[q].key = stack[p].key => q <= stack[p].next
  /\ ~UserCode => Live(Top.key)

\* The activation pointers, and what the frames know of a deleted emitter.
Activations ==
  \A k \in Keys :
    /\ Live(k) => /\ activation[k] \in 0 .. Len(stack)
                  /\ activation[k] # 0 => stack[activation[k]].key = k
                  /\ \A p \in DOMAIN stack : stack[p].key = k => p <= activation[k] /\ ~stack[p].invalidated
    /\ ~Live(k) => /\ activation[k] = 0 /\ slots[k] = <<>> /\ ~dirty[k]
                   /\ \A p \in DOMAIN stack :
                        /\ stack[p].key = k
                        /\ \A q \in DOMAIN stack : stack[q].key = k => q <= p
                        => stack[p].invalidated

\* The loop of emit() f has come past the j-th node of its list.
Passed(f, list, j) ==
  f.i # End => \E m \in DOMAIN list : list[m].id = f.i /\ (j < m \/ (j = m /\ f.calling))

\* What the loop of emit() f has done so far with the nodes of its list.
LoopOk(f, list) ==
  /\ f.calling => f.i # End
  /\ f.i # End => \E j \in DOMAIN list : list[j].id = f.i
  /\ \A j \in DOMAIN list : list[j].state = "connected" => list[j].id \in f.snapshot
  /\ \A c \in f.called : \E j \in DOMAIN list : list[j].id = c /\ Passed(f, list, j)
  /\ \A j \in DOMAIN list : list[j].state = "connected" /\ Passed(f, list, j) => list[j].id \in f.called

\* So it is for every emit() whose list is still there.
Loops == \A p \in DOMAIN stack : Live(stack[p].key) => LoopOk(stack[p], slots[stack[p].key])

\* A signal with slots to settle is dirty, and dirty only while it is emitted.
Dirt == \A k \in Keys :
  /\ ~dirty[k] => \A i \in DOMAIN slots[k] : slots[k][i].state = "connected"
  /\ activation[k] = 0 => ~dirty[k]

\* What keeps emit() sound.
EmitInv == Typed /\ IdsUnique /\ Chain /\ Activations /\ Loops /\ Dirt

-----------------------------------------------------------------------------
(* Numbers, lists and loops.                                               *)

\* A set of numbers that is not empty has a least one.
LEMMA Least ==
  ASSUME NEW T, T \subseteq Nat, T # {} PROVE \E x \in T : \A y \in T : x <= y
<1>1. PICK x \in T : \A y \in T : ~ (<<y, x>> \in OpToRel(<, Nat))
  BY NatLessThanWellFounded, WFMin
<1>2. ASSUME NEW y \in T PROVE x <= y
  <2>1. x \in Nat /\ y \in Nat
    OBVIOUS
  <2>2. ~(y < x)
    BY <1>1, <2>1 DEF OpToRel
  <2> QED BY <2>1, <2>2
<1> QED BY <1>2

\* What holds at first and after each turn of a loop holds at its end.
LEMMA Induct ==
  ASSUME NEW N \in Nat, NEW T, 0 \in T, \A n \in 1 .. N : n - 1 \in T => n \in T
  PROVE  N \in T
<1> DEFINE B == {n \in 0 .. N : n \notin T}
<1>1. CASE B = {}
  BY <1>1
<1>2. CASE B # {}
  <2>1. PICK m \in B : \A n \in B : m <= n
    <3>1. B \subseteq Nat
      OBVIOUS
    <3> HIDE DEF B
    <3> QED BY <1>2, <3>1, Least
  <2>2. m \in 1 .. N /\ m \notin T
    BY <2>1
  <2>3. m - 1 \in 0 .. N /\ m - 1 \notin B
    BY <2>1, <2>2
  <2> QED BY <2>2, <2>3
<1> QED BY <1>1, <1>2

\* h[n] is what N turns of a loop have made of base after n of them; G is the n-th turn.
IsLoop(h, S, base, N, G) ==
  h \in [0 .. N -> S] /\ h[0] = base /\ \A n \in 1 .. N : h[n] = G[<<n, h[n - 1]>>]

\* G is a turn of a loop on the members of S.
IsTurn(G, S, N) == G \in [(1 .. N) \X S -> S]

\* A loop computes something.
LEMMA LoopExists ==
  ASSUME NEW S, NEW base \in S, NEW N \in Nat, NEW G, IsTurn(G, S, N)
  PROVE  \E h : IsLoop(h, S, base, N, G)
<1> USE DEF IsTurn
<1> DEFINE Has(m) == \E h \in [0 .. m -> S] : h[0] = base /\ \A n \in 1 .. m : h[n] = G[<<n, h[n - 1]>>]
<1> DEFINE T == {m \in 0 .. N : Has(m)}
<1>1. 0 \in T
  <2>1. [m \in 0 .. 0 |-> base] \in [0 .. 0 -> S] /\ [m \in 0 .. 0 |-> base][0] = base
    OBVIOUS
  <2>2. 1 .. 0 = {}
    OBVIOUS
  <2>3. Has(0)
    BY <2>1, <2>2
  <2> QED BY <2>3
<1>2. ASSUME NEW n \in 1 .. N, n - 1 \in T PROVE n \in T
  <2>1. PICK h \in [0 .. n - 1 -> S] : h[0] = base /\ \A j \in 1 .. n - 1 : h[j] = G[<<j, h[j - 1]>>]
    BY <1>2
  <2> DEFINE g == [j \in 0 .. n |-> IF j = n THEN G[<<n, h[n - 1]>>] ELSE h[j]]
  <2>2. h[n - 1] \in S
    BY <2>1
  <2>3. G[<<n, h[n - 1]>>] \in S
    BY <2>2
  <2>4. g \in [0 .. n -> S]
    BY <2>1, <2>3
  <2>5. g[0] = base
    BY <2>1
  <2>6. ASSUME NEW j \in 1 .. n PROVE g[j] = G[<<j, g[j - 1]>>]
    <3>1. j - 1 \in 0 .. n /\ j - 1 # n /\ j \in 0 .. n
      OBVIOUS
    <3>2. g[j - 1] = h[j - 1]
      BY <3>1
    <3>3. CASE j = n
      BY <3>1, <3>2, <3>3
    <3>4. CASE j # n
      <4>1. j \in 1 .. n - 1
        BY <3>4
      <4> QED BY <2>1, <3>1, <3>2, <3>4, <4>1
    <3> QED BY <3>3, <3>4
  <2>7. Has(n)
    <3> HIDE DEF g
    <3> QED BY <2>4, <2>5, <2>6
  <2> QED BY <2>7
<1> HIDE DEF T
<1>3. N \in T
  BY <1>1, <1>2, Induct
<1> QED BY <1>3 DEF T, IsLoop

\* List::remove, as the elements see it.
LEMMA RemoveAtElements ==
  ASSUME NEW T, NEW s \in Seq(T), NEW k \in DOMAIN s
  PROVE  /\ RemoveAt(s, k) \in Seq(T)
         /\ Len(RemoveAt(s, k)) = Len(s) - 1
         /\ \A i \in 1 .. Len(s) - 1 : RemoveAt(s, k)[i] = IF i < k THEN s[i] ELSE s[i + 1]
<1>1. Len(s) \in Nat /\ k \in 1 .. Len(s) /\ DOMAIN s = 1 .. Len(s)
  OBVIOUS
<1>2. SubSeq(s, 1, k - 1) \in Seq(T) /\ Len(SubSeq(s, 1, k - 1)) = k - 1
  BY <1>1
<1>3. SubSeq(s, k + 1, Len(s)) \in Seq(T) /\ Len(SubSeq(s, k + 1, Len(s))) = Len(s) - k
  BY <1>1
<1>4. \A i \in 1 .. k - 1 : SubSeq(s, 1, k - 1)[i] = s[i]
  BY <1>1
<1>5. \A i \in 1 .. Len(s) - k : SubSeq(s, k + 1, Len(s))[i] = s[i + k]
  BY <1>1
<1> DEFINE a == SubSeq(s, 1, k - 1)
           b == SubSeq(s, k + 1, Len(s))
<1>6. RemoveAt(s, k) = a \o b
  BY DEF RemoveAt
<1> HIDE DEF a, b
<1>7. a \in Seq(T) /\ b \in Seq(T) /\ Len(a) = k - 1 /\ Len(b) = Len(s) - k
  BY <1>2, <1>3 DEF a, b
<1>8. /\ a \o b \in Seq(T) /\ Len(a \o b) = Len(s) - 1
      /\ \A i \in 1 .. Len(s) - 1 : (a \o b)[i] = IF i < k THEN a[i] ELSE b[i - (k - 1)]
  <2>1. /\ a \o b \in Seq(T) /\ Len(a \o b) = Len(a) + Len(b)
        /\ \A i \in 1 .. Len(a) + Len(b) :
             (a \o b)[i] = IF i <= Len(a) THEN a[i] ELSE b[i - Len(a)]
    BY <1>7, ConcatProperties
  <2>2. Len(a) + Len(b) = Len(s) - 1
    BY <1>1, <1>7
  <2> QED BY <1>1, <1>7, <2>1, <2>2
<1>9. ASSUME NEW i \in 1 .. Len(s) - 1
      PROVE  (a \o b)[i] = IF i < k THEN s[i] ELSE s[i + 1]
  <2>1. CASE i < k
    <3>1. i \in 1 .. k - 1
      BY <1>1, <2>1
    <3> QED BY <1>4, <1>8, <2>1, <3>1 DEF a
  <2>2. CASE ~(i < k)
    <3>1. i - (k - 1) \in 1 .. Len(s) - k /\ (i - (k - 1)) + k = i + 1
      BY <1>1, <2>2
    <3> QED BY <1>5, <1>8, <2>2, <3>1 DEF b
  <2> QED BY <2>1, <2>2
<1> QED BY <1>6, <1>8, <1>9

\* No node of the list is that of slot f of l, or the i-th is the first one that is.
NoMatch(list, l, f) == \A i \in DOMAIN list : ~Matches(list[i], l, f)
FirstMatch(list, i, l, f) ==
  i \in DOMAIN list /\ Matches(list[i], l, f) /\ \A j \in DOMAIN list : j < i => ~Matches(list[j], l, f)

\* The i-th node marked while its signal is emitted, to be removed later.
MarkAt(list, i) == [list EXCEPT ![i].state = "disconnected"]

\* What Unlink does to a list.
LEMMA UnlinkCases ==
  ASSUME NEW k, NEW list \in Seq(NodeType), NEW l, NEW f
  PROVE  \/ NoMatch(list, l, f) /\ Unlink(k, list, l, f) = list
         \/ \E i : /\ FirstMatch(list, i, l, f)
                   /\ activation[k] # 0 => Unlink(k, list, l, f) = MarkAt(list, i)
                   /\ activation[k] = 0 => Unlink(k, list, l, f) = RemoveAt(list, i)
<1> DEFINE I == {i \in 1 .. Len(list) : Matches(list[i], l, f)}
<1> DEFINE i == IF I # {} THEN Min(I) ELSE 0
<1>1. SelectInSeq(list, LAMBDA n : Matches(n, l, f)) = i
  BY DEF SelectInSeq
<1>2. DOMAIN list = 1 .. Len(list) /\ Len(list) \in Nat
  OBVIOUS
<1>3. CASE I = {}
  <2>1. Unlink(k, list, l, f) = list
    BY <1>1, <1>3 DEF Unlink
  <2> QED BY <1>2, <1>3, <2>1 DEF NoMatch
<1>4. CASE I # {}
  <2>1. PICK x \in I : \A y \in I : x <= y
    <3>1. I \subseteq Nat
      OBVIOUS
    <3> HIDE DEF I
    <3> QED BY <1>4, <3>1, Least
  <2>2. i \in I /\ \A y \in I : i <= y
    <3>1. i = Min(I)
      BY <1>4
    <3> HIDE DEF I, i
    <3> QED BY <2>1, <3>1 DEF Min
  <2>3. i \in DOMAIN list /\ Matches(list[i], l, f) /\ i # 0
    BY <1>2, <2>2
  <2>4. ASSUME NEW j \in DOMAIN list, j < i PROVE ~Matches(list[j], l, f)
    <3>1. j \in Nat /\ i \in Nat
      BY <1>2, <2>3
    <3>2. ~(i <= j)
      BY <2>4, <3>1
    <3> HIDE DEF i
    <3> QED BY <1>2, <2>2, <3>2
  <2>5. Unlink(k, list, l, f) =
          IF activation[k] # 0 THEN [list EXCEPT ![i].state = "disconnected"] ELSE RemoveAt(list, i)
    <3> HIDE DEF i
    <3> QED BY <1>1, <2>3 DEF Unlink
  <2> HIDE DEF i, I
  <2> QED BY <2>3, <2>4, <2>5 DEF FirstMatch, MarkAt
<1> QED BY <1>3, <1>4

\* ~Listener, as a loop.
LEMMA UnlinkedLoop ==
  ASSUME NEW k \in Keys, NEW l \in Listeners, slots[k] \in Seq(NodeType),
         slotData[l][k[1]] \in Seq(EntryType),
         \A list \in Seq(NodeType), f \in SlotFns : Unlink(k, list, l, f) \in Seq(NodeType)
  PROVE  \E h \in [0 .. Len(slotData[l][k[1]]) -> Seq(NodeType)] :
           /\ h[0] = slots[k]
           /\ \A n \in 1 .. Len(slotData[l][k[1]]) :
                h[n] = IF slotData[l][k[1]][n].signal = k[2]
                       THEN Unlink(k, h[n - 1], l, slotData[l][k[1]][n].slot) ELSE h[n - 1]
           /\ Unlinked(k, l) = h[Len(slotData[l][k[1]])]
<1> DEFINE es == slotData[l][k[1]]
           N == Len(es)
           S == Seq(NodeType)
           step(n, list) == IF es[n].signal = k[2] THEN Unlink(k, list, l, es[n].slot) ELSE list
           G == [x \in (1 .. N) \X S |-> step(x[1], x[2])]
           rec(h) == [n \in 0 .. N |-> IF n = 0 THEN slots[k] ELSE step(n, h[n - 1])]
<1>1. N \in Nat /\ \A n \in 1 .. N : es[n].slot \in SlotFns
  <2>1. es \in Seq(EntryType)
    OBVIOUS
  <2>2. N \in Nat /\ \A n \in 1 .. N : es[n] \in EntryType
    <3> HIDE DEF es
    <3> QED BY <2>1
  <2> HIDE DEF es, N
  <2> QED BY <2>2 DEF EntryType
<1>2. ASSUME NEW n \in 1 .. N, NEW list \in S PROVE step(n, list) \in S
  BY <1>1
<1>3. IsTurn(G, S, N)
  <2> HIDE DEF step, N, S
  <2>1. \A x \in (1 .. N) \X S : step(x[1], x[2]) \in S
    BY <1>2
  <2> QED BY <2>1 DEF IsTurn
<1>4. \A n \in 1 .. N, list \in S : G[<<n, list>>] = step(n, list)
  <2> HIDE DEF step, N, S
  <2> QED OBVIOUS
<1> HIDE DEF step, N, S, G
<1>5. PICK g : IsLoop(g, S, slots[k], N, G)
  <2>1. slots[k] \in S
    BY DEF S
  <2>2. N \in Nat
    BY <1>1
  <2> QED BY <1>3, <2>1, <2>2, LoopExists
<1>6. ASSUME NEW n \in 1 .. N PROVE g[n] = step(n, g[n - 1])
  <2>1. n - 1 \in 0 .. N
    BY <1>1
  <2>2. g[n - 1] \in S
    BY <1>5, <2>1 DEF IsLoop
  <2> QED BY <1>4, <1>5, <2>2 DEF IsLoop
<1>7. g = rec(g)
  BY <1>1, <1>5, <1>6 DEF IsLoop
<1> DEFINE h == CHOOSE h : h = rec(h)
<1>8. h = rec(h)
  <2> HIDE DEF rec
  <2> QED BY <1>7
<1>9. Unlinked(k, l) = h[N]
  BY DEF Unlinked, N, step
<1> HIDE DEF h
<1>10. h[0] = slots[k] /\ \A n \in 1 .. N : h[n] = step(n, h[n - 1])
  BY <1>1, <1>8
<1>11. h \in [0 .. N -> S]
  <2> DEFINE T == {n \in 0 .. N : h[n] \in S}
  <2>1. 0 \in T
    BY <1>1, <1>10 DEF S
  <2>2. \A n \in 1 .. N : n - 1 \in T => n \in T
    BY <1>1, <1>2, <1>10
  <2>3. ASSUME NEW m \in 0 .. N PROVE m \in T
    <3>1. m \in Nat /\ \A n \in 1 .. m : n \in 1 .. N
      BY <1>1
    <3> HIDE DEF T
    <3> QED BY <2>1, <2>2, <3>1, Induct
  <2>4. DOMAIN h = 0 .. N /\ h = [n \in 0 .. N |-> h[n]]
    BY <1>8
  <2> QED BY <2>3, <2>4
<1> QED BY <1>9, <1>10, <1>11 DEF N, S, step

-----------------------------------------------------------------------------
(* What happens to a list of slots.                                        *)

\* Nodes are numbered differently.
Unique(list) == \A i, j \in DOMAIN list : list[i].id = list[j].id => i = j

\* No node comes or goes; some are disconnected.
Marked(old, new) ==
  /\ new \in Seq(NodeType) /\ Len(new) = Len(old)
  /\ \A i \in DOMAIN old : /\ new[i].id = old[i].id
                           /\ new[i].receiver = old[i].receiver /\ new[i].slot = old[i].slot
                           /\ new[i].state = old[i].state \/ new[i].state = "disconnected"

\* Some nodes go.
Pruned(old, new) ==
  /\ new \in Seq(NodeType) /\ Len(new) <= Len(old) /\ Unique(new)
  /\ \A i \in DOMAIN new : \E j \in DOMAIN old : new[i] = old[j]

\* Unlink in a list that is iterated over.
LEMMA UnlinkMarks ==
  ASSUME NEW k, NEW list \in Seq(NodeType), NEW l, NEW f, activation[k] # 0
  PROVE  Marked(list, Unlink(k, list, l, f))
<1>1. CASE Unlink(k, list, l, f) = list
  BY <1>1 DEF Marked
<1>2. ASSUME NEW i \in DOMAIN list, Unlink(k, list, l, f) = MarkAt(list, i)
      PROVE  Marked(list, Unlink(k, list, l, f))
  <2> DEFINE node == [list[i] EXCEPT !.state = "disconnected"]
             new == [list EXCEPT ![i] = node]
  <2>1. list[i] \in NodeType /\ DOMAIN list = 1 .. Len(list) /\ Len(list) \in Nat
    OBVIOUS
  <2>2. /\ node \in NodeType /\ node.state = "disconnected" /\ node.id = list[i].id
        /\ node.receiver = list[i].receiver /\ node.slot = list[i].slot
    BY <2>1 DEF NodeType
  <2>3. Unlink(k, list, l, f) = new
    BY <1>2 DEF MarkAt
  <2> HIDE DEF node
  <2>4. new \in Seq(NodeType) /\ Len(new) = Len(list) /\ DOMAIN new = DOMAIN list
        /\ \A j \in DOMAIN list : new[j] = IF j = i THEN node ELSE list[j]
    BY <2>1, <2>2
  <2> HIDE DEF new
  <2> QED BY <2>2, <2>3, <2>4 DEF Marked
<1>3. \A i : FirstMatch(list, i, l, f) => i \in DOMAIN list
  BY DEF FirstMatch
<1> QED BY <1>1, <1>2, <1>3, UnlinkCases

\* Unlink in a list that is not iterated over.
LEMMA UnlinkPrunes ==
  ASSUME NEW k, NEW list \in Seq(NodeType), NEW l, NEW f, activation[k] = 0, Unique(list)
  PROVE  Pruned(list, Unlink(k, list, l, f))
<1>1. CASE Unlink(k, list, l, f) = list
  BY <1>1 DEF Pruned
<1>2. ASSUME NEW i \in DOMAIN list, Unlink(k, list, l, f) = RemoveAt(list, i)
      PROVE  Pruned(list, Unlink(k, list, l, f))
  <2> DEFINE new == RemoveAt(list, i)
  <2>1. /\ new \in Seq(NodeType) /\ Len(new) = Len(list) - 1
        /\ \A j \in 1 .. Len(list) - 1 : new[j] = IF j < i THEN list[j] ELSE list[j + 1]
    BY RemoveAtElements
  <2> HIDE DEF new
  <2>2. Len(list) \in Nat /\ DOMAIN list = 1 .. Len(list) /\ DOMAIN new = 1 .. Len(list) - 1 /\ i \in 1 .. Len(list)
    BY <2>1
  <2>3. Unique(new)
    <3> SUFFICES ASSUME NEW a \in DOMAIN new, NEW b \in DOMAIN new, new[a].id = new[b].id PROVE a = b
      BY DEF Unique
    <3> DEFINE old(j) == IF j < i THEN j ELSE j + 1
    <3>1. old(a) \in DOMAIN list /\ old(b) \in DOMAIN list /\ new[a] = list[old(a)] /\ new[b] = list[old(b)]
      BY <2>1, <2>2
    <3>2. old(a) = old(b)
      <4> HIDE DEF old
      <4> QED BY <3>1 DEF Unique
    <3> QED BY <2>2, <3>2
  <2>4. ASSUME NEW a \in DOMAIN new PROVE \E j \in DOMAIN list : new[a] = list[j]
    <3> DEFINE j == IF a < i THEN a ELSE a + 1
    <3>1. j \in 1 .. Len(list)
      BY <2>2
    <3>2. new[a] = list[j]
      BY <2>1, <2>2
    <3> HIDE DEF j
    <3> QED BY <2>2, <3>1, <3>2
  <2> QED BY <1>2, <2>1, <2>2, <2>3, <2>4 DEF Pruned, new
<1>3. \A i : FirstMatch(list, i, l, f) => i \in DOMAIN list
  BY DEF FirstMatch
<1> QED BY <1>1, <1>2, <1>3, UnlinkCases

\* ~Listener in a list of its own.
LEMMA UnlinkedLists ==
  ASSUME Typed, IdsUnique, NEW k \in Keys, NEW l \in Listeners
  PROVE  /\ activation[k] # 0 => Marked(slots[k], Unlinked(k, l))
         /\ activation[k] = 0 => Pruned(slots[k], Unlinked(k, l))
         /\ (\A f \in SlotFns : HasEntry(l, k, f) => ~Present(k, l, f)) => Unlinked(k, l) = slots[k]
<1> DEFINE es == slotData[l][k[1]]
           N == Len(es)
           list0 == slots[k]
<1>1. list0 \in Seq(NodeType) /\ es \in Seq(EntryType) /\ Unique(list0)
  BY DEF Typed, Keys, IdsUnique, Unique
<1>2. ASSUME NEW list \in Seq(NodeType), NEW f \in SlotFns PROVE Unlink(k, list, l, f) \in Seq(NodeType)
  <2>1. CASE activation[k] # 0
    BY <2>1, UnlinkMarks DEF Marked
  <2>2. CASE activation[k] = 0
    <3>1. CASE Unlink(k, list, l, f) = list
      BY <3>1
    <3>2. ASSUME NEW i \in DOMAIN list, Unlink(k, list, l, f) = RemoveAt(list, i)
          PROVE  Unlink(k, list, l, f) \in Seq(NodeType)
      BY <3>2, RemoveAtElements
    <3>3. \A i : FirstMatch(list, i, l, f) => i \in DOMAIN list
      BY DEF FirstMatch
    <3> QED BY <2>2, <3>1, <3>2, <3>3, UnlinkCases
  <2> QED BY <2>1, <2>2
<1>3. PICK h \in [0 .. N -> Seq(NodeType)] :
           /\ h[0] = list0
           /\ \A n \in 1 .. N : h[n] = IF es[n].signal = k[2] THEN Unlink(k, h[n - 1], l, es[n].slot) ELSE h[n - 1]
           /\ Unlinked(k, l) = h[N]
  BY <1>1, <1>2, UnlinkedLoop
<1>4. N \in Nat /\ \A n \in 1 .. N : es[n] \in EntryType /\ n \in DOMAIN es
  BY <1>1
<1> HIDE DEF N, es, list0
<1>5. ASSUME NEW n \in 1 .. N
      PROVE  /\ es[n].slot \in SlotFns
             /\ es[n].signal = k[2] => es[n] = [signal |-> k[2], slot |-> es[n].slot]
             /\ n - 1 \in 0 .. N /\ h[n - 1] \in Seq(NodeType) /\ h[n] \in Seq(NodeType)
  BY <1>3, <1>4 DEF EntryType
<1>6. ASSUME activation[k] # 0 PROVE Marked(list0, h[N])
  <2> DEFINE T == {n \in 0 .. N : Marked(list0, h[n])}
  <2>1. 0 \in T
    BY <1>1, <1>3, <1>4 DEF Marked
  <2>2. ASSUME NEW n \in 1 .. N, n - 1 \in T PROVE n \in T
    <3>1. Marked(list0, h[n - 1])
      BY <2>2
    <3>2. Marked(h[n - 1], h[n])
      <4>1. CASE es[n].signal = k[2]
        <5>1. h[n] = Unlink(k, h[n - 1], l, es[n].slot) /\ h[n - 1] \in Seq(NodeType)
          BY <1>3, <1>5, <4>1
        <5> QED BY <1>6, <5>1, UnlinkMarks
      <4>2. CASE es[n].signal # k[2]
        BY <1>3, <1>5, <4>2 DEF Marked
      <4> QED BY <4>1, <4>2
    <3>3. Marked(list0, h[n])
      <4>1. DOMAIN list0 = 1 .. Len(list0) /\ DOMAIN h[n - 1] = 1 .. Len(h[n - 1])
        BY <1>1, <1>5
      <4> QED BY <3>1, <3>2, <4>1 DEF Marked
    <3> QED BY <1>4, <3>3
  <2> HIDE DEF T
  <2>3. N \in T
    BY <1>4, <2>1, <2>2, Induct
  <2> QED BY <2>3 DEF T
<1>7. ASSUME activation[k] = 0 PROVE Pruned(list0, h[N])
  <2> DEFINE T == {n \in 0 .. N : Pruned(list0, h[n])}
  <2>1. 0 \in T
    BY <1>1, <1>3, <1>4 DEF Pruned
  <2>2. ASSUME NEW n \in 1 .. N, n - 1 \in T PROVE n \in T
    <3>1. Pruned(list0, h[n - 1])
      BY <2>2
    <3>2. Pruned(h[n - 1], h[n])
      <4>0. Unique(h[n - 1])
        BY <3>1 DEF Pruned
      <4>1. CASE es[n].signal = k[2]
        <5>1. h[n] = Unlink(k, h[n - 1], l, es[n].slot) /\ h[n - 1] \in Seq(NodeType)
          BY <1>3, <1>5, <4>1
        <5> QED BY <1>7, <4>0, <5>1, UnlinkPrunes
      <4>2. CASE es[n].signal # k[2]
        BY <1>3, <1>5, <4>0, <4>2 DEF Pruned
      <4> QED BY <4>1, <4>2
    <3>3. Pruned(list0, h[n])
      <4>1. Len(list0) \in Nat /\ Len(h[n - 1]) \in Nat /\ Len(h[n]) \in Nat
        BY <1>1, <1>5
      <4>2. Len(h[n]) <= Len(list0)
        BY <3>1, <3>2, <4>1 DEF Pruned
      <4>3. \A i \in DOMAIN h[n] : \E j \in DOMAIN list0 : h[n][i] = list0[j]
        BY <3>1, <3>2 DEF Pruned
      <4> QED BY <3>2, <4>2, <4>3 DEF Pruned
    <3> QED BY <1>4, <3>3
  <2> HIDE DEF T
  <2>3. N \in T
    BY <1>4, <2>1, <2>2, Induct
  <2> QED BY <2>3 DEF T
<1>8. ASSUME \A f \in SlotFns : HasEntry(l, k, f) => ~Present(k, l, f) PROVE h[N] = list0
  <2> DEFINE T == {n \in 0 .. N : h[n] = list0}
  <2>1. 0 \in T
    BY <1>3, <1>4
  <2>2. ASSUME NEW n \in 1 .. N, n - 1 \in T PROVE n \in T
    <3>1. h[n - 1] = list0
      BY <2>2
    <3>2. CASE es[n].signal = k[2]
      <4>1. HasEntry(l, k, es[n].slot)
        BY <1>4, <1>5, <3>2 DEF HasEntry, es
      <4>2. \A i \in DOMAIN list0 : ~Matches(list0[i], l, es[n].slot)
        BY <1>5, <1>8, <4>1 DEF Present, list0
      <4>3. Unlink(k, list0, l, es[n].slot) = list0
        <5>1. \A i : ~FirstMatch(list0, i, l, es[n].slot)
          BY <4>2 DEF FirstMatch
        <5> QED BY <1>1, <5>1, UnlinkCases
      <4> QED BY <1>3, <1>4, <3>1, <3>2, <4>3
    <3>3. CASE es[n].signal # k[2]
      BY <1>3, <1>4, <3>1, <3>3
    <3> QED BY <3>2, <3>3
  <2> HIDE DEF T
  <2>3. N \in T
    BY <1>4, <2>1, <2>2, Induct
  <2> QED BY <2>3 DEF T
<1> QED BY <1>3, <1>6, <1>7, <1>8 DEF list0

\* A node when it has settled.
Connected(n) == [n EXCEPT !.state = "connected"]

\* ~SignalActivation, as a loop.
LEMMA SettledLoop ==
  ASSUME NEW list \in Seq(NodeType)
  PROVE  \E h \in [0 .. Len(list) -> Seq(NodeType)] :
           /\ h[0] = <<>>
           /\ \A n \in 1 .. Len(list) :
                h[n] = IF list[n].state = "disconnected" THEN h[n - 1] ELSE Append(h[n - 1], Connected(list[n]))
           /\ Settled(list) = h[Len(list)]
<1> DEFINE N == Len(list)
           S == Seq(NodeType)
           step(n, a) == IF list[n].state = "disconnected" THEN a ELSE Append(a, Connected(list[n]))
           G == [x \in (1 .. N) \X S |-> step(x[1], x[2])]
           rec(h) == [n \in 0 .. N |-> IF n = 0 THEN <<>> ELSE step(n, h[n - 1])]
<1>1. N \in Nat /\ \A n \in 1 .. N : Connected(list[n]) \in NodeType
  <2>1. N \in Nat /\ \A n \in 1 .. N : list[n] \in NodeType
    OBVIOUS
  <2> HIDE DEF N
  <2> QED BY <2>1 DEF NodeType, Connected
<1>2. ASSUME NEW n \in 1 .. N, NEW a \in S PROVE step(n, a) \in S
  BY <1>1
<1>3. IsTurn(G, S, N)
  <2> HIDE DEF step, N, S
  <2>1. \A x \in (1 .. N) \X S : step(x[1], x[2]) \in S
    BY <1>2
  <2> QED BY <2>1 DEF IsTurn
<1>4. \A n \in 1 .. N, a \in S : G[<<n, a>>] = step(n, a)
  <2> HIDE DEF step, N, S
  <2> QED OBVIOUS
<1> HIDE DEF step, N, S, G
<1>5. PICK g : IsLoop(g, S, <<>>, N, G)
  <2>1. <<>> \in S
    BY DEF S
  <2>2. N \in Nat
    BY <1>1
  <2> QED BY <1>3, <2>1, <2>2, LoopExists
<1>6. ASSUME NEW n \in 1 .. N PROVE g[n] = step(n, g[n - 1])
  <2>1. n - 1 \in 0 .. N
    BY <1>1
  <2>2. g[n - 1] \in S
    BY <1>5, <2>1 DEF IsLoop
  <2> QED BY <1>4, <1>5, <2>2 DEF IsLoop
<1>7. g = rec(g)
  BY <1>1, <1>5, <1>6 DEF IsLoop
<1> DEFINE h == CHOOSE h : h = rec(h)
<1>8. h = rec(h)
  <2> HIDE DEF rec
  <2> QED BY <1>7
<1>9. Settled(list) = h[N]
  BY DEF Settled, N, step, Connected
<1> HIDE DEF h
<1>10. h[0] = <<>> /\ \A n \in 1 .. N : h[n] = step(n, h[n - 1])
  BY <1>1, <1>8
<1>11. h \in [0 .. N -> S]
  <2> DEFINE T == {n \in 0 .. N : h[n] \in S}
  <2>1. 0 \in T
    <3>1. <<>> \in S
      BY DEF S
    <3>2. 0 \in 0 .. N
      BY <1>1
    <3> QED BY <1>10, <3>1, <3>2
  <2>2. \A n \in 1 .. N : n - 1 \in T => n \in T
    BY <1>1, <1>2, <1>10
  <2>3. ASSUME NEW m \in 0 .. N PROVE m \in T
    <3>1. m \in Nat /\ \A n \in 1 .. m : n \in 1 .. N
      BY <1>1
    <3> HIDE DEF T
    <3> QED BY <2>1, <2>2, <3>1, Induct
  <2>4. DOMAIN h = 0 .. N /\ h = [n \in 0 .. N |-> h[n]]
    BY <1>8
  <2> QED BY <2>3, <2>4
<1> QED BY <1>9, <1>10, <1>11 DEF N, S, step

\* What is in a list that has settled.
LEMMA SettledList ==
  ASSUME NEW list \in Seq(NodeType), Unique(list)
  PROVE  /\ Settled(list) \in Seq(NodeType) /\ Unique(Settled(list))
         /\ \A i \in DOMAIN Settled(list) :
              /\ Settled(list)[i].state = "connected"
              /\ \E j \in DOMAIN list : list[j].state # "disconnected" /\ Settled(list)[i] = Connected(list[j])
<1> DEFINE N == Len(list)
<1>1. PICK h \in [0 .. N -> Seq(NodeType)] :
         /\ h[0] = <<>>
         /\ \A n \in 1 .. N :
              h[n] = IF list[n].state = "disconnected" THEN h[n - 1] ELSE Append(h[n - 1], Connected(list[n]))
         /\ Settled(list) = h[N]
  BY SettledLoop
<1>2. N \in Nat /\ DOMAIN list = 1 .. N /\ \A n \in 1 .. N : list[n] \in NodeType
  OBVIOUS
<1> HIDE DEF N
<1>3. \A n \in 1 .. N : Connected(list[n]).id = list[n].id /\ Connected(list[n]).state = "connected"
  BY <1>2 DEF NodeType, Connected
\* The nodes so far come from the nodes so far, and are connected.
<1> DEFINE From(n, x) == \E j \in 1 .. n : list[j].state # "disconnected" /\ x = Connected(list[j])
<1> DEFINE Good(n) == Unique(h[n]) /\ \A i \in DOMAIN h[n] : From(n, h[n][i])
<1> DEFINE T == {n \in 0 .. N : Good(n)}
<1>4. 0 \in T
  BY <1>1, <1>2 DEF Unique
<1>5. ASSUME NEW n \in 1 .. N, n - 1 \in T PROVE n \in T
  <2>1. n - 1 \in 0 .. N /\ h[n - 1] \in Seq(NodeType) /\ n \in 0 .. N
    BY <1>1, <1>2
  <2>2. Unique(h[n - 1]) /\ \A i \in DOMAIN h[n - 1] : From(n - 1, h[n - 1][i])
    BY <1>5
  <2>3. ASSUME NEW x, From(n - 1, x) PROVE From(n, x)
    <3>1. \A j \in 1 .. n - 1 : j \in 1 .. n
      BY <1>2
    <3> QED BY <2>3, <3>1
  <2>4. CASE list[n].state = "disconnected"
    <3>1. h[n] = h[n - 1]
      BY <1>1, <2>4
    <3> HIDE DEF From
    <3> QED BY <2>1, <2>2, <2>3, <3>1
  <2>5. CASE list[n].state # "disconnected"
    <3> DEFINE x == Connected(list[n])
               a == h[n - 1]
    <3>1. h[n] = Append(a, x)
      BY <1>1, <2>5
    <3>2. From(n, x)
      BY <1>2, <2>5
    <3>3. \A i \in DOMAIN a : a[i].id # x.id
      <4> SUFFICES ASSUME NEW i \in DOMAIN a, a[i].id = x.id PROVE FALSE
        OBVIOUS
      <4>1. PICK j \in 1 .. n - 1 : a[i] = Connected(list[j])
        BY <2>2
      <4>2. j \in 1 .. N /\ j # n
        BY <1>2
      <4>3. list[j].id = list[n].id
        BY <1>3, <4>1, <4>2
      <4> QED BY <1>2, <4>2, <4>3 DEF Unique
    <3> HIDE DEF x, From, a
    <3>4. a \in Seq(NodeType)
      BY <2>1 DEF a
    <3>5. /\ DOMAIN Append(a, x) = DOMAIN a \cup {Len(a) + 1} /\ Len(a) + 1 \notin DOMAIN a
          /\ \A i \in DOMAIN a : Append(a, x)[i] = a[i]
          /\ Append(a, x)[Len(a) + 1] = x
      BY <3>4
    <3>6. Unique(h[n])
      BY <2>2, <3>1, <3>3, <3>5 DEF Unique, a
    <3>7. \A i \in DOMAIN h[n] : From(n, h[n][i])
      BY <2>2, <2>3, <3>1, <3>2, <3>5 DEF a
    <3> QED BY <2>1, <3>6, <3>7
  <2> QED BY <2>4, <2>5
<1>6. Good(N)
  <2> HIDE DEF T, Good
  <2>1. N \in T
    BY <1>2, <1>4, <1>5, Induct
  <2> QED BY <2>1 DEF T
<1>7. h[N] \in Seq(NodeType)
  BY <1>1, <1>2
<1>8. ASSUME NEW i \in DOMAIN h[N]
      PROVE  /\ h[N][i].state = "connected"
             /\ \E j \in DOMAIN list : list[j].state # "disconnected" /\ h[N][i] = Connected(list[j])
  <2>1. From(N, h[N][i])
    BY <1>6
  <2>2. PICK j \in 1 .. N : list[j].state # "disconnected" /\ h[N][i] = Connected(list[j])
    BY <2>1
  <2> QED BY <1>2, <1>3, <2>2
<1>9. Unique(h[N])
  BY <1>6
<1> HIDE DEF Good
<1> QED BY <1>1, <1>7, <1>8, <1>9

\* connect() has a number for its node that no other node of the list has.
LEMMA FreeIdSound ==
  ASSUME MaxSlots \in Nat, NEW k, slots[k] \in Seq(NodeType), Len(slots[k]) < MaxSlots
  PROVE  FreeId(k) \in 1 .. MaxSlots /\ \A i \in DOMAIN slots[k] : slots[k][i].id # FreeId(k)
<1> DEFINE list == slots[k]
           used == {list[i].id : i \in DOMAIN list}
           free == 1 .. MaxSlots \ used
<1>1. Len(list) \in Nat /\ DOMAIN list = 1 .. Len(list) /\ \A i \in DOMAIN list : list[i] \in NodeType
  OBVIOUS
<1>2. free # {}
  <2> SUFFICES ASSUME free = {} PROVE FALSE
    OBVIOUS
  <2> DEFINE g == [i \in DOMAIN list |-> list[i].id]
  <2>1. \A i \in DOMAIN list : list[i].id \in 1 .. MaxSlots
    BY <1>1 DEF NodeType
  <2>2. g \in Surjection(DOMAIN list, 1 .. MaxSlots)
    <3>1. g \in [DOMAIN list -> 1 .. MaxSlots]
      BY <2>1
    <3>2. \A x \in 1 .. MaxSlots : \E i \in DOMAIN list : g[i] = x
      OBVIOUS
    <3> HIDE DEF g
    <3> QED BY <3>1, <3>2 DEF Surjection
  <2>3. IsFiniteSet(DOMAIN list) /\ Cardinality(DOMAIN list) = Len(list)
    BY <1>1, FS_Interval
  <2>4. Cardinality(1 .. MaxSlots) = MaxSlots
    BY FS_Interval
  <2>5. Cardinality(1 .. MaxSlots) <= Cardinality(DOMAIN list)
    <3> HIDE DEF g
    <3> QED BY <2>2, <2>3, FS_Surjection
  <2> QED BY <1>1, <2>3, <2>4, <2>5
<1>3. free \subseteq Nat
  OBVIOUS
<1>4. FreeId(k) \in free
  <2>1. FreeId(k) = Min(free)
    BY DEF FreeId
  <2> HIDE DEF free
  <2>2. PICK x \in free : \A y \in free : x <= y
    BY <1>2, <1>3, Least
  <2> QED BY <2>1, <2>2 DEF Min
<1> QED BY <1>4

\* What RemoveFirst does to a list.
LEMMA RemoveFirstCases ==
  ASSUME NEW T, NEW s \in Seq(T), NEW x
  PROVE  /\ \/ RemoveFirst(s, x) = s /\ \A i \in DOMAIN s : s[i] # x
            \/ \E i \in DOMAIN s : s[i] = x /\ RemoveFirst(s, x) = RemoveAt(s, i)
         /\ RemoveFirst(s, x) \in Seq(T)
<1> DEFINE I == {i \in 1 .. Len(s) : s[i] = x}
<1>1. Len(s) \in Nat /\ DOMAIN s = 1 .. Len(s)
  OBVIOUS
<1>2. CASE I = {}
  <2>1. RemoveFirst(s, x) = s
    BY <1>2 DEF RemoveFirst
  <2> QED BY <1>1, <1>2, <2>1
<1>3. CASE I # {}
  <2> DEFINE m == Min(I)
  <2>1. m \in I
    <3>1. I \subseteq Nat
      OBVIOUS
    <3> HIDE DEF I
    <3>2. PICK y \in I : \A z \in I : y <= z
      BY <1>3, <3>1, Least
    <3> QED BY <3>2 DEF Min
  <2>2. SelectInSeq(s, LAMBDA v : v = x) = m
    BY <1>3 DEF SelectInSeq
  <2>3. RemoveFirst(s, x) = RemoveAt(s, m)
    <3> HIDE DEF m
    <3> QED BY <1>3, <2>2 DEF RemoveFirst
  <2> HIDE DEF m
  <2>4. m \in DOMAIN s /\ s[m] = x
    BY <1>1, <2>1
  <2>5. RemoveAt(s, m) \in Seq(T)
    BY <2>4, RemoveAtElements
  <2> QED BY <2>3, <2>4, <2>5
<1> QED BY <1>2, <1>3

\* ~Emitter with the slots of one signal, as a loop.
ForgetTurns(h, entries, l, s, list) ==
  /\ h \in [0 .. Len(list) -> Seq(EntryType)]
  /\ h[0] = entries
  /\ \A n \in 1 .. Len(list) :
       h[n] = IF list[n].receiver = l /\ list[n].state # "disconnected"
              THEN RemoveFirst(h[n - 1], [signal |-> s, slot |-> list[n].slot]) ELSE h[n - 1]
  /\ Forget(entries, l, s, list) = h[Len(list)]

\* It is such a loop.
LEMMA ForgetLoop ==
  ASSUME NEW entries \in Seq(EntryType), NEW l, NEW s, NEW list
  PROVE  Len(list) \in Nat => \E h : ForgetTurns(h, entries, l, s, list)
<1> SUFFICES ASSUME Len(list) \in Nat PROVE \E h : ForgetTurns(h, entries, l, s, list)
  OBVIOUS
<1> DEFINE N == Len(list)
           S == Seq(EntryType)
           step(n, a) == IF list[n].receiver = l /\ list[n].state # "disconnected"
                         THEN RemoveFirst(a, [signal |-> s, slot |-> list[n].slot]) ELSE a
           G == [x \in (1 .. N) \X S |-> step(x[1], x[2])]
           rec(h) == [n \in 0 .. N |-> IF n = 0 THEN entries ELSE step(n, h[n - 1])]
<1>1. N \in Nat
  OBVIOUS
<1>2. ASSUME NEW n \in 1 .. N, NEW a \in S PROVE step(n, a) \in S
  BY RemoveFirstCases
<1>3. IsTurn(G, S, N)
  <2> HIDE DEF step, N, S
  <2>1. \A x \in (1 .. N) \X S : step(x[1], x[2]) \in S
    BY <1>2
  <2> QED BY <2>1 DEF IsTurn
<1>4. \A n \in 1 .. N, a \in S : G[<<n, a>>] = step(n, a)
  <2> HIDE DEF step, N, S
  <2> QED OBVIOUS
<1> HIDE DEF step, N, S, G
<1>5. PICK g : IsLoop(g, S, entries, N, G)
  <2>1. entries \in S
    BY DEF S
  <2> QED BY <1>1, <1>3, <2>1, LoopExists
<1>6. ASSUME NEW n \in 1 .. N PROVE g[n] = step(n, g[n - 1])
  <2>1. n - 1 \in 0 .. N
    BY <1>1
  <2>2. g[n - 1] \in S
    BY <1>5, <2>1 DEF IsLoop
  <2> QED BY <1>4, <1>5, <2>2 DEF IsLoop
<1>7. g = rec(g)
  BY <1>1, <1>5, <1>6 DEF IsLoop
<1> DEFINE h == CHOOSE h : h = rec(h)
<1>8. h = rec(h)
  <2> HIDE DEF rec
  <2> QED BY <1>7
<1>9. Forget(entries, l, s, list) = h[N]
  BY DEF Forget, N, step
<1> HIDE DEF h
<1>10. h[0] = entries /\ \A n \in 1 .. N : h[n] = step(n, h[n - 1])
  BY <1>1, <1>8
<1>11. h \in [0 .. N -> S]
  <2> DEFINE T == {n \in 0 .. N : h[n] \in S}
  <2>1. 0 \in T
    BY <1>1, <1>10 DEF S
  <2>2. \A n \in 1 .. N : n - 1 \in T => n \in T
    BY <1>1, <1>2, <1>10
  <2>3. ASSUME NEW m \in 0 .. N PROVE m \in T
    <3>1. m \in Nat /\ \A n \in 1 .. m : n \in 1 .. N
      BY <1>1
    <3> HIDE DEF T
    <3> QED BY <2>1, <2>2, <3>1, Induct
  <2>4. DOMAIN h = 0 .. N /\ h = [n \in 0 .. N |-> h[n]]
    BY <1>8
  <2> QED BY <2>3, <2>4
<1>12. ForgetTurns(h, entries, l, s, list)
  BY <1>9, <1>10, <1>11 DEF ForgetTurns, N, S, step
<1> QED BY <1>12

\* The signals, in the order ~Emitter takes them.
Order == SetToSeq(Signals)

\* It takes every signal, once.
LEMMA OrderOfSignals ==
  ASSUME IsFiniteSet(Signals)
  PROVE  /\ Len(Order) \in Nat
         /\ \A n \in 1 .. Len(Order) : Order[n] \in Signals
         /\ \A m, n \in 1 .. Len(Order) : m # n => Order[m] # Order[n]
         /\ \A s \in Signals : \E n \in 1 .. Len(Order) : Order[n] = s
<1> DEFINE N == Cardinality(Signals)
<1>1. N \in Nat /\ ExistsBijection(1 .. N, Signals)
  BY FS_CardinalityType
<1>2. PICK f : f \in Bijection(1 .. N, Signals)
  BY <1>1 DEF ExistsBijection
<1>3. f \in [1 .. N -> Signals] /\ IsInjective(f)
  BY <1>2 DEF Bijection, Injection
<1>4. Order \in [1 .. N -> Signals] /\ IsInjective(Order)
  <2> HIDE DEF N
  <2> QED BY <1>3 DEF Order, SetToSeq, N
<1>5. Len(Order) = N
  BY <1>1, <1>4
<1>6. Order \in Injection(1 .. N, Signals)
  BY <1>4 DEF Injection
<1>7. Order \in Surjection(1 .. N, Signals)
  <2>1. Cardinality(1 .. N) = N
    BY <1>1, FS_Interval
  <2> QED BY <1>6, <2>1, FS_Injection
<1> QED BY <1>1, <1>4, <1>5, <1>7 DEF Surjection, IsInjective

\* ~Emitter, as a loop over the signals.
LEMMA ForgottenLoop ==
  ASSUME NEW l, NEW e, slotData[l][e] \in Seq(EntryType), IsFiniteSet(Signals),
         \A s \in Signals : Len(slots[<<e, s>>]) \in Nat
  PROVE  \E h \in [0 .. Len(Order) -> Seq(EntryType)] :
           /\ h[0] = slotData[l][e]
           /\ \A n \in 1 .. Len(Order) : h[n] = Forget(h[n - 1], l, Order[n], slots[<<e, Order[n]>>])
           /\ Forgotten(l, e) = h[Len(Order)]
<1> DEFINE N == Len(Order)
           S == Seq(EntryType)
           step(n, a) == Forget(a, l, Order[n], slots[<<e, Order[n]>>])
           G == [x \in (1 .. N) \X S |-> step(x[1], x[2])]
           rec(h) == [n \in 0 .. N |-> IF n = 0 THEN slotData[l][e] ELSE step(n, h[n - 1])]
<1>1. N \in Nat
  BY OrderOfSignals
<1>2. ASSUME NEW n \in 1 .. N, NEW a \in S PROVE step(n, a) \in S
  <2> DEFINE list == slots[<<e, Order[n]>>]
  <2>1. Len(list) \in Nat
    BY OrderOfSignals
  <2> HIDE DEF list
  <2>2. PICK h : ForgetTurns(h, a, l, Order[n], list)
    BY <2>1, ForgetLoop
  <2>3. Forget(a, l, Order[n], list) \in Seq(EntryType)
    BY <2>1, <2>2 DEF ForgetTurns
  <2> QED BY <2>3 DEF list
<1>3. IsTurn(G, S, N)
  <2> HIDE DEF step, N, S
  <2>1. \A x \in (1 .. N) \X S : step(x[1], x[2]) \in S
    BY <1>2
  <2> QED BY <2>1 DEF IsTurn
<1>4. \A n \in 1 .. N, a \in S : G[<<n, a>>] = step(n, a)
  <2> HIDE DEF step, N, S
  <2> QED OBVIOUS
<1> HIDE DEF step, N, S, G
<1>5. PICK g : IsLoop(g, S, slotData[l][e], N, G)
  <2>1. slotData[l][e] \in S
    BY DEF S
  <2> QED BY <1>1, <1>3, <2>1, LoopExists
<1>6. ASSUME NEW n \in 1 .. N PROVE g[n] = step(n, g[n - 1])
  <2>1. n - 1 \in 0 .. N
    BY <1>1
  <2>2. g[n - 1] \in S
    BY <1>5, <2>1 DEF IsLoop
  <2> QED BY <1>4, <1>5, <2>2 DEF IsLoop
<1>7. g = rec(g)
  BY <1>1, <1>5, <1>6 DEF IsLoop
<1> DEFINE h == CHOOSE h : h = rec(h)
<1>8. h = rec(h)
  <2> HIDE DEF rec
  <2> QED BY <1>7
<1>9. Forgotten(l, e) = h[N]
  BY DEF Forgotten, N, step, Order
<1> HIDE DEF h
<1>10. h[0] = slotData[l][e] /\ \A n \in 1 .. N : h[n] = step(n, h[n - 1])
  BY <1>1, <1>8
<1>11. h \in [0 .. N -> S]
  <2> DEFINE T == {n \in 0 .. N : h[n] \in S}
  <2>1. 0 \in T
    BY <1>1, <1>10 DEF S
  <2>2. \A n \in 1 .. N : n - 1 \in T => n \in T
    BY <1>1, <1>2, <1>10
  <2>3. ASSUME NEW m \in 0 .. N PROVE m \in T
    <3>1. m \in Nat /\ \A n \in 1 .. m : n \in 1 .. N
      BY <1>1
    <3> HIDE DEF T
    <3> QED BY <2>1, <2>2, <3>1, Induct
  <2>4. DOMAIN h = 0 .. N /\ h = [n \in 0 .. N |-> h[n]]
    BY <1>8
  <2> QED BY <2>3, <2>4
<1> QED BY <1>9, <1>10, <1>11 DEF N, S, step

-----------------------------------------------------------------------------
(* Steps of user code that change lists of slots.                          *)

\* What such a step may do to the list of k.
ListStep(k) ==
  \/ slots'[k] = slots[k] /\ dirty'[k] = dirty[k]
  \/ activation[k] # 0 /\ Live(k) /\ Marked(slots[k], slots'[k]) /\ dirty'[k]
  \/ /\ activation[k] # 0 /\ Live(k) /\ dirty'[k]
     /\ \E n \in NodeType : /\ slots'[k] = Append(slots[k], n) /\ n.state = "connecting"
                            /\ \A i \in DOMAIN slots[k] : slots[k][i].id # n.id
  \/ /\ activation[k] = 0 /\ ~dirty'[k] /\ (~Live(k) => slots'[k] = <<>>)
     /\ slots'[k] \in Seq(NodeType) /\ Unique(slots'[k])
     /\ \A i \in DOMAIN slots'[k] : slots'[k][i].state = "connected"

\* A loop that is in a slot is not disturbed by what the slot does to the list.
LEMMA LoopUndisturbed ==
  ASSUME NEW f \in FrameType, f.calling, NEW old \in Seq(NodeType), NEW new \in Seq(NodeType),
         LoopOk(f, old), Unique(old),
         \/ Marked(old, new)
         \/ \E n \in NodeType : /\ new = Append(old, n) /\ n.state = "connecting"
                                /\ \A i \in DOMAIN old : old[i].id # n.id
  PROVE  LoopOk(f, new)
<1>1. /\ f.i # End
      /\ \E j \in DOMAIN old : old[j].id = f.i
      /\ \A j \in DOMAIN old : old[j].state = "connected" => old[j].id \in f.snapshot
      /\ \A c \in f.called : \E j \in DOMAIN old : old[j].id = c /\ Passed(f, old, j)
      /\ \A j \in DOMAIN old : old[j].state = "connected" /\ Passed(f, old, j) => old[j].id \in f.called
  BY DEF LoopOk
<1>2. DOMAIN old = 1 .. Len(old) /\ DOMAIN new = 1 .. Len(new) /\ Len(old) \in Nat /\ Len(new) \in Nat
  OBVIOUS
<1> DEFINE Goal == /\ \E j \in DOMAIN new : new[j].id = f.i
                   /\ \A j \in DOMAIN new : new[j].state = "connected" => new[j].id \in f.snapshot
                   /\ \A c \in f.called : \E j \in DOMAIN new : new[j].id = c /\ Passed(f, new, j)
                   /\ \A j \in DOMAIN new : new[j].state = "connected" /\ Passed(f, new, j) => new[j].id \in f.called
<1>3. CASE Marked(old, new)
  <2>1. DOMAIN new = DOMAIN old
    BY <1>2, <1>3 DEF Marked
  <2>2. \A j \in DOMAIN old : new[j].id = old[j].id /\ (new[j].state = "connected" => old[j].state = "connected")
    BY <1>3 DEF Marked
  <2>3. \A j \in DOMAIN old : Passed(f, new, j) <=> Passed(f, old, j)
    BY <2>1, <2>2 DEF Passed
  <2>4. Goal
    BY <1>1, <2>1, <2>2, <2>3
  <2> QED BY <1>1, <2>4 DEF LoopOk
<1>4. ASSUME NEW n \in NodeType, new = Append(old, n), n.state = "connecting",
             \A i \in DOMAIN old : old[i].id # n.id
      PROVE  Goal
  <2>1. /\ DOMAIN new = DOMAIN old \cup {Len(old) + 1} /\ Len(old) + 1 \notin DOMAIN old
        /\ \A j \in DOMAIN old : new[j] = old[j]
        /\ new[Len(old) + 1] = n
    BY <1>4
  <2>2. n.id # f.i
    BY <1>1, <1>4
  <2>3. \A j \in DOMAIN old : Passed(f, new, j) <=> Passed(f, old, j)
    BY <2>1, <2>2 DEF Passed
  <2>4. n.state # "connected"
    BY <1>4
  <2> QED BY <1>1, <2>1, <2>3, <2>4
<1> QED BY <1>1, <1>3, <1>4 DEF LoopOk

\* Steps of user code that change lists preserve the invariant.
LEMMA ListSteps ==
  ASSUME EmitInv, UserCode, UNCHANGED <<emitters, activation, stack>>,
         listeners' \subseteq Listeners,
         slotData' \in [Listeners -> [Emitters -> Seq(EntryType)]],
         slots' = [k \in Keys |-> slots'[k]],
         dirty' \in [Keys -> BOOLEAN],
         \A k \in Keys : ListStep(k)
  PROVE  EmitInv'
<1> USE DEF EmitInv
<1>1. /\ slots \in [Keys -> Seq(NodeType)] /\ stack \in Seq(FrameType) /\ dirty \in [Keys -> BOOLEAN]
      /\ \A p \in DOMAIN stack : stack[p] \in FrameType /\ stack[p].key \in Keys
  <2>1. \A p \in DOMAIN stack : stack[p] \in FrameType
    BY DEF Typed
  <2> QED BY <2>1 DEF Typed, FrameType
<1>2. \A k \in Keys : Live(k)' <=> Live(k)
  BY DEF Live
<1> DEFINE Sound(k) == /\ slots'[k] \in Seq(NodeType) /\ Unique(slots'[k])
                       /\ ~dirty'[k] => \A i \in DOMAIN slots'[k] : slots'[k][i].state = "connected"
                       /\ activation[k] = 0 => ~dirty'[k]
                       /\ ~Live(k) => slots'[k] = <<>> /\ ~dirty'[k]
<1>3. ASSUME NEW k \in Keys PROVE Sound(k)
  <2>1. slots[k] \in Seq(NodeType) /\ Unique(slots[k])
    BY <1>1 DEF IdsUnique, Unique
  <2>2. CASE slots'[k] = slots[k] /\ dirty'[k] = dirty[k]
    BY <2>1, <2>2 DEF Dirt, Activations
  <2>3. CASE activation[k] # 0 /\ Live(k) /\ Marked(slots[k], slots'[k]) /\ dirty'[k]
    <3>1. slots'[k] \in Seq(NodeType) /\ DOMAIN slots'[k] = DOMAIN slots[k]
      BY <2>1, <2>3 DEF Marked
    <3>2. Unique(slots'[k])
      BY <2>1, <2>3, <3>1 DEF Marked, Unique
    <3> QED BY <2>3, <3>1, <3>2
  <2>4. ASSUME activation[k] # 0, Live(k), dirty'[k], NEW n \in NodeType, slots'[k] = Append(slots[k], n),
               \A i \in DOMAIN slots[k] : slots[k][i].id # n.id
        PROVE  Sound(k)
    <3> DEFINE old == slots[k]
    <3>1. /\ DOMAIN Append(old, n) = DOMAIN old \cup {Len(old) + 1}
          /\ \A j \in DOMAIN old : Append(old, n)[j] = old[j]
          /\ Append(old, n)[Len(old) + 1] = n
          /\ Append(old, n) \in Seq(NodeType)
      BY <2>1
    <3>2. Unique(Append(old, n))
      BY <2>1, <2>4, <3>1 DEF Unique
    <3> QED BY <2>4, <3>1, <3>2
  <2>5. CASE /\ activation[k] = 0 /\ ~dirty'[k] /\ (~Live(k) => slots'[k] = <<>>)
             /\ slots'[k] \in Seq(NodeType) /\ Unique(slots'[k])
             /\ \A i \in DOMAIN slots'[k] : slots'[k][i].state = "connected"
    BY <2>5
  <2> QED BY <2>2, <2>3, <2>4, <2>5 DEF ListStep
<1>4. Typed'
  BY <1>1, <1>3 DEF Typed, FrameType, Keys
<1>5. IdsUnique'
  BY <1>3 DEF IdsUnique, Unique
<1>6. Chain'
  <2>1. UserCode' /\ Top' = Top
    BY DEF UserCode, Top
  <2> QED BY <2>1 DEF Chain
<1>7. Activations'
  BY <1>2, <1>3 DEF Activations
<1>8. Dirt'
  BY <1>3 DEF Dirt
<1>9. Loops'
  <2> SUFFICES ASSUME NEW p \in DOMAIN stack, Live(stack[p].key)
               PROVE  LoopOk(stack[p], slots'[stack[p].key])
    BY <1>1, <1>2 DEF Loops
  <2> DEFINE f == stack[p]
             k == f.key
  <2>1. k \in Keys /\ f \in FrameType
    BY <1>1
  <2>2. LoopOk(f, slots[k])
    BY DEF Loops
  <2>3. f.calling
    <3>1. stack # <<>> /\ p \in 1 .. Len(stack) /\ Len(stack) \in Nat
      BY <1>1
    <3>2. CASE p = Len(stack)
      BY <3>1, <3>2 DEF UserCode, Top
    <3>3. CASE p < Len(stack)
      BY <3>3 DEF Chain
    <3> QED BY <3>1, <3>2, <3>3
  <2>4. activation[k] # 0
    <3>1. p <= activation[k]
      BY <2>1 DEF Activations
    <3>2. p \in 1 .. Len(stack)
      BY <1>1
    <3> QED BY <3>1, <3>2
  <2>5. slots[k] \in Seq(NodeType) /\ Unique(slots[k]) /\ slots'[k] \in Seq(NodeType)
    BY <1>1, <1>3, <2>1 DEF IdsUnique, Unique
  <2> HIDE DEF f, k
  <2>6. \/ slots'[k] = slots[k]
        \/ Marked(slots[k], slots'[k])
        \/ \E n \in NodeType : /\ slots'[k] = Append(slots[k], n) /\ n.state = "connecting"
                               /\ \A i \in DOMAIN slots[k] : slots[k][i].id # n.id
    BY <2>1, <2>4 DEF ListStep
  <2>7. LoopOk(f, slots'[k])
    BY <2>1, <2>2, <2>3, <2>5, <2>6, LoopUndisturbed
  <2> QED BY <2>7 DEF f, k
<1> QED BY <1>4, <1>5, <1>6, <1>7, <1>8, <1>9

\* connect()
LEMMA EmitConnect ==
  ASSUME EmitInv, NEW k \in Keys, NEW l \in Listeners, NEW f \in SlotFns, Connect(k, l, f)
  PROVE  EmitInv'
<1> DEFINE n == [id |-> FreeId(k), receiver |-> l, slot |-> f, state |-> NewState(k)]
           x == [signal |-> k[2], slot |-> f]
           e == k[1]
<1>1. /\ UserCode /\ e \in emitters /\ Len(slots[k]) < MaxSlots
      /\ slots' = [slots EXCEPT ![k] = Append(slots[k], n)]
      /\ dirty' = [dirty EXCEPT ![k] = dirty[k] \/ activation[k] # 0]
      /\ slotData' = [slotData EXCEPT ![l][e] = Append(slotData[l][e], x)]
      /\ UNCHANGED <<emitters, listeners, activation, stack>>
  BY DEF Connect
<1>2. /\ slots \in [Keys -> Seq(NodeType)] /\ dirty \in [Keys -> BOOLEAN]
      /\ slotData \in [Listeners -> [Emitters -> Seq(EntryType)]]
      /\ listeners \subseteq Listeners /\ emitters \subseteq Emitters
  BY DEF EmitInv, Typed
<1>3. slots[k] \in Seq(NodeType) /\ e \in Emitters /\ k[2] \in Signals
  BY <1>2 DEF Keys
<1>4. FreeId(k) \in 1 .. MaxSlots /\ \A i \in DOMAIN slots[k] : slots[k][i].id # FreeId(k)
  BY <1>1, <1>3, CallbackAssumption, FreeIdSound
<1>5. n \in NodeType /\ n.id = FreeId(k) /\ n.state = NewState(k) /\ x \in EntryType
  BY <1>3, <1>4 DEF NodeType, EntryType, NewState
<1> HIDE DEF n, x, e
<1>6. slotData' \in [Listeners -> [Emitters -> Seq(EntryType)]]
  <2>1. slotData[l][e] \in Seq(EntryType)
    BY <1>2, <1>3
  <2>2. Append(slotData[l][e], x) \in Seq(EntryType)
    BY <1>5, <2>1
  <2> QED BY <1>1, <1>2, <1>3, <2>2
<1>7. dirty' \in [Keys -> BOOLEAN]
  BY <1>1, <1>2
<1>8. slots' = [j \in Keys |-> slots'[j]] /\ slots'[k] = Append(slots[k], n)
      /\ \A j \in Keys : j # k => slots'[j] = slots[j] /\ dirty'[j] = dirty[j]
  BY <1>1, <1>2
<1>9. dirty'[k] = (dirty[k] \/ activation[k] # 0)
  BY <1>1, <1>2
<1>10. ListStep(k)
  <2>1. CASE activation[k] # 0
    <3>1. n.state = "connecting" /\ dirty'[k]
      BY <1>5, <1>9, <2>1 DEF NewState
    <3>2. Live(k)
      BY <1>1 DEF Live, e
    <3> QED BY <1>4, <1>5, <1>8, <2>1, <3>1, <3>2 DEF ListStep
  <2>2. CASE activation[k] = 0
    <3>1. n.state = "connected"
      BY <1>5, <2>2 DEF NewState
    <3>2. ~dirty[k] /\ \A i \in DOMAIN slots[k] : slots[k][i].state = "connected"
      BY <2>2 DEF EmitInv, Dirt
    <3>3. ~dirty'[k]
      BY <1>9, <2>2, <3>2
    <3>4. Live(k)
      BY <1>1 DEF Live, e
    <3> DEFINE old == slots[k]
    <3>5. /\ DOMAIN Append(old, n) = DOMAIN old \cup {Len(old) + 1}
          /\ \A j \in DOMAIN old : Append(old, n)[j] = old[j]
          /\ Append(old, n)[Len(old) + 1] = n
          /\ Append(old, n) \in Seq(NodeType)
      BY <1>3, <1>5
    <3>6. Unique(old)
      BY DEF EmitInv, IdsUnique, Unique
    <3>7. Unique(Append(old, n))
      BY <1>4, <1>5, <3>5, <3>6 DEF Unique
    <3>8. \A i \in DOMAIN Append(old, n) : Append(old, n)[i].state = "connected"
      BY <3>1, <3>2, <3>5
    <3> QED BY <1>8, <2>2, <3>3, <3>4, <3>5, <3>7, <3>8 DEF ListStep
  <2> QED BY <2>1, <2>2
<1>11. ASSUME NEW j \in Keys PROVE ListStep(j)
  <2>1. CASE j = k
    BY <1>10, <2>1
  <2>2. CASE j # k
    <3>1. slots'[j] = slots[j] /\ dirty'[j] = dirty[j]
      BY <1>8, <2>2
    <3> QED BY <3>1 DEF ListStep
  <2> QED BY <2>1, <2>2
<1> QED BY <1>1, <1>2, <1>6, <1>7, <1>8, <1>11, ListSteps

\* A list that is not iterated over is pruned: it stays as it should be.
LEMMA PrunedStep ==
  ASSUME EmitInv, NEW k \in Keys, activation[k] = 0, Pruned(slots[k], slots'[k]), dirty'[k] = dirty[k]
  PROVE  ListStep(k)
<1>1. ~dirty[k] /\ \A i \in DOMAIN slots[k] : slots[k][i].state = "connected"
  BY DEF EmitInv, Dirt
<1>2. \A i \in DOMAIN slots'[k] : slots'[k][i].state = "connected"
  BY <1>1 DEF Pruned
<1>3. ~Live(k) => slots'[k] = <<>>
  <2>1. ~Live(k) => Len(slots[k]) = 0
    BY DEF EmitInv, Activations
  <2>2. slots'[k] \in Seq(NodeType) /\ Len(slots'[k]) <= Len(slots[k])
    BY DEF Pruned
  <2> QED BY <2>1, <2>2
<1>4. slots'[k] \in Seq(NodeType) /\ Unique(slots'[k])
  BY DEF Pruned
<1> QED BY <1>1, <1>2, <1>3, <1>4 DEF ListStep

\* disconnect()
LEMMA EmitDisconnect ==
  ASSUME EmitInv, NEW k \in Keys, NEW l \in Listeners, NEW f \in SlotFns, Disconnect(k, l, f)
  PROVE  EmitInv'
<1> DEFINE new == Unlink(k, slots[k], l, f)
           x == [signal |-> k[2], slot |-> f]
           e == k[1]
<1>1. /\ UserCode /\ e \in emitters
      /\ slots' = [slots EXCEPT ![k] = new]
      /\ dirty' = [dirty EXCEPT ![k] = dirty[k] \/ (activation[k] # 0 /\ Present(k, l, f))]
      /\ slotData' = [slotData EXCEPT ![l][e] = RemoveFirst(slotData[l][e], x)]
      /\ UNCHANGED <<emitters, listeners, activation, stack>>
  BY DEF Disconnect
<1>2. /\ slots \in [Keys -> Seq(NodeType)] /\ dirty \in [Keys -> BOOLEAN]
      /\ slotData \in [Listeners -> [Emitters -> Seq(EntryType)]]
      /\ listeners \subseteq Listeners /\ emitters \subseteq Emitters
  BY DEF EmitInv, Typed
<1>3. slots[k] \in Seq(NodeType) /\ e \in Emitters
  BY <1>2 DEF Keys
<1> HIDE DEF x, e, new
<1>4. slotData' \in [Listeners -> [Emitters -> Seq(EntryType)]]
  <2>1. slotData[l][e] \in Seq(EntryType)
    BY <1>2, <1>3
  <2>2. RemoveFirst(slotData[l][e], x) \in Seq(EntryType)
    BY <2>1, RemoveFirstCases
  <2> QED BY <1>1, <1>2, <1>3, <2>2
<1>5. dirty' \in [Keys -> BOOLEAN]
  BY <1>1, <1>2
<1>6. slots' = [j \in Keys |-> slots'[j]] /\ slots'[k] = new
      /\ \A j \in Keys : j # k => slots'[j] = slots[j] /\ dirty'[j] = dirty[j]
  BY <1>1, <1>2
<1>7. dirty'[k] = (dirty[k] \/ (activation[k] # 0 /\ Present(k, l, f)))
  BY <1>1, <1>2
<1>8. ListStep(k)
  <2>1. CASE activation[k] # 0
    <3>1. Marked(slots[k], new)
      BY <1>3, <2>1, UnlinkMarks DEF new
    <3>2. CASE Present(k, l, f)
      <4>1. dirty'[k]
        BY <1>7, <2>1, <3>2
      <4>2. Live(k)
        BY <1>1 DEF Live, e
      <4> QED BY <1>6, <2>1, <3>1, <4>1, <4>2 DEF ListStep
    <3>3. CASE ~Present(k, l, f)
      <4>1. \A i : ~FirstMatch(slots[k], i, l, f)
        BY <3>3 DEF Present, FirstMatch
      <4>2. new = slots[k]
        BY <1>3, <4>1, UnlinkCases DEF new
      <4>3. dirty'[k] = dirty[k]
        BY <1>2, <1>7, <3>3
      <4> QED BY <1>6, <4>2, <4>3 DEF ListStep
    <3> QED BY <3>2, <3>3
  <2>2. CASE activation[k] = 0
    <3>1. Unique(slots[k])
      BY DEF EmitInv, IdsUnique, Unique
    <3>2. Pruned(slots[k], new)
      BY <1>3, <2>2, <3>1, UnlinkPrunes DEF new
    <3>3. dirty'[k] = dirty[k]
      BY <1>2, <1>7, <2>2
    <3> QED BY <1>6, <2>2, <3>2, <3>3, PrunedStep
  <2> QED BY <2>1, <2>2
<1>9. \A j \in Keys : ListStep(j)
  BY <1>6, <1>8 DEF ListStep
<1> QED BY <1>1, <1>2, <1>4, <1>5, <1>6, <1>9, ListSteps

\* ~Listener
LEMMA EmitDeleteListener ==
  ASSUME EmitInv, NEW l \in Listeners, DeleteListener(l)
  PROVE  EmitInv'
<1> DEFINE Hit(k) == activation[k] # 0 /\ \E f \in SlotFns : HasEntry(l, k, f) /\ Present(k, l, f)
<1>1. /\ UserCode /\ listeners' = listeners \ {l}
      /\ slots' = [k \in Keys |-> Unlinked(k, l)]
      /\ dirty' = [k \in Keys |-> dirty[k] \/ Hit(k)]
      /\ slotData' = [slotData EXCEPT ![l] = [e \in Emitters |-> <<>>]]
      /\ UNCHANGED <<emitters, activation, stack>>
  BY DEF DeleteListener
<1>2. /\ slots \in [Keys -> Seq(NodeType)] /\ dirty \in [Keys -> BOOLEAN]
      /\ slotData \in [Listeners -> [Emitters -> Seq(EntryType)]]
      /\ listeners \subseteq Listeners
  BY DEF EmitInv, Typed
<1>3. slotData' \in [Listeners -> [Emitters -> Seq(EntryType)]]
  <2>1. [e \in Emitters |-> <<>>] \in [Emitters -> Seq(EntryType)]
    OBVIOUS
  <2> QED BY <1>1, <1>2, <2>1
<1>4. slots' = [k \in Keys |-> slots'[k]] /\ dirty' \in [Keys -> BOOLEAN] /\ listeners' \subseteq Listeners
  BY <1>1, <1>2
<1>5. ASSUME NEW k \in Keys PROVE ListStep(k)
  <2>1. slots'[k] = Unlinked(k, l) /\ dirty'[k] = (dirty[k] \/ Hit(k))
    BY <1>1
  <2>2. Typed /\ IdsUnique
    BY DEF EmitInv
  <2>3. CASE activation[k] = 0
    <3>1. Pruned(slots[k], slots'[k])
      BY <2>1, <2>2, <2>3, UnlinkedLists
    <3>2. dirty'[k] = dirty[k]
      BY <1>2, <2>1, <2>3
    <3> QED BY <2>3, <3>1, <3>2, PrunedStep
  <2>4. CASE activation[k] # 0 /\ Hit(k)
    <3>1. Marked(slots[k], slots'[k])
      BY <2>1, <2>2, <2>4, UnlinkedLists
    <3>2. dirty'[k]
      BY <2>1, <2>4
    <3>3. Live(k)
      BY <2>4 DEF EmitInv, Activations
    <3> QED BY <2>4, <3>1, <3>2, <3>3 DEF ListStep
  <2>5. CASE activation[k] # 0 /\ ~Hit(k)
    <3>1. \A f \in SlotFns : HasEntry(l, k, f) => ~Present(k, l, f)
      BY <2>5
    <3>2. slots'[k] = slots[k]
      BY <2>1, <2>2, <3>1, UnlinkedLists
    <3>3. dirty'[k] = dirty[k]
      BY <1>2, <2>1, <2>5
    <3> QED BY <3>2, <3>3 DEF ListStep
  <2> QED BY <2>3, <2>4, <2>5
<1> QED BY <1>1, <1>3, <1>4, <1>5, ListSteps

-----------------------------------------------------------------------------
(* The steps of emit().                                                    *)

\* Where a node is: nodes are found by their numbers.
LEMMA IndexSound ==
  ASSUME NEW k, slots[k] \in Seq(NodeType), Unique(slots[k])
  PROVE  /\ \A j \in DOMAIN slots[k] : IndexOf(k, slots[k][j].id) = j
         /\ \A id : IndexOf(k, id) # 0 => \E j \in DOMAIN slots[k] : slots[k][j].id = id
<1> DEFINE list == slots[k]
           I(id) == {i \in 1 .. Len(list) : list[i].id = id}
<1>1. \A id : IndexOf(k, id) = IF I(id) # {} THEN Min(I(id)) ELSE 0
  BY DEF IndexOf, SelectInSeq
<1>2. DOMAIN list = 1 .. Len(list) /\ Len(list) \in Nat
  OBVIOUS
<1>3. ASSUME NEW j \in DOMAIN list PROVE IndexOf(k, list[j].id) = j
  <2>1. I(list[j].id) = {j}
    <3>1. ASSUME NEW i PROVE i \in I(list[j].id) <=> i = j
      BY <1>2 DEF Unique
    <3> QED BY <3>1
  <2>2. Min({j}) = j
    BY <1>2 DEF Min
  <2> QED BY <1>1, <2>1, <2>2
<1>4. ASSUME NEW id, IndexOf(k, id) # 0 PROVE \E j \in DOMAIN list : list[j].id = id
  <2>1. I(id) # {}
    BY <1>1, <1>4
  <2> QED BY <1>2, <2>1
<1> QED BY <1>3, <1>4

\* The loop goes on to the next node.
LEMMA LoopAdvances ==
  ASSUME NEW f \in FrameType, NEW g \in FrameType, NEW k,
         slots[k] \in Seq(NodeType), Unique(slots[k]), LoopOk(f, slots[k]), f.i # End,
         f.calling \/ NodeAt(k, f.i).state # "connected",
         g.i = NextOf(k, f.i), ~g.calling, g.called = f.called, g.snapshot = f.snapshot
  PROVE  LoopOk(g, slots[k])
<1> DEFINE list == slots[k]
<1>1. /\ \E j \in DOMAIN list : list[j].id = f.i
      /\ \A j \in DOMAIN list : list[j].state = "connected" => list[j].id \in f.snapshot
      /\ \A c \in f.called : \E j \in DOMAIN list : list[j].id = c /\ Passed(f, list, j)
      /\ \A j \in DOMAIN list : list[j].state = "connected" /\ Passed(f, list, j) => list[j].id \in f.called
  BY DEF LoopOk
<1>2. PICK m \in DOMAIN list : list[m].id = f.i
  BY <1>1
<1>3. IndexOf(k, f.i) = m
  BY <1>2, IndexSound
<1>4. DOMAIN list = 1 .. Len(list) /\ Len(list) \in Nat /\ \A j \in DOMAIN list : list[j].id \in 1 .. MaxSlots
  <2>1. \A j \in DOMAIN list : list[j] \in NodeType
    OBVIOUS
  <2> QED BY <2>1 DEF NodeType
<1>5. /\ m < Len(list) => m + 1 \in DOMAIN list /\ g.i = list[m + 1].id /\ g.i # End
      /\ m = Len(list) => g.i = End
  <2>1. g.i = IF m \in 1 .. Len(list) - 1 THEN list[m + 1].id ELSE End
    BY <1>3 DEF NextOf
  <2>2. m < Len(list) => m + 1 \in DOMAIN list /\ m \in 1 .. Len(list) - 1
    BY <1>2, <1>4
  <2>3. m < Len(list) => list[m + 1].id # End
    BY <1>4, <2>2 DEF End
  <2>4. m = Len(list) => m \notin 1 .. Len(list) - 1
    BY <1>4
  <2> QED BY <2>1, <2>2, <2>3, <2>4
<1>6. NodeAt(k, f.i) = list[m]
  BY <1>3 DEF NodeAt
<1> HIDE DEF list
<1>7. Unique(list)
  BY DEF list
<1>8. ASSUME NEW j \in DOMAIN list
      PROVE  /\ Passed(f, list, j) <=> j < m \/ (j = m /\ f.calling)
             /\ Passed(g, list, j) <=> j <= m
  <2>1. Passed(f, list, j) <=> j < m \/ (j = m /\ f.calling)
    BY <1>2, <1>7 DEF Passed, Unique
  <2>2. CASE m = Len(list)
    <3>1. g.i = End
      BY <1>5, <2>2
    <3>2. j <= m
      BY <1>4, <2>2
    <3> QED BY <2>1, <3>1, <3>2 DEF Passed
  <2>3. CASE m < Len(list)
    <3>1. m + 1 \in DOMAIN list /\ g.i = list[m + 1].id /\ g.i # End
      BY <1>5, <2>3
    <3>2. Passed(g, list, j) <=> j < m + 1
      BY <1>7, <3>1 DEF Passed, Unique
    <3>3. j < m + 1 <=> j <= m
      BY <1>4
    <3> QED BY <2>1, <3>2, <3>3
  <2> QED BY <1>4, <2>1, <2>2, <2>3
<1>9. g.i # End => \E j \in DOMAIN list : list[j].id = g.i
  BY <1>4, <1>5
<1>10. \A c \in f.called : \E j \in DOMAIN list : list[j].id = c /\ Passed(g, list, j)
  <2> SUFFICES ASSUME NEW c \in f.called PROVE \E j \in DOMAIN list : list[j].id = c /\ Passed(g, list, j)
    OBVIOUS
  <2>1. PICK j \in DOMAIN list : list[j].id = c /\ Passed(f, list, j)
    BY <1>1 DEF list
  <2>2. j <= m
    BY <1>4, <1>8, <2>1
  <2> QED BY <1>8, <2>1, <2>2
<1>11. ASSUME NEW j \in DOMAIN list, list[j].state = "connected", Passed(g, list, j) PROVE list[j].id \in f.called
  <2>1. j <= m
    BY <1>8, <1>11
  <2>2. j = m => f.calling
    BY <1>6, <1>11
  <2>3. Passed(f, list, j)
    BY <1>4, <1>8, <2>1, <2>2
  <2> QED BY <1>1, <1>11, <2>3 DEF list
<1>12. \A j \in DOMAIN list : list[j].state = "connected" => list[j].id \in f.snapshot
  BY <1>1 DEF list
<1> QED BY <1>9, <1>10, <1>11, <1>12 DEF LoopOk, list

\* Steps that change the innermost frame only, and neither its signal nor its place in the chain.
LEMMA TopSteps ==
  ASSUME EmitInv, stack # <<>>, NEW g \in FrameType,
         g.key = Top.key, g.next = Top.next, g.invalidated = Top.invalidated,
         Live(Top.key), LoopOk(g, slots[Top.key]),
         stack' = [stack EXCEPT ![Len(stack)] = g],
         UNCHANGED <<emitters, listeners, signalVars, slotData>>
  PROVE  EmitInv'
<1> DEFINE t == Len(stack)
<1>1. stack \in Seq(FrameType) /\ UNCHANGED <<slots, activation, dirty>>
  BY DEF EmitInv, Typed, signalVars
<1>2. t \in Nat /\ t \in DOMAIN stack /\ DOMAIN stack = 1 .. t /\ Top = stack[t]
  BY <1>1 DEF Top
<1>3. /\ stack' \in Seq(FrameType) /\ Len(stack') = t /\ DOMAIN stack' = 1 .. t /\ stack'[t] = g
      /\ \A p \in 1 .. t : p # t => stack'[p] = stack[p]
  <2>1. t \in 1 .. Len(stack)
    BY <1>2
  <2>2. /\ stack' \in Seq(FrameType) /\ Len(stack') = t
        /\ \A p \in 1 .. t : stack'[p] = IF p = t THEN g ELSE stack[p]
    BY <1>1, <2>1, ExceptSeq
  <2>3. DOMAIN stack' = 1 .. t
    BY <2>2
  <2> QED BY <2>1, <2>2, <2>3
<1>4. \A p \in 1 .. t : /\ stack'[p].key = stack[p].key /\ stack'[p].next = stack[p].next
                        /\ stack'[p].invalidated = stack[p].invalidated
  BY <1>2, <1>3
<1> HIDE DEF t
<1>5. \A p \in 1 .. t : stack[p].next < p /\ stack[p].next \in Nat
  <2>1. \A p \in 1 .. t : stack[p] \in FrameType
    BY <1>1, <1>2
  <2>2. \A p \in 1 .. t : stack[p].next \in Nat
    BY <2>1 DEF FrameType
  <2> QED BY <1>2, <2>2 DEF EmitInv, Chain
<1>6. Typed'
  BY <1>1, <1>3 DEF EmitInv, Typed, FrameType, Keys, NodeType, EntryType
<1>7. IdsUnique'
  BY <1>1 DEF EmitInv, IdsUnique
<1>8. Chain'
  <2>1. ASSUME NEW p \in 1 .. t
        PROVE  /\ p < t => stack'[p].calling
               /\ stack'[p].next < p
               /\ stack'[p].next # 0 => stack'[stack'[p].next].key = stack'[p].key
               /\ \A q \in 1 .. t : q < p /\ stack'[q].key = stack'[p].key => q <= stack'[p].next
    <3>1. /\ p < t => stack[p].calling
          /\ stack[p].next < p
          /\ stack[p].next # 0 => stack[stack[p].next].key = stack[p].key
          /\ \A q \in 1 .. t : q < p /\ stack[q].key = stack[p].key => q <= stack[p].next
      BY <1>2 DEF EmitInv, Chain, t
    <3>2. p < t => stack'[p] = stack[p]
      BY <1>2, <1>3
    <3>3. stack[p].next # 0 => stack[p].next \in 1 .. t
      BY <1>2, <1>5
    <3> QED BY <1>4, <3>1, <3>2, <3>3
  <2>2. Top'.key = Top.key /\ Live(Top.key)'
    BY <1>2, <1>3 DEF Top, Live
  <2>3. (~UserCode => Live(Top.key))'
    BY <2>2 DEF Live
  <2> QED BY <1>3, <2>1, <2>3 DEF Chain
<1>9. Activations'
  <2>1. \A k \in Keys : Live(k)' <=> Live(k)
    BY DEF Live
  <2> SUFFICES ASSUME NEW k \in Keys
      PROVE
    /\ Live(k) => /\ activation[k] \in 0 .. t
                  /\ activation[k] # 0 => stack'[activation[k]].key = k
                  /\ \A p \in 1 .. t : stack'[p].key = k => p <= activation[k] /\ ~stack'[p].invalidated
    /\ ~Live(k) => /\ activation[k] = 0 /\ slots[k] = <<>> /\ ~dirty[k]
                   /\ \A p \in 1 .. t :
                        /\ stack'[p].key = k
                        /\ \A q \in 1 .. t : stack'[q].key = k => q <= p
                        => stack'[p].invalidated
    BY <1>1, <1>3, <2>1 DEF Activations
  <2>2. CASE Live(k)
    <3>1. /\ activation[k] \in 0 .. t
          /\ activation[k] # 0 => stack[activation[k]].key = k
          /\ \A p \in 1 .. t : stack[p].key = k => p <= activation[k] /\ ~stack[p].invalidated
      BY <1>2, <2>2 DEF EmitInv, Activations, t
    <3>2. activation[k] # 0 => activation[k] \in 1 .. t
      BY <1>2, <3>1
    <3> QED BY <1>4, <2>2, <3>1, <3>2
  <2>3. CASE ~Live(k)
    BY <1>2, <1>4, <2>3 DEF EmitInv, Activations
  <2> QED BY <2>2, <2>3
<1>10. Loops'
  <2> SUFFICES ASSUME NEW p \in 1 .. t, Live(stack'[p].key)
               PROVE  LoopOk(stack'[p], slots[stack'[p].key])
    BY <1>1, <1>3 DEF Loops, Live
  <2>1. CASE p = t
    BY <1>3, <2>1
  <2>2. CASE p # t
    BY <1>2, <1>3, <2>2 DEF EmitInv, Loops
  <2> QED BY <2>1, <2>2
<1>11. Dirt'
  BY <1>1 DEF EmitInv, Dirt
<1> QED BY <1>6, <1>7, <1>8, <1>9, <1>10, <1>11 DEF EmitInv

\* The next node has a number, or is the end.
LEMMA NextTyped ==
  ASSUME NEW k, slots[k] \in Seq(NodeType), NEW id
  PROVE  NextOf(k, id) \in 0 .. MaxSlots
<1> DEFINE i == IndexOf(k, id)
<1>1. MaxSlots \in Nat
  BY CallbackAssumption
<1>2. \A j \in DOMAIN slots[k] : slots[k][j].id \in 1 .. MaxSlots
  <2>1. \A j \in DOMAIN slots[k] : slots[k][j] \in NodeType
    OBVIOUS
  <2> QED BY <2>1 DEF NodeType
<1> HIDE DEF i
<1>3. i \in 1 .. Len(slots[k]) - 1 => i + 1 \in DOMAIN slots[k]
  OBVIOUS
<1>4. NextOf(k, id) = IF i \in 1 .. Len(slots[k]) - 1 THEN slots[k][i + 1].id ELSE End
  BY DEF NextOf, i
<1> QED BY <1>1, <1>2, <1>3, <1>4 DEF End

\* The innermost frame, when no user code is running.
LEMMA TopTyped ==
  ASSUME EmitInv, stack # <<>>
  PROVE  /\ Len(stack) \in Nat /\ Len(stack) \in DOMAIN stack /\ DOMAIN stack = 1 .. Len(stack)
         /\ Top = stack[Len(stack)] /\ Top \in FrameType /\ Top.key \in Keys
         /\ slots[Top.key] \in Seq(NodeType) /\ Unique(slots[Top.key])
         /\ Live(Top.key) => LoopOk(Top, slots[Top.key])
<1>1. stack \in Seq(FrameType) /\ slots \in [Keys -> Seq(NodeType)]
  BY DEF EmitInv, Typed
<1>2. Len(stack) \in Nat /\ Len(stack) \in DOMAIN stack /\ DOMAIN stack = 1 .. Len(stack)
  BY <1>1
<1>3. Top = stack[Len(stack)] /\ Top \in FrameType
  BY <1>1, <1>2 DEF Top
<1>4. Top.key \in Keys
  BY <1>3 DEF FrameType
<1>5. slots[Top.key] \in Seq(NodeType) /\ Unique(slots[Top.key])
  BY <1>1, <1>4 DEF EmitInv, IdsUnique, Unique
<1>6. Live(Top.key) => LoopOk(Top, slots[Top.key])
  BY <1>2, <1>3 DEF EmitInv, Loops
<1> QED BY <1>2, <1>3, <1>4, <1>5, <1>6

\* emit() calls a slot.
LEMMA EmitCallSlot ==
  ASSUME EmitInv, CallSlot PROVE EmitInv'
<1> DEFINE f == Top
           g == [Top EXCEPT !.calling = TRUE, !.called = f.called \cup {f.i}]
           list == slots[f.key]
<1>1. /\ stack # <<>> /\ ~f.calling /\ f.i # End
      /\ NodeAt(f.key, f.i).state = "connected"
      /\ UNCHANGED <<emitters, listeners, signalVars, slotData>>
  BY DEF CallSlot, UserCode
<1>2. /\ Len(stack) \in DOMAIN stack /\ f = stack[Len(stack)] /\ f \in FrameType
      /\ list \in Seq(NodeType) /\ Unique(list)
  BY <1>1, TopTyped
<1>3. Live(f.key) /\ LoopOk(f, list)
  <2>1. Live(f.key)
    BY <1>1 DEF EmitInv, Chain, UserCode
  <2> QED BY <1>1, <2>1, TopTyped
<1>4. stack' = [stack EXCEPT ![Len(stack)] = g]
  BY <1>2 DEF CallSlot
<1>5. f.i \in 1 .. MaxSlots /\ f.called \subseteq 1 .. MaxSlots
  BY <1>1, <1>2 DEF FrameType, End
<1>6. /\ g \in FrameType /\ g.key = f.key /\ g.next = f.next /\ g.invalidated = f.invalidated
      /\ g.i = f.i /\ g.calling /\ g.called = f.called \cup {f.i} /\ g.snapshot = f.snapshot
  BY <1>2, <1>5 DEF FrameType
<1> HIDE DEF g, f, list
<1>7. PICK m \in DOMAIN list : list[m].id = f.i
  BY <1>1, <1>3 DEF LoopOk
<1>8. \A j \in DOMAIN list : /\ Passed(f, list, j) <=> j < m
                             /\ Passed(g, list, j) <=> j < m \/ j = m
  BY <1>1, <1>2, <1>6, <1>7 DEF Passed, Unique
<1>9. LoopOk(g, list)
  <2>1. \A c \in g.called : \E j \in DOMAIN list : list[j].id = c /\ Passed(g, list, j)
    BY <1>3, <1>6, <1>7, <1>8 DEF LoopOk
  <2>2. \A j \in DOMAIN list : list[j].state = "connected" /\ Passed(g, list, j) => list[j].id \in g.called
    BY <1>3, <1>6, <1>7, <1>8 DEF LoopOk
  <2>3. \A j \in DOMAIN list : list[j].state = "connected" => list[j].id \in g.snapshot
    BY <1>3, <1>6 DEF LoopOk
  <2> QED BY <1>1, <1>6, <1>7, <2>1, <2>2, <2>3 DEF LoopOk
<1> QED BY <1>1, <1>3, <1>4, <1>6, <1>9, TopSteps DEF f, list

\* emit() passes over a slot.
LEMMA EmitSkipSlot ==
  ASSUME EmitInv, SkipSlot PROVE EmitInv'
<1> DEFINE f == Top
           g == [Top EXCEPT !.i = NextOf(f.key, f.i)]
<1>1. /\ stack # <<>> /\ ~f.calling /\ f.i # End
      /\ NodeAt(f.key, f.i).state # "connected"
      /\ UNCHANGED <<emitters, listeners, signalVars, slotData>>
  BY DEF SkipSlot, UserCode
<1>2. /\ Len(stack) \in DOMAIN stack /\ f = stack[Len(stack)] /\ f \in FrameType
      /\ slots[f.key] \in Seq(NodeType) /\ Unique(slots[f.key])
  BY <1>1, TopTyped
<1>3. Live(f.key) /\ LoopOk(f, slots[f.key])
  <2>1. Live(f.key)
    BY <1>1 DEF EmitInv, Chain, UserCode
  <2> QED BY <1>1, <2>1, TopTyped
<1>4. stack' = [stack EXCEPT ![Len(stack)] = g]
  BY <1>2 DEF SkipSlot
<1>5. NextOf(f.key, f.i) \in 0 .. MaxSlots
  BY <1>2, NextTyped
<1>6. /\ g \in FrameType /\ g.key = f.key /\ g.next = f.next /\ g.invalidated = f.invalidated
      /\ g.i = NextOf(f.key, f.i) /\ ~g.calling /\ g.called = f.called /\ g.snapshot = f.snapshot
  BY <1>1, <1>2, <1>5 DEF FrameType
<1> HIDE DEF g, f
<1>7. LoopOk(g, slots[f.key])
  BY <1>1, <1>2, <1>3, <1>6, LoopAdvances
<1> QED BY <1>1, <1>3, <1>4, <1>6, <1>7, TopSteps DEF f

\* A slot returns to an emit() whose emitter is still there.
LEMMA EmitReturnSlot ==
  ASSUME EmitInv, ReturnSlot PROVE EmitInv'
<1> DEFINE f == Top
           g == [Top EXCEPT !.calling = FALSE, !.i = NextOf(f.key, f.i)]
<1>1. /\ stack # <<>> /\ f.calling /\ ~f.invalidated
      /\ UNCHANGED <<emitters, listeners, signalVars, slotData>>
  BY DEF ReturnSlot
<1>2. /\ Len(stack) \in DOMAIN stack /\ f = stack[Len(stack)] /\ f \in FrameType /\ f.key \in Keys
      /\ slots[f.key] \in Seq(NodeType) /\ Unique(slots[f.key])
  BY <1>1, TopTyped
<1>3. Live(f.key) /\ LoopOk(f, slots[f.key])
  <2>1. \A q \in DOMAIN stack : q <= Len(stack)
    BY <1>1, TopTyped
  <2>2. Live(f.key)
    BY <1>1, <1>2, <2>1 DEF EmitInv, Activations
  <2> QED BY <1>1, <2>2, TopTyped
<1>4. stack' = [stack EXCEPT ![Len(stack)] = g]
  BY <1>2 DEF ReturnSlot
<1>5. NextOf(f.key, f.i) \in 0 .. MaxSlots
  BY <1>2, NextTyped
<1>6. /\ g \in FrameType /\ g.key = f.key /\ g.next = f.next /\ g.invalidated = f.invalidated
      /\ g.i = NextOf(f.key, f.i) /\ ~g.calling /\ g.called = f.called /\ g.snapshot = f.snapshot
  BY <1>1, <1>2, <1>5 DEF FrameType
<1> HIDE DEF g, f
<1>7. LoopOk(g, slots[f.key])
  <2>1. f.i # End
    BY <1>1, <1>3 DEF LoopOk
  <2> QED BY <1>1, <1>2, <1>3, <1>6, <2>1, LoopAdvances
<1> QED BY <1>1, <1>3, <1>4, <1>6, <1>7, TopSteps DEF f

\* emit() begins.
LEMMA EmitEmit ==
  ASSUME EmitInv, NEW k \in Keys, Emit(k) PROVE EmitInv'
<1> DEFINE t == Len(stack)
           list == slots[k]
           snap == {n \in 1 .. MaxSlots : \E i \in DOMAIN list : list[i].id = n /\ list[i].state = "connected"}
           g == [key |-> k, next |-> activation[k], invalidated |-> FALSE, i |-> FirstOf(k),
                 calling |-> FALSE, called |-> {}, snapshot |-> snap]
<1>1. /\ UserCode /\ Live(k) /\ stack' = Append(stack, g)
      /\ activation' = [activation EXCEPT ![k] = t + 1]
      /\ UNCHANGED <<emitters, listeners, slots, dirty, slotData>>
  BY DEF Emit, Live
<1>2. /\ stack \in Seq(FrameType) /\ slots \in [Keys -> Seq(NodeType)] /\ activation \in [Keys -> Nat]
      /\ t \in Nat /\ DOMAIN stack = 1 .. t /\ list \in Seq(NodeType) /\ Unique(list)
  <2>1. stack \in Seq(FrameType) /\ slots \in [Keys -> Seq(NodeType)] /\ activation \in [Keys -> Nat]
    BY DEF EmitInv, Typed
  <2> QED BY <2>1 DEF EmitInv, IdsUnique, Unique
<1>3. /\ DOMAIN list = 1 .. Len(list) /\ Len(list) \in Nat
      /\ \A j \in DOMAIN list : list[j].id \in 1 .. MaxSlots
  <2>1. \A j \in DOMAIN list : list[j] \in NodeType
    BY <1>2
  <2> QED BY <1>2, <2>1 DEF NodeType
<1>4. /\ list # <<>> => 1 \in DOMAIN list /\ FirstOf(k) = list[1].id
      /\ list = <<>> => FirstOf(k) = End /\ DOMAIN list = {}
      /\ FirstOf(k) \in 0 .. MaxSlots
  <2>1. list # <<>> => 1 \in DOMAIN list
    BY <1>2
  <2>2. list = <<>> => DOMAIN list = {}
    OBVIOUS
  <2>3. FirstOf(k) = IF list = <<>> THEN End ELSE list[1].id
    BY DEF FirstOf
  <2>4. MaxSlots \in Nat
    BY CallbackAssumption
  <2> HIDE DEF list
  <2> QED BY <1>3, <2>1, <2>2, <2>3, <2>4 DEF End
<1>5. \A q \in Keys : activation'[q] = IF q = k THEN t + 1 ELSE activation[q]
  BY <1>1, <1>2
<1>6. /\ g \in FrameType /\ g.key = k /\ g.next = activation[k] /\ ~g.invalidated /\ g.i = FirstOf(k)
      /\ ~g.calling /\ g.called = {} /\ g.snapshot = snap
  BY <1>2, <1>4 DEF FrameType
<1> HIDE DEF g
<1>7. /\ stack' \in Seq(FrameType) /\ Len(stack') = t + 1 /\ DOMAIN stack' = 1 .. t + 1
      /\ stack'[t + 1] = g /\ \A p \in 1 .. t : stack'[p] = stack[p]
  BY <1>1, <1>2, <1>6
<1> HIDE DEF t
<1>8. /\ activation[k] \in 0 .. t
      /\ activation[k] # 0 => stack[activation[k]].key = k
      /\ \A p \in 1 .. t : stack[p].key = k => p <= activation[k] /\ ~stack[p].invalidated
  BY <1>1, <1>2 DEF EmitInv, Activations, t
<1>9. \A p \in 1 .. t : stack[p].calling
  <2> SUFFICES ASSUME NEW p \in 1 .. t PROVE stack[p].calling
    OBVIOUS
  <2>1. CASE p = t
    <3>1. stack # <<>>
      BY <1>2
    <3> QED BY <1>1, <2>1, <3>1 DEF UserCode, Top, t
  <2>2. CASE p < t
    BY <1>2, <2>2 DEF EmitInv, Chain, t
  <2> QED BY <1>2, <2>1, <2>2
<1>10. /\ \A p \in 1 .. t : p \in 1 .. t + 1 /\ p # t + 1 /\ p < t + 1
       /\ \A p \in 1 .. t + 1 : p \in 1 .. t \/ p = t + 1
       /\ t + 1 \in 1 .. t + 1 /\ ~(t + 1 < t + 1)
  BY <1>2
<1>11. Typed'
  <2>1. activation' \in [Keys -> Nat]
    BY <1>1, <1>2
  <2> QED BY <1>1, <1>7, <2>1 DEF EmitInv, Typed
<1>12. IdsUnique' /\ Dirt'
  <2>1. \A q \in Keys : activation'[q] = 0 => activation[q] = 0
    BY <1>2, <1>5
  <2> QED BY <1>1, <2>1 DEF EmitInv, IdsUnique, Dirt
<1>13. Chain'
  <2> DEFINE Linked(p) == /\ p < t + 1 => stack'[p].calling
                          /\ stack'[p].next < p
                          /\ stack'[p].next # 0 => stack'[stack'[p].next].key = stack'[p].key
                          /\ \A q \in 1 .. t + 1 : q < p /\ stack'[q].key = stack'[p].key => q <= stack'[p].next
  <2>1. ASSUME NEW p \in 1 .. t PROVE Linked(p)
    <3>1. /\ stack[p].next < p
          /\ stack[p].next # 0 => stack[stack[p].next].key = stack[p].key
          /\ \A q \in 1 .. t : q < p /\ stack[q].key = stack[p].key => q <= stack[p].next
      BY <1>2 DEF EmitInv, Chain
    <3>2. stack[p].next \in Nat
      <4>1. stack[p] \in FrameType
        BY <1>2
      <4> QED BY <4>1 DEF FrameType
    <3>3. stack[p].next # 0 => stack[p].next \in 1 .. t
      BY <1>2, <3>1, <3>2
    <3>4. \A q \in 1 .. t + 1 : q < p => q \in 1 .. t
      BY <1>2
    <3> QED BY <1>7, <1>9, <3>1, <3>3, <3>4
  <2>2. Linked(t + 1)
    <3>1. g.next < t + 1 /\ (g.next # 0 => g.next \in 1 .. t)
      BY <1>2, <1>6, <1>8
    <3>2. g.next # 0 => stack'[g.next].key = k
      BY <1>6, <1>7, <1>8, <3>1
    <3>3. \A q \in 1 .. t : stack'[q].key = k => q <= g.next
      BY <1>6, <1>7, <1>8
    <3> QED BY <1>6, <1>7, <1>10, <3>1, <3>2, <3>3
  <2>3. (~UserCode => Live(Top.key))'
    <3>1. Top' = g
      BY <1>7 DEF Top
    <3> QED BY <1>1, <1>6, <3>1 DEF Live
  <2>4. \A p \in 1 .. t + 1 : Linked(p)
    BY <1>10, <2>1, <2>2
  <2> QED BY <1>7, <2>3, <2>4 DEF Chain
<1>14. Activations'
  <2> SUFFICES ASSUME NEW q \in Keys
      PROVE
    /\ Live(q) => /\ activation'[q] \in 0 .. t + 1
                  /\ activation'[q] # 0 => stack'[activation'[q]].key = q
                  /\ \A p \in 1 .. t + 1 : stack'[p].key = q => p <= activation'[q] /\ ~stack'[p].invalidated
    /\ ~Live(q) => /\ activation'[q] = 0 /\ slots[q] = <<>> /\ ~dirty[q]
                   /\ \A p \in 1 .. t + 1 :
                        /\ stack'[p].key = q
                        /\ \A r \in 1 .. t + 1 : stack'[r].key = q => r <= p
                        => stack'[p].invalidated
    BY <1>1, <1>7 DEF Activations, Live
  <2>1. CASE q = k
    <3>1. activation'[q] = t + 1 /\ Live(q)
      BY <1>1, <1>5, <2>1
    <3>2. \A p \in 1 .. t + 1 : p <= t + 1
      BY <1>2
    <3>3. t + 1 \in 0 .. t + 1
      BY <1>2
    <3> QED BY <1>6, <1>7, <1>8, <1>10, <2>1, <3>1, <3>2, <3>3
  <2>2. CASE q # k
    <3>1. activation'[q] = activation[q]
      BY <1>5, <2>2
    <3>2. \A p \in 1 .. t + 1 : stack'[p].key = q => p \in 1 .. t /\ stack'[p] = stack[p]
      BY <1>6, <1>7, <1>10, <2>2
    <3>3. CASE Live(q)
      <4>1. /\ activation[q] \in 0 .. t
            /\ activation[q] # 0 => stack[activation[q]].key = q
            /\ \A p \in 1 .. t : stack[p].key = q => p <= activation[q] /\ ~stack[p].invalidated
        BY <1>2, <3>3 DEF EmitInv, Activations, t
      <4>2. activation[q] \in 0 .. t + 1 /\ (activation[q] # 0 => activation[q] \in 1 .. t)
        BY <1>2, <4>1
      <4> QED BY <1>7, <3>1, <3>2, <3>3, <4>1, <4>2
    <3>4. CASE ~Live(q)
      <4>1. /\ activation[q] = 0 /\ slots[q] = <<>> /\ ~dirty[q]
            /\ \A p \in 1 .. t : /\ stack[p].key = q
                                 /\ \A r \in 1 .. t : stack[r].key = q => r <= p
                                 => stack[p].invalidated
        BY <1>2, <3>4 DEF EmitInv, Activations
      <4>2. \A r \in 1 .. t : r \in 1 .. t + 1 /\ stack'[r] = stack[r]
        BY <1>7, <1>10
      <4> QED BY <3>1, <3>2, <3>4, <4>1, <4>2
    <3> QED BY <3>3, <3>4
  <2> QED BY <2>1, <2>2
<1>15. Loops'
  <2> SUFFICES ASSUME NEW p \in 1 .. t + 1, Live(stack'[p].key)
               PROVE  LoopOk(stack'[p], slots[stack'[p].key])
    BY <1>1, <1>7 DEF Loops, Live
  <2>1. CASE p \in 1 .. t
    BY <1>2, <1>7, <2>1 DEF EmitInv, Loops
  <2>2. LoopOk(g, list)
    <3>1. \A j \in DOMAIN list : ~Passed(g, list, j)
      <4> SUFFICES ASSUME NEW j \in DOMAIN list PROVE ~Passed(g, list, j)
        OBVIOUS
      <4>1. 1 \in DOMAIN list /\ g.i = list[1].id /\ g.i # End
        BY <1>3, <1>4, <1>6 DEF End
      <4>2. ~(j < 1)
        BY <1>3
      <4> HIDE DEF list
      <4>3. \A m \in DOMAIN list : list[m].id = g.i => m = 1
        BY <1>2, <4>1 DEF Unique
      <4> QED BY <1>6, <4>1, <4>2, <4>3 DEF Passed
    <3>2. \A j \in DOMAIN list : list[j].state = "connected" => list[j].id \in g.snapshot
      BY <1>3, <1>6
    <3>3. g.i # End => \E j \in DOMAIN list : list[j].id = g.i
      BY <1>4, <1>6
    <3> HIDE DEF list
    <3> QED BY <1>6, <3>1, <3>2, <3>3 DEF LoopOk
  <2>3. CASE p = t + 1
    BY <1>6, <1>7, <2>2, <2>3
  <2> QED BY <1>10, <2>1, <2>3
<1> QED BY <1>11, <1>12, <1>13, <1>14, <1>15 DEF EmitInv

\* Whether a loop is right does not depend on the chain of the frames.
LEMMA SameLoop ==
  ASSUME NEW f, NEW g, NEW list, LoopOk(f, list),
         g.i = f.i, g.calling = f.calling, g.called = f.called, g.snapshot = f.snapshot
  PROVE  LoopOk(g, list)
<1>1. \A j : Passed(g, list, j) <=> Passed(f, list, j)
  BY DEF Passed
<1> QED BY <1>1 DEF LoopOk

\* When the innermost emit() is left, the others are in slots.
LEMMA PopChain ==
  ASSUME EmitInv, stack # <<>>, stack' \in Seq(FrameType), Len(stack') = Len(stack) - 1,
         \A p \in 1 .. Len(stack) - 1 :
           stack'[p].key = stack[p].key /\ stack'[p].next = stack[p].next /\ stack'[p].calling = stack[p].calling
  PROVE  Chain'
<1> DEFINE t == Len(stack)
<1>1. t \in Nat /\ t \in 1 .. t /\ DOMAIN stack = 1 .. t /\ DOMAIN stack' = 1 .. t - 1 /\ stack \in Seq(FrameType)
  <2>1. stack \in Seq(FrameType)
    BY DEF EmitInv, Typed
  <2> QED BY <2>1
<1>2. \A p \in 1 .. t - 1 : p \in 1 .. t /\ p < t
  BY <1>1
<1> HIDE DEF t
<1>3. ASSUME NEW p \in 1 .. t - 1
      PROVE  /\ stack'[p].calling
             /\ stack'[p].next < p
             /\ stack'[p].next # 0 => stack'[stack'[p].next].key = stack'[p].key
             /\ \A q \in 1 .. t - 1 : q < p /\ stack'[q].key = stack'[p].key => q <= stack'[p].next
  <2>1. /\ stack[p].calling
        /\ stack[p].next < p
        /\ stack[p].next # 0 => stack[stack[p].next].key = stack[p].key
        /\ \A q \in 1 .. t : q < p /\ stack[q].key = stack[p].key => q <= stack[p].next
    BY <1>1, <1>2 DEF EmitInv, Chain, t
  <2>2. stack[p].next \in Nat
    <3>1. stack[p] \in FrameType
      BY <1>1, <1>2
    <3> QED BY <3>1 DEF FrameType
  <2>3. stack[p].next # 0 => stack[p].next \in 1 .. t - 1
    BY <1>1, <2>1, <2>2
  <2>4. stack'[p].key = stack[p].key /\ stack'[p].next = stack[p].next /\ stack'[p].calling = stack[p].calling
    BY DEF t
  <2>5. \A q \in 1 .. t - 1 : stack'[q].key = stack[q].key
    BY DEF t
  <2>6. stack'[p].next # 0 => stack'[stack'[p].next].key = stack'[p].key
    BY <2>1, <2>3, <2>4, <2>5
  <2>7. \A q \in 1 .. t - 1 : q < p /\ stack'[q].key = stack'[p].key => q <= stack'[p].next
    BY <1>2, <2>1, <2>4, <2>5
  <2> QED BY <2>1, <2>4, <2>6, <2>7
<1>4. UserCode'
  <2>1. CASE stack' = <<>>
    BY <2>1 DEF UserCode
  <2>2. CASE stack' # <<>>
    <3>1. t - 1 \in 1 .. t - 1 /\ Len(stack') = t - 1
      BY <1>1, <2>2 DEF t
    <3>2. Top' = stack'[t - 1]
      BY <3>1 DEF Top
    <3> QED BY <1>3, <3>1, <3>2 DEF UserCode
  <2> QED BY <2>1, <2>2
<1> QED BY <1>1, <1>3, <1>4 DEF Chain

\* A slot returns to an emit() whose emitter is gone, which tells the emit() around it.
LEMMA EmitReturnInvalidated ==
  ASSUME EmitInv, ReturnInvalidated PROVE EmitInv'
<1> DEFINE t == Len(stack)
           f == Top
           g(p) == [stack[p] EXCEPT !.invalidated = stack[p].invalidated \/ p = f.next]
<1>1. /\ stack # <<>> /\ f.invalidated /\ stack' = [p \in 1 .. t - 1 |-> g(p)]
      /\ UNCHANGED <<emitters, listeners, slots, activation, dirty, slotData>>
  BY DEF ReturnInvalidated, signalVars
<1>2. /\ t \in Nat /\ t \in 1 .. t /\ DOMAIN stack = 1 .. t /\ f = stack[t] /\ f \in FrameType /\ f.key \in Keys
      /\ t - 1 \in Nat
  BY <1>1, TopTyped
<1> HIDE DEF t
<1>3. \A p \in 1 .. t - 1 : p \in 1 .. t /\ p # t /\ p <= t
  BY <1>2
<1>4. ASSUME NEW p \in 1 .. t - 1
      PROVE  /\ g(p) \in FrameType /\ g(p).key = stack[p].key /\ g(p).next = stack[p].next /\ g(p).i = stack[p].i
             /\ g(p).calling = stack[p].calling /\ g(p).called = stack[p].called
             /\ g(p).snapshot = stack[p].snapshot
             /\ g(p).invalidated = (stack[p].invalidated \/ p = f.next)
  <2>1. stack[p] \in FrameType
    <3>1. stack \in Seq(FrameType)
      BY DEF EmitInv, Typed
    <3>2. p \in DOMAIN stack
      BY <1>2, <1>3
    <3> QED BY <3>1, <3>2
  <2> HIDE DEF f
  <2> QED BY <2>1 DEF FrameType
<1> HIDE DEF f, g
<1>5. stack' \in Seq(FrameType) /\ Len(stack') = t - 1 /\ DOMAIN stack' = 1 .. t - 1
      /\ \A p \in 1 .. t - 1 : stack'[p] = g(p)
  <2>1. stack' \in [1 .. t - 1 -> FrameType] /\ \A p \in 1 .. t - 1 : stack'[p] = g(p)
    BY <1>1, <1>4
  <2> QED BY <1>2, <2>1
<1>6. ~Live(f.key)
  BY <1>1, <1>2 DEF EmitInv, Activations
<1>7. Typed'
  BY <1>1, <1>5 DEF EmitInv, Typed
<1>8. IdsUnique' /\ Dirt'
  BY <1>1 DEF EmitInv, IdsUnique, Dirt
<1>9. Chain'
  BY <1>1, <1>4, <1>5, PopChain DEF t
<1>10. /\ \A q \in 1 .. t : q < t /\ stack[q].key = f.key => q <= f.next
       /\ f.next # 0 => stack[f.next].key = f.key
       /\ f.next < t /\ f.next \in Nat
  BY <1>2 DEF EmitInv, Chain, FrameType
<1>11. Activations'
  <2> SUFFICES ASSUME NEW k \in Keys
      PROVE
    /\ Live(k) => /\ activation[k] \in 0 .. t - 1
                  /\ activation[k] # 0 => stack'[activation[k]].key = k
                  /\ \A p \in 1 .. t - 1 : stack'[p].key = k => p <= activation[k] /\ ~stack'[p].invalidated
    /\ ~Live(k) => /\ activation[k] = 0 /\ slots[k] = <<>> /\ ~dirty[k]
                   /\ \A p \in 1 .. t - 1 :
                        /\ stack'[p].key = k
                        /\ \A q \in 1 .. t - 1 : stack'[q].key = k => q <= p
                        => stack'[p].invalidated
    BY <1>1, <1>5 DEF Activations, Live
  <2>1. CASE Live(k)
    <3>1. /\ activation[k] \in 0 .. t
          /\ activation[k] # 0 => stack[activation[k]].key = k
          /\ \A p \in 1 .. t : stack[p].key = k => p <= activation[k] /\ ~stack[p].invalidated
      BY <1>2, <2>1 DEF EmitInv, Activations, t
    <3>2. k # f.key
      BY <1>6, <2>1
    <3>3. activation[k] # t
      BY <1>2, <3>1, <3>2
    <3>4. activation[k] \in 0 .. t - 1 /\ (activation[k] # 0 => activation[k] \in 1 .. t - 1)
      BY <1>2, <3>1, <3>3
    <3>5. \A p \in 1 .. t - 1 : stack'[p].key = stack[p].key
      BY <1>4, <1>5
    <3>6. ASSUME NEW p \in 1 .. t - 1, stack'[p].key = k PROVE p <= activation[k] /\ ~stack'[p].invalidated
      <4>1. stack[p].key = k /\ p \in 1 .. t
        BY <1>3, <3>5, <3>6
      <4>2. p # f.next
        <5>1. p # 0
          BY <1>2
        <5> QED BY <1>10, <3>2, <4>1, <5>1
      <4>3. ~stack[p].invalidated /\ p <= activation[k]
        BY <3>1, <4>1
      <4>4. stack'[p].invalidated = (stack[p].invalidated \/ p = f.next)
        BY <1>4, <1>5
      <4> QED BY <4>2, <4>3, <4>4
    <3> QED BY <2>1, <3>1, <3>4, <3>5, <3>6
  <2>2. CASE ~Live(k)
    <3>1. /\ activation[k] = 0 /\ slots[k] = <<>> /\ ~dirty[k]
          /\ \A p \in 1 .. t : /\ stack[p].key = k
                               /\ \A q \in 1 .. t : stack[q].key = k => q <= p
                               => stack[p].invalidated
      BY <1>2, <2>2 DEF EmitInv, Activations
    <3>2. ASSUME NEW p \in 1 .. t - 1, stack'[p].key = k,
                 \A q \in 1 .. t - 1 : stack'[q].key = k => q <= p
          PROVE  stack'[p].invalidated
      <4>1. \A q \in 1 .. t - 1 : stack'[q].key = stack[q].key
        BY <1>4, <1>5
      <4>2. stack'[p].invalidated = (stack[p].invalidated \/ p = f.next)
        BY <1>4, <1>5
      <4>3. p \in 1 .. t /\ stack[p].key = k /\ p < t
        BY <1>2, <1>3, <3>2, <4>1
      <4>4. CASE k = f.key
        <5>1. p <= f.next
          BY <1>10, <4>3, <4>4
        <5>2. f.next # 0 /\ f.next \in 1 .. t - 1
          BY <1>2, <1>10, <4>3, <5>1
        <5>3. f.next <= p
          BY <1>10, <3>2, <4>1, <4>4, <5>2
        <5>4. p = f.next
          BY <1>2, <1>10, <4>3, <5>1, <5>3
        <5> QED BY <4>2, <5>4
      <4>5. CASE k # f.key
        <5>1. ASSUME NEW q \in 1 .. t, stack[q].key = k PROVE q <= p
          <6>1. q # t
            BY <1>2, <4>5, <5>1
          <6>2. q \in 1 .. t - 1
            BY <1>2, <6>1
          <6> QED BY <3>2, <4>1, <5>1, <6>2
        <5> QED BY <3>1, <4>2, <4>3, <5>1
      <4> QED BY <4>4, <4>5
    <3> QED BY <2>2, <3>1, <3>2
  <2> QED BY <2>1, <2>2
<1>12. Loops'
  <2> SUFFICES ASSUME NEW p \in 1 .. t - 1, Live(stack'[p].key)
               PROVE  LoopOk(stack'[p], slots[stack'[p].key])
    BY <1>1, <1>5 DEF Loops, Live
  <2>1. /\ stack'[p].key = stack[p].key /\ stack'[p].i = stack[p].i /\ stack'[p].calling = stack[p].calling
        /\ stack'[p].called = stack[p].called /\ stack'[p].snapshot = stack[p].snapshot
    BY <1>4, <1>5
  <2>2. LoopOk(stack[p], slots[stack[p].key])
    BY <1>2, <1>3, <2>1 DEF EmitInv, Loops
  <2> QED BY <2>1, <2>2, SameLoop
<1> QED BY <1>7, <1>8, <1>9, <1>11, <1>12 DEF EmitInv

\* emit() is done.
LEMMA EmitEmitEnd ==
  ASSUME EmitInv, EmitEnd PROVE EmitInv'
<1> DEFINE t == Len(stack)
           f == Top
           k == f.key
<1>1. /\ stack # <<>> /\ ~UserCode /\ stack' = Front(stack)
      /\ activation' = [activation EXCEPT ![k] = f.next]
      /\ IF f.next = 0 /\ dirty[k]
         THEN slots' = [slots EXCEPT ![k] = Settled(slots[k])] /\ dirty' = [dirty EXCEPT ![k] = FALSE]
         ELSE UNCHANGED <<slots, dirty>>
      /\ UNCHANGED <<emitters, listeners, slotData>>
  BY DEF EmitEnd, UserCode
<1>2. /\ t \in Nat /\ t \in 1 .. t /\ DOMAIN stack = 1 .. t /\ f = stack[t] /\ f \in FrameType /\ k \in Keys
      /\ slots[k] \in Seq(NodeType) /\ Unique(slots[k]) /\ t - 1 \in Nat
  BY <1>1, TopTyped
<1>3. /\ stack' \in Seq(FrameType) /\ Len(stack') = t - 1 /\ DOMAIN stack' = 1 .. t - 1
      /\ \A p \in 1 .. t - 1 : stack'[p] = stack[p]
  <2>1. stack \in Seq(FrameType)
    BY DEF EmitInv, Typed
  <2>2. stack' = SubSeq(stack, 1, t - 1)
    BY <1>1 DEF Front
  <2>3. t = Len(stack)
    OBVIOUS
  <2> HIDE DEF t
  <2>4. stack' \in Seq(FrameType) /\ Len(stack') = t - 1
    BY <1>2, <2>1, <2>2, <2>3
  <2>5. \A p \in 1 .. t - 1 : stack'[p] = stack[p]
    BY <1>2, <2>1, <2>2, <2>3
  <2> QED BY <2>4, <2>5
<1>4. Live(k)
  BY <1>1 DEF EmitInv, Chain
<1>5. slots \in [Keys -> Seq(NodeType)] /\ dirty \in [Keys -> BOOLEAN] /\ activation \in [Keys -> Nat]
  BY DEF EmitInv, Typed
<1> HIDE DEF t, f, k
<1>6. \A p \in 1 .. t - 1 : p \in 1 .. t /\ p # t /\ p < t
  BY <1>2
<1>7. /\ f.next < t /\ f.next \in Nat
      /\ f.next # 0 => stack[f.next].key = k
      /\ \A q \in 1 .. t : q < t /\ stack[q].key = k => q <= f.next
  BY <1>2 DEF EmitInv, Chain, FrameType, k
<1> DEFINE new == IF f.next = 0 /\ dirty[k] THEN Settled(slots[k]) ELSE slots[k]
<1>8. /\ slots' \in [Keys -> Seq(NodeType)] /\ \A q \in Keys : slots'[q] = IF q = k THEN new ELSE slots[q]
      /\ new \in Seq(NodeType) /\ Unique(new)
  <2>1. Settled(slots[k]) \in Seq(NodeType) /\ Unique(Settled(slots[k]))
    BY <1>2, SettledList
  <2> QED BY <1>1, <1>2, <1>5, <2>1
<1>9. /\ dirty' \in [Keys -> BOOLEAN]
      /\ \A q \in Keys : dirty'[q] = IF q = k /\ f.next = 0 THEN FALSE ELSE dirty[q]
  BY <1>1, <1>2, <1>5
<1>10. activation' \in [Keys -> Nat] /\ \A q \in Keys : activation'[q] = IF q = k THEN f.next ELSE activation[q]
  BY <1>1, <1>2, <1>5, <1>7
<1>11. f.next = 0 => \A i \in DOMAIN new : new[i].state = "connected"
  <2>1. ~dirty[k] => \A i \in DOMAIN slots[k] : slots[k][i].state = "connected"
    BY <1>2 DEF EmitInv, Dirt
  <2> QED BY <1>2, <2>1, SettledList
<1> HIDE DEF new
<1>12. Typed'
  BY <1>1, <1>3, <1>8, <1>9, <1>10 DEF EmitInv, Typed
<1>13. IdsUnique'
  <2> SUFFICES ASSUME NEW q \in Keys PROVE Unique(slots'[q])
    BY DEF IdsUnique, Unique
  <2>1. Unique(slots[q])
    BY DEF EmitInv, IdsUnique, Unique
  <2> QED BY <1>8, <2>1
<1>14. Dirt'
  <2> SUFFICES ASSUME NEW q \in Keys
               PROVE  /\ ~dirty'[q] => \A i \in DOMAIN slots'[q] : slots'[q][i].state = "connected"
                      /\ activation'[q] = 0 => ~dirty'[q]
    BY DEF Dirt
  <2>1. CASE q = k /\ f.next = 0
    <3>1. slots'[q] = new /\ ~dirty'[q]
      BY <1>8, <1>9, <2>1
    <3> QED BY <1>11, <2>1, <3>1
  <2>2. CASE q = k /\ f.next # 0
    <3>1. slots'[q] = slots[q] /\ dirty'[q] = dirty[q] /\ activation'[q] # 0
      BY <1>8, <1>9, <1>10, <2>2 DEF new
    <3> QED BY <3>1 DEF EmitInv, Dirt
  <2>3. CASE q # k
    <3>1. slots'[q] = slots[q] /\ dirty'[q] = dirty[q] /\ activation'[q] = activation[q]
      BY <1>8, <1>9, <1>10, <2>3
    <3> QED BY <3>1 DEF EmitInv, Dirt
  <2> QED BY <2>1, <2>2, <2>3
<1>15. Chain'
  BY <1>1, <1>3, PopChain DEF t
<1>16. Activations'
  <2> SUFFICES ASSUME NEW q \in Keys
      PROVE
    /\ Live(q) => /\ activation'[q] \in 0 .. t - 1
                  /\ activation'[q] # 0 => stack'[activation'[q]].key = q
                  /\ \A p \in 1 .. t - 1 : stack'[p].key = q => p <= activation'[q] /\ ~stack'[p].invalidated
    /\ ~Live(q) => /\ activation'[q] = 0 /\ slots'[q] = <<>> /\ ~dirty'[q]
                   /\ \A p \in 1 .. t - 1 :
                        /\ stack'[p].key = q
                        /\ \A r \in 1 .. t - 1 : stack'[r].key = q => r <= p
                        => stack'[p].invalidated
    BY <1>1, <1>3 DEF Activations, Live
  <2>1. CASE q = k
    <3>1. activation'[q] = f.next /\ Live(q)
      BY <1>4, <1>10, <2>1
    <3>2. f.next \in 0 .. t - 1 /\ (f.next # 0 => f.next \in 1 .. t - 1)
      BY <1>2, <1>7
    <3>3. \A p \in 1 .. t : stack[p].key = q => ~stack[p].invalidated
      BY <1>2, <3>1 DEF EmitInv, Activations
    <3> QED BY <1>3, <1>6, <1>7, <2>1, <3>1, <3>2, <3>3
  <2>2. CASE q # k /\ Live(q)
    <3>1. /\ activation[q] \in 0 .. t
          /\ activation[q] # 0 => stack[activation[q]].key = q
          /\ \A p \in 1 .. t : stack[p].key = q => p <= activation[q] /\ ~stack[p].invalidated
      BY <1>2, <2>2 DEF EmitInv, Activations, t
    <3>2. activation[q] # t
      BY <1>2, <2>2, <3>1 DEF k
    <3>3. activation[q] \in 0 .. t - 1 /\ (activation[q] # 0 => activation[q] \in 1 .. t - 1)
      BY <1>2, <3>1, <3>2
    <3>4. activation'[q] = activation[q]
      BY <1>10, <2>2
    <3> QED BY <1>3, <1>6, <2>2, <3>1, <3>3, <3>4
  <2>3. CASE q # k /\ ~Live(q)
    <3>1. /\ activation[q] = 0 /\ slots[q] = <<>> /\ ~dirty[q]
          /\ \A p \in 1 .. t : /\ stack[p].key = q
                               /\ \A r \in 1 .. t : stack[r].key = q => r <= p
                               => stack[p].invalidated
      BY <1>2, <2>3 DEF EmitInv, Activations
    <3>2. activation'[q] = activation[q] /\ slots'[q] = slots[q] /\ dirty'[q] = dirty[q]
      BY <1>8, <1>9, <1>10, <2>3
    <3>3. \A r \in 1 .. t : stack[r].key = q => r \in 1 .. t - 1
      BY <1>2, <2>3 DEF k
    <3> QED BY <1>3, <1>6, <2>3, <3>1, <3>2, <3>3
  <2> QED BY <1>4, <2>1, <2>2, <2>3
<1>17. Loops'
  <2> SUFFICES ASSUME NEW p \in 1 .. t - 1, Live(stack'[p].key)
               PROVE  LoopOk(stack'[p], slots'[stack'[p].key])
    BY <1>1, <1>3 DEF Loops, Live
  <2>1. stack'[p] = stack[p] /\ LoopOk(stack[p], slots[stack[p].key]) /\ stack[p].key \in Keys
    <3>1. stack'[p] = stack[p] /\ p \in 1 .. t /\ stack[p] \in FrameType
      <4>1. stack' \in Seq(FrameType) /\ p \in DOMAIN stack'
        BY <1>3
      <4> QED BY <1>3, <1>6, <4>1
    <3>2. stack[p].key \in Keys
      BY <3>1 DEF FrameType
    <3> QED BY <1>2, <3>1, <3>2 DEF EmitInv, Loops
  <2>2. stack[p].key = k => f.next # 0
    <3>1. stack[p].key = k => p <= f.next
      BY <1>6, <1>7
    <3>2. p \in Nat /\ p > 0
      BY <1>2
    <3> QED BY <1>7, <3>1, <3>2
  <2>3. slots'[stack[p].key] = slots[stack[p].key]
    BY <1>8, <2>1, <2>2 DEF new
  <2> QED BY <2>1, <2>3
<1> QED BY <1>12, <1>13, <1>14, <1>15, <1>16, <1>17 DEF EmitInv

\* ~Emitter leaves a listener a list of entries.
LEMMA ForgottenTyped ==
  ASSUME Typed, NEW l \in Listeners, NEW e \in Emitters PROVE Forgotten(l, e) \in Seq(EntryType)
<1>1. slotData[l][e] \in Seq(EntryType)
  BY DEF Typed
<1>2. \A s \in Signals : Len(slots[<<e, s>>]) \in Nat
  <2>1. \A s \in Signals : slots[<<e, s>>] \in Seq(NodeType)
    BY DEF Typed, Keys
  <2> QED BY <2>1
<1>3. IsFiniteSet(Signals)
  BY CallbackAssumption
<1>4. PICK h \in [0 .. Len(Order) -> Seq(EntryType)] : Forgotten(l, e) = h[Len(Order)]
  BY <1>1, <1>2, <1>3, ForgottenLoop
<1>5. Len(Order) \in 0 .. Len(Order)
  BY <1>3, OrderOfSignals
<1> QED BY <1>4, <1>5

\* ~Emitter
LEMMA EmitDeleteEmitter ==
  ASSUME EmitInv, NEW e \in Emitters, DeleteEmitter(e) PROVE EmitInv'
<1> DEFINE t == Len(stack)
           g(p) == [stack[p] EXCEPT !.invalidated = stack[p].invalidated \/ \E k \in KeysOf(e) : activation[k] = p]
<1>1. /\ UserCode /\ e \in emitters /\ emitters' = emitters \ {e}
      /\ slotData' = [l \in Listeners |-> [slotData[l] EXCEPT ![e] = Forgotten(l, e)]]
      /\ stack' = [p \in DOMAIN stack |-> g(p)]
      /\ slots' = [k \in Keys |-> IF k[1] = e THEN <<>> ELSE slots[k]]
      /\ activation' = [k \in Keys |-> IF k[1] = e THEN 0 ELSE activation[k]]
      /\ dirty' = [k \in Keys |-> k[1] # e /\ dirty[k]]
      /\ UNCHANGED listeners
  BY DEF DeleteEmitter
<1>2. /\ stack \in Seq(FrameType) /\ slots \in [Keys -> Seq(NodeType)] /\ activation \in [Keys -> Nat]
      /\ dirty \in [Keys -> BOOLEAN] /\ slotData \in [Listeners -> [Emitters -> Seq(EntryType)]]
      /\ emitters \subseteq Emitters /\ listeners \subseteq Listeners
  BY DEF EmitInv, Typed
<1>3. t \in Nat /\ DOMAIN stack = 1 .. t
  BY <1>2
<1> HIDE DEF t
<1>4. ASSUME NEW p \in 1 .. t
      PROVE  /\ g(p) \in FrameType /\ g(p).key = stack[p].key /\ g(p).next = stack[p].next /\ g(p).i = stack[p].i
             /\ g(p).calling = stack[p].calling /\ g(p).called = stack[p].called
             /\ g(p).snapshot = stack[p].snapshot
             /\ g(p).invalidated = (stack[p].invalidated \/ \E k \in KeysOf(e) : activation[k] = p)
  <2> DEFINE b == stack[p].invalidated \/ \E k \in KeysOf(e) : activation[k] = p
  <2>1. stack[p] \in FrameType
    BY <1>2, <1>3
  <2>2. b \in BOOLEAN /\ g(p) = [stack[p] EXCEPT !.invalidated = b]
    BY <2>1 DEF FrameType
  <2>3. g(p).invalidated = b
    <3> HIDE DEF b, g
    <3> QED BY <2>1, <2>2 DEF FrameType
  <2> HIDE DEF b, g
  <2>4. /\ g(p) \in FrameType /\ g(p).key = stack[p].key /\ g(p).next = stack[p].next /\ g(p).i = stack[p].i
        /\ g(p).calling = stack[p].calling /\ g(p).called = stack[p].called
        /\ g(p).snapshot = stack[p].snapshot
    BY <2>1, <2>2 DEF FrameType
  <2> QED BY <2>3, <2>4 DEF b
<1> HIDE DEF g
<1>5. /\ stack' \in Seq(FrameType) /\ Len(stack') = t /\ DOMAIN stack' = 1 .. t
      /\ \A p \in 1 .. t : stack'[p] = g(p)
  <2>1. stack' \in [1 .. t -> FrameType] /\ \A p \in 1 .. t : stack'[p] = g(p)
    BY <1>1, <1>3, <1>4
  <2> QED BY <1>3, <2>1
<1>6. \A p \in 1 .. t :
        /\ stack'[p].key = stack[p].key /\ stack'[p].next = stack[p].next /\ stack'[p].i = stack[p].i
        /\ stack'[p].calling = stack[p].calling /\ stack'[p].called = stack[p].called
        /\ stack'[p].snapshot = stack[p].snapshot
        /\ stack'[p].invalidated = (stack[p].invalidated \/ \E k \in KeysOf(e) : activation[k] = p)
  BY <1>4, <1>5
<1>7. \A k \in Keys : k \in KeysOf(e) <=> k[1] = e
  BY DEF Keys, KeysOf
<1>8. KeysOf(e) \subseteq Keys
  BY DEF Keys, KeysOf
<1>9. \A k \in Keys : Live(k)' <=> Live(k) /\ k[1] # e
  BY <1>1 DEF Live
<1>10. Typed'
  <2>1. slotData' \in [Listeners -> [Emitters -> Seq(EntryType)]]
    <3>1. ASSUME NEW l \in Listeners PROVE Forgotten(l, e) \in Seq(EntryType)
      BY ForgottenTyped DEF EmitInv
    <3> QED BY <1>1, <1>2, <3>1
  <2>2. slots' \in [Keys -> Seq(NodeType)] /\ activation' \in [Keys -> Nat] /\ dirty' \in [Keys -> BOOLEAN]
    BY <1>1, <1>2
  <2> QED BY <1>1, <1>2, <1>5, <2>1, <2>2 DEF Typed
<1>11. IdsUnique'
  <2> SUFFICES ASSUME NEW k \in Keys PROVE Unique(slots'[k])
    BY DEF IdsUnique, Unique
  <2>1. slots'[k] = <<>> \/ slots'[k] = slots[k]
    BY <1>1
  <2>2. Unique(slots[k])
    BY DEF EmitInv, IdsUnique, Unique
  <2> QED BY <2>1, <2>2 DEF Unique
<1>12. Dirt'
  <2> SUFFICES ASSUME NEW k \in Keys
               PROVE  /\ ~dirty'[k] => \A i \in DOMAIN slots'[k] : slots'[k][i].state = "connected"
                      /\ activation'[k] = 0 => ~dirty'[k]
    BY DEF Dirt
  <2>1. CASE k[1] = e
    <3>1. slots'[k] = <<>> /\ dirty'[k] = FALSE
      BY <1>1, <2>1
    <3> QED BY <3>1
  <2>2. CASE k[1] # e
    <3>1. slots'[k] = slots[k] /\ activation'[k] = activation[k] /\ (dirty'[k] <=> dirty[k])
      BY <1>1, <2>2
    <3> QED BY <3>1 DEF EmitInv, Dirt
  <2> QED BY <2>1, <2>2
<1>13. Chain'
  <2>1. ASSUME NEW p \in 1 .. t
        PROVE  /\ p < t => stack'[p].calling
               /\ stack'[p].next < p
               /\ stack'[p].next # 0 => stack'[stack'[p].next].key = stack'[p].key
               /\ \A q \in 1 .. t : q < p /\ stack'[q].key = stack'[p].key => q <= stack'[p].next
    <3>1. /\ p < t => stack[p].calling
          /\ stack[p].next < p
          /\ stack[p].next # 0 => stack[stack[p].next].key = stack[p].key
          /\ \A q \in 1 .. t : q < p /\ stack[q].key = stack[p].key => q <= stack[p].next
      BY <1>3 DEF EmitInv, Chain, t
    <3>2. stack[p].next \in Nat
      <4>1. stack[p] \in FrameType
        BY <1>2, <1>3
      <4> QED BY <4>1 DEF FrameType
    <3>3. stack[p].next # 0 => stack[p].next \in 1 .. t
      BY <1>3, <3>1, <3>2
    <3> QED BY <1>6, <3>1, <3>3
  <2>2. UserCode'
    <3>1. CASE t = 0
      BY <1>5, <3>1 DEF UserCode
    <3>2. CASE t # 0
      <4>1. t \in 1 .. t /\ Top' = stack'[t] /\ Top = stack[t] /\ stack # <<>>
        BY <1>2, <1>3, <1>5, <3>2 DEF Top, t
      <4> QED BY <1>1, <1>6, <4>1 DEF UserCode
    <3> QED BY <3>1, <3>2
  <2> QED BY <1>5, <2>1, <2>2 DEF Chain
<1>14. Activations'
  <2> SUFFICES ASSUME NEW k \in Keys
      PROVE
    /\ Live(k)' => /\ activation'[k] \in 0 .. t
                   /\ activation'[k] # 0 => stack'[activation'[k]].key = k
                   /\ \A p \in 1 .. t : stack'[p].key = k => p <= activation'[k] /\ ~stack'[p].invalidated
    /\ ~Live(k)' => /\ activation'[k] = 0 /\ slots'[k] = <<>> /\ ~dirty'[k]
                    /\ \A p \in 1 .. t :
                         /\ stack'[p].key = k
                         /\ \A q \in 1 .. t : stack'[q].key = k => q <= p
                         => stack'[p].invalidated
    BY <1>5 DEF Activations
  <2>1. CASE k[1] = e
    <3>1. activation'[k] = 0 /\ slots'[k] = <<>> /\ ~dirty'[k] /\ ~Live(k)'
      BY <1>1, <1>9, <2>1
    <3>2. Live(k)
      BY <1>1, <2>1 DEF Live
    <3>3. /\ activation[k] \in 0 .. t
          /\ activation[k] # 0 => stack[activation[k]].key = k
          /\ \A p \in 1 .. t : stack[p].key = k => p <= activation[k]
      BY <1>3, <3>2 DEF EmitInv, Activations, t
    <3>4. ASSUME NEW p \in 1 .. t, stack'[p].key = k, \A q \in 1 .. t : stack'[q].key = k => q <= p
          PROVE  stack'[p].invalidated
      <4>1. p <= activation[k]
        BY <1>6, <3>3, <3>4
      <4>2. activation[k] \in 1 .. t
        BY <1>3, <3>3, <4>1
      <4>3. activation[k] <= p
        BY <1>6, <3>3, <3>4, <4>2
      <4>4. activation[k] = p
        BY <1>3, <4>1, <4>2, <4>3
      <4> QED BY <1>6, <1>7, <2>1, <4>4
    <3> QED BY <3>1, <3>4
  <2>2. CASE k[1] # e
    <3>1. activation'[k] = activation[k] /\ slots'[k] = slots[k] /\ (dirty'[k] <=> dirty[k]) /\ (Live(k)' <=> Live(k))
      BY <1>1, <1>9, <2>2
    <3>2. CASE Live(k)
      <4>1. /\ activation[k] \in 0 .. t
            /\ activation[k] # 0 => stack[activation[k]].key = k
            /\ \A p \in 1 .. t : stack[p].key = k => p <= activation[k] /\ ~stack[p].invalidated
        BY <1>3, <3>2 DEF EmitInv, Activations, t
      <4>2. activation[k] # 0 => activation[k] \in 1 .. t
        BY <1>3, <4>1
      <4>3. ASSUME NEW p \in 1 .. t, stack[p].key = k, NEW q \in KeysOf(e), activation[q] = p PROVE FALSE
        <5>1. q \in Keys /\ q[1] = e
          BY <1>7, <1>8
        <5>2. Live(q)
          BY <1>1, <5>1 DEF Live
        <5>3. stack[activation[q]].key = q
          <6>1. p # 0
            BY <1>3
          <6> QED BY <4>3, <5>1, <5>2, <6>1 DEF EmitInv, Activations
        <5> QED BY <2>2, <4>3, <5>1, <5>3
      <4>4. ASSUME NEW p \in 1 .. t, stack'[p].key = k PROVE p <= activation'[k] /\ ~stack'[p].invalidated
        <5>1. stack[p].key = k
          BY <1>6, <4>4
        <5>2. ~stack[p].invalidated /\ p <= activation[k]
          BY <4>1, <5>1
        <5>3. ~ \E q \in KeysOf(e) : activation[q] = p
          BY <4>3, <5>1
        <5>4. stack'[p].invalidated = (stack[p].invalidated \/ \E q \in KeysOf(e) : activation[q] = p)
          BY <1>6
        <5> QED BY <3>1, <5>2, <5>3, <5>4
      <4>5. activation[k] # 0 => stack'[activation[k]].key = k
        BY <1>6, <4>1, <4>2
      <4> QED BY <3>1, <3>2, <4>1, <4>4, <4>5
    <3>3. CASE ~Live(k)
      <4>1. /\ activation[k] = 0 /\ slots[k] = <<>> /\ ~dirty[k]
            /\ \A p \in 1 .. t : /\ stack[p].key = k
                                 /\ \A q \in 1 .. t : stack[q].key = k => q <= p
                                 => stack[p].invalidated
        BY <1>3, <3>3 DEF EmitInv, Activations
      <4>2. ASSUME NEW p \in 1 .. t, stack'[p].key = k, \A q \in 1 .. t : stack'[q].key = k => q <= p
            PROVE  stack'[p].invalidated
        <5>1. \A q \in 1 .. t : stack'[q].key = stack[q].key
          BY <1>6
        <5>2. stack[p].invalidated
          BY <4>1, <4>2, <5>1
        <5>3. stack'[p].invalidated = (stack[p].invalidated \/ \E q \in KeysOf(e) : activation[q] = p)
          BY <1>6
        <5> QED BY <5>2, <5>3
      <4> QED BY <3>1, <3>3, <4>1, <4>2
    <3> QED BY <3>2, <3>3
  <2> QED BY <2>1, <2>2
<1>15. Loops'
  <2> SUFFICES ASSUME NEW p \in 1 .. t, stack'[p].key[1] \in emitters'
               PROVE  LoopOk(stack'[p], slots'[stack'[p].key])
    BY <1>5 DEF Loops, Live
  <2>1. /\ stack'[p].key = stack[p].key /\ stack'[p].i = stack[p].i /\ stack'[p].calling = stack[p].calling
        /\ stack'[p].called = stack[p].called /\ stack'[p].snapshot = stack[p].snapshot
    BY <1>6
  <2>2. stack[p].key \in Keys
    <3>1. stack[p] \in FrameType
      BY <1>2, <1>3
    <3> QED BY <3>1 DEF FrameType
  <2>3. Live(stack[p].key) /\ stack[p].key[1] # e
    BY <1>1, <2>1 DEF Live
  <2>4. LoopOk(stack[p], slots[stack[p].key]) /\ slots'[stack[p].key] = slots[stack[p].key]
    BY <1>1, <1>3, <2>2, <2>3 DEF EmitInv, Loops
  <2> QED BY <2>1, <2>4, SameLoop
<1> QED BY <1>10, <1>11, <1>12, <1>13, <1>14, <1>15 DEF EmitInv

-----------------------------------------------------------------------------
(* emit(), whatever the slots do.                                          *)

\* Nothing is connected and nothing emitted at first.
LEMMA EmitInitially ==
  Init => EmitInv
<1> SUFFICES ASSUME Init PROVE EmitInv
  OBVIOUS
<1>1. \A k \in Keys : slots[k] = <<>> /\ activation[k] = 0 /\ dirty[k] = FALSE
  BY DEF Init
<1>2. stack = <<>> /\ Len(stack) = 0 /\ DOMAIN stack = {}
  BY DEF Init
<1>3. Typed
  <2>1. slotData \in [Listeners -> [Emitters -> Seq(EntryType)]]
    BY DEF Init
  <2>2. slots \in [Keys -> Seq(NodeType)] /\ activation \in [Keys -> Nat] /\ dirty \in [Keys -> BOOLEAN]
    BY DEF Init
  <2>3. stack \in Seq(FrameType)
    BY <1>2
  <2> QED BY <2>1, <2>2, <2>3 DEF Init, Typed
<1>4. IdsUnique /\ Dirt
  BY <1>1 DEF IdsUnique, Dirt
<1>5. Chain /\ Loops
  BY <1>2 DEF Chain, Loops, UserCode
<1>6. Activations
  <2>1. \A k \in Keys : Live(k)
    BY DEF Init, Live, Keys
  <2>2. 0 \in 0 .. Len(stack)
    BY <1>2
  <2> QED BY <1>1, <1>2, <2>1, <2>2 DEF Activations
<1> QED BY <1>3, <1>4, <1>5, <1>6 DEF EmitInv

\* Every step keeps the lists of slots, the frames of emit() and the activation pointers in step.
LEMMA EmitStep ==
  EmitInv /\ [Next]_vars => EmitInv'
<1> SUFFICES ASSUME EmitInv, [Next]_vars PROVE EmitInv'
  OBVIOUS
<1>1. ASSUME NEW k \in Keys, NEW l \in Listeners, NEW f \in SlotFns, Connect(k, l, f) PROVE EmitInv'
  BY <1>1, EmitConnect
<1>2. ASSUME NEW k \in Keys, NEW l \in Listeners, NEW f \in SlotFns, Disconnect(k, l, f) PROVE EmitInv'
  BY <1>2, EmitDisconnect
<1>3. ASSUME NEW k \in Keys, Emit(k) PROVE EmitInv'
  BY <1>3, EmitEmit
<1>4. ASSUME NEW l \in Listeners, DeleteListener(l) PROVE EmitInv'
  BY <1>4, EmitDeleteListener
<1>5. ASSUME NEW e \in Emitters, DeleteEmitter(e) PROVE EmitInv'
  BY <1>5, EmitDeleteEmitter
<1>6. CASE CallSlot
  BY <1>6, EmitCallSlot
<1>7. CASE SkipSlot
  BY <1>7, EmitSkipSlot
<1>8. CASE ReturnSlot
  BY <1>8, EmitReturnSlot
<1>9. CASE ReturnInvalidated
  BY <1>9, EmitReturnInvalidated
<1>10. CASE EmitEnd
  BY <1>10, EmitEmitEnd
<1>11. CASE UNCHANGED vars
  <2>1. UNCHANGED <<emitters, listeners, slots, activation, dirty, slotData, stack>>
    BY <1>11 DEF vars, signalVars
  <2>2. Typed' /\ IdsUnique' /\ Dirt'
    BY <2>1 DEF EmitInv, Typed, IdsUnique, Dirt
  <2>3. Chain' /\ Activations' /\ Loops'
    BY <2>1 DEF EmitInv, Chain, Activations, Loops, UserCode, Top, Live
  <2> QED BY <2>2, <2>3 DEF EmitInv
<1> QED BY <1>1, <1>2, <1>3, <1>4, <1>5, <1>6, <1>7, <1>8, <1>9, <1>10, <1>11 DEF Next

\* The invariant holds in every state.
THEOREM EmitInvariance == Spec => []EmitInv
<1> QED BY EmitInitially, EmitStep, PTL DEF Spec

\* The innermost frame of a signal.
LEMMA Innermost ==
  ASSUME EmitInv, NEW k \in Keys, NEW p \in FramesOf(k), \A q \in FramesOf(k) : q <= p
  PROVE  InnermostOf(k) = p
<1>1. stack \in Seq(FrameType)
  BY DEF EmitInv, Typed
<1>2. FramesOf(k) \subseteq Nat
  BY <1>1 DEF FramesOf
<1>3. Max(FramesOf(k)) = p
  <2> DEFINE S == FramesOf(k)
  <2>1. S \subseteq Nat /\ p \in S /\ \A q \in S : q <= p
    BY <1>2
  <2> HIDE DEF S
  <2>2. p \in S /\ \A q \in S : p >= q
    BY <2>1
  <2>3. Max(S) \in S /\ \A q \in S : Max(S) >= q
    BY <2>2 DEF Max
  <2>4. Max(S) >= p /\ p >= Max(S) /\ Max(S) \in Nat /\ p \in Nat
    BY <2>1, <2>2, <2>3
  <2>5. Max(S) = p
    BY <2>4
  <2> QED BY <2>5 DEF S
<1> QED BY <1>3 DEF InnermostOf

\* A signal that is emitted has an innermost frame.
LEMMA Deepest ==
  ASSUME NEW T, NEW N \in Nat, T \subseteq 1 .. N, T # {} PROVE \E x \in T : \A y \in T : y <= x
<1> DEFINE U == {N - x : x \in T}
<1>1. U \subseteq Nat /\ U # {}
  <2>1. \A x \in T : N - x \in Nat
    OBVIOUS
  <2> QED BY <2>1
<1> HIDE DEF U
<1>2. PICK u \in U : \A v \in U : u <= v
  BY <1>1, Least
<1>3. PICK x \in T : u = N - x
  BY <1>2 DEF U
<1>4. ASSUME NEW y \in T PROVE y <= x
  <2>1. N - y \in U
    BY DEF U
  <2>2. u <= N - y
    BY <1>2, <2>1
  <2> QED BY <1>3, <2>2
<1> QED BY <1>4

\* The activation pointer of a signal is its innermost emit(), and when an emitter has been deleted
\* the emit() that control returns to first knows: ~SignalActivation hands the news on
\* (Callback.cpp 20-27 and 45-73).
THEOREM EmitKnows == Spec => []ActivationSound
<1>1. EmitInv => ActivationSound
  <2> SUFFICES ASSUME EmitInv, NEW k \in Keys
      PROVE  IF k[1] \in emitters
             THEN activation[k] = InnermostOf(k) /\ \A i \in FramesOf(k) : ~stack[i].invalidated
             ELSE FramesOf(k) # {} => stack[InnermostOf(k)].invalidated
    BY DEF ActivationSound
  <2> DEFINE t == Len(stack)
  <2>1. stack \in Seq(FrameType) /\ t \in Nat /\ DOMAIN stack = 1 .. t
    BY DEF EmitInv, Typed
  <2>2. FramesOf(k) \subseteq 1 .. t
    BY <2>1 DEF FramesOf
  <2> HIDE DEF t
  <2>3. CASE Live(k)
    <3>1. /\ activation[k] \in 0 .. t
          /\ activation[k] # 0 => stack[activation[k]].key = k
          /\ \A p \in DOMAIN stack : stack[p].key = k => p <= activation[k] /\ ~stack[p].invalidated
      BY <2>3 DEF EmitInv, Activations, t
    <3>2. \A i \in FramesOf(k) : i <= activation[k] /\ ~stack[i].invalidated
      BY <3>1 DEF FramesOf
    <3>3. CASE activation[k] = 0
      <4>1. FramesOf(k) = {}
        BY <2>1, <2>2, <3>2, <3>3
      <4> QED BY <2>3, <3>2, <3>3, <4>1 DEF InnermostOf, Live
    <3>4. CASE activation[k] # 0
      <4>1. activation[k] \in FramesOf(k)
        BY <2>1, <3>1, <3>4 DEF FramesOf
      <4>2. InnermostOf(k) = activation[k]
        BY <3>2, <4>1, Innermost
      <4> QED BY <2>3, <3>2, <4>2 DEF Live
    <3> QED BY <3>3, <3>4
  <2>4. CASE ~Live(k) /\ FramesOf(k) # {}
    <3>1. PICK p \in FramesOf(k) : \A q \in FramesOf(k) : q <= p
      BY <2>1, <2>2, <2>4, Deepest
    <3>2. InnermostOf(k) = p
      BY <3>1, Innermost
    <3>3. p \in DOMAIN stack /\ stack[p].key = k /\ \A q \in DOMAIN stack : stack[q].key = k => q <= p
      BY <3>1 DEF FramesOf
    <3>4. stack[p].invalidated
      BY <2>4, <3>3 DEF EmitInv, Activations
    <3> QED BY <2>4, <3>2, <3>4 DEF Live
  <2> QED BY <2>3, <2>4 DEF Live
<1> QED BY <1>1, EmitInvariance, PTL

\* No node is removed from a list while an emit() has an iterator at it, whatever the slots that
\* are called connect, disconnect and delete.
THEOREM NoIteratorDangles == Spec => []IteratorsValid
<1>1. EmitInv => IteratorsValid
  <2> SUFFICES ASSUME EmitInv, NEW p \in DOMAIN stack, stack[p].key[1] \in emitters, stack[p].i # End
               PROVE  IndexOf(stack[p].key, stack[p].i) # 0
    BY DEF IteratorsValid
  <2> DEFINE f == stack[p]
             k == f.key
  <2>1. f \in FrameType /\ LoopOk(f, slots[k])
    BY DEF EmitInv, Typed, Loops, Live
  <2>2. k \in Keys
    BY <2>1 DEF FrameType
  <2>3. slots[k] \in Seq(NodeType) /\ Unique(slots[k])
    BY <2>2 DEF EmitInv, Typed, IdsUnique, Unique
  <2> HIDE DEF f, k
  <2>4. PICK j \in DOMAIN slots[k] : slots[k][j].id = f.i
    BY <2>1 DEF LoopOk, f
  <2>5. IndexOf(k, f.i) = j
    BY <2>3, <2>4, IndexSound
  <2>6. j # 0
    BY <2>3, <2>4
  <2> QED BY <2>5, <2>6 DEF f, k
<1> QED BY <1>1, EmitInvariance, PTL

\* emit() calls a slot only if it was connected when the emit() began, and at most once; it leaves
\* out none that is still connected; and the list settles when the outermost emit() is done.
THEOREM EmissionIsExact == Spec => []EmissionExact
<1>1. EmitInv => EmissionExact
  <2> SUFFICES ASSUME EmitInv PROVE EmissionExact
    OBVIOUS
  <2>1. ASSUME ~UserCode
        PROVE  IF Top.i = End
               THEN \A i \in DOMAIN slots[Top.key] :
                      slots[Top.key][i].state = "connected" => slots[Top.key][i].id \in Top.called
               ELSE NodeAt(Top.key, Top.i).state = "connected" => Top.i \in Top.snapshot \ Top.called
    <3> DEFINE f == Top
               list == slots[Top.key]
    <3>1. stack # <<>> /\ ~f.calling
      BY <2>1 DEF UserCode
    <3>2. Live(f.key)
      BY <2>1 DEF EmitInv, Chain
    <3>3. LoopOk(f, list) /\ list \in Seq(NodeType) /\ Unique(list)
      BY <3>1, <3>2, TopTyped
    <3> HIDE DEF f, list
    <3>4. CASE f.i = End
      <4>1. \A j \in DOMAIN list : Passed(f, list, j)
        BY <3>4 DEF Passed
      <4>2. \A j \in DOMAIN list : list[j].state = "connected" => list[j].id \in f.called
        BY <3>3, <4>1 DEF LoopOk
      <4> QED BY <3>4, <4>2 DEF f, list
    <3>5. CASE f.i # End
      <4>1. PICK m \in DOMAIN list : list[m].id = f.i
        BY <3>3, <3>5 DEF LoopOk
      <4>2. NodeAt(f.key, f.i) = list[m]
        BY <3>3, <4>1, IndexSound DEF NodeAt, list, f
      <4>3. list[m].state = "connected" => f.i \in f.snapshot
        BY <3>3, <4>1 DEF LoopOk
      <4>4. f.i \notin f.called
        <5> SUFFICES ASSUME f.i \in f.called PROVE FALSE
          OBVIOUS
        <5>1. PICK j \in DOMAIN list : list[j].id = f.i /\ Passed(f, list, j)
          BY <3>3 DEF LoopOk
        <5>2. PICK n \in DOMAIN list : list[n].id = f.i /\ j < n
          BY <3>1, <3>5, <5>1 DEF Passed, f
        <5>3. j = n
          BY <3>3, <5>1, <5>2 DEF Unique
        <5>4. j \in Nat
          BY <3>3
        <5> QED BY <5>2, <5>3, <5>4
      <4> QED BY <3>5, <4>2, <4>3, <4>4 DEF f, list
    <3> QED BY <3>4, <3>5 DEF f
  <2>2. \A k \in Keys : activation[k] = 0 => ~dirty[k] /\ \A i \in DOMAIN slots[k] : slots[k][i].state = "connected"
    BY DEF EmitInv, Dirt
  <2> QED BY <2>1, <2>2 DEF EmissionExact
<1> QED BY <1>1, EmitInvariance, PTL

-----------------------------------------------------------------------------
(* Counting.                                                               *)

\* How many members of P a list has, and how many of them come after the n-th place.
Count(list, P) == Cardinality({i \in DOMAIN list : list[i] \in P})
Rest(list, n, P) == Cardinality({i \in n + 1 .. Len(list) : list[i] \in P})

\* A list has a number of places.
LEMMA CountType ==
  ASSUME NEW T, NEW list \in Seq(T), NEW P
  PROVE  /\ IsFiniteSet({i \in DOMAIN list : list[i] \in P}) /\ Count(list, P) \in Nat
         /\ Count(list, P) = 0 <=> \A i \in DOMAIN list : list[i] \notin P
<1> DEFINE I == {i \in DOMAIN list : list[i] \in P}
<1>1. Len(list) \in Nat /\ DOMAIN list = 1 .. Len(list)
  OBVIOUS
<1>2. IsFiniteSet(1 .. Len(list))
  BY <1>1, FS_Interval
<1>3. I \in SUBSET (1 .. Len(list))
  BY <1>1
<1>4. IsFiniteSet(I)
  <2> HIDE DEF I
  <2> QED BY <1>2, <1>3, FS_Subset
<1>5. Cardinality(I) \in Nat /\ (Cardinality(I) = 0 <=> I = {})
  <2> HIDE DEF I
  <2> QED BY <1>4, FS_CardinalityType, FS_EmptySet
<1> QED BY <1>4, <1>5 DEF Count

\* The same number of places.
LEMMA CountSame ==
  ASSUME NEW a, NEW b, NEW P, NEW Q, DOMAIN a = DOMAIN b, \A i \in DOMAIN a : a[i] \in P <=> b[i] \in Q
  PROVE  Count(a, P) = Count(b, Q)
<1>1. {i \in DOMAIN a : a[i] \in P} = {i \in DOMAIN b : b[i] \in Q}
  OBVIOUS
<1> QED BY <1>1 DEF Count

\* A member more.
LEMMA CountAppend ==
  ASSUME NEW T, NEW list \in Seq(T), NEW x \in T, NEW P
  PROVE  Count(Append(list, x), P) = IF x \in P THEN Count(list, P) + 1 ELSE Count(list, P)
<1> DEFINE I == {i \in DOMAIN list : list[i] \in P}
           new == Append(list, x)
           J == {i \in DOMAIN new : new[i] \in P}
           m == Len(list) + 1
<1>1. /\ DOMAIN new = DOMAIN list \cup {m} /\ m \notin DOMAIN list /\ new[m] = x
      /\ \A i \in DOMAIN list : new[i] = list[i]
  OBVIOUS
<1>2. IsFiniteSet(I)
  BY CountType
<1> HIDE DEF m, new
<1>3. CASE x \in P
  <2>1. J = I \cup {m}
    BY <1>1, <1>3
  <2>2. m \notin I
    BY <1>1
  <2> HIDE DEF I, J
  <2>3. Cardinality(J) = Cardinality(I) + 1
    BY <1>2, <2>1, <2>2, FS_AddElement
  <2> QED BY <1>3, <2>3 DEF I, J, Count, new
<1>4. CASE x \notin P
  <2>1. J = I
    BY <1>1, <1>4
  <2> QED BY <1>4, <2>1 DEF Count, new
<1> QED BY <1>3, <1>4

\* A member less.
LEMMA CountRemoveAt ==
  ASSUME NEW T, NEW list \in Seq(T), NEW k \in DOMAIN list, NEW P
  PROVE  Count(RemoveAt(list, k), P) = IF list[k] \in P THEN Count(list, P) - 1 ELSE Count(list, P)
<1> DEFINE I == {i \in DOMAIN list : list[i] \in P}
           new == RemoveAt(list, k)
           J == {i \in DOMAIN new : new[i] \in P}
           N == Len(list)
           old(j) == IF j < k THEN j ELSE j + 1
           back(i) == IF i < k THEN i ELSE i - 1
           f == [j \in J |-> old(j)]
<1>1. N \in Nat /\ DOMAIN list = 1 .. N /\ k \in 1 .. N
  OBVIOUS
<1>2. /\ new \in Seq(T) /\ Len(new) = N - 1
      /\ \A j \in 1 .. N - 1 : new[j] = IF j < k THEN list[j] ELSE list[j + 1]
  BY RemoveAtElements
<1>3. DOMAIN new = 1 .. N - 1
  BY <1>1, <1>2
<1> HIDE DEF N, new
<1>4. \A j \in 1 .. N - 1 : old(j) \in 1 .. N /\ old(j) # k /\ new[j] = list[old(j)]
  BY <1>1, <1>2
<1>5. \A i \in 1 .. N : i # k => back(i) \in 1 .. N - 1 /\ old(back(i)) = i
  BY <1>1
<1>6. \A j, h \in 1 .. N - 1 : old(j) = old(h) => j = h
  BY <1>1
<1> HIDE DEF old, back
<1>7. f \in [J -> I \ {k}]
  BY <1>1, <1>3, <1>4
<1>8. f \in Injection(J, I \ {k})
  BY <1>3, <1>6, <1>7 DEF Injection, IsInjective
<1>9. f \in Surjection(J, I \ {k})
  <2>1. ASSUME NEW i \in I \ {k} PROVE \E j \in J : f[j] = i
    <3>1. back(i) \in 1 .. N - 1 /\ old(back(i)) = i /\ i \in 1 .. N /\ list[i] \in P
      BY <1>1, <1>5
    <3>2. back(i) \in J
      BY <1>3, <1>4, <3>1
    <3> QED BY <3>1, <3>2
  <2> QED BY <1>7, <2>1 DEF Surjection
<1>10. ExistsBijection(J, I \ {k})
  BY <1>8, <1>9 DEF ExistsBijection, Bijection
<1>11. IsFiniteSet(I) /\ IsFiniteSet(J)
  BY <1>2, CountType
<1> HIDE DEF I, J, f
<1>12. Cardinality(J) = Cardinality(I \ {k})
  BY <1>10, <1>11, FS_Bijection
<1>13. Cardinality(I \ {k}) = IF k \in I THEN Cardinality(I) - 1 ELSE Cardinality(I)
  BY <1>11, FS_RemoveElement
<1> QED BY <1>12, <1>13 DEF I, J, Count, new

\* A member changes.
LEMMA CountExcept ==
  ASSUME NEW T, NEW list \in Seq(T), NEW k \in DOMAIN list, NEW new, NEW P,
         DOMAIN new = DOMAIN list, \A i \in DOMAIN list : i # k => new[i] = list[i], new[k] \notin P
  PROVE  Count(new, P) = IF list[k] \in P THEN Count(list, P) - 1 ELSE Count(list, P)
<1> DEFINE I == {i \in DOMAIN list : list[i] \in P}
           J == {i \in DOMAIN new : new[i] \in P}
<1>1. J = I \ {k}
  OBVIOUS
<1>2. IsFiniteSet(I)
  BY CountType
<1>3. k \in I <=> list[k] \in P
  OBVIOUS
<1> HIDE DEF I, J
<1>4. Cardinality(I \ {k}) = IF k \in I THEN Cardinality(I) - 1 ELSE Cardinality(I)
  BY <1>2, FS_RemoveElement
<1> QED BY <1>1, <1>3, <1>4 DEF I, J, Count

\* What a loop over the list has still to come to.
LEMMA RestSteps ==
  ASSUME NEW T, NEW list \in Seq(T), NEW P
  PROVE  /\ Rest(list, 0, P) = Count(list, P)
         /\ Rest(list, Len(list), P) = 0
         /\ \A n \in 0 .. Len(list) : Rest(list, n, P) \in Nat
         /\ \A n \in 1 .. Len(list) :
              Rest(list, n - 1, P) = IF list[n] \in P THEN Rest(list, n, P) + 1 ELSE Rest(list, n, P)
<1> DEFINE N == Len(list)
           R(n) == {i \in n + 1 .. N : list[i] \in P}
<1>1. N \in Nat /\ DOMAIN list = 1 .. N
  OBVIOUS
<1>2. \A n \in 0 .. N : Rest(list, n, P) = Cardinality(R(n))
  BY DEF Rest
<1> HIDE DEF N
<1>3. Rest(list, 0, P) = Count(list, P)
  <2>1. R(0) = {i \in DOMAIN list : list[i] \in P}
    BY <1>1
  <2> QED BY <1>1, <1>2, <2>1 DEF Count
<1>4. Rest(list, N, P) = 0
  <2>1. R(N) = {}
    BY <1>1
  <2> QED BY <1>1, <1>2, <2>1, FS_EmptySet
<1>5. ASSUME NEW n \in 0 .. N PROVE IsFiniteSet(R(n))
  <2>1. R(n) \in SUBSET (1 .. N)
    BY <1>1
  <2>2. IsFiniteSet(1 .. N)
    BY <1>1, FS_Interval
  <2> HIDE DEF R
  <2> QED BY <2>1, <2>2, FS_Subset
<1>6. ASSUME NEW n \in 0 .. N PROVE Rest(list, n, P) \in Nat
  <2> HIDE DEF R
  <2> QED BY <1>2, <1>5, FS_CardinalityType
<1>7. ASSUME NEW n \in 1 .. N
      PROVE  Rest(list, n - 1, P) = IF list[n] \in P THEN Rest(list, n, P) + 1 ELSE Rest(list, n, P)
  <2>1. n - 1 \in 0 .. N /\ n \in 0 .. N /\ (n - 1) + 1 = n
    BY <1>1
  <2>2. \A i : i \in n .. N <=> i = n \/ i \in n + 1 .. N
    BY <1>1
  <2>3. R(n - 1) = {i \in n .. N : list[i] \in P}
    BY <2>1
  <2>4. n \notin R(n)
    BY <1>1
  <2>5. CASE list[n] \in P
    <3>1. R(n - 1) = R(n) \cup {n}
      BY <2>2, <2>3, <2>5
    <3>2. IsFiniteSet(R(n))
      BY <1>5, <2>1
    <3>3. Rest(list, n - 1, P) = Cardinality(R(n - 1)) /\ Rest(list, n, P) = Cardinality(R(n))
      BY <1>2, <2>1
    <3> HIDE DEF R
    <3> QED BY <2>4, <2>5, <3>1, <3>2, <3>3, FS_AddElement
  <2>6. CASE list[n] \notin P
    <3>1. R(n - 1) = R(n)
      BY <2>2, <2>3, <2>6
    <3> HIDE DEF R
    <3> QED BY <1>2, <2>1, <2>6, <3>1
  <2> QED BY <2>5, <2>6
<1> QED BY <1>3, <1>4, <1>6, <1>7 DEF N

\* RemoveFirst takes one off, if there is one.
LEMMA CountRemoveFirst ==
  ASSUME NEW T, NEW list \in Seq(T), NEW x
  PROVE  /\ RemoveFirst(list, x) \in Seq(T)
         /\ \A P : x \notin P => Count(RemoveFirst(list, x), P) = Count(list, P)
         /\ Count(RemoveFirst(list, x), {x}) = IF Count(list, {x}) = 0 THEN 0 ELSE Count(list, {x}) - 1
<1>1. RemoveFirst(list, x) \in Seq(T)
  BY RemoveFirstCases
<1>2. CASE RemoveFirst(list, x) = list /\ \A i \in DOMAIN list : list[i] # x
  <2>1. Count(list, {x}) = 0
    BY <1>2, CountType
  <2> QED BY <1>1, <1>2, <2>1
<1>3. ASSUME NEW i \in DOMAIN list, list[i] = x, RemoveFirst(list, x) = RemoveAt(list, i)
      PROVE  /\ \A P : x \notin P => Count(RemoveFirst(list, x), P) = Count(list, P)
             /\ Count(RemoveFirst(list, x), {x}) = IF Count(list, {x}) = 0 THEN 0 ELSE Count(list, {x}) - 1
  <2>1. \A P : Count(RemoveAt(list, i), P) = IF list[i] \in P THEN Count(list, P) - 1 ELSE Count(list, P)
    BY CountRemoveAt
  <2>2. Count(list, {x}) # 0
    BY <1>3, CountType
  <2>3. x \in {x}
    OBVIOUS
  <2>4. Count(RemoveAt(list, i), {x}) = Count(list, {x}) - 1
    BY <1>3, <2>1, <2>3
  <2> QED BY <1>3, <2>1, <2>2, <2>4
<1> QED BY <1>1, <1>2, <1>3, RemoveFirstCases

-----------------------------------------------------------------------------
(* How many slots of a listener a list has.                                *)

\* The nodes that connect slot f of l, and the entry that stands for them at the other end.
Links(l, f) == {n \in NodeType : Matches(n, l, f) /\ n.state # "disconnected"}
Entry(s, f) == {[signal |-> s, slot |-> f]}

\* Slot f of l is not more than once in the list.
AtMostOne(list, l, f) ==
  \A i, j \in DOMAIN list : Matches(list[i], l, f) /\ Matches(list[j], l, f) => i = j

\* Unlinking slots F of l in this list is not ambiguous: nothing is disconnected when the signal is
\* not emitted, and each of the slots is there once otherwise.
Fine(k, list, l, F) ==
  /\ list \in Seq(NodeType) /\ Unique(list)
  /\ activation[k] = 0 => \A i \in DOMAIN list : list[i].state = "connected"
  /\ activation[k] # 0 => \A f \in F : AtMostOne(list, l, f)

\* Unlinking one leaves it so.
LEMMA UnlinkFine ==
  ASSUME NEW k, NEW list, NEW l, NEW F, NEW f, Fine(k, list, l, F)
  PROVE  Fine(k, Unlink(k, list, l, f), l, F)
<1> DEFINE new == Unlink(k, list, l, f)
<1>1. list \in Seq(NodeType) /\ Unique(list) /\ DOMAIN list = 1 .. Len(list)
  BY DEF Fine
<1>2. CASE activation[k] = 0
  <2>1. Pruned(list, new)
    BY <1>1, <1>2, UnlinkPrunes
  <2> HIDE DEF new
  <2>2. new \in Seq(NodeType) /\ Unique(new) /\ \A i \in DOMAIN new : new[i].state = "connected"
    BY <1>2, <2>1 DEF Pruned, Fine
  <2>3. Fine(k, new, l, F)
    BY <1>2, <2>2 DEF Fine
  <2> QED BY <2>3 DEF new
<1>3. CASE activation[k] # 0
  <2>1. Marked(list, new)
    BY <1>1, <1>3, UnlinkMarks
  <2> HIDE DEF new
  <2>2. new \in Seq(NodeType) /\ DOMAIN new = DOMAIN list
    BY <1>1, <2>1 DEF Marked
  <2>3. \A i \in DOMAIN list : /\ new[i].id = list[i].id
                               /\ new[i].receiver = list[i].receiver /\ new[i].slot = list[i].slot
    BY <2>1 DEF Marked
  <2>4. Unique(new)
    BY <1>1, <2>2, <2>3 DEF Unique
  <2>5. \A g \in F : AtMostOne(new, l, g)
    BY <1>3, <2>2, <2>3 DEF Fine, AtMostOne, Matches
  <2>6. Fine(k, new, l, F)
    BY <1>3, <2>2, <2>4, <2>5 DEF Fine
  <2> QED BY <2>6 DEF new
<1> QED BY <1>2, <1>3

\* Unlink takes one connection off, if there is one, and no other.
LEMMA UnlinkCount ==
  ASSUME NEW k, NEW list, NEW l, NEW F, NEW f \in F, Fine(k, list, l, F)
  PROVE  /\ Count(Unlink(k, list, l, f), Links(l, f)) =
              IF Count(list, Links(l, f)) = 0 THEN 0 ELSE Count(list, Links(l, f)) - 1
         /\ \A m, g : m # l \/ g # f => Count(Unlink(k, list, l, f), Links(m, g)) = Count(list, Links(m, g))
<1> DEFINE new == Unlink(k, list, l, f)
           Goal == /\ Count(new, Links(l, f)) = IF Count(list, Links(l, f)) = 0 THEN 0 ELSE Count(list, Links(l, f)) - 1
                   /\ \A m, g : m # l \/ g # f => Count(new, Links(m, g)) = Count(list, Links(m, g))
<1>1. list \in Seq(NodeType) /\ \A i \in DOMAIN list : list[i] \in NodeType
  BY DEF Fine
<1>2. \A m, g, n : n \in Links(m, g) <=> n \in NodeType /\ n.receiver = m /\ n.slot = g /\ n.state # "disconnected"
  BY DEF Links, Matches
<1>3. ASSUME NoMatch(list, l, f), new = list PROVE Goal
  <2>1. Count(list, Links(l, f)) = 0
    <3>1. \A i \in DOMAIN list : list[i] \notin Links(l, f)
      BY <1>2, <1>3 DEF NoMatch, Matches
    <3> QED BY <1>1, <3>1, CountType
  <2> HIDE DEF new
  <2> QED BY <1>3, <2>1
<1>4. ASSUME NEW i, FirstMatch(list, i, l, f), activation[k] # 0, new = MarkAt(list, i) PROVE Goal
  <2>1. i \in DOMAIN list /\ list[i].receiver = l /\ list[i].slot = f
    BY <1>4 DEF FirstMatch, Matches
  <2> HIDE DEF new
  <2>2. /\ DOMAIN new = DOMAIN list /\ \A j \in DOMAIN list : j # i => new[j] = list[j]
        /\ new[i].state = "disconnected"
    BY <1>1, <1>4, <2>1 DEF MarkAt, NodeType
  <2>3. \A m, g : new[i] \notin Links(m, g)
    BY <1>2, <2>2
  <2>4. \A m, g : Count(new, Links(m, g)) =
                    IF list[i] \in Links(m, g) THEN Count(list, Links(m, g)) - 1 ELSE Count(list, Links(m, g))
    BY <1>1, <2>1, <2>2, <2>3, CountExcept
  <2>5. \A m, g : m # l \/ g # f => list[i] \notin Links(m, g)
    BY <1>2, <2>1
  <2>6. CASE list[i] \in Links(l, f)
    <3>1. Count(list, Links(l, f)) # 0
      BY <1>1, <2>1, <2>6, CountType
    <3> QED BY <2>4, <2>5, <2>6, <3>1
  <2>7. CASE list[i] \notin Links(l, f)
    <3>1. AtMostOne(list, l, f)
      BY <1>4 DEF Fine
    <3>2. \A j \in DOMAIN list : list[j] \notin Links(l, f)
      BY <1>2, <2>1, <2>7, <3>1 DEF AtMostOne, Matches
    <3>3. Count(list, Links(l, f)) = 0
      BY <1>1, <3>2, CountType
    <3> QED BY <2>4, <2>5, <2>7, <3>3
  <2> QED BY <2>6, <2>7
<1>5. ASSUME NEW i, FirstMatch(list, i, l, f), activation[k] = 0, new = RemoveAt(list, i) PROVE Goal
  <2>1. i \in DOMAIN list /\ list[i].receiver = l /\ list[i].slot = f
    BY <1>5 DEF FirstMatch, Matches
  <2> HIDE DEF new
  <2>2. list[i].state = "connected"
    BY <1>5, <2>1 DEF Fine
  <2>3. \A m, g : Count(new, Links(m, g)) =
                    IF list[i] \in Links(m, g) THEN Count(list, Links(m, g)) - 1 ELSE Count(list, Links(m, g))
    BY <1>1, <1>5, <2>1, CountRemoveAt
  <2>4. \A m, g : m # l \/ g # f => list[i] \notin Links(m, g)
    BY <1>2, <2>1
  <2>5. list[i] \in Links(l, f)
    BY <1>1, <1>2, <2>1, <2>2
  <2>6. Count(list, Links(l, f)) # 0
    BY <1>1, <2>1, <2>5, CountType
  <2> QED BY <2>3, <2>4, <2>5, <2>6
<1>6. \/ NoMatch(list, l, f) /\ new = list
      \/ \E i : /\ FirstMatch(list, i, l, f)
                /\ activation[k] # 0 => new = MarkAt(list, i)
                /\ activation[k] = 0 => new = RemoveAt(list, i)
  BY <1>1, UnlinkCases
<1>7. Goal
  <2> HIDE DEF new
  <2>1. ASSUME NoMatch(list, l, f), new = list PROVE Goal
    BY <1>3, <2>1
  <2>2. ASSUME NEW i, FirstMatch(list, i, l, f), activation[k] # 0 => new = MarkAt(list, i),
               activation[k] = 0 => new = RemoveAt(list, i)
        PROVE  Goal
    <3> HIDE DEF Goal
    <3> QED BY <1>4, <1>5, <2>2
  <2> HIDE DEF Goal
  <2> QED BY <1>6, <2>1, <2>2
<1> QED BY <1>7

\* A list that is not ambiguous is fine.
LEMMA Unambiguous ==
  ASSUME EmitInv, NEW k \in Keys, NEW l, NEW F, \A f \in F : ~Ambiguous(k, l, f)
  PROVE  Fine(k, slots[k], l, F)
<1> DEFINE list == slots[k]
<1>1. list \in Seq(NodeType) /\ Unique(list)
  BY DEF EmitInv, Typed, IdsUnique, Unique
<1>2. activation[k] = 0 => \A i \in DOMAIN list : list[i].state = "connected"
  BY DEF EmitInv, Dirt
<1>3. ASSUME activation[k] # 0, NEW f \in F PROVE AtMostOne(list, l, f)
  <2> DEFINE P == {n \in NodeType : Matches(n, l, f)}
             I == {i \in DOMAIN list : Matches(list[i], l, f)}
  <2>1. I = {i \in DOMAIN list : list[i] \in P}
    <3>1. \A i \in DOMAIN list : list[i] \in NodeType
      BY <1>1
    <3> QED BY <3>1
  <2>2. IsFiniteSet(I) /\ Cardinality(I) \in Nat
    <3> HIDE DEF P, I
    <3> QED BY <1>1, <2>1, CountType DEF Count
  <2>3. ~(Cardinality(I) > 1)
    BY <1>3 DEF Ambiguous
  <2>4. ASSUME NEW i \in I, NEW j \in I PROVE i = j
    <3> HIDE DEF I
    <3>1. IsFiniteSet(I \ {i}) /\ Cardinality(I \ {i}) = Cardinality(I) - 1
      BY <2>2, FS_RemoveElement
    <3>2. Cardinality(I \ {i}) \in Nat
      BY <3>1, FS_CardinalityType
    <3>3. Cardinality(I \ {i}) = 0
      BY <2>2, <2>3, <3>1, <3>2
    <3>4. I \ {i} = {}
      BY <3>1, <3>3, FS_EmptySet
    <3> QED BY <3>4
  <2> QED BY <2>4 DEF AtMostOne
<1> QED BY <1>1, <1>2, <1>3 DEF Fine

\* Unlink gives a list of slots again, so that ~Listener is a loop over lists of slots.
LEMMA UnlinkTyped ==
  ASSUME NEW k, NEW list \in Seq(NodeType), NEW l, NEW f PROVE Unlink(k, list, l, f) \in Seq(NodeType)
<1>1. CASE activation[k] # 0
  BY <1>1, UnlinkMarks DEF Marked
<1>2. CASE activation[k] = 0
  <2>1. CASE Unlink(k, list, l, f) = list
    BY <2>1
  <2>2. ASSUME NEW i \in DOMAIN list, Unlink(k, list, l, f) = RemoveAt(list, i)
        PROVE  Unlink(k, list, l, f) \in Seq(NodeType)
    BY <2>2, RemoveAtElements
  <2>3. \A i : FirstMatch(list, i, l, f) => i \in DOMAIN list
    BY DEF FirstMatch
  <2> QED BY <1>2, <2>1, <2>2, <2>3, UnlinkCases
<1> QED BY <1>1, <1>2

\* ~Listener takes all connections of the listener off, and no other.
LEMMA UnlinkedCount ==
  ASSUME EmitInv, NEW k \in Keys, NEW l \in Listeners,
         Fine(k, slots[k], l, {f \in SlotFns : HasEntry(l, k, f)}),
         \A f \in SlotFns : Count(slotData[l][k[1]], Entry(k[2], f)) = Count(slots[k], Links(l, f))
  PROVE  /\ \A f \in SlotFns : Count(Unlinked(k, l), Links(l, f)) = 0
         /\ \A m, g : m # l => Count(Unlinked(k, l), Links(m, g)) = Count(slots[k], Links(m, g))
<1> DEFINE es == slotData[l][k[1]]
           N == Len(es)
           F == {f \in SlotFns : HasEntry(l, k, f)}
           s == k[2]
<1>1. slots[k] \in Seq(NodeType) /\ es \in Seq(EntryType)
  BY DEF EmitInv, Typed, Keys
<1>2. PICK h \in [0 .. N -> Seq(NodeType)] :
           /\ h[0] = slots[k]
           /\ \A n \in 1 .. N : h[n] = IF es[n].signal = s THEN Unlink(k, h[n - 1], l, es[n].slot) ELSE h[n - 1]
           /\ Unlinked(k, l) = h[N]
  BY <1>1, UnlinkTyped, UnlinkedLoop
<1>3. N \in Nat /\ \A n \in 1 .. N : es[n] \in EntryType /\ n \in DOMAIN es
  BY <1>1
<1> HIDE DEF es, N, s
<1>4. ASSUME NEW n \in 1 .. N
      PROVE  /\ es[n].slot \in SlotFns
             /\ es[n].signal = s => es[n].slot \in F
             /\ \A f : es[n] \in Entry(s, f) <=> es[n].signal = s /\ es[n].slot = f
             /\ n - 1 \in 0 .. N
  <2>1. es[n].slot \in SlotFns /\ es[n] = [signal |-> es[n].signal, slot |-> es[n].slot]
    BY <1>3 DEF EntryType
  <2>2. es[n].signal = s => HasEntry(l, k, es[n].slot)
    BY <1>3, <2>1 DEF HasEntry, es, s
  <2>3. \A f : es[n] \in Entry(s, f) <=> es[n].signal = s /\ es[n].slot = f
    BY <2>1 DEF Entry
  <2> QED BY <1>3, <2>1, <2>2, <2>3
<1> HIDE DEF F
\* What is left to unlink are the entries that are left.
<1> DEFINE Good(n) == /\ Fine(k, h[n], l, F)
                      /\ \A f \in SlotFns : Count(h[n], Links(l, f)) = Rest(es, n, Entry(s, f))
                      /\ \A m, g : m # l => Count(h[n], Links(m, g)) = Count(slots[k], Links(m, g))
           T == {n \in 0 .. N : Good(n)}
<1>5. 0 \in T
  <2>1. \A f \in SlotFns : Count(slots[k], Links(l, f)) = Rest(es, 0, Entry(s, f))
    BY <1>1, RestSteps DEF es, s
  <2>2. Fine(k, slots[k], l, F)
    BY DEF F
  <2> QED BY <1>2, <1>3, <2>1, <2>2
<1>6. ASSUME NEW n \in 1 .. N, n - 1 \in T PROVE n \in T
  <2>1. Good(n - 1)
    BY <1>6
  <2>2. \A f \in SlotFns : /\ Rest(es, n, Entry(s, f)) \in Nat
                           /\ Rest(es, n - 1, Entry(s, f)) =
                                IF es[n] \in Entry(s, f) THEN Rest(es, n, Entry(s, f)) + 1 ELSE Rest(es, n, Entry(s, f))
    <3>1. n \in 0 .. Len(es) /\ n \in 1 .. Len(es) /\ es \in Seq(EntryType)
      BY <1>1, <1>3 DEF N, es
    <3> SUFFICES ASSUME NEW f \in SlotFns
                 PROVE  /\ Rest(es, n, Entry(s, f)) \in Nat
                        /\ Rest(es, n - 1, Entry(s, f)) =
                             IF es[n] \in Entry(s, f) THEN Rest(es, n, Entry(s, f)) + 1 ELSE Rest(es, n, Entry(s, f))
      OBVIOUS
    <3> DEFINE P == Entry(s, f)
    <3> HIDE DEF P
    <3>2. /\ \A m \in 0 .. Len(es) : Rest(es, m, P) \in Nat
          /\ \A m \in 1 .. Len(es) :
               Rest(es, m - 1, P) = IF es[m] \in P THEN Rest(es, m, P) + 1 ELSE Rest(es, m, P)
      BY <3>1, RestSteps
    <3> QED BY <3>1, <3>2 DEF P
  <2>3. CASE es[n].signal = s
    <3> DEFINE f0 == es[n].slot
    <3>1. h[n] = Unlink(k, h[n - 1], l, f0) /\ f0 \in F /\ f0 \in SlotFns
      BY <1>2, <1>4, <2>3
    <3> HIDE DEF f0
    <3>2. Fine(k, h[n - 1], l, F)
      BY <2>1
    <3>3. Fine(k, h[n], l, F)
      BY <3>1, <3>2, UnlinkFine
    <3>4. /\ Count(h[n], Links(l, f0)) = IF Count(h[n - 1], Links(l, f0)) = 0 THEN 0 ELSE Count(h[n - 1], Links(l, f0)) - 1
          /\ \A m, g : m # l \/ g # f0 => Count(h[n], Links(m, g)) = Count(h[n - 1], Links(m, g))
      BY <3>1, <3>2, UnlinkCount
    <3>5. ASSUME NEW f \in SlotFns PROVE Count(h[n], Links(l, f)) = Rest(es, n, Entry(s, f))
      <4>0. Count(h[n - 1], Links(l, f)) = Rest(es, n - 1, Entry(s, f))
        BY <2>1
      <4>1. CASE f = f0
        <5>1. es[n] \in Entry(s, f)
          BY <1>4, <2>3, <4>1 DEF f0
        <5>2. Count(h[n - 1], Links(l, f)) = Rest(es, n, Entry(s, f)) + 1 /\ Rest(es, n, Entry(s, f)) \in Nat
          BY <2>2, <4>0, <5>1
        <5> QED BY <3>4, <4>1, <5>2
      <4>2. CASE f # f0
        <5>1. es[n] \notin Entry(s, f)
          BY <1>4, <4>2 DEF f0
        <5> QED BY <2>2, <3>4, <4>0, <4>2, <5>1
      <4> QED BY <4>1, <4>2
    <3>6. \A m, g : m # l => Count(h[n], Links(m, g)) = Count(slots[k], Links(m, g))
      BY <2>1, <3>4
    <3> QED BY <1>3, <3>3, <3>5, <3>6
  <2>4. CASE es[n].signal # s
    <3>1. h[n] = h[n - 1]
      BY <1>2, <2>4
    <3>2. \A f \in SlotFns : Rest(es, n, Entry(s, f)) = Rest(es, n - 1, Entry(s, f))
      BY <1>4, <2>2, <2>4
    <3>3. Good(n)
      BY <2>1, <3>1, <3>2
    <3> QED BY <1>3, <3>3
  <2> QED BY <2>3, <2>4
<1>7. N \in T
  <2> HIDE DEF T
  <2> QED BY <1>3, <1>5, <1>6, Induct
<1>8. \A f \in SlotFns : Rest(es, N, Entry(s, f)) = 0
  BY <1>1, RestSteps DEF N, es
<1> QED BY <1>2, <1>7, <1>8

\* Settling changes no number of connections.
LEMMA SettledCount ==
  ASSUME NEW list \in Seq(NodeType), NEW l, NEW f
  PROVE  Count(Settled(list), Links(l, f)) = Count(list, Links(l, f))
<1> DEFINE N == Len(list)
           P == Links(l, f)
<1>1. PICK h \in [0 .. N -> Seq(NodeType)] :
         /\ h[0] = <<>>
         /\ \A n \in 1 .. N :
              h[n] = IF list[n].state = "disconnected" THEN h[n - 1] ELSE Append(h[n - 1], Connected(list[n]))
         /\ Settled(list) = h[N]
  BY SettledLoop
<1>2. N \in Nat /\ \A n \in 1 .. N : list[n] \in NodeType
  OBVIOUS
<1> HIDE DEF N, P
<1>3. ASSUME NEW n \in 1 .. N
      PROVE  /\ Connected(list[n]) \in NodeType
             /\ list[n].state # "disconnected" => (Connected(list[n]) \in P <=> list[n] \in P)
             /\ list[n].state = "disconnected" => list[n] \notin P
             /\ n - 1 \in 0 .. N
  <2>1. list[n] \in NodeType
    BY <1>2
  <2>2. /\ Connected(list[n]) \in NodeType /\ Connected(list[n]).receiver = list[n].receiver
        /\ Connected(list[n]).slot = list[n].slot /\ Connected(list[n]).state = "connected"
    BY <2>1 DEF NodeType, Connected
  <2> QED BY <1>2, <2>1, <2>2 DEF P, Links, Matches
<1>4. \A n \in 0 .. N : Rest(list, n, P) \in Nat
  BY RestSteps DEF N
<1> DEFINE T == {n \in 0 .. N : Count(h[n], P) + Rest(list, n, P) = Count(list, P)}
<1>5. 0 \in T
  <2>1. Rest(list, 0, P) = Count(list, P) /\ Count(list, P) \in Nat
    BY RestSteps, CountType
  <2>2. Count(<<>>, P) = 0
    <3>1. <<>> \in Seq(NodeType) /\ \A i \in DOMAIN <<>> : <<>>[i] \notin P
      OBVIOUS
    <3> QED BY <3>1, CountType
  <2> QED BY <1>1, <1>2, <2>1, <2>2
<1>6. ASSUME NEW n \in 1 .. N, n - 1 \in T PROVE n \in T
  <2>1. Count(h[n - 1], P) + Rest(list, n - 1, P) = Count(list, P)
    BY <1>6
  <2>2. Rest(list, n - 1, P) = IF list[n] \in P THEN Rest(list, n, P) + 1 ELSE Rest(list, n, P)
    <3>1. \A m \in 1 .. Len(list) :
            Rest(list, m - 1, P) = IF list[m] \in P THEN Rest(list, m, P) + 1 ELSE Rest(list, m, P)
      BY RestSteps
    <3> QED BY <3>1 DEF N
  <2>3. h[n - 1] \in Seq(NodeType) /\ Count(h[n - 1], P) \in Nat /\ Rest(list, n, P) \in Nat /\ n \in 0 .. N
    <3>1. h[n - 1] \in Seq(NodeType) /\ n \in 0 .. N
      BY <1>1, <1>2, <1>3
    <3> QED BY <1>4, <3>1, CountType
  <2>4. CASE list[n].state = "disconnected"
    <3>1. h[n] = h[n - 1] /\ list[n] \notin P
      BY <1>1, <1>3, <2>4
    <3> QED BY <2>1, <2>2, <2>3, <3>1
  <2>5. CASE list[n].state # "disconnected"
    <3>1. h[n] = Append(h[n - 1], Connected(list[n]))
      BY <1>1, <2>5
    <3>2. Count(h[n], P) = IF Connected(list[n]) \in P THEN Count(h[n - 1], P) + 1 ELSE Count(h[n - 1], P)
      BY <1>3, <2>3, <3>1, CountAppend
    <3>3. Connected(list[n]) \in P <=> list[n] \in P
      BY <1>3, <2>5
    <3>4. Count(h[n], P) + Rest(list, n, P) = Count(list, P)
      <4>1. CASE list[n] \in P
        BY <2>1, <2>2, <2>3, <3>2, <3>3, <4>1
      <4>2. CASE list[n] \notin P
        BY <2>1, <2>2, <2>3, <3>2, <3>3, <4>2
      <4> QED BY <4>1, <4>2
    <3> QED BY <2>3, <3>4
  <2> QED BY <2>4, <2>5
<1>7. N \in T
  <2> HIDE DEF T
  <2> QED BY <1>2, <1>5, <1>6, Induct
<1>8. Rest(list, N, P) = 0
  BY RestSteps DEF N
<1>9. Count(h[N], P) \in Nat
  <2>1. h[N] \in Seq(NodeType)
    BY <1>1, <1>2
  <2> QED BY <2>1, CountType
<1> QED BY <1>1, <1>7, <1>8, <1>9 DEF P

\* ~Emitter takes the entries for the slots of one signal off, and no other.
LEMMA ForgetCount ==
  ASSUME NEW entries \in Seq(EntryType), NEW l, NEW s, NEW list \in Seq(NodeType),
         \A f \in SlotFns : Count(entries, Entry(s, f)) = Count(list, Links(l, f))
  PROVE  /\ Forget(entries, l, s, list) \in Seq(EntryType)
         /\ \A f \in SlotFns : Count(Forget(entries, l, s, list), Entry(s, f)) = 0
         /\ \A r, f : r # s => Count(Forget(entries, l, s, list), Entry(r, f)) = Count(entries, Entry(r, f))
<1> DEFINE N == Len(list)
           Taken(n) == list[n].receiver = l /\ list[n].state # "disconnected"
           x(n) == [signal |-> s, slot |-> list[n].slot]
<1>1. N \in Nat /\ \A n \in 1 .. N : list[n] \in NodeType
  OBVIOUS
<1>2. PICK h :
           /\ h \in [0 .. N -> Seq(EntryType)]
           /\ h[0] = entries
           /\ \A n \in 1 .. N : h[n] = IF Taken(n) THEN RemoveFirst(h[n - 1], x(n)) ELSE h[n - 1]
           /\ Forget(entries, l, s, list) = h[N]
  <2>1. Len(list) \in Nat
    BY <1>1
  <2>2. PICK h : ForgetTurns(h, entries, l, s, list)
    BY <2>1, ForgetLoop
  <2> QED BY <2>2 DEF ForgetTurns
<1> HIDE DEF N
<1>3. ASSUME NEW n \in 1 .. N
      PROVE  /\ list[n].slot \in SlotFns /\ n - 1 \in 0 .. N /\ n \in 0 .. N
             /\ \A f : list[n] \in Links(l, f) <=> Taken(n) /\ list[n].slot = f
             /\ \A r, f : x(n) \in Entry(r, f) <=> r = s /\ f = list[n].slot
             /\ Entry(s, list[n].slot) = {x(n)}
  <2>1. list[n] \in NodeType
    BY <1>1
  <2>2. list[n].slot \in SlotFns
    BY <2>1 DEF NodeType
  <2>3. \A f : list[n] \in Links(l, f) <=> Taken(n) /\ list[n].slot = f
    BY <2>1 DEF Links, Matches
  <2>4. \A r, f : x(n) \in Entry(r, f) <=> r = s /\ f = list[n].slot
    BY DEF Entry
  <2> QED BY <1>1, <2>2, <2>3, <2>4 DEF Entry
<1> HIDE DEF Taken, x
\* What is left to forget are the slots that are left.
<1> DEFINE Good(n) == /\ \A f \in SlotFns : Count(h[n], Entry(s, f)) = Rest(list, n, Links(l, f))
                      /\ \A r, f : r # s => Count(h[n], Entry(r, f)) = Count(entries, Entry(r, f))
           T == {n \in 0 .. N : Good(n)}
<1>4. 0 \in T
  <2>1. \A f \in SlotFns : Rest(list, 0, Links(l, f)) = Count(list, Links(l, f))
    BY RestSteps
  <2> QED BY <1>1, <1>2, <2>1
<1>5. ASSUME NEW n \in 1 .. N, n - 1 \in T PROVE n \in T
  <2>1. Good(n - 1)
    BY <1>5
  <2>2. h[n - 1] \in Seq(EntryType)
    BY <1>2, <1>3
  <2>3. ASSUME NEW f \in SlotFns
        PROVE  /\ Rest(list, n, Links(l, f)) \in Nat
               /\ Rest(list, n - 1, Links(l, f)) =
                    IF list[n] \in Links(l, f) THEN Rest(list, n, Links(l, f)) + 1 ELSE Rest(list, n, Links(l, f))
    <3> DEFINE P == Links(l, f)
    <3> HIDE DEF P
    <3>1. /\ \A m \in 0 .. Len(list) : Rest(list, m, P) \in Nat
          /\ \A m \in 1 .. Len(list) :
               Rest(list, m - 1, P) = IF list[m] \in P THEN Rest(list, m, P) + 1 ELSE Rest(list, m, P)
      BY RestSteps
    <3> QED BY <1>3, <3>1 DEF P, N
  <2>4. CASE Taken(n)
    <3> DEFINE f0 == list[n].slot
    <3>1. h[n] = RemoveFirst(h[n - 1], x(n))
      BY <1>2, <2>4
    <3>2. f0 \in SlotFns /\ Entry(s, f0) = {x(n)}
      BY <1>3
    <3>3. Count(h[n], Entry(s, f0)) = IF Count(h[n - 1], Entry(s, f0)) = 0 THEN 0 ELSE Count(h[n - 1], Entry(s, f0)) - 1
      <4> DEFINE P == Entry(s, f0)
                 y == x(n)
                 g == h[n - 1]
      <4> HIDE DEF P, y, g
      <4>1. P = {y} /\ h[n] = RemoveFirst(g, y) /\ g \in Seq(EntryType)
        BY <2>2, <3>1, <3>2 DEF P, y, g
      <4>2. Count(RemoveFirst(g, y), {y}) = IF Count(g, {y}) = 0 THEN 0 ELSE Count(g, {y}) - 1
        BY <4>1, CountRemoveFirst
      <4> QED BY <4>1, <4>2 DEF P, g
    <3>4. ASSUME NEW r, NEW f, x(n) \notin Entry(r, f) PROVE Count(h[n], Entry(r, f)) = Count(h[n - 1], Entry(r, f))
      <4> DEFINE P == Entry(r, f)
                 y == x(n)
                 g == h[n - 1]
      <4> HIDE DEF P, y, g
      <4>1. y \notin P /\ h[n] = RemoveFirst(g, y) /\ g \in Seq(EntryType)
        BY <2>2, <3>1, <3>4 DEF P, y, g
      <4>2. /\ Count(RemoveFirst(g, y), {y}) = IF Count(g, {y}) = 0 THEN 0 ELSE Count(g, {y}) - 1
            /\ \A Q : y \notin Q => Count(RemoveFirst(g, y), Q) = Count(g, Q)
        <5>1. g \in Seq(EntryType)
          BY <4>1
        <5> QED BY <5>1, CountRemoveFirst
      <4> QED BY <4>1, <4>2 DEF P, g
    <3>5. ASSUME NEW f \in SlotFns PROVE Count(h[n], Entry(s, f)) = Rest(list, n, Links(l, f))
      <4>0. Count(h[n - 1], Entry(s, f)) = Rest(list, n - 1, Links(l, f))
        BY <2>1
      <4>1. CASE f = f0
        <5>1. list[n] \in Links(l, f)
          BY <1>3, <2>4, <4>1
        <5>2. Count(h[n - 1], Entry(s, f)) = Rest(list, n, Links(l, f)) + 1 /\ Rest(list, n, Links(l, f)) \in Nat
          BY <2>3, <4>0, <5>1
        <5> DEFINE a == Count(h[n - 1], Entry(s, f))
        <5>3. Count(h[n], Entry(s, f)) = IF a = 0 THEN 0 ELSE a - 1
          <6> HIDE DEF f0
          <6> QED BY <3>3, <4>1
        <5> DEFINE b == Rest(list, n, Links(l, f))
        <5>4. a = b + 1 /\ b \in Nat
          BY <5>2
        <5> HIDE DEF a, b
        <5>5. a # 0 /\ a - 1 = b
          BY <5>4
        <5> QED BY <5>3, <5>5 DEF b
      <4>2. CASE f # f0
        <5>1. list[n] \notin Links(l, f) /\ x(n) \notin Entry(s, f)
          BY <1>3, <4>2
        <5> QED BY <2>3, <3>4, <4>0, <5>1
      <4> QED BY <4>1, <4>2
    <3>6. ASSUME NEW r, NEW f, r # s PROVE Count(h[n], Entry(r, f)) = Count(entries, Entry(r, f))
      <4>1. x(n) \notin Entry(r, f)
        BY <1>3, <3>6
      <4>2. Count(h[n - 1], Entry(r, f)) = Count(entries, Entry(r, f))
        BY <2>1, <3>6
      <4> QED BY <3>4, <4>1, <4>2
    <3>7. Good(n)
      BY <3>5, <3>6
    <3> QED BY <1>3, <3>7
  <2>5. CASE ~Taken(n)
    <3>1. h[n] = h[n - 1]
      BY <1>2, <2>5
    <3>2. \A f \in SlotFns : Rest(list, n, Links(l, f)) = Rest(list, n - 1, Links(l, f))
      BY <1>3, <2>3, <2>5
    <3>3. Good(n)
      BY <2>1, <3>1, <3>2
    <3> QED BY <1>3, <3>3
  <2> QED BY <2>4, <2>5
<1>6. N \in T
  <2> HIDE DEF T
  <2> QED BY <1>1, <1>4, <1>5, Induct
<1>7. \A f \in SlotFns : Rest(list, N, Links(l, f)) = 0
  BY RestSteps DEF N
<1>8. h[N] \in Seq(EntryType)
  BY <1>1, <1>2
<1> QED BY <1>2, <1>6, <1>7, <1>8

\* ~Emitter leaves a listener no entry.
LEMMA ForgottenCount ==
  ASSUME EmitInv, NEW l \in Listeners, NEW e \in Emitters,
         \A s \in Signals, f \in SlotFns : Count(slotData[l][e], Entry(s, f)) = Count(slots[<<e, s>>], Links(l, f))
  PROVE  \A s \in Signals, f \in SlotFns : Count(Forgotten(l, e), Entry(s, f)) = 0
<1> DEFINE N == Len(Order)
           es == slotData[l][e]
<1>1. es \in Seq(EntryType) /\ \A s \in Signals : slots[<<e, s>>] \in Seq(NodeType)
  BY DEF EmitInv, Typed, Keys
<1>2. /\ N \in Nat /\ \A n \in 1 .. N : Order[n] \in Signals
      /\ \A m, n \in 1 .. N : m # n => Order[m] # Order[n]
      /\ \A s \in Signals : \E n \in 1 .. N : Order[n] = s
  BY CallbackAssumption, OrderOfSignals
<1>3. PICK h \in [0 .. N -> Seq(EntryType)] :
           /\ h[0] = es
           /\ \A n \in 1 .. N : h[n] = Forget(h[n - 1], l, Order[n], slots[<<e, Order[n]>>])
           /\ Forgotten(l, e) = h[N]
  <2>1. \A s \in Signals : Len(slots[<<e, s>>]) \in Nat
    BY <1>1
  <2> QED BY <1>1, <2>1, CallbackAssumption, ForgottenLoop
<1> HIDE DEF N
<1> DEFINE Good(n) == \A m \in 1 .. N, f \in SlotFns :
                        /\ m <= n => Count(h[n], Entry(Order[m], f)) = 0
                        /\ m > n => Count(h[n], Entry(Order[m], f)) = Count(es, Entry(Order[m], f))
           T == {n \in 0 .. N : Good(n)}
<1>4. 0 \in T
  <2>1. \A m \in 1 .. N : ~(m <= 0)
    BY <1>2
  <2> QED BY <1>2, <1>3, <2>1
<1>5. ASSUME NEW n \in 1 .. N, n - 1 \in T PROVE n \in T
  <2> DEFINE s == Order[n]
             list == slots[<<e, s>>]
  <2>1. Good(n - 1) /\ n \in 0 .. N /\ n - 1 \in 0 .. N
    BY <1>2, <1>5
  <2>2. s \in Signals /\ list \in Seq(NodeType) /\ h[n - 1] \in Seq(EntryType) /\ h[n] = Forget(h[n - 1], l, s, list)
    BY <1>1, <1>2, <1>3, <2>1
  <2>3. \A f \in SlotFns : Count(h[n - 1], Entry(s, f)) = Count(list, Links(l, f))
    <3>1. n > n - 1
      BY <1>2
    <3>2. \A f \in SlotFns : Count(h[n - 1], Entry(s, f)) = Count(es, Entry(s, f))
      BY <2>1, <3>1
    <3> QED BY <2>2, <3>2
  <2>4. ASSUME NEW m \in 1 .. N, m # n PROVE Order[m] # s
    BY <1>2, <2>4
  <2> HIDE DEF s, list, es
  <2>5. /\ \A f \in SlotFns : Count(h[n], Entry(s, f)) = 0
        /\ \A r, f : r # s => Count(h[n], Entry(r, f)) = Count(h[n - 1], Entry(r, f))
    BY <2>2, <2>3, ForgetCount
  <2>6. ASSUME NEW m \in 1 .. N, NEW f \in SlotFns
        PROVE  /\ m <= n => Count(h[n], Entry(Order[m], f)) = 0
               /\ m > n => Count(h[n], Entry(Order[m], f)) = Count(es, Entry(Order[m], f))
    <3>1. CASE m = n
      <4>1. ~(m > n)
        BY <1>2, <3>1
      <4> QED BY <2>5, <3>1, <4>1 DEF s
    <3>2. CASE m # n
      <4>1. Count(h[n], Entry(Order[m], f)) = Count(h[n - 1], Entry(Order[m], f))
        BY <2>4, <2>5, <3>2
      <4>2. (m <= n => m <= n - 1) /\ (m > n => m > n - 1)
        BY <1>2, <3>2
      <4> QED BY <2>1, <4>1, <4>2
    <3> QED BY <3>1, <3>2
  <2> QED BY <2>1, <2>6
<1>6. N \in T
  <2> HIDE DEF T
  <2> QED BY <1>2, <1>4, <1>5, Induct
<1>7. ASSUME NEW s \in Signals, NEW f \in SlotFns PROVE Count(h[N], Entry(s, f)) = 0
  <2>1. PICK m \in 1 .. N : Order[m] = s
    BY <1>2
  <2>2. m <= N
    BY <1>2
  <2> QED BY <1>6, <2>1, <2>2
<1> QED BY <1>3, <1>7

-----------------------------------------------------------------------------
(* Both ends of a connection.                                              *)

\* A listener has as many entries for a slot as the signal has nodes that connect it, and a listener
\* that is deleted has none, until a slot was disconnected that was twice in a list iterated over.
Agree ==
  \A l \in Listeners, e \in Emitters, s \in Signals, f \in SlotFns :
    /\ Count(slotData[l][e], Entry(s, f)) = Count(slots[<<e, s>>], Links(l, f))
    /\ l \notin listeners => Count(slots[<<e, s>>], Links(l, f)) = 0

\* What keeps the two ends of the connections in agreement.
LinkInv == EmitInv /\ (~ambiguous => Agree)

\* The numbers in the next state.
LEMMA AgreeNext ==
  Agree' <=> \A l \in Listeners, e \in Emitters, s \in Signals, f \in SlotFns :
               /\ Count(slotData'[l][e], Entry(s, f)) = Count(slots'[<<e, s>>], Links(l, f))
               /\ l \notin listeners' => Count(slots'[<<e, s>>], Links(l, f)) = 0
BY DEF Agree, Links, Matches, Count, Entry

\* Steps that change no number of connections.
LEMMA SameLinks ==
  ASSUME Agree, UNCHANGED <<listeners, slotData>>,
         \A k \in Keys : \A l, f : Count(slots'[k], Links(l, f)) = Count(slots[k], Links(l, f))
  PROVE  Agree'
<1>1. \A e \in Emitters, s \in Signals : <<e, s>> \in Keys
  BY DEF Keys
<1> SUFFICES ASSUME NEW l \in Listeners, NEW e \in Emitters, NEW s \in Signals, NEW f \in SlotFns
             PROVE  /\ Count(slotData[l][e], Entry(s, f)) = Count(slots'[<<e, s>>], Links(l, f))
                    /\ l \notin listeners => Count(slots'[<<e, s>>], Links(l, f)) = 0
  BY AgreeNext
<1>2. Count(slots'[<<e, s>>], Links(l, f)) = Count(slots[<<e, s>>], Links(l, f))
  BY <1>1
<1> QED BY <1>2 DEF Agree

\* connect() adds one at either end.
LEMMA LinkConnect ==
  ASSUME EmitInv, Agree, NEW k \in Keys, NEW l \in Listeners, NEW f \in SlotFns, Connect(k, l, f)
  PROVE  Agree'
<1> DEFINE n == [id |-> FreeId(k), receiver |-> l, slot |-> f, state |-> NewState(k)]
           x == [signal |-> k[2], slot |-> f]
           e == k[1]
<1>1. /\ l \in listeners /\ Len(slots[k]) < MaxSlots
      /\ slots' = [slots EXCEPT ![k] = Append(slots[k], n)]
      /\ slotData' = [slotData EXCEPT ![l][e] = Append(slotData[l][e], x)]
      /\ UNCHANGED listeners
  BY DEF Connect
<1>2. slots \in [Keys -> Seq(NodeType)] /\ slotData \in [Listeners -> [Emitters -> Seq(EntryType)]]
  BY DEF EmitInv, Typed
<1>3. slots[k] \in Seq(NodeType) /\ e \in Emitters /\ k[2] \in Signals /\ slotData[l][e] \in Seq(EntryType)
      /\ k = <<e, k[2]>>
  BY <1>2 DEF Keys
<1>4. n \in NodeType /\ x \in EntryType
  <2>1. FreeId(k) \in 1 .. MaxSlots
    BY <1>1, <1>3, CallbackAssumption, FreeIdSound
  <2> QED BY <1>3, <2>1 DEF NodeType, EntryType, NewState
<1>5. \A m, g : n \in Links(m, g) <=> m = l /\ g = f
  BY <1>4 DEF Links, Matches, NewState
<1>6. \A s, g : x \in Entry(s, g) <=> s = k[2] /\ g = f
  BY DEF Entry
<1> HIDE DEF n, x, e
<1> SUFFICES ASSUME NEW m \in Listeners, NEW d \in Emitters, NEW s \in Signals, NEW g \in SlotFns
             PROVE  /\ Count(slotData'[m][d], Entry(s, g)) = Count(slots'[<<d, s>>], Links(m, g))
                    /\ m \notin listeners => Count(slots'[<<d, s>>], Links(m, g)) = 0
  BY <1>1, AgreeNext
<1>7. /\ Count(slotData[m][d], Entry(s, g)) = Count(slots[<<d, s>>], Links(m, g))
      /\ m \notin listeners => Count(slots[<<d, s>>], Links(m, g)) = 0
  BY DEF Agree
<1>8. <<d, s>> \in Keys /\ (<<d, s>> = k <=> d = e /\ s = k[2])
  BY <1>3 DEF Keys
<1>9. Count(slots'[<<d, s>>], Links(m, g)) =
        IF d = e /\ s = k[2] /\ m = l /\ g = f THEN Count(slots[<<d, s>>], Links(m, g)) + 1
        ELSE Count(slots[<<d, s>>], Links(m, g))
  <2>1. CASE <<d, s>> = k
    <3>1. slots'[<<d, s>>] = Append(slots[k], n)
      BY <1>1, <1>2, <2>1
    <3>2. Count(Append(slots[k], n), Links(m, g)) =
            IF n \in Links(m, g) THEN Count(slots[k], Links(m, g)) + 1 ELSE Count(slots[k], Links(m, g))
      BY <1>3, <1>4, CountAppend
    <3> QED BY <1>5, <1>8, <2>1, <3>1, <3>2
  <2>2. CASE <<d, s>> # k
    BY <1>1, <1>2, <1>8, <2>2
  <2> QED BY <2>1, <2>2
<1>10. Count(slotData'[m][d], Entry(s, g)) =
        IF d = e /\ s = k[2] /\ m = l /\ g = f THEN Count(slotData[m][d], Entry(s, g)) + 1
        ELSE Count(slotData[m][d], Entry(s, g))
  <2>1. CASE m = l /\ d = e
    <3>1. slotData'[m][d] = Append(slotData[l][e], x)
      BY <1>1, <1>2, <1>3, <2>1
    <3>2. Count(Append(slotData[l][e], x), Entry(s, g)) =
            IF x \in Entry(s, g) THEN Count(slotData[l][e], Entry(s, g)) + 1 ELSE Count(slotData[l][e], Entry(s, g))
      BY <1>3, <1>4, CountAppend
    <3> QED BY <1>6, <2>1, <3>1, <3>2
  <2>2. CASE ~(m = l /\ d = e)
    <3>1. slotData'[m][d] = slotData[m][d]
      BY <1>1, <1>2, <1>3, <2>2
    <3> QED BY <2>2, <3>1
  <2> QED BY <2>1, <2>2
<1> QED BY <1>1, <1>7, <1>9, <1>10

\* disconnect() takes one off at either end.
LEMMA LinkDisconnect ==
  ASSUME EmitInv, Agree, NEW k \in Keys, NEW l \in Listeners, NEW f \in SlotFns, Disconnect(k, l, f),
         ~ambiguous'
  PROVE  Agree'
<1> DEFINE new == Unlink(k, slots[k], l, f)
           x == [signal |-> k[2], slot |-> f]
           e == k[1]
<1>1. /\ slots' = [slots EXCEPT ![k] = new]
      /\ slotData' = [slotData EXCEPT ![l][e] = RemoveFirst(slotData[l][e], x)]
      /\ UNCHANGED listeners /\ l \in listeners
      /\ ~Ambiguous(k, l, f)
  BY DEF Disconnect
<1>2. slots \in [Keys -> Seq(NodeType)] /\ slotData \in [Listeners -> [Emitters -> Seq(EntryType)]]
  BY DEF EmitInv, Typed
<1>3. /\ slots[k] \in Seq(NodeType) /\ e \in Emitters /\ k[2] \in Signals /\ slotData[l][e] \in Seq(EntryType)
      /\ k = <<e, k[2]>>
  BY <1>2 DEF Keys
<1>4. /\ Count(new, Links(l, f)) = IF Count(slots[k], Links(l, f)) = 0 THEN 0 ELSE Count(slots[k], Links(l, f)) - 1
      /\ \A m, g : m # l \/ g # f => Count(new, Links(m, g)) = Count(slots[k], Links(m, g))
  <2>1. Fine(k, slots[k], l, {f})
    BY <1>1, Unambiguous
  <2>2. f \in {f}
    OBVIOUS
  <2> QED BY <2>1, <2>2, UnlinkCount
<1> DEFINE es == slotData[l][e]
           fs == RemoveFirst(es, x)
<1>5. /\ Count(fs, {x}) = IF Count(es, {x}) = 0 THEN 0 ELSE Count(es, {x}) - 1
      /\ \A P : x \notin P => Count(fs, P) = Count(es, P)
  <2>1. es \in Seq(EntryType)
    BY <1>3
  <2> HIDE DEF es, x
  <2> QED BY <2>1, CountRemoveFirst
<1>6. /\ \A s, g : x \in Entry(s, g) <=> s = k[2] /\ g = f
      /\ Entry(k[2], f) = {x}
  BY DEF Entry
<1>7. slots'[k] = new /\ \A q \in Keys : q # k => slots'[q] = slots[q]
  <2> HIDE DEF new
  <2> QED BY <1>1, <1>2
<1>8. slotData'[l][e] = fs /\ \A m \in Listeners, d \in Emitters : ~(m = l /\ d = e) => slotData'[m][d] = slotData[m][d]
  <2>1. slotData' = [slotData EXCEPT ![l][e] = fs]
    BY <1>1
  <2> HIDE DEF fs, e
  <2> QED BY <1>2, <1>3, <2>1
<1> HIDE DEF new, x, e, es, fs
<1> SUFFICES ASSUME NEW m \in Listeners, NEW d \in Emitters, NEW s \in Signals, NEW g \in SlotFns
             PROVE  /\ Count(slotData'[m][d], Entry(s, g)) = Count(slots'[<<d, s>>], Links(m, g))
                    /\ m \notin listeners => Count(slots'[<<d, s>>], Links(m, g)) = 0
  BY <1>1, AgreeNext
<1>9. /\ Count(slotData[m][d], Entry(s, g)) = Count(slots[<<d, s>>], Links(m, g))
      /\ m \notin listeners => Count(slots[<<d, s>>], Links(m, g)) = 0
  BY DEF Agree
<1>10. <<d, s>> \in Keys /\ (<<d, s>> = k <=> d = e /\ s = k[2])
  BY <1>3 DEF Keys
<1>11. CASE d = e /\ s = k[2] /\ m = l /\ g = f
  <2>1. slots'[<<d, s>>] = new /\ slotData'[m][d] = fs /\ slotData[m][d] = es /\ slots[<<d, s>>] = slots[k]
    BY <1>7, <1>8, <1>10, <1>11 DEF es
  <2>2. Entry(s, g) = {x} /\ m \in listeners
    BY <1>1, <1>6, <1>11
  <2> QED BY <1>4, <1>5, <1>9, <1>11, <2>1, <2>2
<1>12. CASE ~(d = e /\ s = k[2] /\ m = l /\ g = f)
  <2>1. Count(slots'[<<d, s>>], Links(m, g)) = Count(slots[<<d, s>>], Links(m, g))
    <3>1. CASE <<d, s>> = k
      BY <1>4, <1>7, <1>10, <1>12, <3>1
    <3>2. CASE <<d, s>> # k
      BY <1>7, <1>10, <3>2
    <3> QED BY <3>1, <3>2
  <2>2. Count(slotData'[m][d], Entry(s, g)) = Count(slotData[m][d], Entry(s, g))
    <3>1. CASE m = l /\ d = e
      <4>1. x \notin Entry(s, g)
        BY <1>6, <1>12, <3>1
      <4> QED BY <1>5, <1>8, <3>1, <4>1 DEF es
    <3>2. CASE ~(m = l /\ d = e)
      BY <1>8, <3>2
    <3> QED BY <3>1, <3>2
  <2> QED BY <1>9, <2>1, <2>2
<1> QED BY <1>11, <1>12

\* ~Listener takes all of its own off at either end.
LEMMA LinkDeleteListener ==
  ASSUME EmitInv, Agree, NEW l \in Listeners, DeleteListener(l), ~ambiguous'
  PROVE  Agree'
<1>1. /\ listeners' = listeners \ {l}
      /\ slots' = [k \in Keys |-> Unlinked(k, l)]
      /\ slotData' = [slotData EXCEPT ![l] = [e \in Emitters |-> <<>>]]
      /\ \A k \in Keys, f \in SlotFns : HasEntry(l, k, f) => ~Ambiguous(k, l, f)
  BY DEF DeleteListener
<1>2. slotData \in [Listeners -> [Emitters -> Seq(EntryType)]]
  BY DEF EmitInv, Typed
<1>3. ASSUME NEW k \in Keys
      PROVE  /\ \A f \in SlotFns : Count(slots'[k], Links(l, f)) = 0
             /\ \A m, g : m # l => Count(slots'[k], Links(m, g)) = Count(slots[k], Links(m, g))
  <2>1. slots'[k] = Unlinked(k, l)
    BY <1>1
  <2>2. Fine(k, slots[k], l, {f \in SlotFns : HasEntry(l, k, f)})
    <3> DEFINE F == {f \in SlotFns : HasEntry(l, k, f)}
    <3>1. \A f \in F : ~Ambiguous(k, l, f)
      BY <1>1
    <3> HIDE DEF F
    <3>2. Fine(k, slots[k], l, F)
      BY <3>1, Unambiguous
    <3> QED BY <3>2 DEF F
  <2>3. \A f \in SlotFns : Count(slotData[l][k[1]], Entry(k[2], f)) = Count(slots[k], Links(l, f))
    <3>1. k[1] \in Emitters /\ k[2] \in Signals /\ k = <<k[1], k[2]>>
      BY DEF Keys
    <3>2. \A f \in SlotFns : Count(slotData[l][k[1]], Entry(k[2], f)) = Count(slots[<<k[1], k[2]>>], Links(l, f))
      BY <3>1 DEF Agree
    <3> QED BY <3>1, <3>2
  <2>4. /\ \A f \in SlotFns : Count(Unlinked(k, l), Links(l, f)) = 0
        /\ \A m, g : m # l => Count(Unlinked(k, l), Links(m, g)) = Count(slots[k], Links(m, g))
    BY <2>2, <2>3, UnlinkedCount
  <2> QED BY <2>1, <2>4
<1> SUFFICES ASSUME NEW m \in Listeners, NEW d \in Emitters, NEW s \in Signals, NEW g \in SlotFns
             PROVE  /\ Count(slotData'[m][d], Entry(s, g)) = Count(slots'[<<d, s>>], Links(m, g))
                    /\ m \notin listeners' => Count(slots'[<<d, s>>], Links(m, g)) = 0
  BY AgreeNext
<1>4. <<d, s>> \in Keys
  BY DEF Keys
<1>5. /\ Count(slotData[m][d], Entry(s, g)) = Count(slots[<<d, s>>], Links(m, g))
      /\ m \notin listeners => Count(slots[<<d, s>>], Links(m, g)) = 0
  BY DEF Agree
<1>6. CASE m = l
  <2>1. slotData'[m][d] = <<>>
    BY <1>1, <1>2, <1>6
  <2>2. Count(<<>>, Entry(s, g)) = 0
    <3>1. <<>> \in Seq(EntryType) /\ \A i \in DOMAIN <<>> : <<>>[i] \notin Entry(s, g)
      OBVIOUS
    <3> QED BY <3>1, CountType
  <2>3. Count(slots'[<<d, s>>], Links(m, g)) = 0
    BY <1>3, <1>4, <1>6
  <2> QED BY <2>1, <2>2, <2>3
<1>7. CASE m # l
  <2>1. slotData'[m][d] = slotData[m][d] /\ (m \notin listeners' => m \notin listeners)
    BY <1>1, <1>2, <1>7
  <2>2. Count(slots'[<<d, s>>], Links(m, g)) = Count(slots[<<d, s>>], Links(m, g))
    BY <1>3, <1>4, <1>7
  <2> QED BY <1>5, <2>1, <2>2
<1> QED BY <1>6, <1>7

\* ~Emitter takes all of its own off at either end.
LEMMA LinkDeleteEmitter ==
  ASSUME EmitInv, Agree, NEW e \in Emitters, DeleteEmitter(e)
  PROVE  Agree'
<1>1. /\ slotData' = [l \in Listeners |-> [slotData[l] EXCEPT ![e] = Forgotten(l, e)]]
      /\ slots' = [k \in Keys |-> IF k[1] = e THEN <<>> ELSE slots[k]]
      /\ UNCHANGED listeners
  BY DEF DeleteEmitter
<1>2. slotData \in [Listeners -> [Emitters -> Seq(EntryType)]]
  BY DEF EmitInv, Typed
<1> SUFFICES ASSUME NEW m \in Listeners, NEW d \in Emitters, NEW s \in Signals, NEW g \in SlotFns
             PROVE  /\ Count(slotData'[m][d], Entry(s, g)) = Count(slots'[<<d, s>>], Links(m, g))
                    /\ m \notin listeners' => Count(slots'[<<d, s>>], Links(m, g)) = 0
  BY AgreeNext
<1>3. <<d, s>> \in Keys /\ <<d, s>>[1] = d
  BY DEF Keys
<1>4. /\ Count(slotData[m][d], Entry(s, g)) = Count(slots[<<d, s>>], Links(m, g))
      /\ m \notin listeners => Count(slots[<<d, s>>], Links(m, g)) = 0
  BY DEF Agree
<1>5. CASE d = e
  <2>1. slotData'[m][d] = Forgotten(m, e) /\ slots'[<<d, s>>] = <<>>
    BY <1>1, <1>2, <1>3, <1>5
  <2>2. Count(<<>>, Links(m, g)) = 0
    <3>1. <<>> \in Seq(NodeType) /\ \A i \in DOMAIN <<>> : <<>>[i] \notin Links(m, g)
      OBVIOUS
    <3> QED BY <3>1, CountType
  <2>3. Count(Forgotten(m, e), Entry(s, g)) = 0
    <3>1. \A r \in Signals, f \in SlotFns : Count(slotData[m][e], Entry(r, f)) = Count(slots[<<e, r>>], Links(m, f))
      BY DEF Agree
    <3> QED BY <3>1, ForgottenCount
  <2> QED BY <2>1, <2>2, <2>3
<1>6. CASE d # e
  <2>1. slotData'[m][d] = slotData[m][d] /\ slots'[<<d, s>>] = slots[<<d, s>>]
    BY <1>1, <1>2, <1>3, <1>6
  <2> QED BY <1>1, <1>4, <2>1
<1> QED BY <1>5, <1>6

\* The end of an emit() settles a list.
LEMMA LinkEmitEnd ==
  ASSUME EmitInv, Agree, EmitEnd PROVE Agree'
<1> DEFINE k == Top.key
<1>1. /\ stack # <<>>
      /\ \/ slots' = [slots EXCEPT ![k] = Settled(slots[k])]
         \/ slots' = slots
      /\ UNCHANGED <<listeners, slotData>>
  BY DEF EmitEnd, UserCode
<1>2. k \in Keys /\ slots[k] \in Seq(NodeType) /\ slots \in [Keys -> Seq(NodeType)]
  <2>1. k \in Keys /\ slots[k] \in Seq(NodeType)
    BY <1>1, TopTyped
  <2> QED BY <2>1 DEF EmitInv, Typed
<1> HIDE DEF k
<1>3. ASSUME NEW q \in Keys, NEW l, NEW f PROVE Count(slots'[q], Links(l, f)) = Count(slots[q], Links(l, f))
  <2>1. slots'[q] = slots[q] \/ (q = k /\ slots'[q] = Settled(slots[k]))
    BY <1>1, <1>2
  <2>2. Count(Settled(slots[k]), Links(l, f)) = Count(slots[k], Links(l, f))
    BY <1>2, SettledCount
  <2> QED BY <2>1, <2>2
<1> QED BY <1>1, <1>3, SameLinks

\* Nothing is connected at first.
LEMMA LinkInitially ==
  Init => LinkInv
<1> SUFFICES ASSUME Init PROVE LinkInv
  OBVIOUS
<1>1. EmitInv
  BY EmitInitially
<1>2. Agree
  <2> SUFFICES ASSUME NEW l \in Listeners, NEW e \in Emitters, NEW s \in Signals, NEW f \in SlotFns
               PROVE  /\ Count(slotData[l][e], Entry(s, f)) = 0
                      /\ Count(slots[<<e, s>>], Links(l, f)) = 0
    BY DEF Agree
  <2>1. slotData[l][e] = <<>> /\ slots[<<e, s>>] = <<>>
    BY DEF Init, Keys
  <2>2. <<>> \in Seq(NodeType) /\ \A P : \A i \in DOMAIN <<>> : <<>>[i] \notin P
    OBVIOUS
  <2>3. \A P : Count(<<>>, P) = 0
    BY <2>2, CountType
  <2> QED BY <2>1, <2>3
<1> QED BY <1>1, <1>2 DEF LinkInv

\* Every step keeps both ends in agreement.
LEMMA LinkStep ==
  LinkInv /\ [Next]_vars => LinkInv'
<1> SUFFICES ASSUME LinkInv, [Next]_vars PROVE LinkInv'
  OBVIOUS
<1>1. EmitInv /\ EmitInv' /\ (~ambiguous => Agree)
  BY EmitStep DEF LinkInv
<1>2. ambiguous => ambiguous'
  BY DEF Next, vars, Connect, Disconnect, Emit, DeleteListener, DeleteEmitter, CallSlot, SkipSlot, ReturnSlot,
         ReturnInvalidated, EmitEnd
<1> SUFFICES ASSUME ~ambiguous' PROVE Agree'
  BY <1>1 DEF LinkInv
<1>3. Agree
  BY <1>1, <1>2
<1>4. ASSUME NEW k \in Keys, NEW l \in Listeners, NEW f \in SlotFns, Connect(k, l, f) PROVE Agree'
  BY <1>1, <1>3, <1>4, LinkConnect
<1>5. ASSUME NEW k \in Keys, NEW l \in Listeners, NEW f \in SlotFns, Disconnect(k, l, f) PROVE Agree'
  BY <1>1, <1>3, <1>5, LinkDisconnect
<1>6. ASSUME NEW l \in Listeners, DeleteListener(l) PROVE Agree'
  BY <1>1, <1>3, <1>6, LinkDeleteListener
<1>7. ASSUME NEW e \in Emitters, DeleteEmitter(e) PROVE Agree'
  BY <1>1, <1>3, <1>7, LinkDeleteEmitter
<1>8. CASE EmitEnd
  BY <1>1, <1>3, <1>8, LinkEmitEnd
<1>9. CASE UNCHANGED <<listeners, slots, slotData>>
  BY <1>3, <1>9, SameLinks
<1>10. (\E k \in Keys : Emit(k)) \/ CallSlot \/ SkipSlot \/ ReturnSlot \/ ReturnInvalidated \/ UNCHANGED vars
         => UNCHANGED <<listeners, slots, slotData>>
  BY DEF Emit, CallSlot, SkipSlot, ReturnSlot, ReturnInvalidated, vars, signalVars
<1> QED BY <1>4, <1>5, <1>6, <1>7, <1>8, <1>9, <1>10 DEF Next

\* The invariant holds in every state.
THEOREM LinkInvariance == Spec => []LinkInv
<1> QED BY LinkInitially, LinkStep, PTL DEF Spec

\* A listener has an entry for each of its slots that is connected, and none besides: ~Listener finds
\* all the lists it is in and no emitter that is gone, and ~Emitter all the listeners (Callback.cpp 4-30
\* and 75-103).
THEOREM EndsAgree == Spec => []BothEndsAgree
<1>1. LinkInv => BothEndsAgree
  <2> SUFFICES ASSUME LinkInv, ~ambiguous,
                      NEW l \in listeners, NEW e \in Emitters, NEW s \in Signals, NEW f \in SlotFns
      PROVE  Cardinality({i \in DOMAIN slotData[l][e] : slotData[l][e][i].signal = s /\ slotData[l][e][i].slot = f})
               = Cardinality({i \in DOMAIN slots[<<e, s>>] :
                                Matches(slots[<<e, s>>][i], l, f) /\ slots[<<e, s>>][i].state # "disconnected"})
    BY DEF BothEndsAgree, Occurrences
  <2> DEFINE es == slotData[l][e]
             list == slots[<<e, s>>]
  <2>1. l \in Listeners /\ es \in Seq(EntryType) /\ list \in Seq(NodeType)
    BY DEF LinkInv, EmitInv, Typed, Keys
  <2>2. Count(es, Entry(s, f)) = Count(list, Links(l, f))
    BY <2>1 DEF LinkInv, Agree
  <2> HIDE DEF es, list
  <2>3. {i \in DOMAIN es : es[i].signal = s /\ es[i].slot = f} = {i \in DOMAIN es : es[i] \in Entry(s, f)}
    <3>1. \A i \in DOMAIN es : es[i] \in EntryType
      BY <2>1
    <3>2. \A i \in DOMAIN es : es[i].signal = s /\ es[i].slot = f <=> es[i] \in Entry(s, f)
      BY <3>1 DEF EntryType, Entry
    <3> QED BY <3>2
  <2>4. {i \in DOMAIN list : Matches(list[i], l, f) /\ list[i].state # "disconnected"}
          = {i \in DOMAIN list : list[i] \in Links(l, f)}
    <3>1. \A i \in DOMAIN list : list[i] \in NodeType
      BY <2>1
    <3> QED BY <3>1 DEF Links
  <2> QED BY <2>2, <2>3, <2>4 DEF Count, es, list
<1> QED BY <1>1, LinkInvariance, PTL

\* A slot that is connected belongs to a listener that is there, wherever the listener was deleted.
THEOREM NoDanglingReceiver == Spec => []ReceiverAlive
<1>1. LinkInv => ReceiverAlive
  <2> SUFFICES ASSUME LinkInv, ~ambiguous, NEW k \in Keys, NEW i \in DOMAIN slots[k],
                      slots[k][i].state # "disconnected", slots[k][i].receiver \notin listeners
               PROVE  FALSE
    BY DEF ReceiverAlive
  <2> DEFINE list == slots[k]
             l == list[i].receiver
             f == list[i].slot
  <2>1. list \in Seq(NodeType) /\ list[i] \in NodeType
    BY DEF LinkInv, EmitInv, Typed
  <2>2. l \in Listeners /\ f \in SlotFns /\ list[i] \in Links(l, f)
    BY <2>1 DEF NodeType, Links, Matches
  <2>3. k[1] \in Emitters /\ k[2] \in Signals /\ k = <<k[1], k[2]>>
    BY DEF Keys
  <2>4. Count(list, Links(l, f)) = 0
    <3>1. Count(slots[<<k[1], k[2]>>], Links(l, f)) = 0
      BY <2>2, <2>3 DEF LinkInv, Agree
    <3> QED BY <2>3, <3>1
  <2> HIDE DEF l, f
  <2> QED BY <2>1, <2>2, <2>4, CountType
<1> QED BY <1>1, LinkInvariance, PTL
=============================================================================
