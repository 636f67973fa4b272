----------------------- MODULE SharedDataSteps_proofs -----------------------
(***************************************************************************)
(* The invariant of SharedData, and that no step of a call breaks it.      *)
(*                                                                         *)
(* A reference is in a place, a handle or the content of a Variant block,  *)
(* or a thread carries it in its hands: it took it with a step of its call *)
(* and gives it up with a later one. What a thread carries can be read     *)
(* from the steps it has still to take. The invariant says that the count  *)
(* of every block is the number of places that keep it and of references   *)
(* that are carried; that the steps a thread has to take give up no        *)
(* reference that they have not taken, take none to what the thread cannot *)
(* reach, and write only what nobody else has a reference to; and that a   *)
(* block without references is somebody's to delete.                       *)
(*                                                                         *)
(* A list of steps is never looked at as a whole: what it sets, allocates, *)
(* writes and carries is what its head does and what its tail does.        *)
(***************************************************************************)
EXTENDS SharedData, Integers, FiniteSetTheorems, SequenceTheorems, TLAPS

\* What can name a block; NoBlock does not.
Blocks == Nat \X (Nat \ {0})
\* The data of a place: a block, or a value.
DataSet == {InBlock(b) : b \in Blocks} \cup {Inline(x) : x \in Nat}
\* The kinds of a block.
Kinds == {"chars", "string", "map", "list", "array", "object"}
\* What a block can be.
BlockSet == [kind : Kinds, ref : Nat, val : Nat, inner : DataSet]
\* The places thread t can set: its handles, and what is within a block.
PlaceSet(t) == {Here(h) : h \in Own(t)} \cup {Within(b) : b \in Blocks}
\* The steps thread t can have to take.
StepSet(t) == [op : {"inc", "dec", "delete"}, block : Blocks]
                \cup [op : {"put"}, block : Blocks, data : Nat]
                \cup [op : {"new"}, block : {t} \X (Nat \ {0}), data : {d \in BlockSet : d.ref \in {0, 1}}]
                \cup [op : {"set"}, place : PlaceSet(t), data : DataSet]
                \cup [op : {"edit"}, place : PlaceSet(t)]

\* The places that a list of steps sets, the blocks it allocates, and the ones it deletes.
SetIn(s) == {s[i].place : i \in {j \in DOMAIN s : s[j].op = "set"}}
NewIn(s) == {s[i].block : i \in {j \in DOMAIN s : s[j].op = "new"}}
DelIn(s) == {s[i].block : i \in {j \in DOMAIN s : s[j].op = "delete"}}

\* x writes block b.
Writes(x, b) == \/ x.op = "put" /\ x.block = b
                \/ x.op \in {"set", "edit"} /\ x.place = Within(b)
\* The blocks a list writes, and those of them that it does not allocate before.
WrittenIn(s) == {b \in Blocks : \E i \in DOMAIN s : Writes(s[i], b)}
\* x allocates block b.
IsNew(x, b) == x.op = "new" /\ x.block = b
\* The blocks a list writes that were allocated before the list.
Open(s) == {b \in Blocks : \E i \in DOMAIN s : Writes(s[i], b) /\ \A j \in 1 .. i - 1 : ~IsNew(s[j], b)}
\* Step i of a list gives up a reference to b that the thread carries: it counts it down, or leaves
\* it in a place; what is in a new block counts unless a later step replaces it.
SpendsAt(s, i, b) == \/ s[i].op = "dec" /\ s[i].block = b
                     \/ s[i].op = "set" /\ s[i].data.at = b
                     \/ s[i].op = "new" /\ s[i].data.inner.at = b
                          /\ \A j \in i + 1 .. Len(s) : ~(s[j].op = "set" /\ s[j].place = Within(s[i].block))
\* Step i of a list gives the thread a reference to b.
GainsAt(s, i, b) == \/ s[i].op = "inc" /\ s[i].block = b
                    \/ s[i].op = "new" /\ s[i].block = b /\ s[i].data.ref = 1
\* The references to b that a thread with this list carries in its hands: those it gives up later
\* and does not gain before.
Carried(s, b) == Cardinality({i \in DOMAIN s : SpendsAt(s, i, b)}) - Cardinality({i \in DOMAIN s : GainsAt(s, i, b)})

-----------------------------------------------------------------------------
\* A list that is not empty has a head and a tail.
LEMMA Split ==
  ASSUME NEW S, NEW s \in Seq(S), s # <<>>
  PROVE  /\ Len(s) \in Nat \ {0} /\ DOMAIN s = 1 .. Len(s)
         /\ Head(s) = s[1] /\ Head(s) \in S
         /\ Tail(s) \in Seq(S) /\ Len(Tail(s)) = Len(s) - 1 /\ DOMAIN Tail(s) = 1 .. Len(s) - 1
         /\ \A i \in 1 .. Len(s) - 1 : Tail(s)[i] = s[i + 1]
<1>1. Len(s) \in Nat /\ Len(s) # 0
  BY EmptySeq, LenProperties
<1>2. Tail(s) \in Seq(S) /\ Len(Tail(s)) = Len(s) - 1 /\ \A i \in 1 .. Len(Tail(s)) : Tail(s)[i] = s[i + 1]
  BY HeadTailProperties
<1>3. DOMAIN s = 1 .. Len(s) /\ DOMAIN Tail(s) = 1 .. Len(Tail(s))
  BY <1>2, LenProperties
<1> QED BY <1>1, <1>2, <1>3, HeadTailProperties

\* A step before a list is its head.
LEMMA Joined ==
  ASSUME NEW S, NEW x \in S, NEW r \in Seq(S)
  PROVE  LET s == <<x>> \o r IN s \in Seq(S) /\ s # <<>> /\ Head(s) = x /\ Tail(s) = r
<1> DEFINE s == <<x>> \o r
<1>1. <<x>> \in Seq(S) /\ Len(<<x>>) = 1 /\ <<x>>[1] = x
  OBVIOUS
<1>2. s \in Seq(S) /\ Len(s) = 1 + Len(r) /\ \A i \in 1 .. 1 + Len(r) : s[i] = IF i <= 1 THEN x ELSE r[i - 1]
  BY <1>1, ConcatProperties
<1>3. Len(r) \in Nat
  BY LenProperties
<1>4. s # <<>>
  BY <1>2, <1>3, EmptySeq
<1> HIDE DEF s
<1>5. Head(s) = x
  BY <1>2, <1>3, <1>4, Split
<1>6. Tail(s) \in Seq(S) /\ Len(Tail(s)) = Len(r) /\ \A i \in 1 .. Len(r) : Tail(s)[i] = s[i + 1]
  BY <1>2, <1>3, <1>4, Split
<1>7. \A i \in 1 .. Len(r) : Tail(s)[i] = r[i]
  BY <1>2, <1>3, <1>6
<1>8. Tail(s) = r
  BY <1>6, <1>7, SeqEqual
<1> QED BY <1>2, <1>4, <1>5, <1>8 DEF s

\* What a list sets, allocates, deletes and writes is what its head does, and its tail.
LEMMA SetInSplit ==
  ASSUME NEW S, NEW s \in Seq(S), s # <<>>
  PROVE  SetIn(s) = SetIn(Tail(s)) \cup (IF Head(s).op = "set" THEN {Head(s).place} ELSE {})
<1>1. \A i \in DOMAIN s : i = 1 \/ (i - 1 \in DOMAIN Tail(s) /\ Tail(s)[i - 1] = s[i])
  BY Split
<1>2. \A i \in DOMAIN Tail(s) : i + 1 \in DOMAIN s /\ Tail(s)[i] = s[i + 1]
  BY Split
<1>3. 1 \in DOMAIN s /\ Head(s) = s[1]
  BY Split
<1>4. \A p : p \in SetIn(s) <=> \E i \in DOMAIN s : s[i].op = "set" /\ s[i].place = p
  BY DEF SetIn
<1>5. \A p : p \in SetIn(Tail(s)) <=> \E i \in DOMAIN Tail(s) : Tail(s)[i].op = "set" /\ Tail(s)[i].place = p
  BY DEF SetIn
<1>6. \A p : p \in SetIn(s) <=> p \in SetIn(Tail(s)) \/ (Head(s).op = "set" /\ Head(s).place = p)
  <2> SUFFICES ASSUME NEW p PROVE p \in SetIn(s) <=> p \in SetIn(Tail(s)) \/ (Head(s).op = "set" /\ Head(s).place = p)
    OBVIOUS
  <2>1. ASSUME p \in SetIn(s) PROVE p \in SetIn(Tail(s)) \/ (Head(s).op = "set" /\ Head(s).place = p)
    <3>1. PICK i \in DOMAIN s : s[i].op = "set" /\ s[i].place = p
      BY <1>4, <2>1
    <3>2. CASE i = 1
      BY <3>1, <3>2, <1>3
    <3>3. CASE i # 1
      <4>1. i - 1 \in DOMAIN Tail(s) /\ Tail(s)[i - 1] = s[i]
        BY <3>3, <1>1
      <4> QED BY <4>1, <3>1, <1>5
    <3> QED BY <3>2, <3>3
  <2>2. ASSUME p \in SetIn(Tail(s)) PROVE p \in SetIn(s)
    BY <1>2, <1>4, <1>5, <2>2
  <2>3. ASSUME Head(s).op = "set" /\ Head(s).place = p PROVE p \in SetIn(s)
    BY <1>3, <1>4, <2>3
  <2> QED BY <2>1, <2>2, <2>3
<1> QED BY <1>6

\* The same of what it allocates,
LEMMA NewInSplit ==
  ASSUME NEW S, NEW s \in Seq(S), s # <<>>
  PROVE  NewIn(s) = NewIn(Tail(s)) \cup (IF Head(s).op = "new" THEN {Head(s).block} ELSE {})
<1>1. \A i \in DOMAIN s : i = 1 \/ (i - 1 \in DOMAIN Tail(s) /\ Tail(s)[i - 1] = s[i])
  BY Split
<1>2. \A i \in DOMAIN Tail(s) : i + 1 \in DOMAIN s /\ Tail(s)[i] = s[i + 1]
  BY Split
<1>3. 1 \in DOMAIN s /\ Head(s) = s[1]
  BY Split
<1>4. \A p : p \in NewIn(s) <=> \E i \in DOMAIN s : s[i].op = "new" /\ s[i].block = p
  BY DEF NewIn
<1>5. \A p : p \in NewIn(Tail(s)) <=> \E i \in DOMAIN Tail(s) : Tail(s)[i].op = "new" /\ Tail(s)[i].block = p
  BY DEF NewIn
<1>6. \A p : p \in NewIn(s) <=> p \in NewIn(Tail(s)) \/ (Head(s).op = "new" /\ Head(s).block = p)
  <2> SUFFICES ASSUME NEW p PROVE p \in NewIn(s) <=> p \in NewIn(Tail(s)) \/ (Head(s).op = "new" /\ Head(s).block = p)
    OBVIOUS
  <2>1. ASSUME p \in NewIn(s) PROVE p \in NewIn(Tail(s)) \/ (Head(s).op = "new" /\ Head(s).block = p)
    <3>1. PICK i \in DOMAIN s : s[i].op = "new" /\ s[i].block = p
      BY <1>4, <2>1
    <3>2. CASE i = 1
      BY <3>1, <3>2, <1>3
    <3>3. CASE i # 1
      <4>1. i - 1 \in DOMAIN Tail(s) /\ Tail(s)[i - 1] = s[i]
        BY <3>3, <1>1
      <4> QED BY <4>1, <3>1, <1>5
    <3> QED BY <3>2, <3>3
  <2>2. ASSUME p \in NewIn(Tail(s)) PROVE p \in NewIn(s)
    BY <1>2, <1>4, <1>5, <2>2
  <2>3. ASSUME Head(s).op = "new" /\ Head(s).block = p PROVE p \in NewIn(s)
    BY <1>3, <1>4, <2>3
  <2> QED BY <2>1, <2>2, <2>3
<1> QED BY <1>6

\* of what it deletes,
LEMMA DelInSplit ==
  ASSUME NEW S, NEW s \in Seq(S), s # <<>>
  PROVE  DelIn(s) = DelIn(Tail(s)) \cup (IF Head(s).op = "delete" THEN {Head(s).block} ELSE {})
<1>1. \A i \in DOMAIN s : i = 1 \/ (i - 1 \in DOMAIN Tail(s) /\ Tail(s)[i - 1] = s[i])
  BY Split
<1>2. \A i \in DOMAIN Tail(s) : i + 1 \in DOMAIN s /\ Tail(s)[i] = s[i + 1]
  BY Split
<1>3. 1 \in DOMAIN s /\ Head(s) = s[1]
  BY Split
<1>4. \A p : p \in DelIn(s) <=> \E i \in DOMAIN s : s[i].op = "delete" /\ s[i].block = p
  BY DEF DelIn
<1>5. \A p : p \in DelIn(Tail(s)) <=> \E i \in DOMAIN Tail(s) : Tail(s)[i].op = "delete" /\ Tail(s)[i].block = p
  BY DEF DelIn
<1>6. \A p : p \in DelIn(s) <=> p \in DelIn(Tail(s)) \/ (Head(s).op = "delete" /\ Head(s).block = p)
  <2> SUFFICES ASSUME NEW p PROVE p \in DelIn(s) <=> p \in DelIn(Tail(s)) \/ (Head(s).op = "delete" /\ Head(s).block = p)
    OBVIOUS
  <2>1. ASSUME p \in DelIn(s) PROVE p \in DelIn(Tail(s)) \/ (Head(s).op = "delete" /\ Head(s).block = p)
    <3>1. PICK i \in DOMAIN s : s[i].op = "delete" /\ s[i].block = p
      BY <1>4, <2>1
    <3>2. CASE i = 1
      BY <3>1, <3>2, <1>3
    <3>3. CASE i # 1
      <4>1. i - 1 \in DOMAIN Tail(s) /\ Tail(s)[i - 1] = s[i]
        BY <3>3, <1>1
      <4> QED BY <4>1, <3>1, <1>5
    <3> QED BY <3>2, <3>3
  <2>2. ASSUME p \in DelIn(Tail(s)) PROVE p \in DelIn(s)
    BY <1>2, <1>4, <1>5, <2>2
  <2>3. ASSUME Head(s).op = "delete" /\ Head(s).block = p PROVE p \in DelIn(s)
    BY <1>3, <1>4, <2>3
  <2> QED BY <2>1, <2>2, <2>3
<1> QED BY <1>6

\* of what it writes,
LEMMA WrittenInSplit ==
  ASSUME NEW S, NEW s \in Seq(S), s # <<>>
  PROVE  WrittenIn(s) = WrittenIn(Tail(s)) \cup {b \in Blocks : Writes(Head(s), b)}
<1>1. \A i \in DOMAIN s : i = 1 \/ (i - 1 \in DOMAIN Tail(s) /\ Tail(s)[i - 1] = s[i])
  BY Split
<1>2. \A i \in DOMAIN Tail(s) : i + 1 \in DOMAIN s /\ Tail(s)[i] = s[i + 1]
  BY Split
<1>3. 1 \in DOMAIN s /\ Head(s) = s[1]
  BY Split
<1>4. \A b \in Blocks : b \in WrittenIn(s) <=> \E i \in DOMAIN s : Writes(s[i], b)
  BY DEF WrittenIn
<1>5. \A b \in Blocks : b \in WrittenIn(Tail(s)) <=> \E i \in DOMAIN Tail(s) : Writes(Tail(s)[i], b)
  BY DEF WrittenIn
<1>6. ASSUME NEW b \in Blocks PROVE b \in WrittenIn(s) <=> b \in WrittenIn(Tail(s)) \/ Writes(Head(s), b)
  <2>1. ASSUME b \in WrittenIn(s) PROVE b \in WrittenIn(Tail(s)) \/ Writes(Head(s), b)
    <3>1. PICK i \in DOMAIN s : Writes(s[i], b)
      BY <1>4, <2>1
    <3>2. CASE i = 1
      BY <3>1, <3>2, <1>3
    <3>3. CASE i # 1
      <4>1. i - 1 \in DOMAIN Tail(s) /\ Tail(s)[i - 1] = s[i]
        BY <3>3, <1>1
      <4> QED BY <4>1, <3>1, <1>5
    <3> QED BY <3>2, <3>3
  <2>2. ASSUME b \in WrittenIn(Tail(s)) PROVE b \in WrittenIn(s)
    BY <1>2, <1>4, <1>5, <2>2
  <2>3. ASSUME Writes(Head(s), b) PROVE b \in WrittenIn(s)
    BY <1>3, <1>4, <2>3
  <2> QED BY <2>1, <2>2, <2>3
<1>7. \A b \in WrittenIn(s) \cup WrittenIn(Tail(s)) : b \in Blocks
  BY DEF WrittenIn
<1> QED BY <1>6, <1>7

\* and of what it writes and has not allocated before.
LEMMA OpenSplit ==
  ASSUME NEW S, NEW s \in Seq(S), s # <<>>
  PROVE  Open(s) = {b \in Blocks : Writes(Head(s), b)} \cup {b \in Open(Tail(s)) : ~IsNew(Head(s), b)}
<1> DEFINE r == Tail(s)
<1>0. /\ Len(s) \in Nat \ {0} /\ DOMAIN s = 1 .. Len(s) /\ Head(s) = s[1]
      /\ DOMAIN r = 1 .. Len(s) - 1 /\ \A i \in 1 .. Len(s) - 1 : r[i] = s[i + 1]
  BY Split
<1> HIDE DEF r
<1>1. ASSUME NEW b \in Open(s) PROVE Writes(Head(s), b) \/ (b \in Open(r) /\ ~IsNew(Head(s), b))
  <2>1. PICK i \in DOMAIN s : Writes(s[i], b) /\ \A j \in 1 .. i - 1 : ~IsNew(s[j], b)
    BY <1>1 DEF Open
  <2>2. CASE i = 1
    BY <2>1, <2>2, <1>0
  <2>3. CASE i # 1
    <3>1. i - 1 \in DOMAIN r /\ r[i - 1] = s[i] /\ 1 \in 1 .. i - 1
      BY <1>0, <2>3
    <3>2. \A j \in 1 .. (i - 1) - 1 : ~IsNew(r[j], b)
      BY <1>0, <2>1, <2>3
    <3> QED BY <3>1, <3>2, <2>1, <1>0 DEF Open
  <2> QED BY <2>2, <2>3
<1>2. ASSUME NEW b \in Blocks, Writes(Head(s), b) PROVE b \in Open(s)
  <2>1. 1 \in DOMAIN s /\ 1 .. 1 - 1 = {}
    BY <1>0
  <2> QED BY <1>0, <1>2, <2>1 DEF Open
<1>3. ASSUME NEW b \in Open(r), ~IsNew(Head(s), b) PROVE b \in Open(s)
  <2>1. PICK i \in DOMAIN r : Writes(r[i], b) /\ \A j \in 1 .. i - 1 : ~IsNew(r[j], b)
    BY <1>3 DEF Open
  <2>2. i + 1 \in DOMAIN s /\ s[i + 1] = r[i]
    BY <1>0
  <2>3. \A j \in 1 .. (i + 1) - 1 : ~IsNew(s[j], b)
    <3> SUFFICES ASSUME NEW j \in 1 .. (i + 1) - 1 PROVE ~IsNew(s[j], b)
      OBVIOUS
    <3>1. CASE j = 1
      BY <3>1, <1>0, <1>3
    <3>2. CASE j # 1
      <4>1. j - 1 \in 1 .. i - 1 /\ r[j - 1] = s[j]
        BY <3>2, <1>0
      <4> QED BY <4>1, <2>1
    <3> QED BY <3>1, <3>2
  <2>4. b \in Blocks
    BY <1>3 DEF Open
  <2> QED BY <2>1, <2>2, <2>3, <2>4 DEF Open
<1>4. \A b \in Open(s) : b \in Blocks
  BY DEF Open
<1> QED BY <1>1, <1>2, <1>3, <1>4 DEF r

\* A set of positions, one further, has as many members.
LEMMA Shifted ==
  ASSUME NEW A, IsFiniteSet(A), A \subseteq Nat
  PROVE  IsFiniteSet({i + 1 : i \in A}) /\ Cardinality({i + 1 : i \in A}) = Cardinality(A)
<1> DEFINE B == {i + 1 : i \in A}
           f == [i \in A |-> i + 1]
<1>1. f \in [A -> B] /\ (\A i, j \in A : f[i] = f[j] => i = j) /\ (\A y \in B : \E i \in A : f[i] = y)
  OBVIOUS
<1> HIDE DEF f, B
<1>2. f \in Bijection(A, B)
  BY <1>1 DEF Bijection, Injection, Surjection, IsInjective
<1>3. ExistsBijection(A, B)
  BY <1>2 DEF ExistsBijection
<1>4. IsFiniteSet(B) /\ Cardinality(B) = Cardinality(A)
  BY <1>3, FS_Bijection
<1> QED BY <1>4 DEF B

\* How many positions there are, if the first is split off.
LEMMA ShiftedOrFirst ==
  ASSUME NEW n \in Nat, NEW A \in SUBSET (1 .. n), NEW first \in BOOLEAN,
         NEW B, B = {i + 1 : i \in A} \cup (IF first THEN {1} ELSE {})
  PROVE  /\ IsFiniteSet(A) /\ IsFiniteSet(B) /\ Cardinality(A) \in Nat
         /\ Cardinality(B) = Cardinality(A) + (IF first THEN 1 ELSE 0)
<1> DEFINE U == {i + 1 : i \in A}
<1>1. IsFiniteSet(A)
  <2>1. IsFiniteSet(1 .. n)
    BY FS_Interval
  <2> QED BY <2>1, FS_Subset
<1>2. IsFiniteSet(U) /\ Cardinality(U) = Cardinality(A)
  <2>1. A \subseteq Nat
    OBVIOUS
  <2> QED BY <1>1, <2>1, Shifted
<1>3. Cardinality(A) \in Nat
  BY <1>1, FS_CardinalityType
<1>4. 1 \notin U
  OBVIOUS
<1> HIDE DEF U
<1>5. CASE first
  <2>1. B = U \cup {1}
    BY <1>5 DEF U
  <2>2. IsFiniteSet(U \cup {1}) /\ Cardinality(U \cup {1}) = Cardinality(U) + 1
    BY <1>2, <1>4, FS_AddElement
  <2> QED BY <1>1, <1>2, <1>3, <1>5, <2>1, <2>2
<1>6. CASE ~first
  <2>1. B = U
    BY <1>6 DEF U
  <2> QED BY <1>1, <1>2, <1>3, <1>6, <2>1
<1> QED BY <1>5, <1>6

\* What a step spends and gains, with the steps that follow.
Spends(x, r, b) == \/ x.op = "dec" /\ x.block = b
                   \/ x.op = "set" /\ x.data.at = b
                   \/ x.op = "new" /\ x.data.inner.at = b /\ Within(x.block) \notin SetIn(r)
\* What a step gains.
Gains(x, b) == \/ x.op = "inc" /\ x.block = b
               \/ IsNew(x, b) /\ x.data.ref = 1
\* The references the thread carries before the step, less those it carries after it.
Weight(x, r, b) == (IF Spends(x, r, b) THEN 1 ELSE 0) - (IF Gains(x, b) THEN 1 ELSE 0)

\* What a thread carries before a step is what it carries after it, and what the step weighs.
LEMMA CarriedSplit ==
  ASSUME NEW S, NEW s \in Seq(S), s # <<>>, NEW b
  PROVE  Carried(s, b) = Carried(Tail(s), b) + Weight(Head(s), Tail(s), b)
<1> DEFINE r == Tail(s)
           x == Head(s)
           n == Len(s) - 1
<1>0. /\ n \in Nat /\ Len(s) = n + 1 /\ Len(r) = n /\ DOMAIN s = 1 .. n + 1 /\ x = s[1]
      /\ DOMAIN r = 1 .. n /\ \A i \in 1 .. n : r[i] = s[i + 1]
  BY Split
<1> HIDE DEF r, x, n
<1>1. \A i \in 1 .. n : SpendsAt(r, i, b) <=> SpendsAt(s, i + 1, b)
  <2> SUFFICES ASSUME NEW i \in 1 .. n PROVE SpendsAt(r, i, b) <=> SpendsAt(s, i + 1, b)
    OBVIOUS
  <2>1. r[i] = s[i + 1]
    BY <1>0
  <2>2. ASSUME NEW y
        PROVE (\A j \in i + 1 .. Len(r) : ~(r[j].op = "set" /\ r[j].place = y))
                <=> (\A j \in (i + 1) + 1 .. Len(s) : ~(s[j].op = "set" /\ s[j].place = y))
    <3>1. \A j \in i + 1 .. n : j + 1 \in (i + 1) + 1 .. n + 1 /\ r[j] = s[j + 1]
      BY <1>0
    <3>2. \A j \in (i + 1) + 1 .. n + 1 : j - 1 \in i + 1 .. n /\ r[j - 1] = s[j]
      BY <1>0
    <3> QED BY <3>1, <3>2, <1>0
  <2>3. PICK y : y = Within(s[i + 1].block)
    OBVIOUS
  <2>4. (\A j \in i + 1 .. Len(r) : ~(r[j].op = "set" /\ r[j].place = y))
          <=> (\A j \in (i + 1) + 1 .. Len(s) : ~(s[j].op = "set" /\ s[j].place = y))
    BY <2>2
  <2> QED BY <2>1, <2>3, <2>4 DEF SpendsAt
<1>2. \A i \in 1 .. n : GainsAt(r, i, b) <=> GainsAt(s, i + 1, b)
  BY <1>0 DEF GainsAt
<1>3. SpendsAt(s, 1, b) <=> Spends(x, r, b)
  <2>1. ASSUME NEW y
        PROVE (\A j \in 1 + 1 .. Len(s) : ~(s[j].op = "set" /\ s[j].place = y)) <=> y \notin SetIn(r)
    <3>1. \A j \in 1 + 1 .. n + 1 : j - 1 \in 1 .. n /\ r[j - 1] = s[j]
      BY <1>0
    <3>2. \A j \in 1 .. n : j + 1 \in 1 + 1 .. n + 1 /\ r[j] = s[j + 1]
      BY <1>0
    <3>3. y \in SetIn(r) <=> \E j \in 1 .. n : r[j].op = "set" /\ r[j].place = y
      BY <1>0 DEF SetIn
    <3> QED BY <3>1, <3>2, <3>3, <1>0
  <2> QED BY <2>1, <1>0 DEF SpendsAt, Spends
<1>4. GainsAt(s, 1, b) <=> Gains(x, b)
  BY <1>0 DEF GainsAt, Gains, IsNew
<1> DEFINE SA == {i \in DOMAIN s : SpendsAt(s, i, b)}
           SB == {i \in DOMAIN r : SpendsAt(r, i, b)}
           GA == {i \in DOMAIN s : GainsAt(s, i, b)}
           GB == {i \in DOMAIN r : GainsAt(r, i, b)}
<1>5. SA = {i + 1 : i \in SB} \cup (IF Spends(x, r, b) THEN {1} ELSE {})
  <2>1. \A i \in 1 .. n + 1 : i = 1 \/ (i - 1 \in 1 .. n /\ (i - 1) + 1 = i)
    BY <1>0
  <2>2. \A i \in 1 .. n : i + 1 \in 1 .. n + 1
    BY <1>0
  <2>3. 1 \in 1 .. n + 1
    BY <1>0
  <2>4. ASSUME NEW i \in SA PROVE i \in {j + 1 : j \in SB} \cup (IF Spends(x, r, b) THEN {1} ELSE {})
    <3>1. CASE i = 1
      BY <3>1, <2>4, <1>3
    <3>2. CASE i # 1
      <4>1. i - 1 \in SB /\ (i - 1) + 1 = i
        BY <3>2, <2>1, <2>4, <1>0, <1>1
      <4> QED BY <4>1
    <3> QED BY <3>1, <3>2
  <2>5. ASSUME NEW j \in SB PROVE j + 1 \in SA
    BY <2>5, <2>2, <1>0, <1>1
  <2>6. Spends(x, r, b) => 1 \in SA
    BY <2>3, <1>0, <1>3
  <2> QED BY <2>4, <2>5, <2>6
<1>6. GA = {i + 1 : i \in GB} \cup (IF Gains(x, b) THEN {1} ELSE {})
  <2>1. \A i \in 1 .. n + 1 : i = 1 \/ (i - 1 \in 1 .. n /\ (i - 1) + 1 = i)
    BY <1>0
  <2>2. \A i \in 1 .. n : i + 1 \in 1 .. n + 1
    BY <1>0
  <2>3. 1 \in 1 .. n + 1
    BY <1>0
  <2>4. ASSUME NEW i \in GA PROVE i \in {j + 1 : j \in GB} \cup (IF Gains(x, b) THEN {1} ELSE {})
    <3>1. CASE i = 1
      BY <3>1, <2>4, <1>4
    <3>2. CASE i # 1
      <4>1. i - 1 \in GB /\ (i - 1) + 1 = i
        BY <3>2, <2>1, <2>4, <1>0, <1>2
      <4> QED BY <4>1
    <3> QED BY <3>1, <3>2
  <2>5. ASSUME NEW j \in GB PROVE j + 1 \in GA
    BY <2>5, <2>2, <1>0, <1>2
  <2>6. Gains(x, b) => 1 \in GA
    BY <2>3, <1>0, <1>4
  <2> QED BY <2>4, <2>5, <2>6
<1>7. SB \in SUBSET (1 .. n) /\ GB \in SUBSET (1 .. n)
  BY <1>0
<1>8. Carried(s, b) = Cardinality(SA) - Cardinality(GA) /\ Carried(r, b) = Cardinality(SB) - Cardinality(GB)
  BY DEF Carried
<1>9. Spends(x, r, b) \in BOOLEAN /\ Gains(x, b) \in BOOLEAN
  BY DEF Spends, Gains, IsNew
<1> HIDE DEF SA, SB, GA, GB
<1>10. Cardinality(SA) = Cardinality(SB) + (IF Spends(x, r, b) THEN 1 ELSE 0) /\ Cardinality(SB) \in Nat
  BY <1>0, <1>5, <1>7, <1>9, ShiftedOrFirst
<1>11. Cardinality(GA) = Cardinality(GB) + (IF Gains(x, b) THEN 1 ELSE 0) /\ Cardinality(GB) \in Nat
  BY <1>0, <1>6, <1>7, <1>9, ShiftedOrFirst
<1>12. Carried(s, b) = Carried(r, b) + Weight(x, r, b)
  BY <1>8, <1>10, <1>11 DEF Weight
<1> QED BY <1>12 DEF x, r

\* What is carried is a number of references.
LEMMA CarriedInt ==
  ASSUME NEW S, NEW s \in Seq(S), NEW b
  PROVE  Carried(s, b) \in Int
<1>1. Len(s) \in Nat /\ DOMAIN s = 1 .. Len(s)
  BY LenProperties
<1> DEFINE SA == {i \in DOMAIN s : SpendsAt(s, i, b)}
           GA == {i \in DOMAIN s : GainsAt(s, i, b)}
<1>2. SA \in SUBSET (1 .. Len(s)) /\ GA \in SUBSET (1 .. Len(s))
  BY <1>1
<1> HIDE DEF SA, GA
<1>3. Cardinality(SA) \in Nat /\ Cardinality(GA) \in Nat
  <2>1. IsFiniteSet(1 .. Len(s))
    BY <1>1, FS_Interval
  <2>2. IsFiniteSet(SA) /\ IsFiniteSet(GA)
    BY <1>2, <2>1, FS_Subset
  <2> QED BY <2>2, FS_CardinalityType
<1> QED BY <1>3 DEF Carried, SA, GA

\* A thread with nothing to do sets, allocates, deletes, writes and carries nothing.
LEMMA NothingLeft ==
  /\ SetIn(<<>>) = {} /\ NewIn(<<>>) = {} /\ DelIn(<<>>) = {} /\ WrittenIn(<<>>) = {} /\ Open(<<>>) = {}
  /\ \A b : Carried(<<>>, b) = 0
<1>1. DOMAIN <<>> = {}
  OBVIOUS
<1>2. ASSUME NEW b PROVE Carried(<<>>, b) = 0
  <2>1. {i \in DOMAIN <<>> : SpendsAt(<<>>, i, b)} = {} /\ {i \in DOMAIN <<>> : GainsAt(<<>>, i, b)} = {}
    BY <1>1
  <2> QED BY <2>1, FS_EmptySet DEF Carried
<1> QED BY <1>1, <1>2 DEF SetIn, NewIn, DelIn, WrittenIn, Open

\* The one thing left to do is to write characters.
JustPut(r) == r # <<>> /\ Tail(r) = <<>> /\ Head(r).op = "put"

\* What may follow a step x: the list r takes first only references the thread can take, no block is
\* released that is written later, no place is set twice, and an edit is the last step.
Follows(K, x, r) ==
  /\ r # <<>> /\ Head(r).op = "inc" =>
       \/ Carried(r, Head(r).block) >= 1
       \/ Head(r).block \in K
       \/ IsNew(x, Head(r).block) /\ x.data.ref = 0
  /\ x.op = "new" => /\ x.block \notin NewIn(r)
                     /\ x.data.ref = 0 => r # <<>> /\ Head(r).op = "inc" /\ Head(r).block = x.block
                     /\ x.data.inner.at \notin WrittenIn(r)
                     /\ x.data.inner.at # x.block
  /\ x.op \in {"inc", "dec", "delete"} => x.block \notin WrittenIn(r)
  /\ x.op = "delete" => x.block \notin DelIn(r)
  /\ x.op = "set" => /\ x.place \notin SetIn(r)
                     /\ x.place.block # NoBlock => x.data.at # x.place.block
                     /\ x.place.block # NoBlock /\ x.data.at \in WrittenIn(r) => JustPut(r)
  /\ x.op = "edit" => r = <<>>
\* No reference is given up before it is gained, and what follows the first step may follow it.
Fine(K, s) == (\A b \in Blocks : Carried(s, b) >= 0) /\ (s # <<>> => Follows(K, Head(s), Tail(s)))
\* So it is from every step on. K are the blocks the thread has a reference to all the time.
Sound(K, s) == \A i \in 1 .. Len(s) + 1 : Fine(K, SubSeq(s, i, Len(s)))

-----------------------------------------------------------------------------
\* A list is sound if its head is fine and its tail sound.
LEMMA SoundSplit ==
  ASSUME NEW S, NEW s \in Seq(S), s # <<>>, NEW K
  PROVE  Sound(K, s) <=> Fine(K, s) /\ Sound(K, Tail(s))
<1> DEFINE r == Tail(s)
           n == Len(s)
<1>0. n \in Nat \ {0} /\ r \in Seq(S) /\ Len(r) = n - 1 /\ DOMAIN s = 1 .. n
      /\ \A i \in 1 .. n - 1 : r[i] = s[i + 1]
  BY Split
<1>1. SubSeq(s, 1, n) = s
  BY SubSeqFull
<1>2. \A i \in 1 .. n : SubSeq(s, i + 1, n) = SubSeq(r, i, n - 1)
  <2> SUFFICES ASSUME NEW i \in 1 .. n PROVE SubSeq(s, i + 1, n) = SubSeq(r, i, n - 1)
    OBVIOUS
  <2> HIDE DEF r, n
  <2>0. \A j \in 1 .. n : s[j] \in S
    BY <1>0, ElementOfSeq DEF n
  <2>0a. \A j \in 1 .. n - 1 : r[j] \in S
    BY <2>0, <1>0
  <2>0b. (\A j \in i + 1 .. n : s[j] \in S) /\ (\A j \in i .. n - 1 : r[j] \in S)
    BY <2>0, <2>0a, <1>0
  <2>1. /\ SubSeq(s, i + 1, n) \in Seq(S) /\ Len(SubSeq(s, i + 1, n)) = n - i
        /\ \A j \in 1 .. n - i : SubSeq(s, i + 1, n)[j] = s[i + j]
    <3>1. i + 1 \in Int /\ n \in Int
      BY <1>0
    <3>2. /\ SubSeq(s, i + 1, n) \in Seq(S)
          /\ Len(SubSeq(s, i + 1, n)) = IF i + 1 <= n THEN n - (i + 1) + 1 ELSE 0
          /\ \A j \in 1 .. n - (i + 1) + 1 : SubSeq(s, i + 1, n)[j] = s[(i + 1) + j - 1]
      BY <2>0b, <3>1, SubSeqProperties
    <3>3. n - (i + 1) + 1 = n - i /\ (~(i + 1 <= n) => n - i = 0) /\ \A j \in 1 .. n - i : (i + 1) + j - 1 = i + j
      BY <1>0
    <3> QED BY <3>2, <3>3
  <2>2. /\ SubSeq(r, i, n - 1) \in Seq(S) /\ Len(SubSeq(r, i, n - 1)) = n - i
        /\ \A j \in 1 .. n - i : SubSeq(r, i, n - 1)[j] = r[i + j - 1]
    <3>1. i \in Int /\ n - 1 \in Int
      BY <1>0
    <3>2. /\ SubSeq(r, i, n - 1) \in Seq(S)
          /\ Len(SubSeq(r, i, n - 1)) = IF i <= n - 1 THEN (n - 1) - i + 1 ELSE 0
          /\ \A j \in 1 .. (n - 1) - i + 1 : SubSeq(r, i, n - 1)[j] = r[i + j - 1]
      BY <2>0b, <3>1, SubSeqProperties
    <3>3. (n - 1) - i + 1 = n - i /\ (~(i <= n - 1) => n - i = 0)
      BY <1>0
    <3> QED BY <3>2, <3>3
  <2>3. \A j \in 1 .. n - i : r[i + j - 1] = s[i + j]
    <3> SUFFICES ASSUME NEW j \in 1 .. n - i PROVE r[i + j - 1] = s[i + j]
      OBVIOUS
    <3>1. i + j - 1 \in 1 .. n - 1 /\ (i + j - 1) + 1 = i + j
      BY <1>0
    <3> QED BY <3>1, <1>0
  <2>4. \A j \in 1 .. Len(SubSeq(s, i + 1, n)) : SubSeq(s, i + 1, n)[j] = SubSeq(r, i, n - 1)[j]
    BY <2>1, <2>2, <2>3
  <2> QED BY <2>1, <2>2, <2>4, SeqEqual
<1> HIDE DEF r, n
<1>3. ASSUME Sound(K, s) PROVE Fine(K, s) /\ Sound(K, r)
  <2>1. Fine(K, SubSeq(s, 1, n))
    BY <1>3, <1>0 DEF Sound, n
  <2>2. ASSUME NEW i \in 1 .. n PROVE Fine(K, SubSeq(r, i, n - 1))
    <3>1. i + 1 \in 1 .. n + 1
      BY <1>0
    <3>2. Fine(K, SubSeq(s, i + 1, n))
      BY <1>3, <3>1 DEF Sound, n
    <3> QED BY <3>2, <1>2
  <2>3. (n - 1) + 1 = n
    BY <1>0
  <2> QED BY <2>1, <2>2, <2>3, <1>0, <1>1 DEF Sound
<1>4. ASSUME Fine(K, s), Sound(K, r) PROVE Sound(K, s)
  <2> SUFFICES ASSUME NEW i \in 1 .. n + 1 PROVE Fine(K, SubSeq(s, i, n))
    BY DEF Sound, n
  <2>1. CASE i = 1
    BY <2>1, <1>1, <1>4
  <2>2. CASE i # 1
    <3>1. i - 1 \in 1 .. n /\ (i - 1) + 1 = i /\ i - 1 \in 1 .. (n - 1) + 1
      BY <2>2, <1>0
    <3>2. Fine(K, SubSeq(r, i - 1, n - 1))
      BY <1>4, <3>1, <1>0 DEF Sound
    <3> QED BY <3>1, <3>2, <1>2
  <2> QED BY <2>1, <2>2
<1> QED BY <1>3, <1>4 DEF r

\* The empty list is sound.
LEMMA SoundEmpty == ASSUME NEW K PROVE Sound(K, <<>>)
<1>1. Len(<<>>) = 0 /\ SubSeq(<<>>, 1, 0) = <<>>
  BY SubSeqEmpty
<1>2. Fine(K, <<>>)
  BY NothingLeft DEF Fine
<1>3. \A i \in 1 .. 0 + 1 : i = 1
  OBVIOUS
<1> QED BY <1>1, <1>2, <1>3 DEF Sound

\* A list stays sound when the thread has more references.
LEMMA SoundMore ==
  ASSUME NEW K, NEW L, K \subseteq L, NEW s, Sound(K, s)
  PROVE  Sound(L, s)
<1> SUFFICES ASSUME NEW i \in 1 .. Len(s) + 1 PROVE Fine(L, SubSeq(s, i, Len(s)))
  BY DEF Sound
<1> DEFINE r == SubSeq(s, i, Len(s))
<1>1. Fine(K, r)
  BY DEF Sound
<1> HIDE DEF r
<1>2. Fine(L, r)
  BY <1>1 DEF Fine, Follows
<1> QED BY <1>2 DEF r

\* What a handle can hold.
Words == {"string", "scalar", "map", "list", "array"}

\* The variables have their types.
Typed ==
  /\ counted \in {"Value", "Ptr"}
  /\ heap \in [DOMAIN heap -> BlockSet] /\ DOMAIN heap \subseteq Blocks
  /\ handle \in [Handles -> DataSet]
  /\ todo = [t \in Threads |-> todo[t]]
  /\ \A t \in Threads : todo[t] \in Seq(StepSet(t))
  /\ value \in [Handles -> Words \X Nat]

\* The places that hold data now.
Places == {Here(h) : h \in Handles} \cup {Within(b) : b \in DOMAIN heap}
\* A place that some thread is about to set, or whose block it is about to delete: what is in it was
\* taken out already, and the thread carries it.
Busy(p) == \E t \in Threads : p \in SetIn(todo[t]) \/ p.block \in DelIn(todo[t])
\* The places whose data is counted as a reference to b.
Kept(b) == {p \in Places : Data(p).at = b /\ ~Busy(p)}
\* The references to b that threads carry, one by one.
TokensOf(f, b) == {x \in Threads \X Nat : x[2] >= 1 /\ x[2] <= Carried(f[x[1]], b)}
Tokens(b) == TokensOf(todo, b)
\* The reference count of a block, 0 if it is not allocated.
Ref(b) == IF Live(b) THEN heap[b].ref ELSE 0
\* The count of b is the number of places that keep it and of references that are carried.
Counted(b) == /\ IsFiniteSet(Kept(b)) /\ IsFiniteSet(Tokens(b))
              /\ Ref(b) = Cardinality(Kept(b)) + Cardinality(Tokens(b))

\* The blocks that handles of t refer to which t is not about to set.
Mine(t) == {b \in Blocks : \E h \in Own(t) : handle[h].at = b /\ Here(h) \notin SetIn(todo[t])}
\* Thread t has a reference to b,
Owns(t, b) == Carried(todo[t], b) >= 1 \/ b \in Mine(t)
\* and it is the only one.
Sole(t, b) == Ref(b) = 1 /\ Owns(t, b)
\* Thread t owns a block with b in it,
Reach(t, b) == \E a \in Blocks : Owns(t, a) /\ Within(a) \in Kept(b)
\* and has the only reference to that, and it the only one to b.
SoleReach(t, b) == Ref(b) = 1 /\ \E a \in Blocks : Sole(t, a) /\ Within(a) \in Kept(b)
\* A new object of t that nobody refers to yet.
Raw(t, b) == b[1] = t /\ Live(b) /\ heap[b].ref = 0 /\ \A u \in Threads : b \notin DelIn(todo[u])

\* What a list does first.
HeadIs(s, op, b) == s # <<>> /\ Head(s).op = op /\ Head(s).block = b

\* Every reference count is exact.
AllCounted == \A b \in Blocks : Counted(b)
\* What every thread has to do is sound.
AllSound == \A t \in Threads : Sound(Mine(t), todo[t])
\* A thread takes a reference only to what it owns or has allocated, or what is in what it owns.
HeadOk == \A t \in Threads : \A b \in Blocks :
            HeadIs(todo[t], "inc", b) => Owns(t, b) \/ Reach(t, b) \/ Raw(t, b)
\* What a thread is going to allocate is free.
NewOk == \A t \in Threads : \A b \in NewIn(todo[t]) : ~Live(b)
\* What a thread is going to delete is allocated, has no references, and no other thread deletes it.
DelOk == \A t \in Threads : \A b \in DelIn(todo[t]) :
            /\ Live(b) /\ heap[b].ref = 0
            /\ \A u \in Threads : b \in DelIn(todo[u]) => u = t
\* A thread writes only what nobody else has a reference to.
WriteOk == \A t \in Threads : \A b \in Open(todo[t]) :
             Sole(t, b) \/ (JustPut(todo[t]) /\ SoleReach(t, b))
\* A block without references is about to be deleted, or a new object about to be referred to.
ZeroOk == \A b \in DOMAIN heap : heap[b].ref = 0 =>
            \/ \E t \in Threads : b \in DelIn(todo[t])
            \/ \E t \in Threads : Raw(t, b) /\ HeadIs(todo[t], "inc", b)
\* The inductive invariant.
DataInv == Typed /\ AllCounted /\ AllSound /\ HeadOk /\ NewOk /\ DelOk /\ WriteOk /\ ZeroOk

-----------------------------------------------------------------------------
\* Different handles and blocks are different places.
LEMMA PlacesDiffer ==
  /\ \A h, g : Here(h) = Here(g) => h = g
  /\ \A a, b : Within(a) = Within(b) => a = b
  /\ \A h : \A b \in Blocks : Here(h) # Within(b) /\ Here(h).block # b
  /\ \A b : Within(b).block = b /\ Here(b).block = NoBlock /\ Here(b).handle = b
  /\ NoBlock \notin Blocks
<1>1. NoBlock \notin Blocks
  BY DEF NoBlock, Blocks
<1> QED BY <1>1 DEF Here, Within

\* Data is a block or a value.
LEMMA DataShape ==
  ASSUME NEW d \in DataSet
  PROVE  /\ d.at \in Blocks \cup {NoBlock} /\ d.val \in Nat
         /\ Shares(d) <=> d.at \in Blocks
         /\ Shares(d) => d = InBlock(d.at)
         /\ ~Shares(d) => d.at = NoBlock /\ d = Inline(d.val)
<1>1. CASE \E b \in Blocks : d = InBlock(b)
  BY <1>1, PlacesDiffer DEF InBlock, Shares
<1>2. CASE \E x \in Nat : d = Inline(x)
  BY <1>2, PlacesDiffer DEF Inline, Shares
<1> QED BY <1>1, <1>2 DEF DataSet

\* What a step is.
LEMMA StepShape ==
  ASSUME NEW t, NEW x \in StepSet(t)
  PROVE  /\ x.op \in {"inc", "dec", "delete", "put", "new", "set", "edit"}
         /\ x.op \in {"inc", "dec", "delete", "put", "new"} => x.block \in Blocks \/ t \notin Nat
         /\ x.op = "new" => x.block \in {t} \X (Nat \ {0}) /\ x.data \in BlockSet /\ x.data.ref \in {0, 1}
         /\ x.op = "put" => x.data \in Nat
         /\ x.op \in {"set", "edit"} => x.place \in PlaceSet(t)
         /\ x.op = "set" => x.data \in DataSet
BY DEF StepSet, Blocks

\* The places and blocks of a list of steps are places and blocks of the thread.
LEMMA StepsInSeq ==
  ASSUME NEW t \in Nat, NEW s \in Seq(StepSet(t))
  PROVE  /\ SetIn(s) \subseteq PlaceSet(t)
         /\ NewIn(s) \subseteq Blocks /\ (\A b \in NewIn(s) : b[1] = t)
         /\ DelIn(s) \subseteq Blocks
         /\ Open(s) \subseteq WrittenIn(s) /\ WrittenIn(s) \subseteq Blocks
<1>1. \A i \in DOMAIN s : s[i] \in StepSet(t)
  BY LenProperties, ElementOfSeq
<1>2. SetIn(s) \subseteq PlaceSet(t)
  BY <1>1, StepShape DEF SetIn
<1>3. NewIn(s) \subseteq Blocks /\ (\A b \in NewIn(s) : b[1] = t)
  <2>1. \A i \in DOMAIN s : s[i].op = "new" => s[i].block \in {t} \X (Nat \ {0})
    BY <1>1, StepShape
  <2> QED BY <2>1 DEF NewIn, Blocks
<1>4. DelIn(s) \subseteq Blocks
  BY <1>1, StepShape DEF DelIn
<1> QED BY <1>2, <1>3, <1>4 DEF Open, WrittenIn

\* The places a thread can set are its own handles, and those within blocks.
LEMMA OwnPlaces ==
  ASSUME DataAssumption, Typed, NEW t \in Threads, NEW u \in Threads, NEW h \in Own(t), Here(h) \in SetIn(todo[u])
  PROVE  t = u
<1>1. Here(h) \in PlaceSet(u)
  <2>1. u \in Nat /\ todo[u] \in Seq(StepSet(u))
    BY DEF DataAssumption, Typed
  <2> QED BY <2>1, StepsInSeq
<1>2. PICK g \in Own(u) : Here(h) = Here(g)
  BY <1>1, PlacesDiffer DEF PlaceSet
<1> QED BY <1>2, PlacesDiffer DEF Own

\* A block that a handle of a thread refers to is kept there.
LEMMA MineKept ==
  ASSUME DataAssumption, Typed, NEW t \in Threads, NEW b \in Mine(t)
  PROVE  b \in Blocks /\ \E h \in Own(t) : Here(h) \in Kept(b)
<1>1. b \in Blocks
  BY DEF Mine
<1>2. PICK h \in Own(t) : handle[h].at = b /\ Here(h) \notin SetIn(todo[t])
  BY DEF Mine
<1>3. Here(h) \in Places /\ Data(Here(h)).at = b
  BY <1>2, PlacesDiffer DEF Places, Data, Own, Handles
<1>4. ~Busy(Here(h))
  <2>1. \A u \in Threads : Here(h) \notin SetIn(todo[u])
    BY <1>2, OwnPlaces
  <2>2. \A u \in Threads : Here(h).block \notin DelIn(todo[u])
    <3>1. \A u \in Threads : DelIn(todo[u]) \subseteq Blocks
      BY StepsInSeq DEF DataAssumption, Typed
    <3> QED BY <3>1, PlacesDiffer
  <2> QED BY <2>1, <2>2 DEF Busy
<1> QED BY <1>1, <1>3, <1>4 DEF Kept

\* A set with a member has one member at least.
LEMMA CardAtLeast ==
  ASSUME NEW A, IsFiniteSet(A), NEW x \in A
  PROVE  /\ Cardinality(A) \in Nat /\ Cardinality(A) >= 1
         /\ Cardinality(A) = 1 => A = {x}
<1>1. Cardinality(A) \in Nat /\ Cardinality(A) # 0
  BY FS_CardinalityType, FS_EmptySet
<1>2. Cardinality(A) = 1 => A = {x}
  BY FS_Singleton
<1> QED BY <1>1, <1>2

\* What is counted is counted once.
LEMMA CountedFacts ==
  ASSUME NEW b, Counted(b)
  PROVE  /\ Ref(b) \in Nat
         /\ Ref(b) = 0 => Kept(b) = {} /\ Tokens(b) = {}
         /\ Kept(b) # {} \/ Tokens(b) # {} => Ref(b) >= 1
         /\ Ref(b) = 1 => /\ \A p, q \in Kept(b) : p = q
                          /\ \A x, y \in Tokens(b) : x = y
                          /\ Kept(b) = {} \/ Tokens(b) = {}
<1> DEFINE A == Kept(b)
           B == Tokens(b)
<1>0. IsFiniteSet(A) /\ IsFiniteSet(B) /\ Ref(b) = Cardinality(A) + Cardinality(B)
  BY DEF Counted
<1> HIDE DEF A, B
<1>1. Cardinality(A) \in Nat /\ Cardinality(B) \in Nat
  BY <1>0, FS_CardinalityType
<1>2. (A # {} => Cardinality(A) >= 1) /\ (B # {} => Cardinality(B) >= 1)
  BY <1>0, CardAtLeast
<1>3. ASSUME Ref(b) = 1 PROVE (\A p, q \in A : p = q) /\ (\A x, y \in B : x = y) /\ (A = {} \/ B = {})
  <2>1. A = {} \/ B = {}
    BY <1>0, <1>1, <1>2, <1>3
  <2>2. ASSUME NEW p \in A, NEW q \in A PROVE p = q
    <3>1. Cardinality(A) = 1
      BY <1>0, <1>1, <1>2, <1>3
    <3> QED BY <3>1, <1>0, CardAtLeast
  <2>3. ASSUME NEW p \in B, NEW q \in B PROVE p = q
    <3>1. Cardinality(B) = 1
      BY <1>0, <1>1, <1>2, <1>3
    <3> QED BY <3>1, <1>0, CardAtLeast
  <2> QED BY <2>1, <2>2, <2>3
<1> QED BY <1>0, <1>1, <1>2, <1>3 DEF A, B

\* A block that is kept in a place is allocated,
LEMMA KeptLive ==
  ASSUME Typed, AllCounted, NEW b \in Blocks, Kept(b) # {}
  PROVE  Live(b) /\ heap[b].ref \in Nat /\ heap[b].ref >= 1 /\ Ref(b) = heap[b].ref
<1>1. Counted(b)
  BY DEF AllCounted
<1>2. Ref(b) \in Nat /\ Ref(b) >= 1
  BY <1>1, CountedFacts
<1> QED BY <1>2 DEF Ref

\* and so is one that a thread owns.
LEMMA OwnsLive ==
  ASSUME DataAssumption, Typed, AllCounted, NEW t \in Threads, NEW b \in Blocks, Owns(t, b)
  PROVE  /\ Live(b) /\ heap[b].ref \in Nat /\ heap[b].ref >= 1 /\ Ref(b) = heap[b].ref
         /\ <<t, 1>> \in Tokens(b) \/ \E h \in Own(t) : Here(h) \in Kept(b)
<1>1. Counted(b)
  BY DEF AllCounted
<1>2. <<t, 1>> \in Tokens(b) \/ \E h \in Own(t) : Here(h) \in Kept(b)
  <2>1. CASE Carried(todo[t], b) >= 1
    BY <2>1 DEF Tokens, TokensOf
  <2>2. CASE b \in Mine(t)
    BY <2>2, MineKept
  <2> QED BY <2>1, <2>2 DEF Owns
<1>3. Ref(b) \in Nat /\ Ref(b) >= 1
  BY <1>1, <1>2, CountedFacts
<1>4. Live(b) /\ heap[b].ref = Ref(b)
  BY <1>3 DEF Ref
<1> QED BY <1>2, <1>3, <1>4

\* The one reference of a thread is the only one.
LEMMA SoleAlone ==
  ASSUME DataAssumption, Typed, AllCounted, NEW t \in Threads, NEW b \in Blocks, Sole(t, b)
  PROVE  /\ Live(b) /\ heap[b].ref = 1
         /\ \A u \in Threads : Owns(u, b) => u = t
         /\ \A a \in Blocks : Within(a) \notin Kept(b)
         /\ Carried(todo[t], b) <= 1
         /\ b \in Mine(t) => Carried(todo[t], b) < 1
<1>0. Owns(t, b) /\ Ref(b) = 1 /\ Counted(b)
  BY DEF Sole, AllCounted
<1>1. Live(b) /\ heap[b].ref = 1
  BY <1>0, OwnsLive
<1>2. /\ \A p, q \in Kept(b) : p = q
      /\ \A x, y \in Tokens(b) : x = y
      /\ Kept(b) = {} \/ Tokens(b) = {}
  BY <1>0, CountedFacts
<1>3. <<t, 1>> \in Tokens(b) \/ \E h \in Own(t) : Here(h) \in Kept(b)
  BY <1>0, OwnsLive
<1>4. ASSUME NEW u \in Threads, Owns(u, b) PROVE u = t
  <2>1. <<u, 1>> \in Tokens(b) \/ \E h \in Own(u) : Here(h) \in Kept(b)
    BY <1>4, OwnsLive
  <2>2. CASE <<t, 1>> \in Tokens(b)
    BY <2>1, <2>2, <1>2
  <2>3. CASE \E h \in Own(t) : Here(h) \in Kept(b)
    <3>1. PICK h \in Own(t) : Here(h) \in Kept(b)
      BY <2>3
    <3>2. PICK g \in Own(u) : Here(g) \in Kept(b)
      BY <2>1, <2>3, <1>2
    <3>3. Here(g) = Here(h)
      BY <3>1, <3>2, <1>2
    <3>4. g = h
      BY <3>3, PlacesDiffer
    <3> QED BY <3>4 DEF Own
  <2> QED BY <1>3, <2>2, <2>3
<1>5. ASSUME NEW a \in Blocks, Within(a) \in Kept(b) PROVE FALSE
  <2>1. PICK h \in Own(t) : Here(h) \in Kept(b)
    BY <1>2, <1>3, <1>5
  <2>2. Here(h) = Within(a)
    BY <2>1, <1>2, <1>5
  <2> QED BY <2>2, PlacesDiffer
<1>6. ASSUME Carried(todo[t], b) > 1 PROVE FALSE
  <2>1. Carried(todo[t], b) \in Int
    BY CarriedInt DEF Typed
  <2>2. <<t, 1>> \in Tokens(b) /\ <<t, 2>> \in Tokens(b)
    BY <1>6, <2>1 DEF Tokens, TokensOf
  <2> QED BY <2>2, <1>2
<1>7. ASSUME b \in Mine(t), Carried(todo[t], b) >= 1 PROVE FALSE
  <2>1. <<t, 1>> \in Tokens(b)
    BY <1>7 DEF Tokens, TokensOf
  <2> QED BY <2>1, <1>2, <1>7, MineKept
<1>8. Carried(todo[t], b) \in Int
  BY CarriedInt DEF Typed
<1>9. Carried(todo[t], b) <= 1 /\ (b \in Mine(t) => Carried(todo[t], b) < 1)
  BY <1>6, <1>7, <1>8
<1> QED BY <1>1, <1>4, <1>5, <1>9

\* Nobody has a reference to a block without references.
LEMMA ZeroAlone ==
  ASSUME DataAssumption, Typed, AllCounted, NEW b \in Blocks, Ref(b) = 0
  PROVE  /\ Kept(b) = {} /\ \A t \in Threads : ~Owns(t, b) /\ Carried(todo[t], b) <= 0
<1>1. Counted(b)
  BY DEF AllCounted
<1>2. Kept(b) = {}
  BY <1>1, CountedFacts
<1>3. ASSUME NEW t \in Threads PROVE ~Owns(t, b)
  <2> SUFFICES ASSUME Owns(t, b) PROVE FALSE
    OBVIOUS
  <2>1. heap[b].ref >= 1 /\ Ref(b) = heap[b].ref
    BY OwnsLive
  <2> QED BY <2>1
<1>4. ASSUME NEW t \in Threads PROVE Carried(todo[t], b) <= 0
  <2>1. Carried(todo[t], b) \in Int
    BY CarriedInt DEF Typed
  <2> QED BY <2>1, <1>3 DEF Owns
<1> QED BY <1>2, <1>3, <1>4

\* A thread that has m references more has m tokens more.
LEMMA TokensGrow ==
  ASSUME NEW f, NEW g, NEW t \in Threads, \A u \in Threads : u # t => f[u] = g[u],
         NEW b, NEW m \in Nat, Carried(f[t], b) \in Nat, Carried(g[t], b) = Carried(f[t], b) + m
  PROVE  /\ IsFiniteSet(TokensOf(f, b)) <=> IsFiniteSet(TokensOf(g, b))
         /\ IsFiniteSet(TokensOf(f, b)) => Cardinality(TokensOf(g, b)) = Cardinality(TokensOf(f, b)) + m
<1> DEFINE c == Carried(f[t], b)
           A == TokensOf(f, b)
           B == TokensOf(g, b)
           More == {<<t, j>> : j \in c + 1 .. c + m}
           h == [j \in c + 1 .. c + m |-> <<t, j>>]
<1>0. c \in Nat
  OBVIOUS
<1>1. IsFiniteSet(More) /\ Cardinality(More) = m
  <2>1. IsFiniteSet(c + 1 .. c + m) /\ Cardinality(c + 1 .. c + m) = m
    <3>1. c + 1 \in Int /\ c + m \in Int
      BY <1>0
    <3>2. IsFiniteSet(c + 1 .. c + m) /\ Cardinality(c + 1 .. c + m) = IF c + 1 > c + m THEN 0 ELSE (c + m) - (c + 1) + 1
      BY <3>1, FS_Interval
    <3> HIDE DEF c
    <3> QED BY <3>2, <1>0
  <2>2. h \in Bijection(c + 1 .. c + m, More)
    <3>1. h \in [c + 1 .. c + m -> More] /\ (\A i, j \in c + 1 .. c + m : h[i] = h[j] => i = j) /\ (\A y \in More : \E i \in c + 1 .. c + m : h[i] = y)
      OBVIOUS
    <3> HIDE DEF h, More, c
    <3> QED BY <3>1 DEF Bijection, Injection, Surjection, IsInjective
  <2> HIDE DEF h, More, c
  <2>3. ExistsBijection(c + 1 .. c + m, More)
    BY <2>2 DEF ExistsBijection
  <2> QED BY <2>1, <2>3, FS_Bijection
<1>2. A \cap More = {}
  <2> HIDE DEF c
  <2>1. \A x \in A : x[1] = t => x[2] <= c
    BY DEF TokensOf, c
  <2> QED BY <2>1, <1>0
<1>3. B = A \cup More
  <2>1. ASSUME NEW x \in B PROVE x \in A \cup More
    <3>1. x \in Threads \X Nat /\ x[2] >= 1 /\ x[2] <= Carried(g[x[1]], b)
      BY <2>1 DEF TokensOf
    <3>2. CASE x[1] # t
      BY <3>1, <3>2 DEF TokensOf
    <3>3. CASE x[1] = t
      <4>1. x = <<t, x[2]>> /\ x[2] \in Nat /\ x[2] <= c + m
        BY <3>1, <3>3
      <4>2. CASE x[2] <= c
        BY <4>1, <4>2, <3>1 DEF TokensOf
      <4>3. CASE ~(x[2] <= c)
        <5>1. x[2] \in c + 1 .. c + m
          BY <4>1, <4>3, <1>0
        <5> QED BY <4>1, <5>1
      <4> QED BY <4>2, <4>3
    <3> QED BY <3>2, <3>3
  <2>2. ASSUME NEW x \in A PROVE x \in B
    <3>1. x \in Threads \X Nat /\ x[2] >= 1 /\ x[2] <= Carried(f[x[1]], b)
      BY <2>2 DEF TokensOf
    <3>2. CASE x[1] # t
      BY <3>1, <3>2 DEF TokensOf
    <3>3. CASE x[1] = t
      <4>1. x[2] <= c /\ x[2] \in Nat
        BY <3>1, <3>3
      <4>2. x[2] <= c + m
        BY <4>1, <1>0
      <4> QED BY <3>1, <3>3, <4>2 DEF TokensOf
    <3> QED BY <3>2, <3>3
  <2>3. ASSUME NEW j \in c + 1 .. c + m PROVE <<t, j>> \in B
    <3>1. j \in Nat /\ j >= 1 /\ j <= c + m
      BY <1>0
    <3> QED BY <3>1 DEF TokensOf
  <2> QED BY <2>1, <2>2, <2>3
<1> HIDE DEF A, B, More, c
<1>4. ASSUME IsFiniteSet(A) PROVE IsFiniteSet(B) /\ Cardinality(B) = Cardinality(A) + m
  <2>1. IsFiniteSet(A \cup More) /\ Cardinality(A \cup More) = Cardinality(A) + Cardinality(More) - Cardinality(A \cap More)
    BY <1>1, <1>4, FS_Union
  <2>2. Cardinality(A \cap More) = 0 /\ Cardinality(A) \in Nat
    BY <1>2, <1>4, FS_EmptySet, FS_CardinalityType
  <2> QED BY <2>1, <2>2, <1>1, <1>3
<1>5. IsFiniteSet(B) => IsFiniteSet(A)
  BY <1>3, FS_Subset
<1> QED BY <1>4, <1>5 DEF A, B

\* The same for one reference.
LEMMA TokenMore ==
  ASSUME NEW f, NEW g, NEW t \in Threads, \A u \in Threads : u # t => f[u] = g[u],
         NEW b, Carried(f[t], b) \in Nat, Carried(g[t], b) = Carried(f[t], b) + 1
  PROVE  /\ IsFiniteSet(TokensOf(f, b)) <=> IsFiniteSet(TokensOf(g, b))
         /\ IsFiniteSet(TokensOf(f, b)) => Cardinality(TokensOf(g, b)) = Cardinality(TokensOf(f, b)) + 1
<1>1. ASSUME NEW m \in Nat, Carried(g[t], b) = Carried(f[t], b) + m
      PROVE  /\ IsFiniteSet(TokensOf(f, b)) <=> IsFiniteSet(TokensOf(g, b))
             /\ IsFiniteSet(TokensOf(f, b)) => Cardinality(TokensOf(g, b)) = Cardinality(TokensOf(f, b)) + m
  BY <1>1, TokensGrow
<1> QED BY <1>1

\* Threads that carry as much have as many tokens.
LEMMA TokensSame ==
  ASSUME NEW f, NEW g, NEW b, \A u \in Threads : Carried(f[u], b) = Carried(g[u], b)
  PROVE  TokensOf(f, b) = TokensOf(g, b)
BY DEF TokensOf

\* What is known of a thread that has something to do.
LEMMA HeadFacts ==
  ASSUME DataAssumption, DataInv, NEW t \in Threads, todo[t] # <<>>
  PROVE  LET s == todo[t]
             x == Head(s)
             r == Tail(s)
         IN  /\ t \in Nat /\ s \in Seq(StepSet(t)) /\ r \in Seq(StepSet(t)) /\ x \in StepSet(t)
             /\ \A b \in Blocks : Carried(s, b) \in Nat /\ Carried(r, b) \in Nat
             /\ \A b : Carried(s, b) = Carried(r, b) + Weight(x, r, b)
             /\ Follows(Mine(t), x, r) /\ Sound(Mine(t), r)
<1>1. t \in Nat /\ todo[t] \in Seq(StepSet(t)) /\ Sound(Mine(t), todo[t])
  BY DEF DataAssumption, DataInv, Typed, AllSound
<1>2. Tail(todo[t]) \in Seq(StepSet(t)) /\ Head(todo[t]) \in StepSet(t)
  BY <1>1, Split
<1>3. Fine(Mine(t), todo[t]) /\ Sound(Mine(t), Tail(todo[t]))
  BY <1>1, SoundSplit
<1>4. \A b : Carried(todo[t], b) = Carried(Tail(todo[t]), b) + Weight(Head(todo[t]), Tail(todo[t]), b)
  BY <1>1, CarriedSplit
<1>5. \A b \in Blocks : Carried(Tail(todo[t]), b) >= 0
  <2>1. CASE Tail(todo[t]) = <<>>
    <3> HIDE DEF DataInv
    <3>1. \A b : Carried(<<>>, b) = 0
      BY NothingLeft
    <3>2. \A b : Carried(Tail(todo[t]), b) = 0
      BY <3>1, <2>1
    <3> QED BY <3>2
  <2>2. CASE Tail(todo[t]) # <<>>
    <3>1. Fine(Mine(t), Tail(todo[t]))
      BY <1>2, <1>3, <2>2, SoundSplit
    <3> QED BY <3>1 DEF Fine
  <2> QED BY <2>1, <2>2
<1>6. \A b : Carried(todo[t], b) \in Int /\ Carried(Tail(todo[t]), b) \in Int
  BY <1>1, <1>2, CarriedInt
<1>7. \A b \in Blocks : Carried(todo[t], b) \in Nat /\ Carried(Tail(todo[t]), b) \in Nat
  BY <1>3, <1>5, <1>6 DEF Fine
<1> QED BY <1>1, <1>2, <1>3, <1>4, <1>7 DEF Fine

\* A thread that has nothing to do, or something.
LEMMA CarriedNat ==
  ASSUME DataAssumption, DataInv, NEW t \in Threads, NEW b \in Blocks
  PROVE  Carried(todo[t], b) \in Nat
BY HeadFacts, NothingLeft

\* What the others know of the block c, whose references the step changes.
Untouched(t, c) ==
  \A u \in Threads \ {t} :
    /\ ~Sole(u, c) /\ ~SoleReach(u, c) /\ ~Raw(u, c)
    /\ c \notin DelIn(todo[u])

\* The others know nothing of a block that a thread owns or reaches which its count could disturb.
LEMMA UntouchedOwned ==
  ASSUME DataAssumption, DataInv, NEW t \in Threads, NEW c \in Blocks, Owns(t, c) \/ Reach(t, c)
  PROVE  Untouched(t, c) /\ Live(c) /\ heap[c].ref \in Nat /\ heap[c].ref >= 1 /\ Ref(c) = heap[c].ref
<1> USE DEF DataInv
<1>1. Live(c) /\ heap[c].ref \in Nat /\ heap[c].ref >= 1 /\ Ref(c) = heap[c].ref
  BY OwnsLive, KeptLive DEF Reach
<1>2. \A u \in Threads \ {t} : ~Raw(u, c) /\ c \notin DelIn(todo[u])
  <2>1. heap[c].ref # 0
    BY <1>1
  <2>2. \A u \in Threads \ {t} : ~Raw(u, c)
    BY <2>1 DEF Raw
  <2>3. \A u \in Threads \ {t} : c \notin DelIn(todo[u])
    BY <2>1 DEF DelOk
  <2> QED BY <2>2, <2>3
<1>3. ASSUME NEW u \in Threads \ {t}, Sole(u, c) PROVE FALSE
  BY <1>3, SoleAlone DEF Reach
<1>4. ASSUME NEW u \in Threads \ {t}, SoleReach(u, c) PROVE FALSE
  <2>1. PICK a \in Blocks : Ref(c) = 1 /\ Sole(u, a) /\ Within(a) \in Kept(c)
    BY <1>4 DEF SoleReach
  <2>2. Counted(c)
    BY DEF AllCounted
  <2>3. \A p, q \in Kept(c) : p = q /\ Tokens(c) = {}
    BY <2>1, <2>2, CountedFacts
  <2>4. CASE Owns(t, c)
    <3>1. PICK h \in Own(t) : Here(h) \in Kept(c)
      BY <2>1, <2>3, <2>4, OwnsLive
    <3> QED BY <3>1, <2>1, <2>3, PlacesDiffer
  <2>5. CASE Reach(t, c)
    <3>1. PICK d \in Blocks : Owns(t, d) /\ Within(d) \in Kept(c)
      BY <2>5 DEF Reach
    <3>2. d = a
      BY <3>1, <2>1, <2>3, PlacesDiffer
    <3> QED BY <3>1, <3>2, <2>1, SoleAlone
  <2> QED BY <2>4, <2>5
<1> QED BY <1>1, <1>2, <1>3, <1>4 DEF Untouched

\* The rest of what holds, for the thread that takes a step, after it.
OwnOk(t) ==
  /\ Sound(Mine(t), todo[t])
  /\ \A b \in Blocks : HeadIs(todo[t], "inc", b) => Owns(t, b) \/ Reach(t, b) \/ Raw(t, b)
  /\ \A b \in NewIn(todo[t]) : ~Live(b)
  /\ \A b \in DelIn(todo[t]) : Live(b) /\ heap[b].ref = 0
  /\ \A b \in Open(todo[t]) : Sole(t, b) \/ (JustPut(todo[t]) /\ SoleReach(t, b))

\* No thread's step disturbs the others: c is the block whose references change.
LEMMA OthersKeep ==
  ASSUME DataAssumption, DataInv, NEW t \in Threads, NEW r, NEW c,
         todo' = [todo EXCEPT ![t] = r], counted' = counted,
         \A u \in Threads \ {t} : \A h \in Own(u) : handle'[h] = handle[h],
         Untouched(t, c),
         \A b \in Blocks \ {c} : (b \in DOMAIN heap' <=> Live(b)) /\ (Live(b) => heap'[b].ref = heap[b].ref),
         c \in DOMAIN heap' => Live(c) \/ c[1] = t,
         DOMAIN heap' \subseteq Blocks,
         DelIn(r) \subseteq DelIn(todo[t]) \cup {c},
         DelIn(todo[t]) \ {c} \subseteq DelIn(r),
         \A u \in Threads \ {t} : \A a, b \in Blocks : Owns(u, a) /\ Within(a) \in Kept(b) => Within(a) \in Kept(b)',
         \A b \in Blocks \ {c} : ~HeadIs(todo[t], "inc", b),
         c \in DOMAIN heap' /\ heap'[c].ref = 0 => c \in DelIn(r) \/ (Raw(t, c)' /\ HeadIs(r, "inc", c)),
         OwnOk(t)'
  PROVE  AllSound' /\ HeadOk' /\ NewOk' /\ DelOk' /\ WriteOk' /\ ZeroOk'
<1>0. /\ todo'[t] = r /\ \A u \in Threads \ {t} : todo'[u] = todo[u]
      /\ DOMAIN todo = Threads
  BY DEF DataInv, Typed
<1>1. \A b \in Blocks \ {c} : Ref(b)' = Ref(b)
  BY DEF Ref, Live
<1>2. \A u \in Threads \ {t} : Mine(u)' = Mine(u) /\ \A b : Owns(u, b)' <=> Owns(u, b)
  <2> SUFFICES ASSUME NEW u \in Threads \ {t} PROVE Mine(u)' = Mine(u) /\ \A b : Owns(u, b)' <=> Owns(u, b)
    OBVIOUS
  <2>1. Own(u)' = Own(u)
    BY DEF Own, Names
  <2>2. Mine(u)' = Mine(u)
    BY <2>1, <1>0 DEF Mine
  <2> QED BY <2>2, <1>0 DEF Owns
<1>3. \A u \in Threads \ {t} : \A b \in Blocks : Reach(u, b) => Reach(u, b)'
  BY <1>2 DEF Reach
<1>4. \A u \in Threads \ {t} : \A b \in Blocks : Sole(u, b) => Sole(u, b)'
  BY <1>1, <1>2 DEF Sole, Untouched
<1>5. \A u \in Threads \ {t} : \A b \in Blocks : SoleReach(u, b) => SoleReach(u, b)'
  <2> SUFFICES ASSUME NEW u \in Threads \ {t}, NEW b \in Blocks, SoleReach(u, b) PROVE SoleReach(u, b)'
    OBVIOUS
  <2>1. b # c
    BY DEF Untouched
  <2>2. PICK a \in Blocks : Sole(u, a) /\ Within(a) \in Kept(b)
    BY DEF SoleReach
  <2>3. Sole(u, a)' /\ Within(a) \in Kept(b)'
    BY <2>2, <1>4 DEF Sole
  <2>4. Ref(b)' = 1
    BY <2>1, <1>1 DEF SoleReach
  <2> QED BY <2>3, <2>4 DEF SoleReach
<1>6. \A u \in Threads \ {t} : \A b \in DelIn(todo[u]) : b \in Blocks /\ b # c /\ Live(b) /\ heap[b].ref = 0
  <2>1. \A u \in Threads : DelIn(todo[u]) \subseteq Blocks
    BY StepsInSeq DEF DataAssumption, DataInv, Typed
  <2>2. \A u \in Threads \ {t} : c \notin DelIn(todo[u])
    BY DEF Untouched
  <2> QED BY <2>1, <2>2 DEF DataInv, DelOk
<1>7. \A u \in Threads \ {t} : \A b \in Blocks : Raw(u, b) => Raw(u, b)'
  <2> SUFFICES ASSUME NEW u \in Threads \ {t}, NEW b \in Blocks, Raw(u, b) PROVE Raw(u, b)'
    OBVIOUS
  <2>1. b # c
    BY DEF Untouched
  <2>2. \A w \in Threads : b \notin DelIn(todo'[w])
    BY <2>1, <1>0 DEF Raw
  <2> QED BY <2>1, <2>2 DEF Raw, Live
<1>8. AllSound'
  <2>1. Sound(Mine(t)', todo'[t])
    BY DEF OwnOk
  <2>2. \A u \in Threads \ {t} : Sound(Mine(u)', todo'[u])
    <3> SUFFICES ASSUME NEW u \in Threads \ {t} PROVE Sound(Mine(u)', todo'[u])
      OBVIOUS
    <3>1. Sound(Mine(u), todo[u])
      BY DEF DataInv, AllSound
    <3>2. Mine(u)' = Mine(u) /\ todo'[u] = todo[u]
      BY <1>0, <1>2
    <3> QED BY <3>1, <3>2
  <2> QED BY <2>1, <2>2 DEF AllSound
<1>9. HeadOk'
  <2> SUFFICES ASSUME NEW u \in Threads, NEW b \in Blocks, HeadIs(todo'[u], "inc", b)
               PROVE  Owns(u, b)' \/ Reach(u, b)' \/ Raw(u, b)'
    BY DEF HeadOk
  <2>1. CASE u = t
    BY <2>1 DEF OwnOk
  <2>2. CASE u # t
    <3>1. HeadIs(todo[u], "inc", b)
      BY <2>2, <1>0
    <3>2. Owns(u, b) \/ Reach(u, b) \/ Raw(u, b)
      BY <3>1 DEF DataInv, HeadOk
    <3> QED BY <3>2, <2>2, <1>2, <1>3, <1>7
  <2> QED BY <2>1, <2>2
<1>10. NewOk'
  <2> SUFFICES ASSUME NEW u \in Threads, NEW b \in NewIn(todo'[u]) PROVE b \notin DOMAIN heap'
    BY DEF NewOk, Live
  <2>1. CASE u = t
    BY <2>1 DEF OwnOk, Live
  <2>2. CASE u # t
    <3>1. b \in NewIn(todo[u]) /\ ~Live(b)
      BY <2>2, <1>0 DEF DataInv, NewOk
    <3>2. b \in Blocks /\ b[1] = u
      BY <3>1, StepsInSeq DEF DataAssumption, DataInv, Typed
    <3> QED BY <2>2, <3>1, <3>2
  <2> QED BY <2>1, <2>2
<1>11. DelOk'
  <2> SUFFICES ASSUME NEW u \in Threads, NEW b \in DelIn(todo'[u])
               PROVE  /\ b \in DOMAIN heap' /\ heap'[b].ref = 0
                      /\ \A w \in Threads : b \in DelIn(todo'[w]) => w = u
    BY DEF DelOk, Live
  <2>1. CASE u = t
    <3>1. b \in DOMAIN heap' /\ heap'[b].ref = 0
      BY <2>1 DEF OwnOk, Live
    <3>2. \A w \in Threads \ {t} : b \notin DelIn(todo'[w])
      <4> SUFFICES ASSUME NEW w \in Threads \ {t}, b \in DelIn(todo'[w]) PROVE FALSE
        OBVIOUS
      <4>1. b \in DelIn(todo[w]) /\ b # c
        BY <1>0, <1>6
      <4>2. b \in DelIn(todo[t])
        BY <4>1, <2>1, <1>0
      <4> QED BY <4>1, <4>2 DEF DataInv, DelOk
    <3> QED BY <2>1, <3>1, <3>2
  <2>2. CASE u # t
    <3>1. b \in DelIn(todo[u])
      BY <2>2, <1>0
    <3>2. b \in Blocks /\ b # c /\ Live(b) /\ heap[b].ref = 0
      BY <2>2, <3>1, <1>6
    <3>3. ASSUME NEW w \in Threads, b \in DelIn(todo'[w]) PROVE w = u
      <4>1. b \in DelIn(todo[w])
        BY <3>3, <1>0, <3>2
      <4> QED BY <4>1, <3>1 DEF DataInv, DelOk
    <3> QED BY <3>2, <3>3
  <2> QED BY <2>1, <2>2
<1>12. WriteOk'
  <2> SUFFICES ASSUME NEW u \in Threads, NEW b \in Open(todo'[u])
               PROVE  Sole(u, b)' \/ (JustPut(todo'[u]) /\ SoleReach(u, b)')
    BY DEF WriteOk
  <2>1. CASE u = t
    BY <2>1 DEF OwnOk
  <2>2. CASE u # t
    <3>1. b \in Open(todo[u]) /\ b \in Blocks
      BY <2>2, <1>0 DEF Open
    <3>2. Sole(u, b) \/ (JustPut(todo[u]) /\ SoleReach(u, b))
      BY <3>1 DEF DataInv, WriteOk
    <3> QED BY <3>1, <3>2, <2>2, <1>0, <1>4, <1>5
  <2> QED BY <2>1, <2>2
<1>13. ZeroOk'
  <2> SUFFICES ASSUME NEW b \in DOMAIN heap', heap'[b].ref = 0
               PROVE  \/ \E u \in Threads : b \in DelIn(todo'[u])
                      \/ \E u \in Threads : Raw(u, b)' /\ HeadIs(todo'[u], "inc", b)
    BY DEF ZeroOk
  <2>1. CASE b = c
    BY <2>1, <1>0
  <2>2. CASE b # c
    <3>1. b \in Blocks /\ b \in DOMAIN heap /\ heap[b].ref = 0
      BY <2>2 DEF Live
    <3>2. CASE \E u \in Threads : b \in DelIn(todo[u])
      <4>1. PICK u \in Threads : b \in DelIn(todo[u])
        BY <3>2
      <4>2. b \in DelIn(todo'[u])
        BY <4>1, <2>2, <1>0
      <4> QED BY <4>2
    <3>3. CASE \E u \in Threads : Raw(u, b) /\ HeadIs(todo[u], "inc", b)
      <4>1. PICK u \in Threads : Raw(u, b) /\ HeadIs(todo[u], "inc", b)
        BY <3>3
      <4>2. u # t
        BY <4>1, <2>2, <3>1
      <4> QED BY <4>1, <4>2, <3>1, <1>0, <1>7
    <3> QED BY <3>1, <3>2, <3>3 DEF DataInv, ZeroOk
  <2> QED BY <2>1, <2>2
<1> QED BY <1>8, <1>9, <1>10, <1>11, <1>12, <1>13

\* The types after a step that replaces the list of a thread.
LEMMA TypedAfter ==
  ASSUME Typed, NEW t \in Threads, NEW r \in Seq(StepSet(t)),
         todo' = [todo EXCEPT ![t] = r], counted' = counted,
         heap' \in [DOMAIN heap' -> BlockSet], DOMAIN heap' \subseteq Blocks,
         handle' \in [Handles -> DataSet], value' \in [Handles -> Words \X Nat]
  PROVE  Typed'
<1>1. Handles' = Handles /\ \A u \in Threads : StepSet(u)' = StepSet(u)
  BY DEF Handles, StepSet, PlaceSet, Own, Names
<1>2. todo' = [u \in Threads |-> todo'[u]] /\ \A u \in Threads : todo'[u] \in Seq(StepSet(u))
  BY DEF Typed
<1> QED BY <1>1, <1>2 DEF Typed

\* A block with another count, value or content is a block.
LEMMA BlockChange ==
  ASSUME NEW k \in BlockSet
  PROVE  /\ \A n \in Nat : LET l == [k EXCEPT !.ref = n]
                           IN  l \in BlockSet /\ l.ref = n /\ l.inner = k.inner /\ l.val = k.val /\ l.kind = k.kind
         /\ \A n \in Nat : LET l == [k EXCEPT !.val = n]
                           IN  l \in BlockSet /\ l.ref = k.ref /\ l.inner = k.inner /\ l.val = n /\ l.kind = k.kind
         /\ \A d \in DataSet : LET l == [k EXCEPT !.inner = d]
                               IN  l \in BlockSet /\ l.ref = k.ref /\ l.inner = d /\ l.val = k.val /\ l.kind = k.kind
         /\ k.ref \in Nat /\ k.inner \in DataSet /\ k.val \in Nat /\ k.kind \in Kinds
BY DEF BlockSet

\* A step that sets no place leaves what places keep.
LEMMA KeptSame ==
  ASSUME Typed, NEW t \in Threads, NEW r, todo' = [todo EXCEPT ![t] = r], counted' = counted, handle' = handle,
         SetIn(r) = SetIn(todo[t]), DelIn(r) = DelIn(todo[t]),
         DOMAIN heap' = DOMAIN heap, \A b \in DOMAIN heap : heap'[b].inner = heap[b].inner, NEW b
  PROVE  Kept(b)' = Kept(b)
<1>1. Places' = Places
  BY DEF Places, Handles, Names
<1>2. \A p \in Places : Data(p)' = Data(p)
  <2>1. \A h \in Handles : Data(Here(h))' = Data(Here(h))
    BY DEF Data, Here
  <2>2. \A a \in DOMAIN heap : Data(Within(a))' = Data(Within(a))
    <3>1. NoBlock \notin DOMAIN heap
      BY PlacesDiffer DEF Typed
    <3> QED BY <3>1 DEF Data, Within
  <2> QED BY <2>1, <2>2 DEF Places
<1>3. \A u \in Threads : SetIn(todo'[u]) = SetIn(todo[u]) /\ DelIn(todo'[u]) = DelIn(todo[u])
  BY DEF Typed
<1>4. \A p : Busy(p)' <=> Busy(p)
  BY <1>3 DEF Busy
<1> QED BY <1>1, <1>2, <1>4 DEF Kept

\* What a thread knows when it has done the first of its steps.
LEMMA Strip ==
  ASSUME DataAssumption, DataInv, NEW t \in Threads, todo[t] # <<>>,
         todo' = [todo EXCEPT ![t] = Tail(todo[t])], counted' = counted,
         Mine(t) \subseteq Mine(t)',
         \A b \in Blocks : IsNew(Head(todo[t]), b) /\ Head(todo[t]).data.ref = 0 => Raw(t, b)',
         \A b \in DOMAIN heap' : Live(b) \/ IsNew(Head(todo[t]), b),
         \A b \in DelIn(Tail(todo[t])) : b \in DOMAIN heap' /\ heap'[b].ref = 0,
         \A b \in WrittenIn(Tail(todo[t])) : Sole(t, b) \/ IsNew(Head(todo[t]), b) =>
           Sole(t, b)' \/ (JustPut(Tail(todo[t])) /\ SoleReach(t, b)')
  PROVE  OwnOk(t)'
<1> DEFINE s == todo[t]
           x == Head(s)
           r == Tail(s)
<1>0. todo'[t] = r /\ t \in Nat /\ s \in Seq(StepSet(t)) /\ r \in Seq(StepSet(t)) /\ Follows(Mine(t), x, r) /\ Sound(Mine(t), r)
      /\ \A b \in Blocks : Carried(r, b) \in Nat
  BY HeadFacts DEF DataInv, Typed
<1> HIDE DEF s, x, r
<1>1. Sound(Mine(t)', r)
  BY <1>0, SoundMore
<1>2. ASSUME NEW b \in Blocks, HeadIs(r, "inc", b) PROVE Owns(t, b)' \/ Reach(t, b)' \/ Raw(t, b)'
  <2>1. Carried(r, b) >= 1 \/ b \in Mine(t) \/ (IsNew(x, b) /\ x.data.ref = 0)
    BY <1>0, <1>2 DEF Follows, HeadIs
  <2>2. CASE Carried(r, b) >= 1 \/ b \in Mine(t)
    BY <2>2, <1>0 DEF Owns
  <2>3. CASE IsNew(x, b) /\ x.data.ref = 0
    BY <2>3 DEF x, s
  <2> QED BY <2>1, <2>2, <2>3
<1>3. ASSUME NEW b \in NewIn(r) PROVE b \notin DOMAIN heap'
  <2>1. ~IsNew(x, b)
    BY <1>0, <1>3 DEF Follows, IsNew
  <2>2. b \in NewIn(s)
    BY <1>0, <1>3, NewInSplit DEF r, s
  <2>3. ~Live(b)
    BY <2>2 DEF DataInv, NewOk, s
  <2> QED BY <2>1, <2>3 DEF x, s
<1>4. ASSUME NEW b \in Open(r) PROVE Sole(t, b)' \/ (JustPut(r) /\ SoleReach(t, b)')
  <2>1. b \in WrittenIn(r) /\ b \in Blocks
    BY <1>4 DEF Open, WrittenIn
  <2>2. CASE IsNew(x, b)
    BY <2>1, <2>2 DEF x, r, s
  <2>3. CASE ~IsNew(x, b)
    <3>1. b \in Open(s)
      BY <2>3, <1>0, <1>4, OpenSplit DEF r, x, s
    <3>2. Sole(t, b) \/ JustPut(s)
      BY <3>1 DEF DataInv, WriteOk, s
    <3>3. CASE JustPut(s)
      BY <3>3, <1>4, NothingLeft DEF JustPut, r
    <3>4. CASE Sole(t, b)
      BY <3>4, <2>1 DEF r, s
    <3> QED BY <3>2, <3>3, <3>4
  <2> QED BY <2>2, <2>3
<1> QED BY <1>0, <1>1, <1>2, <1>3, <1>4 DEF OwnOk, Live, r, s

\* The references that are counted and the ones the thread carries change alike.
LEMMA CountedAfter ==
  ASSUME Typed, NEW t \in Threads, NEW r, todo' = [todo EXCEPT ![t] = r], NEW b, Counted(b),
         Carried(todo[t], b) \in Nat, Carried(r, b) \in Nat, IsFiniteSet(Kept(b)'),
         Ref(b)' = Ref(b) + (Cardinality(Kept(b)') - Cardinality(Kept(b))) + (Carried(r, b) - Carried(todo[t], b))
  PROVE  Counted(b)'
<1> DEFINE f == todo
           g == todo'
<1>0. f[t] = todo[t] /\ g[t] = r /\ \A u \in Threads : u # t => f[u] = g[u]
  BY DEF Typed
<1>1. /\ IsFiniteSet(Kept(b)) /\ IsFiniteSet(TokensOf(f, b))
      /\ Ref(b) = Cardinality(Kept(b)) + Cardinality(TokensOf(f, b))
  BY DEF Counted, Tokens
<1>2. Cardinality(Kept(b)) \in Nat /\ Cardinality(TokensOf(f, b)) \in Nat /\ Cardinality(Kept(b)') \in Nat
  BY <1>1, FS_CardinalityType
<1> DEFINE n == Carried(r, b)
           k == Carried(todo[t], b)
<1>3. Carried(f[t], b) = k /\ Carried(g[t], b) = n /\ k \in Nat /\ n \in Nat
  BY <1>0
<1> HIDE DEF f, g, n, k
<1>4. IsFiniteSet(TokensOf(g, b)) /\ Cardinality(TokensOf(g, b)) = Cardinality(TokensOf(f, b)) + (n - k)
  <2>1. CASE k <= n
    <3>1. ASSUME NEW m \in Nat, n = k + m
          PROVE  IsFiniteSet(TokensOf(g, b)) /\ Cardinality(TokensOf(g, b)) = Cardinality(TokensOf(f, b)) + m
      <4>1. Carried(g[t], b) = Carried(f[t], b) + m /\ Carried(f[t], b) \in Nat
        BY <1>3, <3>1
      <4>2. \A u \in Threads : u # t => f[u] = g[u]
        BY <1>0
      <4>3. /\ IsFiniteSet(TokensOf(f, b)) <=> IsFiniteSet(TokensOf(g, b))
            /\ IsFiniteSet(TokensOf(f, b)) => Cardinality(TokensOf(g, b)) = Cardinality(TokensOf(f, b)) + m
        BY <4>1, <4>2, TokensGrow
      <4> QED BY <4>3, <1>1
    <3>2. n - k \in Nat /\ n = k + (n - k)
      BY <1>3, <2>1
    <3> QED BY <3>1, <3>2
  <2>2. CASE n <= k
    <3>1. ASSUME NEW m \in Nat, k = n + m
          PROVE  IsFiniteSet(TokensOf(g, b)) /\ Cardinality(TokensOf(f, b)) = Cardinality(TokensOf(g, b)) + m
      <4>1. Carried(f[t], b) = Carried(g[t], b) + m /\ Carried(g[t], b) \in Nat
        BY <1>3, <3>1
      <4>2. \A u \in Threads : u # t => g[u] = f[u]
        BY <1>0
      <4>3. /\ IsFiniteSet(TokensOf(g, b)) <=> IsFiniteSet(TokensOf(f, b))
            /\ IsFiniteSet(TokensOf(g, b)) => Cardinality(TokensOf(f, b)) = Cardinality(TokensOf(g, b)) + m
        BY <4>1, <4>2, TokensGrow
      <4> QED BY <4>3, <1>1
    <3>2. k - n \in Nat /\ k = n + (k - n)
      BY <1>3, <2>2
    <3>3. IsFiniteSet(TokensOf(g, b)) /\ Cardinality(TokensOf(f, b)) = Cardinality(TokensOf(g, b)) + (k - n)
      BY <3>1, <3>2
    <3>4. Cardinality(TokensOf(g, b)) \in Nat
      BY <3>3, FS_CardinalityType
    <3> QED BY <1>2, <1>3, <3>3, <3>4
  <2> QED BY <1>3, <2>1, <2>2
<1>5. Ref(b)' = Cardinality(Kept(b)') + Cardinality(TokensOf(g, b))
  BY <1>1, <1>2, <1>3, <1>4 DEF n, k
<1> QED BY <1>4, <1>5 DEF Counted, Tokens, g

\* Atomic::increment.
LEMMA RunInc ==
  ASSUME DataAssumption, DataInv, NEW t \in Threads, todo[t] # <<>>, NEW c, HeadIs(todo[t], "inc", c),
         heap' = [heap EXCEPT ![c].ref = @ + 1], todo' = [todo EXCEPT ![t] = Tail(@)],
         UNCHANGED <<counted, handle, value>>
  PROVE  DataInv'
<1> DEFINE s == todo[t]
           x == Head(s)
           r == Tail(s)
<1>0. /\ t \in Nat /\ s \in Seq(StepSet(t)) /\ r \in Seq(StepSet(t)) /\ x \in StepSet(t)
      /\ \A b \in Blocks : Carried(s, b) \in Nat /\ Carried(r, b) \in Nat
      /\ \A b : Carried(s, b) = Carried(r, b) + Weight(x, r, b)
      /\ Follows(Mine(t), x, r) /\ Sound(Mine(t), r)
  BY HeadFacts
<1>1. x.op = "inc" /\ x.block = c /\ s # <<>> /\ c \in Blocks
  BY <1>0, StepShape DEF HeadIs
<1>2. todo' = [todo EXCEPT ![t] = r] /\ todo'[t] = r /\ \A u \in Threads \ {t} : todo'[u] = todo[u]
  BY DEF DataInv, Typed
<1> HIDE DEF s, x, r
<1>3. /\ SetIn(r) = SetIn(s) /\ DelIn(r) = DelIn(s)
      /\ \A b \in Blocks : Carried(r, b) = Carried(s, b) + (IF b = c THEN 1 ELSE 0)
  <2>1. SetIn(r) = SetIn(s) /\ DelIn(r) = DelIn(s)
    <3>1. SetIn(s) = SetIn(r) \cup (IF x.op = "set" THEN {x.place} ELSE {})
      BY <1>0, <1>1, SetInSplit DEF r, x
    <3>2. DelIn(s) = DelIn(r) \cup (IF x.op = "delete" THEN {x.block} ELSE {})
      BY <1>0, <1>1, DelInSplit DEF r, x
    <3> QED BY <3>1, <3>2, <1>0, <1>1
  <2>2. \A b \in Blocks : Carried(r, b) = Carried(s, b) + (IF b = c THEN 1 ELSE 0)
    <3>1. \A b : Weight(x, r, b) = IF b = c THEN 0 - 1 ELSE 0
      BY <1>1 DEF Weight, Spends, Gains, IsNew
    <3> QED BY <1>0, <3>1
  <2> QED BY <2>1, <2>2
<1>4. Owns(t, c) \/ Reach(t, c) \/ Raw(t, c)
  BY <1>1 DEF DataInv, HeadOk, HeadIs, s, x
<1>5. Live(c) /\ heap[c].ref \in Nat /\ Ref(c) = heap[c].ref
  <2>1. CASE Raw(t, c)
    BY <2>1 DEF Raw, Ref
  <2> QED BY <1>4, <1>1, <2>1, UntouchedOwned
<1>6. Untouched(t, c)
  <2>1. CASE Raw(t, c)
    BY <2>1 DEF Raw, Untouched, Sole, SoleReach, Ref
  <2> QED BY <1>4, <1>1, <2>1, UntouchedOwned
<1>7. /\ DOMAIN heap' = DOMAIN heap /\ heap'[c].ref = heap[c].ref + 1
      /\ \A b \in DOMAIN heap : heap'[b].inner = heap[b].inner
      /\ \A b \in DOMAIN heap : b # c => heap'[b] = heap[b]
      /\ heap' \in [DOMAIN heap' -> BlockSet]
  <2>0. heap \in [DOMAIN heap -> BlockSet] /\ c \in DOMAIN heap
    BY <1>5 DEF DataInv, Typed, Live
  <2> USE <2>0
  <2>1. heap[c] \in BlockSet /\ heap'[c] = [heap[c] EXCEPT !.ref = @ + 1]
    OBVIOUS
  <2>2. heap'[c] \in BlockSet /\ heap'[c].ref = heap[c].ref + 1 /\ heap'[c].inner = heap[c].inner
    <3>1. heap[c].ref + 1 \in Nat
      BY <1>5
    <3>2. \A n \in Nat : /\ [heap[c] EXCEPT !.ref = n] \in BlockSet /\ [heap[c] EXCEPT !.ref = n].ref = n
                         /\ [heap[c] EXCEPT !.ref = n].inner = heap[c].inner
      BY <2>1, BlockChange
    <3>3. heap'[c] = [heap[c] EXCEPT !.ref = heap[c].ref + 1]
      BY <2>1
    <3> QED BY <3>1, <3>2, <3>3
  <2> QED BY <2>2
<1>8. Typed'
  BY <1>0, <1>2, <1>7, TypedAfter DEF DataInv, Typed
<1>9. \A b : Kept(b)' = Kept(b)
  <2>1. Typed /\ SetIn(r) = SetIn(todo[t]) /\ DelIn(r) = DelIn(todo[t])
    BY <1>3 DEF DataInv, s
  <2>2. DOMAIN heap' = DOMAIN heap /\ \A b \in DOMAIN heap : heap'[b].inner = heap[b].inner
    BY <1>7
  <2> QED BY <1>2, <2>1, <2>2, KeptSame
<1>10. AllCounted'
  <2> SUFFICES ASSUME NEW b \in Blocks PROVE Counted(b)'
    BY DEF AllCounted
  <2>0. Counted(b)
    BY DEF DataInv, AllCounted
  <2>1. Cardinality(Kept(b)) \in Nat /\ IsFiniteSet(Kept(b)) /\ Cardinality(Tokens(b)) \in Nat
    BY <2>0, FS_CardinalityType DEF Counted
  <2>2. Ref(b)' = Ref(b) + (IF b = c THEN 1 ELSE 0) /\ Ref(b) \in Nat
    <3>1. Ref(b) \in Nat
      BY <2>0, <2>1 DEF Counted
    <3> QED BY <3>1, <1>5, <1>7 DEF Ref, Live
  <2>3. Carried(todo[t], b) \in Nat /\ Carried(r, b) \in Nat
        /\ Carried(r, b) = Carried(todo[t], b) + (IF b = c THEN 1 ELSE 0)
    BY <1>0, <1>3 DEF s
  <2>4. Ref(b)' = Ref(b) + (Cardinality(Kept(b)') - Cardinality(Kept(b))) + (Carried(r, b) - Carried(todo[t], b))
    <3>1. Kept(b)' = Kept(b)
      BY <1>9
    <3> QED BY <2>1, <2>2, <2>3, <3>1
  <2> QED BY <2>0, <2>1, <2>3, <2>4, <1>2, <1>9, CountedAfter DEF DataInv
<1>11. Mine(t) \subseteq Mine(t)'
  BY <1>2, <1>3 DEF Mine, Own, Names, s
<1>12. OwnOk(t)'
  <2>1. \A b \in DelIn(r) : b \in DOMAIN heap' /\ heap'[b].ref = 0
    <3> SUFFICES ASSUME NEW b \in DelIn(r) PROVE b \in DOMAIN heap' /\ heap'[b].ref = 0
      OBVIOUS
    <3>1. b \in DelIn(todo[t]) /\ Live(b) /\ heap[b].ref = 0
      BY <1>3 DEF s, DataInv, DelOk
    <3>2. b # c
      <4>1. Ref(b) = 0 /\ b \in Blocks
        BY <3>1 DEF Ref, DataInv, Typed, Live
      <4>2. ~Owns(t, b) /\ Kept(b) = {}
        BY <4>1, ZeroAlone DEF DataInv
      <4> QED BY <4>2, <3>1, <1>4 DEF Raw, Reach
    <3> QED BY <3>1, <3>2, <1>7 DEF Live
  <2>2. \A b \in WrittenIn(r) : Sole(t, b) => Sole(t, b)'
    <3> SUFFICES ASSUME NEW b \in WrittenIn(r), Sole(t, b) PROVE Sole(t, b)'
      OBVIOUS
    <3>1. b # c /\ b \in Blocks
      BY <1>0, <1>1 DEF Follows, WrittenIn
    <3>2. Ref(b)' = Ref(b)
      BY <3>1, <1>7 DEF Ref, Live
    <3>3. Owns(t, b)'
      <4>1. Carried(todo'[t], b) = Carried(todo[t], b)
        <5>1. Carried(r, b) = Carried(s, b)
          BY <3>1, <1>0, <1>3
        <5> QED BY <5>1, <1>2 DEF s
      <4> QED BY <4>1, <1>11 DEF Sole, Owns
    <3> QED BY <3>2, <3>3 DEF Sole
  <2>3. \A b : ~IsNew(Head(todo[t]), b)
    BY <1>1 DEF IsNew, x, s
  <2> QED BY <2>1, <2>2, <2>3, <1>2, <1>7, <1>11, Strip DEF Live, r, s
<1>13. AllSound' /\ HeadOk' /\ NewOk' /\ DelOk' /\ WriteOk' /\ ZeroOk'
  <2>1. \A b \in Blocks \ {c} : ~HeadIs(todo[t], "inc", b)
    BY <1>1 DEF HeadIs, x, s
  <2>2. heap'[c].ref # 0
    BY <1>5, <1>7
  <2>3. \A b \in Blocks \ {c} : (b \in DOMAIN heap' <=> Live(b)) /\ (Live(b) => heap'[b].ref = heap[b].ref)
    BY <1>7 DEF Live
  <2>4. DelIn(r) \subseteq DelIn(todo[t]) \cup {c} /\ DelIn(todo[t]) \ {c} \subseteq DelIn(r)
    BY <1>3 DEF s
  <2>5. DOMAIN heap' \subseteq Blocks /\ (c \in DOMAIN heap' => Live(c))
    BY <1>5, <1>7 DEF DataInv, Typed
  <2> QED BY <2>1, <2>2, <2>3, <2>4, <2>5, <1>2, <1>6, <1>9, <1>12, OthersKeep
<1> QED BY <1>8, <1>10, <1>13 DEF DataInv

\* Atomic::decrement, not of the last reference.
LEMMA RunDec ==
  ASSUME DataAssumption, DataInv, NEW t \in Threads, todo[t] # <<>>, NEW c, HeadIs(todo[t], "dec", c), heap[c].ref # 1,
         heap' = [heap EXCEPT ![c].ref = @ - 1], todo' = [todo EXCEPT ![t] = Tail(@)],
         UNCHANGED <<counted, handle, value>>
  PROVE  DataInv'
<1> DEFINE s == todo[t]
           x == Head(s)
           r == Tail(s)
<1>0. /\ t \in Nat /\ s \in Seq(StepSet(t)) /\ r \in Seq(StepSet(t)) /\ x \in StepSet(t)
      /\ \A b \in Blocks : Carried(s, b) \in Nat /\ Carried(r, b) \in Nat
      /\ \A b : Carried(s, b) = Carried(r, b) + Weight(x, r, b)
      /\ Follows(Mine(t), x, r) /\ Sound(Mine(t), r)
  BY HeadFacts
<1>1. x.op = "dec" /\ x.block = c /\ s # <<>> /\ c \in Blocks
  BY <1>0, StepShape DEF HeadIs
<1>2. todo' = [todo EXCEPT ![t] = r] /\ todo'[t] = r /\ \A u \in Threads \ {t} : todo'[u] = todo[u]
  BY DEF DataInv, Typed
<1> HIDE DEF s, x, r
<1>3. /\ SetIn(r) = SetIn(s) /\ DelIn(r) = DelIn(s)
      /\ \A b \in Blocks : Carried(r, b) = Carried(s, b) - (IF b = c THEN 1 ELSE 0)
  <2>1. SetIn(r) = SetIn(s) /\ DelIn(r) = DelIn(s)
    <3>1. SetIn(s) = SetIn(r) \cup (IF x.op = "set" THEN {x.place} ELSE {})
      BY <1>0, <1>1, SetInSplit DEF r, x
    <3>2. DelIn(s) = DelIn(r) \cup (IF x.op = "delete" THEN {x.block} ELSE {})
      BY <1>0, <1>1, DelInSplit DEF r, x
    <3> QED BY <3>1, <3>2, <1>0, <1>1
  <2>2. \A b \in Blocks : Carried(r, b) = Carried(s, b) - (IF b = c THEN 1 ELSE 0)
    <3>1. \A b : Weight(x, r, b) = IF b = c THEN 1 ELSE 0
      BY <1>1 DEF Weight, Spends, Gains, IsNew
    <3> QED BY <1>0, <3>1
  <2> QED BY <2>1, <2>2
<1>4. Owns(t, c)
  <2>1. Carried(s, c) = Carried(r, c) + 1 /\ Carried(r, c) \in Nat
    BY <1>0, <1>1, <1>3
  <2> QED BY <2>1 DEF Owns, s
<1>5. Live(c) /\ heap[c].ref \in Nat /\ Ref(c) = heap[c].ref /\ heap[c].ref >= 2
  <2>1. Live(c) /\ heap[c].ref \in Nat /\ Ref(c) = heap[c].ref /\ heap[c].ref >= 1
    BY <1>4, <1>1, UntouchedOwned
  <2> QED BY <2>1
<1>6. Untouched(t, c)
  BY <1>4, <1>1, UntouchedOwned
<1>7. /\ DOMAIN heap' = DOMAIN heap /\ heap'[c].ref = heap[c].ref - 1
      /\ \A b \in DOMAIN heap : heap'[b].inner = heap[b].inner
      /\ \A b \in DOMAIN heap : b # c => heap'[b] = heap[b]
      /\ heap' \in [DOMAIN heap' -> BlockSet]
  <2>0. heap \in [DOMAIN heap -> BlockSet] /\ c \in DOMAIN heap
    BY <1>5 DEF DataInv, Typed, Live
  <2> USE <2>0
  <2>1. heap[c] \in BlockSet /\ heap'[c] = [heap[c] EXCEPT !.ref = @ - 1]
    OBVIOUS
  <2>2. heap'[c] \in BlockSet /\ heap'[c].ref = heap[c].ref - 1 /\ heap'[c].inner = heap[c].inner
    <3>1. heap[c].ref - 1 \in Nat
      BY <1>5
    <3>2. \A n \in Nat : /\ [heap[c] EXCEPT !.ref = n] \in BlockSet /\ [heap[c] EXCEPT !.ref = n].ref = n
                         /\ [heap[c] EXCEPT !.ref = n].inner = heap[c].inner
      BY <2>1, BlockChange
    <3>3. heap'[c] = [heap[c] EXCEPT !.ref = heap[c].ref - 1]
      BY <2>1
    <3> QED BY <3>1, <3>2, <3>3
  <2> QED BY <2>2
<1>8. Typed'
  BY <1>0, <1>2, <1>7, TypedAfter DEF DataInv, Typed
<1>9. \A b : Kept(b)' = Kept(b)
  <2>1. Typed /\ SetIn(r) = SetIn(todo[t]) /\ DelIn(r) = DelIn(todo[t])
    BY <1>3 DEF DataInv, s
  <2>2. DOMAIN heap' = DOMAIN heap /\ \A b \in DOMAIN heap : heap'[b].inner = heap[b].inner
    BY <1>7
  <2> QED BY <1>2, <2>1, <2>2, KeptSame
<1>10. AllCounted'
  <2> SUFFICES ASSUME NEW b \in Blocks PROVE Counted(b)'
    BY DEF AllCounted
  <2>0. Counted(b)
    BY DEF DataInv, AllCounted
  <2>1. Cardinality(Kept(b)) \in Nat /\ IsFiniteSet(Kept(b)) /\ Cardinality(Tokens(b)) \in Nat
    BY <2>0, FS_CardinalityType DEF Counted
  <2>2. Ref(b)' = Ref(b) - (IF b = c THEN 1 ELSE 0) /\ Ref(b) \in Nat
    <3>1. Ref(b) \in Nat
      BY <2>0, <2>1 DEF Counted
    <3> QED BY <3>1, <1>5, <1>7 DEF Ref, Live
  <2>3. Carried(todo[t], b) \in Nat /\ Carried(r, b) \in Nat
        /\ Carried(r, b) = Carried(todo[t], b) - (IF b = c THEN 1 ELSE 0)
    BY <1>0, <1>3 DEF s
  <2>4. Ref(b)' = Ref(b) + (Cardinality(Kept(b)') - Cardinality(Kept(b))) + (Carried(r, b) - Carried(todo[t], b))
    <3>1. Cardinality(Kept(b)') = Cardinality(Kept(b))
      BY <1>9
    <3>2. PICK y, k, u, v, m : /\ y = Ref(b) /\ k = Cardinality(Kept(b)) /\ u = Carried(todo[t], b) /\ v = Carried(r, b)
                               /\ m = IF b = c THEN 1 ELSE 0
      BY Zenon
    <3>3. y \in Nat /\ k \in Nat /\ u \in Nat /\ v = u - m /\ m \in Nat
      BY <2>1, <2>2, <2>3, <3>2
    <3>4. y - m = y + (k - k) + (v - u)
      BY <3>3
    <3>5. Ref(b)' = y - m
      BY <2>2, <3>2
    <3> QED BY <3>1, <3>2, <3>4, <3>5
  <2> QED BY <2>0, <2>1, <2>3, <2>4, <1>2, <1>9, CountedAfter DEF DataInv
<1>11. Mine(t) \subseteq Mine(t)'
  BY <1>2, <1>3 DEF Mine, Own, Names, s
<1>12. OwnOk(t)'
  <2>1. \A b \in DelIn(r) : b \in DOMAIN heap' /\ heap'[b].ref = 0
    <3> SUFFICES ASSUME NEW b \in DelIn(r) PROVE b \in DOMAIN heap' /\ heap'[b].ref = 0
      OBVIOUS
    <3>1. b \in DelIn(todo[t]) /\ Live(b) /\ heap[b].ref = 0
      BY <1>3 DEF s, DataInv, DelOk
    <3>2. b # c
      <4>1. Ref(b) = 0 /\ b \in Blocks
        BY <3>1 DEF Ref, DataInv, Typed, Live
      <4>2. ~Owns(t, b) /\ Kept(b) = {}
        BY <4>1, ZeroAlone DEF DataInv
      <4> QED BY <4>2, <3>1, <1>4
    <3> QED BY <3>1, <3>2, <1>7 DEF Live
  <2>2. \A b \in WrittenIn(r) : Sole(t, b) => Sole(t, b)'
    <3> SUFFICES ASSUME NEW b \in WrittenIn(r), Sole(t, b) PROVE Sole(t, b)'
      OBVIOUS
    <3>1. b # c /\ b \in Blocks
      BY <1>0, <1>1 DEF Follows, WrittenIn
    <3>2. Ref(b)' = Ref(b)
      BY <3>1, <1>7 DEF Ref, Live
    <3>3. Owns(t, b)'
      <4>1. Carried(todo'[t], b) = Carried(todo[t], b)
        <5>1. Carried(r, b) = Carried(s, b)
          BY <3>1, <1>0, <1>3
        <5> QED BY <5>1, <1>2 DEF s
      <4> QED BY <4>1, <1>11 DEF Sole, Owns
    <3> QED BY <3>2, <3>3 DEF Sole
  <2>3. \A b : ~IsNew(Head(todo[t]), b)
    BY <1>1 DEF IsNew, x, s
  <2> QED BY <2>1, <2>2, <2>3, <1>2, <1>7, <1>11, Strip DEF Live, r, s
<1>13. AllSound' /\ HeadOk' /\ NewOk' /\ DelOk' /\ WriteOk' /\ ZeroOk'
  <2>1. \A b \in Blocks : ~HeadIs(todo[t], "inc", b)
    BY <1>1 DEF HeadIs, x, s
  <2>2. heap'[c].ref # 0
    BY <1>5, <1>7
  <2>3. \A b \in Blocks \ {c} : (b \in DOMAIN heap' <=> Live(b)) /\ (Live(b) => heap'[b].ref = heap[b].ref)
    BY <1>7 DEF Live
  <2>4. DelIn(r) \subseteq DelIn(todo[t]) \cup {c} /\ DelIn(todo[t]) \ {c} \subseteq DelIn(r)
    BY <1>3 DEF s
  <2>5. DOMAIN heap' \subseteq Blocks /\ (c \in DOMAIN heap' => Live(c))
    BY <1>5, <1>7 DEF DataInv, Typed
  <2> QED BY <2>1, <2>2, <2>3, <2>4, <2>5, <1>2, <1>6, <1>9, <1>12, OthersKeep
<1> QED BY <1>8, <1>10, <1>13 DEF DataInv

\* What is not a block is nothing the others know of.
LEMMA UntouchedNone ==
  ASSUME DataAssumption, DataInv, NEW t \in Threads
  PROVE  Untouched(t, NoBlock) /\ NoBlock \notin DOMAIN heap
<1>1. ~Live(NoBlock) /\ NoBlock \notin Blocks
  BY PlacesDiffer DEF DataInv, Typed, Live
<1>2. \A u \in Threads : NoBlock \notin DelIn(todo[u])
  BY <1>1, StepsInSeq DEF DataAssumption, DataInv, Typed
<1> QED BY <1>1, <1>2 DEF Untouched, Sole, SoleReach, Raw, Ref, Live

\* Characters are written.
LEMMA RunPut ==
  ASSUME DataAssumption, DataInv, NEW t \in Threads, todo[t] # <<>>, NEW c, HeadIs(todo[t], "put", c),
         heap' = [heap EXCEPT ![c].val = Head(todo[t]).data], todo' = [todo EXCEPT ![t] = Tail(@)],
         UNCHANGED <<counted, handle, value>>
  PROVE  DataInv'
<1> DEFINE s == todo[t]
           x == Head(s)
           r == Tail(s)
<1>0. /\ t \in Nat /\ s \in Seq(StepSet(t)) /\ r \in Seq(StepSet(t)) /\ x \in StepSet(t)
      /\ \A b \in Blocks : Carried(s, b) \in Nat /\ Carried(r, b) \in Nat
      /\ \A b : Carried(s, b) = Carried(r, b) + Weight(x, r, b)
      /\ Follows(Mine(t), x, r) /\ Sound(Mine(t), r)
  BY HeadFacts
<1>1. x.op = "put" /\ x.block = c /\ s # <<>> /\ c \in Blocks /\ x.data \in Nat
  BY <1>0, StepShape DEF HeadIs
<1>2. todo' = [todo EXCEPT ![t] = r] /\ todo'[t] = r /\ \A u \in Threads \ {t} : todo'[u] = todo[u]
  BY DEF DataInv, Typed
<1>2a. heap' = [heap EXCEPT ![c].val = x.data]
  OBVIOUS
<1> HIDE DEF s, x, r
<1>3. /\ SetIn(r) = SetIn(s) /\ DelIn(r) = DelIn(s)
      /\ \A b \in Blocks : Carried(r, b) = Carried(s, b)
  <2>1. SetIn(r) = SetIn(s) /\ DelIn(r) = DelIn(s)
    <3>1. SetIn(s) = SetIn(r) \cup (IF x.op = "set" THEN {x.place} ELSE {})
      BY <1>0, <1>1, SetInSplit DEF r, x
    <3>2. DelIn(s) = DelIn(r) \cup (IF x.op = "delete" THEN {x.block} ELSE {})
      BY <1>0, <1>1, DelInSplit DEF r, x
    <3> QED BY <3>1, <3>2, <1>0, <1>1
  <2>2. \A b \in Blocks : Carried(r, b) = Carried(s, b)
    BY <1>0, <1>1 DEF Weight, Spends, Gains, IsNew
  <2> QED BY <2>1, <2>2
<1>7. /\ DOMAIN heap' = DOMAIN heap
      /\ \A b \in DOMAIN heap : heap'[b].inner = heap[b].inner /\ heap'[b].ref = heap[b].ref
      /\ heap' \in [DOMAIN heap' -> BlockSet]
  <2>0. heap \in [DOMAIN heap -> BlockSet]
    BY DEF DataInv, Typed
  <2>1. CASE c \in DOMAIN heap
    <3>1. heap[c] \in BlockSet /\ heap'[c] = [heap[c] EXCEPT !.val = x.data]
      BY <2>0, <2>1, <1>2a
    <3>2. \A n \in Nat : /\ [heap[c] EXCEPT !.val = n] \in BlockSet /\ [heap[c] EXCEPT !.val = n].ref = heap[c].ref
                         /\ [heap[c] EXCEPT !.val = n].inner = heap[c].inner
      BY <3>1, BlockChange
    <3>3. heap'[c] \in BlockSet /\ heap'[c].inner = heap[c].inner /\ heap'[c].ref = heap[c].ref
      BY <3>1, <3>2, <1>1
    <3>4. DOMAIN heap' = DOMAIN heap /\ \A b \in DOMAIN heap : b # c => heap'[b] = heap[b]
      BY <2>0, <1>2a
    <3>5. heap' = [b \in DOMAIN heap' |-> heap'[b]]
      BY <2>0, <1>2a
    <3>6. \A b \in DOMAIN heap : heap[b] \in BlockSet
      BY <2>0
    <3> QED BY <3>3, <3>4, <3>5, <3>6
  <2>2. CASE c \notin DOMAIN heap
    <3>1. heap' = heap
      BY <2>0, <2>2, <1>2a
    <3> QED BY <3>1, <2>0
  <2> QED BY <2>1, <2>2
<1>8. Typed'
  BY <1>0, <1>2, <1>7, TypedAfter DEF DataInv, Typed
<1>9. \A b : Kept(b)' = Kept(b)
  <2>1. Typed /\ SetIn(r) = SetIn(todo[t]) /\ DelIn(r) = DelIn(todo[t])
    BY <1>3 DEF DataInv, s
  <2>2. DOMAIN heap' = DOMAIN heap /\ \A b \in DOMAIN heap : heap'[b].inner = heap[b].inner
    BY <1>7
  <2> QED BY <1>2, <2>1, <2>2, KeptSame
<1>9a. \A b : Ref(b)' = Ref(b)
  BY <1>7 DEF Ref, Live
<1>10. AllCounted'
  <2> SUFFICES ASSUME NEW b \in Blocks PROVE Counted(b)'
    BY DEF AllCounted
  <2>0. Counted(b)
    BY DEF DataInv, AllCounted
  <2>1. Cardinality(Kept(b)) \in Nat /\ IsFiniteSet(Kept(b)) /\ Cardinality(Tokens(b)) \in Nat
    BY <2>0, FS_CardinalityType DEF Counted
  <2>3. Carried(todo[t], b) \in Nat /\ Carried(r, b) \in Nat /\ Carried(r, b) = Carried(todo[t], b)
    BY <1>0, <1>3 DEF s
  <2>4. Ref(b)' = Ref(b) + (Cardinality(Kept(b)') - Cardinality(Kept(b))) + (Carried(r, b) - Carried(todo[t], b))
    BY <2>0, <2>1, <2>3, <1>9, <1>9a DEF Counted
  <2> QED BY <2>0, <2>1, <2>3, <2>4, <1>2, <1>9, CountedAfter DEF DataInv
<1>11. Mine(t) \subseteq Mine(t)'
  BY <1>2, <1>3 DEF Mine, Own, Names, s
<1>12. OwnOk(t)'
  <2>1. \A b \in DelIn(r) : b \in DOMAIN heap' /\ heap'[b].ref = 0
    BY <1>3, <1>7 DEF s, DataInv, DelOk, Live
  <2>2. \A b \in WrittenIn(r) : Sole(t, b) => Sole(t, b)'
    <3> SUFFICES ASSUME NEW b \in WrittenIn(r), Sole(t, b) PROVE Sole(t, b)'
      OBVIOUS
    <3>1. b \in Blocks
      BY DEF WrittenIn
    <3>2. Carried(todo'[t], b) = Carried(todo[t], b)
      BY <3>1, <1>2, <1>3 DEF s
    <3> QED BY <3>2, <1>9a, <1>11 DEF Sole, Owns
  <2>3. \A b : ~IsNew(Head(todo[t]), b)
    BY <1>1 DEF IsNew, x, s
  <2> QED BY <2>1, <2>2, <2>3, <1>2, <1>7, <1>11, Strip DEF Live, r, s
<1>13. AllSound' /\ HeadOk' /\ NewOk' /\ DelOk' /\ WriteOk' /\ ZeroOk'
  <2>1. \A b \in Blocks : ~HeadIs(todo[t], "inc", b)
    BY <1>1 DEF HeadIs, x, s
  <2>2. Untouched(t, NoBlock) /\ NoBlock \notin DOMAIN heap'
    BY <1>7, UntouchedNone
  <2>3. \A b \in Blocks : (b \in DOMAIN heap' <=> Live(b)) /\ (Live(b) => heap'[b].ref = heap[b].ref)
    BY <1>7 DEF Live
  <2>4. DelIn(r) = DelIn(todo[t])
    BY <1>3 DEF s
  <2>5. DOMAIN heap' \subseteq Blocks
    BY <1>7 DEF DataInv, Typed
  <2> QED BY <2>1, <2>2, <2>3, <2>4, <2>5, <1>2, <1>9, <1>12, OthersKeep
<1> QED BY <1>8, <1>10, <1>13 DEF DataInv

\* A block is deleted.
LEMMA RunDelete ==
  ASSUME DataAssumption, DataInv, NEW t \in Threads, todo[t] # <<>>, NEW c, HeadIs(todo[t], "delete", c),
         heap' = [b \in DOMAIN heap \ {c} |-> heap[b]], todo' = [todo EXCEPT ![t] = Tail(@)],
         UNCHANGED <<counted, handle, value>>
  PROVE  DataInv'
<1> DEFINE s == todo[t]
           x == Head(s)
           r == Tail(s)
<1>0. /\ t \in Nat /\ s \in Seq(StepSet(t)) /\ r \in Seq(StepSet(t)) /\ x \in StepSet(t)
      /\ \A b \in Blocks : Carried(s, b) \in Nat /\ Carried(r, b) \in Nat
      /\ \A b : Carried(s, b) = Carried(r, b) + Weight(x, r, b)
      /\ Follows(Mine(t), x, r) /\ Sound(Mine(t), r)
  BY HeadFacts
<1>1. x.op = "delete" /\ x.block = c /\ s # <<>> /\ c \in Blocks
  BY <1>0, StepShape DEF HeadIs
<1>2. todo' = [todo EXCEPT ![t] = r] /\ todo'[t] = r /\ \A u \in Threads \ {t} : todo'[u] = todo[u]
  BY DEF DataInv, Typed
<1> HIDE DEF s, x, r
<1>3. /\ SetIn(r) = SetIn(s) /\ DelIn(s) = DelIn(r) \cup {c} /\ c \notin DelIn(r)
      /\ \A b \in Blocks : Carried(r, b) = Carried(s, b)
  <2>1. SetIn(r) = SetIn(s) /\ DelIn(s) = DelIn(r) \cup {c} /\ c \notin DelIn(r)
    <3>1. SetIn(s) = SetIn(r) \cup (IF x.op = "set" THEN {x.place} ELSE {})
      BY <1>0, <1>1, SetInSplit DEF r, x
    <3>2. DelIn(s) = DelIn(r) \cup (IF x.op = "delete" THEN {x.block} ELSE {})
      BY <1>0, <1>1, DelInSplit DEF r, x
    <3> QED BY <3>1, <3>2, <1>0, <1>1 DEF Follows
  <2>2. \A b \in Blocks : Carried(r, b) = Carried(s, b)
    BY <1>0, <1>1 DEF Weight, Spends, Gains, IsNew
  <2> QED BY <2>1, <2>2
<1>4. Live(c) /\ heap[c].ref = 0 /\ Ref(c) = 0 /\ \A u \in Threads \ {t} : c \notin DelIn(todo[u])
  <2>1. c \in DelIn(todo[t])
    BY <1>3 DEF s
  <2>2. Live(c) /\ heap[c].ref = 0 /\ \A u \in Threads : c \in DelIn(todo[u]) => u = t
    BY <2>1 DEF DataInv, DelOk
  <2> QED BY <2>2 DEF Ref
<1>6. Untouched(t, c)
  <2>1. \A u \in Threads : ~Raw(u, c)
    BY <1>3 DEF Raw, s
  <2> QED BY <2>1, <1>4 DEF Untouched, Sole, SoleReach
<1>7. /\ DOMAIN heap' = DOMAIN heap \ {c}
      /\ \A b \in DOMAIN heap' : heap'[b] = heap[b]
      /\ heap' \in [DOMAIN heap' -> BlockSet]
  BY DEF DataInv, Typed
<1>8. Typed'
  BY <1>0, <1>2, <1>7, TypedAfter DEF DataInv, Typed
<1>9. \A b : Kept(b)' = Kept(b)
  <2>1. Places' = Places \ {Within(c)}
    BY <1>7, <1>1, PlacesDiffer DEF Places, Handles, Names
  <2>2. Busy(Within(c))
    BY <1>3, PlacesDiffer DEF Busy, s
  <2>3. \A p \in Places : p # Within(c) => p.block # c
    BY <1>1, PlacesDiffer DEF Places
  <2>4. \A p \in Places \ {Within(c)} : Busy(p)' <=> Busy(p)
    BY <2>3, <1>2, <1>3 DEF Busy, s
  <2>5. \A p \in Places \ {Within(c)} : Data(p)' = Data(p)
    <3>1. \A h \in Handles : Data(Here(h))' = Data(Here(h))
      BY DEF Data, Here
    <3>2. \A a \in DOMAIN heap \ {c} : Data(Within(a))' = Data(Within(a))
      <4>1. NoBlock \notin DOMAIN heap
        BY PlacesDiffer DEF DataInv, Typed
      <4> QED BY <4>1, <1>7 DEF Data, Within
    <3> QED BY <3>1, <3>2 DEF Places
  <2> QED BY <2>1, <2>2, <2>4, <2>5 DEF Kept
<1>9a. \A b : Ref(b)' = Ref(b)
  BY <1>4, <1>7 DEF Ref, Live
<1>10. AllCounted'
  <2> SUFFICES ASSUME NEW b \in Blocks PROVE Counted(b)'
    BY DEF AllCounted
  <2>0. Counted(b)
    BY DEF DataInv, AllCounted
  <2>1. Cardinality(Kept(b)) \in Nat /\ IsFiniteSet(Kept(b)) /\ Cardinality(Tokens(b)) \in Nat
    BY <2>0, FS_CardinalityType DEF Counted
  <2>3. Carried(todo[t], b) \in Nat /\ Carried(r, b) \in Nat /\ Carried(r, b) = Carried(todo[t], b)
    BY <1>0, <1>3 DEF s
  <2>4. Ref(b)' = Ref(b) + (Cardinality(Kept(b)') - Cardinality(Kept(b))) + (Carried(r, b) - Carried(todo[t], b))
    BY <2>0, <2>1, <2>3, <1>9, <1>9a DEF Counted
  <2> QED BY <2>0, <2>1, <2>3, <2>4, <1>2, <1>9, CountedAfter DEF DataInv
<1>11. Mine(t) \subseteq Mine(t)'
  BY <1>2, <1>3 DEF Mine, Own, Names, s
<1>12. OwnOk(t)'
  <2>1. \A b \in DelIn(r) : b \in DOMAIN heap' /\ heap'[b].ref = 0
    BY <1>3, <1>7 DEF s, DataInv, DelOk, Live
  <2>2. \A b \in WrittenIn(r) : Sole(t, b) => Sole(t, b)'
    <3> SUFFICES ASSUME NEW b \in WrittenIn(r), Sole(t, b) PROVE Sole(t, b)'
      OBVIOUS
    <3>1. b \in Blocks
      BY DEF WrittenIn
    <3>2. Carried(todo'[t], b) = Carried(todo[t], b)
      BY <3>1, <1>2, <1>3 DEF s
    <3> QED BY <3>2, <1>9a, <1>11 DEF Sole, Owns
  <2>3. \A b : ~IsNew(Head(todo[t]), b)
    BY <1>1 DEF IsNew, x, s
  <2> QED BY <2>1, <2>2, <2>3, <1>2, <1>7, <1>11, Strip DEF Live, r, s
<1>13. AllSound' /\ HeadOk' /\ NewOk' /\ DelOk' /\ WriteOk' /\ ZeroOk'
  <2>1. \A b \in Blocks : ~HeadIs(todo[t], "inc", b)
    BY <1>1 DEF HeadIs, x, s
  <2>3. \A b \in Blocks \ {c} : (b \in DOMAIN heap' <=> Live(b)) /\ (Live(b) => heap'[b].ref = heap[b].ref)
    BY <1>7 DEF Live
  <2>4. DelIn(r) \subseteq DelIn(todo[t]) \cup {c} /\ DelIn(todo[t]) \ {c} \subseteq DelIn(r)
    BY <1>3 DEF s
  <2>5. DOMAIN heap' \subseteq Blocks /\ c \notin DOMAIN heap'
    BY <1>7 DEF DataInv, Typed
  <2> QED BY <2>1, <2>3, <2>4, <2>5, <1>2, <1>6, <1>9, <1>12, OthersKeep
<1> QED BY <1>8, <1>10, <1>13 DEF DataInv

\* A block that a list writes exists before, or is new in it.
LEMMA WrittenOpen ==
  ASSUME NEW S, NEW s \in Seq(S), NEW b \in Blocks
  PROVE  /\ b \in WrittenIn(s) => b \in Open(s) \/ b \in NewIn(s)
         /\ Within(b) \in SetIn(s) => b \in WrittenIn(s)
<1>1. ASSUME b \in WrittenIn(s) PROVE b \in Open(s) \/ b \in NewIn(s)
  <2>1. PICK i \in DOMAIN s : Writes(s[i], b)
    BY <1>1 DEF WrittenIn
  <2>2. CASE \A j \in 1 .. i - 1 : ~IsNew(s[j], b)
    BY <2>1, <2>2 DEF Open
  <2>3. CASE \E j \in 1 .. i - 1 : IsNew(s[j], b)
    <3>1. PICK j \in 1 .. i - 1 : IsNew(s[j], b)
      BY <2>3
    <3>2. j \in DOMAIN s
      <4>1. DOMAIN s = 1 .. Len(s) /\ Len(s) \in Nat
        BY LenProperties
      <4> QED BY <4>1
    <3> QED BY <3>1, <3>2 DEF NewIn, IsNew
  <2> QED BY <2>2, <2>3
<1>2. ASSUME Within(b) \in SetIn(s) PROVE b \in WrittenIn(s)
  <2>1. PICK i \in DOMAIN s : s[i].op = "set" /\ s[i].place = Within(b)
    BY <1>2 DEF SetIn
  <2> QED BY <2>1 DEF WrittenIn, Writes
<1> QED BY <1>1, <1>2

\* Nobody sets what is in a block that was allocated already, but who has the only reference.
LEMMA SetterAlone ==
  ASSUME DataAssumption, DataInv, NEW u \in Threads, NEW a \in Blocks, Within(a) \in SetIn(todo[u])
  PROVE  (a \in Open(todo[u]) /\ Sole(u, a)) \/ (a \in NewIn(todo[u]) /\ ~Live(a) /\ a[1] = u)
<1>0. u \in Nat /\ todo[u] \in Seq(StepSet(u))
  BY DEF DataAssumption, DataInv, Typed
<1>1. a \in Open(todo[u]) \/ a \in NewIn(todo[u])
  BY <1>0, WrittenOpen
<1>2. CASE a \in NewIn(todo[u])
  <2>1. ~Live(a)
    BY <1>2 DEF DataInv, NewOk
  <2>2. a[1] = u
    BY <1>0, <1>2, StepsInSeq
  <2> QED BY <1>2, <2>1, <2>2
<1>3. CASE a \in Open(todo[u])
  <2>1. Sole(u, a) \/ JustPut(todo[u])
    BY <1>3 DEF DataInv, WriteOk
  <2>2. CASE JustPut(todo[u])
    <3>1. SetIn(todo[u]) = {}
      BY <1>0, <2>2, SetInSplit, NothingLeft DEF JustPut
    <3> QED BY <3>1
  <2> QED BY <1>3, <2>1, <2>2
<1> QED BY <1>1, <1>2, <1>3

\* A place is set.
LEMMA RunSet ==
  ASSUME DataAssumption, DataInv, NEW t \in Threads, todo[t] # <<>>, Head(todo[t]).op = "set",
         IF Head(todo[t]).place.block = NoBlock
         THEN handle' = [handle EXCEPT ![Head(todo[t]).place.handle] = Head(todo[t]).data] /\ UNCHANGED heap
         ELSE heap' = [heap EXCEPT ![Head(todo[t]).place.block].inner = Head(todo[t]).data] /\ UNCHANGED handle,
         todo' = [todo EXCEPT ![t] = Tail(@)],
         UNCHANGED <<counted, value>>
  PROVE  DataInv'
<1> DEFINE s == todo[t]
           x == Head(s)
           r == Tail(s)
<1>0. /\ t \in Nat /\ s \in Seq(StepSet(t)) /\ r \in Seq(StepSet(t)) /\ x \in StepSet(t)
      /\ \A b \in Blocks : Carried(s, b) \in Nat /\ Carried(r, b) \in Nat
      /\ \A b : Carried(s, b) = Carried(r, b) + Weight(x, r, b)
      /\ Follows(Mine(t), x, r) /\ Sound(Mine(t), r)
  BY HeadFacts
<1>p. PICK p, d : p = x.place /\ d = x.data
  OBVIOUS
<1>1. x.op = "set" /\ s # <<>> /\ p \in PlaceSet(t) /\ d \in DataSet
  BY <1>0, <1>p, StepShape
<1>2. todo' = [todo EXCEPT ![t] = r] /\ todo'[t] = r /\ \A u \in Threads \ {t} : todo'[u] = todo[u]
  BY DEF DataInv, Typed
<1>2a. IF p.block = NoBlock THEN handle' = [handle EXCEPT ![p.handle] = d] /\ UNCHANGED heap
       ELSE heap' = [heap EXCEPT ![p.block].inner = d] /\ UNCHANGED handle
  BY <1>p
<1> HIDE DEF s, x, r
<1>3. /\ SetIn(s) = SetIn(r) \cup {p} /\ p \notin SetIn(r) /\ DelIn(r) = DelIn(s)
      /\ \A b \in Blocks : Carried(s, b) = Carried(r, b) + (IF d.at = b THEN 1 ELSE 0)
  <2>1. SetIn(s) = SetIn(r) \cup {p} /\ p \notin SetIn(r) /\ DelIn(r) = DelIn(s)
    <3>1. SetIn(s) = SetIn(r) \cup {p} /\ DelIn(s) = DelIn(r)
      <4>1. SetIn(s) = SetIn(r) \cup (IF x.op = "set" THEN {x.place} ELSE {})
        BY <1>0, <1>1, SetInSplit DEF r, x
      <4>2. DelIn(s) = DelIn(r) \cup (IF x.op = "delete" THEN {x.block} ELSE {})
        BY <1>0, <1>1, DelInSplit DEF r, x
      <4> QED BY <4>1, <4>2, <1>0, <1>1, <1>p
    <3>2. p \notin SetIn(r)
      BY <1>0, <1>1, <1>p DEF Follows
    <3> QED BY <3>1, <3>2
  <2>2. \A b \in Blocks : Carried(s, b) = Carried(r, b) + (IF d.at = b THEN 1 ELSE 0)
    BY <1>0, <1>1, <1>p DEF Weight, Spends, Gains, IsNew
  <2> QED BY <2>1, <2>2
<1>4. ASSUME NEW a \in Blocks, p = Within(a)
      PROVE  Sole(t, a) /\ Live(a) /\ heap[a].ref = 1 /\ Ref(a) = 1
  <2>1. a \in Open(s)
    BY <1>0, <1>1, <1>4, <1>p, OpenSplit DEF Writes, x
  <2>2. Sole(t, a)
    BY <2>1, <1>1 DEF DataInv, WriteOk, JustPut, s, x
  <2> QED BY <2>2, SoleAlone DEF DataInv, Sole
<1>5. \A u \in Threads \ {t} : p \notin SetIn(todo[u])
  <2> SUFFICES ASSUME NEW u \in Threads \ {t}, p \in SetIn(todo[u]) PROVE FALSE
    OBVIOUS
  <2>1. CASE \E h \in Own(t) : p = Here(h)
    BY <2>1, OwnPlaces DEF DataInv
  <2>2. CASE \E a \in Blocks : p = Within(a)
    <3>1. PICK a \in Blocks : p = Within(a)
      BY <2>2
    <3>2. Sole(t, a) /\ Live(a)
      BY <3>1, <1>4
    <3>3. Sole(u, a) \/ ~Live(a)
      BY <3>1, SetterAlone
    <3> QED BY <3>2, <3>3, SoleAlone DEF DataInv, Sole
  <2> QED BY <1>1, <2>1, <2>2 DEF PlaceSet
<1>6. \A u \in Threads : p.block \notin DelIn(todo[u])
  <2> SUFFICES ASSUME NEW u \in Threads, p.block \in DelIn(todo[u]) PROVE FALSE
    OBVIOUS
  <2>1. p.block \in Blocks
    BY StepsInSeq DEF DataAssumption, DataInv, Typed
  <2>2. p = Within(p.block)
    BY <1>1, <2>1, PlacesDiffer DEF PlaceSet
  <2>3. heap[p.block].ref = 0
    BY DEF DataInv, DelOk
  <2> QED BY <2>1, <2>2, <2>3, <1>4
<1>7. p \in Places
  <2>1. CASE \E h \in Own(t) : p = Here(h)
    BY <2>1 DEF Places, Own, Handles
  <2>2. CASE \E a \in Blocks : p = Within(a)
    BY <2>2, <1>4 DEF Places, Live
  <2> QED BY <1>1, <2>1, <2>2 DEF PlaceSet
<1>8. /\ DOMAIN heap' = DOMAIN heap
      /\ \A b \in DOMAIN heap : heap'[b].ref = heap[b].ref
      /\ heap' \in [DOMAIN heap' -> BlockSet]
      /\ handle' \in [Handles -> DataSet]
      /\ \A u \in Threads \ {t} : \A h \in Own(u) : handle'[h] = handle[h]
      /\ \A h \in Handles : handle'[h] = IF p = Here(h) THEN d ELSE handle[h]
      /\ \A b \in DOMAIN heap : heap'[b].inner = IF p = Within(b) THEN d ELSE heap[b].inner
  <2>0. heap \in [DOMAIN heap -> BlockSet] /\ DOMAIN heap \subseteq Blocks /\ handle \in [Handles -> DataSet]
    BY DEF DataInv, Typed
  <2>1. CASE \E h \in Own(t) : p = Here(h)
    <3>1. PICK h \in Own(t) : p = Here(h)
      BY <2>1
    <3>2. handle' = [handle EXCEPT ![h] = d] /\ heap' = heap
      BY <3>1, <1>2a, PlacesDiffer
    <3>3. h \in Handles /\ \A g : p = Here(g) <=> g = h
      BY <3>1, PlacesDiffer DEF Own, Handles
    <3>4. \A b \in DOMAIN heap : p # Within(b)
      BY <3>1, <2>0, PlacesDiffer
    <3>5. \A u \in Threads \ {t} : \A g \in Own(u) : g # h /\ g \in Handles
      BY <3>1 DEF Own, Handles
    <3> QED BY <2>0, <3>2, <3>3, <3>4, <3>5, <1>1
  <2>2. CASE \E a \in Blocks : p = Within(a)
    <3>1. PICK a \in Blocks : p = Within(a)
      BY <2>2
    <3>2. a \in DOMAIN heap /\ heap' = [heap EXCEPT ![a].inner = d] /\ handle' = handle
      BY <3>1, <1>2a, <1>4, PlacesDiffer DEF Live
    <3>3. \A g : p # Here(g)
      BY <3>1, PlacesDiffer
    <3>4. \A b : p = Within(b) <=> b = a
      BY <3>1, PlacesDiffer
    <3>5. heap[a] \in BlockSet /\ heap'[a] = [heap[a] EXCEPT !.inner = d]
      BY <2>0, <3>2
    <3>6. \A e \in DataSet : /\ [heap[a] EXCEPT !.inner = e] \in BlockSet
                            /\ [heap[a] EXCEPT !.inner = e].ref = heap[a].ref
                            /\ [heap[a] EXCEPT !.inner = e].inner = e
      BY <3>5, BlockChange
    <3>7. heap'[a] \in BlockSet /\ heap'[a].ref = heap[a].ref /\ heap'[a].inner = d
      BY <3>5, <3>6, <1>1
    <3>8. DOMAIN heap' = DOMAIN heap /\ \A b \in DOMAIN heap : b # a => heap'[b] = heap[b]
      BY <2>0, <3>2
    <3>9. heap' = [b \in DOMAIN heap' |-> heap'[b]] /\ \A b \in DOMAIN heap : heap[b] \in BlockSet
      BY <2>0, <3>2
    <3>10. \A u \in Threads : \A h \in Own(u) : handle'[h] = handle[h]
      BY <3>2
    <3> QED BY <2>0, <3>2, <3>3, <3>4, <3>7, <3>8, <3>9, <3>10
  <2> QED BY <1>1, <2>1, <2>2 DEF PlaceSet
<1>9. Typed'
  BY <1>0, <1>2, <1>8, TypedAfter DEF DataInv, Typed
<1>10. /\ Places' = Places
       /\ Data(p)' = d /\ \A q \in Places \ {p} : Data(q)' = Data(q)
       /\ ~Busy(p)' /\ Busy(p) /\ \A q \in Places \ {p} : Busy(q)' <=> Busy(q)
  <2>1. Places' = Places
    BY <1>8 DEF Places, Handles, Names
  <2>2. NoBlock \notin DOMAIN heap
    BY PlacesDiffer DEF DataInv, Typed
  <2>3. \A h \in Handles : Data(Here(h))' = IF p = Here(h) THEN d ELSE Data(Here(h))
    BY <1>8 DEF Data, Here
  <2>4. \A b \in DOMAIN heap : Data(Within(b))' = IF p = Within(b) THEN d ELSE Data(Within(b))
    BY <1>8, <2>2 DEF Data, Within
  <2>5. Data(p)' = d /\ \A q \in Places \ {p} : Data(q)' = Data(q)
    <3>1. \A q \in Places : Data(q)' = IF p = q THEN d ELSE Data(q)
      BY <2>3, <2>4 DEF Places
    <3> QED BY <3>1, <1>7
  <2>6. ~Busy(p)' /\ Busy(p)
    <3>1. \A u \in Threads : p \notin SetIn(todo'[u])
      BY <1>2, <1>3, <1>5
    <3>2. \A u \in Threads : p.block \notin DelIn(todo'[u])
      BY <1>2, <1>3, <1>6 DEF s
    <3>3. p \in SetIn(todo[t])
      BY <1>3 DEF s
    <3> QED BY <3>1, <3>2, <3>3 DEF Busy
  <2>7. \A q \in Places \ {p} : Busy(q)' <=> Busy(q)
    BY <1>2, <1>3 DEF Busy, s
  <2> QED BY <2>1, <2>5, <2>6, <2>7
<1>11. \A b : Kept(b)' = Kept(b) \cup (IF d.at = b THEN {p} ELSE {}) /\ p \notin Kept(b)
  <2> SUFFICES ASSUME NEW b PROVE Kept(b)' = Kept(b) \cup (IF d.at = b THEN {p} ELSE {}) /\ p \notin Kept(b)
    OBVIOUS
  <2>1. p \notin Kept(b)
    BY <1>10 DEF Kept
  <2>2. p \in Kept(b)' <=> d.at = b
    BY <1>7, <1>10 DEF Kept
  <2>3. \A q : q # p => (q \in Kept(b)' <=> q \in Kept(b))
    BY <1>10 DEF Kept
  <2> QED BY <2>1, <2>2, <2>3
<1>12. \A b : Ref(b)' = Ref(b)
  BY <1>8 DEF Ref, Live
<1>13. AllCounted'
  <2> SUFFICES ASSUME NEW b \in Blocks PROVE Counted(b)'
    BY DEF AllCounted
  <2>0. Counted(b)
    BY DEF DataInv, AllCounted
  <2>1. Cardinality(Kept(b)) \in Nat /\ IsFiniteSet(Kept(b)) /\ Cardinality(Tokens(b)) \in Nat
    BY <2>0, FS_CardinalityType DEF Counted
  <2>2. IsFiniteSet(Kept(b)') /\ Cardinality(Kept(b)') = Cardinality(Kept(b)) + (IF d.at = b THEN 1 ELSE 0)
    <3>1. CASE d.at = b
      <4>1. Kept(b)' = Kept(b) \cup {p} /\ p \notin Kept(b)
        BY <3>1, <1>11
      <4> QED BY <3>1, <4>1, <2>1, FS_AddElement
    <3>2. CASE d.at # b
      <4>1. Kept(b)' = Kept(b)
        BY <3>2, <1>11
      <4> QED BY <3>2, <4>1, <2>1
    <3> QED BY <3>1, <3>2
  <2>3. Carried(todo[t], b) \in Nat /\ Carried(r, b) \in Nat
        /\ Carried(todo[t], b) = Carried(r, b) + (IF d.at = b THEN 1 ELSE 0)
    BY <1>0, <1>3 DEF s
  <2>4. Ref(b)' = Ref(b) + (Cardinality(Kept(b)') - Cardinality(Kept(b))) + (Carried(r, b) - Carried(todo[t], b))
    BY <2>0, <2>1, <2>2, <2>3, <1>12 DEF Counted
  <2> QED BY <2>0, <2>2, <2>3, <2>4, <1>2, CountedAfter DEF DataInv
<1>14. Mine(t) \subseteq Mine(t)'
  <2> SUFFICES ASSUME NEW b \in Mine(t) PROVE b \in Mine(t)'
    OBVIOUS
  <2>1. PICK h \in Own(t) : handle[h].at = b /\ Here(h) \notin SetIn(s)
    BY DEF Mine, s
  <2>2. h \in Handles /\ p # Here(h) /\ Here(h) \notin SetIn(todo'[t])
    BY <2>1, <1>2, <1>3 DEF Own, Handles
  <2>3. handle'[h].at = b /\ h \in Own(t)'
    BY <2>1, <2>2, <1>8 DEF Own, Names
  <2> QED BY <2>2, <2>3 DEF Mine
<1>15. OwnOk(t)'
  <2>1. \A b \in DelIn(r) : b \in DOMAIN heap' /\ heap'[b].ref = 0
    BY <1>3, <1>8 DEF s, DataInv, DelOk, Live
  <2>2. \A b \in WrittenIn(r) : Sole(t, b) => Sole(t, b)' \/ (JustPut(r) /\ SoleReach(t, b)')
    <3> SUFFICES ASSUME NEW b \in WrittenIn(r), Sole(t, b) PROVE Sole(t, b)' \/ (JustPut(r) /\ SoleReach(t, b)')
      OBVIOUS
    <3>1. b \in Blocks /\ Ref(b)' = 1
      BY <1>12 DEF WrittenIn, Sole
    <3>2. ASSUME NEW a \in Blocks, d.at # a, Owns(t, a) PROVE Owns(t, a)'
      <4>1. Carried(todo'[t], a) = Carried(todo[t], a)
        <5>1. Carried(r, a) = Carried(s, a)
          BY <3>2, <1>0, <1>3
        <5> QED BY <5>1, <1>2 DEF s
      <4> QED BY <3>2, <4>1, <1>14 DEF Owns
    <3>3. CASE d.at # b
      BY <3>1, <3>2, <3>3 DEF Sole
    <3>4. CASE d.at = b /\ \E h \in Own(t) : p = Here(h)
      <4>1. PICK h \in Own(t) : p = Here(h)
        BY <3>4
      <4>2. handle'[h] = d /\ h \in Own(t)' /\ Here(h) \notin SetIn(todo'[t])
        BY <4>1, <1>2, <1>3, <1>8 DEF Own, Names, Handles
      <4>3. b \in Mine(t)'
        BY <3>1, <3>4, <4>2 DEF Mine
      <4> QED BY <3>1, <4>3 DEF Sole, Owns
    <3>5. CASE d.at = b /\ \E a \in Blocks : p = Within(a)
      <4>1. PICK a \in Blocks : p = Within(a)
        BY <3>5
      <4>2. p.block # NoBlock /\ p.block = a
        BY <4>1, PlacesDiffer
      <4>3. d.at # a /\ JustPut(r)
        BY <1>0, <1>1, <1>p, <3>5, <4>2 DEF Follows
      <4>4. Owns(t, a)' /\ Ref(a)' = 1
        BY <4>1, <4>3, <3>2, <1>4, <1>12 DEF Sole
      <4>5. Within(a) \in Kept(b)'
        BY <3>5, <4>1, <1>11
      <4> QED BY <3>1, <4>3, <4>4, <4>5 DEF SoleReach, Sole
    <3> QED BY <3>3, <3>4, <3>5, <1>1 DEF PlaceSet
  <2>3. \A b : ~IsNew(Head(todo[t]), b)
    BY <1>1 DEF IsNew, x, s
  <2> QED BY <2>1, <2>2, <2>3, <1>2, <1>8, <1>14, Strip DEF Live, r, s
<1>16. AllSound' /\ HeadOk' /\ NewOk' /\ DelOk' /\ WriteOk' /\ ZeroOk'
  <2>1. \A b \in Blocks : ~HeadIs(todo[t], "inc", b)
    BY <1>1 DEF HeadIs, x, s
  <2>2. Untouched(t, NoBlock) /\ NoBlock \notin DOMAIN heap'
    BY <1>8, UntouchedNone
  <2>3. \A b \in Blocks : (b \in DOMAIN heap' <=> Live(b)) /\ (Live(b) => heap'[b].ref = heap[b].ref)
    BY <1>8 DEF Live
  <2>4. DelIn(r) = DelIn(todo[t])
    BY <1>3 DEF s
  <2>5. DOMAIN heap' \subseteq Blocks
    BY <1>8 DEF DataInv, Typed
  <2>6. \A a, b \in Blocks : Within(a) \in Kept(b) => Within(a) \in Kept(b)'
    BY <1>11
  <2> QED BY <2>1, <2>2, <2>3, <2>4, <2>5, <2>6, <1>2, <1>8, <1>15, OthersKeep
<1> QED BY <1>9, <1>13, <1>16 DEF DataInv

\* A step put before a list.
Before(x, r) == <<x>> \o r

\* What a list sets, allocates, deletes, writes and carries with one step more.
LEMMA Prepend ==
  ASSUME NEW t, NEW x \in StepSet(t), NEW r \in Seq(StepSet(t))
  PROVE  /\ Before(x, r) \in Seq(StepSet(t)) /\ Before(x, r) # <<>> /\ Head(Before(x, r)) = x /\ Tail(Before(x, r)) = r
         /\ x.op = "set" => SetIn(Before(x, r)) = SetIn(r) \cup {x.place}
         /\ x.op # "set" => SetIn(Before(x, r)) = SetIn(r)
         /\ x.op = "new" => NewIn(Before(x, r)) = NewIn(r) \cup {x.block}
         /\ x.op # "new" => NewIn(Before(x, r)) = NewIn(r)
         /\ x.op = "delete" => DelIn(Before(x, r)) = DelIn(r) \cup {x.block}
         /\ x.op # "delete" => DelIn(Before(x, r)) = DelIn(r)
         /\ \A b \in Blocks : b \in WrittenIn(Before(x, r)) <=> b \in WrittenIn(r) \/ Writes(x, b)
         /\ \A b \in Blocks : b \in Open(Before(x, r)) <=> Writes(x, b) \/ (b \in Open(r) /\ ~IsNew(x, b))
         /\ \A b : Carried(Before(x, r), b) = Carried(r, b) + Weight(x, r, b)
<1> DEFINE s == Before(x, r)
<1>1. s \in Seq(StepSet(t)) /\ s # <<>> /\ Head(s) = x /\ Tail(s) = r
  BY Joined DEF Before
<1> HIDE DEF s
<1>2. SetIn(s) = SetIn(r) \cup (IF x.op = "set" THEN {x.place} ELSE {})
  BY <1>1, SetInSplit
<1>3. NewIn(s) = NewIn(r) \cup (IF x.op = "new" THEN {x.block} ELSE {})
  BY <1>1, NewInSplit
<1>4. DelIn(s) = DelIn(r) \cup (IF x.op = "delete" THEN {x.block} ELSE {})
  BY <1>1, DelInSplit
<1>5. WrittenIn(s) = WrittenIn(r) \cup {b \in Blocks : Writes(x, b)}
  BY <1>1, WrittenInSplit
<1>6. Open(s) = {b \in Blocks : Writes(x, b)} \cup {b \in Open(r) : ~IsNew(x, b)}
  BY <1>1, OpenSplit
<1>7. \A b : Carried(s, b) = Carried(r, b) + Weight(x, r, b)
  BY <1>1, CarriedSplit
<1>8. (x.op = "set" => SetIn(s) = SetIn(r) \cup {x.place}) /\ (x.op # "set" => SetIn(s) = SetIn(r))
  BY <1>2
<1>9. (x.op = "new" => NewIn(s) = NewIn(r) \cup {x.block}) /\ (x.op # "new" => NewIn(s) = NewIn(r))
  BY <1>3
<1>10. (x.op = "delete" => DelIn(s) = DelIn(r) \cup {x.block}) /\ (x.op # "delete" => DelIn(s) = DelIn(r))
  BY <1>4
<1>11. \A b \in Blocks : b \in WrittenIn(s) <=> b \in WrittenIn(r) \/ Writes(x, b)
  BY <1>5
<1>12. \A b \in Blocks : b \in Open(s) <=> Writes(x, b) \/ (b \in Open(r) /\ ~IsNew(x, b))
  BY <1>6
<1> QED BY <1>1, <1>7, <1>8, <1>9, <1>10, <1>11, <1>12 DEF s

\* It is sound if what follows the step may follow it.
LEMMA PrependSound ==
  ASSUME NEW t, NEW x \in StepSet(t), NEW r \in Seq(StepSet(t)), NEW K
  PROVE  Sound(K, Before(x, r)) <=>
           (\A b \in Blocks : Carried(Before(x, r), b) >= 0) /\ Follows(K, x, r) /\ Sound(K, r)
<1> DEFINE s == Before(x, r)
<1>1. s \in Seq(StepSet(t)) /\ s # <<>> /\ Head(s) = x /\ Tail(s) = r
  BY Joined DEF Before
<1> HIDE DEF s
<1>8. Sound(K, s) <=> (\A b \in Blocks : Carried(s, b) >= 0) /\ Follows(K, x, r) /\ Sound(K, r)
  <2>1. Sound(K, s) <=> Fine(K, s) /\ Sound(K, r)
    BY <1>1, SoundSplit
  <2> QED BY <2>1, <1>1 DEF Fine
<1> QED BY <1>8 DEF s

\* A block is allocated.
LEMMA RunNew ==
  ASSUME DataAssumption, DataInv, NEW t \in Threads, todo[t] # <<>>, NEW c, HeadIs(todo[t], "new", c),
         Allocate(c, Head(todo[t]).data), todo' = [todo EXCEPT ![t] = Tail(@)],
         UNCHANGED <<counted, handle, value>>
  PROVE  DataInv'
<1> DEFINE s == todo[t]
           x == Head(s)
           r == Tail(s)
<1>0. /\ t \in Nat /\ s \in Seq(StepSet(t)) /\ r \in Seq(StepSet(t)) /\ x \in StepSet(t)
      /\ \A b \in Blocks : Carried(s, b) \in Nat /\ Carried(r, b) \in Nat
      /\ \A b : Carried(s, b) = Carried(r, b) + Weight(x, r, b)
      /\ Follows(Mine(t), x, r) /\ Sound(Mine(t), r)
  BY HeadFacts
<1>p. PICK k, e : k = x.data /\ e = k.inner.at
  OBVIOUS
<1>1. x.op = "new" /\ x.block = c /\ s # <<>> /\ c \in Blocks /\ c[1] = t /\ k \in BlockSet /\ k.ref \in {0, 1}
  <2>1. x.op = "new" /\ x.block = c /\ s # <<>>
    BY DEF HeadIs
  <2>2. c \in {t} \X (Nat \ {0}) /\ k \in BlockSet /\ k.ref \in {0, 1}
    BY <2>1, <1>0, <1>p, StepShape
  <2> QED BY <2>1, <2>2, <1>0 DEF Blocks
<1>2. todo' = [todo EXCEPT ![t] = r] /\ todo'[t] = r /\ \A u \in Threads \ {t} : todo'[u] = todo[u]
  BY DEF DataInv, Typed
<1>2a. heap' = [b \in DOMAIN heap \cup {c} |-> IF b = c THEN k ELSE heap[b]]
  BY <1>p DEF Allocate
<1> HIDE DEF s, x, r
<1>p2. PICK free : free = (Within(c) \notin SetIn(r)) /\ free \in BOOLEAN
  OBVIOUS
<1>3. /\ SetIn(r) = SetIn(s) /\ DelIn(r) = DelIn(s) /\ c \in NewIn(s) /\ e # c
      /\ \A b \in Blocks : Carried(s, b) = Carried(r, b) + (IF e = b /\ free THEN 1 ELSE 0)
                                                          - (IF b = c /\ k.ref = 1 THEN 1 ELSE 0)
  <2>1. SetIn(r) = SetIn(s) /\ DelIn(r) = DelIn(s) /\ c \in NewIn(s)
    <3>1. SetIn(s) = SetIn(r) \cup (IF x.op = "set" THEN {x.place} ELSE {})
      BY <1>0, <1>1, SetInSplit DEF r, x
    <3>2. DelIn(s) = DelIn(r) \cup (IF x.op = "delete" THEN {x.block} ELSE {})
      BY <1>0, <1>1, DelInSplit DEF r, x
    <3>3. NewIn(s) = NewIn(r) \cup (IF x.op = "new" THEN {x.block} ELSE {})
      BY <1>0, <1>1, NewInSplit DEF r, x
    <3> QED BY <3>1, <3>2, <3>3, <1>0, <1>1
  <2>2. e # c
    BY <1>0, <1>1, <1>p DEF Follows
  <2>3. \A b : (Spends(x, r, b) <=> e = b /\ free) /\ (Gains(x, b) <=> b = c /\ k.ref = 1)
    BY <1>1, <1>p, <1>p2 DEF Spends, Gains, IsNew
  <2>4. \A b \in Blocks : Carried(s, b) = Carried(r, b) + (IF e = b /\ free THEN 1 ELSE 0)
                                                       - (IF b = c /\ k.ref = 1 THEN 1 ELSE 0)
    <3> SUFFICES ASSUME NEW b \in Blocks
                 PROVE  Carried(s, b) = Carried(r, b) + (IF e = b /\ free THEN 1 ELSE 0)
                                                      - (IF b = c /\ k.ref = 1 THEN 1 ELSE 0)
      OBVIOUS
    <3>1. Carried(s, b) = Carried(r, b) + Weight(x, r, b) /\ Carried(r, b) \in Nat
      BY <1>0
    <3>2. Weight(x, r, b) = (IF e = b /\ free THEN 1 ELSE 0) - (IF b = c /\ k.ref = 1 THEN 1 ELSE 0)
      BY <2>3 DEF Weight
    <3> QED BY <3>1, <3>2
  <2> QED BY <2>1, <2>2, <2>4
<1>4. ~Live(c) /\ Ref(c) = 0 /\ Kept(c) = {} /\ \A u \in Threads : ~Owns(u, c) /\ c \notin DelIn(todo[u])
  <2>1. ~Live(c)
    BY <1>3 DEF DataInv, NewOk, s
  <2>2. Ref(c) = 0
    BY <2>1 DEF Ref
  <2>3. \A u \in Threads : c \notin DelIn(todo[u])
    BY <2>1 DEF DataInv, DelOk
  <2> QED BY <2>1, <2>2, <2>3, <1>1, ZeroAlone DEF DataInv
<1>5. Carried(s, c) = 0
  <2>1. Carried(todo[t], c) <= 0
    BY <1>1, <1>4, ZeroAlone DEF DataInv
  <2> QED BY <2>1, <1>0, <1>1 DEF s
<1>6. Untouched(t, c)
  BY <1>4 DEF Untouched, Sole, SoleReach, Raw
<1>7. /\ DOMAIN heap' = DOMAIN heap \cup {c} /\ heap'[c] = k
      /\ \A b \in DOMAIN heap : b # c /\ heap'[b] = heap[b]
      /\ heap' \in [DOMAIN heap' -> BlockSet]
  <2>1. \A b \in DOMAIN heap : b # c
    BY <1>4 DEF Live
  <2> QED BY <2>1, <1>1, <1>2a DEF DataInv, Typed
<1>8. Typed'
  <2>1. DOMAIN heap' \subseteq Blocks
    BY <1>1, <1>7 DEF DataInv, Typed
  <2>2. handle' \in [Handles -> DataSet] /\ value' \in [Handles -> Words \X Nat] /\ counted' = counted /\ Typed
    BY DEF DataInv, Typed
  <2> QED BY <2>1, <2>2, <1>0, <1>2, <1>7, TypedAfter
<1>9. \A b : /\ Kept(b)' = Kept(b) \cup (IF e = b /\ free THEN {Within(c)} ELSE {})
             /\ Within(c) \notin Kept(b)
  <2>1. Places' = Places \cup {Within(c)}
    BY <1>7 DEF Places, Handles, Names
  <2>2. Within(c) \notin Places
    <3>1. \A h : Within(c) # Here(h)
      BY <1>1, PlacesDiffer
    <3>2. \A b \in DOMAIN heap : Within(c) # Within(b)
      BY <1>7, PlacesDiffer
    <3> QED BY <3>1, <3>2 DEF Places
  <2>3. \A q : Busy(q)' <=> Busy(q)
    BY <1>2, <1>3 DEF Busy, s
  <2>4. Busy(Within(c)) <=> ~free
    <3>1. \A u \in Threads \ {t} : Within(c) \notin SetIn(todo[u])
      <4> SUFFICES ASSUME NEW u \in Threads \ {t}, Within(c) \in SetIn(todo[u]) PROVE FALSE
        OBVIOUS
      <4>1. Sole(u, c) \/ c[1] = u
        BY <1>1, SetterAlone
      <4> QED BY <4>1, <1>1, <1>4 DEF Sole
    <3>2. Within(c) \in SetIn(todo[t]) <=> ~free
      BY <1>3, <1>p2 DEF s
    <3>3. \A u \in Threads : Within(c).block \notin DelIn(todo[u])
      BY <1>4, PlacesDiffer
    <3> QED BY <3>1, <3>2, <3>3 DEF Busy
  <2>5. \A q \in Places : Data(q)' = Data(q)
    <3>1. \A h \in Handles : Data(Here(h))' = Data(Here(h))
      BY DEF Data, Here
    <3>2. \A b \in DOMAIN heap : Data(Within(b))' = Data(Within(b))
      <4>1. NoBlock \notin DOMAIN heap
        BY PlacesDiffer DEF DataInv, Typed
      <4> QED BY <4>1, <1>7 DEF Data, Within
    <3> QED BY <3>1, <3>2 DEF Places
  <2>6. Data(Within(c))' = k.inner
    <3>1. c # NoBlock
      BY <1>1, PlacesDiffer
    <3> QED BY <3>1, <1>7 DEF Data, Within
  <2> SUFFICES ASSUME NEW b
               PROVE  /\ Kept(b)' = Kept(b) \cup (IF e = b /\ free THEN {Within(c)} ELSE {})
                      /\ Within(c) \notin Kept(b)
    OBVIOUS
  <2>7. Within(c) \notin Kept(b)
    BY <2>2 DEF Kept
  <2>8. Within(c) \in Kept(b)' <=> e = b /\ free
    BY <2>1, <2>3, <2>4, <2>6, <1>p DEF Kept
  <2>9. \A q : q # Within(c) => (q \in Kept(b)' <=> q \in Kept(b))
    BY <2>1, <2>3, <2>5 DEF Kept
  <2> QED BY <2>7, <2>8, <2>9
<1>10. \A b : Ref(b)' = Ref(b) + (IF b = c THEN k.ref ELSE 0) \/ (b # c /\ Ref(b)' = Ref(b))
  BY <1>4, <1>7, <1>1 DEF Ref, Live
<1>11. AllCounted'
  <2> SUFFICES ASSUME NEW b \in Blocks PROVE Counted(b)'
    BY DEF AllCounted
  <2>0. Counted(b)
    BY DEF DataInv, AllCounted
  <2>1. Cardinality(Kept(b)) \in Nat /\ IsFiniteSet(Kept(b)) /\ Cardinality(Tokens(b)) \in Nat /\ Ref(b) \in Nat
    BY <2>0, FS_CardinalityType DEF Counted
  <2>2. IsFiniteSet(Kept(b)') /\ Cardinality(Kept(b)') = Cardinality(Kept(b)) + (IF e = b /\ free THEN 1 ELSE 0)
    <3>1. CASE e = b /\ free
      <4>1. Kept(b)' = Kept(b) \cup {Within(c)} /\ Within(c) \notin Kept(b)
        BY <3>1, <1>9
      <4> QED BY <3>1, <4>1, <2>1, FS_AddElement
    <3>2. CASE ~(e = b /\ free)
      <4>1. Kept(b)' = Kept(b)
        BY <3>2, <1>9
      <4> QED BY <3>2, <4>1, <2>1
    <3> QED BY <3>1, <3>2
  <2>3. Carried(todo[t], b) \in Nat /\ Carried(r, b) \in Nat
        /\ Carried(todo[t], b) = Carried(r, b) + (IF e = b /\ free THEN 1 ELSE 0) - (IF b = c THEN k.ref ELSE 0)
    BY <1>0, <1>1, <1>3 DEF s
  <2>3a. Ref(b)' = Ref(b) + (IF b = c THEN k.ref ELSE 0)
    BY <1>1, <1>10, <2>1
  <2>4. Ref(b)' = Ref(b) + (Cardinality(Kept(b)') - Cardinality(Kept(b))) + (Carried(r, b) - Carried(todo[t], b))
    <3>1. k.ref \in Nat
      BY <1>1
    <3>2. Counted(b) /\ Ref(b)' \in Nat /\ Cardinality(Kept(b)') \in Nat
      BY <2>0, <2>1, <2>2, <2>3a, <3>1, FS_CardinalityType
    <3>3. PICK m, n : m = (IF e = b /\ free THEN 1 ELSE 0) /\ n = (IF b = c THEN k.ref ELSE 0)
      OBVIOUS
    <3>4. m \in Nat /\ n \in Nat
      BY <3>1, <3>3
    <3>5. /\ Ref(b)' = Ref(b) + n /\ Cardinality(Kept(b)') = Cardinality(Kept(b)) + m
          /\ Carried(todo[t], b) = Carried(r, b) + m - n
      BY <2>2, <2>3, <2>3a, <3>3
    <3>6. PICK y, z, v, w : y = Ref(b) /\ z = Cardinality(Kept(b)) /\ v = Carried(r, b) /\ w = Cardinality(Kept(b)')
      OBVIOUS
    <3>7. y \in Nat /\ z \in Nat /\ v \in Nat /\ w = z + m
      BY <2>1, <2>3, <3>5, <3>6
    <3>8. y + n = y + (w - z) + (v - (v + m - n))
      BY <3>4, <3>7
    <3> QED BY <3>5, <3>6, <3>8
  <2> QED BY <2>0, <2>2, <2>3, <2>4, <1>2, CountedAfter DEF DataInv
<1>12. Mine(t) \subseteq Mine(t)'
  BY <1>2, <1>3 DEF Mine, Own, Names, s
<1>13. k.ref = 0 => c \notin WrittenIn(r) /\ HeadIs(r, "inc", c) /\ Raw(t, c)'
  <2> SUFFICES ASSUME k.ref = 0 PROVE c \notin WrittenIn(r) /\ HeadIs(r, "inc", c) /\ Raw(t, c)'
    OBVIOUS
  <2>1. HeadIs(r, "inc", c)
    BY <1>0, <1>1, <1>p DEF Follows, HeadIs
  <2>2. r # <<>> /\ Head(r).op = "inc" /\ Head(r).block = c
    BY <2>1 DEF HeadIs
  <2>3. Follows(Mine(t), Head(r), Tail(r))
    BY <1>0, <2>2, SoundSplit DEF Fine
  <2>4. c \notin WrittenIn(Tail(r))
    BY <2>2, <2>3 DEF Follows
  <2>5. c \notin WrittenIn(r)
    BY <1>0, <2>2, <2>4, WrittenInSplit DEF Writes
  <2>6. Raw(t, c)'
    BY <1>1, <1>2, <1>3, <1>4, <1>7 DEF Raw, Live, s
  <2> QED BY <2>1, <2>5, <2>6
<1>14. OwnOk(t)'
  <2>1. \A b \in DelIn(r) : b \in DOMAIN heap' /\ heap'[b].ref = 0
    BY <1>3, <1>7 DEF s, DataInv, DelOk, Live
  <2>2. \A b \in WrittenIn(r) : Sole(t, b) \/ IsNew(x, b) => Sole(t, b)'
    <3> SUFFICES ASSUME NEW b \in WrittenIn(r), Sole(t, b) \/ IsNew(x, b) PROVE Sole(t, b)'
      OBVIOUS
    <3>0. b \in Blocks /\ Carried(r, b) \in Nat /\ Carried(s, b) \in Nat
      BY <1>0 DEF WrittenIn
    <3>1. CASE IsNew(x, b)
      <4>1. b = c /\ k.ref = 1
        BY <3>1, <1>1, <1>13 DEF IsNew
      <4>2. Carried(r, b) = 1
        BY <4>1, <3>0, <1>3, <1>5
      <4>3. Ref(b)' = 1
        BY <4>1, <1>7 DEF Ref, Live
      <4>4. Carried(todo'[t], b) = 1
        BY <4>2, <1>2
      <4> QED BY <4>3, <4>4 DEF Sole, Owns
    <3>2. CASE Sole(t, b)
      <4>1. b # c
        BY <3>2, <1>4 DEF Sole
      <4>2. e # b
        BY <1>0, <1>1, <1>p DEF Follows
      <4>3. Carried(todo'[t], b) = Carried(todo[t], b)
        <5>1. Carried(r, b) = Carried(s, b)
          BY <3>0, <4>1, <4>2, <1>3
        <5> QED BY <5>1, <1>2 DEF s
      <4>4. Ref(b)' = Ref(b)
        BY <4>1, <1>7 DEF Ref, Live
      <4> QED BY <3>2, <4>3, <4>4, <1>12 DEF Sole, Owns
    <3> QED BY <3>1, <3>2
  <2>3. \A b \in Blocks : IsNew(Head(todo[t]), b) /\ Head(todo[t]).data.ref = 0 => Raw(t, b)'
    BY <1>1, <1>13, <1>p DEF IsNew, x, s
  <2>4. \A b \in DOMAIN heap' : Live(b) \/ IsNew(Head(todo[t]), b)
    BY <1>1, <1>7 DEF IsNew, x, s, Live
  <2> QED BY <2>1, <2>2, <2>3, <2>4, <1>2, <1>12, Strip DEF x, r, s
<1>15. AllSound' /\ HeadOk' /\ NewOk' /\ DelOk' /\ WriteOk' /\ ZeroOk'
  <2>1. \A b \in Blocks : ~HeadIs(todo[t], "inc", b)
    BY <1>1 DEF HeadIs, x, s
  <2>3. \A b \in Blocks \ {c} : (b \in DOMAIN heap' <=> Live(b)) /\ (Live(b) => heap'[b].ref = heap[b].ref)
    BY <1>7 DEF Live
  <2>4. DelIn(r) = DelIn(todo[t]) /\ c \notin DelIn(r)
    BY <1>3, <1>4 DEF s
  <2>5. DOMAIN heap' \subseteq Blocks
    BY <1>1, <1>7 DEF DataInv, Typed
  <2>6. \A a, b \in Blocks : Within(a) \in Kept(b) => Within(a) \in Kept(b)'
    BY <1>9
  <2>7. heap'[c].ref = 0 => Raw(t, c)' /\ HeadIs(r, "inc", c)
    BY <1>7, <1>13
  <2>8. /\ c \in DOMAIN heap' => Live(c) \/ c[1] = t
        /\ DelIn(r) \subseteq DelIn(todo[t]) \cup {c} /\ DelIn(todo[t]) \ {c} \subseteq DelIn(r)
        /\ \A u \in Threads \ {t} : \A h \in Own(u) : handle'[h] = handle[h]
        /\ counted' = counted
    BY <2>4, <1>1
  <2>9. c \in DOMAIN heap' /\ heap'[c].ref = 0 => c \in DelIn(r) \/ (Raw(t, c)' /\ HeadIs(r, "inc", c))
    BY <2>7
  <2> QED BY <2>1, <2>3, <2>5, <2>6, <2>8, <2>9, <1>2, <1>6, <1>14, OthersKeep
<1> QED BY <1>8, <1>11, <1>15 DEF DataInv

\* 1 if two blocks are the same.
One(a, b) == IF a = b THEN 1 ELSE 0

\* A step that only counts, put before a list.
LEMMA PrependQuiet ==
  ASSUME NEW t, NEW x \in StepSet(t), NEW r \in Seq(StepSet(t)), x.op \in {"inc", "dec", "delete"}
  PROVE  /\ Before(x, r) \in Seq(StepSet(t)) /\ Before(x, r) # <<>> /\ Head(Before(x, r)) = x /\ Tail(Before(x, r)) = r
         /\ SetIn(Before(x, r)) = SetIn(r) /\ NewIn(Before(x, r)) = NewIn(r)
         /\ x.op = "delete" => DelIn(Before(x, r)) = DelIn(r) \cup {x.block}
         /\ x.op # "delete" => DelIn(Before(x, r)) = DelIn(r)
         /\ WrittenIn(Before(x, r)) = WrittenIn(r) /\ Open(Before(x, r)) = Open(r)
         /\ \A b : Carried(Before(x, r), b) = Carried(r, b) + Weight(x, r, b)
<1> DEFINE D == Before(x, r)
<1>1. \A b : ~Writes(x, b) /\ ~IsNew(x, b)
  BY DEF Writes, IsNew
<1>2. x.op # "set" /\ x.op # "new"
  OBVIOUS
<1>3. D \in Seq(StepSet(t)) /\ D # <<>> /\ Head(D) = x /\ Tail(D) = r
  BY Prepend
<1>3a. (x.op = "set" => SetIn(D) = SetIn(r) \cup {x.place}) /\ (x.op # "set" => SetIn(D) = SetIn(r))
  BY Prepend
<1>3d. (x.op = "new" => NewIn(D) = NewIn(r) \cup {x.block}) /\ (x.op # "new" => NewIn(D) = NewIn(r))
  BY Prepend
<1>3b. (x.op = "delete" => DelIn(D) = DelIn(r) \cup {x.block}) /\ (x.op # "delete" => DelIn(D) = DelIn(r))
  BY Prepend
<1>3c. \A b : Carried(D, b) = Carried(r, b) + Weight(x, r, b)
  BY Prepend
<1>4. /\ \A b \in Blocks : b \in WrittenIn(D) <=> b \in WrittenIn(r)
      /\ \A b \in Blocks : b \in Open(D) <=> b \in Open(r)
  BY <1>1, Prepend
<1> HIDE DEF D
<1>5. WrittenIn(D) = WrittenIn(r) /\ Open(D) = Open(r)
  BY <1>4 DEF WrittenIn, Open
<1> QED BY <1>3, <1>2, <1>3a, <1>3b, <1>3c, <1>3d, <1>5 DEF D

\* The thread that takes the last reference has the steps that destroy the block before it.
Destroyed(c, d, r) == (Release(d) \o Delete(c)) \o r

\* The steps that destroy a block are sound, and carry what is in it.
LEMMA Destroying ==
  ASSUME NEW t \in Nat, NEW K, NEW r \in Seq(StepSet(t)), NEW c \in Blocks, NEW d \in DataSet, NEW L,
         L = Destroyed(c, d, r),
         Sound(K, r), \A b \in Blocks : Carried(r, b) \in Nat,
         \A b \in Blocks : HeadIs(r, "inc", b) => Carried(r, b) >= 1 \/ b \in K,
         c \notin WrittenIn(r), c \notin DelIn(r), d.at \notin WrittenIn(r)
  PROVE  /\ L \in Seq(StepSet(t)) /\ L # <<>> /\ Head(L).op \in {"dec", "delete"}
         /\ SetIn(L) = SetIn(r) /\ NewIn(L) = NewIn(r) /\ DelIn(L) = DelIn(r) \cup {c}
         /\ Open(L) = Open(r)
         /\ \A b \in Blocks : Carried(L, b) = Carried(r, b) + One(d.at, b)
         /\ Sound(K, L)
<1> DEFINE z == [op |-> "delete", block |-> c]
           D == Before(z, r)
<1>1. z \in StepSet(t) /\ z.op = "delete" /\ z.block = c
  BY DEF StepSet
<1> HIDE DEF z
<1>2. /\ D \in Seq(StepSet(t)) /\ D # <<>> /\ Head(D) = z /\ Tail(D) = r
      /\ SetIn(D) = SetIn(r) /\ NewIn(D) = NewIn(r) /\ DelIn(D) = DelIn(r) \cup {c}
      /\ WrittenIn(D) = WrittenIn(r) /\ Open(D) = Open(r)
      /\ \A b : Carried(D, b) = Carried(r, b) + Weight(z, r, b)
      /\ Sound(K, D) <=> (\A b \in Blocks : Carried(D, b) >= 0) /\ Follows(K, z, r) /\ Sound(K, r)
  <2>1. Sound(K, D) <=> (\A b \in Blocks : Carried(D, b) >= 0) /\ Follows(K, z, r) /\ Sound(K, r)
    BY <1>1, PrependSound
  <2>2. /\ D \in Seq(StepSet(t)) /\ D # <<>> /\ Head(D) = z /\ Tail(D) = r
        /\ SetIn(D) = SetIn(r) /\ NewIn(D) = NewIn(r) /\ DelIn(D) = DelIn(r) \cup {c}
        /\ WrittenIn(D) = WrittenIn(r) /\ Open(D) = Open(r)
        /\ \A b : Carried(D, b) = Carried(r, b) + Weight(z, r, b)
    BY <1>1, PrependQuiet
  <2> QED BY <2>1, <2>2
<1>3. \A b \in Blocks : Carried(D, b) = Carried(r, b)
  <2>1. \A b : Weight(z, r, b) = 0
    BY <1>1 DEF Weight, Spends, Gains, IsNew
  <2> QED BY <1>2, <2>1
<1>4. Follows(K, z, r)
  <2>1. r # <<>> /\ Head(r).op = "inc" => Carried(r, Head(r).block) >= 1 \/ Head(r).block \in K
    <3> SUFFICES ASSUME r # <<>>, Head(r).op = "inc" PROVE Carried(r, Head(r).block) >= 1 \/ Head(r).block \in K
      OBVIOUS
    <3>1. Head(r) \in StepSet(t)
      BY Split
    <3>2. Head(r).block \in Blocks
      BY <3>1, StepShape
    <3> QED BY <3>2 DEF HeadIs
  <2> QED BY <2>1, <1>1 DEF Follows
<1>5. Sound(K, D)
  BY <1>2, <1>3, <1>4
<1>6. Delete(c) = <<z>> /\ <<z>> \in Seq(StepSet(t))
  BY <1>1 DEF Delete, z
<1>7. CASE ~Shares(d)
  <2>1. L = D /\ d.at = NoBlock
    <3>1. Release(d) = <<>>
      BY <1>7 DEF Release
    <3>2. <<>> \o <<z>> = <<z>>
      BY <1>6, ConcatEmptySeq
    <3> QED BY <3>1, <3>2, <1>6, <1>7 DEF Shares, Before, Destroyed
  <2>2. \A b \in Blocks : One(d.at, b) = 0
    BY <2>1, PlacesDiffer DEF One
  <2> QED BY <2>1, <2>2, <1>1, <1>2, <1>3, <1>5
<1>8. CASE Shares(d)
  <2> DEFINE e == d.at
             y == [op |-> "dec", block |-> e]
  <2>1. e \in Blocks /\ y \in StepSet(t) /\ y.op = "dec" /\ y.block = e /\ Release(d) = <<y>>
    BY <1>8, DataShape DEF StepSet, Release
  <2> HIDE DEF e, y
  <2>2. L = Before(y, D)
    BY <2>1, <1>6, ConcatAssociative DEF Before, Destroyed
  <2> HIDE DEF D
  <2>3. /\ Before(y, D) \in Seq(StepSet(t)) /\ Before(y, D) # <<>> /\ Head(Before(y, D)) = y
        /\ SetIn(Before(y, D)) = SetIn(D) /\ NewIn(Before(y, D)) = NewIn(D) /\ DelIn(Before(y, D)) = DelIn(D)
        /\ Open(Before(y, D)) = Open(D)
        /\ \A b : Carried(Before(y, D), b) = Carried(D, b) + Weight(y, D, b)
        /\ Sound(K, Before(y, D)) <=>
             (\A b \in Blocks : Carried(Before(y, D), b) >= 0) /\ Follows(K, y, D) /\ Sound(K, D)
    <3>1. D \in Seq(StepSet(t))
      BY <1>2
    <3>2. y \in StepSet(t) /\ y.op \in {"inc", "dec", "delete"} /\ y.op # "delete"
      BY <2>1
    <3>3. /\ Before(y, D) \in Seq(StepSet(t)) /\ Before(y, D) # <<>> /\ Head(Before(y, D)) = y
          /\ SetIn(Before(y, D)) = SetIn(D) /\ NewIn(Before(y, D)) = NewIn(D)
          /\ Open(Before(y, D)) = Open(D)
      BY <3>1, <3>2, PrependQuiet
    <3>4. DelIn(Before(y, D)) = DelIn(D)
      BY <3>1, <3>2, PrependQuiet
    <3>5. \A b : Carried(Before(y, D), b) = Carried(D, b) + Weight(y, D, b)
      BY <3>1, <3>2, PrependQuiet
    <3>6. Sound(K, Before(y, D)) <=>
             (\A b \in Blocks : Carried(Before(y, D), b) >= 0) /\ Follows(K, y, D) /\ Sound(K, D)
      BY <3>1, <3>2, PrependSound
    <3> QED BY <3>3, <3>4, <3>5, <3>6
  <2>4. \A b \in Blocks : Carried(L, b) = Carried(r, b) + One(e, b) /\ Carried(L, b) >= 0
    <3> SUFFICES ASSUME NEW b \in Blocks PROVE Carried(L, b) = Carried(r, b) + One(e, b) /\ Carried(L, b) >= 0
      OBVIOUS
    <3>1. Weight(y, D, b) = One(e, b) /\ One(e, b) \in Nat
      BY <2>1 DEF Weight, Spends, Gains, IsNew, One
    <3>2. Carried(L, b) = Carried(r, b) + One(e, b)
      BY <2>2, <2>3, <3>1, <1>3
    <3> QED BY <3>1, <3>2
  <2>5. Follows(K, y, D)
    <3>1. e \notin WrittenIn(D)
      BY <1>2 DEF e
    <3> QED BY <3>1, <2>1, <1>1, <1>2 DEF Follows
  <2> QED BY <2>1, <2>2, <2>3, <2>4, <2>5, <1>2, <1>5 DEF e
<1> QED BY <1>7, <1>8

\* Nobody is about to set what is in a block that is referred to by somebody else, or deletes it.
LEMMA NotBusy ==
  ASSUME DataAssumption, DataInv, NEW t \in Threads, NEW c \in Blocks, Within(c) \notin SetIn(todo[t]),
         Owns(t, c) \/ \E a \in Blocks : Within(a) \in Kept(c)
  PROVE  ~Busy(Within(c)) /\ Live(c) /\ Within(c) \in Places /\ heap[c].inner \in DataSet
         /\ Within(c) \in Kept(heap[c].inner.at)
<1>1. Live(c) /\ heap[c].ref >= 1 /\ heap[c].ref \in Nat
  BY OwnsLive, KeptLive DEF DataInv
<1>2. \A u \in Threads : c \notin DelIn(todo[u])
  <2>1. heap[c].ref # 0
    BY <1>1
  <2> QED BY <2>1 DEF DataInv, DelOk
<1>3. ASSUME NEW u \in Threads, Within(c) \in SetIn(todo[u]) PROVE FALSE
  <2>1. Sole(u, c)
    BY <1>1, <1>3, SetterAlone
  <2>2. u # t
    BY <1>3
  <2> QED BY <2>1, <2>2, SoleAlone DEF DataInv
<1>4. ~Busy(Within(c))
  BY <1>2, <1>3, PlacesDiffer DEF Busy
<1>5. Within(c) \in Places
  BY <1>1 DEF Places, Live
<1>6. heap[c].inner \in DataSet
  <2>1. heap[c] \in BlockSet
    BY <1>1 DEF DataInv, Typed, Live
  <2> QED BY <2>1 DEF BlockSet
<1>7. Data(Within(c)) = heap[c].inner
  BY PlacesDiffer DEF Data
<1> QED BY <1>1, <1>4, <1>5, <1>6, <1>7 DEF Kept

\* Atomic::decrement of the last reference.
LEMMA RunDestroy ==
  ASSUME DataAssumption, DataInv, NEW t \in Threads, todo[t] # <<>>, NEW c, HeadIs(todo[t], "dec", c), heap[c].ref = 1,
         heap' = [heap EXCEPT ![c].ref = @ - 1],
         todo' = [todo EXCEPT ![t] = Destroyed(c, heap[c].inner, Tail(@))],
         UNCHANGED <<counted, handle, value>>
  PROVE  DataInv'
<1> DEFINE s == todo[t]
           x == Head(s)
           r == Tail(s)
<1>0. /\ t \in Nat /\ s \in Seq(StepSet(t)) /\ r \in Seq(StepSet(t)) /\ x \in StepSet(t)
      /\ \A b \in Blocks : Carried(s, b) \in Nat /\ Carried(r, b) \in Nat
      /\ \A b : Carried(s, b) = Carried(r, b) + Weight(x, r, b)
      /\ Follows(Mine(t), x, r) /\ Sound(Mine(t), r)
  BY HeadFacts
<1>1. x.op = "dec" /\ x.block = c /\ s # <<>> /\ c \in Blocks
  BY <1>0, StepShape DEF HeadIs
<1>p. PICK d, e, L : d = heap[c].inner /\ e = d.at /\ L = Destroyed(c, d, r)
  OBVIOUS
<1>2. todo' = [todo EXCEPT ![t] = L] /\ todo'[t] = L /\ \A u \in Threads \ {t} : todo'[u] = todo[u]
  BY <1>p DEF DataInv, Typed
<1> HIDE DEF s, x, r
<1>3. /\ SetIn(r) = SetIn(s) /\ DelIn(r) = DelIn(s) /\ NewIn(r) = NewIn(s) /\ Open(r) = Open(s)
      /\ \A b \in Blocks : Carried(s, b) = Carried(r, b) + One(c, b)
  <2>1. SetIn(r) = SetIn(s) /\ DelIn(r) = DelIn(s) /\ NewIn(r) = NewIn(s)
    <3>1. SetIn(s) = SetIn(r) \cup (IF x.op = "set" THEN {x.place} ELSE {})
      BY <1>0, <1>1, SetInSplit DEF r, x
    <3>2. DelIn(s) = DelIn(r) \cup (IF x.op = "delete" THEN {x.block} ELSE {})
      BY <1>0, <1>1, DelInSplit DEF r, x
    <3>3. NewIn(s) = NewIn(r) \cup (IF x.op = "new" THEN {x.block} ELSE {})
      BY <1>0, <1>1, NewInSplit DEF r, x
    <3> QED BY <3>1, <3>2, <3>3, <1>0, <1>1
  <2>2. Open(r) = Open(s)
    <3>1. \A b : ~Writes(x, b) /\ ~IsNew(x, b)
      BY <1>1 DEF Writes, IsNew
    <3>2. Open(s) = {b \in Blocks : Writes(x, b)} \cup {b \in Open(r) : ~IsNew(x, b)}
      BY <1>0, <1>1, OpenSplit DEF r, x
    <3> QED BY <3>1, <3>2
  <2>3. \A b \in Blocks : Carried(s, b) = Carried(r, b) + One(c, b)
    <3> SUFFICES ASSUME NEW b \in Blocks PROVE Carried(s, b) = Carried(r, b) + One(c, b)
      OBVIOUS
    <3>1. Weight(x, r, b) = One(c, b)
      BY <1>1 DEF Weight, Spends, Gains, IsNew, One
    <3> QED BY <3>1, <1>0
  <2> QED BY <2>1, <2>2, <2>3
<1>4. Owns(t, c) /\ Carried(s, c) >= 1
  <2>1. Carried(s, c) = Carried(r, c) + 1 /\ Carried(r, c) \in Nat
    BY <1>0, <1>1, <1>3 DEF One
  <2> QED BY <2>1 DEF Owns, s
<1>5. Live(c) /\ heap[c].ref = 1 /\ Ref(c) = 1 /\ Untouched(t, c) /\ Sole(t, c)
  <2>1. Live(c) /\ Ref(c) = heap[c].ref /\ Untouched(t, c)
    BY <1>4, <1>1, UntouchedOwned
  <2> QED BY <2>1, <1>4 DEF Sole
<1>6. c \notin WrittenIn(r) /\ \A u \in Threads : c \notin DelIn(todo[u])
  <2>1. c \notin WrittenIn(r)
    BY <1>0, <1>1 DEF Follows
  <2>2. \A u \in Threads : c \notin DelIn(todo[u])
    BY <1>5 DEF DataInv, DelOk
  <2> QED BY <2>1, <2>2
<1>7. d \in DataSet /\ ~Busy(Within(c)) /\ Within(c) \in Places /\ Within(c) \in Kept(e)
  <2>1. Within(c) \notin SetIn(r)
    BY <1>0, <1>1, <1>6, WrittenOpen
  <2> QED BY <2>1, <1>p, <1>1, <1>3, <1>4, NotBusy DEF s
<1>8. e \notin WrittenIn(r)
  <2> SUFFICES ASSUME e \in WrittenIn(r) PROVE FALSE
    OBVIOUS
  <2>1. e \in Blocks
    BY DEF WrittenIn
  <2>2. Live(e)
    BY <2>1, <1>7, KeptLive DEF DataInv
  <2>3. e \in Open(s) \/ e \in NewIn(s)
    BY <2>1, <1>0, <1>3, WrittenOpen
  <2>4. e \notin NewIn(s)
    BY <2>2 DEF DataInv, NewOk, s
  <2>5. Sole(t, e)
    BY <2>3, <2>4, <1>1 DEF DataInv, WriteOk, JustPut, s, x
  <2> QED BY <2>1, <2>5, <1>1, <1>7, SoleAlone DEF DataInv
<1>9. /\ L \in Seq(StepSet(t)) /\ L # <<>> /\ Head(L).op \in {"dec", "delete"}
      /\ SetIn(L) = SetIn(s) /\ NewIn(L) = NewIn(s) /\ DelIn(L) = DelIn(s) \cup {c}
      /\ Open(L) = Open(s)
      /\ \A b \in Blocks : Carried(L, b) = Carried(r, b) + One(e, b)
      /\ Sound(Mine(t), L)
  <2>1. \A b \in Blocks : HeadIs(r, "inc", b) => Carried(r, b) >= 1 \/ b \in Mine(t)
    BY <1>0, <1>1 DEF HeadIs, Follows, IsNew
  <2>2. c \notin DelIn(r)
    BY <1>3, <1>6 DEF s
  <2>3. \A b \in Blocks : Carried(r, b) \in Nat
    BY <1>0
  <2>4. d.at \notin WrittenIn(r)
    BY <1>8, <1>p
  <2>5. /\ L \in Seq(StepSet(t)) /\ L # <<>> /\ Head(L).op \in {"dec", "delete"}
        /\ SetIn(L) = SetIn(r) /\ NewIn(L) = NewIn(r) /\ DelIn(L) = DelIn(r) \cup {c}
        /\ Open(L) = Open(r)
        /\ \A b \in Blocks : Carried(L, b) = Carried(r, b) + One(d.at, b)
        /\ Sound(Mine(t), L)
    <3>1. /\ t \in Nat /\ r \in Seq(StepSet(t)) /\ c \in Blocks /\ d \in DataSet /\ L = Destroyed(c, d, r)
          /\ Sound(Mine(t), r) /\ c \notin WrittenIn(r)
      BY <1>0, <1>1, <1>p, <1>6, <1>7
    <3> QED BY ONLY <2>1, <2>2, <2>3, <2>4, <3>1, Destroying
  <2> QED BY <2>5, <1>3, <1>p
<1>10. /\ DOMAIN heap' = DOMAIN heap /\ heap'[c].ref = 0
       /\ \A b \in DOMAIN heap : heap'[b].inner = heap[b].inner
       /\ \A b \in DOMAIN heap : b # c => heap'[b] = heap[b]
       /\ heap' \in [DOMAIN heap' -> BlockSet]
  <2>0. heap \in [DOMAIN heap -> BlockSet] /\ c \in DOMAIN heap
    BY <1>5 DEF DataInv, Typed, Live
  <2> USE <2>0
  <2>1. heap[c] \in BlockSet /\ heap'[c] = [heap[c] EXCEPT !.ref = @ - 1]
    OBVIOUS
  <2>2. heap'[c] \in BlockSet /\ heap'[c].ref = 0 /\ heap'[c].inner = heap[c].inner
    <3>1. heap[c].ref - 1 = 0
      BY <1>5
    <3>2. \A n \in Nat : /\ [heap[c] EXCEPT !.ref = n] \in BlockSet /\ [heap[c] EXCEPT !.ref = n].ref = n
                         /\ [heap[c] EXCEPT !.ref = n].inner = heap[c].inner
      BY <2>1, BlockChange
    <3>3. heap'[c] = [heap[c] EXCEPT !.ref = heap[c].ref - 1]
      BY <2>1
    <3>4. PICK n : n = heap[c].ref - 1
      OBVIOUS
    <3>5. n = 0 /\ n \in Nat /\ heap'[c] = [heap[c] EXCEPT !.ref = n]
      BY <3>1, <3>3, <3>4
    <3> QED BY <3>2, <3>5
  <2> QED BY <2>2
<1>11. Typed'
  BY <1>2, <1>9, <1>10, TypedAfter DEF DataInv, Typed
<1>12. \A b : Kept(b)' = Kept(b) \ {Within(c)} /\ (Within(c) \in Kept(b) <=> b = e)
  <2>1. Places' = Places
    BY <1>10 DEF Places, Handles, Names
  <2>2. \A q \in Places : Data(q)' = Data(q)
    <3>1. \A h \in Handles : Data(Here(h))' = Data(Here(h))
      BY DEF Data, Here
    <3>2. \A a \in DOMAIN heap : Data(Within(a))' = Data(Within(a))
      <4>1. NoBlock \notin DOMAIN heap
        BY PlacesDiffer DEF DataInv, Typed
      <4> QED BY <4>1, <1>10 DEF Data, Within
    <3> QED BY <3>1, <3>2 DEF Places
  <2>3. \A q \in Places : q # Within(c) => q.block # c
    BY <1>1, PlacesDiffer DEF Places
  <2>4. \A q \in Places \ {Within(c)} : Busy(q)' <=> Busy(q)
    BY <2>3, <1>2, <1>9 DEF Busy, s
  <2>5. Busy(Within(c))'
    BY <1>2, <1>9, PlacesDiffer DEF Busy
  <2>6. Data(Within(c)).at = e
    BY <1>1, <1>p, PlacesDiffer DEF Data
  <2> QED BY <2>1, <2>2, <2>4, <2>5, <2>6, <1>7 DEF Kept
<1>13. AllCounted'
  <2> SUFFICES ASSUME NEW b \in Blocks PROVE Counted(b)'
    BY DEF AllCounted
  <2>0. Counted(b)
    BY DEF DataInv, AllCounted
  <2>1. Cardinality(Kept(b)) \in Nat /\ IsFiniteSet(Kept(b)) /\ Ref(b) \in Nat
    BY <2>0, CountedFacts, FS_CardinalityType DEF Counted
  <2>2. Ref(b)' = Ref(b) - One(c, b)
    BY <2>1, <1>5, <1>10 DEF Ref, Live, One
  <2>3. IsFiniteSet(Kept(b)') /\ Cardinality(Kept(b)') = Cardinality(Kept(b)) - One(e, b)
    <3>1. Kept(b)' = Kept(b) \ {Within(c)} /\ (Within(c) \in Kept(b) <=> b = e)
      BY <1>12
    <3> QED BY <2>1, <3>1, FS_RemoveElement DEF One
  <2>4. Carried(todo[t], b) \in Nat /\ Carried(L, b) \in Nat
        /\ Carried(L, b) - Carried(todo[t], b) = One(e, b) - One(c, b)
    <3>1. One(e, b) \in Nat /\ One(c, b) \in Nat
      BY DEF One
    <3>2. Carried(L, b) = Carried(r, b) + One(e, b) /\ Carried(s, b) = Carried(r, b) + One(c, b) /\ Carried(r, b) \in Nat
      BY <1>0, <1>3, <1>9
    <3> QED BY <3>1, <3>2 DEF s
  <2>5. Ref(b)' = Ref(b) + (Cardinality(Kept(b)') - Cardinality(Kept(b))) + (Carried(L, b) - Carried(todo[t], b))
    <3>1. One(e, b) \in Nat /\ One(c, b) \in Nat
      BY DEF One
    <3>2. PICK x1, x2, m, n : x1 = Ref(b) /\ x2 = Cardinality(Kept(b)) /\ m = One(c, b) /\ n = One(e, b)
      OBVIOUS
    <3>3. x1 \in Nat /\ x2 \in Nat /\ m \in Nat /\ n \in Nat
      BY <2>1, <3>1, <3>2
    <3>4. x1 - m = x1 + ((x2 - n) - x2) + (n - m)
      BY <3>3
    <3> QED BY <2>2, <2>3, <2>4, <3>2, <3>4
  <2> QED BY <2>0, <2>3, <2>4, <2>5, <1>2, CountedAfter DEF DataInv
<1>14. Mine(t)' = Mine(t)
  BY <1>2, <1>9 DEF Mine, Own, Names, s
<1>15. OwnOk(t)'
  <2>1. \A b \in DelIn(L) : b \in DOMAIN heap' /\ heap'[b].ref = 0
    <3> SUFFICES ASSUME NEW b \in DelIn(L), b # c PROVE b \in DOMAIN heap' /\ heap'[b].ref = 0
      BY <1>5, <1>10 DEF Live
    <3>1. Live(b) /\ heap[b].ref = 0
      BY <1>9 DEF s, DataInv, DelOk
    <3> QED BY <3>1, <1>10 DEF Live
  <2>2. \A b \in NewIn(L) : b \notin DOMAIN heap'
    BY <1>9, <1>10 DEF DataInv, NewOk, Live, s
  <2>3. \A b \in Open(L) : Sole(t, b)'
    <3> SUFFICES ASSUME NEW b \in Open(L) PROVE Sole(t, b)'
      OBVIOUS
    <3>1. b \in Blocks /\ b \in Open(s) /\ b \in WrittenIn(r)
      BY <1>3, <1>9 DEF Open, WrittenIn
    <3>2. Sole(t, b)
      BY <3>1, <1>1 DEF DataInv, WriteOk, JustPut, s, x
    <3>3. b # c /\ b # e
      BY <3>1, <1>6, <1>8
    <3>4. Ref(b)' = Ref(b)
      BY <3>3, <1>10 DEF Ref, Live
    <3>5. Carried(todo'[t], b) = Carried(todo[t], b)
      <4>1. One(e, b) = 0 /\ One(c, b) = 0
        BY <3>3 DEF One
      <4>2. Carried(L, b) = Carried(r, b) + 0 /\ Carried(s, b) = Carried(r, b) + 0
        BY <4>1, <3>1, <1>3, <1>9
      <4> QED BY <4>2, <1>2 DEF s
    <3> QED BY <3>2, <3>4, <3>5, <1>14 DEF Sole, Owns
  <2>4. \A b : ~HeadIs(L, "inc", b)
    BY <1>9 DEF HeadIs
  <2> QED BY <2>1, <2>2, <2>3, <2>4, <1>2, <1>9, <1>14 DEF OwnOk, Live
<1>16. AllSound' /\ HeadOk' /\ NewOk' /\ DelOk' /\ WriteOk' /\ ZeroOk'
  <2>1. \A b \in Blocks : ~HeadIs(todo[t], "inc", b)
    BY <1>1 DEF HeadIs, x, s
  <2>2. \A b \in Blocks \ {c} : (b \in DOMAIN heap' <=> Live(b)) /\ (Live(b) => heap'[b].ref = heap[b].ref)
    BY <1>10 DEF Live
  <2>3. DelIn(L) \subseteq DelIn(todo[t]) \cup {c} /\ DelIn(todo[t]) \ {c} \subseteq DelIn(L) /\ c \in DelIn(L)
    BY <1>9 DEF s
  <2>4. DOMAIN heap' \subseteq Blocks /\ (c \in DOMAIN heap' => Live(c))
    BY <1>5, <1>10 DEF DataInv, Typed
  <2>5. \A u \in Threads \ {t} : \A a, b \in Blocks : Owns(u, a) /\ Within(a) \in Kept(b) => Within(a) \in Kept(b)'
    <3> SUFFICES ASSUME NEW u \in Threads \ {t}, NEW a \in Blocks, NEW b \in Blocks, Owns(u, a), Within(a) \in Kept(b)
                 PROVE  Within(a) \in Kept(b)'
      OBVIOUS
    <3>1. a # c
      BY <1>1, <1>5, SoleAlone DEF DataInv
    <3> QED BY <3>1, <1>12, PlacesDiffer
  <2> QED BY <2>1, <2>2, <2>3, <2>4, <2>5, <1>2, <1>5, <1>15, OthersKeep
<1> QED BY <1>11, <1>13, <1>16 DEF DataInv

\* The thread has nothing to do with any reference but those of its handles.
Calm(t) == /\ SetIn(todo[t]) = {} /\ DelIn(todo[t]) = {}
           /\ \A b \in Blocks : Carried(todo[t], b) = 0 /\ ~HeadIs(todo[t], "inc", b)

\* The blocks of the handles of a thread that are not among the places P, which a list of steps sets.
Firm(t, P) == {b \in Blocks : \E h \in Own(t) : handle[h].at = b /\ Here(h) \notin P}

\* The steps L of a call may be begun.
Begun(t, L) ==
  /\ L \in Seq(StepSet(t)) /\ DelIn(L) = {} /\ Sound(Firm(t, SetIn(L)), L)
  /\ \A b \in NewIn(L) : ~Live(b)
  /\ \A b \in Blocks : HeadIs(L, "inc", b) =>
       \/ Carried(L, b) >= 1 \/ b \in Firm(t, SetIn(L))
       \/ \E a \in Blocks : (Carried(L, a) >= 1 \/ a \in Firm(t, SetIn(L))) /\ Within(a) \in Kept(b) \ SetIn(L)
  /\ \A b \in Open(L) : \/ Ref(b) = 1 /\ b \in Firm(t, SetIn(L))
                        \/ /\ JustPut(L) /\ Ref(b) = 1
                           /\ \E a \in Firm(t, SetIn(L)) : Ref(a) = 1 /\ Within(a) \in Kept(b) \ SetIn(L)
  /\ \A a \in Blocks : Within(a) \in SetIn(L) => a \in NewIn(L) \/ Sole(t, a)
  /\ \A b \in Blocks : Carried(L, b) = Cardinality(Kept(b) \cap SetIn(L))

\* A call begins: the steps may be begun, and the invariant holds with them.
LEMMA Begin ==
  ASSUME DataAssumption, DataInv, NEW t \in Threads, NEW L, Calm(t), Begun(t, L),
         todo' = [todo EXCEPT ![t] = L], UNCHANGED <<counted, heap, handle>>, value' \in [Handles -> Words \X Nat]
  PROVE  DataInv'
<1>0. /\ todo'[t] = L /\ \A u \in Threads \ {t} : todo'[u] = todo[u]
      /\ Typed /\ AllCounted
  BY DEF DataInv, Typed
<1>1. Typed'
  BY <1>0, TypedAfter DEF Typed, Begun
<1>2. Mine(t)' = Firm(t, SetIn(L))
  BY <1>0 DEF Mine, Firm, Own, Names
<1>3. \A b : Ref(b)' = Ref(b) /\ (Live(b)' <=> Live(b))
  BY DEF Ref, Live
<1>4. \A b : Kept(b)' = Kept(b) \ SetIn(L)
  <2>1. Places' = Places /\ \A q : Data(q)' = Data(q)
    BY DEF Places, Handles, Names, Data
  <2>2. \A q : Busy(q)' <=> Busy(q) \/ q \in SetIn(L)
    BY <1>0 DEF Busy, Calm, Begun
  <2> QED BY <2>1, <2>2 DEF Kept
<1>5. AllCounted'
  <2> SUFFICES ASSUME NEW b \in Blocks PROVE Counted(b)'
    BY DEF AllCounted
  <2> DEFINE A == Kept(b)
             B == SetIn(L)
  <2>0. Counted(b) /\ IsFiniteSet(A)
    BY <1>0 DEF AllCounted, Counted
  <2>1. Kept(b)' = A \ B /\ Carried(L, b) = Cardinality(A \cap B) /\ Carried(todo[t], b) = 0
    BY <1>4 DEF Begun, Calm
  <2> HIDE DEF A, B
  <2>2. IsFiniteSet(A \ B) /\ Cardinality(A \ B) = Cardinality(A) - Cardinality(A \cap B)
    BY <2>0, FS_Difference
  <2>3. Cardinality(A \cap B) \in Nat /\ Cardinality(A) \in Nat /\ Ref(b) \in Nat
    <3>1. IsFiniteSet(A \cap B)
      BY <2>0, FS_Subset
    <3> QED BY <2>0, <3>1, FS_CardinalityType, CountedFacts
  <2>4. Carried(todo[t], b) \in Nat /\ Carried(L, b) \in Nat /\ IsFiniteSet(Kept(b)')
    BY <2>1, <2>2, <2>3
  <2>5. Ref(b)' = Ref(b) + (Cardinality(Kept(b)') - Cardinality(Kept(b))) + (Carried(L, b) - Carried(todo[t], b))
    BY <1>3, <2>1, <2>2, <2>3 DEF A
  <2> QED BY <1>0, <2>0, <2>4, <2>5, CountedAfter
<1>6. OwnOk(t)'
  <2>1. Sound(Mine(t)', L) /\ DelIn(L) = {} /\ \A b \in NewIn(L) : ~Live(b)'
    BY <1>2, <1>3 DEF Begun
  <2>2. \A b : Owns(t, b)' <=> Carried(L, b) >= 1 \/ b \in Firm(t, SetIn(L))
    BY <1>0, <1>2 DEF Owns
  <2>3. \A b \in Blocks : HeadIs(L, "inc", b) => Owns(t, b)' \/ Reach(t, b)'
    <3> SUFFICES ASSUME NEW b \in Blocks, HeadIs(L, "inc", b) PROVE Owns(t, b)' \/ Reach(t, b)'
      OBVIOUS
    <3>1. \/ Carried(L, b) >= 1 \/ b \in Firm(t, SetIn(L))
          \/ \E a \in Blocks : (Carried(L, a) >= 1 \/ a \in Firm(t, SetIn(L))) /\ Within(a) \in Kept(b) \ SetIn(L)
      BY DEF Begun
    <3>2. CASE \E a \in Blocks : (Carried(L, a) >= 1 \/ a \in Firm(t, SetIn(L))) /\ Within(a) \in Kept(b) \ SetIn(L)
      <4>1. PICK a \in Blocks : (Carried(L, a) >= 1 \/ a \in Firm(t, SetIn(L))) /\ Within(a) \in Kept(b)'
        BY <3>2, <1>4
      <4>2. Owns(t, a)'
        BY <4>1, <2>2
      <4> QED BY <4>1, <4>2 DEF Reach
    <3> QED BY <3>1, <3>2, <2>2
  <2>4. \A b \in Open(L) : Sole(t, b)' \/ (JustPut(L) /\ SoleReach(t, b)')
    <3> SUFFICES ASSUME NEW b \in Open(L) PROVE Sole(t, b)' \/ (JustPut(L) /\ SoleReach(t, b)')
      OBVIOUS
    <3>1. CASE Ref(b) = 1 /\ b \in Firm(t, SetIn(L))
      BY <3>1, <2>2, <1>3 DEF Sole
    <3>2. CASE JustPut(L) /\ Ref(b) = 1 /\ \E a \in Firm(t, SetIn(L)) : Ref(a) = 1 /\ Within(a) \in Kept(b) \ SetIn(L)
      <4>1. PICK a \in Firm(t, SetIn(L)) : Ref(a)' = 1 /\ Within(a) \in Kept(b)'
        BY <3>2, <1>3, <1>4
      <4>2. a \in Blocks /\ Sole(t, a)'
        BY <4>1, <2>2 DEF Firm, Sole
      <4>3. Ref(b)' = 1
        BY <3>2, <1>3
      <4> QED BY <3>2, <4>1, <4>2, <4>3 DEF SoleReach
    <3> QED BY <3>1, <3>2 DEF Begun
  <2> QED BY <2>1, <2>3, <2>4, <1>0 DEF OwnOk
<1>7. AllSound' /\ HeadOk' /\ NewOk' /\ DelOk' /\ WriteOk' /\ ZeroOk'
  <2>1. \A b \in Blocks : ~HeadIs(todo[t], "inc", b)
    BY DEF Calm
  <2>2. Untouched(t, NoBlock) /\ NoBlock \notin DOMAIN heap'
    BY UntouchedNone
  <2>3. \A b \in Blocks : (b \in DOMAIN heap' <=> Live(b)) /\ (Live(b) => heap'[b].ref = heap[b].ref)
    BY DEF Live
  <2>4. DelIn(L) = DelIn(todo[t]) /\ DOMAIN heap' \subseteq Blocks
    BY DEF Begun, Calm, DataInv, Typed
  <2>5. \A u \in Threads \ {t} : \A a, b \in Blocks : Owns(u, a) /\ Within(a) \in Kept(b) => Within(a) \in Kept(b)'
    <3> SUFFICES ASSUME NEW u \in Threads \ {t}, NEW a \in Blocks, NEW b \in Blocks, Owns(u, a), Within(a) \in SetIn(L)
                 PROVE  FALSE
      BY <1>4
    <3>1. Live(a)
      BY <1>0, OwnsLive
    <3>2. Sole(t, a)
      BY <3>1 DEF Begun
    <3> QED BY <1>0, <3>2, SoleAlone
  <2> QED BY <2>1, <2>2, <2>3, <2>4, <2>5, <1>0, <1>6, OthersKeep
<1> QED BY <1>1, <1>5, <1>7 DEF DataInv
=============================================================================
